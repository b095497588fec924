---------------------------- MODULE MCTokenPage ----------------------------
EXTENDS TokenPage, TLC

CONSTANTS k1, k2, k3, i1, i2

=============================================================================
