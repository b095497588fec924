----------------------------- MODULE MCCliLogin -----------------------------
EXTENDS CliLogin, TLC

CONSTANTS g1, l1, l2

=============================================================================
