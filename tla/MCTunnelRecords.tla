--------------------------- MODULE MCTunnelRecords ---------------------------
EXTENDS TunnelRecords, TLC

CONSTANTS p1, p2, v1, s1

=============================================================================
