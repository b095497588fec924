---------------------------- MODULE MCNodeAgent ----------------------------
(* Small instances of NodeAgent for TLC. *)
EXTENDS NodeAgent, TLC

CONSTANTS t1, t2, v1, v2, s1, p1

=============================================================================
