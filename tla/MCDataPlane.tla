---------------------------- MODULE MCDataPlane ----------------------------
(* Small instances of DataPlane for TLC. *)
EXTENDS DataPlane

CONSTANTS t1, t2, v1, v2, s1, s2, s3
=============================================================================
