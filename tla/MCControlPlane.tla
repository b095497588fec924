--------------------------- MODULE MCControlPlane ---------------------------
(***************************************************************************)
(* Small instances of ControlPlane for TLC.  Ports 1 and 2 are the range,  *)
(* port 3 is one a CLI may ask for outside of it.                          *)
(***************************************************************************)
EXTENDS ControlPlane, TLC

CONSTANTS c1, c2, c3, n1, n2, laptop, fra, nyc

\* Every CLI reports the same host: connections are interchangeable.
OneHost == [c \in Clis |-> laptop]

\* The second CLI is an old one that does not report its host.
SomeHosts == [c \in Clis |-> IF c = c1 THEN laptop ELSE None]

\* No edge node ever registers: every tunnel is served directly.
NoNames == [n \in {} |-> None]

\* Two nodes of one name, or of two.
SameName == [n \in Nodes |-> fra]
TwoNames == [n \in Nodes |-> IF n = n1 THEN fra ELSE nyc]

Interchangeable == Permutations(Clis) \cup Permutations(Nodes)
=============================================================================
