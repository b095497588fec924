--------------------------- MODULE TunnelCommand ---------------------------
(***************************************************************************)
(* What `borehole start` promises its user, with no frames, sockets or     *)
(* timers in it: a tunnel that is lost, or was never made, is tried for    *)
(* again, three times over the life of the command; the failure after that *)
(* is reported as an error, and no other is.                               *)
(***************************************************************************)
EXTENDS Naturals

CONSTANT Retries  \* failures that are forgiven

VARIABLES phase,    \* trying, up, waiting to try again, or how the command ended
          attempts  \* attempts begun after the first one

vars == <<phase, attempts>>

Init == phase = "trying" /\ attempts = 0

Open == phase = "trying" /\ phase' = "up" /\ UNCHANGED attempts

\* An attempt fails, or an open tunnel is lost.
Lose == /\ phase \in {"trying", "up"}
        /\ phase' = IF attempts < Retries THEN "waiting" ELSE "error"
        /\ UNCHANGED attempts

TryAgain == phase = "waiting" /\ phase' = "trying" /\ attempts' = attempts + 1

\* Closed by the user: cleanly, once a tunnel is up.
Close == /\ \/ phase = "up" /\ phase' = "closed"
            \/ phase \in {"trying", "up", "waiting"} /\ phase' = "killed"
         /\ UNCHANGED attempts

Next == Open \/ Lose \/ TryAgain \/ Close

Spec == Init /\ [][Next]_vars
=============================================================================
