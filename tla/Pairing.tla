------------------------------ MODULE Pairing ------------------------------
(***************************************************************************)
(* What a rendezvous of visitors and data sockets promises, with no maps,  *)
(* channels or timers in it.  A visitor is paired at most once, and only   *)
(* while it is waiting, with a socket that named it; a socket is paired at *)
(* most once; a visitor that was given up on is never paired, and a socket *)
(* that was discarded neither.                                             *)
(***************************************************************************)
CONSTANTS Visitors,  \* conn_ids, one per visitor
          Sockets,   \* data connections
          None

VARIABLES state,     \* where each visitor is
          named,     \* the visitor a socket asked for, or None
          spent,     \* sockets that were paired or discarded
          pairs      \* the visitors being served, each with its socket

vars == <<state, named, spent, pairs>>

Init == /\ state = [v \in Visitors |-> "absent"]
        /\ named = [s \in Sockets |-> None]
        /\ spent = {}
        /\ pairs = {}

Arrive(v) == /\ state[v] = "absent"
             /\ state' = [state EXCEPT ![v] = "waiting"]
             /\ UNCHANGED <<named, spent, pairs>>

Name(s, v) == /\ named[s] = None
              /\ s \notin spent
              /\ state[v] # "absent"
              /\ named' = [named EXCEPT ![s] = v]
              /\ UNCHANGED <<state, spent, pairs>>

Pair(v, s) == /\ state[v] = "waiting"
              /\ named[s] = v
              /\ s \notin spent
              /\ state' = [state EXCEPT ![v] = "paired"]
              /\ spent' = spent \cup {s}
              /\ pairs' = pairs \cup {<<v, s>>}
              /\ UNCHANGED named

\* The visitor is given up on, or has been served; sockets that asked for it may
\* go with it.
Leave(v) == /\ state[v] \in {"waiting", "paired"}
            /\ state' = [state EXCEPT ![v] = "gone"]
            /\ pairs' = {p \in pairs : p[1] # v}
            /\ \E gone \in SUBSET {s \in Sockets : named[s] = v} : spent' = spent \cup gone
            /\ UNCHANGED named

Discard(s) == /\ spent' = spent \cup {s}
              /\ UNCHANGED <<state, named, pairs>>

Next == \/ \E v \in Visitors : Arrive(v) \/ Leave(v)
        \/ \E s \in Sockets : Discard(s)
        \/ \E v \in Visitors, s \in Sockets : Name(s, v) \/ Pair(v, s)

Spec == Init /\ [][Next]_vars
=============================================================================
