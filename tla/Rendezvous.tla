----------------------------- MODULE Rendezvous -----------------------------
(***************************************************************************)
(* The rendezvous of visitors with data sockets, which the server (direct  *)
(* path) and the edge node both run: a visitor registers a oneshot sender  *)
(* under a fresh conn_id in the pending map and waits on the receiver for  *)
(* at most 10 s; a data connection takes the sender its DataConn frame     *)
(* names out of the map and sends itself through it.                       *)
(*                                                                         *)
(* The conn_id v stands for the visitor, its oneshot and the task that     *)
(* waits for it.  The runtime is multi-threaded: a task may be overtaken   *)
(* between any two calls, even where it does not await.  Time is left out: *)
(* the timer of a visitor may go off whenever it is polled.                *)
(***************************************************************************)
CONSTANTS Visitors,  \* conn_ids, one per accepted visitor
          Sockets,   \* data connections, one per handle_data_conn
          None       \* no socket, no conn_id

ASSUME RendezvousAssumption == None \notin Visitors \cup Sockets

VARIABLES
  pending,   \* conn_ids with a sender in the pending map
  visitor,   \* where each visitor, and with it the receiver, is
  slot,      \* the socket that was sent through the oneshot and not taken, or None
  told,      \* conn_ids whose NewConn may have reached a CLI
  socket,    \* where each data connection is
  claim      \* the conn_id whose sender a data connection took, or None

rendezvousVars == <<pending, visitor, slot, told, socket, claim>>

\* held: by the accept loop; unwind: by a loop whose notice failed; elapsed: its
\* timer went off; forget: its receiver is dropped, its sender still in the map.
VisitorPC == {"absent", "held", "unwind", "waiting", "elapsed", "forget",
              "spliced", "record", "served", "dropped"}
SocketPC == {"reading", "deliver", "queued", "spliced", "closed"}

\* The receiver exists: what is sent to it is accepted.
HasReceiver(v) == visitor[v] \in {"held", "unwind", "waiting", "elapsed"}

RendezvousInit ==
  /\ pending = {}
  /\ visitor = [v \in Visitors |-> "absent"]
  /\ slot = [v \in Visitors |-> None]
  /\ told = {}
  /\ socket = [s \in Sockets |-> "reading"]
  /\ claim = [s \in Sockets |-> None]

-----------------------------------------------------------------------------
(* The accept loop *)

\* A visitor is accepted and its sender registered.
Admit(v) == /\ visitor[v] = "absent"
            /\ visitor' = [visitor EXCEPT ![v] = "held"]
            /\ pending' = pending \cup {v}
            /\ UNCHANGED <<slot, told, socket, claim>>

\* From here on a CLI may dial in for it.
Announce(v) == /\ told' = told \cup {v}
               /\ UNCHANGED <<pending, visitor, slot, socket, claim>>

\* Its own task takes the visitor over.
Spawn(v) == /\ visitor[v] = "held"
            /\ visitor' = [visitor EXCEPT ![v] = "waiting"]
            /\ UNCHANGED <<pending, slot, told, socket, claim>>

\* The notice could not be written: the sender leaves the map.
Withdraw(v) == /\ visitor[v] = "held"
               /\ visitor' = [visitor EXCEPT ![v] = "unwind"]
               /\ pending' = pending \ {v}
               /\ UNCHANGED <<slot, told, socket, claim>>

\* The receiver is dropped, with the socket that may have been sent to it.
DropReceiver(v, from, to) ==
  /\ visitor[v] = from
  /\ visitor' = [visitor EXCEPT ![v] = to]
  /\ socket' = [s \in Sockets |-> IF s = slot[v] THEN "closed" ELSE socket[s]]
  /\ slot' = [slot EXCEPT ![v] = None]
  /\ UNCHANGED <<pending, told, claim>>

-----------------------------------------------------------------------------
(* The task of a visitor: tokio::time::timeout polls the receiver first, and *)
(* the timer only when nothing has been sent.                                *)

Receive(v) == /\ visitor[v] = "waiting"
              /\ slot[v] # None
              /\ visitor' = [visitor EXCEPT ![v] = "spliced"]
              /\ socket' = [socket EXCEPT ![slot[v]] = "spliced"]
              /\ slot' = [slot EXCEPT ![v] = None]
              /\ UNCHANGED <<pending, told, claim>>

\* Fault: the task of the visitor starts the timer again.
Elapse_Restarts(v) ==
  visitor[v] = "waiting" /\ slot[v] = None /\ UNCHANGED rendezvousVars

\* The timer is found to have gone off; the receiver is about to be dropped.
Elapse(v) == /\ visitor[v] = "waiting"
             /\ slot[v] = None
             /\ visitor' = [visitor EXCEPT ![v] = "elapsed"]
             /\ UNCHANGED <<pending, slot, told, socket, claim>>

TimeOut(v) == DropReceiver(v, "elapsed", "forget")

\* The sender nobody took leaves the map, and the visitor is closed.
Forget(v) == /\ visitor[v] = "forget"
             /\ visitor' = [visitor EXCEPT ![v] = "dropped"]
             /\ pending' = pending \ {v}
             /\ UNCHANGED <<slot, told, socket, claim>>

\* Either end of the spliced sockets closes.
EndSplice(v, to) ==
  /\ visitor[v] = "spliced"
  /\ visitor' = [visitor EXCEPT ![v] = to]
  /\ socket' = [s \in Sockets |-> IF socket[s] = "spliced" /\ claim[s] = v
                                  THEN "closed" ELSE socket[s]]
  /\ UNCHANGED <<pending, slot, told, claim>>

-----------------------------------------------------------------------------
(* handle_data_conn *)

\* Fault: the sender is looked up and stays in the map.
TakeSender_Copies(s) ==
  /\ socket[s] = "reading"
  /\ \E v \in told \cap pending : claim' = [claim EXCEPT ![s] = v]
  /\ socket' = [socket EXCEPT ![s] = "deliver"]
  /\ UNCHANGED <<pending, visitor, slot, told>>

\* The frame names a conn_id whose sender is in the map.
TakeSender(s) ==
  /\ socket[s] = "reading"
  /\ \E v \in told \cap pending : /\ claim' = [claim EXCEPT ![s] = v]
                                  /\ pending' = pending \ {v}
  /\ socket' = [socket EXCEPT ![s] = "deliver"]
  /\ UNCHANGED <<visitor, slot, told>>

\* No frame, another frame, or a conn_id without a sender.
Discard(s) == /\ socket[s] = "reading"
              /\ socket' = [socket EXCEPT ![s] = "closed"]
              /\ UNCHANGED <<pending, visitor, slot, told, claim>>

\* Fault: the socket goes to whichever visitor waits.
Deliver_ToAnyone(s) ==
  /\ socket[s] = "deliver"
  /\ \/ \E v \in Visitors : /\ HasReceiver(v) /\ slot[v] = None
                            /\ slot' = [slot EXCEPT ![v] = s]
                            /\ socket' = [socket EXCEPT ![s] = "queued"]
     \/ socket' = [socket EXCEPT ![s] = "closed"] /\ UNCHANGED slot
  /\ UNCHANGED <<pending, visitor, told, claim>>

\* tx.send: without a receiver the socket comes back, and is dropped.
Deliver(s) ==
  /\ socket[s] = "deliver"
  /\ LET v == claim[s] IN
       \/ /\ HasReceiver(v)
          /\ slot' = [slot EXCEPT ![v] = s]
          /\ socket' = [socket EXCEPT ![s] = "queued"]
       \/ /\ ~HasReceiver(v)
          /\ socket' = [socket EXCEPT ![s] = "closed"]
          /\ UNCHANGED slot
  /\ UNCHANGED <<pending, visitor, told, claim>>

-----------------------------------------------------------------------------
(* Properties of both users of the rendezvous *)

RendezvousTypeOK ==
  /\ pending \subseteq Visitors
  /\ visitor \in [Visitors -> VisitorPC]
  /\ slot \in [Visitors -> Sockets \cup {None}]
  /\ told \subseteq Visitors
  /\ socket \in [Sockets -> SocketPC]
  /\ claim \in [Sockets -> Visitors \cup {None}]

\* No data connection is lost between two owners: one that was sent through a
\* oneshot is in the oneshot it asked for, whose receiver is alive to take it or
\* to drop it, and no oneshot was sent to twice.
NoSocketLost ==
  /\ \A s \in Sockets : socket[s] = "queued" <=>
       \E v \in Visitors : slot[v] = s /\ claim[s] = v /\ HasReceiver(v)
  /\ \A s, r \in Sockets :
       /\ {socket[s], socket[r]} \subseteq {"deliver", "queued", "spliced"}
       /\ claim[s] = claim[r]
       => s = r

\* The rendezvous implements Pairing.  A visitor whose timer went off, or whose
\* notice failed, counts as given up on from that moment.
Stage(pc) == IF pc = "absent" THEN "absent"
             ELSE IF pc \in {"held", "waiting"} THEN "waiting"
             ELSE IF pc = "spliced" THEN "paired"
             ELSE "gone"
Stages == [v \in Visitors |-> Stage(visitor[v])]
Spent == {s \in Sockets : socket[s] \in {"spliced", "closed"}}
Pairs == {p \in Visitors \X Sockets : /\ visitor[p[1]] = "spliced"
                                      /\ socket[p[2]] = "spliced"
                                      /\ claim[p[2]] = p[1]}

Paired == INSTANCE Pairing WITH state <- Stages, named <- claim,
                                spent <- Spent, pairs <- Pairs
ImplementsPairing == Paired!Spec
=============================================================================
