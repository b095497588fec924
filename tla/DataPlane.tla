----------------------------- MODULE DataPlane -----------------------------
(***************************************************************************)
(* The server's data plane (crates/server/src/control.rs): serve_tunnel    *)
(* accepts visitors of a tunnel and tells its CLI, a task per visitor      *)
(* waits for the data socket and splices the two, and handle_data_conn     *)
(* delivers the sockets.  One serving loop per tunnel; all of them share   *)
(* the pending map and the ring of past connections (history.rs).          *)
(***************************************************************************)
EXTENDS Rendezvous, Sequences, Naturals

CONSTANTS Tunnels,         \* tunnels served directly
          MaxConnections   \* history::MAX_CONNECTIONS, capacity of the ring

ASSUME DataPlaneAssumption == MaxConnections \in Nat \ {0}

VARIABLES
  loop,          \* the await serve_tunnel has reached for each tunnel
  current,       \* the visitor the loop has in its hands, or None
  cliUp,         \* the CLI of the tunnel has not gone away
  connections    \* history: the connections served, oldest first

loopVars == <<loop, current>>
vars == <<rendezvousVars, loopVars, cliUp, connections>>

Init == /\ RendezvousInit
        /\ loop = [t \in Tunnels |-> "select"]
        /\ current = [t \in Tunnels |-> None]
        /\ cliUp = [t \in Tunnels |-> TRUE]
        /\ connections = <<>>

LoopStep(t, from, to, v) ==
  /\ loop[t] = from
  /\ loop' = [loop EXCEPT ![t] = to]
  /\ current' = [current EXCEPT ![t] = v]

-----------------------------------------------------------------------------
(* serve_tunnel *)

\* A visitor is accepted and its sender put into the pending map.
AcceptVisitor(t) ==
  /\ \E v \in Visitors : LoopStep(t, "select", "notify", v) /\ Admit(v)
  /\ UNCHANGED <<cliUp, connections>>

\* The NewConn is on its way: the CLI may answer before the loop goes on.
WriteNewConn(t) ==
  /\ LoopStep(t, "notify", "sent", current[t])
  /\ Announce(current[t])
  /\ UNCHANGED <<cliUp, connections>>

\* send is done: the visitor gets its own task, the loop selects again.
SpawnWaiter(t) ==
  /\ LoopStep(t, "sent", "select", None)
  /\ Spawn(current[t])
  /\ UNCHANGED <<cliUp, connections>>

\* Fault for the mutation runs: the loop breaks without touching the map.
NotifyFails_Keeps(t) ==
  /\ ~cliUp[t]
  /\ LoopStep(t, "notify", "unwind", current[t]) \/ LoopStep(t, "sent", "unwind", current[t])
  /\ visitor' = [visitor EXCEPT ![current[t]] = "unwind"]
  /\ UNCHANGED <<pending, slot, told, socket, claim, cliUp, connections>>

\* send returns an error, possibly after the frame was written (the flush).
NotifyFails(t) ==
  /\ ~cliUp[t]
  /\ LoopStep(t, "notify", "unwind", current[t]) \/ LoopStep(t, "sent", "unwind", current[t])
  /\ Withdraw(current[t])
  /\ UNCHANGED <<cliUp, connections>>

\* The loop is left, its visitor and the receiver are dropped.
Unwind(t) ==
  /\ LoopStep(t, "unwind", "ended", None)
  /\ DropReceiver(current[t], "unwind", "dropped")
  /\ UNCHANGED <<cliUp, connections>>

\* The dashboard closed the tunnel, or its CLI went away.  Visitors that have
\* their own task are not touched.
EndLoop(t) ==
  /\ LoopStep(t, "select", "ended", None)
  /\ UNCHANGED <<rendezvousVars, cliUp, connections>>

-----------------------------------------------------------------------------
(* The tasks of the visitors and of the data sockets *)

Wait(v) == /\ Receive(v) \/ Elapse(v) \/ TimeOut(v) \/ Forget(v)
           /\ UNCHANGED <<loopVars, cliUp, connections>>

Proxy(v) == EndSplice(v, "record") /\ UNCHANGED <<loopVars, cliUp, connections>>

\* Fault: the ring is trimmed one entry too late.
Evicted_OffByOne(queue) == IF Len(queue) > MaxConnections THEN Tail(queue) ELSE queue

\* History::record_connection: a full ring loses its oldest entry.
Evicted(queue) == IF Len(queue) = MaxConnections THEN Tail(queue) ELSE queue

\* Fault: the entry is made from the data connection.
RecordConnection_OfSocket(v) ==
  /\ visitor[v] = "record"
  /\ visitor' = [visitor EXCEPT ![v] = "served"]
  /\ \E s \in Sockets : claim[s] = v /\ connections' = Append(Evicted(connections), s)
  /\ UNCHANGED <<pending, slot, told, socket, claim, loopVars, cliUp>>

RecordConnection(v) ==
  /\ visitor[v] = "record"
  /\ visitor' = [visitor EXCEPT ![v] = "served"]
  /\ connections' = Append(Evicted(connections), v)
  /\ UNCHANGED <<pending, slot, told, socket, claim, loopVars, cliUp>>

\* The frame of a data connection is read, and names a waiting visitor or not.
ReadDataConn(s) == /\ TakeSender(s) \/ Discard(s)
                   /\ UNCHANGED <<loopVars, cliUp, connections>>

SendSocket(s) == Deliver(s) /\ UNCHANGED <<loopVars, cliUp, connections>>

CliGone(t) == /\ cliUp[t]
              /\ cliUp' = [cliUp EXCEPT ![t] = FALSE]
              /\ UNCHANGED <<rendezvousVars, loopVars, connections>>

-----------------------------------------------------------------------------
(* The specification *)

Notify(t) == WriteNewConn(t) \/ SpawnWaiter(t) \/ NotifyFails(t) \/ Unwind(t)

\* Every loop has ended and every visitor and data socket is settled.
Finished == /\ \A t \in Tunnels : loop[t] = "ended" /\ ~cliUp[t]
            /\ \A v \in Visitors : visitor[v] \in {"absent", "served", "dropped"}
            /\ \A s \in Sockets : socket[s] = "closed"
            /\ UNCHANGED vars

Next == \/ \E t \in Tunnels : AcceptVisitor(t) \/ Notify(t) \/ EndLoop(t) \/ CliGone(t)
        \/ \E v \in Visitors : Wait(v) \/ Proxy(v) \/ RecordConnection(v)
        \/ \E s \in Sockets : ReadDataConn(s) \/ SendSocket(s)
        \/ Finished

Spec == Init /\ [][Next]_vars

\* A frame written to the CLI succeeds or fails in the end, the timer of a visitor
\* goes off, and every ready task is polled.  Nothing bounds how long a visitor is
\* served, or how long a data connection takes to send its frame.
FairSpec == /\ Spec
            /\ \A t \in Tunnels : WF_vars(Notify(t))
            /\ \A v \in Visitors : WF_vars(Wait(v)) /\ WF_vars(RecordConnection(v))
            /\ \A s \in Sockets : WF_vars(SendSocket(s))

-----------------------------------------------------------------------------
(* Properties *)

TypeOK == /\ RendezvousTypeOK
          /\ loop \in [Tunnels -> {"select", "notify", "sent", "unwind", "ended"}]
          /\ current \in [Tunnels -> Visitors \cup {None}]
          /\ cliUp \in [Tunnels -> BOOLEAN]
          /\ connections \in Seq(Visitors)

\* Every sender in the pending map has somebody who will take it out again,
\* whatever becomes of the tunnel and of its CLI: a visitor that was dropped or
\* served leaves nothing behind.
NoSenderLeaked ==
  \A v \in pending : visitor[v] \in {"held", "waiting", "elapsed", "forget"}

\* The history shows exactly the visitors that were spliced with a data socket and
\* have finished, once each, down to what fell off the full ring.
HistoryExact ==
  /\ Len(connections) <= MaxConnections
  /\ \A i, j \in DOMAIN connections : connections[i] = connections[j] => i = j
  /\ \A i \in DOMAIN connections : visitor[connections[i]] = "served"
  /\ \A v \in Visitors : visitor[v] = "served" =>
       \/ \E i \in DOMAIN connections : connections[i] = v
       \/ Len(connections) = MaxConnections

\* Nobody waits for ever: an accepted visitor is spliced or dropped, even when its CLI
\* goes away or its tunnel is closed in between, and a data connection that sent its
\* frame is spliced or closed, even when the visitor gives up at the same moment.
NobodyStuck ==
  /\ \A v \in Visitors : visitor[v] = "held" ~> visitor[v] \in {"spliced", "dropped"}
  /\ \A s \in Sockets : socket[s] = "deliver" ~> socket[s] \in {"spliced", "closed"}
=============================================================================
