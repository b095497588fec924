----------------------------- MODULE NodeAgent -----------------------------
(***************************************************************************)
(* The edge node (crates/node/src/main.rs).  One session at a time with    *)
(* the server: the node reads orders in sequence and runs one accept loop  *)
(* per open tunnel, a task it can only abort.  abort is a request: the     *)
(* task goes on until it next gives way, and is dropped there, together    *)
(* with its listener.  The loops report visitors on one control stream,    *)
(* behind an async mutex; the rendezvous with the data sockets outlives    *)
(* the sessions.                                                           *)
(***************************************************************************)
EXTENDS Rendezvous, Sequences, Naturals

CONSTANTS Tunnels,       \* tunnel ids
          Ports,         \* public ports the server may order
          MaxSessions    \* bound: sessions of one node process

ASSUME NodeAgentAssumption == None \notin Ports /\ MaxSessions \in Nat

VARIABLES
  \* the server, as seen from the node
  link,      \* the control connection is up
  inbox,     \* orders sent and not read yet
  held,      \* the port the server holds for each tunnel, or None
  opened,    \* tunnels the server has ordered open, ever
  lost,      \* tunnels ordered on a session that is over
  \* the main task
  session,   \* where run_session is
  sessions,  \* number of sessions begun
  tunnels,   \* the HashMap of the handles: tunnels CloseTunnel can abort
  \* the accept loops and the writer they share
  task,      \* the await each tunnel_accept_loop has reached
  aborted,   \* tunnels whose task was asked to stop
  bound,     \* the public port of its listener, or None
  current,   \* the visitor it has in its hands (or had when it was dropped)
  torn,      \* the control stream ends in the middle of a frame
  spoilt     \* visitors whose frame was glued to the rest of another one

serverVars == <<held, opened, lost>>
mainVars == <<session, sessions, tunnels>>
taskVars == <<task, aborted, bound, current>>
writerVars == <<torn, spoilt>>
vars == <<rendezvousVars, link, inbox, serverVars, mainVars, taskVars, writerVars>>

TaskPC == {"none", "accept", "report", "half", "flush", "unwind", "dead"}

Order == [type : {"open_tunnel"}, tunnel_id : Tunnels, remote_port : Ports]
           \cup [type : {"close_tunnel"}, tunnel_id : Tunnels, remote_port : {None}]

Alive(t) == task[t] \notin {"none", "dead"}

Init == /\ RendezvousInit
        /\ link = FALSE
        /\ inbox = <<>>
        /\ held = [t \in Tunnels |-> None]
        /\ opened = {}
        /\ lost = {}
        /\ session = "connect"
        /\ sessions = 1
        /\ tunnels = {}
        /\ task = [t \in Tunnels |-> "none"]
        /\ aborted = {}
        /\ bound = [t \in Tunnels |-> None]
        /\ current = [t \in Tunnels |-> None]
        /\ torn = FALSE
        /\ spoilt = {}

-----------------------------------------------------------------------------
(* The server: it orders a port open for one tunnel at a time, and writes the *)
(* close before it gives the port to another one (PortHandoverOrdered).       *)

OrderOpen(t, p) ==
  /\ session = "serve" /\ link
  /\ t \notin opened
  /\ \A u \in Tunnels : held[u] # p
  /\ held' = [held EXCEPT ![t] = p]
  /\ opened' = opened \cup {t}
  /\ inbox' = Append(inbox, [type |-> "open_tunnel", tunnel_id |-> t, remote_port |-> p])
  /\ UNCHANGED <<rendezvousVars, link, lost, mainVars, taskVars, writerVars>>

\* An order for a session that is over reaches nobody.
OrderClose(t) ==
  /\ held[t] # None
  /\ held' = [held EXCEPT ![t] = None]
  /\ inbox' = IF link /\ t \notin lost
              THEN Append(inbox, [type |-> "close_tunnel", tunnel_id |-> t,
                                  remote_port |-> None])
              ELSE inbox
  /\ UNCHANGED <<rendezvousVars, link, opened, lost, mainVars, taskVars, writerVars>>

LinkDown == /\ link
            /\ link' = FALSE
            /\ UNCHANGED <<rendezvousVars, inbox, serverVars, mainVars, taskVars, writerVars>>

-----------------------------------------------------------------------------
(* main and run_session *)

\* Connected, registered, and told NodeRegistered.
BeginSession ==
  /\ session = "connect"
  /\ session' = "serve"
  /\ link' = TRUE
  /\ inbox' = <<>>
  /\ torn' = FALSE
  /\ UNCHANGED <<rendezvousVars, serverVars, sessions, tunnels, taskVars, spoilt>>

\* No server, no handshake, or another verdict.
SessionFails ==
  /\ session = "connect"
  /\ session' = "sleep"
  /\ UNCHANGED <<rendezvousVars, link, inbox, serverVars, sessions, tunnels, taskVars, writerVars>>

\* Fault for the mutation runs: the handles are dropped, which detaches the tasks.
EndSession_Detaches ==
  /\ session = "serve" /\ ~link
  /\ session' = "sleep"
  /\ inbox' = <<>>
  /\ tunnels' = {}
  /\ lost' = opened
  /\ UNCHANGED <<rendezvousVars, link, held, opened, sessions, taskVars, writerVars>>

\* serve_orders returns an error, with or without the orders that were on their
\* way; every public listener is asked to stop.
EndSession ==
  /\ session = "serve" /\ ~link
  /\ session' = "sleep"
  /\ inbox' = <<>>
  /\ aborted' = aborted \cup tunnels
  /\ tunnels' = {}
  /\ lost' = opened
  /\ UNCHANGED <<rendezvousVars, link, held, opened, sessions, task, bound, current, writerVars>>

\* RECONNECT_DELAY is over.  5 s are taken to be longer than an abort takes.
Reconnect ==
  /\ session = "sleep"
  /\ sessions < MaxSessions
  /\ \A t \in aborted : ~Alive(t)
  /\ session' = "connect"
  /\ sessions' = sessions + 1
  /\ UNCHANGED <<rendezvousVars, link, inbox, serverVars, tunnels, taskVars, writerVars>>

-----------------------------------------------------------------------------
(* serve_orders *)

ReadOrder(type) == /\ session = "serve"
                   /\ inbox # <<>>
                   /\ Head(inbox).type = type
                   /\ inbox' = Tail(inbox)
                   /\ UNCHANGED <<rendezvousVars, link, serverVars, session, sessions, writerVars>>

\* Fault: the handle is kept under the port.
OpenTunnel_ByPort ==
  /\ ReadOrder("open_tunnel")
  /\ \A u \in Tunnels : bound[u] # Head(inbox).remote_port
  /\ bound' = [bound EXCEPT ![Head(inbox).tunnel_id] = Head(inbox).remote_port]
  /\ task' = [task EXCEPT ![Head(inbox).tunnel_id] = "accept"]
  /\ tunnels' = tunnels \cup {Head(inbox).remote_port}
  /\ UNCHANGED <<aborted, current>>

\* open_tunnel: the port is bound and the accept loop spawned.
OpenTunnel ==
  /\ ReadOrder("open_tunnel")
  /\ LET t == Head(inbox).tunnel_id
         p == Head(inbox).remote_port
     IN /\ \A u \in Tunnels : bound[u] # p
        /\ bound' = [bound EXCEPT ![t] = p]
        /\ task' = [task EXCEPT ![t] = "accept"]
        /\ tunnels' = tunnels \cup {t}
  /\ UNCHANGED <<aborted, current>>

\* The port belongs to another socket of the machine, or of this process: the
\* order is dropped, and nobody told.
OpenTunnelFails == ReadOrder("open_tunnel") /\ UNCHANGED <<tunnels, taskVars>>

\* Fault: the handle stays in the map.
CloseTunnel_Keeps ==
  /\ ReadOrder("close_tunnel")
  /\ aborted' = aborted \cup ({Head(inbox).tunnel_id} \cap tunnels)
  /\ UNCHANGED <<tunnels, task, bound, current>>

\* A tunnel that could not be opened has no handle.
CloseTunnel ==
  /\ ReadOrder("close_tunnel")
  /\ aborted' = aborted \cup ({Head(inbox).tunnel_id} \cap tunnels)
  /\ tunnels' = tunnels \ {Head(inbox).tunnel_id}
  /\ UNCHANGED <<task, bound, current>>

-----------------------------------------------------------------------------
(* tunnel_accept_loop *)

TaskStep(t, from, to) == /\ task[t] = from
                         /\ task' = [task EXCEPT ![t] = to]
                         /\ UNCHANGED <<link, inbox, serverVars, mainVars, aborted>>

\* A visitor is accepted and its sender put into the pending map.
AcceptVisitor(t) ==
  /\ TaskStep(t, "accept", "report")
  /\ \E v \in Visitors : Admit(v) /\ current' = [current EXCEPT ![t] = v]
  /\ UNCHANGED <<bound, writerVars>>

\* The writer is locked and the frame begun.  What is on the stream after an
\* unfinished frame is part of that line for the server.
BeginReport(t) ==
  /\ \A u \in Tunnels : task[u] \notin {"half", "flush"}
  /\ TaskStep(t, "report", "half")
  /\ spoilt' = IF link /\ torn THEN spoilt \cup {current[t]} ELSE spoilt
  /\ torn' = TRUE
  /\ UNCHANGED <<rendezvousVars, bound, current>>

\* All of the frame is written, but not flushed yet: a server that can read it
\* tells the CLI, which may dial in at once.
FinishReport(t) ==
  /\ TaskStep(t, "half", "flush")
  /\ torn' = FALSE
  /\ IF link /\ current[t] \notin spoilt THEN Announce(current[t]) ELSE UNCHANGED rendezvousVars
  /\ UNCHANGED <<bound, current, spoilt>>

\* The frame cannot be written: the sender leaves the map.
ReportFails(t) ==
  /\ ~link
  /\ TaskStep(t, "half", "unwind") \/ TaskStep(t, "flush", "unwind")
  /\ Withdraw(current[t])
  /\ UNCHANGED <<bound, current, writerVars>>

\* The loop goes on: visitor and receiver are dropped.
DropVisitor(t) ==
  /\ TaskStep(t, "unwind", "accept")
  /\ DropReceiver(current[t], "unwind", "dropped")
  /\ current' = [current EXCEPT ![t] = None]
  /\ UNCHANGED <<bound, writerVars>>

\* Fault: the visitor is awaited by nobody.
SpawnWaiter_Omitted(t) ==
  /\ TaskStep(t, "flush", "accept")
  /\ visitor' = [visitor EXCEPT ![current[t]] = "dropped"]
  /\ current' = [current EXCEPT ![t] = None]
  /\ UNCHANGED <<pending, slot, told, socket, claim, bound, writerVars>>

\* The writer is unlocked and the visitor gets its own task.
SpawnWaiter(t) ==
  /\ TaskStep(t, "flush", "accept")
  /\ Spawn(current[t])
  /\ current' = [current EXCEPT ![t] = None]
  /\ UNCHANGED <<bound, writerVars>>

\* The runtime drops an aborted task at an await, with its listener, its visitor
\* and the receiver.  The sender stays in the pending map.
Die(t) ==
  /\ t \in aborted
  /\ task[t] \in {"accept", "report", "half", "flush"}
  /\ TaskStep(t, task[t], "dead")
  /\ bound' = [bound EXCEPT ![t] = None]
  /\ IF current[t] # None THEN DropReceiver(current[t], "held", "dropped")
                          ELSE UNCHANGED rendezvousVars
  /\ UNCHANGED <<current, writerVars>>

-----------------------------------------------------------------------------
(* The tasks of the visitors and of the data sockets *)

agentVars == <<link, inbox, serverVars, mainVars, taskVars, writerVars>>

Wait(v) == /\ Receive(v) \/ Elapse(v) \/ TimeOut(v) \/ Forget(v)
           /\ UNCHANGED agentVars

Pipe(v) == EndSplice(v, "served") /\ UNCHANGED agentVars

ReadDataConn(s) == (TakeSender(s) \/ Discard(s)) /\ UNCHANGED agentVars

SendSocket(s) == Deliver(s) /\ UNCHANGED agentVars

-----------------------------------------------------------------------------
(* The specification *)

ServeOrders == OpenTunnel \/ OpenTunnelFails \/ CloseTunnel

AcceptLoop(t) == \/ BeginReport(t) \/ FinishReport(t) \/ ReportFails(t)
                 \/ DropVisitor(t) \/ SpawnWaiter(t)

Environment == \/ LinkDown
               \/ \E t \in Tunnels : OrderClose(t) \/ \E p \in Ports : OrderOpen(t, p)

\* The bounds are used up, and every task has finished or waits for a visitor.
Finished == /\ session = "sleep" /\ sessions = MaxSessions
            /\ \A t \in Tunnels : /\ held[t] = None
                                  /\ ~Alive(t) \/ (task[t] = "accept" /\ t \notin aborted)
            /\ \A v \in Visitors : visitor[v] \in {"absent", "served", "dropped"}
            /\ \A s \in Sockets : socket[s] = "closed"
            /\ UNCHANGED vars

Next == \/ BeginSession \/ SessionFails \/ EndSession \/ Reconnect
        \/ ServeOrders
        \/ \E t \in Tunnels : AcceptVisitor(t) \/ AcceptLoop(t) \/ Die(t)
        \/ \E v \in Visitors : Wait(v) \/ Pipe(v)
        \/ \E s \in Sockets : ReadDataConn(s) \/ SendSocket(s)
        \/ Environment
        \/ Finished

Spec == Init /\ [][Next]_vars

\* Orders that have arrived are read, a session without a link ends, a frame is
\* written or fails, timers go off.  The cooperative budget of the runtime makes
\* an aborted task give way, however many visitors come, and there it is dropped.
FairSpec == /\ Spec
            /\ WF_vars(ServeOrders) /\ WF_vars(EndSession)
            /\ \A t \in Tunnels : WF_vars(AcceptLoop(t)) /\ SF_vars(Die(t))
            /\ \A v \in Visitors : WF_vars(Wait(v))
            /\ \A s \in Sockets : WF_vars(SendSocket(s))

-----------------------------------------------------------------------------
(* Properties *)

TypeOK == /\ RendezvousTypeOK
          /\ link \in BOOLEAN
          /\ inbox \in Seq(Order)
          /\ held \in [Tunnels -> Ports \cup {None}]
          /\ opened \subseteq Tunnels
          /\ lost \subseteq Tunnels
          /\ session \in {"connect", "serve", "sleep"}
          /\ sessions \in Nat
          /\ tunnels \subseteq Tunnels
          /\ task \in [Tunnels -> TaskPC]
          /\ aborted \subseteq Tunnels
          /\ bound \in [Tunnels -> Ports \cup {None}]
          /\ current \in [Tunnels -> Visitors \cup {None}]
          /\ torn \in BOOLEAN
          /\ spoilt \subseteq Visitors

\* No listener is out of the reach of its orders: a loop that was not asked to
\* stop has its handle in the map, where CloseTunnel and the end of the session
\* find it, and the handles in the map are those of running loops.
HandlesReachTasks == \A t \in Tunnels : t \in tunnels <=> Alive(t) /\ t \notin aborted

\* A sender without a waiting visitor is left in the pending map by nothing but
\* an abort, and an abort leaves one at most: the visitor its loop was reporting.
LeakOnlyByAbort ==
  \A v \in pending : \/ visitor[v] \in {"held", "waiting", "elapsed", "forget"}
                     \/ \E t \in aborted : task[t] = "dead" /\ current[t] = v

\* A tunnel the server has closed is without a listener in the end, for good,
\* whether the order arrives, the link drops before, or the session ends first.
ClosedTunnelStopsListening ==
  \A t \in Tunnels :
    t \in opened /\ held[t] = None ~> [](bound[t] = None)

\* A visitor of an edge node does not wait for ever, whatever happens to its
\* tunnel and to the session.
NoVisitorStuck ==
  \A v \in Visitors : visitor[v] = "held" ~> visitor[v] \in {"spliced", "dropped"}

=============================================================================
