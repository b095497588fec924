-------------------------- MODULE NodeAgent_proofs --------------------------
(***************************************************************************)
(* Proofs about the edge node, for any number of tunnels, ports, visitors, *)
(* data connections and sessions.                                          *)
(*                                                                         *)
(* The handles, the tasks and the orders depend on one another: an order   *)
(* to open a tunnel is for one that has had no task yet (OrdersFresh), so  *)
(* the task it spawns is not one that was aborted, and its handle replaces *)
(* no other.                                                               *)
(***************************************************************************)
EXTENDS NodeAgent, Rendezvous_proofs

\* The accept loop has a visitor in its hands, with its receiver.
Busy(t) == task[t] \in {"report", "half", "flush", "unwind"}

LoopsHold ==
  /\ \A t \in Tunnels : Busy(t) =>
       /\ current[t] \in Visitors
       /\ visitor[current[t]] = IF task[t] = "unwind" THEN "unwind" ELSE "held"
  /\ \A t, u \in Tunnels : Busy(t) /\ Busy(u) /\ current[t] = current[u] => t = u
  /\ \A t \in Tunnels : task[t] \in {"none", "accept"} => current[t] = None

\* A tunnel is ordered open once, and has no task before the order is read.
OrdersFresh ==
  /\ \A t \in Tunnels : t \notin opened => task[t] = "none" /\ t \notin aborted
  /\ \A i \in 1..Len(inbox) : inbox[i].type = "open_tunnel" =>
       /\ inbox[i].tunnel_id \in opened \ aborted
       /\ task[inbox[i].tunnel_id] = "none"
  /\ \A i, j \in 1..Len(inbox) :
       /\ inbox[i].type = "open_tunnel" /\ inbox[j].type = "open_tunnel"
       /\ inbox[i].tunnel_id = inbox[j].tunnel_id
       => i = j

IndInv == /\ TypeOK /\ RendezvousInv
          /\ LoopsHold /\ OrdersFresh /\ HandlesReachTasks /\ LeakOnlyByAbort

\* The steps of one accept loop.
LoopAction(t) == AcceptVisitor(t) \/ AcceptLoop(t) \/ Die(t)

\* The tasks of the visitors and of the data sockets.
PeerAction == \/ \E v \in Visitors : Wait(v) \/ Pipe(v)
              \/ \E s \in Sockets : ReadDataConn(s) \/ SendSocket(s)

MainAction == \/ BeginSession \/ SessionFails \/ EndSession \/ Reconnect
              \/ ServeOrders \/ Environment

LEMMA Cases ==
  [Next]_vars <=> \/ \E t \in Tunnels : LoopAction(t)
                  \/ PeerAction \/ MainAction \/ UNCHANGED vars
BY DEF Next, LoopAction, PeerAction, MainAction, Finished

-----------------------------------------------------------------------------
(* The actions are steps of the rendezvous, or leave it alone *)

LEMMA MainLeavesRendezvous == MainAction \/ UNCHANGED vars => UNCHANGED rendezvousVars
BY DEF MainAction, BeginSession, SessionFails, EndSession, Reconnect, ServeOrders,
   OpenTunnel, OpenTunnelFails, CloseTunnel, ReadOrder, Environment, LinkDown,
   OrderClose, OrderOpen, vars

LEMMA StepsAreRendezvous ==
  ASSUME IndInv, [Next]_vars
  PROVE  RendezvousNext \/ UNCHANGED rendezvousVars
<1>1. ASSUME NEW t \in Tunnels, LoopAction(t)
      PROVE  RendezvousNext \/ UNCHANGED rendezvousVars
  <2>1. task[t] \in {"report", "half", "flush", "unwind"} => current[t] \in Visitors
    BY DEF IndInv, LoopsHold, Busy
  <2>2. task[t] = "accept" => current[t] = None
    BY DEF IndInv, LoopsHold
  <2>3. CASE AcceptVisitor(t) \/ AcceptLoop(t)
    BY <2>1, <2>3 DEF AcceptVisitor, AcceptLoop, BeginReport, FinishReport, ReportFails,
       DropVisitor, SpawnWaiter, TaskStep, RendezvousNext, ReceiverStep, rendezvousVars
  <2>4. CASE Die(t)
    BY <2>1, <2>2, <2>4 DEF Die, RendezvousNext, ReceiverStep
  <2>5. QED
    BY <1>1, <2>3, <2>4 DEF LoopAction
<1>2. ASSUME PeerAction PROVE RendezvousNext
  BY <1>2 DEF PeerAction, Wait, Pipe, ReadDataConn, SendSocket, RendezvousNext, ReceiverStep
<1>3. QED
  BY <1>1, <1>2, Cases, MainLeavesRendezvous

-----------------------------------------------------------------------------
(* IndInv is inductive: the accept loops *)

LEMMA LoopStepInv ==
  ASSUME IndInv, NEW t \in Tunnels, LoopAction(t)
  PROVE  (TypeOK /\ LoopsHold /\ OrdersFresh /\ HandlesReachTasks /\ LeakOnlyByAbort)'
<1>1. RendezvousTypeOK'
  <2>1. RendezvousInv'
    BY StepsAreRendezvous, RendezvousStepInv, Cases DEF IndInv
  <2>2. QED
    BY <2>1 DEF RendezvousInv
<1> USE DEF IndInv, TypeOK, RendezvousTypeOK, LoopAction, AcceptLoop
<1>2. /\ UNCHANGED <<link, inbox, serverVars, mainVars, aborted>>
      /\ \E to \in TaskPC \ {"none"} : task' = [task EXCEPT ![t] = to]
      /\ task[t] \notin {"none", "dead"}
  BY DEF AcceptVisitor, BeginReport, FinishReport, ReportFails, DropVisitor,
     SpawnWaiter, Die, TaskStep, TaskPC
<1>3. OrdersFresh'
  BY <1>2 DEF OrdersFresh, serverVars
<1>4. HandlesReachTasks'
  BY <1>2 DEF HandlesReachTasks, Alive, mainVars, AcceptVisitor, BeginReport,
     FinishReport, ReportFails, DropVisitor, SpawnWaiter, Die, TaskStep
<1> USE DEF LoopsHold, Busy, LeakOnlyByAbort
<1>5. CASE AcceptVisitor(t)
  <2>1. PICK v \in Visitors : Admit(v) /\ current' = [current EXCEPT ![t] = v]
    BY <1>5 DEF AcceptVisitor
  <2>2. /\ task[t] = "accept" /\ task' = [task EXCEPT ![t] = "report"]
        /\ UNCHANGED <<bound, writerVars>>
    BY <1>5 DEF AcceptVisitor, TaskStep
  <2>3. TypeOK'
    BY <1>1, <1>2, <2>1, <2>2 DEF TaskPC, serverVars, mainVars, writerVars
  <2>4. LoopsHold'
    BY <2>1, <2>2 DEF Admit
  <2>5. LeakOnlyByAbort'
    BY <1>2, <2>1, <2>2 DEF Admit
  <2>6. QED
    BY <1>3, <1>4, <2>3, <2>4, <2>5
<1>6. CASE BeginReport(t)
  BY <1>1, <1>2, <1>3, <1>4, <1>6 DEF BeginReport, TaskStep, TaskPC,
     serverVars, mainVars, rendezvousVars
<1>7. CASE FinishReport(t)
  <2>1. /\ task[t] = "half" /\ task' = [task EXCEPT ![t] = "flush"]
        /\ torn' = FALSE /\ UNCHANGED <<pending, visitor, bound, current, spoilt>>
    BY <1>7 DEF FinishReport, TaskStep, Announce, rendezvousVars
  <2>2. TypeOK'
    BY <1>1, <1>2, <2>1 DEF TaskPC, serverVars, mainVars
  <2>3. LoopsHold' /\ LeakOnlyByAbort'
    BY <1>2, <2>1
  <2>4. QED
    BY <1>3, <1>4, <2>2, <2>3
<1>8. CASE ReportFails(t)
  BY <1>1, <1>2, <1>3, <1>4, <1>8 DEF ReportFails, TaskStep, Withdraw, TaskPC,
     serverVars, mainVars, writerVars
<1>9. CASE DropVisitor(t)
  BY <1>1, <1>2, <1>3, <1>4, <1>9 DEF DropVisitor, TaskStep, DropReceiver, TaskPC,
     serverVars, mainVars, writerVars
<1>10. CASE SpawnWaiter(t)
  BY <1>1, <1>2, <1>3, <1>4, <1>10 DEF SpawnWaiter, TaskStep, Spawn, TaskPC,
     serverVars, mainVars, writerVars
<1>11. CASE Die(t)
  <2>1. /\ task' = [task EXCEPT ![t] = "dead"] /\ t \in aborted
        /\ bound' = [bound EXCEPT ![t] = None]
        /\ UNCHANGED <<pending, current, writerVars>>
    BY <1>11 DEF Die, TaskStep, DropReceiver, rendezvousVars
  <2>2. \/ current[t] = None /\ UNCHANGED visitor
        \/ /\ Busy(t) /\ current[t] \in Visitors
           /\ visitor' = [visitor EXCEPT ![current[t]] = "dropped"]
    BY <1>11 DEF Die, DropReceiver, rendezvousVars
  <2>3. TypeOK' /\ LoopsHold'
    BY <1>1, <1>2, <2>1, <2>2 DEF TaskPC, serverVars, mainVars, writerVars
  <2>4. LeakOnlyByAbort'
    BY <1>2, <2>1, <2>2
  <2>5. QED
    BY <1>3, <1>4, <2>3, <2>4
<1>12. QED
  BY <1>5, <1>6, <1>7, <1>8, <1>9, <1>10, <1>11

-----------------------------------------------------------------------------
(* IndInv is inductive: visitors and data sockets *)

LEMMA PeerStepInv ==
  ASSUME IndInv, PeerAction
  PROVE  (TypeOK /\ LoopsHold /\ OrdersFresh /\ HandlesReachTasks /\ LeakOnlyByAbort)'
<1> USE DEF IndInv, TypeOK, RendezvousTypeOK
<1>1. UNCHANGED agentVars
  BY DEF PeerAction, Wait, Pipe, ReadDataConn, SendSocket
<1>2. RendezvousTypeOK'
  <2>1. RendezvousInv'
    BY StepsAreRendezvous, RendezvousStepInv, Cases
  <2>2. QED
    BY <2>1 DEF RendezvousInv
<1>3. TypeOK' /\ OrdersFresh' /\ HandlesReachTasks'
  BY <1>1, <1>2 DEF agentVars, serverVars, mainVars, taskVars, writerVars, OrdersFresh,
     HandlesReachTasks, Alive
<1>4. \A v \in Visitors : visitor[v] \in {"held", "unwind"} => visitor'[v] = visitor[v]
  BY DEF PeerAction, Wait, Receive, Elapse, TimeOut, DropReceiver, Forget, Pipe,
     EndSplice, ReadDataConn, TakeSender, Discard, SendSocket, Deliver
<1>5. LoopsHold'
  BY <1>1, <1>4 DEF agentVars, taskVars, LoopsHold, Busy
<1>6. LeakOnlyByAbort'
  <2>1. \A v \in pending' : \/ visitor[v] \notin {"held", "waiting", "elapsed", "forget"}
                            \/ visitor'[v] \in {"held", "waiting", "elapsed", "forget"}
    <3>1. \A v \in Visitors : slot[v] # None => v \notin pending
      BY RendezvousAssumption DEF RendezvousInv, SlotsMatch, SendersTakenOnce
    <3>2. ASSUME NEW u \in Visitors, Wait(u)
          PROVE  <2>1
      BY <3>1, <3>2 DEF Wait, Receive, Elapse, TimeOut, DropReceiver, Forget
    <3>3. ASSUME NEW u \in Visitors, Pipe(u)
          PROVE  <2>1
      BY <3>3 DEF Pipe, EndSplice
    <3>4. ASSUME NEW s \in Sockets, ReadDataConn(s) \/ SendSocket(s)
          PROVE  <2>1
      BY <3>4 DEF ReadDataConn, TakeSender, Discard, SendSocket, Deliver
    <3>5. QED
      BY <3>2, <3>3, <3>4 DEF PeerAction
  <2>2. pending' \subseteq pending
    BY DEF PeerAction, Wait, Receive, Elapse, TimeOut, DropReceiver, Forget, Pipe,
       EndSplice, ReadDataConn, TakeSender, Discard, SendSocket, Deliver
  <2>3. QED
    BY <1>1, <2>1, <2>2 DEF LeakOnlyByAbort, agentVars, taskVars
<1>7. QED
  BY <1>3, <1>5, <1>6

-----------------------------------------------------------------------------
(* IndInv is inductive: the sessions and the orders *)

LEMMA MainStepInv ==
  ASSUME IndInv, MainAction
  PROVE  (TypeOK /\ LoopsHold /\ OrdersFresh /\ HandlesReachTasks /\ LeakOnlyByAbort)'
<1>1. UNCHANGED <<pending, visitor, slot, told, socket, claim>>
  BY MainLeavesRendezvous DEF rendezvousVars
<1> USE DEF IndInv, TypeOK, RendezvousTypeOK
<1>2. CASE BeginSession \/ SessionFails \/ Reconnect \/ LinkDown
  <2>1. /\ UNCHANGED <<held, opened, lost, tunnels, spoilt>>
        /\ inbox' \in {inbox, <<>>} /\ torn' \in {torn, FALSE}
        /\ link' \in BOOLEAN /\ session' \in {"connect", "serve", "sleep"}
        /\ sessions' \in {sessions, sessions + 1}
    BY <1>2 DEF BeginSession, SessionFails, Reconnect, LinkDown, serverVars, mainVars,
       writerVars
  <2>2. UNCHANGED <<task, aborted, bound, current>>
    BY <1>2 DEF BeginSession, SessionFails, Reconnect, LinkDown, taskVars
  <2>3. TypeOK'
    <3>1. inbox' \in Seq(Order)
      <4>1. <<>> \in Seq(Order) /\ inbox \in Seq(Order)
        OBVIOUS
      <4>2. QED
        BY <2>1, <4>1, Zenon
    <3>2. torn' \in BOOLEAN
      BY <2>1
    <3>3. sessions' \in Nat
      BY <2>1
    <3>4. QED
      BY <1>1, <2>1, <2>2, <3>1, <3>2, <3>3
  <2>4. OrdersFresh'
    <3>1. CASE inbox' = inbox
      BY <2>1, <2>2, <3>1 DEF OrdersFresh
    <3>2. CASE inbox' = <<>>
      BY <2>1, <2>2, <3>2 DEF OrdersFresh
    <3>3. QED
      BY <2>1, <3>1, <3>2
  <2>5. LoopsHold' /\ HandlesReachTasks' /\ LeakOnlyByAbort'
    BY <1>1, <2>1, <2>2 DEF LoopsHold, Busy, HandlesReachTasks, Alive, LeakOnlyByAbort
  <2>6. QED
    BY <2>3, <2>4, <2>5
<1>3. CASE EndSession
  BY <1>1, <1>3 DEF EndSession, writerVars, LoopsHold, Busy, OrdersFresh,
     HandlesReachTasks, Alive, LeakOnlyByAbort
<1>4. ASSUME NEW t \in Tunnels, NEW p \in Ports, OrderOpen(t, p)
      PROVE  (TypeOK /\ LoopsHold /\ OrdersFresh /\ HandlesReachTasks /\ LeakOnlyByAbort)'
  <2> DEFINE o == [type |-> "open_tunnel", tunnel_id |-> t, remote_port |-> p]
  <2>1. /\ inbox' = Append(inbox, o) /\ t \notin opened
        /\ opened' = opened \cup {t} /\ held' = [held EXCEPT ![t] = p]
        /\ UNCHANGED <<link, lost, mainVars, taskVars, writerVars>>
    BY <1>4 DEF OrderOpen
  <2>2. o \in Order /\ o.type = "open_tunnel" /\ o.tunnel_id = t
    BY DEF Order
  <2> HIDE DEF o
  <2>3. TypeOK'
    BY <1>1, <2>1, <2>2 DEF mainVars, taskVars, writerVars
  <2>4. OrdersFresh'
    <3>1. /\ Len(inbox') = Len(inbox) + 1 /\ inbox'[Len(inbox) + 1] = o
          /\ \A i \in 1..Len(inbox) : inbox'[i] = inbox[i]
      BY <2>1, <2>2
    <3>2. \A i \in 1..Len(inbox) :
            inbox[i].type = "open_tunnel" => inbox[i].tunnel_id # t
      BY <2>1 DEF OrdersFresh
    <3>3. \A i \in 1..Len(inbox') : i \in 1..Len(inbox) \/ i = Len(inbox) + 1
      BY <3>1
    <3>4. QED
      BY <2>1, <2>2, <3>1, <3>2, <3>3 DEF OrdersFresh, taskVars
  <2>5. QED
    BY <1>1, <2>1, <2>3, <2>4 DEF mainVars, taskVars, LoopsHold, Busy,
       HandlesReachTasks, Alive, LeakOnlyByAbort
<1>5. ASSUME NEW t \in Tunnels, OrderClose(t)
      PROVE  (TypeOK /\ LoopsHold /\ OrdersFresh /\ HandlesReachTasks /\ LeakOnlyByAbort)'
  <2> DEFINE o == [type |-> "close_tunnel", tunnel_id |-> t, remote_port |-> None]
  <2>1. /\ inbox' = Append(inbox, o) \/ inbox' = inbox
        /\ held' = [held EXCEPT ![t] = None]
        /\ UNCHANGED <<link, opened, lost, mainVars, taskVars, writerVars>>
    BY <1>5 DEF OrderClose
  <2>2. o \in Order /\ o.type # "open_tunnel"
    BY DEF Order
  <2> HIDE DEF o
  <2>3. inbox' \in Seq(Order) /\ \A i \in 1..Len(inbox') :
          inbox'[i].type = "open_tunnel" => i \in 1..Len(inbox) /\ inbox'[i] = inbox[i]
    <3>1. CASE inbox' = Append(inbox, o)
      <4>1. /\ inbox' \in Seq(Order) /\ Len(inbox') = Len(inbox) + 1
            /\ inbox'[Len(inbox) + 1] = o
            /\ \A i \in 1..Len(inbox) : inbox'[i] = inbox[i]
        BY <2>2, <3>1
      <4>2. \A i \in 1..Len(inbox') : i \in 1..Len(inbox) \/ i = Len(inbox) + 1
        BY <4>1
      <4>3. QED
        BY <2>2, <4>1, <4>2
    <3>2. CASE inbox' = inbox
      BY <3>2
    <3>3. QED
      BY <2>1, <3>1, <3>2
  <2>4. TypeOK' /\ OrdersFresh'
    <3>1. TypeOK'
      BY <1>1, <2>1, <2>3 DEF mainVars, taskVars, writerVars
    <3>2. OrdersFresh'
      BY <2>1, <2>3 DEF OrdersFresh, taskVars
    <3>3. QED
      BY <3>1, <3>2
  <2>5. QED
    BY <1>1, <2>1, <2>4 DEF mainVars, taskVars, LoopsHold, Busy,
       HandlesReachTasks, Alive, LeakOnlyByAbort
<1>6. CASE ServeOrders
  <2>1. /\ inbox # <<>> /\ inbox' = Tail(inbox)
        /\ UNCHANGED <<link, held, opened, lost, session, sessions, torn, spoilt>>
    BY <1>6 DEF ServeOrders, OpenTunnel, OpenTunnelFails, CloseTunnel, ReadOrder,
       serverVars, writerVars
  <2>2. /\ inbox' \in Seq(Order) /\ 1 \in 1..Len(inbox) /\ Head(inbox) = inbox[1]
        /\ \A i \in 1..Len(inbox') : i + 1 \in 1..Len(inbox) /\ inbox'[i] = inbox[i + 1]
    BY <2>1
  <2>3. CASE OpenTunnel
    <3> DEFINE t == Head(inbox).tunnel_id
               p == Head(inbox).remote_port
    <3>1. /\ Head(inbox).type = "open_tunnel"
          /\ bound' = [bound EXCEPT ![t] = p] /\ task' = [task EXCEPT ![t] = "accept"]
          /\ tunnels' = tunnels \cup {t} /\ UNCHANGED <<aborted, current>>
      BY <2>3 DEF OpenTunnel, ReadOrder
    <3>2. Head(inbox) \in Order
      BY <2>1
    <3>3. t \in Tunnels /\ p \in Ports
      BY <3>1, <3>2 DEF Order
    <3>4. task[t] = "none" /\ t \in opened \ aborted
      BY <2>2, <3>1 DEF OrdersFresh
    <3>5. \A i \in 1..Len(inbox') : inbox'[i].type = "open_tunnel" => inbox'[i].tunnel_id # t
      <4>1. SUFFICES ASSUME NEW i \in 1..Len(inbox'), inbox'[i].type = "open_tunnel",
                            inbox'[i].tunnel_id = t
                     PROVE  FALSE
        OBVIOUS
      <4>2. i + 1 \in 1..Len(inbox) /\ inbox[i + 1].type = "open_tunnel"
              /\ inbox[i + 1].tunnel_id = inbox[1].tunnel_id
        BY <2>2, <4>1
      <4>3. 1 = i + 1
        BY <2>2, <3>1, <4>2 DEF OrdersFresh
      <4>4. QED
        BY <4>3
    <3> HIDE DEF t, p
    <3>6. TypeOK'
      BY <1>1, <2>1, <2>2, <3>1, <3>3 DEF TaskPC
    <3>7. OrdersFresh'
      <4>1. \A i \in 1..Len(inbox') : inbox'[i].type = "open_tunnel" =>
              inbox'[i].tunnel_id \in opened \ aborted
                /\ task'[inbox'[i].tunnel_id] = "none"
        <5>1. ASSUME NEW i \in 1..Len(inbox'), inbox'[i].type = "open_tunnel"
              PROVE  inbox'[i].tunnel_id \in opened \ aborted
                       /\ task[inbox'[i].tunnel_id] = "none"
          <6>1. i + 1 \in 1..Len(inbox) /\ inbox[i + 1].type = "open_tunnel"
                  /\ inbox'[i].tunnel_id = inbox[i + 1].tunnel_id
            BY <2>2, <5>1
          <6>2. QED
            BY <6>1 DEF OrdersFresh
        <5>2. QED
          BY <3>1, <3>5, <5>1
      <4>2. \A i, j \in 1..Len(inbox') :
              /\ inbox'[i].type = "open_tunnel" /\ inbox'[j].type = "open_tunnel"
              /\ inbox'[i].tunnel_id = inbox'[j].tunnel_id
              => i + 1 = j + 1
        BY <2>2 DEF OrdersFresh
      <4>3. \A u \in Tunnels : u \notin opened' => task'[u] = "none" /\ u \notin aborted'
        BY <2>1, <3>1, <3>4 DEF OrdersFresh
      <4>4. QED
        BY <2>1, <3>1, <4>1, <4>2, <4>3 DEF OrdersFresh
    <3>8. LoopsHold'
      BY <1>1, <3>1, <3>3, <3>4 DEF LoopsHold, Busy
    <3>9. HandlesReachTasks'
      BY <3>1, <3>3, <3>4 DEF HandlesReachTasks, Alive
    <3>10. LeakOnlyByAbort'
      BY <1>1, <3>1, <3>4 DEF LeakOnlyByAbort
    <3>11. QED
      BY <3>6, <3>7, <3>8, <3>9, <3>10
  <2>4. CASE OpenTunnelFails \/ CloseTunnel
    <3> DEFINE gone == tunnels \ tunnels'
    <3>1. /\ aborted' = aborted \cup gone /\ tunnels' = tunnels \ gone
          /\ gone \subseteq tunnels /\ UNCHANGED <<task, bound, current>>
      <4>1. CASE OpenTunnelFails
        BY <4>1 DEF OpenTunnelFails, taskVars
      <4>2. CASE CloseTunnel
        BY <4>2 DEF CloseTunnel
      <4>3. QED
        BY <2>4, <4>1, <4>2
    <3> HIDE DEF gone
    <3>2. \A t \in gone : task[t] # "none"
      BY <3>1 DEF HandlesReachTasks, Alive
    <3>3. OrdersFresh'
      <4>1. \A i \in 1..Len(inbox') : inbox'[i].type = "open_tunnel" =>
              inbox'[i].tunnel_id \in opened \ aborted
                /\ task[inbox'[i].tunnel_id] = "none"
        BY <2>2 DEF OrdersFresh
      <4>2. \A i, j \in 1..Len(inbox') :
              /\ inbox'[i].type = "open_tunnel" /\ inbox'[j].type = "open_tunnel"
              /\ inbox'[i].tunnel_id = inbox'[j].tunnel_id
              => i + 1 = j + 1
        BY <2>2 DEF OrdersFresh
      <4>3. QED
        BY <2>1, <3>1, <3>2, <4>1, <4>2 DEF OrdersFresh
    <3>4. TypeOK'
      BY <1>1, <2>1, <2>2, <3>1
    <3>5. LoopsHold' /\ HandlesReachTasks' /\ LeakOnlyByAbort'
      BY <1>1, <3>1 DEF LoopsHold, Busy, HandlesReachTasks, Alive, LeakOnlyByAbort
    <3>6. QED
      BY <3>3, <3>4, <3>5
  <2>5. QED
    BY <1>6, <2>3, <2>4 DEF ServeOrders
<1>7. QED
  BY <1>2, <1>3, <1>4, <1>5, <1>6 DEF MainAction, Environment

LEMMA InitInvariant == Init => IndInv
<1> SUFFICES ASSUME Init PROVE IndInv
  OBVIOUS
<1>1. RendezvousInv
  BY RendezvousInitInv DEF Init
<1>2. TypeOK
  <2>1. inbox \in Seq(Order) /\ sessions \in Nat
    BY DEF Init
  <2>2. QED
    BY <1>1, <2>1 DEF TypeOK, Init, RendezvousInv, TaskPC
<1>3. LoopsHold /\ OrdersFresh /\ HandlesReachTasks /\ LeakOnlyByAbort
  BY DEF Init, RendezvousInit, LoopsHold, Busy, OrdersFresh, HandlesReachTasks, Alive,
     LeakOnlyByAbort
<1>4. QED
  BY <1>1, <1>2, <1>3 DEF IndInv

LEMMA InductiveStep ==
  ASSUME IndInv, [Next]_vars
  PROVE  IndInv'
<1>1. RendezvousInv'
  BY StepsAreRendezvous, RendezvousStepInv DEF IndInv
<1>2. CASE UNCHANGED vars
  <2>1. TypeOK'
    BY <1>2 DEF IndInv, TypeOK, RendezvousTypeOK, vars, rendezvousVars, serverVars,
       mainVars, taskVars, writerVars
  <2>2. (LoopsHold /\ OrdersFresh /\ HandlesReachTasks /\ LeakOnlyByAbort)'
    BY <1>2 DEF IndInv, vars, rendezvousVars, serverVars, mainVars, taskVars, LoopsHold,
       Busy, OrdersFresh, HandlesReachTasks, Alive, LeakOnlyByAbort
  <2>3. QED
    BY <1>1, <2>1, <2>2 DEF IndInv
<1>3. CASE \E t \in Tunnels : LoopAction(t)
  BY <1>1, <1>3, LoopStepInv DEF IndInv
<1>4. CASE PeerAction
  BY <1>1, <1>4, PeerStepInv DEF IndInv
<1>5. CASE MainAction
  BY <1>1, <1>5, MainStepInv DEF IndInv
<1>6. QED
  BY <1>2, <1>3, <1>4, <1>5, Cases

-----------------------------------------------------------------------------
(* What follows from it *)

\* IndInv holds throughout.
THEOREM Invariance == Spec => []IndInv
BY InitInvariant, InductiveStep, PTL DEF Spec

\* Every variable keeps its type.
THEOREM TypeCorrect == Spec => []TypeOK
<1>1. IndInv => TypeOK
  BY DEF IndInv
<1>2. QED
  BY Invariance, <1>1, PTL

\* serve_orders and run_session keep a handle of every accept loop they have not
\* asked to stop, through all sessions.
THEOREM HandlesSafe == Spec => []HandlesReachTasks
<1>1. IndInv => HandlesReachTasks
  BY DEF IndInv
<1>2. QED
  BY Invariance, <1>1, PTL

\* The pending map of the node loses a sender to nothing but an abort.
THEOREM SendersSafe == Spec => []LeakOnlyByAbort
<1>1. IndInv => LeakOnlyByAbort
  BY DEF IndInv
<1>2. QED
  BY Invariance, <1>1, PTL

\* handle_data_conn of the node loses no socket, whatever is aborted meanwhile.
THEOREM SocketsSafe == Spec => []NoSocketLost
<1>1. IndInv => NoSocketLost
  BY RendezvousInvLosesNoSocket DEF IndInv
<1>2. QED
  BY Invariance, <1>1, PTL

\* The rendezvous of the node, with aborts and lost sessions, implements Pairing.
THEOREM Implementation == Spec => ImplementsPairing
<1>1. Init => Paired!Init
  BY PairingInit DEF Init
<1>2. IndInv /\ [Next]_vars => [Paired!Next]_(Paired!vars)
  BY StepsAreRendezvous, PairingStep DEF IndInv
<1>3. QED
  BY Invariance, <1>1, <1>2, PTL DEF Spec, ImplementsPairing, Paired!Spec
=============================================================================
