-------------------------- MODULE DataPlane_proofs --------------------------
(***************************************************************************)
(* Proofs about the server's data plane, for any number of tunnels,        *)
(* visitors and data connections.                                          *)
(*                                                                         *)
(* RendezvousInv is not enough: what a serving loop does to the visitor in *)
(* its hands depends on where it is.  LoopsHold ties the two together, and *)
(* the invariants of the pending map and of the history follow.            *)
(***************************************************************************)
EXTENDS DataPlane, Rendezvous_proofs

Busy(t) == loop[t] \in {"notify", "sent", "unwind"}

\* A busy loop holds a visitor of its own, with its receiver.
LoopsHold ==
  /\ \A t \in Tunnels : Busy(t) =>
       /\ current[t] \in Visitors
       /\ visitor[current[t]] = IF loop[t] = "unwind" THEN "unwind" ELSE "held"
  /\ \A t, u \in Tunnels : Busy(t) /\ Busy(u) /\ current[t] = current[u] => t = u

IndInv == TypeOK /\ RendezvousInv /\ LoopsHold /\ NoSenderLeaked

-----------------------------------------------------------------------------
(* The actions are steps of the rendezvous, or leave it alone *)

LEMMA StepsAreRendezvous ==
  ASSUME IndInv, [Next]_vars
  PROVE  RendezvousNext \/ UNCHANGED rendezvousVars
<1> USE DEF IndInv, LoopsHold, Busy
<1>1. ASSUME NEW t \in Tunnels,
             AcceptVisitor(t) \/ Notify(t) \/ EndLoop(t) \/ CliGone(t)
      PROVE  RendezvousNext \/ UNCHANGED rendezvousVars
  BY <1>1 DEF AcceptVisitor, Notify, WriteNewConn, SpawnWaiter, NotifyFails, Unwind,
     EndLoop, CliGone, LoopStep, RendezvousNext, ReceiverStep
<1>2. ASSUME NEW v \in Visitors, Wait(v) \/ Proxy(v) \/ RecordConnection(v)
      PROVE  RendezvousNext
  BY <1>2 DEF Wait, Proxy, RecordConnection, RendezvousNext, ReceiverStep, Archive
<1>3. ASSUME NEW s \in Sockets, ReadDataConn(s) \/ SendSocket(s)
      PROVE  RendezvousNext
  BY <1>3 DEF ReadDataConn, SendSocket, RendezvousNext
<1>4. CASE Finished \/ UNCHANGED vars
  BY <1>4 DEF Finished, vars, rendezvousVars
<1>5. QED
  BY <1>1, <1>2, <1>3, <1>4 DEF Next

-----------------------------------------------------------------------------
(* IndInv is inductive *)

\* Appending to a ring that has been trimmed.
LEMMA RingKeepsType ==
  ASSUME connections \in Seq(Visitors), NEW v \in Visitors
  PROVE  Append(Evicted(connections), v) \in Seq(Visitors)
<1>1. CASE Len(connections) = MaxConnections
  BY <1>1, DataPlaneAssumption DEF Evicted
<1>2. CASE Len(connections) # MaxConnections
  BY <1>2 DEF Evicted
<1>3. QED
  BY <1>1, <1>2

LEMMA LoopStepKeepsType ==
  ASSUME TypeOK, NEW t \in Tunnels, NEW from, NEW v \in Visitors \cup {None},
         NEW to \in {"select", "notify", "sent", "unwind", "ended"},
         LoopStep(t, from, to, v)
  PROVE  /\ loop' \in [Tunnels -> {"select", "notify", "sent", "unwind", "ended"}]
         /\ current' \in [Tunnels -> Visitors \cup {None}]
BY DEF LoopStep, TypeOK

LEMMA InductiveStep ==
  ASSUME IndInv, [Next]_vars
  PROVE  IndInv'
<1>1. RendezvousInv'
  BY StepsAreRendezvous, RendezvousStepInv DEF IndInv
<1>2. TypeOK'
  <2>1. RendezvousTypeOK'
    BY <1>1 DEF RendezvousInv
  <2>2. /\ loop' \in [Tunnels -> {"select", "notify", "sent", "unwind", "ended"}]
        /\ current' \in [Tunnels -> Visitors \cup {None}]
    <3>1. ASSUME NEW t \in Tunnels, AcceptVisitor(t) \/ Notify(t) \/ EndLoop(t)
          PROVE  <2>2!1 /\ <2>2!2
      BY <3>1, LoopStepKeepsType DEF AcceptVisitor, Notify, WriteNewConn, SpawnWaiter,
         NotifyFails, Unwind, EndLoop, IndInv, TypeOK
    <3>2. CASE UNCHANGED loopVars
      BY <3>2 DEF loopVars, IndInv, TypeOK
    <3>3. QED
      BY <3>1, <3>2 DEF Next, CliGone, Wait, Proxy, RecordConnection, ReadDataConn,
         SendSocket, Finished, vars
  <2>3. cliUp' \in [Tunnels -> BOOLEAN]
    BY DEF IndInv, TypeOK, Next, AcceptVisitor, Notify, WriteNewConn, SpawnWaiter,
       NotifyFails, Unwind, EndLoop, CliGone, Wait, Proxy, RecordConnection,
       ReadDataConn, SendSocket, Finished, vars
  <2>4. connections' \in Seq(Visitors)
    BY RingKeepsType DEF IndInv, TypeOK, Next, AcceptVisitor, Notify, WriteNewConn,
       SpawnWaiter, NotifyFails, Unwind, EndLoop, CliGone, Wait, Proxy,
       RecordConnection, ReadDataConn, SendSocket, Finished, vars
  <2>5. QED
    BY <2>1, <2>2, <2>3, <2>4 DEF TypeOK
<1> USE DEF IndInv, TypeOK, RendezvousTypeOK
<1>3. ASSUME NEW t \in Tunnels, AcceptVisitor(t) PROVE LoopsHold' /\ NoSenderLeaked'
  BY <1>3 DEF AcceptVisitor, LoopStep, Admit, LoopsHold, Busy, NoSenderLeaked
<1>4. ASSUME NEW t \in Tunnels, WriteNewConn(t) PROVE LoopsHold' /\ NoSenderLeaked'
  BY <1>4 DEF WriteNewConn, LoopStep, Announce, LoopsHold, Busy, NoSenderLeaked
<1>5. ASSUME NEW t \in Tunnels, SpawnWaiter(t) PROVE LoopsHold' /\ NoSenderLeaked'
  BY <1>5 DEF SpawnWaiter, LoopStep, Spawn, LoopsHold, Busy, NoSenderLeaked
<1>6. ASSUME NEW t \in Tunnels, NotifyFails(t) PROVE LoopsHold' /\ NoSenderLeaked'
  BY <1>6 DEF NotifyFails, LoopStep, Withdraw, LoopsHold, Busy, NoSenderLeaked
<1>7. ASSUME NEW t \in Tunnels, Unwind(t) PROVE LoopsHold' /\ NoSenderLeaked'
  BY <1>7 DEF Unwind, LoopStep, DropReceiver, LoopsHold, Busy, NoSenderLeaked
<1>8. ASSUME NEW t \in Tunnels, EndLoop(t) PROVE LoopsHold' /\ NoSenderLeaked'
  BY <1>8 DEF EndLoop, LoopStep, rendezvousVars, LoopsHold, Busy, NoSenderLeaked
<1>9. ASSUME NEW v \in Visitors, Wait(v) PROVE LoopsHold' /\ NoSenderLeaked'
  <2>1. slot[v] # None => v \notin pending
    BY RendezvousAssumption DEF RendezvousInv, SlotsMatch, SendersTakenOnce
  <2>2. CASE Receive(v)
    BY <1>9, <2>1, <2>2 DEF Wait, loopVars, Receive, LoopsHold, Busy, NoSenderLeaked
  <2>3. CASE Elapse(v) \/ TimeOut(v) \/ Forget(v)
    BY <1>9, <2>3 DEF Wait, loopVars, Elapse, TimeOut, DropReceiver, Forget, LoopsHold,
       Busy, NoSenderLeaked
  <2>4. QED
    BY <1>9, <2>2, <2>3 DEF Wait
<1>10. ASSUME NEW v \in Visitors, Proxy(v) PROVE LoopsHold' /\ NoSenderLeaked'
  BY <1>10 DEF Proxy, loopVars, EndSplice, LoopsHold, Busy, NoSenderLeaked
<1>11. ASSUME NEW v \in Visitors, RecordConnection(v) PROVE LoopsHold' /\ NoSenderLeaked'
  BY <1>11 DEF RecordConnection, loopVars, LoopsHold, Busy, NoSenderLeaked
<1>12. ASSUME NEW s \in Sockets, ReadDataConn(s) \/ SendSocket(s)
       PROVE  LoopsHold' /\ NoSenderLeaked'
  <2>1. UNCHANGED <<visitor, loop, current>> /\ pending' \subseteq pending
    BY <1>12 DEF ReadDataConn, SendSocket, TakeSender, Discard, Deliver, loopVars
  <2>2. QED
    BY <2>1 DEF LoopsHold, Busy, NoSenderLeaked
<1>13. ASSUME NEW t \in Tunnels, CliGone(t) PROVE LoopsHold' /\ NoSenderLeaked'
  BY <1>13 DEF CliGone, rendezvousVars, loopVars, LoopsHold, Busy, NoSenderLeaked
<1>14. CASE Finished \/ UNCHANGED vars
  <2>1. UNCHANGED <<pending, visitor, loop, current>>
    BY <1>14 DEF Finished, vars, rendezvousVars, loopVars
  <2>2. LoopsHold' /\ NoSenderLeaked'
    BY <2>1 DEF LoopsHold, Busy, NoSenderLeaked
  <2>3. QED
    BY <1>1, <1>2, <2>2
<1>15. QED
  BY <1>1, <1>2, <1>3, <1>4, <1>5, <1>6, <1>7, <1>8, <1>9, <1>10, <1>11, <1>12, <1>13,
     <1>14 DEF Next, Notify

LEMMA InitInvariant == Init => IndInv
<1> SUFFICES ASSUME Init PROVE IndInv
  OBVIOUS
<1>1. RendezvousInv
  BY RendezvousInitInv DEF Init
<1>2. TypeOK
  BY <1>1 DEF TypeOK, Init, RendezvousInv
<1>3. LoopsHold /\ NoSenderLeaked
  BY DEF Init, RendezvousInit, LoopsHold, Busy, NoSenderLeaked
<1>4. QED
  BY <1>1, <1>2, <1>3 DEF IndInv

-----------------------------------------------------------------------------
(* The history of connections *)

\* Trimming makes room, and loses nothing but the oldest entry of a full ring.
LEMMA Trimmed ==
  ASSUME connections \in Seq(Visitors), Len(connections) <= MaxConnections
  PROVE  LET q == Evicted(connections)
             k == Len(connections) - Len(q)
         IN /\ q \in Seq(Visitors)
            /\ Len(q) < MaxConnections
            /\ k = IF Len(connections) = MaxConnections THEN 1 ELSE 0
            /\ \A i \in 1..Len(q) : q[i] = connections[i + k]
<1>1. CASE Len(connections) = MaxConnections
  <2>1. connections # <<>>
    BY <1>1, DataPlaneAssumption
  <2>2. /\ Tail(connections) \in Seq(Visitors)
        /\ Len(Tail(connections)) = Len(connections) - 1
        /\ \A i \in 1..Len(Tail(connections)) : Tail(connections)[i] = connections[i + 1]
    BY <2>1
  <2>3. QED
    BY <1>1, <2>2, DataPlaneAssumption DEF Evicted
<1>2. CASE Len(connections) # MaxConnections
  <2>1. Evicted(connections) = connections /\ Len(connections) < MaxConnections
    BY <1>2, DataPlaneAssumption DEF Evicted
  <2>2. Len(connections) - Len(connections) = 0
    OBVIOUS
  <2>3. \A i \in 1..Len(connections) : connections[i] = connections[i + 0]
    OBVIOUS
  <2>4. QED
    BY <1>2, <2>1, <2>2, <2>3
<1>3. QED
  BY <1>1, <1>2

\* A finished visitor is recorded.
LEMMA RecordKeepsHistory ==
  ASSUME IndInv, HistoryExact, NEW v \in Visitors, RecordConnection(v)
  PROVE  HistoryExact'
<1> DEFINE q == Evicted(connections)
           k == Len(connections) - Len(q)
           n == Len(q) + 1
<1>1. /\ visitor \in [Visitors -> VisitorPC] /\ connections \in Seq(Visitors)
      /\ visitor[v] = "record"
      /\ visitor' = [visitor EXCEPT ![v] = "served"]
      /\ connections' = Append(q, v)
  BY DEF IndInv, TypeOK, RendezvousTypeOK, RecordConnection
<1>2. /\ q \in Seq(Visitors) /\ Len(q) < MaxConnections
      /\ k = IF Len(connections) = MaxConnections THEN 1 ELSE 0
      /\ \A i \in 1..Len(q) : q[i] = connections[i + k]
  BY <1>1, Trimmed DEF HistoryExact
<1>3. /\ \A i \in 1..Len(connections) : connections[i] # v
      /\ \A i, j \in 1..Len(connections) : connections[i] = connections[j] => i = j
  BY <1>1 DEF HistoryExact
<1>4. /\ Len(connections) = Len(q) + k /\ Len(q) \in Nat /\ k \in {0, 1}
      /\ MaxConnections \in Nat
  BY <1>1, <1>2, DataPlaneAssumption
<1>5. /\ Len(connections') = n /\ DOMAIN connections' = 1..n
      /\ connections'[n] = v
      /\ \A i \in 1..Len(q) : connections'[i] = q[i]
  BY <1>1, <1>2
<1> HIDE DEF q, k
<1>6. Len(connections') <= MaxConnections
  BY <1>2, <1>4, <1>5
<1>7. \A i, j \in DOMAIN connections' : connections'[i] = connections'[j] => i = j
  <2>1. \A i \in 1..Len(q) : i + k \in 1..Len(connections)
    BY <1>4
  <2>2. \A i \in 1..Len(q) : connections'[i] = connections[i + k] /\ connections'[i] # v
    BY <1>2, <1>3, <1>5, <2>1
  <2>3. \A i, j \in 1..Len(q) : connections'[i] = connections'[j] => i = j
    <3>1. SUFFICES ASSUME NEW i \in 1..Len(q), NEW j \in 1..Len(q),
                          connections'[i] = connections'[j]
                   PROVE  i = j
      OBVIOUS
    <3>2. i + k = j + k
      BY <1>3, <2>1, <2>2, <3>1
    <3>3. QED
      BY <1>4, <3>2
  <2>4. QED
    BY <1>4, <1>5, <2>2, <2>3
<1>8. \A i \in DOMAIN connections' : visitor'[connections'[i]] = "served"
  <2>1. ASSUME NEW i \in 1..Len(q)
        PROVE  connections'[i] \in Visitors /\ visitor[connections'[i]] = "served"
    <3>1. i + k \in 1..Len(connections) /\ connections'[i] = connections[i + k]
      BY <1>2, <1>4, <1>5
    <3>2. QED
      BY <1>1, <3>1 DEF HistoryExact
  <2>2. QED
    BY <1>1, <1>4, <1>5, <2>1
<1>9. ASSUME NEW u \in Visitors, visitor'[u] = "served"
      PROVE  \/ \E i \in DOMAIN connections' : connections'[i] = u
             \/ Len(connections') = MaxConnections
  <2>1. CASE u = v
    BY <1>4, <1>5, <2>1
  <2>2. CASE Len(connections) = MaxConnections
    BY <1>2, <1>4, <1>5, <2>2
  <2>3. CASE u # v /\ Len(connections) # MaxConnections
    <3>1. PICK i \in 1..Len(connections) : connections[i] = u
      BY <1>1, <1>9, <2>3 DEF HistoryExact
    <3>2. k = 0 /\ i \in 1..Len(q) /\ connections'[i] = u
      BY <1>2, <1>4, <1>5, <2>3, <3>1
    <3>3. QED
      BY <1>4, <1>5, <3>2
  <2>4. QED
    BY <2>1, <2>2, <2>3
<1>10. QED
  BY <1>6, <1>7, <1>8, <1>9 DEF HistoryExact

\* Nothing else touches the history, or finishes a visitor.
LEMMA OthersKeepHistory ==
  ASSUME IndInv, [Next]_vars, \A v \in Visitors : ~RecordConnection(v)
  PROVE  /\ UNCHANGED connections
         /\ \A u \in Visitors : visitor'[u] = "served" <=> visitor[u] = "served"
<1> USE DEF IndInv, TypeOK, RendezvousTypeOK, LoopsHold, Busy
<1>1. UNCHANGED connections
  BY DEF Next, AcceptVisitor, Notify, WriteNewConn, SpawnWaiter, NotifyFails, Unwind,
     EndLoop, CliGone, Wait, Proxy, ReadDataConn, SendSocket, Finished, vars
<1> DEFINE Same == \A u \in Visitors : visitor'[u] = "served" <=> visitor[u] = "served"
<1>2. ASSUME NEW t \in Tunnels, AcceptVisitor(t) PROVE Same
  BY <1>2 DEF AcceptVisitor, Admit
<1>3. ASSUME NEW t \in Tunnels, Notify(t) PROVE Same
  BY <1>3 DEF Notify, WriteNewConn, Announce, SpawnWaiter, Spawn, NotifyFails, Withdraw,
     Unwind, DropReceiver
<1>4. ASSUME NEW v \in Visitors, Wait(v) \/ Proxy(v) PROVE Same
  BY <1>4 DEF Wait, Receive, Elapse, TimeOut, DropReceiver, Forget, Proxy, EndSplice
<1>5. ASSUME NEW s \in Sockets, ReadDataConn(s) \/ SendSocket(s) PROVE Same
  BY <1>5 DEF ReadDataConn, SendSocket, TakeSender, Discard, Deliver
<1>6. ASSUME NEW t \in Tunnels, EndLoop(t) \/ CliGone(t) PROVE Same
  BY <1>6 DEF EndLoop, CliGone, rendezvousVars
<1>7. CASE Finished \/ UNCHANGED vars
  BY <1>1, <1>7 DEF Finished, vars, rendezvousVars
<1>8. QED
  BY <1>1, <1>2, <1>3, <1>4, <1>5, <1>6, <1>7 DEF Next

-----------------------------------------------------------------------------
(* What follows from it *)

\* IndInv holds throughout.
THEOREM Invariance == Spec => []IndInv
BY InitInvariant, InductiveStep, PTL DEF Spec

\* Every variable keeps its type, for any number of tunnels and visitors.
THEOREM TypeCorrect == Spec => []TypeOK
<1>1. IndInv => TypeOK
  BY DEF IndInv
<1>2. QED
  BY Invariance, <1>1, PTL

\* serve_tunnel and the tasks of its visitors leave no sender in the pending map,
\* on any of their ways out.
THEOREM SendersSafe == Spec => []NoSenderLeaked
<1>1. IndInv => NoSenderLeaked
  BY DEF IndInv
<1>2. QED
  BY Invariance, <1>1, PTL

\* handle_data_conn loses no socket on its way to the task of a visitor.
THEOREM SocketsSafe == Spec => []NoSocketLost
<1>1. IndInv => NoSocketLost
  BY RendezvousInvLosesNoSocket DEF IndInv
<1>2. QED
  BY Invariance, <1>1, PTL

\* The history shows every served visitor once, until the ring drops it.
THEOREM HistorySafe == Spec => []HistoryExact
<1>1. Init => HistoryExact
  <2> SUFFICES ASSUME Init PROVE HistoryExact
    OBVIOUS
  <2>1. connections = <<>> /\ \A v \in Visitors : visitor[v] = "absent"
    BY DEF Init, RendezvousInit
  <2>2. QED
    BY <2>1, DataPlaneAssumption DEF HistoryExact
<1>2. IndInv /\ HistoryExact /\ [Next]_vars => HistoryExact'
  <2> SUFFICES ASSUME IndInv, HistoryExact, [Next]_vars PROVE HistoryExact'
    OBVIOUS
  <2>1. CASE \E v \in Visitors : RecordConnection(v)
    BY <2>1, RecordKeepsHistory
  <2>2. CASE \A v \in Visitors : ~RecordConnection(v)
    <3>1. /\ UNCHANGED connections /\ connections \in Seq(Visitors)
          /\ \A u \in Visitors : visitor'[u] = "served" <=> visitor[u] = "served"
      BY <2>2, OthersKeepHistory DEF IndInv, TypeOK
    <3>2. QED
      BY <3>1 DEF HistoryExact
  <2>3. QED
    BY <2>1, <2>2
<1>3. QED
  BY Invariance, <1>1, <1>2, PTL DEF Spec

\* The pending map, the oneshots and the timers implement Pairing.
THEOREM Implementation == Spec => ImplementsPairing
<1>1. Init => Paired!Init
  BY PairingInit DEF Init
<1>2. IndInv /\ [Next]_vars => [Paired!Next]_(Paired!vars)
  BY StepsAreRendezvous, PairingStep DEF IndInv
<1>3. QED
  BY Invariance, <1>1, <1>2, PTL DEF Spec, ImplementsPairing, Paired!Spec
=============================================================================
