------------------------- MODULE Rendezvous_proofs -------------------------
(***************************************************************************)
(* Lemmas about the rendezvous, for any number of visitors and sockets.    *)
(* They are about its operations only: the server and the node, which use  *)
(* the operations in different loops, cite them for their own steps.       *)
(*                                                                         *)
(* RendezvousInv says what the code relies on without saying so: a sender  *)
(* is in the map or was taken, by one data connection, never both; and a   *)
(* socket in a oneshot is in the one it asked for.                         *)
(***************************************************************************)
EXTENDS Rendezvous, TLAPS

\* The server's task is done with the history.
Archive(v) == /\ visitor[v] = "record"
              /\ visitor' = [visitor EXCEPT ![v] = "served"]
              /\ UNCHANGED <<pending, slot, told, socket, claim>>

\* A step of the task that holds the receiver of v.
ReceiverStep(v) ==
  \/ Admit(v) \/ Spawn(v) \/ Withdraw(v)
  \/ Receive(v) \/ Elapse(v) \/ TimeOut(v) \/ Forget(v)
  \/ DropReceiver(v, "unwind", "dropped") \/ DropReceiver(v, "held", "dropped")
  \/ EndSplice(v, "record") \/ EndSplice(v, "served") \/ Archive(v)

RendezvousNext ==
  \/ \E v \in Visitors : ReceiverStep(v) \/ Announce(v)
  \/ \E s \in Sockets : TakeSender(s) \/ Discard(s) \/ Deliver(s)

\* A sender is taken out of the map by one data connection at most.
SendersTakenOnce ==
  /\ \A v \in pending : visitor[v] # "absent"
  /\ \A s \in Sockets : claim[s] # None =>
       claim[s] \notin pending /\ visitor[claim[s]] # "absent"
  /\ \A s, r \in Sockets : claim[s] = claim[r] /\ claim[s] # None => s = r

\* What a data connection has done, its claim shows.
SocketsClaim ==
  \A s \in Sockets : /\ socket[s] = "reading" => claim[s] = None
                     /\ socket[s] \in {"deliver", "queued", "spliced"} => claim[s] # None

\* A oneshot holds the socket that is queued for it, while its receiver lives.
SlotsMatch ==
  /\ \A s \in Sockets : socket[s] = "queued" => slot[claim[s]] = s
  /\ \A v \in Visitors : slot[v] # None =>
       socket[slot[v]] = "queued" /\ claim[slot[v]] = v /\ HasReceiver(v)

RendezvousInv == RendezvousTypeOK /\ SendersTakenOnce /\ SocketsClaim /\ SlotsMatch

-----------------------------------------------------------------------------
(* RendezvousInv is inductive *)

LEMMA RendezvousInitInv == RendezvousInit => RendezvousInv
BY RendezvousAssumption DEF RendezvousInit, RendezvousInv, RendezvousTypeOK,
   SendersTakenOnce, SocketsClaim, SlotsMatch, HasReceiver, VisitorPC, SocketPC

LEMMA ReceiverStepInv ==
  ASSUME RendezvousInv, NEW v \in Visitors, ReceiverStep(v)
  PROVE  RendezvousInv'
<1> USE RendezvousAssumption DEF RendezvousInv, RendezvousTypeOK
<1>1. CASE Admit(v)
  BY <1>1 DEF Admit, SendersTakenOnce, SocketsClaim, SlotsMatch, HasReceiver, VisitorPC
<1>2. CASE Spawn(v)
  BY <1>2 DEF Spawn, SendersTakenOnce, SocketsClaim, SlotsMatch, HasReceiver, VisitorPC
<1>3. CASE Withdraw(v)
  BY <1>3 DEF Withdraw, SendersTakenOnce, SocketsClaim, SlotsMatch, HasReceiver, VisitorPC
<1>4. CASE Receive(v)
  BY <1>4 DEF Receive, SendersTakenOnce, SocketsClaim, SlotsMatch, HasReceiver,
     VisitorPC, SocketPC
<1>5. CASE Elapse(v)
  BY <1>5 DEF Elapse, SendersTakenOnce, SocketsClaim, SlotsMatch, HasReceiver, VisitorPC
<1>6. ASSUME NEW from, NEW to \in VisitorPC \ {"absent"}, DropReceiver(v, from, to)
      PROVE  RendezvousInv'
  BY <1>6 DEF DropReceiver, SendersTakenOnce, SocketsClaim, SlotsMatch, HasReceiver,
     VisitorPC, SocketPC
<1>7. CASE Forget(v)
  BY <1>7 DEF Forget, SendersTakenOnce, SocketsClaim, SlotsMatch, HasReceiver, VisitorPC
<1>8. ASSUME NEW to \in VisitorPC \ {"absent"}, EndSplice(v, to)
      PROVE  RendezvousInv'
  BY <1>8 DEF EndSplice, SendersTakenOnce, SocketsClaim, SlotsMatch, HasReceiver,
     VisitorPC, SocketPC
<1>9. CASE Archive(v)
  BY <1>9 DEF Archive, SendersTakenOnce, SocketsClaim, SlotsMatch, HasReceiver, VisitorPC
<1>10. QED
  BY <1>1, <1>2, <1>3, <1>4, <1>5, <1>6, <1>7, <1>8, <1>9
     DEF ReceiverStep, TimeOut, VisitorPC

LEMMA SocketStepInv ==
  ASSUME RendezvousInv, NEW s \in Sockets, TakeSender(s) \/ Discard(s) \/ Deliver(s)
  PROVE  RendezvousInv'
<1> USE RendezvousAssumption DEF RendezvousInv, RendezvousTypeOK
<1>1. CASE TakeSender(s)
  <2>1. PICK v \in told \cap pending : claim' = [claim EXCEPT ![s] = v]
                                       /\ pending' = pending \ {v}
    BY <1>1 DEF TakeSender
  <2>2. /\ socket[s] = "reading"
        /\ socket' = [socket EXCEPT ![s] = "deliver"]
        /\ UNCHANGED <<visitor, slot, told>>
    BY <1>1 DEF TakeSender
  <2>3. RendezvousTypeOK'
    BY <2>1, <2>2 DEF SocketPC
  <2>4. SendersTakenOnce'
    BY <2>1, <2>2 DEF SendersTakenOnce
  <2>5. SocketsClaim' /\ SlotsMatch'
    BY <2>1, <2>2 DEF SocketsClaim, SlotsMatch, HasReceiver
  <2>6. QED
    BY <2>3, <2>4, <2>5
<1>2. CASE Discard(s)
  BY <1>2 DEF Discard, SendersTakenOnce, SocketsClaim, SlotsMatch, HasReceiver, SocketPC
<1>3. CASE Deliver(s)
  BY <1>3 DEF Deliver, SendersTakenOnce, SocketsClaim, SlotsMatch, HasReceiver, SocketPC
<1>4. QED
  BY <1>1, <1>2, <1>3

\* Every step of a user of the rendezvous keeps RendezvousInv.
LEMMA RendezvousStepInv ==
  ASSUME RendezvousInv, RendezvousNext \/ UNCHANGED rendezvousVars
  PROVE  RendezvousInv'
<1>1. ASSUME NEW v \in Visitors, Announce(v) PROVE RendezvousInv'
  BY <1>1 DEF Announce, RendezvousInv, RendezvousTypeOK, SendersTakenOnce,
     SocketsClaim, SlotsMatch, HasReceiver
<1>2. CASE UNCHANGED rendezvousVars
  BY <1>2 DEF rendezvousVars, RendezvousInv, RendezvousTypeOK, SendersTakenOnce,
     SocketsClaim, SlotsMatch, HasReceiver
<1>3. QED
  BY <1>1, <1>2, ReceiverStepInv, SocketStepInv DEF RendezvousNext

\* No data connection is lost between two owners.
LEMMA RendezvousInvLosesNoSocket == RendezvousInv => NoSocketLost
<1> SUFFICES ASSUME RendezvousInv PROVE NoSocketLost
  OBVIOUS
<1>1. ASSUME NEW s \in Sockets
      PROVE  socket[s] = "queued" <=>
               \E v \in Visitors : slot[v] = s /\ claim[s] = v /\ HasReceiver(v)
  BY RendezvousAssumption DEF RendezvousInv, RendezvousTypeOK, SocketsClaim, SlotsMatch
<1>2. ASSUME NEW s \in Sockets, NEW r \in Sockets, claim[s] = claim[r],
             {socket[s], socket[r]} \subseteq {"deliver", "queued", "spliced"}
      PROVE  s = r
  BY <1>2 DEF RendezvousInv, SocketsClaim, SendersTakenOnce
<1>3. QED
  BY <1>1, <1>2 DEF NoSocketLost

-----------------------------------------------------------------------------
(* The rendezvous implements Pairing, whatever loops it is used in *)

\* What a step does to the stages: those of the visitors it leaves alone stay.
LEMMA StagesUpdate ==
  ASSUME RendezvousTypeOK, NEW v \in Visitors, NEW to \in VisitorPC,
         visitor' = [visitor EXCEPT ![v] = to]
  PROVE  Stages' = [Stages EXCEPT ![v] = Stage(to)] /\ Stages[v] = Stage(visitor[v])
BY DEF Stages, RendezvousTypeOK

LEMMA StagesKept ==
  ASSUME UNCHANGED visitor
  PROVE  UNCHANGED Stages
BY DEF Stages

LEMMA PairingInit == RendezvousInit => Paired!Init
<1> SUFFICES ASSUME RendezvousInit PROVE Paired!Init
  OBVIOUS
<1> USE DEF RendezvousInit
<1>1. Stages = [v \in Visitors |-> "absent"]
  BY DEF Stages, Stage
<1>2. Spent = {} /\ Pairs = {}
  BY DEF Spent, Pairs
<1>3. QED
  BY <1>1, <1>2 DEF Paired!Init

\* A visitor is accepted.
LEMMA AdmitArrives ==
  ASSUME RendezvousInv, NEW v \in Visitors, Admit(v)
  PROVE  Paired!Next
<1> USE DEF RendezvousInv, Admit
<1>1. Stages' = [Stages EXCEPT ![v] = "waiting"] /\ Stages[v] = "absent"
  BY StagesUpdate DEF Stage, VisitorPC
<1>2. UNCHANGED <<Spent, Pairs>>
  BY DEF Spent, Pairs, RendezvousTypeOK
<1>3. Paired!Arrive(v)
  BY <1>1, <1>2 DEF Paired!Arrive
<1>4. QED
  BY <1>3 DEF Paired!Next

\* A visitor takes the socket out of its oneshot.
LEMMA ReceivePairs ==
  ASSUME RendezvousInv, NEW v \in Visitors, Receive(v)
  PROVE  Paired!Next
<1> DEFINE s == slot[v]
<1>1. /\ s \in Sockets /\ socket[s] = "queued" /\ claim[s] = v
      /\ visitor[v] = "waiting" /\ visitor' = [visitor EXCEPT ![v] = "spliced"]
      /\ socket' = [socket EXCEPT ![s] = "spliced"]
      /\ UNCHANGED claim
  BY DEF Receive, RendezvousInv, RendezvousTypeOK, SlotsMatch
<1>2. \A r \in Sockets : claim[r] = v => r = s
  BY <1>1, RendezvousAssumption DEF RendezvousInv, SendersTakenOnce
<1> HIDE DEF s
<1>3. Stages' = [Stages EXCEPT ![v] = "paired"] /\ Stages[v] = "waiting"
  BY <1>1, StagesUpdate DEF Stage, VisitorPC, RendezvousInv
<1>4. s \notin Spent /\ Spent' = Spent \cup {s}
  BY <1>1 DEF Spent, RendezvousInv, RendezvousTypeOK
<1>5. Pairs' = Pairs \cup {<<v, s>>}
  BY <1>1, <1>2 DEF Pairs, RendezvousInv, RendezvousTypeOK
<1>6. Paired!Pair(v, s)
  BY <1>1, <1>3, <1>4, <1>5 DEF Paired!Pair
<1>7. QED
  BY <1>1, <1>6 DEF Paired!Next

\* A visitor is given up on: its timer went off, its notice could not be written,
\* or its accept loop was aborted.
LEMMA GivingUpLeaves ==
  ASSUME RendezvousInv, NEW v \in Visitors,
         Withdraw(v) \/ Elapse(v) \/ DropReceiver(v, "held", "dropped")
  PROVE  Paired!Next
<1> DEFINE gone == IF UNCHANGED socket THEN {} ELSE {s \in Sockets : s = slot[v]}
<1>1. PICK to \in {"unwind", "elapsed", "dropped"} :
        visitor' = [visitor EXCEPT ![v] = to]
  BY DEF Withdraw, Elapse, DropReceiver
<1>2. visitor[v] \in {"held", "waiting"} /\ UNCHANGED claim
  BY DEF Withdraw, Elapse, DropReceiver
<1>3. Stages' = [Stages EXCEPT ![v] = "gone"] /\ Stages[v] = "waiting"
  BY <1>1, <1>2, StagesUpdate DEF Stage, VisitorPC, RendezvousInv,
     RendezvousTypeOK
<1>4. /\ socket' = [s \in Sockets |-> IF s \in gone THEN "closed" ELSE socket[s]]
      /\ gone \subseteq {s \in Sockets : claim[s] = v /\ socket[s] = "queued"}
  <2>1. CASE UNCHANGED socket /\ gone = {}
    BY <2>1 DEF RendezvousInv, RendezvousTypeOK
  <2>2. CASE DropReceiver(v, "held", "dropped") /\ gone = {s \in Sockets : s = slot[v]}
    BY <2>2, RendezvousAssumption DEF DropReceiver, RendezvousInv, SlotsMatch
  <2>3. QED
    BY <2>1, <2>2 DEF Withdraw, Elapse
<1> HIDE DEF gone
<1>5. Spent' = Spent \cup gone
  BY <1>4 DEF Spent, RendezvousInv, RendezvousTypeOK
<1>6. Pairs' = {p \in Pairs : p[1] # v}
  BY <1>1, <1>2, <1>4 DEF Pairs, RendezvousInv, RendezvousTypeOK
<1>7. Paired!Leave(v)
  BY <1>2, <1>3, <1>4, <1>5, <1>6 DEF Paired!Leave
<1>8. QED
  BY <1>7 DEF Paired!Next

\* The splice of a visitor ends.
LEMMA EndSpliceLeaves ==
  ASSUME RendezvousInv, NEW v \in Visitors, NEW to \in {"record", "served"},
         EndSplice(v, to)
  PROVE  Paired!Next
<1> USE DEF EndSplice
<1>1. Stages' = [Stages EXCEPT ![v] = "gone"] /\ Stages[v] = "paired"
  BY StagesUpdate DEF Stage, VisitorPC, RendezvousInv, RendezvousTypeOK
<1>2. Spent' = Spent \cup {}
  BY DEF Spent
<1>3. Pairs' = {p \in Pairs : p[1] # v}
  BY DEF Pairs, RendezvousInv, RendezvousTypeOK
<1>4. Paired!Leave(v)
  BY <1>1, <1>2, <1>3 DEF Paired!Leave
<1>5. QED
  BY <1>4 DEF Paired!Next

\* A data connection takes the sender it names.
LEMMA TakeSenderNames ==
  ASSUME RendezvousInv, NEW s \in Sockets, TakeSender(s)
  PROVE  Paired!Next
<1>1. PICK v \in told \cap pending : claim' = [claim EXCEPT ![s] = v]
  BY DEF TakeSender
<1>2. /\ socket[s] = "reading" /\ claim[s] = None
      /\ socket' = [socket EXCEPT ![s] = "deliver"]
      /\ v \in Visitors /\ visitor[v] # "absent"
      /\ UNCHANGED visitor
  BY DEF TakeSender, RendezvousInv, RendezvousTypeOK, SocketsClaim, SendersTakenOnce
<1>3. Stages[v] # "absent" /\ UNCHANGED Stages
  BY <1>2, StagesKept DEF Stages, Stage
<1>4. s \notin Spent /\ UNCHANGED Spent
  BY <1>2 DEF Spent, RendezvousInv, RendezvousTypeOK
<1>5. UNCHANGED Pairs
  BY <1>1, <1>2 DEF Pairs, RendezvousInv, RendezvousTypeOK
<1>6. Paired!Name(s, v)
  BY <1>1, <1>2, <1>3, <1>4, <1>5 DEF Paired!Name
<1>7. QED
  BY <1>2, <1>6 DEF Paired!Next

\* A data connection is closed by handle_data_conn, or with the receiver of a
\* visitor that is gone.
LEMMA ClosingDiscards ==
  ASSUME RendezvousInv, NEW s \in Sockets, socket[s] # "spliced",
         socket' = [socket EXCEPT ![s] = "closed"],
         UNCHANGED <<claim, Stages>>,
         \A v \in Visitors : visitor'[v] = "spliced" <=> visitor[v] = "spliced"
  PROVE  Paired!Next
<1>1. Spent' = Spent \cup {s}
  BY DEF Spent, RendezvousInv, RendezvousTypeOK
<1>2. UNCHANGED Pairs
  BY DEF Pairs, RendezvousInv, RendezvousTypeOK
<1>3. Paired!Discard(s)
  BY <1>1, <1>2 DEF Paired!Discard
<1>4. QED
  BY <1>3 DEF Paired!Next

\* Everything else happens out of Pairing's sight.
LEMMA HiddenStep ==
  ASSUME RendezvousInv, UNCHANGED <<claim, Stages>>,
         \A v \in Visitors : visitor'[v] = "spliced" <=> visitor[v] = "spliced",
         \A s \in Sockets : \/ socket'[s] = socket[s]
                           \/ {socket'[s], socket[s]} \subseteq {"deliver", "queued"}
  PROVE  UNCHANGED Paired!vars
<1>1. UNCHANGED Spent
  BY DEF Spent
<1>2. UNCHANGED Pairs
  BY DEF Pairs
<1>3. QED
  BY <1>1, <1>2 DEF Paired!vars

LEMMA PairingStep ==
  ASSUME RendezvousInv, RendezvousNext \/ UNCHANGED rendezvousVars
  PROVE  [Paired!Next]_(Paired!vars)
<1> USE DEF RendezvousInv, RendezvousTypeOK
<1>1. ASSUME NEW v \in Visitors, Spawn(v) \/ Forget(v) \/ Archive(v)
      PROVE  UNCHANGED Paired!vars
  <2>1. PICK to \in {"waiting", "dropped", "served"} :
          visitor' = [visitor EXCEPT ![v] = to] /\ Stage(to) = Stage(visitor[v])
    BY <1>1 DEF Spawn, Forget, Archive, Stage
  <2>2. UNCHANGED Stages
    BY <2>1, StagesUpdate DEF VisitorPC, Stages
  <2>3. \A u \in Visitors : visitor'[u] = "spliced" <=> visitor[u] = "spliced"
    BY <1>1 DEF Spawn, Forget, Archive
  <2>4. QED
    BY <1>1, <2>2, <2>3, HiddenStep DEF Spawn, Forget, Archive
<1>2. ASSUME NEW v \in Visitors, NEW from \in {"elapsed", "unwind"},
             NEW to \in {"forget", "dropped"}, DropReceiver(v, from, to)
      PROVE  [Paired!Next]_(Paired!vars)
  <2>1. Stage(to) = Stage(visitor[v]) /\ visitor' = [visitor EXCEPT ![v] = to]
    BY <1>2 DEF DropReceiver, Stage
  <2>2. UNCHANGED Stages
    BY <2>1, StagesUpdate DEF VisitorPC, Stages
  <2>3. \A u \in Visitors : visitor'[u] = "spliced" <=> visitor[u] = "spliced"
    BY <1>2 DEF DropReceiver
  <2>4. CASE slot[v] = None
    <3>1. \A s \in Sockets : socket'[s] = socket[s]
      BY <1>2, <2>4, RendezvousAssumption DEF DropReceiver
    <3>2. QED
      BY <1>2, <2>2, <2>3, <3>1, HiddenStep DEF DropReceiver
  <2>5. CASE slot[v] # None
    <3>1. slot[v] \in Sockets /\ socket[slot[v]] = "queued"
      BY <2>5 DEF SlotsMatch
    <3>2. socket' = [socket EXCEPT ![slot[v]] = "closed"]
      BY <1>2 DEF DropReceiver
    <3>3. QED
      BY <1>2, <2>2, <2>3, <3>1, <3>2, ClosingDiscards DEF DropReceiver
  <2>6. QED
    BY <2>4, <2>5
<1>3. ASSUME NEW v \in Visitors, ReceiverStep(v) \/ Announce(v)
      PROVE  [Paired!Next]_(Paired!vars)
  <2>1. CASE Announce(v)
    BY <2>1, HiddenStep, StagesKept DEF Announce
  <2>2. CASE ReceiverStep(v)
    BY <2>2, <1>1, <1>2, AdmitArrives, ReceivePairs, GivingUpLeaves, EndSpliceLeaves
       DEF ReceiverStep, TimeOut
  <2>3. QED
    BY <1>3, <2>1, <2>2
<1>4. ASSUME NEW s \in Sockets, Discard(s) \/ Deliver(s)
      PROVE  [Paired!Next]_(Paired!vars)
  <2>1. UNCHANGED Stages
    BY <1>4, StagesKept DEF Discard, Deliver
  <2>2. CASE socket' = [socket EXCEPT ![s] = "closed"]
    BY <1>4, <2>1, <2>2, ClosingDiscards DEF Discard, Deliver
  <2>3. CASE socket' = [socket EXCEPT ![s] = "queued"] /\ socket[s] = "deliver"
    BY <1>4, <2>1, <2>3, HiddenStep DEF Discard, Deliver
  <2>4. QED
    BY <1>4, <2>2, <2>3 DEF Discard, Deliver
<1>5. CASE UNCHANGED rendezvousVars
  BY <1>5, HiddenStep, StagesKept DEF rendezvousVars
<1>6. QED
  BY <1>3, <1>4, <1>5, TakeSenderNames DEF RendezvousNext
=============================================================================
