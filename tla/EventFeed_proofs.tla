-------------------------- MODULE EventFeed_proofs --------------------------
(***************************************************************************)
(* Proofs about the live lists of a dashboard, for any number of tunnels,  *)
(* nodes and sessions, and any capacity of the ring.                       *)
(*                                                                         *)
(* The lists are right in the end if every event and every answer that is  *)
(* still on its way is taken into account: FeedInv says for each tunnel    *)
(* and for the node registry what is.                                      *)
(***************************************************************************)
EXTENDS EventFeed, FiniteSetTheorems, SequenceTheorems, TLAPS

\* An event is published once for a thing that opens and once for one that closes.
Opened == {x \in Things : life[x] \in {"open", "unlisted", "closed"}}
Closed == {x \in Things : life[x] = "closed"}

CountInv == Len(log) = Cardinality(Opened) + Cardinality(Closed)

\* The log tells what has become of the things, and of each in the order it happened.
LifeInv ==
  /\ \A p \in DOMAIN log : /\ log[p].type = "closed" => life[log[p].id] = "closed"
                           /\ log[p].type = "opened"
                                => life[log[p].id] \in {"open", "unlisted", "closed"}
  /\ \A p, q \in DOMAIN log :
       log[p].id = log[q].id /\ log[p].type = "opened" /\ log[q].type = "closed" => p < q
  /\ \A x \in Things :
       life[x] = "closed" => \E p \in DOMAIN log : log[p] = [type |-> "closed", id |-> x]

\* A receiver exists while the stream is open.
StreamInv == /\ source # "open" => sub = 0 /\ wire = <<>>
             /\ source = "open" => sub # 0
             /\ jwt = 0 => source = "closed"
             /\ sub <= Len(log) + 1
             /\ \A k \in DOMAIN wire : wire[k] \in 1 .. Len(log)
             /\ handled <= Len(log)

\* The events on their way to a receiver that has missed none.
FirstDue == sub - Len(wire)
Due(p) == sub # 0 /\ p \in FirstDue .. Len(log)

DueInv == disturbed = {} /\ sub # 0 => /\ \A k \in DOMAIN wire : wire[k] = FirstDue + k - 1
                                       /\ handled < FirstDue

\* The two requests of loadAll end together, and those of this session were sent.
LoadInv == /\ \A s \in Logins : load[s].tunnels = Over <=> load[s].nodes = Over
           /\ jwt # 0 => load[jwt].tunnels # Unsent /\ load[jwt].nodes # Unsent

\* What the answer of a snapshot does not tell of the tunnels, events will.
Since(p) == p \in load[jwt].tunnels.at + 1 .. Len(log)

SnapshotInv ==
  jwt # 0 /\ disturbed = {} /\ load[jwt].tunnels.state = "answered"
  => /\ load[jwt].tunnels.at <= Len(log)
     /\ \A p \in DOMAIN log : Since(p) /\ log[p].id \in Tunnels => Due(p) \/ p <= handled
     /\ \A t \in Tunnels : (\A p \in DOMAIN log : Since(p) => log[p].id # t)
          => /\ t \in load[jwt].tunnels.rows => life[t] \in {"listed", "open", "unlisted"}
             /\ life[t] = "open" => t \in load[jwt].tunnels.rows

\* Nor the list, once it is set.
ListInv ==
  jwt # 0 /\ disturbed = {} /\ load[jwt].tunnels = Over
  => \A t \in Tunnels : (\A p \in DOMAIN log : Due(p) => log[p].id # t)
       => /\ t \in tunnels => life[t] \in {"listed", "open", "unlisted"}
          /\ life[t] = "open" => t \in tunnels \/ closing[t] = "removed"

\* The rows that were read at version `at' and have not changed since are those of the
\* registry.
Agrees(rows, at) ==
  at <= version /\ \A n \in Nodes : changed[n] <= at => rows[n] = Registry[n]

RowsInv ==
  /\ \A n \in Nodes : changed[n] = 0 => life[n] = "none"
  /\ \A s \in Logins :
       load[s].nodes.state = "answered" => Agrees(load[s].nodes.rows, load[s].nodes.at)
  /\ \A i \in 1 .. MaxLog : refetch[i].state = "answered" => Agrees(refetch[i].rows, refetch[i].at)
  /\ jwt # 0 /\ disturbed = {} => Agrees(nodes, shown)

\* What had changed when a node came or went is shown, has been asked for, or will be.
Fresh(request) ==
  request.state = "sent" \/ (request.state = "answered" /\ request.at >= announced)

CatchUp == \/ shown >= announced
           \/ Fresh(load[jwt].nodes)
           \/ \E i \in 1 .. MaxLog : Fresh(refetch[i])
           \/ \E p \in DOMAIN log : Due(p) /\ log[p].id \in Nodes

NodesInv == jwt # 0 /\ disturbed = {} => CatchUp

FlowInv == /\ StreamInv /\ DueInv /\ LoadInv /\ SnapshotInv /\ ListInv /\ RowsInv /\ NodesInv
           /\ LogoutClears

FeedInv == TypeOK /\ CountInv /\ LifeInv /\ FlowInv

-----------------------------------------------------------------------------
(* Counting *)

\* Two sets of things have no more than MaxLog elements together.
LEMMA Bounded ==
  ASSUME NEW A, NEW B, A \subseteq Things, B \subseteq Things
  PROVE  /\ IsFiniteSet(A) /\ IsFiniteSet(B) /\ IsFiniteSet(Things)
         /\ Cardinality(A) \in Nat /\ Cardinality(B) \in Nat /\ MaxLog \in Nat
         /\ Cardinality(A) + Cardinality(B) <= MaxLog
<1>1. IsFiniteSet(Things)
  BY FS_Union, FeedAssumption DEF Things
<1>2. /\ IsFiniteSet(A) /\ Cardinality(A) <= Cardinality(Things)
      /\ IsFiniteSet(B) /\ Cardinality(B) <= Cardinality(Things)
  BY <1>1, FS_Subset
<1>3. Cardinality(A) \in Nat /\ Cardinality(B) \in Nat /\ Cardinality(Things) \in Nat
  BY <1>1, <1>2, FS_CardinalityType
<1> QED BY <1>1, <1>2, <1>3 DEF MaxLog

\* A set of things with one more.
LEMMA OneMore ==
  ASSUME NEW A, NEW x \in Things, A \subseteq Things, x \notin A
  PROVE  Cardinality(A \cup {x}) = Cardinality(A) + 1 /\ Cardinality(A) \in Nat
BY FS_AddElement, Bounded

\* The steps of the server.
Changes == {<<"none", "listed">>, <<"open", "unlisted">>, <<"listed", "failed">>}
Events == {<<"listed", "open", "opened">>, <<"unlisted", "closed", "closed">>}

ThingStep(x) == \/ \E c \in Changes : Change(x, c[1], c[2]) /\ (c[2] = "failed" => x \in Nodes)
                \/ \E e \in Events : Publish(x, e[1], e[2], e[3])

CountStep(n) == \E t \in Tunnels : CountTunnel(t, n) \/ UncountTunnel(t, n)

LEMMA ThingSteps ==
  ASSUME NEW x \in Things, Enter(x) \/ Leave(x) \/ (x \in Nodes /\ AckNodeFails(x))
  PROVE  ThingStep(x)
<1> DEFINE Changed == \E c \in Changes : Change(x, c[1], c[2]) /\ (c[2] = "failed" => x \in Nodes)
<1>1. /\ Change(x, "none", "listed") => Changed
      /\ Change(x, "open", "unlisted") => Changed
      /\ Change(x, "listed", "failed") /\ x \in Nodes => Changed
  BY DEF Changes
<1>2. /\ Publish(x, "listed", "open", "opened")
           => \E e \in Events : Publish(x, e[1], e[2], e[3])
      /\ Publish(x, "unlisted", "closed", "closed")
           => \E e \in Events : Publish(x, e[1], e[2], e[3])
  BY DEF Events
<1> QED BY <1>1, <1>2 DEF Enter, Leave, AckNodeFails, ThingStep

LEMMA ServerSteps ==
  ASSUME [Next]_vars
  PROVE  \/ UNCHANGED serverVars
         \/ \E x \in Things : ThingStep(x)
         \/ \E n \in Nodes : CountStep(n)
<1>1. \A x \in Things : Enter(x) \/ Leave(x) => ThingStep(x)
  BY ThingSteps
<1>2. \A n \in Nodes : AckNodeFails(n) => ThingStep(n) /\ n \in Things
  BY ThingSteps DEF Things
<1>3. Forward \/ Subscribe \/ Browser => UNCHANGED serverVars
  BY DEF Forward, Subscribe, Browser, HandleEvent, ApplyLoad, ApplyRefetch, RemoveRow, ClosingStep
<1>4. Answer => UNCHANGED serverVars
  BY DEF Answer, AnswerTunnels, AnswerNodes, AnswerRefetch, AnswerClose, ClosingStep, Request
<1>5. Failure => UNCHANGED serverVars
  BY DEF Failure, Break, LoadFails, RefetchFails
<1>6. User => UNCHANGED serverVars
  BY DEF User, Login, Logout, ClickClose, ClosingStep
<1> QED BY <1>1, <1>2, <1>3, <1>4, <1>5, <1>6 DEF Next, vars, CountStep

\* A tunnel that is counted, or not any more, leaves everything else of the server alone.
LEMMA CountStepFacts ==
  ASSUME TypeOK, NEW n \in Nodes, CountStep(n)
  PROVE  /\ UNCHANGED <<life, log, announced, streamVars, jwt, logins, requestVars, storeVars,
                        disturbed>>
         /\ counted' \subseteq Tunnels \X Nodes
         /\ \A m \in Nodes : m # n => TunnelsOf(m)' = TunnelsOf(m)
         /\ IF n \in Table(Nodes) THEN RowChanges(n) ELSE UNCHANGED rowVars
<1>1. PICK t \in Tunnels : CountTunnel(t, n) \/ UncountTunnel(t, n)
  BY DEF CountStep
<1>2. counted' = counted \cup {<<t, n>>} \/ counted' = counted \ {<<t, n>>}
  BY <1>1 DEF CountTunnel, UncountTunnel
<1>3. Counts(n)
  BY <1>1 DEF CountTunnel, UncountTunnel
<1>4. counted' \subseteq Tunnels \X Nodes
  BY <1>2 DEF TypeOK
<1>5. \A m \in Nodes : m # n => TunnelsOf(m)' = TunnelsOf(m)
  BY <1>2 DEF TunnelsOf
<1> QED BY <1>3, <1>4, <1>5 DEF Counts

\* The log with one event more.
LEMMA PublishedLog ==
  ASSUME TypeOK, NEW x \in Things, NEW type \in {"opened", "closed"},
         log' = Append(log, [type |-> type, id |-> x])
  PROVE  /\ log' \in Seq([type : {"opened", "closed"}, id : Things])
         /\ Len(log) \in Nat /\ Len(log') = Len(log) + 1
         /\ DOMAIN log = 1 .. Len(log) /\ DOMAIN log' = 1 .. Len(log) + 1
         /\ \A p \in DOMAIN log : log'[p] = log[p]
         /\ log'[Len(log) + 1] = [type |-> type, id |-> x]
  BY DEF TypeOK

\* The row of a node that changes has the newest version there is.
LEMMA RowType ==
  ASSUME TypeOK, NEW n \in Nodes, RowChanges(n) \/ UNCHANGED rowVars
  PROVE  version' \in Nat /\ version' >= version /\ changed' \in [Nodes -> 0 .. version']
<1>1. version \in Nat /\ changed \in [Nodes -> 0 .. version]
  BY DEF TypeOK
<1>2. CASE RowChanges(n)
  BY <1>1, <1>2 DEF RowChanges
<1>3. CASE UNCHANGED rowVars
  BY <1>1, <1>3 DEF rowVars
<1> QED BY <1>2, <1>3

\* What the server keeps.
LEMMA CountKept ==
  ASSUME TypeOK, CountInv, [Next]_vars
  PROVE  /\ CountInv'
         /\ life' \in [Things -> {"none", "listed", "open", "unlisted", "closed", "failed"}]
         /\ counted' \subseteq Tunnels \X Nodes
         /\ log' \in Seq([type : {"opened", "closed"}, id : Things]) /\ Len(log') <= MaxLog
         /\ version' \in Nat /\ version' >= version
         /\ changed' \in [Nodes -> 0 .. version']
         /\ announced' \in 0 .. version'
<1> DEFINE Types ==
      /\ life' \in [Things -> {"none", "listed", "open", "unlisted", "closed", "failed"}]
      /\ counted' \subseteq Tunnels \X Nodes
      /\ log' \in Seq([type : {"opened", "closed"}, id : Things])
      /\ version' \in Nat /\ version' >= version
      /\ changed' \in [Nodes -> 0 .. version']
      /\ announced' \in 0 .. version'
<1>1. /\ version \in Nat /\ changed \in [Nodes -> 0 .. version] /\ announced \in 0 .. version
      /\ counted \subseteq Tunnels \X Nodes
  BY DEF TypeOK
<1>2. CountInv' /\ Types
  <2>1. CASE UNCHANGED serverVars
    BY <1>1, <2>1 DEF TypeOK, CountInv, serverVars, rowVars, Opened, Closed
  <2>2. ASSUME NEW x \in Things, NEW c \in Changes, Change(x, c[1], c[2])
        PROVE  CountInv' /\ Types
    <3>1. /\ life[x] = c[1] /\ life' = [life EXCEPT ![x] = c[2]]
          /\ UNCHANGED <<counted, log, announced>>
      BY <2>2 DEF Change, Lives
    <3>2. /\ c[1] \in {"none", "listed", "open"} /\ c[2] \in {"listed", "unlisted", "failed"}
          /\ c[1] = "open" <=> c[2] = "unlisted"
      BY DEF Changes
    <3>3. Opened' = Opened /\ Closed' = Closed
      BY <3>1, <3>2 DEF TypeOK, Opened, Closed
    <3>4. version' \in Nat /\ version' >= version /\ changed' \in [Nodes -> 0 .. version']
      <4>1. CASE x \in Nodes
        BY <2>2, <4>1, RowType DEF Change
      <4>2. CASE x \notin Nodes
        BY <1>1, <2>2, <4>2 DEF Change, rowVars
      <4> QED BY <4>1, <4>2
    <3>5. life' \in [Things -> {"none", "listed", "open", "unlisted", "closed", "failed"}]
      BY <3>1, <3>2 DEF TypeOK
    <3> QED BY <1>1, <3>1, <3>3, <3>4, <3>5 DEF CountInv, TypeOK
  <2>3. ASSUME NEW n \in Nodes, CountStep(n)
        PROVE  CountInv' /\ Types
    <3>1. UNCHANGED <<life, log, announced>> /\ counted' \subseteq Tunnels \X Nodes
      BY <2>3, CountStepFacts
    <3>2. version' \in Nat /\ version' >= version /\ changed' \in [Nodes -> 0 .. version']
      BY <2>3, CountStepFacts, RowType
    <3> QED BY <1>1, <3>1, <3>2 DEF CountInv, Opened, Closed, TypeOK
  <2>4. ASSUME NEW x \in Things, Publish(x, "listed", "open", "opened")
        PROVE  CountInv' /\ Types
    <3>1. /\ life[x] = "listed" /\ life' = [life EXCEPT ![x] = "open"]
          /\ log' = Append(log, [type |-> "opened", id |-> x])
          /\ UNCHANGED <<counted, version, changed>> /\ announced' \in {version, announced}
      BY <2>4 DEF Publish, Lives, rowVars
    <3>2. Opened' = Opened \cup {x} /\ x \notin Opened /\ Closed' = Closed
      BY <3>1 DEF TypeOK, Opened, Closed
    <3>3. Cardinality(Closed) \in Nat /\ Opened \subseteq Things
      BY Bounded DEF Closed, Opened
    <3>4. Cardinality(Opened') = Cardinality(Opened) + 1 /\ Cardinality(Opened) \in Nat
      BY <3>2, <3>3, OneMore
    <3>5. /\ Len(log') = Len(log) + 1 /\ Len(log) \in Nat
          /\ log' \in Seq([type : {"opened", "closed"}, id : Things])
      BY <3>1, PublishedLog
    <3>6. CountInv'
      BY <3>2, <3>3, <3>4, <3>5 DEF CountInv
    <3> QED BY <1>1, <3>1, <3>5, <3>6 DEF TypeOK
  <2>5. ASSUME NEW x \in Things, Publish(x, "unlisted", "closed", "closed")
        PROVE  CountInv' /\ Types
    <3>1. /\ life[x] = "unlisted" /\ life' = [life EXCEPT ![x] = "closed"]
          /\ log' = Append(log, [type |-> "closed", id |-> x])
          /\ UNCHANGED <<counted, version, changed>> /\ announced' \in {version, announced}
      BY <2>5 DEF Publish, Lives, rowVars
    <3>2. Closed' = Closed \cup {x} /\ x \notin Closed /\ Opened' = Opened
      BY <3>1 DEF TypeOK, Opened, Closed
    <3>3. Cardinality(Opened) \in Nat /\ Closed \subseteq Things
      BY Bounded DEF Closed, Opened
    <3>4. Cardinality(Closed') = Cardinality(Closed) + 1 /\ Cardinality(Closed) \in Nat
      BY <3>2, <3>3, OneMore
    <3>5. /\ Len(log') = Len(log) + 1 /\ Len(log) \in Nat
          /\ log' \in Seq([type : {"opened", "closed"}, id : Things])
      BY <3>1, PublishedLog
    <3>6. CountInv'
      BY <3>2, <3>3, <3>4, <3>5 DEF CountInv
    <3> QED BY <1>1, <3>1, <3>5, <3>6 DEF TypeOK
  <2>6. ASSUME NEW x \in Things, NEW e \in Events, Publish(x, e[1], e[2], e[3])
        PROVE  CountInv' /\ Types
    <3>1. e = <<"listed", "open", "opened">> \/ e = <<"unlisted", "closed", "closed">>
      BY DEF Events
    <3>2. CASE e = <<"listed", "open", "opened">>
      BY <2>4, <2>6, <3>2
    <3>3. CASE e = <<"unlisted", "closed", "closed">>
      BY <2>5, <2>6, <3>3
    <3> QED BY <3>1, <3>2, <3>3
  <2> QED BY <2>1, <2>2, <2>3, <2>6, ServerSteps DEF ThingStep
<1>3. Opened' \subseteq Things /\ Closed' \subseteq Things
  BY DEF Opened, Closed
<1>4. /\ Cardinality(Opened') \in Nat /\ Cardinality(Closed') \in Nat
      /\ Cardinality(Opened') + Cardinality(Closed') <= MaxLog
  BY <1>3, Bounded
<1> QED BY <1>2, <1>4 DEF CountInv

\* The types, as the steps below use them.
LEMMA LogFacts ==
  ASSUME TypeOK
  PROVE  /\ MaxLog \in Nat /\ Len(log) \in Nat /\ DOMAIN log = 1 .. Len(log)
         /\ \A p \in DOMAIN log : log[p].id \in Things /\ log[p].type \in {"opened", "closed"}
<1> DEFINE S == [type : {"opened", "closed"}, id : Things]
<1>1. log \in Seq(S)
  BY DEF TypeOK
<1>2. \A p \in 1 .. Len(log) : log[p] \in S
  BY <1>1, ElementOfSeq
<1>3. {} \subseteq Things
  OBVIOUS
<1>4. MaxLog \in Nat
  BY <1>3, Bounded
<1>5. Len(log) \in Nat /\ DOMAIN log = 1 .. Len(log)
  BY <1>1, LenProperties
<1> QED BY <1>2, <1>4, <1>5

LEMMA WireFacts ==
  ASSUME TypeOK
  PROVE  /\ Len(wire) \in Nat /\ DOMAIN wire = 1 .. Len(wire)
         /\ \A k \in DOMAIN wire : wire[k] \in 1 .. MaxLog
         /\ sub \in Nat /\ handled \in Nat /\ shown \in Nat /\ version \in Nat /\ announced \in Nat
         /\ \A n \in Nodes : changed[n] \in Nat /\ changed[n] <= version
         /\ announced <= version
         /\ jwt # 0 => jwt \in Logins
<1>1. MaxLog \in Nat /\ MaxLogins \in Nat
  BY LogFacts, FeedAssumption
<1>2. Len(wire) \in Nat /\ DOMAIN wire = 1 .. Len(wire)
  BY LenProperties DEF TypeOK
<1>3. \A k \in 1 .. Len(wire) : wire[k] \in 1 .. MaxLog
  BY ElementOfSeq DEF TypeOK
<1> QED BY <1>1, <1>2, <1>3 DEF TypeOK, Logins

\* A request is in one of four states, and only an answer has rows and a time.
LEMMA RequestFacts ==
  ASSUME NEW S, NEW r \in RequestOf(S)
  PROVE  /\ r.state \in {"unsent", "sent", "answered", "over"}
         /\ r = Unsent <=> r.state = "unsent"
         /\ r = Sent <=> r.state = "sent"
         /\ r = Over <=> r.state = "over"
         /\ r.state = "answered" => r.rows \in S /\ r.at \in Nat
BY DEF RequestOf, Unsent, Sent, Over, Answered

LEMMA LoadFacts ==
  ASSUME TypeOK, NEW s \in Logins
  PROVE  load[s].tunnels \in RequestOf(SUBSET Tunnels) /\ load[s].nodes \in RequestOf(Lists)
BY DEF TypeOK, TunnelRequests, NodeRequests

LEMMA AnswerFacts ==
  ASSUME TypeOK
  PROVE  /\ \A s \in Logins : load[s].tunnels.state = "answered" => load[s].tunnels.at \in Nat
         /\ \A s \in Logins : load[s].nodes.state = "answered" => load[s].nodes.at \in Nat
         /\ \A i \in 1 .. MaxLog : refetch[i].state = "answered" => refetch[i].at \in Nat
<1>1. ASSUME NEW r, NEW S, r \in RequestOf(S), r.state = "answered"
      PROVE  r.at \in Nat
  BY <1>1, RequestFacts
<1>2. \A i \in 1 .. MaxLog : refetch[i] \in RequestOf(Lists)
  BY DEF TypeOK, NodeRequests
<1> QED BY <1>1, <1>2, LoadFacts

\* What has happened to a thing is in the log.
LEMMA LifeKept ==
  ASSUME TypeOK, LifeInv, [Next]_vars
  PROVE  LifeInv'
<1>1. \A p \in DOMAIN log : log[p].id \in Things /\ log[p].type \in {"opened", "closed"}
  BY LogFacts
<1>2. CASE UNCHANGED <<life, log>>
  BY <1>2 DEF LifeInv
<1>3. ASSUME NEW x \in Things, NEW c \in Changes, Change(x, c[1], c[2])
      PROVE  LifeInv'
  <2>1. log' = log /\ life[x] = c[1] /\ life' = [life EXCEPT ![x] = c[2]]
    BY <1>3 DEF Change, Lives
  <2>2. \A y \in Things : life'[y] = IF y = x THEN c[2] ELSE life[y]
    BY <2>1 DEF TypeOK
  <2>3. /\ c[1] \in {"none", "listed", "open"} /\ c[2] \in {"listed", "unlisted", "failed"}
        /\ c[1] = "open" <=> c[2] = "unlisted"
    BY DEF Changes
  <2> QED BY <1>1, <2>1, <2>2, <2>3 DEF LifeInv
<1>4. ASSUME NEW x \in Things, NEW e \in Events, Publish(x, e[1], e[2], e[3])
      PROVE  LifeInv'
  <2> DEFINE from == e[1]  to == e[2]  type == e[3]
  <2> HIDE DEF from, to, type
  <2>0. /\ Publish(x, from, to, type)
        /\ \/ from = "listed" /\ to = "open" /\ type = "opened"
           \/ from = "unlisted" /\ to = "closed" /\ type = "closed"
    BY <1>4 DEF Events, from, to, type
  <2>1. /\ log' = Append(log, [type |-> type, id |-> x])
        /\ life[x] = from /\ life' = [life EXCEPT ![x] = to] /\ type \in {"opened", "closed"}
    BY <2>0 DEF Publish, Lives
  <2>2. \A y \in Things : life'[y] = IF y = x THEN to ELSE life[y]
    BY <2>1 DEF TypeOK
  <2>3. /\ Len(log) \in Nat /\ DOMAIN log = 1 .. Len(log) /\ DOMAIN log' = 1 .. Len(log) + 1
        /\ \A p \in DOMAIN log : log'[p] = log[p]
        /\ log'[Len(log) + 1].type = type /\ log'[Len(log) + 1].id = x
        /\ log'[Len(log) + 1] = [type |-> type, id |-> x]
    BY <2>1, PublishedLog
  <2>4. \A p \in DOMAIN log : log[p].id # x \/ (type = "closed" /\ log[p].type = "opened")
    BY <1>1, <2>0, <2>1 DEF LifeInv
  <2>5. (\A p \in DOMAIN log : /\ log[p].type = "closed" => life[log[p].id] = "closed"
                               /\ log[p].type = "opened"
                                    => life[log[p].id] \in {"open", "unlisted", "closed"})'
    <3> SUFFICES ASSUME NEW p \in DOMAIN log'
                 PROVE  /\ log'[p].type = "closed" => life'[log'[p].id] = "closed"
                        /\ log'[p].type = "opened"
                             => life'[log'[p].id] \in {"open", "unlisted", "closed"}
      OBVIOUS
    <3>1. CASE p = Len(log) + 1
      BY <2>0, <2>2, <2>3, <3>1
    <3>2. CASE p \in DOMAIN log
      BY <1>1, <2>0, <2>2, <2>3, <2>4, <3>2 DEF LifeInv
    <3> QED BY <2>3, <3>1, <3>2
  <2>6. (\A p, q \in DOMAIN log :
           log[p].id = log[q].id /\ log[p].type = "opened" /\ log[q].type = "closed" => p < q)'
    <3> SUFFICES ASSUME NEW p \in DOMAIN log', NEW q \in DOMAIN log', log'[p].id = log'[q].id,
                        log'[p].type = "opened", log'[q].type = "closed"
                 PROVE  p < q
      OBVIOUS
    <3>1. CASE q = Len(log) + 1
      BY <2>3, <3>1
    <3>2. CASE p = Len(log) + 1 /\ q \in DOMAIN log
      BY <2>3, <2>4, <3>2
    <3>3. CASE p \in DOMAIN log /\ q \in DOMAIN log
      BY <2>3, <3>3 DEF LifeInv
    <3> QED BY <2>3, <3>1, <3>2, <3>3
  <2>7. (\A y \in Things :
           life[y] = "closed" => \E p \in DOMAIN log : log[p] = [type |-> "closed", id |-> y])'
    <3> SUFFICES ASSUME NEW y \in Things, life'[y] = "closed"
                 PROVE  \E p \in DOMAIN log' : log'[p] = [type |-> "closed", id |-> y]
      OBVIOUS
    <3>1. CASE y = x
      <4>1. log'[Len(log) + 1] = [type |-> "closed", id |-> y] /\ Len(log) + 1 \in DOMAIN log'
        BY <2>0, <2>2, <2>3, <3>1
      <4> QED BY <4>1
    <3>2. CASE y # x
      <4>1. PICK p \in DOMAIN log : log[p] = [type |-> "closed", id |-> y]
        BY <2>2, <3>2 DEF LifeInv
      <4> QED BY <2>3, <4>1
    <3> QED BY <3>1, <3>2
  <2> QED BY <2>5, <2>6, <2>7 DEF LifeInv
<1>5. ASSUME NEW n \in Nodes, CountStep(n)
      PROVE  LifeInv'
  BY <1>2, <1>5, CountStepFacts
<1> QED BY <1>2, <1>3, <1>4, <1>5, ServerSteps DEF ThingStep, serverVars

-----------------------------------------------------------------------------
(* The types *)

\* The rows of an answer are those of the table at the time.
LEMMA TableType ==
  ASSUME TypeOK
  PROVE  Table(Tunnels) \in SUBSET Tunnels /\ Registry \in Lists /\ NoRows \in Lists
<1>1. IsFiniteSet(Tunnels)
  BY FeedAssumption
<1>2. ASSUME NEW n \in Nodes
      PROVE  Cardinality(TunnelsOf(n)) \in Nat
  <2>1. TunnelsOf(n) \subseteq Tunnels
    BY DEF TunnelsOf
  <2> QED BY <1>1, <2>1, FS_Subset, FS_CardinalityType
<1>3. Registry \in Lists
  BY <1>2 DEF Registry, Lists
<1>4. NoRows \in Lists
  BY DEF NoRows, Lists
<1> QED BY <1>3, <1>4 DEF Table

LEMMA AnsweredType ==
  ASSUME NEW S, NEW rows \in S, NEW at \in Nat
  PROVE  Answered(rows, at) \in RequestOf(S)
BY DEF RequestOf, Answered

\* What the server keeps is typed by CountKept; this is the rest.
RestType == /\ sub \in 0 .. MaxLog + 1
            /\ wire \in Seq(1 .. MaxLog) /\ Len(wire) <= WireSize
            /\ jwt \in 0 .. logins
            /\ logins \in 0 .. MaxLogins
            /\ source \in {"closed", "connecting", "open"}
            /\ load \in [Logins -> [tunnels : TunnelRequests, nodes : NodeRequests]]
            /\ refetch \in [1 .. MaxLog -> NodeRequests]
            /\ closing \in [Tunnels -> {"no", "sent", "found", "removed"}]
            /\ tunnels \subseteq Tunnels
            /\ nodes \in Lists
            /\ handled \in 0 .. MaxLog
            /\ shown \in Nat
            /\ disturbed \subseteq Reasons

LEMMA RestKept ==
  ASSUME TypeOK, CountInv, [Next]_vars
  PROVE  RestType'
<1> USE DEF Logins
<1>1. RestType /\ MaxLog \in Nat /\ Len(log) \in 0 .. MaxLog /\ version \in Nat
  BY LogFacts, WireFacts DEF TypeOK, RestType
<1>2. /\ Sent \in TunnelRequests /\ Over \in TunnelRequests
  BY DEF TunnelRequests, NodeRequests, RequestOf
<1>3. Sent \in NodeRequests /\ Over \in NodeRequests
  BY DEF TunnelRequests, NodeRequests, RequestOf
<1>4. ASSUME NEW x \in Things, ThingStep(x)
      PROVE  RestType'
  <2>1. disturbed' \subseteq disturbed \cup {"gap"}
    BY <1>4 DEF ThingStep, Change, Publish
  <2>2. UNCHANGED <<streamVars, jwt, logins, requestVars, storeVars>>
    BY <1>4 DEF ThingStep, Change, Publish, Lives
  <2> QED BY <1>1, <2>1, <2>2 DEF RestType, Reasons, streamVars, requestVars, storeVars
<1>5. CASE Forward
  <2>1. UNCHANGED <<source, jwt, logins, requestVars, storeVars>>
    BY <1>5 DEF Forward
  <2>2. disturbed' \subseteq Reasons
    BY <1>1, <1>5 DEF Forward, RestType, Reasons
  <2>3. sub \in 1 .. MaxLog
    BY <1>1, <1>5 DEF Forward, RestType
  <2>4. /\ wire' \in Seq(1 .. MaxLog) /\ Len(wire') <= WireSize
    <3>1. CASE wire' = Append(wire, sub)
      BY <1>1, <1>5, <2>3, <3>1, FeedAssumption DEF Forward, RestType
    <3>2. CASE wire' = wire
      BY <1>1, <3>2 DEF RestType
    <3> QED BY <1>5, <3>1, <3>2 DEF Forward
  <2>5. sub' \in 0 .. MaxLog + 1
    BY <1>1, <1>5, <2>3, FeedAssumption DEF Forward
  <2> QED BY <1>1, <2>1, <2>2, <2>4, <2>5 DEF RestType, requestVars, storeVars
<1>6. CASE Subscribe
  BY <1>1, <1>6 DEF Subscribe, RestType, requestVars, storeVars
<1>7. CASE Break
  BY <1>1, <1>7, FeedAssumption DEF Break, RestType, requestVars, storeVars, Reasons
<1>8. CASE HandleEvent
  <2>1. UNCHANGED <<sub, source, jwt, logins, load, closing, nodes, shown, disturbed>>
    BY <1>8 DEF HandleEvent
  <2>2. /\ wire' \in Seq(1 .. MaxLog) /\ Len(wire') <= WireSize /\ Head(wire) \in 1 .. MaxLog
    BY <1>1, <1>8, HeadTailProperties, FeedAssumption DEF HandleEvent, RestType
  <2>3. CASE log[Head(wire)].id \in Tunnels
    BY <1>1, <1>8, <2>1, <2>2, <2>3 DEF HandleEvent, HandleTunnel, RestType
  <2>4. CASE log[Head(wire)].id \notin Tunnels
    <3>1. refetch' = [refetch EXCEPT ![Head(wire)] = Sent] /\ UNCHANGED <<tunnels, handled>>
      BY <1>8, <2>4 DEF HandleEvent
    <3> QED BY <1>1, <1>3, <2>1, <2>2, <3>1 DEF RestType
  <2> QED BY <2>3, <2>4
<1>9. ASSUME NEW s \in Logins, AnswerTunnels(s)
      PROVE  RestType'
  <2>1. Answered(Table(Tunnels), Len(log)) \in TunnelRequests
    BY <1>1, TableType DEF TunnelRequests, RequestOf, Answered
  <2>2. /\ load' = [load EXCEPT ![s].tunnels = Answered(Table(Tunnels), Len(log))]
        /\ UNCHANGED <<streamVars, jwt, logins, refetch, closing, storeVars, disturbed>>
    BY <1>9 DEF AnswerTunnels, Request
  <2> QED BY <1>1, <2>1, <2>2 DEF RestType, streamVars, storeVars
<1>10. ASSUME NEW s \in Logins, AnswerNodes(s)
      PROVE  RestType'
  <2>1. Answered(Registry, version) \in NodeRequests
    BY <1>1, TableType, AnsweredType DEF TunnelRequests, NodeRequests
  <2>2. /\ load' = [load EXCEPT ![s].nodes = Answered(Registry, version)]
        /\ UNCHANGED <<streamVars, jwt, logins, refetch, closing, storeVars, disturbed>>
    BY <1>10 DEF AnswerNodes, Request
  <2> QED BY <1>1, <2>1, <2>2 DEF RestType, streamVars, storeVars
<1>11. ASSUME NEW i \in 1 .. MaxLog, AnswerRefetch(i)
      PROVE  RestType'
  <2>1. Answered(Registry, version) \in NodeRequests
    BY <1>1, TableType, AnsweredType DEF TunnelRequests, NodeRequests
  <2>2. /\ refetch' = [refetch EXCEPT ![i] = Answered(Registry, version)]
        /\ UNCHANGED <<streamVars, jwt, logins, load, closing, storeVars, disturbed>>
    BY <1>11 DEF AnswerRefetch, Request
  <2> QED BY <1>1, <2>1, <2>2 DEF RestType, streamVars, storeVars
<1>12. ASSUME NEW s \in Logins, ApplyLoad(s)
      PROVE  RestType'
  <2>1. /\ load[s].tunnels.rows \in SUBSET Tunnels /\ load[s].nodes.rows \in Lists
        /\ load[s].nodes.at \in Nat
    BY <1>12, LoadFacts, RequestFacts DEF ApplyLoad
  <2>2. /\ load' = [load EXCEPT ![s] = [tunnels |-> Over, nodes |-> Over]]
        /\ tunnels' = load[s].tunnels.rows
        /\ nodes' = load[s].nodes.rows
        /\ shown' = load[s].nodes.at
        /\ UNCHANGED <<streamVars, jwt, logins, refetch, closing, handled>>
    BY <1>12 DEF ApplyLoad
  <2>3. disturbed' \subseteq Reasons
    BY <1>1, <1>12 DEF ApplyLoad, If, RestType, Reasons
  <2> QED BY <1>1, <1>2, <1>3, <2>1, <2>2, <2>3 DEF RestType, streamVars
<1>13. ASSUME NEW i \in 1 .. MaxLog, ApplyRefetch(i)
      PROVE  RestType'
  <2>1. refetch[i].rows \in Lists /\ refetch[i].at \in Nat
    BY <1>1, <1>13, RequestFacts DEF ApplyRefetch, RestType, NodeRequests
  <2>2. /\ refetch' = [refetch EXCEPT ![i] = Over]
        /\ nodes' = refetch[i].rows
        /\ shown' = refetch[i].at
        /\ UNCHANGED <<streamVars, jwt, logins, load, closing, tunnels, handled>>
    BY <1>13 DEF ApplyRefetch
  <2>3. disturbed' \subseteq Reasons
    BY <1>1, <1>13 DEF ApplyRefetch, If, RestType, Reasons
  <2> QED BY <1>1, <1>3, <2>1, <2>2, <2>3 DEF RestType, streamVars
<1>14. ASSUME NEW i \in 1 .. MaxLog, RefetchFails(i)
      PROVE  RestType'
  <2>1. /\ refetch' = [refetch EXCEPT ![i] = Over]
        /\ disturbed' = disturbed \cup {"lost"}
        /\ UNCHANGED <<streamVars, jwt, logins, load, closing, storeVars>>
    BY <1>14 DEF RefetchFails
  <2> QED BY <1>1, <1>3, <2>1 DEF RestType, streamVars, storeVars, Reasons
<1>15. CASE Login
  <2>1. /\ logins < MaxLogins /\ jwt' = logins + 1 /\ logins' = logins + 1
        /\ load' = [load EXCEPT ![logins + 1] = [tunnels |-> Sent, nodes |-> Sent]]
        /\ source' = "connecting" /\ handled' = 0 /\ shown' = 0
        /\ UNCHANGED <<sub, wire, refetch, closing, tunnels, nodes>>
    BY <1>15 DEF Login
  <2>2. disturbed' \subseteq Reasons
    BY <1>15 DEF Login, If, Reasons
  <2>3. /\ jwt' \in 0 .. logins' /\ logins' \in 0 .. MaxLogins
    BY <1>1, <2>1, FeedAssumption DEF RestType
  <2> QED BY <1>1, <1>2, <1>3, <2>1, <2>2, <2>3 DEF RestType
<1>16. CASE Logout
  BY <1>1, <1>16, TableType, FeedAssumption DEF Logout, LogsOut, Clear, RestType, requestVars
<1>17. ASSUME NEW s \in Logins, LoadFails(s)
      PROVE  RestType'
  <2>1. /\ load' = [load EXCEPT ![s] = [tunnels |-> Over, nodes |-> Over]]
        /\ jwt' = 0 /\ source' = "closed" /\ sub' = 0 /\ wire' = <<>>
        /\ tunnels' = {} /\ nodes' = NoRows /\ handled' = 0 /\ shown' = 0
        /\ UNCHANGED <<logins, refetch, closing, disturbed>>
    BY <1>17 DEF LoadFails, LogsOut, Clear
  <2> QED BY <1>1, <1>2, <1>3, <2>1, TableType, FeedAssumption DEF RestType
<1>18. ASSUME NEW t \in Tunnels, ClickClose(t) \/ AnswerClose(t) \/ RemoveRow(t)
      PROVE  RestType'
  <2>1. /\ closing' \in [Tunnels -> {"no", "sent", "found", "removed"}]
        /\ tunnels' \subseteq tunnels
        /\ UNCHANGED <<streamVars, jwt, logins, load, refetch, nodes, handled, shown, disturbed>>
    BY <1>1, <1>18 DEF ClickClose, AnswerClose, RemoveRow, ClosingStep, RestType
  <2> QED BY <1>1, <2>1 DEF RestType, streamVars
<1>19. CASE UNCHANGED vars
  BY <1>1, <1>19 DEF RestType, vars, serverVars, streamVars, requestVars, storeVars
<1>20. ASSUME NEW n \in Nodes, CountStep(n)
       PROVE  RestType'
  BY <1>1, <1>20, CountStepFacts DEF RestType, streamVars, requestVars, storeVars
<1>21. \A x \in Things : Enter(x) \/ Leave(x) => ThingStep(x)
  BY ThingSteps
<1>22. \A n \in Nodes : AckNodeFails(n) => ThingStep(n) /\ n \in Things
  BY ThingSteps DEF Things
<1> QED BY <1>4, <1>5, <1>6, <1>7, <1>8, <1>9, <1>10, <1>11, <1>12, <1>13, <1>14, <1>15, <1>16,
           <1>17, <1>18, <1>19, <1>20, <1>21, <1>22
        DEF Next, CountStep, Browser, Answer, Failure, User

LEMMA TypeKept ==
  ASSUME TypeOK, CountInv, [Next]_vars
  PROVE  TypeOK'
BY RestKept, CountKept DEF TypeOK, RestType

-----------------------------------------------------------------------------
(* What is on its way, step by step *)

\* The rows of the registry are those of the nodes that are listed.
LEMMA RegistryKept ==
  ASSUME life' = life, counted' = counted
  PROVE  Registry' = Registry
BY DEF Registry, Table, TunnelsOf


\* The rows of all nodes but one are the same as before: what was read of them agrees.
LEMMA RowsKept ==
  ASSUME FeedInv, NEW n \in Nodes, RowChanges(n),
         \A m \in Nodes : m # n => Registry'[m] = Registry[m],
         \A m \in Nodes : life[m] = "none" => m = n \/ life'[m] = "none",
         UNCHANGED <<jwt, load, refetch, nodes, shown, disturbed>>
  PROVE  RowsInv'
<1>1. /\ version' = version + 1 /\ version \in Nat
      /\ \A m \in Nodes : changed'[m] = IF m = n THEN version + 1 ELSE changed[m]
  BY WireFacts DEF RowChanges, FeedInv, TypeOK
<1>2. ASSUME NEW rows, NEW at \in Nat, Agrees(rows, at)
      PROVE  at <= version' /\ \A m \in Nodes : changed'[m] <= at => rows[m] = Registry'[m]
  BY <1>1, <1>2 DEF Agrees
<1>3. shown \in Nat
  BY WireFacts DEF FeedInv
<1>4. \A m \in Nodes : changed'[m] = 0 => life'[m] = "none"
  BY <1>1 DEF FeedInv, FlowInv, RowsInv
<1>5. \A s \in Logins :
        load[s].nodes.state = "answered" => Agrees(load[s].nodes.rows, load[s].nodes.at)'
  BY <1>2, AnswerFacts DEF FeedInv, FlowInv, RowsInv, Agrees
<1> QED BY <1>2, <1>3, <1>4, AnswerFacts DEF FeedInv, FlowInv, RowsInv, Agrees

\* A thing is listed or unlisted: nothing that is on its way knows it.
LEMMA ChangeKeeps ==
  ASSUME FeedInv, NEW x \in Things, NEW c \in Changes, Change(x, c[1], c[2]),
         c[2] = "failed" => x \in Nodes
  PROVE  FlowInv'
<1>1. /\ life[x] = c[1] /\ life' = [life EXCEPT ![x] = c[2]]
      /\ counted' = counted /\ announced' = announced
      /\ log' = log /\ disturbed' = disturbed
      /\ sub' = sub /\ wire' = wire /\ source' = source /\ jwt' = jwt
      /\ load' = load /\ refetch' = refetch /\ closing' = closing
      /\ tunnels' = tunnels /\ nodes' = nodes /\ handled' = handled /\ shown' = shown
  BY DEF Change, Lives, streamVars, requestVars, storeVars
<1>2. \A y \in Things : life'[y] = IF y = x THEN c[2] ELSE life[y]
  BY <1>1 DEF FeedInv, TypeOK
<1>3. /\ c[1] \in {"none", "listed", "open"} /\ c[2] \in {"listed", "unlisted", "failed"}
      /\ c[1] = "open" <=> c[2] = "unlisted"
      /\ c[1] = "listed" => x \notin Tunnels
      /\ Tunnels \subseteq Things /\ Nodes \subseteq Things
  BY FeedAssumption DEF Changes, Things
<1>4. StreamInv' /\ DueInv' /\ LoadInv' /\ LogoutClears'
  BY <1>1 DEF FeedInv, FlowInv, StreamInv, DueInv, FirstDue, LoadInv, LogoutClears
<1>5. \A p : (Due(p)' <=> Due(p)) /\ (Since(p)' <=> Since(p))
  BY <1>1 DEF Due, FirstDue, Since
<1>6. SnapshotInv'
  BY <1>1, <1>2, <1>3, <1>5 DEF FeedInv, FlowInv, SnapshotInv
<1>7. ListInv'
  BY <1>1, <1>2, <1>3, <1>5 DEF FeedInv, FlowInv, ListInv
<1>8. RowsInv'
  <2>1. \A m \in Nodes : m # x => (m \in Table(Nodes)' <=> m \in Table(Nodes))
    BY <1>2, <1>3 DEF Table
  <2>2. \A m \in Nodes : TunnelsOf(m)' = TunnelsOf(m)
    BY <1>1 DEF TunnelsOf
  <2>3. \A m \in Nodes : m # x => Registry'[m] = Registry[m]
    BY <2>1, <2>2 DEF Registry
  <2>4. CASE x \in Nodes
    <3>1. RowChanges(x)
      BY <2>4 DEF Change
    <3> QED BY <1>1, <1>2, <1>3, <2>3, <2>4, <3>1, RowsKept
  <2>5. CASE x \notin Nodes
    <3>1. version' = version /\ changed' = changed
      BY <2>5 DEF Change, rowVars
    <3>2. \A m \in Nodes : Registry'[m] = Registry[m] /\ life'[m] = life[m]
      BY <1>2, <1>3, <2>3, <2>5
    <3> QED BY <1>1, <3>1, <3>2 DEF FeedInv, FlowInv, RowsInv, Agrees
  <2> QED BY <2>4, <2>5
<1>9. NodesInv'
  BY <1>1, <1>5 DEF FeedInv, FlowInv, NodesInv, CatchUp, Fresh
<1> QED BY <1>4, <1>6, <1>7, <1>8, <1>9 DEF FlowInv

\* The number of tunnels of a node changes: nobody is told.
LEMMA CountKeeps ==
  ASSUME FeedInv, NEW n \in Nodes, CountStep(n)
  PROVE  FlowInv'
<1>1. /\ life' = life /\ log' = log /\ announced' = announced /\ disturbed' = disturbed
      /\ sub' = sub /\ wire' = wire /\ source' = source /\ jwt' = jwt
      /\ load' = load /\ refetch' = refetch /\ closing' = closing
      /\ tunnels' = tunnels /\ nodes' = nodes /\ handled' = handled /\ shown' = shown
  BY CountStepFacts DEF FeedInv, streamVars, requestVars, storeVars
<1>2. StreamInv' /\ DueInv' /\ LoadInv' /\ LogoutClears'
  BY <1>1 DEF FeedInv, FlowInv, StreamInv, DueInv, FirstDue, LoadInv, LogoutClears
<1>3. \A p : (Due(p)' <=> Due(p)) /\ (Since(p)' <=> Since(p))
  BY <1>1 DEF Due, FirstDue, Since
<1>4. SnapshotInv' /\ ListInv' /\ NodesInv'
  BY <1>1, <1>3 DEF FeedInv, FlowInv, SnapshotInv, ListInv, NodesInv, CatchUp, Fresh
<1>5. RowsInv'
  <2>1. Table(Nodes)' = Table(Nodes)
    BY <1>1 DEF Table
  <2>2. \A m \in Nodes : m # n => Registry'[m] = Registry[m]
    BY <2>1, CountStepFacts DEF FeedInv, Registry
  <2>3. CASE n \in Table(Nodes)
    <3>1. RowChanges(n)
      BY <2>3, CountStepFacts DEF FeedInv
    <3> QED BY <1>1, <2>2, <3>1, RowsKept
  <2>4. CASE n \notin Table(Nodes)
    <3>1. version' = version /\ changed' = changed
      BY <2>4, CountStepFacts DEF FeedInv, rowVars
    <3>2. \A m \in Nodes : Registry'[m] = Registry[m]
      BY <2>1, <2>2, <2>4 DEF Registry
    <3> QED BY <1>1, <3>1, <3>2 DEF FeedInv, FlowInv, RowsInv, Agrees
  <2> QED BY <2>3, <2>4
<1> QED BY <1>2, <1>4, <1>5 DEF FlowInv

\* The event is due to the receiver there is; without one the snapshot will have it.
LEMMA PublishKeeps ==
  ASSUME FeedInv, NEW x \in Things, NEW e \in Events, Publish(x, e[1], e[2], e[3])
  PROVE  FlowInv'
<1> DEFINE from == e[1]  to == e[2]  type == e[3]
<1> HIDE DEF from, to, type
<1>0. /\ Publish(x, from, to, type)
      /\ \/ from = "listed" /\ to = "open" /\ type = "opened"
         \/ from = "unlisted" /\ to = "closed" /\ type = "closed"
  BY DEF Events, from, to, type
<1>1. /\ life[x] = from /\ life' = [life EXCEPT ![x] = to] /\ type \in {"opened", "closed"}
      /\ \/ from = "listed" /\ to = "open" /\ type = "opened"
         \/ from = "unlisted" /\ to = "closed" /\ type = "closed"
      /\ counted' = counted /\ version' = version /\ changed' = changed
      /\ announced' = IF x \in Nodes THEN version ELSE announced
      /\ log' = Append(log, [type |-> type, id |-> x])
      /\ sub' = sub /\ wire' = wire /\ source' = source /\ jwt' = jwt
      /\ load' = load /\ refetch' = refetch /\ closing' = closing
      /\ tunnels' = tunnels /\ nodes' = nodes /\ handled' = handled /\ shown' = shown
  BY <1>0 DEF Publish, Lives, rowVars, streamVars, requestVars, storeVars
<1>2. \A y \in Things : life'[y] = IF y = x THEN to ELSE life[y]
  BY <1>1 DEF FeedInv, TypeOK
<1>3. /\ disturbed' \in {disturbed, disturbed \cup {"gap"}}
      /\ disturbed' = {} => disturbed = {} /\ (sub # 0 \/ ~SnapshotTaken(x))
  BY <1>0 DEF Publish
<1>4. /\ Len(log) \in Nat /\ Len(log') = Len(log) + 1
      /\ DOMAIN log = 1 .. Len(log) /\ DOMAIN log' = 1 .. Len(log) + 1
      /\ \A p \in DOMAIN log : log'[p] = log[p]
      /\ log'[Len(log) + 1].id = x
  BY <1>1, PublishedLog DEF FeedInv
<1>5. PICK last : last = Len(log) + 1
  OBVIOUS
<1>6. /\ Len(wire) \in Nat /\ DOMAIN wire = 1 .. Len(wire) /\ sub \in Nat /\ handled \in Nat
      /\ Tunnels \subseteq Things /\ Nodes \subseteq Things
  BY WireFacts DEF FeedInv, Things
<1>7. /\ \A p \in DOMAIN log : Due(p)' <=> Due(p)
      /\ sub # 0 => Due(last)'
  BY <1>1, <1>4, <1>6, <1>5 DEF FeedInv, FlowInv, StreamInv, Due, FirstDue
<1>8. StreamInv' /\ DueInv' /\ LoadInv' /\ LogoutClears'
  <2>1. StreamInv'
    BY <1>1, <1>4, <1>6 DEF FeedInv, FlowInv, StreamInv
  <2>2. DueInv' /\ LoadInv' /\ LogoutClears'
    BY <1>1, <1>3 DEF FeedInv, FlowInv, DueInv, FirstDue, LoadInv, LogoutClears
  <2> QED BY <2>1, <2>2
<1>9. x \in Tunnels => x \notin Nodes
  BY FeedAssumption
<1>10. SnapshotInv'
  <2> SUFFICES ASSUME jwt # 0, disturbed' = {}, load[jwt].tunnels.state = "answered"
               PROVE  /\ load[jwt].tunnels.at <= Len(log')
                      /\ \A p \in DOMAIN log' :
                           Since(p)' /\ log'[p].id \in Tunnels => Due(p)' \/ p <= handled
                      /\ \A t \in Tunnels : (\A p \in DOMAIN log' : Since(p)' => log'[p].id # t)
                           => /\ t \in load[jwt].tunnels.rows
                                   => life'[t] \in {"listed", "open", "unlisted"}
                              /\ life'[t] = "open" => t \in load[jwt].tunnels.rows
    BY <1>1 DEF SnapshotInv
  <2>1. /\ load[jwt].tunnels.at <= Len(log) /\ load[jwt].tunnels.at \in Nat
        /\ \A p \in DOMAIN log : Since(p) /\ log[p].id \in Tunnels => Due(p) \/ p <= handled
        /\ \A t \in Tunnels : (\A p \in DOMAIN log : Since(p) => log[p].id # t)
             => /\ t \in load[jwt].tunnels.rows => life[t] \in {"listed", "open", "unlisted"}
                /\ life[t] = "open" => t \in load[jwt].tunnels.rows
    BY <1>3, LogFacts, WireFacts, LoadFacts, RequestFacts DEF FeedInv, FlowInv, SnapshotInv
  <2>2. /\ \A p \in DOMAIN log : Since(p)' <=> Since(p)
        /\ Since(last)'
    BY <1>1, <1>4, <1>5, <2>1 DEF Since
  <2>3. x \in Tunnels => sub # 0
    BY <1>3, <1>9 DEF SnapshotTaken
  <2>4. \A p \in DOMAIN log' : Since(p)' /\ log'[p].id \in Tunnels => Due(p)' \/ p <= handled
    BY <1>4, <1>7, <1>5, <2>1, <2>2, <2>3
  <2>5. ASSUME NEW t \in Tunnels, \A p \in DOMAIN log' : Since(p)' => log'[p].id # t
        PROVE  t # x /\ \A p \in DOMAIN log : Since(p) => log[p].id # t
    BY <1>4, <1>5, <2>2, <2>5
  <2> QED BY <1>2, <1>4, <1>6, <2>1, <2>4, <2>5
<1>11. ListInv'
  <2> SUFFICES ASSUME jwt # 0, disturbed' = {}, load[jwt].tunnels = Over, NEW t \in Tunnels,
                      \A p \in DOMAIN log' : Due(p)' => log'[p].id # t
               PROVE  /\ t \in tunnels => life'[t] \in {"listed", "open", "unlisted"}
                      /\ life'[t] = "open" => t \in tunnels \/ closing[t] = "removed"
    BY <1>1 DEF ListInv, Over
  <2>1. x \in Tunnels => sub # 0
    BY <1>3, <1>9 DEF SnapshotTaken, Over
  <2>2. t # x /\ \A p \in DOMAIN log : Due(p) => log[p].id # t
    BY <1>4, <1>7, <1>5, <2>1
  <2> QED BY <1>2, <1>3, <1>6, <2>2 DEF FeedInv, FlowInv, ListInv
<1>12. RowsInv'
  <2>1. Registry' = Registry
    <3>1. Table(Nodes)' = Table(Nodes)
      BY <1>1, <1>2, <1>6 DEF Table
    <3> QED BY <1>1, <3>1 DEF Registry, TunnelsOf
  <2>2. \A n \in Nodes : life[n] = "none" => life'[n] = "none"
    BY <1>1, <1>2, <1>6
  <2>3. \A n \in Nodes : changed'[n] = 0 => life'[n] = "none"
    BY <1>1, <2>2 DEF FeedInv, FlowInv, RowsInv
  <2> QED BY <1>1, <1>3, <2>1, <2>3 DEF FeedInv, FlowInv, RowsInv, Agrees
<1>13. NodesInv'
  <2> SUFFICES ASSUME jwt # 0, disturbed' = {}
               PROVE  CatchUp'
    BY <1>1 DEF NodesInv
  <2>1. CASE x \in Nodes
    <3>1. CASE sub # 0
      <4>1. last \in DOMAIN log' /\ Due(last)' /\ log'[last].id \in Nodes
        BY <1>4, <1>7, <1>5, <2>1, <3>1
      <4> QED BY <4>1 DEF CatchUp
    <3>2. CASE sub = 0
      <4>1. load[jwt].nodes.state \notin {"answered", "over"} /\ load[jwt].nodes # Unsent
        BY <1>3, <2>1, <3>2 DEF SnapshotTaken, FeedInv, FlowInv, LoadInv
      <4>2. load[jwt].nodes.state = "sent"
        BY <4>1, LoadFacts, RequestFacts, WireFacts DEF FeedInv
      <4> QED BY <1>1, <4>2 DEF CatchUp, Fresh
    <3> QED BY <3>1, <3>2
  <2>2. CASE x \notin Nodes
    <3>1. CatchUp
      BY <1>3 DEF FeedInv, FlowInv, NodesInv
    <3>2. \A p \in DOMAIN log : p \in DOMAIN log' /\ log'[p].id = log[p].id
      BY <1>4
    <3> QED BY <1>1, <1>2, <1>6, <1>7, <2>2, <3>1, <3>2 DEF CatchUp, Fresh
  <2> QED BY <2>1, <2>2
<1> QED BY <1>8, <1>10, <1>11, <1>12, <1>13 DEF FlowInv

\* An event that is written is still due; one that is skipped is a gap.
LEMMA ForwardKeeps ==
  ASSUME FeedInv, Forward
  PROVE  FlowInv'
<1>1. /\ life' = life /\ log' = log /\ counted' = counted /\ version' = version
      /\ changed' = changed /\ announced' = announced /\ source' = source /\ jwt' = jwt
      /\ load' = load /\ refetch' = refetch /\ closing' = closing
      /\ tunnels' = tunnels /\ nodes' = nodes /\ handled' = handled /\ shown' = shown
  BY DEF Forward, serverVars, rowVars, requestVars, storeVars
<1>2. sub # 0 /\ sub <= Len(log)
  BY DEF Forward
<1>3. /\ Len(wire) \in Nat /\ DOMAIN wire = 1 .. Len(wire) /\ Len(log) \in Nat
      /\ sub \in Nat /\ handled \in Nat /\ Capacity \in Nat \ {0}
  BY LogFacts, WireFacts, FeedAssumption DEF FeedInv
<1>4. \/ /\ disturbed' # {} /\ ("late" \in disturbed' <=> "late" \in disturbed)
         /\ wire' = wire /\ sub' \in 1 .. Len(log) + 1
      \/ disturbed' = disturbed /\ wire' = Append(wire, sub) /\ sub' = sub + 1
  BY <1>2, <1>3 DEF Forward
<1>5. StreamInv' /\ LoadInv' /\ LogoutClears' /\ RowsInv'
  <2>1. StreamInv'
    <3>1. source = "open"
      BY <1>2 DEF FeedInv, FlowInv, StreamInv
    <3>2. \A k \in DOMAIN wire' : wire'[k] \in 1 .. Len(log)
      <4>1. \A k \in DOMAIN wire : wire[k] \in 1 .. Len(log)
        BY DEF FeedInv, FlowInv, StreamInv
      <4>2. CASE wire' = Append(wire, sub)
        <5>1. wire \in Seq(1 .. MaxLog)
          BY DEF FeedInv, TypeOK
        <5>2. DOMAIN wire' = 1 .. Len(wire) + 1
          BY <1>3, <4>2, <5>1
        <5>3. \A k \in DOMAIN wire' : wire'[k] = IF k = Len(wire) + 1 THEN sub ELSE wire[k]
          BY <1>3, <4>2, <5>1
        <5> QED BY <1>2, <1>3, <4>1, <5>2, <5>3
      <4> QED BY <1>4, <4>1, <4>2
    <3> QED BY <1>1, <1>2, <1>3, <1>4, <3>1, <3>2 DEF FeedInv, FlowInv, StreamInv
  <2>2. LoadInv' /\ LogoutClears'
    BY <1>1, <1>4 DEF FeedInv, FlowInv, LoadInv, LogoutClears
  <2>3. RowsInv'
    BY <1>1, <1>4, RegistryKept DEF FeedInv, FlowInv, RowsInv, Agrees
  <2> QED BY <2>1, <2>2, <2>3
<1>6. CASE disturbed' # {}
  BY <1>1, <1>5, <1>6 DEF FlowInv, DueInv, SnapshotInv, ListInv, NodesInv
<1>7. CASE disturbed' = {}
  <2>1. disturbed = {} /\ wire' = Append(wire, sub) /\ sub' = sub + 1
    BY <1>4, <1>7
  <2>2. wire \in Seq(1 .. MaxLog)
    BY DEF FeedInv, TypeOK
  <2>3. /\ Len(wire') = Len(wire) + 1 /\ DOMAIN wire' = 1 .. Len(wire) + 1
        /\ \A k \in DOMAIN wire' : wire'[k] = IF k = Len(wire) + 1 THEN sub ELSE wire[k]
    BY <1>3, <2>1, <2>2
  <2>4. FirstDue' = FirstDue
    BY <1>3, <2>1, <2>3 DEF FirstDue
  <2>5. \A p : (Due(p)' <=> Due(p)) /\ (Since(p)' <=> Since(p))
    BY <1>1, <1>2, <1>3, <2>1, <2>4 DEF Due, Since
  <2>6. DueInv'
    BY <1>1, <1>2, <1>3, <2>1, <2>3, <2>4 DEF FeedInv, FlowInv, DueInv, FirstDue
  <2>7. SnapshotInv' /\ ListInv'
    BY <1>1, <2>1, <2>5 DEF FeedInv, FlowInv, SnapshotInv, ListInv
  <2>8. NodesInv'
    BY <1>1, <2>1, <2>5 DEF FeedInv, FlowInv, NodesInv, CatchUp, Fresh
  <2> QED BY <1>5, <2>6, <2>7, <2>8 DEF FlowInv
<1> QED BY <1>6, <1>7

\* A new receiver has nothing due to it.
LEMMA SubscribeKeeps ==
  ASSUME FeedInv, Subscribe
  PROVE  FlowInv'
<1>1. /\ life' = life /\ log' = log /\ counted' = counted /\ version' = version
      /\ changed' = changed /\ announced' = announced /\ jwt' = jwt /\ wire' = wire
      /\ load' = load /\ refetch' = refetch /\ closing' = closing /\ disturbed' = disturbed
      /\ tunnels' = tunnels /\ nodes' = nodes /\ handled' = handled /\ shown' = shown
      /\ source = "connecting" /\ source' = "open" /\ sub' = Len(log) + 1
  BY DEF Subscribe, serverVars, rowVars, requestVars, storeVars
<1>2. /\ sub = 0 /\ wire = <<>> /\ jwt # 0 /\ handled <= Len(log)
  BY <1>1 DEF FeedInv, FlowInv, StreamInv
<1>3. Len(log) \in Nat /\ handled \in Nat /\ Len(wire) = 0 /\ DOMAIN wire = {}
  BY <1>2, LogFacts, WireFacts DEF FeedInv
<1>4. StreamInv' /\ DueInv' /\ LoadInv' /\ LogoutClears' /\ RowsInv'
  <2>1. StreamInv' /\ DueInv'
    BY <1>1, <1>2, <1>3 DEF StreamInv, DueInv, FirstDue
  <2>2. LoadInv' /\ LogoutClears' /\ RowsInv'
    BY <1>1, RegistryKept DEF FeedInv, FlowInv, LoadInv, LogoutClears, RowsInv, Agrees
  <2> QED BY <2>1, <2>2
<1>5. \A p \in DOMAIN log : ~Due(p) /\ ~Due(p)' /\ (Since(p)' <=> Since(p))
  BY <1>1, <1>2, <1>3, LogFacts DEF FeedInv, Due, FirstDue, Since
<1>6. SnapshotInv' /\ ListInv'
  BY <1>1, <1>5 DEF FeedInv, FlowInv, SnapshotInv, ListInv
<1>7. NodesInv'
  BY <1>1, <1>5 DEF FeedInv, FlowInv, NodesInv, CatchUp, Fresh
<1> QED BY <1>4, <1>6, <1>7 DEF FlowInv

\* A stream that breaks with events due is a gap.
LEMMA BreakKeeps ==
  ASSUME FeedInv, Break
  PROVE  FlowInv'
<1>1. /\ life' = life /\ log' = log /\ counted' = counted /\ version' = version
      /\ changed' = changed /\ announced' = announced /\ jwt' = jwt
      /\ load' = load /\ refetch' = refetch /\ closing' = closing
      /\ tunnels' = tunnels /\ nodes' = nodes /\ handled' = handled /\ shown' = shown
      /\ source = "open" /\ source' = "connecting" /\ sub' = 0 /\ wire' = <<>>
      /\ disturbed' \in {disturbed, disturbed \cup {"gap"}}
      /\ disturbed' = {} => disturbed = {} /\ wire = <<>> /\ ~(sub <= Len(log))
  BY DEF Break, serverVars, rowVars, requestVars, storeVars
<1>2. Len(log) \in Nat /\ sub \in Nat /\ DOMAIN log = 1 .. Len(log)
  BY LogFacts, WireFacts DEF FeedInv
<1>3. StreamInv' /\ DueInv' /\ LoadInv' /\ LogoutClears' /\ RowsInv'
  <2>1. StreamInv' /\ DueInv'
    BY <1>1, <1>2 DEF FeedInv, FlowInv, StreamInv, DueInv, FirstDue
  <2>2. LoadInv' /\ LogoutClears' /\ RowsInv'
    BY <1>1, RegistryKept DEF FeedInv, FlowInv, LoadInv, LogoutClears, RowsInv, Agrees
  <2> QED BY <2>1, <2>2
<1>4. disturbed' = {} => \A p \in DOMAIN log : ~Due(p) /\ ~Due(p)' /\ (Since(p)' <=> Since(p))
  BY <1>1, <1>2 DEF Due, FirstDue, Since
<1>5. SnapshotInv' /\ ListInv'
  BY <1>1, <1>4 DEF FeedInv, FlowInv, SnapshotInv, ListInv
<1>6. NodesInv'
  BY <1>1, <1>4 DEF FeedInv, FlowInv, NodesInv, CatchUp, Fresh
<1> QED BY <1>3, <1>5, <1>6 DEF FlowInv

\* The event that is handled is the first that was due: a row is made right by it, and
\* the registry is asked for.
LEMMA HandleKeeps ==
  ASSUME FeedInv, HandleEvent
  PROVE  FlowInv'
<1>1. /\ life' = life /\ log' = log /\ counted' = counted /\ version' = version
      /\ changed' = changed /\ announced' = announced /\ jwt' = jwt /\ sub' = sub
      /\ source' = source /\ load' = load /\ closing' = closing /\ disturbed' = disturbed
      /\ nodes' = nodes /\ shown' = shown /\ wire # <<>> /\ wire' = Tail(wire)
  BY DEF HandleEvent, serverVars, rowVars
<1>2. PICK h : h = Head(wire)
  OBVIOUS
<1>3. /\ log[h].id \in Tunnels => /\ handled' = h /\ refetch' = refetch
                                  /\ tunnels' = IF log[h].type = "opened"
                                                THEN tunnels \cup {log[h].id}
                                                ELSE tunnels \ {log[h].id}
      /\ log[h].id \notin Tunnels => /\ refetch' = [refetch EXCEPT ![h] = Sent]
                                     /\ tunnels' = tunnels /\ handled' = handled
  BY <1>2 DEF HandleEvent, HandleTunnel
<1>4. /\ Len(log) \in Nat /\ sub \in Nat /\ handled \in Nat /\ DOMAIN log = 1 .. Len(log)
      /\ Len(wire) \in Nat /\ DOMAIN wire = 1 .. Len(wire) /\ Len(log) <= MaxLog /\ MaxLog \in Nat
  BY LogFacts, WireFacts DEF FeedInv, TypeOK
<1>5. /\ Len(wire) # 0 /\ Len(wire') = Len(wire) - 1 /\ DOMAIN wire' = 1 .. Len(wire) - 1
      /\ \A k \in DOMAIN wire' : wire'[k] = wire[k + 1]
      /\ h = wire[1]
  <2>1. wire \in Seq(1 .. MaxLog)
    BY DEF FeedInv, TypeOK
  <2> QED BY <1>1, <1>2, <1>4, <2>1, HeadTailProperties, EmptySeq
<1>6. source = "open" /\ sub # 0 /\ jwt # 0 /\ h \in DOMAIN log
  BY <1>1, <1>4, <1>5 DEF FeedInv, FlowInv, StreamInv
<1>7. StreamInv' /\ LoadInv' /\ LogoutClears'
  <2>1. StreamInv'
    BY <1>1, <1>3, <1>4, <1>5, <1>6 DEF FeedInv, FlowInv, StreamInv
  <2>2. LoadInv' /\ LogoutClears'
    BY <1>1, <1>6 DEF FeedInv, FlowInv, LoadInv, LogoutClears
  <2> QED BY <2>1, <2>2
<1>8. RowsInv'
  <2>1. Registry' = Registry
    BY <1>1, RegistryKept
  <2>2. \A i \in 1 .. MaxLog : refetch'[i] = refetch[i] \/ refetch'[i] = Sent
    BY <1>3, <1>4 DEF FeedInv, TypeOK
  <2>3. Sent.state # "answered"
    BY DEF Sent
  <2> QED BY <1>1, <2>1, <2>2, <2>3 DEF FeedInv, FlowInv, RowsInv, Agrees
<1>9. CASE disturbed' # {}
  BY <1>7, <1>8, <1>9 DEF FlowInv, DueInv, SnapshotInv, ListInv, NodesInv
<1>10. CASE disturbed' = {}
  <2>1. disturbed = {} /\ h = FirstDue /\ handled < h
    BY <1>1, <1>5, <1>4, <1>6, <1>10 DEF FeedInv, FlowInv, DueInv, FirstDue
  <2>2. FirstDue' = h + 1
    BY <1>1, <1>4, <1>5, <2>1 DEF FirstDue
  <2>3. \A p \in DOMAIN log : /\ Due(p) <=> Due(p)' \/ p = h
                              /\ Due(p)' <=> p > h
    BY <1>1, <1>4, <1>6, <2>1, <2>2 DEF Due
  <2>4. DueInv'
    BY <1>1, <1>3, <1>4, <1>5, <1>6, <2>1, <2>2 DEF FeedInv, FlowInv, DueInv, FirstDue
  <2>5. SnapshotInv'
    <3>1. \A p \in DOMAIN log : /\ p <= handled => p <= handled'
                                /\ Since(p)' <=> Since(p)
                                /\ log[h].id \in Tunnels => h <= handled'
      BY <1>1, <1>3, <1>4, <1>6, <2>1 DEF Since
    <3> QED BY <1>1, <2>1, <2>3, <3>1 DEF FeedInv, FlowInv, SnapshotInv
  <2>6. ListInv'
    <3> SUFFICES ASSUME jwt # 0, load[jwt].tunnels = Over, NEW t \in Tunnels,
                        \A p \in DOMAIN log : Due(p)' => log[p].id # t
                 PROVE  /\ t \in tunnels' => life[t] \in {"listed", "open", "unlisted"}
                        /\ life[t] = "open" => t \in tunnels' \/ closing[t] = "removed"
      BY <1>1 DEF ListInv
    <3>1. CASE log[h].id # t
      <4>1. \A p \in DOMAIN log : Due(p) => log[p].id # t
        BY <2>3, <3>1
      <4>2. t \in tunnels' <=> t \in tunnels
        BY <1>3, <3>1
      <4> QED BY <2>1, <4>1, <4>2 DEF FeedInv, FlowInv, ListInv
    <3>2. CASE log[h].id = t /\ log[h].type = "opened"
      <4>1. life[t] \in {"open", "unlisted", "closed"}
        BY <1>6, <3>2 DEF FeedInv, LifeInv
      <4>2. ASSUME life[t] = "closed"
            PROVE  FALSE
        <5>1. PICK p \in DOMAIN log : log[p] = [type |-> "closed", id |-> t]
          BY <4>2 DEF FeedInv, LifeInv, Things
        <5>2. log[p].type = "closed" /\ log[p].id = t
          BY <5>1
        <5>3. h < p
          BY <1>6, <3>2, <5>2 DEF FeedInv, LifeInv
        <5> QED BY <1>4, <2>3, <5>2, <5>3
      <4>3. t \in tunnels'
        BY <1>3, <3>2
      <4> QED BY <4>1, <4>2, <4>3
    <3>3. CASE log[h].id = t /\ log[h].type = "closed"
      <4>1. life[t] = "closed"
        BY <1>6, <3>3 DEF FeedInv, LifeInv
      <4>2. t \notin tunnels'
        BY <1>3, <3>3
      <4> QED BY <4>1, <4>2
    <3> QED BY <1>6, <3>1, <3>2, <3>3, LogFacts DEF FeedInv
  <2>7. NodesInv'
    <3> SUFFICES CatchUp'
      BY DEF NodesInv
    <3>1. CatchUp
      BY <1>6, <2>1 DEF FeedInv, FlowInv, NodesInv
    <3>2. CASE log[h].id \in Nodes
      <4>1. log[h].id \notin Tunnels /\ h \in 1 .. MaxLog
        BY <1>4, <1>6, <3>2, FeedAssumption
      <4>2. refetch'[h] = Sent
        BY <1>3, <4>1 DEF FeedInv, TypeOK
      <4> QED BY <4>1, <4>2 DEF CatchUp, Fresh, Sent
    <3>3. CASE log[h].id \notin Nodes
      <4>1. refetch' = refetch
        BY <1>3, <1>6, <3>3, LogFacts DEF FeedInv, Things
      <4> QED BY <1>1, <2>3, <3>1, <3>3, <4>1 DEF CatchUp, Fresh
    <3> QED BY <3>2, <3>3
  <2> QED BY <1>7, <1>8, <2>4, <2>5, <2>6, <2>7 DEF FlowInv
<1> QED BY <1>9, <1>10

\* The answer of a snapshot has the table of the time.
LEMMA AnswerTunnelsKeeps ==
  ASSUME FeedInv, NEW s \in Logins, AnswerTunnels(s)
  PROVE  FlowInv'
<1>1. /\ life' = life /\ log' = log /\ counted' = counted /\ version' = version
      /\ changed' = changed /\ announced' = announced /\ jwt' = jwt /\ disturbed' = disturbed
      /\ sub' = sub /\ wire' = wire /\ source' = source /\ refetch' = refetch /\ closing' = closing
      /\ tunnels' = tunnels /\ nodes' = nodes /\ handled' = handled /\ shown' = shown
      /\ load[s].tunnels = Sent
  BY DEF AnswerTunnels, Request, serverVars, rowVars, streamVars, storeVars
<1>2. /\ \A r \in Logins : r # s => load'[r] = load[r]
      /\ load'[s].nodes = load[s].nodes
      /\ load'[s].tunnels = Answered(Table(Tunnels), Len(log))
  BY DEF AnswerTunnels, FeedInv, TypeOK
<1>3. /\ Len(log) \in Nat /\ DOMAIN log = 1 .. Len(log)
      /\ jwt # 0 => jwt \in Logins
  BY LogFacts, WireFacts DEF FeedInv
<1>4. StreamInv' /\ DueInv' /\ LogoutClears'
  BY <1>1 DEF FeedInv, FlowInv, StreamInv, DueInv, FirstDue, LogoutClears
<1>5. /\ load[s].nodes # Over
      /\ load'[s].tunnels # Over /\ load'[s].tunnels # Unsent
      /\ load'[s].tunnels.state = "answered" /\ load'[s].tunnels.at = Len(log)
      /\ load'[s].tunnels.rows = Table(Tunnels)
  BY <1>1, <1>2 DEF FeedInv, FlowInv, LoadInv, Sent, Over, Unsent, Answered
<1>6. LoadInv'
  BY <1>1, <1>2, <1>3, <1>5 DEF FeedInv, FlowInv, LoadInv
<1>7. \A p : Due(p)' <=> Due(p)
  BY <1>1 DEF Due, FirstDue
<1>8. SnapshotInv'
  <2>1. CASE jwt = s
    <3>1. \A p \in DOMAIN log : ~Since(p)'
      BY <1>1, <1>3, <1>5, <2>1 DEF Since
    <3> QED BY <1>1, <1>3, <1>5, <2>1, <3>1 DEF SnapshotInv, Table
  <2>2. CASE jwt # s
    <3>1. jwt # 0 => load'[jwt] = load[jwt]
      BY <1>2, <1>3, <2>2
    <3>2. jwt # 0 => \A p : Since(p)' <=> Since(p)
      BY <1>1, <3>1 DEF Since
    <3> QED BY <1>1, <1>7, <3>1, <3>2 DEF FeedInv, FlowInv, SnapshotInv
  <2> QED BY <2>1, <2>2
<1>9. ListInv'
  <2>1. jwt # 0 /\ load'[jwt].tunnels = Over => load[jwt].tunnels = Over
    BY <1>2, <1>3, <1>5
  <2> QED BY <1>1, <1>7, <2>1 DEF FeedInv, FlowInv, ListInv
<1>10. RowsInv' /\ NodesInv'
  <2>1. \A r \in Logins : load'[r].nodes = load[r].nodes
    BY <1>2
  <2>2. RowsInv'
    BY <1>1, <2>1, RegistryKept DEF FeedInv, FlowInv, RowsInv, Agrees
  <2>3. NodesInv'
    BY <1>1, <1>3, <1>7, <2>1 DEF FeedInv, FlowInv, NodesInv, CatchUp, Fresh
  <2> QED BY <2>2, <2>3
<1> QED BY <1>4, <1>6, <1>8, <1>9, <1>10 DEF FlowInv

LEMMA AnswerNodesKeeps ==
  ASSUME FeedInv, NEW s \in Logins, AnswerNodes(s)
  PROVE  FlowInv'
<1>1. /\ life' = life /\ log' = log /\ counted' = counted /\ version' = version
      /\ changed' = changed /\ announced' = announced /\ jwt' = jwt /\ disturbed' = disturbed
      /\ sub' = sub /\ wire' = wire /\ source' = source /\ refetch' = refetch /\ closing' = closing
      /\ tunnels' = tunnels /\ nodes' = nodes /\ handled' = handled /\ shown' = shown
      /\ load[s].nodes = Sent
  BY DEF AnswerNodes, Request, serverVars, rowVars, streamVars, storeVars
<1>2. /\ \A r \in Logins : r # s => load'[r] = load[r]
      /\ load'[s].tunnels = load[s].tunnels
      /\ load'[s].nodes = Answered(Registry, version)
  BY DEF AnswerNodes, FeedInv, TypeOK
<1>3. version \in Nat /\ announced \in Nat /\ announced <= version /\ (jwt # 0 => jwt \in Logins)
  BY WireFacts DEF FeedInv
<1>4. StreamInv' /\ DueInv' /\ LogoutClears'
  BY <1>1 DEF FeedInv, FlowInv, StreamInv, DueInv, FirstDue, LogoutClears
<1>5. /\ load[s].tunnels # Over
      /\ load'[s].nodes # Over /\ load'[s].nodes # Unsent
      /\ load'[s].nodes.state = "answered" /\ load'[s].nodes.at = version
      /\ load'[s].nodes.rows = Registry
  BY <1>1, <1>2 DEF FeedInv, FlowInv, LoadInv, Sent, Over, Unsent, Answered
<1>6. LoadInv'
  BY <1>1, <1>2, <1>3, <1>5 DEF FeedInv, FlowInv, LoadInv
<1>7. \A r \in Logins : load'[r].tunnels = load[r].tunnels
  BY <1>2
<1>8. \A p : (Due(p)' <=> Due(p)) /\ (jwt # 0 => (Since(p)' <=> Since(p)))
  BY <1>1, <1>3, <1>7 DEF Due, FirstDue, Since
<1>9. SnapshotInv' /\ ListInv'
  BY <1>1, <1>3, <1>7, <1>8 DEF FeedInv, FlowInv, SnapshotInv, ListInv
<1>10. RowsInv'
  <2>1. Registry' = Registry
    BY <1>1, RegistryKept
  <2> QED BY <1>1, <1>2, <1>3, <1>5, <2>1 DEF FeedInv, FlowInv, RowsInv, Agrees
<1>11. NodesInv'
  BY <1>1, <1>2, <1>3, <1>5, <1>8 DEF FeedInv, FlowInv, NodesInv, CatchUp, Fresh
<1> QED BY <1>4, <1>6, <1>9, <1>10, <1>11 DEF FlowInv

LEMMA AnswerRefetchKeeps ==
  ASSUME FeedInv, NEW i \in 1 .. MaxLog, AnswerRefetch(i)
  PROVE  FlowInv'
<1>1. /\ life' = life /\ log' = log /\ counted' = counted /\ version' = version
      /\ changed' = changed /\ announced' = announced /\ jwt' = jwt /\ disturbed' = disturbed
      /\ sub' = sub /\ wire' = wire /\ source' = source /\ load' = load /\ closing' = closing
      /\ tunnels' = tunnels /\ nodes' = nodes /\ handled' = handled /\ shown' = shown
  BY DEF AnswerRefetch, Request, serverVars, rowVars, streamVars, storeVars
<1>2. /\ \A j \in 1 .. MaxLog : j # i => refetch'[j] = refetch[j]
      /\ refetch'[i] = Answered(Registry, version)
  BY DEF AnswerRefetch, FeedInv, TypeOK
<1>3. /\ refetch'[i].state = "answered" /\ refetch'[i].at = version
      /\ refetch'[i].rows = Registry /\ version \in Nat /\ announced \in Nat
      /\ announced <= version
  BY <1>2, WireFacts DEF FeedInv, Answered
<1>4. StreamInv' /\ DueInv' /\ LogoutClears' /\ LoadInv'
  BY <1>1 DEF FeedInv, FlowInv, StreamInv, DueInv, FirstDue, LogoutClears, LoadInv
<1>5. \A p : (Due(p)' <=> Due(p)) /\ (Since(p)' <=> Since(p))
  BY <1>1 DEF Due, FirstDue, Since
<1>6. SnapshotInv' /\ ListInv'
  BY <1>1, <1>5 DEF FeedInv, FlowInv, SnapshotInv, ListInv
<1>7. RowsInv'
  <2>1. Registry' = Registry
    BY <1>1, RegistryKept
  <2> QED BY <1>1, <1>2, <1>3, <2>1, WireFacts DEF FeedInv, FlowInv, RowsInv, Agrees
<1>8. NodesInv'
  BY <1>1, <1>2, <1>3, <1>5 DEF FeedInv, FlowInv, NodesInv, CatchUp, Fresh
<1> QED BY <1>4, <1>6, <1>7, <1>8 DEF FlowInv

\* The stores are set from the snapshots: what they do not tell was due, or it was
\* handled too early.
LEMMA ApplyLoadKeeps ==
  ASSUME FeedInv, NEW s \in Logins, ApplyLoad(s)
  PROVE  FlowInv'
<1>1. /\ life' = life /\ log' = log /\ counted' = counted /\ version' = version
      /\ changed' = changed /\ announced' = announced /\ jwt' = jwt
      /\ sub' = sub /\ wire' = wire /\ source' = source /\ refetch' = refetch /\ closing' = closing
      /\ handled' = handled
      /\ load[s].tunnels.state = "answered" /\ load[s].nodes.state = "answered"
      /\ tunnels' = load[s].tunnels.rows /\ nodes' = load[s].nodes.rows
      /\ shown' = load[s].nodes.at
  BY DEF ApplyLoad, serverVars, rowVars, streamVars
<1>2. /\ disturbed \subseteq disturbed'
      /\ s # jwt => "late" \in disturbed'
      /\ handled > load[s].tunnels.at => disturbed' # {}
      /\ shown > load[s].nodes.at => disturbed' # {}
  BY DEF ApplyLoad, If
<1>3. /\ \A r \in Logins : r # s => load'[r] = load[r]
      /\ load'[s].nodes = Over /\ load'[s].tunnels = Over
  BY DEF ApplyLoad, FeedInv, TypeOK
<1>4. /\ Len(log) \in Nat /\ DOMAIN log = 1 .. Len(log) /\ version \in Nat /\ shown \in Nat
      /\ handled \in Nat /\ load[s].tunnels.at \in Nat /\ load[s].nodes.at \in Nat
      /\ jwt # 0 => jwt \in Logins
  BY <1>1, LogFacts, WireFacts, AnswerFacts DEF FeedInv
<1>5. s # 0 /\ Over # Unsent /\ Over.state = "over"
  BY FeedAssumption DEF Logins, Over, Unsent
<1>6. StreamInv' /\ LogoutClears' /\ LoadInv' /\ DueInv'
  <2>1. StreamInv' /\ LogoutClears'
    BY <1>1, <1>2, <1>5 DEF FeedInv, FlowInv, StreamInv, LogoutClears
  <2>2. LoadInv'
    BY <1>1, <1>3, <1>4, <1>5 DEF FeedInv, FlowInv, LoadInv
  <2>3. disturbed' = {} => disturbed = {}
    BY <1>2
  <2>4. DueInv'
    BY <1>1, <2>3 DEF FeedInv, FlowInv, DueInv, FirstDue
  <2> QED BY <2>1, <2>2, <2>4
<1>7. ASSUME disturbed' = {}
      PROVE  /\ disturbed = {} /\ s = jwt /\ handled <= load[s].tunnels.at
             /\ shown <= load[s].nodes.at
  BY <1>2, <1>4, <1>7
<1>8. \A p : Due(p)' <=> Due(p)
  BY <1>1 DEF Due, FirstDue
<1>9. SnapshotInv'
  BY <1>1, <1>3, <1>5, <1>7 DEF SnapshotInv
<1>10. ListInv'
  <2> SUFFICES ASSUME disturbed' = {}, NEW t \in Tunnels,
                      \A p \in DOMAIN log : Due(p) => log[p].id # t
               PROVE  /\ t \in tunnels' => life[t] \in {"listed", "open", "unlisted"}
                      /\ life[t] = "open" => t \in tunnels'
    BY <1>1, <1>8 DEF ListInv
  <2>1. /\ jwt # 0 /\ disturbed = {} /\ load[jwt].tunnels.state = "answered"
        /\ handled <= load[jwt].tunnels.at /\ tunnels' = load[jwt].tunnels.rows
    BY <1>1, <1>5, <1>7
  <2>2. \A p \in DOMAIN log : Since(p) /\ log[p].id \in Tunnels => Due(p)
    BY <1>4, <1>7, <2>1 DEF FeedInv, FlowInv, SnapshotInv, Since
  <2>3. \A p \in DOMAIN log : Since(p) => log[p].id # t
    BY <2>2
  <2> QED BY <2>1, <2>3 DEF FeedInv, FlowInv, SnapshotInv
<1>11. RowsInv'
  <2>1. Registry' = Registry
    BY <1>1, RegistryKept
  <2>2. Agrees(load[s].nodes.rows, load[s].nodes.at)
    BY <1>1, RegistryKept DEF FeedInv, FlowInv, RowsInv, Agrees
  <2> QED BY <1>1, <1>3, <1>5, <2>1, <2>2 DEF FeedInv, FlowInv, RowsInv, Agrees
<1>12. NodesInv'
  <2> SUFFICES ASSUME disturbed' = {}
               PROVE  CatchUp'
    BY DEF NodesInv
  <2>1. s = jwt /\ shown <= load[s].nodes.at /\ CatchUp
    BY <1>5, <1>7 DEF FeedInv, FlowInv, NodesInv
  <2>2. shown >= announced \/ Fresh(load[jwt].nodes) => shown' >= announced
    BY <1>1, <1>4, <2>1, WireFacts DEF FeedInv, Fresh
  <2> QED BY <1>1, <1>8, <2>1, <2>2 DEF CatchUp, Fresh
<1> QED BY <1>6, <1>9, <1>10, <1>11, <1>12 DEF FlowInv

LEMMA ApplyRefetchKeeps ==
  ASSUME FeedInv, NEW i \in 1 .. MaxLog, ApplyRefetch(i)
  PROVE  FlowInv'
<1>1. /\ life' = life /\ log' = log /\ counted' = counted /\ version' = version
      /\ changed' = changed /\ announced' = announced /\ jwt' = jwt
      /\ sub' = sub /\ wire' = wire /\ source' = source /\ load' = load /\ closing' = closing
      /\ handled' = handled /\ tunnels' = tunnels /\ refetch[i].state = "answered"
      /\ nodes' = refetch[i].rows /\ shown' = refetch[i].at
  BY DEF ApplyRefetch, serverVars, rowVars, streamVars
<1>2. /\ disturbed \subseteq disturbed'
      /\ jwt = 0 => "late" \in disturbed'
      /\ shown > refetch[i].at => disturbed' # {}
  BY DEF ApplyRefetch, If
<1>3. /\ \A j \in 1 .. MaxLog : j # i => refetch'[j] = refetch[j]
      /\ refetch'[i] = Over /\ Over.state = "over"
  BY DEF ApplyRefetch, FeedInv, TypeOK, Over
<1>4. version \in Nat /\ shown \in Nat /\ refetch[i].at \in Nat
  BY <1>1, WireFacts, AnswerFacts DEF FeedInv
<1>5. ASSUME disturbed' = {}
      PROVE  disturbed = {} /\ jwt # 0 /\ shown <= refetch[i].at
  BY <1>2, <1>4, <1>5
<1>6. \A p : (Due(p)' <=> Due(p)) /\ (Since(p)' <=> Since(p))
  BY <1>1 DEF Due, FirstDue, Since
<1>7. StreamInv' /\ LogoutClears' /\ LoadInv' /\ DueInv'
  <2>1. StreamInv' /\ LogoutClears' /\ LoadInv'
    BY <1>1, <1>2 DEF FeedInv, FlowInv, StreamInv, LogoutClears, LoadInv
  <2>2. DueInv'
    BY <1>1, <1>5 DEF FeedInv, FlowInv, DueInv, FirstDue
  <2> QED BY <2>1, <2>2
<1>8. SnapshotInv' /\ ListInv'
  BY <1>1, <1>5, <1>6 DEF FeedInv, FlowInv, SnapshotInv, ListInv
<1>9. Agrees(refetch[i].rows, refetch[i].at)
  BY <1>1, RegistryKept DEF FeedInv, FlowInv, RowsInv, Agrees
<1>10. RowsInv'
  <2>1. Registry' = Registry
    BY <1>1, RegistryKept
  <2> QED BY <1>1, <1>3, <1>9, <2>1 DEF FeedInv, FlowInv, RowsInv, Agrees
<1>11. NodesInv'
  <2> SUFFICES ASSUME disturbed' = {}
               PROVE  CatchUp'
    BY DEF NodesInv
  <2>1. shown <= refetch[i].at /\ CatchUp
    BY <1>5 DEF FeedInv, FlowInv, NodesInv
  <2>2. shown >= announced \/ Fresh(refetch[i]) => shown' >= announced
    BY <1>1, <1>4, <2>1, WireFacts DEF FeedInv, Fresh
  <2> QED BY <1>1, <1>3, <1>6, <2>1, <2>2 DEF CatchUp, Fresh
<1> QED BY <1>7, <1>8, <1>10, <1>11 DEF FlowInv

LEMMA RefetchFailsKeeps ==
  ASSUME FeedInv, NEW i \in 1 .. MaxLog, RefetchFails(i)
  PROVE  FlowInv'
<1>1. /\ life' = life /\ log' = log /\ counted' = counted /\ version' = version
      /\ changed' = changed /\ announced' = announced /\ jwt' = jwt
      /\ sub' = sub /\ wire' = wire /\ source' = source /\ load' = load /\ closing' = closing
      /\ tunnels' = tunnels /\ nodes' = nodes /\ handled' = handled /\ shown' = shown
      /\ disturbed' = disturbed \cup {"lost"}
  BY DEF RefetchFails, serverVars, rowVars, streamVars, storeVars
<1>2. /\ \A j \in 1 .. MaxLog : j # i => refetch'[j] = refetch[j]
      /\ refetch'[i] = Over /\ Over.state = "over"
  BY DEF RefetchFails, FeedInv, TypeOK, Over
<1>3. StreamInv' /\ LogoutClears' /\ LoadInv'
  BY <1>1 DEF FeedInv, FlowInv, StreamInv, LogoutClears, LoadInv
<1>4. RowsInv'
  BY <1>1, <1>2, RegistryKept DEF FeedInv, FlowInv, RowsInv, Agrees
<1> QED BY <1>1, <1>3, <1>4 DEF FlowInv, DueInv, SnapshotInv, ListInv, NodesInv

\* A session begins with empty stores, unless an answer to an earlier one came late.
LEMMA LoginKeeps ==
  ASSUME FeedInv, Login
  PROVE  FlowInv'
<1>1. /\ life' = life /\ log' = log /\ counted' = counted /\ version' = version
      /\ changed' = changed /\ announced' = announced /\ jwt = 0 /\ jwt' = logins + 1
      /\ sub' = sub /\ wire' = wire /\ source' = "connecting" /\ refetch' = refetch
      /\ tunnels' = tunnels /\ nodes' = nodes /\ handled' = 0 /\ shown' = 0
      /\ disturbed' = {} => nodes = NoRows
  BY DEF Login, serverVars, rowVars, If
<1>2. logins \in Nat /\ logins + 1 \in Logins
  BY FeedAssumption DEF FeedInv, TypeOK, Login, Logins
<1>3. /\ \A r \in Logins : r # jwt' => load'[r] = load[r]
      /\ load'[jwt'] = [tunnels |-> Sent, nodes |-> Sent]
      /\ Sent.state = "sent" /\ Sent # Over /\ Sent # Unsent
  BY <1>1, <1>2 DEF Login, FeedInv, TypeOK, Sent, Over, Unsent
<1>4. /\ sub = 0 /\ wire = <<>> /\ Len(log) \in Nat /\ version \in Nat
      /\ jwt' # 0 /\ jwt' \in Logins
  BY <1>1, <1>2, LogFacts, WireFacts DEF FeedInv, FlowInv, StreamInv
<1>5. StreamInv' /\ DueInv' /\ LogoutClears' /\ LoadInv'
  <2>1. StreamInv' /\ DueInv' /\ LogoutClears'
    BY <1>1, <1>4 DEF StreamInv, DueInv, LogoutClears
  <2>2. LoadInv'
    BY <1>3, <1>4 DEF FeedInv, FlowInv, LoadInv
  <2> QED BY <2>1, <2>2
<1>6. SnapshotInv' /\ ListInv' /\ NodesInv'
  BY <1>3 DEF SnapshotInv, ListInv, NodesInv, CatchUp, Fresh
<1>7. RowsInv'
  <2>1. Registry' = Registry
    BY <1>1, RegistryKept
  <2>2. \A n \in Nodes : changed[n] = 0 => life[n] = "none"
    BY DEF FeedInv, FlowInv, RowsInv
  <2>3. \A n \in Nodes : changed[n] = 0 => Registry[n] = {} /\ NoRows[n] = {}
    BY <2>2 DEF Registry, Table, NoRows
  <2>4. \A n \in Nodes : changed[n] <= 0 => changed[n] = 0
    BY WireFacts DEF FeedInv
  <2>5. disturbed' = {}
          => /\ shown' <= version'
             /\ \A n \in Nodes : changed'[n] <= shown' => nodes'[n] = Registry'[n]
    <3>1. disturbed' = {} => nodes' = NoRows
      BY <1>1
    <3>2. \A n \in Nodes : changed'[n] <= 0 => NoRows[n] = Registry'[n]
      BY <1>1, <2>1, <2>3, <2>4
    <3> QED BY <1>1, <1>4, <3>1, <3>2 DEF Agrees
  <2>6. \A r \in Logins : load'[r].nodes.state = "answered" => load'[r].nodes = load[r].nodes
    BY <1>3
  <2>7. \A r \in Logins :
          load'[r].nodes.state = "answered" => Agrees(load'[r].nodes.rows, load'[r].nodes.at)
    BY <2>6 DEF FeedInv, FlowInv, RowsInv
  <2>8. \A i \in 1 .. MaxLog :
          refetch'[i].state = "answered" => Agrees(refetch'[i].rows, refetch'[i].at)
    BY <1>1 DEF FeedInv, FlowInv, RowsInv
  <2> QED BY <1>1, <2>1, <2>2, <2>5, <2>7, <2>8 DEF RowsInv, Agrees
<1> QED BY <1>5, <1>6, <1>7 DEF FlowInv

\* Who logs out has no stream and empty stores.
LEMMA LogoutKeeps ==
  ASSUME FeedInv, Logout \/ \E s \in Logins : LoadFails(s)
  PROVE  FlowInv'
<1>1. /\ life' = life /\ log' = log /\ counted' = counted /\ version' = version
      /\ changed' = changed /\ announced' = announced /\ jwt' = 0
      /\ sub' = 0 /\ wire' = <<>> /\ source' = "closed" /\ refetch' = refetch
      /\ tunnels' = {} /\ nodes' = NoRows /\ handled' = 0 /\ shown' = 0
  BY DEF Logout, LoadFails, LogsOut, Clear, serverVars, rowVars, requestVars
<1>2. \A r \in Logins : \/ load'[r] = load[r]
                        \/ load'[r].tunnels = Over /\ load'[r].nodes = Over
  BY DEF Logout, LoadFails, FeedInv, TypeOK, requestVars
<1>3. StreamInv' /\ DueInv' /\ LogoutClears'
  BY <1>1, LogFacts DEF FeedInv, FlowInv, StreamInv, DueInv, LogoutClears
<1>4. LoadInv'
  BY <1>1, <1>2 DEF FeedInv, FlowInv, LoadInv
<1>5. RowsInv'
  <2>1. \A r \in Logins : load'[r].nodes.state = "answered" => load'[r].nodes = load[r].nodes
    BY <1>2 DEF Over
  <2> QED BY <1>1, <2>1, RegistryKept DEF FeedInv, FlowInv, RowsInv, Agrees
<1> QED BY <1>1, <1>3, <1>4, <1>5 DEF FlowInv, SnapshotInv, ListInv, NodesInv

\* A row is removed only with its removal noted.
LEMMA CloseKeeps ==
  ASSUME FeedInv, NEW t \in Tunnels, ClickClose(t) \/ AnswerClose(t) \/ RemoveRow(t)
  PROVE  FlowInv'
<1>1. /\ life' = life /\ log' = log /\ counted' = counted /\ version' = version
      /\ changed' = changed /\ announced' = announced /\ jwt' = jwt
      /\ sub' = sub /\ wire' = wire /\ source' = source /\ load' = load /\ refetch' = refetch
      /\ nodes' = nodes /\ handled' = handled /\ shown' = shown /\ disturbed' = disturbed
      /\ \/ tunnels' = tunnels
         \/ tunnels' = tunnels \ {t} /\ closing'[t] = "removed"
      /\ \A u \in Tunnels : closing[u] = "removed" => closing'[u] = "removed"
  BY DEF ClickClose, AnswerClose, RemoveRow, ClosingStep, serverVars, rowVars, streamVars,
      FeedInv, TypeOK
<1>2. \A p : (Due(p)' <=> Due(p)) /\ (Since(p)' <=> Since(p))
  BY <1>1 DEF Due, FirstDue, Since
<1>3. StreamInv' /\ DueInv' /\ LogoutClears' /\ LoadInv' /\ RowsInv'
  <2>1. StreamInv' /\ DueInv'
    BY <1>1 DEF FeedInv, FlowInv, StreamInv, DueInv, FirstDue
  <2>2. LogoutClears' /\ LoadInv' /\ RowsInv'
    BY <1>1, RegistryKept DEF FeedInv, FlowInv, LogoutClears, LoadInv, RowsInv, Agrees
  <2> QED BY <2>1, <2>2
<1>4. SnapshotInv' /\ NodesInv'
  BY <1>1, <1>2 DEF FeedInv, FlowInv, SnapshotInv, NodesInv, CatchUp, Fresh
<1>5. ListInv'
  BY <1>1, <1>2 DEF FeedInv, FlowInv, ListInv
<1> QED BY <1>3, <1>4, <1>5 DEF FlowInv

-----------------------------------------------------------------------------
(* The theorems *)

LEMMA StartFlow == Init => FeedInv
<1> SUFFICES ASSUME Init PROVE FeedInv
  OBVIOUS
<1>1. \A x \in Things : life[x] = "none"
  BY DEF Init
<1>2. Opened = {} /\ Closed = {}
  BY <1>1 DEF Opened, Closed
<1>3. MaxLog \in Nat /\ Cardinality({}) = 0
  BY Bounded, FS_EmptySet
<1>4. TypeOK
  BY <1>3, FeedAssumption DEF Init, TypeOK, TunnelRequests, NodeRequests, RequestOf,
      NoRows, Lists
<1>5. CountInv
  BY <1>2, <1>3 DEF Init, CountInv
<1>6. LifeInv
  BY <1>1 DEF Init, LifeInv
<1>7. StreamInv /\ DueInv /\ SnapshotInv /\ ListInv /\ NodesInv /\ LogoutClears
  BY DEF Init, StreamInv, DueInv, SnapshotInv, ListInv, NodesInv, LogoutClears
<1>8. LoadInv /\ RowsInv
  BY <1>1 DEF Init, LoadInv, RowsInv, Things, Unsent, Over
<1> QED BY <1>4, <1>5, <1>6, <1>7, <1>8 DEF FeedInv, FlowInv

LEMMA NextFlow ==
  ASSUME FeedInv, [Next]_vars
  PROVE  FeedInv'
<1>1. TypeOK' /\ CountInv' /\ LifeInv'
  BY TypeKept, CountKept, LifeKept DEF FeedInv
<1>2. /\ \A x \in Things : ThingStep(x) => FlowInv'
      /\ \A n \in Nodes : CountStep(n) => FlowInv'
  BY ChangeKeeps, PublishKeeps, CountKeeps DEF ThingStep
<1>3. Forward \/ Subscribe => FlowInv'
  BY ForwardKeeps, SubscribeKeeps
<1>4. Browser => FlowInv'
  BY HandleKeeps, ApplyLoadKeeps, ApplyRefetchKeeps, CloseKeeps DEF Browser
<1>5. Answer => FlowInv'
  BY AnswerTunnelsKeeps, AnswerNodesKeeps, AnswerRefetchKeeps, CloseKeeps DEF Answer
<1>6. Failure => FlowInv'
  BY BreakKeeps, RefetchFailsKeeps, LogoutKeeps DEF Failure
<1>7. User => FlowInv'
  BY LoginKeeps, LogoutKeeps, CloseKeeps DEF User
<1>8. UNCHANGED vars => FlowInv'
  <2> SUFFICES ASSUME UNCHANGED vars PROVE FlowInv'
    OBVIOUS
  <2>1. /\ life' = life /\ log' = log /\ counted' = counted /\ version' = version
        /\ changed' = changed /\ announced' = announced /\ jwt' = jwt
        /\ sub' = sub /\ wire' = wire /\ source' = source /\ load' = load /\ refetch' = refetch
        /\ nodes' = nodes /\ handled' = handled /\ shown' = shown /\ disturbed' = disturbed
        /\ tunnels' = tunnels /\ closing' = closing
    BY DEF vars, serverVars, rowVars, streamVars, requestVars, storeVars
  <2>2. \A p : (Due(p)' <=> Due(p)) /\ (Since(p)' <=> Since(p))
    BY <2>1 DEF Due, FirstDue, Since
  <2>3. StreamInv' /\ DueInv' /\ LogoutClears' /\ LoadInv'
    BY <2>1 DEF FeedInv, FlowInv, StreamInv, DueInv, FirstDue, LogoutClears, LoadInv
  <2>4. RowsInv'
    BY <2>1, RegistryKept DEF FeedInv, FlowInv, RowsInv, Agrees
  <2>5. SnapshotInv' /\ ListInv' /\ NodesInv'
    BY <2>1, <2>2 DEF FeedInv, FlowInv, SnapshotInv, ListInv, NodesInv, CatchUp, Fresh
  <2> QED BY <2>3, <2>4, <2>5 DEF FlowInv
<1>9. \A x \in Things : Enter(x) \/ Leave(x) => ThingStep(x)
  BY ThingSteps
<1>10. \A n \in Nodes : AckNodeFails(n) => ThingStep(n) /\ n \in Things
  BY ThingSteps DEF Things
<1>11. FlowInv'
  BY <1>2, <1>3, <1>4, <1>5, <1>6, <1>7, <1>8, <1>9, <1>10 DEF Next, CountStep
<1> QED BY <1>1, <1>11 DEF FeedInv

\* The lists of a dashboard that has missed nothing are made right by what is on its way.
THEOREM Invariance == Spec => []FeedInv
<1>1. Init => FeedInv
  BY StartFlow
<1>2. FeedInv /\ [Next]_vars => FeedInv'
  BY NextFlow
<1> QED BY <1>1, <1>2, PTL DEF Spec

\* Every store, request and event is what the code can hold.
THEOREM TypeCorrect == Spec => []TypeOK
<1>1. FeedInv => TypeOK
  BY DEF FeedInv
<1> QED BY <1>1, Invariance, PTL

\* Who is logged out sees nothing, but for late answers (the subscriber of the jwt store).
THEOREM LogoutSafe == Spec => []LogoutClears
<1>1. FeedInv => LogoutClears
  BY DEF FeedInv, FlowInv
<1> QED BY <1>1, Invariance, PTL

\* When nothing is under way the lists are right, whatever the order of the changes,
\* snapshots, events, refetches and removals was (loadAll, handleEvent, onClose), but for
\* the rows of nodes that changed with no event since.
THEOREM SyncSafe == Spec => []ListsInSync
<1>1. FeedInv => ListsInSync
  <2> SUFFICES ASSUME FeedInv, disturbed = {}, Calm
               PROVE  /\ (\A t \in Tunnels : life[t] \in {"none", "open", "closed"})
                           => /\ tunnels \subseteq Table(Tunnels)
                              /\ Table(Tunnels)
                                   \subseteq tunnels \cup {t \in Tunnels : closing[t] = "removed"}
                      /\ (\A i \in 1 .. MaxLog : ~Pending(refetch[i]))
                           => \A n \in Nodes : nodes[n] = Registry[n] \/ Silent(n)
    BY DEF ListsInSync
  <2>1. /\ jwt # 0 /\ jwt \in Logins /\ load[jwt].tunnels = Over
        /\ \A p \in DOMAIN log : ~Due(p)
    <3>1. Len(wire) = 0 /\ sub = Len(log) + 1
      BY DEF Calm
    <3> QED BY <3>1, LogFacts, WireFacts DEF Calm, FeedInv, Due, FirstDue
  <2>2. ASSUME \A t \in Tunnels : life[t] \in {"none", "open", "closed"}
        PROVE  /\ tunnels \subseteq Table(Tunnels)
               /\ Table(Tunnels) \subseteq tunnels \cup {t \in Tunnels : closing[t] = "removed"}
    <3>1. \A t \in Tunnels : /\ t \in tunnels => life[t] \in {"listed", "open", "unlisted"}
                             /\ life[t] = "open" => t \in tunnels \/ closing[t] = "removed"
      BY <2>1 DEF FeedInv, FlowInv, ListInv
    <3>2. tunnels \subseteq Tunnels
      BY DEF FeedInv, TypeOK
    <3> QED BY <2>2, <3>1, <3>2 DEF Table
  <2>3. ASSUME \A i \in 1 .. MaxLog : ~Pending(refetch[i]), NEW n \in Nodes
        PROVE  nodes[n] = Registry[n] \/ Silent(n)
    <3>1. load[jwt].nodes = Over
      BY <2>1 DEF FeedInv, FlowInv, LoadInv
    <3>2. ~Fresh(load[jwt].nodes) /\ \A i \in 1 .. MaxLog : ~Fresh(refetch[i])
      BY <2>3, <3>1 DEF Fresh, Pending, Over
    <3>3. shown >= announced
      BY <2>1, <3>2 DEF FeedInv, FlowInv, NodesInv, CatchUp
    <3>4. changed[n] <= shown => nodes[n] = Registry[n]
      BY <2>1 DEF FeedInv, FlowInv, RowsInv, Agrees
    <3> QED BY <3>3, <3>4, WireFacts DEF FeedInv, Silent
  <2> QED BY <2>2, <2>3
<1> QED BY <1>1, Invariance, PTL
=============================================================================
