----------------------------- MODULE EventFeed -----------------------------
(***************************************************************************)
(* The live lists of the dashboard.  The server keeps the tables, and      *)
(* publishes each change on a broadcast ring (events.rs, api/tunnels.rs);  *)
(* a dashboard (routes/+layout.svelte, stores.ts, api.ts) fills its stores *)
(* from REST snapshots and keeps them with the events of an SSE stream.    *)
(* Snapshots, stream and refetches are separate connections: what was      *)
(* asked first may be answered last.                                       *)
(***************************************************************************)
EXTENDS Naturals, Sequences, FiniteSets

CONSTANTS Tunnels,   \* tunnel ids
          Nodes,     \* node ids
          Capacity,  \* CHANNEL_CAPACITY, the events the ring keeps
          WireSize,  \* bound: events between the server's task and the browser
          MaxLogins, \* bound: sessions of one browser tab
          Closable,  \* bound: the tunnels the user may close
          Scenes     \* bound: the tunnels and nodes that are there in one behaviour

ASSUME FeedAssumption == /\ Capacity \in Nat \ {0} /\ WireSize \in Nat \ {0}
                         /\ MaxLogins \in Nat
                         /\ Tunnels \cap Nodes = {}
                         /\ IsFiniteSet(Tunnels) /\ IsFiniteSet(Nodes)

VARIABLES
  \* the server
  life,       \* where the task of each tunnel and node is
  counted,    \* the node that counts a tunnel, as pairs of tunnel and node
  log,        \* the events published, in order
  version,    \* number of changes of the rows of the registry
  changed,    \* version of the last change of the row of each node
  announced,  \* version at the last event of a node
  sub,        \* next event of the receiver of this dashboard, 0 without one
  \* between server and browser
  wire,       \* positions in log of the events that were sent and not handled
  \* the browser
  jwt,        \* number of the session, 0 when logged out
  logins,     \* sessions begun
  source,     \* the EventSource: closed, connecting or open
  load,       \* the two requests of loadAll of each session
  refetch,    \* the getNodes request sent for the node event at each position
  closing,    \* the DELETE of onClose for each tunnel
  tunnels,    \* the stores
  nodes,
  \* what has happened to this session
  handled,    \* position of the last event of a tunnel that was handled
  shown,      \* version of the rows the nodes store was set from
  disturbed   \* reasons for the stores to be inexact

rowVars == <<version, changed>>
serverVars == <<life, counted, log, rowVars, announced>>
streamVars == <<sub, wire, source>>
requestVars == <<load, refetch, closing>>
storeVars == <<tunnels, nodes, handled, shown>>
vars == <<serverVars, streamVars, jwt, logins, requestVars, storeVars, disturbed>>

Things == Tunnels \cup Nodes
MaxLog == 2 * Cardinality(Things)
Logins == 1 .. MaxLogins

\* active_tunnels and the node registry.
Table(S) == {x \in S : life[x] \in {"listed", "open"}}

\* A list of nodes has at most one row of each, with the number of its tunnels.
Lists == [Nodes -> SUBSET Nat]
NoRows == [n \in Nodes |-> {}]
TunnelsOf(n) == {t \in Tunnels : <<t, n>> \in counted}
Registry == [n \in Nodes |-> IF n \in Table(Nodes) THEN {Cardinality(TunnelsOf(n))} ELSE {}]

\* A request and its answer: the rows, and how much had happened when they were read.
Unsent == [state |-> "unsent"]
Sent == [state |-> "sent"]
Over == [state |-> "over"]
Answered(rows, at) == [state |-> "answered", rows |-> rows, at |-> at]
Pending(request) == request.state \in {"sent", "answered"}

Reasons == {"gap", "race", "late", "reorder", "lost"}

Init == /\ life = [x \in Things |-> "none"]
        /\ counted = {}
        /\ log = <<>>
        /\ version = 0
        /\ changed = [n \in Nodes |-> 0]
        /\ announced = 0
        /\ sub = 0
        /\ wire = <<>>
        /\ jwt = 0
        /\ logins = 0
        /\ source = "closed"
        /\ load = [s \in Logins |-> [tunnels |-> Unsent, nodes |-> Unsent]]
        /\ refetch = [i \in 1 .. MaxLog |-> Unsent]
        /\ closing = [t \in Tunnels |-> "no"]
        /\ tunnels = {}
        /\ nodes = NoRows
        /\ handled = 0
        /\ shown = 0
        /\ disturbed = {}

-----------------------------------------------------------------------------
(* The server: the table first, the event after it. *)

Lives(x, from, to) ==
  /\ life[x] = from
  /\ life' = [life EXCEPT ![x] = to]
  /\ UNCHANGED <<streamVars, jwt, logins, requestVars, storeVars>>

RowChanges(n) == version' = version + 1 /\ changed' = [changed EXCEPT ![n] = version + 1]

\* The table changes, and nobody is told yet.
Change(x, from, to) ==
  /\ Lives(x, from, to)
  /\ IF x \in Nodes THEN RowChanges(x) ELSE UNCHANGED rowVars
  /\ UNCHANGED <<counted, log, announced, disturbed>>

\* The snapshot of a session without a receiver is not kept up to date.
SnapshotTaken(x) ==
  /\ jwt # 0
  /\ (IF x \in Nodes THEN load[jwt].nodes ELSE load[jwt].tunnels).state \in {"answered", "over"}

Publish(x, from, to, type) ==
  /\ Lives(x, from, to)
  /\ log' = Append(log, [type |-> type, id |-> x])
  /\ announced' = IF x \in Nodes THEN version ELSE announced
  /\ disturbed' = IF sub = 0 /\ SnapshotTaken(x) THEN disturbed \cup {"gap"} ELSE disturbed
  /\ UNCHANGED <<counted, rowVars>>

Present == {x \in Things : life[x] # "none"}

Enter(x) == \/ (\E S \in Scenes : Present \cup {x} \subseteq S) /\ Change(x, "none", "listed")
            \/ Publish(x, "listed", "open", "opened")

\* A node that cannot be told NodeRegistered is removed again without an event.
AckNodeFails(n) == Change(n, "listed", "failed")

\* increment_tunnels and decrement_tunnels: the row of a node that is still registered
\* changes, and no event of a node says so.
Counts(n) ==
  /\ IF n \in Table(Nodes) THEN RowChanges(n) ELSE UNCHANGED rowVars
  /\ UNCHANGED <<life, log, announced, streamVars, jwt, logins, requestVars, storeVars, disturbed>>

\* The node was picked while it was registered, and may have left.
CountTunnel(t, n) == /\ life[t] = "listed" /\ life[n] # "none"
                     /\ \A m \in Nodes : <<t, m>> \notin counted
                     /\ counted' = counted \cup {<<t, n>>}
                     /\ Counts(n)

UncountTunnel(t, n) == /\ life[t] = "open" /\ <<t, n>> \in counted
                       /\ counted' = counted \ {<<t, n>>}
                       /\ Counts(n)

\* Fault for the mutation runs: the event first, the table after it.
Leave_Swapped(x) == Publish(x, "open", "closing", "closed") \/ Change(x, "closing", "closed")

\* A tunnel is uncounted before its entry is removed.
Leave(x) == \/ (\A n \in Nodes : <<x, n>> \notin counted) /\ Change(x, "open", "unlisted")
            \/ Publish(x, "unlisted", "closed", "closed")

\* stream_events: an event the ring still has is written; a receiver that is too far
\* behind goes on with the oldest event there is, and nobody is told.
Forward ==
  /\ sub # 0 /\ sub <= Len(log) /\ Len(wire) < WireSize
  /\ IF Len(log) - sub < Capacity
     THEN wire' = Append(wire, sub) /\ sub' = sub + 1 /\ UNCHANGED disturbed
     ELSE sub' = Len(log) - Capacity + 1 /\ disturbed' = disturbed \cup {"gap"} /\ UNCHANGED wire
  /\ UNCHANGED <<serverVars, source, jwt, logins, requestVars, storeVars>>

-----------------------------------------------------------------------------
(* The stream of the browser *)

\* The server answers the EventSource, with a receiver of the events from now on.
Subscribe == /\ source = "connecting"
             /\ source' = "open"
             /\ sub' = Len(log) + 1
             /\ UNCHANGED <<serverVars, wire, jwt, logins, requestVars, storeVars, disturbed>>

\* The stream breaks; the EventSource connects again by itself, and asks for nothing
\* it has missed.
Break == /\ source = "open"
         /\ source' = "connecting"
         /\ sub' = 0
         /\ wire' = <<>>
         /\ disturbed' = IF wire # <<>> \/ sub <= Len(log)
                         THEN disturbed \cup {"gap"} ELSE disturbed
         /\ UNCHANGED <<serverVars, jwt, logins, requestVars, storeVars>>

\* Fault: a row that is closed stays.
HandleTunnel_Keeps(event) ==
  tunnels' = IF event.type = "opened" THEN tunnels \cup {event.id} ELSE tunnels

\* handleEvent.
HandleTunnel(event) ==
  tunnels' = IF event.type = "opened" THEN tunnels \cup {event.id} ELSE tunnels \ {event.id}

HandleEvent ==
  /\ wire # <<>>
  /\ wire' = Tail(wire)
  /\ LET event == log[Head(wire)]
     IN IF event.id \in Tunnels
        THEN HandleTunnel(event) /\ handled' = Head(wire) /\ UNCHANGED refetch
        ELSE refetch' = [refetch EXCEPT ![Head(wire)] = Sent] /\ UNCHANGED <<tunnels, handled>>
  /\ UNCHANGED <<serverVars, sub, source, jwt, logins, load, closing, nodes, shown, disturbed>>

-----------------------------------------------------------------------------
(* The requests.  GET reads its table under the lock, and is answered some time. *)

Request == UNCHANGED <<serverVars, streamVars, jwt, logins, closing, storeVars, disturbed>>

AnswerTunnels(s) == /\ load[s].tunnels = Sent
                    /\ load' = [load EXCEPT ![s].tunnels = Answered(Table(Tunnels), Len(log))]
                    /\ UNCHANGED refetch /\ Request

AnswerNodes(s) == /\ load[s].nodes = Sent
                  /\ load' = [load EXCEPT ![s].nodes = Answered(Registry, version)]
                  /\ UNCHANGED refetch /\ Request

AnswerRefetch(i) == /\ refetch[i] = Sent
                    /\ refetch' = [refetch EXCEPT ![i] = Answered(Registry, version)]
                    /\ UNCHANGED load /\ Request

If(condition, reason) == IF condition THEN {reason} ELSE {}

\* Both answers of loadAll have come: the stores are set, whatever has happened since.
ApplyLoad(s) ==
  /\ load[s].tunnels.state = "answered" /\ load[s].nodes.state = "answered"
  /\ load' = [load EXCEPT ![s] = [tunnels |-> Over, nodes |-> Over]]
  /\ tunnels' = load[s].tunnels.rows
  /\ nodes' = load[s].nodes.rows
  /\ shown' = load[s].nodes.at
  /\ disturbed' = disturbed \cup If(s # jwt, "late")
                            \cup If(handled > load[s].tunnels.at, "race")
                            \cup If(shown > load[s].nodes.at, "reorder")
  /\ UNCHANGED <<serverVars, streamVars, jwt, logins, refetch, closing, handled>>

ApplyRefetch(i) ==
  /\ refetch[i].state = "answered"
  /\ refetch' = [refetch EXCEPT ![i] = Over]
  /\ nodes' = refetch[i].rows
  /\ shown' = refetch[i].at
  /\ disturbed' = disturbed \cup If(jwt = 0, "late") \cup If(shown > refetch[i].at, "reorder")
  /\ UNCHANGED <<serverVars, streamVars, jwt, logins, load, closing, tunnels, handled>>

\* A refetch that fails, in the server or on its way back, is forgotten.
RefetchFails(i) == /\ refetch[i] = Sent
                   /\ refetch' = [refetch EXCEPT ![i] = Over]
                   /\ disturbed' = disturbed \cup {"lost"}
                   /\ UNCHANGED <<serverVars, streamVars, jwt, logins, load, closing, storeVars>>

-----------------------------------------------------------------------------
(* Login and logout: the subscriber of the jwt store. *)

\* connect: loadAll is called first, then the EventSource is made.
Login ==
  /\ jwt = 0 /\ logins < MaxLogins
  /\ jwt' = logins + 1
  /\ logins' = logins + 1
  /\ load' = [load EXCEPT ![logins + 1] = [tunnels |-> Sent, nodes |-> Sent]]
  /\ source' = "connecting"
  /\ handled' = 0 /\ shown' = 0
  /\ disturbed' = If(tunnels # {} \/ nodes # NoRows, "late")
  /\ UNCHANGED <<serverVars, sub, wire, refetch, closing, tunnels, nodes>>

LogsOut == /\ jwt' = 0
           /\ source' = "closed"
           /\ sub' = 0
           /\ wire' = <<>>
           /\ handled' = 0 /\ shown' = 0

\* Fault: the stores are kept.
Clear_Omitted == UNCHANGED <<tunnels, nodes>>

Clear == tunnels' = {} /\ nodes' = NoRows

Logout == /\ jwt # 0
          /\ LogsOut /\ Clear
          /\ UNCHANGED <<serverVars, logins, requestVars, disturbed>>

\* loadAll takes any failure for a rejected token, and logs out the session there is.
LoadFails(s) ==
  /\ load[s].tunnels.state = "sent" \/ load[s].nodes.state = "sent"
  /\ load' = [load EXCEPT ![s] = [tunnels |-> Over, nodes |-> Over]]
  /\ LogsOut /\ Clear
  /\ UNCHANGED <<serverVars, logins, refetch, closing, disturbed>>

-----------------------------------------------------------------------------
(* onClose of the list of tunnels *)

ClosingStep(t, from, to) == /\ closing[t] = from
                            /\ closing' = [closing EXCEPT ![t] = to]
                            /\ UNCHANGED <<serverVars, streamVars, jwt, logins, load, refetch,
                                           nodes, handled, shown, disturbed>>

\* The button of a row; a row whose DELETE is under way, or was done, has it disabled.
ClickClose(t) == jwt # 0 /\ t \in Closable /\ t \in tunnels /\ ClosingStep(t, "no", "sent") /\ UNCHANGED tunnels

\* close finds the tunnel, whose task will end it, or does not.
AnswerClose(t) == \/ t \in Table(Tunnels) /\ ClosingStep(t, "sent", "found") /\ UNCHANGED tunnels
                  \/ ClosingStep(t, "sent", "no") /\ UNCHANGED tunnels

\* The row is removed without waiting for the event.
RemoveRow(t) == ClosingStep(t, "found", "removed") /\ tunnels' = tunnels \ {t}

-----------------------------------------------------------------------------
(* The specification *)

Browser == \/ HandleEvent
           \/ \E s \in Logins : ApplyLoad(s)
           \/ \E i \in 1 .. MaxLog : ApplyRefetch(i)
           \/ \E t \in Tunnels : RemoveRow(t)

Answer == \/ \E s \in Logins : AnswerTunnels(s) \/ AnswerNodes(s)
          \/ \E i \in 1 .. MaxLog : AnswerRefetch(i)
          \/ \E t \in Tunnels : AnswerClose(t)

Failure == \/ Break
           \/ \E s \in Logins : LoadFails(s)
           \/ \E i \in 1 .. MaxLog : RefetchFails(i)

User == Login \/ Logout \/ \E t \in Tunnels : ClickClose(t)

Next == \/ \E x \in Things : Enter(x) \/ Leave(x)
        \/ \E n \in Nodes : \/ AckNodeFails(n)
                          \/ \E t \in Tunnels : CountTunnel(t, n) \/ UncountTunnel(t, n)
        \/ Forward \/ Subscribe \/ Browser \/ Answer \/ Failure \/ User

Spec == Init /\ [][Next]_vars

\* The requests of loadAll are answered or fail and are applied, what has arrived is
\* handled, a task that has removed its entry publishes.  A stream that broke need not
\* come back.
FairSpec == /\ Spec
            /\ WF_vars(HandleEvent) /\ WF_vars(Forward)
            /\ \A s \in Logins : WF_vars(AnswerTunnels(s) \/ AnswerNodes(s) \/ ApplyLoad(s))
            /\ \A t \in Tunnels : WF_vars(Leave(t) /\ life[t] = "unlisted")

-----------------------------------------------------------------------------
(* Properties *)

RequestOf(lists) == {Unsent, Sent, Over} \cup [state : {"answered"}, rows : lists, at : Nat]
TunnelRequests == RequestOf(SUBSET Tunnels)
NodeRequests == RequestOf(Lists)

TypeOK == /\ life \in [Things -> {"none", "listed", "open", "unlisted", "closed", "failed"}]
          /\ counted \subseteq Tunnels \X Nodes
          /\ log \in Seq([type : {"opened", "closed"}, id : Things]) /\ Len(log) <= MaxLog
          /\ version \in Nat
          /\ changed \in [Nodes -> 0 .. version]
          /\ announced \in 0 .. version
          /\ sub \in 0 .. MaxLog + 1
          /\ wire \in Seq(1 .. MaxLog) /\ Len(wire) <= WireSize
          /\ jwt \in 0 .. logins
          /\ logins \in 0 .. MaxLogins
          /\ source \in {"closed", "connecting", "open"}
          /\ load \in [Logins -> [tunnels : TunnelRequests, nodes : NodeRequests]]
          /\ refetch \in [1 .. MaxLog -> NodeRequests]
          /\ closing \in [Tunnels -> {"no", "sent", "found", "removed"}]
          /\ tunnels \subseteq Tunnels
          /\ nodes \in Lists
          /\ handled \in 0 .. MaxLog
          /\ shown \in Nat
          /\ disturbed \subseteq Reasons

\* Nothing is under way: the stream is open and drained.
Calm == /\ jwt # 0 /\ source = "open" /\ sub = Len(log) + 1 /\ wire = <<>>
        /\ load[jwt].tunnels = Over

\* A row that has changed since the list was read, and no event of a node since: nothing
\* will ask for it.
Silent(n) == changed[n] > shown /\ changed[n] > announced

\* The lists are those of the server once nothing is under way, unless this session lost
\* events (lag, a broken stream, the gap between snapshot and stream) or an answer came
\* too late: no other order of the changes, snapshots, events, refetches and optimistic
\* removals makes them wrong, but for the rows of nodes that changed silently.
ListsInSync ==
  disturbed = {} /\ Calm
    => /\ (\A t \in Tunnels : life[t] \in {"none", "open", "closed"})
            => /\ tunnels \subseteq Table(Tunnels)
               /\ Table(Tunnels) \subseteq tunnels \cup {t \in Tunnels : closing[t] = "removed"}
       /\ (\A i \in 1 .. MaxLog : ~Pending(refetch[i]))
            => \A n \in Nodes : nodes[n] = Registry[n] \/ Silent(n)

\* Who is logged out sees nothing, but for the answers to what was asked before.
LogoutClears == jwt = 0 /\ "late" \notin disturbed => tunnels = {} /\ nodes = NoRows

\* A closed tunnel leaves the list of a dashboard that stays connected and was not
\* disturbed.
GhostsLeave ==
  \A t \in Tunnels :
    life[t] = "closed" /\ jwt # 0 ~> t \notin tunnels \/ jwt = 0 \/ disturbed # {}
=============================================================================
