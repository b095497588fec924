------------------------------ MODULE NodePath ------------------------------
(***************************************************************************)
(* Server, edge nodes and CLIs together, as far as they can block each     *)
(* other: the buffers of the connections fill up when a peer stops         *)
(* reading, and the loop that reads a node writes to the CLIs itself.      *)
(* A writer (node.tx, the route of a tunnel) is locked for as long as one  *)
(* frame takes, so waiting for its lock is waiting for room: a send is one *)
(* step.  ControlPlane and NodeAgent model the two sides in detail; what   *)
(* is not about blocking is left to them.                                  *)
(***************************************************************************)
EXTENDS Naturals, Sequences

CONSTANTS Clis,      \* CLI connections, each with its tunnel
          Nodes,     \* node connections
          Visitors,
          TunnelOf,  \* the tunnel each visitor comes to
          Buffer,    \* bound: frames a connection holds
          Scenes,    \* bound: who asks for which node, and what may happen to whom
          None       \* no visitor

Peers == Clis \cup Nodes

\* The node each CLI asks for; the peers that may stop reading, those that may go, and
\* the tunnels the dashboard may delete.
Scene == [nodeOf : [Clis -> Nodes], stallable : SUBSET Peers, leaving : SUBSET Peers,
          closable : SUBSET Clis]

ASSUME PathAssumption == /\ TunnelOf \in [Visitors -> Clis] /\ Scenes \subseteq Scene
                         /\ Clis \cap Nodes = {} /\ None \notin Peers \cup Visitors
                         /\ Buffer \in Nat \ {0}

VARIABLES
  scene,     \* chosen once
  \* the server
  pc,        \* the task of each CLI
  npc,       \* the task of each node
  carried,   \* the visitor it is forwarding, or None
  registry,  \* nodes that can be picked
  entries,   \* tunnels of active_tunnels, all with a route
  deleted,   \* tunnels the dashboard has deleted
  \* the connections
  toPeer,    \* frames written to each CLI and node
  fromNode,  \* visitors reported by each node
  \* the peers
  peer,      \* each CLI and node: verdict, up or gone
  stalled,   \* peers that do not read
  listener,  \* the public listener of each tunnel: no, bound or failed
  visitor

taskVars == <<scene, pc, npc, carried>>
tableVars == <<registry, entries>>
nodeVars == <<peer, listener>>
vars == <<taskVars, tableVars, deleted, toPeer, fromNode, nodeVars, stalled, visitor>>

NodeOf == scene.nodeOf
Asked == {NodeOf[c] : c \in Clis}

CliPC == {"pick", "open", "list", "ack", "serve", "close", "unlist", "done", "direct"}
NodePC == {"register", "ack", "read", "forward", "remove", "done"}

Frame == [type : {"verdict"}] \cup [type : {"open_tunnel", "close_tunnel"}, tunnel : Clis]
           \cup [type : {"new_conn"}, visitor : Visitors]

\* A node no CLI asks for has come and gone.
Init == /\ scene \in Scenes
        /\ pc = [c \in Clis |-> "pick"]
        /\ npc = [n \in Nodes |-> IF n \in Asked THEN "register" ELSE "done"]
        /\ peer = [x \in Peers |-> IF x \in Clis \cup Asked THEN "verdict" ELSE "gone"]
        /\ carried = [n \in Nodes |-> None]
        /\ registry = {}
        /\ entries = {}
        /\ deleted = {}
        /\ toPeer = [x \in Peers |-> <<>>]
        /\ fromNode = [n \in Nodes |-> <<>>]
        /\ stalled = {}
        /\ listener = [c \in Clis |-> "no"]
        /\ visitor = [v \in Visitors |-> "absent"]

-----------------------------------------------------------------------------
(* send: a frame is written once the connection has room.  Once the peer is gone a   *)
(* write fails, or goes nowhere: the system may not know it yet.                      *)

Written(x, frame) ==
  \/ /\ peer[x] # "gone" /\ Len(toPeer[x]) < Buffer
     /\ toPeer' = [toPeer EXCEPT ![x] = Append(@, frame)]
  \/ peer[x] = "gone" /\ UNCHANGED toPeer

WriteFails(x) == peer[x] = "gone" /\ UNCHANGED toPeer

-----------------------------------------------------------------------------
(* handle_node and forward_visitor *)

NodeStep(n, from, to) == /\ npc[n] = from
                         /\ npc' = [npc EXCEPT ![n] = to]
                         /\ UNCHANGED <<scene, pc, deleted, nodeVars, stalled>>

Register(n) == /\ NodeStep(n, "register", "ack")
               /\ registry' = registry \cup {n}
               /\ UNCHANGED <<carried, entries, toPeer, fromNode, visitor>>

AckNode(n) == /\ \/ NodeStep(n, "ack", "read") /\ Written(n, [type |-> "verdict"])
                 \/ NodeStep(n, "ack", "remove") /\ WriteFails(n)
              /\ UNCHANGED <<carried, tableVars, fromNode, visitor>>

\* Fault: the table stays locked while another node's visitor is forwarded.
ReadReport_TableHeld(n) ==
  /\ \A m \in Nodes : npc[m] # "forward"
  /\ fromNode[n] # <<>>
  /\ NodeStep(n, "read", IF TunnelOf[Head(fromNode[n])] \in entries THEN "forward" ELSE "read")
  /\ LET v == Head(fromNode[n])
     IN IF TunnelOf[v] \in entries
        THEN carried' = [carried EXCEPT ![n] = v] /\ UNCHANGED visitor
        ELSE visitor' = [visitor EXCEPT ![v] = "lost"] /\ UNCHANGED carried
  /\ fromNode' = [fromNode EXCEPT ![n] = Tail(@)]
  /\ UNCHANGED <<tableVars, toPeer>>

\* A report for a tunnel without a route is dropped.
ReadReport(n) ==
  /\ fromNode[n] # <<>>
  /\ LET v == Head(fromNode[n])
     IN IF TunnelOf[v] \in entries
        THEN /\ NodeStep(n, "read", "forward")
             /\ carried' = [carried EXCEPT ![n] = v]
             /\ UNCHANGED visitor
        ELSE /\ NodeStep(n, "read", "read")
             /\ visitor' = [visitor EXCEPT ![v] = "lost"]
             /\ UNCHANGED carried
  /\ fromNode' = [fromNode EXCEPT ![n] = Tail(@)]
  /\ UNCHANGED <<tableVars, toPeer>>

\* Fault: a peer that is gone is not told from one that is slow.
Forward_NoError(n) ==
  LET v == carried[n]
  IN /\ NodeStep(n, "forward", "read")
     /\ peer[TunnelOf[v]] # "gone" /\ Written(TunnelOf[v], [type |-> "new_conn", visitor |-> v])
     /\ carried' = [carried EXCEPT ![n] = None]
     /\ UNCHANGED <<tableVars, fromNode, visitor>>

Forward(n) ==
  LET v == carried[n]
  IN /\ NodeStep(n, "forward", "read")
     /\ Written(TunnelOf[v], [type |-> "new_conn", visitor |-> v])
     /\ visitor' = IF peer[TunnelOf[v]] = "gone" THEN [visitor EXCEPT ![v] = "lost"] ELSE visitor
     /\ carried' = [carried EXCEPT ![n] = None]
     /\ UNCHANGED <<tableVars, fromNode>>

NodeEof(n) == /\ peer[n] = "gone" /\ fromNode[n] = <<>>
              /\ NodeStep(n, "read", "remove")
              /\ UNCHANGED <<carried, tableVars, toPeer, fromNode, visitor>>

RemoveNode(n) == /\ NodeStep(n, "remove", "done")
                 /\ registry' = registry \ {n}
                 /\ UNCHANGED <<carried, entries, toPeer, fromNode, visitor>>

HandleNode(n) == \/ Register(n) \/ AckNode(n) \/ ReadReport(n) \/ Forward(n) \/ NodeEof(n)
                 \/ RemoveNode(n)

-----------------------------------------------------------------------------
(* handle_cli and serve_cli_via_node *)

CliStep(c, from, to) == /\ pc[c] = from
                        /\ pc' = [pc EXCEPT ![c] = to]
                        /\ UNCHANGED <<scene, npc, carried>>

\* What a step of a CLI's task leaves alone, but for the frames.
CliFrame == UNCHANGED <<registry, deleted, fromNode, nodeVars, stalled, visitor>>

\* Without the node the tunnel is served directly, which is not this module's subject.
Pick(c) == /\ CliStep(c, "pick", IF NodeOf[c] \in registry THEN "open" ELSE "direct")
           /\ UNCHANGED <<tableVars, deleted, toPeer, fromNode, nodeVars, stalled, visitor>>

\* Fault: an order that would block is dropped.
OrderOpen_Tries(c) ==
  LET n == NodeOf[c]
  IN /\ \/ CliStep(c, "open", "list") /\ Written(n, [type |-> "open_tunnel", tunnel |-> c])
        \/ CliStep(c, "open", "list") /\ Len(toPeer[n]) = Buffer /\ UNCHANGED toPeer
        \/ CliStep(c, "open", "direct") /\ WriteFails(n)
     /\ UNCHANGED entries /\ CliFrame

\* The order, or the fallback.
OrderOpen(c) ==
  LET n == NodeOf[c]
  IN /\ \/ CliStep(c, "open", "list") /\ Written(n, [type |-> "open_tunnel", tunnel |-> c])
        \/ CliStep(c, "open", "direct") /\ WriteFails(n)
     /\ UNCHANGED entries /\ CliFrame

\* Fault: the table stays locked while a visitor is forwarded.
ListVia_TableHeld(c) ==
  /\ \A n \in Nodes : npc[n] # "forward"
  /\ CliStep(c, "list", "ack")
  /\ entries' = entries \cup {c}
  /\ UNCHANGED <<toPeer>> /\ CliFrame

\* The entry, with its route; the counter and the event go with it here.
ListVia(c) == /\ CliStep(c, "list", "ack")
              /\ entries' = entries \cup {c}
              /\ UNCHANGED <<toPeer>> /\ CliFrame

AckVia(c) == /\ CliStep(c, "ack", "serve")
             /\ Written(c, [type |-> "verdict"])
             /\ UNCHANGED entries /\ CliFrame

\* Fault: the end is written to the CLI first.
EndServe_TellsCli(c) ==
  /\ c \in deleted \/ peer[c] = "gone"
  /\ peer[c] = "gone" \/ Len(toPeer[c]) < Buffer
  /\ CliStep(c, "serve", "close")
  /\ UNCHANGED <<entries, toPeer>> /\ CliFrame

\* The select sees the close signal or the end of the CLI.
EndServe(c) == /\ c \in deleted \/ peer[c] = "gone"
               /\ CliStep(c, "serve", "close")
               /\ UNCHANGED <<entries, toPeer>> /\ CliFrame

OrderClose(c) == /\ CliStep(c, "close", "unlist")
                 /\ Written(NodeOf[c], [type |-> "close_tunnel", tunnel |-> c])
                 /\ UNCHANGED entries /\ CliFrame

\* The central cleanup, after which the port is free.
RemoveEntry(c) == /\ CliStep(c, "unlist", "done")
                  /\ entries' = entries \ {c}
                  /\ UNCHANGED <<toPeer>> /\ CliFrame

HandleCli(c) == \/ Pick(c) \/ OrderOpen(c) \/ ListVia(c) \/ AckVia(c) \/ EndServe(c)
                \/ OrderClose(c) \/ RemoveEntry(c)

-----------------------------------------------------------------------------
(* The peers.  A first frame that is not the verdict ends either of them. *)

Receive(x) == /\ peer[x] # "gone" /\ x \notin stalled
              /\ toPeer[x] # <<>>
              /\ toPeer' = [toPeer EXCEPT ![x] = Tail(@)]
              /\ UNCHANGED <<taskVars, tableVars, deleted, fromNode, stalled>>

Lost(S) == [v \in Visitors |-> IF v \in S THEN "lost" ELSE visitor[v]]

InFlight(c) == {v \in Visitors : \E i \in DOMAIN toPeer[c] : toPeer[c][i] = [type |-> "new_conn", visitor |-> v]}

CliReads(c) ==
  /\ Receive(c)
  /\ LET frame == Head(toPeer[c])
     IN CASE peer[c] = "verdict" /\ frame.type = "new_conn" ->
               peer' = [peer EXCEPT ![c] = "gone"] /\ visitor' = Lost(InFlight(c))
          [] frame.type = "verdict" ->
               peer' = [peer EXCEPT ![c] = "up"] /\ UNCHANGED visitor
          [] OTHER ->
               visitor' = [visitor EXCEPT ![frame.visitor] = "announced"] /\ UNCHANGED peer
  /\ UNCHANGED listener

\* The listeners of a session go with it, and the visitors that were not reported.
NodeEnds(n) ==
  /\ peer' = [peer EXCEPT ![n] = "gone"]
  /\ listener' = [c \in Clis |-> IF NodeOf[c] = n THEN "no" ELSE listener[c]]
  /\ visitor' = Lost({v \in Visitors : NodeOf[TunnelOf[v]] = n /\ visitor[v] = "accepted"})

\* open_tunnel may fail to bind the port, and tells nobody.
NodeReads(n) ==
  /\ Receive(n)
  /\ LET frame == Head(toPeer[n])
     IN \/ peer[n] = "verdict" /\ frame.type # "verdict" /\ NodeEnds(n)
        \/ /\ frame.type = "verdict"
           /\ peer' = [peer EXCEPT ![n] = "up"]
           /\ UNCHANGED <<listener, visitor>>
        \/ /\ peer[n] = "up" /\ frame.type = "open_tunnel"
           /\ \E outcome \in {"bound", "failed"} : listener' = [listener EXCEPT ![frame.tunnel] = outcome]
           /\ UNCHANGED <<peer, visitor>>
        \/ /\ peer[n] = "up" /\ frame.type = "close_tunnel"
           /\ listener' = [listener EXCEPT ![frame.tunnel] = "no"]
           /\ visitor' = Lost({v \in Visitors : TunnelOf[v] = frame.tunnel /\ visitor[v] = "accepted"})
           /\ UNCHANGED peer

PeerStep == UNCHANGED <<taskVars, tableVars, deleted, toPeer>>

Accept(v) == /\ listener[TunnelOf[v]] = "bound" /\ visitor[v] = "absent"
             /\ visitor' = [visitor EXCEPT ![v] = "accepted"]
             /\ UNCHANGED <<fromNode, nodeVars, stalled>> /\ PeerStep

\* The accept loops of a node share its writer.
Report(v) == LET n == NodeOf[TunnelOf[v]]
             IN /\ visitor[v] = "accepted" /\ Len(fromNode[n]) < Buffer
                /\ fromNode' = [fromNode EXCEPT ![n] = Append(@, v)]
                /\ visitor' = [visitor EXCEPT ![v] = "reported"]
                /\ UNCHANGED <<nodeVars, stalled>> /\ PeerStep

CliGoes(c) == /\ c \in scene.leaving /\ peer[c] # "gone"
              /\ peer' = [peer EXCEPT ![c] = "gone"]
              /\ visitor' = Lost(InFlight(c))
              /\ UNCHANGED <<fromNode, listener, stalled>> /\ PeerStep

NodeGoes(n) == n \in scene.leaving /\ peer[n] # "gone" /\ NodeEnds(n) /\ UNCHANGED <<fromNode, stalled>> /\ PeerStep

\* A suspended machine, a network that swallows packets: the peer stops reading,
\* and may go on some time.
Stall(x) == /\ peer[x] # "gone"
            /\ stalled' = IF x \in stalled THEN stalled \ {x} ELSE stalled \cup {x}
            /\ UNCHANGED <<fromNode, nodeVars, visitor>> /\ PeerStep

Delete(c) == /\ c \in scene.closable \cap entries
             /\ deleted' = deleted \cup {c}
             /\ UNCHANGED <<taskVars, tableVars, toPeer, fromNode, nodeVars, stalled, visitor>>

-----------------------------------------------------------------------------
(* The specification *)

Environment == \/ \E v \in Visitors : Accept(v)
               \/ \E c \in Clis : CliGoes(c) \/ Delete(c)
               \/ \E n \in Nodes : NodeGoes(n)
               \/ \E x \in scene.stallable : Stall(x)

Next == \/ \E n \in Nodes : HandleNode(n) \/ NodeReads(n)
        \/ \E c \in Clis : HandleCli(c) \/ CliReads(c)
        \/ \E v \in Visitors : Report(v)
        \/ Environment

Spec == Init /\ [][Next]_vars

\* Every task goes on unless it waits for room, and those that wait for the same
\* connection get it in turn; every peer that is not stalled reads.
FairSpec == /\ Spec
            /\ \A n \in Nodes : SF_vars(HandleNode(n)) /\ WF_vars(NodeReads(n))
            /\ \A c \in Clis : SF_vars(HandleCli(c)) /\ WF_vars(CliReads(c))
            /\ \A v \in Visitors : SF_vars(Report(v))

-----------------------------------------------------------------------------
(* Properties *)

TypeOK == /\ scene \in Scenes
          /\ pc \in [Clis -> CliPC]
          /\ npc \in [Nodes -> NodePC]
          /\ carried \in [Nodes -> Visitors \cup {None}]
          /\ registry \subseteq Nodes
          /\ entries \subseteq Clis
          /\ deleted \subseteq scene.closable
          /\ toPeer \in [Peers -> Seq(Frame)] /\ \A x \in Peers : Len(toPeer[x]) <= Buffer
          /\ fromNode \in [Nodes -> Seq(Visitors)]
          /\ peer \in [Peers -> {"verdict", "up", "gone"}]
          /\ stalled \subseteq scene.stallable
          /\ listener \in [Clis -> {"no", "bound", "failed"}]
          /\ visitor \in [Visitors -> {"absent", "accepted", "reported", "announced", "lost"}]

Reading(x) == x \notin stalled \/ peer[x] = "gone"

ClisRead(n) == \A c \in Clis : NodeOf[c] = n => Reading(c)

\* A visitor of a node is announced to its CLI, or given up for a reason, if the CLIs
\* of that node read from some moment on: a stalled CLI holds up the visitors of its own node and no others,
\* and when it reads again they come through.
ReportsArrive ==
  \A v \in Visitors :
    <>[]ClisRead(NodeOf[TunnelOf[v]])
      => (visitor[v] = "accepted" ~> visitor[v] \in {"announced", "lost"})

\* The registration of a CLI comes to its end if that CLI and its node read, whatever
\* the other CLIs do.
RegistrationEnds ==
  \A c \in Clis :
    <>[](Reading(c) /\ Reading(NodeOf[c]))
      => (pc[c] = "open" ~> pc[c] \in {"serve", "direct"})

\* A DELETE ends the tunnel of a CLI that has stopped reading, for its node reads.
CloseEnds ==
  \A c \in Clis :
    <>[]Reading(NodeOf[c])
      => (pc[c] = "serve" /\ (c \in deleted \/ peer[c] = "gone") ~> pc[c] = "done")

\* A tunnel that was announced to its CLI gets its listener on a node that reads, unless
\* the port cannot be bound, the tunnel ends or the node goes.
AckedTunnelListens ==
  \A c \in Clis :
    <>[]Reading(NodeOf[c])
      => (pc[c] = "serve" ~> \/ listener[c] \in {"bound", "failed"}
                             \/ pc[c] # "serve" \/ peer[NodeOf[c]] = "gone")

\* A node that is gone is taken out of the registry if its CLIs read: its reader may be
\* writing to one of them.
DepartureNoticed ==
  \A n \in Nodes :
    <>[]ClisRead(n)
      => (n \in registry /\ peer[n] = "gone" ~> n \notin registry)
=============================================================================
