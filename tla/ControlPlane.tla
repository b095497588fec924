---------------------------- MODULE ControlPlane ----------------------------
(***************************************************************************)
(* The server's control plane (crates/server/src/control.rs): one task per *)
(* control connection of a CLI (handle_cli) or of an edge node             *)
(* (handle_node), the state they share, and the dashboard's DELETE, which  *)
(* ends a tunnel from outside.                                             *)
(*                                                                         *)
(* Every task runs between two awaits without giving way, and whatever it  *)
(* shares is behind a mutex, so an action is one critical section, one     *)
(* frame written to a peer, or one event published.  A control connection  *)
(* of a CLI carries at most one tunnel: the connection c stands for its    *)
(* task, for its tunnel_id and for its peer.                               *)
(***************************************************************************)
EXTENDS PortManager, NodeManager, Sequences, FiniteSets

CONSTANTS Clis,          \* control connections of CLIs
          RequestPorts,  \* ports a CLI may ask for, in or out of the range
          Hosts,         \* host names CLIs report
          Hostname,      \* Register.hostname of each CLI: a host or None
          MaxTunnels,    \* history::MAX_TUNNELS, capacity of the archive
          Deletable      \* bound: the tunnels the dashboard may DELETE

ASSUME ControlAssumption == /\ RequestPorts \subseteq Int
                            /\ Hostname \in [Clis -> Hosts \cup {None}]
                            /\ None \notin Nodes \cup Clis \cup Hosts
                            /\ MaxTunnels \in Nat \ {0}
                            /\ Deletable \subseteq Clis

VARIABLES
  \* the task of each CLI connection
  pc,          \* the await the task of the CLI has reached
  port,        \* the port it acquired, or None
  node,        \* the node it picked, or None
  listener,    \* the public port its TcpListener is bound to, or None
  permit,      \* the permit stored in its close Notify
  \* ServerState
  active,      \* active_tunnels: the TunnelEntry of each tunnel, or NoEntry
  devices,     \* host names of the known devices
  archive,     \* history: the closed tunnels, oldest first
  bus,         \* events published for each tunnel, in order
  \* the task of each node connection
  npc,         \* the await the task of the node has reached
  fwd,         \* the tunnel whose route forward_visitor cloned, or None
  nodeBus,     \* events published for each node, in order
  \* the peers
  cliUp,       \* the CLI has not gone away
  deletes,     \* DELETEs that found their tunnel and have not notified it yet
  first,       \* the first frame the CLI was sent: its type, or "none"
  nodeUp,      \* the node has not gone away
  frames       \* every frame sent to each node, in order

managerVars == <<available, nodeManagerVars>>
heldVars == <<port, node, listener, permit>>
taskVars == <<pc, heldVars>>
tunnelVars == <<active, devices, archive, bus>>
nodeTaskVars == <<npc, fwd, nodeBus>>
cliPeerVars == <<cliUp, deletes, first>>
nodePeerVars == <<nodeUp, frames>>
nodeVars == <<nodeTaskVars, nodePeerVars>>

vars == <<managerVars, taskVars, tunnelVars, cliPeerVars, nodeVars>>

-----------------------------------------------------------------------------
(* Types and state functions *)

CliPC == {"connect", "acquire", "reject", "pick",
          "bind", "ack", "list", "announce", "serve", "notify",
          "order", "listVia", "increment", "announceVia", "ackVia",
          "serveVia", "closeOrder", "decrement",
          "remove", "archive", "announceClosed", "release", "done"}

NodePC == {"connect", "ack", "announce", "serve", "forward", "leave", "done"}

\* An entry of active_tunnels, reduced to what tells tunnels apart.  The route
\* is present exactly when the node is: both are set by the node path.
Entry == [remote_port : Pool, node : Nodes \cup {None}]
NoEntry == [remote_port |-> None, node |-> None]

Listed(c) == active[c] # NoEntry

OpenTunnel(c) == [type |-> "open_tunnel", tunnel_id |-> c, remote_port |-> port[c]]
CloseTunnel(c) == [type |-> "close_tunnel", tunnel_id |-> c, remote_port |-> None]
NodeRegistered == [type |-> "node_registered", tunnel_id |-> None, remote_port |-> None]

Frame == [type : {"open_tunnel"}, tunnel_id : Clis, remote_port : Pool]
           \cup [type : {"close_tunnel"}, tunnel_id : Clis, remote_port : {None}]
           \cup {NodeRegistered}

Init ==
  /\ NewPortManager
  /\ NewNodeManager
  /\ pc = [c \in Clis |-> "connect"]
  /\ port = [c \in Clis |-> None]
  /\ node = [c \in Clis |-> None]
  /\ listener = [c \in Clis |-> None]
  /\ permit = [c \in Clis |-> FALSE]
  /\ active = [c \in Clis |-> NoEntry]
  /\ devices = {}
  /\ archive = <<>>
  /\ bus = [c \in Clis |-> <<>>]
  /\ npc = [n \in Nodes |-> "connect"]
  /\ fwd = [n \in Nodes |-> None]
  /\ nodeBus = [n \in Nodes |-> <<>>]
  /\ cliUp = [c \in Clis |-> TRUE]
  /\ deletes = {}
  /\ first = [c \in Clis |-> "none"]
  /\ nodeUp = [n \in Nodes |-> TRUE]
  /\ frames = [n \in Nodes |-> <<>>]

-----------------------------------------------------------------------------
(* Building blocks of the actions *)

\* The task of c moves from one await to the next.
Step(c, from, to) == /\ pc[c] = from
                     /\ pc' = [pc EXCEPT ![c] = to]

\* It changes nothing else.
Move(c, from, to) ==
  /\ Step(c, from, to)
  /\ UNCHANGED <<managerVars, heldVars, tunnelVars, cliPeerVars, nodeVars>>

\* send, to the CLI.  Only the first frame is remembered; frames written to a
\* peer that has gone are lost, whatever the write returns.
SendCli(c, type) ==
  /\ first' = IF cliUp[c] /\ first[c] = "none"
              THEN [first EXCEPT ![c] = type] ELSE first
  /\ UNCHANGED <<cliUp, deletes>>

TellCli(c, from, to, type) ==
  /\ Step(c, from, to)
  /\ SendCli(c, type)
  /\ UNCHANGED <<managerVars, heldVars, tunnelVars, nodeVars>>

\* send, to a node.
SendNode(n, frame) ==
  /\ frames' = IF nodeUp[n] THEN [frames EXCEPT ![n] = Append(@, frame)] ELSE frames
  /\ UNCHANGED nodeUp

TellNode(c, from, to, frame) ==
  /\ Step(c, from, to)
  /\ SendNode(node[c], frame)
  /\ UNCHANGED <<managerVars, heldVars, tunnelVars, cliPeerVars, nodeTaskVars>>

\* active_tunnels.insert, with the route through node n if there is one.
Insert(c, from, to, n) ==
  /\ Step(c, from, to)
  /\ active' = [active EXCEPT ![c] = [remote_port |-> port[c], node |-> n]]
  /\ UNCHANGED <<managerVars, heldVars, devices, archive, bus, cliPeerVars, nodeVars>>

\* EventBus::publish, for the tunnel of c and for a node.
Publish(c, from, to, event) ==
  /\ Step(c, from, to)
  /\ bus' = [bus EXCEPT ![c] = Append(@, event)]
  /\ UNCHANGED <<managerVars, heldVars, active, devices, archive, cliPeerVars, nodeVars>>

NodeStep(n, from, to) == /\ npc[n] = from
                         /\ npc' = [npc EXCEPT ![n] = to]

PublishNode(n, from, to, event) ==
  /\ NodeStep(n, from, to)
  /\ nodeBus' = [nodeBus EXCEPT ![n] = Append(@, event)]
  /\ UNCHANGED <<managerVars, taskVars, tunnelVars, cliPeerVars, nodePeerVars, fwd>>

\* The public ports the listeners of this process are bound to.
Bound == {listener[c] : c \in Clis} \ {None}

-----------------------------------------------------------------------------
(* handle_client and the head of handle_cli *)

\* The first frame is missing, malformed, of another kind, or carries a wrong
\* token: nothing but an error frame comes of it.
Refuse(c) == TellCli(c, "connect", "done", "error")

\* A Register with a good token: upsert_device comes before anything can fail.
RegisterCli(c) ==
  /\ Step(c, "connect", "acquire")
  /\ devices' = devices \cup ({Hostname[c]} \ {None})
  /\ UNCHANGED <<managerVars, heldVars, active, archive, bus, cliPeerVars, nodeVars>>

\* The port is the one the CLI asked for, or any free one.
AcquirePort(c) ==
  /\ Step(c, "acquire", "pick")
  /\ \E p \in Pool \cup RequestPorts :
       /\ Acquire(p) \/ (p \in RequestPorts /\ AcquireSpecific(p))
       /\ port' = [port EXCEPT ![c] = p]
  /\ UNCHANGED <<nodeManagerVars, node, listener, permit, tunnelVars, cliPeerVars, nodeVars>>

NoPortAvailable(c) ==
  /\ Exhausted \/ \E p \in RequestPorts : Unavailable(p)
  /\ Move(c, "acquire", "reject")

RejectCli(c) == TellCli(c, "reject", "done", "error")

\* node_manager.pick under the preference of the CLI; without a candidate the
\* server serves the tunnel itself.
PickNode(c) ==
  /\ \E name \in Names \cup {AnyName} :
       \/ \E n \in Pick(name) : /\ Step(c, "pick", "order")
                                /\ node' = [node EXCEPT ![c] = n]
       \/ /\ Candidates(name) = {}
          /\ Step(c, "pick", "bind")
          /\ UNCHANGED node
  /\ UNCHANGED <<managerVars, port, listener, permit, tunnelVars, cliPeerVars, nodeVars>>

-----------------------------------------------------------------------------
(* serve_cli_direct *)

Bind(c) ==
  /\ Step(c, "bind", "ack")
  /\ port[c] \notin Bound
  /\ listener' = [listener EXCEPT ![c] = port[c]]
  /\ UNCHANGED <<managerVars, port, node, permit, tunnelVars, cliPeerVars, nodeVars>>

\* The port belongs to another socket, of this process or of the machine.
BindFails(c) ==
  /\ Step(c, "bind", "remove")
  /\ SendCli(c, "error")
  /\ node' = [node EXCEPT ![c] = None]
  /\ UNCHANGED <<managerVars, port, listener, permit, tunnelVars, nodeVars>>

\* Fault for the mutation runs: the listener lives as long as the connection.
ReturnDirect_KeepsListener(c, from) ==
  /\ Step(c, from, "remove")
  /\ node' = [node EXCEPT ![c] = None]
  /\ UNCHANGED <<managerVars, port, listener, tunnelVars, cliPeerVars, nodeVars>>

\* The function returns and drops its listener.
ReturnDirect(c, from) ==
  /\ Step(c, from, "remove")
  /\ listener' = [listener EXCEPT ![c] = None]
  /\ node' = [node EXCEPT ![c] = None]
  /\ UNCHANGED <<managerVars, port, tunnelVars, cliPeerVars, nodeVars>>

AckDirect(c) == TellCli(c, "ack", "list", "registered")

\* Fault: the failure leaves handle_cli, not just serve_cli_direct.
AckDirectFails_Returns(c) == ~cliUp[c] /\ Move(c, "ack", "done")

AckDirectFails(c) == ~cliUp[c] /\ ReturnDirect(c, "ack") /\ UNCHANGED permit

ListDirect(c) == Insert(c, "list", "announce", None)

AnnounceDirect(c) == Publish(c, "announce", "serve", "opened")

\* serve_tunnel accepts a visitor; what becomes of it is the data plane's.
AcceptVisitor(c) == Move(c, "serve", "notify")

NotifyCli(c) == TellCli(c, "notify", "serve", "new_conn")

\* The NewConn cannot be written: serve_tunnel gives up.
NotifyFails(c) == ~cliUp[c] /\ ReturnDirect(c, "notify") /\ UNCHANGED permit

\* What ends either serving loop: the stored permit, which it consumes, or the
\* end of the control channel.
LoopEnds(c) == \/ permit[c] /\ permit' = [permit EXCEPT ![c] = FALSE]
               \/ ~cliUp[c] /\ UNCHANGED permit

StopDirect(c) == LoopEnds(c) /\ ReturnDirect(c, "serve")

-----------------------------------------------------------------------------
(* serve_cli_via_node *)

OrderNode(c) == TellNode(c, "order", "listVia", OpenTunnel(c))

\* The control channel of the node is gone: fall back to the direct path.
OrderFails(c) == Move(c, "order", "bind") /\ ~nodeUp[node[c]]

ListVia(c) == Insert(c, "listVia", "increment", node[c])

CountTunnel(c) ==
  /\ Step(c, "increment", "announceVia")
  /\ IncrementTunnels(node[c])
  /\ UNCHANGED <<available, heldVars, tunnelVars, cliPeerVars, nodeVars>>

AnnounceVia(c) == Publish(c, "announceVia", "ackVia", "opened")

\* Whether Registered could be written makes no difference.
AckVia(c) == TellCli(c, "ackVia", "serveVia", "registered")

\* Fault: the loop is left by a return, past the CloseTunnel and the count.
StopVia_Returns(c) ==
  /\ Step(c, "serveVia", "remove") /\ LoopEnds(c)
  /\ node' = [node EXCEPT ![c] = None]
  /\ UNCHANGED <<managerVars, port, listener, tunnelVars, cliPeerVars, nodeVars>>

StopVia(c) ==
  /\ Step(c, "serveVia", "closeOrder") /\ LoopEnds(c)
  /\ UNCHANGED <<managerVars, port, node, listener, tunnelVars, cliPeerVars, nodeVars>>

\* Fault: the node is left to find out by itself.
OrderClose_Omitted(c) == Move(c, "closeOrder", "decrement")

\* Best effort: a node that is gone does not get the order.
OrderClose(c) == TellNode(c, "closeOrder", "decrement", CloseTunnel(c))

UncountTunnel(c) ==
  /\ Step(c, "decrement", "remove")
  /\ DecrementTunnels(node[c])
  /\ node' = [node EXCEPT ![c] = None]
  /\ UNCHANGED <<available, port, listener, permit, tunnelVars, cliPeerVars, nodeVars>>

-----------------------------------------------------------------------------
(* The cleanup at the end of handle_cli *)

Unlist(c) == /\ active' = [active EXCEPT ![c] = NoEntry]
             /\ UNCHANGED <<managerVars, heldVars, devices, archive, bus, cliPeerVars, nodeVars>>

\* Faults: every tunnel is announced as closed, or none is.
RemoveEntry_Unpaired(c) == Step(c, "remove", "archive") /\ Unlist(c)
RemoveEntry_Silent(c) == Step(c, "remove", "release") /\ Unlist(c)

\* Only a tunnel that was listed is archived and announced as closed.
RemoveEntry(c) == \/ Listed(c) /\ Step(c, "remove", "archive") /\ Unlist(c)
                  \/ ~Listed(c) /\ Step(c, "remove", "release") /\ Unlist(c)

\* Fault: the ring is trimmed one entry too late.
Evicted_OffByOne(queue) == IF Len(queue) > MaxTunnels THEN Tail(queue) ELSE queue

\* History::record_tunnel: a full ring loses its oldest entry.
Evicted(queue) == IF Len(queue) = MaxTunnels THEN Tail(queue) ELSE queue

RecordTunnel(c) ==
  /\ Step(c, "archive", "announceClosed")
  /\ archive' = Append(Evicted(archive), c)
  /\ UNCHANGED <<managerVars, heldVars, active, devices, bus, cliPeerVars, nodeVars>>

AnnounceClosed(c) == Publish(c, "announceClosed", "release", "closed")

ReleasePort(c) ==
  /\ Step(c, "release", "done")
  /\ Release(port[c])
  /\ port' = [port EXCEPT ![c] = None]
  /\ UNCHANGED <<nodeManagerVars, node, listener, permit, tunnelVars, cliPeerVars, nodeVars>>

-----------------------------------------------------------------------------
(* handle_node *)

RefuseNode(n) ==
  /\ NodeStep(n, "connect", "done")
  /\ UNCHANGED <<managerVars, taskVars, tunnelVars, cliPeerVars, nodePeerVars, fwd, nodeBus>>

\* The node can be picked from here on, before it is told its node_id.
AddNode(n) ==
  /\ NodeStep(n, "connect", "ack")
  /\ RegisterNode(n)
  /\ UNCHANGED <<available, taskVars, tunnelVars, cliPeerVars, nodePeerVars, fwd, nodeBus>>

AckNode(n) ==
  /\ NodeStep(n, "ack", "announce")
  /\ SendNode(n, NodeRegistered)
  /\ UNCHANGED <<managerVars, taskVars, tunnelVars, cliPeerVars, fwd, nodeBus>>

\* A node that has gone leaves the registry.
LoseNode(n, from, to) ==
  /\ ~nodeUp[n]
  /\ NodeStep(n, from, to)
  /\ RemoveNode(n)
  /\ UNCHANGED <<available, taskVars, tunnelVars, cliPeerVars, nodePeerVars, fwd, nodeBus>>

AckNodeFails(n) == LoseNode(n, "ack", "done")

AnnounceNode(n) == PublishNode(n, "announce", "serve", "connected")

\* A VisitorConn for a tunnel the node was ordered to open, which it may have
\* sent before its peer closed.  A tunnel that is not listed, or has no route,
\* gets a warning in the log.
ReportVisitor(n) ==
  /\ NodeStep(n, "serve", "forward")
  /\ \E i \in DOMAIN frames[n] :
       LET c == frames[n][i].tunnel_id
       IN /\ frames[n][i].type = "open_tunnel"
          /\ active[c].node # None
          /\ fwd' = [fwd EXCEPT ![n] = c]
  /\ UNCHANGED <<managerVars, taskVars, tunnelVars, cliPeerVars, nodePeerVars, nodeBus>>

\* forward_visitor writes through the route it cloned, whatever has become of
\* the tunnel since; a failure is only logged.
ForwardVisitor(n) ==
  /\ NodeStep(n, "forward", "serve")
  /\ SendCli(fwd[n], "new_conn")
  /\ fwd' = [fwd EXCEPT ![n] = None]
  /\ UNCHANGED <<managerVars, taskVars, tunnelVars, nodePeerVars, nodeBus>>

DropNode(n) == LoseNode(n, "serve", "leave")

AnnounceLeft(n) == PublishNode(n, "leave", "done", "left")

-----------------------------------------------------------------------------
(* The dashboard's DELETE (api/tunnels.rs, close) and the peers *)

FindTunnel(c) ==
  /\ c \in Deletable /\ Listed(c)
  /\ deletes' = deletes \cup {c}
  /\ UNCHANGED <<managerVars, taskVars, tunnelVars, nodeVars, cliUp, first>>

Notified(c, stored) ==
  /\ c \in deletes
  /\ deletes' = deletes \ {c}
  /\ permit' = [permit EXCEPT ![c] = stored]
  /\ UNCHANGED <<managerVars, pc, port, node, listener, tunnelVars, nodeVars, cliUp, first>>

\* Fault: notify_waiters, which reaches a task only while it waits.
NotifyClose_Waiters(c) == Notified(c, permit[c] \/ pc[c] \in {"serve", "serveVia"})

\* Notify::notify_one wakes the serving loop, or leaves it one permit.
NotifyClose(c) == Notified(c, TRUE)

\* Nothing depends on a peer whose task has finished.
CliGone(c) ==
  /\ cliUp[c] /\ pc[c] # "done"
  /\ cliUp' = [cliUp EXCEPT ![c] = FALSE]
  /\ UNCHANGED <<managerVars, taskVars, tunnelVars, nodeVars, deletes, first>>

NodeGone(n) ==
  /\ nodeUp[n] /\ npc[n] # "done"
  /\ nodeUp' = [nodeUp EXCEPT ![n] = FALSE]
  /\ UNCHANGED <<managerVars, taskVars, tunnelVars, cliPeerVars, nodeTaskVars, frames>>

-----------------------------------------------------------------------------
(* The specification *)

FirstFrame(c) == Refuse(c) \/ RegisterCli(c)

Assign(c) == AcquirePort(c) \/ NoPortAvailable(c) \/ RejectCli(c) \/ PickNode(c)

ServeDirect(c) == \/ Bind(c) \/ BindFails(c)
                  \/ AckDirect(c) \/ AckDirectFails(c)
                  \/ ListDirect(c) \/ AnnounceDirect(c)
                  \/ NotifyCli(c) \/ NotifyFails(c) \/ StopDirect(c)

ServeViaNode(c) == \/ OrderNode(c) \/ OrderFails(c) \/ ListVia(c)
                   \/ CountTunnel(c) \/ AnnounceVia(c) \/ AckVia(c)
                   \/ StopVia(c) \/ OrderClose(c) \/ UncountTunnel(c)

CleanUp(c) == \/ RemoveEntry(c) \/ RecordTunnel(c)
              \/ AnnounceClosed(c) \/ ReleasePort(c)

\* What the task of c does by itself once it has a Register.
CliTask(c) == Assign(c) \/ ServeDirect(c) \/ ServeViaNode(c) \/ CleanUp(c)

NodeTask(n) == \/ AckNode(n) \/ AckNodeFails(n) \/ AnnounceNode(n)
               \/ ForwardVisitor(n) \/ DropNode(n) \/ AnnounceLeft(n)

\* What others do: visitors, the dashboard, and the peers.
Environment ==
  \/ \E c \in Clis : \/ FirstFrame(c) \/ AcceptVisitor(c) \/ CliGone(c)
                    \/ FindTunnel(c) \/ NotifyClose(c)
  \/ \E n \in Nodes : \/ RefuseNode(n) \/ AddNode(n) \/ ReportVisitor(n)
                     \/ NodeGone(n)

\* Every task has finished and no request is left: the one way to stop.
Finished == /\ \A c \in Clis : pc[c] = "done"
            /\ \A n \in Nodes : npc[n] = "done"
            /\ deletes = {}
            /\ UNCHANGED vars

Next == \/ \E c \in Clis : CliTask(c)
        \/ \E n \in Nodes : NodeTask(n)
        \/ Environment
        \/ Finished

Spec == Init /\ [][Next]_vars

\* The runtime polls every ready task.  tokio::select! polls its branches in a
\* random order, so a branch that is ready at every turn of a serving loop is
\* taken in the end however many visitors come.  A frame written to a peer is
\* taken to succeed or to fail in the end.
FairSpec == /\ Spec
            /\ \A c \in Clis : /\ WF_vars(CliTask(c))
                               /\ SF_vars(StopDirect(c))
                               /\ WF_vars(NotifyClose(c))
            /\ \A n \in Nodes : WF_vars(NodeTask(n)) /\ SF_vars(DropNode(n))

-----------------------------------------------------------------------------
(* Properties *)

TypeOK ==
  /\ available \subseteq Pool
  /\ registry \subseteq Nodes
  /\ tunnelCount \in [Nodes -> Nat]
  /\ pc \in [Clis -> CliPC]
  /\ port \in [Clis -> Pool \cup {None}]
  /\ node \in [Clis -> Nodes \cup {None}]
  /\ listener \in [Clis -> Pool \cup {None}]
  /\ permit \in [Clis -> BOOLEAN]
  /\ active \in [Clis -> Entry \cup {NoEntry}]
  /\ devices \subseteq Hosts
  /\ archive \in Seq(Clis)
  /\ bus \in [Clis -> Seq({"opened", "closed"})]
  /\ npc \in [Nodes -> NodePC]
  /\ fwd \in [Nodes -> Clis \cup {None}]
  /\ nodeBus \in [Nodes -> Seq({"connected", "left"})]
  /\ cliUp \in [Clis -> BOOLEAN]
  /\ deletes \subseteq Clis
  /\ first \in [Clis -> {"none", "registered", "new_conn", "error"}]
  /\ nodeUp \in [Nodes -> BOOLEAN]
  /\ frames \in [Nodes -> Seq(Frame)]

\* No port is lost and none is handed out twice: every port of the range is
\* either in the pool or held by exactly one task (every exit of handle_cli
\* after acquire goes through release, once).
PortsConserved ==
  /\ available = Pool \ {port[c] : c \in Clis}
  /\ \A c, d \in Clis : port[c] = port[d] /\ port[c] # None => c = d

\* A task about to bind the port it acquired never finds it bound by another
\* tunnel of this server: the listener is dropped before the port is released.
BindNeverCollides == \A c \in Clis : pc[c] = "bind" => port[c] \notin Bound

\* The dashboard shows a tunnel only on the port its task holds at that moment,
\* so two rows never show the same port and no row shows a free one.
ListedPortIsHeld == \A c \in Clis : Listed(c) => active[c].remote_port = port[c]

\* handle_cli's "keeping the open/close events paired": a tunnel announced as
\* opened is listed until its closing is under way, one announced as closed is
\* listed no more, and one that is neither is on its way to be announced.
ListMatchesEvents ==
  \A c \in Clis :
    /\ bus[c] \in {<<>>, <<"opened">>, <<"opened", "closed">>}
    /\ bus[c] = <<"opened">> => Listed(c) \/ pc[c] \in {"archive", "announceClosed"}
    /\ bus[c] = <<"opened", "closed">> => ~Listed(c)
    /\ bus[c] = <<>> /\ Listed(c) => pc[c] \in {"announce", "increment", "announceVia"}

\* A tunnel is archived once, when it is live no more, and before the dashboard
\* hears that it closed; only newer tunnels push it out of the ring.
ArchivedOnce ==
  /\ Len(archive) <= MaxTunnels
  /\ \A i, j \in DOMAIN archive : archive[i] = archive[j] => i = j
  /\ \A i \in DOMAIN archive : ~Listed(archive[i])
  /\ \A c \in Clis : bus[c] = <<"opened", "closed">> =>
       Len(archive) = MaxTunnels \/ \E i \in DOMAIN archive : archive[i] = c

\* Whatever tasks and nodes come and go, the counter pick compares is the number
\* of tunnels that were counted on that node and not yet uncounted; in
\* particular decrement_tunnels never has to saturate.
Counted(n) == {c \in Clis : node[c] = n /\
                 pc[c] \in {"announceVia", "ackVia", "serveVia", "closeOrder", "decrement"}}
NodeLoadExact == \A n \in registry : tunnelCount[n] = Cardinality(Counted(n))

\* A node reads its orders in sequence.  Whenever a port is ordered open for a
\* second tunnel, the first one has been ordered closed in between, so the node
\* is never asked to bind a port it has not been told to free.
PortHandoverOrdered ==
  \A n \in Nodes : \A i, j \in DOMAIN frames[n] :
    /\ i < j
    /\ frames[n][i].type = "open_tunnel"
    /\ frames[n][j].type = "open_tunnel"
    /\ frames[n][i].remote_port = frames[n][j].remote_port
    => \E k \in i + 1 .. j - 1 : /\ frames[n][k].type = "close_tunnel"
                                /\ frames[n][k].tunnel_id = frames[n][i].tunnel_id

\* The tasks implement TunnelService: ports are leased to one tunnel at a time,
\* and a tunnel announced as opened keeps its port until it is announced as
\* closed, even across tunnels that reuse the port.
Service == INSTANCE TunnelService WITH Tunnels <- Clis, Ports <- Pool,
             None <- None, lease <- port, announced <- bus
ImplementsTunnelService == Service!Spec

\* A DELETE that found its tunnel ends it, wherever the serving task was when
\* notify_one was called and however many visitors keep it busy.
DeleteTakesEffect == \A c \in Clis : c \in deletes ~> ~Listed(c)

\* The port of a CLI that went away comes back to the pool, on every path.
PortsComeBack == \A c \in Clis : port[c] # None /\ ~cliUp[c] ~> port[c] = None

-----------------------------------------------------------------------------
(* What the documentation says, and the code does not do *)

\* tunnel.rs: after Register the CLI awaits "the server's verdict", and takes any
\* other frame for an error.  On the node path the visitor may come first: the
\* node has its order, and the entry its route, before Registered is written.
FirstFrameIsVerdict == \A c \in Clis : first[c] # "new_conn"
=============================================================================
