# Borehole in TLA+

Borehole exposes a local TCP service through a public port of a server, or of an
edge node the server commands. This directory holds TLA+ models of it, the TLC
configurations that check them on small instances, and proofs, checked by TLAPS,
that the most important properties hold for any number of connections, nodes,
ports and visitors.

Paths below are relative to `src/crates/` unless they start with `web/`.

## 1. Inventory

| Component | Source | State | Operations |
|---|---|---|---|
| Port pool | `server/src/port_mgr.rs` | the set of free ports, behind a mutex | `acquire`, `acquire_specific`, `release` |
| Node registry | `server/src/node_manager.rs` | `node_id` -> name, address, load, writer | `register`, `remove`, `pick`, `increment_tunnels`, `decrement_tunnels` |
| Control plane | `server/src/control.rs` | one task per control connection, `active_tunnels`, `devices` | `handle_client`, `handle_cli`, `serve_cli_direct`, `serve_cli_via_node`, `handle_node`, `forward_visitor` |
| Server data plane | `server/src/control.rs`, `proxy.rs` | `pending` (`conn_id` -> oneshot sender), one task per visitor and per data connection | `serve_tunnel`, `handle_data_listener`, `handle_data_conn` |
| History | `server/src/history.rs` | two ring buffers | `record_tunnel`, `record_connection`, paged reads |
| Event bus | `server/src/events.rs`, `api/tunnels.rs` | a broadcast channel of capacity 256 | `publish`, `subscribe`, SSE stream |
| Dashboard API | `server/src/api/*.rs` | `api_tokens`; reads of the rest | list and `DELETE` of tunnels, tokens, login |
| Edge node | `node/src/main.rs`, `proxy.rs` | one session at a time, a listener task per tunnel, `pending` | `run_session`, `serve_orders`, `open_tunnel`, `tunnel_accept_loop`, `handle_data_conn` |
| CLI client | `cli/src/tunnel.rs`, `main.rs` | one control connection, an attempt counter | `run`, `handle_data_conn`, `run_tunnel_loop` |
| CLI records | `cli/src/tunnels.rs`, `main.rs` | one file per background tunnel | `detach_tunnel`, `run_worker`, `run_list`, `run_stop` |
| CLI configuration | `cli/src/config.rs`, `main.rs`, `server/src/api/auth.rs` | `~/.borehole.json`, a callback port while a login waits | `run_config`, `run_login`, `cli_login_page` |
| Dashboard | `web/src` | stores fed by REST snapshots and the SSE stream | `loadAll`, `handleEvent`, login, logout |

**How they interact.** A CLI opens a TLS control connection and sends `Register`;
its task takes a port from the pool, picks a node or serves the tunnel itself,
lists it in `active_tunnels`, publishes `TunnelOpened`, and answers `Registered`.
A visitor on the public port becomes a `conn_id` in `pending` and a `NewConn`
frame to the CLI, which dials back on the plain data port with a `DataConn` frame;
that socket goes through the oneshot to the visitor's task, which splices the two.
With a node, the server sends it `OpenTunnel`/`CloseTunnel`, the node owns the
listener, and reports visitors as `VisitorConn`, which the server forwards to the
CLI as `NewConn` with the node's address. The dashboard reads the tables over REST,
gets events over SSE, and closes a tunnel through its `Notify`.

**What is hard, and what makes each component correct.**

| Component | Hard behaviour | Correct when |
|---|---|---|
| Port pool | five exits and two error paths of a task; a listener that outlives its port | ports are conserved, held once, and never bound when acquired |
| Node registry | a counter raised several awaits after `pick` reads it; sessions of one name | the load of a node is the number of tunnels counted on it |
| Control plane | every await may be the last one of a CLI or node; three writers to one CLI stream | table, events and archive agree; DELETE and hang-up end a tunnel; a port changes hands after its close order |
| Data planes (server, node) | a 10 s timer racing the socket in the oneshot; notices that fail; an abort at any await | a socket goes to the visitor it names or is closed, nothing leaks, nobody waits for ever |
| Edge node | `abort` is only a request; one shared writer; sessions that end with orders under way | every listener can be closed, and is in the end |
| History | rings trimmed by tasks that finish in any order | each finished tunnel and connection once, the oldest fall off |
| Server, node and CLIs together | a writer that waits for a peer that has stopped reading | nobody waits for a peer that is not its own |
| CLI client | attempts that are never given back, a retry racing the release of its port | three failures are forgiven, the fourth is an error, and a lost session is noticed |
| CLI records | several processes reading and writing one file, with no lock | `stop` ends the worker; a record outlives its worker, or a worker its record, only in the cases that are named |
| CLI configuration | whole-file saves after waits of minutes, a redirect through a browser | a setting is kept as it was told, unless commands overlap |
| Event feed | lag drops, snapshots racing events, answers after a logout, rows that change without an event | the list is the server's once nothing is under way, unless one of the named disturbances happened or a node's row changed silently |
| API tokens | answers that cross, ids that are prefixes | the page shows as revoked what is revoked |

## 2. Modules

| Module | Models | Uses |
|---|---|---|
| `PortManager` | the pool: free ports and the operations on them | |
| `NodeManager` | the registry and the load counters | |
| `ControlPlane` | the tasks of the control connections, composed with pool and registry | extends both; instances `TunnelService` |
| `TunnelService` | abstract: lease a port, open, close, return it | |
| `Rendezvous` | `pending`, the oneshots, the timers, `handle_data_conn`: what server and node share | instances `Pairing` |
| `Pairing` | abstract: a visitor and a socket that named it are paired, each once, or given up | |
| `DataPlane` | `serve_tunnel`, the visitors' tasks, the history of connections | extends `Rendezvous` |
| `NodeAgent` | the edge node: sessions, orders, accept loops, aborts, the shared writer | extends `Rendezvous` |
| `NodePath` | server, node and CLIs over connections that fill up | |
| `CliClient` | `run_tunnel_loop`, `run` and the data connections of the CLI | instances `TunnelCommand` |
| `TunnelCommand` | abstract: a tunnel that is lost is tried for again, three times in all | |
| `TunnelRecords` | a background tunnel and its record file | extends `CliClient` |
| `EventFeed` | tables, broadcast ring, SSE stream, REST snapshots and the stores of the dashboard | |
| `CliLogin` | `~/.borehole.json`, `config` and `login` with the server's login page | |
| `TokenPage` | the token store of the server and the dashboard's page | |
| `MC*` | instances for TLC | |
| `*_proofs` | theorems and lemmas | |

**Granularity.** One action is one critical section, one frame written or read, or
one event published. Between any two of them any other task may run, also where
the code does not `await`, because the runtime has several threads. A program
counter names the await a task has reached: `pc` for the tasks of CLIs, `npc` for
those of nodes, `loop` for `serve_tunnel`, `task` for `tunnel_accept_loop`,
`session` for `run_session`; `visitor` and `socket` are those of the rendezvous.

### 2.1 ControlPlane

A CLI of the model is one control connection, with the tunnel it registers; a node
is one control connection of an edge node, so a node that reconnects is another
member of `Nodes`, possibly of the same name. Everything in `handle_cli` is an
action: `AcquirePort`/`NoPortAvailable`, `PickNode`, then `Bind`, `AckDirect`,
`ListDirect`, `AnnounceDirect` and the serving loop, or `OrderNode`, `ListVia`,
`CountTunnel`, `AnnounceVia`, `AckVia` and the wait, then `OrderClose`,
`UncountTunnel`, and for both paths `RemoveEntry`, `RecordTunnel`,
`AnnounceClosed`, `ReleasePort`. The failures are actions too (`BindFails`,
`AckDirectFails`, `OrderFails` with its fallback to the direct path, `AckNodeFails`,
`NotifyFails`). `permit` is the permit `Notify::notify_one` stores when nobody waits.
`FindTunnel` and `NotifyClose` are the two halves of `DELETE`: the entry is found
under the lock, the notification sent after it.

`bus` and `nodeBus` keep the events published of each tunnel and node, `frames` the
frames written to each node, `first` the first frame a CLI was sent: they are what
the outside has seen, and the properties about order speak of them. An entry of
`active_tunnels` is reduced to its port and node (its route is present exactly when
the node is). Protocol, host name, local port and time stamps are left out.

### 2.2 Rendezvous, DataPlane, NodeAgent

`Rendezvous` has one operation for each thing done to `pending` or a oneshot; the
two users put them into their loops. It takes care of the windows a reader of the
code overlooks: the CLI may dial in before `send` has returned (`Announce` precedes
`Spawn`); `tokio::time::timeout` finds the timer expired (`Elapse`), the receiver is
dropped (`TimeOut`) and the sender taken out of the map (`Forget`) in three steps, and
a socket may be sent in between; a sender is taken out of the map and used in two
steps (`TakeSender`, `Deliver`). Time itself is left out: a timer may go off whenever
it is polled and nothing has been sent.

`NodeAgent` adds what the node does differently. `JoinHandle::abort` only marks a
task (`aborted`); `Die` drops it at an await, with its listener, its visitor and the
receiver, while the sender stays in `pending`. The frames of all loops share one
writer: `BeginReport` to `FinishReport` is the write under its lock, and a loop that
dies in between leaves the stream `torn`, so the next frame is `spoilt` for the
server, which reads both as one line. The server appears as the orders it sends:
`OrderOpen` and `OrderClose` keep to what `ControlPlane` shows it does
(`PortHandoverOrdered`, `PortsConserved`).

### 2.3 NodePath

`ControlPlane` and `NodeAgent` take a write to end. `NodePath` composes the two sides,
and the CLIs, as far as writes do not: a connection holds `Buffer` frames, and whoever
writes to a full one waits until the peer reads or is gone (`Written`). The server writes
under a lock (`node.tx`, the writer of a route) that it takes for one frame, so those
who wait for the lock wait for the same room, and lock and write are one step. What has
nothing to do with blocking is left out: ports, counters, events, the direct path
(`direct` is the end of the fallback). A report is read, its route looked up
(`ReadReport`) and the frame written (`Forward`) by one task per node: while it waits,
no other report of that node is read, and `Report` of the node waits in turn. A peer
may stop reading at any time (`Stall`), and go on, or go away. `scene`, chosen once, says which
peers may, and which node each CLI asks for.

### 2.4 CliClient, TunnelRecords

`CliClient` is one process. `pc` is the await `run_tunnel_loop` has reached (`connect`,
`verdict`, `serve`, `backoff`) or how it ended. `AttemptFails` is what every `Err` of
`run` leads to. `conn` is the task of each data connection, which outlives the session
and dies with the process. `handler` and `sigint` are the two halves of Ctrl+C in tokio: once
`ctrl_c()` was polled the signal no longer kills the process, and it is heard only by a
future that exists, which is why one pressed during the backoff goes unnoticed. The server
is reduced to what its client sees: `Accept`, `Refuse`, `Notify`, `ServerCloses`, and the
late `ReleasePort` of a session that was lost.

`TunnelRecords` adds the file and the processes around it. `save` is `fs::write`: `Truncate`
and `Write` are two steps, and a reader in between finds a `torn` file; `remove` looks
(`exists`) and then deletes (`unlink`). A file written after it was removed comes back if
the writer had not opened it yet, and does not if it had. The worker goes `load`, `create`,
`write`, `arm` (until the signal handlers are installed SIGTERM has its default action),
`run`, and removes its record on either way out; `readyTask` is the spawned task that awaits
the port and saves the record once more. `Crash` is a death without cleanup.

### 2.5 EventFeed

`life` is what the tasks of the server do to their table, and when they publish: the table
first, the event after it, on the way in and on the way out. `log` is everything published,
`sub` the position of the dashboard's receiver: one that is more than `Capacity` behind goes on
with the oldest event the ring has, which `result.ok()` hides. `wire` is what was sent and not
handled. `load`, `refetch` and `closing` are the requests of the dashboard; each is answered
with what the table holds at that moment, and applied when it arrives, in any order.
`disturbed` collects, for the session, the reasons for which the lists may be wrong: `gap`
(events lost to lag, to a broken stream, or between a snapshot and the subscription), `race` (a
snapshot older than an event that was handled), `late` (an answer of another session),
`reorder` (an older list of nodes after a newer one) and `lost` (a refetch that failed).

The list of nodes has one more way to be wrong, with nothing lost or late.
A row of `GET /api/nodes` has the number of the node's tunnels, `counted`, which
`increment_tunnels` and `decrement_tunnels` change without an event (`CountTunnel`,
`UncountTunnel`), and a node that cannot be told `NodeRegistered` leaves the registry without
one (`AckNodeFails`). `version` numbers the changes of the registry, `changed` has that of
each row, `announced` that of the last event of a node, `shown` that of the list on display: a
row is `Silent` if it changed after both. `ListsInSync` says that the lists are those of the
server once nothing is under way, but for the five disturbances and for silent rows.

### 2.6 CliLogin, TokenPage

`CliLogin` has any number of `config` and `login` commands on one file. A command loads all
of it, changes its part, and saves all of it; `intended` is what the file would hold had each
save changed only its own part. The expiry goes from `issue_token` through `percent_encode`,
the redirect and `percent_decode` into the file, by what these functions do to the characters
a time has. The callback port takes any connection, the first one only; after it no timer runs.

`TokenPage` is one page of one user: `load`, `create` and `revoking` are its requests and
their answers, `Elsewhere` another tab, `Restart` a server that has forgotten its tokens. A
token is a secret, `id` its first eight digits, the only thing the page and `DELETE` know of it.

## 3. Runs

All state spaces are finite and explored completely. Some constants bound what the program
does not: `Deletable` (tunnels the dashboard may delete) in `ControlPlane`, `MaxSessions`
(sessions of a node process) in `NodeAgent`, `MaxSignals` in `CliClient`, `WireSize` and
`MaxLogins` in `EventFeed`, and in `NodePath` `Buffer`.
`Scenes` of `NodePath` lists who asks for which node, who may stop reading or go and what may be
deleted, in one behaviour; `Scenes` of `EventFeed` the tunnels and nodes that are there in one
behaviour, and `Closable` the tunnels whose button is pressed.

| Run | Instance | Distinct states | Checks |
|---|---|---|---|
| `control_direct` | 3 CLIs, 2 ports, requests for a taken port and one out of range, every tunnel may be deleted | 356,500 | `TypeOK`, `PortsConserved`, `BindNeverCollides`, `ListMatchesEvents`, `ArchivedOnce` |
| `control_via_node` | 2 CLIs, 1 port, 2 sessions of a node of one name | 691,972 | `NodeLoadExact`, `PortHandoverOrdered`, `ImplementsTunnelService` |
| `control_live` | 1 CLI, 1 node, dashboard, with fairness | 9,626 | `DeleteTakesEffect`, `PortsComeBack` |
| `data_plane` | 2 tunnels, 2 visitors, 3 data connections, a ring of 1, with fairness | 88,752 | `TypeOK`, `NoSocketLost`, `NoSenderLeaked`, `HistoryExact`, `ImplementsPairing`, `NobodyStuck` |
| `node_agent` | 2 tunnels, 1 port, 2 visitors, 1 data connection, 2 sessions, with fairness | 215,598 | `TypeOK`, `NoSocketLost`, `HandlesReachTasks`, `LeakOnlyByAbort`, `ImplementsPairing`, `ClosedTunnelStopsListening`, `NoVisitorStuck` |
| `node_path` | 2 CLIs with a visitor each, on 1 node or 2, connections of 1 frame, three scenes, with fairness | 65,924 | `ReportsArrive`, `RegistrationEnds`, `CloseEnds`, `AckedTunnelListens`, `DepartureNoticed` |
| `cli_worker` | 1 command in the foreground or detached, 2 ports, 1 visitor, 1 Ctrl+C, 1 stop, with fairness | 154,014 | `OrphanOnlyByEarlyStop`, `LeftoverExplained`, `LossNoticed`, `ImplementsTunnelCommand`, `StopEndsWorker` |
| `event_feed` | 2 tunnels, or 1 tunnel and 1 node, a ring and a wire of 1, 1 login, with fairness | 1,263,834 | `ListsInSync`, `LogoutClears`, `GhostsLeave` |
| `cli_login` | 2 logins, 1 config, with fairness | 71,566 | `SettingsKept`, `LoginEnds` |
| `token_page` | 3 secrets, 2 prefixes | 1,785,846 | `ShownRevokedIsRevoked`, `SettledPageExact` |

**What they show.** The first three: whatever CLI, node or dashboard does at whichever await, no
port is lost or held twice, table, events and archive agree, and a DELETE or a hang-up ends a
tunnel. `data_plane` and `node_agent`: a data connection reaches the visitor it names or is
closed, on the server and on a node whose tasks are aborted (that two connections never answer
one visitor needs the three sockets of `data_plane`; the proofs of both cover any number).
`node_path`: a stalled CLI holds up the visitors of its own node, those behind it that come to
another CLI included, and the notice that this node has left, until it reads again or is
gone; it holds up those of no other node (the premises of `ReportsArrive` and `DepartureNoticed` name exactly
the CLIs of one node), no registration, no DELETE and no order. There is no deadlock between a
server that waits for a CLI and a node that waits for the server. `cli_worker`: a stop that knows the pid ends the worker from
every state, and the only ways in which record and worker part are an early stop, a crash, and
a save that was under way. `event_feed`: the dashboard's lists are wrong only for one of the five reasons
above, and in rows of nodes that changed silently; a closed tunnel leaves the list of a session
that stays undisturbed. `cli_login`: settings and the expiry survive unless commands overlap or one is
killed in a save. `token_page`: the page is exact unless an answer is lost, crosses a list, or
somebody else changes the tokens; a token shown as revoked may be valid only if another one
shares its eight digits or the server was restarted.

**Why the bounds are enough.** Three CLIs for two ports make the pool run dry and
every port change hands; a port that is both requested and taken needs two CLIs, and
one outside the range needs one more value. A node session that leaves while another
of the same name is there needs two of them; a port handed over within one session
needs one port and two CLIs. A ring is exercised when one more entry is written
than it holds: `MaxTunnels = 2` with three CLIs, `MaxConnections = 1` with two
visitors, `Capacity = 1` with four events. Two visitors are enough to confuse their sockets; a
third data connection is one too many for both. Two tunnels that follow one another on one
port, over two sessions, meet every case of a late abort. A connection of one frame is full
as soon as it holds anything. One of the two CLIs of `node_path` never stalls, to see what holds it up
and what does not: on the node of the other its visitor may stand behind the other's frame, on
a node of its own nothing of the other is in its way. The scenes are a CLI that stalls and goes
with a node that goes; a CLI and a node that stall, with a DELETE; and two nodes, where one CLI
stalls and the node of the other goes. All of this at once would be more than TLC can check
for liveness. A tunnel and a node of `event_feed` have every silent change and refetches that
cross; two tunnels share a list and a ring. `MaxLogins = 1` has the answers that come after a logout, but not those
that come after the next login. Three commands on a file have one that overlaps both others; three
secrets for two prefixes have two that are alike and one that is not. Every invariant a run
checks, and every refinement, is also proved for all numbers (section 4). Symmetry is used only in
`control_direct` and `control_via_node`, which have no liveness property, over sets no definition
distinguishes the members of.

**Fairness.** A task that can run is polled: weak fairness of what a task does by
itself (`CliTask`, `NodeTask`, `Notify`, `Wait`, `SendSocket`, `ServeOrders`,
`AcceptLoop`, `Loop`, `Worker`, `ReadyTask`, `Detach`, `RunLogin`, `Save`). In `ControlPlane`,
`DataPlane` and `NodeAgent` a write to a peer succeeds or fails in the end, which holds for a
peer that reads or whose connection breaks; what becomes of the others is the subject of
`NodePath`, where tasks that wait for room in one connection get it in turn, as tokio's mutex is
fair: strong fairness of `HandleNode`, `HandleCli` and `Report`, weak fairness of the reads of
a peer, which a stalled one does not take. `tokio::select!` polls its branches in random order,
so a branch that is ready again and again is taken in spite of a stream of visitors: strong
fairness of `StopDirect`, and of `DropNode`, which competes with the frames of a node. tokio's
cooperative budget makes a busy accept loop yield, and an aborted task is dropped
when it does: strong fairness of `Die`. Requests are answered, or fail, and what has arrived is
handled: weak fairness in `EventFeed`; a stream that breaks need not come back. Nothing is
assumed of visitors, of how long a splice lasts, of CLIs and nodes, of users and browsers, or of a
data connection that has sent no frame yet: the code has no timeout there, and the liveness
properties start after that point. `Reconnect` waits until the aborted loops are gone:
`RECONNECT_DELAY` is 5 s, an abort takes effect at the next await.

`CHECK_DEADLOCK FALSE` stands where a system may stop: a CLI command that has ended, a page
nobody uses, peers that are gone.

**Mutants.** Every property is also checked against a mutation of the code that
breaks it: a definition named after the one it changes (`Elapse_Restarts` for `Elapse`,
`AcquireSpecific_Taken` for `AcquireSpecific`, and so on), listed in `PROJECT.json`
under `mutants`. They are part of no specification.

### 3.1 Findings

Two runs check one statement of the documentation each and end in a counterexample.

| Run | What the code does |
|---|---|
| `finding_verdict_first` | On the node path the route is in the table and the node has its order before `Registered` is written: the first frame a CLI reads may be a `NewConn`, which it takes for an error (`cli/src/tunnel.rs:75-82`) |
| `finding_early_stop` | `stop` of a worker that has loaded its record and not saved its pid removes the record and signals nobody; the worker serves on (`cli/src/main.rs:275-284`) |

Others were met while modelling; the models behave as the code does, and have no run for them:

- A node is in the registry before `NodeRegistered` is written (`control.rs:433-443`): the task of
  a CLI may write `OpenTunnel` first, and the node, which takes the first frame for the verdict,
  gives the session up (`node/src/main.rs:125-134`). `NodeReads` of `NodePath` has that end of a
  session.
- The task that awaits the port may have loaded the record when a stopped worker removes it, and
  saves it again: `list` shows an active tunnel that nobody serves, against "cleaning it up on
  exit" (`cli/src/main.rs:212-248`). It is `revived` of `LeftoverExplained`.
- A node that could not be told `NodeRegistered` stays in a list of nodes that was read meanwhile, and
  the numbers of tunnels in a list are those of the last time it was read (`control.rs:443-446`,
  `357`, `404`): `Silent` of `ListsInSync`. The comments say "kept in sync by the layout"
  (`web/src/lib/stores.ts:4-5`) and "to stay exact" (`web/src/routes/+layout.svelte:55`).
- `pick` reads a counter that is raised several awaits later, so concurrent registrations all get
  the same node, not the one "with the fewest active tunnels" (`node_manager.rs:105-107`).
- Tunnels routed through a node that left stay listed, with their ports, for as long as their
  CLIs stay connected.
- After `CloseTunnel` the listener is still bound for a moment: the next `OpenTunnel` of that port
  may fail, which the node only logs (`node/src/main.rs:195-198`).
- An abort in the middle of a `VisitorConn` makes the server read the next report, of another
  tunnel, as part of a malformed line (`spoilt` in `NodeAgent`); the visitor of that report is
  dropped by its timer. The sender of the visitor whose loop was aborted stays in `pending` for
  the life of the node process; `LeakOnlyByAbort` bounds that leak.
- The header of `control.rs` (lines 19-23) says that no `OpenTunnel` message exists and that the
  node branches are dormant; `serve_cli_via_node` sends one.
- Ctrl+C between two sessions of `start` is taken by the runtime and heard by nobody.
- `ready_tx` is given to the first attempt only: after a reconnection the record names the port of
  the session before, and one whose first attempt failed stays `starting`.
- A `DELETE` from the dashboard looks to the CLI like a lost connection: it registers again.

## 4. Proofs

| Module | Theorems (all `Spec => []...` unless they are refinements) |
|---|---|
| `ControlPlane_proofs` | `Invariance`, `TypeCorrect` (`TypeOK`), `PortsSafe` (`PortsConserved`), `BindSafe` (`BindNeverCollides`), `TableSafe` (`ListedPortIsHeld`, which no run checks: the table names only ports their tunnels hold), `EventsMatch` (`ListMatchesEvents`), `Implementation` (`ImplementsTunnelService`); `ArchiveInvariance`, `ArchiveSafe` (`ArchivedOnce`); `LoadInvariance`, `LoadSafe` (`NodeLoadExact`); `OrdersInvariance`, `OrdersSafe` (`PortHandoverOrdered`) |
| `Rendezvous_proofs` | lemmas about the operations: `RendezvousStepInv`, `RendezvousInvLosesNoSocket`, `PairingStep` |
| `DataPlane_proofs` | `Invariance`, `TypeCorrect`, `SendersSafe` (`NoSenderLeaked`), `SocketsSafe` (`NoSocketLost`), `HistorySafe` (`HistoryExact`), `Implementation` (`ImplementsPairing`) |
| `NodeAgent_proofs` | `Invariance`, `TypeCorrect`, `HandlesSafe` (`HandlesReachTasks`), `SendersSafe` (`LeakOnlyByAbort`), `SocketsSafe` (`NoSocketLost`), `Implementation` (`ImplementsPairing`) |
| `TunnelRecords_proofs` | `Invariance`, `TypeCorrect`, `OrphanSafe` (`OrphanOnlyByEarlyStop`), `LeftoverSafe` (`LeftoverExplained`), `Implementation` (`ImplementsTunnelCommand`) |
| `EventFeed_proofs` | `Invariance`, `TypeCorrect`, `SyncSafe` (`ListsInSync`), `LogoutSafe` (`LogoutClears`) |
| `CliLogin_proofs` | `Invariance`, `SettingsSafe` (`SettingsKept`) |
| `TokenPage_proofs` | `Invariance`, `TypeCorrect`, `ShownSafe` (`ShownRevokedIsRevoked`), `SettledSafe` (`SettledPageExact`) |

**Assumptions.** `RangeAssumption`: the range of ports is given by two naturals, and
`None` is no number. `NodeAssumption`: a node has a name, and `AnyName` is none.
`ControlAssumption`: requested ports are integers, a CLI reports a host name or none,
`None` is no CLI, node or host, the ring of tunnels holds at least one entry, and only
tunnels are deleted. `DataPlaneAssumption`: the ring of connections holds at least one
entry. `NodeAgentAssumption`: `None` is no port, and `MaxSessions` is a natural.
`RendezvousAssumption`: `None` is no visitor and no socket. `ClientAssumption`: `None` is no
port and no visitor, `MaxSignals` is a natural. `FeedAssumption`: the ring and the wire hold
at least one event, and no node is a tunnel; there are finitely many of both, because the
length of the log is compared with their number. `LoginAssumption`: no command is both a
`config` and a `login`. `TokenPage` assumes nothing. TLC evaluates them in every run.

**ControlPlane.** None of the properties is inductive: that a port in the pool is held
by nobody says nothing about a task that has released the port and still names it. What
makes them so is that the await a task has reached determines what it holds. `TaskInv`
states it (a port exactly from acquire to release, a listener exactly while
`serve_cli_direct` runs, an entry from insert to remove, the events it has
published), and `IndInv` adds `PortsConserved`, which relates the tasks to the pool.
`TypeStep`, `TaskStep` and `PortsStep` each go through all actions; the safety theorems are
read off the invariant, and `RefinementStep` maps four actions to steps of
`TunnelService` and all others to stuttering. `ArchivedOnce` needs one more invariant,
`ArchiveInv`: an archived tunnel is past `record_tunnel`, which is what keeps a tunnel from
being recorded twice, and one that is past it is archived before its event says so.

`NodeLoadExact` and `PortHandoverOrdered` are about awaits far apart in `serve_cli_via_node`,
between which the node may leave. `LoadInv` adds to the first that a node is registered
exactly between `add` and `remove`, and that a task names only nodes that were; with
that `CountTunnel` and `UncountTunnel` change the counter and the counted set together,
and `DropNode` forgets both. `OrdersInv` adds to the second that each `OpenTunnel` is
accounted for (`Accounted`): its `CloseTunnel` follows, or the node reads no more, or its
task is still on its way there and holds the port, so that `PortsConserved` rules out that
another task orders that port meanwhile.

**Rendezvous.** `RendezvousInv` says that a sender is in the map or was taken by exactly
one data connection (`SendersTakenOnce`), that a data connection past its frame has
taken one (`SocketsClaim`), and that a oneshot holds the socket queued for it
(`SlotsMatch`). It is needed because a visitor that takes a socket must not find it in
another oneshot, and because a sender must not come back to the map. The lemmas
speak of the operations, not of the loops, so `DataPlane` and `NodeAgent` only show that
their actions are operations of the rendezvous (`StepsAreRendezvous`), for which they need
to know that a busy loop has a visitor of its own (`LoopsHold`).

**DataPlane.** `IndInv` adds `NoSenderLeaked`, which is inductive with these. `HistoryExact`
is proved on top of it: `Trimmed` says what the ring loses, `OthersKeepHistory` that no
other action finishes a visitor.

**NodeAgent.** `HandlesReachTasks` needs `OrdersFresh`: a tunnel is ordered open once, and
until the order is read it has no task, so the task that is spawned was not aborted before
and its handle replaces no other one.

**TunnelRecords.** The record file has no lock, so `RecordInv` says who left it as it is:
`SaveInv` that a save writes what was loaded, `OrderInv` that the worker is spawned after the
record is there and its task after its own save, `FileInv` who may have emptied or removed
the file, `StopInv` that a stop which removes it has signalled the worker or read no pid,
`OverInv` what a worker that is over leaves. `LoopInv` says that the loop sleeps only while a
retry is left, and does not run before the worker polls it: `LoopMoves` sums up every
action of client and worker as a move of the loop, and `CommandStep` maps those moves to
`TunnelCommand`. The attempt to prove it led to a stronger `LeftoverExplained`: it used
to allow for a save of the task of the worker, which an ended worker no longer has.

**EventFeed.** `FeedInv` takes every event and every answer on its way into account.
`DueInv` says that what a receiver that missed nothing has before it are the last entries of
the log, in order (`Due`); `SnapshotInv` that a snapshot is right about each tunnel no later
entry speaks of, and `ListInv` the same of the list once it is set; `RowsInv` that a list of nodes
is right about each row that has not changed since it was read (`Agrees`), and `NodesInv` that what
had changed when a node came or went is shown, was asked for, or will be (`CatchUp`). A
row that is wrong with nothing under way then changed after the list was read and after the last
event of a node, which is what `Silent` says. These hold for each tunnel and each row by
itself, whatever the others do, which is why they are inductive and `ListsInSync` is not.
`CountInv` bounds the log by the number of tunnels and nodes, so that
refetches have names. There is a lemma per action; `RestKept` and `LifeKept` are what most
of them leave alone.

**CliLogin.** `KeptInv`: a command that nobody has overtaken (`stale`) holds the settings
as they were intended, and with its own once it saves (`CopyInv`); the one that saves has the
file empty, and everybody else late (`SaverInv`). That `login` stores the expiry the server
stated rests on `RoundTrip`: the server percent-encodes the `+` and `:` of its RFC 3339 string
(`percent_encode`, `api/auth.rs`) and the command decodes them. The lemma computes that
one string through the definitions of the two recursive functions, for which it exhibits
functions that satisfy their equations.

**TokenPage.** `TokenInv`: what an answer that is on its way tells is true of the server
(`AnswerInv`), and in a page where nothing strayed, what the rows lack is on its way
(`CleanInv`): a new token in the answer of its `createToken`, a revocation in that of its
`revokeToken`. `SettledSafe` counts: rows and store are as long as each other, and the
store lists no token twice. `LeastElement` and `FirstMatches` are what `revoke`
needs: the first token with an id is one with that id.

**Only model-checked.** Liveness under fairness, which TLAPS does not reason about: the
leads-to properties of all runs, and so all of `NodePath`, whose five properties say that
something happens in the end. That percent-decoding undoes percent-encoding for every string
would take induction over sequences, which the installed provers cannot do; it is proved
of the one string the code encodes. The two findings are counterexamples: there is nothing
to prove about them.

## 5. Plan

Written, in this order: `PortManager`, `NodeManager`, `TunnelService`, `ControlPlane`, its
proofs; `Pairing`, `Rendezvous`, `DataPlane`, `NodeAgent`, their proofs; `CliClient`,
`TunnelCommand`, `TunnelRecords`, `EventFeed`, `NodePath`, `CliLogin`, `TokenPage`; the proofs
of the counter and the orders of a node, and of `TokenPage`, `TunnelRecords`, `EventFeed` and
`CliLogin`. What is left:

1. `NodePath`: an invariant that says of each connection that is full who waits for it and
   who reads it, which is the safety half of its liveness properties.
2. Lemmas about `acquire` and `pick` (a port that is free is found; the node that is
   picked has the fewest tunnels), for every range and registry.
3. What the abstract specifications promise by themselves (`TunnelService` leases no port twice,
   `Pairing` gives no socket to two visitors), carried over by the refinements.

## 6. Not modelled

- A CLI whose host vanishes without closing, and a control or data connection that never
  sends its first frame: the code has neither keep-alive nor timeout there, and nothing can be
  promised (`hazards` in `PROJECT.json`).
- A CLI that stops reading on the direct path: `serve_tunnel` writes `NewConn` itself
  (`control.rs:564`), and sees neither its DELETE nor its end while it waits. `ControlPlane` and
  `DataPlane` take that write to end; `NodePath` has the path through a node only.
- I/O errors of the save, the removal and the kill of a background tunnel's record, which end
  `run_stop` or the worker early: `TunnelRecords` has the crash in the middle of a save instead.
- TLS, certificates, signing and checking of JWTs, JSON: libraries. Sessions of the dashboard
  are those of a token that is accepted; a rejected one is a request that fails.
- The paged reads of the history, the list of devices with its time stamps and live counts: reads
  under one lock, or two in a row, that change nothing. The dashboard pages that fetch
  them once show what they got.
- `run_list` prints what `Listed` says; its columns are layout.
- `cli/src/update.rs`: no `mod` declaration names it, it is not compiled.
- Configuration parsing, `build.rs`, markup and styling of the dashboard, Docker files,
  installers and release jobs: no state of the running system.
