------------------------ MODULE ControlPlane_proofs ------------------------
(***************************************************************************)
(* Proofs about the control plane, for any number of CLIs, nodes and ports.*)
(*                                                                         *)
(* The properties of ControlPlane that are proved here rest on one fact:   *)
(* the await a CLI task has reached determines what the task holds.        *)
(* TaskInv states it, and IndInv adds what relates the tasks to the pool.  *)
(* Two parts at the end add to IndInv what they need: the archive, and what*)
(* the server and a node know of each other.                               *)
(***************************************************************************)
EXTENDS ControlPlane, FiniteSetTheorems, TLAPS

\* From acquire to release.
Holding == CliPC \ {"connect", "acquire", "reject", "done"}

\* Inside serve_cli_via_node.
ViaNode == {"order", "listVia", "increment", "announceVia", "ackVia",
            "serveVia", "closeOrder", "decrement"}

\* While the listener of serve_cli_direct is alive.
Listening == {"ack", "list", "announce", "serve", "notify"}

\* Between insert and remove, and of these the awaits after the announcement.
InTable == {"announce", "serve", "notify", "increment", "announceVia", "ackVia",
            "serveVia", "closeOrder", "decrement"}
Announced == InTable \ {"announce", "increment", "announceVia"}

\* What the task of c holds, and what it has told the dashboard.  At "remove" it
\* may come from a serving loop, with an entry it announced, or from an early
\* return, with neither.
TaskInv(c) ==
  /\ pc[c] \in Holding <=> port[c] # None
  /\ pc[c] \in ViaNode => node[c] # None
  /\ listener[c] = IF pc[c] \in Listening THEN port[c] ELSE None
  /\ pc[c] \in InTable => Listed(c)
  /\ Listed(c) => pc[c] \in InTable \cup {"remove"}
  /\ Listed(c) => active[c].remote_port = port[c]
  /\ pc[c] \in Announced \cup {"archive", "announceClosed"} => bus[c] = <<"opened">>
  /\ pc[c] = "remove" => bus[c] = IF Listed(c) THEN <<"opened">> ELSE <<>>
  /\ pc[c] \in {"release", "done"} => bus[c] \in {<<>>, <<"opened", "closed">>}
  /\ pc[c] \notin Announced \cup {"archive", "announceClosed", "remove", "release", "done"}
       => bus[c] = <<>>

IndInv == /\ TypeOK
          /\ \A c \in Clis : TaskInv(c)
          /\ PortsConserved

-----------------------------------------------------------------------------
(* What the invariant says of a task that holds a port *)

\* A task between acquire and release holds a port of the range, which it can
\* name in an order to its node and in its entry.
LEMMA HolderHasPort ==
  ASSUME IndInv, NEW c \in Clis, pc[c] \in Holding
  PROVE  /\ port[c] \in Pool /\ port[c] \in Int /\ port[c] # None
         /\ OpenTunnel(c) \in Frame
         /\ \A n \in Nodes \cup {None} : [remote_port |-> port[c], node |-> n] \in Entry
         /\ \A n \in Nodes \cup {None} : [remote_port |-> port[c], node |-> n] # NoEntry
<1>1. /\ port[c] \in Pool /\ port[c] # None
  BY DEF IndInv, TypeOK, TaskInv
<1>2. port[c] \in Int
  BY <1>1, RangeAssumption DEF Pool
<1>3. OpenTunnel(c) \in Frame
  BY <1>1 DEF OpenTunnel, Frame
<1>4. \A n \in Nodes \cup {None} : [remote_port |-> port[c], node |-> n] \in Entry
  BY <1>1 DEF Entry
<1>5. \A n \in Nodes \cup {None} : [remote_port |-> port[c], node |-> n] # NoEntry
  BY <1>1 DEF NoEntry
<1>6. QED
  BY <1>1, <1>2, <1>3, <1>4, <1>5

\* A task inside serve_cli_via_node has a node.
LEMMA RoutedHasNode ==
  ASSUME IndInv, NEW c \in Clis, pc[c] \in ViaNode
  PROVE  node[c] \in Nodes /\ pc[c] \in Holding
BY DEF IndInv, TypeOK, TaskInv, ViaNode, Holding, CliPC

\* What acquire hands out: a free port of the range, which nobody holds.
LEMMA AcquiredPort ==
  ASSUME IndInv, NEW c \in Clis, AcquirePort(c)
  PROVE  \E p \in available : /\ p \in Pool /\ p # None
                             /\ \A d \in Clis : port[d] # p
                             /\ available' = available \ {p}
                             /\ port' = [port EXCEPT ![c] = p]
<1>1. PICK p \in Pool \cup RequestPorts :
        /\ p \in available
        /\ available' = available \ {p}
        /\ port' = [port EXCEPT ![c] = p]
  BY DEF AcquirePort, Acquire, AcquireSpecific
<1>2. p \in Pool /\ \A d \in Clis : port[d] # p
  BY <1>1 DEF IndInv, PortsConserved
<1>3. p # None
  BY <1>2, RangeAssumption DEF Pool
<1>4. QED
  BY <1>1, <1>2, <1>3

\* What pick returns: a registered node, or the direct path.
LEMMA PickedNode ==
  ASSUME IndInv, NEW c \in Clis, PickNode(c)
  PROVE  \/ pc' = [pc EXCEPT ![c] = "bind"] /\ UNCHANGED node
         \/ /\ pc' = [pc EXCEPT ![c] = "order"]
            /\ \E n \in Nodes : n # None /\ node' = [node EXCEPT ![c] = n]
<1>1. registry \subseteq Nodes /\ None \notin Nodes
  BY ControlAssumption DEF IndInv, TypeOK
<1>2. QED
  BY <1>1 DEF PickNode, Step, Pick, Candidates

\* The two events of a tunnel, one after the other.
LEMMA TwoEvents == /\ Append(<<>>, "opened") = <<"opened">>
                   /\ Append(<<"opened">>, "closed") = <<"opened", "closed">>
<1> DEFINE both == Append(<<"opened">>, "closed")
<1>1. /\ both \in Seq({"opened", "closed"})
      /\ Len(both) = 2 /\ both[1] = "opened" /\ both[2] = "closed"
  OBVIOUS
<1> HIDE DEF both
<1>2. both = <<"opened", "closed">>
  BY <1>1
<1>3. Append(<<>>, "opened") = <<"opened">>
  OBVIOUS
<1>4. QED
  BY <1>2, <1>3 DEF both

\* The histories of a tunnel that was not, that is, and that was announced.
LEMMA HistoriesDiffer == /\ <<"opened">> # <<>>
                         /\ <<"opened", "closed">> # <<>>
                         /\ <<"opened", "closed">> # <<"opened">>
<1>1. /\ Len(<<>>) = 0 /\ Len(<<"opened">>) = 1
      /\ Len(<<"opened", "closed">>) = 2
  OBVIOUS
<1>2. QED
  BY <1>1, Zenon

-----------------------------------------------------------------------------
(* Every step preserves the invariant: one lemma per conjunct of IndInv,   *)
(* with one step per action.                                               *)

\* No action takes a variable out of its type.
LEMMA TypeStep ==
  ASSUME IndInv, [Next]_vars
  PROVE  TypeOK'
<1>1. TypeOK /\ (\A d \in Clis : TaskInv(d)) /\ PortsConserved
  BY DEF IndInv
<1>2. ASSUME NEW c \in Clis, AcquirePort(c) PROVE TypeOK'
  <2>1. available \subseteq Pool /\ port \in [Clis -> Pool \cup {None}]
    BY <1>1 DEF TypeOK
  <2>2. available' \subseteq Pool /\ port' \in [Clis -> Pool \cup {None}]
    BY <1>2, <2>1, AcquiredPort
  <2>3. pc' \in [Clis -> CliPC]
    BY <1>2, <1>1 DEF AcquirePort, Step, TypeOK, CliPC
  <2>4. QED
    BY <1>2, <1>1, <2>2, <2>3 DEF AcquirePort, TypeOK, managerVars, heldVars, taskVars,
         tunnelVars, nodeTaskVars, cliPeerVars, nodePeerVars, nodeVars,
         nodeManagerVars
<1>3. ASSUME NEW c \in Clis, PickNode(c) PROVE TypeOK'
  <2>1. pc \in [Clis -> CliPC] /\ node \in [Clis -> Nodes \cup {None}]
    BY <1>1 DEF TypeOK
  <2>2. pc' \in [Clis -> CliPC] /\ node' \in [Clis -> Nodes \cup {None}]
    BY <1>3, <2>1, PickedNode DEF CliPC
  <2>3. QED
    BY <1>3, <1>1, <2>2 DEF PickNode, TypeOK, managerVars, heldVars, taskVars,
         tunnelVars, nodeTaskVars, cliPeerVars, nodePeerVars, nodeVars,
         nodeManagerVars
<1>4. ASSUME NEW c \in Clis, OrderNode(c) PROVE TypeOK'
  <2>1. pc[c] = "order" /\ pc[c] \in ViaNode
    BY <1>4 DEF OrderNode, TellNode, Step, ViaNode
  <2>2. node[c] \in Nodes /\ OpenTunnel(c) \in Frame
    BY <2>1, RoutedHasNode, HolderHasPort
  <2>3. frames' \in [Nodes -> Seq(Frame)]
    BY <1>4, <1>1, <2>2 DEF OrderNode, TellNode, SendNode, TypeOK
  <2>4. pc' \in [Clis -> CliPC]
    BY <1>4, <1>1 DEF OrderNode, TellNode, Step, TypeOK, CliPC
  <2>5. QED
    BY <1>4, <1>1, <2>3, <2>4
    DEF OrderNode, TellNode, SendNode, TypeOK, managerVars, heldVars, taskVars,
         tunnelVars, nodeTaskVars, cliPeerVars, nodePeerVars, nodeVars,
         nodeManagerVars
<1>5. ASSUME NEW c \in Clis, ListVia(c) PROVE TypeOK'
  <2>1. pc[c] = "listVia" /\ pc[c] \in ViaNode
    BY <1>5 DEF ListVia, Insert, Step, ViaNode
  <2>2. [remote_port |-> port[c], node |-> node[c]] \in Entry
    BY <2>1, RoutedHasNode, HolderHasPort
  <2>3. active' \in [Clis -> Entry \cup {NoEntry}]
    BY <1>5, <1>1, <2>2 DEF ListVia, Insert, TypeOK
  <2>4. pc' \in [Clis -> CliPC]
    BY <1>5, <1>1 DEF ListVia, Insert, Step, TypeOK, CliPC
  <2>5. QED
    BY <1>5, <1>1, <2>3, <2>4 DEF ListVia, Insert, TypeOK, managerVars, heldVars, taskVars,
         tunnelVars, nodeTaskVars, cliPeerVars, nodePeerVars, nodeVars,
         nodeManagerVars
<1>6. ASSUME NEW n \in Nodes, ReportVisitor(n) PROVE TypeOK'
  <2>1. npc' \in [Nodes -> NodePC]
    BY <1>6, <1>1 DEF ReportVisitor, NodeStep, TypeOK, NodePC
  <2>2. PICK i \in DOMAIN frames[n] :
          /\ frames[n][i].type = "open_tunnel"
          /\ fwd' = [fwd EXCEPT ![n] = frames[n][i].tunnel_id]
    BY <1>6 DEF ReportVisitor
  <2>3. frames[n][i] \in Frame
    BY <1>1, <2>2 DEF TypeOK
  <2>4. frames[n][i].tunnel_id \in Clis
    BY <2>2, <2>3 DEF Frame, NodeRegistered
  <2>5. fwd' \in [Nodes -> Clis \cup {None}]
    BY <1>1, <2>2, <2>4 DEF TypeOK
  <2>6. QED
    BY <1>6, <1>1, <2>1, <2>5 DEF ReportVisitor, TypeOK, managerVars, heldVars, taskVars,
         tunnelVars, nodeTaskVars, cliPeerVars, nodePeerVars, nodeVars,
         nodeManagerVars
<1>28. ASSUME NEW c \in Clis, RemoveEntry(c) PROVE TypeOK'
  <2>1. Unlist(c) /\ \E to \in {"archive", "release"} : pc' = [pc EXCEPT ![c] = to]
    BY <1>28 DEF RemoveEntry, Step
  <2>2. pc' \in [Clis -> CliPC]
    BY <1>1, <2>1 DEF TypeOK, CliPC
  <2>3. active' \in [Clis -> Entry \cup {NoEntry}]
    BY <1>1, <2>1 DEF Unlist, TypeOK
  <2>4. QED
    BY <1>1, <2>1, <2>2, <2>3 DEF Unlist, TypeOK, managerVars, heldVars, cliPeerVars,
         nodeTaskVars, nodePeerVars, nodeVars, nodeManagerVars
<1> USE <1>1, RangeAssumption, NodeAssumption, ControlAssumption
       DEF TypeOK, TaskInv, Holding, ViaNode, CliPC, NodePC, Entry,
           NoEntry, Frame, NodeRegistered, Pool, managerVars, heldVars,
           taskVars, tunnelVars, nodeTaskVars, cliPeerVars, nodePeerVars,
           nodeVars, nodeManagerVars
<1>7. ASSUME NEW c \in Clis, Refuse(c) PROVE TypeOK'
  BY <1>7 DEF Refuse, Step, TellCli, SendCli
<1>8. ASSUME NEW c \in Clis, RegisterCli(c) PROVE TypeOK'
  BY <1>8 DEF RegisterCli, Step
<1>9. ASSUME NEW c \in Clis, NoPortAvailable(c) PROVE TypeOK'
  BY <1>9 DEF NoPortAvailable, Step, Move
<1>10. ASSUME NEW c \in Clis, RejectCli(c) PROVE TypeOK'
  BY <1>10 DEF RejectCli, Step, TellCli, SendCli
<1>11. ASSUME NEW c \in Clis, Bind(c) PROVE TypeOK'
  BY <1>11 DEF Bind, Step
<1>12. ASSUME NEW c \in Clis, BindFails(c) PROVE TypeOK'
  BY <1>12 DEF BindFails, Step, SendCli
<1>13. ASSUME NEW c \in Clis, AckDirect(c) PROVE TypeOK'
  BY <1>13 DEF AckDirect, Step, TellCli, SendCli
<1>14. ASSUME NEW c \in Clis, AckDirectFails(c) PROVE TypeOK'
  BY <1>14 DEF AckDirectFails, Step, ReturnDirect
<1>15. ASSUME NEW c \in Clis, ListDirect(c) PROVE TypeOK'
  BY <1>15 DEF ListDirect, Step, Insert
<1>16. ASSUME NEW c \in Clis, AnnounceDirect(c) PROVE TypeOK'
  BY <1>16 DEF AnnounceDirect, Step, Publish
<1>17. ASSUME NEW c \in Clis, AcceptVisitor(c) PROVE TypeOK'
  BY <1>17 DEF AcceptVisitor, Step, Move
<1>18. ASSUME NEW c \in Clis, NotifyCli(c) PROVE TypeOK'
  BY <1>18 DEF NotifyCli, Step, TellCli, SendCli
<1>19. ASSUME NEW c \in Clis, NotifyFails(c) PROVE TypeOK'
  BY <1>19 DEF NotifyFails, Step, ReturnDirect
<1>20. ASSUME NEW c \in Clis, StopDirect(c) PROVE TypeOK'
  BY <1>20 DEF StopDirect, Step, LoopEnds, ReturnDirect
<1>21. ASSUME NEW c \in Clis, OrderFails(c) PROVE TypeOK'
  BY <1>21 DEF OrderFails, Step, Move
<1>22. ASSUME NEW c \in Clis, CountTunnel(c) PROVE TypeOK'
  BY <1>22 DEF CountTunnel, Step, IncrementTunnels
<1>23. ASSUME NEW c \in Clis, AnnounceVia(c) PROVE TypeOK'
  BY <1>23 DEF AnnounceVia, Step, Publish
<1>24. ASSUME NEW c \in Clis, AckVia(c) PROVE TypeOK'
  BY <1>24 DEF AckVia, Step, TellCli, SendCli
<1>25. ASSUME NEW c \in Clis, StopVia(c) PROVE TypeOK'
  BY <1>25 DEF StopVia, Step, LoopEnds
<1>26. ASSUME NEW c \in Clis, OrderClose(c) PROVE TypeOK'
  BY <1>26 DEF OrderClose, Step, TellNode, SendNode, CloseTunnel
<1>27. ASSUME NEW c \in Clis, UncountTunnel(c) PROVE TypeOK'
  BY <1>27 DEF UncountTunnel, Step, DecrementTunnels
<1>29. ASSUME NEW c \in Clis, RecordTunnel(c) PROVE TypeOK'
  <2>1. Evicted(archive) \in Seq(Clis)
    BY DEF Evicted
  <2>2. archive' \in Seq(Clis)
    BY <1>29, <2>1 DEF RecordTunnel
  <2>3. QED
    BY <1>29, <2>2 DEF RecordTunnel, Step
<1>30. ASSUME NEW c \in Clis, AnnounceClosed(c) PROVE TypeOK'
  BY <1>30 DEF AnnounceClosed, Step, Publish
<1>31. ASSUME NEW c \in Clis, ReleasePort(c) PROVE TypeOK'
  <2>1. port[c] \in Pool
    BY <1>31, HolderHasPort DEF ReleasePort, Step, Holding
  <2>2. available' \subseteq Pool
    BY <1>31, <2>1 DEF ReleasePort, Release
  <2>3. pc' \in [Clis -> CliPC] /\ port' \in [Clis -> Pool \cup {None}]
    BY <1>31 DEF ReleasePort, Step
  <2>4. QED
    BY <1>31, <2>2, <2>3 DEF ReleasePort
<1>32. ASSUME NEW c \in Clis, FindTunnel(c) PROVE TypeOK'
  BY <1>32 DEF FindTunnel, Listed
<1>33. ASSUME NEW c \in Clis, NotifyClose(c) PROVE TypeOK'
  BY <1>33 DEF NotifyClose, Notified
<1>34. ASSUME NEW c \in Clis, CliGone(c) PROVE TypeOK'
  BY <1>34 DEF CliGone
<1>35. ASSUME NEW n \in Nodes, RefuseNode(n) PROVE TypeOK'
  BY <1>35 DEF RefuseNode, NodeStep
<1>36. ASSUME NEW n \in Nodes, AddNode(n) PROVE TypeOK'
  BY <1>36 DEF AddNode, NodeStep, RegisterNode
<1>37. ASSUME NEW n \in Nodes, AckNode(n) PROVE TypeOK'
  BY <1>37 DEF AckNode, NodeStep, SendNode
<1>38. ASSUME NEW n \in Nodes, AckNodeFails(n) PROVE TypeOK'
  BY <1>38 DEF AckNodeFails, NodeStep, LoseNode, RemoveNode
<1>39. ASSUME NEW n \in Nodes, AnnounceNode(n) PROVE TypeOK'
  BY <1>39 DEF AnnounceNode, NodeStep, PublishNode
<1>40. ASSUME NEW n \in Nodes, ForwardVisitor(n) PROVE TypeOK'
  BY <1>40 DEF ForwardVisitor, NodeStep, SendCli
<1>41. ASSUME NEW n \in Nodes, DropNode(n) PROVE TypeOK'
  BY <1>41 DEF DropNode, NodeStep, LoseNode, RemoveNode
<1>42. ASSUME NEW n \in Nodes, AnnounceLeft(n) PROVE TypeOK'
  BY <1>42 DEF AnnounceLeft, NodeStep, PublishNode
<1>43. ASSUME NEW n \in Nodes, NodeGone(n) PROVE TypeOK'
  BY <1>43 DEF NodeGone
<1>44. CASE UNCHANGED vars
  BY <1>44 DEF vars
<1>45. QED
  BY <1>2, <1>3, <1>4, <1>5, <1>6, <1>7, <1>8, <1>9, <1>10, <1>11, <1>12,
      <1>13, <1>14, <1>15, <1>16, <1>17, <1>18, <1>19, <1>20, <1>21, <1>22,
      <1>23, <1>24, <1>25, <1>26, <1>27, <1>28, <1>29, <1>30, <1>31, <1>32,
      <1>33, <1>34, <1>35, <1>36, <1>37, <1>38, <1>39, <1>40, <1>41, <1>42,
      <1>43, <1>44 DEF Next, CliTask, Assign, ServeDirect, ServeViaNode,
      CleanUp, NodeTask, Environment, FirstFrame, Finished

\* A task that leaves its serving function with the tunnel announced.
LEMMA ReturnedTask ==
  ASSUME NEW c \in Clis, pc'[c] = "remove", port'[c] # None, listener'[c] = None,
         Listed(c)', active'[c].remote_port = port'[c], bus'[c] = <<"opened">>
  PROVE  TaskInv(c)'
BY DEF TaskInv, Holding, ViaNode, Listening, InTable, Announced, CliPC

\* A task whose own state does not change.
LEMMA OtherTask ==
  ASSUME NEW d \in Clis, TaskInv(d),
         UNCHANGED <<pc[d], port[d], node[d], listener[d], active[d], bus[d]>>
  PROVE  TaskInv(d)'
BY DEF TaskInv, Listed

\* No action takes a task out of step with what it holds and has announced: those
\* of its own move it to the next row of TaskInv, the others leave it alone.
LEMMA TaskStep ==
  ASSUME IndInv, [Next]_vars
  PROVE  \A d \in Clis : TaskInv(d)'
<1>1. TypeOK /\ (\A d \in Clis : TaskInv(d)) /\ PortsConserved
  BY DEF IndInv
<1>2. ASSUME NEW c \in Clis, AcquirePort(c) PROVE \A d \in Clis : TaskInv(d)'
  <2>1. PICK p \in Pool : p # None /\ port' = [port EXCEPT ![c] = p]
    BY <1>2, AcquiredPort
  <2>2. /\ pc[c] = "acquire" /\ pc' = [pc EXCEPT ![c] = "pick"]
        /\ UNCHANGED <<node, listener, active, bus>>
    BY <1>2 DEF AcquirePort, Step, tunnelVars
  <2>3. QED
    BY <1>1, <2>1, <2>2 DEF TypeOK, TaskInv, Holding, ViaNode, Listening,
         InTable, Announced, Listed, CliPC
<1>3. ASSUME NEW c \in Clis, PickNode(c) PROVE \A d \in Clis : TaskInv(d)'
  <2>1. \/ pc' = [pc EXCEPT ![c] = "bind"] /\ UNCHANGED node
        \/ /\ pc' = [pc EXCEPT ![c] = "order"]
           /\ \E n \in Nodes : n # None /\ node' = [node EXCEPT ![c] = n]
    BY <1>3, PickedNode
  <2>2. pc[c] = "pick" /\ UNCHANGED <<port, listener, active, bus>>
    BY <1>3 DEF PickNode, Step, tunnelVars
  <2>3. CASE pc' = [pc EXCEPT ![c] = "bind"] /\ UNCHANGED node
    BY <1>1, <2>2, <2>3 DEF TypeOK, TaskInv, Holding, ViaNode,
         Listening, InTable, Announced, Listed, CliPC
  <2>4. ASSUME NEW n \in Nodes, n # None, node' = [node EXCEPT ![c] = n],
               pc' = [pc EXCEPT ![c] = "order"]
        PROVE  \A d \in Clis : TaskInv(d)'
    BY <1>1, <2>2, <2>4 DEF TypeOK, TaskInv, Holding, ViaNode,
         Listening, InTable, Announced, Listed, CliPC
  <2>5. QED
    BY <2>1, <2>3, <2>4
<1> USE <1>1, RangeAssumption, NodeAssumption, ControlAssumption
       DEF TypeOK, TaskInv, Holding, ViaNode, Listening, InTable,
           Announced, Listed, NoEntry, CliPC, managerVars,
           heldVars, taskVars, tunnelVars, nodeTaskVars, cliPeerVars,
           nodePeerVars, nodeVars, nodeManagerVars
<1>4. ASSUME NEW c \in Clis, Refuse(c) PROVE \A d \in Clis : TaskInv(d)'
  BY <1>4 DEF Refuse, Step, TellCli, SendCli
<1>5. ASSUME NEW c \in Clis, RegisterCli(c) PROVE \A d \in Clis : TaskInv(d)'
  BY <1>5 DEF RegisterCli, Step
<1>6. ASSUME NEW c \in Clis, NoPortAvailable(c) PROVE \A d \in Clis : TaskInv(d)'
  BY <1>6 DEF NoPortAvailable, Step, Move
<1>7. ASSUME NEW c \in Clis, RejectCli(c) PROVE \A d \in Clis : TaskInv(d)'
  BY <1>7 DEF RejectCli, Step, TellCli, SendCli
<1>8. ASSUME NEW c \in Clis, Bind(c) PROVE \A d \in Clis : TaskInv(d)'
  BY <1>8 DEF Bind, Step
<1>9. ASSUME NEW c \in Clis, BindFails(c) PROVE \A d \in Clis : TaskInv(d)'
  BY <1>9 DEF BindFails, Step, SendCli
<1>10. ASSUME NEW c \in Clis, AckDirect(c) PROVE \A d \in Clis : TaskInv(d)'
  BY <1>10 DEF AckDirect, Step, TellCli, SendCli
<1>11. ASSUME NEW c \in Clis, AckDirectFails(c) PROVE \A d \in Clis : TaskInv(d)'
  BY <1>11 DEF AckDirectFails, Step, ReturnDirect
<1>12. ASSUME NEW c \in Clis, ListDirect(c) PROVE \A d \in Clis : TaskInv(d)'
  BY <1>12 DEF ListDirect, Step, Insert
<1>13. ASSUME NEW c \in Clis, AnnounceDirect(c) PROVE \A d \in Clis : TaskInv(d)'
  <2>1. /\ pc[c] = "announce" /\ bus[c] = <<>>
        /\ pc' = [pc EXCEPT ![c] = "serve"]
        /\ UNCHANGED <<port, node, listener, active>>
    BY <1>13 DEF AnnounceDirect, Step, Publish
  <2>2. bus' = [bus EXCEPT ![c] = <<"opened">>]
    BY <1>13, <2>1, TwoEvents DEF AnnounceDirect, Publish
  <2>3. QED
    BY <2>1, <2>2
<1>14. ASSUME NEW c \in Clis, AcceptVisitor(c) PROVE \A d \in Clis : TaskInv(d)'
  BY <1>14 DEF AcceptVisitor, Step, Move
<1>15. ASSUME NEW c \in Clis, NotifyCli(c) PROVE \A d \in Clis : TaskInv(d)'
  BY <1>15 DEF NotifyCli, Step, TellCli, SendCli
<1>16. ASSUME NEW c \in Clis, NotifyFails(c) PROVE \A d \in Clis : TaskInv(d)'
  <2>1. /\ pc[c] = "notify" /\ pc' = [pc EXCEPT ![c] = "remove"]
        /\ listener' = [listener EXCEPT ![c] = None]
        /\ node' = [node EXCEPT ![c] = None]
        /\ UNCHANGED <<port, active, bus>>
    BY <1>16 DEF NotifyFails, Step, ReturnDirect
  <2>2. TaskInv(c)'
    <3>1. Listed(c) /\ bus[c] = <<"opened">> /\ port[c] # None
          /\ active[c].remote_port = port[c]
      BY <2>1
    <3>2. /\ pc'[c] = "remove" /\ port'[c] # None /\ listener'[c] = None
          /\ Listed(c)' /\ active'[c].remote_port = port'[c] /\ bus'[c] = <<"opened">>
      BY <2>1, <3>1
    <3>3. QED
      BY <3>2, ReturnedTask
  <2>3. ASSUME NEW d \in Clis \ {c} PROVE TaskInv(d)'
    <3>1. UNCHANGED <<pc[d], port[d], node[d], listener[d], active[d], bus[d]>>
      BY <2>1
    <3>2. QED
      BY <3>1, OtherTask
  <2> HIDE DEF TaskInv
  <2>4. QED
    BY <2>2, <2>3, Zenon
<1>17. ASSUME NEW c \in Clis, StopDirect(c) PROVE \A d \in Clis : TaskInv(d)'
  <2>1. /\ pc[c] = "serve" /\ pc' = [pc EXCEPT ![c] = "remove"]
        /\ listener' = [listener EXCEPT ![c] = None]
        /\ node' = [node EXCEPT ![c] = None]
        /\ UNCHANGED <<port, active, bus>>
    BY <1>17 DEF StopDirect, Step, ReturnDirect
  <2>2. TaskInv(c)'
    <3>1. Listed(c) /\ bus[c] = <<"opened">> /\ port[c] # None
          /\ active[c].remote_port = port[c]
      BY <2>1
    <3>2. /\ pc'[c] = "remove" /\ port'[c] # None /\ listener'[c] = None
          /\ Listed(c)' /\ active'[c].remote_port = port'[c] /\ bus'[c] = <<"opened">>
      BY <2>1, <3>1
    <3>3. QED
      BY <3>2, ReturnedTask
  <2>3. ASSUME NEW d \in Clis \ {c} PROVE TaskInv(d)'
    <3>1. UNCHANGED <<pc[d], port[d], node[d], listener[d], active[d], bus[d]>>
      BY <2>1
    <3>2. QED
      BY <3>1, OtherTask
  <2> HIDE DEF TaskInv
  <2>4. QED
    BY <2>2, <2>3, Zenon
<1>18. ASSUME NEW c \in Clis, OrderNode(c) PROVE \A d \in Clis : TaskInv(d)'
  BY <1>18 DEF OrderNode, Step, TellNode, SendNode, OpenTunnel
<1>19. ASSUME NEW c \in Clis, OrderFails(c) PROVE \A d \in Clis : TaskInv(d)'
  BY <1>19 DEF OrderFails, Step, Move
<1>20. ASSUME NEW c \in Clis, ListVia(c) PROVE \A d \in Clis : TaskInv(d)'
  BY <1>20 DEF ListVia, Step, Insert
<1>21. ASSUME NEW c \in Clis, CountTunnel(c) PROVE \A d \in Clis : TaskInv(d)'
  BY <1>21 DEF CountTunnel, Step, IncrementTunnels
<1>22. ASSUME NEW c \in Clis, AnnounceVia(c) PROVE \A d \in Clis : TaskInv(d)'
  <2>1. /\ pc[c] = "announceVia" /\ bus[c] = <<>>
        /\ pc' = [pc EXCEPT ![c] = "ackVia"]
        /\ UNCHANGED <<port, node, listener, active>>
    BY <1>22 DEF AnnounceVia, Step, Publish
  <2>2. bus' = [bus EXCEPT ![c] = <<"opened">>]
    BY <1>22, <2>1, TwoEvents DEF AnnounceVia, Publish
  <2>3. QED
    BY <2>1, <2>2
<1>23. ASSUME NEW c \in Clis, AckVia(c) PROVE \A d \in Clis : TaskInv(d)'
  BY <1>23 DEF AckVia, Step, TellCli, SendCli
<1>24. ASSUME NEW c \in Clis, StopVia(c) PROVE \A d \in Clis : TaskInv(d)'
  BY <1>24 DEF StopVia, Step, LoopEnds
<1>25. ASSUME NEW c \in Clis, OrderClose(c) PROVE \A d \in Clis : TaskInv(d)'
  BY <1>25 DEF OrderClose, Step, TellNode, SendNode, CloseTunnel
<1>26. ASSUME NEW c \in Clis, UncountTunnel(c) PROVE \A d \in Clis : TaskInv(d)'
  <2>1. /\ pc[c] = "decrement" /\ pc' = [pc EXCEPT ![c] = "remove"]
        /\ node' = [node EXCEPT ![c] = None]
        /\ UNCHANGED <<port, listener, active, bus>>
    BY <1>26 DEF UncountTunnel, Step
  <2>2. TaskInv(c)'
    <3>1. Listed(c) /\ bus[c] = <<"opened">> /\ port[c] # None
          /\ active[c].remote_port = port[c]
      BY <2>1
    <3>2. /\ pc'[c] = "remove" /\ port'[c] # None /\ listener'[c] = None
          /\ Listed(c)' /\ active'[c].remote_port = port'[c] /\ bus'[c] = <<"opened">>
      BY <2>1, <3>1
    <3>3. QED
      BY <3>2, ReturnedTask
  <2>3. ASSUME NEW d \in Clis \ {c} PROVE TaskInv(d)'
    <3>1. UNCHANGED <<pc[d], port[d], node[d], listener[d], active[d], bus[d]>>
      BY <2>1
    <3>2. QED
      BY <3>1, OtherTask
  <2> HIDE DEF TaskInv
  <2>4. QED
    BY <2>2, <2>3, Zenon
<1>27. ASSUME NEW c \in Clis, RemoveEntry(c) PROVE \A d \in Clis : TaskInv(d)'
  <2>1. /\ pc[c] = "remove" /\ active' = [active EXCEPT ![c] = NoEntry]
        /\ UNCHANGED <<port, node, listener, bus>>
    BY <1>27 DEF RemoveEntry, Step, Unlist
  <2>2. CASE Listed(c) /\ pc' = [pc EXCEPT ![c] = "archive"]
    BY <2>1, <2>2
  <2>3. CASE ~Listed(c) /\ pc' = [pc EXCEPT ![c] = "release"]
    BY <2>1, <2>3
  <2>4. QED
    BY <1>27, <2>2, <2>3 DEF RemoveEntry, Step
<1>28. ASSUME NEW c \in Clis, RecordTunnel(c) PROVE \A d \in Clis : TaskInv(d)'
  BY <1>28 DEF RecordTunnel, Step
<1>29. ASSUME NEW c \in Clis, AnnounceClosed(c) PROVE \A d \in Clis : TaskInv(d)'
  <2>1. /\ pc[c] = "announceClosed" /\ bus[c] = <<"opened">>
        /\ pc' = [pc EXCEPT ![c] = "release"]
        /\ UNCHANGED <<port, node, listener, active>>
    BY <1>29 DEF AnnounceClosed, Step, Publish
  <2>2. bus' = [bus EXCEPT ![c] = <<"opened", "closed">>]
    BY <1>29, <2>1, TwoEvents DEF AnnounceClosed, Publish
  <2>3. QED
    BY <2>1, <2>2
<1>30. ASSUME NEW c \in Clis, ReleasePort(c) PROVE \A d \in Clis : TaskInv(d)'
  BY <1>30 DEF ReleasePort, Step, Release
<1>31. ASSUME NEW c \in Clis, FindTunnel(c) PROVE \A d \in Clis : TaskInv(d)'
  BY <1>31 DEF FindTunnel, Listed
<1>32. ASSUME NEW c \in Clis, NotifyClose(c) PROVE \A d \in Clis : TaskInv(d)'
  BY <1>32 DEF NotifyClose, Notified
<1>33. ASSUME NEW c \in Clis, CliGone(c) PROVE \A d \in Clis : TaskInv(d)'
  BY <1>33 DEF CliGone
<1>34. ASSUME NEW n \in Nodes, RefuseNode(n) PROVE \A d \in Clis : TaskInv(d)'
  BY <1>34 DEF RefuseNode, NodeStep
<1>35. ASSUME NEW n \in Nodes, AddNode(n) PROVE \A d \in Clis : TaskInv(d)'
  BY <1>35 DEF AddNode, NodeStep, RegisterNode
<1>36. ASSUME NEW n \in Nodes, AckNode(n) PROVE \A d \in Clis : TaskInv(d)'
  BY <1>36 DEF AckNode, NodeStep, SendNode
<1>37. ASSUME NEW n \in Nodes, AckNodeFails(n) PROVE \A d \in Clis : TaskInv(d)'
  BY <1>37 DEF AckNodeFails, NodeStep, LoseNode, RemoveNode
<1>38. ASSUME NEW n \in Nodes, AnnounceNode(n) PROVE \A d \in Clis : TaskInv(d)'
  BY <1>38 DEF AnnounceNode, NodeStep, PublishNode
<1>39. ASSUME NEW n \in Nodes, ReportVisitor(n) PROVE \A d \in Clis : TaskInv(d)'
  BY <1>39 DEF ReportVisitor, NodeStep
<1>40. ASSUME NEW n \in Nodes, ForwardVisitor(n) PROVE \A d \in Clis : TaskInv(d)'
  BY <1>40 DEF ForwardVisitor, NodeStep, SendCli
<1>41. ASSUME NEW n \in Nodes, DropNode(n) PROVE \A d \in Clis : TaskInv(d)'
  BY <1>41 DEF DropNode, NodeStep, LoseNode, RemoveNode
<1>42. ASSUME NEW n \in Nodes, AnnounceLeft(n) PROVE \A d \in Clis : TaskInv(d)'
  BY <1>42 DEF AnnounceLeft, NodeStep, PublishNode
<1>43. ASSUME NEW n \in Nodes, NodeGone(n) PROVE \A d \in Clis : TaskInv(d)'
  BY <1>43 DEF NodeGone
<1>44. CASE UNCHANGED vars
  BY <1>44 DEF vars
<1>45. QED
  BY <1>2, <1>3, <1>4, <1>5, <1>6, <1>7, <1>8, <1>9, <1>10, <1>11, <1>12,
      <1>13, <1>14, <1>15, <1>16, <1>17, <1>18, <1>19, <1>20, <1>21, <1>22,
      <1>23, <1>24, <1>25, <1>26, <1>27, <1>28, <1>29, <1>30, <1>31, <1>32,
      <1>33, <1>34, <1>35, <1>36, <1>37, <1>38, <1>39, <1>40, <1>41, <1>42,
      <1>43, <1>44 DEF Next, CliTask, Assign, ServeDirect, ServeViaNode,
      CleanUp, NodeTask, Environment, FirstFrame, Finished

\* acquire and release are the only actions that move a port.
LEMMA PortsStep ==
  ASSUME IndInv, [Next]_vars
  PROVE  PortsConserved'
<1>1. TypeOK /\ (\A d \in Clis : TaskInv(d)) /\ PortsConserved
  BY DEF IndInv
<1>2. ASSUME NEW c \in Clis, AcquirePort(c) PROVE PortsConserved'
  <2>1. PICK p \in available : /\ p \in Pool /\ p # None
                              /\ \A d \in Clis : port[d] # p
                              /\ available' = available \ {p}
                              /\ port' = [port EXCEPT ![c] = p]
    BY <1>2, AcquiredPort
  <2>2. /\ available = Pool \ {port[d] : d \in Clis}
        /\ \A d, e \in Clis : port[d] = port[e] /\ port[d] # None => d = e
        /\ port \in [Clis -> Pool \cup {None}]
    BY <1>1 DEF PortsConserved, TypeOK
  <2>3. port[c] = None
    BY <1>2, <1>1 DEF AcquirePort, Step, TaskInv, Holding
  <2>4. None \notin Pool
    BY RangeAssumption DEF Pool
  <2>5. available' = Pool \ {port'[d] : d \in Clis}
    BY <2>1, <2>2, <2>3, <2>4
  <2>6. \A d, e \in Clis : port'[d] = port'[e] /\ port'[d] # None => d = e
    BY <2>1, <2>2
  <2>7. QED
    BY <2>5, <2>6 DEF PortsConserved
<1>3. ASSUME NEW c \in Clis, ReleasePort(c) PROVE PortsConserved'
  <2>1. pc[c] = "release" /\ pc[c] \in Holding
    BY <1>3 DEF ReleasePort, Step, Holding, CliPC
  <2>2. port[c] \in Pool /\ port[c] # None
    BY <2>1, HolderHasPort
  <2>3. InRange(port[c])
    BY <2>2, RangeAssumption DEF InRange, Pool
  <2>4. available' = available \cup {port[c]} /\ port' = [port EXCEPT ![c] = None]
    BY <1>3, <2>3 DEF ReleasePort, Release
  <2>5. /\ available = Pool \ {port[d] : d \in Clis}
        /\ \A d, e \in Clis : port[d] = port[e] /\ port[d] # None => d = e
        /\ port \in [Clis -> Pool \cup {None}]
    BY <1>1 DEF PortsConserved, TypeOK
  <2>6. None \notin Pool
    BY RangeAssumption DEF Pool
  <2>7. available' = Pool \ {port'[d] : d \in Clis}
    BY <2>2, <2>4, <2>5, <2>6
  <2>8. \A d, e \in Clis : port'[d] = port'[e] /\ port'[d] # None => d = e
    BY <2>4, <2>5
  <2>9. QED
    BY <2>7, <2>8 DEF PortsConserved
<1> USE <1>1 DEF PortsConserved, managerVars, heldVars, taskVars, tunnelVars,
           nodeTaskVars, cliPeerVars, nodePeerVars, nodeVars, nodeManagerVars
<1>4. ASSUME NEW c \in Clis, Refuse(c) PROVE PortsConserved'
  BY <1>4 DEF Refuse, Step, TellCli, SendCli
<1>5. ASSUME NEW c \in Clis, RegisterCli(c) PROVE PortsConserved'
  BY <1>5 DEF RegisterCli, Step
<1>6. ASSUME NEW c \in Clis, NoPortAvailable(c) PROVE PortsConserved'
  BY <1>6 DEF NoPortAvailable, Step, Move
<1>7. ASSUME NEW c \in Clis, RejectCli(c) PROVE PortsConserved'
  BY <1>7 DEF RejectCli, Step, TellCli, SendCli
<1>8. ASSUME NEW c \in Clis, PickNode(c) PROVE PortsConserved'
  BY <1>8 DEF PickNode, Step, Pick, Candidates
<1>9. ASSUME NEW c \in Clis, Bind(c) PROVE PortsConserved'
  BY <1>9 DEF Bind, Step
<1>10. ASSUME NEW c \in Clis, BindFails(c) PROVE PortsConserved'
  BY <1>10 DEF BindFails, Step, SendCli
<1>11. ASSUME NEW c \in Clis, AckDirect(c) PROVE PortsConserved'
  BY <1>11 DEF AckDirect, Step, TellCli, SendCli
<1>12. ASSUME NEW c \in Clis, AckDirectFails(c) PROVE PortsConserved'
  BY <1>12 DEF AckDirectFails, Step, ReturnDirect
<1>13. ASSUME NEW c \in Clis, ListDirect(c) PROVE PortsConserved'
  BY <1>13 DEF ListDirect, Step, Insert
<1>14. ASSUME NEW c \in Clis, AnnounceDirect(c) PROVE PortsConserved'
  BY <1>14 DEF AnnounceDirect, Step, Publish
<1>15. ASSUME NEW c \in Clis, AcceptVisitor(c) PROVE PortsConserved'
  BY <1>15 DEF AcceptVisitor, Step, Move
<1>16. ASSUME NEW c \in Clis, NotifyCli(c) PROVE PortsConserved'
  BY <1>16 DEF NotifyCli, Step, TellCli, SendCli
<1>17. ASSUME NEW c \in Clis, NotifyFails(c) PROVE PortsConserved'
  BY <1>17 DEF NotifyFails, Step, ReturnDirect
<1>18. ASSUME NEW c \in Clis, StopDirect(c) PROVE PortsConserved'
  BY <1>18 DEF StopDirect, Step, LoopEnds, ReturnDirect
<1>19. ASSUME NEW c \in Clis, OrderNode(c) PROVE PortsConserved'
  BY <1>19 DEF OrderNode, Step, TellNode, SendNode, OpenTunnel
<1>20. ASSUME NEW c \in Clis, OrderFails(c) PROVE PortsConserved'
  BY <1>20 DEF OrderFails, Step, Move
<1>21. ASSUME NEW c \in Clis, ListVia(c) PROVE PortsConserved'
  BY <1>21 DEF ListVia, Step, Insert
<1>22. ASSUME NEW c \in Clis, CountTunnel(c) PROVE PortsConserved'
  BY <1>22 DEF CountTunnel, Step, IncrementTunnels
<1>23. ASSUME NEW c \in Clis, AnnounceVia(c) PROVE PortsConserved'
  BY <1>23 DEF AnnounceVia, Step, Publish
<1>24. ASSUME NEW c \in Clis, AckVia(c) PROVE PortsConserved'
  BY <1>24 DEF AckVia, Step, TellCli, SendCli
<1>25. ASSUME NEW c \in Clis, StopVia(c) PROVE PortsConserved'
  BY <1>25 DEF StopVia, Step, LoopEnds
<1>26. ASSUME NEW c \in Clis, OrderClose(c) PROVE PortsConserved'
  BY <1>26 DEF OrderClose, Step, TellNode, SendNode, CloseTunnel
<1>27. ASSUME NEW c \in Clis, UncountTunnel(c) PROVE PortsConserved'
  BY <1>27 DEF UncountTunnel, Step, DecrementTunnels
<1>28. ASSUME NEW c \in Clis, RemoveEntry(c) PROVE PortsConserved'
  BY <1>28 DEF RemoveEntry, Step, Unlist, Listed
<1>29. ASSUME NEW c \in Clis, RecordTunnel(c) PROVE PortsConserved'
  BY <1>29 DEF RecordTunnel, Step
<1>30. ASSUME NEW c \in Clis, AnnounceClosed(c) PROVE PortsConserved'
  BY <1>30 DEF AnnounceClosed, Step, Publish
<1>31. ASSUME NEW c \in Clis, FindTunnel(c) PROVE PortsConserved'
  BY <1>31 DEF FindTunnel, Listed
<1>32. ASSUME NEW c \in Clis, NotifyClose(c) PROVE PortsConserved'
  BY <1>32 DEF NotifyClose, Notified
<1>33. ASSUME NEW c \in Clis, CliGone(c) PROVE PortsConserved'
  BY <1>33 DEF CliGone
<1>34. ASSUME NEW n \in Nodes, RefuseNode(n) PROVE PortsConserved'
  BY <1>34 DEF RefuseNode, NodeStep
<1>35. ASSUME NEW n \in Nodes, AddNode(n) PROVE PortsConserved'
  BY <1>35 DEF AddNode, NodeStep, RegisterNode
<1>36. ASSUME NEW n \in Nodes, AckNode(n) PROVE PortsConserved'
  BY <1>36 DEF AckNode, NodeStep, SendNode
<1>37. ASSUME NEW n \in Nodes, AckNodeFails(n) PROVE PortsConserved'
  BY <1>37 DEF AckNodeFails, NodeStep, LoseNode, RemoveNode
<1>38. ASSUME NEW n \in Nodes, AnnounceNode(n) PROVE PortsConserved'
  BY <1>38 DEF AnnounceNode, NodeStep, PublishNode
<1>39. ASSUME NEW n \in Nodes, ReportVisitor(n) PROVE PortsConserved'
  BY <1>39 DEF ReportVisitor, NodeStep
<1>40. ASSUME NEW n \in Nodes, ForwardVisitor(n) PROVE PortsConserved'
  BY <1>40 DEF ForwardVisitor, NodeStep, SendCli
<1>41. ASSUME NEW n \in Nodes, DropNode(n) PROVE PortsConserved'
  BY <1>41 DEF DropNode, NodeStep, LoseNode, RemoveNode
<1>42. ASSUME NEW n \in Nodes, AnnounceLeft(n) PROVE PortsConserved'
  BY <1>42 DEF AnnounceLeft, NodeStep, PublishNode
<1>43. ASSUME NEW n \in Nodes, NodeGone(n) PROVE PortsConserved'
  BY <1>43 DEF NodeGone
<1>44. CASE UNCHANGED vars
  BY <1>44 DEF vars
<1>45. QED
  BY <1>2, <1>3, <1>4, <1>5, <1>6, <1>7, <1>8, <1>9, <1>10, <1>11, <1>12,
      <1>13, <1>14, <1>15, <1>16, <1>17, <1>18, <1>19, <1>20, <1>21, <1>22,
      <1>23, <1>24, <1>25, <1>26, <1>27, <1>28, <1>29, <1>30, <1>31, <1>32,
      <1>33, <1>34, <1>35, <1>36, <1>37, <1>38, <1>39, <1>40, <1>41, <1>42,
      <1>43, <1>44 DEF Next, CliTask, Assign, ServeDirect, ServeViaNode,
      CleanUp, NodeTask, Environment, FirstFrame, Finished

-----------------------------------------------------------------------------
(* The invariant, and what follows from it *)

LEMMA InitInvariant == Init => IndInv
<1> SUFFICES ASSUME Init PROVE IndInv
  OBVIOUS
<1> USE RangeAssumption, ControlAssumption DEF Init, NewPortManager, NewNodeManager
<1>1. TypeOK
  BY DEF TypeOK, CliPC, NodePC, Pool
<1>2. \A c \in Clis : TaskInv(c)
  BY DEF TaskInv, Holding, ViaNode, Listening, InTable, Announced, Listed, CliPC
<1>3. PortsConserved
  BY DEF PortsConserved, Pool
<1>4. QED
  BY <1>1, <1>2, <1>3 DEF IndInv

\* IndInv holds throughout.
THEOREM Invariance == Spec => []IndInv
<1>1. IndInv /\ [Next]_vars => IndInv'
  BY TypeStep, TaskStep, PortsStep DEF IndInv
<1>2. QED
  BY InitInvariant, <1>1, PTL DEF Spec

\* Every variable keeps its type, for any number of CLIs, nodes and ports.
THEOREM TypeCorrect == Spec => []TypeOK
<1>1. IndInv => TypeOK
  BY DEF IndInv
<1>2. QED
  BY Invariance, <1>1, PTL

\* handle_cli neither leaks a port nor hands one to two tunnels, whichever of
\* its exits the tasks take and however they interleave.
THEOREM PortsSafe == Spec => []PortsConserved
<1>1. IndInv => PortsConserved
  BY DEF IndInv
<1>2. QED
  BY Invariance, <1>1, PTL

\* The listener of a finished tunnel is gone before its port can be acquired, so
\* serve_cli_direct never loses a bind to another tunnel of this server.
THEOREM BindSafe == Spec => []BindNeverCollides
<1>1. IndInv => BindNeverCollides
  <2> SUFFICES ASSUME IndInv, NEW c \in Clis, pc[c] = "bind"
               PROVE  port[c] \notin Bound
    BY DEF BindNeverCollides
  <2>1. pc[c] \notin Listening /\ port[c] # None
    BY HolderHasPort DEF Listening, Holding, CliPC
  <2>2. \A d \in Clis : listener[d] \in {port[d], None}
    BY DEF IndInv, TaskInv
  <2>3. listener[c] = None
    BY <2>1 DEF IndInv, TaskInv
  <2>4. \A d \in Clis : port[d] = port[c] => d = c
    BY <2>1 DEF IndInv, PortsConserved
  <2>5. QED
    BY <2>1, <2>2, <2>3, <2>4 DEF Bound
<1>2. QED
  BY Invariance, <1>1, PTL

\* The table the dashboard shows never names a port its tunnel does not hold.
THEOREM TableSafe == Spec => []ListedPortIsHeld
<1>1. IndInv => ListedPortIsHeld
  BY DEF IndInv, TaskInv, ListedPortIsHeld
<1>2. QED
  BY Invariance, <1>1, PTL

\* The dashboard's list and its event stream tell the same story of a tunnel.
THEOREM EventsMatch == Spec => []ListMatchesEvents
<1>1. IndInv => ListMatchesEvents
  <2> SUFFICES ASSUME IndInv, NEW c \in Clis
               PROVE  /\ bus[c] \in {<<>>, <<"opened">>, <<"opened", "closed">>}
                      /\ bus[c] = <<"opened">> =>
                           Listed(c) \/ pc[c] \in {"archive", "announceClosed"}
                      /\ bus[c] = <<"opened", "closed">> => ~Listed(c)
                      /\ bus[c] = <<>> /\ Listed(c) =>
                           pc[c] \in {"announce", "increment", "announceVia"}
    BY DEF ListMatchesEvents
  <2>1. TaskInv(c)
    BY DEF IndInv
  <2>2. QED
    BY <2>1, HistoriesDiffer DEF TaskInv, InTable, Announced
<1>2. QED
  BY Invariance, <1>1, PTL

-----------------------------------------------------------------------------
(* The control plane implements TunnelService *)

\* Every step of the tasks is a step of the service, or one it does not see:
\* acquire leases, the announcements open and close, release returns.
LEMMA RefinementStep ==
  ASSUME IndInv, [Next]_vars
  PROVE  [Service!Next]_<<port, bus>>
<1>1. \A c \in Clis : TaskInv(c)
  BY DEF IndInv
<1>2. port \in [Clis -> Pool \cup {None}] /\ DOMAIN bus = Clis
  BY DEF IndInv, TypeOK
<1>3. ASSUME NEW c \in Clis, AcquirePort(c) PROVE Service!Next
  <2>1. PICK p \in Pool : /\ \A d \in Clis : port[d] # p
                          /\ port' = [port EXCEPT ![c] = p]
    BY <1>3, AcquiredPort
  <2>2. pc[c] = "acquire" /\ UNCHANGED bus
    BY <1>3 DEF AcquirePort, Step, tunnelVars
  <2>3. port[c] = None /\ bus[c] = <<>>
    BY <1>1, <2>2 DEF TaskInv, Holding, InTable, Announced
  <2>4. Service!Lease(c, p)
    BY <2>1, <2>2, <2>3 DEF Service!Lease
  <2>5. QED
    BY <2>4 DEF Service!Next
<1>4. ASSUME NEW c \in Clis, AnnounceDirect(c) \/ AnnounceVia(c) PROVE Service!Next
  <2>1. /\ pc[c] \in {"announce", "announceVia"} /\ UNCHANGED port
        /\ bus' = [bus EXCEPT ![c] = Append(@, "opened")]
    BY <1>4 DEF AnnounceDirect, AnnounceVia, Publish, Step, heldVars
  <2>2. port[c] # None /\ bus[c] = <<>>
    BY <1>1, <2>1 DEF TaskInv, Holding, InTable, Announced, CliPC
  <2>3. Service!Open(c)
    BY <2>1, <2>2, TwoEvents DEF Service!Open
  <2>4. QED
    BY <2>3 DEF Service!Next
<1>5. ASSUME NEW c \in Clis, AnnounceClosed(c) PROVE Service!Next
  <2>1. /\ pc[c] = "announceClosed" /\ UNCHANGED port
        /\ bus' = [bus EXCEPT ![c] = Append(@, "closed")]
    BY <1>5 DEF AnnounceClosed, Publish, Step, heldVars
  <2>2. port[c] # None /\ bus[c] = <<"opened">>
    BY <1>1, <2>1 DEF TaskInv, Holding, Announced, CliPC
  <2>3. Service!Close(c)
    BY <2>1, <2>2, TwoEvents DEF Service!Close
  <2>4. QED
    BY <2>3 DEF Service!Next
<1>6. ASSUME NEW c \in Clis, ReleasePort(c) PROVE Service!Next
  <2>1. /\ pc[c] = "release" /\ UNCHANGED bus
        /\ port' = [port EXCEPT ![c] = None]
    BY <1>6 DEF ReleasePort, Step, tunnelVars
  <2>2. port[c] # None /\ bus[c] \in {<<>>, <<"opened", "closed">>}
    BY <1>1, <2>1 DEF TaskInv, Holding, CliPC
  <2>3. Service!Return(c)
    BY <2>1, <2>2, HistoriesDiffer DEF Service!Return
  <2>4. QED
    BY <2>3 DEF Service!Next
<1>7. ASSUME NEW c \in Clis, NoPortAvailable(c) \/ RejectCli(c) \/ PickNode(c)
      PROVE  UNCHANGED <<port, bus>>
  BY <1>7 DEF NoPortAvailable, RejectCli, PickNode, Move, TellCli, heldVars,
       tunnelVars
<1>8. ASSUME NEW c \in Clis, ServeDirect(c), ~AnnounceDirect(c)
      PROVE  UNCHANGED <<port, bus>>
  BY <1>8 DEF ServeDirect, Bind, BindFails, AckDirect, AckDirectFails,
       ListDirect, NotifyCli, NotifyFails, StopDirect, TellCli, ReturnDirect,
       Insert, heldVars, tunnelVars
<1>9. ASSUME NEW c \in Clis, ServeViaNode(c), ~AnnounceVia(c)
      PROVE  UNCHANGED <<port, bus>>
  BY <1>9 DEF ServeViaNode, OrderNode, OrderFails, ListVia, CountTunnel,
       AckVia, StopVia, OrderClose, UncountTunnel, Move, TellCli, TellNode,
       Insert, heldVars, tunnelVars
<1>10. ASSUME NEW c \in Clis, RemoveEntry(c) \/ RecordTunnel(c)
       PROVE  UNCHANGED <<port, bus>>
  BY <1>10 DEF RemoveEntry, RecordTunnel, Unlist, heldVars, tunnelVars
<1>11. ASSUME NEW n \in Nodes, NodeTask(n) PROVE UNCHANGED <<port, bus>>
  BY <1>11 DEF NodeTask, AckNode, AckNodeFails, AnnounceNode, ForwardVisitor,
       DropNode, AnnounceLeft, LoseNode, PublishNode, taskVars, heldVars,
       tunnelVars
<1>12. ASSUME Environment PROVE UNCHANGED <<port, bus>>
  BY <1>12 DEF Environment, FirstFrame, Refuse, RegisterCli, AcceptVisitor,
       CliGone, FindTunnel, NotifyClose, RefuseNode, AddNode, ReportVisitor,
       NodeGone, Move, TellCli, Notified, taskVars, heldVars, tunnelVars
<1>13. ASSUME UNCHANGED vars PROVE UNCHANGED <<port, bus>>
  BY <1>13 DEF vars, taskVars, heldVars, tunnelVars
<1>14. QED
  BY <1>3, <1>4, <1>5, <1>6, <1>7, <1>8, <1>9, <1>10, <1>11, <1>12, <1>13
     DEF Next, CliTask, Assign, CleanUp, Finished

\* The control plane, its tasks, locks and events, implements TunnelService.
THEOREM Implementation == Spec => ImplementsTunnelService
<1>1. Init => Service!Init
  BY DEF Init, Service!Init
<1>2. IndInv /\ [Next]_vars => [Service!Next]_(Service!vars)
  BY RefinementStep DEF Service!vars
<1>3. QED
  BY Invariance, <1>1, <1>2, PTL DEF Spec, ImplementsTunnelService, Service!Spec
-----------------------------------------------------------------------------
(***************************************************************************)
(* The archive of the control plane: History::record_tunnel is called by   *)
(* the cleanup of handle_cli between the removal of the entry and the      *)
(* closing event.  ArchivedOnce speaks of the table and of the events; what*)
(* is inductive speaks of how far the task of an archived tunnel is.       *)
(***************************************************************************)

\* Past record_tunnel.
Archived == {"announceClosed", "release", "done"}

\* A tunnel the archive has to know of.
Closing(c) == pc[c] = "announceClosed" \/ bus[c] = <<"opened", "closed">>

ArchiveInv ==
  /\ Len(archive) <= MaxTunnels
  /\ \A i, j \in DOMAIN archive : archive[i] = archive[j] => i = j
  /\ \A i \in DOMAIN archive : pc[archive[i]] \in Archived
  /\ \A c \in Clis : Closing(c) =>
       Len(archive) = MaxTunnels \/ \E i \in DOMAIN archive : archive[i] = c

-----------------------------------------------------------------------------
(* record_tunnel *)

\* Making room loses nothing but the oldest entry of a full ring: the entries
\* that stay move down by dropped places.
LEMMA RoomMade ==
  ASSUME archive \in Seq(Clis), Len(archive) <= MaxTunnels
  PROVE  LET q == Evicted(archive)
             dropped == Len(archive) - Len(q)
         IN /\ q \in Seq(Clis)
            /\ Len(q) < MaxTunnels
            /\ dropped = IF Len(archive) = MaxTunnels THEN 1 ELSE 0
            /\ \A i \in 1..Len(q) : q[i] = archive[i + dropped]
<1>1. CASE Len(archive) = MaxTunnels
  <2>1. archive # <<>>
    BY <1>1, ControlAssumption
  <2>2. /\ Tail(archive) \in Seq(Clis)
        /\ Len(Tail(archive)) = Len(archive) - 1
        /\ \A i \in 1..Len(Tail(archive)) : Tail(archive)[i] = archive[i + 1]
    BY <2>1
  <2>3. QED
    BY <1>1, <2>2, ControlAssumption DEF Evicted
<1>2. CASE Len(archive) # MaxTunnels
  <2>1. Evicted(archive) = archive /\ Len(archive) < MaxTunnels
    BY <1>2, ControlAssumption DEF Evicted
  <2>2. /\ Len(archive) - Len(archive) = 0
        /\ \A i \in 1..Len(archive) : archive[i] = archive[i + 0]
    OBVIOUS
  <2>3. QED
    BY <1>2, <2>1, <2>2
<1>3. QED
  BY <1>1, <1>2

\* The tunnel recorded is a new one, and takes the last place.
LEMMA RecordKeepsArchive ==
  ASSUME IndInv, ArchiveInv, NEW c \in Clis, RecordTunnel(c)
  PROVE  ArchiveInv'
<1> DEFINE q == Evicted(archive)
           dropped == Len(archive) - Len(q)
<1>1. /\ pc \in [Clis -> CliPC] /\ archive \in Seq(Clis)
      /\ pc[c] = "archive" /\ pc' = [pc EXCEPT ![c] = "announceClosed"]
      /\ archive' = Append(q, c) /\ bus' = bus
  BY DEF IndInv, TypeOK, RecordTunnel, Step
<1>2. /\ q \in Seq(Clis) /\ Len(q) < MaxTunnels
      /\ dropped = IF Len(archive) = MaxTunnels THEN 1 ELSE 0
      /\ \A i \in 1..Len(q) : q[i] = archive[i + dropped]
  BY <1>1, RoomMade DEF ArchiveInv
<1>3. /\ Len(archive) = Len(q) + dropped /\ Len(q) \in Nat /\ dropped \in {0, 1}
      /\ MaxTunnels \in Nat
  BY <1>1, <1>2, ControlAssumption
<1>4. /\ Len(archive') = Len(q) + 1 /\ DOMAIN archive' = 1..Len(q) + 1
      /\ archive'[Len(q) + 1] = c
      /\ \A i \in 1..Len(q) : archive'[i] = q[i]
  BY <1>1, <1>2
<1> HIDE DEF q, dropped
<1>5. \A i \in 1..Len(q) : /\ i + dropped \in DOMAIN archive
                           /\ archive'[i] = archive[i + dropped]
                           /\ archive'[i] \in Clis /\ archive'[i] # c
                           /\ pc[archive'[i]] \in Archived
  <2> SUFFICES ASSUME NEW i \in 1..Len(q)
               PROVE  /\ i + dropped \in DOMAIN archive
                      /\ archive'[i] = archive[i + dropped]
                      /\ archive'[i] \in Clis /\ archive'[i] # c
                      /\ pc[archive'[i]] \in Archived
    OBVIOUS
  <2>1. i + dropped \in DOMAIN archive /\ archive'[i] = archive[i + dropped]
    <3>1. i \in 1..Len(q) /\ DOMAIN archive = 1..Len(archive) /\ Len(archive) \in Nat
      BY <1>1
    <3>2. i + dropped \in 1..Len(archive)
      BY <1>3, <3>1
    <3>3. archive'[i] = q[i] /\ q[i] = archive[i + dropped]
      BY <1>2, <1>4, <3>1
    <3>4. QED
      BY <3>1, <3>2, <3>3
  <2>2. archive'[i] \in Clis /\ pc[archive'[i]] \in Archived
    BY <1>1, <2>1 DEF ArchiveInv
  <2>3. QED
    BY <1>1, <2>1, <2>2 DEF Archived
<1>6. Len(archive') <= MaxTunnels
  BY <1>2, <1>3, <1>4
<1>7. \A i, j \in DOMAIN archive' : archive'[i] = archive'[j] => i = j
  <2>1. \A i, j \in 1..Len(q) : archive'[i] = archive'[j] => i = j
    <3>1. SUFFICES ASSUME NEW i \in 1..Len(q), NEW j \in 1..Len(q),
                          archive'[i] = archive'[j]
                   PROVE  i = j
      OBVIOUS
    <3>2. i + dropped = j + dropped
      BY <1>5, <3>1 DEF ArchiveInv
    <3>3. QED
      BY <1>3, <3>2
  <2>2. QED
    BY <1>3, <1>4, <1>5, <2>1
<1>8. \A i \in DOMAIN archive' : pc'[archive'[i]] \in Archived
  BY <1>1, <1>3, <1>4, <1>5 DEF Archived
<1>9. ASSUME NEW d \in Clis, Closing(d)'
      PROVE  Len(archive') = MaxTunnels \/ \E i \in DOMAIN archive' : archive'[i] = d
  <2>1. CASE d = c
    BY <1>3, <1>4, <2>1
  <2>2. CASE Len(archive) = MaxTunnels
    BY <1>2, <1>3, <1>4, <2>2
  <2>3. CASE d # c /\ Len(archive) # MaxTunnels
    <3>1. Closing(d)
      BY <1>1, <1>9, <2>3 DEF Closing
    <3>2. PICK i \in DOMAIN archive : archive[i] = d
      BY <2>3, <3>1 DEF ArchiveInv
    <3>3. dropped = 0 /\ Len(archive) = Len(q)
      BY <1>2, <1>3, <2>3
    <3>4. i \in 1..Len(q)
      BY <1>1, <3>2, <3>3
    <3>5. archive'[i] = archive[i + 0] /\ i + 0 = i /\ i \in 1..Len(q) + 1
      BY <1>2, <1>3, <1>4, <3>3, <3>4
    <3>6. QED
      BY <1>4, <3>2, <3>5
  <2>4. QED
    BY <2>1, <2>2, <2>3
<1>10. QED
  BY <1>6, <1>7, <1>8, <1>9 DEF ArchiveInv

-----------------------------------------------------------------------------
(* The other actions *)

\* Nothing else writes the archive, takes a tunnel back from where it has been
\* archived, or makes the archive owe an entry.
LEMMA OthersKeepArchive ==
  ASSUME IndInv, [Next]_vars, \A c \in Clis : ~RecordTunnel(c)
  PROVE  /\ UNCHANGED archive
         /\ \A d \in Clis : /\ pc[d] \in Archived => pc'[d] \in Archived
                            /\ Closing(d)' => Closing(d)
<1> USE DEF Archived, Closing
<1> DEFINE Kept == /\ UNCHANGED archive
                   /\ \A d \in Clis : /\ pc[d] \in Archived => pc'[d] \in Archived
                                      /\ Closing(d)' => Closing(d)
<1>1. pc \in [Clis -> CliPC] /\ \A c \in Clis : TaskInv(c)
  BY DEF IndInv, TypeOK
<1>2. bus \in [Clis -> Seq({"opened", "closed"})]
  BY DEF IndInv, TypeOK
<1>3. ASSUME NEW c \in Clis, FirstFrame(c) \/ Assign(c) PROVE Kept
  BY <1>1, <1>3 DEF FirstFrame, Refuse, RegisterCli, Assign, AcquirePort,
     NoPortAvailable, RejectCli, PickNode, TellCli, Move, Step, tunnelVars
<1>4. ASSUME NEW c \in Clis, AnnounceDirect(c) \/ AnnounceVia(c) PROVE Kept
  <2>1. /\ bus[c] = <<>> /\ bus' = [bus EXCEPT ![c] = Append(<<>>, "opened")]
        /\ pc[c] \in {"announce", "announceVia"}
        /\ pc' \in {[pc EXCEPT ![c] = "serve"], [pc EXCEPT ![c] = "ackVia"]}
        /\ UNCHANGED archive
    BY <1>1, <1>4 DEF AnnounceDirect, AnnounceVia, Publish, Step, TaskInv, Announced, InTable
  <2>2. bus'[c] # <<"opened", "closed">>
    BY <1>2, <2>1, TwoEvents, HistoriesDiffer
  <2>3. QED
    BY <1>1, <1>2, <2>1, <2>2
<1>5. ASSUME NEW c \in Clis, ServeDirect(c), ~AnnounceDirect(c) PROVE Kept
  BY <1>1, <1>5 DEF ServeDirect, Bind, BindFails, AckDirect, AckDirectFails, ListDirect,
     NotifyCli, NotifyFails, StopDirect, ReturnDirect, Insert, TellCli, Step, tunnelVars
<1>6. ASSUME NEW c \in Clis, ServeViaNode(c), ~AnnounceVia(c) PROVE Kept
  BY <1>1, <1>6 DEF ServeViaNode, OrderNode, OrderFails, ListVia, CountTunnel, AckVia,
     StopVia, OrderClose, UncountTunnel, Insert, TellCli, TellNode, Move, Step, tunnelVars
<1>7. ASSUME NEW c \in Clis, RemoveEntry(c) \/ ReleasePort(c) PROVE Kept
  BY <1>1, <1>7 DEF RemoveEntry, Unlist, ReleasePort, Step, tunnelVars
<1>8. ASSUME NEW c \in Clis, AnnounceClosed(c) PROVE Kept
  BY <1>1, <1>2, <1>8 DEF AnnounceClosed, Publish, Step
<1>9. ASSUME NEW c \in Clis,
             AcceptVisitor(c) \/ CliGone(c) \/ FindTunnel(c) \/ NotifyClose(c)
      PROVE  Kept
  BY <1>1, <1>9 DEF AcceptVisitor, CliGone, FindTunnel, NotifyClose, Notified, Move, Step,
     tunnelVars, taskVars
<1>10. ASSUME NEW n \in Nodes,
              NodeTask(n) \/ RefuseNode(n) \/ AddNode(n) \/ ReportVisitor(n) \/ NodeGone(n)
       PROVE  Kept
  BY <1>10 DEF NodeTask, AckNode, AckNodeFails, AnnounceNode, ForwardVisitor, DropNode,
     AnnounceLeft, LoseNode, PublishNode, RefuseNode, AddNode, ReportVisitor, NodeGone,
     tunnelVars, taskVars
<1>11. CASE UNCHANGED vars
  BY <1>11 DEF vars, tunnelVars, taskVars
<1>12. QED
  BY <1>3, <1>4, <1>5, <1>6, <1>7, <1>8, <1>9, <1>10, <1>11
     DEF Next, CliTask, CleanUp, Environment, Finished

-----------------------------------------------------------------------------
(* The invariant, and what follows from it *)

\* ArchiveInv holds throughout.
THEOREM ArchiveInvariance == Spec => []ArchiveInv
<1>1. Init => ArchiveInv
  <2> SUFFICES ASSUME Init PROVE ArchiveInv
    OBVIOUS
  <2>1. archive = <<>> /\ \A c \in Clis : pc[c] = "connect" /\ bus[c] = <<>>
    BY DEF Init
  <2>2. QED
    BY <2>1, ControlAssumption, HistoriesDiffer DEF ArchiveInv, Closing
<1>2. IndInv /\ ArchiveInv /\ [Next]_vars => ArchiveInv'
  <2> SUFFICES ASSUME IndInv, ArchiveInv, [Next]_vars PROVE ArchiveInv'
    OBVIOUS
  <2>1. CASE \E c \in Clis : RecordTunnel(c)
    BY <2>1, RecordKeepsArchive
  <2>2. CASE \A c \in Clis : ~RecordTunnel(c)
    <3>1. /\ UNCHANGED archive /\ archive \in Seq(Clis)
          /\ \A d \in Clis : /\ pc[d] \in Archived => pc'[d] \in Archived
                             /\ Closing(d)' => Closing(d)
      BY <2>2, OthersKeepArchive DEF IndInv, TypeOK
    <3>2. QED
      BY <3>1 DEF ArchiveInv
  <2>3. QED
    BY <2>1, <2>2
<1>3. QED
  BY Invariance, <1>1, <1>2, PTL DEF Spec

\* However many tunnels close at once, the archive holds each closed tunnel once,
\* never a live one, and drops one only for want of room.
THEOREM ArchiveSafe == Spec => []ArchivedOnce
<1>1. IndInv /\ ArchiveInv => ArchivedOnce
  <2> SUFFICES ASSUME IndInv, ArchiveInv PROVE ArchivedOnce
    OBVIOUS
  <2>1. ASSUME NEW i \in DOMAIN archive PROVE ~Listed(archive[i])
    <3>1. archive[i] \in Clis /\ pc[archive[i]] \in Archived
      BY DEF IndInv, TypeOK, ArchiveInv
    <3>2. TaskInv(archive[i])
      BY <3>1 DEF IndInv
    <3>3. QED
      BY <3>1, <3>2 DEF TaskInv, Archived, InTable
  <2>2. QED
    BY <2>1 DEF ArchiveInv, ArchivedOnce, Closing
<1>2. QED
  BY Invariance, ArchiveInvariance, <1>1, PTL
-----------------------------------------------------------------------------
(***************************************************************************)
(* What the control plane and an edge node know of each other: the counter *)
(* by which pick compares the nodes, and the orders handle_cli writes to a *)
(* node.  Both are kept by awaits far apart in serve_cli_via_node, between *)
(* which the node may leave and others may come.                           *)
(***************************************************************************)

\* Between increment_tunnels and decrement_tunnels.
Counting == {"announceVia", "ackVia", "serveVia", "closeOrder", "decrement"}

\* The awaits of a node between add and remove.
Joined == {"ack", "announce", "serve", "forward"}

\* A node is registered from add to remove, and once only: a node_id that a task
\* holds is one that was registered before.
LoadInv ==
  /\ \A n \in Nodes : n \in registry <=> npc[n] \in Joined
  /\ \A c \in Clis : node[c] # None => npc[node[c]] # "connect"
  /\ \A n \in Nodes : IsFiniteSet(Counted(n))
  /\ NodeLoadExact

\* From the OpenTunnel to the CloseTunnel.
Ordered == {"listVia", "increment", "announceVia", "ackVia", "serveVia", "closeOrder"}

\* Past the decision between the node and the direct path.
Served == Ordered \cup {"decrement", "remove", "archive", "announceClosed", "release", "done"}

\* Why a tunnel that was ordered open is no obstacle, or still has its port: it was
\* ordered closed, the node reads no more orders, or its task is on the way to the
\* CloseTunnel.
Accounted(n, i) ==
  LET c == frames[n][i].tunnel_id
  IN \/ \E k \in i + 1 .. Len(frames[n]) : /\ frames[n][k].type = "close_tunnel"
                                          /\ frames[n][k].tunnel_id = c
     \/ ~nodeUp[n]
     \/ pc[c] \in Ordered /\ node[c] = n /\ port[c] = frames[n][i].remote_port

OrdersInv ==
  /\ \A n \in Nodes : \A i \in DOMAIN frames[n] :
       frames[n][i].type = "open_tunnel"
         => pc[frames[n][i].tunnel_id] \in Served /\ Accounted(n, i)
  /\ PortHandoverOrdered

-----------------------------------------------------------------------------
(* The counter of pick *)

\* increment_tunnels: one more tunnel is counted on its node, or on none if the
\* node has left meanwhile.
LEMMA CountTunnelKeepsLoad ==
  ASSUME IndInv, LoadInv, NEW c \in Clis, CountTunnel(c)
  PROVE  LoadInv'
<1> DEFINE m == node[c]
<1>1. /\ pc \in [Clis -> CliPC] /\ tunnelCount \in [Nodes -> Nat] /\ registry \subseteq Nodes
      /\ pc[c] = "increment" /\ pc' = [pc EXCEPT ![c] = "announceVia"]
      /\ UNCHANGED <<node, registry, npc>>
  BY DEF IndInv, TypeOK, CountTunnel, Step, IncrementTunnels, heldVars, nodeVars, nodeTaskVars
<1>2. m \in Nodes
  BY <1>1, RoutedHasNode DEF ViaNode
<1>3. ASSUME NEW n \in Nodes
      PROVE  /\ c \notin Counted(n)
             /\ Counted(n)' = IF n = m THEN Counted(n) \cup {c} ELSE Counted(n)
  BY <1>1 DEF Counted
<1>4. \A n \in Nodes : IsFiniteSet(Counted(n)')
  BY <1>3, FS_AddElement DEF LoadInv
<1>5. ASSUME NEW n \in registry PROVE tunnelCount'[n] = Cardinality(Counted(n)')
  <2>1. n \in Nodes /\ tunnelCount[n] = Cardinality(Counted(n)) /\ IsFiniteSet(Counted(n))
    BY <1>1 DEF LoadInv, NodeLoadExact
  <2>2. CASE n = m
    <3>1. tunnelCount'[n] = tunnelCount[n] + 1
      BY <1>1, <1>5, <2>1, <2>2 DEF CountTunnel, IncrementTunnels
    <3>2. Cardinality(Counted(n) \cup {c}) = Cardinality(Counted(n)) + 1
      BY <1>3, <2>1, FS_AddElement
    <3>3. QED
      BY <1>3, <2>1, <2>2, <3>1, <3>2
  <2>3. CASE n # m
    BY <1>1, <1>2, <1>3, <2>1, <2>3 DEF CountTunnel, IncrementTunnels
  <2>4. QED
    BY <2>2, <2>3
<1>6. QED
  BY <1>1, <1>4, <1>5 DEF LoadInv, NodeLoadExact

\* decrement_tunnels: the tunnel was counted, so the counter is not zero.
LEMMA UncountTunnelKeepsLoad ==
  ASSUME IndInv, LoadInv, NEW c \in Clis, UncountTunnel(c)
  PROVE  LoadInv'
<1> DEFINE m == node[c]
<1>1. /\ pc \in [Clis -> CliPC] /\ tunnelCount \in [Nodes -> Nat] /\ registry \subseteq Nodes
      /\ node \in [Clis -> Nodes \cup {None}]
      /\ pc[c] = "decrement" /\ pc' = [pc EXCEPT ![c] = "remove"]
      /\ node' = [node EXCEPT ![c] = None]
      /\ UNCHANGED <<registry, npc>>
  BY DEF IndInv, TypeOK, UncountTunnel, Step, DecrementTunnels, nodeVars, nodeTaskVars
<1>2. m \in Nodes
  BY <1>1, RoutedHasNode DEF ViaNode
<1>3. ASSUME NEW n \in Nodes
      PROVE  /\ n = m => c \in Counted(n)
             /\ Counted(n)' = IF n = m THEN Counted(n) \ {c} ELSE Counted(n)
  BY <1>1, <1>2, ControlAssumption DEF Counted
<1>4. \A n \in Nodes : IsFiniteSet(Counted(n)')
  BY <1>3, FS_RemoveElement DEF LoadInv
<1>5. ASSUME NEW n \in registry PROVE tunnelCount'[n] = Cardinality(Counted(n)')
  <2>1. n \in Nodes /\ tunnelCount[n] = Cardinality(Counted(n)) /\ IsFiniteSet(Counted(n))
    BY <1>1 DEF LoadInv, NodeLoadExact
  <2>2. CASE n = m
    <3>1. Cardinality(Counted(n) \ {c}) = Cardinality(Counted(n)) - 1 /\ tunnelCount[n] > 0
      <4>1. Counted(n) # {} /\ Cardinality(Counted(n)) \in Nat
        BY <1>3, <2>1, <2>2, FS_CardinalityType
      <4>2. Cardinality(Counted(n)) # 0
        BY <2>1, <4>1, FS_EmptySet
      <4>3. QED
        <5>1. Cardinality(Counted(n) \ {c}) = Cardinality(Counted(n)) - 1
          BY <1>3, <2>1, <2>2, FS_RemoveElement
        <5>2. tunnelCount[n] > 0
          BY <2>1, <4>1, <4>2
        <5>3. QED
          BY <5>1, <5>2
    <3>2. tunnelCount'[n] = tunnelCount[n] - 1
      BY <1>1, <1>5, <2>1, <2>2, <3>1 DEF UncountTunnel, DecrementTunnels
    <3>3. QED
      BY <1>3, <2>1, <2>2, <3>1, <3>2
  <2>3. CASE n # m
    BY <1>1, <1>2, <1>3, <2>1, <2>3 DEF UncountTunnel, DecrementTunnels
  <2>4. QED
    BY <2>2, <2>3
<1>6. QED
  BY <1>1, <1>4, <1>5, ControlAssumption DEF LoadInv, NodeLoadExact

\* register: nobody can have picked the node before, so no tunnel counts on it.
LEMMA AddNodeKeepsLoad ==
  ASSUME IndInv, LoadInv, NEW m \in Nodes, AddNode(m)
  PROVE  LoadInv'
<1>1. /\ npc \in [Nodes -> NodePC] /\ tunnelCount \in [Nodes -> Nat] /\ registry \subseteq Nodes
      /\ node \in [Clis -> Nodes \cup {None}] /\ None \notin Nodes
      /\ npc[m] = "connect" /\ npc' = [npc EXCEPT ![m] = "ack"]
      /\ registry' = registry \cup {m} /\ tunnelCount' = [tunnelCount EXCEPT ![m] = 0]
      /\ UNCHANGED <<pc, node>>
  BY ControlAssumption DEF IndInv, TypeOK, AddNode, NodeStep, RegisterNode, taskVars, heldVars
<1>2. \A n \in Nodes : Counted(n)' = Counted(n)
  BY <1>1 DEF Counted
<1>3. Counted(m) = {}
  BY <1>1 DEF LoadInv, Counted
<1>4. \A n \in registry' : tunnelCount'[n] = Cardinality(Counted(n)')
  BY <1>1, <1>2, <1>3, FS_EmptySet DEF LoadInv, NodeLoadExact
<1>5. QED
  BY <1>1, <1>2, <1>4 DEF LoadInv, NodeLoadExact, Joined

\* remove: the counter goes with the node.
LEMMA LoseNodeKeepsLoad ==
  ASSUME IndInv, LoadInv, NEW m \in Nodes, AckNodeFails(m) \/ DropNode(m)
  PROVE  LoadInv'
<1>1. /\ npc \in [Nodes -> NodePC] /\ tunnelCount \in [Nodes -> Nat] /\ registry \subseteq Nodes
      /\ \E to \in {"done", "leave"} : npc' = [npc EXCEPT ![m] = to]
      /\ registry' = registry \ {m} /\ tunnelCount' = [tunnelCount EXCEPT ![m] = 0]
      /\ UNCHANGED <<pc, node>>
  BY DEF IndInv, TypeOK, AckNodeFails, DropNode, LoseNode, NodeStep, RemoveNode, taskVars, heldVars
<1>2. \A n \in Nodes : Counted(n)' = Counted(n)
  BY <1>1 DEF Counted
<1>3. \A c \in Clis : node'[c] # None => npc'[node'[c]] # "connect"
  BY <1>1 DEF LoadInv
<1>4. \A n \in Nodes : n \in registry' <=> npc'[n] \in Joined
  BY <1>1 DEF LoadInv, Joined
<1>5. \A n \in registry' : tunnelCount'[n] = Cardinality(Counted(n)')
  BY <1>1, <1>2 DEF LoadInv, NodeLoadExact
<1>6. QED
  BY <1>2, <1>3, <1>4, <1>5 DEF LoadInv, NodeLoadExact

\* A step that leaves counters and counted tunnels alone, and gives a task no node
\* that is not registered.
LoadKept ==
  /\ UNCHANGED <<registry, tunnelCount>>
  /\ \A n \in Nodes : /\ npc'[n] \in Joined <=> npc[n] \in Joined
                      /\ npc'[n] = "connect" => npc[n] = "connect"
  /\ \A d \in Clis : /\ pc'[d] \in Counting <=> pc[d] \in Counting
                     /\ pc[d] \in Counting => node'[d] = node[d]
                     /\ node'[d] \in {node[d], None} \cup registry

\* The other actions of the tasks are such steps.
LEMMA OthersKeepLoad ==
  ASSUME IndInv, [Next]_vars,
         \A c \in Clis : ~CountTunnel(c) /\ ~UncountTunnel(c),
         \A n \in Nodes : ~AddNode(n) /\ ~AckNodeFails(n) /\ ~DropNode(n)
  PROVE  LoadKept
<1>1. /\ pc \in [Clis -> CliPC] /\ node \in [Clis -> Nodes \cup {None}]
      /\ npc \in [Nodes -> NodePC]
  BY DEF IndInv, TypeOK
<1> USE <1>1 DEF LoadKept, Counting, Joined, Step, NodeStep, Move, TellCli, managerVars,
       nodeManagerVars, heldVars, taskVars, nodeVars, nodeTaskVars
<1>2. ASSUME NEW c \in Clis, PickNode(c) PROVE LoadKept
  BY <1>2 DEF PickNode, Pick, Candidates
<1>3. ASSUME NEW c \in Clis, FirstFrame(c) \/ AcquirePort(c) \/ NoPortAvailable(c) \/ RejectCli(c)
      PROVE  LoadKept
  BY <1>3 DEF FirstFrame, Refuse, RegisterCli, AcquirePort, NoPortAvailable, RejectCli
<1>4. ASSUME NEW c \in Clis, ServeDirect(c) PROVE LoadKept
  BY <1>4 DEF ServeDirect, Bind, BindFails, AckDirect, AckDirectFails, ListDirect,
     AnnounceDirect, NotifyCli, NotifyFails, StopDirect, ReturnDirect, Insert, Publish
<1>5. ASSUME NEW c \in Clis, ServeViaNode(c), ~CountTunnel(c), ~UncountTunnel(c)
      PROVE  LoadKept
  BY <1>5 DEF ServeViaNode, OrderNode, OrderFails, ListVia, AnnounceVia, AckVia, StopVia,
     OrderClose, TellNode, Insert, Publish
<1>6. ASSUME NEW c \in Clis, CleanUp(c) PROVE LoadKept
  BY <1>6 DEF CleanUp, RemoveEntry, Unlist, RecordTunnel, AnnounceClosed, Publish, ReleasePort
<1>7. ASSUME NEW c \in Clis,
             AcceptVisitor(c) \/ CliGone(c) \/ FindTunnel(c) \/ NotifyClose(c)
      PROVE  LoadKept
  BY <1>7 DEF AcceptVisitor, CliGone, FindTunnel, NotifyClose, Notified
<1>8. ASSUME NEW n \in Nodes, NodeTask(n), ~AckNodeFails(n), ~DropNode(n) PROVE LoadKept
  BY <1>8 DEF NodeTask, AckNode, AnnounceNode, ForwardVisitor, AnnounceLeft, PublishNode
<1>9. ASSUME NEW n \in Nodes, RefuseNode(n) \/ ReportVisitor(n) \/ NodeGone(n) PROVE LoadKept
  BY <1>9 DEF RefuseNode, ReportVisitor, NodeGone
<1>10. CASE UNCHANGED vars
  BY <1>10 DEF vars
<1>11. QED
  BY <1>2, <1>3, <1>4, <1>5, <1>6, <1>7, <1>8, <1>9, <1>10
     DEF Next, CliTask, Assign, Environment, Finished

\* LoadInv holds throughout.
THEOREM LoadInvariance == Spec => []LoadInv
<1>1. Init => LoadInv
  <2> SUFFICES ASSUME Init PROVE LoadInv
    OBVIOUS
  <2>1. /\ registry = {} /\ \A n \in Nodes : npc[n] = "connect"
        /\ \A c \in Clis : node[c] = None /\ pc[c] = "connect"
    BY DEF Init, NewNodeManager
  <2>2. \A n \in Nodes : Counted(n) = {}
    BY <2>1 DEF Counted
  <2>3. QED
    BY <2>1, <2>2, FS_EmptySet DEF LoadInv, Joined, NodeLoadExact
<1>2. IndInv /\ LoadInv /\ [Next]_vars => LoadInv'
  <2> SUFFICES ASSUME IndInv, LoadInv, [Next]_vars PROVE LoadInv'
    OBVIOUS
  <2>1. CASE \E c \in Clis : CountTunnel(c) \/ UncountTunnel(c)
    BY <2>1, CountTunnelKeepsLoad, UncountTunnelKeepsLoad
  <2>2. CASE \E n \in Nodes : AddNode(n) \/ AckNodeFails(n) \/ DropNode(n)
    BY <2>2, AddNodeKeepsLoad, LoseNodeKeepsLoad
  <2>3. CASE /\ \A c \in Clis : ~CountTunnel(c) /\ ~UncountTunnel(c)
             /\ \A n \in Nodes : ~AddNode(n) /\ ~AckNodeFails(n) /\ ~DropNode(n)
    <3>1. LoadKept
      BY <2>3, OthersKeepLoad
    <3>2. \A n \in Nodes : Counted(n)' = Counted(n)
      BY <3>1 DEF LoadKept, Counted, Counting
    <3>3. \A n \in Nodes : n \in registry' <=> npc'[n] \in Joined
      BY <3>1 DEF LoadKept, LoadInv, Joined
    <3>4. ASSUME NEW c \in Clis, node'[c] # None PROVE npc'[node'[c]] # "connect"
      <4>1. node'[c] \in Nodes /\ (node'[c] = node[c] \/ node'[c] \in registry)
        BY <3>1, <3>4 DEF LoadKept, IndInv, TypeOK
      <4>2. npc[node'[c]] # "connect"
        BY <3>4, <4>1 DEF LoadInv, Joined
      <4>3. QED
        BY <3>1, <4>1, <4>2 DEF LoadKept
    <3>5. \A n \in registry' : tunnelCount'[n] = Cardinality(Counted(n)')
      BY <3>1, <3>2 DEF LoadKept, LoadInv, NodeLoadExact, IndInv, TypeOK
    <3>6. QED
      BY <3>2, <3>3, <3>4, <3>5 DEF LoadInv, NodeLoadExact, Joined
  <2>4. QED
    BY <2>1, <2>2, <2>3
<1>3. QED
  BY Invariance, <1>1, <1>2, PTL DEF Spec

\* The number by which pick compares the nodes is that of their tunnels, however
\* registrations, closings and departures interleave.
THEOREM LoadSafe == Spec => []NodeLoadExact
<1>1. LoadInv => NodeLoadExact
  BY DEF LoadInv
<1>2. QED
  BY LoadInvariance, <1>1, PTL

-----------------------------------------------------------------------------
(* The orders to a node *)

\* What an order that follows leaves true: the orders before it, what has been
\* withdrawn, and that no order withdraws itself.
LEMMA Appended ==
  ASSUME NEW s \in Seq(Frame), NEW f \in Frame
  PROVE  /\ Append(s, f) \in Seq(Frame)
         /\ DOMAIN s = 1 .. Len(s) /\ Len(s) \in Nat
         /\ Len(Append(s, f)) = Len(s) + 1
         /\ DOMAIN Append(s, f) = 1 .. Len(s) + 1
         /\ \A i \in 1 .. Len(s) : Append(s, f)[i] = s[i]
         /\ Append(s, f)[Len(s) + 1] = f
OBVIOUS

\* handle_cli orders its tunnel open.  An earlier tunnel on that port is not on its
\* way to a CloseTunnel, as it would hold the port: it was ordered closed.
LEMMA OrderNodeKeepsOrders ==
  ASSUME IndInv, OrdersInv, NEW c \in Clis, OrderNode(c)
  PROVE  OrdersInv'
<1> DEFINE m == node[c]
           f == OpenTunnel(c)
<1>1. /\ pc \in [Clis -> CliPC] /\ frames \in [Nodes -> Seq(Frame)]
      /\ pc[c] = "order" /\ pc' = [pc EXCEPT ![c] = "listVia"]
      /\ UNCHANGED <<node, port, nodeUp>>
      /\ frames' = IF nodeUp[m] THEN [frames EXCEPT ![m] = Append(@, f)] ELSE frames
  BY DEF IndInv, TypeOK, OrderNode, TellNode, SendNode, Step, heldVars
<1>2. m \in Nodes /\ port[c] # None /\ f \in Frame
  BY <1>1, RoutedHasNode, HolderHasPort DEF ViaNode
<1>3. /\ f.type = "open_tunnel" /\ f.tunnel_id = c /\ f.remote_port = port[c]
  BY DEF OpenTunnel
<1> HIDE DEF f, m
<1>4. CASE ~nodeUp[m]
  <2>1. UNCHANGED frames
    BY <1>1, <1>4
  <2>2. PortHandoverOrdered'
    BY <2>1 DEF OrdersInv, PortHandoverOrdered
  <2>3. ASSUME NEW n \in Nodes, NEW i \in DOMAIN frames[n], frames[n][i].type = "open_tunnel"
        PROVE  pc'[frames[n][i].tunnel_id] \in Served /\ Accounted(n, i)'
    <3> DEFINE d == frames[n][i].tunnel_id
    <3>1. pc[d] \in Served /\ Accounted(n, i)
      BY <2>3 DEF OrdersInv
    <3>2. pc'[d] = pc[d]
      BY <1>1, <3>1 DEF Served, Ordered
    <3>3. QED
      BY <1>1, <2>1, <3>1, <3>2 DEF Accounted
  <2>4. QED
    BY <2>1, <2>2, <2>3 DEF OrdersInv
<1>5. CASE nodeUp[m]
  <2> DEFINE s == frames[m]
             L == Len(s)
  <2>1. /\ s \in Seq(Frame) /\ L \in Nat /\ DOMAIN s = 1 .. L
        /\ frames' = [frames EXCEPT ![m] = Append(s, f)]
    BY <1>1, <1>2, <1>5
  <2>2. /\ DOMAIN frames'[m] = 1 .. L + 1 /\ Len(frames'[m]) = L + 1
        /\ \A i \in 1 .. L : frames'[m][i] = s[i]
        /\ frames'[m][L + 1] = f
    BY <1>1, <1>2, <2>1, Appended
  <2> HIDE DEF s, L
  <2>3. \A n \in Nodes \ {m} : frames'[n] = frames[n]
    BY <1>1, <2>1
  \* What was accounted for still is, and its tunnel is not c.
  <2>4. ASSUME NEW n \in Nodes, NEW i \in DOMAIN frames[n], frames[n][i].type = "open_tunnel"
        PROVE  /\ frames[n][i].tunnel_id # c
               /\ frames'[n][i] = frames[n][i]
               /\ pc'[frames[n][i].tunnel_id] \in Served
               /\ Accounted(n, i)'
    <3> DEFINE d == frames[n][i].tunnel_id
    <3>1. pc[d] \in Served /\ Accounted(n, i)
      BY <2>4 DEF OrdersInv
    <3>2. d # c
      BY <1>1, <3>1 DEF Served, Ordered
    <3>3. pc'[d] = pc[d]
      BY <1>1, <3>2
    <3>4. frames'[n][i] = frames[n][i]
      BY <2>1, <2>2, <2>3 DEF s
    <3>5. \A k \in i + 1 .. Len(frames[n]) : /\ k \in i + 1 .. Len(frames'[n])
                                            /\ frames'[n][k] = frames[n][k]
      <4>1. CASE n = m
        <5>1. i \in 1 .. L
          BY <2>1, <4>1 DEF s, L
        <5>2. QED
          BY <2>1, <2>2, <4>1, <5>1 DEF s, L
      <4>2. CASE n # m
        BY <2>3, <4>2
      <4>3. QED
        BY <4>1, <4>2
    <3>6. QED
      BY <1>1, <3>1, <3>2, <3>3, <3>4, <3>5 DEF Accounted
  <2>5. ASSUME NEW n \in Nodes, NEW i \in DOMAIN frames'[n], frames'[n][i].type = "open_tunnel"
        PROVE  pc'[frames'[n][i].tunnel_id] \in Served /\ Accounted(n, i)'
    <3>1. CASE i \in DOMAIN frames[n]
      <4>1. frames'[n][i] = frames[n][i]
        BY <2>1, <2>2, <2>3, <3>1 DEF s
      <4>2. QED
        BY <2>4, <2>5, <3>1, <4>1
    <3>2. CASE i \notin DOMAIN frames[n]
      <4>1. n = m /\ i = L + 1 /\ frames'[n][i] = f
        BY <2>1, <2>2, <2>3, <3>2 DEF s
      <4>2. pc'[c] = "listVia" /\ node'[c] = n /\ port'[c] = f.remote_port
        BY <1>1, <1>3, <4>1 DEF m
      <4>3. QED
        BY <1>3, <4>1, <4>2 DEF Accounted, Served, Ordered
    <3>3. QED
      BY <3>1, <3>2
  <2>6. PortHandoverOrdered'
    <3> SUFFICES ASSUME NEW n \in Nodes, NEW i \in DOMAIN frames'[n],
                        NEW j \in DOMAIN frames'[n], i < j,
                        frames'[n][i].type = "open_tunnel",
                        frames'[n][j].type = "open_tunnel",
                        frames'[n][i].remote_port = frames'[n][j].remote_port
                 PROVE  \E k \in i + 1 .. j - 1 :
                          /\ frames'[n][k].type = "close_tunnel"
                          /\ frames'[n][k].tunnel_id = frames'[n][i].tunnel_id
      BY DEF PortHandoverOrdered
    <3>1. CASE n # m
      BY <2>3, <3>1 DEF OrdersInv, PortHandoverOrdered
    <3>2. CASE n = m /\ j \in 1 .. L
      <4>1. i \in 1 .. L /\ j \in DOMAIN frames[n] /\ i \in DOMAIN frames[n]
        BY <2>1, <2>2, <3>2 DEF s
      <4>2. frames'[n][i] = frames[n][i] /\ frames'[n][j] = frames[n][j]
        BY <2>2, <3>2, <4>1 DEF s
      <4>3. PICK k \in i + 1 .. j - 1 : /\ frames[n][k].type = "close_tunnel"
                                        /\ frames[n][k].tunnel_id = frames[n][i].tunnel_id
        BY <3>2, <4>1, <4>2 DEF OrdersInv, PortHandoverOrdered
      <4>4. k \in 1 .. L
        BY <2>1, <3>2, <4>1
      <4>5. QED
        BY <2>2, <3>2, <4>2, <4>3, <4>4 DEF s
    <3>3. CASE n = m /\ j = L + 1
      <4>1. i \in 1 .. L /\ i \in DOMAIN frames[n] /\ frames'[n][i] = frames[n][i]
        BY <2>1, <2>2, <3>3 DEF s
      <4>2. frames'[n][j] = f /\ frames[n][i].remote_port = port[c]
        BY <1>3, <2>2, <3>3, <4>1
      <4>3. Accounted(n, i) /\ frames[n][i].tunnel_id # c /\ frames[n][i].tunnel_id \in Clis
        <5>1. frames[n][i] \in Frame
          BY <2>1, <3>3, <4>1 DEF s
        <5>2. QED
          BY <2>4, <4>1, <5>1 DEF OrdersInv, Frame, NodeRegistered
      <4>4. port[frames[n][i].tunnel_id] # port[c]
        BY <1>2, <4>3 DEF IndInv, PortsConserved
      <4>5. PICK k \in i + 1 .. L : /\ frames[n][k].type = "close_tunnel"
                                    /\ frames[n][k].tunnel_id = frames[n][i].tunnel_id
        BY <1>5, <3>3, <4>2, <4>3, <4>4 DEF Accounted, s, L
      <4>6. k \in 1 .. L /\ k \in i + 1 .. j - 1
        BY <2>1, <3>3, <4>1
      <4>7. QED
        BY <2>2, <3>3, <4>1, <4>5, <4>6 DEF s
    <3>4. QED
      BY <2>1, <2>2, <3>1, <3>2, <3>3
  <2>7. QED
    BY <2>5, <2>6 DEF OrdersInv
<1>6. QED
  BY <1>4, <1>5

\* A step that orders no tunnel open, and lets a task go on to its CloseTunnel, or
\* write it.
OrdersKept ==
  /\ \A n \in Nodes : /\ nodeUp'[n] => nodeUp[n]
                      /\ \/ frames'[n] = frames[n]
                         \/ \E f \in Frame : /\ f.type # "open_tunnel"
                                             /\ frames'[n] = Append(frames[n], f)
  /\ \A d \in Clis :
       /\ pc[d] \in Served => pc'[d] \in Served
       /\ pc[d] \in Ordered =>
            \/ pc'[d] \in Ordered /\ node'[d] = node[d] /\ port'[d] = port[d]
            \/ ~nodeUp[node[d]]
            \/ frames'[node[d]] = Append(frames[node[d]], CloseTunnel(d))

\* Every action but OrderNode is such a step.
LEMMA OthersKeepOrders ==
  ASSUME IndInv, [Next]_vars, \A c \in Clis : ~OrderNode(c)
  PROVE  OrdersKept
<1>1. /\ pc \in [Clis -> CliPC] /\ node \in [Clis -> Nodes \cup {None}]
      /\ frames \in [Nodes -> Seq(Frame)] /\ nodeUp \in [Nodes -> BOOLEAN]
  BY DEF IndInv, TypeOK
<1>2. ASSUME NEW c \in Clis, OrderClose(c) PROVE OrdersKept
  <2>1. /\ pc[c] = "closeOrder" /\ pc' = [pc EXCEPT ![c] = "decrement"]
        /\ UNCHANGED <<node, port, nodeUp>>
        /\ frames' = IF nodeUp[node[c]]
                     THEN [frames EXCEPT ![node[c]] = Append(@, CloseTunnel(c))] ELSE frames
    BY <1>2 DEF OrderClose, TellNode, SendNode, Step, heldVars
  <2>2. /\ node[c] \in Nodes /\ CloseTunnel(c) \in Frame
        /\ CloseTunnel(c).type = "close_tunnel"
    BY <2>1, RoutedHasNode DEF ViaNode, CloseTunnel, Frame
  <2> HIDE DEF CloseTunnel
  <2>3. \A n \in Nodes : \/ frames'[n] = frames[n]
                        \/ frames'[n] = Append(frames[n], CloseTunnel(c))
    BY <1>1, <2>1, <2>2
  <2>4. \/ ~nodeUp[node[c]]
        \/ frames'[node[c]] = Append(frames[node[c]], CloseTunnel(c))
    BY <1>1, <2>1, <2>2
  <2>5. CloseTunnel(c).type # "open_tunnel"
    BY <2>2
  <2>6. \A d \in Clis : /\ pc[d] \in Served => pc'[d] \in Served
                        /\ pc[d] \in Ordered /\ d # c => pc'[d] \in Ordered
    BY <1>1, <2>1 DEF Ordered, Served
  <2>7. QED
    <3>1. \A n \in Nodes : /\ nodeUp'[n] => nodeUp[n]
                          /\ \/ frames'[n] = frames[n]
                             \/ \E f \in Frame : /\ f.type # "open_tunnel"
                                                 /\ frames'[n] = Append(frames[n], f)
      BY <2>1, <2>2, <2>3, <2>5, Zenon
    <3>2. ASSUME NEW d \in Clis, pc[d] \in Ordered
          PROVE  \/ pc'[d] \in Ordered /\ node'[d] = node[d] /\ port'[d] = port[d]
                 \/ ~nodeUp[node[d]]
                 \/ frames'[node[d]] = Append(frames[node[d]], CloseTunnel(d))
      BY <2>1, <2>4, <2>6, <3>2, Zenon
    <3>3. QED
      BY <2>6, <3>1, <3>2, Zenon DEF OrdersKept
<1>3. ASSUME NEW m \in Nodes, AckNode(m) PROVE OrdersKept
  <2>1. /\ UNCHANGED <<pc, node, port, nodeUp>>
        /\ frames' = IF nodeUp[m]
                     THEN [frames EXCEPT ![m] = Append(@, NodeRegistered)] ELSE frames
    BY <1>3 DEF AckNode, SendNode, taskVars, heldVars
  <2>2. NodeRegistered \in Frame /\ NodeRegistered.type = "node_registered"
    BY DEF NodeRegistered, Frame
  <2> HIDE DEF NodeRegistered
  <2>3. \A n \in Nodes : \/ frames'[n] = frames[n]
                        \/ frames'[n] = Append(frames[n], NodeRegistered)
    BY <1>1, <2>1
  <2>4. NodeRegistered.type # "open_tunnel"
    BY <2>2
  <2>5. QED
    BY <2>1, <2>2, <2>3, <2>4, Zenon DEF OrdersKept
<1> USE <1>1 DEF OrdersKept, Ordered, Served, Step, NodeStep, Move, TellCli,
       heldVars, taskVars, nodeVars, nodePeerVars
<1>4. ASSUME NEW c \in Clis, FirstFrame(c) PROVE OrdersKept
  BY <1>4 DEF FirstFrame, Refuse, RegisterCli
<1>5. ASSUME NEW c \in Clis, AcquirePort(c) PROVE OrdersKept
  BY <1>5 DEF AcquirePort
<1>6. ASSUME NEW c \in Clis, NoPortAvailable(c) \/ RejectCli(c) PROVE OrdersKept
  BY <1>6 DEF NoPortAvailable, RejectCli
<1>7. ASSUME NEW c \in Clis, PickNode(c) PROVE OrdersKept
  BY <1>7 DEF PickNode
<1>8. ASSUME NEW c \in Clis, ServeDirect(c) PROVE OrdersKept
  BY <1>8 DEF ServeDirect, Bind, BindFails, AckDirect, AckDirectFails, ListDirect,
     AnnounceDirect, NotifyCli, NotifyFails, StopDirect, ReturnDirect, Insert, Publish
<1>9. ASSUME NEW c \in Clis, ListVia(c) \/ AnnounceVia(c) \/ AckVia(c) PROVE OrdersKept
  BY <1>9 DEF ListVia, AnnounceVia, AckVia, Insert, Publish
<1>10. ASSUME NEW c \in Clis, OrderFails(c) PROVE OrdersKept
  BY <1>10 DEF OrderFails
<1>11. ASSUME NEW c \in Clis, CountTunnel(c) PROVE OrdersKept
  BY <1>11 DEF CountTunnel
<1>12. ASSUME NEW c \in Clis, StopVia(c) PROVE OrdersKept
  BY <1>12 DEF StopVia
<1>13. ASSUME NEW c \in Clis, UncountTunnel(c) PROVE OrdersKept
  BY <1>13 DEF UncountTunnel
<1>14. ASSUME NEW c \in Clis, RemoveEntry(c) PROVE OrdersKept
  BY <1>14 DEF RemoveEntry, Unlist
<1>15. ASSUME NEW c \in Clis, RecordTunnel(c) \/ AnnounceClosed(c) PROVE OrdersKept
  BY <1>15 DEF RecordTunnel, AnnounceClosed, Publish
<1>16. ASSUME NEW c \in Clis, ReleasePort(c) PROVE OrdersKept
  BY <1>16 DEF ReleasePort
<1>17. ASSUME NEW c \in Clis,
             AcceptVisitor(c) \/ CliGone(c) \/ FindTunnel(c) \/ NotifyClose(c)
      PROVE  OrdersKept
  BY <1>17 DEF AcceptVisitor, CliGone, FindTunnel, NotifyClose, Notified
<1>18. ASSUME NEW n \in Nodes, NodeTask(n), ~AckNode(n) PROVE OrdersKept
  BY <1>18 DEF NodeTask, AckNodeFails, AnnounceNode, ForwardVisitor, DropNode, AnnounceLeft,
     LoseNode, PublishNode
<1>19. ASSUME NEW n \in Nodes, RefuseNode(n) \/ AddNode(n) \/ ReportVisitor(n) PROVE OrdersKept
  BY <1>19 DEF RefuseNode, AddNode, ReportVisitor
<1>20. ASSUME NEW n \in Nodes, NodeGone(n) PROVE OrdersKept
  BY <1>20 DEF NodeGone
<1>21. CASE UNCHANGED vars
  BY <1>21 DEF vars
<1>22. QED
  BY <1>2, <1>3, <1>4, <1>5, <1>6, <1>7, <1>8, <1>9, <1>10, <1>11, <1>12, <1>13, <1>14,
     <1>15, <1>16, <1>17, <1>18, <1>19, <1>20, <1>21
     DEF Next, CliTask, Assign, ServeViaNode, CleanUp, Environment, Finished

\* Such a step leaves the orders accounted for.
LEMMA KeptOrders ==
  ASSUME IndInv, OrdersInv, OrdersKept
  PROVE  OrdersInv'
<1>1. frames \in [Nodes -> Seq(Frame)]
  BY DEF IndInv, TypeOK
<1>2. ASSUME NEW n \in Nodes
      PROVE  /\ DOMAIN frames[n] = 1 .. Len(frames[n]) /\ Len(frames[n]) \in Nat
             /\ Len(frames'[n]) \in {Len(frames[n]), Len(frames[n]) + 1}
             /\ DOMAIN frames'[n] = 1 .. Len(frames'[n])
             /\ \A i \in DOMAIN frames[n] : frames'[n][i] = frames[n][i]
             /\ \A i \in DOMAIN frames'[n] :
                  frames'[n][i].type = "open_tunnel" => i \in DOMAIN frames[n]
  <2>1. frames[n] \in Seq(Frame)
    BY <1>1
  <2>2. CASE frames'[n] = frames[n]
    BY <2>1, <2>2
  <2>3. ASSUME NEW f \in Frame, f.type # "open_tunnel", frames'[n] = Append(frames[n], f)
        PROVE  /\ DOMAIN frames[n] = 1 .. Len(frames[n]) /\ Len(frames[n]) \in Nat
               /\ Len(frames'[n]) = Len(frames[n]) + 1
               /\ DOMAIN frames'[n] = 1 .. Len(frames'[n])
               /\ \A i \in DOMAIN frames[n] : frames'[n][i] = frames[n][i]
               /\ \A i \in DOMAIN frames'[n] :
                    frames'[n][i].type = "open_tunnel" => i \in DOMAIN frames[n]
    BY <2>1, <2>3, Appended
  <2>4. QED
    BY <2>2, <2>3 DEF OrdersKept
<1>3. ASSUME NEW n \in Nodes, NEW i \in DOMAIN frames'[n], frames'[n][i].type = "open_tunnel"
      PROVE  pc'[frames'[n][i].tunnel_id] \in Served /\ Accounted(n, i)'
  <2> DEFINE d == frames[n][i].tunnel_id
  <2>1. i \in DOMAIN frames[n] /\ frames'[n][i] = frames[n][i]
    BY <1>2, <1>3
  <2>2. d \in Clis
    BY <1>1, <1>3, <2>1 DEF Frame, NodeRegistered
  <2>3. pc[d] \in Served /\ Accounted(n, i)
    BY <1>3, <2>1 DEF OrdersInv
  <2>4. pc'[d] \in Served
    BY <2>2, <2>3 DEF OrdersKept
  <2>5. ASSUME NEW k \in i + 1 .. Len(frames[n]), frames[n][k].type = "close_tunnel",
               frames[n][k].tunnel_id = d
        PROVE  Accounted(n, i)'
    <3>1. k \in DOMAIN frames[n] /\ k \in i + 1 .. Len(frames'[n])
      BY <1>2, <2>1
    <3>2. QED
      BY <1>2, <2>1, <2>5, <3>1 DEF Accounted
  <2>6. ASSUME ~nodeUp[n] PROVE Accounted(n, i)'
    <3>1. ~nodeUp'[n]
      BY <2>6, Zenon DEF OrdersKept
    <3>2. QED
      BY <3>1, Zenon DEF Accounted
  <2>7. ASSUME pc[d] \in Ordered, node[d] = n, port[d] = frames[n][i].remote_port, nodeUp[n]
        PROVE  Accounted(n, i)'
    <3>1. CASE pc'[d] \in Ordered /\ node'[d] = node[d] /\ port'[d] = port[d]
      BY <2>1, <2>7, <3>1 DEF Accounted
    <3>2. CASE frames'[n] = Append(frames[n], CloseTunnel(d))
      <4>1. CloseTunnel(d) \in Frame /\ CloseTunnel(d).type = "close_tunnel"
            /\ CloseTunnel(d).tunnel_id = d
        BY <2>2 DEF CloseTunnel, Frame
      <4>2. /\ Len(frames'[n]) = Len(frames[n]) + 1
            /\ frames'[n][Len(frames[n]) + 1] = CloseTunnel(d)
        BY <1>1, <3>2, <4>1, Appended
      <4>3. Len(frames[n]) + 1 \in i + 1 .. Len(frames'[n])
        BY <1>2, <2>1, <4>2
      <4>4. QED
        BY <2>1, <4>1, <4>2, <4>3 DEF Accounted
    <3>3. QED
      BY <2>2, <2>7, <3>1, <3>2 DEF OrdersKept
  <2>8. QED
    BY <2>1, <2>3, <2>4, <2>5, <2>6, <2>7 DEF Accounted
<1>4. PortHandoverOrdered'
  <2> SUFFICES ASSUME NEW n \in Nodes, NEW i \in DOMAIN frames'[n],
                      NEW j \in DOMAIN frames'[n], i < j,
                      frames'[n][i].type = "open_tunnel",
                      frames'[n][j].type = "open_tunnel",
                      frames'[n][i].remote_port = frames'[n][j].remote_port
               PROVE  \E k \in i + 1 .. j - 1 :
                        /\ frames'[n][k].type = "close_tunnel"
                        /\ frames'[n][k].tunnel_id = frames'[n][i].tunnel_id
    BY DEF PortHandoverOrdered
  <2>1. /\ i \in DOMAIN frames[n] /\ j \in DOMAIN frames[n]
        /\ frames'[n][i] = frames[n][i] /\ frames'[n][j] = frames[n][j]
    BY <1>2
  <2>2. PICK k \in i + 1 .. j - 1 : /\ frames[n][k].type = "close_tunnel"
                                    /\ frames[n][k].tunnel_id = frames[n][i].tunnel_id
    BY <2>1 DEF OrdersInv, PortHandoverOrdered
  <2>3. k \in DOMAIN frames[n]
    BY <1>2, <2>1
  <2>4. QED
    BY <1>2, <2>1, <2>2, <2>3
<1>5. QED
  BY <1>3, <1>4 DEF OrdersInv

\* OrdersInv holds throughout.
THEOREM OrdersInvariance == Spec => []OrdersInv
<1>1. Init => OrdersInv
  BY DEF Init, OrdersInv, PortHandoverOrdered
<1>2. IndInv /\ OrdersInv /\ [Next]_vars => OrdersInv'
  BY OrderNodeKeepsOrders, OthersKeepOrders, KeptOrders
<1>3. QED
  BY Invariance, <1>1, <1>2, PTL DEF Spec

\* A node that reads its orders in sequence is told to free a port before it is told
\* to open it for another tunnel, whatever becomes of the tunnels in between.
THEOREM OrdersSafe == Spec => []PortHandoverOrdered
<1>1. OrdersInv => PortHandoverOrdered
  BY DEF OrdersInv
<1>2. QED
  BY OrdersInvariance, <1>1, PTL
=============================================================================
