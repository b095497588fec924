---------------------------- MODULE NodeManager ----------------------------
(***************************************************************************)
(* The registry of connected edge nodes                                    *)
(* (crates/server/src/node_manager.rs): a HashMap behind one mutex, every  *)
(* method a single critical section.  A node_id is a fresh UUID for every  *)
(* registration, so the members of Nodes stand for node sessions, and none *)
(* of them registers twice.                                                *)
(***************************************************************************)
EXTENDS Integers

CONSTANTS Nodes,      \* node_ids: one per registration of an edge node
          Names,      \* node names a CLI may prefer
          NodeName,   \* the name each session registers under
          AnyName     \* Option::None as a preference

ASSUME NodeAssumption == /\ NodeName \in [Nodes -> Names]
                         /\ AnyName \notin Names

VARIABLES registry,     \* node_ids of the HashMap
          tunnelCount   \* NodeInfo.tunnel_count, 0 outside the registry

nodeManagerVars == <<registry, tunnelCount>>

NewNodeManager == /\ registry = {}
                  /\ tunnelCount = [n \in Nodes |-> 0]

\* register: inserts the node with no tunnels.
RegisterNode(n) == /\ registry' = registry \cup {n}
                   /\ tunnelCount' = [tunnelCount EXCEPT ![n] = 0]

\* remove: drops the whole NodeInfo, count included.
RemoveNode(n) == /\ registry' = registry \ {n}
                 /\ tunnelCount' = [tunnelCount EXCEPT ![n] = 0]

\* The nodes pick considers: all of them, or those with the wanted name.
Candidates(name) == {n \in registry : name = AnyName \/ NodeName[n] = name}

\* pick: any candidate whose counter is minimal (HashMap order breaks ties).
Pick(name) == {n \in Candidates(name) :
                 \A m \in Candidates(name) : tunnelCount[n] <= tunnelCount[m]}

\* Fault for the mutation runs: the counter is found by the name of the node.
IncrementTunnels_ByName(n) ==
  /\ tunnelCount' = [m \in Nodes |->
       IF m \in registry /\ NodeName[m] = NodeName[n]
       THEN tunnelCount[m] + 1 ELSE tunnelCount[m]]
  /\ UNCHANGED registry

\* increment_tunnels: a no-op for a node that has left.
IncrementTunnels(n) ==
  /\ tunnelCount' = IF n \in registry
                    THEN [tunnelCount EXCEPT ![n] = @ + 1]
                    ELSE tunnelCount
  /\ UNCHANGED registry

\* decrement_tunnels: saturating, and a no-op for a node that has left.
DecrementTunnels(n) ==
  /\ tunnelCount' = IF n \in registry /\ tunnelCount[n] > 0
                    THEN [tunnelCount EXCEPT ![n] = @ - 1]
                    ELSE tunnelCount
  /\ UNCHANGED registry
=============================================================================
