------------------------------ MODULE MCNodePath ------------------------------
EXTENDS NodePath, TLC

CONSTANTS c1, c2, n1, n2, v1, v2

OwnCli == [v \in Visitors |-> IF v = v1 THEN c1 ELSE c2]

OneNode == [c \in Clis |-> n1]
TwoNodes == [c \in Clis |-> IF c = c1 THEN n1 ELSE n2]

Bounds(nodeOf, stallable, leaving, closable) ==
  [nodeOf |-> nodeOf, stallable |-> stallable, leaving |-> leaving, closable |-> closable]

\* Two CLIs of one node: one of them stops reading and goes, and the node goes; or that
\* CLI and the node stop reading and go on, and its tunnel is deleted.  Two nodes with a
\* CLI each: one CLI stops reading, the node of the other goes.
ThreeScenes == {Bounds(OneNode, {c1}, {c1, n1}, {}),
                Bounds(OneNode, {c1, n1}, {}, {c1}),
                Bounds(TwoNodes, {c1}, {n2}, {})}
=============================================================================
