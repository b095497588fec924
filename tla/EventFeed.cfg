\* A session of a dashboard, and two tunnels that come and go, or a tunnel and a node.
CONSTANTS
  t1 = t1  t2 = t2  n1 = n1
  Tunnels = {t1, t2}
  Nodes = {n1}
  Capacity = 1
  WireSize = 1
  MaxLogins = 1
  Closable = {t1}
  Scenes <- TwoScenes
SPECIFICATION FairSpec
INVARIANTS
  
  LogoutClears
PROPERTIES
  GhostsLeave
CHECK_DEADLOCK FALSE
