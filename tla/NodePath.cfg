\* Two CLIs with a visitor each, on one node or on two, in three scenes.
CONSTANTS
  c1 = c1  c2 = c2  n1 = n1  n2 = n2  v1 = v1  v2 = v2
  None = None
  Clis = {c1, c2}
  Nodes = {n1, n2}
  Visitors = {v1, v2}
  TunnelOf <- OwnCli
  Buffer = 1
  Scenes <- ThreeScenes
SPECIFICATION FairSpec
PROPERTIES
  ReportsArrive
  RegistrationEnds
  CloseEnds
  AckedTunnelListens
  DepartureNoticed
CHECK_DEADLOCK FALSE
