\* Three CLIs compete for two ports; no node is connected.
CONSTANTS
  c1 = c1  c2 = c2  c3 = c3  n1 = n1  n2 = n2
  laptop = laptop  fra = fra  nyc = nyc
  None = None
  AnyName = AnyName
  RangeStart = 1
  RangeEnd = 2
  RequestPorts = {2, 3}
  Clis = {c1, c2, c3}
  Nodes = {}
  Names = {fra}
  NodeName <- NoNames
  Hosts = {laptop}
  Hostname <- OneHost
  MaxTunnels = 2
  Deletable = {c1, c2, c3}
SPECIFICATION Spec
SYMMETRY Interchangeable
INVARIANTS
  TypeOK
  PortsConserved
  BindNeverCollides
  ListMatchesEvents
  ArchivedOnce
