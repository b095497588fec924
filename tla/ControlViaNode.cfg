\* Two CLIs that take turns on one port while two sessions of a node come and go.
CONSTANTS
  c1 = c1  c2 = c2  c3 = c3  n1 = n1  n2 = n2
  laptop = laptop  fra = fra  nyc = nyc
  None = None
  AnyName = AnyName
  RangeStart = 1
  RangeEnd = 1
  RequestPorts = {}
  Clis = {c1, c2}
  Nodes = {n1, n2}
  Names = {fra}
  NodeName <- SameName
  Hosts = {laptop}
  Hostname <- OneHost
  MaxTunnels = 2
  Deletable = {}
SPECIFICATION Spec
SYMMETRY Interchangeable
INVARIANTS
  NodeLoadExact
  PortHandoverOrdered
PROPERTIES
  ImplementsTunnelService
