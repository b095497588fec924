\* One CLI, one node, the dashboard and any number of visitors, with fairness.
CONSTANTS
  c1 = c1  c2 = c2  c3 = c3  n1 = n1  n2 = n2
  laptop = laptop  fra = fra  nyc = nyc
  None = None
  AnyName = AnyName
  RangeStart = 1
  RangeEnd = 1
  RequestPorts = {}
  Clis = {c1}
  Nodes = {n1}
  Names = {fra}
  NodeName <- SameName
  Hosts = {laptop}
  Hostname <- OneHost
  MaxTunnels = 2
  Deletable = {c1}
SPECIFICATION FairSpec
PROPERTIES
  DeleteTakesEffect
  PortsComeBack
