\* What the documentation says of one CLI and one node.
CONSTANTS
  c1 = c1  c2 = c2  c3 = c3  n1 = n1  n2 = n2
  laptop = laptop  fra = fra  nyc = nyc
  None = None
  AnyName = AnyName
  RangeStart = 1
  RangeEnd = 1
  RequestPorts = {}
  Clis = {c1}
  Nodes = {n1}
  Names = {fra}
  NodeName <- SameName
  Hosts = {laptop}
  Hostname <- OneHost
  MaxTunnels = 2
  Deletable = {}
SPECIFICATION Spec
INVARIANTS
  FirstFrameIsVerdict
