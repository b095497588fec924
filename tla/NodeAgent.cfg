\* Two tunnels that share a port, two visitors, two sessions.
CONSTANTS
  t1 = t1  t2 = t2  v1 = v1  v2 = v2  s1 = s1  p1 = p1
  None = None
  Tunnels = {t1, t2}
  Ports = {p1}
  Visitors = {v1, v2}
  Sockets = {s1}
  MaxSessions = 2
SPECIFICATION FairSpec
INVARIANTS
  TypeOK
  NoSocketLost
  HandlesReachTasks
  LeakOnlyByAbort
PROPERTIES
  ImplementsPairing
  ClosedTunnelStopsListening
  NoVisitorStuck
