\* Two tunnels, two visitors and three data connections, with fairness; the ring of
\* past connections is full after the first.
CONSTANTS
  t1 = t1  t2 = t2  v1 = v1  v2 = v2  s1 = s1  s2 = s2  s3 = s3
  None = None
  Tunnels = {t1, t2}
  Visitors = {v1, v2}
  Sockets = {s1, s2, s3}
  MaxConnections = 1
SPECIFICATION FairSpec
INVARIANTS
  TypeOK
  NoSocketLost
  NoSenderLeaked
  HistoryExact
PROPERTIES
  ImplementsPairing
  NobodyStuck
