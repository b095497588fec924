\* Three tokens, whose ids may be the same.
CONSTANTS
  k1 = k1  k2 = k2  k3 = k3  i1 = i1  i2 = i2
  Tokens = {k1, k2, k3}
  Ids = {i1, i2}
SPECIFICATION Spec
INVARIANTS
  ShownRevokedIsRevoked
  SettledPageExact
CHECK_DEADLOCK FALSE
