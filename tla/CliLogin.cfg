\* Two logins and a config, at any time.
CONSTANTS
  g1 = g1  l1 = l1  l2 = l2
  None = None
  Configs = {g1}
  Logins = {l1, l2}
SPECIFICATION FairSpec
INVARIANTS
  SettingsKept
PROPERTIES
  LoginEnds
CHECK_DEADLOCK FALSE
