\* One command, foreground or detached, with one stop of it.
CONSTANTS
  p1 = p1  p2 = p2  v1 = v1  s1 = s1
  None = None
  Ports = {p1, p2}
  Visitors = {v1}
  MaxSignals = 1
  Stops = {s1}
SPECIFICATION Spec
INVARIANT
  StopSignals
CHECK_DEADLOCK FALSE
