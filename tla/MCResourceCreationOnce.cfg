CONSTANTS
  k1 = k1
  k2 = k2
  c1 = c1
  c2 = c2
  Keys = {k1}
  InFolder = {}
  Callers = {c1}
  Worker = worker
  Idle = idle
  Limit = 1
  MaxCrashes = 0
SPECIFICATION Spec
PROPERTIES OneNodePerKey
CHECK_DEADLOCK FALSE
