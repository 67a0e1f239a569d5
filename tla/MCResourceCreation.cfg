CONSTANTS
  k1 = k1
  k2 = k2
  c1 = c1
  c2 = c2
  Keys = {k1, k2}
  InFolder = {k1}
  Callers = {c1, c2}
  Worker = worker
  Idle = idle
  Limit = 1
  MaxCrashes = 1
SPECIFICATION FairSpec
INVARIANTS TypeOK NodeMatchesJournal NodeHasUnit NodePlaced
PROPERTIES PendingSettles
CHECK_DEADLOCK FALSE
