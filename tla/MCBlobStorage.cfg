CONSTANTS
  s1 = s1
  s2 = s2
  p1 = p1
  p2 = p2
  c1 = c1
  c2 = c2
  Sessions = {s1}
  Replacements = {p1, p2}
  Of <- OfFirst
  Completers = {c1, c2}
  None = none
  MaxStrays = 1
  MaxCrashes = 1
SPECIFICATION FairSpec
INVARIANTS ReferencedIsStored NothingLeaks
PROPERTIES NoLostUpdate RemovedStaysRemoved QueuedIsDeleted
CHECK_DEADLOCK FALSE
