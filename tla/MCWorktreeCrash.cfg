CONSTANTS
  t1 = t1
  l1 = l1
  m1 = m1
  m2 = m2
  d1 = d1
  r1 = r1
  r2 = r2
  Trunk = {t1}
  Local = {l1}
  MergeKeys = {m1}
  DiscardKeys = {d1}
  Offered = {"add", "remove", "keep", "merge", "discard", "ready", "reopen"}
  Reqs = {r1}
  MaxFaults = 2
SPECIFICATION FairSpec
INVARIANTS ProcessedIsFinal CompletedIsProcessed DeletionWaitsForMerge
PROPERTIES SettledWhenProcessed RestorationIsKept MergeConverges ImplementsReviewOutcome
