CONSTANTS
  t1 = t1
  l1 = l1
  m1 = m1
  m2 = m2
  d1 = d1
  r1 = r1
  r2 = r2
  Trunk = {t1}
  Local = {l1}
  MergeKeys = {m1}
  DiscardKeys = {d1}
  Offered = {"add", "remove", "merge", "discard", "ready", "reopen"}
  Reqs = {r1, r2}
  MaxFaults = 0
SYMMETRY Symmetry
SPECIFICATION Spec
INVARIANTS TypeOK PublishedOnlyIfMerged
PROPERTIES NeverRepublished CompletedStays
