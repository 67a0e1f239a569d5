CONSTANTS
  n1 = n1
  n2 = n2
  n3 = n3
  b1 = b1
  owner = owner
  u1 = u1
  a1 = a1
  m1 = m1
  m2 = m2
  t1 = t1
  t2 = t2
  c1 = c1
  c2 = c2
  l1 = l1
  l2 = l2
  i1 = i1
  w1 = w1
  lb = lb
  pe = pe
  f1 = f1
  f2 = f2
  x1 = x1
  x2 = x2
  r1 = r1
  o1 = o1
  o2 = o2
  tab = tab
  q1 = q1
  q2 = q2
  g1 = g1
  g2 = g2
  ws1 = ws1
  ws2 = ws2
  Nodes = {n1, n2, n3}
  Batches = {b1}
  Sagas = {}
  Root = Root
  Absent = Absent
  None = None
  Users = {owner, u1}
  Owner = owner
  Anonymous = Anonymous
  SpaceTypes = {"personal", "team"}
  MaxShares = 3
  Readers = {owner, u1}
  Uploads = {a1}
  Units = {t1, t2}
  Local = {t2}
  Merges = {m1, m2}
  MaxCrashes = 1
  Codes = {c1, c2}
  Logins = {l1, l2}
  Nothing = Nothing
  Resend = 1
  CodeTtl = 1
  Window = 2
  Limit = 2
  MaxAttempts = 1
  CodeTime = 2
  IssueIds = {i1}
  Worktrees = {w1}
  Titles = {"a", "b"}
  Labels = {lb}
  People = {pe}
  Files = {}
  MaxUpdates = 2
  Artifacts = {f1, f2}
  Tasks = {x1, x2}
  Ttl = 1
  MaxTime = 3
  Writes = {o1, o2}
  Reads = {r1}
  MaxRevision = 1
  MaxCookie = 2
  Tabs = {tab}
  Fetches = {q1, q2}
  MaxChanges = 2
  Accounts = {g1, g2}
  Origins = {ws1, ws2}
  FirstOrigin = ws1
  MaxEvents = 2
SPECIFICATION MCSpec
INVARIANTS
  RoleIsHighest RulesStayInTheFile EveryFileIsOwned MergedImagesReachTrunk
  TimelineReplays FilesAreKnown LandsOnceOnItsRevision PooledIsReusable
  NoChangeIsLost OneAccountEverywhere OvertakenStaysOut
PROPERTIES
  ReplyResolves RaisingKeepsActions SpentNeverSignsIn NumbersAreShared
CHECK_DEADLOCK FALSE
