CONSTANTS
  n1 = n1
  n2 = n2
  b1 = b1
  owner = owner
  u1 = u1
  Nodes = {n1, n2}
  Batches = {b1}
  Sagas = {}
  Root = Root
  Absent = Absent
  None = None
  Users = {owner, u1}
  Owner = owner
  Anonymous = Anonymous
  SpaceTypes = {"personal"}
  MaxShares = 2
SPECIFICATION AccessSpec
INVARIANTS RenameKeepsPlace
CHECK_DEADLOCK FALSE
