CONSTANTS
  n1 = n1
  n2 = n2
  n3 = n3
  n4 = n4
  b1 = b1
  b2 = b2
  b3 = b3
  s1 = s1
  Nodes = {n1, n2, n3, n4}
  Batches = {b1, b2, b3}
  Sagas = {s1}
  Root = Root
  Absent = Absent
  None = None
SYMMETRY Symmetry
SPECIFICATION Spec
INVARIANTS Forest FiledAsTaken
PROPERTIES OpenBatchesStay VisibleStays
