CONSTANTS
  None = None
  Dangling = Dangling
  Frames = {f1, f2, f3}
  Modifies = {m1, m2, m3, m4}
  nInitSize = 3
  nAdd = 1
  nLimit = 4
  nTail = 3
  MaxLines = 1
  MaxBorders = 2
  MaxLayouts = 1
SYMMETRY MCSymmetry
SPECIFICATION Spec
INVARIANTS
  CacheConsistent
  OwnObjects
  AccessesSound
PROPERTY
  HeadKept
CHECK_DEADLOCK FALSE
