CONSTANTS
  Interchangeable = {e1, e2, e3, e4, e5, e6, e7}
  Numbered = {1, 2, 3, 4, 5, 6, 7, 8, 9, 10, 11, 12, 13, 14}
  Elems <- MCElems
  None = None
  MaxSize = 14
  MAXENTRY = 4
  COMPRESSLVL = 50
  nBlockGrowSize = 2
  FirstTables <- MCTables
SYMMETRY MCSymmetry
VIEW MCView
SPECIFICATION Spec
INVARIANT CurIndexValid
CHECK_DEADLOCK FALSE
