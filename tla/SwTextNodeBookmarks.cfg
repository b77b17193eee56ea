\* The ends of bookmarks (ndtxt.cxx:1070): two cursors and two marks, up to six indices at a time.
SPECIFICATION Spec
CONSTANTS
  c1 = c1
  c2 = c2
  Null = Null
  Idx <- MCIdx
  Regs <- MCRegs
  Cursors = {c1, c2}
  Marks = {m1, m2}
  Redlines = {}
  Flys = {}
  MaxLen = 2
  PrevLen = 1
  MaxIndices = 6
SYMMETRY Symmetry
PROPERTY BookmarksNeverGrow
CHECK_DEADLOCK FALSE
