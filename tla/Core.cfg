\* Two cursors, two marks, a redline and a fly, up to four indices at a time; two
\* links, a ruby and two metas, up to three hints and four characters; up to three
\* paragraphs with up to two characters and two positions in all; a modify, one
\* registered at it and two clients, two nested iterations; two jobs, two terminators
\* and two terminations.
\* A behaviour is of one part, and each part uses the model values by itself: clients
\* and terminators are c1 and c2 like the cursors, jobs are m1 and m2 like the marks,
\* so that one symmetry holds for every part.
SPECIFICATION PartsSpec
CONSTANTS
  c1 = c1
  c2 = c2
  Null = Null
  None = None
  Idx <- MCIdx
  Regs <- MCRegs
  Cursors = {c1, c2}
  Marks = {m1, m2}
  Redlines = {r1}
  Flys = {f1}
  MaxLen = 2
  PrevLen = 1
  MaxIndices = 4
  Attrs <- MCAttrs
  MaxText = 4
  MaxPiece = 2
  MaxHints = 3
  MaxSize = 6
  Bkmks = {b1}
  UnoCrsrs = {u1}
  ShellCrsrs = {s1}
  MaxParagraphs = 3
  MaxChars = 2
  MaxUsed = 2
  parent = parent
  derived = derived
  Modifies = {parent, derived}
  Clients = {c1, c2}
  Depth <- MCDepth
  MaxFrames = 2
  Jobs = {m1, m2}
  Terminators = {c1, c2}
  Void = Void
  MaxQueries = 2
  CreateMayFail = TRUE
SYMMETRY Symmetry
INVARIANTS
  ListsSorted
  HintsSound
  ChainsWellFormed
  NothingDangles
  PositionInChain
  VisitedExactlyOnce
  FinalTypeOK
  JobsAccounted
  OneActiveTerminator
  EndsWithoutJobs
PROPERTIES
  EndsStay
  ImplementsTextPositions
  ImplementsCharAttributes
  ObjectsStayWithText
  DestructorAdvances
CHECK_DEADLOCK FALSE
