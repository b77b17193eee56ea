CONSTANTS
  parent = parent
  derived = derived
  Modifies = {parent, derived}
  Clients = {x, y}
  None = None
  Depth <- MCDepth
  MaxFrames = 2
SYMMETRY MCSymmetry
SPECIFICATION ClientsSpec
INVARIANT PositionAlwaysInChain
CHECK_DEADLOCK FALSE
