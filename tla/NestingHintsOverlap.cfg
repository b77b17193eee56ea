\* Links and ruby are reset wherever the user may reset them.
SPECIFICATION Spec
CONSTANTS
  Attrs <- MCAttrs
  MaxLen = 4
  MaxPiece = 4
  MaxHints = 4
  MaxSize = 8
INVARIANT NoOverlap
