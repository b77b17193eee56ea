\* Links and ruby are set wherever the user may set them.
SPECIFICATION Spec
CONSTANTS
  Attrs <- MCAttrs
  MaxLen = 4
  MaxPiece = 4
  MaxHints = 4
  MaxSize = 8
INVARIANT LinksNotNested
