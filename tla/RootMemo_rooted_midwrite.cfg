SPECIFICATION Spec
CONSTANTS
  leaf = leaf
  packed = packed
  list = list
  Packed = {p1}
  Lists = {}
  Structs = {}
  LeafFields = {}
  PackedFields = {}
  ListFields = {}
  FieldOrder <- NoFieldOrder
  Frozen = {}
  ByteLists = {}
  Pinned = {}
  Byte = {b1, b2}
  PackedLimit = 1
  ListLimit = 1
  MaxVersion = 2
  MaxOpen = 1
  Paranoid = FALSE
  DirectWrites = FALSE
  RootsWhileOpen = TRUE
  NoMemo = NoMemo
SYMMETRY Symmetry
INVARIANT NoStaleRoot
CHECK_DEADLOCK FALSE
