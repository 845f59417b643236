SPECIFICATION Spec
CONSTANTS
  leaf = leaf
  packed = packed
  list = list
  Packed = {p1, p2}
  Lists = {s1}
  Structs = {}
  LeafFields = {}
  PackedFields = {}
  ListFields = {}
  FieldOrder <- NoFieldOrder
  Frozen = {}
  ByteLists = {}
  Pinned = {}
  Byte = {b1, b2}
  PackedLimit = 1
  ListLimit = 2
  MaxVersion = 1
  MaxOpen = 0
  Paranoid = TRUE
  DirectWrites = TRUE
  RootsWhileOpen = FALSE
  NoMemo = NoMemo
SYMMETRY Symmetry
INVARIANT RefusalIsJustified
PROPERTY ServesColdRoots
CHECK_DEADLOCK FALSE
