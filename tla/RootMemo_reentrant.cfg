SPECIFICATION Spec
CONSTANTS
  leaf = leaf
  packed = packed
  list = list
  Packed = {p1, p2}
  Lists = {}
  Structs = {t1}
  LeafFields = {}
  PackedFields = {packed}
  ListFields = {}
  FieldOrder <- PackedFieldOrder
  Frozen = {}
  ByteLists = {p2}
  Pinned = {}
  Byte = {b1, b2}
  PackedLimit = 1
  ListLimit = 1
  MaxVersion = 2
  MaxOpen = 2
  Paranoid = FALSE
  DirectWrites = FALSE
  RootsWhileOpen = FALSE
  NoMemo = NoMemo
SYMMETRY Symmetry
INVARIANTS TypeOK NoStaleRoot CapacityKept
CHECK_DEADLOCK FALSE
