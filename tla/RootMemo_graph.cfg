SPECIFICATION Spec
CONSTANTS
  leaf = leaf
  packed = packed
  list = list
  Packed = {p1, p2}
  Lists = {s1, s2}
  Structs = {t1, t2}
  LeafFields = {}
  PackedFields = {}
  ListFields = {list}
  FieldOrder <- ListFieldOrder
  Frozen = {t1, t2}
  ByteLists = {}
  Pinned = {p1, p2, s1, s2}
  Byte = {b1, b2}
  PackedLimit = 1
  ListLimit = 1
  MaxVersion = 1
  MaxOpen = 1
  Paranoid = FALSE
  DirectWrites = FALSE
  RootsWhileOpen = FALSE
  NoMemo = NoMemo
SYMMETRY Symmetry
INVARIANTS MemosKept
PROPERTY ServesColdRoots
CHECK_DEADLOCK FALSE
