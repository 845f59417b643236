SPECIFICATION TypeSpec
CONSTANTS
  ZeroChunk <- Zero
  CachedDepth = 2
  ChunkUnits = 2
  BitsPerByte = 2
  Unlimited = Unlimited
  NoMixin = NoMixin
  Gap = Gap
  Refused = Refused
  Unsaid = Unsaid
  None = None
  Varies = Varies
  Undeclared = Undeclared
  Programs <- WideningPrograms
  UintWidths = {2, 4}
  MaxActiveFields = 4
  MinSelector = 1
  MaxSelector = 3
  PlainNumbers <- SmallNumbers
  MaxShift = 4
  InternBelow = 4
  MaxSteps = 3
INVARIANT FieldsFillTheirSlots
CHECK_DEADLOCK FALSE
