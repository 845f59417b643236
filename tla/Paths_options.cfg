SPECIFICATION Spec
CONSTANTS
  ZeroChunk <- Zero
  CachedDepth = 2
  ChunkUnits = 2
  BitsPerByte = 2
  Unlimited = Unlimited
  NoMixin = NoMixin
  Gap = Gap
  Refused = Refused
  Absent = Absent
  Types <- Options
  MaxUnit = 1
  MaxLength = 6
  MaxIndex = 1
INVARIANT FieldsReadUnderEveryOption
