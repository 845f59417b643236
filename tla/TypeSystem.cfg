SPECIFICATION TypeSpec
CONSTANTS
  ZeroChunk <- Zero
  CachedDepth = 2
  ChunkUnits = 2
  BitsPerByte = 2
  Unlimited = Unlimited
  NoMixin = NoMixin
  Gap = Gap
  Refused = Refused
  Unsaid = Unsaid
  None = None
  Varies = Varies
  Undeclared = Undeclared
  Programs <- SmallPrograms
  UintWidths = {2, 4}
  MaxActiveFields = 4
  MinSelector = 1
  MaxSelector = 3
  PlainNumbers <- SmallNumbers
  MaxShift = 4
  InternBelow = 4
  MaxSteps = 3
INVARIANTS OneTreePerLineage SpansArePositive TalliesAreExact UnitsNeverMix SidesAgree CompatibilityIsAnAgreement ProofsReadAlike
CHECK_DEADLOCK FALSE
