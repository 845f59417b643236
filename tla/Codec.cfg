SPECIFICATION Spec
CONSTANTS
  Unlimited = Unlimited
  Varies = Varies
  Missing = Missing
  Overflow = Overflow
  BitsPerByte = 2
  OffsetWidth = 2
  Deepest = 3
  Types <- SmallTypes
  Values <- SmallValues
  fixedSize <- SmallSizes
  slotStart <- SmallStarts
  Streams <- SmallStreams
  Scopes <- SmallScopes
INVARIANT Canonical
INVARIANT WhatIsReadIsLegal
INVARIANT WholeInputsNeverRunShort
INVARIANT WhatIsWrittenIsRead
INVARIANT PartsStandAtTheirOffsets
INVARIANT KeepsToItsScope
PROPERTY Answered
CHECK_DEADLOCK FALSE
