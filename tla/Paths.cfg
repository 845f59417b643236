SPECIFICATION Spec
CONSTANTS
  ZeroChunk <- Zero
  CachedDepth = 2
  ChunkUnits = 2
  BitsPerByte = 2
  Unlimited = Unlimited
  NoMixin = NoMixin
  Gap = Gap
  Refused = Refused
  Absent = Absent
  Types <- SmallTypes
  MaxUnit = 1
  MaxLength = 6
  MaxIndex = 353
INVARIANTS NodesAreOfTheRoot WhatIsReadIsProved PathsLeadToParts
PROPERTY RootsTellWritesApart
