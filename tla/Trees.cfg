SPECIFICATION TreesSpec
CONSTANTS
  a = a
  b = b
  zeros = zeros
  word = word
  wide = wide
  none = none
  ZeroChunk <- ZeroLeaf
  Mixin <- WordLeaf
  Absent <- NoLeaf
  Unlimited = Unlimited
  CachedDepth = 1
  MaxWidth = 6
  MaxLimit = 17
  MaxChunks = 22
  Misshapen <- WideLeaves
  Inputs <- SmallInputs
  Limits <- AllLimits
  Data <- SmallData
INVARIANTS RootIsThePaddedTree ChunksKeepTheirPlace
PROPERTIES LevelsArePaddedTrees AllAnswered
CHECK_DEADLOCK FALSE
