SPECIFICATION FairSpec
CONSTANTS
  a = a
  b = b
  forged = forged
  wide = wide
  Levels = 3
  MaxDoubted = 7
  MaxIndex = 16
  Malformed <- WideNodes
  Requests <- SmallRequests
  Tree <- SmallTree
INVARIANTS Sound RootIsBuilt Complete EveryNodeMeasured OneIndexIsABranch
PROPERTY Answered
CHECK_DEADLOCK FALSE
