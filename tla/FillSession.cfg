SPECIFICATION Spec
CONSTANTS
  Letters = {"a", "b"}
  MaxSessions = 3
  MaxCalls = 5
  Fixtures <- SmallFixtures
INVARIANTS IndexNeverLies FinishedIsWhole
PROPERTIES NothingIsWrittenOver PublishesCatalogs EverySessionEnds
CHECK_DEADLOCK FALSE
