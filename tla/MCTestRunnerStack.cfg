CONSTANTS
  MaxRuns = 2
  MaxCrashes = 2
  MaxChildren = 4
SPECIFICATION FairSpec
INVARIANTS
  OneChildAtATime
  RunsOnlyInitialized
  NothingStillRuns
  NoChildLeft
PROPERTIES
  RunAndDisposeSettle
CHECK_DEADLOCK FALSE
