CONSTANTS
  MaxRuns = 1
  MaxCrashes = 0
  MaxChildren = 3
SPECIFICATION Spec
INVARIANT ChildDisposedAfterInner
CHECK_DEADLOCK FALSE
