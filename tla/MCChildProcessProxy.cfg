CONSTANTS
  c1 = c1
  c2 = c2
  c3 = c3
  Calls <- ThreeCalls
  Deleted = Deleted
SPECIFICATION FairSpec
INVARIANTS
  ReplyFindsItsTask
  NoCallBeforeInitialized
  NothingPendingAfterExit
  DisposedMeansDead
PROPERTIES
  CallsOfDeadChildSettle
  DisposeCompletes
  ImplementsRemoteCalls
CHECK_DEADLOCK FALSE
