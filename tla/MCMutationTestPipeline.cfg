CONSTANTS
  a = a
  b = b
  NumMutants = 4
  Files = {a, b}
  FileOf <- FirstInA
  NoTests = {2}
  NoChange = {3}
  Stages = 1
  Bundled = TRUE
  InitialConcurrency = 2
  Cpus = 4
  MaxConcurrentTestRunners = 0
SPECIFICATION FairSpec
INVARIANTS
  OneMutantPerSandbox
  TestsSeeOnlyTheirMutant
  BoundedBuffering
  NoSandboxAfterDispose
PROPERTIES
  ImplementsMutationTestRun
  RunAndDisposeSettle
CHECK_DEADLOCK FALSE
