CONSTANTS
  a = a
  b = b
  NumMutants = 4
  Files = {a, b}
  FileOf <- FirstInA
  NoTests = {}
  NoChange = {}
  Stages = 2
  Bundled = TRUE
  InitialConcurrency = 3
  Cpus = 2
  MaxConcurrentTestRunners = 0
SPECIFICATION Spec
INVARIANT TranspiledIsOneMutant
CHECK_DEADLOCK FALSE
