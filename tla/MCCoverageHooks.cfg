CONSTANTS
  Files <- TwoFiles
  CoverageMaps <- ThreeCounters
  Mutants <- FourMutants
  NumTests = 2
  MaxExecuted = 1
  MaxRetries = 0
SPECIFICATION Spec
INVARIANT
  HooksNeverThrow
CHECK_DEADLOCK FALSE
