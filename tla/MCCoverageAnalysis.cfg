CONSTANTS
  Files <- TwoFiles
  CoverageMaps <- ThreeCounters
  Mutants <- FourMutants
  NumTests = 2
  MaxExecuted = 1
  MaxRetries = 1
SPECIFICATION Spec
INVARIANTS
  CoveringTestsAreSelected
  MutantsGetTheirTests
CHECK_DEADLOCK FALSE
