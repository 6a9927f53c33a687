CONSTANTS
  Files <- TwoFiles
  CoverageMaps <- ThreeCounters
  Mutants <- FourMutants
  NumTests = 2
  MaxExecuted = 1
  MaxRetries = 1
SPECIFICATION Spec
INVARIANT
  ScoreIsNotInfluenced
CHECK_DEADLOCK FALSE
