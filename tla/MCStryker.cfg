CONSTANTS
  Files <- MCFiles
  Mutants <- MCMutants
  MutantFile <- MCMutantFile
  MutatorName <- MCMutatorName
  Verdicts <- MCVerdicts
  TestTime <- MCTestTime
  TimeoutFactor = 1
  TimeoutMS = 1
  GrossTimes = {1, 4}
  NoBreak <- MCNoBreak
  CoreSchema <- MCCoreSchema
  PluginSchemas <- MCPluginSchemas
  ListOptions <- MCListOptions
  Givens <- MCGivens
  ReportFiles = 2
SPECIFICATION FairSpec
INVARIANTS WrapUpWaitsForWork ProgressAddsUp NothingIsLeft ExitCodeTells TimeoutsCoverTests SelectionFollowsPatterns CommandLineWins
PROPERTY ReportedRunExits
CHECK_DEADLOCK FALSE
