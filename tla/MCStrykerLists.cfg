CONSTANTS
  Files <- MCFiles
  Mutants <- MCMutants
  MutantFile <- MCMutantFile
  MutatorName <- MCMutatorName
  Verdicts <- MCVerdicts
  TestTime <- MCTestTime
  TimeoutFactor = 1
  TimeoutMS = 1
  GrossTimes = {1, 4}
  NoBreak <- MCNoBreak
  CoreSchema <- MCCoreSchema
  PluginSchemas <- MCPluginSchemas
  ListOptions <- MCListOptions
  Givens <- MCGivens
  ReportFiles = 2
SPECIFICATION Spec
INVARIANT ListsAreOverridden
CHECK_DEADLOCK FALSE
