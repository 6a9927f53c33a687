CONSTANTS
  CommandRuns = 3
  RunnerPlugins <- MCRunnerPlugins
  PluginRuns = 2
  PluginTests = {t1, t2}
  RootTests = {t2}
  TranspilerTools <- MCTranspilerTools
  Sources = {"a", "b"}
  TranspileCalls = 4
  Siblings = 2
  TextLength = 4
  Comments = 2
  OptionTools <- MCOptionTools
  TestRunnerOptions = {"karma", "jest", "mocha", "wct"}
  FrameworkOptions = {"mocha", "jasmine"}
  TranspilerOptions <- MCTranspilerOptions
  MutatorOptions = {"javascript"}
  ReporterOptions <- MCReporterOptions
  OtherPackages = {"other"}
  RunnersOf <- MCRunnersOf
  InitStrykerConfig <- MCInitStrykerConfig
  UserLevels = {"debug", "error", "off"}
  EventLevels = {"debug", "error"}
  LogWorkers = {w1}
  WorkerEvents = 2
  MutatorFields = {"absent", "strings", "number", "numbers"}
SPECIFICATION Spec
INVARIANTS NoCommandLeft OwnTestsOnly NoFailureGoesUnnoticed TranspiledIsCurrent NoMutantTwice MutatorsAgree LocationsAreExact AskedOptionsCount InitializedConfigRuns LogsAreComplete InvalidOptionsAreRefused
PROPERTY CommandsSettle
CHECK_DEADLOCK FALSE
