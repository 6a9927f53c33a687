------------------------------- MODULE Plugins -------------------------------
(***************************************************************************)
(* The parts of Stryker that work on their own between the others: what    *)
(* finds the mutants and where they are, transpiles them and runs their    *)
(* tests; logging, validation and `stryker init`.  A behaviour is one of   *)
(* one of these parts, the others keep their first state; the pool, the    *)
(* processes around them and their order are in the other modules.         *)
(***************************************************************************)
EXTENDS CommandTestRunner, TestRunnerPlugins, TranspilerPlugins, Mutators, SourceFiles, PluginOptions, Initializer,
        Logging, ValidationErrors

VARIABLE part

pluginsVars ==
  <<part, commandVars, pluginVars, transpilerVars, mutatorVars, sourceVars, optionVars, initVars, logVars, errorVars>>

Parts ==
  {"command test runner", "test runner plugin", "transpiler", "mutator", "source file", "plugin options", "initializer",
   "logging", "validation"}

\* What the parts that do not run have.
SimplestMutators ==
  /\ file = [extension |-> ".js", tree |-> [unary |-> "!"]] /\ installed = {}
  /\ mutation = "none" /\ mutantsFound = {}
SimplestSources ==
  /\ text = << >> /\ transpiledFiles = [n \in TranspiledNames |-> << >>] /\ unmapped = {}
  /\ mapper = "pass through" /\ range = <<0, 0>> /\ original = None /\ location = None
SimplestOptions ==
  /\ optionTool = "babel" /\ asked = [namesFile |-> FALSE, switchesOff |-> FALSE, sets |-> {}]
  /\ toolFiles = [f \in {"named", "standard", "lastResort"} |-> [state |-> "absent", sets |-> {}]]
  /\ toolOptions = NoOptions /\ optionsPhase = "loading" /\ reported = FALSE
SimplestInitializer == InitInitializer /\ configFiles = {} /\ gitignore = "absent"

Init ==
  /\ part \in Parts
  /\ InitCommand
  /\ InitPlugins /\ (part # "test runner plugin" => plugin = "karma")
  /\ InitTranspiler /\ (part # "transpiler" => tool = "babel")
  /\ IF part = "mutator" THEN InitMutators ELSE SimplestMutators
  /\ IF part = "source file" THEN InitSources ELSE SimplestSources
  /\ IF part = "plugin options" THEN InitOptions ELSE SimplestOptions
  /\ IF part = "initializer" THEN InitInitializer ELSE SimplestInitializer
  /\ IF part = "validation" THEN InitErrors ELSE invalid = {} /\ described = {} /\ verdict = "none"
  /\ InitLogging
  /\ IF part = "logging" THEN levelsGiven \in LevelsGiven ELSE levelsGiven = [cli |-> Default, options |-> Default]

Next ==
  \/ /\ part = "command test runner" /\ CommandStep
     /\ UNCHANGED <<part, pluginVars, transpilerVars, mutatorVars, sourceVars, optionVars, initVars, logVars, errorVars>>
  \/ /\ part = "test runner plugin" /\ PluginStep
     /\ UNCHANGED <<part, commandVars, transpilerVars, mutatorVars, sourceVars, optionVars, initVars, logVars, errorVars>>
  \/ /\ part = "transpiler" /\ TranspilerStep
     /\ UNCHANGED <<part, commandVars, pluginVars, mutatorVars, sourceVars, optionVars, initVars, logVars, errorVars>>
  \/ /\ part = "mutator" /\ MutatorStep
     /\ UNCHANGED <<part, commandVars, pluginVars, transpilerVars, sourceVars, optionVars, initVars, logVars, errorVars>>
  \/ /\ part = "source file" /\ SourceStep
     /\ UNCHANGED <<part, commandVars, pluginVars, transpilerVars, mutatorVars, optionVars, initVars, logVars, errorVars>>
  \/ /\ part = "plugin options" /\ LoadOptions
     /\ UNCHANGED <<part, commandVars, pluginVars, transpilerVars, mutatorVars, sourceVars, initVars, logVars, errorVars>>
  \/ /\ part = "initializer" /\ InitializerStep
     /\ UNCHANGED <<part, commandVars, pluginVars, transpilerVars, mutatorVars, sourceVars, optionVars, logVars, errorVars>>
  \/ /\ part = "logging" /\ LoggingStep
     /\ UNCHANGED <<part, commandVars, pluginVars, transpilerVars, mutatorVars, sourceVars, optionVars, initVars, errorVars>>
  \/ /\ part = "validation" /\ SchemaValidateOptions
     /\ UNCHANGED <<part, commandVars, pluginVars, transpilerVars, mutatorVars, sourceVars, optionVars, initVars, logVars>>

Spec == Init /\ [][Next]_pluginsVars /\ CommandFairness
=============================================================================
