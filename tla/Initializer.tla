----------------------------- MODULE Initializer -----------------------------
(***************************************************************************)
(* `stryker init`: questions whose choices come from npm, a config file    *)
(* made of the answers and of what the chosen packages say in their        *)
(* package.json, and the installation of these packages.  What can be had  *)
(* from npm may be nothing, each time.                                     *)
(***************************************************************************)
EXTENDS Objects, Naturals, FiniteSets

CONSTANTS TestRunnerOptions, FrameworkOptions,   \* the packages npm knows of, by the names they are chosen by
          TranspilerOptions, MutatorOptions, ReporterOptions,
          OtherPackages,      \* those of them that are not in @stryker-mutator, but have the keywords
          RunnersOf,          \* per framework the test runners among its keywords
          InitStrykerConfig   \* what a package adds to the options, for those that do

VARIABLES configFiles,     \* the config files in the directory
          initPhase,       \* where initialize() is; at last "resolved" or "rejected"
          answers,         \* what was chosen; null is a choice too
          initConfig,      \* the options that were written
          unfetched,       \* the packages that add options, but whose package.json could not be had
          installedPackages, gitignore

initVars == <<configFiles, initPhase, answers, initConfig, unfetched, installedPackages, gitignore>>

null == "null"
JsConfig == "stryker.conf.js"
JsonConfig == "stryker.conf.json"
NoConfig == << >>
NoAnswers == [runner |-> null, framework |-> null, mutator |-> null, transpilers |-> << >>,
              reporters |-> << >>, preset |-> {}]
BuiltIn == <<"html", "clear-text", "progress", "dashboard">>

\* npm has a name once, and knows nothing of what Stryker brings itself.
ASSUME NamesAreFoundOnce ==
  /\ TranspilerOptions \in Seq(ToSet(TranspilerOptions)) /\ IsInjective(TranspilerOptions)
  /\ (TestRunnerOptions \cup MutatorOptions \cup ToSet(TranspilerOptions) \cup ToSet(ReporterOptions))
     \cap ({null, "command"} \cup ToSet(BuiltIn)) = {}
  /\ ReporterOptions \in Seq(ToSet(ReporterOptions))

\* What the package.json files of Stryker's own packages add: never an answer, nor what is to be loaded, and of the
\* coverage analysis only that it is off, as do those that do not measure coverage.
SaysOff(p) ==
  /\ p \in DOMAIN InitStrykerConfig /\ "coverageAnalysis" \in DOMAIN InitStrykerConfig[p]
  /\ InitStrykerConfig[p].coverageAnalysis = "off"
ASSUME PackagesAdd ==
  /\ \A p \in DOMAIN InitStrykerConfig \ OtherPackages :
       /\ DOMAIN InitStrykerConfig[p] \cap {"testRunner", "mutator", "reporters", "transpilers", "plugins"} = {}
       /\ "coverageAnalysis" \in DOMAIN InitStrykerConfig[p] => SaysOff(p)
  /\ ToSet(TranspilerOptions) \ OtherPackages \subseteq {"babel", "webpack", "typescript"}
  /\ \A p \in {"babel", "webpack", "wct"} \ OtherPackages : SaysOff(p)

InitInitializer ==
  /\ configFiles \in SUBSET {JsConfig, JsonConfig} /\ gitignore \in {"absent", "without", "with"}
  /\ initPhase = "guard" /\ answers = NoAnswers /\ initConfig = NoConfig
  /\ unfetched = {} /\ installedPackages = {}

Answer(key, value, next) ==
  /\ answers' = [answers EXCEPT ![key] = value]
  /\ initPhase' = next
  /\ UNCHANGED <<configFiles, initConfig, unfetched, installedPackages, gitignore>>

GuardForExistingConfig ==
  /\ initPhase = "guard"
  /\ initPhase' = IF configFiles = {} THEN "preset" ELSE "rejected"
  /\ UNCHANGED <<configFiles, answers, initConfig, unfetched, installedPackages, gitignore>>

----------------------------------------------------------------------------
(* The presets: of each the configurations it can create, with the packages it needs *)

PresetReporters == <<"progress", "clear-text", "html">>
Preset(mutator, runner, packages) ==
  [config |-> [mutator |-> mutator, testRunner |-> runner, reporters |-> PresetReporters, coverageAnalysis |-> "off"],
   packages |-> packages]

AngularPreset == {Preset("typescript", "karma", {"karma", "typescript"})}
ReactPreset == {Preset(mutator, "jest", {"jest", mutator}) : mutator \in {"javascript", "typescript"}}
VueJsPreset ==
  {Preset("vue", runner, {"vue", runner, script}) : runner \in {"karma", "jest"}, script \in {"typescript", "javascript"}}

SelectPreset ==
  /\ initPhase = "preset"
  /\ \/ \E p \in AngularPreset \cup ReactPreset \cup VueJsPreset : Answer("preset", {p}, "write")
     \/ Answer("preset", {}, "runner")

----------------------------------------------------------------------------
(* The questions: what npm finds, or nothing when it cannot be reached, and what can be chosen from that *)

Found(options) == {options, {}}
FoundInOrder(options) == {options, << >>}
FrameworksFor(runner) == {f \in FrameworkOptions : runner \in RunnersOf[f]}

\* The runner of the command line is a choice beside those that were found, and no runner is none.
TestRunnerChoices(options) == IF options = {} THEN {null} ELSE options \cup {"command"}
FrameworkChoices(options) == options \cup {null}
MutatorChoices(options) == IF options = {} THEN {null} ELSE options

\* In the order of the options, whatever the order of the answers.
TranspilerChoices(options) ==
  {Filter(options, chosen) : chosen \in SUBSET ToSet(options)}
ReporterChoices(options) ==
  {Filter(options \o BuiltIn, chosen) : chosen \in SUBSET (ToSet(options) \cup {"html", "dashboard"})}

SelectTestRunner ==
  /\ initPhase = "runner"
  /\ \E options \in Found(TestRunnerOptions) : \E r \in TestRunnerChoices(options) :
       Answer("runner", r, IF r \in {null, "command"} THEN "mutator" ELSE "framework")

SelectTestFramework ==
  /\ initPhase = "framework"
  /\ \E options \in Found(FrameworksFor(answers.runner)) : \E f \in FrameworkChoices(options) :
       Answer("framework", f, "mutator")

SelectMutator ==
  /\ initPhase = "mutator"
  /\ \E options \in Found(MutatorOptions) : \E m \in MutatorChoices(options) : Answer("mutator", m, "transpilers")

SelectTranspilers ==
  /\ initPhase = "transpilers"
  /\ \E options \in FoundInOrder(TranspilerOptions) : \E ts \in TranspilerChoices(options) :
       Answer("transpilers", ts, "reporters")

SelectReporters ==
  /\ initPhase = "reporters"
  /\ \E options \in FoundInOrder(ReporterOptions) : \E rs \in ReporterChoices(options) : Answer("reporters", rs, "write")

----------------------------------------------------------------------------
(* The options that are written *)

\* The packages of what was chosen, in the order of the questions; what Stryker brings itself has none.
ChosenPackages ==
  LET chosen == <<answers.runner, answers.framework, answers.mutator>> \o answers.transpilers \o answers.reporters
  IN  Filter(chosen, ToSet(chosen) \ ({null, "command"} \cup ToSet(BuiltIn)))
Dependencies == UNION ({p.packages : p \in answers.preset} \cup {IF answers.preset = {} THEN ToSet(ChosenPackages) ELSE {}})

\* No runner and no mutator are the empty name; of either init has said that it must be configured manually.
NameOf(selected) == IF selected = null THEN "" ELSE selected
ConfigureTestFramework ==
  IF answers.framework = null THEN [coverageAnalysis |-> "all"]
  ELSE [testFramework |-> answers.framework, coverageAnalysis |-> "perTest"]
Base ==
  Over(ConfigureTestFramework,
       [testRunner |-> NameOf(answers.runner), mutator |-> NameOf(answers.mutator), reporters |-> answers.reporters,
        transpilers |-> answers.transpilers])

\* Object.assign: of several pieces the last one counts.  What could not be fetched is left out.
Assign(object, pieces) == FoldLeft(LAMBDA o, piece : Over(piece, o), object, pieces)
AdditionalPieces(fetched) ==
  LET adding == Filter(ChosenPackages, fetched \cap DOMAIN InitStrykerConfig)
  IN  [i \in DOMAIN adding |-> InitStrykerConfig[adding[i]]]
BugFrameworkLast(fetched) == Over(ConfigureTestFramework, Assign(Base, AdditionalPieces(fetched)))
ConfigObject(fetched) == Assign(Base, AdditionalPieces(fetched))

WritePreset == {p.config : p \in answers.preset}
WriteCustom(failed) == IF answers.preset = {} THEN {ConfigObject(Dependencies \ failed)} ELSE {}

\* The answer to the last question is the kind of file; to write it may fail.
WriteStrykerConfig ==
  /\ initPhase = "write"
  /\ \/ /\ initPhase' = "install"
        /\ \E f \in {JsConfig, JsonConfig} : configFiles' = configFiles \cup {f}
        /\ \E failed \in SUBSET (IF answers.preset # {} THEN {} ELSE Dependencies \cap DOMAIN InitStrykerConfig) :
             /\ unfetched' = failed
             /\ initConfig' \in WritePreset \cup WriteCustom(failed)
     \/ initPhase' = "rejected" /\ UNCHANGED <<configFiles, unfetched, initConfig>>
  /\ UNCHANGED <<answers, installedPackages, gitignore>>

\* An installation that fails is only reported.
InstallNpmDependencies ==
  /\ initPhase = "install"
  /\ initPhase' = "gitignore"
  /\ \E installed \in {{}, Dependencies} : installedPackages' = installed
  /\ UNCHANGED <<configFiles, answers, initConfig, unfetched, gitignore>>

AddStrykerTempFolder ==
  /\ initPhase = "gitignore"
  /\ initPhase' = "resolved"
  /\ gitignore' = IF gitignore = "without" THEN "with" ELSE gitignore
  /\ UNCHANGED <<configFiles, answers, initConfig, unfetched, installedPackages>>

InitializerStep ==
  \/ GuardForExistingConfig \/ SelectPreset \/ SelectTestRunner \/ SelectTestFramework
  \/ SelectMutator \/ SelectTranspilers \/ SelectReporters
  \/ WriteStrykerConfig \/ InstallNpmDependencies \/ AddStrykerTempFolder

----------------------------------------------------------------------------
\* `stryker run` on such options: with the defaults, OptionsValidator and the constructors of the plugins that cannot
\* measure coverage look at the coverage analysis; and PluginLoader.resolve throws for each name that is not loaded.
\* The default of `plugins` is all of @stryker-mutator that is installed.  A test framework that is not loaded is
\* only warned of.
CoverageAccepted(written) ==
  LET options == Over(written, [transpilers |-> << >>, coverageAnalysis |-> "off"])
  IN  /\ Len(options.transpilers) > 1 => options.coverageAnalysis = "off"
      /\ options.coverageAnalysis # "off" =>
           /\ options.testRunner # "wct"
           /\ \A i \in DOMAIN options.transpilers : options.transpilers[i] \notin {"babel", "webpack"}
PluginsOf(written) ==
  LET options == Over(written, [transpilers |-> << >>])
  IN  {options.mutator} \cup ({options.testRunner} \ {"command"}) \cup ToSet(options.transpilers)
      \cup (ToSet(options.reporters) \ ToSet(BuiltIn))
LoadedPlugins == Dependencies \ OtherPackages
AcceptedByRun(written, named) == CoverageAccepted(written) /\ PluginsOf(written) \ named \subseteq LoadedPlugins

\* What init has written, run accepts once the packages are installed, for all presets and for all answers, but that
\* npm may have had no test runner or no mutator to offer: its name is then empty, no plugin has that name, and the
\* user must name one first, as init says.  And a package that would have switched the coverage analysis off may not
\* have been asked, of which init warns.  All this is of Stryker's own packages: another may add anything, and is not
\* loaded.  Each of them that cannot measure coverage says so in what it adds to the options, and that comes behind
\* the coverage analysis of the test framework.
ToBeNamed == IF answers.preset = {} /\ null \in {answers.runner, answers.mutator} THEN {""} ELSE {}
InitializedConfigRuns ==
  initConfig # NoConfig /\ Dependencies \cap OtherPackages = {} =>
    \/ AcceptedByRun(initConfig, ToBeNamed)
    \/ /\ \E p \in unfetched : SaysOff(p)
       /\ AcceptedByRun(Over([coverageAnalysis |-> "off"], initConfig), ToBeNamed)
=============================================================================
