------------------------------- MODULE Stryker -------------------------------
(***************************************************************************)
(* The life of a run: StrykerCli, Stryker.runMutationTest, the initial     *)
(* test run, the transpiler's child process, the temporary directory, and  *)
(* what is left behind when a phase fails.  Configuration, InputFiles,     *)
(* InitialTestRun and Reporters are its parts; the mutation test run is    *)
(* any that MutationTestRun allows.                                        *)
(***************************************************************************)
EXTENDS Configuration, InputFiles, InitialTestRun, Reporters

CONSTANTS Mutants, Verdicts,
          MutantFile, MutatorName,   \* the file of each mutant, and the name of its mutator
          NoBreak,             \* the value of thresholds.break when it is not a number
          Givens,              \* what a user may give: files, options, plugins
          GrossTimes           \* how long the initial test run may take

MutantStatus == {"Killed", "Survived", "TimedOut", "NoCoverage", "RuntimeError", "TranspileError"}
ASSUME LifeCycleAssumption ==
  /\ IsFiniteSet(Mutants) /\ Verdicts \in [Mutants -> SUBSET MutantStatus]
  /\ TestTime \in [DOMAIN TestTime -> Nat] /\ IsFiniteSet(DOMAIN TestTime)
  /\ TimeoutFactor \in Nat \ {0} /\ TimeoutMS \in Nat /\ GrossTimes \subseteq Nat

\* The defaults are valid.  What is given for a list is a list (any other value is refused in the end), and a config
\* file that is absent says nothing.
IsList(value) == value \in Seq(Range(value))
ASSUME GivenAssumption ==
  /\ Validate(<< >>, CoreSchema) # {}
  /\ \A key \in ListOptions \cap DOMAIN CoreSchema : IsList(CoreSchema[key].default)
  /\ \A g \in Givens :
       /\ IsList(g.patterns.files) /\ IsList(g.patterns.mutate)
       /\ \A key \in ListOptions \cap DOMAIN g.cli : IsList(g.cli[key])
       /\ \A key \in ListOptions \cap DOMAIN g.contents : IsList(g.contents[key])
       /\ g.file = "absent" => DOMAIN g.contents = {}

VARIABLES phase,       \* what runMutationTest() awaits
          outcome,     \* of its promise; "failing" is an error caught by the `finally`
          exitCode,    \* process.exitCode
          given,       \* what the user gives, until the options are made from it
          options,     \* what the rest of the run reads of them
          children,    \* the child processes: of the initial sandbox, of the transpiler, of the pool
          tempDir,     \* "none", "present", "gone", or "stuck" if it could not be deleted
          logServer,   \* whether log4js's server listens
          initial,     \* the initial run result: the tests that ran, the measured time, the overhead
          uncovered,   \* the mutants that no test covers
          toDispose,   \* what injector.dispose() has not disposed yet
          results, run \* of the mutation test run

lifeVars == <<phase, outcome, exitCode, given, options, children, tempDir, logServer, initial, uncovered, toDispose>>
runVars == <<results, run>>
vars == <<lifeVars, runVars, inputVars, reporterVars>>

MutationTest == INSTANCE MutationTestRun

Phases == {"start", "configureLogging", "resolve", "transpile", "createSandbox", "initialRun", "disposeSandbox",
           "transpileAll", "match", "test", "wrapUp", "dispose", "shutdown", "ended", "exited"}
Children == {"initial", "transpiler", "endingTranspiler", "pool"}
NoInitialRun == [tests |-> {}, gross |-> 0, overhead |-> 0]
NoGiven == [none |-> TRUE]

TypeOK ==
  /\ phase \in Phases
  /\ outcome \in {"pending", "failing", "resolved", "rejected"}
  /\ exitCode \in {0, 1}
  /\ children \subseteq Children
  /\ tempDir \in {"none", "present", "gone", "stuck"} /\ logServer \in BOOLEAN
  /\ initial.tests \subseteq Tests /\ initial.gross \in Nat
  /\ toDispose \subseteq {"pool", "transpiler", "tempDir"}
  /\ filesToMutate \subseteq files
  /\ results \in [Mutants -> MutantStatus \cup {"none", "unmatched"}]
  /\ ReportersTypeOK(Mutants)

Init ==
  /\ phase = "start" /\ outcome = "pending" /\ exitCode = 0
  /\ given \in Givens /\ options = << >>
  /\ children = {} /\ tempDir = "none" /\ logServer = FALSE
  /\ initial = NoInitialRun /\ uncovered = {} /\ toDispose = {}
  /\ patterns = given.patterns /\ reading = {} /\ files = {} /\ filesToMutate = {}
  /\ MutationTest!Init
  /\ InitReporters

----------------------------------------------------------------------------
(* StrykerCli: a rejection is logged and sets the exit code, and nothing else ends the process. *)
Reject(end) == /\ phase' = end
               /\ outcome' = "rejected"
               /\ exitCode' = 1

Continue(next) == /\ phase' = next
                  /\ UNCHANGED <<outcome, exitCode>>

\* A failure before the `try`: nothing is disposed of.
FailsBeforeTry == Reject("ended")

----------------------------------------------------------------------------
(* The constructor, and the phases before the `try` *)

\* What the code behind reads of the options.
Read(o) == [transpilers |-> Len(o.transpilers),
            reporters |-> {o.reporters[i] : i \in DOMAIN o.reporters},
            excluded |-> {o.excludedMutations[i] : i \in DOMAIN o.excludedMutations},
            break |-> o["thresholds.break"]]

Construct ==
  /\ phase = "start"
  /\ LET built == BuildOptions(given)
     IN  \/ /\ built = {} /\ FailsBeforeTry
            /\ UNCHANGED options
         \/ /\ \E o \in built : options' = Read(o)
            /\ Continue("configureLogging")
  /\ given' = IF BuildOptions(given) = {} THEN NoGiven
              ELSE [none |-> FALSE, isTTY |-> given.isTTY, reporterPlugins |-> given.reporterPlugins]
  /\ UNCHANGED <<children, tempDir, logServer, initial, uncovered, toDispose, runVars, inputVars, reporterVars>>

\* The logging server listens; then the reporters are created, because InputFileResolver asks for them,
\* and the input files are looked for and read.
ConfigureLoggingServer ==
  /\ phase = "configureLogging"
  /\ logServer' = TRUE
  /\ given' = NoGiven
  /\ \/ /\ options.reporters \subseteq given.reporterPlugins
        /\ CreateReporters(options.reporters, given.isTTY)
        /\ \/ StartReading /\ Continue("resolve")
           \/ FailsBeforeTry /\ UNCHANGED inputVars     \* a glob, or git, fails
     \/ /\ ~(options.reporters \subseteq given.reporterPlugins)
        /\ FailsBeforeTry
        /\ UNCHANGED <<inputVars, reporterVars>>
  /\ UNCHANGED <<options, children, tempDir, initial, uncovered, toDispose, runVars>>

NoFreePort ==
  /\ phase = "configureLogging"
  /\ FailsBeforeTry
  /\ UNCHANGED <<given, options, children, tempDir, logServer, initial, uncovered, toDispose, runVars, inputVars, reporterVars>>

\* Reads go on when one has failed.
ReadInput ==
  /\ \E f \in reading : \/ FileIsGone(f) /\ UNCHANGED reporterVars
                        \/ FileIsRead(f) /\ OnSourceFileRead
  /\ UNCHANGED <<lifeVars, runVars>>

ReadFails ==
  /\ phase = "resolve"
  /\ \E f \in reading : reading' = reading \ {f}
  /\ FailsBeforeTry
  /\ UNCHANGED <<given, options, children, tempDir, logServer, initial, uncovered, toDispose, runVars,
                 patterns, files, filesToMutate, reporterVars>>

\* Without files the run resolves at once, and not even the logging server is shut down.
FilesResolved ==
  /\ phase = "resolve"
  /\ CollectFiles
  /\ OnAllSourceFilesRead
  /\ IF files = {} THEN /\ phase' = "ended" /\ outcome' = "resolved"
                        /\ UNCHANGED <<exitCode, tempDir>>
                   ELSE Continue("transpile") /\ tempDir' = "present"
  /\ UNCHANGED <<given, options, children, logServer, initial, uncovered, toDispose, runVars>>

----------------------------------------------------------------------------
(* InitialTestExecutor.run *)

TranspileInitially ==
  /\ phase = "transpile"
  /\ FailsBeforeTry \/ Continue("createSandbox")
  /\ UNCHANGED <<given, options, children, tempDir, logServer, initial, uncovered, toDispose, runVars, inputVars, reporterVars>>

\* A sandbox whose init() rejects is left with its child.
CreateInitialSandbox ==
  /\ phase = "createSandbox"
  /\ \/ Continue("initialRun") /\ children' = children \cup {"initial"}
     \/ FailsBeforeTry /\ children' \in {children, children \cup {"initial"}}
  /\ UNCHANGED <<given, options, tempDir, logServer, initial, uncovered, toDispose, runVars, inputVars, reporterVars>>

\* The tests ran; the sandbox is disposed before the result is looked at.
InitialRunResolves ==
  /\ phase = "initialRun"
  /\ \E tests \in SUBSET Tests, gross \in GrossTimes :
       initial' = [tests |-> tests, gross |-> gross, overhead |-> Overhead(gross, tests)]
  /\ Continue("disposeSandbox")
  /\ UNCHANGED <<given, options, children, tempDir, logServer, uncovered, toDispose, runVars, inputVars, reporterVars>>

\* run() rejects: `sandbox.dispose()` is skipped.
InitialRunRejects ==
  /\ phase = "initialRun"
  /\ FailsBeforeTry
  /\ UNCHANGED <<given, options, children, tempDir, logServer, initial, uncovered, toDispose, runVars, inputVars, reporterVars>>

InitialSandboxDisposed ==
  /\ phase = "disposeSandbox"
  /\ children' = children \ {"initial"}
  /\ \E status \in {"Complete", "Error", "Timeout"}, failed \in {{}, initial.tests} :
       IF ValidateResult(status, failed) THEN Continue("transpileAll") ELSE FailsBeforeTry
  /\ UNCHANGED <<given, options, tempDir, logServer, initial, uncovered, toDispose, runVars, inputVars, reporterVars>>

InitialDisposeRejects ==
  /\ phase = "disposeSandbox"
  /\ FailsBeforeTry
  /\ UNCHANGED <<given, options, children, tempDir, logServer, initial, uncovered, toDispose, runVars, inputVars, reporterVars>>

----------------------------------------------------------------------------
(* Between the initial run and the `try` *)

\* transpilerFactory: only with transpilers there is a child process.
ForkTranspiler ==
  /\ phase = "transpileAll" /\ "transpiler" \notin children
  /\ options.transpilers > 0
  /\ children' = children \cup {"transpiler"}
  /\ UNCHANGED <<phase, outcome, exitCode, given, options, tempDir, logServer, initial, uncovered, toDispose,
                 runVars, inputVars, reporterVars>>

TranspileAll ==
  /\ phase = "transpileAll"
  /\ options.transpilers > 0 => "transpiler" \in children
  /\ \/ Continue("match")
     \/ options.transpilers > 0 /\ FailsBeforeTry
  /\ UNCHANGED <<given, options, children, tempDir, logServer, initial, uncovered, toDispose, runVars, inputVars, reporterVars>>

\* Only files to mutate have mutants, and some kinds of them may be excluded.
Found == {m \in Mutants : MutantFile[m] \in filesToMutate}
RemoveExcludedMutants(mutants) == {m \in mutants : MutatorName[m] \notin options.excluded}

BugForgetsTranspiler(created) == {"tempDir"} \cup ({"pool"} \cap created)
\* What injector.dispose() disposes of: whatever the injectors have created.
Disposables(created) == {"tempDir"} \cup ({"transpiler", "pool"} \cap created)

\* mutator.mutate and matchWithMutants; mutants whose code no test covers are not tested.
MatchMutants ==
  /\ phase = "match"
  /\ \E found \in SUBSET Found :
     LET matched == RemoveExcludedMutants(found)
     IN  /\ uncovered' \in SUBSET matched
         /\ OnAllMutantsMatchedWithTests(matched, uncovered')
         /\ results' = [m \in Mutants |-> IF m \in matched THEN "none" ELSE "unmatched"]
         /\ IF initial.tests # {} /\ matched # {}
            THEN /\ Continue("test")
                 /\ children' = children \cup {"pool"}
                 /\ UNCHANGED toDispose
            ELSE /\ Continue("dispose")
                 /\ toDispose' = Disposables(children)
                 /\ UNCHANGED children
  /\ UNCHANGED <<given, options, tempDir, logServer, initial, run, inputVars>>

\* The mutator plugin is missing, or throws; or the source mapper rejects.
MatchingFails ==
  /\ phase = "match"
  /\ FailsBeforeTry
  /\ UNCHANGED <<given, options, children, tempDir, logServer, initial, uncovered, toDispose,
                 runVars, inputVars, reporterVars>>

----------------------------------------------------------------------------
(* The mutation test run, the report and the exit code *)

Tested == {m \in Mutants : results[m] # "unmatched"}

\* The report has the mutants per file; the score counts the detected among the valid ones.
FileResults(res) ==
  [f \in {MutantFile[m] : m \in Tested} |-> [m \in {n \in Tested : MutantFile[n] = f} |-> res[m]]]
Count(report, statuses) ==
  Cardinality({fm \in UNION {{f} \X DOMAIN report[f] : f \in DOMAIN report} : report[fm[1]][fm[2]] \in statuses})
Detected == {"Killed", "TimedOut"}
Valid == Detected \cup {"Survived", "NoCoverage"}

BugAtMostThreshold(report) ==
  IF options.break # NoBreak /\ Count(report, Detected) * 100 <= options.break * Count(report, Valid)
  THEN 1 ELSE exitCode
\* Without a valid mutant the score is not a number, and not under the threshold.
DetermineExitCode(report) ==
  IF options.break # NoBreak /\ Count(report, Detected) * 100 < options.break * Count(report, Valid)
  THEN 1 ELSE exitCode

MutantIsTested(m) ==
  /\ phase = "test"
  /\ MutationTest!Report(m)
  /\ results'[m] = "NoCoverage" => m \in uncovered
  /\ m \in uncovered => results'[m] \in {"NoCoverage", "TranspileError"}
  /\ IF run' = "active"
     THEN OnMutantTested(m, results'[m]) /\ Continue("test")
     ELSE /\ OnLastMutantTested(m, results'[m])
          /\ exitCode' = DetermineExitCode(FileResults(results'))
          /\ phase' = "wrapUp"
          /\ UNCHANGED outcome
  /\ UNCHANGED <<given, options, children, tempDir, logServer, initial, uncovered, toDispose, inputVars>>

\* The `finally`, with the error in hand.
MutationTestFails ==
  /\ phase = "test"
  /\ MutationTest!Fail
  /\ phase' = "dispose" /\ outcome' = "failing"
  /\ toDispose' = Disposables(children)
  /\ UNCHANGED <<exitCode, given, options, children, tempDir, logServer, initial, uncovered, inputVars, reporterVars>>

WrapUpDone ==
  /\ phase = "wrapUp" /\ BroadcastWrapUpDone
  /\ Continue("dispose")
  /\ toDispose' = Disposables(children)
  /\ UNCHANGED <<given, options, children, tempDir, logServer, initial, uncovered, runVars, inputVars, reporterVars>>

----------------------------------------------------------------------------
(* The `finally`: injector.dispose() and LogConfigurator.shutdown().  In which order the injectors dispose is theirs. *)

DisposeTempDir ==
  /\ "tempDir" \in toDispose
  /\ tempDir' \in {"gone", "stuck"}          \* a failure to delete it is only logged
  /\ UNCHANGED <<children>>

\* Not awaited.
DisposeTranspiler ==
  /\ "transpiler" \in toDispose
  /\ children' = (children \ {"transpiler"}) \cup {"endingTranspiler"}
  /\ UNCHANGED tempDir

DisposePool ==
  /\ "pool" \in toDispose
  /\ children' = children \ {"pool"}
  /\ UNCHANGED tempDir

Dispose ==
  /\ phase = "dispose"
  /\ \/ DisposeTempDir /\ toDispose' = toDispose \ {"tempDir"}
     \/ DisposeTranspiler /\ toDispose' = toDispose \ {"transpiler"}
     \/ DisposePool /\ toDispose' = toDispose \ {"pool"}
  /\ Continue(IF toDispose' = {} THEN "shutdown" ELSE "dispose")
  /\ UNCHANGED <<given, options, logServer, initial, uncovered, runVars, inputVars, reporterVars>>

\* SandboxPool.dispose() rejects when a sandbox could not be created: the rest is skipped.
PoolDisposeRejects ==
  /\ phase = "dispose" /\ "pool" \in toDispose
  /\ Reject("ended")
  /\ UNCHANGED <<given, options, children, tempDir, logServer, initial, uncovered, toDispose, runVars, inputVars, reporterVars>>

Shutdown ==
  /\ phase = "shutdown"
  /\ logServer' = FALSE
  /\ IF outcome = "failing" THEN Reject("ended")
     ELSE phase' = "ended" /\ outcome' = "resolved" /\ UNCHANGED exitCode
  /\ UNCHANGED <<given, options, children, tempDir, initial, uncovered, toDispose, runVars, inputVars, reporterVars>>

TranspilerEnds ==
  /\ "endingTranspiler" \in children
  /\ children' = children \ {"endingTranspiler"}
  /\ UNCHANGED <<phase, outcome, exitCode, given, options, tempDir, logServer, initial, uncovered, toDispose,
                 runVars, inputVars, reporterVars>>

\* node exits when it waits for nothing: no child, no timer, no file.  log4js's server does not count.
KeepsAlive == children # {} \/ progress.interval \/ reading # {} \/ \E r \in reporters : Unfinished(r)

Exit ==
  /\ phase = "ended" /\ ~KeepsAlive
  /\ phase' = "exited"
  /\ UNCHANGED <<outcome, exitCode, given, options, children, tempDir, logServer, initial, uncovered, toDispose,
                 runVars, inputVars, reporterVars>>

----------------------------------------------------------------------------
InitialTestStep ==
  \/ TranspileInitially \/ CreateInitialSandbox \/ InitialRunResolves \/ InitialRunRejects
  \/ InitialSandboxDisposed \/ InitialDisposeRejects

StrykerStep ==
  \/ Construct \/ ConfigureLoggingServer \/ NoFreePort \/ ReadFails \/ FilesResolved
  \/ InitialTestStep
  \/ ForkTranspiler \/ TranspileAll \/ MatchMutants \/ MatchingFails
  \/ MutationTestFails \/ WrapUpDone \/ Dispose \/ PoolDisposeRejects \/ Shutdown
  \/ \E m \in Mutants : MutantIsTested(m)

ReportersWork == ReporterStep /\ UNCHANGED <<lifeVars, runVars, inputVars>>

Next == StrykerStep \/ ReadInput \/ ReportersWork \/ TranspilerEnds \/ Exit

Spec == Init /\ [][Next]_vars

\* Whatever Stryker awaits settles: reads and writes, the wrapUp() of a reporter, and the phases themselves.
FairSpec == /\ Spec
            /\ WF_vars(StrykerStep) /\ WF_vars(ReadInput) /\ WF_vars(ReportersWork)
            /\ WF_vars(TranspilerEnds) /\ WF_vars(Exit)

----------------------------------------------------------------------------
(* Properties *)

\* When wrapUp() is over no reporter still writes or uploads, but one of which something failed: one reporter's
\* error does not keep Stryker from waiting for the others (BroadcastReporter.broadcast).
WrapUpWaitsForWork ==
  run = "completed" /\ phase # "wrapUp" =>
    \A r \in DOMAIN wrapUps : Unfinished(r) => wrapUps[r] = "rejected"

\* The progress never exceeds the total, and reaches it: mutants without coverage count on neither side
\* (ProgressKeeper), although they are reported like the others.
ProgressAddsUp ==
  /\ progress.tested <= progress.total
  /\ progress.survived + progress.timedOut <= progress.tested
  /\ run = "completed" => progress.tested = progress.total

\* The run is settled and its `finally` went through: no child is left but the transpiler that is ending, the
\* temporary directory is gone if it could be deleted, and logging is shut down.  Also the initial test run's
\* child is gone by the time there is another one.
NothingIsLeft ==
  /\ outcome = "resolved" \/ (outcome = "rejected" /\ run = "failed" /\ toDispose = {}) =>
       /\ children \subseteq {"endingTranspiler"}
       /\ tempDir # "present"
       /\ tempDir # "none" => ~logServer
  /\ "initial" \in children => children = {"initial"}

\* The exit code is 1 if and only if the run failed, or ended under the threshold.
ExitCodeTells ==
  LET Of(statuses) == Cardinality({m \in Mutants : results[m] \in statuses})
      UnderThreshold == /\ run = "completed" /\ options.break # NoBreak
                        /\ 100 * Of({"Killed", "TimedOut"}) < options.break *
                              (Of({"Killed", "TimedOut"}) + Of({"Survived", "NoCoverage"}))
  IN  outcome \in {"resolved", "rejected"} => (exitCode = 1 <=> outcome = "rejected" \/ UnderThreshold)

\* A mutant gets at least the time that its tests took in the initial run, on top of timeoutMS, also when the
\* tests' own times add up to more than was measured; and with all tests, the time of the whole run.
TimeoutsCoverTests ==
  phase = "test" =>
    /\ \A selected \in SUBSET initial.tests :
         CalculateTimeout(selected, initial.overhead) >= NetTime(selected) + TimeoutMS
    /\ CalculateTimeout(initial.tests, initial.overhead) >= initial.gross + TimeoutMS

\* Of the patterns that find a file the last one decides, for the files and for those to mutate.
SelectionFollowsPatterns ==
  phase = "resolve" => \A f \in files :
    /\ f \in FilesToMutate <=> Selected(patterns.mutate, f)
    /\ ~patterns.git => Selected(patterns.files, f)

\* What the command line says wins over the config file, which wins over the defaults; only options editors come
\* after it.  A list from the command line overrides as many elements as it has.
Begins(list, other) == Len(list) <= Len(other) /\ SubSeq(other, 1, Len(list)) = list
Overrides(key, value, merged) == IF key \in ListOptions THEN Begins(value, merged) ELSE merged = value
CommandLineWins ==
  phase = "start" => \A o \in BuildOptions(given), key \in DOMAIN CoreSchema \ DOMAIN given.edits :
    CASE key \in DOMAIN given.cli -> Overrides(key, given.cli[key], o[key])
      [] key \in DOMAIN given.contents \ DOMAIN given.cli -> Overrides(key, given.contents[key], o[key])
      [] OTHER -> o[key] = CoreSchema[key].default

\* A list of the command line takes the place of the other (deepMerge.spec.ts:38).
ListsAreOverridden ==
  phase = "start" => \A o \in BuildOptions(given), key \in ListOptions \cap DOMAIN given.cli :
    key \notin DOMAIN given.edits => o[key] = given.cli[key]

\* A run that reported its results ends, and so does the process, but if a sandbox could not be disposed of.
ReportedRunExits == (run = "completed") ~> (phase = "exited" \/ outcome = "rejected")

\* `No tests were executed. Stryker will exit prematurely.' (InitialTestExecutor.ts:126)
ExitsWithoutTests == (outcome = "resolved" /\ files # {} /\ initial.tests = {}) ~> (phase = "exited")
=============================================================================
