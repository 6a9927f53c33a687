----------------------------- MODULE StrykerProofs -----------------------------
(***************************************************************************)
(* The life of a run, for any options, files, mutants and tests: what it   *)
(* leaves behind, its exit code, its progress and the end of its reports;  *)
(* which files, timeouts and options it works with.                        *)
(***************************************************************************)
EXTENDS Stryker, SequenceTheorems, Induction

Early == {"start", "configureLogging", "resolve", "transpile", "createSandbox"}
Initial == {"initialRun", "disposeSandbox"}
Ends == {"ended", "exited"}

\* Which outcome and which state of the mutation test run go with which phase.
PhaseInv ==
  /\ outcome = "failing" => phase \in {"dispose", "shutdown"}
  /\ outcome \in {"resolved", "rejected"} <=> phase \in Ends
  /\ run \in {"active", "completed", "failed"}
  /\ run = "completed" => phase \in {"wrapUp", "dispose", "shutdown"} \cup Ends
  /\ run = "failed" => phase \in {"dispose", "shutdown"} \cup Ends
  /\ phase = "wrapUp" => run = "completed"

\* What is there in each phase, and what of it is still to be disposed of.
Nothing == /\ children \subseteq {"endingTranspiler"}
           /\ tempDir # "present"
           /\ tempDir # "none" => ~logServer
LeftInv ==
  /\ phase \in Early => children = {}
  /\ phase \in Initial => children = {"initial"}
  /\ phase \in {"transpileAll", "match"} => children \subseteq {"transpiler"}
  /\ phase \in {"test", "wrapUp"} => children \subseteq {"transpiler", "pool"}
  /\ phase = "dispose" => children \subseteq toDispose \cup {"endingTranspiler"}
  /\ phase = "shutdown" => children \subseteq {"endingTranspiler"} /\ toDispose = {}
  /\ "initial" \in children => children = {"initial"}
  /\ phase \in {"start", "configureLogging", "resolve"} => tempDir = "none"
  /\ phase \in (Phases \ Ends) \ {"start", "configureLogging", "resolve", "dispose",
       "shutdown"} => tempDir = "present"
  /\ phase = "dispose" /\ tempDir = "present" => "tempDir" \in toDispose
  /\ phase = "shutdown" => tempDir # "present"
  /\ outcome = "resolved" \/ (outcome = "rejected" /\ run = "failed" /\ toDispose = {}) => Nothing

\* The score that the options ask for, over the verdicts there are.
HaveStatus(res, statuses) == Cardinality({m \in Mutants : res[m] \in statuses})
Of(statuses) == HaveStatus(results, statuses)
UnderThreshold ==
  /\ run = "completed" /\ options.break # NoBreak
  /\ 100 * Of({"Killed", "TimedOut"}) < options.break * (Of({"Killed", "TimedOut"}) + Of({"Survived", "NoCoverage"}))
ExitInv ==
  /\ outcome = "rejected" => exitCode = 1
  /\ outcome # "rejected" => (exitCode = 1 <=> UnderThreshold)

\* Until a mutant is tested the progress is that of no mutant, then it is that of the mutants that count.
Counted == {m \in Mutants : results[m] \notin {"none", "unmatched"} /\ m \notin uncovered}
Counts ==
  /\ progress.uncovered = uncovered
  /\ progress.total = Cardinality(Tested) - Cardinality(uncovered)
  /\ progress.tested = Cardinality(Counted)
  /\ progress.survived + progress.timedOut <= progress.tested
ProgressInv ==
  /\ phase \in Early \cup Initial \cup {"transpileAll", "match"} => progress = NoProgress
  /\ phase = "test" => /\ uncovered \subseteq Tested
                       /\ IF ShowsProgress THEN Counts ELSE progress = NoProgress
  /\ ProgressAddsUp

\* Nothing is written or uploaded again once it is done, and no file is read when a mutant is tested.
WrapInv ==
  /\ recorder.folder # "pending" => recorder.waiting = 0
  /\ html.main = "resolved" => ~html.cleaning /\ html.copying = 0
  /\ html.copying > 0 => ~html.cleaning
  /\ phase \notin {"resolve"} \cup Ends \/ run = "completed" => reading = {}
  /\ run # "completed" => DOMAIN wrapUps = {} /\ html.copying = 0 /\ ~html.cleaning
  /\ \A r \in DOMAIN wrapUps :
       /\ wrapUps[r] # "none"
       /\ r = "html" => html.main # "none"
       /\ r = "dashboard" => dashboard # "none"
       /\ phase # "wrapUp" => wrapUps[r] # "pending"
       /\ wrapUps[r] = "resolved" => CASE r = "event-recorder" -> recorder.folder = "resolved" /\ recorder.writing = 0
                                       [] r = "html" -> html.main = "resolved"
                                       [] r = "dashboard" -> dashboard = "resolved"
                                       [] OTHER -> TRUE

-----------------------------------------------------------------------------
(* Types *)

\* The steps of the reporters between the events change nothing but the work of one reporter, and its wrapUp().
LEMMA ReportersWorkSteps ==
  ASSUME ReportersWork
  PROVE  /\ CleanFolder \/ WriteEvent \/ CleanBaseFolder \/ CopyFile \/ UpdateReport
            \/ \E r \in DOMAIN wrapUps : ReporterWrapsUp(r)
         /\ UNCHANGED <<lifeVars, runVars, inputVars, reporters, progress>>
  BY DEF ReportersWork, ReporterStep, CleanFolder, WriteEvent, CleanBaseFolder, CopyFile, UpdateReport,
       ReporterWrapsUp

LEMMA WorkTyped ==
  ASSUME NEW r \in RecorderType
  PROVE  Work(r) \in RecorderType
  BY DEF Work, Promise, RecorderType

\* What happens to the reporters in a step.
LEMMA ReportersUnchanged ==
  ASSUME [Next]_vars
  PROVE  \/ UNCHANGED <<progress, recorder, html, dashboard, wrapUps>> /\ reporters' = reporters
         \/ CreateReporters(options.reporters, given.isTTY) /\ phase = "configureLogging"
         \/ (ReadInput \/ FilesResolved) /\ Record /\ UNCHANGED <<reporters, progress, html, dashboard, wrapUps>>
         \/ MatchMutants
         \/ \E m \in Mutants : MutantIsTested(m)
         \/ ReportersWork
<1> USE DEF reporterVars
<1>1. CASE ConfigureLoggingServer
  BY <1>1 DEF ConfigureLoggingServer
<1>2. CASE FilesResolved
  BY <1>2 DEF FilesResolved, OnAllSourceFilesRead
<1>3. CASE ReadInput
  BY <1>3 DEF ReadInput, OnSourceFileRead
<1>4. CASE Construct \/ NoFreePort \/ ReadFails \/ TranspileInitially \/ CreateInitialSandbox \/ InitialRunResolves
  BY <1>4 DEF Construct, NoFreePort, ReadFails, TranspileInitially, CreateInitialSandbox, InitialRunResolves
<1>5. CASE \/ InitialRunRejects \/ InitialSandboxDisposed \/ InitialDisposeRejects \/ ForkTranspiler
           \/ TranspileAll \/ MatchingFails
  BY <1>5 DEF InitialRunRejects, InitialSandboxDisposed, InitialDisposeRejects, ForkTranspiler, TranspileAll,
       MatchingFails
<1>6. CASE MutationTestFails \/ WrapUpDone \/ Dispose \/ PoolDisposeRejects \/ Shutdown \/ TranspilerEnds \/ Exit
  BY <1>6 DEF MutationTestFails, WrapUpDone, Dispose, PoolDisposeRejects, Shutdown, TranspilerEnds, Exit
<1>7. CASE UNCHANGED vars
  BY <1>7 DEF vars
<1> QED
  BY <1>1, <1>2, <1>3, <1>4, <1>5, <1>6, <1>7 DEF Next, StrykerStep, InitialTestStep

\* The types of the reporters' state.
LEMMA ReportersTypeNext == TypeOK /\ [Next]_vars => ReportersTypeOK(Mutants)'
<1> SUFFICES ASSUME TypeOK, [Next]_vars
             PROVE  ReportersTypeOK(Mutants)'
  OBVIOUS
<1>0. /\ progress \in ProgressType(Mutants) /\ recorder \in RecorderType /\ html \in HtmlType /\ dashboard \in Promise
      /\ \A r \in DOMAIN wrapUps : wrapUps[r] \in Promise
  BY DEF TypeOK, ReportersTypeOK
<1> USE <1>0 DEF ReportersTypeOK
<1>1. CASE UNCHANGED <<progress, recorder, html, dashboard, wrapUps>> /\ reporters' = reporters
  BY <1>1
<1>2. CASE CreateReporters(options.reporters, given.isTTY)
  BY <1>2 DEF CreateReporters, Promise, RecorderType
<1>3. CASE Record /\ UNCHANGED <<reporters, progress, html, dashboard, wrapUps>>
  BY <1>3, WorkTyped DEF Record
<1>4. CASE MatchMutants
  <2>1. PICK found \in SUBSET Found : OnAllMutantsMatchedWithTests(RemoveExcludedMutants(found), uncovered')
                                      /\ uncovered' \in SUBSET RemoveExcludedMutants(found)
    BY <1>4 DEF MatchMutants
  <2> DEFINE matched == RemoveExcludedMutants(found)
  <2>2. matched \subseteq Mutants /\ uncovered' \subseteq matched
    BY <2>1 DEF RemoveExcludedMutants, Found
  <2>3. Cardinality(matched) - Cardinality(uncovered') \in Nat
    <3>1. IsFiniteSet(matched)
      BY <2>2, FS_Subset, LifeCycleAssumption
    <3>2. IsFiniteSet(uncovered') /\ Cardinality(uncovered') <= Cardinality(matched)
      BY <2>2, <3>1, FS_Subset
    <3> QED BY <3>1, <3>2, FS_CardinalityType
  <2> HIDE DEF matched
  <2>4. progress' \in ProgressType(Mutants)
    BY <2>1, <2>2, <2>3 DEF OnAllMutantsMatchedWithTests, MutantsMatched, matched, ProgressType
  <2> QED BY <2>1, <2>4, WorkTyped DEF OnAllMutantsMatchedWithTests, Record
<1>5. ASSUME NEW m \in Mutants, MutantIsTested(m)
      PROVE  ReportersTypeOK(Mutants)'
  <2>1. ASSUME NEW status
        PROVE  /\ MutantTested(m, status) \in ProgressType(Mutants)
               /\ AllMutantsTested(MutantTested(m, status)) \in ProgressType(Mutants)
    <3>1. \A a, b, c \in Nat : [progress EXCEPT !.tested = a, !.survived = b, !.timedOut = c] \in ProgressType(Mutants)
      BY DEF ProgressType
    <3>2. progress.tested \in Nat /\ progress.survived \in Nat /\ progress.timedOut \in Nat
      BY DEF ProgressType
    <3>3. \A a \in {0, 1} : progress.tested + a \in Nat /\ progress.survived + a \in Nat /\ progress.timedOut + a \in Nat
      BY <3>2
    <3>4. MutantTested(m, status) \in ProgressType(Mutants)
      BY <3>1, <3>3 DEF MutantTested
    <3>5. \A p \in ProgressType(Mutants) : AllMutantsTested(p) \in ProgressType(Mutants)
      BY DEF AllMutantsTested, ProgressType
    <3> QED BY <3>4, <3>5
  <2>2. CASE OnMutantTested(m, results'[m])
    BY <2>1, <2>2, WorkTyped DEF OnMutantTested, Record
  <2>3. CASE OnLastMutantTested(m, results'[m])
    <3>1. recorder' \in RecorderType
      BY <2>3, WorkTyped DEF OnLastMutantTested
    <3>2. html' \in HtmlType /\ dashboard' \in Promise
      BY <2>3 DEF OnLastMutantTested, GenerateReport, SendReport, Promise, HtmlType
    <3>3. \A r \in DOMAIN wrapUps' : wrapUps'[r] \in Promise
      BY <2>3 DEF OnLastMutantTested, WrappingUp, Promise
    <3> QED BY <2>1, <2>3, <3>1, <3>2, <3>3 DEF OnLastMutantTested
  <2> QED BY <1>5, <2>2, <2>3 DEF MutantIsTested
<1>6. CASE ReportersWork
  <2>1. CASE CleanFolder
    <3>1. /\ [recorder EXCEPT !.folder = "resolved", !.waiting = 0, !.writing = recorder.waiting] \in RecorderType
          /\ [recorder EXCEPT !.folder = "rejected", !.waiting = 0] \in RecorderType
      BY DEF RecorderType, Promise
    <3> QED BY <2>1, <3>1 DEF CleanFolder
  <2>2. CASE WriteEvent
    <3>1. \A writing \in Nat, failed \in BOOLEAN : [recorder EXCEPT !.writing = writing, !.failed = failed] \in RecorderType
      BY DEF RecorderType
    <3>2. recorder.failed \in BOOLEAN /\ recorder.writing \in Nat
      BY DEF RecorderType
    <3>3. recorder.writing - 1 \in Nat
      BY <2>2, <3>2 DEF WriteEvent
    <3> QED BY <2>2, <3>1, <3>2, <3>3 DEF WriteEvent
  <2>3. CASE CleanBaseFolder
    <3>1. /\ \A n \in 0..ReportFiles : [html EXCEPT !.cleaning = FALSE, !.copying = n] \in HtmlType
          /\ [html EXCEPT !.cleaning = FALSE, !.main = "rejected"] \in HtmlType
      BY DEF HtmlType, Promise
    <3>2. ReportFiles \in 0..ReportFiles
      BY ReportersAssumption
    <3> QED BY <2>3, <3>1, <3>2 DEF CleanBaseFolder
  <2>4. CASE CopyFile
    <3>1. \A n \in 0..ReportFiles, main \in Promise : [html EXCEPT !.copying = n, !.main = main] \in HtmlType
      BY DEF HtmlType
    <3>3. html.copying - 1 \in 0..ReportFiles
      BY <2>4, ReportersAssumption DEF CopyFile, HtmlType
    <3>2. PICK main \in Promise : html' = [html EXCEPT !.copying = html.copying - 1, !.main = main]
      BY <2>4 DEF CopyFile, Promise, HtmlType
    <3> QED BY <2>4, <3>1, <3>2, <3>3 DEF CopyFile
  <2>5. CASE UpdateReport
    BY <2>5 DEF UpdateReport, Promise
  <2>6. ASSUME NEW r \in DOMAIN wrapUps, ReporterWrapsUp(r)
        PROVE  ReportersTypeOK(Mutants)'
    <3>1. PICK result \in WrapUpResults(r) : wrapUps' = [wrapUps EXCEPT ![r] = result]
      BY <2>6 DEF ReporterWrapsUp
    <3>2. result \in Promise
      BY <3>1 DEF WrapUpResults, RecorderWrapUp, Promise, HtmlType
    <3> QED BY <2>6, <3>1, <3>2 DEF ReporterWrapsUp, working
  <2> QED BY <1>6, ReportersWorkSteps, <2>1, <2>2, <2>3, <2>4, <2>5, <2>6
<1> QED
  BY <1>1, <1>2, <1>3, <1>4, <1>5, <1>6, ReportersUnchanged

LEMMA TypeNext == TypeOK /\ [Next]_vars => TypeOK'
<1> SUFFICES ASSUME TypeOK, [Next]_vars
             PROVE  TypeOK'
  OBVIOUS
<1>1. CASE Construct
  BY <1>1, LifeCycleAssumption, ReportersTypeNext DEF Construct, FailsBeforeTry, Reject, Continue, vars, lifeVars,
       runVars, inputVars, reporterVars, TypeOK, Phases, Children
<1>2. CASE ConfigureLoggingServer
  BY <1>2, LifeCycleAssumption, ReportersTypeNext DEF ConfigureLoggingServer, FailsBeforeTry, Reject, Continue,
       CreateReporters, StartReading, vars, lifeVars, runVars, inputVars, reporterVars, TypeOK, Phases, Children
<1>3. CASE NoFreePort
  BY <1>3, LifeCycleAssumption, ReportersTypeNext DEF NoFreePort, FailsBeforeTry, Reject, Continue, vars, lifeVars,
       runVars, inputVars, reporterVars, TypeOK, Phases, Children
<1>4. CASE ReadFails
  BY <1>4, LifeCycleAssumption, ReportersTypeNext DEF ReadFails, FailsBeforeTry, Reject, Continue, vars, lifeVars,
       runVars, inputVars, reporterVars, TypeOK, Phases, Children
<1>5. CASE FilesResolved
  BY <1>5, LifeCycleAssumption, ReportersTypeNext DEF FilesResolved, FailsBeforeTry, Reject, Continue, CollectFiles,
       FilesToMutate, OnAllSourceFilesRead, Record, Work, vars, lifeVars, runVars, inputVars, reporterVars, TypeOK,
       Phases, Children
<1>6. CASE TranspileInitially
  BY <1>6, LifeCycleAssumption, ReportersTypeNext DEF TranspileInitially, FailsBeforeTry, Reject, Continue, vars,
       lifeVars, runVars, inputVars, reporterVars, TypeOK, Phases, Children
<1>7. CASE CreateInitialSandbox
  BY <1>7, LifeCycleAssumption, ReportersTypeNext DEF CreateInitialSandbox, FailsBeforeTry, Reject, Continue, vars,
       lifeVars, runVars, inputVars, reporterVars, TypeOK, Phases, Children
<1>8. CASE InitialRunResolves
  BY <1>8, LifeCycleAssumption, ReportersTypeNext DEF InitialRunResolves, FailsBeforeTry, Reject, Continue, vars,
       lifeVars, runVars, inputVars, reporterVars, TypeOK, Phases, Children
<1>9. CASE InitialRunRejects
  BY <1>9, LifeCycleAssumption, ReportersTypeNext DEF InitialRunRejects, FailsBeforeTry, Reject, Continue, vars,
       lifeVars, runVars, inputVars, reporterVars, TypeOK, Phases, Children
<1>10. CASE InitialSandboxDisposed
  BY <1>10, LifeCycleAssumption, ReportersTypeNext DEF InitialSandboxDisposed, FailsBeforeTry, Reject, Continue,
       vars, lifeVars, runVars, inputVars, reporterVars, TypeOK, Phases, Children
<1>11. CASE InitialDisposeRejects
  BY <1>11, LifeCycleAssumption, ReportersTypeNext DEF InitialDisposeRejects, FailsBeforeTry, Reject, Continue, vars,
       lifeVars, runVars, inputVars, reporterVars, TypeOK, Phases, Children
<1>12. CASE ForkTranspiler
  BY <1>12, LifeCycleAssumption, ReportersTypeNext DEF ForkTranspiler, FailsBeforeTry, Reject, Continue, vars,
       lifeVars, runVars, inputVars, reporterVars, TypeOK, Phases, Children
<1>13. CASE TranspileAll
  BY <1>13, LifeCycleAssumption, ReportersTypeNext DEF TranspileAll, FailsBeforeTry, Reject, Continue, vars,
       lifeVars, runVars, inputVars, reporterVars, TypeOK, Phases, Children
<1>14. CASE MatchMutants
  BY <1>14, LifeCycleAssumption, ReportersTypeNext DEF MatchMutants, FailsBeforeTry, Reject, Continue, Disposables,
       OnAllMutantsMatchedWithTests, Record, Work, vars, lifeVars, runVars, inputVars, reporterVars, TypeOK, Phases,
       Children
<1>15. CASE MatchingFails
  BY <1>15, LifeCycleAssumption, ReportersTypeNext DEF MatchingFails, FailsBeforeTry, Reject, Continue, vars,
       lifeVars, runVars, inputVars, reporterVars, TypeOK, Phases, Children
<1>16. CASE MutationTestFails
  BY <1>16, LifeCycleAssumption, ReportersTypeNext DEF MutationTestFails, MutationTest!Fail, Disposables, vars,
       lifeVars, runVars, inputVars, reporterVars, TypeOK, Phases, Children
<1>17. CASE WrapUpDone
  BY <1>17, LifeCycleAssumption, ReportersTypeNext DEF WrapUpDone, FailsBeforeTry, Reject, Continue, Disposables,
       vars, lifeVars, runVars, inputVars, reporterVars, TypeOK, Phases, Children
<1>18. CASE Dispose
  BY <1>18, LifeCycleAssumption, ReportersTypeNext DEF Dispose, FailsBeforeTry, Reject, Continue, DisposeTempDir,
       DisposeTranspiler, DisposePool, vars, lifeVars, runVars, inputVars, reporterVars, TypeOK, Phases, Children
<1>19. CASE PoolDisposeRejects
  BY <1>19, LifeCycleAssumption, ReportersTypeNext DEF PoolDisposeRejects, FailsBeforeTry, Reject, Continue, vars,
       lifeVars, runVars, inputVars, reporterVars, TypeOK, Phases, Children
<1>20. CASE Shutdown
  BY <1>20, LifeCycleAssumption, ReportersTypeNext DEF Shutdown, FailsBeforeTry, Reject, Continue, vars, lifeVars,
       runVars, inputVars, reporterVars, TypeOK, Phases, Children
<1>21. ASSUME NEW m \in Mutants, MutantIsTested(m)
      PROVE  TypeOK'
  <2>1. results' \in [Mutants -> MutantStatus \cup {"none", "unmatched"}]
    BY <1>21, LifeCycleAssumption DEF MutantIsTested, MutationTest!Report, TypeOK
  <2> QED BY <1>21, <2>1, ReportersTypeNext DEF MutantIsTested, Continue, DetermineExitCode, vars, lifeVars, runVars,
       inputVars, TypeOK, Phases, Children
<1>22. CASE ReadInput
  BY <1>22, LifeCycleAssumption, ReportersTypeNext DEF ReadInput, FileIsGone, FileIsRead, OnSourceFileRead, Record,
       vars, lifeVars, runVars, inputVars, reporterVars, TypeOK, Phases, Children
<1>23. CASE ReportersWork
  BY <1>23, ReportersWorkSteps, LifeCycleAssumption, ReportersTypeNext DEF vars, lifeVars, runVars, inputVars,
       reporterVars, TypeOK, Phases, Children
<1>24. CASE TranspilerEnds
  BY <1>24, LifeCycleAssumption, ReportersTypeNext DEF TranspilerEnds, vars, lifeVars, runVars, inputVars,
       reporterVars, TypeOK, Phases, Children
<1>25. CASE Exit
  BY <1>25, LifeCycleAssumption, ReportersTypeNext DEF Exit, vars, lifeVars, runVars, inputVars, reporterVars,
       TypeOK, Phases, Children
<1>26. CASE UNCHANGED vars
  BY <1>26, LifeCycleAssumption, ReportersTypeNext DEF vars, lifeVars, runVars, inputVars, reporterVars, TypeOK,
       Phases, Children
<1> QED
  BY <1>1, <1>2, <1>3, <1>4, <1>5, <1>6, <1>7, <1>8, <1>9, <1>10, <1>11, <1>12, <1>13, <1>14, <1>15, <1>16, <1>17,
       <1>18, <1>19, <1>20, <1>21, <1>22, <1>23, <1>24, <1>25, <1>26 DEF Next, StrykerStep, InitialTestStep

-----------------------------------------------------------------------------
(* Phases, and what is left *)

LEMMA PhaseNext == PhaseInv /\ [Next]_vars => PhaseInv'
<1> SUFFICES ASSUME PhaseInv, [Next]_vars
             PROVE  PhaseInv'
  OBVIOUS
<1>1. CASE Construct
  BY <1>1 DEF Construct, FailsBeforeTry, Reject, Continue, vars, lifeVars, runVars, inputVars, reporterVars,
       PhaseInv, Ends
<1>2. CASE ConfigureLoggingServer
  BY <1>2 DEF ConfigureLoggingServer, FailsBeforeTry, Reject, Continue, CreateReporters, StartReading, vars,
       lifeVars, runVars, inputVars, reporterVars, PhaseInv, Ends
<1>3. CASE NoFreePort
  BY <1>3 DEF NoFreePort, FailsBeforeTry, Reject, Continue, vars, lifeVars, runVars, inputVars, reporterVars,
       PhaseInv, Ends
<1>4. CASE ReadFails
  BY <1>4 DEF ReadFails, FailsBeforeTry, Reject, Continue, vars, lifeVars, runVars, inputVars, reporterVars,
       PhaseInv, Ends
<1>5. CASE FilesResolved
  BY <1>5 DEF FilesResolved, FailsBeforeTry, Reject, Continue, CollectFiles, FilesToMutate, OnAllSourceFilesRead,
       Record, Work, vars, lifeVars, runVars, inputVars, reporterVars, PhaseInv, Ends
<1>6. CASE TranspileInitially
  BY <1>6 DEF TranspileInitially, FailsBeforeTry, Reject, Continue, vars, lifeVars, runVars, inputVars, reporterVars,
       PhaseInv, Ends
<1>7. CASE CreateInitialSandbox
  BY <1>7 DEF CreateInitialSandbox, FailsBeforeTry, Reject, Continue, vars, lifeVars, runVars, inputVars,
       reporterVars, PhaseInv, Ends
<1>8. CASE InitialRunResolves
  BY <1>8 DEF InitialRunResolves, FailsBeforeTry, Reject, Continue, vars, lifeVars, runVars, inputVars, reporterVars,
       PhaseInv, Ends
<1>9. CASE InitialRunRejects
  BY <1>9 DEF InitialRunRejects, FailsBeforeTry, Reject, Continue, vars, lifeVars, runVars, inputVars, reporterVars,
       PhaseInv, Ends
<1>10. CASE InitialSandboxDisposed
  BY <1>10 DEF InitialSandboxDisposed, FailsBeforeTry, Reject, Continue, vars, lifeVars, runVars, inputVars,
       reporterVars, PhaseInv, Ends
<1>11. CASE InitialDisposeRejects
  BY <1>11 DEF InitialDisposeRejects, FailsBeforeTry, Reject, Continue, vars, lifeVars, runVars, inputVars,
       reporterVars, PhaseInv, Ends
<1>12. CASE ForkTranspiler
  BY <1>12 DEF ForkTranspiler, FailsBeforeTry, Reject, Continue, vars, lifeVars, runVars, inputVars, reporterVars,
       PhaseInv, Ends
<1>13. CASE TranspileAll
  BY <1>13 DEF TranspileAll, FailsBeforeTry, Reject, Continue, vars, lifeVars, runVars, inputVars, reporterVars,
       PhaseInv, Ends
<1>14. CASE MatchMutants
  BY <1>14 DEF MatchMutants, FailsBeforeTry, Reject, Continue, Disposables, OnAllMutantsMatchedWithTests, Record,
       Work, vars, lifeVars, runVars, inputVars, reporterVars, PhaseInv, Ends
<1>15. CASE MatchingFails
  BY <1>15 DEF MatchingFails, FailsBeforeTry, Reject, Continue, vars, lifeVars, runVars, inputVars, reporterVars,
       PhaseInv, Ends
<1>16. CASE MutationTestFails
  BY <1>16 DEF MutationTestFails, MutationTest!Fail, Disposables, vars, lifeVars, runVars, inputVars, reporterVars,
       PhaseInv, Ends
<1>17. CASE WrapUpDone
  BY <1>17 DEF WrapUpDone, FailsBeforeTry, Reject, Continue, Disposables, vars, lifeVars, runVars, inputVars,
       reporterVars, PhaseInv, Ends
<1>18. CASE Dispose
  BY <1>18 DEF Dispose, FailsBeforeTry, Reject, Continue, DisposeTempDir, DisposeTranspiler, DisposePool, vars,
       lifeVars, runVars, inputVars, reporterVars, PhaseInv, Ends
<1>19. CASE PoolDisposeRejects
  BY <1>19 DEF PoolDisposeRejects, FailsBeforeTry, Reject, Continue, vars, lifeVars, runVars, inputVars,
       reporterVars, PhaseInv, Ends
<1>20. CASE Shutdown
  BY <1>20 DEF Shutdown, FailsBeforeTry, Reject, Continue, vars, lifeVars, runVars, inputVars, reporterVars,
       PhaseInv, Ends
<1>21. ASSUME NEW m \in Mutants, MutantIsTested(m)
      PROVE  PhaseInv'
  BY <1>21 DEF MutantIsTested, MutationTest!Report, Continue, vars, lifeVars, runVars, inputVars, reporterVars,
       PhaseInv, Ends
<1>22. CASE ReadInput
  BY <1>22 DEF ReadInput, FileIsGone, FileIsRead, OnSourceFileRead, Record, vars, lifeVars, runVars, inputVars,
       reporterVars, PhaseInv, Ends
<1>23. CASE ReportersWork
  BY <1>23, ReportersWorkSteps DEF vars, lifeVars, runVars, inputVars, reporterVars, PhaseInv, Ends
<1>24. CASE TranspilerEnds
  BY <1>24 DEF TranspilerEnds, vars, lifeVars, runVars, inputVars, reporterVars, PhaseInv, Ends
<1>25. CASE Exit
  BY <1>25 DEF Exit, vars, lifeVars, runVars, inputVars, reporterVars, PhaseInv, Ends
<1>26. CASE UNCHANGED vars
  BY <1>26 DEF vars, lifeVars, runVars, inputVars, reporterVars, PhaseInv, Ends
<1> QED
  BY <1>1, <1>2, <1>3, <1>4, <1>5, <1>6, <1>7, <1>8, <1>9, <1>10, <1>11, <1>12, <1>13, <1>14, <1>15, <1>16, <1>17,
       <1>18, <1>19, <1>20, <1>21, <1>22, <1>23, <1>24, <1>25, <1>26 DEF Next, StrykerStep, InitialTestStep

LEMMA LeftNext == TypeOK /\ PhaseInv /\ LeftInv /\ [Next]_vars => LeftInv'
<1> SUFFICES ASSUME TypeOK /\ PhaseInv /\ LeftInv, [Next]_vars
             PROVE  LeftInv'
  OBVIOUS
<1>1. CASE Construct
  BY <1>1 DEF Construct, FailsBeforeTry, Reject, Continue, vars, lifeVars, runVars, inputVars, reporterVars, TypeOK,
       PhaseInv, LeftInv, Nothing, Phases, Early, Initial, Ends
<1>2. CASE ConfigureLoggingServer
  BY <1>2 DEF ConfigureLoggingServer, FailsBeforeTry, Reject, Continue, CreateReporters, StartReading, vars,
       lifeVars, runVars, inputVars, reporterVars, TypeOK, PhaseInv, LeftInv, Nothing, Phases, Early, Initial, Ends
<1>3. CASE NoFreePort
  BY <1>3 DEF NoFreePort, FailsBeforeTry, Reject, Continue, vars, lifeVars, runVars, inputVars, reporterVars, TypeOK,
       PhaseInv, LeftInv, Nothing, Phases, Early, Initial, Ends
<1>4. CASE ReadFails
  BY <1>4 DEF ReadFails, FailsBeforeTry, Reject, Continue, vars, lifeVars, runVars, inputVars, reporterVars, TypeOK,
       PhaseInv, LeftInv, Nothing, Phases, Early, Initial, Ends
<1>5. CASE FilesResolved
  BY <1>5 DEF FilesResolved, FailsBeforeTry, Reject, Continue, CollectFiles, FilesToMutate, OnAllSourceFilesRead,
       Record, Work, vars, lifeVars, runVars, inputVars, reporterVars, TypeOK, PhaseInv, LeftInv, Nothing, Phases,
       Early, Initial, Ends
<1>6. CASE TranspileInitially
  BY <1>6 DEF TranspileInitially, FailsBeforeTry, Reject, Continue, vars, lifeVars, runVars, inputVars, reporterVars,
       TypeOK, PhaseInv, LeftInv, Nothing, Phases, Early, Initial, Ends
<1>7. CASE CreateInitialSandbox
  BY <1>7 DEF CreateInitialSandbox, FailsBeforeTry, Reject, Continue, vars, lifeVars, runVars, inputVars,
       reporterVars, TypeOK, PhaseInv, LeftInv, Nothing, Phases, Early, Initial, Ends
<1>8. CASE InitialRunResolves
  BY <1>8 DEF InitialRunResolves, FailsBeforeTry, Reject, Continue, vars, lifeVars, runVars, inputVars, reporterVars,
       TypeOK, PhaseInv, LeftInv, Nothing, Phases, Early, Initial, Ends
<1>9. CASE InitialRunRejects
  BY <1>9 DEF InitialRunRejects, FailsBeforeTry, Reject, Continue, vars, lifeVars, runVars, inputVars, reporterVars,
       TypeOK, PhaseInv, LeftInv, Nothing, Phases, Early, Initial, Ends
<1>10. CASE InitialSandboxDisposed
  BY <1>10 DEF InitialSandboxDisposed, FailsBeforeTry, Reject, Continue, vars, lifeVars, runVars, inputVars,
       reporterVars, TypeOK, PhaseInv, LeftInv, Nothing, Phases, Early, Initial, Ends
<1>11. CASE InitialDisposeRejects
  BY <1>11 DEF InitialDisposeRejects, FailsBeforeTry, Reject, Continue, vars, lifeVars, runVars, inputVars,
       reporterVars, TypeOK, PhaseInv, LeftInv, Nothing, Phases, Early, Initial, Ends
<1>12. CASE ForkTranspiler
  BY <1>12 DEF ForkTranspiler, FailsBeforeTry, Reject, Continue, vars, lifeVars, runVars, inputVars, reporterVars,
       TypeOK, PhaseInv, LeftInv, Nothing, Phases, Early, Initial, Ends
<1>13. CASE TranspileAll
  BY <1>13 DEF TranspileAll, FailsBeforeTry, Reject, Continue, vars, lifeVars, runVars, inputVars, reporterVars,
       TypeOK, PhaseInv, LeftInv, Nothing, Phases, Early, Initial, Ends
<1>14. CASE MatchMutants
  BY <1>14 DEF MatchMutants, FailsBeforeTry, Reject, Continue, Disposables, OnAllMutantsMatchedWithTests, Record,
       Work, vars, lifeVars, runVars, inputVars, reporterVars, TypeOK, PhaseInv, LeftInv, Nothing, Phases, Early,
       Initial, Ends
<1>15. CASE MatchingFails
  BY <1>15 DEF MatchingFails, FailsBeforeTry, Reject, Continue, vars, lifeVars, runVars, inputVars, reporterVars,
       TypeOK, PhaseInv, LeftInv, Nothing, Phases, Early, Initial, Ends
<1>16. CASE MutationTestFails
  BY <1>16 DEF MutationTestFails, MutationTest!Fail, Disposables, vars, lifeVars, runVars, inputVars, reporterVars,
       TypeOK, PhaseInv, LeftInv, Nothing, Phases, Early, Initial, Ends
<1>17. CASE WrapUpDone
  BY <1>17 DEF WrapUpDone, FailsBeforeTry, Reject, Continue, Disposables, vars, lifeVars, runVars, inputVars,
       reporterVars, TypeOK, PhaseInv, LeftInv, Nothing, Phases, Early, Initial, Ends
<1>18. CASE Dispose
  <2>1. /\ phase = "dispose" /\ outcome' = outcome /\ outcome \notin {"resolved", "rejected"}
        /\ phase' = IF toDispose' = {} THEN "shutdown" ELSE "dispose"
    BY <1>18 DEF Dispose, Continue, PhaseInv, Ends
  <2>2. children \subseteq toDispose \cup {"endingTranspiler"} /\ "initial" \notin children
        /\ (tempDir = "present" => "tempDir" \in toDispose)
    BY <2>1 DEF LeftInv, TypeOK
  <2>3. children' \subseteq toDispose' \cup {"endingTranspiler"} /\ "initial" \notin children'
        /\ (tempDir' = "present" => "tempDir" \in toDispose')
    <3>1. CASE DisposeTempDir /\ toDispose' = toDispose \ {"tempDir"}
      BY <2>2, <3>1 DEF DisposeTempDir, TypeOK, Children
    <3>2. CASE DisposeTranspiler /\ toDispose' = toDispose \ {"transpiler"}
      BY <2>2, <3>2 DEF DisposeTranspiler
    <3>3. CASE DisposePool /\ toDispose' = toDispose \ {"pool"}
      BY <2>2, <3>3 DEF DisposePool
    <3> QED BY <1>18, <3>1, <3>2, <3>3 DEF Dispose
  <2> QED BY <2>1, <2>3 DEF LeftInv, Phases, Early, Initial, Ends
<1>19. CASE PoolDisposeRejects
  BY <1>19 DEF PoolDisposeRejects, FailsBeforeTry, Reject, Continue, vars, lifeVars, runVars, inputVars,
       reporterVars, TypeOK, PhaseInv, LeftInv, Nothing, Phases, Early, Initial, Ends
<1>20. CASE Shutdown
  BY <1>20 DEF Shutdown, FailsBeforeTry, Reject, Continue, vars, lifeVars, runVars, inputVars, reporterVars, TypeOK,
       PhaseInv, LeftInv, Nothing, Phases, Early, Initial, Ends
<1>21. ASSUME NEW m \in Mutants, MutantIsTested(m)
      PROVE  LeftInv'
  BY <1>21 DEF MutantIsTested, MutationTest!Report, Continue, vars, lifeVars, runVars, inputVars, reporterVars,
       TypeOK, PhaseInv, LeftInv, Nothing, Phases, Early, Initial, Ends
<1>22. CASE ReadInput
  BY <1>22 DEF ReadInput, FileIsGone, FileIsRead, OnSourceFileRead, Record, vars, lifeVars, runVars, inputVars,
       reporterVars, TypeOK, PhaseInv, LeftInv, Nothing, Phases, Early, Initial, Ends
<1>23. CASE ReportersWork
  BY <1>23, ReportersWorkSteps DEF vars, lifeVars, runVars, inputVars, reporterVars, TypeOK, PhaseInv, LeftInv,
       Nothing, Phases, Early, Initial, Ends
<1>24. CASE TranspilerEnds
  BY <1>24 DEF TranspilerEnds, vars, lifeVars, runVars, inputVars, reporterVars, TypeOK, PhaseInv, LeftInv, Nothing,
       Phases, Early, Initial, Ends
<1>25. CASE Exit
  BY <1>25 DEF Exit, vars, lifeVars, runVars, inputVars, reporterVars, TypeOK, PhaseInv, LeftInv, Nothing, Phases,
       Early, Initial, Ends
<1>26. CASE UNCHANGED vars
  BY <1>26 DEF vars, lifeVars, runVars, inputVars, reporterVars, TypeOK, PhaseInv, LeftInv, Nothing, Phases, Early,
       Initial, Ends
<1> QED
  BY <1>1, <1>2, <1>3, <1>4, <1>5, <1>6, <1>7, <1>8, <1>9, <1>10, <1>11, <1>12, <1>13, <1>14, <1>15, <1>16, <1>17,
       <1>18, <1>19, <1>20, <1>21, <1>22, <1>23, <1>24, <1>25, <1>26 DEF Next, StrykerStep, InitialTestStep

-----------------------------------------------------------------------------
(* The exit code *)

\* The report has each mutant once, under its file: counted over the files it is what it is over the mutants.
LEMMA ReportCountsMutants ==
  ASSUME NEW res, NEW statuses, \A m \in Mutants : res[m] \in statuses => m \in Tested
  PROVE  Count(FileResults(res), statuses) = HaveStatus(res, statuses)
<1> DEFINE report == FileResults(res)
           counted == {fm \in UNION {{f} \X DOMAIN report[f] : f \in DOMAIN report} : report[fm[1]][fm[2]] \in statuses}
           those == {m \in Mutants : res[m] \in statuses}
           place == [m \in those |-> <<MutantFile[m], m>>]
<1>1. /\ DOMAIN report = {MutantFile[m] : m \in Tested}
      /\ \A f \in DOMAIN report : DOMAIN report[f] = {n \in Tested : MutantFile[n] = f}
      /\ \A f \in DOMAIN report : \A n \in DOMAIN report[f] : report[f][n] = res[n]
  BY DEF FileResults
<1>2. \A m \in those : <<MutantFile[m], m>> \in counted
  <2> TAKE m \in those
  <2>1. m \in Tested /\ MutantFile[m] \in DOMAIN report
    BY <1>1
  <2>2. m \in DOMAIN report[MutantFile[m]]
    BY <2>1, <1>1
  <2>3. report[MutantFile[m]][m] \in statuses
    BY <2>1, <2>2, <1>1
  <2> HIDE DEF report
  <2>4. <<MutantFile[m], m>> \in {MutantFile[m]} \X DOMAIN report[MutantFile[m]]
    BY <2>2
  <2> QED BY <2>1, <2>3, <2>4
<1>3. \A fm \in counted : fm[2] \in those /\ fm = <<MutantFile[fm[2]], fm[2]>>
  <2> TAKE fm \in counted
  <2> HIDE DEF report
  <2>1. PICK f \in DOMAIN report : fm \in {f} \X DOMAIN report[f]
    OBVIOUS
  <2>2. fm[1] = f /\ fm[2] \in DOMAIN report[f] /\ fm = <<f, fm[2]>>
    BY <2>1
  <2>3. MutantFile[fm[2]] = f /\ fm[2] \in Tested /\ report[f][fm[2]] = res[fm[2]]
    BY <1>1, <2>2
  <2>4. fm[2] \in Mutants /\ res[fm[2]] \in statuses
    BY <2>2, <2>3 DEF Tested
  <2> QED BY <2>2, <2>3, <2>4
<1> HIDE DEF report
<1>4. place \in Bijection(those, counted)
  <2> HIDE DEF counted, those
  <2>1. place \in [those -> counted]
    BY <1>2
  <2>2. \A a, b \in those : place[a] = place[b] => a = b
    OBVIOUS
  <2>3. \A fm \in counted : \E m \in those : place[m] = fm
    BY <1>3
  <2> QED BY <2>1, <2>2, <2>3 DEF Bijection, Injection, IsInjective, Surjection
<1>5. IsFiniteSet(those)
  BY FS_Subset, LifeCycleAssumption
<1> HIDE DEF counted, those, place
<1>6. ExistsBijection(those, counted)
  BY <1>4 DEF ExistsBijection
<1>7. Cardinality(counted) = Cardinality(those)
  BY <1>5, <1>6, FS_Bijection
<1> QED
  BY <1>7 DEF Count, HaveStatus, report, counted, those

LEMMA StatusesAddUp ==
  ASSUME NEW res, NEW S, NEW T, S \cap T = {}
  PROVE  /\ HaveStatus(res, S) \in Nat
         /\ HaveStatus(res, S \cup T) = HaveStatus(res, S) + HaveStatus(res, T)
<1> DEFINE A == {m \in Mutants : res[m] \in S}
           B == {m \in Mutants : res[m] \in T}
<1>1. IsFiniteSet(A) /\ IsFiniteSet(B)
  BY FS_Subset, LifeCycleAssumption
<1>2. {m \in Mutants : res[m] \in S \cup T} = A \cup B /\ A \cap B = {}
  OBVIOUS
<1>3. Cardinality(A \cup B) = Cardinality(A) + Cardinality(B) - Cardinality(A \cap B)
  BY <1>1, FS_Union
<1>4. Cardinality(A \cap B) = 0 /\ Cardinality(A) \in Nat /\ Cardinality(B) \in Nat
  BY <1>1, <1>2, FS_EmptySet, FS_CardinalityType
<1>5. /\ HaveStatus(res, S) = Cardinality(A) /\ HaveStatus(res, T) = Cardinality(B)
      /\ HaveStatus(res, S \cup T) = Cardinality(A \cup B)
  BY <1>2 DEF HaveStatus
<1> HIDE DEF A, B
<1>6. Cardinality(A \cup B) = Cardinality(A) + Cardinality(B)
  BY <1>3, <1>4
<1> QED
  BY <1>4, <1>5, <1>6

LEMMA SameThreshold == UNCHANGED <<options, results, run>> => (UnderThreshold' <=> UnderThreshold)
  BY DEF UnderThreshold, Of, HaveStatus

LEMMA NoThresholdBefore == run # "completed" => ~UnderThreshold
  BY DEF UnderThreshold

LEMMA NoThresholdBehind == run' # "completed" => ~UnderThreshold'
  BY DEF UnderThreshold

LEMMA ExitNext == TypeOK /\ PhaseInv /\ ExitInv /\ [Next]_vars => ExitInv'
<1> SUFFICES ASSUME TypeOK /\ PhaseInv /\ ExitInv, [Next]_vars
             PROVE  ExitInv'
  OBVIOUS
<1>1. CASE Construct
  BY <1>1, SameThreshold, NoThresholdBefore, NoThresholdBehind DEF Construct, FailsBeforeTry, Reject, Continue, vars,
       lifeVars, runVars, inputVars, reporterVars, PhaseInv, ExitInv, Ends
<1>2. CASE ConfigureLoggingServer
  BY <1>2, SameThreshold, NoThresholdBefore, NoThresholdBehind DEF ConfigureLoggingServer, FailsBeforeTry, Reject,
       Continue, CreateReporters, StartReading, vars, lifeVars, runVars, inputVars, reporterVars, PhaseInv, ExitInv,
       Ends
<1>3. CASE NoFreePort
  BY <1>3, SameThreshold, NoThresholdBefore, NoThresholdBehind DEF NoFreePort, FailsBeforeTry, Reject, Continue,
       vars, lifeVars, runVars, inputVars, reporterVars, PhaseInv, ExitInv, Ends
<1>4. CASE ReadFails
  BY <1>4, SameThreshold, NoThresholdBefore, NoThresholdBehind DEF ReadFails, FailsBeforeTry, Reject, Continue, vars,
       lifeVars, runVars, inputVars, reporterVars, PhaseInv, ExitInv, Ends
<1>5. CASE FilesResolved
  BY <1>5, SameThreshold, NoThresholdBefore, NoThresholdBehind DEF FilesResolved, FailsBeforeTry, Reject, Continue,
       CollectFiles, FilesToMutate, OnAllSourceFilesRead, Record, Work, vars, lifeVars, runVars, inputVars,
       reporterVars, PhaseInv, ExitInv, Ends
<1>6. CASE TranspileInitially
  BY <1>6, SameThreshold, NoThresholdBefore, NoThresholdBehind DEF TranspileInitially, FailsBeforeTry, Reject,
       Continue, vars, lifeVars, runVars, inputVars, reporterVars, PhaseInv, ExitInv, Ends
<1>7. CASE CreateInitialSandbox
  BY <1>7, SameThreshold, NoThresholdBefore, NoThresholdBehind DEF CreateInitialSandbox, FailsBeforeTry, Reject,
       Continue, vars, lifeVars, runVars, inputVars, reporterVars, PhaseInv, ExitInv, Ends
<1>8. CASE InitialRunResolves
  BY <1>8, SameThreshold, NoThresholdBefore, NoThresholdBehind DEF InitialRunResolves, FailsBeforeTry, Reject,
       Continue, vars, lifeVars, runVars, inputVars, reporterVars, PhaseInv, ExitInv, Ends
<1>9. CASE InitialRunRejects
  BY <1>9, SameThreshold, NoThresholdBefore, NoThresholdBehind DEF InitialRunRejects, FailsBeforeTry, Reject,
       Continue, vars, lifeVars, runVars, inputVars, reporterVars, PhaseInv, ExitInv, Ends
<1>10. CASE InitialSandboxDisposed
  BY <1>10, SameThreshold, NoThresholdBefore, NoThresholdBehind DEF InitialSandboxDisposed, FailsBeforeTry, Reject,
       Continue, vars, lifeVars, runVars, inputVars, reporterVars, PhaseInv, ExitInv, Ends
<1>11. CASE InitialDisposeRejects
  BY <1>11, SameThreshold, NoThresholdBefore, NoThresholdBehind DEF InitialDisposeRejects, FailsBeforeTry, Reject,
       Continue, vars, lifeVars, runVars, inputVars, reporterVars, PhaseInv, ExitInv, Ends
<1>12. CASE ForkTranspiler
  BY <1>12, SameThreshold, NoThresholdBefore, NoThresholdBehind DEF ForkTranspiler, FailsBeforeTry, Reject, Continue,
       vars, lifeVars, runVars, inputVars, reporterVars, PhaseInv, ExitInv, Ends
<1>13. CASE TranspileAll
  BY <1>13, SameThreshold, NoThresholdBefore, NoThresholdBehind DEF TranspileAll, FailsBeforeTry, Reject, Continue,
       vars, lifeVars, runVars, inputVars, reporterVars, PhaseInv, ExitInv, Ends
<1>14. CASE MatchMutants
  BY <1>14, SameThreshold, NoThresholdBefore, NoThresholdBehind DEF MatchMutants, FailsBeforeTry, Reject, Continue,
       Disposables, OnAllMutantsMatchedWithTests, Record, Work, vars, lifeVars, runVars, inputVars, reporterVars,
       PhaseInv, ExitInv, Ends
<1>15. CASE MatchingFails
  BY <1>15, SameThreshold, NoThresholdBefore, NoThresholdBehind DEF MatchingFails, FailsBeforeTry, Reject, Continue,
       vars, lifeVars, runVars, inputVars, reporterVars, PhaseInv, ExitInv, Ends
<1>16. CASE MutationTestFails
  BY <1>16, SameThreshold, NoThresholdBefore, NoThresholdBehind DEF MutationTestFails, MutationTest!Fail,
       Disposables, vars, lifeVars, runVars, inputVars, reporterVars, PhaseInv, ExitInv, Ends
<1>17. CASE WrapUpDone
  BY <1>17, SameThreshold, NoThresholdBefore, NoThresholdBehind DEF WrapUpDone, FailsBeforeTry, Reject, Continue,
       Disposables, vars, lifeVars, runVars, inputVars, reporterVars, PhaseInv, ExitInv, Ends
<1>18. CASE Dispose
  BY <1>18, SameThreshold, NoThresholdBefore, NoThresholdBehind DEF Dispose, FailsBeforeTry, Reject, Continue,
       DisposeTempDir, DisposeTranspiler, DisposePool, vars, lifeVars, runVars, inputVars, reporterVars, PhaseInv,
       ExitInv, Ends
<1>19. CASE PoolDisposeRejects
  BY <1>19, SameThreshold, NoThresholdBefore, NoThresholdBehind DEF PoolDisposeRejects, FailsBeforeTry, Reject,
       Continue, vars, lifeVars, runVars, inputVars, reporterVars, PhaseInv, ExitInv, Ends
<1>20. CASE Shutdown
  BY <1>20, SameThreshold, NoThresholdBefore, NoThresholdBehind DEF Shutdown, FailsBeforeTry, Reject, Continue, vars,
       lifeVars, runVars, inputVars, reporterVars, PhaseInv, ExitInv, Ends
<1>21. ASSUME NEW m \in Mutants, MutantIsTested(m)
      PROVE  ExitInv'
  <2>1. phase = "test" /\ run = "active" /\ outcome \notin {"resolved", "rejected"} /\ exitCode = 0
       /\ outcome' = outcome /\ options' = options
    BY <1>21, NoThresholdBefore DEF MutantIsTested, MutationTest!Report, PhaseInv, ExitInv, TypeOK, Ends, Continue
  <2>2. CASE run' = "active"
    BY <1>21, <2>1, <2>2, NoThresholdBehind DEF MutantIsTested, Continue, ExitInv
  <2>3. CASE run' = "completed"
    <3>1. exitCode' = DetermineExitCode(FileResults(results'))
      BY <1>21, <2>3 DEF MutantIsTested
    <3>2. \A n \in Mutants : results'[n] \in Valid => n \in Tested
      BY <1>21 DEF MutantIsTested, MutationTest!Report, Tested, TypeOK, Valid, Detected
    <3>3. /\ Count(FileResults(results'), Detected) = Of(Detected)'
          /\ Count(FileResults(results'), Valid) = Of(Valid)'
      BY <3>2, ReportCountsMutants DEF Of, Valid, Detected
    <3>4. /\ Of(Detected)' \in Nat
          /\ Of(Valid)' = Of(Detected)' + Of({"Survived", "NoCoverage"})'
      <4>1. Detected \cap {"Survived", "NoCoverage"} = {}
        BY DEF Detected
      <4>2. /\ HaveStatus(results', Detected) \in Nat
            /\ HaveStatus(results', Detected \cup {"Survived", "NoCoverage"}) =
                 HaveStatus(results', Detected) + HaveStatus(results', {"Survived", "NoCoverage"})
        BY <4>1, StatusesAddUp
      <4> QED BY <4>2 DEF Of, Valid
    <3>5. UnderThreshold' <=> options.break # NoBreak /\ Of(Detected)' * 100 < options.break * Of(Valid)'
      <4> DEFINE d == Of(Detected)'
                 v == Of(Valid)'
      <4>1. UnderThreshold' <=> options.break # NoBreak /\ 100 * d < options.break * v
        BY <2>1, <2>3, <3>4 DEF UnderThreshold, Detected
      <4>2. 100 * d = d * 100
        BY <3>4
      <4> QED BY <4>1, <4>2
    <3> QED BY <2>1, <3>1, <3>3, <3>5 DEF DetermineExitCode, ExitInv
  <2> QED BY <1>21, <2>2, <2>3 DEF MutantIsTested, MutationTest!Report
<1>22. CASE ReadInput
  BY <1>22, SameThreshold, NoThresholdBefore, NoThresholdBehind DEF ReadInput, FileIsGone, FileIsRead,
       OnSourceFileRead, Record, vars, lifeVars, runVars, inputVars, reporterVars, PhaseInv, ExitInv, Ends
<1>23. CASE ReportersWork
  BY <1>23, ReportersWorkSteps, SameThreshold, NoThresholdBefore, NoThresholdBehind DEF vars, lifeVars, runVars,
       inputVars, reporterVars, PhaseInv, ExitInv, Ends
<1>24. CASE TranspilerEnds
  BY <1>24, SameThreshold, NoThresholdBefore, NoThresholdBehind DEF TranspilerEnds, vars, lifeVars, runVars,
       inputVars, reporterVars, PhaseInv, ExitInv, Ends
<1>25. CASE Exit
  BY <1>25, SameThreshold, NoThresholdBefore, NoThresholdBehind DEF Exit, vars, lifeVars, runVars, inputVars,
       reporterVars, PhaseInv, ExitInv, Ends
<1>26. CASE UNCHANGED vars
  BY <1>26, SameThreshold, NoThresholdBefore, NoThresholdBehind DEF vars, lifeVars, runVars, inputVars, reporterVars,
       PhaseInv, ExitInv, Ends
<1> QED
  BY <1>1, <1>2, <1>3, <1>4, <1>5, <1>6, <1>7, <1>8, <1>9, <1>10, <1>11, <1>12, <1>13, <1>14, <1>15, <1>16, <1>17,
       <1>18, <1>19, <1>20, <1>21, <1>22, <1>23, <1>24, <1>25, <1>26 DEF Next, StrykerStep, InitialTestStep

-----------------------------------------------------------------------------
(* The progress *)

LEMMA SameProgress ==
  UNCHANGED <<progress, results, uncovered, reporters>> =>
    (Counts' <=> Counts) /\ (ShowsProgress' <=> ShowsProgress) /\ Tested' = Tested
  BY DEF Counts, Counted, Tested, ShowsProgress

LEMMA CountedFinite ==
  ASSUME NEW S, S \subseteq Mutants
  PROVE  IsFiniteSet(S) /\ Cardinality(S) \in Nat
  BY FS_Subset, FS_CardinalityType, LifeCycleAssumption

LEMMA ProgressNext == TypeOK /\ PhaseInv /\ ProgressInv /\ [Next]_vars => ProgressInv'
<1> SUFFICES ASSUME TypeOK /\ PhaseInv /\ ProgressInv, [Next]_vars
             PROVE  ProgressInv'
  OBVIOUS
<1>1. CASE Construct
  BY <1>1, SameProgress DEF Construct, FailsBeforeTry, Reject, Continue, vars, lifeVars, runVars, inputVars,
       reporterVars, PhaseInv, ProgressInv, ProgressAddsUp, Early, Initial, Ends
<1>2. CASE ConfigureLoggingServer
  BY <1>2, SameProgress DEF ConfigureLoggingServer, FailsBeforeTry, Reject, Continue, CreateReporters, StartReading,
       vars, lifeVars, runVars, inputVars, reporterVars, PhaseInv, ProgressInv, ProgressAddsUp, Early, Initial, Ends
<1>3. CASE NoFreePort
  BY <1>3, SameProgress DEF NoFreePort, FailsBeforeTry, Reject, Continue, vars, lifeVars, runVars, inputVars,
       reporterVars, PhaseInv, ProgressInv, ProgressAddsUp, Early, Initial, Ends
<1>4. CASE ReadFails
  BY <1>4, SameProgress DEF ReadFails, FailsBeforeTry, Reject, Continue, vars, lifeVars, runVars, inputVars,
       reporterVars, PhaseInv, ProgressInv, ProgressAddsUp, Early, Initial, Ends
<1>5. CASE FilesResolved
  BY <1>5, SameProgress DEF FilesResolved, FailsBeforeTry, Reject, Continue, CollectFiles, FilesToMutate,
       OnAllSourceFilesRead, Record, Work, vars, lifeVars, runVars, inputVars, reporterVars, PhaseInv, ProgressInv,
       ProgressAddsUp, Early, Initial, Ends
<1>6. CASE TranspileInitially
  BY <1>6, SameProgress DEF TranspileInitially, FailsBeforeTry, Reject, Continue, vars, lifeVars, runVars, inputVars,
       reporterVars, PhaseInv, ProgressInv, ProgressAddsUp, Early, Initial, Ends
<1>7. CASE CreateInitialSandbox
  BY <1>7, SameProgress DEF CreateInitialSandbox, FailsBeforeTry, Reject, Continue, vars, lifeVars, runVars,
       inputVars, reporterVars, PhaseInv, ProgressInv, ProgressAddsUp, Early, Initial, Ends
<1>8. CASE InitialRunResolves
  BY <1>8, SameProgress DEF InitialRunResolves, FailsBeforeTry, Reject, Continue, vars, lifeVars, runVars, inputVars,
       reporterVars, PhaseInv, ProgressInv, ProgressAddsUp, Early, Initial, Ends
<1>9. CASE InitialRunRejects
  BY <1>9, SameProgress DEF InitialRunRejects, FailsBeforeTry, Reject, Continue, vars, lifeVars, runVars, inputVars,
       reporterVars, PhaseInv, ProgressInv, ProgressAddsUp, Early, Initial, Ends
<1>10. CASE InitialSandboxDisposed
  BY <1>10, SameProgress DEF InitialSandboxDisposed, FailsBeforeTry, Reject, Continue, vars, lifeVars, runVars,
       inputVars, reporterVars, PhaseInv, ProgressInv, ProgressAddsUp, Early, Initial, Ends
<1>11. CASE InitialDisposeRejects
  BY <1>11, SameProgress DEF InitialDisposeRejects, FailsBeforeTry, Reject, Continue, vars, lifeVars, runVars,
       inputVars, reporterVars, PhaseInv, ProgressInv, ProgressAddsUp, Early, Initial, Ends
<1>12. CASE ForkTranspiler
  BY <1>12, SameProgress DEF ForkTranspiler, FailsBeforeTry, Reject, Continue, vars, lifeVars, runVars, inputVars,
       reporterVars, PhaseInv, ProgressInv, ProgressAddsUp, Early, Initial, Ends
<1>13. CASE TranspileAll
  BY <1>13, SameProgress DEF TranspileAll, FailsBeforeTry, Reject, Continue, vars, lifeVars, runVars, inputVars,
       reporterVars, PhaseInv, ProgressInv, ProgressAddsUp, Early, Initial, Ends
<1>14. CASE MatchMutants
  <2>1. PICK found \in SUBSET Found :
          /\ OnAllMutantsMatchedWithTests(RemoveExcludedMutants(found), uncovered')
          /\ uncovered' \in SUBSET RemoveExcludedMutants(found)
          /\ results' = [m \in Mutants |-> IF m \in RemoveExcludedMutants(found) THEN "none" ELSE "unmatched"]
    BY <1>14 DEF MatchMutants
  <2> DEFINE matched == RemoveExcludedMutants(found)
  <2>2. matched \subseteq Mutants /\ uncovered' \subseteq matched
    BY <2>1 DEF RemoveExcludedMutants, Found
  <2> HIDE DEF matched
  <2>3. Tested' = matched /\ Counted' = {}
    BY <2>1, <2>2 DEF Tested, Counted, matched
  <2>4. phase = "match" /\ progress = NoProgress /\ run' = run /\ run = "active"
         /\ phase' \in {"test", "dispose"} /\ reporters' = reporters
    BY <1>14 DEF MatchMutants, Continue, PhaseInv, ProgressInv, Ends, OnAllMutantsMatchedWithTests
  <2>5. progress' = IF ShowsProgress THEN [NoProgress EXCEPT !.uncovered = uncovered',
                                            !.total = Cardinality(matched) - Cardinality(uncovered'),
                                            !.interval = matched # {} /\ "progress-append-only" \in reporters]
                                     ELSE NoProgress
    BY <2>1, <2>4 DEF OnAllMutantsMatchedWithTests, MutantsMatched, matched
  <2>6. progress'.total \in Nat
    BY ReportersTypeNext DEF ReportersTypeOK, ProgressType
  <2>7. progress'.tested = 0 /\ progress'.survived = 0 /\ progress'.timedOut = 0
    BY <2>5 DEF NoProgress
  <2>8. ProgressAddsUp'
    BY <2>4, <2>6, <2>7 DEF ProgressAddsUp
  <2>9. ShowsProgress => Counts'
    <3>1. Cardinality(Counted') = 0
      BY <2>3, FS_EmptySet
    <3>2. ShowsProgress => progress'.uncovered = uncovered' /\ progress'.total = Cardinality(matched) - Cardinality(uncovered')
      BY <2>5 DEF NoProgress
    <3> QED BY <2>3, <2>7, <3>1, <3>2 DEF Counts
  <2> QED BY <2>2, <2>3, <2>4, <2>5, <2>8, <2>9 DEF ProgressInv, ShowsProgress, Early, Initial
<1>15. CASE MatchingFails
  BY <1>15, SameProgress DEF MatchingFails, FailsBeforeTry, Reject, Continue, vars, lifeVars, runVars, inputVars,
       reporterVars, PhaseInv, ProgressInv, ProgressAddsUp, Early, Initial, Ends
<1>16. CASE MutationTestFails
  BY <1>16, SameProgress DEF MutationTestFails, MutationTest!Fail, Disposables, vars, lifeVars, runVars, inputVars,
       reporterVars, PhaseInv, ProgressInv, ProgressAddsUp, Early, Initial, Ends
<1>17. CASE WrapUpDone
  BY <1>17, SameProgress DEF WrapUpDone, FailsBeforeTry, Reject, Continue, Disposables, vars, lifeVars, runVars,
       inputVars, reporterVars, PhaseInv, ProgressInv, ProgressAddsUp, Early, Initial, Ends
<1>18. CASE Dispose
  BY <1>18, SameProgress DEF Dispose, FailsBeforeTry, Reject, Continue, DisposeTempDir, DisposeTranspiler,
       DisposePool, vars, lifeVars, runVars, inputVars, reporterVars, PhaseInv, ProgressInv, ProgressAddsUp, Early,
       Initial, Ends
<1>19. CASE PoolDisposeRejects
  BY <1>19, SameProgress DEF PoolDisposeRejects, FailsBeforeTry, Reject, Continue, vars, lifeVars, runVars,
       inputVars, reporterVars, PhaseInv, ProgressInv, ProgressAddsUp, Early, Initial, Ends
<1>20. CASE Shutdown
  BY <1>20, SameProgress DEF Shutdown, FailsBeforeTry, Reject, Continue, vars, lifeVars, runVars, inputVars,
       reporterVars, PhaseInv, ProgressInv, ProgressAddsUp, Early, Initial, Ends
<1>21. ASSUME NEW m \in Mutants, MutantIsTested(m)
      PROVE  ProgressInv'
  <2>1. /\ phase = "test" /\ run = "active" /\ results[m] = "none" /\ uncovered' = uncovered /\ reporters' = reporters
        /\ phase' \in {"test", "wrapUp"}
    BY <1>21 DEF MutantIsTested, MutationTest!Report, Continue, OnMutantTested, OnLastMutantTested
  <2>2. PICK verdict \in Verdicts[m] : results' = [results EXCEPT ![m] = verdict]
    BY <1>21 DEF MutantIsTested, MutationTest!Report
  <2>3. verdict \in MutantStatus /\ results'[m] = verdict /\ \A n \in Mutants \ {m} : results'[n] = results[n]
    BY <2>2, LifeCycleAssumption DEF TypeOK
  <2>4. Tested' = Tested /\ m \in Tested /\ Tested \subseteq Mutants
    BY <2>1, <2>3 DEF Tested, MutantStatus
  <2>5. m \in uncovered => verdict \notin {"Survived", "TimedOut"}
    BY <1>21, <2>3 DEF MutantIsTested
  <2>6. /\ progress' = MutantTested(m, verdict) \/ progress' = AllMutantsTested(MutantTested(m, verdict))
    BY <1>21, <2>3 DEF MutantIsTested, OnMutantTested, OnLastMutantTested
  <2>7. CASE ~ShowsProgress
    <3>1. progress' = NoProgress
      BY <2>1, <2>6, <2>7 DEF MutantTested, AllMutantsTested, ProgressInv, NoProgress
    <3> QED BY <2>1, <2>4, <2>7, <3>1 DEF ProgressInv, ProgressAddsUp, NoProgress, ShowsProgress, Early, Initial
  <2>8. CASE ShowsProgress
    <3> DEFINE one == IF m \in uncovered THEN 0 ELSE 1
    <3>1. Counts /\ uncovered \subseteq Tested
      BY <2>1, <2>8 DEF ProgressInv
    <3>2. /\ progress \in ProgressType(Mutants)
          /\ progress.tested \in Nat /\ progress.survived \in Nat /\ progress.timedOut \in Nat /\ progress.total \in Nat
      BY DEF TypeOK, ReportersTypeOK, ProgressType
    <3>3. /\ progress'.tested = progress.tested + one
          /\ progress'.survived = progress.survived + (IF verdict = "Survived" THEN 1 ELSE 0)
          /\ progress'.timedOut = progress.timedOut + (IF verdict = "TimedOut" THEN 1 ELSE 0)
          /\ progress'.total = progress.total /\ progress'.uncovered = uncovered
      <4>1. MutantTested(m, verdict) = [progress EXCEPT !.tested = progress.tested + one,
                                                       !.survived = progress.survived + (IF verdict = "Survived" THEN 1 ELSE 0),
                                                       !.timedOut = progress.timedOut + (IF verdict = "TimedOut" THEN 1 ELSE 0)]
        BY <2>8, <3>1 DEF MutantTested, Counts
      <4>2. progress.uncovered = uncovered
        BY <3>1 DEF Counts
      <4> HIDE DEF one
      <4> QED BY <2>6, <3>2, <4>1, <4>2 DEF AllMutantsTested, ProgressType
    <3>4. Counted' = IF m \in uncovered THEN Counted ELSE Counted \cup {m}
      BY <2>1, <2>3 DEF Counted, MutantStatus
    <3>5. m \notin Counted /\ IsFiniteSet(Counted) /\ Counted \subseteq Mutants
      BY <2>1, CountedFinite DEF Counted
    <3>6. Cardinality(Counted') = Cardinality(Counted) + one
      <4>1. Cardinality(Counted \cup {m}) = Cardinality(Counted) + 1
        BY <3>5, FS_AddElement
      <4>2. Cardinality(Counted) \in Nat
        BY <3>5, FS_CardinalityType
      <4> QED BY <3>4, <4>1, <4>2
    <3>7. progress'.survived + progress'.timedOut <= progress'.tested
      <4>1. progress.survived + progress.timedOut <= progress.tested
        BY <3>1 DEF Counts
      <4> QED BY <2>5, <3>2, <3>3, <4>1
    <3>8. Counts'
      <4>1. progress'.tested = Cardinality(Counted')
        BY <3>1, <3>3, <3>6 DEF Counts
      <4>2. progress'.total = Cardinality(Tested') - Cardinality(uncovered') /\ progress'.uncovered = uncovered'
        BY <2>1, <2>4, <3>1, <3>3 DEF Counts
      <4> QED BY <3>7, <4>1, <4>2 DEF Counts
    <3>9. progress'.total = Cardinality(Tested \ uncovered) /\ IsFiniteSet(Tested \ uncovered)
      <4>1. IsFiniteSet(Tested) /\ Tested \cap uncovered = uncovered
        BY <2>4, <3>1, CountedFinite
      <4>2. Cardinality(Tested \ uncovered) = Cardinality(Tested) - Cardinality(uncovered) /\ IsFiniteSet(Tested \ uncovered)
        BY <4>1, FS_Difference
      <4> QED BY <3>1, <3>3, <4>2 DEF Counts
    <3>10. Counted' \subseteq Tested \ uncovered
      BY <2>1, <2>3, <2>4 DEF Counted, Tested
    <3>11. progress'.tested <= progress'.total
      <4>1. Cardinality(Counted') <= Cardinality(Tested \ uncovered)
        BY <3>9, <3>10, FS_Subset
      <4> QED BY <3>8, <3>9, <4>1 DEF Counts
    <3>12. run' = "completed" => progress'.tested = progress'.total
      <4> SUFFICES ASSUME run' = "completed"
                   PROVE  progress'.tested = progress'.total
        OBVIOUS
      <4>1. \A other \in Mutants \ {m} : results[other] # "none"
        BY <1>21 DEF MutantIsTested, MutationTest!Report
      <4>2. Counted' = Tested \ uncovered
        BY <2>1, <2>3, <2>4, <4>1 DEF Counted, Tested, MutantStatus
      <4> QED BY <3>8, <3>9, <4>2 DEF Counts
    <3> QED BY <2>1, <2>4, <2>8, <3>1, <3>7, <3>8, <3>11, <3>12 DEF ProgressInv, ProgressAddsUp, ShowsProgress,
         Early, Initial
  <2> QED BY <2>7, <2>8
<1>22. CASE ReadInput
  BY <1>22, SameProgress DEF ReadInput, FileIsGone, FileIsRead, OnSourceFileRead, Record, vars, lifeVars, runVars,
       inputVars, reporterVars, PhaseInv, ProgressInv, ProgressAddsUp, Early, Initial, Ends
<1>23. CASE ReportersWork
  BY <1>23, ReportersWorkSteps, SameProgress DEF lifeVars, runVars, ProgressInv, ProgressAddsUp
<1>24. CASE TranspilerEnds
  BY <1>24, SameProgress DEF TranspilerEnds, vars, lifeVars, runVars, inputVars, reporterVars, PhaseInv, ProgressInv,
       ProgressAddsUp, Early, Initial, Ends
<1>25. CASE Exit
  BY <1>25, SameProgress DEF Exit, vars, lifeVars, runVars, inputVars, reporterVars, PhaseInv, ProgressInv,
       ProgressAddsUp, Early, Initial, Ends
<1>26. CASE UNCHANGED vars
  BY <1>26, SameProgress DEF vars, lifeVars, runVars, inputVars, reporterVars, PhaseInv, ProgressInv, ProgressAddsUp,
       Early, Initial, Ends
<1> QED
  BY <1>1, <1>2, <1>3, <1>4, <1>5, <1>6, <1>7, <1>8, <1>9, <1>10, <1>11, <1>12, <1>13, <1>14, <1>15, <1>16, <1>17,
       <1>18, <1>19, <1>20, <1>21, <1>22, <1>23, <1>24, <1>25, <1>26 DEF Next, StrykerStep, InitialTestStep

-----------------------------------------------------------------------------
(* wrapUp() *)

\* An event waits only for a folder that is not there yet.
LEMMA WorkWaits ==
  ASSUME NEW r \in RecorderType
  PROVE  Work(r).folder = r.folder /\ (r.folder # "pending" => Work(r).waiting = r.waiting)
  BY DEF Work, RecorderType, Promise

LEMMA WrapNext == TypeOK /\ PhaseInv /\ WrapInv /\ [Next]_vars => WrapInv'
<1> SUFFICES ASSUME TypeOK /\ PhaseInv /\ WrapInv, [Next]_vars
             PROVE  WrapInv'
  OBVIOUS
<1>1. CASE Construct
  BY <1>1 DEF Construct, FailsBeforeTry, Reject, Continue, vars, lifeVars, runVars, inputVars, reporterVars,
       PhaseInv, WrapInv, Ends, Phases
<1>2. CASE ConfigureLoggingServer
  <2>1. run # "completed" /\ run' = run /\ wrapUps' = wrapUps /\ html' = html /\ phase' \in {"resolve", "ended"}
    BY <1>2 DEF ConfigureLoggingServer, PhaseInv, Ends, FailsBeforeTry, Reject, Continue, CreateReporters,
         reporterVars, runVars
  <2>2. recorder' = recorder \/ recorder'.folder = "pending"
    BY <1>2 DEF ConfigureLoggingServer, CreateReporters, TypeOK, ReportersTypeOK, RecorderType, reporterVars
  <2> QED BY <2>1, <2>2 DEF WrapInv, Ends
<1>3. CASE NoFreePort
  BY <1>3 DEF NoFreePort, FailsBeforeTry, Reject, Continue, vars, lifeVars, runVars, inputVars, reporterVars,
       PhaseInv, WrapInv, Ends, Phases
<1>4. CASE ReadFails
  BY <1>4 DEF ReadFails, FailsBeforeTry, Reject, Continue, vars, lifeVars, runVars, inputVars, reporterVars,
       PhaseInv, WrapInv, Ends, Phases
<1>5. CASE FilesResolved
  <2>1. recorder' = Work(recorder) /\ UNCHANGED <<html, wrapUps, run, reading>> /\ reading = {} /\ run # "completed"
    BY <1>5 DEF FilesResolved, CollectFiles, OnAllSourceFilesRead, Record, PhaseInv, Ends, runVars
  <2>2. recorder \in RecorderType
    BY DEF TypeOK, ReportersTypeOK
  <2> QED BY <2>1, <2>2, WorkWaits DEF WrapInv
<1>6. CASE TranspileInitially
  BY <1>6 DEF TranspileInitially, FailsBeforeTry, Reject, Continue, vars, lifeVars, runVars, inputVars, reporterVars,
       PhaseInv, WrapInv, Ends, Phases
<1>7. CASE CreateInitialSandbox
  BY <1>7 DEF CreateInitialSandbox, FailsBeforeTry, Reject, Continue, vars, lifeVars, runVars, inputVars,
       reporterVars, PhaseInv, WrapInv, Ends, Phases
<1>8. CASE InitialRunResolves
  BY <1>8 DEF InitialRunResolves, FailsBeforeTry, Reject, Continue, vars, lifeVars, runVars, inputVars, reporterVars,
       PhaseInv, WrapInv, Ends, Phases
<1>9. CASE InitialRunRejects
  BY <1>9 DEF InitialRunRejects, FailsBeforeTry, Reject, Continue, vars, lifeVars, runVars, inputVars, reporterVars,
       PhaseInv, WrapInv, Ends, Phases
<1>10. CASE InitialSandboxDisposed
  BY <1>10 DEF InitialSandboxDisposed, FailsBeforeTry, Reject, Continue, vars, lifeVars, runVars, inputVars,
       reporterVars, PhaseInv, WrapInv, Ends, Phases
<1>11. CASE InitialDisposeRejects
  BY <1>11 DEF InitialDisposeRejects, FailsBeforeTry, Reject, Continue, vars, lifeVars, runVars, inputVars,
       reporterVars, PhaseInv, WrapInv, Ends, Phases
<1>12. CASE ForkTranspiler
  BY <1>12 DEF ForkTranspiler, FailsBeforeTry, Reject, Continue, vars, lifeVars, runVars, inputVars, reporterVars,
       PhaseInv, WrapInv, Ends, Phases
<1>13. CASE TranspileAll
  BY <1>13 DEF TranspileAll, FailsBeforeTry, Reject, Continue, vars, lifeVars, runVars, inputVars, reporterVars,
       PhaseInv, WrapInv, Ends, Phases
<1>14. CASE MatchMutants
  <2>1. recorder' = Work(recorder) /\ UNCHANGED <<html, wrapUps, run, reading>> /\ reading = {} /\ run # "completed"
    BY <1>14 DEF MatchMutants, OnAllMutantsMatchedWithTests, Record, PhaseInv, WrapInv, Ends, inputVars
  <2>2. recorder \in RecorderType
    BY DEF TypeOK, ReportersTypeOK
  <2> QED BY <2>1, <2>2, WorkWaits DEF WrapInv
<1>15. CASE MatchingFails
  BY <1>15 DEF MatchingFails, FailsBeforeTry, Reject, Continue, vars, lifeVars, runVars, inputVars, reporterVars,
       PhaseInv, WrapInv, Ends, Phases
<1>16. CASE MutationTestFails
  BY <1>16 DEF MutationTestFails, MutationTest!Fail, Disposables, vars, lifeVars, runVars, inputVars, reporterVars,
       PhaseInv, WrapInv, Ends, Phases
<1>17. CASE WrapUpDone
  BY <1>17 DEF WrapUpDone, FailsBeforeTry, Reject, Continue, Disposables, BroadcastWrapUpDone, vars, lifeVars,
       runVars, inputVars, reporterVars, PhaseInv, WrapInv, Ends, Phases
<1>18. CASE Dispose
  BY <1>18 DEF Dispose, FailsBeforeTry, Reject, Continue, DisposeTempDir, DisposeTranspiler, DisposePool, vars,
       lifeVars, runVars, inputVars, reporterVars, PhaseInv, WrapInv, Ends, Phases
<1>19. CASE PoolDisposeRejects
  BY <1>19 DEF PoolDisposeRejects, FailsBeforeTry, Reject, Continue, vars, lifeVars, runVars, inputVars,
       reporterVars, PhaseInv, WrapInv, Ends, Phases
<1>20. CASE Shutdown
  BY <1>20 DEF Shutdown, FailsBeforeTry, Reject, Continue, vars, lifeVars, runVars, inputVars, reporterVars,
       PhaseInv, WrapInv, Ends, Phases
<1>21. ASSUME NEW m \in Mutants, MutantIsTested(m)
      PROVE  WrapInv'
  <2>1. phase = "test" /\ run = "active" /\ reading' = reading /\ reading = {} /\ DOMAIN wrapUps = {}
    BY <1>21 DEF MutantIsTested, MutationTest!Report, WrapInv, Ends, inputVars
  <2>2. recorder \in RecorderType /\ Work(recorder) \in RecorderType /\ Work(Work(recorder)) \in RecorderType /\ html \in HtmlType
    BY WorkTyped DEF TypeOK, ReportersTypeOK
  <2>3. recorder'.folder # "pending" => recorder'.waiting = 0
    <3>1. recorder' = Work(recorder) \/ recorder' = Work(Work(Work(recorder)))
      BY <1>21 DEF MutantIsTested, OnMutantTested, OnLastMutantTested, Record
    <3> QED BY <2>2, <3>1, WorkWaits DEF WrapInv
  <2>4. CASE run' = "active"
    <3>1. UNCHANGED <<html, wrapUps>>
      BY <1>21, <2>4 DEF MutantIsTested, OnMutantTested
    <3> QED BY <2>1, <2>3, <2>4, <3>1 DEF WrapInv
  <2>5. CASE run' = "completed"
    <3>1. phase' = "wrapUp" /\ html' = GenerateReport(html) /\ wrapUps' = [r \in WrappingUp |-> "pending"]
      BY <1>21, <2>5 DEF MutantIsTested, OnLastMutantTested
    <3>2. (html'.main = "resolved" => ~html'.cleaning /\ html'.copying = 0) /\ (html'.copying > 0 => ~html'.cleaning)
      BY <2>1, <2>2, <3>1 DEF GenerateReport, WrapInv, HtmlType
    <3>3. ("html" \in WrappingUp => html'.main # "none") /\ ("dashboard" \in WrappingUp => dashboard' # "none")
      BY <1>21, <2>2, <2>5, <3>1 DEF MutantIsTested, OnLastMutantTested, GenerateReport, SendReport, WrappingUp,
           HtmlType
    <3> QED BY <2>1, <2>3, <2>5, <3>1, <3>2, <3>3 DEF WrapInv
  <2> QED BY <1>21, <2>4, <2>5 DEF MutantIsTested, MutationTest!Report
<1>22. CASE ReadInput
  <2>1. recorder' = Work(recorder) \/ recorder' = recorder
    BY <1>22 DEF ReadInput, OnSourceFileRead, Record, reporterVars
  <2>2. reading # {} /\ UNCHANGED <<phase, run, html, wrapUps>>
    BY <1>22 DEF ReadInput, FileIsGone, FileIsRead, OnSourceFileRead, reporterVars, lifeVars, runVars
  <2>3. run # "completed" /\ phase \in {"resolve"} \cup Ends /\ DOMAIN wrapUps = {}
    BY <2>2 DEF WrapInv
  <2>4. recorder \in RecorderType
    BY DEF TypeOK, ReportersTypeOK
  <2> QED BY <2>1, <2>2, <2>3, <2>4, WorkWaits DEF WrapInv
<1>23. CASE ReportersWork
  <2>1. UNCHANGED <<lifeVars, runVars, inputVars>> /\ progress' = progress
    BY <1>23, ReportersWorkSteps
  <2>2. CASE CleanFolder
    BY <2>1, <2>2 DEF CleanFolder, WrapInv, TypeOK, ReportersTypeOK, RecorderType, lifeVars, runVars, inputVars, Ends
  <2>3. CASE WriteEvent
    <3>1. recorder'.folder = recorder.folder /\ recorder'.waiting = recorder.waiting /\ recorder.writing # 0
      BY <2>3 DEF WriteEvent, TypeOK, ReportersTypeOK, RecorderType
    <3> QED BY <2>1, <2>3, <3>1 DEF WriteEvent, WrapInv, lifeVars, runVars, inputVars, Ends
  <2>4. CASE CleanBaseFolder
    <3>1. (html'.main = html.main \/ html'.main = "rejected") /\ ~html'.cleaning
      BY <2>4 DEF CleanBaseFolder, TypeOK, ReportersTypeOK, HtmlType
    <3>2. html.main # "resolved" /\ run = "completed"
      BY <2>4 DEF CleanBaseFolder, WrapInv
    <3> QED BY <2>1, <2>4, <3>1, <3>2 DEF CleanBaseFolder, WrapInv, lifeVars, runVars, inputVars, Ends
  <2>5. CASE CopyFile
    <3>0. html \in HtmlType
      BY DEF TypeOK, ReportersTypeOK
    <3>1. html.main # "resolved"
      BY <2>5 DEF CopyFile, WrapInv
    <3>2. PICK ok \in BOOLEAN : html' = [html EXCEPT !.copying = html.copying - 1,
                                            !.main = CASE ~ok -> "rejected"
                                                       [] ok /\ html.main = "pending" /\ html.copying = 1 -> "resolved"
                                                       [] OTHER -> html.main]
      BY <2>5 DEF CopyFile
    <3>3. html'.main = "resolved" => html.main = "pending" /\ html.copying = 1 /\ html'.copying = html.copying - 1
      BY <3>0, <3>1, <3>2 DEF HtmlType
    <3>4. html'.cleaning = html.cleaning /\ html.copying > 0 /\ html.copying \in Nat /\ ~html.cleaning /\ run = "completed"
      BY <2>5, <3>0, <3>2, ReportersAssumption DEF CopyFile, WrapInv, HtmlType
    <3> QED BY <2>1, <2>5, <3>1, <3>3, <3>4 DEF CopyFile, WrapInv, lifeVars, runVars, inputVars, Ends
  <2>6. CASE UpdateReport
    BY <2>1, <2>6 DEF UpdateReport, WrapInv, lifeVars, runVars, inputVars, Ends
  <2>7. ASSUME NEW r \in DOMAIN wrapUps, ReporterWrapsUp(r)
        PROVE  WrapInv'
    <3>1. PICK result \in WrapUpResults(r) \ {"pending"} : wrapUps' = [wrapUps EXCEPT ![r] = result]
      BY <2>7 DEF ReporterWrapsUp
    <3>2. UNCHANGED <<reporters, recorder, html, dashboard>>
      BY <2>7 DEF ReporterWrapsUp, working
    <3>3. DOMAIN wrapUps' = DOMAIN wrapUps /\ run = "completed"
      BY <3>1 DEF WrapInv
    <3>4. wrapUps'[r] = result /\ \A s \in DOMAIN wrapUps \ {r} : wrapUps'[s] = wrapUps[s]
      BY <3>1
    <3>5. /\ result # "none"
          /\ result = "resolved" => CASE r = "event-recorder" -> recorder.folder = "resolved" /\ recorder.writing = 0
                                      [] r = "html" -> html.main = "resolved"
                                      [] r = "dashboard" -> dashboard = "resolved"
                                      [] OTHER -> TRUE
      BY <3>1, <2>7 DEF WrapUpResults, RecorderWrapUp, WrapInv
    <3> QED BY <2>1, <3>1, <3>2, <3>3, <3>4, <3>5 DEF WrapInv, lifeVars, runVars, inputVars, Ends
  <2> QED BY <1>23, ReportersWorkSteps, <2>2, <2>3, <2>4, <2>5, <2>6, <2>7
<1>24. CASE TranspilerEnds
  BY <1>24 DEF TranspilerEnds, vars, lifeVars, runVars, inputVars, reporterVars, PhaseInv, WrapInv, Ends, Phases
<1>25. CASE Exit
  BY <1>25 DEF Exit, vars, lifeVars, runVars, inputVars, reporterVars, PhaseInv, WrapInv, Ends, Phases
<1>26. CASE UNCHANGED vars
  BY <1>26 DEF vars, lifeVars, runVars, inputVars, reporterVars, PhaseInv, WrapInv, Ends, Phases
<1> QED
  BY <1>1, <1>2, <1>3, <1>4, <1>5, <1>6, <1>7, <1>8, <1>9, <1>10, <1>11, <1>12, <1>13, <1>14, <1>15, <1>16, <1>17,
       <1>18, <1>19, <1>20, <1>21, <1>22, <1>23, <1>24, <1>25, <1>26 DEF Next, StrykerStep, InitialTestStep

-----------------------------------------------------------------------------
(* Theorems *)

LifeInv == TypeOK /\ PhaseInv /\ LeftInv /\ ExitInv /\ ProgressInv /\ WrapInv

LEMMA LifeInit == Init => LifeInv
<1> SUFFICES ASSUME Init
             PROVE  LifeInv
  OBVIOUS
<1> USE DEF Init, InitReporters, MutationTest!Init
<1>1. TypeOK
  <2>1. progress \in ProgressType(Mutants) /\ recorder \in RecorderType /\ html \in HtmlType
    <3>1. 0 \in 0..ReportFiles
      BY ReportersAssumption
    <3> QED BY <3>1 DEF ProgressType, RecorderType, HtmlType, NoProgress, Promise
  <2>2. dashboard \in Promise /\ DOMAIN wrapUps = {}
    BY DEF Promise
  <2>3. results \in [Mutants -> MutantStatus \cup {"none", "unmatched"}]
    OBVIOUS
  <2>4. initial.tests \subseteq Tests /\ initial.gross \in Nat
    BY DEF NoInitialRun
  <2> QED BY <2>1, <2>2, <2>3, <2>4 DEF TypeOK, ReportersTypeOK, Phases, Children
<1>2. PhaseInv /\ LeftInv
  BY DEF PhaseInv, LeftInv, Nothing, Phases, Early, Initial, Ends
<1>3. ExitInv
  BY NoThresholdBefore DEF ExitInv
<1>4. ProgressInv
  BY DEF ProgressInv, ProgressAddsUp, NoProgress
<1>5. WrapInv
  BY DEF WrapInv
<1> QED
  BY <1>1, <1>2, <1>3, <1>4, <1>5 DEF LifeInv

LEMMA LifeHolds == Spec => []LifeInv
<1>1. LifeInv /\ [Next]_vars => LifeInv'
  BY TypeNext, PhaseNext, LeftNext, ExitNext, ProgressNext, WrapNext DEF LifeInv
<1> QED
  BY LifeInit, <1>1, PTL DEF Spec

\* Every variable of a run, of its reporters and of its results keeps its type.
THEOREM TypeCorrect == Spec => []TypeOK
<1>1. LifeInv => TypeOK
  BY DEF LifeInv
<1> QED
  BY <1>1, LifeHolds, PTL

\* A run that is settled by its `finally` leaves no child, no temporary directory and no log server (Stryker.runMutationTest).
THEOREM RunCleansUp == Spec => []NothingIsLeft
<1>1. LifeInv => NothingIsLeft
  BY DEF LifeInv, LeftInv, Nothing, NothingIsLeft
<1> QED
  BY <1>1, LifeHolds, PTL

\* The exit code, which is computed from a report per file, is 1 exactly for a run that failed or has too low a score.
THEOREM ExitCodeIsRight == Spec => []ExitCodeTells
<1>1. LifeInv => ExitCodeTells
  BY DEF LifeInv, ExitInv, UnderThreshold, Of, HaveStatus, ExitCodeTells
<1> QED
  BY <1>1, LifeHolds, PTL

\* The progress never passes the total and reaches it with the last mutant, however many mutants no test covers.
THEOREM ProgressIsRight == Spec => []ProgressAddsUp
<1>1. LifeInv => ProgressAddsUp
  BY DEF LifeInv, ProgressInv
<1> QED
  BY <1>1, LifeHolds, PTL

\* When wrapUp() is over no reporter still writes or uploads but one that failed (BroadcastReporter.broadcast).
THEOREM WrapUpIsComplete == Spec => []WrapUpWaitsForWork
<1>1. LifeInv => WrapUpWaitsForWork
  <2> SUFFICES ASSUME LifeInv, run = "completed", phase # "wrapUp", NEW r \in DOMAIN wrapUps, Unfinished(r), wrapUps[r] # "rejected"
               PROVE  FALSE
    BY DEF WrapUpWaitsForWork
  <2>1. wrapUps[r] = "resolved"
    BY DEF LifeInv, TypeOK, ReportersTypeOK, Promise, WrapInv
  <2>2. recorder \in RecorderType /\ html \in HtmlType
    BY DEF LifeInv, TypeOK, ReportersTypeOK
  <2>3. CASE r = "event-recorder"
    <3>1. recorder.folder = "resolved" /\ recorder.writing = 0 /\ recorder.waiting = 0
      BY <2>1, <2>3 DEF LifeInv, WrapInv
    <3> QED BY <2>3, <3>1 DEF Unfinished
  <2>4. CASE r = "html"
    <3>1. ~html.cleaning /\ html.copying = 0
      BY <2>1, <2>4 DEF LifeInv, WrapInv
    <3> QED BY <2>4, <3>1 DEF Unfinished
  <2>5. CASE r = "dashboard"
    BY <2>1, <2>5 DEF LifeInv, WrapInv, Unfinished
  <2> QED BY <2>3, <2>4, <2>5 DEF Unfinished
<1> QED
  BY <1>1, LifeHolds, PTL

-----------------------------------------------------------------------------
(* Timeouts *)

\* The time that tests took is a number, and of no tests it is 0.
LEMMA NetTimeType ==
  ASSUME NEW tests \in SUBSET Tests
  PROVE  NetTime(tests) \in Nat /\ (tests = {} => NetTime(tests) = 0)
<1> DEFINE Solves(iter) ==
             iter = [s \in SUBSET tests |->
                       IF s = {} THEN 0 ELSE TestTime[CHOOSE x \in s : TRUE] + iter[s \ {CHOOSE x \in s : TRUE}]]
           net == CHOOSE iter : Solves(iter)
<1>1. NetTime(tests) = net[tests]
  BY DEF NetTime, MapThenSumSet, MapThenFoldSet
<1>2. IsFiniteSet(tests) /\ \A t \in tests : TestTime[t] \in Nat
  BY LifeCycleAssumption, FS_Subset DEF Tests
<1>3. \E iter \in [SUBSET tests -> Nat] : Solves(iter)
  <2> DEFINE pick == [s \in SUBSET tests |-> CHOOSE x \in s : TRUE]
             step == [t \in tests |-> [v \in Nat |-> TestTime[t] + v]]
  <2>1. \A s \in SUBSET tests : s # {} => pick[s] \in s
    OBVIOUS
  <2>2. \A t \in tests, v \in Nat : step[t][v] = TestTime[t] + v /\ step[t][v] \in Nat
    BY <1>2
  <2>3. \A s \in SUBSET tests : pick[s] = CHOOSE x \in s : TRUE
    OBVIOUS
  <2> HIDE DEF pick, step
  <2>4. PICK iter : IsFold(iter, tests, Nat, 0, step, pick)
    BY <1>2, <2>1, <2>2, FoldExists
  <2>5. ASSUME NEW s \in SUBSET tests
        PROVE  iter[s] = IF s = {} THEN 0 ELSE TestTime[pick[s]] + iter[s \ {pick[s]}]
    <3>1. iter \in [SUBSET tests -> Nat] /\ iter[s] = IF s = {} THEN 0 ELSE step[pick[s]][iter[s \ {pick[s]}]]
      BY <2>4 DEF IsFold
    <3> DEFINE p == pick[s]   r == iter[s \ {p}]
    <3>2. s # {} => p \in tests /\ r \in Nat
      BY <2>1, <3>1
    <3>3. s # {} => step[p][r] = TestTime[p] + r
      <4> HIDE DEF p, r
      <4> QED BY <2>2, <3>2
    <3> QED BY <3>1, <3>3
  <2>6. iter \in [SUBSET tests -> Nat]
    BY <2>4 DEF IsFold
  <2>7. Solves(iter)
    BY <2>3, <2>5, <2>6
  <2> HIDE DEF Solves
  <2> QED BY <2>6, <2>7
<1>4. Solves(net)
  <2> HIDE DEF Solves
  <2> QED BY <1>3
<1>5. \A s \in SUBSET tests : net[s] \in Nat
  <2> DEFINE T == {s \in SUBSET tests : net[s] \in Nat}
  <2>1. \A s \in SUBSET tests :
          net[s] = IF s = {} THEN 0 ELSE TestTime[CHOOSE x \in s : TRUE] + net[s \ {CHOOSE x \in s : TRUE}]
    <3> HIDE DEF net
    <3> QED BY <1>4
  <2> HIDE DEF net
  <2>a. net[{}] = 0
    BY <2>1
  <2>2. {} \in T
    BY <2>a
  <2>3. ASSUME NEW s \in SUBSET tests, s # {} PROVE \E x \in s : s \ {x} \in T => s \in T
    <3> DEFINE x == CHOOSE x \in s : TRUE
    <3>1. x \in s /\ TestTime[x] \in Nat
      BY <1>2, <2>3
    <3>2. net[s] = TestTime[x] + net[s \ {x}]
      BY <2>1, <2>3
    <3>3. s \ {x} \in T => s \in T
      BY <3>1, <3>2
    <3> QED BY <3>1, <3>3
  <2> HIDE DEF T
  <2>4. \A s \in SUBSET tests : s \in T
    BY <1>2, <2>2, <2>3, AllSubsets
  <2> QED BY <2>4 DEF T
<1>6. tests = {} => net[tests] = 0
  <2> HIDE DEF net
  <2> QED BY <1>4
<1> QED
  BY <1>1, <1>5, <1>6

\* The overhead is that of the initial run, whatever runs afterwards.
OverheadInv == initial.overhead = Overhead(initial.gross, initial.tests)

\* Who changes the result of the initial run: only its end does.
LEMMA InitialUnchanged ==
  ASSUME [Next]_vars
  PROVE  InitialRunResolves \/ initial' = initial
<1>1. CASE \/ Construct \/ ConfigureLoggingServer \/ NoFreePort \/ ReadFails \/ FilesResolved \/ TranspileInitially
           \/ CreateInitialSandbox \/ InitialRunRejects
  BY <1>1 DEF Construct, ConfigureLoggingServer, NoFreePort, ReadFails, FilesResolved, TranspileInitially,
       CreateInitialSandbox, InitialRunRejects
<1>2. CASE \/ InitialSandboxDisposed \/ InitialDisposeRejects \/ ForkTranspiler \/ TranspileAll \/ MatchMutants
           \/ MatchingFails \/ \E m \in Mutants : MutantIsTested(m)
  BY <1>2 DEF InitialSandboxDisposed, InitialDisposeRejects, ForkTranspiler, TranspileAll, MatchMutants, MatchingFails,
       MutantIsTested
<1>3. CASE MutationTestFails \/ WrapUpDone \/ Dispose \/ PoolDisposeRejects \/ Shutdown \/ TranspilerEnds \/ Exit
  BY <1>3 DEF MutationTestFails, WrapUpDone, Dispose, PoolDisposeRejects, Shutdown, TranspilerEnds, Exit
<1>4. CASE ReadInput \/ ReportersWork \/ UNCHANGED vars
  BY <1>4, ReportersWorkSteps DEF ReadInput, vars, lifeVars
<1> QED
  BY <1>1, <1>2, <1>3, <1>4 DEF Next, StrykerStep, InitialTestStep

\* With whichever tests a mutant is run, it has the time that these tests took and timeoutMS; with all tests, all
\* the time of the initial run (InitialTestExecutor.createTestRunResult, TestableMutant, Sandbox.calculateTimeout).
THEOREM TimeoutsAreEnough == Spec => []TimeoutsCoverTests
<1>1. ASSUME TypeOK, OverheadInv PROVE TimeoutsCoverTests
  <2>1. TimeoutFactor \in Nat \ {0} /\ TimeoutMS \in Nat /\ initial.gross \in Nat /\ initial.tests \in SUBSET Tests
    BY <1>1, LifeCycleAssumption DEF TypeOK
  <2>2. NetTime(initial.tests) \in Nat
    BY <2>1, NetTimeType
  <2>3. initial.overhead \in Nat /\ initial.overhead >= initial.gross - NetTime(initial.tests)
    BY <1>1, <2>1, <2>2 DEF OverheadInv, Overhead
  <2>4. \A n \in Nat : TimeoutFactor * n >= n /\ TimeoutFactor * n \in Nat
    BY <2>1
  <2>5. ASSUME NEW selected \in SUBSET initial.tests
        PROVE  CalculateTimeout(selected, initial.overhead) >= NetTime(selected) + TimeoutMS
    <3>1. NetTime(selected) \in Nat
      BY <2>1, NetTimeType
    <3>2. TimeoutFactor * NetTime(selected) >= NetTime(selected) /\ TimeoutFactor * NetTime(selected) \in Nat
      BY <2>4, <3>1
    <3> QED BY <2>1, <2>3, <3>1, <3>2 DEF CalculateTimeout
  <2>6. CalculateTimeout(initial.tests, initial.overhead) >= initial.gross + TimeoutMS
    <3>1. TimeoutFactor * NetTime(initial.tests) >= NetTime(initial.tests) /\ TimeoutFactor * NetTime(initial.tests) \in Nat
      BY <2>2, <2>4
    <3> QED BY <2>1, <2>2, <2>3, <3>1 DEF CalculateTimeout
  <2> QED BY <2>5, <2>6 DEF TimeoutsCoverTests
<1>2. Init => OverheadInv
  <2>1. NetTime({}) = 0
    BY NetTimeType
  <2> QED BY <2>1 DEF Init, NoInitialRun, OverheadInv, Overhead
<1>3. OverheadInv /\ [Next]_vars => OverheadInv'
  <2>1. InitialRunResolves => OverheadInv'
    BY DEF InitialRunResolves, OverheadInv
  <2> QED BY <2>1, InitialUnchanged DEF OverheadInv
<1> QED
  BY <1>1, <1>2, <1>3, TypeCorrect, PTL DEF Spec

-----------------------------------------------------------------------------
(* The selection of files *)

\* The fold over the patterns comes to the last one that finds a file.
LEMMA ExpandIsSelected ==
  ASSUME NEW pats, IsList(pats), NEW f
  PROVE  f \in Expand(pats) <=> Selected(pats, f)
<1> DEFINE n == Len(pats)
           V == SUBSET UNION {pats[i].files : i \in DOMAIN pats}
           after(i, v) == IF pats[i].ignore THEN v \ pats[i].files ELSE v \cup pats[i].files
           Solves(iter) ==
             iter = [s \in SUBSET (DOMAIN pats) |-> IF s = {} THEN {} ELSE after(Max(s), iter[s \ {Max(s)}])]
           expand == CHOOSE iter : Solves(iter)
<1>1. n \in Nat /\ DOMAIN pats = 1 .. n
  BY DEF IsList
<1>a. \A i \in 1 .. n : pats[i].files \in V
  BY <1>1
<1>2. Expand(pats) = expand[DOMAIN pats]
  BY DEF Expand, FoldLeft, MapThenFoldSet
<1>3. Solves(expand)
  <2> DEFINE step == [i \in 1 .. n |-> [v \in V |-> after(i, v)]]
  <2>1. \A i \in 1 .. n, v \in V : step[i][v] = after(i, v) /\ after(i, v) \in V
    BY <1>a
  <2>a. {} \in V
    OBVIOUS
  <2> HIDE DEF after, step, n, V
  <2>2. PICK iter : IsFold(iter, 1 .. n, V, {}, step, Largest(n))
    BY <1>1, <2>1, <2>a, LeftFoldExists
  <2>3. \A s \in SUBSET (1 .. n) : s # {} => /\ Max(s) \in 1 .. n /\ iter[s \ {Max(s)}] \in V
                                             /\ Largest(n)[s] = Max(s)
    BY <1>1, <2>2, LargestIsIn DEF IsFold, Largest
  <2>4. \A s \in SUBSET (1 .. n) : iter[s] = IF s = {} THEN {} ELSE after(Max(s), iter[s \ {Max(s)}])
    <3> SUFFICES ASSUME NEW s \in SUBSET (1 .. n) PROVE iter[s] = IF s = {} THEN {} ELSE after(Max(s), iter[s \ {Max(s)}])
      OBVIOUS
    <3>1. iter[s] = IF s = {} THEN {} ELSE step[Largest(n)[s]][iter[s \ {Largest(n)[s]}]]
      BY <2>2 DEF IsFold
    <3> QED BY <3>1, <2>1, <2>3
  <2>5. Solves(iter)
    BY <1>1, <2>2, <2>4 DEF IsFold
  <2> QED BY <2>5
<1> DEFINE upTo(i) == expand[1 .. i]
<1>4. upTo(0) = {} /\ \A i \in 1 .. n : upTo(i) = after(i, upTo(i - 1))
  <2> HIDE DEF after, n
  <2>1. \A s \in SUBSET (1 .. n) : expand[s] = IF s = {} THEN {} ELSE after(Max(s), expand[s \ {Max(s)}])
    <3> HIDE DEF expand
    <3> QED BY <1>1, <1>3
  <2> HIDE DEF expand
  <2>2. upTo(0) = {}
    BY <2>1, 1 .. 0 = {}
  <2>3. ASSUME NEW i \in 1 .. n PROVE upTo(i) = after(i, upTo(i - 1))
    <3>1. 1 .. i \in SUBSET (1 .. n) /\ 1 .. i # {} /\ i \in Nat \ {0}
      BY <1>1
    <3>2. Max(1 .. i) = i /\ (1 .. i) \ {i} = 1 .. i - 1
      BY <3>1, LargestOfPrefix
    <3> QED BY <2>1, <3>1, <3>2
  <2> QED BY <2>2, <2>3
<1> DEFINE LastSays(i) == \E k \in 1 .. i : /\ ~pats[k].ignore /\ f \in pats[k].files
                                            /\ \A j \in k + 1 .. i : f \notin pats[j].files
           T == {i \in 0 .. n : f \in upTo(i) <=> LastSays(i)}
<1>5. 0 \in T
  <2>1. ~LastSays(0)
    OBVIOUS
  <2> HIDE DEF upTo, LastSays, after, n
  <2> QED BY <1>1, <1>4, <2>1
<1>6. ASSUME NEW i \in 0 .. n - 1, i \in T PROVE i + 1 \in T
  <2>1. i + 1 \in 1 .. n /\ (i + 1) - 1 = i
    BY <1>1
  <2> HIDE DEF upTo, n
  <2>2. upTo(i + 1) = after(i + 1, upTo(i))
    BY <1>4, <2>1
  <2>3. f \in upTo(i) <=> LastSays(i)
    BY <1>6
  <2>4. LastSays(i + 1) <=> (IF f \in pats[i + 1].files THEN ~pats[i + 1].ignore ELSE LastSays(i))
    BY <1>1, <2>1
  <2> HIDE DEF LastSays
  <2> QED BY <1>1, <2>1, <2>2, <2>3, <2>4
<1>7. n \in T
  <2>1. n \in Nat
    BY <1>1
  <2> HIDE DEF T, n
  <2>2. \A i \in 0 .. n - 1 : i \in T => i + 1 \in T
    BY <1>6
  <2>3. \A i \in 0 .. n : i \in T
    BY <1>5, <2>1, <2>2, UpTo
  <2> QED BY <2>1, <2>3
<1> QED
  BY <1>1, <1>2, <1>7 DEF Selected

\* What is read, and what was, is what the patterns select; they do not change before all is read.
SelectionInv ==
  /\ phase \in {"start", "configureLogging", "resolve"} => IsList(patterns.files) /\ IsList(patterns.mutate)
  /\ phase \in {"start", "configureLogging"} => reading = {} /\ files = {}
  /\ phase = "resolve" /\ ~patterns.git => reading \cup files \subseteq Expand(patterns.files)

LEMMA SelectionNext == SelectionInv /\ [Next]_vars => SelectionInv'
<1> SUFFICES ASSUME SelectionInv, [Next]_vars PROVE SelectionInv'
  OBVIOUS
<1>1. CASE Construct \/ NoFreePort
  BY <1>1 DEF Construct, NoFreePort, FailsBeforeTry, Reject, Continue, inputVars, SelectionInv
<1>2. CASE ConfigureLoggingServer
  BY <1>2 DEF ConfigureLoggingServer, FailsBeforeTry, Reject, Continue, StartReading, ResolveInputFiles, inputVars,
       SelectionInv
<1>3. CASE ReadInput
  BY <1>3 DEF ReadInput, FileIsGone, FileIsRead, lifeVars, SelectionInv
<1>4. CASE phase' \notin {"start", "configureLogging", "resolve"}
  BY <1>4 DEF SelectionInv
<1>5. CASE ReadFails \/ FilesResolved
  BY <1>4, <1>5 DEF ReadFails, FilesResolved, FailsBeforeTry, Reject, Continue
<1>6. CASE \/ TranspileInitially \/ CreateInitialSandbox \/ InitialRunResolves \/ InitialRunRejects
           \/ InitialSandboxDisposed \/ InitialDisposeRejects
  BY <1>4, <1>6 DEF TranspileInitially, CreateInitialSandbox, InitialRunResolves, InitialRunRejects,
       InitialSandboxDisposed, InitialDisposeRejects, FailsBeforeTry, Reject, Continue
<1>7. CASE TranspileAll \/ MatchMutants \/ MatchingFails \/ \E m \in Mutants : MutantIsTested(m)
  BY <1>4, <1>7 DEF TranspileAll, MatchMutants, MatchingFails, MutantIsTested, FailsBeforeTry, Reject, Continue
<1>8. CASE MutationTestFails \/ WrapUpDone \/ Dispose \/ PoolDisposeRejects \/ Shutdown \/ Exit
  BY <1>4, <1>8 DEF MutationTestFails, WrapUpDone, Dispose, PoolDisposeRejects, Shutdown, Exit, Reject, Continue
<1>9. CASE ForkTranspiler \/ TranspilerEnds \/ ReportersWork \/ UNCHANGED vars
  BY <1>9, ReportersWorkSteps DEF ForkTranspiler, TranspilerEnds, vars, lifeVars, inputVars, SelectionInv
<1> QED
  BY <1>1, <1>2, <1>3, <1>5, <1>6, <1>7, <1>8, <1>9 DEF Next, StrykerStep, InitialTestStep

\* The files that are read and those that are mutated are those whose last pattern does not start with a "!"
\* (InputFileResolver.expandFilePatterns), for any patterns.
THEOREM PatternsAreFollowed == Spec => []SelectionFollowsPatterns
<1>1. SelectionInv => SelectionFollowsPatterns
  BY ExpandIsSelected DEF SelectionInv, SelectionFollowsPatterns, FilesToMutate
<1>2. Init => SelectionInv
  BY GivenAssumption DEF Init, SelectionInv
<1> QED
  BY <1>1, <1>2, SelectionNext, PTL DEF Spec

-----------------------------------------------------------------------------
(* The options *)

\* A list begins with itself, and so does one that overrides another.
LEMMA ListsBegin ==
  ASSUME NEW list, IsList(list)
  PROVE  /\ Begins(list, list)
         /\ \A other : IsList(other) => Begins(list, Overlay(other, list)) /\ IsList(Overlay(other, list))
<1>1. Begins(list, list)
  BY SubSeqFull DEF IsList, Begins
<1>2. ASSUME NEW other, IsList(other)
      PROVE  Begins(list, Overlay(other, list)) /\ IsList(Overlay(other, list))
  <2> DEFINE S == Range(list) \cup Range(other)
             rest == SubSeq(other, Len(list) + 1, Len(other))
             all == list \o rest
             n == Len(list)
  <2>1. list \in Seq(S) /\ other \in Seq(S)
    BY <1>2 DEF IsList
  <2>2. n \in Nat /\ Len(other) \in Nat /\ \A i \in n + 1 .. Len(other) : other[i] \in S
    BY <2>1
  <2> HIDE DEF S, n
  <2>3. rest \in Seq(S)
    BY <2>2, SubSeqProperties DEF n
  <2> HIDE DEF rest
  <2>4. /\ all \in Seq(S) /\ Len(all) = n + Len(rest) /\ Len(rest) \in Nat
        /\ \A i \in 1 .. n : all[i] = list[i]
    BY <2>1, <2>2, <2>3, ConcatProperties DEF n
  <2> HIDE DEF all
  <2>5. n \in 0 .. Len(all)
    BY <2>2, <2>4
  <2>6. SubSeq(all, 1, n) = list
    <3>1. /\ SubSeq(all, 1, n) \in Seq(S) /\ Len(SubSeq(all, 1, n)) = n
          /\ \A i \in 1 .. n : SubSeq(all, 1, n)[i] = all[i]
      BY <2>2, <2>4, SubSeqProperties
    <3> DEFINE part == SubSeq(all, 1, n)
    <3> HIDE DEF part
    <3>2. part \in Seq(S) /\ Len(part) = n /\ \A i \in 1 .. n : part[i] = list[i]
      BY <2>4, <3>1 DEF part
    <3>3. part = list
      BY <2>1, <3>2 DEF n
    <3> QED BY <3>3 DEF part
  <2>7. all \in Seq(Range(all))
    BY <2>4 DEF Range
  <2> QED BY <2>5, <2>6, <2>7 DEF Begins, IsList, Overlay, n, all, rest
<1> QED
  BY <1>1, <1>2

\* Validation adds the defaults and changes nothing else.
LEMMA ValidateIs ==
  ASSUME NEW o, NEW schema, NEW valid \in Validate(o, schema), NEW key
  PROVE  /\ key \in DOMAIN valid <=> key \in DOMAIN o \cup DOMAIN schema
         /\ key \in DOMAIN o => valid[key] = o[key]
         /\ key \in DOMAIN schema \ DOMAIN o => valid[key] = schema[key].default
BY DEF Validate, SchemaValidate, Over

\* The default options are the defaults of the schema.
LEMMA DefaultsAre ==
  ASSUME NEW key \in DOMAIN CoreSchema
  PROVE  key \in DOMAIN DefaultOptions /\ DefaultOptions[key] = CoreSchema[key].default
<1> DEFINE nothing == << >>
<1>1. DefaultOptions \in Validate(nothing, CoreSchema)
  BY GivenAssumption DEF DefaultOptions
<1>2. key \notin DOMAIN nothing
  OBVIOUS
<1> HIDE DEF nothing
<1> QED
  BY <1>1, <1>2, ValidateIs

\* What both sides of a merge say is the right one's, element by element in a list.
LEMMA DeepMergeIs ==
  ASSUME NEW o, NEW p, NEW key, key \in DOMAIN o
  PROVE  /\ key \in DOMAIN DeepMerge(o, p)
         /\ DeepMerge(o, p)[key] = IF key \notin DOMAIN p THEN o[key]
                                   ELSE IF key \in ListOptions THEN Overlay(o[key], p[key]) ELSE p[key]
<1>1. key \in DOMAIN o \cup DOMAIN p
  OBVIOUS
<1> QED
  BY <1>1 DEF DeepMerge

\* What the config file says, over the defaults.
LEMMA ConfigIs ==
  ASSUME NEW g \in Givens, NEW base \in LoadConfigModule(g), NEW key \in DOMAIN CoreSchema
  PROVE  /\ key \in DOMAIN base
         /\ key \in ListOptions => IsList(base[key])
         /\ IF key \in DOMAIN g.contents THEN Overrides(key, g.contents[key], base[key])
            ELSE base[key] = CoreSchema[key].default
<1>1. CASE g.file = "object"
  <2>1. base \in Validate(g.contents, CoreSchema)
    BY <1>1 DEF LoadConfigModule
  <2>2. /\ key \in DOMAIN base
        /\ base[key] = IF key \in DOMAIN g.contents THEN g.contents[key] ELSE CoreSchema[key].default
    BY <2>1, ValidateIs
  <2>3. key \in ListOptions => IsList(base[key])
    BY <2>2, GivenAssumption
  <2> QED BY <2>2, <2>3, ListsBegin DEF Overrides
<1>2. CASE g.file = "function"
  <2>1. base = DeepMerge(DefaultOptions, g.contents)
    BY <1>2 DEF LoadConfigModule
  <2>2. key \in DOMAIN DefaultOptions /\ DefaultOptions[key] = CoreSchema[key].default
    BY DefaultsAre
  <2>3. key \in DOMAIN base
    BY <2>1, <2>2, DeepMergeIs
  <2>4. CASE key \notin DOMAIN g.contents
    <3>1. base[key] = CoreSchema[key].default
      BY <2>1, <2>2, <2>4, DeepMergeIs
    <3> QED BY <2>3, <2>4, <3>1, GivenAssumption
  <2>5. CASE key \in DOMAIN g.contents /\ key \notin ListOptions
    BY <2>1, <2>2, <2>3, <2>5, DeepMergeIs DEF Overrides
  <2>6. CASE key \in DOMAIN g.contents \cap ListOptions
    <3>1. base[key] = Overlay(CoreSchema[key].default, g.contents[key])
      BY <2>1, <2>2, <2>6, DeepMergeIs
    <3>2. IsList(CoreSchema[key].default) /\ IsList(g.contents[key])
      BY <2>6, GivenAssumption
    <3> QED BY <2>3, <2>6, <3>1, <3>2, ListsBegin DEF Overrides
  <2> QED BY <2>4, <2>5, <2>6
<1>3. CASE g.file \notin {"object", "function"}
  <2>1. g.file = "absent" /\ base = DefaultOptions
    BY <1>3 DEF LoadConfigModule
  <2>2. DOMAIN g.contents = {}
    BY <2>1, GivenAssumption
  <2>3. key \in DOMAIN base /\ base[key] = CoreSchema[key].default
    BY <2>1, DefaultsAre
  <2> QED BY <2>2, <2>3, GivenAssumption
<1> QED
  BY <1>1, <1>2, <1>3

\* No step leads to the first phase.
LEMMA StartsOnce ==
  ASSUME [Next]_vars, phase' = "start"
  PROVE  phase = "start" /\ given' = given
<1>1. CASE Construct \/ NoFreePort \/ ConfigureLoggingServer \/ ReadFails \/ FilesResolved
  BY <1>1 DEF Construct, NoFreePort, ConfigureLoggingServer, ReadFails, FilesResolved, FailsBeforeTry, Reject, Continue
<1>2. CASE InitialTestStep
  BY <1>2 DEF InitialTestStep, TranspileInitially, CreateInitialSandbox, InitialRunResolves, InitialRunRejects,
       InitialSandboxDisposed, InitialDisposeRejects, FailsBeforeTry, Reject, Continue
<1>3. CASE TranspileAll \/ MatchMutants \/ MatchingFails \/ \E m \in Mutants : MutantIsTested(m)
  BY <1>3 DEF TranspileAll, MatchMutants, MatchingFails, MutantIsTested, FailsBeforeTry, Reject, Continue
<1>4. CASE MutationTestFails \/ WrapUpDone \/ Dispose \/ PoolDisposeRejects \/ Shutdown \/ Exit
  BY <1>4 DEF MutationTestFails, WrapUpDone, Dispose, PoolDisposeRejects, Shutdown, Exit, Reject, Continue
<1>5. CASE ForkTranspiler \/ TranspilerEnds \/ ReadInput \/ ReportersWork \/ UNCHANGED vars
  BY <1>5, ReportersWorkSteps DEF ForkTranspiler, TranspilerEnds, ReadInput, vars, lifeVars
<1> QED
  BY <1>1, <1>2, <1>3, <1>4, <1>5 DEF Next, StrykerStep

\* Until the options are made, what the user gave is there.
GivenInv == phase = "start" => given \in Givens

\* The command line wins over the config file, and that over the defaults, for any schema, plugins and kind of config
\* file (ConfigReader, OptionsValidator, deepMerge).
THEOREM CommandLineIsHeard == Spec => []CommandLineWins
<1>1. ASSUME GivenInv PROVE CommandLineWins
  <2> SUFFICES ASSUME given \in Givens, NEW o \in BuildOptions(given), NEW key \in DOMAIN CoreSchema \ DOMAIN given.edits
               PROVE  CASE key \in DOMAIN given.cli -> Overrides(key, given.cli[key], o[key])
                        [] key \in DOMAIN given.contents \ DOMAIN given.cli -> Overrides(key, given.contents[key], o[key])
                        [] OTHER -> o[key] = CoreSchema[key].default
    BY <1>1 DEF CommandLineWins, GivenInv
  <2>1. PICK base \in LoadConfigModule(given) :
          \E schema : \E valid \in Validate(DeepMerge(base, given.cli), schema) : o = Over(given.edits, valid)
    BY DEF BuildOptions, ApplyOptionsEditors, ValidateWithPlugins, ReadConfig
  <2>2. PICK schema : \E valid \in Validate(DeepMerge(base, given.cli), schema) : o = Over(given.edits, valid)
    BY <2>1
  <2>a. PICK valid \in Validate(DeepMerge(base, given.cli), schema) : o = Over(given.edits, valid)
    BY <2>2
  <2>3. /\ key \in DOMAIN base
        /\ key \in ListOptions => IsList(base[key])
        /\ IF key \in DOMAIN given.contents THEN Overrides(key, given.contents[key], base[key])
           ELSE base[key] = CoreSchema[key].default
    BY ConfigIs
  <2> DEFINE read == DeepMerge(base, given.cli)
  <2>4. key \in DOMAIN read /\ valid[key] = read[key] /\ key \in DOMAIN valid
    <3>1. key \in DOMAIN read
      BY <2>3, DeepMergeIs
    <3> HIDE DEF read
    <3> QED BY <2>a, <3>1, ValidateIs DEF read
  <2>5. o[key] = read[key]
    BY <2>a, <2>4 DEF Over
  <2>6. CASE key \notin DOMAIN given.cli
    <3>1. o[key] = base[key]
      BY <2>3, <2>5, <2>6, DeepMergeIs
    <3> QED BY <2>3, <2>6, <3>1
  <2>7. CASE key \in DOMAIN given.cli /\ key \notin ListOptions
    <3>1. o[key] = given.cli[key]
      BY <2>3, <2>5, <2>7, DeepMergeIs
    <3> QED BY <2>7, <3>1 DEF Overrides
  <2>8. CASE key \in DOMAIN given.cli /\ key \in ListOptions
    <3>1. o[key] = Overlay(base[key], given.cli[key])
      BY <2>3, <2>5, <2>8, DeepMergeIs
    <3>2. IsList(given.cli[key])
      BY <2>8, GivenAssumption
    <3> QED BY <2>3, <2>8, <3>1, <3>2, ListsBegin DEF Overrides
  <2> QED BY <2>6, <2>7, <2>8
<1>2. Init => GivenInv
  BY DEF Init, GivenInv
<1>3. GivenInv /\ [Next]_vars => GivenInv'
  BY StartsOnce DEF GivenInv
<1> QED
  BY <1>1, <1>2, <1>3, PTL DEF Spec
=============================================================================
