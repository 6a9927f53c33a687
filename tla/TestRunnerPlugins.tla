-------------------------- MODULE TestRunnerPlugins --------------------------
(***************************************************************************)
(* The test runner plugins, each around its framework: what happens in a   *)
(* run comes as events, thrown errors or a result object, and each plugin  *)
(* makes one RunResult of it.  run() is called again once it has settled,  *)
(* as the decorators do.  A test that ends carries the run it ended in and *)
(* the run whose code it executed.  What went wrong, and in which run, is  *)
(* recorded beside the plugin: failedIn, outsideIn and brokenIn.           *)
(***************************************************************************)
EXTENDS Naturals, Sequences, FiniteSets

CONSTANTS RunnerPlugins,      \* the plugins of these names: karma, mocha, jest, jasmine, wct
          PluginRuns,         \* how many times run() is called, at most
          PluginTests,        \* the tests
          RootTests           \* those of them that are in no suite
ASSUME RunnerAssumption == RunnerPlugins \subseteq {"karma", "mocha", "jest", "jasmine", "wct"} /\ PluginRuns \in Nat

VARIABLES plugin,
          watch,          \* whether the framework runs its tests when a file changes
          pluginPhase,    \* "new", "dead" (init failed), "idle", "running", "done"
          pluginRun,      \* the number of the last run
          selected,       \* the tests that filter() is called with: none if all are to run
          filter,         \* the tests that the framework will run
          savedAddTest,   \* ____mochaAddTest: what Mocha's addTest() let through before it was replaced, if it was
          codeOf,         \* the run whose code the require cache, or the browser, has
          collected,      \* currentTestResults etc. of Karma, runResult of Mocha, results of Wct, tests of Jasmine
          pluginResults,  \* what each run() resolves to
          failedIn,       \* the runs in which a test failed
          outsideIn,      \* those in which the framework told of a failure outside the tests: a hook, a suite
          brokenIn        \* those in which something else went wrong

pluginVars == <<plugin, watch, pluginPhase, pluginRun, selected, filter, savedAddTest, codeOf, collected, pluginResults,
                failedIn, outsideIn, brokenIn>>
filters == <<selected, filter, savedAddTest>>
history == <<failedIn, outsideIn, brokenIn>>

Unresolved == [status |-> "none"]
Resolved(r) == pluginResults[r] # Unresolved
Hook == "hook"
NoResults == [tests |-> {}, errors |-> {}, status |-> "Complete"]

----------------------------------------------------------------------------
(* Whether the framework runs the tests by itself when a file changes (autoWatch and singleRun of Karma, *)
(* persistent of Wct): the settings are merged, and Stryker's come behind the defaults and the user's. *)

WatchSettings(name, user) ==
  CASE name = "karma" -> <<TRUE, user, FALSE>>
    [] name = "wct"   -> <<user, FALSE>>
    [] OTHER          -> <<FALSE>>
Watches(name, user) == LET layers == WatchSettings(name, user) IN layers[Len(layers)]

InitPlugins ==
  /\ plugin \in RunnerPlugins /\ watch = FALSE /\ pluginPhase = "new" /\ pluginRun = 0 /\ codeOf = 0
  /\ selected = {} /\ filter = PluginTests /\ savedAddTest = {}
  /\ collected = NoResults /\ pluginResults = [r \in 1..PluginRuns |-> Unresolved]
  /\ failedIn = {} /\ outsideIn = {} /\ brokenIn = {}

\* The constructor and init(): Wct wants no coverage analysis, Karma waits for its browsers, files may be missing.
InitPlugin ==
  /\ pluginPhase = "new"
  /\ \E user \in BOOLEAN : watch' = Watches(plugin, user)
  /\ pluginPhase' \in {"idle", "dead"}
  /\ UNCHANGED <<plugin, pluginRun, filters, codeOf, collected, pluginResults, history>>

----------------------------------------------------------------------------
(* The begin of a run *)

BugKeepsCache(run) == IF codeOf = 0 THEN run ELSE codeOf
\* The sandbox's files are taken from the require cache; the other frameworks look for changes themselves.
PurgeFiles(run) == run

\* Karma's results are cleaned at the end of a run; errors of the compiler may be there already.
NewResults ==
  CASE plugin = "karma" -> collected
    [] plugin = "mocha" -> [NoResults EXCEPT !.status = "Error"]
    [] OTHER            -> NoResults

\* Sandbox.getFilterTestsHooks and TestFramework.filter.  What the code for Mocha leaves behind is global: the first
\* selection saves addTest(), which each later one restores before it replaces it, as does none.  It joins the title
\* of a suite and a test by a blank, and the suite around all others has none: no selected name is that of a test
\* there.  The filter of Jasmine is in an environment that each run makes anew, the one of Karma in a page that is
\* loaded anew.  The others have none.
Selections == IF plugin \in {"karma", "mocha", "jasmine"} THEN SUBSET PluginTests ELSE {{}}
RealAddTest == IF savedAddTest = {} THEN filter ELSE UNION savedAddTest
MochaFilter(selection) == IF selection = {} THEN RealAddTest ELSE RealAddTest \cap (selection \ RootTests)
JasmineFilter(selection) == IF selection = {} THEN PluginTests ELSE selection
FilterHooks(selection) ==
  CASE plugin = "mocha" -> MochaFilter(selection)
    [] plugin \in {"jasmine", "karma"} -> JasmineFilter(selection)
    [] OTHER -> PluginTests

BeginPluginRun ==
  /\ pluginPhase = "idle" /\ pluginRun < PluginRuns
  /\ selected' \in Selections /\ filter' = FilterHooks(selected')
  /\ savedAddTest' = IF plugin = "mocha" /\ selected' # {} THEN {RealAddTest} ELSE savedAddTest
  /\ pluginRun' = pluginRun + 1
  /\ codeOf' = PurgeFiles(pluginRun + 1)
  /\ collected' = NewResults
  /\ pluginPhase' = IF plugin = "karma" /\ collected.status = "Error" THEN "done" ELSE "running"
  /\ UNCHANGED <<plugin, watch, pluginResults, history>>

----------------------------------------------------------------------------
(* What happens in the framework.  An error that precedes a run counts for that run. *)

Running == pluginPhase \in (IF watch THEN {"idle", "running"} ELSE {"running"})
Coming == IF pluginPhase = "idle" THEN pluginRun + 1 ELSE pluginRun

\* What each framework tells of a test, which of it is a failure, and what the plugin makes of it.  Of a test that is
\* pending Mocha tells nothing; Jasmine may know of failures of one.
Reports ==
  CASE plugin = "karma"   -> [skipped : BOOLEAN, success : BOOLEAN]
    [] plugin = "mocha"   -> {"pass", "fail"}
    [] plugin = "jest"    -> {"passed", "failed", "pending", "todo"}
    [] plugin = "jasmine" -> [status : {"pending", "excluded"}, failedExpectations : BOOLEAN]
                             \cup {[status |-> "passed", failedExpectations |-> FALSE],
                                    [status |-> "failed", failedExpectations |-> TRUE]}
    [] plugin = "wct"     -> {"passing", "failing", "pending", "unknown"}
IsFailure(report) ==
  CASE plugin = "karma"   -> ~report.skipped /\ ~report.success
    [] plugin = "jasmine" -> report.status = "failed"
    [] OTHER              -> report \in {"fail", "failed", "failing"}

KarmaStatus(spec) ==
  CASE spec.skipped -> "skipped" [] ~spec.skipped /\ spec.success -> "passed" [] OTHER -> "failed"
MochaStatus(event) == IF event = "pass" THEN "passed" ELSE "failed"
JestStatus(status) == IF status \in {"passed", "failed"} THEN status ELSE "skipped"
JasmineStatus(spec) ==
  CASE spec.status \in {"disabled", "pending", "excluded"} -> "skipped"
    [] ~spec.failedExpectations -> "passed"
    [] OTHER -> "failed"
WctStatus(state) == CASE state = "failing" -> "failed" [] state = "passing" -> "passed" [] OTHER -> "skipped"

TestStatus(report) ==
  CASE plugin = "karma"   -> KarmaStatus(report)
    [] plugin = "mocha"   -> MochaStatus(report)
    [] plugin = "jest"    -> JestStatus(report)
    [] plugin = "jasmine" -> JasmineStatus(report)
    [] plugin = "wct"     -> WctStatus(report)

\* Mocha is told to bail: after a failure no test runs.  The message of a failure is in the errors of its result too.
TestEnds(t, report) ==
  /\ Running /\ t \in filter
  /\ \A c \in collected.tests : c.test # t \/ c.run # pluginRun
  /\ plugin = "mocha" => pluginRun \notin failedIn \cup outsideIn
  /\ collected' = [collected EXCEPT
         !.tests = @ \cup {[test |-> t, status |-> TestStatus(report), run |-> pluginRun, code |-> codeOf]},
         !.errors = IF plugin = "mocha" /\ IsFailure(report) THEN @ \cup {pluginRun} ELSE @]
  /\ failedIn' = IF IsFailure(report) THEN failedIn \cup {pluginRun} ELSE failedIn
  /\ UNCHANGED <<plugin, watch, pluginPhase, pluginRun, filters, codeOf, pluginResults, outsideIn, brokenIn>>

\* A failure that is of no test.  The reporter for Mocha takes a hook that fails for a failed test; after the last test
\* the hooks still run.  Jasmine tells of afterAll(), and of what is in no spec, by suiteDone and jasmineDone: the
\* reporter for Jasmine has no suiteDone, and its jasmineDone looks at nothing.
FailsOutsideTests ==
  /\ plugin \in {"mocha", "jasmine"} /\ pluginPhase = "running"
  /\ outsideIn' = outsideIn \cup {pluginRun}
  /\ collected' = IF plugin = "jasmine" THEN collected
                  ELSE [collected EXCEPT
                          !.tests = @ \cup {[test |-> Hook, status |-> "failed", run |-> pluginRun, code |-> codeOf]},
                          !.errors = @ \cup {pluginRun}]
  /\ UNCHANGED <<plugin, watch, pluginPhase, pluginRun, filters, codeOf, pluginResults, failedIn, brokenIn>>

BrowserError ==
  /\ plugin = "karma" /\ pluginPhase = "running"
  /\ collected' = [collected EXCEPT !.errors = @ \cup {pluginRun}]
  /\ brokenIn' = brokenIn \cup {pluginRun}
  /\ UNCHANGED <<plugin, watch, pluginPhase, pluginRun, filters, codeOf, pluginResults, failedIn, outsideIn>>

\* From angular-cli, as soon as the mutated file is written, or later.
CompileError ==
  /\ plugin = "karma" /\ pluginPhase \in {"idle", "running"} /\ Coming <= PluginRuns
  /\ collected' = [collected EXCEPT !.errors = @ \cup {Coming}, !.status = "Error"]
  /\ brokenIn' = brokenIn \cup {Coming}
  /\ UNCHANGED <<plugin, watch, pluginPhase, pluginRun, filters, codeOf, pluginResults, failedIn, outsideIn>>

\* A suite of Jest that cannot be run is counted, the others go on.
SuiteCannotRun ==
  /\ plugin = "jest" /\ pluginPhase = "running"
  /\ collected' = [collected EXCEPT !.status = "Error"]
  /\ brokenIn' = brokenIn \cup {pluginRun}
  /\ UNCHANGED <<plugin, watch, pluginPhase, pluginRun, filters, codeOf, pluginResults, failedIn, outsideIn>>

\* Karma says "Error" only after an error, of which it tells by an event, or when no test was executed; after an
\* error it may as well say "Complete".
RunComplete ==
  /\ plugin = "karma" /\ pluginPhase = "running"
  /\ \E status \in {"Complete", "Error", "Timeout"} :
       /\ collected' = [collected EXCEPT !.status = status]
       /\ status = "Error" => collected.tests = {} \/ collected.errors # {}
       /\ brokenIn' = IF status = "Timeout" THEN brokenIn \cup {pluginRun} ELSE brokenIn
  /\ pluginPhase' = "done"
  /\ UNCHANGED <<plugin, watch, pluginRun, filters, codeOf, pluginResults, failedIn, outsideIn>>

----------------------------------------------------------------------------
(* The end of a run *)

ResolveRun(result) ==
  /\ pluginResults' = [pluginResults EXCEPT ![pluginRun] = result]
  /\ pluginPhase' = "idle"
  /\ UNCHANGED <<plugin, watch, pluginRun, filters, codeOf, failedIn, outsideIn>>
ErrorResult(r) == [tests |-> {}, errors |-> {r}, status |-> "Error"]

BugTrustsStatus == collected.status
DetermineRunState ==
  CASE collected.status = "Error" /\ collected.errors = {} /\ collected.tests = {} -> "Complete"
    [] collected.errors # {} -> "Error"
    [] OTHER -> collected.status

CleanRun == NoResults

CollectRunResult ==
  /\ pluginPhase = "done"
  /\ ResolveRun([collected EXCEPT !.status = DetermineRunState])
  /\ collected' = CleanRun
  /\ UNCHANGED brokenIn

\* 'end' of Mocha, jasmineDone, the result of Jest, runTests() of Wct.
FrameworkDone ==
  /\ plugin # "karma" /\ pluginPhase = "running"
  /\ ResolveRun([collected EXCEPT !.status = IF plugin = "jest" THEN @ ELSE "Complete"])
  /\ UNCHANGED <<collected, brokenIn>>

\* Mocha, Jasmine and Wct fail to load the tests, or to start the browser.
FrameworkThrows ==
  /\ plugin \in {"mocha", "jasmine", "wct"} /\ pluginPhase = "running"
  /\ brokenIn' = brokenIn \cup {pluginRun}
  /\ ResolveRun(ErrorResult(pluginRun))
  /\ UNCHANGED collected

\* Mocha cannot be set up, or Jest's runCLI() rejects: run() does, and the decorators go on with a new runner.
PluginRunRejects ==
  /\ plugin \in {"mocha", "jest"} /\ pluginPhase = "running"
  /\ pluginPhase' = "dead"
  /\ UNCHANGED <<plugin, watch, pluginRun, filters, codeOf, collected, pluginResults, history>>

PluginStep ==
  \/ InitPlugin \/ BeginPluginRun \/ FailsOutsideTests \/ BrowserError \/ CompileError \/ SuiteCannotRun \/ RunComplete
  \/ CollectRunResult \/ FrameworkDone \/ FrameworkThrows \/ PluginRunRejects
  \/ \E t \in PluginTests, report \in Reports : TestEnds(t, report)

----------------------------------------------------------------------------
(* What Sandbox makes of a result *)

StateOf(result) ==
  CASE result.status = "Timeout" -> "TimedOut"
    [] result.status = "Error"   -> "RuntimeError"
    [] \E c \in result.tests : c.status = "failed" -> "Killed"
    [] OTHER -> "Survived"

\* A result holds the tests of its own run, which executed the code of that run, whichever framework reports them
\* and however often run() was called before: nothing is left in a collector, a cache, or comes by itself.  Nor is a
\* filter left: the tests that can run are those selected for this run, but for Mocha's tests in no suite.
MissedByFilter == IF plugin = "mocha" /\ selected # {} THEN RootTests ELSE {}
OwnTestsOnly ==
  /\ \A r \in 1..PluginRuns : Resolved(r) =>
       /\ \A c \in pluginResults[r].tests : c.run = r /\ c.code = r
       /\ pluginResults[r].errors \subseteq {r}
  /\ pluginPhase = "running" =>
       filter = {t \in PluginTests : selected = {} \/ t \in selected} \ MissedByFilter

\* A mutant survives only if in its run no test failed and nothing else went wrong, and is killed only if one of
\* its own tests or hooks failed: an error before or beside the tests must find its way into the result of that run.
\* The exception is what the reporter for Jasmine has no ear for: with a failed afterAll() a mutant survives.
Unheard == IF plugin = "jasmine" THEN outsideIn ELSE {}
NoFailureGoesUnnoticed ==
  \A r \in 1..PluginRuns : Resolved(r) =>
    /\ StateOf(pluginResults[r]) = "Survived" => r \notin failedIn \cup brokenIn \cup (outsideIn \ Unheard)
    /\ StateOf(pluginResults[r]) = "Killed" => r \in failedIn \cup (outsideIn \ Unheard)
    /\ StateOf(pluginResults[r]) = "RuntimeError" => r \in brokenIn
=============================================================================
