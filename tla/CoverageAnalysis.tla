-------------------------- MODULE CoverageAnalysis --------------------------
(***************************************************************************)
(* The initial test run, in which istanbul's counters and the hooks of     *)
(* transpiler/coverageHooks.ts find out which test executes which          *)
(* statement, and MutantTestMatcher, which selects the tests of each       *)
(* mutant from what they recorded.                                         *)
(*                                                                         *)
(* The program under test loads files and executes statements whenever it  *)
(* likes: when the test files are loaded, in hooks that set up one or more *)
(* tests, in a test, in hooks that tear down.  The counters are cumulative *)
(* and shared by all tests.  `executed` remembers who executed what.       *)
(***************************************************************************)
EXTENDS MutantTestMatcher, FiniteSets

CONSTANTS Files,              \* the instrumented files
          CoverageMaps,       \* the statements and the functions of each
          Mutants,            \* [file, location] each
          NumTests,
          MaxExecuted,        \* bound on the counters that one piece of code hits
          MaxRetries          \* bound on the retries of tests that fail (mocha's `this.retries(n)`)

Tests     == 1 .. NumTests
NoTest    == 0                \* code that tears down is of no test
NoCounter == [file |-> "none", kind |-> "none", index |-> NotFound]

Counters ==
  UNION {{[file |-> f, kind |-> "Statement", index |-> i] : i \in DOMAIN CoverageMaps[f].statementMap}
           \cup {[file |-> f, kind |-> "Function", index |-> i] : i \in DOMAIN CoverageMaps[f].fnMap}
         : f \in Files}

ASSUME CoverageAssumption ==
  /\ CoverageMaps \in [Files -> [statementMap : Seq(Locations), fnMap : Seq(Locations)]]
  /\ Mutants \subseteq [file : Files, location : Locations]
  /\ NumTests \in Nat /\ MaxRetries \in Nat /\ MaxExecuted \in Nat
  /\ "none" \notin Files

\* istanbul gives each statement and each body of a function one counter, and no two of them have the same place.
ASSUME OneCounterPerPlace ==
  \A f \in Files : IsInjective(CoverageMaps[f].statementMap) /\ IsInjective(CoverageMaps[f].fnMap)

VARIABLES
  coverageAnalysis,   \* the option
  loaded,             \* the files in window.__strykerCoverageCurrentTest__ (or __coverage__)
  counters,           \* their counts
  baseline,           \* globalCoverage.baseline; undefined while it has no files
  deviations,         \* globalCoverage.deviations: as long as `id` says
  tests,              \* runResult.tests
  test, at,           \* the test that is next or running, and how far it is
  retriesLeft,
  executed            \* who executed each counter (history)

hooks   == <<baseline, deviations>>
program == <<loaded, counters, executed>>
vars    == <<coverageAnalysis, program, hooks, tests, test, at, retriesLeft>>

Counts == [Counters -> Nat]

TypeOK ==
  /\ coverageAnalysis \in {"off", "all", "perTest"}
  /\ loaded \in SUBSET Files
  /\ counters \in Counts
  /\ baseline \in [files : SUBSET Files, count : Counts]
  /\ deviations \in Seq(Counts) /\ Len(deviations) <= NumTests + MaxRetries
  /\ tests \in Seq(Tests)
  /\ test \in 1 .. NumTests + 1
  /\ at \in {"load", "setup", "hook", "body", "failed", "ran", "teardown", "done", "threw"}
  /\ retriesLeft \in 0 .. MaxRetries
  /\ executed \in [Counters -> SUBSET (Tests \cup {NoTest})]

Nothing == [c \in Counters |-> 0]

Init ==
  /\ coverageAnalysis \in {"off", "all", "perTest"}
  /\ loaded = {} /\ counters = Nothing
  /\ baseline = [files |-> {}, count |-> Nothing]
  /\ deviations = <<>>
  /\ tests = <<>>
  /\ test = 1 /\ at = "load" /\ retriesLeft = MaxRetries
  /\ executed = [c \in Counters |-> {}]

-----------------------------------------------------------------------------
(* The program under test and its framework.                               *)

\* Code runs on behalf of some tests, and may load files that are instrumented.
Execute(owners) ==
  \E files \in SUBSET IF coverageAnalysis = "off" THEN {} ELSE Files :
    \E cs \in SUBSET {c \in Counters : c.file \in loaded \cup files} :
      /\ Cardinality(cs) <= MaxExecuted
      /\ loaded' = loaded \cup files
      /\ counters' = [c \in Counters |-> IF c \in cs THEN counters[c] + 1 ELSE counters[c]]
      /\ executed' = [c \in Counters |-> IF c \in cs THEN executed[c] \cup owners ELSE executed[c]]

Go(from, to) == at = from /\ at' = to

\* The test files are loaded: whichever tests run later, this code is executed.
Load ==
  /\ Go("load", IF NumTests = 0 THEN "done" ELSE "setup")
  /\ Execute(Tests)
  /\ UNCHANGED <<coverageAnalysis, hooks, tests, test, retriesLeft>>

\* `before` hooks: they set up this test and perhaps some of those behind it.
SetUp ==
  /\ Go("setup", "hook")
  /\ \E last \in test .. NumTests : Execute(test .. last)
  /\ UNCHANGED <<coverageAnalysis, hooks, tests, test, retriesLeft>>

\* The test and its own `beforeEach` and `afterEach` hooks: it is reported.
RunTest ==
  /\ Go("body", "ran")
  /\ Execute({test})
  /\ tests' = Append(tests, test)
  /\ UNCHANGED <<coverageAnalysis, hooks, test, retriesLeft>>

\* It fails and will be retried: nothing is reported.
FailTest ==
  /\ Go("body", "failed")
  /\ retriesLeft > 0
  /\ Execute({test})
  /\ retriesLeft' = retriesLeft - 1
  /\ UNCHANGED <<coverageAnalysis, hooks, tests, test>>

\* `after` hooks.
TearDown ==
  /\ Go("teardown", IF test = NumTests THEN "done" ELSE "setup")
  /\ Execute({NoTest})
  /\ test' = test + 1
  /\ UNCHANGED <<coverageAnalysis, hooks, tests, retriesLeft>>

-----------------------------------------------------------------------------
(* coverageHooks.ts; no hooks unless coverageAnalysis is "perTest".        *)

\* BEFORE_EACH_FRAGMENT_PER_TEST: the first counts there are become the baseline.
BeforeEach ==
  /\ Go("hook", "body")
  /\ baseline' = IF /\ coverageAnalysis = "perTest"
                    /\ baseline.files = {} /\ loaded # {}
                 THEN [files |-> loaded, count |-> counters] ELSE baseline
  /\ UNCHANGED <<coverageAnalysis, program, deviations, tests, test, retriesLeft>>

\* Seeded bug: a file that the baseline does not know is left out.
BugKnownFilesOnly ==
  [c \in Counters |->
     IF c.file \in loaded /\ c.file \in baseline.files /\ counters[c] # baseline.count[c]
     THEN counters[c] ELSE 0]

\* The counts that differ from the baseline; what is left out counts as 0 to the matcher.
Deviation ==
  [c \in Counters |->
     IF c.file \in loaded /\ (c.file \notin baseline.files \/ counters[c] # baseline.count[c])
     THEN counters[c] ELSE 0]

\* A test that will be retried goes through the hooks again.
AfterTest == IF at = "failed" THEN "hook" ELSE "teardown"

\* AFTER_EACH_FRAGMENT_PER_TEST: `globalCoverage.baseline[file]` throws if there is none.
AfterEach ==
  /\ at \in {"failed", "ran"}
  /\ IF coverageAnalysis = "perTest"
     THEN IF loaded # {} /\ baseline.files = {}
          THEN at' = "threw" /\ deviations' = Append(deviations, Nothing)
          ELSE at' = AfterTest /\ deviations' = Append(deviations, Deviation)
     ELSE at' = AfterTest /\ UNCHANGED deviations
  /\ UNCHANGED <<coverageAnalysis, program, baseline, tests, test, retriesLeft>>

-----------------------------------------------------------------------------
(* MutantTestMatcher.matchWithMutants().                                   *)

\* runResult.coverage: the hooks always make one.
CoverageReported == coverageAnalysis = "perTest" \/ loaded # {}

IsCoveredByBaseline(c) ==
  coverageAnalysis = "perTest" /\ baseline.files # {} /\ baseline.count[c] > 0

IsCoveredByTest(id, c) ==
  IF coverageAnalysis = "perTest"
  THEN id <= Len(deviations) /\ deviations[id][c] > 0
  ELSE counters[c] > 0

SelectAllTests    == {tests[id] : id \in DOMAIN tests}
SelectedTests(c)  == {tests[id] : id \in {i \in DOMAIN tests : IsCoveredByTest(i, c)}}

\* enrichWithCoveredTests(), for the counter of a mutant.
EnrichWithCoveredTests(c) ==
  IF \/ coverageAnalysis = "off" \/ ~CoverageReported
     \/ c = NoCounter \/ IsCoveredByBaseline(c)
  THEN SelectAllTests
  ELSE SelectedTests(c)

CounterOf(m) ==
  LET found == FindMatchingStatement(m.location, CoverageMaps[m.file])
  IN  IF found.index = NotFound THEN NoCounter
      ELSE [file |-> m.file, kind |-> found.kind, index |-> found.index]

-----------------------------------------------------------------------------
Next == Load \/ SetUp \/ BeforeEach \/ RunTest \/ FailTest \/ AfterEach \/ TearDown

Spec == Init /\ [][Next]_vars

-----------------------------------------------------------------------------
Covering(c) == executed[c] \cap SelectAllTests

\* A test that executes a statement is among the tests selected for it, whether it does
\* so itself, when it is loaded or when it is set up, and however late the file is loaded
\* (coverageHooks.ts:39-42, MutantTestMatcher.ts:76-83).
CoveringTestsAreSelected ==
  at = "done" /\ retriesLeft = MaxRetries =>
    \A c \in Counters : Covering(c) \subseteq EnrichWithCoveredTests(c)

\* What a mutant is in: the statement that lies within all others around it, or else
\* the function that does.
LocationOf(c) == IF c.kind = "Statement" THEN CoverageMaps[c.file].statementMap[c.index]
                 ELSE CoverageMaps[c.file].fnMap[c.index]
Around(m, kind) ==
  {c \in Counters : c.file = m.file /\ c.kind = kind /\ IsCoveredBy(m.location, LocationOf(c))}
Innermost(cs) == {c \in cs : \A d \in cs : IsCoveredBy(LocationOf(c), LocationOf(d))}
HomesOf(m) == IF Around(m, "Statement") # {} THEN Innermost(Around(m, "Statement"))
              ELSE Innermost(Around(m, "Function"))

\* So is a test that executes the code a mutant is in (MutantTestMatcher.ts:184-202).  And "Only mutants actually
\* covered by your test suite are tested" (packages/core/README.md:151 and :155): a mutant in code that nothing
\* executed has no tests.
MutantsGetTheirTests ==
  at = "done" => \A m \in Mutants : \A c \in HomesOf(m) :
    /\ retriesLeft = MaxRetries => Covering(c) \subseteq EnrichWithCoveredTests(CounterOf(m))
    /\ coverageAnalysis # "off" /\ CoverageReported /\ executed[c] = {} => EnrichWithCoveredTests(CounterOf(m)) = {}

\* Promises of the documentation that the code does not keep.

\* packages/core/README.md:145: coverage analysis "does *not* influence the resulting
\* mutation testing score".  With retries a test that executes a statement is not
\* selected: the hooks count attempts, runResult.tests has one result of each test.
ScoreIsNotInfluenced ==
  at = "done" => \A c \in Counters : Covering(c) \subseteq EnrichWithCoveredTests(c)

\* The same line: "It only improves performance", so no hook makes a run fail.
HooksNeverThrow == at # "threw"
=============================================================================
