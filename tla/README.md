# A TLA+ model of Stryker

Stryker is a mutation tester for JavaScript: it plants small bugs (mutants) in a program, runs the program's
tests against each of them and reports which mutants the tests did not notice. This directory models Stryker's
core and its plugins, checks the models with TLC on small instances, and proves with TLAPS, for instances of any
size, what can be proved. Paths below are relative to `packages/core/src` unless they start with `packages/`.

A run of Stryker is one node process with many children. The main process is single threaded: what runs
between two awaits is atomic, everything else interleaves. It makes the options, selects and reads the files,
runs all tests once, finds the mutants, transpiles one mutant at a time, keeps a pool of sandboxes (a copy of the
project on disk, and a test runner in a child process), gives each mutant to a free sandbox, and reports the
verdicts. Test runners, transpilers, mutators and reporters are plugins; they hang, crash, throw and reject.

## Contents

| module | what it is |
| --- | --- |
| `RemoteCalls` | what a user of a `ChildProcessProxy` relies on (abstract) |
| `ChildProcessProxy` | the proxy, the worker in the child, and the channels between them |
| `TestRunnerStack` | retry over timeout over a child process test runner |
| `MutationTestRun` | what `MutationTestExecutor.run()` promises (abstract) |
| `MutationTestPipeline` | scheduler, transpiler chain, sandbox pool, sandboxes, disposal |
| `MutantTestMatcher` | finding the statement of a mutant (pure) |
| `CoverageAnalysis` | which test executes what in the initial run, and the tests selected for each mutant |
| `Configuration` | how the options come about |
| `InputFiles` | which files take part and are mutated, and the reading of them |
| `InitialTestRun` | overhead and timeouts (pure) |
| `Reporters` | the broadcast of events and the reporters that keep state |
| `Stryker` | the life of a run; composes the four above with any run that `MutationTestRun` allows |
| `CommandTestRunner` | the test runner that executes a command |
| `TestRunnerPlugins` | Karma, Mocha, Jest, Jasmine, Wct |
| `TranspilerPlugins` | Typescript, webpack, Babel |
| `Mutators`, `ReactMutators` | the mutators of Javascript, Typescript, Vue and React |
| `SourceFiles` | positions in files, source maps, the code a report shows |
| `PluginOptions` | how each plugin reads the options of its tool |
| `Initializer` | `stryker init` |
| `Logging` | levels and the ways of a log event, over processes |
| `ValidationErrors` | which of the validation's errors are told |
| `Objects` | `Object.assign()`, the spread of objects, `filter()` (pure; three of the others use it) |
| `Plugins` | the nine parts that work on their own, one of them per behaviour |
| `*Proofs` | theorems, with proofs, about the module of that name |
| `OperatorProofs` | lemmas about the operators of the parts of `Plugins`: what they return for any arguments |
| `Induction` | lemmas about numbers, subsets and folds that the other proofs use |
| `MC*.tla`, `MC*.cfg` | instances for TLC |

`PROJECT.json` lists the components, the runs, a seeded bug for each property, the source lines of each definition,
the hazards, the findings and the theorems.

The modules stack up like the code does. `Stryker` takes the mutation test run as any that `MutationTestRun` allows, and
`MutationTestPipeline` is shown to implement it. The pipeline takes a test run as one step with any result; that
it settles, and leaves nothing running, is what `TestRunnerStack` shows. That takes a remote call as pending until it
is answered, or rejected when the child dies; this is `RemoteCalls`, which `ChildProcessProxy` is shown to implement.

## The system

### Child process proxy: `child-proxy/`

*State.* In the main process: `workerTasks` (tasks, indexed by correlation id, with holes where a
task was deleted), `initTask`, `disposeTask`, `currentError`, `isDisposed`, the listeners on the child. In the
child: the real object, the promises of the calls in progress. Between them: two channels.
*Operations.* The constructor (fork, send `Init`), `forward` (a call), the handlers of the child's messages,
`handleUnexpectedExit` ('close'), `handleError` ('error'), `dispose`; in the child `handleMessage`.
*Hard.* Messages and process events arrive in any relative order; the child may crash with unread messages in
either direction; a send to a dead child is lost, or fails later; `dispose()` races all of that.
*Correct when* each call settles with its own result or an error, none is pending for ever after the child
exits, no call reaches the child before it answered `Init`, and `dispose()` always ends with a dead child.

### Test runner stack: `test-runner/`, `Sandbox.ts`

*State.* `RetryDecorator`, around `TimeoutDecorator`, around `ChildProcessTestRunnerDecorator`, which owns a
proxy and with it a child; the locals of a `run()` in progress (`attemptsLeft`, which restart it is in).
*Operations.* `init`, `run`, `dispose` of each; a restart is `dispose`, `createInnerRunner`, `init`.
*Hard.* Each step of a restart can fail, hang or crash, the retry of a run may find a runner already disposed
of by the timeout, and `dispose()` from the pool can come in the middle.
*Correct when* a sandbox has one child at a time, no run starts before `init()` resolved, a mutant that timed
out is not running any more when the next starts, and `dispose()` leaves no child.

### Mutation test pipeline: `process/MutationTestExecutor.ts`, `transpiler/`, `SandboxPool.ts`, `Sandbox.ts`

*State.* The tickets and the queue of the scheduler, `currentMutatedFile`; what each stateful transpiler knows of
each file; the two buffers of the `zip` between mutants and sandboxes; the sandboxes, the promises of their
creation (`allSandboxes`), the files each has on disk; the results.
*Operations.* `scheduleTranspileMutants`, `scheduleNext`, `transpileMutant`, `runMutant`, `create`, `recycle`,
`dispose`; `MutationTestExecutor.run` and the `finally` of `Stryker.runMutationTest`.
*Hard.* Re-entrant RxJS: one result recycles a sandbox, starts the next mutant, is reported and gives out a
ticket, in one call stack. Sandboxes are created while mutants are tested; any of it can reject.
*Correct when* each mutant gets exactly one verdict, one that is possible for it, its tests see that mutant and no other,
memory use is bounded, the run settles, and afterwards nothing is left of the sandboxes.

### Coverage and mutant test matching: `transpiler/coverageHooks.ts`, `transpiler/SourceMapper.ts`, `mutants/`, `SourceFile.ts`

*State.* Istanbul's counters, which all tests share and nothing resets; the hooks' baseline, deviations and `id`; the
list of test results, which another part of the process makes; the source maps.
*Operations.* The two hooks around each test; `matchWithMutants`, which turns counts into a set of tests per mutant, after
`getLocation` and `transpiledLocationFor` have found where the mutant is.
*Hard.* The program under test decides when files are loaded and statements executed: before the tests, in hooks
for several tests, inside one test. Hooks and reporter number the tests independently. Line ends of all kinds are mixed.
*Correct when* no test that executes a mutant's code is left out, and a position is where it is said to be.

### Life of a run: `StrykerCli.ts`, `Stryker.ts`, `process/InitialTestExecutor.ts`, `utils/TemporaryDirectory.ts`

*State.* The phase of `runMutationTest`, what the injector has created and will dispose of, the children, the temporary
directory, log4js's server, the exit code.
*Operations.* The phases, in their order, each of which may reject; `finally` and `injector.dispose()`; the end of the process.
*Hard.* A phase that fails leaves what earlier ones have made, and not all of them are within the `try`; the transpiler's `dispose()`
is not awaited; `process.exitCode` is set in two places; what still ticks or listens keeps node alive.
*Correct when* a run that went through its `finally` leaves nothing, the exit code tells how it ended, the process exits, and a
mutant has at least the time its tests took.

### Configuration: `config/`, `di/`, `packages/util/src/deepMerge.ts`

*State.* The options, merged in place of four layers, and the schemas of the core and of the plugins.
*Operations.* Read, merge, validate twice (before and after the plugins are known), apply the editors; describe the errors.
*Hard.* Lists are objects to a merge; errors that describe the same place are split, shadowed and merged.
*Correct when* the command line wins over the file and the file over the defaults, and invalid options are refused.

### Input files: `input/`

*State.* The files that are found, in order of the patterns; which of them are read. *Operations.* Expand patterns, filter, read all in parallel.
*Hard.* The order of patterns matters; a file may vanish between the finding and the reading.
*Correct when* of the patterns that find a file the last one decides.

### Reporters: `reporters/`

*State.* `ProgressKeeper`'s counters, the interval of `ProgressAppendOnlyReporter`, the writes that `EventRecorderReporter` and the HTML reporter have
in progress, the upload of the dashboard reporter. *Operations.* One per event, and `wrapUp`.
*Hard.* Reporters start work nobody awaits until `wrapUp()`; one that throws or rejects stands between others.
*Correct when* progress reaches its total and does not pass it, and the run waits for all that is written.

### Test runners: `test-runner/CommandTestRunner.ts`, `packages/{karma,mocha,jest,jasmine,wct}-runner`, `packages/{mocha,jasmine}-framework`

*State.* The results, errors and status a run has collected; the require cache; the test filter; a command's process and listeners.
*Operations.* `init`, `run`, `dispose`, and the events of the framework.
*Hard.* Events that come between or before runs; errors beside the tests, in hooks and suites; modules, and a filter, that stay
loaded; 'error', 'exit' and the timeout of a command in any order.
*Correct when* a result is of its own run and of that run's code, and every failure gets into it.

### Transpilers: `packages/{typescript,webpack-transpiler,babel-transpiler}`

*State.* A language service with a version per file; webpack's file system in memory; nothing for Babel.
*Operations.* `transpile(files)`: the files that have changed since the last call. *Hard.* It may fail and is called again with other files.
*Correct when* what gets into the sandbox is of what all calls have told.

### Mutators: `packages/{javascript-mutator,typescript,vue-mutator,react-mutator}`

No state: a syntax tree gives a set of mutants. *Hard.* Two programs on two kinds of trees promise the same mutants.
*Correct when* no mutant comes twice, and both mutators agree.

### Plugin options, `stryker init`, logging

Each plugin puts defaults, the tool's config file, the user's options and its own over each other (`PluginOptions`); files may be absent or broken.
`initializer/` asks questions whose choices come from npm, which may fail each time, and writes a config that `stryker run` should accept.
`logging/` has a level per appender in the main process and one level in the children, which send events to a server; a child is killed
soon after it was asked to dispose. *Correct when* the option the user asked for counts, what init wrote runs, and no event is lost silently.

### Status

| component | status | modules |
| --- | --- | --- |
| Child process proxy | modelled | `ChildProcessProxy`, `RemoteCalls` |
| Test runner stack | modelled | `TestRunnerStack` |
| Mutation test pipeline | modelled | `MutationTestPipeline`, `MutationTestRun` |
| Mutation test life cycle | modelled | `Stryker` |
| Initial test run | modelled | `InitialTestRun`, `Stryker` |
| Input files | modelled | `InputFiles`, `Stryker` |
| Mutant test matching | modelled | `MutantTestMatcher`, `CoverageAnalysis`, `SourceFiles` |
| Command test runner | modelled | `CommandTestRunner` |
| Test runner plugins | modelled | `TestRunnerPlugins` |
| Transpiler plugins | modelled | `TranspilerPlugins` |
| Plugin options | modelled | `PluginOptions` |
| Initializer | modelled | `Initializer` |
| Logging | modelled | `Logging` |
| Transpiler process | partly | `Stryker` (its life), `ChildProcessProxy` (its calls) |
| Coverage | partly | `CoverageAnalysis`, `SourceFiles`; instrumentation is istanbul's |
| Mutators | partly | `Mutators`, `ReactMutators`; on the shapes of trees that tell mutators apart |
| Reporters | partly | `Reporters`; layout and wording are left out |
| Configuration and dependency injection | partly | `Configuration`, `ValidationErrors`; one option stands for those of a kind |
| Clear text rendering | not modelled | tables and colours, no state |
| Plugin api and test helpers | not modelled | types, and code only tests use |

## How the models correspond to the code

### `ChildProcessProxy`

One proxy, one child. `workerTasks`, `initialized` (`initTask`), `currentError` and `isDisposed` are the fields
of the class; `outcome` is the promise of each call; `thens` the callbacks that wait for `initTask.promise`;
`disposal` the program counter of `dispose()`. `worker`, `executing` and `shuttingDown` are the child's.
`toWorker` and `toParent` are the channels. A call is a name, and its result is that name, so that a
reply that settles another call's promise shows.

- `Forward` is `forward()` up to its first await, `SendCall` the callback that sends. `HandleInitialized`, `HandleResult`, `HandleRejection` and
  `HandleDisposeCompleted` are the four cases of `listenForMessages`. `HandleUnexpectedExit` and `HandleError`
  are the listeners on 'close' and 'error'. `Dispose`, `DisposeExpires` and `Kill` are `dispose()`, split at its awaits.
- The child: `HandleInit`, `HandleCall`, `FinishCall`, and the two halves of its handling of `Dispose`. `Crash` may happen at any time.
- Node's part, modelled from how the code uses it: a message to a living child is delivered in order; to a dead one it is lost,
  or fails with an 'error' event later; what a child wrote before it died can still be read; 'close' comes after that.
- Promise callbacks run before the next event (`MicrotasksDone`), so an `Initialized` message is followed by
  the sends that waited for it before the next message is handled.

### `TestRunnerStack`

`children` holds the processes, alive or not, with the state of their proxies. Two chains of awaits work on them: the sandbox's (create,
then run mutants) and the disposer's (`Sandbox.dispose()`, from the pool, which may come during a run when
another sandbox failed). `pc`, `on`, `settled` say what a chain awaits, of which child, and what became of it;
`goal` and `attemptsLeft` are the frames of `RetryDecorator.run` and `TimeoutDecorator.run` around it.
`overlapped` remembers that the disposer came during a run. A child that is dead, not awaited and not current is forgotten, and its slot is used again.

A timeout (`RunTimesOut`) may fire whenever a run is pending, so a run that is slow and a run that hangs are the same.

### `MutationTestPipeline`

The content of a file is the set of mutants that can be seen in it: `{}` is the original. `NoChange` are
mutants that the transpiled output does not show (a type annotation, say). `view` is, per transpiler, what it
knows of each file, which outlives the mutant because transpilers are stateful (`packages/api/src/transpile/Transpiler.ts`).
A bundling transpiler puts all files in one output, so whatever is in its view is in its output.

- `FinishTranspile` ends a `transpile()`: the chain resolves, or stops at the transpiler that rejects. In the same step the result goes to the `zip`,
  and the next mutant that has a ticket is transpiled.
- `CreationResolves`, `CreationRejects` end a `Sandbox.create()`; at most two are being created at a time.
- A job is a `runMutant()` in progress: `EarlyResult` (no tests, transpile error, no change), or `WriteFiles`, `TestsRun`, `ResetFiles`.
  `RunMutantRejects` is a failing write or run; some of the files are written by then.
- `Emit` is the call stack behind a result: recycle the sandbox, start its next mutant, report, give out a ticket, complete.
- `BeginDispose`, `DisposeRejects`, `DisposeSandboxes` are `SandboxPool.dispose()`, split at its await.

### `CoverageAnalysis` and `MutantTestMatcher`

A counter is a statement or a function of a file. `at` is the phase of the test run: loading, then for each
test its `before` hooks, the fragment in front of it, the test, the fragment behind it, `after` hooks.
`Execute(owners)` is a piece of the user's code: it may load instrumented files and increment counters, on
behalf of the tests in `owners`; `executed` remembers them. Code that is run when the test files are loaded belongs to every
test, a `before` hook to the next test and perhaps some behind it, an `after` hook to none.

- `BeforeEach` and `AfterEach` are the two fragments of `coverageHooks.ts`; `Deviation` is the loop over the
  files. A count that is left out of a deviation is 0 here: `undefined > 0` and `0 > 0` are both false.
- `RunTest` is a test that the reporter reports; `FailTest` an attempt that mocha retries, whose hooks run but of which nothing is reported.
- `EnrichWithCoveredTests` is the decision of `matchWithMutants`, for the counter that `CounterOf` finds.
- `FindMatchingStatement` and `IsSmallerArea` are translated as they are; positions are pairs of a line and a column.

### `Stryker`, with `Configuration`, `InputFiles`, `InitialTestRun` and `Reporters`

`phase` is what `runMutationTest()` awaits, `outcome` what becomes of its promise ("failing" is an error that the `finally`
has caught), `toDispose` what `injector.dispose()` has still to dispose of. `given` is what a user gives, `options` what the rest of the run
reads of the result.

- `Construct` is `StrykerCli` up to the call of `run()`: `BuildOptions` gives the options, or nothing when any of it throws.
- Each phase has an action for its success and one for its failure. `FailsBeforeTry` is a failure in front of the `try`: nothing is disposed of.
  `MutantIsTested` is one result of the mutation test run, with what every reporter does about it in the same call stack.
- `Dispose` disposes of one part at a time, in the injector's order; the transpiler's `dispose()` is not awaited, so its child is "endingTranspiler"
  for a while (`TranspilerEnds`). `Exit` is node's: nothing is left that keeps the process alive (`KeepsAlive`).
- `BuildOptions` is `buildMainInjector`'s order: read, merge, validate, load plugins, edit, validate again. `DeepMerge` merges lists like objects, as the
  code does (`Overlay`). Each step gives the set of its results, which is empty when it throws.
- A pattern is the set of the files its glob finds, and whether it begins with "!". `ResolveInputFiles` applies the patterns in order, or takes git's list;
  `FileIsRead` and `FileIsGone` settle one of the reads.
- `Reporters`: the state of each reporter that is on, `Work(r)` is what goes on by itself (a folder is cleaned, a file written or copied, a report uploaded).
  `Promise` is what such work may come to. Handlers that throw have no effect on others (`BroadcastReporter.handleError`);
  `ReporterWrapsUp` and `BroadcastWrapUpDone` are the
  two sides of `wrapUp`.

### `Plugins` and its nine parts

A behaviour is one of one part, the others stand still; one module, and one run, instead of nine of the same shape.

- `CommandTestRunner`: `processes` are the shells that `exec` starts, `listening` the processes with listeners, `timeoutHandler` the run whose handler that
  field holds. `OnExit`, `OnError`, `DisposeCommand` and `KillCommand` are the callbacks. Processes end, or never do.
- `TestRunnerPlugins`: `pluginRun` numbers the runs, and a test that ends carries the run it ended in and the run whose code it executed, so that a result that
  is stale shows. `TestEnds` is the event of a test, `BrowserError`, `CompileError` and `SuiteCannotRun` are what goes wrong
  beside them, `FrameworkDone` and `FrameworkThrows` the end of
  the framework's run. `FailsOutsideTests` is a failure that is of no test: a hook of Mocha, which its reporter takes for a test, or an
  `afterAll` of Jasmine, of which its reporter hears nothing. `failedIn`, `outsideIn` and `brokenIn` remember what went wrong when.
  `savedAddTest` is the method of Mocha's that the code of `filter()` replaces and restores, and that stays from run to run.
  `TestStatus` and `DetermineRunState` are translated per plugin. That Karma tells nothing of a run behind its `run_complete`,
  but for errors of the compiler, is an assumption.
- `TranspilerPlugins`: a content is a number, 0 the original. `told` is what all calls have said, `kept` the plugin's copy with
  versions, `built` what is compiled,
  `unpurged` webpack's output in memory, `sandboxed` what ends up in the sandbox. A call succeeds or fails.
- `Mutators`: a tree is an expression or literal, with the parents that a mutator looks at; Babel's and the compiler's nodes of it
  differ by the parentheses. What Babel has another node for (the target of a destructuring assignment, a directive, what is around
  `Array`) is a literal of its own, and so is a parent that only one of the two looks for (a default export, an expression statement).
  `MutantsBy` gives the mutants of one mutator; `Mutate` chooses it as the Vue, React or module mutator does. `ReactMutators` has trees of its own.
- `SourceFiles`: a text is a sequence of characters of four kinds. `LineStarts`, `BinarySearch`, `GetPosition` are translated as
  they are, and so are the lines that `TestableMutant` shows.
  `TranspiledLocationFor` chooses the transpiled file; where in it is the library's.
- `PluginOptions`: `Layered` puts what Stryker insists on over the user's options, over the file's, over the tool's; each plugin
  has its own reading of the files.
- `Initializer`: one action per question, then the config, the installation, `.gitignore`. `WriteCustom(failed)` makes the config
  of the answers and of those packages' configs that could be fetched; a runner or mutator that npm did not offer is the empty name
  in it. `AcceptedByRun` is what `stryker run` makes of the config: `CoverageAccepted` is the validation, and each name in `PluginsOf`
  is looked up among `LoadedPlugins`. `OtherPackages` are found by their keywords, but are not in `@stryker-mutator`, so not loaded.
- `Logging`: `events` remembers what was logged with the levels there were; `buffered`, `sent`, `console` and `logFile` are the
  stations of an event, `lostEvents` and `unfiled` where it ends otherwise.
  log4js is external: its appenders, its server, and an error event of its own when a connection breaks off.
- `ValidationErrors`: the errors that Ajv gives for four options, of a kind each: a field, a list, an object or string, and a
  number. `RemoveShadowingErrors`, `MergeTypeErrorsByPath` and
  `FilterRelevantErrors` are translated as they are.

## The runs

| run | module | what it asks | bounds |
| --- | --- | --- | --- |
| `child_process_proxy` | `ChildProcessProxy` | safety and liveness of the proxy, and `RemoteCalls` | 3 calls |
| `test_runner_stack` | `TestRunnerStack` | safety and liveness of the stack | 2 mutants, 2 crashes, 4 slots for children |
| `mutation_test_pipeline` | `MutationTestPipeline` | safety and liveness of the pipeline, and `MutationTestRun` | 4 mutants in 2 files, 3 sandboxes, 2 tickets |
| `coverage_analysis` | `CoverageAnalysis` | the tests selected for each mutant | 2 files, 3 counters, 4 mutants, 2 tests, 1 retry |
| `stryker_life_cycle` | `Stryker` | what a run selects, measures, reports, awaits, leaves and exits with | 2 files, 2 mutants, 2 tests, a set of users |
| `plugins` | `Plugins` | each part's own property | 3 commands, 2 runs, 4 transpile calls, texts of 4 characters, 2 log events |
| `leaked_child` | `TestRunnerStack` | `ChildDisposedAfterInner`, violated | 1 mutant, no crash |
| `chain_keeps_mutant` | `MutationTestPipeline` | `TranspiledIsOneMutant`, violated | 4 mutants, 3 tickets, 2 transpilers, 1 sandbox |
| `coverage_hooks_throw` | `CoverageAnalysis` | `HooksNeverThrow`, violated | as above, no retry |
| `retries_shift_ids` | `CoverageAnalysis` | `ScoreIsNotInfluenced`, violated | as above, 1 retry |
| `never_exits_without_tests` | `Stryker` | `ExitsWithoutTests`, violated | as above |
| `lists_are_merged` | `Stryker` | `ListsAreOverridden`, violated | as above |

*Why the bounds are enough.* Three calls are needed for a correlation id to be taken by a reply between two
others (a hole in `workerTasks` with a task before and behind it). Two mutants
show what a run leaves to the next, and two crashes let a restart fail by a crash after a run did. Four
slots suffice because a conjunct of `TypeOK` says that one is free whenever a child is to be forked. With three sandboxes the limit of two creations at a
time (`MAX_CONCURRENT_INITIALIZING_SANDBOXES`) matters, with two tickets for four mutants
one too many would show, and with one mutant in file `a` and the others in `b` consecutive mutants are in the same file, and in
different ones. One mutant has no tests and
one is not visible in the output, so each early result occurs. `INITIAL_CONCURRENCY` is 100 in the code; it
is a parameter, and only its being smaller than the number of mutants matters. The proofs remove all of these bounds.

In `coverage_analysis` one file may be in the baseline and the other not, a
statement lies within another on the same line, and a file has a function and no statement. A piece of code hits at most one counter
(`MaxExecuted`): no definition relates two counters, so more at a time would show nothing new; the proofs have no such bound.

In `stryker_life_cycle` the users (`MCGivens`) differ in what is broken (the config file, a plugin, the options), in patterns, in
lists on the command line that are shorter than the default ones or those of the file, in the
threshold and in the reporters. Measured times of 1 and 4 are less and more than what the tests report together. Two report files
let one write fail and another be in progress.

In `plugins` three runs of a command suffice because the second may still be known to `timeoutHandler` when the third begins; two
runs of a plugin, one test of which is in the root suite, show what one leaves to the
next; four calls of a transpiler are the originals, a mutant, one that fails, and the next in the same or the other file. Four
characters hold a CR, an LF, another line end and a position
between and behind them. Two events of one child and one of the main process are enough to be out of order and to be on both sides
of every level. Of statements, methods, properties and attributes beside each other (`Siblings`) two are enough to take a mutant
of one for the other's. The proofs remove all of these bounds, that of the texts and that of the siblings included; what stays is the
depth of the trees and of a validation error's path.

The configurations say `CHECK_DEADLOCK FALSE` because these systems stop: after `dispose()`, or when the process has exited, there is nothing to do.

### What the runs show

**Child process proxy.** `ReplyFindsItsTask`: an id is in one place at a time and its task is there when the reply comes.
`NoCallBeforeInitialized`. `NothingPendingAfterExit` and `CallsOfDeadChildSettle`: when the child dies, every
call settles; this is claimed only while nobody called `dispose()`, which removes the 'close' listener, and then a
pending call is never settled (`ChildProcessProxy.ts:228`). In Stryker nothing awaits such a call but the
timeouts above it. `DisposeCompletes`, `DisposedMeansDead`: whatever the child does, dispose() ends, with a dead child. `ImplementsRemoteCalls`: all of
it together is `RemoteCalls`.

**Test runner stack.** `OneChildAtATime`, `RunsOnlyInitialized`, `NothingStillRuns`, `NoChildLeft`,
`RunAndDisposeSettle`, in the words above. `OneChildAtATime`, `NothingStillRuns` and `NoChildLeft`
exclude a disposer that came during a run: then the restart that is in progress forks a child that nobody
disposes of. This happens when another sandbox fails the run; `Stryker` ends then, and no source line promises more.

**Pipeline.** `OneMutantPerSandbox` and `TestsSeeOnlyTheirMutant` relate the zip's buffers, the jobs, the disk
and what the transpiler knows. `BoundedBuffering`: the tickets bound the mutants in memory. `NoSandboxAfterDispose`: a `dispose()` that
resolved missed no sandbox, also none that was being created. `ImplementsMutationTestRun`: each mutant is reported at most once
with a verdict it can have, and `run()`
resolves only when all are. `RunAndDisposeSettle`.

**Coverage analysis.** `CoveringTestsAreSelected`: with all of that, no test that executes a statement is left out,
as long as no test is retried. It is one-sided: as counters are cumulative, a test is often selected although only an
earlier one executed the statement. `MutantsGetTheirTests`: the same for the statement a mutant is in, which is the innermost one around it.

**Life of a run.** `NothingIsLeft`: a run that resolved, or failed within its `try` and was disposed of, leaves no child but the
transpiler that is ending, no temporary directory it could delete and
no log server. A phase that fails in front of the `try` does leave the transpiler's child. `ExitCodeTells`: the exit code is 1
exactly for a run that rejected or a score under the threshold, though
the code counts the score over a report per file. `ReportedRunExits`: after its results a run ends, and the process too.
`WrapUpWaitsForWork`, `ProgressAddsUp`: what reporters write is awaited, and
the counters, made of two different sets of mutants, agree. `TimeoutsCoverTests`, `SelectionFollowsPatterns`, `CommandLineWins`, in the words above. `timeoutFactor` is a whole number of at
least 1 here; the schema admits any, and with less than 1 a user asks for less time than the tests took.

**Plugins.** `NoCommandLeft`, `CommandsSettle`: after a `dispose()` that resolved no command runs, and every run settles although
'error', 'exit' and the timeout race. `OwnTestsOnly`,
`NoFailureGoesUnnoticed`: what a result holds is of its run and its code, the tests that can run are those selected for it, and a
mutant survives only if nothing went wrong. One failure does go unnoticed and is excepted by name (`Unheard`): what Jasmine
tells by `suiteDone` and `jasmineDone`, a failed `afterAll` say, its reporter does not look at (`JasmineTestRunner.ts:31-47`).
`TranspiledIsCurrent`: also after calls that failed. `NoMutantTwice`: but for `while (true)`, which becomes `while (false)` as a
statement and as a literal, and for a condition in two pairs of parentheses, behind which the Typescript mutator does not see the
statement. `MutatorsAgree`: of the trees here the two languages differ only in those that `MutatorsApart` names, and there in the
mutants of one kind. They are conditions that are operands of others, in a case, in a return without braces around it or in two
pairs of parentheses, and those made by `+=`, `,`, `in` and `&`; strings that are statements or default exports; arrays and
objects that are assigned to; blocks of directives only; and calls of `Array` in parentheses. `LocationsAreExact`: positions, the lines of a report and the transpiled
file. `AskedOptionsCount`. `InitializedConfigRuns`: of Stryker's own packages, a config that was written runs, but in two cases: npm had no
runner or no mutator to offer, whose name is then empty and is refused until the user gives one (`ToBeNamed`), and a package that
says `off` could not be asked. `LogsAreComplete`. `InvalidOptionsAreRefused`: what the filters drop of the errors is told by others.

### Where the code does not do what it says

1. `leaked_child`. `ChildProcessTestRunnerDecorator.dispose()` rethrows an ordinary error of the test runner's own
   `dispose()`, and never reaches `worker.dispose()`: the child stays.
2. `chain_keeps_mutant`. `TranspilerFacade` stops at the first transpiler that rejects, but the scheduler counts
   the file as reset for all of them. A later transpiler goes on with an earlier mutant in its files, and the
   next mutant is tested together with it.
3. `coverage_hooks_throw`. The hook behind a test reads the baseline of each file, also when there is no baseline,
   because no instrumented file was loaded before a test began. The initial test run fails with a TypeError.
4. `retries_shift_ids`. The hooks number attempts, the results are numbered by test. After a retry
   each test gets the coverage of the one before it, and mutants miss their tests.
5. `never_exits_without_tests`. The progress-append-only reporter starts an interval when the mutants are matched and clears it when
   all are tested. A run without tests matches its mutants and then returns: the process never exits.
6. `lists_are_merged`. `deepMerge` goes into lists as into objects: a list on the command line that is shorter than the one it is put
   over keeps that one's tail. In the trace `--reporters dots` leaves the rest of the default reporters behind it; a list of the config
   file is kept in the same way. The test that says otherwise has lists of one length.

## Fairness

Weak fairness only, and only of what the code or node does by itself: callbacks, timers, and promises that the main process waits for.

| specification | assumed | because |
| --- | --- | --- |
| `ChildProcessProxy!FairSpec` | the main process goes on | its event loop turns and its timers fire; nothing is assumed of the child |
| `TestRunnerStack!LiveSpec` | the main process goes on | the same; a run or a `dispose()` may hang for ever |
| `TestRunnerStack!FairSpec` | also, a living child answers `init()` | no decorator limits the time `init()` takes: a child that hangs there hangs the sandbox |
| `MutationTestPipeline!FairSpec` | a `transpile()` and a job settle; the first creation settles; so does the disposal | a job has its timeout (`TestRunnerStack`). One sandbox is enough for the run to end. `SandboxPool.dispose()` waits for pending creations, whichever they are, so this is assumed of it |
| `Stryker!FairSpec` | each phase, each read, each reporter's work and the transpiler's end come to an end; node exits when nothing keeps it | none of these has a timeout in the code; `MutationTestRun` is what the pipeline was shown to be |
| `CommandFairness` | events of a process that ended are delivered, a pending run is disposed of, kills happen | node; `TimeoutDecorator`. Nothing makes a command end |

`CoverageAnalysis` and the other parts of `Plugins` state no liveness, so no fairness.

## What is proved

For all values of the constants that satisfy the named assumptions, `tlapm` checks 41 theorems in 8 modules.
Every invariant that a passing run checks is stated by one of them.

| module | theorem | gives |
| --- | --- | --- |
| `ChildProcessProxyProofs` | `TypeCorrect` | types |
| | `RepliesFindTheirTasks` | `ReplyFindsItsTask` |
| | `NothingIsPendingAfterExit` | `NothingPendingAfterExit` |
| | `CallsWaitForSubject`, `ChildLife` | `NoCallBeforeInitialized`, `DisposedMeansDead` |
| | `Refinement` | `ImplementsRemoteCalls` |
| `TestRunnerStackProofs` | `TypeCorrect` | types; a slot is free whenever a child is to be forked |
| | `OneChild`, `InitBeforeRun`, `TimeoutEndsRun`, `DisposeIsComplete` | `OneChildAtATime`, `RunsOnlyInitialized`, `NothingStillRuns`, `NoChildLeft` |
| `MutationTestPipelineProofs` | `TypeCorrect` | types |
| | `SandboxesAreNotShared`, `BufferingIsBounded`, `DisposeReachesAll` | `OneMutantPerSandbox`, `BoundedBuffering`, `NoSandboxAfterDispose` |
| | `Refinement`, `TestsAreIsolated` | `ImplementsMutationTestRun`, `TestsSeeOnlyTheirMutant`, if a bundler is the only transpiler |
| | `OneMutantComesOut` | what a chain puts out shows its mutant and no other, under that hypothesis |
| `CoverageAnalysisProofs` | `TypeCorrect` | types; no more deviations than attempts |
| | `TestsAreSelected` | `CoveringTestsAreSelected` |
| | `MutantsAreMatched` | `MutantsGetTheirTests` |
| | `NestedIsSmaller` | `isSmallerArea()` prefers the inner of two statements |
| `StrykerProofs` | `TypeCorrect` | types |
| | `RunCleansUp`, `ExitCodeIsRight`, `ProgressIsRight`, `WrapUpIsComplete` | `NothingIsLeft`, `ExitCodeTells`, `ProgressAddsUp`, `WrapUpWaitsForWork` |
| | `TimeoutsAreEnough`, `PatternsAreFollowed`, `CommandLineIsHeard` | `TimeoutsCoverTests`, `SelectionFollowsPatterns`, `CommandLineWins` |
| `PluginsProofs` | `OptionsAreChecked`, `DisposeKillsCommand`, `OutputIsCurrent` | `InvalidOptionsAreRefused`, `NoCommandLeft`, `TranspiledIsCurrent` |
| | `ResultsAreOwn`, `FailuresAreNoticed`, `AllIsLogged` | `OwnTestsOnly`, `NoFailureGoesUnnoticed`, `LogsAreComplete` |
| | `AskedOptionsAreUsed`, `InitializedConfigsRun` | `AskedOptionsCount`, `InitializedConfigRuns` |
| | `LocationsAreRight`, `MutantsAreDistinct`, `LanguagesGetTheSame` | `LocationsAreExact`, `NoMutantTwice`, `MutatorsAgree` |

Each proof finds a stronger invariant that a step preserves, shows that of each action, and lets `PTL` draw the temporal conclusion.
Why a stronger one is needed:

- *Proxy.* That a reply finds its task says nothing about the messages behind it. `RefInv` says of each id that it is in exactly
  one place (a callback, a channel, the child, or
  settled) and that the slot of `workerTasks` is still taken until it is settled; `PendingInv` ties a pending call to such a
  place, so that an exit which rejects all tasks rejects every call; `LifeInv` ties `initTask`,
  the callbacks that wait for it, the child's object and the phases of `dispose()` to each other. The refinement follows from
  these, action by action. It assumes that the mark of a deleted task is not a call
  (`DeletedAssumption`).
- *Stack.* `LifeInv` says where a living child can be: the current one of the stack, or one that is being disposed of by a chain
  that awaits it (`SandboxIsOnCurrent`, `DisposerIsAlone`, `OthersAreDead`, `ReportedIsDead`,
  `DisposingIsAwaited`, `KilledIsDead`, `DoneIsDead`). `AttemptsAreLeft` bounds the retries, `RunInv` says which child runs tests.
  It assumes `BoundsAssumption`.
- *Pipeline.* A sandbox is in the pool's buffer, with a job, or still to be emitted, and only in one of these (`HeldOnce`); a
  mutant holds one ticket wherever it is (`BoundedBuffering` is
  inductive with the types). It assumes `PipelineAssumption`.
- *Pipeline implements its abstract run.* `InOrder` says that mutants are transpiled in order, `OneIsSent` that the bundler knows
  no mutant in a file that it is not being sent, or will be sent next, `Work` what a transpiled mutant and a job can be,
  `Accounted` that each mutant is waiting, on its way,
  or reported, `Disks` and `UnmadeIsClean` what a free or a used sandbox has on disk. It holds under `BundlerIsAlone`: without it
  run `chain_keeps_mutant` is a counterexample, with two transpilers of which the second fails.
- *Coverage.* `CountInv` says that a counter that was ever executed counts, and is of a file that was loaded; `AttributionInv`
  that a counter that is not in the baseline is in the deviation of each test
  that executed it, and that without retries this deviation has the number of the test. It assumes `CoverageAssumption`.
- *Matching.* The fold over a file's statements keeps the smallest of those that are around the mutant; if one of them
  is within all the others, it is that one (`NestedIsSmaller`). Only two counters of the same place could be confused, and `OneCounterPerPlace` says
  that istanbul never makes such two. `UnexecutedInv` adds to the above that a counter nobody executed is in no test's deviation.
- *Life of a run.* `PhaseInv` says how the phase, the outcome and the mutation test run go together, `LeftInv` which children and
  files there are in each phase and at the end, `ExitInv` where the exit code comes from, `ProgressInv` counts the results against
  the mutants that are tested, `WrapInv` says what a
  reporter's promise waits for. They assume `LifeCycleAssumption` and `ReportersAssumption`.
- *Timeouts.* `OverheadInv`: what is known of the initial run is what its tests and its measured time give. The rest is about sums: that
  of some tests is at most that of all, and the measured time is at most that sum and the overhead, which is not negative.
- *Selection.* A fold over the patterns adds and removes files; by induction on the length of the list, what it ends with is what the last pattern that
  finds a file says. `SelectionInv` says that nothing else is being read while the files are resolved.
- *Options.* `GivenInv` is small; the work is in `deepMerge` of lists, layer by layer, and in that validation changes
  no key that was given; what the editors set is excepted. `GivenAssumption`: the defaults are valid, a list is given as a list, a config file that is absent says nothing.
- *Command.* `RunsFollow` and `ProcessesAreWatched`: a process runs while its run is pending, or between the timeout and the kill;
  runs do not overlap, which the decorators see to (`CommandAssumption`).
- *Transpilers.* `ToldInv`, `KeptInv`: a plugin's copy is what all calls told, and its versions differ when contents do;
  `ServiceInv`, `BundleInv` say so of what is compiled of it (`TranspilerAssumption`).
- *Runners.* `FutureInv`, `CollectedInv`, `BrokenInv`, `ResultsInv` follow a test's result and an error from the
  framework's event to the run result; `HeardIn` are the runs with a failure that the reporter hears of (`RunnerAssumption`).
  `FilterInv` says that the method of Mocha's that was saved lets all tests through, however often it was replaced since.
- *Logging.* `LevelInv`, `LineInv`, `WrittenInv`, `EndInv`, `CompleteInv`: an event is at one station, each station keeps the
  order, and it ends at a station that its level allows (`LoggingAssumption`).
- *Validation errors.* `OperatorProofs` has lemmas on each filter: an error that is dropped has one that shadows it, and that one is kept.
- *Plugin options.* Each layer is a function on some of the keys, and what the first layer that has a key says is what `Over` ends
  with (`LayeredOptions`). `OptionsInv` is the property with the types; which file is read is a case distinction per plugin.
- *Initializer.* `InitializerInv`: a config is written of answers that are among the choices, and such a config will run. What
  the packages add is assigned one after the other, and the last that has a key counts (`PiecesCount`); the lists are filtered and concatenated
  answers (`FilterKeeps`, `ElementsOfConcatenation`).
  `NamesAreFoundOnce`: npm has a name once, and no runner, mutator, transpiler or reporter is called like what Stryker brings itself.
  `PackagesAdd` is what the `initStrykerConfig` in the `package.json` of the packages in this repository says: those whose tool allows
  no coverage analysis switch it off, none sets it otherwise, and none answers a question again. Nothing is assumed of what
  `OtherPackages` add; the property is about configs without them, for with one `run` finds no plugin of that name.
- *Positions.* The line starts that `SourceFile` computes increase and are exactly the ends of line breaks (`LineStartsAre`); the binary
  search ends at the last one that is not behind the position (`BinarySearchFinds`, by induction on the width of its window),
  so line and column lead back to it. The lines a report shows are the text around the mutant (`LinesAround`). `SourceInv` says only
  what was computed of what.
- *Mutators.* `MutatorsInv`: what was found are a mutator's mutants of that tree. Place and replacement of a mutant tell which mutator
  made it (`PlacesTellMutators`), and no mutator makes one twice. Babel's and the compiler's nodes of a tree correspond, table by
  table (`TablesAgree`), and so do conditions and literals (`LiteralsAgree`), but for what `MutatorsApart` names.
- *Induction.* The library's induction theorems take a predicate, which the installed provers cannot be given. `Induction` states them for a
  set instead: a set of numbers with 0 and, below n, with each number the next has all up to n (`UpTo`); a set of subsets with
  the empty one, that has every other if it has it without some element, has all (`AllSubsets`). By the same means a function exists that obeys a
  fold's equation (`FoldExists`, `LeftFoldExists`), which the proofs need of each fold and each recursive function first.

## Only model-checked

- All liveness (`DisposeCompletes`, `CallsOfDeadChildSettle`, both `RunAndDisposeSettle`, `ReportedRunExits`, `CommandsSettle`):
  it rests on fairness and so on ENABLED, which the prover does not support.
- What the six runs that end in a violation show: a trace of a small instance is all that such a statement needs.

Induction is proved for sets, as said above; what the prover cannot reason about are RECURSIVE operators, and `SelectSeq` and `@@`,
which it does not know. So the models have recursive functions, folds, and `Filter` and `Over`.

## Not modelled

- Formatting: clear text tables, dots, the progress bar, colours, the wording of messages and logs, the printing of mutated code.
- Serialization between processes (`surrial`), except that a reply comes back for its own call; a `kill()` that fails.
- External programs: what compilers, bundlers, frameworks, istanbul, log4js, npm and git do is taken from how the code uses them.
  Where a position is within a source map is the library's, which transpiled file it is in is modelled.
- The parsing of the command line; globs, which are the sets of the files that they find; syntax trees of more than one mutated node with its parents.
- That `ChildProcessTranspiler` hands its calls one by one to the worker; a transpiler that answers with files nobody expects.
- `MutatorFacade`'s log of the number of mutants; the api's type declarations and the test helpers.

## Observations

Behaviour that was met while modelling, that the models follow and no run is about:

- A command that cannot be spawned makes `run()` reject: `kill()` rejects and `errorResult` is never returned (`test-runner/CommandTestRunner.ts`).
- `dispose()` of a test runner that takes longer than `MAX_WAIT_FOR_DISPOSE` is killed, though
  `packages/api/src/test_runner/TestRunner.ts:52` promises that the process does not end before.
- `SandboxPool.dispose()` rejects when one creation failed and leaves the other sandboxes' children; `Stryker` ends then with an error.
- A test in Mocha's root suite is never selected by the `perTest` filter (`packages/mocha-framework/src/MochaTestFramework.ts:39`).
- Without a `testFramework`, `perTest` coverage gives no hooks.
- Jasmine's failures outside of specs are ignored: with a failed `afterAll` a mutant survives. The model has them, and
  `NoFailureGoesUnnoticed` excepts them. Jest's `CustomJestConfigLoader` takes every error of `jest.config.js` for its absence.
- With Mocha before 6, the default spec `['test']` matches no file and `init` rejects. The README's `opts: false` is refused by the schema.
- An option `tsconfig` is overwritten when `tsconfigFile` is named, and breaks `TranspileFilter.create` when it is not.
- The transpiled output of a file that inlines another file's `const enum` is not made again (`packages/typescript/src/TypescriptTranspiler.ts:64`).
- `tag` followed by an empty template is a syntax error as a mutant; `while (true)` is mutated to `while (false)` by two mutators;
  some mutants change nothing (`if (true)`, `do {} while (false)`). `MutatorsAgree` names where the two languages differ.
- A position that a source map does not know becomes line 0, column 0 (`transpiler/SourceMapper.ts:245`).
- An unknown command is only logged, and the exit code is 0. A numeric flag that is repeated becomes NaN.
- `stryker init` checks for an existing config long before it writes one; when a package's own config could not be fetched the
  written one may need it. A runner or mutator that npm did not offer is written as the empty name, which the schema admits and
  `PluginLoader` refuses; init has said that it must be configured manually. The Vue preset pushes into a list that its instances share.
- Validation hides errors behind others: they are told one after the other.
- log4js closes the file while a child's last events may still come (`unfiled`).

## What could come next

A proof that `Stryker`'s own steps use `MutationTestRun` as the pipeline provides it, in one composed specification;
the call-by-call use of the transpiler's worker, composed with `ChildProcessProxy`; the command line's parser; larger syntax trees
for the mutators; a disposer that comes during a restart, once the code says what it promises then.
