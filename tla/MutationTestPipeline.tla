------------------------ MODULE MutationTestPipeline ------------------------
(***************************************************************************)
(* The mutation test itself: MutationTestExecutor pulls all mutants        *)
(* through MutantTranspileScheduler (one transpile at a time, at most      *)
(* InitialConcurrency mutants on their way) and SandboxPool (each mutant   *)
(* is zipped with a sandbox, which writes its files, runs the tests, puts  *)
(* the files back and is recycled), and Stryker's `finally` disposes the   *)
(* pool.                                                                   *)
(*                                                                         *)
(* What the RxJS operators do in one call stack is one action: the result  *)
(* of a mutant recycles its sandbox, which takes the next transpiled       *)
(* mutant; the result is reported; its ticket lets the next mutant in.     *)
(*                                                                         *)
(* A file's content is the set of mutants that can be seen in it: {} is    *)
(* the original.  Every transpiler of the chain keeps the files it was     *)
(* given (Transpiler.ts: "Transpilers are stateful").                      *)
(***************************************************************************)
EXTENDS Naturals, Sequences, FiniteSets

CONSTANTS NumMutants,
          Files, FileOf,         \* source files, and the one each mutant is in
          NoTests,               \* mutants no test covers
          NoChange,              \* mutants the transpiled output does not show
          Stages,                \* number of transpilers configured
          Bundled,               \* the last transpiler bundles all files
          InitialConcurrency,    \* INITIAL_CONCURRENCY: tickets to begin with
          Cpus, MaxConcurrentTestRunners

Mutants == 1 .. NumMutants
None    == 0
Idle    == [mutant |-> None, sent |-> <<>>]      \* nothing is being transpiled
Bundle  == "bundle"
MaxInitializing == 2             \* MAX_CONCURRENT_INITIALIZING_SANDBOXES

ASSUME PipelineAssumption ==
  /\ NumMutants \in Nat \ {0}
  /\ FileOf \in [Mutants -> Files] /\ {None, Bundle} \cap Files = {}
  /\ NoTests \subseteq Mutants /\ NoChange \subseteq Mutants
  /\ Stages \in Nat /\ Bundled \in BOOLEAN /\ (Bundled => Stages > 0)
  /\ InitialConcurrency \in Nat \ {0}
  /\ Cpus \in Nat \ {0} /\ MaxConcurrentTestRunners \in Nat

\* One cpu is left to the transpiler; there is always one test runner.
DetermineConcurrency ==
  LET available == IF Stages > 0 THEN Cpus - 1 ELSE Cpus
      allowed   == IF available > MaxConcurrentTestRunners /\ MaxConcurrentTestRunners > 0
                   THEN MaxConcurrentTestRunners ELSE available
  IN  IF allowed = 0 THEN 1 ELSE allowed

Sandboxes == 1 .. DetermineConcurrency

VARIABLES
  taken,              \* mutants that got a ticket: 1 .. taken
  queued,             \* mutants waiting for the transpiler
  transpiling,        \* the mutant in transpileMutant() and the files it sends, or Idle
  currentMutatedFile, \* the file of the mutant transpiled last, or None
  view,               \* per transpiler: the mutant it knows in each file, or None
  transpiled,         \* zip's buffer of TranspiledMutants
  sandboxes,          \* how far the creation or the disposal of each sandbox is
  free,               \* zip's buffer of sandboxes
  jobs,               \* the runMutant() calls that have not settled
  disk,               \* the content of each file of each sandbox
  results,            \* the verdict reported for each mutant
  pipeline,           \* the promise of MutationTestExecutor.run()
  pool                \* SandboxPool.dispose()

scheduler == <<taken, queued, transpiling, currentMutatedFile, view>>
zip       == <<transpiled, free>>
vars      == <<scheduler, zip, sandboxes, jobs, disk, results, pipeline, pool>>

OutputFiles == Files \cup (IF Bundled THEN {Bundle} ELSE {})
Original    == [o \in OutputFiles |-> {}]
Statuses    == {"NoCoverage", "TranspileError", "Killed", "Survived", "TimedOut", "RuntimeError"}

\* What can be seen in a file that holds mutant m, and in several files.
Shows(m)   == {m} \ (NoChange \cup {None})
Seen(fs)   == UNION {fs[f] : f \in DOMAIN fs}

\* The files sent to the transpilers, by the mutant in each, and those that come out.
Sent    == UNION {[fs -> 0 .. NumMutants] : fs \in SUBSET Files}
Outputs == UNION {[fs -> SUBSET Mutants] : fs \in SUBSET OutputFiles}

TranspiledMutant == [mutant : Mutants, error : BOOLEAN, outputs : Outputs]
\* A job whose verdict is known has a status.
Job == {j \in [mutant : Mutants, sandbox : Sandboxes, outputs : Outputs,
               status : Statuses \cup {"none"}, phase : {"early", "write", "run", "reset"}] :
          j.phase \in {"early", "reset"} => j.status \in Statuses}

\* g, and f where g says nothing.
Overwrite(f, g) == [x \in DOMAIN f |-> IF x \in DOMAIN g THEN g[x] ELSE f[x]]

TypeOK ==
  /\ taken \in Mutants
  /\ queued \in Seq(Mutants)
  /\ transpiling \in {Idle} \cup [mutant : Mutants, sent : Sent]
  /\ currentMutatedFile \in Files \cup {None}
  /\ view \in [1 .. Stages -> [Files -> 0 .. NumMutants]]
  /\ transpiled \in Seq(TranspiledMutant)
  /\ sandboxes \in [Sandboxes -> {"none", "creating", "created", "failed", "disposed"}]
  /\ free \in Seq(Sandboxes)
  /\ jobs \subseteq Job /\ IsFiniteSet(jobs)
  /\ disk \in [Sandboxes -> [OutputFiles -> SUBSET Mutants]]
  /\ results \in [Mutants -> Statuses \cup {"none"}]
  /\ pipeline \in {"active", "completed", "failed"}
  /\ pool \in {"open", "disposing", "disposed", "rejected"}

-----------------------------------------------------------------------------
(* MutantTranspileScheduler.                                               *)

\* Seeded bug: the file mutated before is not sent in its original form.
BugOnlyMutatedFile(m) == [f \in {FileOf[m]} |-> m]

\* transpileMutant(): the previous mutant's file, if it is another one, and the mutated file.
FilesToTranspile(m) ==
  [f \in {FileOf[m]} \cup ({currentMutatedFile} \ {None}) |-> IF f = FileOf[m] THEN m ELSE None]

\* The pairs of mutant and ticket in ms go through flatMap, one at a time.
Transpile(ms) ==
  IF ms = <<>>
  THEN /\ queued' = <<>> /\ transpiling' = Idle
       /\ UNCHANGED currentMutatedFile
  ELSE /\ queued' = Tail(ms)
       /\ transpiling' = [mutant |-> Head(ms), sent |-> FilesToTranspile(Head(ms))]
       /\ currentMutatedFile' = FileOf[Head(ms)]

BugTwoTickets ==
  LET last == IF taken + 2 < NumMutants THEN taken + 2 ELSE NumMutants
      ms   == [i \in 1 .. last - taken |-> taken + i]
  IN  /\ taken' = last
      /\ IF transpiling = Idle
         THEN Transpile(ms)
         ELSE /\ queued' = queued \o ms
              /\ UNCHANGED <<transpiling, currentMutatedFile>>
      /\ UNCHANGED view
BugNoTicket == UNCHANGED scheduler

\* scheduleNext(): one ticket; zip pairs it with the next mutant, if there is one.
ScheduleNext ==
  IF taken = NumMutants
  THEN UNCHANGED scheduler
  ELSE /\ taken' = taken + 1
       /\ IF transpiling = Idle
          THEN Transpile(<<taken + 1>>)
          ELSE /\ queued' = Append(queued, taken + 1)
               /\ UNCHANGED <<transpiling, currentMutatedFile>>
       /\ UNCHANGED view

-----------------------------------------------------------------------------
(* Sandbox.runMutant() and SandboxPool.                                    *)

Changed(t) == Seen(t.outputs) # {}     \* changedAnyTranspiledFiles

\* Seeded bug: a mutant without tests is run with all of them.
BugNoCoverageRuns(t) ==
  IF t.error THEN "TranspileError"
  ELSE IF ~Changed(t) THEN "Survived"
  ELSE "none"

RetrieveEarlyResult(t) ==
  IF t.error THEN "TranspileError"
  ELSE IF t.mutant \in NoTests THEN "NoCoverage"
  ELSE IF ~Changed(t) THEN "Survived"
  ELSE "none"

RunResults == {"timeout", "error", "completeWithFailedTest", "complete"}
DetermineMutantState(runResult) ==
  CASE runResult = "timeout" -> "TimedOut"
    [] runResult = "error" -> "RuntimeError"
    [] runResult = "completeWithFailedTest" -> "Killed"
    [] OTHER -> "Survived"

RunMutant(t, n) ==
  LET early == RetrieveEarlyResult(t)
  IN  [mutant |-> t.mutant, sandbox |-> n, outputs |-> t.outputs, status |-> early,
       phase |-> IF early = "none" THEN "write" ELSE "early"]

\* Both sources of the zip push into its buffers; a pair becomes a job.
Zip(ts, ns, js) ==
  IF ts # <<>> /\ ns # <<>>
  THEN /\ transpiled' = Tail(ts) /\ free' = Tail(ns)
       /\ jobs' = js \cup {RunMutant(Head(ts), Head(ns))}
  ELSE /\ transpiled' = ts /\ free' = ns
       /\ jobs' = js

\* The scheduler has completed, and zip has too: it is unsubscribed from the sandboxes.
AllTranspiled == taken = NumMutants /\ queued = <<>> /\ transpiling = Idle
ZipCompleted  == AllTranspiled /\ transpiled = <<>>

\* startSandboxes(): at most MaxInitializing at a time, in order, while anyone listens.
Creating(sbs) == {n \in Sandboxes : sbs[n] = "creating"}
StartSandbox(sbs, listening) ==
  sandboxes' =
    [n \in Sandboxes |->
       IF /\ listening /\ pool = "open" /\ sbs[n] = "none"
          /\ Cardinality(Creating(sbs)) < MaxInitializing
          /\ \A lower \in 1 .. n - 1 : sbs[lower] # "none"
       THEN "creating" ELSE sbs[n]]

Init ==
  /\ taken = IF InitialConcurrency < NumMutants THEN InitialConcurrency ELSE NumMutants
  /\ queued = [i \in 1 .. taken - 1 |-> i + 1]
  /\ transpiling = [mutant |-> 1, sent |-> [f \in {FileOf[1]} |-> 1]]
  /\ currentMutatedFile = FileOf[1]
  /\ view = [s \in 1 .. Stages |-> [f \in Files |-> None]]
  /\ transpiled = <<>> /\ free = <<>> /\ jobs = {}
  /\ sandboxes = [n \in Sandboxes |-> IF n <= MaxInitializing THEN "creating" ELSE "none"]
  /\ disk = [n \in Sandboxes |-> Original]
  /\ results = [m \in Mutants |-> "none"]
  /\ pipeline = "active" /\ pool = "open"

\* TranspilerFacade: each transpiler is given the output of the one before, and the
\* chain stops at the first that rejects (failAt; None if all resolve).  The rejecting
\* one has its files (TypescriptTranspiler replaces them before it looks for errors).
Known(failAt) ==
  [s \in 1 .. Stages |-> IF failAt = None \/ s <= failAt THEN Overwrite(view[s], transpiling.sent) ELSE view[s]]

\* The files that were sent come out, and the bundle, if there is one.
TranspiledFiles(known) ==
  [o \in DOMAIN transpiling.sent \cup (OutputFiles \ Files) |->
     IF o \in Files THEN Shows(transpiling.sent[o]) ELSE UNION {Shows(known[Stages][f]) : f \in Files}]

TranspileResult(failAt) ==
  [mutant |-> transpiling.mutant, error |-> failAt # None,
   outputs |-> IF failAt = None THEN TranspiledFiles(Known(failAt)) ELSE <<>>]

\* What resolves or rejects goes on to the zip; the next mutant is transpiled.
FinishTranspile ==
  /\ transpiling # Idle /\ pipeline = "active"
  /\ \E failAt \in 0 .. Stages : /\ view' = Known(failAt)
                                 /\ Zip(Append(transpiled, TranspileResult(failAt)), free, jobs)
  /\ Transpile(queued)
  /\ UNCHANGED <<taken, sandboxes, disk, results, pipeline, pool>>

\* Sandbox.create() resolves: the sandbox goes to the zip, the next one is created.
CreationResolves(n) ==
  /\ sandboxes[n] = "creating"
  /\ IF pipeline = "active" /\ ~ZipCompleted
     THEN Zip(transpiled, Append(free, n), jobs)
     ELSE UNCHANGED <<zip, jobs>>
  /\ StartSandbox([sandboxes EXCEPT ![n] = "created"],
                  pipeline = "active" /\ ~(AllTranspiled /\ transpiled' = <<>>))
  /\ UNCHANGED <<scheduler, disk, results, pipeline, pool>>

\* Sandbox.create() rejects: so does the run, unless the zip has completed already.
CreationRejects(n) ==
  /\ sandboxes[n] = "creating"
  /\ sandboxes' = [sandboxes EXCEPT ![n] = "failed"]
  /\ pipeline' = IF pipeline = "active" /\ ~ZipCompleted THEN "failed" ELSE pipeline
  /\ UNCHANGED <<scheduler, zip, jobs, disk, results, pool>>

\* runMutant() resolves: recycle, report, schedule the next; complete after the last.
\* After a failure nobody listens.
Emit(j, status) ==
  IF pipeline = "active"
  THEN /\ IF ZipCompleted
          THEN UNCHANGED zip /\ jobs' = jobs \ {j}
          ELSE Zip(transpiled, Append(free, j.sandbox), jobs \ {j})
       /\ results' = [results EXCEPT ![j.mutant] = status]
       /\ ScheduleNext
       /\ pipeline' = IF ZipCompleted /\ jobs = {j} THEN "completed" ELSE "active"
  ELSE /\ jobs' = jobs \ {j}
       /\ UNCHANGED <<scheduler, zip, results, pipeline>>

Advance(j, phase, status) ==
  jobs' = (jobs \ {j}) \cup {[j EXCEPT !.phase = phase, !.status = status]}

EarlyResult(j) ==
  /\ j.phase = "early"
  /\ Emit(j, j.status)
  /\ UNCHANGED <<sandboxes, disk, pool>>

WriteFiles(j) ==
  /\ j.phase = "write"
  /\ disk' = [disk EXCEPT ![j.sandbox] = Overwrite(@, j.outputs)]
  /\ Advance(j, "run", "none")
  /\ UNCHANGED <<scheduler, zip, sandboxes, results, pipeline, pool>>

\* Seeded bug: the sandbox is recycled when the tests are done, before the reset.
BugRecycleBeforeReset(j) ==
  /\ j.phase = "run"
  /\ \E runResult \in RunResults : Advance(j, "reset", DetermineMutantState(runResult))
  /\ free' = IF pipeline = "active" THEN Append(free, j.sandbox) ELSE free
  /\ UNCHANGED <<scheduler, transpiled, sandboxes, disk, results, pipeline, pool>>

TestsRun(j) ==
  /\ j.phase = "run"
  /\ \E runResult \in RunResults : Advance(j, "reset", DetermineMutantState(runResult))
  /\ UNCHANGED <<scheduler, zip, sandboxes, disk, results, pipeline, pool>>

ResetFiles(j) ==
  /\ j.phase = "reset"
  /\ disk' = [disk EXCEPT ![j.sandbox] = [o \in OutputFiles |-> IF o \in DOMAIN j.outputs THEN {} ELSE @[o]]]
  /\ Emit(j, j.status)
  /\ UNCHANGED <<sandboxes, pool>>

\* A write or the test run rejects: so do runMutant() and the run.  Some files are written.
RunMutantRejects(j) ==
  /\ j.phase \in {"write", "run", "reset"}
  /\ jobs' = jobs \ {j}
  /\ \E done \in SUBSET DOMAIN j.outputs :
       disk' = [disk EXCEPT ![j.sandbox] =
                  [o \in OutputFiles |-> IF o \notin done \/ j.phase = "run" THEN @[o]
                                         ELSE IF j.phase = "write" THEN j.outputs[o] ELSE {}]]
  /\ pipeline' = IF pipeline = "active" THEN "failed" ELSE pipeline
  /\ UNCHANGED <<scheduler, zip, sandboxes, results, pool>>

-----------------------------------------------------------------------------
(* Stryker: `finally { await mutationTestProcessInjector.dispose() }`.     *)

BeginDispose ==
  /\ pipeline # "active" /\ pool = "open"
  /\ pool' = "disposing"
  /\ UNCHANGED <<scheduler, zip, sandboxes, jobs, disk, results, pipeline>>

\* `await Promise.all(this.allSandboxes)` rejects with the first creation that did.
DisposeRejects ==
  /\ pool = "disposing"
  /\ \E n \in Sandboxes : sandboxes[n] = "failed"
  /\ pool' = "rejected"
  /\ UNCHANGED <<scheduler, zip, sandboxes, jobs, disk, results, pipeline>>

DisposeCreated(outcomes) ==
  /\ sandboxes' = [n \in Sandboxes |-> IF sandboxes[n] = "created" THEN "disposed" ELSE sandboxes[n]]
  /\ pool' \in outcomes
  /\ UNCHANGED <<scheduler, zip, jobs, disk, results, pipeline>>

\* Seeded bug: the sandboxes that are still being created are not awaited.
BugDisposeTooEarly ==
  /\ pool = "disposing"
  /\ \A n \in Sandboxes : sandboxes[n] # "failed"
  /\ DisposeCreated({"disposed", "rejected"})

\* All are created: dispose() of each is called, one of them may reject.
DisposeSandboxes ==
  /\ pool = "disposing"
  /\ \A n \in Sandboxes : sandboxes[n] \in {"none", "created"}
  /\ DisposeCreated({"disposed", "rejected"})

-----------------------------------------------------------------------------
JobStep == \E j \in jobs : EarlyResult(j) \/ WriteFiles(j) \/ TestsRun(j) \/ ResetFiles(j)

Next ==
  \/ FinishTranspile
  \/ \E n \in Sandboxes : CreationResolves(n) \/ CreationRejects(n)
  \/ JobStep
  \/ \E j \in jobs : RunMutantRejects(j)
  \/ BeginDispose \/ DisposeRejects \/ DisposeSandboxes

Spec == Init /\ [][Next]_vars

\* The transpiler answers (module ChildProcessProxy), file writes end, a test run
\* settles (module TestRunnerStack), and so does the creation of the first sandbox.
\* The creation of another one may hang: nothing limits the time init() takes.
FairSpec ==
  /\ Spec
  /\ WF_vars(FinishTranspile) /\ WF_vars(JobStep)
  /\ WF_vars(CreationResolves(1) \/ CreationRejects(1))
  /\ WF_vars(BeginDispose) /\ WF_vars(DisposeRejects \/ DisposeSandboxes)

-----------------------------------------------------------------------------
\* A sandbox has one set of files and one test runner: it is never given to two mutants,
\* and it is not recycled before its mutant is done with it (SandboxPool.ts:53).
OneMutantPerSandbox ==
  /\ \A j, k \in jobs : j.sandbox = k.sandbox => j = k
  /\ \A i \in 1 .. Len(free) : \A j \in jobs : j.sandbox # free[i]
  /\ \A i, k \in 1 .. Len(free) : free[i] = free[k] => i = k

\* While the tests of a mutant run, that mutant is in the files of the sandbox, and no
\* other is: neither one tested there before, nor one the transpiler still knows of
\* (MutantTranspileScheduler.ts:69-77, Sandbox.ts:81-87).  A sandbox that waits for a
\* mutant holds the original files.
TestsSeeOnlyTheirMutant ==
  /\ \A j \in jobs : j.phase = "run" => Seen(disk[j.sandbox]) = {j.mutant}
  /\ \A i \in 1 .. Len(free) : Seen(disk[free[i]]) = {}

\* The transpiled files kept in memory are those of InitialConcurrency mutants at most,
\* however slow the sandboxes are (MutantTranspileScheduler.ts:18).
BoundedBuffering ==
  Len(queued) + (IF transpiling = Idle THEN 0 ELSE 1) + Len(transpiled) + Cardinality(jobs)
    <= InitialConcurrency

\* A dispose() that resolved left no sandbox with a test runner, also when sandboxes were
\* still being created (SandboxPool.ts:107-111).
NoSandboxAfterDispose ==
  pool = "disposed" => \A n \in Sandboxes : sandboxes[n] \in {"none", "disposed"}

\* The reporter gets one verdict for each mutant, one that is possible for it, and the
\* results are complete when run() resolves (MutationTestExecutor.ts:19-33).
Verdicts ==
  [m \in Mutants |->
     (IF m \in NoTests THEN {"NoCoverage"}
      ELSE IF m \in NoChange THEN {"Survived"}
      ELSE {"Killed", "Survived", "TimedOut", "RuntimeError"})
     \cup (IF Stages > 0 THEN {"TranspileError"} ELSE {})]
Abstract == INSTANCE MutationTestRun WITH run <- pipeline
ImplementsMutationTestRun == Abstract!Spec

\* run() settles if the creation of one sandbox does: the mutants do not wait for the others, and no ticket is lost on
\* the way.  After it, dispose() settles as soon as no sandbox is being created any more.
RunAndDisposeSettle ==
  /\ <>(pipeline # "active")
  /\ (pipeline # "active" /\ Creating(sandboxes) = {}) ~> (pool \in {"disposed", "rejected"})

\* Promises of the documentation that the code does not keep.

\* Transpiler.ts:19: "instead only the changed files in relation to the previous call":
\* what a transpiler was told adds up to the current mutant and no other.
TranspiledIsOneMutant ==
  \A i \in 1 .. Len(transpiled) :
    ~transpiled[i].error => Seen(transpiled[i].outputs) = Shows(transpiled[i].mutant)

=============================================================================
