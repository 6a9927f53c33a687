-------------------------- MODULE TestRunnerStack --------------------------
(***************************************************************************)
(* packages/core/src/test-runner: the test runner of one sandbox, as       *)
(* ResilientTestRunnerFactory builds it: a RetryDecorator around a         *)
(* TimeoutDecorator around a ChildProcessTestRunnerDecorator, which owns   *)
(* one ChildProcessProxy and so one child process.  Every createInnerRunner*)
(* forks a new child; `current` is the one the decorators refer to.        *)
(*                                                                         *)
(* Two asynchronous chains use the stack: "sandbox" creates it and runs    *)
(* mutants one after the other, "disposer" is SandboxPool.dispose(), which *)
(* comes when all is done or when another sandbox has failed.              *)
(*                                                                         *)
(* A proxy is taken at the level of RemoteCalls (a call is answered, or    *)
(* rejected when the child is found dead), with the one exception module   *)
(* ChildProcessProxy shows: a call pending when the proxy is disposed may  *)
(* never be settled.                                                       *)
(***************************************************************************)
EXTENDS Naturals, FiniteSets

CONSTANTS MaxRuns,           \* bound: mutants the sandbox runs
          MaxCrashes,        \* bound: children that die by themselves
          MaxChildren        \* bound: children remembered at a time

ASSUME BoundsAssumption == MaxRuns \in Nat /\ MaxCrashes \in Nat /\ MaxChildren \in Nat \ {0}

VARIABLES
  children,      \* the children a chain or an event can still concern, by slot
  current,       \* the child behind the innermost innerRunner
  pc,            \* per chain: the call it awaits, or where it rests
  on,            \* per chain: the child it awaits
  settled,       \* per chain: what became of the promise it awaits
  goal,          \* what the sandbox chain is recovering from
  attemptsLeft,  \* RetryDecorator.run's parameter
  result,        \* how the last run() settled
  runs,          \* mutants begun
  crashes,       \* children that died by themselves
  overlapped     \* history: the disposer came while the sandbox chain was active

vars == <<children, current, pc, on, settled, goal, attemptsLeft, result,
          runs, crashes, overlapped>>

Slots  == 1 .. MaxChildren
Chains == {"sandbox", "disposer"}
Awaits == {"init", "run", "dispose", "kill"}

\* proxy: "listening" to 'close'; "crashed" when the exit is reported (isDisposed and
\* currentError); "disposing" and "disposed" from worker.dispose() on (isDisposed).
NewChild == [proc |-> "up", proxy |-> "listening", broken |-> FALSE,
             inited |-> FALSE, used |-> FALSE]

GoneChild == [NewChild EXCEPT !.proc = "dead", !.proxy = "disposed"]

ChildType == [proc : {"up", "dead"},
              proxy : {"listening", "crashed", "disposing", "disposed"},
              broken : BOOLEAN,   \* an 'error' event for a failed send is to come
              inited : BOOLEAN,   \* init() of the test runner resolved
              used : BOOLEAN]     \* run() was called

Settled(t, op, hows) == pc[t] = op /\ settled[t] \in hows

\* A child that is dead, and that no chain awaits and no event is to come for, is forgotten.
Forgotten(i) ==
  /\ children[i].proc = "dead" /\ ~children[i].broken
  /\ \A t \in Chains : on[t] # i \/ pc[t] \notin Awaits \/ (t = "sandbox" /\ pc[t] = "kill")

TypeOK ==
  /\ children \in [Slots -> ChildType]
  /\ current \in Slots
  /\ pc \in [Chains -> Awaits \cup {"idle", "writing", "failed", "done"}]
  /\ on \in [Chains -> Slots]
  /\ settled \in [Chains -> {"pending", "ok", "crash", "error"}]
  /\ goal \in {"create", "run", "timeout", "retry", "giveUp"}
  /\ attemptsLeft \in 0 .. 2
  /\ result \in {"none", "completed", "timeout", "error", "rejected"}
  /\ runs \in 0 .. MaxRuns
  /\ crashes \in 0 .. MaxCrashes
  /\ overlapped \in BOOLEAN

\* Sandbox.initializeTestRunner(): the stack is created, init() is called.
Init ==
  /\ current = 1
  /\ children = [i \in Slots |-> IF i = 1 THEN NewChild ELSE GoneChild]
  /\ pc = [t \in Chains |-> IF t = "sandbox" THEN "init" ELSE "idle"]
  /\ on = [t \in Chains |-> current]
  /\ settled = [t \in Chains |-> "pending"]
  /\ goal = "create"
  /\ attemptsLeft = 0
  /\ result = "none"
  /\ runs = 0 /\ crashes = 0
  /\ overlapped = FALSE

-----------------------------------------------------------------------------
(* Calls on the proxy of a child.                                          *)

\* A call leaves its mark on the child.
Called(child, op) ==
  [child EXCEPT !.broken = child.broken \/ (child.proc = "dead" /\ child.proxy # "crashed"),
                !.used = child.used \/ op = "run"]

\* Chain t awaits op of child i, cs being the children as they are then.  A proxy
\* that reported the exit rejects at once; a send to a dead child fails later.
Call(t, op, i, cs) ==
  /\ pc' = [pc EXCEPT ![t] = op]
  /\ on' = [on EXCEPT ![t] = i]
  /\ settled' = [settled EXCEPT ![t] = IF cs[i].proxy = "crashed" THEN "crash" ELSE "pending"]
  /\ children' = [cs EXCEPT ![i] = Called(cs[i], op)]

\* Chain t awaits no call.
Rest(t, where) == /\ pc' = [pc EXCEPT ![t] = where]
                  /\ on' = [on EXCEPT ![t] = current]
                  /\ settled' = [settled EXCEPT ![t] = "pending"]

\* run() settles: its locals are gone.
Return(where, res) ==
  /\ Rest("sandbox", where)
  /\ result' = res /\ goal' = "run" /\ attemptsLeft' = 0
  /\ UNCHANGED <<children, current, runs, crashes, overlapped>>

Awaiting(t, op) == pc[t] = op /\ settled[t] = "pending"

\* The child answers the call a chain awaits: ResultMessage or Rejection.
Answer(t, op, how) ==
  /\ Awaiting(t, op) /\ children[on[t]].proc = "up"
  /\ settled' = [settled EXCEPT ![t] = how]
  /\ children' = [children EXCEPT ![on[t]].inited = children[on[t]].inited \/ (op = "init" /\ how = "ok")]
  /\ UNCHANGED <<current, pc, on, goal, attemptsLeft, result, runs, crashes, overlapped>>

Crash(i) ==
  /\ children[i].proc = "up" /\ crashes < MaxCrashes
  /\ crashes' = crashes + 1
  /\ children' = [children EXCEPT ![i].proc = "dead"]
  /\ UNCHANGED <<current, pc, on, settled, goal, attemptsLeft, result, runs, overlapped>>

RejectPending(i, how) ==
  settled' = [t \in Chains |->
                IF on[t] = i /\ pc[t] \in {"init", "run", "dispose"} /\ settled[t] = "pending"
                THEN how ELSE settled[t]]

\* 'close' of a child whose proxy still listens to it.
HandleUnexpectedExit(i) ==
  /\ children[i].proc = "dead" /\ children[i].proxy = "listening"
  /\ RejectPending(i, "crash")
  /\ children' = [children EXCEPT ![i].proxy = "crashed"]
  /\ UNCHANGED <<current, pc, on, goal, attemptsLeft, result, runs, crashes, overlapped>>

\* 'error' for a send to the dead child: a ChildProcessCrashedError or the error itself.
HandleError(i) ==
  /\ children[i].broken
  /\ \E how \in {"crash", "error"} : RejectPending(i, how)
  /\ children' = [children EXCEPT ![i].broken = FALSE]
  /\ UNCHANGED <<current, pc, on, goal, attemptsLeft, result, runs, crashes, overlapped>>

-----------------------------------------------------------------------------
(* ChildProcessTestRunnerDecorator.dispose(), for either chain.            *)

DisposeInner(t) == Call(t, "dispose", current, children)

\* Seeded bugs: no limit on the wait for the inner dispose; no worker.dispose() after it.
BugWaitForInnerDispose(t) ==
  /\ pc[t] = "dispose" /\ settled[t] \in {"ok", "crash"}
  /\ pc' = [pc EXCEPT ![t] = "kill"]
  /\ IF children[on[t]].proxy = "listening"
     THEN /\ children' = [children EXCEPT ![on[t]].proxy = "disposing"]
          /\ settled' = [settled EXCEPT ![t] = "pending"]
     ELSE /\ settled' = [settled EXCEPT ![t] = "ok"]
          /\ UNCHANGED children
  /\ UNCHANGED <<current, on, goal, attemptsLeft, result, runs, crashes, overlapped>>
BugInnerDisposeOnly(t) ==
  /\ pc[t] = "dispose" /\ settled[t] # "error"
  /\ pc' = [pc EXCEPT ![t] = "kill"]
  /\ settled' = [settled EXCEPT ![t] = "ok"]
  /\ UNCHANGED <<children, current, on, goal, attemptsLeft, result, runs, crashes, overlapped>>

\* `catch` lets a ChildProcessCrashedError pass, timeout() waits MAX_WAIT_FOR_DISPOSE;
\* then worker.dispose(), which returns at once when isDisposed.
DisposeWorker(t) ==
  /\ pc[t] = "dispose" /\ settled[t] # "error"
  /\ pc' = [pc EXCEPT ![t] = "kill"]
  /\ IF children[on[t]].proxy = "listening"
     THEN /\ children' = [children EXCEPT ![on[t]].proxy = "disposing"]
          /\ settled' = [settled EXCEPT ![t] = "pending"]
     ELSE /\ settled' = [settled EXCEPT ![t] = "ok"]
          /\ UNCHANGED children
  /\ UNCHANGED <<current, on, goal, attemptsLeft, result, runs, crashes, overlapped>>

\* The proxy got DisposeCompleted, or stopped waiting for it, and killed the child.
Kill(t) ==
  /\ Awaiting(t, "kill")
  /\ children' = [children EXCEPT ![on[t]] = [GoneChild EXCEPT !.broken = children[on[t]].broken]]
  /\ settled' = [settled EXCEPT ![t] = "ok"]
  /\ UNCHANGED <<current, pc, on, goal, attemptsLeft, result, runs, crashes, overlapped>>

-----------------------------------------------------------------------------
(* The sandbox chain.                                                      *)

CreationDone ==
  /\ goal = "create" /\ pc["sandbox"] = "init" /\ settled["sandbox"] # "pending"
  /\ IF settled["sandbox"] = "ok" THEN Rest("sandbox", "idle") ELSE Rest("sandbox", "failed")
  /\ goal' = "run"
  /\ UNCHANGED <<children, current, attemptsLeft, result, runs, crashes, overlapped>>

\* Sandbox.runMutant(): the files are written, then run() is called.
BeginMutant ==
  /\ pc["sandbox"] = "idle" /\ runs < MaxRuns
  /\ pc["disposer"] = "idle"
  /\ runs' = runs + 1 /\ result' = "none"
  /\ Rest("sandbox", "writing")
  /\ UNCHANGED <<children, current, goal, attemptsLeft, crashes, overlapped>>

\* RetryDecorator.run(options): the first of two attempts.
Run ==
  /\ pc["sandbox"] = "writing"
  /\ Call("sandbox", "run", current, children)
  /\ goal' = "run" /\ attemptsLeft' = 2
  /\ UNCHANGED <<current, result, runs, crashes, overlapped>>

RunCompletes ==
  /\ Settled("sandbox", "run", {"ok"})
  /\ Return("idle", "completed")

\* Seeded bug: the timeout is reported, the runner is left as it is.
BugTimeoutKeepsRunner ==
  /\ Awaiting("sandbox", "run")
  /\ Return("idle", "timeout")

\* TimeoutDecorator.handleTimeout(): dispose, create, init, report Timeout.
RunTimesOut ==
  /\ Awaiting("sandbox", "run")
  /\ goal' = "timeout"
  /\ DisposeInner("sandbox")
  /\ UNCHANGED <<current, attemptsLeft, result, runs, crashes, overlapped>>

\* The rejection that RetryDecorator.run catches: of the run itself, or of the
\* dispose or init of handleTimeout().
InnerRunRejects ==
  \/ Settled("sandbox", "run", {"crash", "error"})
  \/ goal = "timeout" /\ Settled("sandbox", "dispose", {"error"})
  \/ goal = "timeout" /\ Settled("sandbox", "init", {"crash", "error"})

\* recover() in the catch clause, with one attempt less.
Recover ==
  /\ InnerRunRejects
  /\ goal' = "retry" /\ attemptsLeft' = attemptsLeft - 1
  /\ DisposeInner("sandbox")
  /\ UNCHANGED <<current, result, runs, crashes, overlapped>>

Fork == /\ \E i \in Slots : Forgotten(i)
        /\ current' = CHOOSE i \in Slots : Forgotten(i)

\* Seeded bug: the new runner is made while the old one is being disposed.
BugRestartWithoutAwait ==
  /\ pc["sandbox"] = "kill"
  /\ Fork
  /\ children' = [children EXCEPT ![current'] = NewChild]
  /\ pc' = [pc EXCEPT !["sandbox"] = "init"]
  /\ on' = [on EXCEPT !["sandbox"] = current']
  /\ settled' = [settled EXCEPT !["sandbox"] = "pending"]
  /\ UNCHANGED <<goal, attemptsLeft, result, runs, crashes, overlapped>>

\* createInnerRunner() and init(), after dispose() resolved.
Restart ==
  /\ Settled("sandbox", "kill", {"ok"})
  /\ Fork
  /\ Call("sandbox", "init", current', [children EXCEPT ![current'] = NewChild])
  /\ UNCHANGED <<goal, attemptsLeft, result, runs, crashes, overlapped>>

\* `.then(() => ({ status: RunStatus.Timeout, tests: [] }))`
ReportTimeout ==
  /\ goal = "timeout" /\ Settled("sandbox", "init", {"ok"})
  /\ Return("idle", "timeout")

\* Seeded bug: the recovered runner is not asked to init before it runs again.
BugRetryBeforeInit ==
  /\ goal = "retry" /\ pc["sandbox"] = "init" /\ settled["sandbox"] # "error"
  /\ attemptsLeft > 0
  /\ Call("sandbox", "run", current, children)
  /\ goal' = "run"
  /\ UNCHANGED <<current, attemptsLeft, result, runs, crashes, overlapped>>

\* The recursive run(options, attemptsLeft - 1, error) on the recovered runner.
Retry ==
  /\ goal = "retry" /\ Settled("sandbox", "init", {"ok"})
  /\ attemptsLeft > 0
  /\ Call("sandbox", "run", current, children)
  /\ goal' = "run"
  /\ UNCHANGED <<current, attemptsLeft, result, runs, crashes, overlapped>>

\* No attempt left: run() recovers once more before it gives the Error result.
RecoverAgain ==
  /\ goal = "retry" /\ Settled("sandbox", "init", {"ok"})
  /\ attemptsLeft = 0
  /\ goal' = "giveUp"
  /\ DisposeInner("sandbox")
  /\ UNCHANGED <<current, attemptsLeft, result, runs, crashes, overlapped>>

ReportCrashed ==
  /\ goal = "giveUp" /\ Settled("sandbox", "init", {"ok"})
  /\ Return("idle", "error")

\* recover() itself rejects: run() rejects, without another attempt.
RunRejects ==
  /\ goal \in {"retry", "giveUp"}
  /\ \/ Settled("sandbox", "dispose", {"error"})
     \/ Settled("sandbox", "init", {"crash", "error"})
  /\ Return("failed", "rejected")

-----------------------------------------------------------------------------
(* The disposer.                                                           *)

SandboxRests == pc["sandbox"] \in {"idle", "failed"}

\* Sandbox.dispose(): only a sandbox whose creation resolved is disposed.
BeginDispose ==
  /\ pc["disposer"] = "idle"
  /\ goal # "create" /\ ~(pc["sandbox"] = "failed" /\ runs = 0)
  /\ overlapped' = ~SandboxRests
  /\ DisposeInner("disposer")
  /\ UNCHANGED <<current, goal, attemptsLeft, result, runs, crashes>>

DisposeDone ==
  /\ \/ Settled("disposer", "kill", {"ok"}) /\ Rest("disposer", "done")
     \/ Settled("disposer", "dispose", {"error"}) /\ Rest("disposer", "failed")
  /\ UNCHANGED <<children, current, goal, attemptsLeft, result, runs, crashes, overlapped>>

-----------------------------------------------------------------------------
MainProcess ==
  \/ \E i \in Slots : HandleUnexpectedExit(i) \/ HandleError(i)
  \/ \E t \in Chains : DisposeWorker(t) \/ Kill(t)
  \/ CreationDone \/ Run \/ RunCompletes \/ RunTimesOut
  \/ Recover \/ Restart \/ ReportTimeout \/ Retry \/ RecoverAgain \/ ReportCrashed \/ RunRejects
  \/ DisposeDone

Next ==
  \/ MainProcess
  \/ BeginMutant \/ BeginDispose
  \/ \E t \in Chains, op \in {"init", "run", "dispose"}, how \in {"ok", "error"} : Answer(t, op, how)
  \/ \E i \in Slots : Crash(i)

Spec == Init /\ [][Next]_vars

\* The main process runs its event loop, its timers and its callbacks.
LiveSpec == Spec /\ WF_vars(MainProcess)

\* Also, a child that lives answers init().  A run or a dispose() may hang for ever.
FairSpec == LiveSpec /\ WF_vars(\E how \in {"ok", "error"} : Answer("sandbox", "init", how))

-----------------------------------------------------------------------------
Up == {i \in Slots : children[i].proc = "up"}

\* A sandbox has one child at a time: the next is forked when the last one is gone,
\* also if a restart fails half-way and is tried again (RetryDecorator.ts:37,
\* TimeoutDecorator.ts:24), as long as the sandbox is not disposed during a run.
OneChildAtATime == ~overlapped => Cardinality(Up) <= 1

\* No run starts on a runner whose init() has not resolved: the promise of
\* packages/api/src/test_runner/TestRunner.ts:38, across every kind of restart.
RunsOnlyInitialized ==
  pc["sandbox"] = "run" /\ on["sandbox"] \in Up => children[on["sandbox"]].inited

\* When a run timed out or was given up, no child that ran a test is left, so the
\* mutant's infinite loop is gone before the next mutant runs.
NothingStillRuns ==
  pc["sandbox"] = "idle" /\ result \in {"timeout", "error"} /\ ~overlapped
    => \A i \in Up : ~children[i].used

\* A dispose() that resolved left no child, however many restarts came before.
NoChildLeft == pc["disposer"] = "done" /\ ~overlapped => Up = {}

\* run() settles whatever the child does, as long as a restarted child answers init(), and so does dispose(), also
\* for a child that hangs, and during a run.
RunAndDisposeSettle ==
  /\ (pc["sandbox"] = "run") ~> (SandboxRests \/ overlapped)
  /\ (pc["disposer"] = "dispose") ~> (pc["disposer"] \in {"done", "failed"})

\* The documentation's promises that the code does not keep.

\* ChildProcessTestRunnerDecorator.ts:52: "After that, dispose the child process itself".
ChildDisposedAfterInner ==
  pc["disposer"] \in {"done", "failed"} /\ ~overlapped => Up = {}
=============================================================================
