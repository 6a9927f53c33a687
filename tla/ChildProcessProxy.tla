------------------------- MODULE ChildProcessProxy -------------------------
(***************************************************************************)
(* packages/core/src/child-proxy: a ChildProcessProxy in the main process, *)
(* the ChildProcessProxyWorker in the forked one, and what lies between    *)
(* them: two FIFO channels, the death of the child and the 'close' and     *)
(* 'error' events node raises for it.                                      *)
(*                                                                         *)
(* One proxy and one child.  A call is named by a member of Calls, its     *)
(* arguments and its result are abstracted to that name, so a reply that   *)
(* settles the wrong promise is visible.                                   *)
(***************************************************************************)
EXTENDS Naturals, Sequences

CONSTANTS Calls,    \* the calls made on proxy, each at most once
          Deleted   \* the hole `delete workerTasks[id]` leaves in the array

ASSUME DeletedAssumption == Deleted \notin Calls

VARIABLES
  \* the main process
  workerTasks,   \* the array of Tasks: a Task is named by its call
  outcome,       \* the promise of each call (Task.promise and isCompleted)
  initialized,   \* initTask is resolved
  thens,         \* the callbacks on initTask.promise yet to run: what each will send
  currentError,  \* FALSE, or TRUE with the error of the unexpected exit set
  isDisposed,
  disposal,      \* how far dispose() got
  errorEvents,   \* 'error' events node has yet to emit for failed sends
  \* the child process
  worker,        \* "starting" until Init is handled, then "ready"; "dead"
  executing,     \* calls whose promise is pending in the child
  shuttingDown,  \* LogConfigurator.shutdown() is running in the child
  \* the channels
  toWorker, toParent,
  channelOpen    \* FALSE once the main process has seen the end of toParent

parentVars  == <<workerTasks, outcome, initialized, thens, currentError, isDisposed, disposal>>
workerVars  == <<worker, executing, shuttingDown>>
vars == <<workerTasks, outcome, initialized, thens, currentError, isDisposed, disposal,
          errorEvents, worker, executing, shuttingDown, toWorker, toParent, channelOpen>>

Abstract == INSTANCE RemoteCalls WITH failed <- currentError

Unmade  == [state |-> "unmade"]
Pending == [state |-> "pending"]
Resolved(result) == [state |-> "resolved", result |-> result]
Rejected(error)  == [state |-> "rejected", error |-> error]

ErrorKinds == {"Error", "ChildProcessCrashedError", "OutOfMemoryError"}
Outcomes   == {Unmade, Pending}
                \cup {Resolved(c) : c \in Calls} \cup {Rejected(e) : e \in ErrorKinds}

\* An id with the call it was given to: what a Call message carries.
CallRefs == [correlationId : Nat, call : Calls]

CallMessages   == [kind : {"Call"}, ref : CallRefs]
WorkerMessages == {[kind |-> "Init"], [kind |-> "Dispose"]} \cup CallMessages
ParentMessages == {[kind |-> "Initialized"], [kind |-> "DisposeCompleted"]}
                    \cup [kind : {"Result", "Rejection"}, ref : CallRefs]

CallMessage(id, c) == [kind |-> "Call", ref |-> [correlationId |-> id, call |-> c]]

ErrnoCodes == {"EPIPE", "ERR_IPC_CHANNEL_CLOSED", "other"}

Alive == worker # "dead"

TypeOK ==
  /\ workerTasks \in Seq(Calls \cup {Deleted})
  /\ outcome \in [Calls -> Outcomes]
  /\ initialized \in BOOLEAN
  /\ thens \in Seq(CallMessages)
  /\ currentError \in BOOLEAN
  /\ isDisposed \in BOOLEAN
  /\ disposal \in {"none", "awaiting", "killing", "done"}
  /\ errorEvents \in Seq(ErrnoCodes)
  /\ worker \in {"starting", "ready", "dead"}
  /\ executing \in SUBSET CallRefs
  /\ shuttingDown \in BOOLEAN
  /\ toWorker \in Seq(WorkerMessages)
  /\ toParent \in Seq(ParentMessages)
  /\ channelOpen \in BOOLEAN

\* The constructor has run: the child is forked and Init is sent to it.
Init ==
  /\ workerTasks = <<>>
  /\ outcome = [c \in Calls |-> Unmade]
  /\ initialized = FALSE
  /\ thens = <<>>
  /\ currentError = FALSE
  /\ isDisposed = FALSE
  /\ disposal = "none"
  /\ errorEvents = <<>>
  /\ worker = "starting"
  /\ executing = {}
  /\ shuttingDown = FALSE
  /\ toWorker = << [kind |-> "Init"] >>
  /\ toParent = <<>>
  /\ channelOpen = TRUE

-----------------------------------------------------------------------------
(* Node's side of the channel.                                             *)

\* worker.send(): delivered to a living child; to a dead one the write is lost
\* or fails later with an 'error' event; to a closed channel it always fails.
Send(m) ==
  \/ /\ Alive
     /\ toWorker' = Append(toWorker, m)
     /\ UNCHANGED errorEvents
  \/ /\ ~Alive /\ channelOpen
     /\ \/ UNCHANGED errorEvents
        \/ \E code \in {"EPIPE", "other"} : errorEvents' = Append(errorEvents, code)
     /\ UNCHANGED toWorker
  \/ /\ ~channelOpen
     /\ errorEvents' = Append(errorEvents, "ERR_IPC_CHANNEL_CLOSED")
     /\ UNCHANGED toWorker

\* The child is gone and with it what it had not read or finished.  What it
\* wrote before stays readable.
Die ==
  /\ worker' = "dead"
  /\ executing' = {}
  /\ shuttingDown' = FALSE
  /\ toWorker' = <<>>

\* The main process reads the end of the channel, after the last message.
ChannelEnd ==
  /\ ~Alive /\ toParent = <<>> /\ channelOpen
  /\ channelOpen' = FALSE
  /\ UNCHANGED <<parentVars, workerVars, errorEvents, toWorker, toParent>>

\* Promise callbacks run to completion before the next event is handled.
MicrotasksDone == ~initialized \/ thens = <<>>

-----------------------------------------------------------------------------
(* The main process.                                                       *)

\* The first settlement of a promise counts, later ones are ignored.
Settle(c, o) == outcome' = [outcome EXCEPT ![c] = IF @ = Pending THEN o ELSE @]

\* reportError(error): every task that is not completed is rejected, none is deleted.
ReportError(error) ==
  outcome' = [c \in Calls |->
                IF outcome[c] = Pending /\ \E i \in DOMAIN workerTasks : workerTasks[i] = c
                THEN Rejected(error) ELSE outcome[c]]

BugIdOfLiveTasks == Len(SelectSeq(workerTasks, LAMBDA t : t # Deleted))

\* The index push() gives to the next task: the array never shrinks.
NextCorrelationId == Len(workerTasks)

\* Seeded bug: forward() without its look at currentError.
BugForwardAfterExit(c) ==
  /\ outcome[c] = Unmade
  /\ outcome' = [outcome EXCEPT ![c] = Pending]
  /\ workerTasks' = Append(workerTasks, c)
  /\ thens' = Append(thens, CallMessage(NextCorrelationId, c))
  /\ UNCHANGED <<initialized, currentError, isDisposed, disposal, errorEvents,
                 workerVars, toWorker, toParent, channelOpen>>

\* forward(): proxy.method(...args).
Forward(c) ==
  /\ outcome[c] = Unmade
  /\ IF currentError
     THEN /\ \E e \in ErrorKinds \ {"Error"} :
                outcome' = [outcome EXCEPT ![c] = Rejected(e)]
          /\ UNCHANGED <<workerTasks, thens>>
     ELSE /\ outcome' = [outcome EXCEPT ![c] = Pending]
          /\ workerTasks' = Append(workerTasks, c)
          /\ thens' = Append(thens, CallMessage(NextCorrelationId, c))
  /\ UNCHANGED <<initialized, currentError, isDisposed, disposal, errorEvents,
                 workerVars, toWorker, toParent, channelOpen>>

\* Seeded bug: the call is sent without waiting for initTask.
BugSendCallAtOnce ==
  /\ thens # <<>>
  /\ thens' = Tail(thens)
  /\ Send(Head(thens))
  /\ UNCHANGED <<workerTasks, outcome, initialized, currentError, isDisposed, disposal,
                 workerVars, toParent, channelOpen>>

\* The callback forward() registered on initTask.promise.
SendCall ==
  /\ initialized /\ thens # <<>>
  /\ thens' = Tail(thens)
  /\ Send(Head(thens))
  /\ UNCHANGED <<workerTasks, outcome, initialized, currentError, isDisposed, disposal,
                 workerVars, toParent, channelOpen>>

Receive(kind) ==
  /\ MicrotasksDone
  /\ toParent # <<>> /\ Head(toParent).kind = kind
  /\ toParent' = Tail(toParent)
  /\ UNCHANGED <<thens, currentError, isDisposed, errorEvents, workerVars, toWorker, channelOpen>>

HandleInitialized ==
  /\ Receive("Initialized")
  /\ initialized' = TRUE
  /\ UNCHANGED <<workerTasks, outcome, disposal>>

\* Seeded bug: replies taken to arrive in the order of the calls.
BugOldestTask(m) ==
  workerTasks[CHOOSE i \in DOMAIN workerTasks :
                /\ workerTasks[i] # Deleted
                /\ \A j \in 1 .. i - 1 : workerTasks[j] = Deleted]

\* workerTasks[message.correlationId]
TaskOf(m) == workerTasks[m.ref.correlationId + 1]
DeleteTask(m) == workerTasks' = [workerTasks EXCEPT ![m.ref.correlationId + 1] = Deleted]

HandleResult ==
  /\ Receive("Result")
  /\ Settle(TaskOf(Head(toParent)), Resolved(Head(toParent).ref.call))
  /\ DeleteTask(Head(toParent))
  /\ UNCHANGED <<initialized, disposal>>

HandleRejection ==
  /\ Receive("Rejection")
  /\ Settle(TaskOf(Head(toParent)), Rejected("Error"))
  /\ DeleteTask(Head(toParent))
  /\ UNCHANGED <<initialized, disposal>>

HandleDisposeCompleted ==
  /\ Receive("DisposeCompleted")
  /\ disposal' = IF disposal = "awaiting" THEN "killing" ELSE disposal
  /\ UNCHANGED <<workerTasks, outcome, initialized>>

\* Seeded bug: the exit is remembered for later calls, what is pending is forgotten.
BugExitForgetsPending ==
  /\ MicrotasksDone
  /\ ~channelOpen /\ ~currentError
  /\ disposal = "none"
  /\ isDisposed' = TRUE
  /\ currentError' = TRUE
  /\ UNCHANGED <<workerTasks, outcome, initialized, thens, disposal, errorEvents,
                 workerVars, toWorker, toParent, channelOpen>>

\* 'close': the child has exited and its output is read.  dispose() has removed
\* the listener when disposal # "none".  The output tells memory from other causes.
HandleUnexpectedExit ==
  /\ MicrotasksDone
  /\ ~channelOpen /\ ~currentError
  /\ disposal = "none"
  /\ isDisposed' = TRUE
  /\ currentError' = TRUE
  /\ \E e \in {"OutOfMemoryError", "ChildProcessCrashedError"} : ReportError(e)
  /\ UNCHANGED <<workerTasks, initialized, thens, disposal, errorEvents,
                 workerVars, toWorker, toParent, channelOpen>>

\* innerProcessIsCrashed(error)
InnerProcessIsCrashed(code) == code \in {"EPIPE", "ERR_IPC_CHANNEL_CLOSED"}

\* 'error': everything pending is rejected; currentError and isDisposed stay.
HandleError ==
  /\ errorEvents # <<>>
  /\ errorEvents' = Tail(errorEvents)
  /\ ReportError(IF InnerProcessIsCrashed(Head(errorEvents))
                 THEN "ChildProcessCrashedError" ELSE "Error")
  /\ UNCHANGED <<workerTasks, initialized, thens, currentError, isDisposed, disposal,
                 workerVars, toWorker, toParent, channelOpen>>

\* dispose(), up to its await.
Dispose ==
  /\ ~isDisposed
  /\ isDisposed' = TRUE
  /\ disposal' = "awaiting"
  /\ Send([kind |-> "Dispose"])
  /\ UNCHANGED <<workerTasks, outcome, initialized, thens, currentError,
                 workerVars, toParent, channelOpen>>

\* Seeded bugs: a plain Task for disposeTask; a kill that is not in a `finally`.
BugNoExpiry == FALSE /\ UNCHANGED vars
BugExpiryWithoutKill ==
  /\ MicrotasksDone
  /\ disposal = "awaiting"
  /\ disposal' = "done"
  /\ UNCHANGED <<workerTasks, outcome, initialized, thens, currentError, isDisposed,
                 errorEvents, workerVars, toWorker, toParent, channelOpen>>

\* The ExpirableTask gives up after TIMEOUT_FOR_DISPOSE.
DisposeExpires ==
  /\ MicrotasksDone
  /\ disposal = "awaiting"
  /\ disposal' = "killing"
  /\ UNCHANGED <<workerTasks, outcome, initialized, thens, currentError, isDisposed,
                 errorEvents, workerVars, toWorker, toParent, channelOpen>>

\* `finally { await kill(pid) }`
Kill ==
  /\ disposal = "killing"
  /\ disposal' = "done"
  /\ Die
  /\ UNCHANGED <<workerTasks, outcome, initialized, thens, currentError, isDisposed,
                 errorEvents, toParent, channelOpen>>

-----------------------------------------------------------------------------
(* The child process: ChildProcessProxyWorker.                             *)

Reply(m) == toParent' = Append(toParent, m)

Read(kind) ==
  /\ Alive
  /\ toWorker # <<>> /\ Head(toWorker).kind = kind
  /\ toWorker' = Tail(toWorker)
  /\ UNCHANGED <<parentVars, errorEvents, channelOpen>>

HandleInit ==
  /\ Read("Init")
  /\ worker' = "ready"
  /\ Reply([kind |-> "Initialized"])
  /\ UNCHANGED <<executing, shuttingDown>>

HandleCall ==
  /\ Read("Call")
  /\ executing' = executing \cup {Head(toWorker).ref}
  /\ UNCHANGED <<worker, shuttingDown, toParent>>

\* The promise of a call settles in the child: .then sends a Result, .catch a Rejection.
FinishCall(r) ==
  /\ r \in executing
  /\ executing' = executing \ {r}
  /\ \E kind \in {"Result", "Rejection"} : Reply([kind |-> kind, ref |-> r])
  /\ UNCHANGED <<parentVars, errorEvents, worker, shuttingDown, toWorker, channelOpen>>

HandleDispose ==
  /\ Read("Dispose")
  /\ shuttingDown' = TRUE
  /\ UNCHANGED <<worker, executing, toParent>>

ShutdownCompletes ==
  /\ shuttingDown
  /\ shuttingDown' = FALSE
  /\ Reply([kind |-> "DisposeCompleted"])
  /\ UNCHANGED <<parentVars, errorEvents, worker, executing, toWorker, channelOpen>>

\* Init throws, a call exits the process or the memory runs out.
Crash ==
  /\ Alive
  /\ Die
  /\ UNCHANGED <<parentVars, errorEvents, toParent, channelOpen>>

-----------------------------------------------------------------------------
Next ==
  \/ \E c \in Calls : Forward(c)
  \/ SendCall
  \/ HandleInitialized \/ HandleResult \/ HandleRejection \/ HandleDisposeCompleted
  \/ HandleUnexpectedExit \/ HandleError
  \/ Dispose \/ DisposeExpires \/ Kill
  \/ HandleInit \/ HandleCall \/ HandleDispose \/ ShutdownCompletes
  \/ \E r \in executing : FinishCall(r)
  \/ Crash
  \/ ChannelEnd

Spec == Init /\ [][Next]_vars

\* The main process keeps running its event loop, timers and callbacks; nothing
\* is assumed of the child, which may hang, nor of the user.
MainProcess ==
  SendCall \/ HandleInitialized \/ HandleResult \/ HandleRejection
    \/ HandleDisposeCompleted \/ HandleUnexpectedExit \/ HandleError
    \/ DisposeExpires \/ Kill \/ ChannelEnd

FairSpec == Spec /\ WF_vars(MainProcess)

-----------------------------------------------------------------------------
\* The calls a sequence of messages carries.
RefsIn(ms, kinds) == {ms[i].ref : i \in {j \in DOMAIN ms : ms[j].kind \in kinds}}
Replies == {"Result", "Rejection"}

\* Where the calls in flight are.
Unsent   == RefsIn(thens, {"Call"})
Sent     == RefsIn(toWorker, {"Call"})
Answered == RefsIn(toParent, Replies)

FindsItsTask(r) ==
  /\ r.correlationId \in 0 .. Len(workerTasks) - 1
  /\ workerTasks[r.correlationId + 1] = r.call

\* A reply finds its task: handling it never reads a deleted or missing entry of
\* workerTasks (ChildProcessProxy.ts:133,137), which would throw in the 'message'
\* listener of the main process, and it settles the call it was sent for.
ReplyFindsItsTask == \A r \in Answered : FindsItsTask(r)

\* No call reaches a child that has not created its subject yet, whatever is
\* called or disposed before Initialized arrives (ChildProcessProxy.ts:112).
NoCallBeforeInitialized ==
  worker = "starting" => executing = {} /\ Sent = {}

\* When the exit of the child has been reported no promise is left pending,
\* also not one made in between (ChildProcessProxy.ts:107,196).
NothingPendingAfterExit ==
  currentError => \A c \in Calls : outcome[c] # Pending

\* When isDisposed makes a later dispose() return at once (ChildProcessProxy.ts:227),
\* the child is dead or an earlier dispose() is still on its way to kill it.
DisposedMeansDead == isDisposed => (~Alive \/ disposal \in {"awaiting", "killing"})

\* A pending call whose child is dead is settled in the end, unless the proxy is
\* being disposed: dispose() stops listening to 'close' (ChildProcessProxy.ts:228).
CallsOfDeadChildSettle ==
  \A c \in Calls :
    (outcome[c] = Pending /\ ~Alive) ~> (outcome[c] # Pending \/ disposal # "none")

\* dispose() comes to its end and leaves a dead child, even if the child hangs.
DisposeCompletes == (disposal = "awaiting") ~> (disposal = "done" /\ ~Alive)

\* The proxy behaves like RemoteCalls: own results, one settlement, fail-fast.
ImplementsRemoteCalls == Abstract!Spec
=============================================================================
