-------------------------- MODULE CommandTestRunner --------------------------
(***************************************************************************)
(* CommandTestRunner, the one test runner that has no child process of     *)
(* Stryker's around it: each run() executes a shell command, and the       *)
(* TimeoutDecorator or the pool dispose() of the runner when they like.    *)
(* They never call run() before the last one has settled, nor after a      *)
(* dispose(); what they create then is another CommandTestRunner.          *)
(***************************************************************************)
EXTENDS Naturals

CONSTANT CommandRuns                   \* how many times run() is called, at most
ASSUME CommandAssumption == CommandRuns \in Nat

VARIABLES processes,        \* per run its process; "exit0" and "exit1" have ended, "unspawned" never began
          listening,        \* the runs whose listeners are on their process
          commandResults,   \* the promise of each run
          timeoutHandler,   \* the run whose handler it is, 0 if undefined
          killFails,        \* runs whose 'error' listener waits for kill() of a process that is not there
          commandDisposal   \* the promise of dispose()

commandVars == <<processes, listening, commandResults, timeoutHandler, killFails, commandDisposal>>

Ended == {"exit0", "exit1"}
InitCommand ==
  /\ processes = [r \in 1..CommandRuns |-> "none"] /\ listening = {} /\ killFails = {}
  /\ commandResults = [r \in 1..CommandRuns |-> "none"]
  /\ timeoutHandler = 0 /\ commandDisposal = "none"

\* exec: node emits 'error' for a process that could not be spawned, and else 'exit' once it has ended.
RunCommand(r) ==
  /\ commandDisposal = "none" /\ commandResults[r] = "none"
  /\ \A s \in 1..r - 1 : commandResults[s] \in {"passed", "failed"}
  /\ \E p \in {"running", "unspawned"} : processes' = [processes EXCEPT ![r] = p]
  /\ listening' = listening \cup {r}
  /\ commandResults' = [commandResults EXCEPT ![r] = "pending"]
  /\ timeoutHandler' = r
  /\ UNCHANGED <<killFails, commandDisposal>>

CommandEnds(r) ==
  /\ processes[r] = "running"
  /\ \E end \in Ended : processes' = [processes EXCEPT ![r] = end]
  /\ UNCHANGED <<listening, commandResults, timeoutHandler, killFails, commandDisposal>>

\* Only the first of res() and rej() counts.
Settled(r, result) == [commandResults EXCEPT ![r] = IF @ = "pending" THEN result ELSE @]

HandleResolve(r, result) ==
  /\ listening' = listening \ {r}
  /\ commandResults' = Settled(r, result)
  /\ timeoutHandler' = 0

OnExit(r) ==
  /\ r \in listening /\ processes[r] \in Ended
  /\ HandleResolve(r, IF processes[r] = "exit0" THEN "passed" ELSE "failed")
  /\ UNCHANGED <<processes, killFails, commandDisposal>>

\* There is no pid to kill: kill() rejects, and with it run() instead of resolving to an Error.
OnError(r) ==
  /\ r \in listening /\ processes[r] = "unspawned" /\ r \notin killFails /\ commandResults[r] = "pending"
  /\ killFails' = killFails \cup {r}
  /\ UNCHANGED <<processes, listening, commandResults, timeoutHandler, commandDisposal>>

ErrorRejects(r) ==
  /\ r \in killFails
  /\ killFails' = killFails \ {r}
  /\ commandResults' = Settled(r, "rejected")
  /\ UNCHANGED <<processes, listening, timeoutHandler, commandDisposal>>

BugForgetsRun ==
  /\ commandDisposal = "none"
  /\ commandDisposal' = IF timeoutHandler = 0 THEN "resolved" ELSE "killing"
  /\ listening' = listening \ {timeoutHandler} /\ timeoutHandler' = 0
  /\ UNCHANGED <<processes, killFails, commandResults>>
\* dispose() calls the handler, if there is one: the run is settled before the process is dead.
DisposeCommand ==
  /\ commandDisposal = "none"
  /\ IF timeoutHandler = 0
     THEN commandDisposal' = "resolved" /\ UNCHANGED <<listening, commandResults, timeoutHandler>>
     ELSE commandDisposal' = "killing" /\ HandleResolve(timeoutHandler, "timeout")
  /\ UNCHANGED <<processes, killFails>>

\* The handler that was called last is the one of the last run.
LastRun == CHOOSE r \in 1..CommandRuns : processes[r] # "none" /\ \A s \in r + 1 .. CommandRuns : processes[s] = "none"

BugNoKill ==
  /\ commandDisposal = "killing"
  /\ commandDisposal' = "resolved"
  /\ UNCHANGED <<processes, listening, commandResults, timeoutHandler, killFails>>
KillCommand ==
  /\ commandDisposal = "killing"
  /\ IF processes[LastRun] = "unspawned"
     THEN commandDisposal' = "rejected" /\ UNCHANGED processes
     ELSE /\ commandDisposal' = "resolved"
          /\ processes' = [processes EXCEPT ![LastRun] = IF @ = "running" THEN "killed" ELSE @]
  /\ UNCHANGED <<listening, commandResults, timeoutHandler, killFails>>

CommandStep ==
  \/ \E r \in 1..CommandRuns : RunCommand(r) \/ CommandEnds(r) \/ OnExit(r) \/ OnError(r) \/ ErrorRejects(r)
  \/ DisposeCommand \/ KillCommand

\* Nothing makes a command end, and a run that is pending is disposed of when its time is over.
CommandFairness ==
  /\ \A r \in 1..CommandRuns : WF_commandVars(OnExit(r)) /\ WF_commandVars(OnError(r)) /\ WF_commandVars(ErrorRejects(r))
  /\ WF_commandVars((\E r \in 1..CommandRuns : commandResults[r] = "pending") /\ DisposeCommand)
  /\ WF_commandVars(KillCommand)

----------------------------------------------------------------------------
\* When dispose() has resolved, no process is running and no listener is left on one (CommandTestRunner.dispose):
\* the next mutant is written into the same directory.  And until then the handler that dispose() calls is the one of
\* a run that is pending, or of one that could not be spawned: it never kills by the pid of a process that has been
\* seen to exit, which may be that of another by now.
NoCommandLeft ==
  /\ commandDisposal = "resolved" =>
       /\ \A r \in 1..CommandRuns : processes[r] # "running"
       /\ \A r \in listening : processes[r] = "unspawned"
  /\ timeoutHandler # 0 => \/ commandResults[timeoutHandler] = "pending"
                           \/ processes[timeoutHandler] = "unspawned"

\* Every run settles: by the exit, the error, or the dispose() when its time is over; and so does that dispose().
CommandsSettle ==
  /\ \A r \in 1..CommandRuns : (commandResults[r] = "pending") ~> (commandResults[r] # "pending")
  /\ (commandDisposal = "killing") ~> (commandDisposal \in {"resolved", "rejected"})
=============================================================================
