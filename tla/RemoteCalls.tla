---------------------------- MODULE RemoteCalls ----------------------------
(***************************************************************************)
(* What a user of ChildProcessProxy.proxy relies on, with no process, no   *)
(* channel and no correlation id in sight: each call made hands out one    *)
(* promise; a promise is settled once, either with the result of ITS OWN   *)
(* call or with an error; and once the proxy has reported that the child   *)
(* exited (failed), nothing is pending any more and every later call is    *)
(* rejected on the spot.  ChildProcessProxy is shown to implement this.    *)
(***************************************************************************)
CONSTANTS Calls

VARIABLES outcome,  \* Calls -> the state of the promise handed out
          failed    \* TRUE once the exit of the child has been reported

vars == <<outcome, failed>>

Unmade  == [state |-> "unmade"]
Pending == [state |-> "pending"]
Resolved(result) == [state |-> "resolved", result |-> result]
Rejected(error)  == [state |-> "rejected", error |-> error]

ErrorKinds == {"Error", "ChildProcessCrashedError", "OutOfMemoryError"}

Init == outcome = [c \in Calls |-> Unmade] /\ failed = FALSE

Call(c) ==
  /\ outcome[c] = Unmade
  /\ IF failed
     THEN \E e \in ErrorKinds : outcome' = [outcome EXCEPT ![c] = Rejected(e)]
     ELSE outcome' = [outcome EXCEPT ![c] = Pending]
  /\ UNCHANGED failed

Resolve(c) ==
  /\ outcome[c] = Pending
  /\ outcome' = [outcome EXCEPT ![c] = Resolved(c)]
  /\ UNCHANGED failed

Reject(c) ==
  /\ outcome[c] = Pending
  /\ outcome' = [outcome EXCEPT ![c] = Rejected("Error")]
  /\ UNCHANGED failed

RejectAll(e) ==
  outcome' = [c \in Calls |-> IF outcome[c] = Pending THEN Rejected(e) ELSE outcome[c]]

\* An error on the channel: all that is pending is given up, later calls are tried.
ChannelError == /\ \E e \in ErrorKinds : RejectAll(e)
                /\ UNCHANGED failed

Fail == /\ ~failed
        /\ failed' = TRUE
        /\ \E e \in ErrorKinds : RejectAll(e)

Next == \/ \E c \in Calls : Call(c) \/ Resolve(c) \/ Reject(c)
        \/ ChannelError
        \/ Fail

Spec == Init /\ [][Next]_vars
=============================================================================
