----------------------- MODULE TestRunnerStackProofs -----------------------
(***************************************************************************)
(* Proofs about TestRunnerStack, for any number of runs, crashes and slots *)
(* for children.  No safety property is inductive as it stands: that there *)
(* is one child at a time depends on every restart waiting for a dispose() *)
(* that left the old child dead, and that on the proxy being "disposing"   *)
(* only while the same chain waits for it.  IInv says so of every state in *)
(* between, as long as the disposer did not come in the middle of a run.   *)
(***************************************************************************)
EXTENDS TestRunnerStack, FiniteSetTheorems, TLAPS

\* A run in progress, or one being reported as timed out, has an attempt left to lose.
AttemptsAreLeft == pc["sandbox"] = "run" \/ goal = "timeout" => attemptsLeft \in 1 .. 2

\* What the sandbox awaits is a call on the runner it refers to.
SandboxIsOnCurrent == on["sandbox"] = current

\* A disposer that did not overlap with a run keeps the sandbox at rest, and is on its runner.
DisposerIsAlone ==
  /\ pc["disposer"] = "idle" => ~overlapped
  /\ pc["disposer"] # "idle" /\ ~overlapped => SandboxRests /\ on["disposer"] = current

OthersAreDead == ~overlapped => \A i \in Slots \ {current} : children[i].proc = "dead"

ReportedIsDead == \A i \in Slots : children[i].proxy \in {"crashed", "disposed"} => children[i].proc = "dead"

\* isDisposed is set before the child is dead: only the chain that set it may see that.
DisposingIsAwaited ==
  ~overlapped => \A i \in Slots : children[i].proxy = "disposing"
                   => \E t \in Chains : Awaiting(t, "kill") /\ on[t] = i

KilledIsDead ==
  ~overlapped => \A t \in Chains : Settled(t, "kill", {"ok"}) => children[on[t]].proc = "dead"

DoneIsDead == pc["disposer"] = "done" /\ ~overlapped => children[current].proc = "dead"

RunnerIsInitialized ==
  pc["sandbox"] \in {"idle", "writing", "run"} \/ Settled("sandbox", "init", {"ok"}) =>
    (children[current].proc = "up" => children[current].inited)

RestartedIsUnused ==
  pc["sandbox"] = "init" \/ (pc["sandbox"] = "idle" /\ result \in {"timeout", "error"}) => ~children[current].used

LifeInv ==
  /\ SandboxIsOnCurrent /\ DisposerIsAlone /\ OthersAreDead /\ ReportedIsDead /\ DisposingIsAwaited
  /\ KilledIsDead /\ DoneIsDead

RunInv == SandboxIsOnCurrent /\ RunnerIsInitialized /\ RestartedIsUnused

IInv == TypeOK /\ AttemptsAreLeft /\ LifeInv /\ RunInv
-----------------------------------------------------------------------------
(* Types. *)

LEMMA InitTypes == Init => TypeOK /\ AttemptsAreLeft
<1> SUFFICES ASSUME Init PROVE TypeOK /\ AttemptsAreLeft
  OBVIOUS
<1>1. 1 \in Slots
  BY BoundsAssumption DEF Slots
<1>2. NewChild \in ChildType /\ GoneChild \in ChildType
  BY DEF ChildType, NewChild, GoneChild
<1>3. children \in [Slots -> ChildType]
  BY <1>2 DEF Init
<1>4. pc \in [Chains -> Awaits \cup {"idle", "writing", "failed", "done"}]
  BY DEF Init, Awaits, Chains
<1>5. on \in [Chains -> Slots] /\ settled \in [Chains -> {"pending", "ok", "crash", "error"}]
  BY <1>1 DEF Init
<1>6. /\ current = 1 /\ goal = "create" /\ attemptsLeft \in 0 .. 2 /\ result = "none"
      /\ runs \in 0 .. MaxRuns /\ crashes \in 0 .. MaxCrashes /\ overlapped = FALSE
  BY BoundsAssumption DEF Init
<1>7. AttemptsAreLeft
  BY DEF Init, AttemptsAreLeft, Chains
<1> QED
  BY <1>1, <1>3, <1>4, <1>5, <1>6, <1>7 DEF TypeOK

\* The two operators that most steps are made of keep the types of what they change.
LEMMA CallTypes ==
  ASSUME TypeOK, NEW t \in Chains, NEW op \in {"init", "run", "dispose"}, NEW i \in Slots,
         NEW cs \in [Slots -> ChildType], Call(t, op, i, cs)
  PROVE  /\ children' \in [Slots -> ChildType]
         /\ pc' \in [Chains -> Awaits \cup {"idle", "writing", "failed", "done"}]
         /\ on' \in [Chains -> Slots]
         /\ settled' \in [Chains -> {"pending", "ok", "crash", "error"}]
         /\ pc'[t] = op
         /\ \A u \in Chains \ {t} : pc'[u] = pc[u]
<1>1. Called(cs[i], op) \in ChildType
  BY DEF Called, ChildType
<1>2. children' \in [Slots -> ChildType]
  BY <1>1 DEF Call
<1> QED
  BY <1>2 DEF TypeOK, Call, Awaits

LEMMA RestTypes ==
  ASSUME TypeOK, NEW t \in Chains, NEW where \in {"idle", "writing", "failed", "done"}, Rest(t, where)
  PROVE  /\ pc' \in [Chains -> Awaits \cup {"idle", "writing", "failed", "done"}]
         /\ on' \in [Chains -> Slots]
         /\ settled' \in [Chains -> {"pending", "ok", "crash", "error"}]
         /\ pc'[t] = where
         /\ \A u \in Chains \ {t} : pc'[u] = pc[u]
  BY DEF TypeOK, Rest

\* What a call and a rest leave alone, in the terms the invariants use.
LEMMA NotBroken ==
  ASSUME NEW child \in ChildType
  PROVE  [child EXCEPT !.broken = FALSE] \in ChildType
  BY DEF ChildType

LEMMA CallOnChildren ==
  ASSUME TypeOK, NEW t \in Chains, NEW op \in {"init", "run", "dispose"}, NEW i \in Slots,
         NEW cs \in [Slots -> ChildType], Call(t, op, i, cs), NEW j \in Slots
  PROVE  /\ children'[j].proc = cs[j].proc
         /\ children'[j].proxy = cs[j].proxy
         /\ children'[j].inited = cs[j].inited
         /\ op # "run" => children'[j].used = cs[j].used
<1>1. children' = [cs EXCEPT ![i] = Called(cs[i], op)]
  BY DEF Call
<1>2. /\ Called(cs[i], op).proc = cs[i].proc
      /\ Called(cs[i], op).proxy = cs[i].proxy
      /\ Called(cs[i], op).inited = cs[i].inited
      /\ op # "run" => Called(cs[i], op).used = cs[i].used
  BY DEF Called, ChildType
<1> QED
  BY <1>1, <1>2

LEMMA CallOnChains ==
  ASSUME TypeOK, NEW t \in Chains, NEW op \in {"init", "run", "dispose"}, NEW i \in Slots,
         NEW cs \in [Slots -> ChildType], Call(t, op, i, cs)
  PROVE  /\ pc'[t] = op /\ on'[t] = i /\ settled'[t] \in {"crash", "pending"}
         /\ \A u \in Chains \ {t} : pc'[u] = pc[u] /\ on'[u] = on[u] /\ settled'[u] = settled[u]
  BY DEF Call, TypeOK

LEMMA CallEffects ==
  ASSUME TypeOK, NEW t \in Chains, NEW op \in {"init", "run", "dispose"}, Call(t, op, current, children)
  PROVE  /\ pc'[t] = op /\ on'[t] = current /\ settled'[t] \in {"crash", "pending"}
         /\ \A u \in Chains \ {t} : pc'[u] = pc[u] /\ on'[u] = on[u] /\ settled'[u] = settled[u]
         /\ \A j \in Slots : /\ children'[j].proc = children[j].proc /\ children'[j].proxy = children[j].proxy
                             /\ children'[j].inited = children[j].inited
                             /\ op # "run" => children'[j].used = children[j].used
<1>1. PICK i, cs : i = current /\ cs = children
  OBVIOUS
<1>2. i \in Slots /\ cs \in [Slots -> ChildType]
  BY <1>1 DEF TypeOK
<1>3. Call(t, op, i, cs)
  BY <1>1
<1>4. /\ pc'[t] = op /\ on'[t] = i /\ settled'[t] \in {"crash", "pending"}
      /\ \A u \in Chains \ {t} : pc'[u] = pc[u] /\ on'[u] = on[u] /\ settled'[u] = settled[u]
  BY <1>2, <1>3, CallOnChains
<1>5. \A j \in Slots : /\ children'[j].proc = cs[j].proc /\ children'[j].proxy = cs[j].proxy
                       /\ children'[j].inited = cs[j].inited
                       /\ op # "run" => children'[j].used = cs[j].used
  BY <1>2, <1>3, CallOnChildren
<1> QED
  BY <1>1, <1>4, <1>5

\* The new child of a restart is asked to init.
LEMMA RestartEffects ==
  ASSUME TypeOK, Restart
  PROVE  /\ current' \in Slots /\ children[current'].proc = "dead"
         /\ children'[current'].proxy = "listening" /\ children'[current'].used = FALSE
         /\ \A j \in Slots \ {current'} : children'[j].proc = children[j].proc /\ children'[j].proxy = children[j].proxy
         /\ pc'["sandbox"] = "init" /\ on'["sandbox"] = current' /\ settled'["sandbox"] # "ok"
         /\ pc'["disposer"] = pc["disposer"]
<1>1. PICK i, cs : i = current' /\ cs = [children EXCEPT ![current'] = NewChild]
  OBVIOUS
<1>2. i \in Slots /\ children[i].proc = "dead"
  BY <1>1 DEF Restart, Fork, Forgotten
<1>3. NewChild \in ChildType /\ NewChild.proxy = "listening" /\ NewChild.used = FALSE
  BY DEF NewChild, ChildType
<1>4. /\ cs \in [Slots -> ChildType] /\ cs[i] = NewChild
      /\ \A j \in Slots \ {i} : cs[j] = children[j]
  BY <1>1, <1>2, <1>3 DEF TypeOK
<1>5. Call("sandbox", "init", i, cs)
  BY <1>1 DEF Restart
<1>6. /\ pc'["sandbox"] = "init" /\ on'["sandbox"] = i /\ settled'["sandbox"] \in {"crash", "pending"}
      /\ pc'["disposer"] = pc["disposer"]
  BY <1>2, <1>4, <1>5, CallOnChains DEF Chains
<1>7. \A j \in Slots : children'[j].proc = cs[j].proc /\ children'[j].proxy = cs[j].proxy /\ children'[j].used = cs[j].used
  BY <1>2, <1>4, <1>5, CallOnChildren DEF Chains
<1> QED
  BY <1>1, <1>2, <1>3, <1>4, <1>6, <1>7

LEMMA RestEffects ==
  ASSUME TypeOK, NEW t \in Chains, NEW where \in {"idle", "writing", "failed", "done"}, Rest(t, where)
  PROVE  /\ pc'[t] = where /\ on'[t] = current /\ settled'[t] = "pending"
         /\ \A u \in Chains \ {t} : pc'[u] = pc[u] /\ on'[u] = on[u] /\ settled'[u] = settled[u]
  BY DEF Rest, TypeOK

LEMMA Typing == TypeOK /\ AttemptsAreLeft /\ [Next]_vars => TypeOK' /\ AttemptsAreLeft'
<1> SUFFICES ASSUME TypeOK, AttemptsAreLeft, [Next]_vars
             PROVE  TypeOK' /\ AttemptsAreLeft'
  OBVIOUS
<1> USE DEF Chains
<1>1. ASSUME NEW i \in Slots, HandleUnexpectedExit(i) PROVE TypeOK' /\ AttemptsAreLeft'
  BY <1>1 DEF HandleUnexpectedExit, RejectPending, TypeOK, AttemptsAreLeft, ChildType
<1>2. ASSUME NEW i \in Slots, HandleError(i) PROVE TypeOK' /\ AttemptsAreLeft'
  <2>1. PICK how \in {"crash", "error"} : RejectPending(i, how)
    BY <1>2 DEF HandleError
  <2>2. settled' \in [Chains -> {"pending", "ok", "crash", "error"}]
    BY <2>1 DEF RejectPending, TypeOK
  <2>3. children' \in [Slots -> ChildType]
    <3>1. [children[i] EXCEPT !.broken = FALSE] \in ChildType
      BY NotBroken DEF TypeOK
    <3>2. children' = [children EXCEPT ![i] = [children[i] EXCEPT !.broken = FALSE]]
      BY <1>2 DEF HandleError
    <3> QED BY <3>1, <3>2 DEF TypeOK
  <2> QED BY <1>2, <2>2, <2>3 DEF HandleError, TypeOK, AttemptsAreLeft
<1>3. ASSUME NEW t \in Chains, DisposeWorker(t) PROVE TypeOK' /\ AttemptsAreLeft'
  BY <1>3 DEF DisposeWorker, TypeOK, AttemptsAreLeft, ChildType, Awaits
<1>4. ASSUME NEW t \in Chains, Kill(t) PROVE TypeOK' /\ AttemptsAreLeft'
  BY <1>4 DEF Kill, Awaiting, TypeOK, AttemptsAreLeft, ChildType, GoneChild, NewChild
<1>5. CASE CreationDone
  <2>1. \E where \in {"idle", "failed"} : Rest("sandbox", where)
    BY <1>5 DEF CreationDone
  <2> QED BY <1>5, <2>1, RestTypes DEF CreationDone, TypeOK, AttemptsAreLeft
<1>6. CASE Run
  BY <1>6, CallTypes DEF Run, TypeOK, AttemptsAreLeft
<1>7. CASE RunCompletes
  BY <1>7, RestTypes DEF RunCompletes, Return, TypeOK, AttemptsAreLeft
<1>8. CASE RunTimesOut
  BY <1>8, CallTypes DEF RunTimesOut, Awaiting, DisposeInner, TypeOK, AttemptsAreLeft
<1>9. CASE Recover
  BY <1>9, CallTypes DEF Recover, InnerRunRejects, Settled, DisposeInner, TypeOK, AttemptsAreLeft
<1>10. CASE Restart
  <2>1. current' \in Slots
    BY <1>10 DEF Restart, Fork
  <2>2. [children EXCEPT ![current'] = NewChild] \in [Slots -> ChildType]
    BY <2>1 DEF TypeOK, ChildType, NewChild
  <2> QED BY <1>10, <2>1, <2>2, CallTypes DEF Restart, Settled, TypeOK, AttemptsAreLeft
<1>11. CASE ReportTimeout
  BY <1>11, RestTypes DEF ReportTimeout, Return, TypeOK, AttemptsAreLeft
<1>12. CASE Retry
  BY <1>12, CallTypes DEF Retry, TypeOK, AttemptsAreLeft
<1>13. CASE RecoverAgain
  BY <1>13, CallTypes DEF RecoverAgain, DisposeInner, TypeOK, AttemptsAreLeft
<1>14. CASE ReportCrashed
  BY <1>14, RestTypes DEF ReportCrashed, Return, TypeOK, AttemptsAreLeft
<1>15. CASE RunRejects
  BY <1>15, RestTypes DEF RunRejects, Return, TypeOK, AttemptsAreLeft
<1>16. CASE DisposeDone
  <2>1. \E where \in {"done", "failed"} : Rest("disposer", where)
    BY <1>16 DEF DisposeDone
  <2> QED BY <1>16, <2>1, RestTypes DEF DisposeDone, TypeOK, AttemptsAreLeft
<1>17. CASE BeginMutant
  BY <1>17, RestTypes, BoundsAssumption DEF BeginMutant, TypeOK, AttemptsAreLeft
<1>18. CASE BeginDispose
  BY <1>18, CallTypes DEF BeginDispose, DisposeInner, SandboxRests, TypeOK, AttemptsAreLeft
<1>19. ASSUME NEW t \in Chains, NEW op \in {"init", "run", "dispose"}, NEW how \in {"ok", "error"}, Answer(t, op, how)
       PROVE  TypeOK' /\ AttemptsAreLeft'
  <2>1. children' \in [Slots -> ChildType]
    <3> DEFINE answered == children[on[t]].inited \/ (op = "init" /\ how = "ok")
    <3>1. answered \in BOOLEAN
      OBVIOUS
    <3> HIDE DEF answered
    <3>2. children' = [children EXCEPT ![on[t]].inited = answered]
      BY <1>19 DEF Answer, answered
    <3> QED BY <3>1, <3>2 DEF TypeOK, ChildType
  <2>2. settled' \in [Chains -> {"pending", "ok", "crash", "error"}]
    BY <1>19 DEF Answer, TypeOK
  <2> QED BY <1>19, <2>1, <2>2 DEF Answer, TypeOK, AttemptsAreLeft
<1>20. ASSUME NEW i \in Slots, Crash(i) PROVE TypeOK' /\ AttemptsAreLeft'
  BY <1>20, BoundsAssumption DEF Crash, TypeOK, AttemptsAreLeft, ChildType
<1>21. CASE UNCHANGED vars
  BY <1>21 DEF vars, TypeOK, AttemptsAreLeft, ChildType
<1> QED
  BY <1>1, <1>2, <1>3, <1>4, <1>5, <1>6, <1>7, <1>8, <1>9, <1>10, <1>11, <1>12, <1>13, <1>14, <1>15, <1>16, <1>17,
     <1>18, <1>19, <1>20, <1>21 DEF Next, MainProcess
-----------------------------------------------------------------------------
(* The children and the chains. *)

LEMMA LifeIsInductive == TypeOK /\ LifeInv /\ [Next]_vars => LifeInv'
<1> SUFFICES ASSUME TypeOK, LifeInv, [Next]_vars
             PROVE  LifeInv'
  OBVIOUS
<1> USE DEF Chains, SandboxIsOnCurrent, DisposerIsAlone, OthersAreDead, ReportedIsDead,
     DisposingIsAwaited, KilledIsDead, DoneIsDead, LifeInv, Settled, Awaiting, SandboxRests
<1>1. ASSUME NEW i \in Slots, HandleUnexpectedExit(i) PROVE LifeInv'
  BY <1>1 DEF HandleUnexpectedExit, RejectPending, TypeOK, ChildType
<1>2. ASSUME NEW i \in Slots, HandleError(i) PROVE LifeInv'
  BY <1>2 DEF HandleError, RejectPending, TypeOK, ChildType
<1>3. ASSUME NEW t \in Chains, DisposeWorker(t) PROVE LifeInv'
  BY <1>3 DEF DisposeWorker, TypeOK, ChildType
<1>4. ASSUME NEW t \in Chains, Kill(t) PROVE LifeInv'
  BY <1>4 DEF Kill, Awaiting, GoneChild, NewChild, TypeOK, ChildType
<1>5. CASE CreationDone
  BY <1>5, RestEffects DEF CreationDone, Return, TypeOK
<1>6. CASE Run
  BY <1>6, CallEffects DEF Run, TypeOK
<1>7. CASE RunCompletes
  BY <1>7, RestEffects DEF RunCompletes, Return, TypeOK
<1>8. CASE RunTimesOut
  BY <1>8, CallEffects DEF RunTimesOut, DisposeInner, TypeOK
<1>9. CASE Recover
  <2>1. DisposeInner("sandbox")
    BY <1>9 DEF Recover
  <2>2. pc["sandbox"] \in Awaits \ {"kill"}
    BY <1>9 DEF Recover, InnerRunRejects, Awaits
  <2> QED BY <1>9, <2>1, <2>2, CallEffects DEF Recover, DisposeInner, TypeOK, Awaits
<1>10. CASE Restart
  <2>1. /\ current' \in Slots /\ children[current'].proc = "dead"
        /\ children'[current'].proxy = "listening"
        /\ \A j \in Slots \ {current'} : children'[j].proc = children[j].proc /\ children'[j].proxy = children[j].proxy
        /\ pc'["sandbox"] = "init" /\ on'["sandbox"] = current' /\ settled'["sandbox"] # "ok"
        /\ pc'["disposer"] = pc["disposer"]
    BY <1>10, RestartEffects
  <2>7. pc["sandbox"] = "kill" /\ settled["sandbox"] = "ok" /\ overlapped' = overlapped
    BY <1>10 DEF Restart
  <2>8. ~overlapped => pc["disposer"] = "idle" /\ \A i \in Slots : children[i].proc = "dead"
    BY <2>7
  <2>9. ~overlapped => \A i \in Slots : children[i].proxy # "disposing"
    BY <2>7, <2>8
  <2> QED BY <2>1, <2>7, <2>8, <2>9
<1>11. CASE ReportTimeout
  BY <1>11, RestEffects DEF ReportTimeout, Return, TypeOK
<1>12. CASE Retry
  BY <1>12, CallEffects DEF Retry, TypeOK
<1>13. CASE RecoverAgain
  BY <1>13, CallEffects DEF RecoverAgain, DisposeInner, TypeOK
<1>14. CASE ReportCrashed
  BY <1>14, RestEffects DEF ReportCrashed, Return, TypeOK
<1>15. CASE RunRejects
  BY <1>15, RestEffects DEF RunRejects, Return, TypeOK
<1>16. CASE DisposeDone
  BY <1>16, RestEffects DEF DisposeDone, Return, TypeOK
<1>17. CASE BeginMutant
  BY <1>17, RestEffects DEF BeginMutant, Return, TypeOK
<1>18. CASE BeginDispose
  <2>1. /\ Call("disposer", "dispose", current, children)
        /\ pc["disposer"] = "idle" /\ ~overlapped /\ current' = current
        /\ ~overlapped' => SandboxRests
    BY <1>18 DEF BeginDispose, DisposeInner
  <2>2. current \in Slots /\ children \in [Slots -> ChildType] /\ "disposer" \in Chains
    BY DEF TypeOK
  <2>3. /\ \A j \in Slots : children'[j].proc = children[j].proc /\ children'[j].proxy = children[j].proxy
        /\ pc'["disposer"] = "dispose" /\ on'["disposer"] = current
        /\ pc'["sandbox"] = pc["sandbox"] /\ on'["sandbox"] = on["sandbox"]
        /\ settled'["sandbox"] = settled["sandbox"]
    BY <2>1, <2>2, CallEffects
  <2> QED BY <2>1, <2>2, <2>3
<1>19. ASSUME NEW t \in Chains, NEW op \in {"init", "run", "dispose"}, NEW how \in {"ok", "error"}, Answer(t, op, how)
       PROVE  LifeInv'
  BY <1>19 DEF Answer, TypeOK, ChildType
<1>20. ASSUME NEW i \in Slots, Crash(i) PROVE LifeInv'
  BY <1>20 DEF Crash, TypeOK, ChildType
<1>21. CASE UNCHANGED vars
  BY <1>21 DEF vars, TypeOK, ChildType
<1> QED
  BY <1>1, <1>2, <1>3, <1>4, <1>5, <1>6, <1>7, <1>8, <1>9, <1>10, <1>11, <1>12, <1>13, <1>14, <1>15, <1>16, <1>17,
     <1>18, <1>19, <1>20, <1>21 DEF Next, MainProcess

LEMMA RunIsInductive == TypeOK /\ RunInv /\ [Next]_vars => RunInv'
<1> SUFFICES ASSUME TypeOK, RunInv, [Next]_vars
             PROVE  RunInv'
  OBVIOUS
<1> USE DEF Chains, SandboxIsOnCurrent, RunnerIsInitialized, RestartedIsUnused, RunInv, Settled, Awaiting, SandboxRests
<1>1. ASSUME NEW i \in Slots, HandleUnexpectedExit(i) PROVE RunInv'
  BY <1>1 DEF HandleUnexpectedExit, RejectPending, TypeOK, ChildType
<1>2. ASSUME NEW i \in Slots, HandleError(i) PROVE RunInv'
  BY <1>2 DEF HandleError, RejectPending, TypeOK, ChildType
<1>3. ASSUME NEW t \in Chains, DisposeWorker(t) PROVE RunInv'
  BY <1>3 DEF DisposeWorker, TypeOK, ChildType
<1>4. ASSUME NEW t \in Chains, Kill(t) PROVE RunInv'
  BY <1>4 DEF Kill, Awaiting, GoneChild, NewChild, TypeOK, ChildType
<1>5. CASE CreationDone
  BY <1>5, RestEffects DEF CreationDone, Return, TypeOK
<1>6. CASE Run
  BY <1>6, CallEffects DEF Run, TypeOK
<1>7. CASE RunCompletes
  BY <1>7, RestEffects DEF RunCompletes, Return, TypeOK
<1>8. CASE RunTimesOut
  BY <1>8, CallEffects DEF RunTimesOut, DisposeInner, TypeOK
<1>9. CASE Recover
  BY <1>9, CallEffects DEF Recover, DisposeInner, TypeOK
<1>10. CASE Restart
  BY <1>10, RestartEffects
<1>11. CASE ReportTimeout
  BY <1>11, RestEffects DEF ReportTimeout, Return, TypeOK
<1>12. CASE Retry
  BY <1>12, CallEffects DEF Retry, TypeOK
<1>13. CASE RecoverAgain
  BY <1>13, CallEffects DEF RecoverAgain, DisposeInner, TypeOK
<1>14. CASE ReportCrashed
  BY <1>14, RestEffects DEF ReportCrashed, Return, TypeOK
<1>15. CASE RunRejects
  BY <1>15, RestEffects DEF RunRejects, Return, TypeOK
<1>16. CASE DisposeDone
  BY <1>16, RestEffects DEF DisposeDone, Return, TypeOK
<1>17. CASE BeginMutant
  BY <1>17, RestEffects DEF BeginMutant, Return, TypeOK
<1>18. CASE BeginDispose
  BY <1>18, CallEffects DEF BeginDispose, DisposeInner, TypeOK
<1>19. ASSUME NEW t \in Chains, NEW op \in {"init", "run", "dispose"}, NEW how \in {"ok", "error"}, Answer(t, op, how)
       PROVE  RunInv'
  BY <1>19 DEF Answer, TypeOK, ChildType
<1>20. ASSUME NEW i \in Slots, Crash(i) PROVE RunInv'
  BY <1>20 DEF Crash, TypeOK, ChildType
<1>21. CASE UNCHANGED vars
  BY <1>21 DEF vars, TypeOK, ChildType
<1> QED
  BY <1>1, <1>2, <1>3, <1>4, <1>5, <1>6, <1>7, <1>8, <1>9, <1>10, <1>11, <1>12, <1>13, <1>14, <1>15, <1>16, <1>17,
     <1>18, <1>19, <1>20, <1>21 DEF Next, MainProcess

-----------------------------------------------------------------------------
(* The invariant holds, and what follows from it. *)

LEMMA InitInv == Init => IInv
<1> SUFFICES ASSUME Init PROVE IInv
  OBVIOUS
<1>1. TypeOK /\ AttemptsAreLeft
  BY InitTypes
<1>2. /\ current = 1 /\ current \in Slots /\ on["sandbox"] = 1
      /\ pc["sandbox"] = "init" /\ pc["disposer"] = "idle" /\ settled["sandbox"] = "pending"
  BY BoundsAssumption DEF Init, Chains, Slots
<1>3. \A i \in Slots : children[i] = IF i = 1 THEN NewChild ELSE GoneChild
  BY DEF Init
<1>4. /\ NewChild.proxy = "listening" /\ ~NewChild.used
      /\ GoneChild.proxy = "disposed" /\ GoneChild.proc = "dead"
  BY DEF NewChild, GoneChild
<1>5. LifeInv
  BY <1>2, <1>3, <1>4 DEF LifeInv, SandboxIsOnCurrent, DisposerIsAlone, OthersAreDead, ReportedIsDead,
     DisposingIsAwaited, KilledIsDead, DoneIsDead, Settled, Chains, Init
<1>6. RunInv
  BY <1>2, <1>3, <1>4 DEF RunInv, SandboxIsOnCurrent, RunnerIsInitialized, RestartedIsUnused, Settled
<1> QED
  BY <1>1, <1>5, <1>6 DEF IInv

LEMMA NextInv == IInv /\ [Next]_vars => IInv'
  BY Typing, LifeIsInductive, RunIsInductive DEF IInv

LEMMA InvHolds == Spec => []IInv
  BY InitInv, NextInv, PTL DEF Spec

\* The variables keep their types: slots for children are reused, never exceeded, and
\* attemptsLeft, which counts down twice and is reset, stays in 0 .. 2.
THEOREM TypeCorrect == Spec => []TypeOK
<1>1. IInv => TypeOK
  BY DEF IInv
<1> QED
  BY <1>1, InvHolds, PTL

\* Whatever dies and however often restarts fail, a sandbox has one child at a time.
THEOREM OneChild == Spec => []OneChildAtATime
<1>1. ASSUME IInv, ~overlapped PROVE Cardinality(Up) <= 1
  <2>1. Up \subseteq {current}
    BY <1>1 DEF IInv, LifeInv, OthersAreDead, Up
  <2>2. IsFiniteSet({current}) /\ Cardinality({current}) = 1
    BY FS_Singleton
  <2>3. IsFiniteSet(Up) /\ Cardinality(Up) <= Cardinality({current})
    BY <2>1, <2>2, FS_Subset
  <2> QED BY <2>2, <2>3
<1>2. IInv => OneChildAtATime
  BY <1>1 DEF OneChildAtATime
<1> QED
  BY <1>2, InvHolds, PTL

\* No run starts on a child that has not answered init(), after any kind of restart.
THEOREM InitBeforeRun == Spec => []RunsOnlyInitialized
<1>1. IInv => RunsOnlyInitialized
  BY DEF IInv, RunInv, SandboxIsOnCurrent, RunnerIsInitialized, RunsOnlyInitialized, Up
<1> QED
  BY <1>1, InvHolds, PTL

\* After a timeout, or when a run was given up, the child left never ran a mutant.
THEOREM TimeoutEndsRun == Spec => []NothingStillRuns
<1>1. IInv => NothingStillRuns
  BY DEF IInv, RunInv, LifeInv, SandboxIsOnCurrent, OthersAreDead, RestartedIsUnused, NothingStillRuns, Up
<1> QED
  BY <1>1, InvHolds, PTL

\* A dispose() that resolved left no child: for any number of runs, crashes and restarts.
THEOREM DisposeIsComplete == Spec => []NoChildLeft
<1>1. IInv => NoChildLeft
  BY DEF IInv, LifeInv, OthersAreDead, DoneIsDead, NoChildLeft, Up
<1> QED
  BY <1>1, InvHolds, PTL
=============================================================================
