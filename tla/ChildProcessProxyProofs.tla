---------------------- MODULE ChildProcessProxyProofs ----------------------
(***************************************************************************)
(* For any set of calls: the types of ChildProcessProxy, its safety        *)
(* invariants and that it implements RemoteCalls.                          *)
(***************************************************************************)
EXTENDS ChildProcessProxy, SequenceTheorems, TLAPS

-----------------------------------------------------------------------------
(* Sequences of messages.                                                  *)

\* No two messages of ms of these kinds carry the same call.
Distinct(ms, kinds) ==
  \A i, j \in DOMAIN ms :
    ms[i].kind \in kinds /\ ms[j].kind \in kinds /\ ms[i].ref = ms[j].ref => i = j

\* Appending a message of another kind adds no call, one of these kinds adds its own.
LEMMA AppendRefs ==
  ASSUME NEW M, NEW ms \in Seq(M), NEW m \in M, NEW kinds
  PROVE  RefsIn(Append(ms, m), kinds) =
           RefsIn(ms, kinds) \cup (IF m.kind \in kinds THEN {m.ref} ELSE {})
<1> DEFINE app == Append(ms, m)
<1>1. /\ app \in Seq(M) /\ Len(app) = Len(ms) + 1
      /\ \A i \in 1 .. Len(ms) : app[i] = ms[i]
      /\ app[Len(ms) + 1] = m
  OBVIOUS
<1>2. DOMAIN app = 1 .. Len(ms) + 1 /\ DOMAIN ms = 1 .. Len(ms) /\ Len(ms) \in Nat
  BY <1>1
<1>. HIDE DEF app
<1>3. ASSUME NEW r \in RefsIn(app, kinds)
      PROVE  r \in RefsIn(ms, kinds) \cup (IF m.kind \in kinds THEN {m.ref} ELSE {})
  <2>1. PICK i \in DOMAIN app : app[i].kind \in kinds /\ r = app[i].ref
    BY <1>3 DEF RefsIn
  <2>2. CASE i = Len(ms) + 1
    BY <2>1, <2>2, <1>1
  <2>3. CASE i \in 1 .. Len(ms)
    BY <2>1, <2>3, <1>1, <1>2 DEF RefsIn
  <2>4. QED
    BY <2>1, <2>2, <2>3, <1>2
<1>4. ASSUME NEW r \in RefsIn(ms, kinds) \cup (IF m.kind \in kinds THEN {m.ref} ELSE {})
      PROVE  r \in RefsIn(app, kinds)
  <2>1. CASE r \in RefsIn(ms, kinds)
    <3>1. PICK i \in DOMAIN ms : ms[i].kind \in kinds /\ r = ms[i].ref
      BY <2>1 DEF RefsIn
    <3>2. i \in DOMAIN app /\ app[i] = ms[i]
      BY <3>1, <1>1, <1>2
    <3>3. QED
      BY <3>1, <3>2 DEF RefsIn
  <2>2. CASE m.kind \in kinds /\ r = m.ref
    <3>1. Len(ms) + 1 \in DOMAIN app /\ app[Len(ms) + 1] = m
      BY <1>1, <1>2
    <3>2. QED
      BY <2>2, <3>1 DEF RefsIn
  <2>3. QED
    BY <1>4, <2>1, <2>2
<1>5. QED
  BY <1>3, <1>4 DEF app

\* The calls of the tail, and that distinctness keeps the head's call out of it.
LEMMA TailRefs ==
  ASSUME NEW M, NEW ms \in Seq(M), ms # <<>>, NEW kinds
  PROVE  /\ RefsIn(Tail(ms), kinds) \subseteq RefsIn(ms, kinds)
         /\ Head(ms).kind \in kinds => Head(ms).ref \in RefsIn(ms, kinds)
         /\ Head(ms).kind \in kinds /\ Distinct(ms, kinds)
              => Head(ms).ref \notin RefsIn(Tail(ms), kinds)
         /\ Distinct(ms, kinds) => Distinct(Tail(ms), kinds)
<1> DEFINE t == Tail(ms)
<1>1. /\ t \in Seq(M) /\ Len(t) = Len(ms) - 1 /\ Len(ms) \in Nat \ {0}
      /\ \A i \in 1 .. Len(ms) - 1 : t[i] = ms[i + 1]
      /\ Head(ms) = ms[1]
  OBVIOUS
<1>2. DOMAIN t = 1 .. Len(ms) - 1 /\ DOMAIN ms = 1 .. Len(ms)
  BY <1>1
<1>. HIDE DEF t
<1>3. \A i \in DOMAIN t : i + 1 \in DOMAIN ms /\ t[i] = ms[i + 1] /\ i + 1 # 1
  BY <1>1, <1>2
<1>4. 1 \in DOMAIN ms
  BY <1>1, <1>2
<1>5. RefsIn(t, kinds) \subseteq RefsIn(ms, kinds)
  BY <1>3 DEF RefsIn
<1>6. Head(ms).kind \in kinds => Head(ms).ref \in RefsIn(ms, kinds)
  BY <1>1, <1>4 DEF RefsIn
<1>7. Head(ms).kind \in kinds /\ Distinct(ms, kinds) => Head(ms).ref \notin RefsIn(t, kinds)
  BY <1>1, <1>3, <1>4 DEF RefsIn, Distinct
<1>8. Distinct(ms, kinds) => Distinct(t, kinds)
  <2> SUFFICES ASSUME Distinct(ms, kinds), NEW i \in DOMAIN t, NEW j \in DOMAIN t,
                      t[i].kind \in kinds, t[j].kind \in kinds, t[i].ref = t[j].ref
               PROVE  i = j
    BY DEF Distinct
  <2>1. i + 1 = j + 1
    BY <1>3 DEF Distinct
  <2>2. QED
    BY <2>1, <1>1, <1>2
<1>9. QED
  BY <1>5, <1>6, <1>7, <1>8 DEF t

\* Appending a message whose call is new, or of another kind, keeps distinctness.
LEMMA AppendDistinct ==
  ASSUME NEW M, NEW ms \in Seq(M), NEW m \in M, NEW kinds, Distinct(ms, kinds),
         m.kind \in kinds => m.ref \notin RefsIn(ms, kinds)
  PROVE  Distinct(Append(ms, m), kinds)
<1> DEFINE app == Append(ms, m)
<1>1. /\ app \in Seq(M) /\ Len(app) = Len(ms) + 1
      /\ \A i \in 1 .. Len(ms) : app[i] = ms[i]
      /\ app[Len(ms) + 1] = m
  OBVIOUS
<1>2. DOMAIN app = 1 .. Len(ms) + 1 /\ DOMAIN ms = 1 .. Len(ms) /\ Len(ms) \in Nat
  BY <1>1
<1>. HIDE DEF app
<1> SUFFICES ASSUME NEW i \in DOMAIN app, NEW j \in DOMAIN app,
                    app[i].kind \in kinds, app[j].kind \in kinds, app[i].ref = app[j].ref
             PROVE  i = j
  BY DEF Distinct, app
<1>3. CASE i \in 1 .. Len(ms) /\ j \in 1 .. Len(ms)
  BY <1>1, <1>2, <1>3 DEF Distinct
<1>4. ASSUME NEW k \in 1 .. Len(ms), app[k].kind \in kinds, m.kind \in kinds
      PROVE  app[k].ref # m.ref
  BY <1>1, <1>2, <1>4 DEF RefsIn
<1>5. CASE i = Len(ms) + 1 /\ j \in 1 .. Len(ms)
  BY <1>1, <1>4, <1>5
<1>6. CASE j = Len(ms) + 1 /\ i \in 1 .. Len(ms)
  BY <1>1, <1>4, <1>6
<1>7. QED
  BY <1>2, <1>3, <1>5, <1>6

-----------------------------------------------------------------------------
(* Types.                                                                  *)

LEMMA SendType ==
  ASSUME TypeOK, NEW m \in WorkerMessages, Send(m)
  PROVE  toWorker' \in Seq(WorkerMessages) /\ errorEvents' \in Seq(ErrnoCodes)
<1>1. toWorker \in Seq(WorkerMessages) /\ errorEvents \in Seq(ErrnoCodes)
  BY DEF TypeOK
<1>2. Append(toWorker, m) \in Seq(WorkerMessages)
  BY <1>1, AppendProperties
<1>3. \A code \in ErrnoCodes : Append(errorEvents, code) \in Seq(ErrnoCodes)
  BY <1>1, AppendProperties
<1>4. QED
  BY <1>1, <1>2, <1>3 DEF Send, ErrnoCodes

LEMMA ReportErrorType ==
  ASSUME TypeOK, NEW e \in ErrorKinds, ReportError(e)
  PROVE  outcome' \in [Calls -> Outcomes]
<1>1. Rejected(e) \in Outcomes
  BY DEF Outcomes
<1>2. \A c \in Calls : outcome[c] \in Outcomes
  BY DEF TypeOK
<1>3. QED
  BY <1>1, <1>2 DEF ReportError

LEMMA SettleType ==
  ASSUME TypeOK, NEW c, NEW o \in Outcomes, Settle(c, o)
  PROVE  outcome' \in [Calls -> Outcomes]
BY DEF Settle, TypeOK

LEMMA OutcomeTypes ==
  /\ Unmade \in Outcomes /\ Pending \in Outcomes
  /\ \A c \in Calls : Resolved(c) \in Outcomes
  /\ \A e \in ErrorKinds : Rejected(e) \in Outcomes
BY DEF Outcomes

LEMMA ReceiveType ==
  ASSUME TypeOK, NEW kind, Receive(kind)
  PROVE  /\ toParent' \in Seq(ParentMessages)
         /\ Head(toParent) \in ParentMessages
         /\ kind \in Replies => Head(toParent).ref \in CallRefs
<1>1. toParent \in Seq(ParentMessages) /\ toParent # <<>> /\ toParent' = Tail(toParent)
  BY DEF TypeOK, Receive
<1>2. Head(toParent) \in ParentMessages /\ Head(toParent).kind = kind
  BY <1>1 DEF Receive
<1>3. kind \in Replies => Head(toParent).ref \in CallRefs
  BY <1>2 DEF ParentMessages, Replies
<1>4. QED
  BY <1>1, <1>2, <1>3

LEMMA ReadType ==
  ASSUME TypeOK, NEW kind, Read(kind)
  PROVE  /\ toWorker' \in Seq(WorkerMessages)
         /\ Head(toWorker) \in WorkerMessages
         /\ kind = "Call" => Head(toWorker).ref \in CallRefs
<1>1. toWorker \in Seq(WorkerMessages) /\ toWorker # <<>> /\ toWorker' = Tail(toWorker)
  BY DEF TypeOK, Read
<1>2. Head(toWorker) \in WorkerMessages /\ Head(toWorker).kind = kind
  BY <1>1 DEF Read
<1>3. kind = "Call" => Head(toWorker).ref \in CallRefs
  BY <1>2 DEF WorkerMessages, CallMessages
<1>4. QED
  BY <1>1, <1>2, <1>3

LEMMA DeleteTaskType ==
  ASSUME TypeOK, NEW m, DeleteTask(m)
  PROVE  workerTasks' \in Seq(Calls \cup {Deleted})
<1> DEFINE id == m.ref.correlationId + 1
<1>1. workerTasks \in Seq(Calls \cup {Deleted})
  BY DEF TypeOK
<1>2. CASE id \in 1 .. Len(workerTasks)
  BY <1>1, <1>2, ExceptSeq DEF DeleteTask
<1>3. CASE id \notin DOMAIN workerTasks
  <2>1. [workerTasks EXCEPT ![id] = Deleted] = workerTasks
    BY <1>1, <1>3
  <2>2. QED
    BY <1>1, <2>1 DEF DeleteTask
<1>4. QED
  BY <1>1, <1>2, <1>3

LEMMA ReplyType ==
  ASSUME TypeOK, NEW m \in ParentMessages, Reply(m)
  PROVE  toParent' \in Seq(ParentMessages)
BY DEF Reply, TypeOK

\* Every step keeps the types.
LEMMA TypeStep == TypeOK /\ [Next]_vars => TypeOK'
<1> SUFFICES ASSUME TypeOK, [Next]_vars PROVE TypeOK'
  OBVIOUS
<1>1. ASSUME NEW c \in Calls, Forward(c) PROVE TypeOK'
  <2>1. outcome' \in [Calls -> Outcomes]
    <3>1. CASE currentError
      BY <1>1, <3>1, OutcomeTypes DEF Forward, TypeOK
    <3>2. CASE ~currentError
      BY <1>1, <3>2, OutcomeTypes DEF Forward, TypeOK
    <3>3. QED
      BY <3>1, <3>2
  <2>2. NextCorrelationId \in Nat
    BY DEF NextCorrelationId, TypeOK
  <2>3. CallMessage(NextCorrelationId, c) \in CallMessages
    BY <2>2 DEF CallMessage, CallMessages, CallRefs
  <2>4. workerTasks' \in Seq(Calls \cup {Deleted}) /\ thens' \in Seq(CallMessages)
    <3>1. workerTasks \in Seq(Calls \cup {Deleted}) /\ thens \in Seq(CallMessages)
      BY DEF TypeOK
    <3>2. /\ Append(workerTasks, c) \in Seq(Calls \cup {Deleted})
          /\ Append(thens, CallMessage(NextCorrelationId, c)) \in Seq(CallMessages)
      BY <3>1, <2>3, AppendProperties
    <3>3. QED
      BY <1>1, <3>1, <3>2 DEF Forward
  <2>5. QED
    BY <1>1, <2>1, <2>4 DEF Forward, TypeOK, workerVars
<1>2. ASSUME SendCall PROVE TypeOK'
  <2>1. Head(thens) \in CallMessages /\ thens' \in Seq(CallMessages)
    BY <1>2 DEF SendCall, TypeOK
  <2>2. Head(thens) \in WorkerMessages
    BY <2>1 DEF WorkerMessages
  <2>3. toWorker' \in Seq(WorkerMessages) /\ errorEvents' \in Seq(ErrnoCodes)
    BY <1>2, <2>2, SendType DEF SendCall
  <2>4. QED
    BY <1>2, <2>1, <2>3 DEF SendCall, TypeOK, workerVars
<1>3. ASSUME HandleInitialized PROVE TypeOK'
  BY <1>3, ReceiveType DEF HandleInitialized, Receive, TypeOK, workerVars
<1>4. ASSUME HandleResult PROVE TypeOK'
  <2>1. Receive("Result")
    BY <1>4 DEF HandleResult
  <2>2. toParent' \in Seq(ParentMessages) /\ Head(toParent).ref.call \in Calls
    BY <2>1, ReceiveType DEF Replies, CallRefs
  <2>3. outcome' \in [Calls -> Outcomes]
    BY <1>4, <2>2, OutcomeTypes, SettleType DEF HandleResult
  <2>4. workerTasks' \in Seq(Calls \cup {Deleted})
    BY <1>4, DeleteTaskType DEF HandleResult
  <2>5. QED
    BY <1>4, <2>1, <2>2, <2>3, <2>4 DEF HandleResult, Receive, TypeOK, workerVars
<1>5. ASSUME HandleRejection PROVE TypeOK'
  <2>1. Receive("Rejection")
    BY <1>5 DEF HandleRejection
  <2>2. toParent' \in Seq(ParentMessages)
    BY <2>1, ReceiveType
  <2>3. outcome' \in [Calls -> Outcomes]
    BY <1>5, OutcomeTypes, SettleType DEF HandleRejection, ErrorKinds
  <2>4. workerTasks' \in Seq(Calls \cup {Deleted})
    BY <1>5, DeleteTaskType DEF HandleRejection
  <2>5. QED
    BY <1>5, <2>1, <2>2, <2>3, <2>4 DEF HandleRejection, Receive, TypeOK, workerVars
<1>6. ASSUME HandleDisposeCompleted PROVE TypeOK'
  BY <1>6, ReceiveType DEF HandleDisposeCompleted, Receive, TypeOK, workerVars
<1>7. ASSUME HandleUnexpectedExit PROVE TypeOK'
  <2>1. outcome' \in [Calls -> Outcomes]
    BY <1>7, ReportErrorType DEF HandleUnexpectedExit, ErrorKinds
  <2>2. QED
    BY <1>7, <2>1 DEF HandleUnexpectedExit, TypeOK, workerVars
<1>8. ASSUME HandleError PROVE TypeOK'
  <2>1. outcome' \in [Calls -> Outcomes]
    BY <1>8, ReportErrorType DEF HandleError, ErrorKinds
  <2>2. errorEvents' \in Seq(ErrnoCodes)
    BY <1>8 DEF HandleError, TypeOK
  <2>3. QED
    BY <1>8, <2>1, <2>2 DEF HandleError, TypeOK, workerVars
<1>9. ASSUME Dispose PROVE TypeOK'
  <2>1. [kind |-> "Dispose"] \in WorkerMessages
    BY DEF WorkerMessages
  <2>2. toWorker' \in Seq(WorkerMessages) /\ errorEvents' \in Seq(ErrnoCodes)
    BY <1>9, <2>1, SendType DEF Dispose
  <2>3. QED
    BY <1>9, <2>2 DEF Dispose, TypeOK, workerVars
<1>10. ASSUME DisposeExpires PROVE TypeOK'
  BY <1>10 DEF DisposeExpires, TypeOK, workerVars
<1>11. ASSUME Kill PROVE TypeOK'
  BY <1>11, EmptySeq DEF Kill, Die, TypeOK
<1>12. ASSUME HandleInit PROVE TypeOK'
  <2>1. [kind |-> "Initialized"] \in ParentMessages
    BY DEF ParentMessages
  <2>2. QED
    BY <1>12, <2>1, ReadType, ReplyType DEF HandleInit, Read, parentVars, TypeOK
<1>13. ASSUME HandleCall PROVE TypeOK'
  <2>1. Read("Call")
    BY <1>13 DEF HandleCall
  <2>2. Head(toWorker).ref \in CallRefs /\ toWorker' \in Seq(WorkerMessages)
    BY <2>1, ReadType
  <2>3. QED
    BY <1>13, <2>1, <2>2 DEF HandleCall, Read, parentVars, TypeOK
<1>14. ASSUME NEW r \in executing, FinishCall(r) PROVE TypeOK'
  <2>1. r \in CallRefs
    BY <1>14 DEF TypeOK
  <2>2. PICK kind \in {"Result", "Rejection"} : Reply([kind |-> kind, ref |-> r])
    BY <1>14 DEF FinishCall
  <2>3. [kind |-> kind, ref |-> r] \in ParentMessages
    BY <2>1, <2>2 DEF ParentMessages
  <2>4. toParent' \in Seq(ParentMessages)
    BY <2>2, <2>3, ReplyType
  <2>5. QED
    BY <1>14, <2>4 DEF FinishCall, parentVars, TypeOK
<1>15. ASSUME HandleDispose PROVE TypeOK'
  BY <1>15, ReadType DEF HandleDispose, Read, parentVars, TypeOK
<1>16. ASSUME ShutdownCompletes PROVE TypeOK'
  <2>1. [kind |-> "DisposeCompleted"] \in ParentMessages
    BY DEF ParentMessages
  <2>2. QED
    BY <1>16, <2>1, ReplyType DEF ShutdownCompletes, parentVars, TypeOK
<1>17. ASSUME Crash PROVE TypeOK'
  BY <1>17, EmptySeq DEF Crash, Die, parentVars, TypeOK
<1>18. ASSUME ChannelEnd PROVE TypeOK'
  BY <1>18 DEF ChannelEnd, parentVars, workerVars, TypeOK
<1>19. ASSUME UNCHANGED vars PROVE TypeOK'
  BY <1>19 DEF vars, TypeOK
<1>20. QED
  BY <1>1, <1>2, <1>3, <1>4, <1>5, <1>6, <1>7, <1>8, <1>9, <1>10, <1>11, <1>12, <1>13,
     <1>14, <1>15, <1>16, <1>17, <1>18, <1>19 DEF Next

\* The messages, tasks and promises of ChildProcessProxy keep their shape.
THEOREM TypeCorrect == Spec => []TypeOK
<1>1. Init => TypeOK
  <2>1. [kind |-> "Init"] \in WorkerMessages
    BY DEF WorkerMessages
  <2>2. << [kind |-> "Init"] >> \in Seq(WorkerMessages)
    BY <2>1
  <2>3. QED
    BY <2>2, OutcomeTypes, EmptySeq DEF Init, TypeOK
<1>2. TypeOK /\ [Next]_vars => TypeOK'
  BY TypeStep
<1>3. QED
  BY <1>1, <1>2, PTL DEF Spec

-----------------------------------------------------------------------------
(* Every call in flight is in one place, once, and its task is there.      *)

EachRefOnce ==
  /\ Distinct(thens, {"Call"}) /\ Distinct(toWorker, {"Call"}) /\ Distinct(toParent, Replies)
  /\ Unsent \cap Sent = {} /\ Unsent \cap executing = {} /\ Unsent \cap Answered = {}
  /\ Sent \cap executing = {} /\ Sent \cap Answered = {} /\ executing \cap Answered = {}

EveryRefFindsItsTask ==
  \A r \in Unsent \cup Sent \cup executing \cup Answered : FindsItsTask(r)

RefInv == EachRefOnce /\ EveryRefFindsItsTask

\* Nothing enters the flight and no task goes: the invariant stays.
LEMMA RefFrame ==
  ASSUME RefInv, workerTasks' = workerTasks,
         Unsent' \subseteq Unsent, Sent' \subseteq Sent,
         executing' \subseteq executing, Answered' \subseteq Answered,
         Distinct(thens, {"Call"})', Distinct(toWorker, {"Call"})', Distinct(toParent, Replies)'
  PROVE  RefInv'
<1>1. EachRefOnce'
  BY DEF RefInv, EachRefOnce
<1>2. EveryRefFindsItsTask'
  BY DEF RefInv, EveryRefFindsItsTask, FindsItsTask
<1>3. QED
  BY <1>1, <1>2 DEF RefInv

\* The calls in flight are typed, so two with one id and one call are equal.
LEMMA RefTypes ==
  ASSUME TypeOK
  PROVE  /\ Unsent \subseteq CallRefs /\ Sent \subseteq CallRefs
         /\ executing \subseteq CallRefs /\ Answered \subseteq CallRefs
<1>1. Unsent \subseteq CallRefs
  <2>1. \A i \in DOMAIN thens : thens[i] \in CallMessages
    BY DEF TypeOK
  <2>2. QED
    BY <2>1 DEF Unsent, RefsIn, CallMessages
<1>2. Sent \subseteq CallRefs
  BY DEF TypeOK, Sent, RefsIn, WorkerMessages, CallMessages
<1>3. Answered \subseteq CallRefs
  BY DEF TypeOK, Answered, RefsIn, ParentMessages, Replies
<1>4. QED
  BY <1>1, <1>2, <1>3 DEF TypeOK

\* Sending m leaves the child its calls and adds at most that of m.
LEMMA SendRefs ==
  ASSUME TypeOK, NEW m \in WorkerMessages, Send(m), Distinct(toWorker, {"Call"}),
         m.kind = "Call" => m.ref \notin Sent
  PROVE  /\ Sent' \subseteq Sent \cup (IF m.kind = "Call" THEN {m.ref} ELSE {})
         /\ Distinct(toWorker, {"Call"})'
<1>1. toWorker \in Seq(WorkerMessages)
  BY DEF TypeOK
<1>2. CASE toWorker' = toWorker
  BY <1>2 DEF Sent
<1>3. CASE toWorker' = Append(toWorker, m)
  <2>1. Sent' = Sent \cup (IF m.kind \in {"Call"} THEN {m.ref} ELSE {})
    <3>1. RefsIn(Append(toWorker, m), {"Call"}) =
            RefsIn(toWorker, {"Call"}) \cup (IF m.kind \in {"Call"} THEN {m.ref} ELSE {})
      BY <1>1, AppendRefs
    <3>2. QED
      BY <1>3, <3>1 DEF Sent
  <2>2. Distinct(toWorker, {"Call"})'
    BY <1>1, <1>3, AppendDistinct DEF Sent
  <2>3. QED
    BY <2>1, <2>2
<1>4. QED
  BY <1>2, <1>3 DEF Send

\* Reading takes the head of toWorker off, a call with it.
LEMMA ReadRefs ==
  ASSUME TypeOK, NEW kind, Read(kind), Distinct(toWorker, {"Call"})
  PROVE  /\ Sent' \subseteq Sent /\ Distinct(toWorker, {"Call"})'
         /\ kind = "Call" => Head(toWorker).ref \in Sent /\ Head(toWorker).ref \notin Sent'
BY TailRefs DEF TypeOK, Read, Sent

\* Likewise for the messages the main process receives.
LEMMA ReceiveRefs ==
  ASSUME TypeOK, NEW kind, Receive(kind), Distinct(toParent, Replies)
  PROVE  /\ Answered' \subseteq Answered /\ Distinct(toParent, Replies)'
         /\ kind \in Replies =>
              Head(toParent).ref \in Answered /\ Head(toParent).ref \notin Answered'
BY TailRefs DEF TypeOK, Receive, Answered

\* A reply of the child joins the answered calls.
LEMMA ReplyRefs ==
  ASSUME TypeOK, NEW m \in ParentMessages, Reply(m), Distinct(toParent, Replies),
         m.kind \in Replies => m.ref \notin Answered
  PROVE  /\ Answered' = Answered \cup (IF m.kind \in Replies THEN {m.ref} ELSE {})
         /\ Distinct(toParent, Replies)'
BY AppendRefs, AppendDistinct DEF TypeOK, Reply, Answered

\* Handling a reply deletes the task of that call and of no other in flight.
LEMMA SettledRefs ==
  ASSUME TypeOK, RefInv, NEW kind \in Replies, Receive(kind), DeleteTask(Head(toParent)),
         UNCHANGED thens
  PROVE  RefInv'
<1> DEFINE r == Head(toParent).ref
<1>1. /\ Answered' \subseteq Answered /\ Distinct(toParent, Replies)'
      /\ r \in Answered /\ r \notin Answered'
  BY ReceiveRefs DEF RefInv, EachRefOnce
<1>2. UNCHANGED <<thens, toWorker, executing>>
  BY DEF Receive, workerVars
<1>3. Unsent' = Unsent /\ Sent' = Sent
  BY <1>2 DEF Unsent, Sent
<1>4. EachRefOnce'
  BY <1>1, <1>2, <1>3 DEF RefInv, EachRefOnce
<1>5. /\ r \in CallRefs /\ r.correlationId \in 0 .. Len(workerTasks) - 1
      /\ workerTasks[r.correlationId + 1] = r.call
  BY <1>1, RefTypes DEF RefInv, EveryRefFindsItsTask, FindsItsTask
<1>6. /\ workerTasks \in Seq(Calls \cup {Deleted})
      /\ workerTasks' = [workerTasks EXCEPT ![r.correlationId + 1] = Deleted]
  BY DEF TypeOK, DeleteTask
<1>7. Len(workerTasks) \in Nat /\ r.correlationId + 1 \in 1 .. Len(workerTasks)
  BY <1>5, <1>6 DEF CallRefs
<1>8. /\ Len(workerTasks') = Len(workerTasks)
      /\ \A j \in 1 .. Len(workerTasks) :
           j # r.correlationId + 1 => workerTasks'[j] = workerTasks[j]
  BY <1>6, <1>7, ExceptSeq
<1>9. ASSUME NEW q \in Unsent' \cup Sent' \cup executing' \cup Answered'
      PROVE  FindsItsTask(q)'
  <2>1. q \in Unsent \cup Sent \cup executing \cup Answered /\ q # r
    BY <1>1, <1>2, <1>3 DEF RefInv, EachRefOnce
  <2>2. q \in CallRefs /\ FindsItsTask(q)
    BY <2>1, RefTypes DEF RefInv, EveryRefFindsItsTask
  <2>3. q.correlationId # r.correlationId
    BY <1>5, <2>1, <2>2 DEF FindsItsTask, CallRefs
  <2>4. q.correlationId \in Nat /\ r.correlationId \in Nat
    BY <1>5, <2>2 DEF CallRefs
  <2>5. q.correlationId + 1 \in 1 .. Len(workerTasks) /\ q.correlationId + 1 # r.correlationId + 1
    BY <2>2, <2>3, <2>4, <1>7 DEF FindsItsTask
  <2>6. workerTasks'[q.correlationId + 1] = workerTasks[q.correlationId + 1]
    BY <2>5, <1>8
  <2>7. QED
    BY <2>2, <2>6, <1>8 DEF FindsItsTask
<1>10. QED
  BY <1>4, <1>9 DEF RefInv, EveryRefFindsItsTask

\* Every step keeps each call in flight in one place and its task in the array.
LEMMA RefStep == TypeOK /\ RefInv /\ [Next]_vars => RefInv'
<1> SUFFICES ASSUME TypeOK, RefInv, [Next]_vars PROVE RefInv'
  OBVIOUS
<1> USE DEF Unsent, Sent, Answered
<1>a. /\ Distinct(thens, {"Call"}) /\ Distinct(toWorker, {"Call"}) /\ Distinct(toParent, Replies)
  BY DEF RefInv, EachRefOnce
<1>1. ASSUME NEW c \in Calls, Forward(c) PROVE RefInv'
  <2>1. UNCHANGED <<toWorker, toParent, executing>>
    BY <1>1 DEF Forward, workerVars
  <2>2. CASE currentError
    <3>1. UNCHANGED <<workerTasks, thens>>
      BY <1>1, <2>2 DEF Forward
    <3>2. QED
      BY <1>a, <2>1, <3>1, RefFrame
  <2>3. CASE ~currentError
    <3> DEFINE id == Len(workerTasks)
               m  == CallMessage(id, c)
    <3>1. workerTasks' = Append(workerTasks, c) /\ thens' = Append(thens, m)
      BY <1>1, <2>3 DEF Forward, NextCorrelationId
    <3>2. /\ workerTasks \in Seq(Calls \cup {Deleted}) /\ thens \in Seq(CallMessages)
          /\ id \in Nat
      BY DEF TypeOK
    <3>3. m \in CallMessages /\ m.kind = "Call"
          /\ m.ref = [correlationId |-> id, call |-> c]
      BY <3>2 DEF CallMessage, CallMessages, CallRefs
    <3>4. /\ Len(workerTasks') = id + 1 /\ workerTasks'[id + 1] = c
          /\ \A i \in 1 .. id : workerTasks'[i] = workerTasks[i]
      BY <3>1, <3>2, AppendProperties
    <3>. HIDE DEF m
    <3> DEFINE InFlight == Unsent \cup Sent \cup executing \cup Answered
    <3>5. \A q \in InFlight : q.correlationId \in 0 .. id - 1 /\ FindsItsTask(q)
      BY DEF RefInv, EveryRefFindsItsTask, FindsItsTask
    <3>. HIDE DEF InFlight
    <3>6. m.ref.correlationId = id /\ m.ref.correlationId \notin 0 .. id - 1
      BY <3>2, <3>3
    <3>12. m.ref \notin InFlight
      BY <3>5, <3>6
    <3>. USE DEF InFlight
    <3>7. Unsent' = Unsent \cup {m.ref} /\ Distinct(thens, {"Call"})'
      BY <1>a, <3>1, <3>2, <3>3, <3>12, AppendRefs, AppendDistinct
    <3>8. EachRefOnce'
      BY <2>1, <3>12, <3>7 DEF RefInv, EachRefOnce
    <3>9. \A q \in InFlight : FindsItsTask(q)'
      BY <3>2, <3>4, <3>5 DEF FindsItsTask
    <3>10. \A q : q = m.ref => FindsItsTask(q)'
      <4> SUFFICES ASSUME NEW q, q = m.ref PROVE FindsItsTask(q)'
        OBVIOUS
      <4>1. q.correlationId = id /\ q.call = c
        BY <3>3
      <4>2. QED
        BY <3>2, <3>4, <4>1 DEF FindsItsTask
    <3>11. ASSUME NEW q \in Unsent' \cup Sent' \cup executing' \cup Answered'
           PROVE  FindsItsTask(q)'
      BY <2>1, <3>7, <3>9, <3>10
    <3>13. QED
      BY <3>8, <3>11 DEF RefInv, EveryRefFindsItsTask
  <2>4. QED
    BY <2>2, <2>3
<1>2. ASSUME SendCall PROVE RefInv'
  <2> DEFINE m == Head(thens)
  <2>1. /\ thens # <<>> /\ thens' = Tail(thens) /\ Send(m)
        /\ UNCHANGED <<workerTasks, toParent, executing>>
    BY <1>2 DEF SendCall, workerVars
  <2>2. thens \in Seq(CallMessages) /\ m \in CallMessages
    BY <2>1 DEF TypeOK
  <2>3. m.kind = "Call" /\ m \in WorkerMessages
    BY <2>2 DEF CallMessages, WorkerMessages
  <2>4. /\ Unsent' \subseteq Unsent /\ m.ref \in Unsent /\ m.ref \notin Unsent'
        /\ Distinct(thens, {"Call"})'
    BY <1>a, <2>1, <2>2, <2>3, TailRefs
  <2>5. m.ref \notin Sent /\ m.ref \notin executing /\ m.ref \notin Answered
    BY <2>4 DEF RefInv, EachRefOnce
  <2>6. Sent' \subseteq Sent \cup {m.ref} /\ Distinct(toWorker, {"Call"})'
    BY <1>a, <2>1, <2>3, <2>5, SendRefs
  <2>7. EachRefOnce'
    BY <2>1, <2>4, <2>5, <2>6 DEF RefInv, EachRefOnce
  <2>8. EveryRefFindsItsTask'
    BY <2>1, <2>4, <2>6 DEF RefInv, EveryRefFindsItsTask, FindsItsTask
  <2>9. QED
    BY <2>7, <2>8 DEF RefInv
<1>3. ASSUME HandleInitialized PROVE RefInv'
  <2>1. Receive("Initialized") /\ UNCHANGED workerTasks
    BY <1>3 DEF HandleInitialized
  <2>2. UNCHANGED <<thens, toWorker, executing>>
    BY <2>1 DEF Receive, workerVars
  <2>3. QED
    BY <1>a, <2>1, <2>2, ReceiveRefs, RefFrame
<1>4. ASSUME HandleResult PROVE RefInv'
  BY <1>4, SettledRefs DEF HandleResult, Receive, Replies
<1>5. ASSUME HandleRejection PROVE RefInv'
  BY <1>5, SettledRefs DEF HandleRejection, Receive, Replies
<1>6. ASSUME HandleDisposeCompleted PROVE RefInv'
  <2>1. Receive("DisposeCompleted") /\ UNCHANGED workerTasks
    BY <1>6 DEF HandleDisposeCompleted
  <2>2. UNCHANGED <<thens, toWorker, executing>>
    BY <2>1 DEF Receive, workerVars
  <2>3. QED
    BY <1>a, <2>1, <2>2, ReceiveRefs, RefFrame
<1>7. ASSUME HandleUnexpectedExit \/ HandleError \/ DisposeExpires \/ ChannelEnd \/ UNCHANGED vars
      PROVE  RefInv'
  <2>1. UNCHANGED <<workerTasks, thens, toWorker, executing, toParent>>
    BY <1>7 DEF HandleUnexpectedExit, HandleError, DisposeExpires, ChannelEnd, vars,
                parentVars, workerVars
  <2>2. QED
    BY <1>a, <2>1, RefFrame
<1>8. ASSUME Dispose PROVE RefInv'
  <2> DEFINE m == [kind |-> "Dispose"]
  <2>1. m \in WorkerMessages /\ m.kind # "Call"
    BY DEF WorkerMessages
  <2>2. Send(m) /\ UNCHANGED <<workerTasks, thens, executing, toParent>>
    BY <1>8 DEF Dispose, workerVars
  <2>3. Sent' \subseteq Sent /\ Distinct(toWorker, {"Call"})'
    BY <1>a, <2>1, <2>2, SendRefs
  <2>4. QED
    BY <1>a, <2>2, <2>3, RefFrame
<1>9. ASSUME Kill \/ Crash PROVE RefInv'
  <2>1. /\ UNCHANGED <<workerTasks, thens, toParent>>
        /\ executing' = {} /\ toWorker' = <<>>
    BY <1>9 DEF Kill, Crash, Die, parentVars
  <2>2. Sent' = {} /\ Distinct(toWorker, {"Call"})'
    BY <2>1 DEF RefsIn, Distinct
  <2>3. QED
    BY <1>a, <2>1, <2>2, RefFrame
<1>10. ASSUME HandleInit PROVE RefInv'
  <2> DEFINE m == [kind |-> "Initialized"]
  <2>1. /\ Read("Init") /\ Reply(m)
        /\ UNCHANGED <<workerTasks, thens, executing>>
    BY <1>10 DEF HandleInit, Read, parentVars
  <2>2. m \in ParentMessages /\ m.kind \notin Replies
    BY DEF ParentMessages, Replies
  <2>3. Answered' = Answered /\ Distinct(toParent, Replies)'
    BY <1>a, <2>1, <2>2, ReplyRefs
  <2>4. QED
    BY <1>a, <2>1, <2>3, ReadRefs, RefFrame
<1>11. ASSUME HandleCall PROVE RefInv'
  <2> DEFINE r == Head(toWorker).ref
  <2>1. /\ Read("Call") /\ executing' = executing \cup {r}
        /\ UNCHANGED <<workerTasks, thens, toParent>>
    BY <1>11 DEF HandleCall, Read, parentVars
  <2>2. /\ Sent' \subseteq Sent /\ Distinct(toWorker, {"Call"})'
        /\ r \in Sent /\ r \notin Sent'
    BY <1>a, <2>1, ReadRefs
  <2>3. EachRefOnce'
    BY <2>1, <2>2 DEF RefInv, EachRefOnce
  <2>4. EveryRefFindsItsTask'
    BY <2>1, <2>2 DEF RefInv, EveryRefFindsItsTask, FindsItsTask
  <2>5. QED
    BY <2>3, <2>4 DEF RefInv
<1>12. ASSUME NEW r \in executing, FinishCall(r) PROVE RefInv'
  <2>1. PICK kind \in {"Result", "Rejection"} : Reply([kind |-> kind, ref |-> r])
    BY <1>12 DEF FinishCall
  <2>2. /\ executing' = executing \ {r}
        /\ UNCHANGED <<workerTasks, thens, toWorker>>
    BY <1>12 DEF FinishCall, parentVars
  <2>3. r \notin Answered /\ r \notin Unsent /\ r \notin Sent
    BY <1>12 DEF RefInv, EachRefOnce
  <2>4. [kind |-> kind, ref |-> r] \in ParentMessages /\ kind \in Replies
    BY <1>12, <2>1 DEF ParentMessages, Replies, TypeOK
  <2>5. Answered' = Answered \cup {r} /\ Distinct(toParent, Replies)'
    BY <1>a, <2>1, <2>3, <2>4, ReplyRefs
  <2>6. EachRefOnce'
    BY <2>2, <2>3, <2>5 DEF RefInv, EachRefOnce
  <2>7. EveryRefFindsItsTask'
    BY <1>12, <2>2, <2>5 DEF RefInv, EveryRefFindsItsTask, FindsItsTask
  <2>8. QED
    BY <2>6, <2>7 DEF RefInv
<1>13. ASSUME HandleDispose PROVE RefInv'
  <2>1. Read("Dispose") /\ UNCHANGED <<workerTasks, thens, executing, toParent>>
    BY <1>13 DEF HandleDispose, Read, parentVars
  <2>2. QED
    BY <1>a, <2>1, ReadRefs, RefFrame
<1>14. ASSUME ShutdownCompletes PROVE RefInv'
  <2> DEFINE m == [kind |-> "DisposeCompleted"]
  <2>1. Reply(m) /\ UNCHANGED <<workerTasks, thens, executing, toWorker>>
    BY <1>14 DEF ShutdownCompletes, parentVars
  <2>2. m \in ParentMessages /\ m.kind \notin Replies
    BY DEF ParentMessages, Replies
  <2>3. Answered' = Answered /\ Distinct(toParent, Replies)'
    BY <1>a, <2>1, <2>2, ReplyRefs
  <2>4. QED
    BY <1>a, <2>1, <2>3, RefFrame
<1>15. QED
  BY <1>1, <1>2, <1>3, <1>4, <1>5, <1>6, <1>7, <1>8, <1>9, <1>10, <1>11, <1>12, <1>13, <1>14
     DEF Next

LEMMA RefsCorrect == Spec => []RefInv
<1>1. Init => RefInv
  <2> SUFFICES ASSUME Init PROVE RefInv
    OBVIOUS
  <2>1. /\ thens = <<>> /\ toParent = <<>> /\ executing = {}
        /\ toWorker = << [kind |-> "Init"] >>
    BY DEF Init
  <2>2. Unsent = {} /\ Answered = {}
    BY <2>1 DEF Unsent, Answered, RefsIn
  <2>3. Sent = {} /\ Distinct(toWorker, {"Call"})
    BY <2>1 DEF Sent, RefsIn, Distinct
  <2>4. QED
    BY <2>1, <2>2, <2>3 DEF RefInv, EachRefOnce, EveryRefFindsItsTask, Distinct
<1>2. QED
  BY <1>1, TypeCorrect, RefStep, PTL DEF Spec

\* For any number of calls, replied to in any order, a reply finds its own task.
THEOREM RepliesFindTheirTasks == Spec => []ReplyFindsItsTask
<1>1. RefInv => ReplyFindsItsTask
  BY DEF RefInv, EveryRefFindsItsTask, ReplyFindsItsTask
<1>2. QED
  BY <1>1, RefsCorrect, PTL

-----------------------------------------------------------------------------
(* Pending promises have a task, and none survives the report of the exit. *)

PendingHasTask ==
  \A c \in Calls : outcome[c] = Pending => \E i \in DOMAIN workerTasks : workerTasks[i] = c

PendingInv == PendingHasTask /\ NothingPendingAfterExit

LEMMA PendingIsNoOther ==
  /\ Pending # Unmade
  /\ \A e : Rejected(e) # Pending /\ Resolved(e) # Pending
  /\ \A e : Rejected(e) # Unmade /\ Resolved(e) # Unmade
BY DEF Pending, Unmade, Rejected, Resolved

\* The reply at the head of toParent, its task and its promise.
LEMMA HeadFindsItsTask ==
  ASSUME TypeOK, RefInv, NEW kind \in Replies, Receive(kind)
  PROVE  /\ Head(toParent).ref.call \in Calls
         /\ Head(toParent).ref.correlationId + 1 \in 1 .. Len(workerTasks)
         /\ workerTasks[Head(toParent).ref.correlationId + 1] = Head(toParent).ref.call
<1> DEFINE r == Head(toParent).ref
<1>1. r \in Answered
  BY ReceiveRefs DEF RefInv, EachRefOnce
<1>2. r \in CallRefs /\ FindsItsTask(r)
  BY <1>1, RefTypes DEF RefInv, EveryRefFindsItsTask
<1>3. Len(workerTasks) \in Nat
  BY DEF TypeOK
<1>4. QED
  BY <1>2, <1>3 DEF FindsItsTask, CallRefs

\* Rejecting the tasks of the array rejects exactly what is pending.
LEMMA ReportErrorRejectsAll ==
  ASSUME TypeOK, PendingHasTask, NEW e, ReportError(e)
  PROVE  outcome' = [c \in Calls |-> IF outcome[c] = Pending THEN Rejected(e) ELSE outcome[c]]
BY DEF ReportError, PendingHasTask

\* Settling the promise of a deleted task leaves the other promises their tasks.
LEMMA SettledPending ==
  ASSUME TypeOK, RefInv, PendingInv, NEW kind \in Replies, Receive(kind), NEW o, o # Pending,
         Settle(TaskOf(Head(toParent)), o), DeleteTask(Head(toParent))
  PROVE  PendingInv'
<1> DEFINE r == Head(toParent).ref
           id == r.correlationId + 1
<1>1. r.call \in Calls /\ id \in 1 .. Len(workerTasks) /\ workerTasks[id] = r.call
  BY HeadFindsItsTask
<1>2. outcome' = [outcome EXCEPT ![r.call] = IF @ = Pending THEN o ELSE @]
  BY <1>1 DEF Settle, TaskOf
<1>3. /\ outcome'[r.call] # Pending
      /\ \A c \in Calls : outcome'[c] = Pending => outcome[c] = Pending /\ c # r.call
  BY <1>1, <1>2 DEF TypeOK
<1>4. workerTasks' = [workerTasks EXCEPT ![id] = Deleted] /\ currentError' = currentError
  BY DEF DeleteTask, Receive
<1>5. \A i \in DOMAIN workerTasks :
        workerTasks[i] # r.call => i \in DOMAIN workerTasks' /\ workerTasks'[i] = workerTasks[i]
  BY <1>1, <1>4 DEF TypeOK
<1>6. PendingHasTask'
  BY <1>3, <1>5 DEF PendingInv, PendingHasTask
<1>7. NothingPendingAfterExit'
  BY <1>3, <1>4 DEF PendingInv, NothingPendingAfterExit
<1>8. QED
  BY <1>6, <1>7 DEF PendingInv

LEMMA PendingStep == TypeOK /\ RefInv /\ PendingInv /\ [Next]_vars => PendingInv'
<1> SUFFICES ASSUME TypeOK, RefInv, PendingInv, [Next]_vars PROVE PendingInv'
  OBVIOUS
<1>1. ASSUME NEW c \in Calls, Forward(c) PROVE PendingInv'
  <2>0. workerTasks \in Seq(Calls \cup {Deleted}) /\ outcome \in [Calls -> Outcomes]
    BY DEF TypeOK
  <2>1. CASE currentError
    <3>1. /\ \E e \in ErrorKinds : outcome' = [outcome EXCEPT ![c] = Rejected(e)]
          /\ UNCHANGED <<workerTasks, currentError>>
      BY <1>1, <2>1 DEF Forward
    <3>2. \A d \in Calls : outcome'[d] = Pending => outcome[d] = Pending
      BY <2>0, <3>1, PendingIsNoOther
    <3>3. QED
      BY <3>1, <3>2 DEF PendingInv, PendingHasTask, NothingPendingAfterExit
  <2>2. CASE ~currentError
    <3>1. /\ outcome' = [outcome EXCEPT ![c] = Pending]
          /\ workerTasks' = Append(workerTasks, c)
          /\ ~currentError'
      BY <1>1, <2>2 DEF Forward
    <3>2. /\ \A i \in DOMAIN workerTasks : i \in DOMAIN workerTasks' /\ workerTasks'[i] = workerTasks[i]
          /\ \E i \in DOMAIN workerTasks' : workerTasks'[i] = c
      <4>1. /\ Len(workerTasks') = Len(workerTasks) + 1 /\ Len(workerTasks) \in Nat
            /\ workerTasks'[Len(workerTasks) + 1] = c
            /\ \A i \in 1 .. Len(workerTasks) : workerTasks'[i] = workerTasks[i]
            /\ workerTasks' \in Seq(Calls \cup {Deleted})
        BY <2>0, <3>1, AppendProperties
      <4>2. DOMAIN workerTasks = 1 .. Len(workerTasks) /\ DOMAIN workerTasks' = 1 .. Len(workerTasks')
        BY <2>0, <4>1
      <4>3. QED
        BY <4>1, <4>2
    <3>3. PendingHasTask'
      <4> SUFFICES ASSUME NEW d \in Calls, outcome'[d] = Pending
                   PROVE  \E i \in DOMAIN workerTasks' : workerTasks'[i] = d
        BY DEF PendingHasTask
      <4>1. CASE d = c
        BY <3>2, <4>1
      <4>2. CASE d # c
        BY <2>0, <3>1, <3>2, <4>2 DEF PendingInv, PendingHasTask
      <4>3. QED
        BY <4>1, <4>2
    <3>4. QED
      BY <3>1, <3>3 DEF PendingInv, NothingPendingAfterExit
  <2>3. QED
    BY <2>1, <2>2
<1>2. ASSUME HandleResult PROVE PendingInv'
  BY <1>2, SettledPending, PendingIsNoOther DEF HandleResult, Replies
<1>3. ASSUME HandleRejection PROVE PendingInv'
  BY <1>3, SettledPending, PendingIsNoOther DEF HandleRejection, Replies
<1>4. ASSUME HandleUnexpectedExit \/ HandleError PROVE PendingInv'
  <2>1. PICK e : ReportError(e)
    BY <1>4 DEF HandleUnexpectedExit, HandleError
  <2>2. outcome' = [c \in Calls |-> IF outcome[c] = Pending THEN Rejected(e) ELSE outcome[c]]
    BY <2>1, ReportErrorRejectsAll DEF PendingInv
  <2>3. \A c \in Calls : outcome'[c] # Pending
    BY <2>2, PendingIsNoOther
  <2>4. QED
    BY <2>3 DEF PendingInv, PendingHasTask, NothingPendingAfterExit
<1>5. ASSUME UNCHANGED <<workerTasks, outcome, currentError>> PROVE PendingInv'
  BY <1>5 DEF PendingInv, PendingHasTask, NothingPendingAfterExit
<1>6. QED
  <2>1. \/ \E c \in Calls : Forward(c)
        \/ HandleResult \/ HandleRejection \/ HandleUnexpectedExit \/ HandleError
        \/ UNCHANGED <<workerTasks, outcome, currentError>>
    BY DEF Next, vars, SendCall, HandleInitialized, HandleDisposeCompleted, Receive, Dispose,
           DisposeExpires, Kill, HandleInit, HandleCall, HandleDispose, Read, ShutdownCompletes,
           FinishCall, Crash, ChannelEnd, parentVars
  <2>2. QED
    BY <1>1, <1>2, <1>3, <1>4, <1>5, <2>1

LEMMA PendingCorrect == Spec => []PendingInv
<1>1. Init => PendingInv
  BY PendingIsNoOther DEF Init, PendingInv, PendingHasTask, NothingPendingAfterExit
<1>2. QED
  BY <1>1, TypeCorrect, RefsCorrect, PendingStep, PTL DEF Spec

\* No promise is pending once the exit of the child is reported.
THEOREM NothingIsPendingAfterExit == Spec => []NothingPendingAfterExit
<1>1. PendingInv => NothingPendingAfterExit
  BY DEF PendingInv
<1>2. QED
  BY <1>1, PendingCorrect, PTL

-----------------------------------------------------------------------------
(* The life of the child.                                                  *)

LifeInv ==
  /\ initialized => worker # "starting"
  /\ (\E i \in DOMAIN toParent : toParent[i].kind = "Initialized") => worker # "starting"
  /\ NoCallBeforeInitialized
  /\ ~channelOpen => ~Alive
  /\ disposal = "done" => ~Alive
  /\ DisposedMeansDead

LEMMA LifeStep == TypeOK /\ LifeInv /\ [Next]_vars => LifeInv'
<1> SUFFICES ASSUME TypeOK, LifeInv, [Next]_vars PROVE LifeInv'
  OBVIOUS
<1> USE DEF LifeInv, NoCallBeforeInitialized, DisposedMeansDead, Alive
<1>1. ASSUME NEW c \in Calls, Forward(c) PROVE LifeInv'
  BY <1>1 DEF Forward, workerVars, Sent
<1>2. ASSUME SendCall PROVE LifeInv'
  BY <1>2 DEF SendCall, workerVars, Sent
<1>3. ASSUME NEW kind, Receive(kind) PROVE
        /\ \A i \in DOMAIN toParent' : \E j \in DOMAIN toParent : toParent'[i] = toParent[j]
        /\ \E j \in DOMAIN toParent : toParent[j].kind = kind
        /\ UNCHANGED <<isDisposed, worker, executing, toWorker, channelOpen, Sent>>
  <2>1. /\ toParent \in Seq(ParentMessages) /\ toParent # <<>> /\ toParent' = Tail(toParent)
        /\ Head(toParent).kind = kind
    BY <1>3 DEF Receive, TypeOK
  <2>2. /\ Len(toParent) \in Nat \ {0} /\ Head(toParent) = toParent[1]
        /\ DOMAIN toParent = 1 .. Len(toParent)
        /\ DOMAIN toParent' = 1 .. Len(toParent) - 1
        /\ \A i \in 1 .. Len(toParent) - 1 : toParent'[i] = toParent[i + 1]
    BY <2>1
  <2>3. \A i \in DOMAIN toParent' : i + 1 \in DOMAIN toParent /\ toParent'[i] = toParent[i + 1]
    BY <2>2
  <2>4. QED
    BY <1>3, <2>1, <2>2, <2>3 DEF Receive, workerVars, Sent
<1>4. ASSUME HandleInitialized PROVE LifeInv'
  BY <1>3, <1>4 DEF HandleInitialized
<1>5. ASSUME HandleResult \/ HandleRejection PROVE LifeInv'
  <2>1. (Receive("Result") \/ Receive("Rejection")) /\ UNCHANGED <<initialized, disposal>>
    BY <1>5 DEF HandleResult, HandleRejection
  <2>2. QED
    BY <1>3, <2>1
<1>6. ASSUME HandleDisposeCompleted PROVE LifeInv'
  BY <1>3, <1>6 DEF HandleDisposeCompleted, TypeOK
<1>7. ASSUME HandleUnexpectedExit PROVE LifeInv'
  BY <1>7 DEF HandleUnexpectedExit, workerVars, Sent
<1>8. ASSUME HandleError PROVE LifeInv'
  BY <1>8 DEF HandleError, workerVars, Sent
<1>9. ASSUME Dispose PROVE LifeInv'
  <2>1. worker = "starting" => Sent' = {}
    <3>1. CASE toWorker' = Append(toWorker, [kind |-> "Dispose"])
      <4>1. toWorker \in Seq(WorkerMessages) /\ [kind |-> "Dispose"] \in WorkerMessages
        BY DEF TypeOK, WorkerMessages
      <4>2. RefsIn(Append(toWorker, [kind |-> "Dispose"]), {"Call"}) =
              RefsIn(toWorker, {"Call"}) \cup
                (IF [kind |-> "Dispose"].kind \in {"Call"} THEN {[kind |-> "Dispose"].ref} ELSE {})
        BY <4>1, AppendRefs
      <4>3. Sent' = Sent
        BY <3>1, <4>2 DEF Sent
      <4>4. QED
        BY <4>3
    <3>2. CASE UNCHANGED toWorker
      BY <3>2 DEF Sent
    <3>3. QED
      BY <1>9, <3>1, <3>2 DEF Dispose, Send
  <2>2. QED
    BY <1>9, <2>1 DEF Dispose, workerVars
<1>10. ASSUME DisposeExpires PROVE LifeInv'
  BY <1>10 DEF DisposeExpires, workerVars, Sent
<1>11. ASSUME Kill PROVE LifeInv'
  BY <1>11 DEF Kill, Die
<1>12. ASSUME HandleInit PROVE LifeInv'
  BY <1>12 DEF HandleInit, Read, parentVars
<1>13. ASSUME HandleCall PROVE LifeInv'
  <2>1. Read("Call")
    BY <1>13 DEF HandleCall
  <2>2. toWorker \in Seq(WorkerMessages) /\ toWorker # <<>> /\ Head(toWorker).kind = "Call"
    BY <2>1 DEF Read, TypeOK
  <2>3. Head(toWorker).ref \in Sent
    BY <2>2, TailRefs DEF Sent
  <2>4. worker # "starting"
    BY <2>3
  <2>5. QED
    BY <1>13, <2>1, <2>4 DEF HandleCall, Read, parentVars
<1>14. ASSUME NEW r \in executing, FinishCall(r) PROVE LifeInv'
  <2>1. worker # "starting"
    BY <1>14
  <2>2. QED
    BY <1>14, <2>1 DEF FinishCall, parentVars
<1>15. ASSUME HandleDispose PROVE LifeInv'
  <2>1. Sent' \subseteq Sent
    BY <1>15, TailRefs DEF HandleDispose, Read, TypeOK, Sent
  <2>2. QED
    BY <1>15, <2>1 DEF HandleDispose, Read, parentVars
<1>16. ASSUME ShutdownCompletes PROVE LifeInv'
  <2> DEFINE m == [kind |-> "DisposeCompleted"]
  <2>1. toParent \in Seq(ParentMessages) /\ m \in ParentMessages /\ toParent' = Append(toParent, m)
    BY <1>16 DEF TypeOK, ParentMessages, ShutdownCompletes, Reply
  <2>2. \A i \in DOMAIN toParent' : toParent'[i] = m \/ (i \in DOMAIN toParent /\ toParent'[i] = toParent[i])
    BY <2>1
  <2>3. m.kind # "Initialized"
    OBVIOUS
  <2>. HIDE DEF m
  <2>4. (\E i \in DOMAIN toParent' : toParent'[i].kind = "Initialized") => worker # "starting"
    BY <2>2, <2>3
  <2>5. QED
    BY <1>16, <2>4 DEF ShutdownCompletes, parentVars, Sent
<1>17. ASSUME Crash PROVE LifeInv'
  BY <1>17 DEF Crash, Die, parentVars
<1>18. ASSUME ChannelEnd PROVE LifeInv'
  BY <1>18 DEF ChannelEnd, parentVars, workerVars, Sent
<1>19. ASSUME UNCHANGED vars PROVE LifeInv'
  BY <1>19 DEF vars, Sent
<1>20. QED
  BY <1>1, <1>2, <1>4, <1>5, <1>6, <1>7, <1>8, <1>9, <1>10, <1>11, <1>12, <1>13,
     <1>14, <1>15, <1>16, <1>17, <1>18, <1>19 DEF Next

LEMMA LifeCorrect == Spec => []LifeInv
<1>1. Init => LifeInv
  <2> SUFFICES ASSUME Init PROVE LifeInv
    OBVIOUS
  <2>1. Sent = {}
    BY DEF Init, Sent, RefsIn
  <2>2. QED
    BY <2>1 DEF Init, LifeInv, NoCallBeforeInitialized, DisposedMeansDead
<1>2. QED
  BY <1>1, TypeCorrect, LifeStep, PTL DEF Spec

\* No call is sent to a child that has no subject (ChildProcessProxy.initProxy).
THEOREM CallsWaitForSubject == Spec => []NoCallBeforeInitialized
<1>1. LifeInv => NoCallBeforeInitialized
  BY DEF LifeInv
<1>2. QED
  BY <1>1, LifeCorrect, PTL

\* isDisposed tells of a child that is dead or about to be killed (ChildProcessProxy.dispose).
THEOREM ChildLife == Spec => []DisposedMeansDead
<1>1. LifeInv => DisposedMeansDead
  BY DEF LifeInv
<1>2. QED
  BY <1>1, LifeCorrect, PTL

-----------------------------------------------------------------------------
(* The proxy implements RemoteCalls.                                       *)

LEMMA RefinementStep ==
  TypeOK /\ RefInv /\ PendingInv /\ [Next]_vars => [Abstract!Next]_(Abstract!vars)
<1> SUFFICES ASSUME TypeOK, RefInv, PendingInv, [Next]_vars
             PROVE  Abstract!Next \/ UNCHANGED <<outcome, currentError>>
  BY DEF Abstract!vars
<1> USE DEF Pending, Unmade, Rejected, Resolved, Abstract!Pending, Abstract!Unmade,
            Abstract!Rejected, Abstract!Resolved, ErrorKinds, Abstract!ErrorKinds
<1>1. ASSUME NEW c \in Calls, Forward(c) PROVE Abstract!Next
  <2>1. Abstract!Call(c)
    BY <1>1 DEF Forward, Abstract!Call
  <2>2. QED
    BY <2>1 DEF Abstract!Next
<1>2. ASSUME HandleResult PROVE Abstract!Next \/ UNCHANGED <<outcome, currentError>>
  <2> DEFINE c == Head(toParent).ref.call
  <2>1. c \in Calls /\ TaskOf(Head(toParent)) = c
    BY <1>2, HeadFindsItsTask DEF HandleResult, Replies, TaskOf
  <2>2. /\ outcome' = [outcome EXCEPT ![c] = IF @ = Pending THEN Resolved(c) ELSE @]
        /\ UNCHANGED currentError /\ outcome \in [Calls -> Outcomes]
    BY <1>2, <2>1 DEF HandleResult, Receive, Settle, TypeOK
  <2>3. CASE outcome[c] = Pending
    <3>1. Abstract!Resolve(c)
      BY <2>2, <2>3 DEF Abstract!Resolve
    <3>2. QED
      BY <2>1, <3>1 DEF Abstract!Next
  <2>4. CASE outcome[c] # Pending
    BY <2>1, <2>2, <2>4
  <2>5. QED
    BY <2>3, <2>4
<1>3. ASSUME HandleRejection PROVE Abstract!Next \/ UNCHANGED <<outcome, currentError>>
  <2> DEFINE c == Head(toParent).ref.call
  <2>1. c \in Calls /\ TaskOf(Head(toParent)) = c
    BY <1>3, HeadFindsItsTask DEF HandleRejection, Replies, TaskOf
  <2>2. /\ outcome' = [outcome EXCEPT ![c] = IF @ = Pending THEN Rejected("Error") ELSE @]
        /\ UNCHANGED currentError /\ outcome \in [Calls -> Outcomes]
    BY <1>3, <2>1 DEF HandleRejection, Receive, Settle, TypeOK
  <2>3. CASE outcome[c] = Pending
    <3>1. Abstract!Reject(c)
      BY <2>2, <2>3 DEF Abstract!Reject
    <3>2. QED
      BY <2>1, <3>1 DEF Abstract!Next
  <2>4. CASE outcome[c] # Pending
    BY <2>1, <2>2, <2>4
  <2>5. QED
    BY <2>3, <2>4
<1>4. ASSUME HandleUnexpectedExit PROVE Abstract!Next
  <2>1. PICK e \in ErrorKinds : ReportError(e)
    BY <1>4 DEF HandleUnexpectedExit
  <2>2. Abstract!RejectAll(e)
    BY <2>1, ReportErrorRejectsAll DEF PendingInv, Abstract!RejectAll
  <2>3. Abstract!Fail
    BY <1>4, <2>2 DEF HandleUnexpectedExit, Abstract!Fail
  <2>4. QED
    BY <2>3 DEF Abstract!Next
<1>5. ASSUME HandleError PROVE Abstract!Next
  <2>1. PICK e \in ErrorKinds : ReportError(e)
    BY <1>5 DEF HandleError
  <2>2. Abstract!RejectAll(e)
    BY <2>1, ReportErrorRejectsAll DEF PendingInv, Abstract!RejectAll
  <2>3. Abstract!ChannelError
    BY <1>5, <2>2 DEF HandleError, Abstract!ChannelError
  <2>4. QED
    BY <2>3 DEF Abstract!Next
<1>6. QED
  <2>1. \/ \E c \in Calls : Forward(c)
        \/ HandleResult \/ HandleRejection \/ HandleUnexpectedExit \/ HandleError
        \/ UNCHANGED <<outcome, currentError>>
    BY DEF Next, vars, SendCall, HandleInitialized, HandleDisposeCompleted, Receive, Dispose,
           DisposeExpires, Kill, HandleInit, HandleCall, HandleDispose, Read, ShutdownCompletes,
           FinishCall, Crash, ChannelEnd, parentVars
  <2>2. QED
    BY <1>1, <1>2, <1>3, <1>4, <1>5, <2>1

\* Every behaviour of the proxy, its child and their channels is one of RemoteCalls:
\* own results, one settlement per promise, nothing pending after the exit.
THEOREM Refinement == Spec => ImplementsRemoteCalls
<1>1. Init => Abstract!Init
  BY DEF Init, Abstract!Init, Unmade, Abstract!Unmade
<1>2. QED
  BY <1>1, RefinementStep, TypeCorrect, RefsCorrect, PendingCorrect, PTL
     DEF Spec, ImplementsRemoteCalls, Abstract!Spec
=============================================================================
