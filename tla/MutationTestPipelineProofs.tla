--------------------- MODULE MutationTestPipelineProofs ---------------------
(***************************************************************************)
(* Proofs about MutationTestPipeline, for any number of mutants, files,    *)
(* transpilers, tickets and sandboxes: who holds a sandbox, how much is    *)
(* buffered, and what a dispose() leaves.  That no sandbox is held twice   *)
(* needs more than itself: a sandbox that comes from its creation is new   *)
(* only because each sandbox in the buffer or in a job was created before. *)
(***************************************************************************)
EXTENDS MutationTestPipeline, SequenceTheorems, FiniteSetTheorems, TLAPS

\* The sandboxes whose creation has resolved.
Made(sbs) == {n \in Sandboxes : sbs[n] \in {"created", "disposed"}}

\* The sandboxes in the buffer ns and in the jobs js are made, and held once.
HeldOnce(ns, js, sbs) ==
  /\ \A j \in js : j.sandbox \in Made(sbs)
  /\ \A i \in 1 .. Len(ns) : ns[i] \in Made(sbs)
  /\ \A j, k \in js : j.sandbox = k.sandbox => j = k
  /\ \A i \in 1 .. Len(ns) : \A j \in js : j.sandbox # ns[i]
  /\ \A i, k \in 1 .. Len(ns) : ns[i] = ns[k] => i = k

Busy(t) == IF t = Idle THEN 0 ELSE 1

IInv == /\ TypeOK /\ HeldOnce(free, jobs, sandboxes)
        /\ BoundedBuffering /\ NoSandboxAfterDispose
-----------------------------------------------------------------------------
(* The zip of mutants and sandboxes. *)

LEMMA EmptyOutputs == <<>> \in Outputs
<1>1. <<>> \in [1 .. 0 -> SUBSET Mutants]
  BY EmptySeq, LenProperties
<1>2. 1 .. 0 \in SUBSET OutputFiles
  BY SMT
<1> QED
  BY <1>1, <1>2 DEF Outputs

LEMMA RunMutantType ==
  ASSUME NEW t \in TranspiledMutant, NEW n \in Sandboxes
  PROVE  RunMutant(t, n) \in Job /\ RunMutant(t, n).sandbox = n
<1>1. RetrieveEarlyResult(t) \in {"TranspileError", "NoCoverage", "Survived", "none"}
  BY DEF RetrieveEarlyResult
<1>2. t.mutant \in Mutants /\ t.outputs \in Outputs
  BY DEF TranspiledMutant
<1> HIDE DEF RetrieveEarlyResult
<1> QED
  BY <1>1, <1>2 DEF RunMutant, Job, Statuses

\* Nothing is lost in the zip, and nothing is added.
LEMMA ZipTypes ==
  ASSUME NEW ts \in Seq(TranspiledMutant), NEW ns \in Seq(Sandboxes),
         NEW js \in SUBSET Job, IsFiniteSet(js), Zip(ts, ns, js)
  PROVE  /\ transpiled' \in Seq(TranspiledMutant) /\ free' \in Seq(Sandboxes)
         /\ jobs' \subseteq Job /\ IsFiniteSet(jobs')
         /\ Len(transpiled') + Cardinality(jobs') <= Len(ts) + Cardinality(js)
<1>0. Len(ts) \in Nat /\ Cardinality(js) \in Nat
  BY LenProperties, FS_CardinalityType
<1>1. CASE ts # <<>> /\ ns # <<>>
  <2>1. /\ Head(ts) \in TranspiledMutant /\ Tail(ts) \in Seq(TranspiledMutant) /\ Len(Tail(ts)) = Len(ts) - 1
        /\ Head(ns) \in Sandboxes /\ Tail(ns) \in Seq(Sandboxes)
    BY <1>1, HeadTailProperties
  <2>2. jobs' = js \cup {RunMutant(Head(ts), Head(ns))} /\ transpiled' = Tail(ts) /\ free' = Tail(ns)
    BY <1>1 DEF Zip
  <2>3. RunMutant(Head(ts), Head(ns)) \in Job
    BY <2>1, RunMutantType
  <2> DEFINE job == RunMutant(Head(ts), Head(ns))
  <2>4. IsFiniteSet(js \cup {job}) /\ Cardinality(js \cup {job}) <= Cardinality(js) + 1
    <3> HIDE DEF job
    <3>1. /\ IsFiniteSet(js \cup {job})
          /\ Cardinality(js \cup {job}) = IF job \in js THEN Cardinality(js) ELSE Cardinality(js) + 1
      BY FS_AddElement
    <3> QED BY <1>0, <3>1
  <2>5. Cardinality(js \cup {job}) \in Nat
    <3> HIDE DEF job
    <3> QED BY <2>4, FS_CardinalityType
  <2> HIDE DEF job
  <2>6. jobs' = js \cup {job} /\ job \in Job
    BY <2>2, <2>3 DEF job
  <2>7. Len(transpiled') + Cardinality(jobs') <= Len(ts) + Cardinality(js)
    <3>1. Cardinality(jobs') \in Nat /\ Cardinality(jobs') <= Cardinality(js) + 1
      BY <2>4, <2>5, <2>6, Zenon
    <3>2. Len(transpiled') = Len(ts) - 1
      BY <2>1, <2>2, Zenon
    <3> QED BY <1>0, <3>1, <3>2
  <2>8. IsFiniteSet(jobs')
    BY <2>4, <2>6, Zenon
  <2>9. jobs' \subseteq Job
    BY <2>6
  <2> QED BY <2>1, <2>2, <2>7, <2>8, <2>9
<1>2. CASE ~(ts # <<>> /\ ns # <<>>)
  BY <1>0, <1>2 DEF Zip
<1> QED
  BY <1>1, <1>2

LEMMA ZipHeldOnce ==
  ASSUME NEW ts, NEW ns \in Seq(Sandboxes), NEW js, NEW sbs,
         HeldOnce(ns, js, sbs), Zip(ts, ns, js)
  PROVE  HeldOnce(free', jobs', sbs)
<1>1. CASE ts # <<>> /\ ns # <<>>
  <2> DEFINE job == RunMutant(Head(ts), Head(ns))
  <2>1. free' = Tail(ns) /\ jobs' = js \cup {job}
    BY <1>1 DEF Zip
  <2>2. /\ Len(ns) \in Nat \ {0} /\ Len(Tail(ns)) = Len(ns) - 1 /\ Head(ns) = ns[1]
        /\ \A i \in 1 .. Len(Tail(ns)) : Tail(ns)[i] = ns[i + 1]
    BY <1>1, HeadTailProperties, EmptySeq
  <2>3. job.sandbox = ns[1]
    BY <2>2 DEF RunMutant
  <2> HIDE DEF job
  <2> QED BY <2>1, <2>2, <2>3 DEF HeldOnce
<1>2. CASE ~(ts # <<>> /\ ns # <<>>)
  BY <1>2 DEF Zip
<1> QED
  BY <1>1, <1>2

\* A made sandbox that nobody holds can be added to the buffer; jobs can end.
LEMMA AppendHeldOnce ==
  ASSUME NEW ns \in Seq(Sandboxes), NEW js, NEW sbs, HeldOnce(ns, js, sbs), NEW n \in Made(sbs),
         \A j \in js : j.sandbox # n, \A i \in 1 .. Len(ns) : ns[i] # n
  PROVE  Append(ns, n) \in Seq(Sandboxes) /\ HeldOnce(Append(ns, n), js, sbs)
<1>1. n \in Sandboxes
  BY DEF Made
<1>2. /\ Append(ns, n) \in Seq(Sandboxes) /\ Len(Append(ns, n)) = Len(ns) + 1 /\ Len(ns) \in Nat
      /\ \A i \in 1 .. Len(ns) : Append(ns, n)[i] = ns[i]
      /\ Append(ns, n)[Len(ns) + 1] = n
  BY <1>1
<1> QED
  BY <1>2 DEF HeldOnce

LEMMA FewerHeldOnce ==
  ASSUME NEW ns, NEW js, NEW ks \in SUBSET js, NEW sbs, HeldOnce(ns, js, sbs)
  PROVE  HeldOnce(ns, ks, sbs)
  BY DEF HeldOnce

LEMMA MoreMade ==
  ASSUME NEW ns, NEW js, NEW sbs, NEW sbs2, Made(sbs) \subseteq Made(sbs2), HeldOnce(ns, js, sbs)
  PROVE  HeldOnce(ns, js, sbs2)
  BY DEF HeldOnce

-----------------------------------------------------------------------------
(* The scheduler. *)

LEMMA FilesToTranspileType ==
  ASSUME TypeOK, NEW m \in Mutants
  PROVE  FilesToTranspile(m) \in Sent
<1> DEFINE fs == {FileOf[m]} \cup ({currentMutatedFile} \ {None})
<1>1. fs \in SUBSET Files
  BY PipelineAssumption DEF TypeOK
<1>2. None \in 0 .. NumMutants /\ m \in 0 .. NumMutants
  BY PipelineAssumption DEF None, Mutants
<1> HIDE DEF fs
<1>3. [f \in fs |-> IF f = FileOf[m] THEN m ELSE None] \in [fs -> 0 .. NumMutants]
  BY <1>2
<1> QED
  BY <1>1, <1>3 DEF FilesToTranspile, Sent, fs

LEMMA TranspileTypes ==
  ASSUME TypeOK, NEW ms \in Seq(Mutants), Transpile(ms)
  PROVE  /\ queued' \in Seq(Mutants)
         /\ transpiling' \in {Idle} \cup [mutant : Mutants, sent : Sent]
         /\ currentMutatedFile' \in Files \cup {None}
         /\ Len(queued') + Busy(transpiling') = Len(ms)
<1>1. CASE ms = <<>>
  BY <1>1, EmptySeq DEF Transpile, TypeOK, Busy
<1>2. CASE ms # <<>>
  <2>1. Head(ms) \in Mutants /\ Tail(ms) \in Seq(Mutants) /\ Len(Tail(ms)) = Len(ms) - 1 /\ Len(ms) \in Nat
    BY <1>2, HeadTailProperties, LenProperties
  <2>2. /\ queued' = Tail(ms) /\ currentMutatedFile' = FileOf[Head(ms)]
        /\ transpiling' = [mutant |-> Head(ms), sent |-> FilesToTranspile(Head(ms))]
    BY <1>2 DEF Transpile
  <2>3. FilesToTranspile(Head(ms)) \in Sent
    BY <2>1, FilesToTranspileType
  <2>4. transpiling' # Idle
    <3>1. transpiling'.mutant = Head(ms) /\ Idle.mutant = 0
      BY <2>2 DEF Idle, None
    <3>2. Head(ms) # 0
      BY <2>1, PipelineAssumption DEF Mutants
    <3> QED BY <3>1, <3>2
  <2> HIDE DEF FilesToTranspile
  <2>5. transpiling' \in [mutant : Mutants, sent : Sent]
    BY <2>1, <2>2, <2>3
  <2>6. currentMutatedFile' \in Files
    BY <2>1, <2>2, PipelineAssumption
  <2>7. Busy(transpiling') = 1
    BY <2>4 DEF Busy
  <2>8. Len(queued') + Busy(transpiling') = Len(ms) /\ queued' \in Seq(Mutants)
    BY <2>1, <2>2, <2>7
  <2> QED BY <2>5, <2>6, <2>8
<1> QED
  BY <1>1, <1>2

LEMMA ScheduleTypes ==
  ASSUME TypeOK, ScheduleNext
  PROVE  /\ taken' \in Mutants /\ queued' \in Seq(Mutants)
         /\ transpiling' \in {Idle} \cup [mutant : Mutants, sent : Sent]
         /\ currentMutatedFile' \in Files \cup {None}
         /\ view' = view
         /\ Len(queued') + Busy(transpiling') <= Len(queued) + Busy(transpiling) + 1
<1>0. Len(queued) \in Nat /\ Busy(transpiling) \in {0, 1}
  BY LenProperties DEF TypeOK, Busy
<1>1. CASE taken = NumMutants
  BY <1>0, <1>1 DEF ScheduleNext, scheduler, TypeOK
<1>2. CASE taken # NumMutants
  <2>1. taken + 1 \in Mutants
    BY <1>2, PipelineAssumption DEF TypeOK, Mutants
  <2>2. taken' = taken + 1 /\ view' = view
    BY <1>2 DEF ScheduleNext
  <2>3. CASE transpiling = Idle
    <3>1. Transpile(<<taken + 1>>)
      BY <1>2, <2>3 DEF ScheduleNext
    <3>2. <<taken + 1>> \in Seq(Mutants) /\ Len(<<taken + 1>>) = 1
      BY <2>1
    <3>3. /\ queued' \in Seq(Mutants)
          /\ transpiling' \in {Idle} \cup [mutant : Mutants, sent : Sent]
          /\ currentMutatedFile' \in Files \cup {None}
          /\ Len(queued') + Busy(transpiling') = 1
      BY <3>1, <3>2, TranspileTypes
    <3> QED BY <1>0, <2>1, <2>2, <3>3
  <2>4. CASE transpiling # Idle
    <3>1. queued' = Append(queued, taken + 1) /\ transpiling' = transpiling /\ currentMutatedFile' = currentMutatedFile
      BY <1>2, <2>4 DEF ScheduleNext
    <3>2. queued' \in Seq(Mutants) /\ Len(queued') = Len(queued) + 1
      BY <2>1, <3>1 DEF TypeOK
    <3> QED BY <1>0, <2>1, <2>2, <3>1, <3>2 DEF TypeOK
  <2> QED BY <2>3, <2>4
<1> QED
  BY <1>1, <1>2

-----------------------------------------------------------------------------
(* The steps. *)

Buffered(q, t, ts, js) == Len(q) + Busy(t) + Len(ts) + Cardinality(js)

LEMMA BufferedIsBounded ==
  BoundedBuffering <=> Buffered(queued, transpiling, transpiled, jobs) <= InitialConcurrency
  BY DEF BoundedBuffering, Buffered, Busy

LEMMA Lengths ==
  ASSUME TypeOK
  PROVE  /\ Len(queued) \in Nat /\ Busy(transpiling) \in {0, 1}
         /\ Len(transpiled) \in Nat /\ Cardinality(jobs) \in Nat
         /\ InitialConcurrency \in Nat
  BY LenProperties, FS_CardinalityType, PipelineAssumption DEF TypeOK, Busy

\* StartSandbox only begins creations.
LEMMA StartTypes ==
  ASSUME NEW sbs \in [Sandboxes -> {"none", "creating", "created", "failed", "disposed"}],
         NEW listening, StartSandbox(sbs, listening)
  PROVE  /\ sandboxes' \in [Sandboxes -> {"none", "creating", "created", "failed", "disposed"}]
         /\ Made(sandboxes') = Made(sbs)
  BY DEF StartSandbox, Made

\* A job that ends: its sandbox is recycled and a ticket given, or nobody listens.
LEMMA EmitKeeps ==
  ASSUME IInv, NEW j \in jobs, NEW status \in Statuses, Emit(j, status), UNCHANGED sandboxes
  PROVE  /\ taken' \in Mutants /\ queued' \in Seq(Mutants)
         /\ transpiling' \in {Idle} \cup [mutant : Mutants, sent : Sent]
         /\ currentMutatedFile' \in Files \cup {None} /\ view' = view
         /\ transpiled' \in Seq(TranspiledMutant) /\ free' \in Seq(Sandboxes)
         /\ jobs' \subseteq Job /\ IsFiniteSet(jobs')
         /\ results' \in [Mutants -> Statuses \cup {"none"}]
         /\ pipeline' \in {"active", "completed", "failed"}
         /\ HeldOnce(free', jobs', sandboxes')
         /\ Buffered(queued', transpiling', transpiled', jobs') <= InitialConcurrency
<1> USE DEF IInv
<1>1. /\ jobs \ {j} \subseteq Job /\ IsFiniteSet(jobs \ {j})
      /\ Cardinality(jobs \ {j}) = Cardinality(jobs) - 1
  BY FS_RemoveElement DEF TypeOK
<1>2. HeldOnce(free, jobs \ {j}, sandboxes)
  BY FewerHeldOnce
<1>3. j.sandbox \in Made(sandboxes) /\ j.sandbox \in Sandboxes /\ j.mutant \in Mutants
  BY DEF HeldOnce, TypeOK, Job
<1>4. Buffered(queued, transpiling, transpiled, jobs) <= InitialConcurrency
  BY BufferedIsBounded
<1>5. CASE pipeline = "active"
  <2>1. /\ transpiled' \in Seq(TranspiledMutant) /\ free' \in Seq(Sandboxes)
        /\ jobs' \subseteq Job /\ IsFiniteSet(jobs')
        /\ Len(transpiled') + Cardinality(jobs') <= Len(transpiled) + Cardinality(jobs) - 1
        /\ HeldOnce(free', jobs', sandboxes')
    <3>1. CASE ZipCompleted
      <4>1. transpiled' = transpiled /\ free' = free /\ jobs' = jobs \ {j}
        BY <1>5, <3>1 DEF Emit, zip
      <4>2. IsFiniteSet(jobs') /\ Cardinality(jobs') = Cardinality(jobs) - 1 /\ HeldOnce(free', jobs', sandboxes')
        BY <1>1, <1>2, <4>1, Zenon
      <4>3. Len(transpiled') + Cardinality(jobs') <= Len(transpiled) + Cardinality(jobs) - 1
        <5>1. Len(transpiled') = Len(transpiled)
          BY <4>1
        <5> QED BY <4>2, <5>1, Lengths
      <4> QED BY <1>1, <4>1, <4>2, <4>3 DEF TypeOK
    <3>2. CASE ~ZipCompleted
      <4>1. Zip(transpiled, Append(free, j.sandbox), jobs \ {j})
        BY <1>5, <3>2 DEF Emit
      <4>2. /\ \A k \in jobs \ {j} : k.sandbox # j.sandbox
            /\ \A i \in 1 .. Len(free) : free[i] # j.sandbox
        BY DEF HeldOnce
      <4>3. Append(free, j.sandbox) \in Seq(Sandboxes) /\ HeldOnce(Append(free, j.sandbox), jobs \ {j}, sandboxes)
        BY <1>2, <1>3, <4>2, AppendHeldOnce DEF TypeOK
      <4>4. HeldOnce(free', jobs', sandboxes)
        BY <4>1, <4>3, ZipHeldOnce
      <4>5. /\ transpiled' \in Seq(TranspiledMutant) /\ free' \in Seq(Sandboxes)
            /\ jobs' \subseteq Job /\ IsFiniteSet(jobs')
            /\ Len(transpiled') + Cardinality(jobs') <= Len(transpiled) + Cardinality(jobs \ {j})
        BY <1>1, <4>1, <4>3, ZipTypes DEF TypeOK
      <4>6. Len(transpiled') + Cardinality(jobs') <= Len(transpiled) + Cardinality(jobs) - 1
        BY <1>1, <4>5, Lengths
      <4> QED BY <4>4, <4>5, <4>6
    <3> QED BY <3>1, <3>2
  <2>2. ScheduleNext /\ results' = [results EXCEPT ![j.mutant] = status]
        /\ pipeline' \in {"completed", "active"}
    BY <1>5 DEF Emit
  <2>3. /\ taken' \in Mutants /\ queued' \in Seq(Mutants)
        /\ transpiling' \in {Idle} \cup [mutant : Mutants, sent : Sent]
        /\ currentMutatedFile' \in Files \cup {None} /\ view' = view
        /\ Len(queued') + Busy(transpiling') <= Len(queued) + Busy(transpiling) + 1
    BY <2>2, ScheduleTypes
  <2>4. Len(transpiled') \in Nat /\ Cardinality(jobs') \in Nat /\ Len(queued') \in Nat
        /\ Busy(transpiling') \in {0, 1}
    BY <2>1, <2>3, LenProperties, FS_CardinalityType DEF Busy
  <2>5. Buffered(queued', transpiling', transpiled', jobs') <= InitialConcurrency
    <3>1. Len(transpiled') + Cardinality(jobs') <= Len(transpiled) + Cardinality(jobs) - 1
      BY <2>1
    <3>2. Len(queued') + Busy(transpiling') <= Len(queued) + Busy(transpiling) + 1
      BY <2>3
    <3>3. Len(queued) + Busy(transpiling) + Len(transpiled) + Cardinality(jobs) <= InitialConcurrency
      BY <1>4 DEF Buffered
    <3>4. Len(queued') + Busy(transpiling') + Len(transpiled') + Cardinality(jobs') <= InitialConcurrency
      <4>1. /\ Len(queued) \in Nat /\ Busy(transpiling) \in Nat
            /\ Len(transpiled) \in Nat /\ Cardinality(jobs) \in Nat /\ InitialConcurrency \in Nat
        BY Lengths
      <4>2. Busy(transpiling') \in Nat
        BY <2>4
      <4> HIDE DEF IInv
      <4> QED BY <2>4, <3>1, <3>2, <3>3, <4>1, <4>2
    <3> QED BY <3>4 DEF Buffered
  <2>6. results' \in [Mutants -> Statuses \cup {"none"}]
    BY <1>3, <2>2 DEF TypeOK
  <2> QED BY <2>1, <2>2, <2>3, <2>5, <2>6
<1>6. CASE pipeline # "active"
  <2>1. jobs' = jobs \ {j} /\ UNCHANGED <<scheduler, zip, results, pipeline>>
    BY <1>6 DEF Emit
  <2>2. Buffered(queued', transpiling', transpiled', jobs') <= InitialConcurrency
    BY <1>1, <1>4, <2>1, Lengths DEF Buffered, scheduler, zip
  <2> QED BY <1>1, <1>2, <2>1, <2>2 DEF scheduler, zip, TypeOK
<1> QED
  BY <1>5, <1>6

LEMMA OutputsMembers ==
  ASSUME NEW outputs \in Outputs
  PROVE  DOMAIN outputs \subseteq OutputFiles /\ \A o \in DOMAIN outputs : outputs[o] \in SUBSET Mutants
<1>1. PICK fs \in SUBSET OutputFiles : outputs \in [fs -> SUBSET Mutants]
  BY DEF Outputs
<1> QED
  BY <1>1

LEMMA SentMembers ==
  ASSUME NEW sent \in Sent
  PROVE  DOMAIN sent \subseteq Files /\ \A f \in DOMAIN sent : sent[f] \in 0 .. NumMutants
<1>1. PICK fs \in SUBSET Files : sent \in [fs -> 0 .. NumMutants]
  BY DEF Sent
<1> QED
  BY <1>1

\* Whichever transpiler rejects, the views and the result have their types.
LEMMA TranspileResultType ==
  ASSUME TypeOK, transpiling # Idle, NEW failAt \in 0 .. Stages
  PROVE  /\ Known(failAt) \in [1 .. Stages -> [Files -> 0 .. NumMutants]]
         /\ TranspileResult(failAt) \in TranspiledMutant
<1>1. transpiling.mutant \in Mutants /\ transpiling.sent \in Sent
  BY DEF TypeOK
<1>2. \A f \in DOMAIN transpiling.sent : f \in Files /\ transpiling.sent[f] \in 0 .. NumMutants
  BY <1>1, SentMembers
<1>3. ASSUME NEW s \in 1 .. Stages
      PROVE  Overwrite(view[s], transpiling.sent) \in [Files -> 0 .. NumMutants]
  BY <1>2 DEF TypeOK, Overwrite
<1>4. Known(failAt) \in [1 .. Stages -> [Files -> 0 .. NumMutants]]
  BY <1>3 DEF Known, TypeOK
<1>5. TranspiledFiles(Known(failAt)) \in Outputs
  <2> DEFINE fs == DOMAIN transpiling.sent \cup (OutputFiles \ Files)
             content(o) == IF o \in Files THEN Shows(transpiling.sent[o])
                           ELSE UNION {Shows(Known(failAt)[Stages][f]) : f \in Files}
  <2>1. fs \in SUBSET OutputFiles
    BY <1>2 DEF OutputFiles
  <2>2. \A m \in 0 .. NumMutants : Shows(m) \in SUBSET Mutants
    BY PipelineAssumption DEF Shows, Mutants, None
  <2>3. ASSUME NEW o \in fs PROVE content(o) \in SUBSET Mutants
    <3>1. CASE o \in Files
      <4>1. transpiling.sent[o] \in 0 .. NumMutants
        BY <1>2, <3>1
      <4> QED BY <2>2, <3>1, <4>1
    <3>2. CASE o \notin Files
      <4>1. Bundled
        BY <1>2, <3>2 DEF OutputFiles
      <4>2. Stages \in 1 .. Stages
        BY <4>1, PipelineAssumption
      <4>3. \A f \in Files : Known(failAt)[Stages][f] \in 0 .. NumMutants
        BY <1>4, <4>2
      <4>4. \A f \in Files : Shows(Known(failAt)[Stages][f]) \in SUBSET Mutants
        BY <2>2, <4>3
      <4> HIDE DEF Known, Shows
      <4> QED BY <3>2, <4>4
    <3> QED BY <3>1, <3>2
  <2> HIDE DEF content, fs
  <2>4. [o \in fs |-> content(o)] \in [fs -> SUBSET Mutants]
    BY <2>3
  <2> QED BY <2>1, <2>4 DEF TranspiledFiles, Outputs, content, fs
<1>6. TranspileResult(failAt) \in TranspiledMutant
  <2> HIDE DEF Known, TranspiledFiles
  <2> DEFINE result == IF failAt = None THEN TranspiledFiles(Known(failAt)) ELSE <<>>
  <2>1. result \in Outputs
    BY <1>5, EmptyOutputs
  <2>2. (failAt # None) \in BOOLEAN
    OBVIOUS
  <2> HIDE DEF result
  <2> QED BY <1>1, <2>1, <2>2 DEF TranspileResult, TranspiledMutant, result
<1> QED
  BY <1>4, <1>6

\* One job goes on: the same mutant, in the same sandbox.
LEMMA AdvanceKeeps ==
  ASSUME IInv, NEW j \in jobs, NEW phase \in {"run", "reset"}, NEW status \in Statuses \cup {"none"},
         phase = "reset" => status \in Statuses,
         Advance(j, phase, status), UNCHANGED <<free, sandboxes>>
  PROVE  /\ jobs' \subseteq Job /\ IsFiniteSet(jobs')
         /\ Cardinality(jobs') \in Nat /\ Cardinality(jobs') <= Cardinality(jobs)
         /\ HeldOnce(free', jobs', sandboxes')
<1> DEFINE k == [j EXCEPT !.phase = phase, !.status = status]
<1>1. k \in Job /\ k.sandbox = j.sandbox
  BY DEF IInv, TypeOK, Job
<1>2. jobs' = (jobs \ {j}) \cup {k}
  BY DEF Advance
<1> HIDE DEF k
<1>3. IsFiniteSet(jobs \ {j}) /\ Cardinality(jobs \ {j}) = Cardinality(jobs) - 1 /\ Cardinality(jobs) \in Nat
  BY FS_RemoveElement, FS_CardinalityType DEF IInv, TypeOK
<1>4. /\ IsFiniteSet((jobs \ {j}) \cup {k})
      /\ Cardinality((jobs \ {j}) \cup {k}) = IF k \in jobs \ {j} THEN Cardinality(jobs \ {j})
                                               ELSE Cardinality(jobs \ {j}) + 1
  BY <1>3, FS_AddElement
<1>5. IsFiniteSet(jobs') /\ Cardinality(jobs') \in Nat
  BY <1>2, <1>4, FS_CardinalityType
<1>6. Cardinality(jobs') <= Cardinality(jobs)
  BY <1>2, <1>3, <1>4
<1>7. HeldOnce(free', jobs', sandboxes')
  <2>1. free' = free /\ sandboxes' = sandboxes /\ HeldOnce(free, jobs, sandboxes)
    BY DEF IInv
  <2> QED BY <1>1, <1>2, <2>1 DEF HeldOnce
<1>8. jobs' \subseteq Job
  BY <1>1, <1>2 DEF IInv, TypeOK
<1> QED
  BY <1>5, <1>6, <1>7, <1>8

\* BoundedBuffering', when what is buffered is not more than before.
LEMMA NotMore ==
  ASSUME IInv,
         Len(queued') + Busy(transpiling') + Len(transpiled') + Cardinality(jobs')
           <= Len(queued) + Busy(transpiling) + Len(transpiled) + Cardinality(jobs),
         Len(queued') \in Nat, Busy(transpiling') \in Nat, Len(transpiled') \in Nat, Cardinality(jobs') \in Nat
  PROVE  BoundedBuffering'
<1>1. /\ Len(queued) \in Nat /\ Busy(transpiling) \in Nat
      /\ Len(transpiled) \in Nat /\ Cardinality(jobs) \in Nat /\ InitialConcurrency \in Nat
  BY Lengths DEF IInv
<1>2. Len(queued) + Busy(transpiling) + Len(transpiled) + Cardinality(jobs) <= InitialConcurrency
  BY BufferedIsBounded DEF IInv, Buffered
<1>3. Len(queued') + Busy(transpiling') + Len(transpiled') + Cardinality(jobs') <= InitialConcurrency
  BY <1>1, <1>2
<1> QED
  BY <1>3 DEF BoundedBuffering, Busy

LEMMA TranspileStep == IInv /\ FinishTranspile => IInv'
<1> SUFFICES ASSUME IInv, FinishTranspile PROVE IInv'
  OBVIOUS
<1> TypeOK
  BY DEF IInv
<1>1. PICK failAt \in 0 .. Stages : /\ view' = Known(failAt)
                                    /\ Zip(Append(transpiled, TranspileResult(failAt)), free, jobs)
  BY DEF FinishTranspile
<1>2. /\ transpiling # Idle /\ Transpile(queued)
      /\ UNCHANGED <<taken, sandboxes, disk, results, pipeline, pool>>
  BY DEF FinishTranspile
<1>3. view' \in [1 .. Stages -> [Files -> 0 .. NumMutants]] /\ TranspileResult(failAt) \in TranspiledMutant
  BY <1>1, <1>2, TranspileResultType
<1>4. /\ Append(transpiled, TranspileResult(failAt)) \in Seq(TranspiledMutant)
      /\ Len(Append(transpiled, TranspileResult(failAt))) = Len(transpiled) + 1
  BY <1>3 DEF TypeOK
<1>5. /\ transpiled' \in Seq(TranspiledMutant) /\ free' \in Seq(Sandboxes)
      /\ jobs' \subseteq Job /\ IsFiniteSet(jobs')
      /\ Len(transpiled') + Cardinality(jobs')
           <= Len(Append(transpiled, TranspileResult(failAt))) + Cardinality(jobs)
  BY <1>1, <1>4, ZipTypes DEF TypeOK
<1>6. /\ queued' \in Seq(Mutants)
      /\ transpiling' \in {Idle} \cup [mutant : Mutants, sent : Sent]
      /\ currentMutatedFile' \in Files \cup {None}
      /\ Len(queued') + Busy(transpiling') = Len(queued)
  BY <1>2, TranspileTypes DEF TypeOK
<1>7. HeldOnce(free', jobs', sandboxes')
  <2>1. HeldOnce(free, jobs, sandboxes) /\ sandboxes' = sandboxes /\ free \in Seq(Sandboxes)
    BY <1>2 DEF IInv, TypeOK
  <2> QED BY <1>1, <2>1, ZipHeldOnce
<1>8. TypeOK'
  BY <1>2, <1>3, <1>5, <1>6 DEF TypeOK
<1>9. BoundedBuffering'
  <2>1. /\ Len(queued) \in Nat /\ Busy(transpiling) = 1
        /\ Len(transpiled) \in Nat /\ Cardinality(jobs) \in Nat
    BY <1>2, Lengths DEF Busy
  <2>2. /\ Len(queued') \in Nat /\ Busy(transpiling') \in Nat
        /\ Len(transpiled') \in Nat /\ Cardinality(jobs') \in Nat
    BY <1>5, <1>6, LenProperties, FS_CardinalityType DEF Busy
  <2>3. Len(transpiled') + Cardinality(jobs') <= Len(transpiled) + 1 + Cardinality(jobs)
    BY <1>4, <1>5
  <2>4. Len(queued') + Busy(transpiling') = Len(queued)
    BY <1>6
  <2> QED BY <2>1, <2>2, <2>3, <2>4, NotMore
<1>10. NoSandboxAfterDispose'
  BY <1>2 DEF IInv, NoSandboxAfterDispose
<1> QED
  BY <1>7, <1>8, <1>9, <1>10 DEF IInv

LEMMA CreationStep ==
  ASSUME IInv, NEW n \in Sandboxes, CreationResolves(n)
  PROVE  IInv'
<1> TypeOK
  BY DEF IInv
<1> DEFINE sbs == [sandboxes EXCEPT ![n] = "created"]
<1>1. /\ sbs \in [Sandboxes -> {"none", "creating", "created", "failed", "disposed"}]
      /\ Made(sandboxes) \subseteq Made(sbs) /\ n \in Made(sbs) /\ n \notin Made(sandboxes)
  BY DEF CreationResolves, TypeOK, Made
<1>2. /\ sandboxes[n] = "creating" /\ UNCHANGED <<scheduler, disk, results, pipeline, pool>>
      /\ StartSandbox(sbs, pipeline = "active" /\ ~(AllTranspiled /\ transpiled' = <<>>))
  BY DEF CreationResolves
<1> HIDE DEF sbs
<1>3. /\ sandboxes' \in [Sandboxes -> {"none", "creating", "created", "failed", "disposed"}]
      /\ Made(sandboxes') = Made(sbs)
  BY <1>1, <1>2, StartTypes
<1>4. HeldOnce(free, jobs, sbs)
  BY <1>1, MoreMade DEF IInv
<1>5. /\ transpiled' \in Seq(TranspiledMutant) /\ free' \in Seq(Sandboxes)
      /\ jobs' \subseteq Job /\ IsFiniteSet(jobs')
      /\ Len(transpiled') + Cardinality(jobs') <= Len(transpiled) + Cardinality(jobs)
      /\ HeldOnce(free', jobs', sbs)
  <2>1. CASE pipeline = "active" /\ ~ZipCompleted
    <3>1. Zip(transpiled, Append(free, n), jobs)
      BY <2>1 DEF CreationResolves
    <3>2. /\ \A j \in jobs : j.sandbox # n
          /\ \A i \in 1 .. Len(free) : free[i] # n
      BY <1>1 DEF IInv, HeldOnce
    <3>3. Append(free, n) \in Seq(Sandboxes) /\ HeldOnce(Append(free, n), jobs, sbs)
      BY <1>1, <1>4, <3>2, AppendHeldOnce DEF TypeOK
    <3>4. HeldOnce(free', jobs', sbs)
      BY <3>1, <3>3, ZipHeldOnce
    <3> QED BY <3>1, <3>3, <3>4, ZipTypes DEF TypeOK
  <2>2. CASE ~(pipeline = "active" /\ ~ZipCompleted)
    <3>1. transpiled' = transpiled /\ free' = free /\ jobs' = jobs
      BY <2>2 DEF CreationResolves, zip
    <3>2. Len(transpiled') + Cardinality(jobs') <= Len(transpiled) + Cardinality(jobs)
      BY <3>1, Lengths
    <3> QED BY <1>4, <3>1, <3>2 DEF TypeOK
  <2> QED BY <2>1, <2>2
<1>6. HeldOnce(free', jobs', sandboxes')
  BY <1>3, <1>5, MoreMade
<1>7. TypeOK'
  BY <1>2, <1>3, <1>5 DEF TypeOK, scheduler
<1>8. BoundedBuffering'
  <2>1. queued' = queued /\ transpiling' = transpiling
    BY <1>2 DEF scheduler
  <2>2. /\ Len(queued) \in Nat /\ Busy(transpiling) \in Nat
        /\ Len(transpiled) \in Nat /\ Cardinality(jobs) \in Nat
    BY Lengths
  <2>3. Len(transpiled') \in Nat /\ Cardinality(jobs') \in Nat
    BY <1>5, LenProperties, FS_CardinalityType
  <2>4. /\ Len(queued') = Len(queued) /\ Busy(transpiling') = Busy(transpiling)
    BY <2>1
  <2>5. Len(transpiled') + Cardinality(jobs') <= Len(transpiled) + Cardinality(jobs)
    BY <1>5
  <2> QED BY <2>2, <2>3, <2>4, <2>5, NotMore
<1>9. NoSandboxAfterDispose'
  BY <1>2 DEF IInv, NoSandboxAfterDispose
<1> QED
  BY <1>6, <1>7, <1>8, <1>9 DEF IInv

\* A job that ends with a result, whatever it wrote in its sandbox.
LEMMA EmitStep ==
  ASSUME IInv, NEW j \in jobs, NEW status \in Statuses, Emit(j, status), UNCHANGED <<sandboxes, pool>>,
         disk' \in [Sandboxes -> [OutputFiles -> SUBSET Mutants]]
  PROVE  IInv'
<1>1. /\ taken' \in Mutants /\ queued' \in Seq(Mutants)
      /\ transpiling' \in {Idle} \cup [mutant : Mutants, sent : Sent]
      /\ currentMutatedFile' \in Files \cup {None} /\ view' = view
      /\ transpiled' \in Seq(TranspiledMutant) /\ free' \in Seq(Sandboxes)
      /\ jobs' \subseteq Job /\ IsFiniteSet(jobs')
      /\ results' \in [Mutants -> Statuses \cup {"none"}]
      /\ pipeline' \in {"active", "completed", "failed"}
      /\ HeldOnce(free', jobs', sandboxes')
      /\ Buffered(queued', transpiling', transpiled', jobs') <= InitialConcurrency
  BY EmitKeeps
<1>2. TypeOK'
  BY <1>1 DEF IInv, TypeOK
<1>3. BoundedBuffering'
  BY <1>1 DEF BoundedBuffering, Buffered, Busy
<1>4. NoSandboxAfterDispose'
  BY DEF IInv, NoSandboxAfterDispose
<1> QED
  BY <1>1, <1>2, <1>3, <1>4 DEF IInv

\* A step of a job that goes on.
LEMMA AdvanceStep ==
  ASSUME IInv, NEW j \in jobs, NEW phase \in {"run", "reset"}, NEW status \in Statuses \cup {"none"},
         phase = "reset" => status \in Statuses,
         Advance(j, phase, status), UNCHANGED <<scheduler, zip, sandboxes, results, pipeline, pool>>,
         disk' \in [Sandboxes -> [OutputFiles -> SUBSET Mutants]]
  PROVE  IInv'
<1>1. /\ jobs' \subseteq Job /\ IsFiniteSet(jobs')
      /\ Cardinality(jobs') \in Nat /\ Cardinality(jobs') <= Cardinality(jobs)
      /\ HeldOnce(free', jobs', sandboxes')
  BY AdvanceKeeps DEF zip
<1>2. TypeOK'
  BY <1>1 DEF IInv, TypeOK, scheduler, zip
<1>3. BoundedBuffering'
  <2>1. queued' = queued /\ transpiling' = transpiling /\ transpiled' = transpiled
    BY DEF scheduler, zip
  <2>2. /\ Len(queued) \in Nat /\ Busy(transpiling) \in Nat
        /\ Len(transpiled) \in Nat /\ Cardinality(jobs) \in Nat
    BY Lengths DEF IInv
  <2>3. Len(queued') = Len(queued) /\ Busy(transpiling') = Busy(transpiling) /\ Len(transpiled') = Len(transpiled)
    BY <2>1
  <2> QED BY <1>1, <2>2, <2>3, NotMore
<1>4. NoSandboxAfterDispose'
  BY DEF IInv, NoSandboxAfterDispose
<1> QED
  BY <1>1, <1>2, <1>3, <1>4 DEF IInv

\* What is left of a disk when some files are written: still contents of files.
LEMMA DiskType ==
  ASSUME TypeOK, NEW n \in Sandboxes, NEW files, files \in [OutputFiles -> SUBSET Mutants],
         disk' = [disk EXCEPT ![n] = files]
  PROVE  disk' \in [Sandboxes -> [OutputFiles -> SUBSET Mutants]]
  BY DEF TypeOK

LEMMA JobSteps ==
  ASSUME IInv, NEW j \in jobs, EarlyResult(j) \/ WriteFiles(j) \/ TestsRun(j) \/ ResetFiles(j)
  PROVE  IInv'
<1> TypeOK
  BY DEF IInv
<1>1. /\ j.sandbox \in Sandboxes /\ j.status \in Statuses \cup {"none"}
      /\ \A o \in DOMAIN j.outputs : j.outputs[o] \in SUBSET Mutants
      /\ disk[j.sandbox] \in [OutputFiles -> SUBSET Mutants]
  <2>1. j.sandbox \in Sandboxes /\ j.outputs \in Outputs /\ j.status \in Statuses \cup {"none"}
    BY DEF TypeOK, Job
  <2> QED BY <2>1, OutputsMembers DEF TypeOK
<1>2. CASE EarlyResult(j)
  <2>1. Emit(j, j.status) /\ UNCHANGED <<sandboxes, disk, pool>>
    BY <1>2 DEF EarlyResult
  <2>2. j.status \in Statuses
    BY <1>2 DEF EarlyResult, TypeOK, Job
  <2> QED BY <2>1, <2>2, EmitStep DEF TypeOK
<1>3. CASE WriteFiles(j)
  <2>1. disk' = [disk EXCEPT ![j.sandbox] = Overwrite(disk[j.sandbox], j.outputs)]
    BY <1>3 DEF WriteFiles
  <2>2. Overwrite(disk[j.sandbox], j.outputs) \in [OutputFiles -> SUBSET Mutants]
    BY <1>1 DEF Overwrite
  <2>3. disk' \in [Sandboxes -> [OutputFiles -> SUBSET Mutants]]
    BY <1>1, <2>1, <2>2, DiskType
  <2> QED BY <1>3, <2>3, AdvanceStep DEF WriteFiles
<1>4. CASE TestsRun(j)
  <2>1. PICK runResult \in RunResults : Advance(j, "reset", DetermineMutantState(runResult))
    BY <1>4 DEF TestsRun
  <2>2. DetermineMutantState(runResult) \in Statuses
    BY DEF RunResults, DetermineMutantState, Statuses
  <2>3. UNCHANGED <<scheduler, zip, sandboxes, disk, results, pipeline, pool>>
    BY <1>4 DEF TestsRun
  <2> HIDE DEF DetermineMutantState
  <2> QED BY <2>1, <2>2, <2>3, AdvanceStep DEF TypeOK
<1>5. CASE ResetFiles(j)
  <2> DEFINE files == [o \in OutputFiles |-> IF o \in DOMAIN j.outputs THEN {} ELSE disk[j.sandbox][o]]
  <2>1. disk' = [disk EXCEPT ![j.sandbox] = files] /\ Emit(j, j.status) /\ UNCHANGED <<sandboxes, pool>>
    BY <1>5 DEF ResetFiles
  <2>2. files \in [OutputFiles -> SUBSET Mutants]
    BY <1>1
  <2>3. j.status \in Statuses
    BY <1>5 DEF ResetFiles, TypeOK, Job
  <2> HIDE DEF files
  <2>4. disk' \in [Sandboxes -> [OutputFiles -> SUBSET Mutants]]
    BY <1>1, <2>1, <2>2, DiskType
  <2> QED BY <2>1, <2>3, <2>4, EmitStep
<1> QED
  BY <1>2, <1>3, <1>4, <1>5

LEMMA RejectStep ==
  ASSUME IInv, NEW j \in jobs, RunMutantRejects(j)
  PROVE  IInv'
<1> TypeOK
  BY DEF IInv
<1>1. /\ j.sandbox \in Sandboxes
      /\ \A o \in DOMAIN j.outputs : j.outputs[o] \in SUBSET Mutants
      /\ disk[j.sandbox] \in [OutputFiles -> SUBSET Mutants]
  <2>1. j.sandbox \in Sandboxes /\ j.outputs \in Outputs
    BY DEF TypeOK, Job
  <2> QED BY <2>1, OutputsMembers DEF TypeOK
<1>2. /\ jobs' = jobs \ {j} /\ pipeline' \in {"active", "completed", "failed"}
      /\ UNCHANGED <<scheduler, zip, sandboxes, results, pool>>
  BY DEF RunMutantRejects, TypeOK
<1>3. /\ jobs \ {j} \subseteq Job /\ IsFiniteSet(jobs \ {j})
      /\ Cardinality(jobs \ {j}) = Cardinality(jobs) - 1
  BY FS_RemoveElement DEF TypeOK
<1>4. disk' \in [Sandboxes -> [OutputFiles -> SUBSET Mutants]]
  <2>1. PICK done \in SUBSET DOMAIN j.outputs :
          disk' = [disk EXCEPT ![j.sandbox] =
                     [o \in OutputFiles |-> IF o \notin done \/ j.phase = "run" THEN disk[j.sandbox][o]
                                            ELSE IF j.phase = "write" THEN j.outputs[o] ELSE {}]]
    BY DEF RunMutantRejects
  <2> DEFINE files == [o \in OutputFiles |-> IF o \notin done \/ j.phase = "run" THEN disk[j.sandbox][o]
                                             ELSE IF j.phase = "write" THEN j.outputs[o] ELSE {}]
  <2>2. files \in [OutputFiles -> SUBSET Mutants]
    BY <1>1
  <2>3. disk' = [disk EXCEPT ![j.sandbox] = files]
    BY <2>1
  <2> HIDE DEF files
  <2> QED BY <1>1, <2>2, <2>3, DiskType
<1>5. TypeOK'
  BY <1>2, <1>3, <1>4 DEF IInv, TypeOK, scheduler, zip
<1>6. HeldOnce(free', jobs', sandboxes')
  <2>1. HeldOnce(free, jobs \ {j}, sandboxes)
    BY FewerHeldOnce DEF IInv
  <2> QED BY <1>2, <2>1 DEF zip
<1>7. BoundedBuffering'
  <2>1. /\ Len(queued) \in Nat /\ Busy(transpiling) \in Nat
        /\ Len(transpiled) \in Nat /\ Cardinality(jobs) \in Nat
    BY Lengths
  <2>2. /\ Len(queued') = Len(queued) /\ Busy(transpiling') = Busy(transpiling)
        /\ Len(transpiled') = Len(transpiled)
    BY <1>2 DEF scheduler, zip
  <2>3. Cardinality(jobs') = Cardinality(jobs) - 1
    BY <1>2, <1>3, Zenon
  <2>4. Cardinality(jobs') \in Nat
    BY <1>2, <1>3, FS_CardinalityType, Zenon
  <2> QED BY <2>1, <2>2, <2>3, <2>4, NotMore
<1>8. NoSandboxAfterDispose'
  BY <1>2 DEF IInv, NoSandboxAfterDispose
<1> QED
  BY <1>5, <1>6, <1>7, <1>8 DEF IInv

\* Steps that only concern the creation and the disposal of sandboxes.
LEMMA PoolStep ==
  ASSUME IInv, UNCHANGED <<scheduler, zip, jobs, disk, results>>,
         sandboxes' \in [Sandboxes -> {"none", "creating", "created", "failed", "disposed"}],
         Made(sandboxes) \subseteq Made(sandboxes'), NoSandboxAfterDispose',
         pipeline' \in {"active", "completed", "failed"}, pool' \in {"open", "disposing", "disposed", "rejected"}
  PROVE  IInv'
<1>1. TypeOK'
  BY DEF IInv, TypeOK, scheduler, zip
<1>2. HeldOnce(free', jobs', sandboxes')
  <2>1. HeldOnce(free, jobs, sandboxes')
    BY MoreMade DEF IInv
  <2> QED BY <2>1 DEF zip
<1>3. BoundedBuffering'
  BY DEF IInv, BoundedBuffering, scheduler, zip
<1> QED
  BY <1>1, <1>2, <1>3 DEF IInv

-----------------------------------------------------------------------------
(* The invariant holds, and what follows from it. *)

LEMMA InitInv == Init => IInv
<1> SUFFICES ASSUME Init PROVE IInv
  OBVIOUS
<1>1. taken \in Mutants /\ taken <= InitialConcurrency /\ taken \in Nat \ {0} /\ 1 \in Mutants
  BY PipelineAssumption DEF Init, Mutants
<1>2. queued \in Seq(Mutants) /\ Len(queued) = taken - 1
  <2>1. queued = [i \in 1 .. taken - 1 |-> i + 1]
    BY DEF Init
  <2>2. \A i \in 1 .. taken - 1 : i + 1 \in Mutants
    BY <1>1, PipelineAssumption DEF Mutants
  <2>3. queued \in [1 .. taken - 1 -> Mutants] /\ taken - 1 \in Nat
    BY <1>1, <2>1, <2>2
  <2> QED BY <2>3
<1>3. transpiling \in [mutant : Mutants, sent : Sent] /\ transpiling # Idle
  <2>1. {FileOf[1]} \in SUBSET Files /\ 1 \in 0 .. NumMutants
    BY <1>1, PipelineAssumption
  <2>2. [f \in {FileOf[1]} |-> 1] \in Sent
    <3>1. [f \in {FileOf[1]} |-> 1] \in [{FileOf[1]} -> 0 .. NumMutants]
      BY <2>1
    <3> QED BY <2>1, <3>1 DEF Sent
  <2>3. transpiling = [mutant |-> 1, sent |-> [f \in {FileOf[1]} |-> 1]]
    BY DEF Init
  <2>4. transpiling.mutant # Idle.mutant
    BY <2>3 DEF Idle, None
  <2> QED BY <1>1, <2>2, <2>3, <2>4
<1>4. /\ transpiled \in Seq(TranspiledMutant) /\ Len(transpiled) = 0
      /\ free \in Seq(Sandboxes) /\ Len(free) = 0
  BY EmptySeq DEF Init
<1>5. jobs = {} /\ IsFiniteSet(jobs) /\ Cardinality(jobs) = 0
  BY FS_EmptySet DEF Init
<1>6. /\ currentMutatedFile \in Files \cup {None}
      /\ view \in [1 .. Stages -> [Files -> 0 .. NumMutants]]
  BY <1>1, PipelineAssumption DEF Init, None
<1>7. /\ sandboxes \in [Sandboxes -> {"none", "creating", "created", "failed", "disposed"}]
      /\ disk \in [Sandboxes -> [OutputFiles -> SUBSET Mutants]]
      /\ results \in [Mutants -> Statuses \cup {"none"}]
      /\ pipeline = "active" /\ pool = "open"
  BY DEF Init, Original
<1>8. TypeOK
  BY <1>1, <1>2, <1>3, <1>4, <1>5, <1>6, <1>7 DEF TypeOK
<1>9. HeldOnce(free, jobs, sandboxes)
  BY <1>4, <1>5 DEF HeldOnce
<1>10. BoundedBuffering
  BY <1>1, <1>2, <1>3, <1>4, <1>5, PipelineAssumption DEF BoundedBuffering
<1>11. NoSandboxAfterDispose
  BY <1>7 DEF NoSandboxAfterDispose
<1> QED
  BY <1>8, <1>9, <1>10, <1>11 DEF IInv

LEMMA NextInv == IInv /\ [Next]_vars => IInv'
<1> SUFFICES ASSUME IInv, [Next]_vars PROVE IInv'
  OBVIOUS
<1>1. CASE FinishTranspile
  BY <1>1, TranspileStep
<1>2. ASSUME NEW n \in Sandboxes, CreationResolves(n) PROVE IInv'
  BY <1>2, CreationStep
<1>3. ASSUME NEW n \in Sandboxes, CreationRejects(n) PROVE IInv'
  <2>1. /\ sandboxes[n] = "creating" /\ sandboxes' = [sandboxes EXCEPT ![n] = "failed"]
        /\ pool' = pool
    BY <1>3 DEF CreationRejects
  <2>2. /\ sandboxes' \in [Sandboxes -> {"none", "creating", "created", "failed", "disposed"}]
        /\ Made(sandboxes) \subseteq Made(sandboxes') /\ NoSandboxAfterDispose'
    BY <2>1 DEF IInv, TypeOK, Made, NoSandboxAfterDispose
  <2> QED BY <1>3, <2>2, PoolStep DEF CreationRejects, IInv, TypeOK
<1>4. CASE JobStep
  BY <1>4, JobSteps DEF JobStep
<1>5. ASSUME NEW j \in jobs, RunMutantRejects(j) PROVE IInv'
  BY <1>5, RejectStep
<1>6. CASE BeginDispose
  <2>1. sandboxes' = sandboxes /\ pipeline' = pipeline /\ NoSandboxAfterDispose' /\ pool' = "disposing"
    BY <1>6 DEF BeginDispose, NoSandboxAfterDispose
  <2> QED BY <1>6, <2>1, PoolStep DEF BeginDispose, IInv, TypeOK
<1>7. CASE DisposeRejects
  <2>1. sandboxes' = sandboxes /\ pipeline' = pipeline /\ NoSandboxAfterDispose' /\ pool' = "rejected"
    BY <1>7 DEF DisposeRejects, NoSandboxAfterDispose
  <2> QED BY <1>7, <2>1, PoolStep DEF DisposeRejects, IInv, TypeOK
<1>8. CASE DisposeSandboxes
  <2>1. /\ sandboxes' = [n \in Sandboxes |-> IF sandboxes[n] = "created" THEN "disposed" ELSE sandboxes[n]]
        /\ \A n \in Sandboxes : sandboxes[n] \in {"none", "created"}
        /\ pool' \in {"disposed", "rejected"} /\ pipeline' = pipeline
    BY <1>8 DEF DisposeSandboxes, DisposeCreated
  <2>2. /\ sandboxes' \in [Sandboxes -> {"none", "creating", "created", "failed", "disposed"}]
        /\ Made(sandboxes) \subseteq Made(sandboxes') /\ NoSandboxAfterDispose'
    BY <2>1 DEF Made, NoSandboxAfterDispose
  <2> QED BY <1>8, <2>1, <2>2, PoolStep DEF DisposeSandboxes, DisposeCreated, IInv, TypeOK
<1>9. CASE UNCHANGED vars
  BY <1>9 DEF vars, scheduler, zip, IInv, TypeOK, HeldOnce, Made, BoundedBuffering, NoSandboxAfterDispose
<1> QED
  BY <1>1, <1>2, <1>3, <1>4, <1>5, <1>6, <1>7, <1>8, <1>9 DEF Next

LEMMA InvHolds == Spec => []IInv
  BY InitInv, NextInv, PTL DEF Spec

\* Every variable of the pipeline keeps its type, for any chain of transpilers.
THEOREM TypeCorrect == Spec => []TypeOK
<1>1. IInv => TypeOK
  BY DEF IInv
<1> QED
  BY <1>1, InvHolds, PTL

\* No sandbox is given to two mutants or recycled too early, for any number of either.
THEOREM SandboxesAreNotShared == Spec => []OneMutantPerSandbox
<1>1. IInv => OneMutantPerSandbox
  BY DEF IInv, HeldOnce, OneMutantPerSandbox
<1> QED
  BY <1>1, InvHolds, PTL

\* The tickets bound what is kept in memory, whatever the pace of the sandboxes.
THEOREM BufferingIsBounded == Spec => []BoundedBuffering
<1>1. IInv => BoundedBuffering
  BY DEF IInv
<1> QED
  BY <1>1, InvHolds, PTL

\* A dispose() that resolved has disposed every sandbox that was ever begun.
THEOREM DisposeReachesAll == Spec => []NoSandboxAfterDispose
<1>1. IInv => NoSandboxAfterDispose
  BY DEF IInv
<1> QED
  BY <1>1, InvHolds, PTL

-----------------------------------------------------------------------------
(* MutationTestPipeline implements MutationTestRun, and tests see only their mutant, for any number of mutants, *)
(* files, tickets and sandboxes, if a bundling transpiler is the only one.  (With a chain in front of it neither *)
(* is true: see TranspiledIsOneMutant.)                                                                          *)

\* Without a bundle a chain can be of any length: only the files sent come out.
BundlerIsAlone == Bundled => Stages = 1

\* The mutants that were transpiled are 1 .. Done; those in the queue are the next.
Done == taken - Len(queued) - Busy(transpiling)

InOrder ==
  /\ \A i \in 1 .. Len(queued) : queued[i] = taken - Len(queued) + i
  /\ transpiling # Idle => transpiling.mutant = taken - Len(queued)
  /\ transpiling = Idle => queued = <<>>

\* The bundler knows no mutant in a file that it is not being sent, or will be sent next.
OneIsSent ==
  /\ transpiling # Idle =>
       /\ currentMutatedFile = FileOf[transpiling.mutant]
       /\ FileOf[transpiling.mutant] \in DOMAIN transpiling.sent
       /\ \A f \in DOMAIN transpiling.sent :
            transpiling.sent[f] = IF f = FileOf[transpiling.mutant] THEN transpiling.mutant ELSE None
  /\ Bundled => \A f \in Files : view[Stages][f] = None \/ f = currentMutatedFile
                                 \/ (transpiling # Idle /\ f \in DOMAIN transpiling.sent)

\* What is known of a transpiled mutant, and of one that is tested.
Isolated(t) == IF t.error THEN Stages > 0 ELSE Seen(t.outputs) = Shows(t.mutant)
Possible(j) ==
  /\ j.phase \in {"early", "reset"} => j.status \in Verdicts[j.mutant]
  /\ j.phase # "early" => j.mutant \notin NoTests \cup NoChange /\ Seen(j.outputs) = {j.mutant}

\* The mutants transpiled and not yet reported: each in one place.
Work(d, ts, js) ==
  /\ \A i \in 1 .. Len(ts) : ts[i].mutant <= d /\ Isolated(ts[i])
  /\ \A j \in js : j.mutant <= d /\ Possible(j)
  /\ \A i, k \in 1 .. Len(ts) : ts[i].mutant = ts[k].mutant => i = k
  /\ \A j, k \in js : j.mutant = k.mutant => j = k
  /\ \A i \in 1 .. Len(ts) : \A j \in js : j.mutant # ts[i].mutant

Listed(m, ts, js) == (\E i \in 1 .. Len(ts) : ts[i].mutant = m) \/ (\E j \in js : j.mutant = m)

NotReported == {m \in Mutants : m > Done \/ Listed(m, transpiled, jobs)}

\* While the run is active, what is not reported is still on its way.
Accounted == pipeline = "active" => \A m \in Mutants : (results[m] = "none") <=> (m \in NotReported)

\* The disk of a sandbox is that of the originals, but for the files of its mutant.
Clean(files) == \A o \in OutputFiles : files[o] = {}
Disks(ns, js, dk) ==
  /\ \A i \in 1 .. Len(ns) : Clean(dk[ns[i]])
  /\ \A j \in js : /\ j.phase \in {"early", "write"} => Clean(dk[j.sandbox])
                   /\ \A o \in OutputFiles \ DOMAIN j.outputs : dk[j.sandbox][o] = {}
                   /\ j.phase = "run" => Seen(dk[j.sandbox]) = {j.mutant}
UnmadeIsClean == \A n \in Sandboxes \ Made(sandboxes) : Clean(disk[n])

RInv == /\ InOrder /\ OneIsSent /\ Work(Done, transpiled, jobs) /\ Accounted
        /\ Disks(free, jobs, disk) /\ UnmadeIsClean
-----------------------------------------------------------------------------
(* The zip of mutants and sandboxes. *)

\* A mutant that is going to be tested shows in its files; the others have a verdict.
LEMMA RunMutantIsPossible ==
  ASSUME NEW t \in TranspiledMutant, NEW n \in Sandboxes, Isolated(t)
  PROVE  Possible(RunMutant(t, n))
<1>1. t.mutant \in Mutants /\ t.mutant # None
  BY PipelineAssumption DEF TranspiledMutant, Mutants, None
<1>2. ~t.error /\ t.mutant \in NoChange => Seen(t.outputs) = {}
  BY DEF Isolated, Shows
<1>3. ~t.error /\ t.mutant \notin NoChange => Seen(t.outputs) = {t.mutant}
  BY <1>1 DEF Isolated, Shows
<1> DEFINE early == RetrieveEarlyResult(t)
<1>4. early # "none" => early \in Verdicts[t.mutant]
  BY <1>1, <1>2, <1>3 DEF RetrieveEarlyResult, Changed, Verdicts, Isolated
<1>5. early = "none" => t.mutant \notin NoTests \cup NoChange /\ Seen(t.outputs) = {t.mutant}
  BY <1>1, <1>2, <1>3 DEF RetrieveEarlyResult, Changed
<1>6. RunMutant(t, n) = [mutant |-> t.mutant, sandbox |-> n, outputs |-> t.outputs, status |-> early,
                         phase |-> IF early = "none" THEN "write" ELSE "early"]
  BY DEF RunMutant
<1> HIDE DEF early
<1> QED
  BY <1>4, <1>5, <1>6 DEF Possible

LEMMA ZipWork ==
  ASSUME NEW ts \in Seq(TranspiledMutant), NEW ns \in Seq(Sandboxes), NEW js, NEW d, NEW dk,
         Work(d, ts, js), Disks(ns, js, dk), Zip(ts, ns, js)
  PROVE  /\ Work(d, transpiled', jobs') /\ Disks(free', jobs', dk)
         /\ \A m \in Mutants : Listed(m, transpiled', jobs') <=> Listed(m, ts, js)
<1>1. CASE ts # <<>> /\ ns # <<>>
  <2> DEFINE job == RunMutant(Head(ts), Head(ns))
  <2>1. transpiled' = Tail(ts) /\ free' = Tail(ns) /\ jobs' = js \cup {job}
    BY <1>1 DEF Zip
  <2>2. /\ Len(ns) \in Nat \ {0} /\ Len(Tail(ns)) = Len(ns) - 1 /\ Head(ns) = ns[1] /\ Head(ns) \in Sandboxes
        /\ \A i \in 1 .. Len(Tail(ns)) : Tail(ns)[i] = ns[i + 1]
    BY <1>1, HeadTailProperties, EmptySeq
  <2>3. /\ Len(ts) \in Nat \ {0} /\ Len(Tail(ts)) = Len(ts) - 1 /\ Head(ts) = ts[1] /\ Head(ts) \in TranspiledMutant
        /\ \A i \in 1 .. Len(Tail(ts)) : Tail(ts)[i] = ts[i + 1]
    BY <1>1, HeadTailProperties, EmptySeq
  <2>4. Isolated(ts[1]) /\ Clean(dk[ns[1]])
    BY <2>2, <2>3 DEF Work, Disks
  <2>5. Possible(job)
    BY <2>2, <2>3, <2>4, RunMutantIsPossible
  <2>6. job.mutant = ts[1].mutant /\ job.sandbox = ns[1] /\ job.phase \in {"early", "write"}
    BY <2>2, <2>3 DEF RunMutant
  <2> HIDE DEF job
  <2>7. Work(d, transpiled', jobs')
    <3>1. \A i \in 1 .. Len(Tail(ts)) : i + 1 \in 1 .. Len(ts) /\ i + 1 # 1 /\ 1 \in 1 .. Len(ts)
      BY <2>3
    <3>2. \A i \in 1 .. Len(Tail(ts)) : Tail(ts)[i].mutant <= d /\ Isolated(Tail(ts)[i])
      BY <2>3, <3>1 DEF Work
    <3>3. \A j \in js \cup {job} : j.mutant <= d /\ Possible(j)
      BY <2>3, <2>5, <2>6 DEF Work
    <3>4. \A i, k \in 1 .. Len(Tail(ts)) : Tail(ts)[i].mutant = Tail(ts)[k].mutant => i = k
      <4>1. \A i, k \in 1 .. Len(Tail(ts)) : ts[i + 1].mutant = ts[k + 1].mutant => i + 1 = k + 1
        BY <3>1 DEF Work
      <4> QED BY <2>3, <4>1
    <3>5. \A j, k \in js \cup {job} : j.mutant = k.mutant => j = k
      BY <2>3, <2>6 DEF Work
    <3>6. \A i \in 1 .. Len(Tail(ts)) : \A j \in js \cup {job} : j.mutant # Tail(ts)[i].mutant
      BY <2>3, <2>6, <3>1 DEF Work
    <3> QED BY <2>1, <3>2, <3>3, <3>4, <3>5, <3>6 DEF Work
  <2>8. Disks(free', jobs', dk)
    <3>1. \A i \in 1 .. Len(Tail(ns)) : Clean(dk[Tail(ns)[i]])
      <4>1. \A i \in 1 .. Len(Tail(ns)) : i + 1 \in 1 .. Len(ns) /\ Tail(ns)[i] = ns[i + 1]
        BY <2>2
      <4> QED BY <4>1 DEF Disks
    <3>2. Clean(dk[job.sandbox]) /\ job.phase # "run"
      BY <2>4, <2>6
    <3>3. \A o \in OutputFiles \ DOMAIN job.outputs : dk[job.sandbox][o] = {}
      BY <3>2 DEF Clean
    <3> QED BY <2>1, <3>1, <3>2, <3>3 DEF Disks
  <2>9. \A m \in Mutants : Listed(m, transpiled', jobs') <=> Listed(m, ts, js)
    <3> TAKE m \in Mutants
    <3>1. (\E i \in 1 .. Len(ts) : ts[i].mutant = m) <=> (ts[1].mutant = m
                                                           \/ \E i \in 1 .. Len(Tail(ts)) : Tail(ts)[i].mutant = m)
      <4>1. ASSUME NEW i \in 1 .. Len(ts), ts[i].mutant = m, i # 1
            PROVE  \E k \in 1 .. Len(Tail(ts)) : Tail(ts)[k].mutant = m
        <5>1. i - 1 \in 1 .. Len(Tail(ts)) /\ Tail(ts)[i - 1] = ts[i]
          BY <2>3, <4>1
        <5> QED BY <4>1, <5>1
      <4>2. ASSUME NEW i \in 1 .. Len(Tail(ts)), Tail(ts)[i].mutant = m
            PROVE  \E k \in 1 .. Len(ts) : ts[k].mutant = m
        <5>1. i + 1 \in 1 .. Len(ts) /\ Tail(ts)[i] = ts[i + 1]
          BY <2>3
        <5> QED BY <4>2, <5>1
      <4> QED BY <2>3, <4>1, <4>2
    <3> QED BY <2>1, <2>6, <3>1 DEF Listed
  <2> QED BY <2>7, <2>8, <2>9
<1>2. CASE ~(ts # <<>> /\ ns # <<>>)
  BY <1>2 DEF Zip
<1> QED
  BY <1>1, <1>2

\* The parts of Disks one by one.
LEMMA DisksByParts ==
  ASSUME NEW ns, NEW js, NEW dk,
         \A i \in 1 .. Len(ns) : Clean(dk[ns[i]]),
         \A j \in js : j.phase \in {"early", "write"} => Clean(dk[j.sandbox]),
         \A j \in js : \A o \in OutputFiles \ DOMAIN j.outputs : dk[j.sandbox][o] = {},
         \A j \in js : j.phase = "run" => Seen(dk[j.sandbox]) = {j.mutant}
  PROVE  Disks(ns, js, dk)
  BY DEF Disks

LEMMA FewerJobs ==
  ASSUME NEW ts, NEW ns, NEW js, NEW ks \in SUBSET js, NEW d, NEW dk, Work(d, ts, js), Disks(ns, js, dk)
  PROVE  Work(d, ts, ks) /\ Disks(ns, ks, dk)
  BY DEF Work, Disks

LEMMA AppendDisks ==
  ASSUME NEW ns \in Seq(Sandboxes), NEW n \in Sandboxes, NEW js, NEW dk, Disks(ns, js, dk), Clean(dk[n])
  PROVE  Disks(Append(ns, n), js, dk)
<1>1. /\ Len(Append(ns, n)) = Len(ns) + 1 /\ Len(ns) \in Nat
      /\ \A i \in 1 .. Len(ns) : Append(ns, n)[i] = ns[i]
      /\ Append(ns, n)[Len(ns) + 1] = n
  OBVIOUS
<1>2. \A i \in 1 .. Len(Append(ns, n)) : Clean(dk[Append(ns, n)[i]])
  BY <1>1 DEF Disks
<1> QED
  BY <1>2 DEF Disks

-----------------------------------------------------------------------------
(* The scheduler. *)

LEMMA DoneType ==
  ASSUME TypeOK
  PROVE  /\ Done \in Int /\ Len(queued) \in Nat /\ Busy(transpiling) \in {0, 1} /\ taken \in 1 .. NumMutants
         /\ NumMutants \in Nat /\ Len(transpiled) \in Nat
  BY Lengths, PipelineAssumption DEF TypeOK, Done, Mutants

\* What Transpile does to the order, when the next mutant is the first of ms.
LEMMA TranspileOrder ==
  ASSUME TypeOK, NEW ms \in Seq(Mutants), Transpile(ms), taken' \in Mutants,
         \A i \in 1 .. Len(ms) : ms[i] = taken' - Len(ms) + i
  PROVE  InOrder' /\ Done' = taken' - Len(ms)
<1>0. Len(ms) \in Nat /\ taken' \in Nat
  BY PipelineAssumption, LenProperties DEF Mutants
<1>1. CASE ms = <<>>
  BY <1>0, <1>1, EmptySeq DEF Transpile, InOrder, Done, Busy
<1>2. CASE ms # <<>>
  <2>1. /\ Head(ms) = ms[1] /\ Tail(ms) \in Seq(Mutants) /\ Len(Tail(ms)) = Len(ms) - 1 /\ Len(ms) \in Nat \ {0}
        /\ \A i \in 1 .. Len(Tail(ms)) : Tail(ms)[i] = ms[i + 1]
    BY <1>2, HeadTailProperties, EmptySeq
  <2>2. queued' = Tail(ms) /\ transpiling'.mutant = ms[1] /\ ms[1] \in Mutants
    BY <1>2, <2>1 DEF Transpile
  <2>3. transpiling' # Idle
    BY <2>2, PipelineAssumption DEF Idle, None, Mutants
  <2>4. Len(queued') = Len(ms) - 1 /\ Busy(transpiling') = 1
    BY <2>1, <2>2, <2>3 DEF Busy
  <2>5. \A i \in 1 .. Len(queued') : queued'[i] = taken' - Len(queued') + i
    <3>1. \A i \in 1 .. Len(Tail(ms)) : i + 1 \in 1 .. Len(ms) /\ Tail(ms)[i] = taken' - Len(ms) + (i + 1)
      BY <2>1
    <3> QED BY <1>0, <2>1, <2>2, <3>1
  <2>6. transpiling'.mutant = taken' - Len(queued')
    BY <1>0, <2>1, <2>2, <2>4
  <2> QED BY <1>0, <2>3, <2>4, <2>5, <2>6 DEF InOrder, Done
<1> QED
  BY <1>1, <1>2

\* A ticket adds the next mutant at the end; the mutants done are the same.
LEMMA ScheduleOrder ==
  ASSUME TypeOK, InOrder, ScheduleNext
  PROVE  InOrder' /\ Done' = Done
<1>0. /\ Len(queued) \in Nat /\ Busy(transpiling) \in {0, 1} /\ taken \in 1 .. NumMutants /\ NumMutants \in Nat
  BY DoneType
<1>1. CASE taken = NumMutants
  BY <1>1 DEF ScheduleNext, scheduler, InOrder, Done
<1>2. CASE taken # NumMutants
  <2>1. taken' = taken + 1 /\ taken' \in Mutants
    BY <1>0, <1>2 DEF ScheduleNext, Mutants
  <2>2. CASE transpiling = Idle
    <3>1. Transpile(<<taken + 1>>) /\ <<taken + 1>> \in Seq(Mutants) /\ Len(<<taken + 1>>) = 1
      BY <1>2, <2>1, <2>2 DEF ScheduleNext
    <3>2. \A i \in 1 .. 1 : <<taken + 1>>[i] = taken' - 1 + i
      BY <1>0, <2>1
    <3>3. InOrder' /\ Done' = taken' - 1
      BY <2>1, <3>1, <3>2, TranspileOrder
    <3>4. Len(queued) = 0 /\ Busy(transpiling) = 0
      BY <2>2 DEF InOrder, Busy
    <3> QED BY <1>0, <2>1, <3>3, <3>4 DEF Done
  <2>3. CASE transpiling # Idle
    <3>1. queued' = Append(queued, taken + 1) /\ transpiling' = transpiling
      BY <1>2, <2>3 DEF ScheduleNext
    <3>2. /\ Len(queued') = Len(queued) + 1
          /\ \A i \in 1 .. Len(queued) : queued'[i] = queued[i]
          /\ queued'[Len(queued) + 1] = taken + 1
      BY <2>1, <3>1 DEF TypeOK
    <3>3. \A i \in 1 .. Len(queued') : queued'[i] = taken' - Len(queued') + i
      BY <1>0, <2>1, <3>2 DEF InOrder
    <3>4. transpiling'.mutant = taken' - Len(queued')
      BY <1>0, <2>1, <2>3, <3>1, <3>2 DEF InOrder
    <3>5. Done' = Done
      BY <1>0, <2>1, <3>1, <3>2 DEF Done
    <3> QED BY <2>3, <3>1, <3>3, <3>4, <3>5 DEF InOrder
  <2> QED BY <2>2, <2>3
<1> QED
  BY <1>1, <1>2

\* The file of the mutant before is sent along, so the bundler forgets that mutant.
LEMMA TranspileSends ==
  ASSUME TypeOK, NEW ms \in Seq(Mutants), Transpile(ms),
         Bundled => \A f \in Files : view'[Stages][f] = None \/ f = currentMutatedFile
  PROVE  OneIsSent'
<1>1. CASE ms = <<>>
  BY <1>1 DEF Transpile, OneIsSent
<1>2. CASE ms # <<>>
  <2>1. Head(ms) \in Mutants
    BY <1>2, HeadTailProperties
  <2> DEFINE m == Head(ms)
  <2>2. FileOf[m] \in Files /\ None \notin Files
    BY <2>1, PipelineAssumption
  <2>3. /\ currentMutatedFile' = FileOf[m] /\ transpiling'.mutant = m
        /\ transpiling'.sent = FilesToTranspile(m)
    BY <1>2 DEF Transpile
  <2> HIDE DEF m
  <2>4. /\ DOMAIN FilesToTranspile(m) = {FileOf[m]} \cup ({currentMutatedFile} \ {None})
        /\ \A f \in DOMAIN FilesToTranspile(m) : FilesToTranspile(m)[f] = IF f = FileOf[m] THEN m ELSE None
    BY DEF FilesToTranspile
  <2>5. transpiling' # Idle
    <3>1. m # None
      BY <2>1, PipelineAssumption DEF m, Mutants, None
    <3> QED BY <2>3, <3>1 DEF Idle
  <2>6. Bundled => \A f \in Files : view'[Stages][f] = None \/ f \in DOMAIN FilesToTranspile(m)
    BY <2>2, <2>4
  <2> HIDE DEF FilesToTranspile
  <2> QED BY <2>3, <2>4, <2>5, <2>6 DEF OneIsSent
<1> QED
  BY <1>1, <1>2

LEMMA ScheduleSends ==
  ASSUME TypeOK, OneIsSent, ScheduleNext
  PROVE  OneIsSent'
<1>1. CASE taken = NumMutants
  BY <1>1 DEF ScheduleNext, scheduler, OneIsSent
<1>2. CASE taken # NumMutants /\ transpiling # Idle
  BY <1>2 DEF ScheduleNext, OneIsSent
<1>3. CASE taken # NumMutants /\ transpiling = Idle
  <2>1. Transpile(<<taken + 1>>) /\ view' = view
    BY <1>3 DEF ScheduleNext
  <2>2. <<taken + 1>> \in Seq(Mutants)
    BY <1>3, DoneType DEF Mutants
  <2>3. Bundled => \A f \in Files : view'[Stages][f] = None \/ f = currentMutatedFile
    BY <1>3, <2>1 DEF OneIsSent
  <2> QED BY <2>1, <2>2, <2>3, TranspileSends
<1> QED
  BY <1>1, <1>2, <1>3

\* What the bundler knows when it has answered: the mutant sent, and no other.
LEMMA BundlerKnowsOne ==
  ASSUME TypeOK, OneIsSent, BundlerIsAlone, transpiling # Idle, Bundled, NEW failAt \in 0 .. Stages, NEW f \in Files
  PROVE  Known(failAt)[Stages][f] = IF f = currentMutatedFile THEN transpiling.mutant ELSE None
<1>1. Stages = 1 /\ Stages \in 1 .. Stages /\ (failAt = 0 \/ Stages <= failAt)
  BY DEF BundlerIsAlone
<1>2. Known(failAt)[Stages] = Overwrite(view[Stages], transpiling.sent)
  BY <1>1 DEF Known, None
<1>3. DOMAIN view[Stages] = Files
  BY <1>1 DEF TypeOK
<1>4. Known(failAt)[Stages][f] = IF f \in DOMAIN transpiling.sent THEN transpiling.sent[f] ELSE view[Stages][f]
  BY <1>2, <1>3 DEF Overwrite
<1> QED
  BY <1>4 DEF OneIsSent

LEMMA ResultIsIsolated ==
  ASSUME TypeOK, OneIsSent, BundlerIsAlone, transpiling # Idle, NEW failAt \in 0 .. Stages
  PROVE  Isolated(TranspileResult(failAt))
<1> DEFINE m == transpiling.mutant
<1>1. CASE failAt # None
  <2>1. Stages > 0
    BY <1>1, PipelineAssumption DEF None
  <2> QED BY <1>1, <2>1 DEF Isolated, TranspileResult
<1>2. CASE failAt = None
  <2> DEFINE outputs == TranspiledFiles(Known(failAt))
  <2>1. transpiling.mutant \in Mutants /\ transpiling.sent \in Sent
    BY DEF TypeOK
  <2>2. /\ DOMAIN outputs = DOMAIN transpiling.sent \cup (OutputFiles \ Files)
        /\ \A o \in DOMAIN outputs :
             outputs[o] = IF o \in Files THEN Shows(transpiling.sent[o])
                          ELSE UNION {Shows(Known(failAt)[Stages][f]) : f \in Files}
    BY DEF TranspiledFiles
  <2> HIDE DEF outputs
  <2>3. Shows(None) = {} /\ FileOf[m] \in Files /\ DOMAIN transpiling.sent \subseteq Files
    BY <2>1, SentMembers, PipelineAssumption DEF Shows
  <2>4. FileOf[m] \in DOMAIN outputs /\ outputs[FileOf[m]] = Shows(m)
    BY <2>2, <2>3 DEF OneIsSent
  <2>5. ASSUME NEW o \in DOMAIN outputs PROVE outputs[o] \subseteq Shows(m)
    <3>1. CASE o \in Files
      <4>1. o \in DOMAIN transpiling.sent
        BY <2>2, <3>1
      <4>2. transpiling.sent[o] \in {m, None}
        BY <4>1 DEF OneIsSent
      <4> QED BY <2>2, <2>3, <3>1, <4>2
    <3>2. CASE o \notin Files
      <4>1. Bundled
        BY <2>2, <2>3, <3>2 DEF OutputFiles
      <4>2. \A f \in Files : Known(failAt)[Stages][f] \in {m, None}
        BY <4>1, BundlerKnowsOne
      <4>3. \A f \in Files : Shows(Known(failAt)[Stages][f]) \subseteq Shows(m)
        BY <2>3, <4>2
      <4> HIDE DEF Known, Shows, m
      <4>4. outputs[o] = UNION {Shows(Known(failAt)[Stages][f]) : f \in Files}
        BY <2>2, <3>2
      <4>5. ASSUME NEW x \in UNION {Shows(Known(failAt)[Stages][f]) : f \in Files} PROVE x \in Shows(m)
        <5>1. PICK f \in Files : x \in Shows(Known(failAt)[Stages][f])
          OBVIOUS
        <5> QED BY <4>3, <5>1
      <4> QED BY <4>4, <4>5
    <3> QED BY <3>1, <3>2
  <2>6. Seen(outputs) = Shows(m)
    BY <2>4, <2>5 DEF Seen
  <2>7. TranspileResult(failAt) = [mutant |-> m, error |-> FALSE, outputs |-> outputs]
    BY <1>2 DEF TranspileResult, outputs
  <2> HIDE DEF TranspileResult
  <2> QED BY <2>6, <2>7 DEF Isolated
<1> QED
  BY <1>1, <1>2

-----------------------------------------------------------------------------
(* The steps. *)

\* What an action of the run may do to the reporter: nothing, a report, or a failure.
AbstractStep == [Abstract!Next]_(Abstract!runVars)

Context == BundlerIsAlone /\ IInv /\ RInv

LEMMA Facts ==
  ASSUME Context
  PROVE  /\ TypeOK /\ HeldOnce(free, jobs, sandboxes) /\ InOrder /\ OneIsSent
         /\ Work(Done, transpiled, jobs) /\ Disks(free, jobs, disk) /\ UnmadeIsClean
         /\ free \in Seq(Sandboxes) /\ transpiled \in Seq(TranspiledMutant) /\ jobs \subseteq Job
         /\ BundlerIsAlone
  BY DEF Context, IInv, RInv, TypeOK

LEMMA TranspileRefines ==
  ASSUME Context, FinishTranspile
  PROVE  RInv' /\ AbstractStep
<1> USE Facts
<1>1. PICK failAt \in 0 .. Stages : /\ view' = Known(failAt)
                                    /\ Zip(Append(transpiled, TranspileResult(failAt)), free, jobs)
  BY DEF FinishTranspile
<1>2. /\ transpiling # Idle /\ Transpile(queued) /\ pipeline = "active"
      /\ UNCHANGED <<taken, sandboxes, disk, results, pipeline, pool>>
  BY DEF FinishTranspile
<1> DEFINE t == TranspileResult(failAt)
           ts == Append(transpiled, t)
<1>3. t \in TranspiledMutant /\ Isolated(t) /\ t.mutant = Done + 1
  <2>1. t \in TranspiledMutant /\ Isolated(t)
    BY <1>2, TranspileResultType, ResultIsIsolated
  <2>2. t.mutant = taken - Len(queued)
    BY <1>2 DEF TranspileResult, InOrder
  <2>3. Done + 1 = taken - Len(queued)
    BY <1>2, DoneType DEF Done, Busy
  <2> QED BY <2>1, <2>2, <2>3
<1>4. InOrder' /\ Done' = Done + 1
  <2>1. queued \in Seq(Mutants) /\ taken' = taken /\ taken \in Mutants
    BY <1>2 DEF TypeOK
  <2>2. InOrder' /\ Done' = taken - Len(queued)
    BY <1>2, <2>1, TranspileOrder DEF InOrder
  <2> QED BY <1>2, <2>2, DoneType DEF Done, Busy
<1>5. OneIsSent'
  <2>1. Bundled => \A f \in Files : view'[Stages][f] = None \/ f = currentMutatedFile
    BY <1>1, <1>2, BundlerKnowsOne
  <2>2. queued \in Seq(Mutants)
    BY DEF TypeOK
  <2> QED BY <1>2, <2>1, <2>2, TranspileSends
<1> HIDE DEF t
<1>6. /\ ts \in Seq(TranspiledMutant) /\ Len(ts) = Len(transpiled) + 1 /\ Len(transpiled) \in Nat
      /\ \A i \in 1 .. Len(transpiled) : ts[i] = transpiled[i]
      /\ ts[Len(transpiled) + 1] = t
  BY <1>3
<1> HIDE DEF ts
<1>7. Work(Done + 1, ts, jobs)
  <2>1. \A i \in 1 .. Len(transpiled) : transpiled[i].mutant <= Done /\ transpiled[i].mutant \in Nat
    <3>1. \A i \in 1 .. Len(transpiled) : transpiled[i] \in TranspiledMutant
      BY ElementOfSeq
    <3> QED BY <3>1 DEF Work, TranspiledMutant, Mutants
  <2>2. \A j \in jobs : j.mutant <= Done /\ j.mutant \in Nat
    BY DEF Work, Job, Mutants
  <2>3. Done \in Int
    BY DoneType
  <2>4. \A i \in 1 .. Len(ts) : ts[i].mutant <= Done + 1 /\ Isolated(ts[i])
    BY <1>3, <1>6, <2>1, <2>3 DEF Work
  <2>5. \A j \in jobs : j.mutant <= Done + 1 /\ Possible(j)
    BY <2>2, <2>3 DEF Work
  <2>6. \A i, k \in 1 .. Len(ts) : ts[i].mutant = ts[k].mutant => i = k
    BY <1>3, <1>6, <2>1, <2>3 DEF Work
  <2>7. \A i \in 1 .. Len(ts) : \A j \in jobs : j.mutant # ts[i].mutant
    BY <1>3, <1>6, <2>2, <2>3 DEF Work
  <2>8. \A j, k \in jobs : j.mutant = k.mutant => j = k
    BY DEF Work
  <2> QED BY <2>4, <2>5, <2>6, <2>7, <2>8 DEF Work
<1>8. /\ Work(Done + 1, transpiled', jobs') /\ Disks(free', jobs', disk)
      /\ \A m \in Mutants : Listed(m, transpiled', jobs') <=> Listed(m, ts, jobs)
  BY <1>1, <1>6, <1>7, ZipWork DEF ts, t
<1>9. \A m \in Mutants : Listed(m, ts, jobs) <=> (m = Done + 1 \/ Listed(m, transpiled, jobs))
  <2> TAKE m \in Mutants
  <2>1. (\E i \in 1 .. Len(ts) : ts[i].mutant = m) <=> (m = Done + 1 \/ \E i \in 1 .. Len(transpiled) : transpiled[i].mutant = m)
    BY <1>3, <1>6
  <2> QED BY <2>1 DEF Listed
<1>10. Accounted'
  <2>1. \A m \in Mutants : (m > Done + 1 \/ m = Done + 1) <=> m > Done
    BY DoneType DEF Mutants
  <2>2. NotReported' = NotReported
    BY <1>4, <1>8, <1>9, <2>1 DEF NotReported
  <2> QED BY <1>2, <2>2 DEF Accounted, Context, RInv
<1>11. UnmadeIsClean' /\ Disks(free', jobs', disk') /\ Work(Done', transpiled', jobs')
  BY <1>2, <1>4, <1>8 DEF UnmadeIsClean, Made
<1>12. AbstractStep
  BY <1>2 DEF AbstractStep, Abstract!runVars
<1> QED
  BY <1>4, <1>5, <1>10, <1>11, <1>12 DEF RInv

\* Everything has been reported but the mutant of the last job.
LEMMA LastJob ==
  ASSUME Context, pipeline = "active", NEW j \in jobs
  PROVE  (ZipCompleted /\ jobs = {j}) <=> \A other \in Mutants \ {j.mutant} : results[other] # "none"
<1> USE Facts
<1>0. /\ \A m \in Mutants : (results[m] = "none") <=> (m > Done \/ Listed(m, transpiled, jobs))
      /\ j.mutant \in Mutants /\ j.mutant <= Done
      /\ Done = taken - Len(queued) - Busy(transpiling)
      /\ Len(queued) \in Nat /\ Busy(transpiling) \in {0, 1} /\ taken \in 1 .. NumMutants
      /\ NumMutants \in Nat /\ Len(transpiled) \in Nat /\ Done \in Int
  <2>1. \A m \in Mutants : (results[m] = "none") <=> (m > Done \/ Listed(m, transpiled, jobs))
    BY DEF Context, RInv, Accounted, NotReported
  <2>2. j.mutant \in Mutants /\ j.mutant <= Done
    BY DEF Job, Work
  <2> QED BY <2>1, <2>2, DoneType DEF Done
<1>1. ASSUME ZipCompleted, jobs = {j}, NEW other \in Mutants \ {j.mutant}
      PROVE  results[other] # "none"
  <2>1. taken = NumMutants /\ Len(queued) = 0 /\ Busy(transpiling) = 0 /\ transpiled = <<>> /\ Len(transpiled) = 0
    BY <1>1, EmptySeq DEF ZipCompleted, AllTranspiled, Busy
  <2>2. ~(other > Done)
    BY <1>0, <2>1 DEF Mutants
  <2>3. ~Listed(other, transpiled, jobs)
    BY <1>1, <2>1 DEF Listed
  <2> QED BY <1>0, <2>2, <2>3
<1>2. ASSUME \A other \in Mutants \ {j.mutant} : results[other] # "none"
      PROVE  ZipCompleted /\ jobs = {j}
  <2>1. Done >= NumMutants
    <3>1. SUFFICES ASSUME Done < NumMutants PROVE FALSE
      BY <1>0
    <3>2. Done + 1 \in Mutants /\ Done + 1 # j.mutant /\ Done + 1 > Done
      BY <1>0, <3>1 DEF Mutants
    <3> QED BY <1>0, <1>2, <3>2
  <2>2. taken = NumMutants /\ Len(queued) = 0 /\ Busy(transpiling) = 0
    BY <1>0, <2>1
  <2>3. AllTranspiled
    <3>1. queued = <<>>
      BY <2>2, EmptySeq DEF TypeOK
    <3>2. transpiling = Idle
      BY <2>2 DEF Busy
    <3> QED BY <2>2, <3>1, <3>2 DEF AllTranspiled
  <2>4. transpiled = <<>>
    <3>1. SUFFICES ASSUME transpiled # <<>> PROVE FALSE
      OBVIOUS
    <3>2. 1 \in 1 .. Len(transpiled)
      BY <1>0, <3>1, EmptySeq
    <3>3. transpiled[1].mutant \in Mutants
      <4>1. transpiled[1] \in TranspiledMutant
        BY <3>2, ElementOfSeq
      <4> QED BY <4>1 DEF TranspiledMutant
    <3>4. transpiled[1].mutant # j.mutant /\ Listed(transpiled[1].mutant, transpiled, jobs)
      BY <3>2 DEF Work, Listed
    <3> QED BY <1>0, <1>2, <3>3, <3>4
  <2>5. jobs = {j}
    <3>1. SUFFICES ASSUME NEW k \in jobs, k # j PROVE FALSE
      OBVIOUS
    <3>2. k.mutant \in Mutants /\ k.mutant # j.mutant /\ Listed(k.mutant, transpiled, jobs)
      BY <3>1 DEF Work, Listed, Job
    <3> QED BY <1>0, <1>2, <3>2
  <2> QED BY <2>3, <2>4, <2>5 DEF ZipCompleted
<1> QED
  BY <1>1, <1>2

\* A job that ends is a report, and its sandbox is clean for the next mutant.
LEMMA EmitRefines ==
  ASSUME Context, NEW j \in jobs, NEW status \in Verdicts[j.mutant], Emit(j, status),
         UNCHANGED <<sandboxes, pool>>, Clean(disk'[j.sandbox]),
         \A n \in Sandboxes \ {j.sandbox} : disk'[n] = disk[n]
  PROVE  RInv' /\ AbstractStep
<1> USE Facts
<1>0. /\ j.sandbox \in Sandboxes /\ j.sandbox \in Made(sandboxes)
      /\ j.mutant \in Mutants /\ j.mutant <= Done /\ Done \in Int
  BY DoneType DEF Job, HeldOnce, Work
<1>1. /\ Work(Done, transpiled, jobs \ {j}) /\ Disks(free, jobs \ {j}, disk')
      /\ UnmadeIsClean'
  <2>1. Work(Done, transpiled, jobs \ {j}) /\ Disks(free, jobs \ {j}, disk)
    BY FewerJobs
  <2>2. \A k \in jobs \ {j} : k.sandbox \in Sandboxes /\ k.sandbox # j.sandbox
    BY DEF HeldOnce, Job
  <2>3. \A i \in 1 .. Len(free) : free[i] \in Sandboxes /\ free[i] # j.sandbox
    BY DEF HeldOnce, Made
  <2>4. Disks(free, jobs \ {j}, disk')
    BY <2>1, <2>2, <2>3 DEF Disks
  <2>5. UnmadeIsClean'
    BY <1>0 DEF UnmadeIsClean, Made
  <2> QED BY <2>1, <2>4, <2>5
<1>2. \A m \in Mutants : Listed(m, transpiled, jobs \ {j}) <=> (Listed(m, transpiled, jobs) /\ m # j.mutant)
  BY DEF Listed, Work
<1>3. CASE pipeline = "active"
  <2>1. /\ Work(Done, transpiled', jobs') /\ Disks(free', jobs', disk')
        /\ \A m \in Mutants : Listed(m, transpiled', jobs') <=> Listed(m, transpiled, jobs \ {j})
    <3>1. CASE ZipCompleted
      <4>1. transpiled' = transpiled /\ free' = free /\ jobs' = jobs \ {j}
        BY <1>3, <3>1 DEF Emit, zip
      <4> QED BY <1>1, <4>1
    <3>2. CASE ~ZipCompleted
      <4>1. Zip(transpiled, Append(free, j.sandbox), jobs \ {j})
        BY <1>3, <3>2 DEF Emit
      <4>2. Disks(Append(free, j.sandbox), jobs \ {j}, disk')
        BY <1>0, <1>1, AppendDisks
      <4>3. Append(free, j.sandbox) \in Seq(Sandboxes)
        BY <1>0
      <4> QED BY <1>1, <4>1, <4>2, <4>3, ZipWork
    <3> QED BY <3>1, <3>2
  <2>2. /\ ScheduleNext /\ results' = [results EXCEPT ![j.mutant] = status]
        /\ pipeline' = IF ZipCompleted /\ jobs = {j} THEN "completed" ELSE "active"
    BY <1>3 DEF Emit
  <2>3. InOrder' /\ Done' = Done /\ OneIsSent'
    BY <2>2, ScheduleOrder, ScheduleSends
  <2>4. /\ results[j.mutant] = "none" /\ status # "none"
        /\ \A m \in Mutants : results'[m] = IF m = j.mutant THEN status ELSE results[m]
    <3>1. Listed(j.mutant, transpiled, jobs)
      BY DEF Listed
    <3>2. results[j.mutant] = "none"
      BY <1>0, <1>3, <3>1 DEF Context, RInv, Accounted, NotReported
    <3>3. status # "none"
      BY <1>0 DEF Verdicts
    <3> QED BY <2>2, <3>2, <3>3 DEF TypeOK
  <2>5. Accounted'
    <3>1. \A m \in Mutants : (results'[m] = "none") <=> (m > Done \/ Listed(m, transpiled', jobs'))
      <4> TAKE m \in Mutants
      <4>1. CASE m = j.mutant
        <5>1. ~(m > Done)
          BY <1>0, <4>1 DEF Mutants
        <5> QED BY <1>2, <2>1, <2>4, <4>1, <5>1
      <4>2. CASE m # j.mutant
        <5>1. (results[m] = "none") <=> (m > Done \/ Listed(m, transpiled, jobs))
          BY <1>3 DEF Context, RInv, Accounted, NotReported
        <5> QED BY <1>2, <2>1, <2>4, <4>2, <5>1
      <4> QED BY <4>1, <4>2
    <3> QED BY <2>3, <3>1 DEF Accounted, NotReported
  <2>6. Abstract!Report(j.mutant)
    <3>1. pipeline' = IF \A other \in Mutants \ {j.mutant} : results[other] # "none"
                      THEN "completed" ELSE "active"
      BY <1>3, <2>2, LastJob
    <3>2. status \in Verdicts[j.mutant]
      OBVIOUS
    <3> QED BY <1>3, <2>2, <2>4, <3>1, <3>2 DEF Abstract!Report
  <2>7. AbstractStep
    BY <1>0, <2>6 DEF AbstractStep, Abstract!Next
  <2> QED BY <1>1, <2>1, <2>3, <2>5, <2>7 DEF RInv
<1>4. CASE pipeline # "active"
  <2>1. jobs' = jobs \ {j} /\ UNCHANGED <<scheduler, zip, results, pipeline>>
    BY <1>4 DEF Emit
  <2>2. InOrder' /\ OneIsSent' /\ Done' = Done
    BY <2>1 DEF InOrder, OneIsSent, Done, scheduler
  <2>3. Accounted' /\ AbstractStep
    BY <1>4, <2>1 DEF Accounted, AbstractStep, Abstract!runVars
  <2>4. Work(Done', transpiled', jobs') /\ Disks(free', jobs', disk')
    BY <1>1, <2>1, <2>2 DEF zip
  <2> QED BY <1>1, <2>2, <2>3, <2>4 DEF RInv
<1> QED
  BY <1>3, <1>4

\* A job that goes on is no report.
LEMMA AdvanceRefines ==
  ASSUME Context, NEW j \in jobs, NEW phase \in {"run", "reset"}, NEW status,
         Advance(j, phase, status), UNCHANGED <<scheduler, zip, sandboxes, results, pipeline, pool>>,
         j.mutant \notin NoTests \cup NoChange, Seen(j.outputs) = {j.mutant},
         phase = "reset" => status \in Verdicts[j.mutant],
         \A n \in Sandboxes \ {j.sandbox} : disk'[n] = disk[n],
         \A o \in OutputFiles \ DOMAIN j.outputs : disk'[j.sandbox][o] = {},
         phase = "run" => Seen(disk'[j.sandbox]) = {j.mutant}
  PROVE  RInv' /\ AbstractStep
<1> USE Facts
<1> DEFINE k == [j EXCEPT !.phase = phase, !.status = status]
<1>1. /\ k.phase = phase /\ k.status = status /\ k.mutant = j.mutant
      /\ k.sandbox = j.sandbox /\ k.outputs = j.outputs
  BY DEF Job
<1>2. jobs' = (jobs \ {j}) \cup {k}
  BY DEF Advance
<1> HIDE DEF k
<1>3. Possible(k)
  BY <1>1 DEF Possible
<1>4. InOrder' /\ OneIsSent' /\ Done' = Done /\ transpiled' = transpiled /\ free' = free
  BY DEF InOrder, OneIsSent, Done, scheduler, zip
<1>5. Work(Done', transpiled', jobs')
  BY <1>1, <1>2, <1>3, <1>4 DEF Work
<1>6. Disks(free', jobs', disk')
  <2>1. \A i \in 1 .. Len(free) : free[i] \in Sandboxes /\ free[i] # j.sandbox
    BY DEF HeldOnce, Made
  <2>2. \A l \in jobs \ {j} : l.sandbox \in Sandboxes /\ l.sandbox # j.sandbox
    BY DEF HeldOnce, Job
  <2>3. \A i \in 1 .. Len(free') : Clean(disk'[free'[i]])
    BY <1>4, <2>1 DEF Disks
  <2>4. \A l \in jobs \ {j} : /\ l.phase \in {"early", "write"} => Clean(disk'[l.sandbox])
                              /\ \A o \in OutputFiles \ DOMAIN l.outputs : disk'[l.sandbox][o] = {}
                              /\ l.phase = "run" => Seen(disk'[l.sandbox]) = {l.mutant}
    BY <2>2 DEF Disks
  <2>5. /\ k.phase \in {"early", "write"} => Clean(disk'[k.sandbox])
        /\ \A o \in OutputFiles \ DOMAIN k.outputs : disk'[k.sandbox][o] = {}
        /\ k.phase = "run" => Seen(disk'[k.sandbox]) = {k.mutant}
    BY <1>1
  <2>6. \A l \in jobs' : l \in jobs \ {j} \/ l = k
    BY <1>2
  <2>7. \A l \in jobs' : /\ l.phase \in {"early", "write"} => Clean(disk'[l.sandbox])
                         /\ \A o \in OutputFiles \ DOMAIN l.outputs : disk'[l.sandbox][o] = {}
                         /\ l.phase = "run" => Seen(disk'[l.sandbox]) = {l.mutant}
    BY <2>4, <2>5, <2>6, Zenon
  <2> QED BY <2>3, <2>7, DisksByParts
<1>7. UnmadeIsClean'
  <2>1. j.sandbox \in Made(sandboxes)
    BY DEF HeldOnce
  <2> QED BY <2>1 DEF UnmadeIsClean, Made
<1>8. Accounted'
  <2>1. \A m \in Mutants : Listed(m, transpiled', jobs') <=> Listed(m, transpiled, jobs)
    BY <1>1, <1>2, <1>4 DEF Listed
  <2>2. NotReported' = NotReported
    BY <1>4, <2>1 DEF NotReported
  <2> QED BY <2>2 DEF Accounted, Context, RInv
<1>9. AbstractStep
  BY DEF AbstractStep, Abstract!runVars
<1> QED
  BY <1>4, <1>5, <1>6, <1>7, <1>8, <1>9 DEF RInv

LEMMA JobRefines ==
  ASSUME Context, NEW j \in jobs, EarlyResult(j) \/ WriteFiles(j) \/ TestsRun(j) \/ ResetFiles(j)
  PROVE  RInv' /\ AbstractStep
<1> USE Facts
<1>1. /\ j.sandbox \in Sandboxes /\ j.mutant \in Mutants /\ Possible(j)
      /\ DOMAIN j.outputs \subseteq OutputFiles
      /\ disk \in [Sandboxes -> [OutputFiles -> SUBSET Mutants]]
      /\ \A o \in OutputFiles \ DOMAIN j.outputs : disk[j.sandbox][o] = {}
  <2>1. j.outputs \in Outputs /\ j.sandbox \in Sandboxes /\ j.mutant \in Mutants
    BY DEF Job
  <2>2. DOMAIN j.outputs \subseteq OutputFiles
    BY <2>1, OutputsMembers
  <2> QED BY <2>1, <2>2 DEF Work, Disks, TypeOK
<1>2. CASE EarlyResult(j)
  <2>1. Emit(j, j.status) /\ UNCHANGED <<sandboxes, disk, pool>> /\ j.phase = "early"
    BY <1>2 DEF EarlyResult
  <2>2. j.status \in Verdicts[j.mutant] /\ Clean(disk'[j.sandbox])
    BY <1>1, <2>1 DEF Possible, Disks
  <2> QED BY <2>1, <2>2, EmitRefines
<1>3. CASE WriteFiles(j)
  <2> DEFINE files == Overwrite(disk[j.sandbox], j.outputs)
  <2>1. /\ j.phase = "write" /\ Advance(j, "run", "none")
        /\ disk' = [disk EXCEPT ![j.sandbox] = files]
        /\ UNCHANGED <<scheduler, zip, sandboxes, results, pipeline, pool>>
    BY <1>3 DEF WriteFiles
  <2>2. /\ DOMAIN files = OutputFiles
        /\ \A o \in OutputFiles : files[o] = IF o \in DOMAIN j.outputs THEN j.outputs[o] ELSE disk[j.sandbox][o]
    BY <1>1 DEF Overwrite
  <2> HIDE DEF files
  <2>3. disk'[j.sandbox] = files /\ \A n \in Sandboxes \ {j.sandbox} : disk'[n] = disk[n]
    BY <1>1, <2>1
  <2>4. j.mutant \notin NoTests \cup NoChange /\ Seen(j.outputs) = {j.mutant}
    BY <1>1, <2>1 DEF Possible
  <2>5. \A o \in OutputFiles \ DOMAIN j.outputs : disk'[j.sandbox][o] = {}
    BY <1>1, <2>2, <2>3
  <2>6. Seen(files) = Seen(j.outputs)
    <3>1. ASSUME NEW x \in Seen(files) PROVE x \in Seen(j.outputs)
      <4>1. PICK o \in DOMAIN files : x \in files[o]
        BY DEF Seen
      <4>2. o \in DOMAIN j.outputs
        BY <1>1, <2>2, <4>1
      <4> QED BY <2>2, <4>1, <4>2 DEF Seen
    <3>2. ASSUME NEW x \in Seen(j.outputs) PROVE x \in Seen(files)
      <4>1. PICK o \in DOMAIN j.outputs : x \in j.outputs[o]
        BY DEF Seen
      <4>2. o \in DOMAIN files /\ files[o] = j.outputs[o]
        BY <1>1, <2>2
      <4> QED BY <4>1, <4>2 DEF Seen
    <3> QED BY <3>1, <3>2
  <2> QED BY <2>1, <2>3, <2>4, <2>5, <2>6, AdvanceRefines
<1>4. CASE TestsRun(j)
  <2>1. PICK runResult \in RunResults : Advance(j, "reset", DetermineMutantState(runResult))
    BY <1>4 DEF TestsRun
  <2>2. j.phase = "run" /\ UNCHANGED <<scheduler, zip, sandboxes, disk, results, pipeline, pool>>
    BY <1>4 DEF TestsRun
  <2>3. j.mutant \notin NoTests \cup NoChange /\ Seen(j.outputs) = {j.mutant}
    BY <1>1, <2>2 DEF Possible
  <2>4. DetermineMutantState(runResult) \in {"Killed", "Survived", "TimedOut", "RuntimeError"}
    BY DEF RunResults, DetermineMutantState
  <2>5. DetermineMutantState(runResult) \in Verdicts[j.mutant]
    BY <1>1, <2>3, <2>4 DEF Verdicts
  <2> HIDE DEF DetermineMutantState
  <2> QED BY <1>1, <2>1, <2>2, <2>3, <2>5, AdvanceRefines
<1>5. CASE ResetFiles(j)
  <2> DEFINE files == [o \in OutputFiles |-> IF o \in DOMAIN j.outputs THEN {} ELSE disk[j.sandbox][o]]
  <2>1. /\ j.phase = "reset" /\ disk' = [disk EXCEPT ![j.sandbox] = files]
        /\ Emit(j, j.status) /\ UNCHANGED <<sandboxes, pool>>
    BY <1>5 DEF ResetFiles
  <2>2. Clean(files)
    BY <1>1 DEF Clean
  <2> HIDE DEF files
  <2>3. disk'[j.sandbox] = files /\ \A n \in Sandboxes \ {j.sandbox} : disk'[n] = disk[n]
    BY <1>1, <2>1
  <2>4. j.status \in Verdicts[j.mutant]
    BY <1>1, <2>1 DEF Possible
  <2> QED BY <2>1, <2>2, <2>3, <2>4, EmitRefines
<1> QED
  BY <1>2, <1>3, <1>4, <1>5

\* A rejection ends the run; the sandbox of its mutant is not recycled.
LEMMA RejectRefines ==
  ASSUME Context, NEW j \in jobs, RunMutantRejects(j)
  PROVE  RInv' /\ AbstractStep
<1> USE Facts
<1>1. /\ jobs' = jobs \ {j} /\ pipeline' = IF pipeline = "active" THEN "failed" ELSE pipeline
      /\ UNCHANGED <<scheduler, zip, sandboxes, results, pool>>
      /\ \A n \in Sandboxes \ {j.sandbox} : disk'[n] = disk[n]
  BY DEF RunMutantRejects, TypeOK
<1>2. /\ InOrder' /\ OneIsSent' /\ Done' = Done /\ transpiled' = transpiled /\ free' = free
  BY <1>1 DEF InOrder, OneIsSent, Done, scheduler, zip
<1>3. Work(Done', transpiled', jobs')
  BY <1>1, <1>2, FewerJobs
<1>4. Disks(free', jobs', disk')
  <2>1. \A i \in 1 .. Len(free) : free[i] \in Sandboxes /\ free[i] # j.sandbox
    BY DEF HeldOnce, Made
  <2>2. \A k \in jobs \ {j} : k.sandbox \in Sandboxes /\ k.sandbox # j.sandbox
    BY DEF HeldOnce, Job
  <2> QED BY <1>1, <1>2, <2>1, <2>2 DEF Disks
<1>5. UnmadeIsClean'
  <2>1. j.sandbox \in Made(sandboxes)
    BY DEF HeldOnce
  <2> QED BY <1>1, <2>1 DEF UnmadeIsClean, Made
<1>6. pipeline' # "active" /\ Accounted'
  BY <1>1 DEF Accounted
<1>7. AbstractStep
  BY <1>1 DEF AbstractStep, Abstract!Next, Abstract!Fail, Abstract!runVars
<1> QED
  BY <1>2, <1>3, <1>4, <1>5, <1>6, <1>7 DEF RInv

\* A new sandbox holds the original files.
LEMMA CreationRefines ==
  ASSUME Context, NEW n \in Sandboxes, CreationResolves(n)
  PROVE  RInv' /\ AbstractStep
<1> USE Facts
<1> DEFINE sbs == [sandboxes EXCEPT ![n] = "created"]
<1>1. /\ sandboxes[n] = "creating" /\ UNCHANGED <<scheduler, disk, results, pipeline, pool>>
      /\ StartSandbox(sbs, pipeline = "active" /\ ~(AllTranspiled /\ transpiled' = <<>>))
  BY DEF CreationResolves
<1>2. /\ sbs \in [Sandboxes -> {"none", "creating", "created", "failed", "disposed"}]
      /\ Made(sandboxes) \subseteq Made(sbs) /\ n \notin Made(sandboxes)
  BY <1>1 DEF TypeOK, Made
<1> HIDE DEF sbs
<1>3. Made(sandboxes') = Made(sbs)
  BY <1>1, <1>2, StartTypes
<1>4. Clean(disk[n]) /\ UnmadeIsClean'
  BY <1>1, <1>2, <1>3 DEF UnmadeIsClean
<1>5. InOrder' /\ OneIsSent' /\ Done' = Done
  BY <1>1 DEF InOrder, OneIsSent, Done, scheduler
<1>6. /\ Work(Done, transpiled', jobs') /\ Disks(free', jobs', disk)
      /\ \A m \in Mutants : Listed(m, transpiled', jobs') <=> Listed(m, transpiled, jobs)
  <2>1. CASE pipeline = "active" /\ ~ZipCompleted
    <3>1. Zip(transpiled, Append(free, n), jobs)
      BY <2>1 DEF CreationResolves
    <3>2. Append(free, n) \in Seq(Sandboxes) /\ Disks(Append(free, n), jobs, disk)
      BY <1>4, AppendDisks
    <3> QED BY <3>1, <3>2, ZipWork
  <2>2. CASE ~(pipeline = "active" /\ ~ZipCompleted)
    BY <2>2 DEF CreationResolves, zip
  <2> QED BY <2>1, <2>2
<1>7. Accounted'
  <2>1. NotReported' = NotReported
    BY <1>5, <1>6 DEF NotReported
  <2> QED BY <1>1, <2>1 DEF Accounted, Context, RInv
<1>8. AbstractStep
  BY <1>1 DEF AbstractStep, Abstract!runVars
<1> QED
  BY <1>1, <1>4, <1>5, <1>6, <1>7, <1>8 DEF RInv

\* The rest of what becomes of the sandboxes does not concern mutants.
LEMMA PoolRefines ==
  ASSUME Context, UNCHANGED <<scheduler, zip, jobs, disk, results>>, Made(sandboxes) \subseteq Made(sandboxes'),
         pipeline' = pipeline \/ (pipeline = "active" /\ pipeline' = "failed")
  PROVE  RInv' /\ AbstractStep
<1> USE Facts
<1>1. InOrder' /\ OneIsSent' /\ Done' = Done /\ transpiled' = transpiled /\ free' = free
  BY DEF InOrder, OneIsSent, Done, scheduler, zip
<1>2. Work(Done', transpiled', jobs') /\ Disks(free', jobs', disk') /\ UnmadeIsClean'
  BY <1>1 DEF UnmadeIsClean
<1>3. Accounted'
  <2>1. NotReported' = NotReported
    BY <1>1 DEF NotReported
  <2>2. pipeline' = "active" => pipeline = "active"
    OBVIOUS
  <2> QED BY <2>1, <2>2 DEF Accounted, Context, RInv
<1>4. AbstractStep
  BY DEF AbstractStep, Abstract!Next, Abstract!Fail, Abstract!runVars
<1> QED
  BY <1>1, <1>2, <1>3, <1>4 DEF RInv

LEMMA StepRefines ==
  ASSUME Context, [Next]_vars
  PROVE  RInv' /\ AbstractStep
<1>1. CASE FinishTranspile
  BY <1>1, TranspileRefines
<1>2. ASSUME NEW n \in Sandboxes, CreationResolves(n) PROVE RInv' /\ AbstractStep
  BY <1>2, CreationRefines
<1>3. ASSUME NEW n \in Sandboxes, CreationRejects(n) PROVE RInv' /\ AbstractStep
  <2>1. /\ UNCHANGED <<scheduler, zip, jobs, disk, results>>
        /\ pipeline' = pipeline \/ (pipeline = "active" /\ pipeline' = "failed")
    BY <1>3 DEF CreationRejects
  <2>2. Made(sandboxes) \subseteq Made(sandboxes')
    BY <1>3, Facts DEF CreationRejects, Made, TypeOK
  <2> QED BY <2>1, <2>2, PoolRefines
<1>4. CASE JobStep
  BY <1>4, JobRefines DEF JobStep
<1>5. ASSUME NEW j \in jobs, RunMutantRejects(j) PROVE RInv' /\ AbstractStep
  BY <1>5, RejectRefines
<1>6. CASE BeginDispose
  BY <1>6, PoolRefines DEF BeginDispose
<1>7. CASE DisposeRejects
  BY <1>7, PoolRefines DEF DisposeRejects
<1>8. CASE DisposeSandboxes
  <2>1. Made(sandboxes) \subseteq Made(sandboxes')
    BY <1>8 DEF DisposeSandboxes, DisposeCreated, Made
  <2> QED BY <1>8, <2>1, PoolRefines DEF DisposeSandboxes, DisposeCreated
<1>9. CASE UNCHANGED vars
  BY <1>9, PoolRefines DEF vars
<1> QED
  BY <1>1, <1>2, <1>3, <1>4, <1>5, <1>6, <1>7, <1>8, <1>9 DEF Next

LEMMA InitRefines == BundlerIsAlone /\ Init => RInv /\ Abstract!Init
<1> SUFFICES ASSUME BundlerIsAlone, Init PROVE RInv /\ Abstract!Init
  OBVIOUS
<1>1. TypeOK
  BY InitInv DEF IInv
<1>2. /\ taken \in Nat \ {0} /\ queued = [i \in 1 .. taken - 1 |-> i + 1] /\ taken - 1 \in Nat
      /\ transpiling.mutant = 1 /\ transpiling.sent = [f \in {FileOf[1]} |-> 1]
  BY <1>1, PipelineAssumption DEF Init, TypeOK, Mutants
<1>3. Len(queued) = taken - 1 /\ transpiling # Idle /\ Busy(transpiling) = 1
  <2>1. transpiling # Idle
    BY <1>2 DEF Idle, None
  <2>2. queued \in [1 .. taken - 1 -> Nat]
    BY <1>2
  <2>3. Len(queued) = taken - 1
    BY <1>2, <2>2
  <2> QED BY <2>1, <2>3 DEF Busy
<1>4. InOrder /\ Done = 0
  BY <1>2, <1>3 DEF InOrder, Done
<1>5. OneIsSent
  <2>1. Bundled => \A f \in Files : view[Stages][f] = None
    BY PipelineAssumption DEF Init, BundlerIsAlone
  <2> QED BY <1>2, <1>3, <2>1 DEF OneIsSent, Init
<1>6. Len(transpiled) = 0 /\ Len(free) = 0 /\ jobs = {}
  BY EmptySeq DEF Init
<1>7. Work(Done, transpiled, jobs) /\ Disks(free, jobs, disk)
  BY <1>6 DEF Work, Disks
<1>8. UnmadeIsClean
  BY DEF UnmadeIsClean, Clean, Init, Original
<1>9. Accounted
  BY <1>4, PipelineAssumption DEF Accounted, NotReported, Init, Mutants
<1>10. Abstract!Init
  BY DEF Init, Abstract!Init
<1> QED
  BY <1>4, <1>5, <1>7, <1>8, <1>9, <1>10 DEF RInv

LEMMA RInvHolds ==
  ASSUME BundlerIsAlone
  PROVE  Spec => []RInv
<1>1. Init => RInv
  BY InitRefines
<1>2. IInv /\ RInv /\ [Next]_vars => RInv'
  BY StepRefines DEF Context
<1> QED
  BY <1>1, <1>2, InvHolds, PTL DEF Spec

\* Every mutant is reported once, with a verdict that is possible for it, and the run
\* completes with the last: for any number of mutants, tickets and sandboxes.
THEOREM Refinement ==
  ASSUME BundlerIsAlone
  PROVE  Spec => ImplementsMutationTestRun
<1>1. Init => Abstract!Init
  BY InitRefines
<1>2. IInv /\ RInv /\ [Next]_vars => [Abstract!Next]_(Abstract!runVars)
  BY StepRefines DEF Context, AbstractStep
<1> QED
  BY <1>1, <1>2, InvHolds, RInvHolds, PTL DEF Spec, ImplementsMutationTestRun, Abstract!Spec

\* The tests of a mutant never see another one, however often its sandbox was used, and
\* however many runs in it were rejected elsewhere.
THEOREM TestsAreIsolated ==
  ASSUME BundlerIsAlone
  PROVE  Spec => []TestsSeeOnlyTheirMutant
<1>1. IInv /\ RInv => TestsSeeOnlyTheirMutant
  <2> SUFFICES ASSUME IInv, RInv PROVE TestsSeeOnlyTheirMutant
    OBVIOUS
  <2>1. \A j \in jobs : j.phase = "run" => Seen(disk[j.sandbox]) = {j.mutant}
    BY DEF RInv, Disks
  <2>2. ASSUME NEW i \in 1 .. Len(free) PROVE Seen(disk[free[i]]) = {}
    <3>1. Clean(disk[free[i]])
      BY DEF RInv, Disks
    <3>2. DOMAIN disk[free[i]] = OutputFiles
      BY ElementOfSeq DEF IInv, TypeOK
    <3> QED BY <3>1, <3>2 DEF Clean, Seen
  <2> QED BY <2>1, <2>2 DEF TestsSeeOnlyTheirMutant
<1> QED
  BY <1>1, InvHolds, RInvHolds, PTL

\* Without transpilers in front of a bundler, what comes out is one mutant.
THEOREM OneMutantComesOut ==
  ASSUME BundlerIsAlone
  PROVE  Spec => []TranspiledIsOneMutant
<1>1. RInv => TranspiledIsOneMutant
  BY DEF RInv, Work, Isolated, TranspiledIsOneMutant
<1> QED
  BY <1>1, RInvHolds, PTL
=============================================================================
