------------------------ MODULE BatchRefinementProofs ------------------------
(***************************************************************************)
(* createTask, with its queue, worker, failures and crashes, implements    *)
(* BatchSubmission.                                                        *)
(***************************************************************************)
EXTENDS BacktestTaskProofs

\* The abstract state, as BacktestTask's instance of BatchSubmission has it.
Phase == [r \in Request |->
            IF pc[r] \in {"idle", "answered", "failed"} THEN pc[r] ELSE "open"]
Planned == [r \in Request |->
            IF pc[r] = "idle" THEN {} ELSE GenerateTaskCombinations(asked[r])]
Submitted == [r \in Request |-> {k \in Combo : linked[<<r, k>>]}]

\* A step that leaves the job ids, the requests' plans and their phases alone is
\* a stutter of the abstract specification.
LEMMA Stutter ==
    ASSUME UNCHANGED <<linked, asked>>,
           \A r \in Request : Phase'[r] = Phase[r],
           \A r \in Request : (pc[r] = "idle")' <=> pc[r] = "idle"
    PROVE  UNCHANGED Batch!vars
<1>1. Phase' = Phase /\ Planned' = Planned /\ Submitted' = Submitted
  BY DEF Phase, Planned, Submitted
<1>2. QED
  BY <1>1 DEF Batch!vars, Phase, Planned, Submitted

\* Every step of a createTask call is a step of BatchSubmission or a stutter.
LEMMA CreateStepRefines ==
    ASSUME TypeOK, IInv, NEW r \in Request, CreateStep(r)
    PROVE  [Batch!Next]_(Batch!vars)
<1> USE DEF TypeOK
<1>1. ASSUME NEW k \in todo[r], NEW o \in Outcome, CreateRow(r, k, o)
      PROVE  [Batch!Next]_(Batch!vars)
  <2>1. CASE o = "ok"
    BY <1>1, <2>1, Stutter DEF CreateRow, Phase
  <2>2. CASE o # "ok"
    <3>1. Batch!Abandon({r})
      BY <1>1, <2>2 DEF CreateRow, Batch!Abandon
    <3>2. QED
      BY <3>1 DEF Batch!Next
  <2>3. QED
    BY <2>1, <2>2
<1>2. ASSUME NEW o \in Outcome, SetJobData(r, o) \/ PushJob(r, o) \/ SetStatus(r, o)
      PROVE  [Batch!Next]_(Batch!vars)
  BY <1>2, Stutter DEF SetJobData, PushJob, SetStatus, Await, Phase, rowVars
<1>3. ASSUME NEW o \in Outcome, LinkJob(r, o)
      PROVE  [Batch!Next]_(Batch!vars)
  <2>0. PICK k \in Combo : k = cur[r]
    OBVIOUS
  <2>1. /\ pc[r] = "link"
        /\ pc' = [pc EXCEPT ![r] = IF o = "ok" THEN "loop" ELSE "markFailed"]
        /\ UNCHANGED asked
        /\ linked' = linked \/ linked' = [linked EXCEPT ![<<r, k>>] = TRUE]
    BY <1>3, <2>0 DEF LinkJob, Await, Row
  <2>2. k \in Combo /\ <<r, k>> \in Task
    BY DEF Task
  <2>3. k \in GenerateTaskCombinations(asked[r])
    BY <2>0, <2>1, <2>2 DEF IInv, StageInv, PlanInv, JobStep, Row
  <2>4. Phase' = Phase /\ Planned' = Planned /\ Phase[r] = "open"
    BY <2>1 DEF Phase, Planned
  <2>5. CASE linked' = linked
    BY <2>1, <2>4, <2>5, Stutter DEF Phase
  <2>6. CASE linked' # linked
    <3>1. /\ linked' = [linked EXCEPT ![<<r, k>>] = TRUE]
          /\ ~linked[<<r, k>>]
      <4>1. linked' = [linked EXCEPT ![<<r, k>>] = TRUE]
        BY <2>1, <2>6
      <4>2. linked \in [Task -> BOOLEAN] /\ <<r, k>> \in Task
        BY <2>2
      <4> HIDE DEF TypeOK
      <4>3. linked[<<r, k>>] = TRUE => linked' = linked
        BY <4>1, <4>2
      <4>4. linked[<<r, k>>] \in BOOLEAN
        BY <4>2
      <4>5. QED
        BY <2>6, <4>1, <4>3, <4>4
    <3>2. Submitted' = [Submitted EXCEPT ![r] = @ \union {k}]
      <4>1. \A q \in Request, l \in Combo : <<q, l>> \in Task
        BY DEF Task
      <4>2. \A q \in Request, l \in Combo :
                linked'[<<q, l>>] <=> linked[<<q, l>>] \/ (q = r /\ l = k)
        BY <3>1, <4>1
      <4>3. \A q \in Request : Submitted'[q] =
                IF q = r THEN Submitted[r] \union {k} ELSE Submitted[q]
        BY <2>2, <4>2 DEF Submitted
      <4>4. DOMAIN Submitted = Request /\ DOMAIN Submitted' = Request
        BY DEF Submitted
      <4>5. Submitted' = [q \in Request |-> Submitted'[q]]
        BY DEF Submitted
      <4>6. QED
        BY <4>3, <4>4, <4>5
    <3>3. k \in Planned[r] /\ k \notin Submitted[r]
      BY <2>1, <2>3, <3>1 DEF Planned, Submitted
    <3>4. Batch!Submit(r, k)
      BY <2>4, <3>2, <3>3 DEF Batch!Submit, Phase, Planned, Submitted
    <3>5. k \in [q \in Request |->
                    IF pc[q] = "idle" THEN {} ELSE GenerateTaskCombinations(asked[q])][r]
      BY <2>1, <2>3
    <3>6. QED
      BY <3>4, <3>5 DEF Batch!Next
  <2>7. QED
    BY <2>5, <2>6
<1>4. ASSUME NEW o \in Outcome, MarkFailed(r, o)
      PROVE  [Batch!Next]_(Batch!vars)
  <2>1. Batch!Abandon({r})
    BY <1>4 DEF MarkFailed, Batch!Abandon
  <2>2. QED
    BY <2>1 DEF Batch!Next
<1>5. ASSUME AnswerCreate(r)
      PROVE  [Batch!Next]_(Batch!vars)
  <2>1. /\ pc[r] = "loop" /\ todo[r] = {}
        /\ pc' = [pc EXCEPT ![r] = "answered"]
        /\ UNCHANGED <<linked, asked>>
    BY <1>5 DEF AnswerCreate, rowVars
  <2>2. GenerateTaskCombinations(asked[r]) \subseteq Combo
    BY PlanType
  <2>3. \A k \in Combo : linked[<<r, k>>] <=> k \in GenerateTaskCombinations(asked[r])
    <3>1. ASSUME NEW k \in Combo, k \in GenerateTaskCombinations(asked[r])
          PROVE  linked[<<r, k>>]
      BY <2>1, <3>1 DEF IInv, PlanInv, OrphanInv, JobStep
    <3>2. ASSUME NEW k \in Combo, linked[<<r, k>>]
          PROVE  k \in GenerateTaskCombinations(asked[r])
      <4>1. Exists(<<r, k>>)
        BY <3>2 DEF IInv, LinkedWasPushed, JobBacked, Task
      <4>2. QED
        BY <4>1 DEF IInv, PlanInv
    <3>3. QED
      BY <3>1, <3>2
  <2>4. Submitted[r] = Planned[r]
    BY <2>1, <2>2, <2>3 DEF Submitted, Planned
  <2>5. Batch!Answer(r)
    BY <2>1, <2>4 DEF Batch!Answer, Submitted, Planned
  <2>6. QED
    BY <2>5 DEF Batch!Next
<1>6. QED
  BY <1>1, <1>2, <1>3, <1>4, <1>5 DEF CreateStep

\* createTask implements BatchSubmission (IsBatchSubmission): every behaviour of
\* requests, failing calls, worker and crashes submits plans one combination at
\* a time and answers with success only when the whole plan is submitted.
THEOREM ImplementsBatchSubmission == Spec => IsBatchSubmission
<1>1. Init => Batch!Init
  BY DEF Init, Batch!Init, Task
<1>2. TypeOK /\ IInv /\ [Next]_vars => [Batch!Next]_(Batch!vars)
  <2> SUFFICES ASSUME TypeOK, IInv, [Next]_vars
               PROVE  [Batch!Next]_(Batch!vars)
    OBVIOUS
  <2> USE DEF TypeOK, rowVars, requestVars
  <2>1. ASSUME NEW r \in Request, NEW a \in Ask, CreateTask(r, a)
        PROVE  [Batch!Next]_(Batch!vars)
    <3>1. Batch!Accept(r, GenerateTaskCombinations(a))
      BY <2>1 DEF CreateTask, Batch!Accept
    <3>2. GenerateTaskCombinations(a) \in {GenerateTaskCombinations(b) : b \in Ask}
      OBVIOUS
    <3>3. QED
      BY <3>1, <3>2 DEF Batch!Next
  <2>2. ASSUME NEW r \in Request, CreateStep(r)
        PROVE  [Batch!Next]_(Batch!vars)
    BY <2>2, CreateStepRefines
  <2>3. ASSUME NEW c \in Client,
               OpStep(c) \/ \E kind \in Kind, t \in Task : ReadTask(c, kind, t)
        PROVE  [Batch!Next]_(Batch!vars)
    BY <2>3, Stutter DEF OpStep, ReadTask, UpdateTask, PublishCancel, CacheCancel, Phase
  <2>4. ASSUME NEW t \in Task, WorkerStep(t)
        PROVE  [Batch!Next]_(Batch!vars)
    BY <2>4, Stutter DEF WorkerStep, WorkerTake, WorkerStart, WorkerReport,
                         WorkerCheckpoint, WorkerFinish, Phase
  <2>5. CASE Crash
    <3>1. PICK R \in SUBSET Request : R = {r \in Request : Phase[r] = "open"}
      OBVIOUS
    <3>2. Batch!Abandon(R)
      BY <2>5, <3>1 DEF Crash, Batch!Abandon, Phase
    <3>3. QED
      BY <3>2 DEF Batch!Next
  <2>6. CASE UNCHANGED vars
    BY <2>6, Stutter DEF vars, Phase
  <2>7. QED
    BY <2>1, <2>2, <2>3, <2>4, <2>5, <2>6 DEF Next
<1>3. QED
  BY <1>1, <1>2, TypeCorrect, Invariance, PTL DEF Spec, IsBatchSubmission, Batch!Spec

=============================================================================
