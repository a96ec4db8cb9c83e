------------------------- MODULE BacktestTaskProofs -------------------------
(***************************************************************************)
(* Theorems about BacktestTask for every set of requests and clients and   *)
(* every length of a request's arrays, with every outcome of every call    *)
(* and with crashes.                                                       *)
(***************************************************************************)
EXTENDS BacktestTask, FiniteSetTheorems, TLAPS

\* Each entry of an array is in exactly one of its groups, combined or split.
LEMMA GroupsCover ==
    ASSUME NEW n, NEW combined, NEW i \in 1..n
    PROVE  \E g \in Groups(n, combined) :
              i \in g /\ \A h \in Groups(n, combined) : i \in h => h = g
<1>1. CASE combined
  BY <1>1 DEF Groups
<1>2. CASE ~combined
  <2> DEFINE E == 1..n
  <2>1. Groups(n, combined) = {{x} : x \in E}
    BY <1>2 DEF Groups
  <2>2. i \in E
    OBVIOUS
  <2> HIDE DEF E
  <2>3. {i} \in {{x} : x \in E}
    BY <2>2
  <2>4. ASSUME NEW h \in {{x} : x \in E}, i \in h
        PROVE  h = {i}
    <3>1. PICK x \in E : h = {x}
      OBVIOUS
    <3>2. QED
      BY <2>4, <3>1
  <2>5. QED
    BY <2>1, <2>3, <2>4
<1>3. QED
  BY <1>1, <1>2

\* A plan covers every entry of the symbols and every entry of the timeframes in
\* exactly one task (generateTaskCombinations), whichever arrays are combined: an
\* entry is a position, so a name that an array repeats is covered once for each
\* time it is listed.
THEOREM CombinationsPartition ==
    ASSUME NEW a \in Ask, NEW i \in 1..a.symbols, NEW j \in 1..a.timeframes
    PROVE  \E k \in GenerateTaskCombinations(a) :
              /\ i \in k[1] /\ j \in k[2]
              /\ \A l \in GenerateTaskCombinations(a) :
                    i \in l[1] /\ j \in l[2] => l = k
<1> DEFINE S == Groups(a.symbols, a.combineSymbol)
           F == Groups(a.timeframes, a.combineTimeframe)
<1>1. GenerateTaskCombinations(a) = S \X F
  BY DEF GenerateTaskCombinations
<1>2. \E g \in S : i \in g /\ \A h \in S : i \in h => h = g
  BY GroupsCover
<1>3. \E g \in F : j \in g /\ \A h \in F : j \in h => h = g
  BY GroupsCover
<1> HIDE DEF S, F
<1>4. PICK g \in S, w \in F :
         /\ i \in g /\ \A h \in S : i \in h => h = g
         /\ j \in w /\ \A h \in F : j \in h => h = w
  BY <1>2, <1>3
<1>5. <<g, w>> \in GenerateTaskCombinations(a)
  BY <1>1
<1>6. ASSUME NEW l \in GenerateTaskCombinations(a), i \in l[1], j \in l[2]
      PROVE  l = <<g, w>>
  BY <1>1, <1>4, <1>6
<1>7. QED
  BY <1>4, <1>5, <1>6

-----------------------------------------------------------------------------

\* The groups of an array that is not longer than m are groups of its first m entries.
LEMMA GroupsType ==
    ASSUME NEW m \in Nat, NEW n \in 0..m, NEW combined
    PROVE  Groups(n, combined) \subseteq SUBSET (1..m)
<1>1. 1..n \subseteq 1..m
  OBVIOUS
<1> DEFINE E == 1..n
           U == 1..m
<1>2. E \subseteq U
  BY <1>1
<1>3. Groups(n, combined) = {E} \/ Groups(n, combined) = {{x} : x \in E}
  BY DEF Groups
<1> HIDE DEF E, U
<1>4. Groups(n, combined) \subseteq SUBSET U
  BY <1>2, <1>3
<1>5. QED
  BY <1>4 DEF U

\* A plan's combinations are combinations of entries the arrays may have.
LEMMA PlanType ==
    ASSUME NEW a \in Ask
    PROVE  GenerateTaskCombinations(a) \subseteq Combo
<1>1. a.symbols \in 0..MaxSymbols /\ a.timeframes \in 0..MaxTimeframes
  BY DEF Ask
<1>2. Groups(a.symbols, a.combineSymbol) \subseteq SUBSET (1..MaxSymbols)
  BY <1>1, LengthAssumption, GroupsType
<1>3. Groups(a.timeframes, a.combineTimeframe) \subseteq SUBSET (1..MaxTimeframes)
  BY <1>1, LengthAssumption, GroupsType
<1>4. QED
  BY <1>2, <1>3 DEF GenerateTaskCombinations, Combo

\* Every step keeps the type of every variable.
LEMMA TypeStep ==
    ASSUME TypeOK, [Next]_vars
    PROVE  TypeOK'
<1> USE DEF TypeOK, RequestStep, JobStep, Status
<1> USE DEF rowVars, redisVars, requestVars, Row, Task
<1>1. ASSUME NEW r \in Request, NEW a \in Ask, CreateTask(r, a)
      PROVE  TypeOK'
  BY <1>1, PlanType DEF CreateTask
<1>2. ASSUME NEW r \in Request, CreateStep(r)
      PROVE  TypeOK'
  <2>1. ASSUME NEW k \in todo[r], NEW o \in Outcome, CreateRow(r, k, o)
        PROVE  TypeOK'
    BY <2>1 DEF CreateRow
  <2>2. ASSUME NEW o \in Outcome, SetJobData(r, o)
        PROVE  TypeOK'
    BY <2>2 DEF SetJobData, Effect, Await
  <2>3. ASSUME NEW o \in Outcome, PushJob(r, o)
        PROVE  TypeOK'
    BY <2>3 DEF PushJob, Effect, Await
  <2>4. ASSUME NEW o \in Outcome, SetStatus(r, o)
        PROVE  TypeOK'
    BY <2>4 DEF SetStatus, Await
  <2>5. ASSUME NEW o \in Outcome, LinkJob(r, o)
        PROVE  TypeOK'
    BY <2>5 DEF LinkJob, Await
  <2>6. ASSUME NEW o \in Outcome, MarkFailed(r, o)
        PROVE  TypeOK'
    BY <2>6 DEF MarkFailed
  <2>7. ASSUME AnswerCreate(r)
        PROVE  TypeOK'
    BY <2>7 DEF AnswerCreate
  <2>8. QED
    BY <1>2, <2>1, <2>2, <2>3, <2>4, <2>5, <2>6, <2>7 DEF CreateStep
<1>3. ASSUME NEW c \in Client, NEW kind \in Kind, NEW t \in Task, ReadTask(c, kind, t)
      PROVE  TypeOK'
  BY <1>3 DEF ReadTask, Op
<1>4. ASSUME NEW c \in Client, OpStep(c)
      PROVE  TypeOK'
  <2>1. ASSUME NEW o \in Outcome, UpdateTask(c, o)
        PROVE  TypeOK'
    <3>1. op[c] \in Op
      BY <2>1 DEF UpdateTask
    <3>2. op' \in [Client -> Op \union {Idle}]
      BY <2>1, <3>1 DEF UpdateTask, Op
    <3>3. op[c].task \in Task /\ op[c].kind \in Kind
      BY <3>1 DEF Op
    <3>4. StatusAfter(op[c].kind, status[op[c].task]) \in Status \union {"absent"}
      BY <3>3 DEF StatusAfter
    <3>5. /\ status' \in [Task -> Status \union {"absent"}]
          /\ linked' \in [Task -> BOOLEAN]
          /\ archived' \in [Task -> BOOLEAN]
          /\ deleted' \in [Task -> BOOLEAN]
      <4>1. CASE o = "refused"
        BY <2>1, <4>1 DEF UpdateTask
      <4>2. CASE o # "refused"
        <5>1. /\ status' \in [Task -> Status \union {"absent"}]
              /\ linked' \in [Task -> BOOLEAN]
          <6>1. status' = [status EXCEPT ![op[c].task] =
                              StatusAfter(op[c].kind, status[op[c].task])]
            BY <2>1, <4>2 DEF UpdateTask
          <6>2. UNCHANGED linked
            BY <2>1, <4>2 DEF UpdateTask
          <6>3. QED
            BY <3>3, <3>4, <6>1, <6>2
        <5>2. archived' \in [Task -> BOOLEAN]
          <6>1. archived' = archived
                \/ archived' = [archived EXCEPT ![op[c].task] = (op[c].kind = "archive")]
            BY <2>1, <4>2 DEF UpdateTask
          <6>2. QED
            BY <3>3, <6>1
        <5>3. deleted' \in [Task -> BOOLEAN]
          <6>1. deleted' = deleted \/ deleted' = [deleted EXCEPT ![op[c].task] = TRUE]
            BY <2>1, <4>2 DEF UpdateTask
          <6>2. QED
            BY <3>3, <6>1
        <5>4. QED
          BY <5>1, <5>2, <5>3
      <4>3. QED
        BY <4>1, <4>2
    <3>6. QED
      BY <2>1, <3>2, <3>5 DEF UpdateTask
  <2>2. ASSUME NEW o \in Outcome, PublishCancel(c, o)
        PROVE  TypeOK'
    BY <2>2 DEF PublishCancel, Effect, Op
  <2>3. ASSUME NEW o \in Outcome, CacheCancel(c, o)
        PROVE  TypeOK'
    BY <2>3 DEF CacheCancel, Op
  <2>4. QED
    BY <1>4, <2>1, <2>2, <2>3 DEF OpStep
<1>5. ASSUME NEW t \in Task, WorkerStep(t)
      PROVE  TypeOK'
  <2>1. CASE WorkerTake(t)
    BY <2>1 DEF WorkerTake
  <2>2. CASE WorkerStart(t)
    BY <2>2 DEF WorkerStart
  <2>3. CASE WorkerReport(t)
    BY <2>3 DEF WorkerReport
  <2>4. CASE WorkerCheckpoint(t)
    BY <2>4 DEF WorkerCheckpoint
  <2>5. ASSUME NEW s \in {"COMPLETED", "FAILED"}, WorkerFinish(t, s)
        PROVE  TypeOK'
    BY <2>5 DEF WorkerFinish
  <2>6. QED
    BY <1>5, <2>1, <2>2, <2>3, <2>4, <2>5 DEF WorkerStep
<1>6. CASE Crash
  BY <1>6 DEF Crash
<1>7. CASE UNCHANGED vars
  BY <1>7 DEF vars
<1>8. QED
  BY <1>1, <1>2, <1>3, <1>4, <1>5, <1>6, <1>7 DEF Next

\* Every variable always has its type (TypeOK, all of BacktestTask).
THEOREM TypeCorrect == Spec => []TypeOK
<1>1. Init => TypeOK
  BY LengthAssumption DEF Init, TypeOK, RequestStep, Combo, Ask, NoAsk
<1>2. TypeOK /\ [Next]_vars => TypeOK'
  BY TypeStep
<1>3. QED
  BY <1>1, <1>2, PTL DEF Spec

-----------------------------------------------------------------------------
(* The inductive invariant *)

\* What each stage of createTask has established for the row it is working on.
StageInv ==
    \A r \in Request :
        /\ pc[r] \in JobStep => Exists(Row(r))
        /\ pc[r] \in {"pushJob", "setStatus", "link"} => Row(r) \in jobData
        /\ pc[r] \in {"setStatus", "link"} => Pushed(Row(r))

\* A row without a job id is the one in hand, and its request is not past it.
OrphanInv ==
    \A r \in Request, k \in Combo :
        Exists(<<r, k>>) /\ ~linked[<<r, k>>]
            => k = cur[r] /\ pc[r] \in JobStep \union {"failed"}

\* A request makes rows of its plan only: those still to do do not exist, and
\* those it is done with do.
PlanInv ==
    \A r \in Request :
        /\ pc[r] = "idle" => \A k \in Combo : ~Exists(<<r, k>>)
        /\ pc[r] = "answered" => todo[r] = {}
        /\ todo[r] \subseteq GenerateTaskCombinations(asked[r]) \/ pc[r] = "idle"
        /\ \A k \in Combo : k \in todo[r] => ~Exists(<<r, k>>)
        /\ \A k \in Combo : Exists(<<r, k>>) => k \in GenerateTaskCombinations(asked[r])
        /\ pc[r] \in JobStep \union {"loop", "answered"} =>
              \A k \in Combo \ todo[r] :
                  k \in GenerateTaskCombinations(asked[r]) => Exists(<<r, k>>)

\* Only a row whose job was pushed is ever past PENDING, other than by failing.
ActiveWasPushed ==
    \A t \in Task : status[t] \in {"QUEUED", "RUNNING", "CANCELLED"} => Pushed(t)

\* An operation works on a row that exists, a cancellation on one that was pushed.
OpInv ==
    \A c \in Client : op[c] # Idle =>
        /\ Exists(op[c].task)
        /\ op[c].kind = "cancel" => Pushed(op[c].task)

IInv ==
    /\ JobBacked
    /\ LinkedWasPushed
    /\ StageInv
    /\ OrphanInv
    /\ PlanInv
    /\ ActiveWasPushed
    /\ OpInv

\* A step that neither creates a row nor moves a request keeps what is known of
\* the rows of every request.
LEMMA RowsKept ==
    ASSUME OrphanInv, PlanInv, UNCHANGED <<linked, requestVars>>,
           \A u \in Task : Exists(u)' <=> Exists(u)
    PROVE  OrphanInv' /\ PlanInv'
<1>1. \A r \in Request, k \in Combo : Exists(<<r, k>>)' <=> Exists(<<r, k>>)
  BY DEF Task, Exists
<1>2. OrphanInv'
  BY <1>1 DEF OrphanInv, requestVars
<1>3. PlanInv'
  BY <1>1 DEF PlanInv, requestVars
<1>4. QED
  BY <1>2, <1>3

\* Every step of a createTask call keeps the invariant.
LEMMA CreateKeeps ==
    ASSUME TypeOK, IInv, NEW r \in Request, CreateStep(r)
    PROVE  IInv'
<1> USE DEF TypeOK, RequestStep, JobStep, Status, rowVars, redisVars, requestVars,
            Row, Task, IInv, Exists, Pushed
<1>1. ASSUME NEW k \in todo[r], NEW o \in Outcome, CreateRow(r, k, o)
      PROVE  IInv'
  <2>1. JobBacked' /\ LinkedWasPushed' /\ StageInv' /\ ActiveWasPushed' /\ OpInv'
    BY <1>1 DEF CreateRow, JobBacked, LinkedWasPushed, StageInv, ActiveWasPushed, OpInv, Op, Idle
  <2>2. OrphanInv'
    BY <1>1 DEF CreateRow, OrphanInv
  <2>3. PlanInv'
    BY <1>1 DEF CreateRow, PlanInv
  <2>4. QED
    BY <2>1, <2>2, <2>3
<1>2. ASSUME NEW o \in Outcome, SetJobData(r, o)
      PROVE  IInv'
  BY <1>2 DEF SetJobData, Effect, Await, JobBacked, LinkedWasPushed, StageInv,
              OrphanInv, PlanInv, ActiveWasPushed, OpInv
<1>3. ASSUME NEW o \in Outcome, PushJob(r, o)
      PROVE  IInv'
  <2>1. JobBacked'
    <3>1. pc[r] = "pushJob" /\ queue' \subseteq queue \union {Row(r)}
      BY <1>3 DEF PushJob, Effect
    <3>2. Row(r) \in jobData /\ Exists(Row(r))
      BY <3>1 DEF StageInv
    <3>3. UNCHANGED <<status, jobData, worker>>
      BY <1>3 DEF PushJob
    <3>4. QED
      BY <3>1, <3>2, <3>3 DEF JobBacked
  <2>2. LinkedWasPushed' /\ StageInv' /\ OrphanInv' /\ PlanInv' /\ ActiveWasPushed' /\ OpInv'
    BY <1>3 DEF PushJob, Effect, Await, LinkedWasPushed, StageInv, OrphanInv, PlanInv,
                ActiveWasPushed, OpInv
  <2>3. QED
    BY <2>1, <2>2
<1>4. ASSUME NEW o \in Outcome, SetStatus(r, o)
      PROVE  IInv'
  BY <1>4 DEF SetStatus, Await, JobBacked, LinkedWasPushed, StageInv,
              OrphanInv, PlanInv, ActiveWasPushed, OpInv
<1>5. ASSUME NEW o \in Outcome, LinkJob(r, o)
      PROVE  IInv'
  <2>1. CASE o = "refused"
    BY <1>5, <2>1 DEF LinkJob, Await, JobBacked, LinkedWasPushed, StageInv,
              OrphanInv, PlanInv, ActiveWasPushed, OpInv
  <2>2. CASE o # "refused"
    <3> DEFINE t == Row(r)
    <3>1. t \in Task
      OBVIOUS
    <3>2. /\ pc[r] = "link"
          /\ status' = [status EXCEPT ![t] = "QUEUED"]
          /\ linked' = [linked EXCEPT ![t] = TRUE]
          /\ pc' = [pc EXCEPT ![r] = IF o = "ok" THEN "loop" ELSE "markFailed"]
          /\ UNCHANGED <<jobData, queue, worker, todo, cur, asked, op>>
      BY <1>5, <2>2 DEF LinkJob, Await
    <3>3. Pushed(t) /\ t \in jobData /\ Exists(t)
      BY <3>2 DEF StageInv
    <3>4. \A u \in Task : (Exists(u)' <=> Exists(u)) /\ (Pushed(u)' <=> Pushed(u))
      BY <3>1, <3>2, <3>3
    <3>5. \A u \in Task : u # t => linked'[u] = linked[u] /\ status'[u] = status[u]
      BY <3>1, <3>2
    <3>6. linked'[t] /\ status'[t] = "QUEUED"
      BY <3>1, <3>2
    <3> HIDE DEF Exists, Pushed, t
    <3>7. JobBacked' /\ LinkedWasPushed' /\ ActiveWasPushed'
      BY <3>2, <3>3, <3>4, <3>5 DEF JobBacked, LinkedWasPushed, ActiveWasPushed
    <3>8. OpInv'
      BY <3>2, <3>4 DEF OpInv, Op
    <3>9. StageInv'
      BY <3>2, <3>4 DEF StageInv
    <3>10. OrphanInv'
      <4>1. ASSUME NEW q \in Request, NEW k \in Combo, Exists(<<q, k>>)', ~linked'[<<q, k>>]
            PROVE  k = cur'[q] /\ pc'[q] \in JobStep \union {"failed"}
        <5>1. <<q, k>> # t /\ Exists(<<q, k>>) /\ ~linked[<<q, k>>]
          BY <4>1, <3>4, <3>5, <3>6
        <5>2. k = cur[q] /\ pc[q] \in JobStep \union {"failed"}
          BY <5>1 DEF OrphanInv
        <5>3. q # r
          BY <5>1, <5>2 DEF t
        <5>4. QED
          BY <3>2, <5>2, <5>3
      <4>2. QED
        BY <4>1 DEF OrphanInv
    <3>11. PlanInv'
      <4>1. \A q \in Request, k \in Combo : Exists(<<q, k>>)' <=> Exists(<<q, k>>)
        BY <3>4
      <4>2. QED
        BY <3>2, <4>1, PlanType DEF PlanInv
    <3>12. QED
      BY <3>7, <3>8, <3>9, <3>10, <3>11
  <2>3. QED
    BY <2>1, <2>2
<1>6. ASSUME NEW o \in Outcome, MarkFailed(r, o)
      PROVE  IInv'
  <2>1. JobBacked' /\ LinkedWasPushed' /\ StageInv' /\ OrphanInv' /\ ActiveWasPushed' /\ OpInv'
    BY <1>6 DEF MarkFailed, JobBacked, LinkedWasPushed, StageInv, OrphanInv,
                ActiveWasPushed, OpInv
  <2>2. PlanInv'
    <3>1. /\ pc[r] = "markFailed"
          /\ pc' = [pc EXCEPT ![r] = "failed"]
          /\ UNCHANGED <<todo, asked>>
      BY <1>6 DEF MarkFailed
    <3>2. Exists(Row(r))
      BY <3>1 DEF StageInv
    <3>3. \A q \in Request, k \in Combo : Exists(<<q, k>>)' <=> Exists(<<q, k>>)
      BY <1>6, <3>2 DEF MarkFailed
    <3> HIDE DEF Exists
    <3>4. QED
      BY <3>1, <3>3, PlanType DEF PlanInv
  <2>3. QED
    BY <2>1, <2>2
<1>7. ASSUME AnswerCreate(r)
      PROVE  IInv'
  BY <1>7 DEF AnswerCreate, JobBacked, LinkedWasPushed, StageInv, OrphanInv, PlanInv,
              ActiveWasPushed, OpInv
<1>8. QED
  BY <1>1, <1>2, <1>3, <1>4, <1>5, <1>6, <1>7 DEF CreateStep

\* Every step of an archive, unarchive, delete or cancel call keeps the invariant.
LEMMA OpKeeps ==
    ASSUME TypeOK, IInv, NEW c \in Client,
           OpStep(c) \/ \E kind \in Kind, t \in Task : ReadTask(c, kind, t)
    PROVE  IInv'
<1> USE DEF TypeOK, Status, rowVars, redisVars, requestVars, IInv
<1>1. ASSUME NEW kind \in Kind, NEW t \in Task, ReadTask(c, kind, t)
      PROVE  IInv'
  <2>1. JobBacked' /\ LinkedWasPushed' /\ StageInv' /\ OrphanInv' /\ PlanInv' /\ ActiveWasPushed'
    BY <1>1 DEF ReadTask, Exists, Pushed, Row, JobBacked, LinkedWasPushed, StageInv,
                OrphanInv, PlanInv, ActiveWasPushed
  <2>2. OpInv'
    <3>1. Exists(t) /\ (kind = "cancel" => Pushed(t))
      BY <1>1 DEF ReadTask, Allows, ActiveWasPushed
    <3>2. op' = [op EXCEPT ![c] = [kind |-> kind, task |-> t, step |-> "update"]]
      BY <1>1 DEF ReadTask
    <3>3. UNCHANGED <<status, queue, worker>>
      BY <1>1 DEF ReadTask
    <3>4. QED
      BY <3>1, <3>2, <3>3 DEF OpInv, Exists, Pushed
  <2>3. QED
    BY <2>1, <2>2
<1>2. ASSUME NEW o \in Outcome, UpdateTask(c, o)
      PROVE  IInv'
  <2> DEFINE t == op[c].task
             kind == op[c].kind
  <2>1. t \in Task /\ Exists(t) /\ (kind = "cancel" => Pushed(t))
    BY <1>2 DEF UpdateTask, Op, OpInv
  <2>2. /\ UNCHANGED <<linked, redisVars, worker, requestVars>>
        /\ op' = [op EXCEPT ![c] = IF kind = "cancel" /\ o = "ok"
                                   THEN [@ EXCEPT !.step = "publish"] ELSE Idle]
    BY <1>2 DEF UpdateTask
  <2>3. status' = status \/ status' = [status EXCEPT ![t] = StatusAfter(kind, status[t])]
    BY <1>2 DEF UpdateTask
  <2>4. \A u \in Task : status'[u] = status[u] \/ (kind = "cancel" /\ u = t /\ status'[u] = "CANCELLED")
    BY <2>1, <2>3 DEF StatusAfter
  <2>5. \A u \in Task : (Exists(u)' <=> Exists(u)) /\ (Pushed(u)' <=> Pushed(u))
    BY <2>1, <2>2, <2>4 DEF Exists, Pushed
  <2>6. OrphanInv' /\ PlanInv'
    BY <2>2, <2>5, RowsKept
  <2>7. JobBacked' /\ LinkedWasPushed' /\ StageInv'
    BY <2>2, <2>5 DEF JobBacked, LinkedWasPushed, StageInv, Row, Task, RequestStep, JobStep
  <2>8. ActiveWasPushed'
    BY <2>1, <2>4, <2>5 DEF ActiveWasPushed
  <2>9. OpInv'
    <3>1. \A d \in Client : op'[d] # Idle =>
              op[d] # Idle /\ op'[d].task = op[d].task /\ op'[d].kind = op[d].kind
      BY <1>2, <2>2 DEF UpdateTask, Op
    <3>2. \A d \in Client : op[d] # Idle => op[d].task \in Task
      BY DEF Op
    <3>3. QED
      BY <2>5, <3>1, <3>2 DEF OpInv
  <2>10. QED
    BY <2>6, <2>7, <2>8, <2>9
<1>3. ASSUME NEW o \in Outcome, PublishCancel(c, o) \/ CacheCancel(c, o)
      PROVE  IInv'
  <2>1. UNCHANGED <<rowVars, jobData, queue, worker, requestVars>>
    BY <1>3 DEF PublishCancel, CacheCancel
  <2>2. /\ JobBacked' /\ LinkedWasPushed' /\ StageInv' /\ OrphanInv' /\ PlanInv'
        /\ ActiveWasPushed'
    BY <2>1 DEF Exists, Pushed, Row, JobBacked, LinkedWasPushed, StageInv, OrphanInv,
                PlanInv, ActiveWasPushed
  <2>3. op[c] # Idle /\ op[c] \in Op
    BY <1>3 DEF PublishCancel, CacheCancel
  <2>4. \A d \in Client : op'[d] # Idle =>
            op[d] # Idle /\ op'[d].task = op[d].task /\ op'[d].kind = op[d].kind
    BY <1>3, <2>3 DEF PublishCancel, CacheCancel, Op
  <2>5. OpInv'
    BY <2>1, <2>4 DEF OpInv, Exists, Pushed
  <2>6. QED
    BY <2>2, <2>5
<1>4. QED
  BY <1>1, <1>2, <1>3 DEF OpStep

\* Every step of the worker keeps the invariant.
LEMMA WorkerKeeps ==
    ASSUME TypeOK, IInv, NEW t \in Task, WorkerStep(t)
    PROVE  IInv'
<1> USE DEF TypeOK, Status, rowVars, redisVars, requestVars, IInv
<1>1. UNCHANGED <<linked, jobData, requestVars, op>>
  BY DEF WorkerStep, WorkerTake, WorkerStart, WorkerReport, WorkerCheckpoint, WorkerFinish
<1>2. \A u \in Task : Pushed(u) <=> Pushed(u)'
  BY DEF WorkerStep, WorkerTake, WorkerStart, WorkerReport, WorkerCheckpoint,
         WorkerFinish, Pushed
<1>3. \A u \in Task : status'[u] = status[u]
                      \/ (u = t /\ Pushed(t) /\ status'[u] \in {"RUNNING", "COMPLETED", "FAILED"})
  BY DEF WorkerStep, WorkerTake, WorkerStart, WorkerReport, WorkerCheckpoint,
         WorkerFinish, Pushed
<1>4. \A u \in Task : Exists(u)' <=> Exists(u)
  BY <1>3 DEF JobBacked, Exists
<1>5. OrphanInv' /\ PlanInv'
  BY <1>1, <1>4, RowsKept
<1>6. JobBacked' /\ LinkedWasPushed' /\ StageInv'
  BY <1>1, <1>2, <1>4 DEF JobBacked, LinkedWasPushed, StageInv, Row, Task, RequestStep, JobStep
<1>7. ActiveWasPushed'
  BY <1>2, <1>3 DEF ActiveWasPushed
<1>8. OpInv'
  BY <1>1, <1>2, <1>4 DEF OpInv, Op
<1>9. QED
  BY <1>5, <1>6, <1>7, <1>8

\* The invariant holds in every reachable state.
THEOREM Invariance == Spec => []IInv
<1>1. Init => IInv
  BY DEF Init, IInv, JobBacked, LinkedWasPushed, StageInv, OrphanInv, PlanInv,
         ActiveWasPushed, OpInv, Exists, Pushed, JobStep, Task
<1>2. TypeOK /\ IInv /\ [Next]_vars => IInv'
  <2> SUFFICES ASSUME TypeOK, IInv, [Next]_vars
               PROVE  IInv'
    OBVIOUS
  <2> USE DEF IInv, JobBacked, LinkedWasPushed, StageInv, OrphanInv, PlanInv,
              ActiveWasPushed, OpInv, Exists, Pushed, Row, rowVars, redisVars, requestVars
  <2>1. ASSUME NEW r \in Request, NEW a \in Ask, CreateTask(r, a)
        PROVE  IInv'
    BY <2>1 DEF CreateTask, TypeOK, JobStep
  <2>2. CASE Crash
    BY <2>2 DEF Crash, TypeOK, JobStep
  <2>3. CASE UNCHANGED vars
    BY <2>3 DEF vars
  <2>4. QED
    BY <2>1, <2>2, <2>3, CreateKeeps, OpKeeps, WorkerKeeps DEF Next
<1>3. QED
  BY <1>1, <1>2, TypeCorrect, PTL DEF Spec

-----------------------------------------------------------------------------
(* What the invariant gives *)

\* A worker finds the record and the row of every job it takes (JobBacked).
THEOREM JobsAreBacked == Spec => []JobBacked
<1>1. IInv => JobBacked
  BY DEF IInv
<1>2. QED
  BY <1>1, Invariance, PTL

\* Only jobs that reached the queue are recorded in their row (LinkedWasPushed).
THEOREM LinkedJobsWerePushed == Spec => []LinkedWasPushed
<1>1. IInv => LinkedWasPushed
  BY DEF IInv
<1>2. QED
  BY <1>1, Invariance, PTL

\* Only rows whose job reached the queue are cancelled (CancelledWasPushed).
THEOREM CancelledRowsWerePushed == Spec => []CancelledWasPushed
<1>1. IInv => CancelledWasPushed
  BY DEF IInv, ActiveWasPushed, CancelledWasPushed
<1>2. QED
  BY <1>1, Invariance, PTL

\* A request leaves at most its last row without a job id (OneOrphanAtMost).
THEOREM OrphansAreLast == Spec => []OneOrphanAtMost
<1>1. IInv => OneOrphanAtMost
  BY DEF IInv, OrphanInv, OneOrphanAtMost
<1>2. QED
  BY <1>1, Invariance, PTL

\* A request answered with success has submitted each entry of its two arrays with
\* each of the other in exactly one task (AnsweredIsComplete).
THEOREM AnswersAreComplete == Spec => []AnsweredIsComplete
<1>1. TypeOK /\ IInv => AnsweredIsComplete
  <2> SUFFICES ASSUME TypeOK, IInv, NEW r \in Request, pc[r] = "answered",
                      NEW i \in 1..asked[r].symbols, NEW j \in 1..asked[r].timeframes
               PROVE  LET covering == {k \in Combo :
                                Exists(<<r, k>>) /\ i \in k[1] /\ j \in k[2]}
                      IN  /\ Cardinality(covering) = 1
                          /\ \A k \in covering : linked[<<r, k>>] /\ Pushed(<<r, k>>)
    BY DEF AnsweredIsComplete
  <2> DEFINE covering == {k \in Combo : Exists(<<r, k>>) /\ i \in k[1] /\ j \in k[2]}
  <2>1. asked[r] \in Ask
    BY DEF TypeOK
  <2>2. PICK k \in GenerateTaskCombinations(asked[r]) :
            /\ i \in k[1] /\ j \in k[2]
            /\ \A l \in GenerateTaskCombinations(asked[r]) :
                  i \in l[1] /\ j \in l[2] => l = k
    BY <2>1, CombinationsPartition
  <2>3. k \in Combo /\ Exists(<<r, k>>)
    BY <2>1, PlanType DEF IInv, PlanInv
  <2>4. \A l \in Combo : Exists(<<r, l>>) => l \in GenerateTaskCombinations(asked[r])
    BY DEF IInv, PlanInv
  <2>5. covering = {k}
    BY <2>2, <2>3, <2>4
  <2>6. Cardinality(covering) = 1
    BY <2>5, FS_Singleton
  <2>7. linked[<<r, k>>] /\ Pushed(<<r, k>>)
    BY <2>3 DEF IInv, OrphanInv, LinkedWasPushed, Task, JobStep
  <2>8. QED
    BY <2>5, <2>6, <2>7
<1>2. QED
  BY <1>1, TypeCorrect, Invariance, PTL

\* A cancellation sticks once the creating request is done with the row
\* (CancelSticks): only the result of a worker already running replaces it.
THEOREM CancellationsStick == Spec => CancelSticks
<1> DEFINE Sticks == \A t \in Task :
        status[t] = "CANCELLED" /\ Settled(t) /\ status'[t] # "CANCELLED"
            => worker[t] = "running" /\ status'[t] \in {"COMPLETED", "FAILED"}
<1>1. TypeOK /\ IInv /\ [Next]_vars => [Sticks]_status
  <2> SUFFICES ASSUME TypeOK, IInv, Next, NEW t \in Task,
                      status[t] = "CANCELLED", Settled(t), status'[t] # "CANCELLED"
               PROVE  worker[t] = "running" /\ status'[t] \in {"COMPLETED", "FAILED"}
    BY DEF vars, rowVars
  <2> USE DEF TypeOK, rowVars, Row
  <2>1. ASSUME NEW r \in Request, CreateStep(r)
        PROVE  FALSE
    <3>1. ASSUME NEW k \in todo[r], NEW o \in Outcome, CreateRow(r, k, o)
          PROVE  FALSE
      <4>1. <<r, k>> # t
        BY DEF IInv, PlanInv, Exists
      <4>2. QED
        BY <3>1, <4>1 DEF CreateRow
    <3>2. ASSUME NEW o \in Outcome, LinkJob(r, o) \/ MarkFailed(r, o)
          PROVE  FALSE
      <4>1. pc[r] \in JobStep
        BY <3>2 DEF LinkJob, MarkFailed, JobStep
      <4>2. t # Row(r)
        BY <4>1 DEF Settled
      <4>3. QED
        BY <3>2, <4>2 DEF LinkJob, MarkFailed
    <3>3. QED
      BY <2>1, <3>1, <3>2 DEF CreateStep, SetJobData, PushJob, SetStatus, AnswerCreate
  <2>2. ASSUME NEW u \in Task, WorkerStep(u)
        PROVE  worker[t] = "running" /\ status'[t] \in {"COMPLETED", "FAILED"}
    BY <2>2 DEF WorkerStep, WorkerTake, WorkerStart, WorkerReport, WorkerCheckpoint,
                WorkerFinish
  <2>3. ASSUME NEW c \in Client,
               OpStep(c) \/ \E kind \in Kind, u \in Task : ReadTask(c, kind, u)
        PROVE  FALSE
    BY <2>3 DEF OpStep, ReadTask, UpdateTask, PublishCancel, CacheCancel, StatusAfter
  <2>4. ASSUME NEW r \in Request, NEW a \in Ask, CreateTask(r, a)
        PROVE  FALSE
    BY <2>4 DEF CreateTask
  <2>5. CASE Crash
    BY <2>5 DEF Crash
  <2>6. QED
    BY <2>1, <2>2, <2>3, <2>4, <2>5 DEF Next
<1>2. QED
  BY <1>1, TypeCorrect, Invariance, PTL DEF Spec, CancelSticks

\* How far a request is from the end of its work on the row in hand.
Ahead(step) ==
    CASE step = "setJobData" -> 6
      [] step = "pushJob"    -> 5
      [] step = "setStatus"  -> 4
      [] step = "link"       -> 3
      [] step = "markFailed" -> 2
      [] step = "loop"       -> 1
      [] OTHER               -> 0

Changes(r) == pc'[r] # pc[r] \/ todo'[r] # todo[r]

\* A request takes a combination from those still to do, or comes nearer to the end
\* of its row, and does neither once it has ended.
Descends(r) ==
    /\ pc[r] \notin {"answered", "failed"}
    /\ \/ todo'[r] \subseteq todo[r] /\ todo'[r] # todo[r]
       \/ todo'[r] = todo[r] /\ Ahead(pc'[r]) < Ahead(pc[r])

\* createTask retries nothing and returns to nothing, whatever fails and whatever else
\* runs: every step of a request that has begun descends in a well-founded order, so
\* that it takes finitely many.  RequestEnds adds by its fairness that it takes them.
THEOREM RequestsDescend ==
    Spec => [][\A r \in Request : pc[r] # "idle" /\ Changes(r) => Descends(r)]_vars
<1> DEFINE Descend == \A r \in Request : pc[r] # "idle" /\ Changes(r) => Descends(r)
<1>1. TypeOK /\ [Next]_vars => [Descend]_vars
  <2> SUFFICES ASSUME TypeOK, Next, NEW r \in Request, pc[r] # "idle", Changes(r)
               PROVE  Descends(r)
    OBVIOUS
  <2> USE DEF TypeOK, Changes
  <2>1. CASE CreateStep(r)
    <3> USE DEF Descends, Ahead
    <3>1. ASSUME NEW k \in todo[r], NEW o \in Outcome, CreateRow(r, k, o)
          PROVE  Descends(r)
      BY <3>1 DEF CreateRow
    <3>2. ASSUME NEW o \in Outcome, SetJobData(r, o) \/ PushJob(r, o) \/ SetStatus(r, o)
          PROVE  Descends(r)
      BY <3>2 DEF SetJobData, PushJob, SetStatus, Await
    <3>3. ASSUME NEW o \in Outcome, LinkJob(r, o) \/ MarkFailed(r, o)
          PROVE  Descends(r)
      BY <3>3 DEF LinkJob, MarkFailed, Await
    <3>4. ASSUME AnswerCreate(r)
          PROVE  Descends(r)
      BY <3>4 DEF AnswerCreate
    <3>5. QED
      BY <2>1, <3>1, <3>2, <3>3, <3>4 DEF CreateStep
  <2>2. ASSUME NEW q \in Request, q # r, CreateStep(q)
        PROVE  FALSE
    BY <2>2 DEF CreateStep, CreateRow, SetJobData, PushJob, SetStatus, LinkJob, MarkFailed,
                AnswerCreate, Await
  <2>3. ASSUME NEW q \in Request, NEW a \in Ask, CreateTask(q, a)
        PROVE  FALSE
    BY <2>3 DEF CreateTask
  <2>4. ASSUME NEW c \in Client, NEW kind \in Kind, NEW t \in Task, ReadTask(c, kind, t)
        PROVE  FALSE
    BY <2>4 DEF ReadTask, requestVars
  <2>5. ASSUME NEW c \in Client, OpStep(c)
        PROVE  FALSE
    BY <2>5 DEF OpStep, UpdateTask, PublishCancel, CacheCancel, requestVars
  <2>6. ASSUME NEW t \in Task, WorkerStep(t)
        PROVE  FALSE
    BY <2>6 DEF WorkerStep, WorkerTake, WorkerStart, WorkerReport, WorkerCheckpoint,
                WorkerFinish, requestVars
  <2>7. CASE Crash
    <3>1. pc[r] \notin {"answered", "failed"} /\ pc'[r] = "failed" /\ todo'[r] = todo[r]
      BY <2>7 DEF Crash
    <3>2. pc[r] \in JobStep \union {"loop"}
      BY <3>1 DEF RequestStep
    <3>3. QED
      BY <3>1, <3>2 DEF Descends, Ahead, JobStep
  <2>8. QED
    BY <2>1, <2>2, <2>3, <2>4, <2>5, <2>6, <2>7 DEF Next
<1>2. QED
  BY <1>1, TypeCorrect, PTL DEF Spec

=============================================================================
