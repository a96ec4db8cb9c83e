---------------------------- MODULE BacktestTask ----------------------------
(***************************************************************************)
(* The life of backtest tasks: BacktestService.createTask fans one request *)
(* out into database rows and Redis jobs; archiveTask, unarchiveTask,      *)
(* softDeleteTask and cancelTask each read a row, decide, and later update *)
(* it by id alone; an external worker takes jobs from the queue.  Every    *)
(* awaited database or Redis call is a step of its own, so the steps of    *)
(* concurrent requests and of the worker interleave between them.          *)
(*                                                                         *)
(* Abstractions.  A request's arrays of symbols and timeframes are told    *)
(* by their lengths: createTask loops over their entries and compares no   *)
(* names, so an entry is its position, and a name listed twice is two      *)
(* entries (the DTO asks for no uniqueness).  A row is named by its        *)
(* request and the entries it combines.  The three priority queues are     *)
(* one unordered set.  Requests that fail validation change nothing and    *)
(* are left out, and every client is the tasks' owner.  A job is taken     *)
(* before JOB_TTL (7 days) ends its record.  The backtest:status key is    *)
(* written by a step of its own but nothing under src/ reads it, so it     *)
(* keeps no variable.                                                      *)
(***************************************************************************)
EXTENDS Naturals, FiniteSets

CONSTANTS
    Request,    \* the createTask calls
    Client,     \* the concurrent archive / unarchive / delete / cancel calls
    MaxSymbols,     \* the most entries a request's array of symbols has
    MaxTimeframes,  \* the most entries its array of timeframes has
    Outcome,    \* how an external call may end, a subset of CallOutcome
    MayCrash    \* whether the API process may stop and restart

\* A call takes effect and is answered, is refused, or takes effect while
\* its answer is lost.
CallOutcome == {"ok", "refused", "lost"}

ASSUME LengthAssumption == MaxSymbols \in Nat /\ MaxTimeframes \in Nat
ASSUME OutcomeAssumption == Outcome \subseteq CallOutcome /\ "ok" \in Outcome
ASSUME MayCrashAssumption == MayCrash \in BOOLEAN

VARIABLES
    status,     \* BacktestTask.status, "absent" before the row exists
    linked,     \* whether BacktestTask.queue_job_id is set
    archived,   \* BacktestTask.archived
    deleted,    \* whether BacktestTask.deleted_at is set
    jobData,    \* rows whose job record is stored in Redis
    queue,      \* rows whose job waits in the queue
    progress,   \* the cached progress of a row in Redis
    notified,   \* rows whose cancellation was published
    worker,     \* what the worker has done with a row's job
    pc, todo, cur, asked,   \* where each createTask call is
    op          \* where each other call is

rowVars == <<status, linked, archived, deleted>>
redisVars == <<jobData, queue, progress, notified>>
requestVars == <<pc, todo, cur, asked>>
vars == <<rowVars, redisVars, worker, requestVars, op>>

\* The entries of the two arrays that one task combines.
Combo == (SUBSET (1..MaxSymbols)) \X (SUBSET (1..MaxTimeframes))
Task == Request \X Combo
Row(r) == <<r, cur[r]>>

\* How long a request's two arrays are, and whether it combines each into one task.
Ask == [symbols : 0..MaxSymbols, timeframes : 0..MaxTimeframes,
        combineSymbol : BOOLEAN, combineTimeframe : BOOLEAN]
NoAsk == [symbols |-> 0, timeframes |-> 0,
          combineSymbol |-> FALSE, combineTimeframe |-> FALSE]

Status == {"PENDING", "QUEUED", "RUNNING", "COMPLETED", "FAILED", "CANCELLED"}
Exists(t) == status[t] # "absent"

\* Where a createTask call can be; in a JobStep it holds the row cur.
JobStep == {"setJobData", "pushJob", "setStatus", "link", "markFailed"}
RequestStep == {"idle", "loop", "answered", "failed"} \union JobStep

Kind == {"archive", "unarchive", "delete", "cancel"}
Idle == [kind |-> "none"]
Op == [kind : Kind, task : Task, step : {"update", "publish", "setProgress"}]

TypeOK ==
    /\ status \in [Task -> Status \union {"absent"}]
    /\ linked \in [Task -> BOOLEAN]
    /\ archived \in [Task -> BOOLEAN]
    /\ deleted \in [Task -> BOOLEAN]
    /\ jobData \subseteq Task
    /\ queue \subseteq Task
    /\ progress \in [Task -> {"none", "running", "completed", "failed", "cancelled"}]
    /\ notified \subseteq Task
    /\ worker \in [Task -> {"none", "taken", "running", "done"}]
    /\ pc \in [Request -> RequestStep]
    /\ todo \in [Request -> SUBSET Combo]
    /\ cur \in [Request -> Combo]
    /\ asked \in [Request -> Ask]
    /\ op \in [Client -> Op \union {Idle}]

Init ==
    /\ status = [t \in Task |-> "absent"]
    /\ linked = [t \in Task |-> FALSE]
    /\ archived = [t \in Task |-> FALSE]
    /\ deleted = [t \in Task |-> FALSE]
    /\ jobData = {}
    /\ queue = {}
    /\ progress = [t \in Task |-> "none"]
    /\ notified = {}
    /\ worker = [t \in Task |-> "none"]
    /\ pc = [r \in Request |-> "idle"]
    /\ todo = [r \in Request |-> {}]
    /\ cur = [r \in Request |-> <<{}, {}>>]
    /\ asked = [r \in Request |-> NoAsk]
    /\ op = [c \in Client |-> Idle]

-----------------------------------------------------------------------------
(* createTask and the QueueService.submitBacktestTask it awaits *)

\* An array of n entries is combined whole or split entry by entry.
Groups(n, combined) == IF combined THEN {1..n} ELSE {{i} : i \in 1..n}

\* One combination per task.
GenerateTaskCombinations(a) ==
    Groups(a.symbols, a.combineSymbol) \X Groups(a.timeframes, a.combineTimeframe)

\* A call's effect on a set of Redis keys, and where createTask goes after it.
Effect(keys, t, o) == IF o = "refused" THEN keys ELSE keys \union {t}
AwaitSwallowingErrors(r, next, o) == pc' = [pc EXCEPT ![r] = next]
Await(r, next, o) == pc' = [pc EXCEPT ![r] = IF o = "ok" THEN next ELSE "markFailed"]

CreateTask(r, a) ==
    /\ pc[r] = "idle"
    /\ pc' = [pc EXCEPT ![r] = "loop"]
    /\ asked' = [asked EXCEPT ![r] = a]
    /\ todo' = [todo EXCEPT ![r] = GenerateTaskCombinations(a)]
    /\ UNCHANGED <<rowVars, redisVars, worker, cur, op>>

CreateRowAgain(r, k, o) ==
    /\ pc[r] = "loop"
    /\ k \in todo[r]
    /\ cur' = [cur EXCEPT ![r] = k]
    /\ status' = IF o = "refused" THEN status
                 ELSE [status EXCEPT ![<<r, k>>] = "PENDING"]
    /\ pc' = [pc EXCEPT ![r] = IF o = "ok" THEN "setJobData" ELSE "failed"]
    /\ UNCHANGED <<linked, archived, deleted, redisVars, worker, todo, asked, op>>

\* A failing create leaves createTask: the try block starts after it.
CreateRow(r, k, o) ==
    /\ pc[r] = "loop"
    /\ k \in todo[r]
    /\ todo' = [todo EXCEPT ![r] = @ \ {k}]
    /\ cur' = [cur EXCEPT ![r] = k]
    /\ status' = IF o = "refused" THEN status
                 ELSE [status EXCEPT ![<<r, k>>] = "PENDING"]
    /\ pc' = [pc EXCEPT ![r] = IF o = "ok" THEN "setJobData" ELSE "failed"]
    /\ UNCHANGED <<linked, archived, deleted, redisVars, worker, asked, op>>

PushBeforeJobData(r, o) ==
    /\ pc[r] = "setJobData"
    /\ queue' = Effect(queue, Row(r), o)
    /\ Await(r, "pushJob", o)
    /\ UNCHANGED <<rowVars, jobData, progress, notified, worker, todo, cur, asked, op>>

SetJobData(r, o) ==
    /\ pc[r] = "setJobData"
    /\ jobData' = Effect(jobData, Row(r), o)
    /\ Await(r, "pushJob", o)
    /\ UNCHANGED <<rowVars, queue, progress, notified, worker, todo, cur, asked, op>>

PushJob(r, o) ==
    /\ pc[r] = "pushJob"
    /\ queue' = Effect(queue, Row(r), o)
    /\ Await(r, "setStatus", o)
    /\ UNCHANGED <<rowVars, jobData, progress, notified, worker, todo, cur, asked, op>>

SetStatus(r, o) ==
    /\ pc[r] = "setStatus"
    /\ Await(r, "link", o)
    /\ UNCHANGED <<rowVars, redisVars, worker, todo, cur, asked, op>>

\* The update is by id: it overwrites whatever the worker or a cancel wrote.
LinkJob(r, o) ==
    /\ pc[r] = "link"
    /\ IF o = "refused"
       THEN UNCHANGED <<status, linked>>
       ELSE /\ status' = [status EXCEPT ![Row(r)] = "QUEUED"]
            /\ linked' = [linked EXCEPT ![Row(r)] = TRUE]
    /\ Await(r, "loop", o)
    /\ UNCHANGED <<archived, deleted, redisVars, worker, todo, cur, asked, op>>

MarkFailedAndContinue(r, o) ==
    /\ pc[r] = "markFailed"
    /\ status' = IF o = "refused" THEN status
                 ELSE [status EXCEPT ![Row(r)] = "FAILED"]
    /\ pc' = [pc EXCEPT ![r] = "loop"]
    /\ UNCHANGED <<linked, archived, deleted, redisVars, worker, todo, cur, asked, op>>

\* The catch block marks the row and throws, whatever was already done.
MarkFailed(r, o) ==
    /\ pc[r] = "markFailed"
    /\ status' = IF o = "refused" THEN status
                 ELSE [status EXCEPT ![Row(r)] = "FAILED"]
    /\ pc' = [pc EXCEPT ![r] = "failed"]
    /\ UNCHANGED <<linked, archived, deleted, redisVars, worker, todo, cur, asked, op>>

AnswerEarly(r) ==
    /\ pc[r] = "loop"
    /\ pc' = [pc EXCEPT ![r] = "answered"]
    /\ UNCHANGED <<rowVars, redisVars, worker, todo, cur, asked, op>>

AnswerCreate(r) ==
    /\ pc[r] = "loop"
    /\ todo[r] = {}
    /\ pc' = [pc EXCEPT ![r] = "answered"]
    /\ UNCHANGED <<rowVars, redisVars, worker, todo, cur, asked, op>>

-----------------------------------------------------------------------------
(* archiveTask, unarchiveTask, softDeleteTask and cancelTask *)

AllowsPendingCancel(kind, s) ==
    CASE kind = "cancel"    -> s \in {"PENDING", "QUEUED", "RUNNING"}
      [] kind = "unarchive" -> TRUE
      [] OTHER              -> s # "RUNNING"

\* The status check each operation makes on the row it has read.
Allows(kind, s) ==
    CASE kind = "cancel"    -> s \in {"QUEUED", "RUNNING"}
      [] kind = "unarchive" -> TRUE
      [] OTHER              -> s # "RUNNING"

ReadTask(c, kind, t) ==
    /\ op[c] = Idle
    /\ Exists(t) /\ ~deleted[t]
    /\ Allows(kind, status[t])
    /\ op' = [op EXCEPT ![c] = [kind |-> kind, task |-> t, step |-> "update"]]
    /\ UNCHANGED <<rowVars, redisVars, worker, requestVars>>

\* The status an operation writes: only cancelTask sets one.
StatusInProgressSpelling(kind, s) == IF kind = "cancel" THEN "cancelled" ELSE s
StatusRequeuedByUnarchive(kind, s) ==
    CASE kind = "cancel"    -> "CANCELLED"
      [] kind = "unarchive" -> "QUEUED"
      [] OTHER              -> s
StatusAfter(kind, s) == IF kind = "cancel" THEN "CANCELLED" ELSE s

\* The update the operation decided on, whatever has become of the row since.
UpdateTask(c, o) ==
    LET kind == op[c].kind
        t    == op[c].task
    IN  /\ op[c] # Idle /\ op[c].step = "update"
        /\ IF o = "refused"
           THEN UNCHANGED rowVars
           ELSE /\ status' = [status EXCEPT ![t] = StatusAfter(kind, @)]
                /\ archived' = IF kind \in {"archive", "unarchive"}
                               THEN [archived EXCEPT ![t] = kind = "archive"] ELSE archived
                /\ deleted' = IF kind = "delete"
                              THEN [deleted EXCEPT ![t] = TRUE] ELSE deleted
                /\ UNCHANGED linked
        /\ op' = [op EXCEPT ![c] = IF kind = "cancel" /\ o = "ok"
                                   THEN [@ EXCEPT !.step = "publish"] ELSE Idle]
        /\ UNCHANGED <<redisVars, worker, requestVars>>

\* cancelTask's two Redis calls; an error of either ends them quietly.
PublishCancel(c, o) ==
    /\ op[c] # Idle /\ op[c].step = "publish"
    /\ notified' = Effect(notified, op[c].task, o)
    /\ op' = [op EXCEPT ![c] = IF o = "ok" THEN [@ EXCEPT !.step = "setProgress"]
                               ELSE Idle]
    /\ UNCHANGED <<rowVars, jobData, queue, progress, worker, requestVars>>

CacheCancel(c, o) ==
    /\ op[c] # Idle /\ op[c].step = "setProgress"
    /\ progress' = IF o = "refused" THEN progress
                   ELSE [progress EXCEPT ![op[c].task] = "cancelled"]
    /\ op' = [op EXCEPT ![c] = Idle]
    /\ UNCHANGED <<rowVars, jobData, queue, notified, worker, requestVars>>

-----------------------------------------------------------------------------
(* The worker, which is not in this repository: it takes a job, starts it   *)
(* unless the row was cancelled, reports progress, polls the row for a      *)
(* cancellation only at checkpoints, and writes the result.                 *)

WorkerTake(t) ==
    /\ t \in queue
    /\ queue' = queue \ {t}
    /\ worker' = [worker EXCEPT ![t] = "taken"]
    /\ UNCHANGED <<rowVars, jobData, progress, notified, requestVars, op>>

WorkerStart(t) ==
    /\ worker[t] = "taken"
    /\ IF status[t] = "CANCELLED"
       THEN /\ worker' = [worker EXCEPT ![t] = "done"]
            /\ UNCHANGED status
       ELSE /\ worker' = [worker EXCEPT ![t] = "running"]
            /\ status' = [status EXCEPT ![t] = "RUNNING"]
    /\ UNCHANGED <<linked, archived, deleted, redisVars, requestVars, op>>

WorkerReport(t) ==
    /\ worker[t] = "running"
    /\ progress' = [progress EXCEPT ![t] = "running"]
    /\ UNCHANGED <<rowVars, jobData, queue, notified, worker, requestVars, op>>

WorkerCheckpoint(t) ==
    /\ worker[t] = "running"
    /\ status[t] = "CANCELLED"
    /\ worker' = [worker EXCEPT ![t] = "done"]
    /\ UNCHANGED <<rowVars, redisVars, requestVars, op>>

WorkerFinish(t, s) ==
    /\ worker[t] = "running"
    /\ worker' = [worker EXCEPT ![t] = "done"]
    /\ status' = [status EXCEPT ![t] = s]
    /\ progress' = [progress EXCEPT ![t] = IF s = "COMPLETED" THEN "completed" ELSE "failed"]
    /\ UNCHANGED <<linked, archived, deleted, jobData, queue, notified, requestVars, op>>

-----------------------------------------------------------------------------

\* The API process stops: calls in flight are gone, what they wrote stays.
Crash ==
    /\ MayCrash
    /\ pc' = [r \in Request |-> IF pc[r] \in {"idle", "answered"} THEN pc[r] ELSE "failed"]
    /\ op' = [c \in Client |-> Idle]
    /\ UNCHANGED <<rowVars, redisVars, worker, todo, cur, asked>>

CreateStep(r) ==
    \/ \E k \in todo[r], o \in Outcome : CreateRow(r, k, o)
    \/ \E o \in Outcome : SetJobData(r, o)
    \/ \E o \in Outcome : PushJob(r, o)
    \/ \E o \in Outcome : SetStatus(r, o)
    \/ \E o \in Outcome : LinkJob(r, o)
    \/ \E o \in Outcome : MarkFailed(r, o)
    \/ AnswerCreate(r)

OpStep(c) ==
    \/ \E o \in Outcome : UpdateTask(c, o)
    \/ \E o \in Outcome : PublishCancel(c, o)
    \/ \E o \in Outcome : CacheCancel(c, o)

WorkerStep(t) ==
    \/ WorkerTake(t)
    \/ WorkerStart(t)
    \/ WorkerReport(t)
    \/ WorkerCheckpoint(t)
    \/ \E s \in {"COMPLETED", "FAILED"} : WorkerFinish(t, s)

Next ==
    \/ \E r \in Request :
        \/ \E a \in Ask : CreateTask(r, a)
        \/ CreateStep(r)
    \/ \E c \in Client :
        \/ \E kind \in Kind, t \in Task : ReadTask(c, kind, t)
        \/ OpStep(c)
    \/ \E t \in Task : WorkerStep(t)
    \/ Crash

\* Every awaited call of a request ends, with an answer or with an error.
Fairness == \A r \in Request : WF_vars(CreateStep(r))

Spec == Init /\ [][Next]_vars /\ Fairness

-----------------------------------------------------------------------------
(* What the code guarantees *)

\* The job of a row has reached the queue.
Pushed(t) == t \in queue \/ worker[t] # "none"

\* The creating request no longer has a call in flight for the row.
Settled(t) == pc[t[1]] \in JobStep => t # Row(t[1])

\* A worker that takes a job finds its record and a committed row: the row is
\* created before the record is stored and the record before the job is pushed
\* (createTask, submitBacktestTask).
JobBacked == \A t \in Task : Pushed(t) => t \in jobData /\ Exists(t)

\* queue_job_id is recorded only for a job that reached the queue, even when
\* Redis or database calls fail or lose their answers.
LinkedWasPushed == \A t \in Task : linked[t] => Pushed(t)

\* A request that is answered with success has, for every entry of its symbols and
\* every entry of its timeframes, exactly one row covering the two, linked to a job
\* that reached the queue.  (A name listed twice has a row for each entry.)
AnsweredIsComplete ==
    \A r \in Request : pc[r] = "answered" =>
        \A i \in 1..asked[r].symbols, j \in 1..asked[r].timeframes :
            LET covering == {k \in Combo : Exists(<<r, k>>) /\ i \in k[1] /\ j \in k[2]}
            IN  /\ Cardinality(covering) = 1
                /\ \A k \in covering : linked[<<r, k>>] /\ Pushed(<<r, k>>)

\* However a request ends, by an error or by a crash, at most one of the rows
\* it created is left without its job id, namely the last one.
OneOrphanAtMost ==
    \A r \in Request, k \in Combo :
        Exists(<<r, k>>) /\ ~linked[<<r, k>>] => k = cur[r]

\* Only a row whose job reached the queue is ever CANCELLED: cancelTask refuses
\* the PENDING and FAILED rows of a request that did not submit them.
CancelledWasPushed == \A t \in Task : status[t] = "CANCELLED" => Pushed(t)

\* Once its creating request is done with the row, a CANCELLED row changes
\* status only by the result of a worker that was already running the job.
CancelSticks ==
    [][\A t \in Task :
        status[t] = "CANCELLED" /\ Settled(t) /\ status'[t] # "CANCELLED"
            => worker[t] = "running" /\ status'[t] \in {"COMPLETED", "FAILED"}]_status

\* Seen from its caller, createTask is BatchSubmission: a combination counts as
\* submitted when its row carries a job id.  Success is answered only when the
\* whole plan is submitted, and nothing is taken back on failure.
Batch == INSTANCE BatchSubmission WITH
    Plan <- {GenerateTaskCombinations(a) : a \in Ask},
    phase <- [r \in Request |->
                IF pc[r] \in {"idle", "answered", "failed"} THEN pc[r] ELSE "open"],
    plan <- [r \in Request |->
                IF pc[r] = "idle" THEN {} ELSE GenerateTaskCombinations(asked[r])],
    submitted <- [r \in Request |-> {k \in Combo : linked[<<r, k>>]}]

IsBatchSubmission == Batch!Spec

\* A createTask call that has begun ends, answered or failed.
RequestEnds ==
    \A r \in Request : pc[r] # "idle" ~> pc[r] \in {"answered", "failed"}

-----------------------------------------------------------------------------
(* What the code says of itself and does not do *)

\* backtest.service.ts:364 "Can only cancel QUEUED or RUNNING tasks": a row turns
\* CANCELLED only from these.  The check is on an earlier read of the row.
CancelsOnlyQueuedOrRunning ==
    [][\A t \in Task :
        status[t] # "CANCELLED" /\ status'[t] = "CANCELLED"
            => status[t] \in {"QUEUED", "RUNNING"}]_status

\* backtest.service.ts:159 "Task was created but queue submission failed": the
\* job of a row marked FAILED for that reason is not in the queue.
FailedWasNotSubmitted ==
    \A t \in Task : status[t] = "FAILED" /\ worker[t] = "none" => t \notin queue

=============================================================================
