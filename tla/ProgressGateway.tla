-------------------------- MODULE ProgressGateway --------------------------
(***************************************************************************)
(* BacktestProgressGateway: progress messages of the worker arrive over    *)
(* Redis, are checked against the task's row or a cached status of it, and *)
(* are emitted to the sockets of the user the message names.  The message  *)
(* handler does not await handleProgressUpdate, so the checks of several   *)
(* messages and of subscribing clients are in flight at once and end in    *)
(* any order.                                                              *)
(*                                                                         *)
(* Abstractions.  Statuses are in the lower case that normalizeStatus      *)
(* gives them, and "completed" stands for "failed" too.  A message is its  *)
(* task, its status and the user it names (user_id), which nothing in the  *)
(* message ties to the task's owner: the worker may name any user.  It has *)
(* the fields isValidProgressData asks for.  A message is received when it *)
(* is published: later receipt is a worker that publishes later.  Redis    *)
(* reads end at once and their errors, which RedisService turns into no    *)
(* data, read as no progress.  WsJwtGuard's own query is one step with the *)
(* handler it guards.  The subscription itself is RedisSubscription's.     *)
(***************************************************************************)
EXTENDS Naturals, FiniteSets

CONSTANTS
    Task, User,
    Owner,      \* BacktestTask.user_id of each task
    Socket,     \* the socket ids, each connecting at most once
    Handler,    \* bounds the status checks in flight at once
    Expiry,     \* the times at which tokens may expire
    StartTimes, \* when afterInit may get past its awaited subscribeToRedis
    TTL,        \* CACHE_TTL_MS, in ticks
    Period,     \* of the token check and of the cache cleanup, in ticks
    QueryTime,  \* how long a database answer may take to arrive, in ticks
    MaxTime     \* bounds the clock

ASSUME TimesAssumption ==
    /\ TTL \in Nat /\ QueryTime \in Nat /\ MaxTime \in Nat
    /\ Period \in Nat \ {0} /\ Expiry \subseteq Nat /\ StartTimes \subseteq Nat
ASSUME OwnerAssumption == Owner \in [Task -> User]
ASSUME SocketAssumption == "all" \notin Socket

VARIABLES
    now,        \* the clock
    startedAt,  \* when the two interval timers were started
    due,        \* which interval timers have fired and not yet run
    row,        \* BacktestTask.status, or "absent"
    cancelledAt,\* when a row that is cancelled was cancelled
    cancel,     \* how far cancelTask has come after it read the row
    worker,     \* what the worker is doing with a task
    progress,   \* backtest:progress:<task> in Redis
    taskStatusCache,
    check,      \* the calls of validateTaskStatus waiting for the database
    client,     \* the sockets and their tokens
    join,       \* how far handleConnection has come for a socket
    sent        \* the messages the last step sent to sockets

taskVars == <<row, cancelledAt, cancel, worker, progress>>
clockVars == <<now, startedAt, due>>
vars == <<clockVars, taskVars, taskStatusCache, check, client, join, sent>>

Time == 0..MaxTime
Never == MaxTime + 1
RowStatus == {"running", "completed", "cancelled"}
MessageStatus == {"running", "completed", "cancelled"}

NoEntry == [status |-> "none"]
Entry == [status : RowStatus, cachedAt : Time]

\* What a message and a progress key say, and of whom.
NoProgress == [status |-> "none"]
Progress == [status : MessageStatus, user : User]

\* A check of one message, for all the sockets of the user it names or, when a
\* client subscribes, for that client.
NoCheck == [step |-> "none"]
Recipient == Socket \union {"all"}
Check == [step : {"query"}, task : Task, said : Progress, to : Recipient]
    \union [step : {"answered"}, task : Task, said : Progress, to : Recipient,
            read : RowStatus \union {"absent"}, readAt : Time]

\* A socket whose token is verified waits for the middleware's query of its user.
NotConnected == [state |-> "new"]
Closed == [state |-> "closed"]
Entering == [state : {"entering"}, user : User, tokenExp : Expiry]
\* One that was let in could be closed from its token's expiry on, or from its
\* admission when that came later.
Connected == [state : {"open"}, user : User, tokenExp : Expiry,
              closableAt : Expiry \union Time]

NotJoining == [step |-> "none"]
Snapshot == [Task -> MessageStatus \union {"none"}]
Join == [step : {"redis"}, user : User]
    \union [step : {"query"}, user : User, seen : Snapshot]
    \union [step : {"answered"}, user : User, seen : Snapshot,
            read : [Task -> RowStatus \union {"absent"}], readAt : Time]

\* A message was checked against the row or against the cache, is part of the
\* first snapshot, or was not checked at all.
Checked == {"row", "cached"}
Message == [to : Socket, task : Task, status : MessageStatus, user : User,
            via : Checked \union {"snapshot", "unchecked"}]

TypeOK ==
    /\ now \in Time
    /\ startedAt \in 0..Never
    /\ due \subseteq {"tokens", "cache"}
    /\ row \in [Task -> RowStatus \union {"absent"}]
    /\ cancelledAt \in [Task -> 0..Never]
    /\ cancel \in [Task -> {"none", "update", "publish", "setProgress"}]
    /\ worker \in [Task -> {"running", "reporting", "done"}]
    /\ progress \in [Task -> Progress \union {NoProgress}]
    /\ taskStatusCache \in [Task -> Entry \union {NoEntry}]
    /\ check \in [Handler -> Check \union {NoCheck}]
    /\ client \in [Socket -> Entering \union Connected \union {NotConnected, Closed}]
    /\ join \in [Socket -> Join \union {NotJoining}]
    /\ sent \subseteq Message

\* A task is running, or its row is gone and only its progress key is left.
Init ==
    /\ now = 0
    /\ startedAt = Never
    /\ due = {}
    /\ row \in [Task -> {"running", "absent"}]
    /\ cancelledAt = [t \in Task |-> Never]
    /\ cancel = [t \in Task |-> "none"]
    /\ worker = [t \in Task |-> IF row[t] = "running" THEN "running" ELSE "done"]
    /\ progress \in [Task -> [status : {"running"}, user : User] \union {NoProgress}]
    /\ taskStatusCache = [t \in Task |-> NoEntry]
    /\ check = [h \in Handler |-> NoCheck]
    /\ client = [s \in Socket |-> NotConnected]
    /\ join = [s \in Socket |-> NotJoining]
    /\ sent = {}

-----------------------------------------------------------------------------
(* The status cache and the check of a message *)

Expired(t) == now - taskStatusCache[t].cachedAt > TTL

\* The status that validateTaskStatus finds cached, or "none".
GetCachedStatusSliding(t) == taskStatusCache[t].status
GetCachedStatus(t) ==
    IF taskStatusCache[t] = NoEntry THEN "none"
    ELSE IF Expired(t) THEN "none"
    ELSE taskStatusCache[t].status

CacheEntryUnnormalised(s) ==
    [status |-> IF s = "cancelled" THEN "CANCELLED" ELSE s, cachedAt |-> now]
CacheEntry(s) == [status |-> s, cachedAt |-> now]

\* The one filter: no message but a cancellation about a cancelled task.
Accepts(known, said) == known = "cancelled" => said = "cancelled"

\* The sockets a message goes to when it is sent: a closed one gets nothing.
Recipients(to, user) ==
    {s \in Socket : client[s].state = "open"
                    /\ (s = to \/ (to = "all" /\ client[s].user = user))}

Emit(to, t, said, via) ==
    sent' = [to : Recipients(to, said.user), task : {t}, status : {said.status},
             user : {said.user}, via : {via}]

Silent == sent' = {}

\* validateTaskStatus up to its first await: a cached status decides at once, and
\* without a look at whose task it is; otherwise the database is asked, by a
\* handler that is free.
Validate(t, said, to) ==
    \/ /\ GetCachedStatus(t) # "none"
       /\ IF Accepts(GetCachedStatus(t), said.status)
          THEN Emit(to, t, said, "cached")
          ELSE Silent
       /\ UNCHANGED <<taskStatusCache, check>>
    \/ /\ GetCachedStatus(t) = "none"
       /\ taskStatusCache' = [taskStatusCache EXCEPT ![t] = NoEntry]
       /\ \E h \in Handler :
            /\ check[h] = NoCheck
            /\ check' = [check EXCEPT ![h] =
                            [step |-> "query", task |-> t, said |-> said, to |-> to]]
       /\ Silent

\* The database evaluates the query; its answer arrives later.
QueryRow(h) ==
    /\ check[h].step = "query"
    /\ check' = [check EXCEPT ![h] =
                    [step |-> "answered", task |-> @.task, said |-> @.said, to |-> @.to,
                     read |-> row[@.task], readAt |-> now]]
    /\ UNCHANGED <<clockVars, taskVars, taskStatusCache, client, join>>
    /\ Silent

\* What passes with the row read: a message that names the owner and that the
\* row's status accepts.
PassesForAnyone(c) == Accepts(c.read, c.said.status)
Passes(c) == Owner[c.task] = c.said.user /\ Accepts(c.read, c.said.status)

\* The rest of validateTaskStatus, and of its caller: the status that was read is
\* cached whether the message passes or not.
ConcludeCheck(h) ==
    LET c == check[h]
    IN  /\ c.step = "answered"
        /\ check' = [check EXCEPT ![h] = NoCheck]
        /\ IF c.read = "absent"
           THEN UNCHANGED taskStatusCache /\ Silent
           ELSE /\ taskStatusCache' = [taskStatusCache EXCEPT ![c.task] = CacheEntry(c.read)]
                /\ IF Passes(c) THEN Emit(c.to, c.task, c.said, "row") ELSE Silent
        /\ UNCHANGED <<clockVars, taskVars, client, join>>

\* A database error: the message is forwarded unchecked.
FailOpen(h) ==
    LET c == check[h]
    IN  /\ c.step = "query"
        /\ check' = [check EXCEPT ![h] = NoCheck]
        /\ Emit(c.to, c.task, c.said, "unchecked")
        /\ UNCHANGED <<clockVars, taskVars, taskStatusCache, client, join>>

-----------------------------------------------------------------------------
(* Clients *)

\* The middleware of afterInit verifies the token, and then awaits the user's row.
Connect(s, u, exp) ==
    /\ client[s] = NotConnected
    /\ now < exp
    /\ client' = [client EXCEPT ![s] = [state |-> "entering", user |-> u, tokenExp |-> exp]]
    /\ UNCHANGED <<clockVars, taskVars, taskStatusCache, check, join>>
    /\ Silent

\* The row is there and agrees with the token: the socket is let in, without
\* another look at the clock, and handleConnection begins.
Admit(s) ==
    /\ client[s].state = "entering"
    /\ client' = [client EXCEPT ![s] = [state |-> "open", user |-> @.user,
            tokenExp |-> @.tokenExp,
            closableAt |-> IF now > @.tokenExp THEN now ELSE @.tokenExp]]
    /\ join' = [join EXCEPT ![s] = [step |-> "redis", user |-> client[s].user]]
    /\ UNCHANGED <<clockVars, taskVars, taskStatusCache, check>>
    /\ Silent

\* The user is gone, was given new stamps, or could not be read.
Refuse(s) ==
    /\ client[s].state = "entering"
    /\ client' = [client EXCEPT ![s] = Closed]
    /\ UNCHANGED <<clockVars, taskVars, taskStatusCache, check, join>>
    /\ Silent

\* getAllTasksProgress, of which only what names the user is kept; without any,
\* and when Redis fails, the empty snapshot is sent at once.
JoinRedis(s) ==
    LET u    == join[s].user
        seen == [t \in Task |-> IF progress[t] # NoProgress /\ progress[t].user = u
                                THEN progress[t].status ELSE "none"]
    IN  /\ join[s].step = "redis"
        /\ join' = [join EXCEPT ![s] = IF \A t \in Task : seen[t] = "none" THEN NotJoining
                                       ELSE [step |-> "query", user |-> u, seen |-> seen]]
        /\ UNCHANGED <<clockVars, taskVars, taskStatusCache, check, client>>
    /\ Silent

\* The query is for the user's own tasks: another's row reads as absent.
JoinQuery(s) ==
    /\ join[s].step = "query"
    /\ join' = [join EXCEPT ![s] = [step |-> "answered", user |-> @.user, seen |-> @.seen,
            read |-> [t \in Task |-> IF Owner[t] = join[s].user THEN row[t] ELSE "absent"],
            readAt |-> now]]
    /\ UNCHANGED <<clockVars, taskVars, taskStatusCache, check, client>>
    /\ Silent

\* The tasks of the snapshot that are sent, given what the database answered.
SnapshotKeepsExisting(seen, read) ==
    {t \in Task : seen[t] # "none" /\ read[t] # "absent"}
SnapshotKeeps(seen, read) ==
    {t \in Task : /\ seen[t] # "none" /\ read[t] # "absent"
                  /\ ~(read[t] = "cancelled" /\ seen[t] = "running")}

JoinAnswer(s) ==
    LET j    == join[s]
        kept == SnapshotKeeps(j.seen, j.read)
    IN  /\ j.step = "answered"
        /\ join' = [join EXCEPT ![s] = NotJoining]
        /\ taskStatusCache' = [t \in Task |->
                IF t \in kept THEN CacheEntry(j.read[t]) ELSE taskStatusCache[t]]
        /\ sent' = {[to |-> s, task |-> t, status |-> j.seen[t], user |-> j.user,
                     via |-> "snapshot"] : t \in {u \in kept : client[s].state = "open"}}
        /\ UNCHANGED <<clockVars, taskVars, check, client>>

\* A database error ends handleConnection with an error message.
JoinFails(s) ==
    /\ join[s].step = "query"
    /\ join' = [join EXCEPT ![s] = NotJoining]
    /\ UNCHANGED <<clockVars, taskVars, taskStatusCache, check, client>>
    /\ Silent

\* WsJwtGuard lets a message through while the token is valid.
Authorised(s) == client[s].state = "open" /\ now < client[s].tokenExp

\* The progress key of the task names the user of the socket.
Shows(s, t) == progress[t] # NoProgress /\ progress[t].user = client[s].user

HandleSubscribe(s, t) ==
    /\ Authorised(s) /\ Shows(s, t)
    /\ Validate(t, progress[t], s)
    /\ UNCHANGED <<clockVars, taskVars, client, join>>

\* Unlike handleSubscribe, sends what Redis holds without validating it.
HandleGetProgress(s, t) ==
    /\ Authorised(s) /\ Shows(s, t)
    /\ Emit(s, t, progress[t], "unchecked")
    /\ UNCHANGED <<clockVars, taskVars, taskStatusCache, check, client, join>>

HandleDisconnect(s) ==
    /\ client[s].state = "open"
    /\ client' = [client EXCEPT ![s] = Closed]
    /\ UNCHANGED <<clockVars, taskVars, taskStatusCache, check, join>>
    /\ Silent

-----------------------------------------------------------------------------
(* The clock and the interval timers *)

\* afterInit, past its await of subscribeToRedis: clients may have come before.
StartTimers ==
    /\ startedAt = Never
    /\ now \in StartTimes
    /\ startedAt' = now
    /\ UNCHANGED <<now, due, taskVars, taskStatusCache, check, client, join>>
    /\ Silent

Started == startedAt # Never

\* The event loop is punctual: timers run in the tick in which they fire, and
\* database answers take at most QueryTime.
Tick ==
    /\ now < MaxTime
    /\ due = {}
    /\ \A h \in Handler : check[h].step = "answered" => now - check[h].readAt < QueryTime
    /\ \A s \in Socket : join[s].step = "answered" => now - join[s].readAt < QueryTime
    /\ now' = now + 1
    /\ due' = IF Started /\ (now' - startedAt) % Period = 0 THEN {"tokens", "cache"} ELSE {}
    /\ UNCHANGED <<startedAt, taskVars, taskStatusCache, check, client, join>>
    /\ Silent

TokenExpiredForPeriod(s) == client[s].tokenExp + Period < now
TokenExpired(s) == client[s].tokenExp < now

CheckTokens ==
    /\ "tokens" \in due
    /\ due' = due \ {"tokens"}
    /\ client' = [s \in Socket |->
                    IF client[s].state = "open" /\ TokenExpired(s) THEN Closed ELSE client[s]]
    /\ UNCHANGED <<now, startedAt, taskVars, taskStatusCache, check, join>>
    /\ Silent

ClearTerminalCacheEntries ==
    /\ "cache" \in due
    /\ due' = due \ {"cache"}
    /\ taskStatusCache' = [t \in Task |->
            IF taskStatusCache[t].status \in {"completed", "cancelled"} /\ Expired(t)
            THEN NoEntry ELSE taskStatusCache[t]]
    /\ UNCHANGED <<now, startedAt, taskVars, check, client, join>>
    /\ Silent

ClearExpiredCacheEntries ==
    /\ "cache" \in due
    /\ due' = due \ {"cache"}
    /\ taskStatusCache' = [t \in Task |->
            IF taskStatusCache[t] # NoEntry /\ Expired(t) THEN NoEntry ELSE taskStatusCache[t]]
    /\ UNCHANGED <<now, startedAt, taskVars, check, client, join>>
    /\ Silent

-----------------------------------------------------------------------------
(* What the gateway reacts to: cancelTask and the external worker, which     *)
(* learns of a cancellation only when it polls.                              *)

ReadForCancel(t) ==
    /\ cancel[t] = "none"
    /\ row[t] = "running"
    /\ cancel' = [cancel EXCEPT ![t] = "update"]
    /\ UNCHANGED <<clockVars, row, cancelledAt, worker, progress, taskStatusCache, check,
                   client, join>>
    /\ Silent

\* The update is by id, whatever has become of the row since it was read.
CancelRow(t) ==
    /\ cancel[t] = "update"
    /\ row' = [row EXCEPT ![t] = "cancelled"]
    /\ cancelledAt' = [cancelledAt EXCEPT ![t] = now]
    /\ cancel' = [cancel EXCEPT ![t] = "publish"]
    /\ UNCHANGED <<clockVars, worker, progress, taskStatusCache, check, client, join>>
    /\ Silent

PublishCancelled(t) ==
    /\ cancel[t] = "publish"
    /\ cancel' = [cancel EXCEPT ![t] = "setProgress"]
    /\ Validate(t, [status |-> "cancelled", user |-> Owner[t]], "all")
    /\ UNCHANGED <<clockVars, row, cancelledAt, worker, progress, client, join>>

SetCancelledProgress(t) ==
    /\ cancel[t] = "setProgress"
    /\ cancel' = [cancel EXCEPT ![t] = "none"]
    /\ progress' = [progress EXCEPT ![t] = [status |-> "cancelled", user |-> Owner[t]]]
    /\ UNCHANGED <<clockVars, row, cancelledAt, worker, taskStatusCache, check, client,
                   join>>
    /\ Silent

WorkerReport(t, u) ==
    /\ worker[t] = "running"
    /\ progress' = [progress EXCEPT ![t] = [status |-> "running", user |-> u]]
    /\ Validate(t, [status |-> "running", user |-> u], "all")
    /\ UNCHANGED <<clockVars, row, cancelledAt, cancel, worker, client, join>>

WorkerPoll(t) ==
    /\ worker[t] = "running" /\ row[t] = "cancelled"
    /\ worker' = [worker EXCEPT ![t] = "done"]
    /\ UNCHANGED <<clockVars, row, cancelledAt, cancel, progress, taskStatusCache, check,
                   client, join>>
    /\ Silent

WorkerFinish(t) ==
    /\ worker[t] = "running"
    /\ worker' = [worker EXCEPT ![t] = "reporting"]
    /\ row' = [row EXCEPT ![t] = "completed"]
    /\ cancelledAt' = [cancelledAt EXCEPT ![t] = Never]
    /\ UNCHANGED <<clockVars, cancel, progress, taskStatusCache, check, client, join>>
    /\ Silent

WorkerReportResult(t, u) ==
    /\ worker[t] = "reporting"
    /\ worker' = [worker EXCEPT ![t] = "done"]
    /\ progress' = [progress EXCEPT ![t] = [status |-> "completed", user |-> u]]
    /\ Validate(t, [status |-> "completed", user |-> u], "all")
    /\ UNCHANGED <<clockVars, row, cancelledAt, cancel, client, join>>

-----------------------------------------------------------------------------

TaskStep(t) ==
    \/ ReadForCancel(t) \/ CancelRow(t) \/ PublishCancelled(t) \/ SetCancelledProgress(t)
    \/ \E u \in User : WorkerReport(t, u) \/ WorkerReportResult(t, u)
    \/ WorkerPoll(t) \/ WorkerFinish(t)

CheckStep(h) == QueryRow(h) \/ ConcludeCheck(h) \/ FailOpen(h)

JoinStep(s) == JoinRedis(s) \/ JoinQuery(s) \/ JoinAnswer(s) \/ JoinFails(s)

ClientStep(s) ==
    \/ \E u \in User, exp \in Expiry : Connect(s, u, exp)
    \/ Admit(s) \/ Refuse(s)
    \/ \E t \in Task : HandleSubscribe(s, t) \/ HandleGetProgress(s, t)
    \/ HandleDisconnect(s)

Next ==
    \/ \E t \in Task : TaskStep(t)
    \/ \E h \in Handler : CheckStep(h)
    \/ \E s \in Socket : JoinStep(s) \/ ClientStep(s)
    \/ StartTimers
    \/ Tick
    \/ CheckTokens
    \/ ClearExpiredCacheEntries

Spec == Init /\ [][Next]_vars

-----------------------------------------------------------------------------
(* What the code guarantees *)

\* A checked "running" message is sent at most TTL plus one database answer
\* after its task was cancelled, however reads, cache entries and messages
\* overtake each other: a status that was read before the cancellation is not
\* trusted for longer.
StaleRunningIsBounded ==
    \A m \in sent :
        m.status = "running" /\ m.via \in Checked /\ row[m.task] = "cancelled"
            => now <= cancelledAt[m.task] + TTL + QueryTime

\* The snapshot a connecting client gets is not subject to the cache: it shows
\* a task as running only if it was not cancelled when its row was read.
SnapshotIsFresh ==
    \A m \in sent :
        m.status = "running" /\ m.via = "snapshot" /\ row[m.task] = "cancelled"
            => now <= cancelledAt[m.task] + QueryTime

\* Whatever user a message names, a socket is only sent messages that name its own
\* user, on every path; and what is checked against the row or is part of a
\* snapshot reaches nobody but the task's owner.  Only a cached status, and the
\* paths without a check, take the message's word for whose task it is.
OnlyNamedUserSees ==
    \A m \in sent :
        /\ client[m.to].state = "open" /\ client[m.to].user = m.user
        /\ m.via \in {"row", "snapshot"} => m.user = Owner[m.task]

\* Once the timers are started, an open socket outlives its token by at most one
\* period, counted from its admission or from the start of the timers where these
\* came after the expiry.
ExpiredSocketsLeave ==
    \A s \in Socket : Started /\ client[s].state = "open" =>
        \/ now <= client[s].closableAt + Period
        \/ now <= startedAt + Period

\* Once the timers are started, a status nobody asks for any more leaves the cache
\* within a cleanup period of its expiry, or of the start.
CacheIsCleaned ==
    \A t \in Task : Started /\ taskStatusCache[t] # NoEntry =>
        \/ now <= taskStatusCache[t].cachedAt + TTL + Period
        \/ now <= startedAt + Period

-----------------------------------------------------------------------------
(* What the code says of itself and does not do *)

\* backtest-progress.gateway.ts:61 "Purpose: Prevent stale "running" updates
\* after cancellation": once cancelTask has published the cancellation of a task,
\* no checked "running" message for it is sent.
NoRunningAfterCancelled ==
    \A m \in sent :
        m.status = "running" /\ m.via \in Checked /\ row[m.task] = "cancelled"
            => cancel[m.task] = "publish"

=============================================================================
