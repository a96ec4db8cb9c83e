----------------------- MODULE ProgressGatewayProofs -----------------------
(***************************************************************************)
(* How stale a forwarded status can be and who receives it, for every      *)
(* number of tasks, users, sockets and overlapping checks, and for every   *)
(* lifetime of a cache entry and every delay of the database.              *)
(***************************************************************************)
EXTENDS ProgressGateway, Integers, TLAPS

\* The clock as the arithmetic below uses it.
LEMMA TimesAreNat ==
    /\ TTL \in Nat /\ QueryTime \in Nat /\ MaxTime \in Nat
    /\ Time \subseteq Nat /\ 0 \in Time /\ Never \in Nat
    /\ Time \subseteq 0..Never /\ Never \in 0..Never
BY TimesAssumption DEF Time, Never

-----------------------------------------------------------------------------
(* Types *)

\* What is sent to open sockets is a set of messages.
LEMMA EmitType ==
    ASSUME NEW to, NEW t \in Task, NEW said \in Progress,
           NEW via \in Checked \union {"unchecked"}, Emit(to, t, said, via)
    PROVE  sent' \subseteq Message
BY DEF Emit, Recipients, Message, Progress

\* A check answers from the cache, or starts in a free handler.
LEMMA ValidateType ==
    ASSUME TypeOK, NEW t \in Task, NEW said \in Progress, NEW to \in Recipient,
           Validate(t, said, to)
    PROVE  /\ taskStatusCache' \in [Task -> Entry \union {NoEntry}]
           /\ check' \in [Handler -> Check \union {NoCheck}]
           /\ sent' \subseteq Message
<1>1. CASE GetCachedStatus(t) # "none"
  <2>1. UNCHANGED <<taskStatusCache, check>>
    BY <1>1 DEF Validate
  <2>2. CASE Accepts(GetCachedStatus(t), said.status)
    <3>1. Emit(to, t, said, "cached")
      BY <1>1, <2>2 DEF Validate
    <3>2. QED
      BY <2>1, <3>1, EmitType DEF TypeOK, Checked
  <2>3. CASE ~Accepts(GetCachedStatus(t), said.status)
    <3>1. sent' = {}
      BY <1>1, <2>3 DEF Validate, Silent
    <3>2. QED
      BY <2>1, <3>1 DEF TypeOK
  <2>4. QED
    BY <2>2, <2>3
<1>2. CASE GetCachedStatus(t) = "none"
  <2>1. /\ taskStatusCache' = [taskStatusCache EXCEPT ![t] = NoEntry]
        /\ sent' = {}
    BY <1>2 DEF Validate, Silent
  <2>2. PICK h \in Handler : check' = [check EXCEPT ![h] =
                [step |-> "query", task |-> t, said |-> said, to |-> to]]
    BY <1>2 DEF Validate
  <2>3. [step |-> "query", task |-> t, said |-> said, to |-> to] \in Check
    BY DEF Check
  <2>4. QED
    BY <2>1, <2>2, <2>3 DEF TypeOK
<1>3. QED
  BY <1>1, <1>2

\* What is known of a check, a joining client or a socket from its state.
LEMMA Shapes ==
    ASSUME TypeOK
    PROVE  /\ \A h \in Handler : check[h].step \in {"query", "answered"} =>
                /\ check[h] \in Check
                /\ check[h].task \in Task /\ check[h].said \in Progress
                /\ check[h].to \in Recipient
           /\ \A h \in Handler : check[h].step = "answered" =>
                /\ check[h].read \in RowStatus \union {"absent"}
                /\ check[h].readAt \in Time
           /\ \A s \in Socket : join[s].step \in {"redis", "query", "answered"} =>
                join[s].user \in User
           /\ \A s \in Socket : join[s].step \in {"query", "answered"} =>
                join[s].seen \in Snapshot
           /\ \A s \in Socket : join[s].step = "answered" =>
                /\ join[s].read \in [Task -> RowStatus \union {"absent"}]
                /\ join[s].readAt \in Time
           /\ \A t \in Task : taskStatusCache[t] # NoEntry =>
                /\ taskStatusCache[t].status \in RowStatus
                /\ taskStatusCache[t].cachedAt \in Time
           /\ \A s \in Socket : client[s].state = "entering" =>
                client[s].user \in User /\ client[s].tokenExp \in Expiry
           /\ \A t \in Task : progress[t] # NoProgress => progress[t] \in Progress
<1>1. \A h \in Handler : check[h] \in Check \union {NoCheck}
  BY DEF TypeOK
<1>2. \A s \in Socket : join[s] \in Join \union {NotJoining}
  BY DEF TypeOK
<1>3. \A t \in Task : taskStatusCache[t] \in Entry \union {NoEntry}
  BY DEF TypeOK
<1>4. \A h \in Handler : check[h].step \in {"query", "answered"} =>
         /\ check[h] \in Check
         /\ check[h].task \in Task /\ check[h].said \in Progress
         /\ check[h].to \in Recipient
  BY <1>1 DEF Check, NoCheck
<1>5. \A h \in Handler : check[h].step = "answered" =>
         check[h].read \in RowStatus \union {"absent"} /\ check[h].readAt \in Time
  BY <1>1 DEF Check, NoCheck
<1>6. \A s \in Socket : join[s].step \in {"query", "answered"} => join[s].seen \in Snapshot
  BY <1>2 DEF Join, NotJoining
<1>7. \A s \in Socket : join[s].step = "answered" =>
         join[s].read \in [Task -> RowStatus \union {"absent"}] /\ join[s].readAt \in Time
  BY <1>2 DEF Join, NotJoining
<1>8. \A t \in Task : taskStatusCache[t] # NoEntry =>
         taskStatusCache[t].status \in RowStatus /\ taskStatusCache[t].cachedAt \in Time
  BY <1>3 DEF Entry
<1>9. \A s \in Socket : join[s].step \in {"redis", "query", "answered"} => join[s].user \in User
  BY <1>2 DEF Join, NotJoining
<1>10. \A s \in Socket : client[s].state = "entering" =>
         client[s].user \in User /\ client[s].tokenExp \in Expiry
  <2>1. \A s \in Socket : client[s] \in Entering \union Connected \union {NotConnected, Closed}
    BY DEF TypeOK
  <2>2. QED
    BY <2>1 DEF Entering, Connected, NotConnected, Closed
<1>11. \A t \in Task : progress[t] # NoProgress => progress[t] \in Progress
  BY DEF TypeOK
<1>12. QED
  BY <1>4, <1>5, <1>6, <1>7, <1>8, <1>9, <1>10, <1>11

\* Every step of a task, cancelTask or worker, keeps the types.
LEMMA TaskTypeStep ==
    ASSUME TypeOK, NEW t \in Task, TaskStep(t)
    PROVE  TypeOK'
<1> USE DEF TypeOK, clockVars
<1>1. CASE CancelRow(t)
  <2>1. now \in 0..Never
    BY TimesAreNat
  <2>2. cancelledAt' \in [Task -> 0..Never]
    BY <1>1, <2>1 DEF CancelRow
  <2>3. row' \in [Task -> RowStatus \union {"absent"}] /\ sent' \subseteq Message
    BY <1>1 DEF CancelRow, RowStatus, Silent
  <2>4. QED
    BY <1>1, <2>2, <2>3 DEF CancelRow
<1>2. CASE PublishCancelled(t)
  <2>1. [status |-> "cancelled", user |-> Owner[t]] \in Progress /\ "all" \in Recipient
    BY OwnerAssumption DEF Progress, MessageStatus, Recipient
  <2>2. QED
    BY <1>2, <2>1, ValidateType DEF PublishCancelled
<1>3. CASE SetCancelledProgress(t)
  <2>1. [status |-> "cancelled", user |-> Owner[t]] \in Progress
    BY OwnerAssumption DEF Progress, MessageStatus
  <2>2. QED
    BY <1>3, <2>1 DEF SetCancelledProgress, Silent
<1>4. ASSUME NEW u \in User, WorkerReport(t, u)
      PROVE  TypeOK'
  <2>1. [status |-> "running", user |-> u] \in Progress /\ "all" \in Recipient
    BY DEF Progress, MessageStatus, Recipient
  <2>2. QED
    BY <1>4, <2>1, ValidateType DEF WorkerReport
<1>5. CASE WorkerPoll(t)
  BY <1>5 DEF WorkerPoll, Silent
<1>6. CASE WorkerFinish(t)
  <2>1. cancelledAt' \in [Task -> 0..Never]
    BY <1>6, TimesAreNat DEF WorkerFinish
  <2>2. QED
    BY <1>6, <2>1 DEF WorkerFinish, RowStatus, Silent
<1>7. ASSUME NEW u \in User, WorkerReportResult(t, u)
      PROVE  TypeOK'
  <2>1. [status |-> "completed", user |-> u] \in Progress /\ "all" \in Recipient
    BY DEF Progress, MessageStatus, Recipient
  <2>2. QED
    BY <1>7, <2>1, ValidateType DEF WorkerReportResult
<1>8. CASE ReadForCancel(t)
  BY <1>8 DEF ReadForCancel, Silent
<1>9. QED
  BY <1>1, <1>2, <1>3, <1>4, <1>5, <1>6, <1>7, <1>8 DEF TaskStep

\* Every step of a check keeps the types.
LEMMA CheckTypeStep ==
    ASSUME TypeOK, NEW h \in Handler, CheckStep(h)
    PROVE  TypeOK'
<1> USE DEF TypeOK, clockVars, taskVars
<1>1. CASE QueryRow(h)
  <2> DEFINE c == check[h]
             d == [step |-> "answered", task |-> c.task, said |-> c.said, to |-> c.to,
                   read |-> row[c.task], readAt |-> now]
  <2>1. c.task \in Task /\ c.said \in Progress /\ c.to \in Recipient
    BY <1>1, Shapes DEF QueryRow
  <2>2. d \in Check
    BY <2>1 DEF Check
  <2>3. check' = [check EXCEPT ![h] = d]
    BY <1>1 DEF QueryRow
  <2>4. check' \in [Handler -> Check \union {NoCheck}]
    BY <2>2, <2>3
  <2>5. QED
    BY <1>1, <2>4 DEF QueryRow, Silent
<1>2. CASE ConcludeCheck(h)
  <2>1. /\ check[h].task \in Task /\ check[h].said \in Progress
        /\ check[h].to \in Recipient
        /\ check[h].read \in RowStatus \union {"absent"}
    BY <1>2, Shapes DEF ConcludeCheck
  <2>2. check' \in [Handler -> Check \union {NoCheck}]
    BY <1>2 DEF ConcludeCheck
  <2>3. taskStatusCache' \in [Task -> Entry \union {NoEntry}]
    BY <1>2, <2>1 DEF ConcludeCheck, CacheEntry, Entry
  <2>4. sent' = {} \/ Emit(check[h].to, check[h].task, check[h].said, "row")
    BY <1>2 DEF ConcludeCheck, Silent
  <2>5. sent' \subseteq Message
    BY <2>1, <2>4, EmitType DEF Checked
  <2>6. QED
    BY <1>2, <2>2, <2>3, <2>5 DEF ConcludeCheck
<1>3. CASE FailOpen(h)
  <2>1. check[h].task \in Task /\ check[h].said \in Progress
    BY <1>3, Shapes DEF FailOpen
  <2>2. sent' \subseteq Message
    BY <1>3, <2>1, EmitType DEF FailOpen
  <2>3. QED
    BY <1>3, <2>2 DEF FailOpen
<1>4. QED
  BY <1>1, <1>2, <1>3 DEF CheckStep

\* Every step of a connecting client keeps the types.
LEMMA JoinTypeStep ==
    ASSUME TypeOK, NEW s \in Socket, JoinStep(s)
    PROVE  TypeOK'
<1> USE DEF TypeOK, clockVars, taskVars
<1>1. CASE JoinRedis(s)
  <2> DEFINE seen == [t \in Task |->
                        IF progress[t] # NoProgress /\ progress[t].user = join[s].user
                        THEN progress[t].status ELSE "none"]
             d == [step |-> "query", user |-> join[s].user, seen |-> seen]
  <2>1. seen \in Snapshot
    BY Shapes DEF Snapshot, Progress
  <2>2. join[s].user \in User
    BY <1>1, Shapes DEF JoinRedis
  <2> HIDE DEF seen
  <2>3. d \in Join
    BY <2>1, <2>2 DEF Join
  <2>4. join' = [join EXCEPT ![s] = NotJoining] \/ join' = [join EXCEPT ![s] = d]
    BY <1>1 DEF JoinRedis, seen
  <2>5. join' \in [Socket -> Join \union {NotJoining}]
    BY <2>3, <2>4
  <2>6. QED
    BY <1>1, <2>5 DEF JoinRedis, Silent
<1>2. CASE JoinQuery(s)
  <2> DEFINE read == [t \in Task |-> IF Owner[t] = join[s].user THEN row[t] ELSE "absent"]
             d == [step |-> "answered", user |-> join[s].user, seen |-> join[s].seen,
                   read |-> read, readAt |-> now]
  <2>1. join[s].seen \in Snapshot /\ join[s].user \in User
    BY <1>2, Shapes DEF JoinQuery
  <2>2. read \in [Task -> RowStatus \union {"absent"}]
    OBVIOUS
  <2>3. join' = [join EXCEPT ![s] = d]
    BY <1>2 DEF JoinQuery
  <2> HIDE DEF read
  <2>4. d \in Join
    BY <2>1, <2>2 DEF Join
  <2>5. join' \in [Socket -> Join \union {NotJoining}]
    BY <2>3, <2>4
  <2>6. QED
    BY <1>2, <2>5 DEF JoinQuery, Silent
<1>3. CASE JoinAnswer(s)
  <2> DEFINE kept == SnapshotKeeps(join[s].seen, join[s].read)
  <2>1. /\ join[s].seen \in Snapshot
        /\ join[s].read \in [Task -> RowStatus \union {"absent"}]
    BY <1>3, Shapes DEF JoinAnswer
  <2>2. \A t \in kept : t \in Task /\ join[s].seen[t] \in MessageStatus
                        /\ join[s].read[t] \in RowStatus
    BY <2>1 DEF SnapshotKeeps, Snapshot
  <2> HIDE DEF kept
  <2>3. taskStatusCache' \in [Task -> Entry \union {NoEntry}]
    BY <1>3, <2>2 DEF JoinAnswer, kept, CacheEntry, Entry
  <2>4. sent' \subseteq Message
    <3>1. join[s].user \in User
      BY <1>3, Shapes DEF JoinAnswer
    <3>2. QED
      BY <1>3, <2>2, <3>1 DEF JoinAnswer, kept, Message
  <2>5. join' \in [Socket -> Join \union {NotJoining}]
    BY <1>3 DEF JoinAnswer
  <2>6. QED
    BY <1>3, <2>3, <2>4, <2>5 DEF JoinAnswer
<1>4. CASE JoinFails(s)
  BY <1>4 DEF JoinFails, Silent
<1>5. QED
  BY <1>1, <1>2, <1>3, <1>4 DEF JoinStep

\* Every message of a client keeps the types.
LEMMA ClientTypeStep ==
    ASSUME TypeOK, NEW s \in Socket, ClientStep(s)
    PROVE  TypeOK'
<1> USE DEF TypeOK, clockVars, taskVars
<1>1. ASSUME NEW u \in User, NEW exp \in Expiry, Connect(s, u, exp)
      PROVE  TypeOK'
  <2>1. [state |-> "entering", user |-> u, tokenExp |-> exp] \in Entering
    BY DEF Entering
  <2>2. QED
    BY <1>1, <2>1 DEF Connect, Silent
<1>2. CASE Admit(s)
  <2> DEFINE exp == client[s].tokenExp
             later == IF now > exp THEN now ELSE exp
             open == [state |-> "open", user |-> client[s].user, tokenExp |-> exp,
                      closableAt |-> later]
             begun == [step |-> "redis", user |-> client[s].user]
  <2>1. client[s].user \in User /\ exp \in Expiry
    BY <1>2, Shapes DEF Admit
  <2>2. later \in Expiry \union Time
    BY <2>1
  <2>3. client' = [client EXCEPT ![s] = open] /\ join' = [join EXCEPT ![s] = begun]
    BY <1>2 DEF Admit
  <2> HIDE DEF later, exp
  <2>4. open \in Connected /\ begun \in Join
    BY <2>1, <2>2 DEF Connected, Join
  <2> HIDE DEF open, begun
  <2>5. QED
    BY <1>2, <2>3, <2>4 DEF Admit, Silent
<1>3. CASE Refuse(s)
  BY <1>3 DEF Refuse, Silent
<1>4. ASSUME NEW t \in Task, HandleSubscribe(s, t)
      PROVE  TypeOK'
  <2>1. progress[t] \in Progress /\ s \in Recipient
    BY <1>4, Shapes DEF HandleSubscribe, Shows, Recipient
  <2>2. QED
    BY <1>4, <2>1, ValidateType DEF HandleSubscribe
<1>5. ASSUME NEW t \in Task, HandleGetProgress(s, t)
      PROVE  TypeOK'
  <2>1. progress[t] \in Progress
    BY <1>5, Shapes DEF HandleGetProgress, Shows
  <2>2. sent' \subseteq Message
    BY <1>5, <2>1, EmitType DEF HandleGetProgress
  <2>3. QED
    BY <1>5, <2>2 DEF HandleGetProgress
<1>6. CASE HandleDisconnect(s)
  BY <1>6 DEF HandleDisconnect, Silent
<1>7. QED
  BY <1>1, <1>2, <1>3, <1>4, <1>5, <1>6 DEF ClientStep

\* The clock and the timers keep the types.
LEMMA ClockTypeStep ==
    ASSUME TypeOK, StartTimers \/ Tick \/ CheckTokens \/ ClearExpiredCacheEntries
    PROVE  TypeOK'
<1> USE DEF TypeOK, taskVars
<1>1. CASE Tick
  <2>1. now' \in Time
    BY <1>1, TimesAreNat DEF Tick, Time
  <2>2. due' \subseteq {"tokens", "cache"}
    BY <1>1 DEF Tick
  <2>3. QED
    BY <1>1, <2>1, <2>2 DEF Tick, Silent
<1>2. CASE CheckTokens
  BY <1>2 DEF CheckTokens, Silent
<1>3. CASE ClearExpiredCacheEntries
  BY <1>3 DEF ClearExpiredCacheEntries, Silent
<1>4. CASE StartTimers
  BY <1>4, TimesAreNat DEF StartTimers, Silent
<1>5. QED
  BY <1>1, <1>2, <1>3, <1>4

\* Every variable keeps its type; in particular the cache only ever holds
\* statuses a row can have, and what is sent is a message to a socket.
THEOREM TypeCorrect == Spec => []TypeOK
<1>1. Init => TypeOK
  <2> SUFFICES ASSUME Init
               PROVE  TypeOK
    OBVIOUS
  <2>1. cancelledAt \in [Task -> 0..Never] /\ now \in Time /\ startedAt \in 0..Never
    BY TimesAreNat DEF Init
  <2>2. progress \in [Task -> Progress \union {NoProgress}]
    BY DEF Init, Progress, MessageStatus
  <2>3. row \in [Task -> RowStatus \union {"absent"}]
    BY DEF Init, RowStatus
  <2>4. QED
    BY <2>1, <2>2, <2>3 DEF Init, TypeOK
<1>2. TypeOK /\ [Next]_vars => TypeOK'
  <2> SUFFICES ASSUME TypeOK, [Next]_vars
               PROVE  TypeOK'
    OBVIOUS
  <2>1. CASE UNCHANGED vars
    BY <2>1 DEF TypeOK, vars, clockVars, taskVars
  <2>2. CASE Next
    BY <2>2, TaskTypeStep, CheckTypeStep, JoinTypeStep, ClientTypeStep, ClockTypeStep
       DEF Next
  <2>3. QED
    BY <2>1, <2>2
<1>3. QED
  BY <1>1, <1>2, PTL DEF Spec

-----------------------------------------------------------------------------
(* The inductive invariant *)

\* A row that was read as not cancelled was read before it was cancelled.
ReadBefore(t, read, at) ==
    row[t] = "cancelled" /\ read # "cancelled" => at <= cancelledAt[t]

\* The answers on their way to a check or a joining client are recent, and miss
\* a cancellation only if they are older.
CheckInv ==
    \A h \in Handler : check[h].step = "answered" =>
        /\ check[h].readAt <= now /\ now <= check[h].readAt + QueryTime
        /\ ReadBefore(check[h].task, check[h].read, check[h].readAt)

JoinInv ==
    \A s \in Socket : join[s].step = "answered" =>
        /\ join[s].readAt <= now /\ now <= join[s].readAt + QueryTime
        /\ \A t \in Task : join[s].read[t] # "absent" =>
              ReadBefore(t, join[s].read[t], join[s].readAt)

\* An entry of the cache misses a cancellation only if its answer was on its way.
CacheInv ==
    \A t \in Task : taskStatusCache[t] # NoEntry =>
        /\ taskStatusCache[t].cachedAt <= now
        /\ row[t] = "cancelled" /\ taskStatusCache[t].status # "cancelled"
              => taskStatusCache[t].cachedAt <= cancelledAt[t] + QueryTime

\* A socket is the user's, or has closed meanwhile.
Belongs(s, u) ==
    client[s].state = "closed" \/ (client[s].state = "open" /\ client[s].user = u)

\* A socket that has something coming is the named user's, and a joining client's
\* query answers with its own rows only.
UserInv ==
    /\ \A h \in Handler :
          check[h].step \in {"query", "answered"} /\ check[h].to \in Socket
              => Belongs(check[h].to, check[h].said.user)
    /\ \A s \in Socket :
          join[s].step \in {"redis", "query", "answered"} => Belongs(s, join[s].user)
    /\ \A s \in Socket, t \in Task :
          join[s].step = "answered" /\ join[s].read[t] # "absent"
              => Owner[t] = join[s].user

SentInv == StaleRunningIsBounded /\ SnapshotIsFresh /\ OnlyNamedUserSees

IInv == CheckInv /\ JoinInv /\ CacheInv /\ UserInv /\ SentInv

\* Nothing sent is nothing wrong.
LEMMA SilentSafe ==
    ASSUME Silent
    PROVE  SentInv'
BY DEF Silent, SentInv, StaleRunningIsBounded, SnapshotIsFresh, OnlyNamedUserSees

\* A message that is emitted is safe when it is not a stale checked one, the socket
\* it is for, if it is for one, is the named user's, and that user is the owner if
\* the message was checked against the row.
LEMMA EmitSafe ==
    ASSUME TypeOK, NEW t \in Task, NEW said \in Progress, NEW to \in Recipient,
           NEW via \in Checked \union {"unchecked"},
           Emit(to, t, said, via), UNCHANGED <<now, row, cancelledAt, client>>,
           to \in Socket => Belongs(to, said.user),
           via = "row" => said.user = Owner[t],
           via \in Checked /\ said.status = "running" /\ row[t] = "cancelled"
              => now <= cancelledAt[t] + TTL + QueryTime
    PROVE  SentInv'
<1>1. \A m \in sent' : /\ m.task = t /\ m.status = said.status /\ m.user = said.user
                       /\ m.via = via /\ m.to \in Recipients(to, said.user)
  BY DEF Emit
<1>2. \A s \in Recipients(to, said.user) :
          client[s].state = "open" /\ client[s].user = said.user
  <2> SUFFICES ASSUME NEW s \in Recipients(to, said.user)
               PROVE  client[s].state = "open" /\ client[s].user = said.user
    OBVIOUS
  <2>1. s \in Socket /\ client[s].state = "open"
        /\ (s = to \/ (to = "all" /\ client[s].user = said.user))
    BY DEF Recipients
  <2>2. QED
    BY <2>1 DEF Belongs
<1>3. StaleRunningIsBounded'
  BY <1>1 DEF StaleRunningIsBounded
<1>4. SnapshotIsFresh'
  BY <1>1 DEF SnapshotIsFresh, Checked
<1>5. OnlyNamedUserSees'
  BY <1>1, <1>2 DEF OnlyNamedUserSees, Checked
<1>6. QED
  BY <1>3, <1>4, <1>5 DEF SentInv

\* A message that meets a cached status, or has to wait for the database, keeps
\* the invariant: a cached status is trusted for TTL only.
LEMMA ValidateKeeps ==
    ASSUME TypeOK, IInv, NEW t \in Task, NEW said \in Progress, NEW to \in Recipient,
           Validate(t, said, to), UNCHANGED <<now, row, cancelledAt, client, join>>,
           to \in Socket => Belongs(to, said.user)
    PROVE  IInv'
<1>1. CASE GetCachedStatus(t) # "none"
  <2>1. UNCHANGED <<taskStatusCache, check>>
    BY <1>1 DEF Validate
  <2>2. CheckInv' /\ JoinInv' /\ CacheInv' /\ UserInv'
    BY <2>1 DEF IInv, CheckInv, JoinInv, CacheInv, UserInv, ReadBefore, Belongs
  <2>3. SentInv'
    <3>1. CASE ~Accepts(GetCachedStatus(t), said.status)
      BY <1>1, <3>1, SilentSafe DEF Validate
    <3>2. CASE Accepts(GetCachedStatus(t), said.status)
      <4>1. Emit(to, t, said, "cached")
        BY <1>1, <3>2 DEF Validate
      <4>2. taskStatusCache[t] # NoEntry /\ ~Expired(t)
            /\ GetCachedStatus(t) = taskStatusCache[t].status
        BY <1>1 DEF GetCachedStatus
      <4>3. ASSUME said.status = "running", row[t] = "cancelled"
            PROVE  now <= cancelledAt[t] + TTL + QueryTime
        <5>1. taskStatusCache[t].cachedAt <= cancelledAt[t] + QueryTime
          BY <3>2, <4>2, <4>3 DEF IInv, CacheInv, Accepts
        <5>2. now \in Nat /\ taskStatusCache[t].cachedAt \in Nat
          <6>1. now \in Time /\ taskStatusCache[t].cachedAt \in Time
            BY <4>2, Shapes DEF TypeOK
          <6>2. QED
            BY <6>1 DEF Time
        <5>3. cancelledAt[t] \in Nat
          <6>1. cancelledAt[t] \in 0..Never
            BY DEF TypeOK
          <6>2. QED
            BY <6>1
        <5>4. now - taskStatusCache[t].cachedAt <= TTL
          BY <4>2, <5>2, TimesAreNat DEF Expired
        <5>5. QED
          BY <5>1, <5>2, <5>3, <5>4, TimesAreNat
      <4>4. QED
        BY <4>1, <4>3, EmitSafe DEF Checked
    <3>3. QED
      BY <3>1, <3>2
  <2>4. QED
    BY <2>2, <2>3 DEF IInv
<1>2. CASE GetCachedStatus(t) = "none"
  <2>1. /\ taskStatusCache' = [taskStatusCache EXCEPT ![t] = NoEntry]
        /\ Silent
    BY <1>2 DEF Validate
  <2>2. PICK h \in Handler : check' = [check EXCEPT ![h] =
                [step |-> "query", task |-> t, said |-> said, to |-> to]]
    BY <1>2 DEF Validate
  <2>3. \A g \in Handler : \/ g # h /\ check'[g] = check[g]
                           \/ /\ g = h /\ check'[g].step = "query"
                              /\ check'[g].task = t /\ check'[g].to = to
                              /\ check'[g].said = said
    BY <2>2 DEF TypeOK
  <2>4. CheckInv' /\ JoinInv'
    BY <2>3 DEF IInv, CheckInv, JoinInv, ReadBefore
  <2>5. CacheInv'
    BY <2>1 DEF TypeOK, IInv, CacheInv
  <2>6. UserInv'
    BY <2>3 DEF IInv, UserInv, Belongs
  <2>7. QED
    BY <2>1, <2>4, <2>5, <2>6, SilentSafe DEF IInv
<1>3. QED
  BY <1>1, <1>2

\* The times the invariant compares are natural numbers.
LEMMA TimesCompare ==
    ASSUME TypeOK
    PROVE  /\ now \in Nat
           /\ \A t \in Task : cancelledAt[t] \in Nat
           /\ \A h \in Handler : check[h].step = "answered" => check[h].readAt \in Nat
           /\ \A s \in Socket : join[s].step = "answered" => join[s].readAt \in Nat
           /\ \A t \in Task : taskStatusCache[t] # NoEntry =>
                 taskStatusCache[t].cachedAt \in Nat
<1>1. now \in Time /\ \A t \in Task : cancelledAt[t] \in 0..Never
  BY DEF TypeOK
<1>2. \A t \in Task : cancelledAt[t] \in Nat
  BY <1>1
<1>3. QED
  BY <1>1, <1>2, Shapes DEF Time

\* Steps of cancelTask and of the worker: whatever was read of a row that is
\* cancelled now was read before.
LEMMA TaskKeeps ==
    ASSUME TypeOK, IInv, NEW t \in Task, TaskStep(t)
    PROVE  IInv'
<1> USE DEF clockVars
<1>1. CASE CancelRow(t)
  <2>1. /\ \A u \in Task : u # t => row'[u] = row[u] /\ cancelledAt'[u] = cancelledAt[u]
        /\ cancelledAt'[t] = now
        /\ UNCHANGED <<now, taskStatusCache, check, client, join>> /\ Silent
    BY <1>1 DEF CancelRow, TypeOK
  <2>2. CheckInv'
    BY <2>1, Shapes, TimesCompare DEF IInv, CheckInv, ReadBefore
  <2>3. JoinInv'
    BY <2>1, TimesCompare DEF IInv, JoinInv, ReadBefore
  <2>4. CacheInv'
    BY <2>1, TimesCompare, TimesAreNat DEF IInv, CacheInv
  <2>5. UserInv'
    BY <2>1 DEF IInv, UserInv, Belongs
  <2>6. QED
    BY <2>1, <2>2, <2>3, <2>4, <2>5, SilentSafe DEF IInv
<1>2. CASE PublishCancelled(t)
  <2>1. /\ [status |-> "cancelled", user |-> Owner[t]] \in Progress
        /\ "all" \in Recipient /\ "all" \notin Socket
    BY OwnerAssumption, SocketAssumption DEF Progress, MessageStatus, Recipient
  <2>2. QED
    BY <1>2, <2>1, ValidateKeeps DEF PublishCancelled
<1>3. ASSUME NEW u \in User, WorkerReport(t, u)
      PROVE  IInv'
  <2>1. /\ [status |-> "running", user |-> u] \in Progress
        /\ "all" \in Recipient /\ "all" \notin Socket
    BY SocketAssumption DEF Progress, MessageStatus, Recipient
  <2>2. QED
    BY <1>3, <2>1, ValidateKeeps DEF WorkerReport
<1>4. ASSUME NEW u \in User, WorkerReportResult(t, u)
      PROVE  IInv'
  <2>1. /\ [status |-> "completed", user |-> u] \in Progress
        /\ "all" \in Recipient /\ "all" \notin Socket
    BY SocketAssumption DEF Progress, MessageStatus, Recipient
  <2>2. QED
    BY <1>4, <2>1, ValidateKeeps DEF WorkerReportResult
<1>5. CASE WorkerFinish(t)
  <2>1. /\ \A u \in Task : u # t => row'[u] = row[u] /\ cancelledAt'[u] = cancelledAt[u]
        /\ row'[t] = "completed"
        /\ UNCHANGED <<now, taskStatusCache, check, client, join>> /\ Silent
    BY <1>5 DEF WorkerFinish, TypeOK
  <2>2. CheckInv'
    BY <2>1, Shapes DEF IInv, CheckInv, ReadBefore
  <2>3. JoinInv' /\ CacheInv' /\ UserInv'
    BY <2>1 DEF IInv, JoinInv, CacheInv, UserInv, ReadBefore, Belongs
  <2>4. QED
    BY <2>1, <2>2, <2>3, SilentSafe DEF IInv
<1>6. CASE ReadForCancel(t) \/ SetCancelledProgress(t) \/ WorkerPoll(t)
  <2>1. /\ UNCHANGED <<now, row, cancelledAt, taskStatusCache, check, client, join>>
        /\ Silent
    BY <1>6 DEF ReadForCancel, SetCancelledProgress, WorkerPoll
  <2>2. CheckInv' /\ JoinInv' /\ CacheInv' /\ UserInv'
    BY <2>1 DEF IInv, CheckInv, JoinInv, CacheInv, UserInv, ReadBefore, Belongs
  <2>3. QED
    BY <2>1, <2>2, SilentSafe DEF IInv
<1>7. QED
  BY <1>1, <1>2, <1>3, <1>4, <1>5, <1>6 DEF TaskStep

\* Steps of a check: the answer is as old as the database is slow, and so is the
\* cache entry made from it.
LEMMA CheckKeeps ==
    ASSUME TypeOK, IInv, NEW h \in Handler, CheckStep(h)
    PROVE  IInv'
<1> USE DEF clockVars, taskVars
<1>1. CASE QueryRow(h)
  <2>1. /\ \A g \in Handler : g # h => check'[g] = check[g]
        /\ check[h].step = "query"
        /\ check'[h].step = "answered" /\ check'[h].task = check[h].task
        /\ check'[h].to = check[h].to /\ check'[h].said = check[h].said
        /\ check'[h].read = row[check[h].task] /\ check'[h].readAt = now
        /\ UNCHANGED <<now, row, cancelledAt, taskStatusCache, client, join>> /\ Silent
    BY <1>1 DEF QueryRow, TypeOK
  <2>2. CheckInv'
    BY <2>1, TimesCompare, TimesAreNat DEF IInv, CheckInv, ReadBefore
  <2>3. JoinInv' /\ CacheInv'
    BY <2>1 DEF IInv, JoinInv, CacheInv, ReadBefore
  <2>4. UserInv'
    BY <2>1 DEF IInv, UserInv, Belongs
  <2>5. QED
    BY <2>1, <2>2, <2>3, <2>4, SilentSafe DEF IInv
<1>2. ASSUME NEW g \in Handler, check' = [check EXCEPT ![g] = NoCheck],
             UNCHANGED <<now, row, cancelledAt, client, join>>
      PROVE  CheckInv' /\ JoinInv' /\ UserInv'
  <2>1. \A i \in Handler : check'[i] = check[i] \/ check'[i].step = "none"
    BY <1>2 DEF TypeOK, NoCheck
  <2>2. CheckInv' /\ JoinInv'
    BY <1>2, <2>1 DEF IInv, CheckInv, JoinInv, ReadBefore
  <2>3. UserInv'
    BY <1>2, <2>1 DEF IInv, UserInv, Belongs
  <2>4. QED
    BY <2>2, <2>3
<1>3. CASE ConcludeCheck(h)
  <2> DEFINE c == check[h]
  <2>1. /\ c.step = "answered" /\ check' = [check EXCEPT ![h] = NoCheck]
        /\ UNCHANGED <<now, row, cancelledAt, client, join>>
    BY <1>3 DEF ConcludeCheck
  <2>2. /\ c.task \in Task /\ c.said \in Progress /\ c.to \in Recipient
        /\ c.readAt \in Nat /\ now \in Nat /\ cancelledAt[c.task] \in Nat
        /\ QueryTime \in Nat /\ TTL \in Nat
    BY <2>1, Shapes, TimesCompare, TimesAreNat
  <2>3. /\ now <= c.readAt + QueryTime
        /\ row[c.task] = "cancelled" /\ c.read # "cancelled" =>
              c.readAt <= cancelledAt[c.task]
    BY <2>1 DEF IInv, CheckInv, ReadBefore
  <2>4. row[c.task] = "cancelled" /\ c.read # "cancelled" =>
            now <= cancelledAt[c.task] + QueryTime
    BY <2>2, <2>3
  <2>5. CacheInv'
    <3>1. CASE c.read = "absent"
      BY <1>3, <2>1, <3>1 DEF ConcludeCheck, IInv, CacheInv
    <3>2. CASE c.read # "absent"
      <4>1. taskStatusCache' = [taskStatusCache EXCEPT ![c.task] =
                                  [status |-> c.read, cachedAt |-> now]]
        BY <1>3, <3>2 DEF ConcludeCheck, CacheEntry
      <4>2. \A u \in Task : \/ u # c.task /\ taskStatusCache'[u] = taskStatusCache[u]
                            \/ /\ u = c.task /\ taskStatusCache'[u].status = c.read
                               /\ taskStatusCache'[u].cachedAt = now
        BY <2>2, <4>1 DEF TypeOK
      <4>3. QED
        BY <2>1, <2>2, <2>4, <4>2 DEF IInv, CacheInv
    <3>3. QED
      BY <3>1, <3>2
  <2>6. SentInv'
    <3>1. \/ Silent
          \/ Emit(c.to, c.task, c.said, "row") /\ Passes(c)
      BY <1>3 DEF ConcludeCheck
    <3>2. CASE Silent
      BY <3>2, SilentSafe
    <3>3. CASE Emit(c.to, c.task, c.said, "row") /\ Passes(c)
      <4>1. /\ c.to \in Socket => Belongs(c.to, c.said.user)
            /\ c.said.user = Owner[c.task]
        BY <2>1, <3>3 DEF IInv, UserInv, Passes
      <4>2. ASSUME c.said.status = "running", row[c.task] = "cancelled"
            PROVE  now <= cancelledAt[c.task] + TTL + QueryTime
        <5>1. now <= cancelledAt[c.task] + QueryTime
          BY <2>4, <3>3, <4>2 DEF Passes, Accepts
        <5>2. QED
          BY <2>2, <5>1
      <4>3. QED
        BY <2>1, <2>2, <3>3, <4>1, <4>2, EmitSafe DEF Checked
    <3>4. QED
      BY <3>1, <3>2, <3>3
  <2>7. QED
    BY <1>2, <2>1, <2>5, <2>6 DEF IInv
<1>4. CASE FailOpen(h)
  <2> DEFINE c == check[h]
  <2>1. /\ c.step = "query" /\ check' = [check EXCEPT ![h] = NoCheck]
        /\ Emit(c.to, c.task, c.said, "unchecked")
        /\ UNCHANGED <<now, row, cancelledAt, taskStatusCache, client, join>>
    BY <1>4 DEF FailOpen
  <2>2. /\ c.task \in Task /\ c.said \in Progress /\ c.to \in Recipient
        /\ c.to \in Socket => Belongs(c.to, c.said.user)
    BY <2>1, Shapes DEF IInv, UserInv
  <2>3. SentInv'
    BY <2>1, <2>2, EmitSafe DEF Checked
  <2>4. CacheInv'
    BY <2>1 DEF IInv, CacheInv
  <2>5. QED
    BY <1>2, <2>1, <2>3, <2>4 DEF IInv
<1>5. QED
  BY <1>1, <1>3, <1>4 DEF CheckStep

\* Steps of a connecting client: its snapshot holds its own tasks only, and shows
\* none as running whose row was read as cancelled.
LEMMA JoinKeeps ==
    ASSUME TypeOK, IInv, NEW s \in Socket, JoinStep(s)
    PROVE  IInv'
<1> USE DEF clockVars, taskVars
<1>1. ASSUME UNCHANGED <<now, row, cancelledAt, taskStatusCache, check, client>>
      PROVE  CheckInv' /\ CacheInv'
  BY <1>1 DEF IInv, CheckInv, CacheInv, ReadBefore
<1>2. ASSUME join' = [join EXCEPT ![s] = NotJoining],
             UNCHANGED <<now, row, cancelledAt, check, client>>
      PROVE  JoinInv' /\ UserInv'
  <2>1. \A r \in Socket : join'[r] = join[r] \/ join'[r].step = "none"
    BY <1>2 DEF TypeOK, NotJoining
  <2>2. JoinInv'
    BY <1>2, <2>1 DEF IInv, JoinInv, ReadBefore
  <2>3. UserInv'
    BY <1>2, <2>1 DEF IInv, UserInv, Belongs
  <2>4. QED
    BY <2>2, <2>3
<1>3. CASE JoinRedis(s)
  <2>1. /\ UNCHANGED <<now, row, cancelledAt, taskStatusCache, check, client>> /\ Silent
        /\ join[s].step = "redis"
        /\ \A r \in Socket :
             \/ r # s /\ join'[r] = join[r]
             \/ r = s /\ join'[r] = NotJoining
             \/ r = s /\ join'[r].step = "query" /\ join'[r].user = join[r].user
    BY <1>3 DEF JoinRedis, TypeOK
  <2>2. JoinInv'
    BY <2>1 DEF IInv, JoinInv, ReadBefore, NotJoining
  <2>3. UserInv'
    BY <2>1 DEF IInv, UserInv, Belongs, NotJoining
  <2>4. QED
    BY <1>1, <2>1, <2>2, <2>3, SilentSafe DEF IInv
<1>4. CASE JoinQuery(s)
  <2>1. /\ join[s].step = "query" /\ Silent
        /\ UNCHANGED <<now, row, cancelledAt, taskStatusCache, check, client>>
        /\ \A r \in Socket :
             \/ r # s /\ join'[r] = join[r]
             \/ /\ r = s /\ join'[r].step = "answered" /\ join'[r].user = join[r].user
                /\ join'[r].seen = join[r].seen /\ join'[r].readAt = now
                /\ \A t \in Task : join'[r].read[t] =
                      IF Owner[t] = join[r].user THEN row[t] ELSE "absent"
    BY <1>4 DEF JoinQuery, TypeOK
  <2>2. JoinInv'
    <3>1. \A t \in Task : join'[s].read[t] # "absent" => join'[s].read[t] = row[t]
      BY <2>1
    <3>2. QED
      BY <2>1, <3>1, TimesCompare, TimesAreNat DEF IInv, JoinInv, ReadBefore
  <2>3. UserInv'
    BY <2>1 DEF IInv, UserInv, Belongs
  <2>4. QED
    BY <1>1, <2>1, <2>2, <2>3, SilentSafe DEF IInv
<1>5. CASE JoinAnswer(s)
  <2> DEFINE j == join[s]
             kept == SnapshotKeeps(j.seen, j.read)
  <2>1. /\ j.step = "answered" /\ join' = [join EXCEPT ![s] = NotJoining]
        /\ UNCHANGED <<now, row, cancelledAt, check, client>>
    BY <1>5 DEF JoinAnswer
  <2>2. /\ j.readAt \in Nat /\ now \in Nat /\ QueryTime \in Nat
        /\ \A t \in Task : cancelledAt[t] \in Nat
    BY <2>1, TimesCompare, TimesAreNat
  <2>3. \A t \in Task : row[t] = "cancelled" /\ j.read[t] \notin {"cancelled", "absent"} =>
            now <= cancelledAt[t] + QueryTime
    <3>1. now <= j.readAt + QueryTime
          /\ \A t \in Task : row[t] = "cancelled" /\ j.read[t] \notin {"cancelled", "absent"}
                => j.readAt <= cancelledAt[t]
      BY <2>1 DEF IInv, JoinInv, ReadBefore
    <3>2. QED
      BY <2>2, <3>1
  <2>4. \A t \in kept : /\ t \in Task /\ j.read[t] # "absent"
                        /\ j.seen[t] = "running" => j.read[t] # "cancelled"
    BY DEF SnapshotKeeps
  <2>5. /\ taskStatusCache' = [t \in Task |->
              IF t \in kept THEN CacheEntry(j.read[t]) ELSE taskStatusCache[t]]
        /\ sent' = {[to |-> s, task |-> t, status |-> j.seen[t], user |-> j.user,
                     via |-> "snapshot"] : t \in {u \in kept : client[s].state = "open"}}
    BY <1>5 DEF JoinAnswer
  <2> HIDE DEF kept
  <2>6. CacheInv'
    <3>1. \A t \in Task : \/ taskStatusCache'[t] = taskStatusCache[t]
                          \/ /\ t \in kept /\ taskStatusCache'[t].status = j.read[t]
                             /\ taskStatusCache'[t].cachedAt = now
      BY <2>5 DEF CacheEntry
    <3>2. QED
      BY <2>1, <2>2, <2>3, <2>4, <3>1 DEF IInv, CacheInv
  <2>7. \A m \in sent' : /\ m.to = s /\ m.task \in kept /\ m.status = j.seen[m.task]
                         /\ m.user = j.user /\ m.via = "snapshot"
                         /\ client[s].state = "open"
    BY <2>5
  <2>8. SentInv'
    <3>1. StaleRunningIsBounded'
      BY <2>7 DEF StaleRunningIsBounded, Checked
    <3>2. SnapshotIsFresh'
      BY <2>1, <2>3, <2>4, <2>7 DEF SnapshotIsFresh
    <3>3. OnlyNamedUserSees'
      BY <2>1, <2>4, <2>7 DEF IInv, UserInv, Belongs, OnlyNamedUserSees
    <3>4. QED
      BY <3>1, <3>2, <3>3 DEF SentInv
  <2>9. CheckInv'
    BY <2>1 DEF IInv, CheckInv, ReadBefore
  <2>10. QED
    BY <1>2, <2>1, <2>6, <2>8, <2>9 DEF IInv
<1>6. CASE JoinFails(s)
  <2>1. /\ join' = [join EXCEPT ![s] = NotJoining] /\ Silent
        /\ UNCHANGED <<now, row, cancelledAt, taskStatusCache, check, client>>
    BY <1>6 DEF JoinFails
  <2>2. QED
    BY <1>1, <1>2, <2>1, SilentSafe DEF IInv
<1>7. QED
  BY <1>3, <1>4, <1>5, <1>6 DEF JoinStep

\* Messages of clients: a socket has something coming only once it has a user.
LEMMA ClientKeeps ==
    ASSUME TypeOK, IInv, NEW s \in Socket, ClientStep(s)
    PROVE  IInv'
<1> USE DEF clockVars, taskVars
<1>1. ASSUME \E u \in User, exp \in Expiry : Connect(s, u, exp)
      PROVE  IInv'
  <2>1. /\ client[s] = NotConnected /\ Silent
        /\ UNCHANGED <<now, row, cancelledAt, taskStatusCache, check, join>>
        /\ \A r \in Socket : r # s => client'[r] = client[r]
    BY <1>1 DEF Connect, TypeOK
  <2>2. \A u : ~Belongs(s, u)
    BY <2>1 DEF Belongs, NotConnected
  <2>3. CheckInv' /\ JoinInv' /\ CacheInv'
    BY <2>1 DEF IInv, CheckInv, JoinInv, CacheInv, ReadBefore
  <2>4. UserInv'
    BY <2>1, <2>2 DEF IInv, UserInv, Belongs
  <2>5. QED
    BY <2>1, <2>3, <2>4, SilentSafe DEF IInv
<1>5. CASE Admit(s)
  <2>1. /\ client[s].state = "entering" /\ Silent
        /\ UNCHANGED <<now, row, cancelledAt, taskStatusCache, check>>
        /\ \A r \in Socket :
             \/ r # s /\ client'[r] = client[r] /\ join'[r] = join[r]
             \/ /\ r = s /\ client'[r].state = "open" /\ client'[r].user = client[r].user
                /\ join'[r].step = "redis" /\ join'[r].user = client[r].user
    BY <1>5 DEF Admit, TypeOK
  <2>2. \A u : ~Belongs(s, u)
    BY <2>1 DEF Belongs
  <2>3. CheckInv' /\ JoinInv' /\ CacheInv'
    BY <2>1 DEF IInv, CheckInv, JoinInv, CacheInv, ReadBefore
  <2>4. UserInv'
    BY <2>1, <2>2 DEF IInv, UserInv, Belongs
  <2>5. QED
    BY <2>1, <2>3, <2>4, SilentSafe DEF IInv
<1>2. ASSUME NEW t \in Task, HandleSubscribe(s, t)
      PROVE  IInv'
  <2>1. /\ progress[t] \in Progress /\ s \in Recipient /\ Belongs(s, progress[t].user)
        /\ UNCHANGED <<now, row, cancelledAt, client, join>>
    BY <1>2, Shapes DEF HandleSubscribe, Authorised, Shows, Belongs, Recipient
  <2>2. QED
    BY <1>2, <2>1, ValidateKeeps DEF HandleSubscribe
<1>3. ASSUME NEW t \in Task, HandleGetProgress(s, t)
      PROVE  IInv'
  <2>1. /\ progress[t] \in Progress /\ s \in Recipient /\ Belongs(s, progress[t].user)
        /\ Emit(s, t, progress[t], "unchecked")
        /\ UNCHANGED <<now, row, cancelledAt, taskStatusCache, check, client, join>>
    BY <1>3, Shapes DEF HandleGetProgress, Authorised, Shows, Belongs, Recipient
  <2>2. SentInv'
    BY <2>1, EmitSafe DEF Checked
  <2>3. CheckInv' /\ JoinInv' /\ CacheInv' /\ UserInv'
    BY <2>1 DEF IInv, CheckInv, JoinInv, CacheInv, UserInv, ReadBefore, Belongs
  <2>4. QED
    BY <2>2, <2>3 DEF IInv
<1>4. CASE HandleDisconnect(s) \/ Refuse(s)
  <2>1. /\ Silent /\ UNCHANGED <<now, row, cancelledAt, taskStatusCache, check, join>>
        /\ \A r \in Socket : client'[r] = client[r] \/ client'[r].state = "closed"
    BY <1>4 DEF HandleDisconnect, Refuse, Closed, TypeOK
  <2>2. CheckInv' /\ JoinInv' /\ CacheInv'
    BY <2>1 DEF IInv, CheckInv, JoinInv, CacheInv, ReadBefore
  <2>3. UserInv'
    BY <2>1 DEF IInv, UserInv, Belongs
  <2>4. QED
    BY <2>1, <2>2, <2>3, SilentSafe DEF IInv
<1>6. QED
  BY <1>1, <1>2, <1>3, <1>4, <1>5 DEF ClientStep

\* The clock waits for answers that are QueryTime old; the timers take entries
\* and sockets away.
LEMMA ClockKeeps ==
    ASSUME TypeOK, IInv, StartTimers \/ Tick \/ CheckTokens \/ ClearExpiredCacheEntries
    PROVE  IInv'
<1> USE DEF taskVars
<1>1. CASE Tick
  <2>1. /\ now' = now + 1 /\ Silent
        /\ UNCHANGED <<row, cancelledAt, taskStatusCache, check, client, join>>
        /\ \A h \in Handler : check[h].step = "answered" => now - check[h].readAt < QueryTime
        /\ \A s \in Socket : join[s].step = "answered" => now - join[s].readAt < QueryTime
    BY <1>1 DEF Tick
  <2>2. CheckInv'
    BY <2>1, TimesCompare, TimesAreNat DEF IInv, CheckInv, ReadBefore
  <2>3. JoinInv'
    BY <2>1, TimesCompare, TimesAreNat DEF IInv, JoinInv, ReadBefore
  <2>4. CacheInv'
    BY <2>1, TimesCompare, TimesAreNat DEF IInv, CacheInv
  <2>5. UserInv'
    BY <2>1 DEF IInv, UserInv, Belongs
  <2>6. QED
    BY <2>1, <2>2, <2>3, <2>4, <2>5, SilentSafe DEF IInv
<1>2. CASE CheckTokens
  <2>1. /\ Silent /\ UNCHANGED <<now, row, cancelledAt, taskStatusCache, check, join>>
        /\ \A r \in Socket : client'[r] = client[r] \/ client'[r].state = "closed"
    BY <1>2 DEF CheckTokens, Closed
  <2>2. CheckInv' /\ JoinInv' /\ CacheInv'
    BY <2>1 DEF IInv, CheckInv, JoinInv, CacheInv, ReadBefore
  <2>3. UserInv'
    BY <2>1 DEF IInv, UserInv, Belongs
  <2>4. QED
    BY <2>1, <2>2, <2>3, SilentSafe DEF IInv
<1>3. CASE ClearExpiredCacheEntries
  <2>1. /\ Silent /\ UNCHANGED <<now, row, cancelledAt, check, client, join>>
        /\ \A t \in Task : taskStatusCache'[t] = taskStatusCache[t]
                           \/ taskStatusCache'[t] = NoEntry
    BY <1>3 DEF ClearExpiredCacheEntries
  <2>2. CheckInv' /\ JoinInv' /\ CacheInv' /\ UserInv'
    BY <2>1 DEF IInv, CheckInv, JoinInv, CacheInv, UserInv, ReadBefore, Belongs
  <2>3. QED
    BY <2>1, <2>2, SilentSafe DEF IInv
<1>4. CASE StartTimers
  <2>1. /\ Silent
        /\ UNCHANGED <<now, row, cancelledAt, taskStatusCache, check, client, join>>
    BY <1>4 DEF StartTimers
  <2>2. CheckInv' /\ JoinInv' /\ CacheInv' /\ UserInv'
    BY <2>1 DEF IInv, CheckInv, JoinInv, CacheInv, UserInv, ReadBefore, Belongs
  <2>3. QED
    BY <2>1, <2>2, SilentSafe DEF IInv
<1>5. QED
  BY <1>1, <1>2, <1>3, <1>4

\* The strengthening is inductive.
LEMMA Invariance == Spec => []IInv
<1>1. Init => IInv
  <2> SUFFICES ASSUME Init
               PROVE  IInv
    OBVIOUS
  <2>1. CheckInv /\ JoinInv /\ UserInv
    BY DEF Init, CheckInv, JoinInv, UserInv, NoCheck, NotJoining
  <2>2. CacheInv /\ SentInv
    BY DEF Init, CacheInv, SentInv, StaleRunningIsBounded, SnapshotIsFresh, OnlyNamedUserSees
  <2>3. QED
    BY <2>1, <2>2 DEF IInv
<1>2. TypeOK /\ IInv /\ [Next]_vars => IInv'
  <2> SUFFICES ASSUME TypeOK, IInv, [Next]_vars
               PROVE  IInv'
    OBVIOUS
  <2>1. CASE UNCHANGED vars
    BY <2>1 DEF vars, clockVars, taskVars, IInv, CheckInv, JoinInv, CacheInv, UserInv,
                ReadBefore, Belongs, SentInv, StaleRunningIsBounded, SnapshotIsFresh,
                OnlyNamedUserSees
  <2>2. CASE Next
    BY <2>2, TaskKeeps, CheckKeeps, JoinKeeps, ClientKeeps, ClockKeeps DEF Next
  <2>3. QED
    BY <2>1, <2>2
<1>3. QED
  BY <1>1, <1>2, TypeCorrect, PTL DEF Spec

\* Running updates stop TTL and one database answer after a cancellation
\* (StaleRunningIsBounded), however many checks overlap and whatever they cache.
THEOREM StalenessIsBounded == Spec => []StaleRunningIsBounded
<1>1. IInv => StaleRunningIsBounded
  BY DEF IInv, SentInv
<1>2. QED
  BY <1>1, Invariance, PTL

\* The snapshot of a connecting client misses a cancellation only while its own
\* database answer is on its way (SnapshotIsFresh).
THEOREM SnapshotsAreFresh == Spec => []SnapshotIsFresh
<1>1. IInv => SnapshotIsFresh
  BY DEF IInv, SentInv
<1>2. QED
  BY <1>1, Invariance, PTL

\* Whatever user the worker names, progress reaches open sockets of that user only,
\* and what is checked against the row or is part of a snapshot reaches the task's
\* owner only (OnlyNamedUserSees).
THEOREM MessagesReachTheNamed == Spec => []OnlyNamedUserSees
<1>1. IInv => OnlyNamedUserSees
  BY DEF IInv, SentInv
<1>2. QED
  BY <1>1, Invariance, PTL

-----------------------------------------------------------------------------
(* The interval timers *)

\* Dividing by a period leaves less than the period.
LEMMA Remainder ==
    ASSUME NEW n \in Nat, NEW p \in Nat \ {0}
    PROVE  /\ (n % p) \in 0..(p - 1)
           /\ (n \div p) \in Int
           /\ n = (p * (n \div p)) + (n % p)
<1>1. (n % p) \in 0..(p - 1)
  BY SMT
<1>2. (n \div p) \in Int /\ n = (p * (n \div p)) + (n % p)
  BY SMT
<1>3. QED
  BY <1>1, <1>2

\* Successive times that are both written as multiples of p and a remainder.
LEMMA RemaindersStep ==
    ASSUME NEW p \in Nat, NEW a \in Int, NEW b \in Int,
           NEW r \in 0..(p - 1), NEW q \in 0..(p - 1),
           (p * a) + r + 1 = (p * b) + q, q # 0
    PROVE  q = r + 1
<1>1. a = b
  BY SMTT(30)
<1>2. QED
  BY <1>1, SMTT(30)

\* Between two runs of a timer the time since the last one grows by one.
LEMMA RemainderGrows ==
    ASSUME NEW n \in Nat, NEW p \in Nat \ {0}, (n + 1) % p # 0
    PROVE  (n + 1) % p = (n % p) + 1
<1> DEFINE a == n \div p
           b == (n + 1) \div p
           r == n % p
           q == (n + 1) % p
<1>1. n = (p * a) + r /\ a \in Int /\ r \in 0..(p - 1)
  BY Remainder
<1>2. n + 1 \in Nat
  OBVIOUS
<1>3. n + 1 = (p * b) + q /\ b \in Int /\ q \in 0..(p - 1) /\ q # 0
  BY <1>2, Remainder
<1> HIDE DEF a, b, r, q
<1>4. (p * a) + r + 1 = (p * b) + q
  BY <1>1, <1>3
<1>5. q = r + 1
  BY <1>1, <1>3, <1>4, RemaindersStep
<1>6. QED
  BY <1>5 DEF q, r

\* How long ago a timer that is started ran last, or for the Period before a run
\* that is due.
Overdue(timer) == IF timer \in due THEN Period ELSE (now - startedAt) % Period

StartInv == Started => startedAt \in Nat /\ startedAt <= now

\* Since the last run of its timer, or since its start, nothing has outlived its time.
TokenInv ==
    \A s \in Socket : client[s].state = "open" =>
        /\ client[s].tokenExp <= client[s].closableAt
        /\ Started => \/ now <= client[s].closableAt + Overdue("tokens")
                      \/ now <= startedAt + Overdue("tokens")

EntryInv ==
    \A t \in Task : Started /\ taskStatusCache[t] # NoEntry =>
        \/ now <= taskStatusCache[t].cachedAt + TTL + Overdue("cache")
        \/ now <= startedAt + Overdue("cache")

TimerInv == StartInv /\ TokenInv /\ EntryInv

\* A timer is never more than its period late.
LEMMA OverdueType ==
    ASSUME TypeOK, StartInv, Started
    PROVE  /\ \A timer : Overdue(timer) \in 0..Period
           /\ (now - startedAt) % Period \in 0..(Period - 1)
<1>1. now - startedAt \in Nat /\ Period \in Nat \ {0}
  BY TimesCompare, TimesAssumption DEF StartInv
<1>2. (now - startedAt) % Period \in 0..(Period - 1)
  BY <1>1, Remainder
<1>3. QED
  BY <1>1, <1>2 DEF Overdue

\* What is known of an open socket.
LEMMA OpenShape ==
    ASSUME TypeOK
    PROVE  \A s \in Socket : client[s].state = "open" =>
              client[s].tokenExp \in Nat /\ client[s].closableAt \in Nat
<1>1. \A s \in Socket : client[s] \in Entering \union Connected \union {NotConnected, Closed}
  BY DEF TypeOK
<1>2. \A s \in Socket : client[s].state = "open" =>
         client[s].tokenExp \in Expiry /\ client[s].closableAt \in Expiry \union Time
  BY <1>1 DEF Entering, Connected, NotConnected, Closed
<1>3. QED
  BY <1>2, TimesAssumption, TimesAreNat

\* Tick makes a timer due, or lets its time grow by one.
LEMMA TickOverdue ==
    ASSUME TypeOK, StartInv, Started, Tick
    PROVE  \A timer \in {"tokens", "cache"} :
              /\ now' = now + 1
              /\ Overdue(timer)' \in Nat /\ Overdue(timer) + 1 <= Overdue(timer)'
<1>1. /\ now' = now + 1 /\ startedAt' = startedAt /\ due = {}
      /\ now \in Nat /\ startedAt \in Nat /\ startedAt <= now /\ Period \in Nat \ {0}
  BY TimesCompare, TimesAssumption DEF Tick, StartInv
<1> DEFINE n == now - startedAt
<1>2. n \in Nat /\ now' - startedAt' = n + 1
  BY <1>1
<1>3. (n % Period) \in 0..(Period - 1)
  BY <1>1, <1>2, Remainder
<1>4. \A timer : Overdue(timer) = n % Period
  BY <1>1 DEF Overdue
<1>5. due' = IF (n + 1) % Period = 0 THEN {"tokens", "cache"} ELSE {}
  BY <1>1, <1>2 DEF Tick
<1>6. \A timer : Overdue(timer)' = IF timer \in due' THEN Period ELSE (n + 1) % Period
  BY <1>2 DEF Overdue
<1> HIDE DEF n
<1>7. CASE (n + 1) % Period = 0
  BY <1>1, <1>3, <1>4, <1>5, <1>6, <1>7
<1>8. CASE (n + 1) % Period # 0
  <2>1. (n + 1) % Period = (n % Period) + 1
    BY <1>1, <1>2, <1>8, RemainderGrows
  <2>2. QED
    BY <1>1, <1>3, <1>4, <1>5, <1>6, <1>8, <2>1
<1>9. QED
  BY <1>7, <1>8

\* Between the ticks and timers, entries are fresh, kept or removed, and sockets
\* are let in, kept or closed.
LEMMA BetweenTicks ==
    ASSUME TypeOK, TimerInv, UNCHANGED clockVars,
           \A s \in Socket : \/ client'[s] = client[s]
                             \/ client'[s].state # "open"
                             \/ /\ client'[s].closableAt \in Nat
                                /\ client'[s].tokenExp <= client'[s].closableAt
                                /\ now <= client'[s].closableAt,
           \A t \in Task : \/ taskStatusCache'[t] \in {taskStatusCache[t], NoEntry}
                           \/ taskStatusCache'[t].cachedAt = now
    PROVE  TimerInv'
<1>1. StartInv' /\ (Started' <=> Started)
  BY DEF TimerInv, StartInv, Started, clockVars
<1>2. \A timer : Overdue(timer)' = Overdue(timer)
  BY DEF Overdue, clockVars
<1>3. now' = now /\ startedAt' = startedAt /\ now \in Nat /\ TTL \in Nat
  BY TimesCompare, TimesAreNat DEF clockVars
<1>4. PICK tokens, cache : tokens = Overdue("tokens") /\ cache = Overdue("cache")
  OBVIOUS
<1>5. Started => tokens \in Nat /\ cache \in Nat
  BY <1>4, OverdueType, TimesAssumption DEF TimerInv
<1>6. TokenInv'
  BY <1>1, <1>2, <1>3, <1>4, <1>5 DEF TimerInv, TokenInv
<1>7. EntryInv'
  BY <1>1, <1>2, <1>3, <1>4, <1>5 DEF TimerInv, EntryInv
<1>8. QED
  BY <1>1, <1>6, <1>7 DEF TimerInv

\* A message that is validated leaves entries alone or removes an expired one.
LEMMA ValidateEntries ==
    ASSUME TypeOK, NEW t \in Task, NEW said, NEW to, Validate(t, said, to)
    PROVE  \A u \in Task : taskStatusCache'[u] \in {taskStatusCache[u], NoEntry}
BY DEF Validate, TypeOK

\* The steps that are not the clock's or a timer's.
LEMMA UntimedSteps ==
    ASSUME TypeOK, Next, ~StartTimers, ~Tick, ~CheckTokens, ~ClearExpiredCacheEntries
    PROVE  /\ UNCHANGED clockVars
           /\ \A s \in Socket : \/ client'[s] = client[s]
                                \/ client'[s].state # "open"
                                \/ /\ client'[s].closableAt \in Nat
                                   /\ client'[s].tokenExp <= client'[s].closableAt
                                   /\ now <= client'[s].closableAt
           /\ \A t \in Task : \/ taskStatusCache'[t] \in {taskStatusCache[t], NoEntry}
                              \/ taskStatusCache'[t].cachedAt = now
<1>1. ASSUME NEW t \in Task, TaskStep(t)
      PROVE  /\ UNCHANGED <<clockVars, client>>
             /\ \A u \in Task : taskStatusCache'[u] \in {taskStatusCache[u], NoEntry}
  <2>1. CASE PublishCancelled(t) \/ \E u \in User : WorkerReport(t, u)
                                                   \/ WorkerReportResult(t, u)
    BY <2>1, ValidateEntries DEF PublishCancelled, WorkerReport, WorkerReportResult
  <2>2. CASE ReadForCancel(t) \/ CancelRow(t) \/ SetCancelledProgress(t)
             \/ WorkerPoll(t) \/ WorkerFinish(t)
    BY <2>2 DEF ReadForCancel, CancelRow, SetCancelledProgress, WorkerPoll, WorkerFinish
  <2>3. QED
    BY <1>1, <2>1, <2>2 DEF TaskStep
<1>2. ASSUME NEW h \in Handler, CheckStep(h)
      PROVE  /\ UNCHANGED <<clockVars, client>>
             /\ \A t \in Task : \/ taskStatusCache'[t] = taskStatusCache[t]
                                \/ taskStatusCache'[t].cachedAt = now
  <2>1. CASE ConcludeCheck(h)
    BY <2>1 DEF ConcludeCheck, CacheEntry, TypeOK
  <2>2. CASE QueryRow(h) \/ FailOpen(h)
    BY <2>2 DEF QueryRow, FailOpen
  <2>3. QED
    BY <1>2, <2>1, <2>2 DEF CheckStep
<1>3. ASSUME NEW s \in Socket, JoinStep(s)
      PROVE  /\ UNCHANGED <<clockVars, client>>
             /\ \A t \in Task : \/ taskStatusCache'[t] = taskStatusCache[t]
                                \/ taskStatusCache'[t].cachedAt = now
  <2>1. CASE JoinAnswer(s)
    BY <2>1 DEF JoinAnswer, CacheEntry
  <2>2. CASE JoinRedis(s) \/ JoinQuery(s) \/ JoinFails(s)
    BY <2>2 DEF JoinRedis, JoinQuery, JoinFails
  <2>3. QED
    BY <1>3, <2>1, <2>2 DEF JoinStep
<1>4. ASSUME NEW s \in Socket, ClientStep(s)
      PROVE  /\ UNCHANGED clockVars
             /\ \A r \in Socket : \/ client'[r] = client[r]
                                  \/ client'[r].state # "open"
                                  \/ /\ client'[r].closableAt \in Nat
                                     /\ client'[r].tokenExp <= client'[r].closableAt
                                     /\ now <= client'[r].closableAt
             /\ \A t \in Task : taskStatusCache'[t] \in {taskStatusCache[t], NoEntry}
  <2>1. CASE \E u \in User, exp \in Expiry : Connect(s, u, exp)
    BY <2>1 DEF Connect, TypeOK
  <2>2. CASE Admit(s)
    <3>1. client[s].tokenExp \in Nat /\ now \in Nat
      <4>1. client[s] \in Entering \union Connected \union {NotConnected, Closed}
        BY DEF TypeOK
      <4>2. client[s].tokenExp \in Expiry
        BY <2>2, <4>1 DEF Admit, Entering, Connected, NotConnected, Closed
      <4>3. QED
        BY <4>2, TimesCompare, TimesAssumption
    <3>2. /\ UNCHANGED <<clockVars, taskStatusCache>>
          /\ \A r \in Socket :
               \/ client'[r] = client[r]
               \/ /\ client'[r].tokenExp = client[s].tokenExp
                  /\ client'[r].closableAt = IF now > client[s].tokenExp
                                             THEN now ELSE client[s].tokenExp
      BY <2>2 DEF Admit, TypeOK
    <3>3. QED
      BY <3>1, <3>2
  <2>3. ASSUME NEW t \in Task, HandleSubscribe(s, t)
        PROVE  /\ UNCHANGED <<clockVars, client>>
               /\ \A u \in Task : taskStatusCache'[u] \in {taskStatusCache[u], NoEntry}
    BY <2>3, ValidateEntries DEF HandleSubscribe
  <2>4. ASSUME NEW t \in Task, HandleGetProgress(s, t)
        PROVE  UNCHANGED <<clockVars, client, taskStatusCache>>
    BY <2>4 DEF HandleGetProgress
  <2>5. CASE HandleDisconnect(s) \/ Refuse(s)
    BY <2>5 DEF HandleDisconnect, Refuse, Closed, TypeOK
  <2>6. QED
    BY <1>4, <2>1, <2>2, <2>3, <2>4, <2>5 DEF ClientStep
<1>5. CASE \E t \in Task : TaskStep(t)
  BY <1>1, <1>5
<1>6. CASE \E h \in Handler : CheckStep(h)
  BY <1>2, <1>6
<1>7. CASE \E s \in Socket : JoinStep(s) \/ ClientStep(s)
  BY <1>3, <1>4, <1>7
<1>8. QED
  BY <1>5, <1>6, <1>7 DEF Next

\* Since the last run of their timer, or since it was started, sockets and entries
\* have outlived their time by at most what the timer is late.
LEMMA TimerInvariance == Spec => []TimerInv
<1>1. Init => TimerInv
  BY DEF Init, TimerInv, StartInv, TokenInv, EntryInv, Started, NotConnected
<1>2. TypeOK /\ TimerInv /\ [Next]_vars => TimerInv'
  <2> SUFFICES ASSUME TypeOK, TimerInv, [Next]_vars
               PROVE  TimerInv'
    OBVIOUS
  <2>1. now \in Nat /\ TTL \in Nat /\ Period \in Nat
    BY TimesCompare, TimesAreNat, TimesAssumption
  <2>2. PICK tokens, cache : tokens = Overdue("tokens") /\ cache = Overdue("cache")
    OBVIOUS
  <2>3. CASE UNCHANGED vars
    BY <2>3, BetweenTicks DEF vars
  <2>4. CASE Tick
    <3>1. now' = now + 1 /\ UNCHANGED <<startedAt, client, taskStatusCache>>
      BY <2>4 DEF Tick
    <3>2. PICK tokensNext, cacheNext :
              tokensNext = Overdue("tokens")' /\ cacheNext = Overdue("cache")'
      OBVIOUS
    <3>3. Started' <=> Started
      BY <3>1 DEF Started
    <3>4. Started => /\ tokens \in Nat /\ cache \in Nat /\ startedAt \in Nat
                     /\ tokensNext \in Nat /\ cacheNext \in Nat
                     /\ tokens + 1 <= tokensNext /\ cache + 1 <= cacheNext
      BY <2>1, <2>2, <2>4, <3>2, TickOverdue, OverdueType DEF TimerInv, StartInv
    <3>5. StartInv'
      BY <2>1, <3>1, <3>3 DEF TimerInv, StartInv
    <3>6. TokenInv'
      BY <2>1, <2>2, <3>1, <3>2, <3>3, <3>4, OpenShape DEF TimerInv, TokenInv
    <3>7. EntryInv'
      BY <2>1, <2>2, <3>1, <3>2, <3>3, <3>4, TimesCompare DEF TimerInv, EntryInv
    <3>8. QED
      BY <3>5, <3>6, <3>7 DEF TimerInv
  <2>5. CASE StartTimers
    <3>1. now' = now /\ startedAt' = now /\ UNCHANGED <<due, client, taskStatusCache>>
      BY <2>5 DEF StartTimers
    <3>2. PICK tokensNext, cacheNext :
              tokensNext = Overdue("tokens")' /\ cacheNext = Overdue("cache")'
      OBVIOUS
    <3>3. tokensNext \in Nat /\ cacheNext \in Nat
      <4>1. now' - startedAt' = 0 /\ (0 % Period) \in 0..(Period - 1)
        BY <2>1, <3>1, Remainder, TimesAssumption
      <4>2. QED
        BY <2>1, <3>2, <4>1 DEF Overdue
    <3>4. StartInv'
      BY <2>1, <3>1 DEF StartInv
    <3>5. TokenInv'
      BY <2>1, <3>1, <3>2, <3>3 DEF TimerInv, TokenInv
    <3>6. EntryInv'
      BY <2>1, <3>1, <3>2, <3>3 DEF EntryInv
    <3>7. QED
      BY <3>4, <3>5, <3>6 DEF TimerInv
  <2>6. CASE CheckTokens
    <3>1. /\ now' = now /\ startedAt' = startedAt /\ UNCHANGED taskStatusCache
          /\ due' = due \ {"tokens"}
          /\ \A s \in Socket : client'[s].state = "open" =>
                client'[s] = client[s] /\ ~(client[s].tokenExp < now)
      BY <2>6 DEF CheckTokens, TokenExpired, Closed
    <3>2. PICK left : left = Overdue("tokens")'
      OBVIOUS
    <3>3. Started' <=> Started
      BY <3>1 DEF Started
    <3>4. Started => left \in Nat
      <4>1. Started => (now - startedAt) % Period \in 0..(Period - 1)
        BY OverdueType DEF TimerInv
      <4>2. QED
        BY <2>1, <3>1, <3>2, <4>1 DEF Overdue
    <3>5. Overdue("cache")' = Overdue("cache")
      BY <3>1 DEF Overdue
    <3>6. StartInv'
      BY <3>1, <3>3 DEF TimerInv, StartInv
    <3>7. TokenInv'
      BY <2>1, <3>1, <3>2, <3>3, <3>4, OpenShape DEF TimerInv, TokenInv
    <3>8. EntryInv'
      BY <3>1, <3>3, <3>5 DEF TimerInv, EntryInv
    <3>9. QED
      BY <3>6, <3>7, <3>8 DEF TimerInv
  <2>7. CASE ClearExpiredCacheEntries
    <3>1. /\ now' = now /\ startedAt' = startedAt /\ UNCHANGED client
          /\ due' = due \ {"cache"}
          /\ \A t \in Task : taskStatusCache'[t] # NoEntry =>
                taskStatusCache'[t] = taskStatusCache[t]
                /\ ~(now - taskStatusCache[t].cachedAt > TTL)
      BY <2>7 DEF ClearExpiredCacheEntries, Expired
    <3>2. PICK left : left = Overdue("cache")'
      OBVIOUS
    <3>3. Started' <=> Started
      BY <3>1 DEF Started
    <3>4. Started => left \in Nat
      <4>1. Started => (now - startedAt) % Period \in 0..(Period - 1)
        BY OverdueType DEF TimerInv
      <4>2. QED
        BY <2>1, <3>1, <3>2, <4>1 DEF Overdue
    <3>5. Overdue("tokens")' = Overdue("tokens")
      BY <3>1 DEF Overdue
    <3>6. StartInv'
      BY <3>1, <3>3 DEF TimerInv, StartInv
    <3>7. TokenInv'
      BY <3>1, <3>3, <3>5 DEF TimerInv, TokenInv
    <3>8. EntryInv'
      BY <2>1, <3>1, <3>2, <3>3, <3>4, TimesCompare DEF EntryInv
    <3>9. QED
      BY <3>6, <3>7, <3>8 DEF TimerInv
  <2>8. CASE Next /\ ~StartTimers /\ ~Tick /\ ~CheckTokens /\ ~ClearExpiredCacheEntries
    BY <2>8, UntimedSteps, BetweenTicks
  <2>9. QED
    BY <2>3, <2>4, <2>5, <2>6, <2>7, <2>8
<1>3. QED
  BY <1>1, <1>2, TypeCorrect, PTL DEF Spec

\* Once the timers are started, a socket outlives its token, or its admission or the
\* timers' start where these came later, by at most a period of the token check
\* (ExpiredSocketsLeave).
THEOREM ExpiredSocketsAreClosed == Spec => []ExpiredSocketsLeave
<1>1. TypeOK /\ TimerInv => ExpiredSocketsLeave
  <2> SUFFICES ASSUME TypeOK, TimerInv, NEW s \in Socket, Started,
                      client[s].state = "open"
               PROVE  \/ now <= client[s].closableAt + Period
                      \/ now <= startedAt + Period
    BY DEF ExpiredSocketsLeave
  <2>1. PICK late : late = Overdue("tokens")
    OBVIOUS
  <2>2. /\ late \in 0..Period /\ startedAt \in Nat
        /\ now <= client[s].closableAt + late \/ now <= startedAt + late
    BY <2>1, OverdueType DEF TimerInv, StartInv, TokenInv
  <2>3. QED
    BY <2>2, OpenShape, TimesCompare, TimesAssumption
<1>2. QED
  BY <1>1, TypeCorrect, TimerInvariance, PTL

\* Once the timers are started, an expired status leaves the cache within a cleanup
\* period of its expiry or of their start (CacheIsCleaned).
THEOREM CacheStaysClean == Spec => []CacheIsCleaned
<1>1. TypeOK /\ TimerInv => CacheIsCleaned
  <2> SUFFICES ASSUME TypeOK, TimerInv, NEW t \in Task, Started,
                      taskStatusCache[t] # NoEntry
               PROVE  \/ now <= taskStatusCache[t].cachedAt + TTL + Period
                      \/ now <= startedAt + Period
    BY DEF CacheIsCleaned
  <2>1. PICK late : late = Overdue("cache")
    OBVIOUS
  <2>2. /\ late \in 0..Period /\ startedAt \in Nat
        /\ now <= taskStatusCache[t].cachedAt + TTL + late \/ now <= startedAt + late
    BY <2>1, OverdueType DEF TimerInv, StartInv, EntryInv
  <2>3. QED
    BY <2>2, TimesCompare, TimesAreNat, TimesAssumption
<1>2. QED
  BY <1>1, TypeCorrect, TimerInvariance, PTL

=============================================================================
