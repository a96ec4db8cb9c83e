# A formal model of crypto-watcher-bot-backend

TLA+ specifications of the backend, TLC configurations that model-check them,
and TLAPS proofs. Paths below are relative to the repository; `backtest.service.ts:373`
stands for line 373 of `src/backtest/backtest.service.ts`.

The backend is a NestJS API over PostgreSQL (through Prisma) and Redis. Node runs
one event loop, so code between two `await`s is atomic and everything else
interleaves: the services read a row, decide, and later write by id alone, with
no transactions around the pair. That, the calls that fail half way, the timers and
the external worker are what the models are about.

## 1. Inventory

| Component | State it keeps | Operations | Talks to | Hard behaviour |
| --- | --- | --- | --- | --- |
| Backtest task lifecycle (`backtest.service.ts`, `queue.service.ts`) | `BacktestTask` rows; job records and queues in Redis | createTask, archive, unarchive, delete, cancel | PostgreSQL, Redis, the Python worker through the queue, the gateway through Pub/Sub | one request makes many rows and jobs without a transaction; check-then-update; crash between row and job; worker in parallel |
| Progress gateway (`backtest-progress.gateway.ts`, `ws-jwt.guard.ts`) | sockets with their tokens, `taskStatusCache`, interval timers | Redis message handler, handleConnection, subscribe, get_progress, token check, cache cleanup | Redis, PostgreSQL, browsers | handlers are not awaited and overlap; stale reads and cache entries; fail-open |
| Redis subscription (the same gateway, `redis.service.ts`) | `isSubscribed`, `redisRetryCount`, timers | afterInit, subscribeToRedis, onModuleDestroy, clients connecting and quitting | Redis | retries, initialisation order, shutdown |
| Redis progress cache (`redis.service.ts`) | `backtest:progress:*` keys | get one / get all (SCAN), clear | worker, cancelTask | two writers without order; errors become "no data" |
| Backtest strategies and results (`backtest.service.ts`) | templates, results, trades | create, archive, unarchive, delete templates; lists; trade details; performance chart | candle client | name check before insert; pages over changing lists; search windows at the edges |
| Sessions (`auth-core.service.ts`, `jwt.strategy.ts`) | login attempts, lock, security stamps in JWTs | register, login, refresh, validate | browser cookies, gateway | concurrent failed logins, refresh against a changed password |
| Password reset and management | one-time codes, `password_changed_at` | forgot, verify, reset, set | email | invalidate-and-create and find-and-use are not atomic |
| Two-factor authentication | secret, backup codes, attempts, `two_factor_enabled_at` | setup, enable, disable, verify, regenerate | sessions | one-time codes used twice, rate limit counted before it is recorded |
| Email verification, OAuth sign-in | verification codes; linked accounts | verify, resend; callback, link, unlink | email, Google | the check that a password remains is apart from the removal of the link |
| Strategies, trading accounts, portfolios | `is_live`, `archived_at`, `deleted_at`; balances | create, copy, update, archive, delete; deposit, withdraw | one another through foreign keys; the trading engine through the database | duplicate checks, live flag against delete, lost balance updates |
| Positions, candle client, dashboard | none (they read) | paginated lists, charts, candles with retries | GraphQL service | merged pagination, off-by-ones at window edges |
| Email, encryption, timezone, cookies, profile, configuration | none of their own | stateless | libraries | none a model checker would reach |

`PROJECT.json` lists every component with its status and every hazard at its line.

What makes each correct:

- **Task lifecycle.** A queued job has its record and row; a recorded job id means a
  queued job; success is answered only for a complete batch; a failure leaves at most
  one unsubmitted row; a cancellation is not undone except by a worker already running.
- **Gateway.** A `running` message about a cancelled task passes only for a bounded
  time; progress reaches only the user it names, who is the task's owner wherever the row was
  read; expired tokens and cache entries go.
- **Subscription.** There is one chain of attempts, never two and never none; the flag
  says what the client does; the gateway ends up subscribed if Redis is reachable.
- **Ways into an account.** The user always keeps a password or a Google link;
  an account is locked only after five failures; a token older than a stamped change of the password or
  than the enabling of two-factor authentication is not accepted. Where a check and its write can be
  overtaken (codes, backup codes, the limit on attempts) the excess is bounded by the number of
  requests in flight.
- **Strategies, accounts, portfolios.** A live strategy is neither deleted nor archived, a mode
  needs its portfolio, names are unique among undeleted rows, a balance is the sum of its changes: each
  unless requests overlap, and the overlap can do only so much.
- **Positions, candles, lists, figures.** The pages of a list show every row once, rows with equal
  sort values apart; a chart has no holes and reaches the exit; a failing candle service delays an answer but does not prevent it; the
  drawdown is the worst fall of the curve.

## 2. Plan

| # | Module | Contents | Status |
| --- | --- | --- | --- |
| 1 | `BacktestTask` with abstract `BatchSubmission` | task lifecycle, refinement | done |
| 2 | `BacktestTaskProofs`, `BatchRefinementProofs` | invariants and refinement, proved | done |
| 3 | `ProgressGateway`, `MCProgressGateway`, `ProgressGatewayProofs` | message checks, cache, clients, clocks, with proofs | done |
| 4 | `RedisSubscription`, `RedisSubscriptionProofs` | retries and shutdown, with proofs | done |
| 5 | `Accounts`, `TwoFactor`, `MCSignIn` | registration, login, codes, passwords, Google, refresh, token check; two-factor authentication | done |
| 6 | `AccountsProofs`, `TwoFactorProofs` | their safety properties, proved | done |
| 7 | `TradingBook`, `MCTradingBook`, `TradingBookProofs` | strategies, backtest strategies, trading accounts and paper portfolios over one database, with the engine and the cascading delete; proofs | done |
| 8 | `ChartRequest`, `Performance`, `ListPages`, `MCReads` | candle requests and charts, performance figures, pages of lists | done |
| 9 | `ReadsProofs` | their safety properties, proved | done |

Not done, in the order in which it would be worth doing: one composition of `Accounts` and
`TwoFactor`, in which a token carries both stamps; an abstract session store (a change of credentials
revokes every earlier token) which the code refines only where it sets a stamp; the SCAN and the
TTLs of the Redis progress keys. The modules keep to the conventions of the first (one action per awaited call,
`CONSTANTS` with named assumptions, no `RECURSIVE`).

## 3. The modules

### BacktestTask

A request's arrays of symbols and timeframes are told by their lengths, because `createTask` loops over
entries and compares no names; the DTO (`create-backtest-task.dto.ts:56`) asks for no uniqueness, so a
name listed twice is two entries, and a row for each. Rows are named `<<request, combination>>`, a combination being the
entries that `generateTaskCombinations` puts together. `status`,
`linked` (`queue_job_id` is set), `archived` and `deleted` are the row; `jobData`,
`queue`, `progress` and `notified` are Redis; `pc`, `todo`, `cur` and `asked` say where
each `createTask` call is; `op` where each other call is; `worker` what the external
worker has done.

| Action | Code |
| --- | --- |
| `CreateTask`, `CreateRow` | `createTask` up to the loop, and the awaited create |
| `SetJobData`, `PushJob`, `SetStatus` | the three awaited calls of `submitBacktestTask` |
| `LinkJob`, `MarkFailed`, `AnswerCreate` | the update with the job id, the catch block, the return |
| `ReadTask`, `UpdateTask` | the read with its checks, and the update by id, of archive, unarchive, delete and cancel |
| `PublishCancel`, `CacheCancel` | `cancelTask`'s two Redis calls; an error ends them quietly |
| `Worker...` | external: take, start unless cancelled, report, poll for cancellation, finish |
| `Crash` | the API process stops; what was written stays |

Each awaited call ends `ok`, `refused` (no effect, an error) or `lost` (the effect
without the answer, so the caller sees an error).

`BatchSubmission` is the promise to `createTask`'s caller: a plan is accepted,
submitted one combination at a time, answered only when complete, and otherwise
abandoned, keeping what was submitted. `Batch` in `BacktestTask` is the refinement
mapping: a combination is submitted when its row carries a job id.

### ProgressGateway

`row`, `cancel`, `worker`, `progress` are the database, `cancelTask`, the worker and Redis as the
gateway sees them. Messages and progress keys carry the `user_id` that their writer put there, any
user's in the model. The gateway sends to that user; `Passes` compares it with the row's owner, which
happens only when the row was read: a cached status and the catch block take the message's word. `taskStatusCache` is the cache with the
time of each entry; `check` the calls of `validateTaskStatus` that wait for the database,
in flight at once because the message handler does not await them; `join` the
`handleConnection` of each socket; `client` the sockets; `now` and `due` the clock and
the interval timers. `sent` is the set of messages the last step sent, with how they
were validated. A database read is two steps, the query's evaluation and the
arrival of its answer, so that anything may happen between. `FailOpen` and `JoinFails`
are the catch blocks. `Connect` verifies the token, `Admit` or `Refuse` follow when the middleware's query of
the user is answered, and do not look at the clock again. `StartTimers` is the end of `afterInit`, after its
awaited `subscribeToRedis`: clients may connect before it, and until then nothing closes a socket or
cleans the cache. `WsJwtGuard`'s own query is one step with the handler that it lets through.

Two assumptions about time are built in, and the bounds below depend on them: an
answer arrives at most `QueryTime` after the database evaluated the query, and an
interval timer, once started, runs in the tick in which it fires. A message is received when it is
published; a later receipt is the same as a worker that publishes later.

### RedisSubscription

`timers` and `calls` count pending retries and `subscribe` calls in flight, `listening`
says whether the handler is registered with the Redis client, `gaveUp` that a call of
`subscribeToRedis` returned at its limit. `Schedule` is the common shape of its two
failure branches; `BeginSubscribe` the reset of the count and the awaited call. The
Redis clients open in the order of `RedisService.onModuleInit` and close in that of its
`onModuleDestroy`, which runs in either order with the gateway's. `main.ts` enables
no shutdown hooks, so shutdown happens only when something closes the Nest
application. Once open, a client counts as open while it reconnects
(`reconnectStrategy` never gives up).

### Accounts

One email address and its user (`user`, `linked`, `code`), the token pairs handed out (`tokens`),
and the requests in flight (`call`). A request begins with its first query and the checks on
its answer (`Login`, `SetPassword`, `UnlinkGoogle`, ...) and then takes a step for each further awaited
query. What it read, it keeps in its record: `read` is the number of attempts that `login` found,
and what `validateGoogleUser` found of the verification. `Fail` ends a call between any two steps.

| Actions | Code |
| --- | --- |
| `Register`, `CreateUser` | `register`; the unique address decides between two |
| `Login`, `CountFailure`, `ResetAttempts`, `Issue`, `LockExpires` | `login`, `handleFailedLogin`, `resetLoginAttempts`, `generateTokens`, `locked_until` |
| `Resend`, `ForgotPassword`, `InvalidateCodes`, `NewCode`, `FindCode` | the two kinds of codes |
| `VerifyEmail`, `WriteVerified`, `ResetPassword`, `WriteReset`, `SetPassword`, `WriteSet` | what a code or a session changes |
| `GoogleSignIn`, `LookUpUser`, `RefreshLink`, `Link`, `AutoVerify`, `SignUp` | `validateGoogleUser` and the callback's tokens |
| `LinkGoogle`, `CheckLink`, `UnlinkGoogle`, `DeleteLink` | linking and unlinking |
| `RefreshToken`, `Accepts` | `refresh` and `JwtStrategy.validate` (the same comparison is made by the gateway's middleware and `WsJwtGuard`) |

Stamps are seconds, as in the tokens, so that a token of the very second of a change is accepted. `at`
is the time at which a token's stamp was read; only properties use it, as they do `failures` and `uses`.

### TwoFactor

`factor` holds the `two_factor` columns, `backup` the backup codes, `recent` the failed attempts in the
window, `issued` the tokens; `flow` is to this module what `call` is to `Accounts`. `Admits` is
the comparison of the two-factor stamp: it must be the user's, and absent if and only if the
user's is. A pending token has no stamp, which is why it does not pass as a session. Whether a TOTP
code is valid is a free choice. `verify2FACode` is `CheckRateLimit`, `VerifyTotp`, `MatchBackupCode`,
then `MarkUsed` or `LogFailure`, each of them a query that another request can come before.

### TradingBook

The rows of one user: `accountName`, `row` (strategies and, with the owner `Templates`, backtest
strategies), `ledger` (the paper portfolio), `open` (strategies with a position). `call` is a request in
flight with what it read and will write. The first query of every handler filters by user, so that
a second user would only add a product; a copy may take any public strategy.

| Actions | Code |
| --- | --- |
| `CreateStrategy`, `CopyStrategy`, `CreateTemplate`; `CopyChecks`, `CheckName`, `Insert` | creation; `copyStrategy` makes its checks and then calls `createStrategy`, which makes them again |
| `UpdateStrategy`, `CheckNewName`, `WriteUpdate` | `updateStrategy` |
| `ChangeStrategy`, `ChangeTemplate`, `WriteChange` | delete, archive, unarchive |
| `NameAccount`, `WriteAccount`, `DeleteAccount`, `Cascade` | trading accounts; `Cascade` is the foreign keys' `onDelete` |
| `UpdatePortfolio`, `WritePortfolio` | deposits and withdrawals |
| `Fail` | a query that fails, before or after another |
| `OpenPosition`, `ClosePosition` | external: the engine, as far as the schema and the services show what it writes |

Writes are by id, so they also hit a row that was deleted in between. `alone` says of a call that no
other call, and no opening of a position, has met it on the same rows; `raced` are the strategies
written by a call that was not alone, and `overwritten` the portfolios written over a profit that the
engine booked between read and write. The properties are stated with these sets because the code
promises nothing beyond them.

### ChartRequest, Performance, ListPages

These handlers only read. `ChartRequest` is one request for a chart: the number of candles asked for, the
HTTP call with its retries (`CandlesArrive`, `GraphQLErrors` with any part of the data, `NetworkError`, `OtherError`,
`DelayElapses`), the split around the reference time and the markers; `UnsupportedTimeframe` and `NullCandle` (a
field that the service could not resolve) are the errors that reach the caller. `Performance` answers one request for
a figure: the equity curve and its drawdown, the totals of trades, the snapshots of a granularity, the
start of a time frame from two readings of the clock, with JavaScript's run-over of dates. `ListPages` is a client that pages through
a list while rows are added, leave and come back: seven lists use Prisma's cursor (`Continuations`
describes what `skip: 1` does when the cursor row no longer passes the filter), the list of paper
positions merges two tables (`ReadOpen`, `ReadClosed`). The code sorts by one column and nothing else, so
that rows with equal values come in any order, another one in each query: `Tops` and `Following` are the
sets of all that a query may return.

## 4. The runs

| Run | Module, configuration | Question | Result |
| --- | --- | --- | --- |
| `task_operations` | `BacktestTask`, `TaskOperations.cfg` | What can two concurrent operations, the worker, failing calls and crashes do to a row? | `JobBacked`, `CancelledWasPushed`, `CancelSticks` hold |
| `task_creation` | `BacktestTask`, `TaskCreation.cfg` | What does a request promise and leave behind, however its calls end? | `LinkedWasPushed`, `AnsweredIsComplete`, `OneOrphanAtMost`, `RequestEnds`, `IsBatchSubmission` hold |
| `cancel_race` | `BacktestTask`, `CancelRace.cfg` | Does only a QUEUED or RUNNING task become CANCELLED? | no, see finding 1 |
| `failed_submission` | `BacktestTask`, `FailedSubmission.cfg` | Is a task that failed to submit out of the queue? | no, see finding 2 |
| `gateway_delivery` | `MCProgressGateway`, `GatewayDelivery.cfg` | How stale may a forwarded status be, who gets it, how long do sockets and entries outlive their time? | `StaleRunningIsBounded`, `SnapshotIsFresh`, `OnlyNamedUserSees`, `ExpiredSocketsLeave`, `CacheIsCleaned` hold |
| `stale_after_cancel` | `MCProgressGateway`, `StaleAfterCancel.cfg` | Do running updates stop after a cancellation? | no, see finding 3 |
| `subscription_retry` | `RedisSubscription`, `SubscriptionRetry.cfg` | Is there always one chain of attempts, and does it end? | `OneAttempt`, `FlagIsTrue`, `GivesUpUnconnected`, `EventuallySettles` hold |
| `endless_retries` | `RedisSubscription`, `EndlessRetries.cfg` | Do retries stop? | no, see finding 4 |
| `sign_in` | `MCSignIn`, `SignIn.cfg` | What can lost updates, stale checks and failures do to the ways into an account? | `SignInMethod`, `CodesLimited`, `OldTokensRejected`, `LockNeedsFailures`, `EnablingEndsAccess`, `AttemptsLimited`, `BackupCodesWearOut` hold |
| `trading_book` | `MCTradingBook`, `TradingBook.cfg` | How far can each check-then-write on trading rows be overtaken? | `DuplicatesBounded`, `GoneWasIdle`, `ModeChangesSafely`, `LedgerBalances` hold |
| `reads` | `MCReads`, `Reads.cfg` | Are charts, figures and lists what they should be, whatever is missing, fails or changes? | `ExitOnChart`, `NoHoles`, `ThrowNeedsMissingCandle`, `DrawdownIsWorst`, `GranularitiesAgree`, `WindowsKeepTheirLength`, `NothingSkipped`, `NoRowTwice`, `ChartAnswered` hold |
| `paper_pages` | `MCReads`, `PaperPages.cfg` | Do the pages of an unchanged list of paper positions show all its rows? | no, see finding 5 |

### Bounds, and why they are enough

- `TaskOperations`: one request that makes one row, and two concurrent operations on
  it. The operations act on one row each and share nothing else, so a second row adds
  only a product; two clients give every race of a pair of operations with
  each other, with the worker and with the request still in flight. All three outcomes
  and crashes are on.
- `TaskCreation`: arrays of up to two symbols and of up to one timeframe, so both split and combined
  requests with one row, two (also of one symbol named twice) or, from an empty array, which the DTO lets through, none; no other
  operations, because none of the run's properties depends on them: the proofs
  cover them together.
- `GatewayDelivery`: one task, two users of whom one owns it and either may be named in a message, one
  socket of either; two database reads in flight at once, by two message checks or by one and the connecting
  client, from the verification of its token to its snapshot (`FewInFlight`), on one cache entry. `TTL`, `Period` and `QueryTime` are one tick each; the timers start
  after one tick, so that a client may be there before them, and run twice; the tokens expire after
  one tick too, while the socket is being let in, before it or after it (a client subscribes in the first tick only:
  later checks are those of messages); `MaxTime` is past `TTL + QueryTime` after a cancellation in the first tick. In the code the cleanup
  period (60 s) is twice the TTL (30 s); the proofs are for all values. `StaleAfterCancel` starts the timers at once.
- `SubscriptionRetry`, `EndlessRetries`: the code's own limit of 12.
- `SignIn`: each behaviour is one of the two modules, which share no state in this
  project (section 2). `Accounts`: two calls at a time and four in all, so that a race of two can be
  prepared by one request and followed by another; two passwords, one Google account, three codes, a
  threshold of 2 (the code's is 5) and two seconds; the user starts absent, with a password
  (verified or not) or with Google. `TwoFactor`: two flows at a time and seven in all (a login, set-up,
  enabling and a race on the second step need as many), one attempt (5), one backup code
  per set (10) and two in all, three seconds. The values proved for every threshold and limit are made small
  so that they are reached.
- `TradingBook`: three requests, two at a time, on three populations (no strategy; one that runs;
  a stopped public one with both portfolios), with room for two more rows, two names,
  one account, four update bodies, an initial capital of 2 and one position.
- `Reads`: 30, 5000, 50 and 10 of the code become 1, 4, 2 and 1, and a candle lasts two units so that entry
  and exit may lie inside one; every set of missing candles, every pattern of prices, every part of the data
  together with errors; three attempts as in the code. Curves of up to three trades from a balance of
  0 or 2, three snapshots within three weeks, every date of
  2023 to 2025 (before, in and after a leap year), with and without midnight between the two readings of the
  clock. Lists of four rows and two more to come in pages of two, in which rows, and those that come, may be of the same
  time, and sorted columns with equal and missing values. `PaperPages` has four rows and pages of one.
- The configurations switch deadlock checking off because these systems stop:
  requests are answered, the clock and the number of requests are bounded, a subscription
  stays, a list is read to its end.

### Fairness

- `createTask`: weak fairness of each request's steps. Every awaited Prisma or Redis call
  ends, with an answer or an error; that it may keep failing is allowed. Clients and
  the worker have none: users need not call, the worker may be down.
- Subscription: weak fairness of `AfterInit` (Nest calls it), `Retry` (timers fire) and
  `SubscribeAnswers` (the call ends). `EventuallySettles` adds strong fairness of
  `SubscribeSucceeds`: a reachable Redis does not refuse for ever. `RetriesStop` is checked
  without it, since a limit is meant for the Redis that does refuse.
- Charts: weak fairness of the request's steps. The HTTP client times out after 30 s
  (`graphql.service.ts:32`), so each attempt ends, and the delays are timers. `ChartAnswered` allows every
  attempt to fail.
- The gateway, sign-in, trading-book and list models state only safety and have no fairness.

## 5. Findings

1. **A finished task can be cancelled.** `cancelTask` checks the status it has read
   (`backtest.service.ts:365`) and updates by id alone (`:373`). A task that the worker
   completes in between loses its COMPLETED status.
2. **A task marked FAILED can be in the queue.** The catch block at
   `backtest.service.ts:156` also handles errors after the push
   (`queue.service.ts:72`, `backtest.service.ts:138`); the job runs although its row says
   that the submission failed, and the caller was told so.
3. **Running updates after a cancellation.** The status cache, whose purpose is to
   prevent them (`backtest-progress.gateway.ts:61`), holds `running` for up to 30 s and is
   not refreshed by the cancelled message. `StaleRunningIsBounded` gives the exact extent.
4. **Subscription retries do not stop.** `redisRetryCount` is reset
   (`backtest-progress.gateway.ts:303`) before each `subscribe`, so the limit in the catch
   block has no effect; `LimitCountsConnectionsOnly` proves it for every limit.
5. **Paper positions disappear from the list.** `getPaperPositions` cuts each table to its
   `limit + 1` newest rows (`position.service.ts:143`) before it looks for the cursor in the merged list
   (`:197`), so later pages lose rows: an unchanged list ends with rows never shown. The comments
   at `:142` and `:196` say that enough is fetched and that pages continue at the cursor.

Also seen, without a run of their own:

- A request that lists a symbol or a timeframe twice submits duplicate tasks: the DTO
  (`create-backtest-task.dto.ts:56-67`) asks for arrays without uniqueness, and `generateTaskCombinations`
  makes a combination of every entry.
- The lists are sorted by one column without a second (`backtest.service.ts:494`, `:596-609`, `:998`,
  `strategy.service.ts:64`, `:145`, `:725`, `position.service.ts:77`): of rows with equal values at the border of
  a page, some may come twice and others not at all. `NoRowTwice` and `NothingSkipped` say that no other rows do.
- The gateway compares a message's `user_id` with the task's (`backtest-progress.gateway.ts:557`, "defense in
  depth") only when it reads the row; a cached status (`:520`) and a database failure (`:585`) skip it.
- A token that expires while the middleware awaits its query (`:89`) is admitted, and stays until
  the next run of the token check, which starts only after `subscribeToRedis` (`:161`).
- At a midnight that ends a month, the two readings of the clock (`portfolio.service.ts:112-113`) put the day of one month
  into the other, and a window of a day lasts a month.

- The descriptions of `is_combine_timeframe` and `is_combine_symbol`
  (`create-backtest-task.dto.ts:96` and `:105`) say that true creates separate tasks and false combines
  them; `generateTaskCombinations` does the opposite (its own comment agrees with the code).
- `handleConnection`'s comments at `backtest-progress.gateway.ts:707` and `:744` speak of completed and
  terminal tasks; its filter knows only cancelled ones. Destroyed while it is still subscribing
  (`:187`), the gateway subscribes afterwards.
- `RedisService.getAllTasksProgress` returns `{}` on an error (`redis.service.ts:287`), so
  `INITIAL_LOAD_FAILED` is never sent for a failing Redis.
- "Hard invalidation on password / 2FA changes" (`README.md:9`) and "All sessions have been
  invalidated" (`two-factor-auth.service.ts:187`): `resetPassword` does not set `password_changed_at`;
  a refresh token from before a change buys a pair with the current stamps; tokens from before two-factor
  authentication was enabled match again once it is disabled. `EnablingEndsAccess` and
  `OldTokensRejected` state what does hold. The Google callback issues tokens without a second step.
- `prisma/schema.prisma:319` says that the unique index allows one active strategy per name; PostgreSQL
  takes nulls in `deleted_at` as distinct, so it allows any number, and only the checks count
  (`DuplicatesBounded`).
- `updateStrategy` may set an archived strategy live; the dashboard counts deleted strategies;
  `getStrategyPositions` lists the positions of deleted ones.
- Enabling writes by id alone (`two-factor-auth.service.ts:107`): overlapping a second set-up it enables a
  secret other than the one verified, and overlapping another enabling and a disabling it leaves two-factor
  authentication on without a secret.
- `getCandlesAroundTime` "Gets N candles before" (`graphql.service.ts:305`), but N - 1 when the reference time
  is not aligned.
- A paper position that closes between the two reads of `getPaperPositions` may be listed twice.

## 6. Proofs

All proofs are for any constants that satisfy the modules' named assumptions
(`LengthAssumption`, `OutcomeAssumption`, `MayCrashAssumption`, `RetriesAssumption`, `TimesAssumption`,
`OwnerAssumption`, `SocketAssumption`, `AccountsAssumption`, `TwoFactorAssumption`, `BookAssumption`,
`ChartAssumption`, `PerformanceAssumption`, `ListAssumption`):
any number of requests, clients, symbols, timeframes, tasks, sockets, codes, passwords, strategies,
accounts and overlapping calls, any mixture of failures, any retry limit, TTL, period, query time,
lockout threshold and limit on attempts, any candles, trades, snapshots, dates and rows. Where a property counts requests, `Calls` or `Flows` is assumed to be
finite. `AccountsAssumption` says that the user starts with a way to sign in, and `BookAssumption`
that no two active rows start with one name and that no backtest strategy is live. `ChartAssumption`
says that a caller asks for at least one candle on each side (`position-chart-query.dto.ts:27`), that candles of one timeframe
do not overlap (`getCandleInterval` knows only fixed lengths) and that a pattern forms before its trade is
entered, which is the worker's part. `PerformanceAssumption` has finitely many snapshots, real dates, and balances that
are not negative. The last is taken from the worker too, and needed: of a balance below zero the fall from an
earlier, lower peak is the larger fraction, which the running peak forgets. `ListAssumption` says that ids
are unique and numbered in the order of creation. No order of rows with equal sort values is assumed.

**BacktestTaskProofs.** `TypeCorrect` is direct. The other invariants follow from one
strengthening, proved inductive with one step per action. Its core ties the
program counter of a request to what its row has: in `pushJob` the record is stored, in
`setStatus` and `link` the job is pushed, a row still in `todo` does not exist, a request
in the loop has only linked rows, and what is neither linked nor in `todo` is `cur`.
`JobBacked` needs it because `PushJob` itself does not look at the record;
`OneOrphanAtMost` and `AnsweredIsComplete` because a row is linked by another action than
the one that answers. A cancel in flight contributes that its row was pushed when it
was read, which no later step undoes: hence `CancelledWasPushed`. `CombinationsPartition`
is the lemma about `generateTaskCombinations` that every pair of an entry of the symbols and an entry of the
timeframes lies in exactly one combination, for arrays of any length; a repeated name is two entries. `CancelSticks` is an action property from the same invariant.
`RequestsDescend` is what `RequestEnds` rests on apart from fairness: each step of a request leaves fewer
combinations to do, or is nearer to the end of its row.

**BatchRefinementProofs.** `ImplementsBatchSubmission`: the initial state maps to the
initial state, `CreateTask` to `Accept`, `LinkJob` to `Submit`, `AnswerCreate` to `Answer`, the
steps that fail and `Crash` to `Abandon`, all others to stuttering. It uses the same
invariant: that the row to be linked is in the plan and unlinked, and that an empty `todo`
means that all of it is linked.

**RedisSubscriptionProofs.** `OneAttempt` is not inductive: it needs that nothing is
pending before `afterInit` and that at most one attempt is left after the destruction. With the fact
that a call in flight began with a count of zero, the same invariant shows that the catch
block's limit is never met (`GivesUpUnconnected`).

**ProgressGatewayProofs.** `StaleRunningIsBounded` speaks of what was just sent, and says
nothing of where a stale status comes from. The strengthening follows it: an answer on its
way that misses a cancellation was read before it and is at most `QueryTime` old
(`CheckInv`, `JoinInv`); so an entry that misses it was stored at most `QueryTime` after it
(`CacheInv`); and an entry is trusted for `TTL`. `UserInv` says that a check on its way to a socket
carries a message that names that socket's user, or the socket has closed, and that a snapshot on its way
is that user's own: with the comparison that `Passes` makes, this gives `OnlyNamedUserSees`, whatever
users the messages name. `StartInv`, `TokenInv` and `EntryInv` measure how late a timer can be: not at all when
it has just run, by the time since its last run otherwise, and by a whole period when it is
due (`Overdue`), counted from the expiry, from an admission that came after it, or from the start of the timers;
the lemma `RemainderGrows` supplies the arithmetic of `(now - startedAt) % Period`. From them follow
`ExpiredSocketsLeave` and `CacheIsCleaned`.

**AccountsProofs.** `AccountsTypeOK` needs that the step of a call belongs to its operation (`Sound`).
`SignInRemains`: `SignInMethod` is not inductive, because `DeleteLink` removes a link without looking at
the password. The strengthening says that a call about to delete one has found a password, and that
no step ever takes a password away. `LocksAreEarned`: `Counted` bounds the row's number, and the
number that a call in flight will write, by the failures so far. `OldTokensAreRejected`: a token's stamp
is no later than the read of it (`Stamped`), so one that equals the stamp of a change was read after
it. `CodesAreLimited`: a call that has invalidated the old codes and will create one counts as a
code already (`Limits`), and so does one that has found a code valid and will write with it.

**TwoFactorProofs.** The same two arguments: `Stamped` gives `EnablingIsACut`, with the clock starting at 1 so
that an unstamped token never equals a stamp; and `Limits` counts the flows past the check, and the flows that have
matched a code, with what they will record: `AttemptsAreLimited`, `BackupCodesAreSpent`.

**TradingBookProofs.** `BookInv` joins the types (`Typed`); which rows the calls in flight are about
(`Placed`: a creation's row does not exist yet, any other call's row stays with its owner, and an update to REAL
has found the portfolio); that two calls that meet know it (`Pairs`); what a call still knows as long as it is
alone (`Sure`: the strategy it will delete is stopped, the account it will delete has no position); and
that backtest strategies do not run (`Templated`). `ModesAreChecked` and `DeletionsStop` follow: a write is
either by a call that is alone, and then its check is still true, or it puts the row into `raced`.
`BooksBalance` needs only `Books`: what a movement in flight will write balances, unless the engine came
between. `DuplicatesAreBounded` cannot be shown by counting rows: the strengthening (`Duplicates`)
bounds the rows of a name *and* the calls that have passed its check, taken as one set of ids
(`Potential`), because the write that follows moves an id from one to the other; the set
grows only by a check, which finds no row, so that it then holds nothing but ids of calls.

**ReadsProofs.** These properties are about data: the size of a set of candles, the last of some rows, a maximum
along a curve. They need induction, and the library's induction theorems take an operator as a parameter, which the
provers here cannot instantiate. The first section derives what is needed in terms of sets: strict inclusion
of the subsets of a finite set is well founded (a theorem of the library), so a family of finite sets has a smallest
(`SmallestSet`), a set of numbers a least (`Least`), a set with 0 and every successor is `Nat` (`Induct`), a finite
ordered set has an end (`Topmost`, `Greatest`), and a function defined step by step exists (`StepByStep`), which every
`LET f[i \in 0..n]` needs before anything can be said of its values. For the same reason `CompletedTrades` is
written as such a function.

- *Charts.* `ChartReached`: what was fetched is some of the range asked for, the request and the candles stay.
  `ChartsHaveNoHoles` holds because both halves are closed towards the split (`LatestIsClosed`, `EarliestIsClosed`),
  everything fetched lies on one side of it, and that side is the one of its end (`SidesOfTheSplit`). `ExitsAreOnChart` counts:
  candles do not overlap, so that no more of them start between entry and exit than their distance has room for
  (`CandlesWithin`), and that is at most what the chart asks for (`LifecycleReaches`), whatever is missing.
  `ThrowsNeedMissingCandle`: a reference candle that was fetched is shown, so that the search by time finds a
  match. `ChartStepsRunOut` counts down the steps a request has left, which the retry limit bounds.
- *Figures.* `FiguresReached`: the answer is the figure of what was asked. `DrawdownsAreWorst` goes along the curve (`TrackFinds`): so far, the peak
  is the highest point and the worst fall is at least every fall, the next point included, because the fall from a
  higher peak is the larger fraction (`HigherPeakFallsMore`). `GranularitiesEndAlike` shows that a coarser key never
  tells apart what a finer one does not (`CoarserLeavesOut`). `WindowsHaveTheirLength` computes the day numbers of a
  year from the months' lengths (`DayNumbers`) and from one year to the next (`YearLengths`).
- *Lists.* The order is weak: rows with different values are ordered one way, equal ones not at all (`OrderIsWeak`).
  `ListReached` joins what a table can be (`TableReached`) and where a client is (`ProgressReached`: no shown row has a value
  behind the cursor's, and every row that was there all the time is shown, has the value of a row that a page ended
  with, or lies behind the cursor). Whatever Prisma continues with has the cursor's value or lies behind it, and holds all that lies behind
  it while the cursor row is there (`ContinuesBehind`); a page is closed towards the front of that (`TopsTake`).
  `PageFollows` is the step. `NothingIsSkipped` and `RowsComeOnce` follow.

**Only model-checked:** liveness (`RequestEnds`, `EventuallySettles`, `ChartAnswered`), which is out of the
prover's reach, as is `ENABLED`. Of the first and the last, the descent is proved (`RequestsDescend`,
`ChartStepsRunOut`); that the steps are taken is left to TLC. Every other property of a passing run is
stated by a theorem. The findings' runs are counterexamples and need no proof. No module uses `RECURSIVE` operators.

## 7. Not modelled, and why

- Email texts, encryption, timezone and cookie conversions, profile, configuration: no
  state shared between steps.
- The dashboard: one read of rows that other components keep, then sums over it.
- Expiry of tokens in HTTP requests and the signature of the OAuth `state`: decided by libraries. A socket
  whose token expires is in `ProgressGateway`.
- A second user, a second email address: the handlers filter by user, and nothing crosses over
  but public strategies.
- TOTP itself and bcrypt: a code is valid or not, equal passwords match.
- The status filter of the paper list, the marketplace's order by performance, the rules of archived rows in
  lists, the selection of columns, logging.
- `clearTaskProgress`, `cleanupExpiredTokens`, `cleanupOldAttempts`: nothing calls them.
- The SCAN of the progress keys and the TTLs of Redis keys: jobs are taken before their records end after seven days.
- A Redis that loses data, and a database that loses committed rows.
- The worker, the trading engine and the candle service beyond what the code under `src/` relies on
  (external actions).
