------------------------- MODULE RedisSubscription -------------------------
(***************************************************************************)
(* How BacktestProgressGateway comes by its Redis subscription: afterInit  *)
(* calls subscribeToRedis, which tries again five seconds later while      *)
(* Redis is not connected or subscribing fails.  Nest initialises the      *)
(* gateway before RedisService connects, so the first call usually waits.  *)
(*                                                                         *)
(* Abstractions.  Once connected, the clients stay open: reconnectStrategy *)
(* never gives up and isOpen holds while they reconnect, so only quit      *)
(* closes them.  The subscription survives reconnecting (the client        *)
(* subscribes again by itself).  Nest closes the application only if its   *)
(* host asks for it; the gateway's and RedisService's hooks then run in    *)
(* either order.                                                           *)
(***************************************************************************)
EXTENDS Naturals

CONSTANT MAX_REDIS_RETRIES

ASSUME RetriesAssumption == MAX_REDIS_RETRIES \in Nat \ {0}

VARIABLES
    gateway,            \* "new" before afterInit, "up", "down" once destroyed
    redis,              \* which Redis clients are open
    isSubscribed,
    redisRetryCount,
    timers,             \* pending retries
    calls,              \* calls of subscriber.subscribe in flight
    gaveUp,             \* a call of subscribeToRedis has ended for good
    listening           \* the message handler is registered with the client

vars == <<gateway, redis, isSubscribed, redisRetryCount, timers, calls, gaveUp, listening>>

TypeOK ==
    /\ gateway \in {"new", "up", "down"}
    /\ redis \in {"none", "client", "both", "subscriber", "closed"}
    /\ isSubscribed \in BOOLEAN
    /\ redisRetryCount \in 0..MAX_REDIS_RETRIES
    /\ timers \in Nat
    /\ calls \in Nat
    /\ gaveUp \in BOOLEAN
    /\ listening \in BOOLEAN

Init ==
    /\ gateway = "new"
    /\ redis = "none"
    /\ isSubscribed = FALSE
    /\ redisRetryCount = 0
    /\ timers = 0
    /\ calls = 0
    /\ gaveUp = FALSE
    /\ listening = FALSE

IsConnected == redis = "both"
SubscriberIsOpen == redis \in {"both", "subscriber"}

ScheduleUnlimited(pending) ==
    /\ redisRetryCount' = redisRetryCount + 1
    /\ timers' = pending + 1
    /\ UNCHANGED gaveUp

\* Both failures of subscribeToRedis: one more retry, or the end of them.
Schedule(pending) ==
    IF redisRetryCount >= MAX_REDIS_RETRIES
    THEN /\ gaveUp' = TRUE
         /\ timers' = pending
         /\ UNCHANGED redisRetryCount
    ELSE /\ redisRetryCount' = redisRetryCount + 1
         /\ timers' = pending + 1
         /\ UNCHANGED gaveUp

BeginSubscribeKeepingCount(pending) ==
    /\ calls' = calls + 1
    /\ timers' = pending
    /\ UNCHANGED <<gaveUp, redisRetryCount>>

\* The connection check has passed: the count starts anew, and subscribe is
\* awaited.
BeginSubscribe(pending) ==
    /\ redisRetryCount' = 0
    /\ calls' = calls + 1
    /\ timers' = pending
    /\ UNCHANGED gaveUp

\* subscribeToRedis up to its await, with this many other retries pending.
SubscribeToRedis(pending) ==
    \/ /\ isSubscribed
       /\ timers' = pending
       /\ UNCHANGED <<redisRetryCount, calls, gaveUp>>
    \/ /\ ~isSubscribed /\ ~IsConnected
       /\ Schedule(pending)
       /\ UNCHANGED calls
    \/ /\ ~isSubscribed /\ IsConnected
       /\ BeginSubscribe(pending)

AfterInit ==
    /\ gateway = "new"
    /\ gateway' = "up"
    /\ SubscribeToRedis(timers)
    /\ UNCHANGED <<redis, isSubscribed, listening>>

RetryOnInterval ==
    /\ timers > 0
    /\ SubscribeToRedis(timers)
    /\ UNCHANGED <<gateway, redis, isSubscribed, listening>>

\* A retry timer fires, also when the gateway has been destroyed meanwhile.
Retry ==
    /\ timers > 0
    /\ SubscribeToRedis(timers - 1)
    /\ UNCHANGED <<gateway, redis, isSubscribed, listening>>

SubscribeSucceeds ==
    /\ calls > 0 /\ SubscriberIsOpen
    /\ calls' = calls - 1
    /\ isSubscribed' = TRUE
    /\ listening' = TRUE
    /\ UNCHANGED <<gateway, redis, redisRetryCount, timers, gaveUp>>

SubscribeFailsMarked ==
    /\ calls > 0
    /\ calls' = calls - 1
    /\ isSubscribed' = TRUE
    /\ Schedule(timers)
    /\ UNCHANGED <<gateway, redis, listening>>

SubscribeFailsSilently ==
    /\ calls > 0
    /\ calls' = calls - 1
    /\ UNCHANGED <<gateway, redis, isSubscribed, listening, redisRetryCount, timers, gaveUp>>

SubscribeFails ==
    /\ calls > 0
    /\ calls' = calls - 1
    /\ Schedule(timers)
    /\ UNCHANGED <<gateway, redis, isSubscribed, listening>>

\* The flag is cleared even when unsubscribing fails or the client is closed;
\* retries and calls in flight are left alone.
OnModuleDestroy ==
    /\ gateway = "up"
    /\ gateway' = "down"
    /\ isSubscribed' = FALSE
    /\ \/ isSubscribed /\ SubscriberIsOpen /\ listening' = FALSE
       \/ UNCHANGED listening
    /\ UNCHANGED <<redis, redisRetryCount, timers, calls, gaveUp>>

-----------------------------------------------------------------------------
(* RedisService *)

\* onModuleInit opens the client for commands and then the subscriber.
RedisConnects ==
    /\ \/ redis = "none" /\ redis' = "client"
       \/ redis = "client" /\ redis' = "both"
    /\ UNCHANGED <<gateway, isSubscribed, redisRetryCount, timers, calls, gaveUp, listening>>

\* onModuleDestroy closes them in the same order.
RedisQuits ==
    /\ gateway # "new"
    /\ \/ redis = "both" /\ redis' = "subscriber" /\ UNCHANGED listening
       \/ redis = "subscriber" /\ redis' = "closed" /\ listening' = FALSE
    /\ UNCHANGED <<gateway, isSubscribed, redisRetryCount, timers, calls, gaveUp>>

-----------------------------------------------------------------------------

SubscribeAnswers == SubscribeSucceeds \/ SubscribeFails

Next ==
    \/ AfterInit
    \/ Retry
    \/ SubscribeAnswers
    \/ OnModuleDestroy
    \/ RedisConnects
    \/ RedisQuits

\* Nest calls afterInit, timers fire, and every call of subscribe ends.
Fairness == WF_vars(AfterInit) /\ WF_vars(Retry) /\ WF_vars(SubscribeAnswers)

Spec == Init /\ [][Next]_vars /\ Fairness

\* Redis is reachable: a call of subscribe that is made again and again succeeds.
ReachableSpec == Spec /\ SF_vars(SubscribeSucceeds)

-----------------------------------------------------------------------------
(* What the code guarantees *)

\* Initialised, the gateway is in exactly one state of its subscription: one
\* retry pending, one call in flight, subscribed, or given up.  No two chains of
\* retries run at once, which would register two handlers, and none is lost.
OneAttempt ==
    LET one(b) == IF b THEN 1 ELSE 0
    IN  gateway = "up" => timers + calls + one(isSubscribed) + one(gaveUp) = 1

\* While Redis is open, the flag says what the client does: isSubscribed holds
\* exactly when the handler is registered.
FlagIsTrue == gateway = "up" /\ redis # "closed" => isSubscribed = listening

\* The gateway gives up only on a Redis that is not connected, never because
\* subscribing failed on an open one.
GivesUpUnconnected == [][~gaveUp /\ gaveUp' => ~IsConnected]_gaveUp

\* With a reachable Redis, an initialised gateway ends up subscribed, unless it
\* gave up or was destroyed.
EventuallySettles == <>(isSubscribed \/ gaveUp \/ gateway = "down")

-----------------------------------------------------------------------------
(* What the code says of itself and does not do *)

\* backtest-progress.gateway.ts:53 "Stop after 60 seconds (12 x 5s)": retrying
\* comes to an end, whatever keeps the subscription from succeeding.
RetriesStop == <>[](timers = 0 \/ gateway = "down")

=============================================================================
