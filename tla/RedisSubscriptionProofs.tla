---------------------- MODULE RedisSubscriptionProofs ----------------------
(***************************************************************************)
(* The safety of the gateway's Redis subscription, for every retry limit.  *)
(***************************************************************************)
EXTENDS RedisSubscription, TLAPS

\* The limit as the arithmetic below uses it.
LEMMA LimitIsPositive == MAX_REDIS_RETRIES \in Nat /\ MAX_REDIS_RETRIES > 0
BY RetriesAssumption

USE DEF IsConnected, SubscriberIsOpen

\* Every variable keeps its type; in particular the retry count never exceeds
\* MAX_REDIS_RETRIES.
THEOREM TypeCorrect == Spec => []TypeOK
<1>1. Init => TypeOK
  <2>1. Init => redisRetryCount \in 0..MAX_REDIS_RETRIES /\ timers \in Nat /\ calls \in Nat
    BY LimitIsPositive DEF Init
  <2>2. QED
    BY <2>1 DEF Init, TypeOK
<1>2. TypeOK /\ [Next]_vars => TypeOK'
  <2> SUFFICES ASSUME TypeOK, [Next]_vars
               PROVE  TypeOK'
    OBVIOUS
  <2> USE DEF TypeOK
  <2>1. \A pending \in Nat : SubscribeToRedis(pending) =>
            /\ redisRetryCount' \in 0..MAX_REDIS_RETRIES
            /\ timers' \in Nat /\ calls' \in Nat /\ gaveUp' \in BOOLEAN
    <3> SUFFICES ASSUME NEW pending \in Nat, SubscribeToRedis(pending)
                 PROVE  /\ redisRetryCount' \in 0..MAX_REDIS_RETRIES
                        /\ timers' \in Nat /\ calls' \in Nat /\ gaveUp' \in BOOLEAN
      OBVIOUS
    <3>1. redisRetryCount' \in 0..MAX_REDIS_RETRIES /\ timers' \in Nat /\ calls' \in Nat
      BY LimitIsPositive DEF SubscribeToRedis, Schedule, BeginSubscribe
    <3>2. gaveUp' \in BOOLEAN
      BY DEF SubscribeToRedis, Schedule, BeginSubscribe
    <3>3. QED
      BY <3>1, <3>2
  <2>2. CASE AfterInit
    BY <2>1, <2>2 DEF AfterInit
  <2>3. CASE Retry
    <3>1. timers - 1 \in Nat
      BY <2>3 DEF Retry
    <3>2. QED
      BY <2>1, <2>3, <3>1 DEF Retry
  <2>4. CASE SubscribeSucceeds
    BY <2>4 DEF SubscribeSucceeds
  <2>5. CASE SubscribeFails
    <3>1. redisRetryCount' \in 0..MAX_REDIS_RETRIES /\ timers' \in Nat /\ calls' \in Nat
      BY <2>5, LimitIsPositive DEF SubscribeFails, Schedule
    <3>2. gaveUp' \in BOOLEAN
      BY <2>5 DEF SubscribeFails, Schedule
    <3>3. QED
      BY <2>5, <3>1, <3>2 DEF SubscribeFails
  <2>6. CASE OnModuleDestroy \/ RedisConnects \/ RedisQuits
    BY <2>6 DEF OnModuleDestroy, RedisConnects, RedisQuits
  <2>7. CASE UNCHANGED vars
    BY <2>7 DEF vars
  <2>8. QED
    BY <2>2, <2>3, <2>4, <2>5, <2>6, <2>7 DEF Next, SubscribeAnswers
<1>3. QED
  BY <1>1, <1>2, PTL DEF Spec

\* OneAttempt's sum spelled out: it is zero before afterInit, one while the
\* gateway is up and at most one once it is destroyed; and a call in flight
\* began with a fresh retry count.
IInv ==
    /\ gateway = "new" => timers = 0 /\ calls = 0 /\ ~isSubscribed /\ ~gaveUp /\ ~listening
    /\ timers + calls <= 1
    /\ isSubscribed => timers = 0 /\ calls = 0 /\ ~gaveUp
    /\ gaveUp => timers = 0 /\ calls = 0
    /\ gateway = "up" => timers + calls = 1 \/ isSubscribed \/ gaveUp
    /\ gateway = "up" /\ redis # "closed" => isSubscribed = listening
    /\ calls = 1 => redisRetryCount = 0

\* The strengthening is inductive.
LEMMA Invariance == Spec => []IInv
<1>1. Init => IInv
  BY DEF Init, IInv
<1>2. TypeOK /\ IInv /\ [Next]_vars => IInv'
  <2> SUFFICES ASSUME TypeOK, IInv, [Next]_vars
               PROVE  IInv'
    OBVIOUS
  <2> USE DEF TypeOK, IInv
  <2>1. CASE AfterInit
    BY <2>1 DEF AfterInit, SubscribeToRedis, Schedule, BeginSubscribe
  <2>2. CASE Retry
    BY <2>2 DEF Retry, SubscribeToRedis, Schedule, BeginSubscribe
  <2>3. CASE SubscribeSucceeds
    BY <2>3 DEF SubscribeSucceeds
  <2>4. CASE SubscribeFails
    BY <2>4 DEF SubscribeFails, Schedule
  <2>5. CASE OnModuleDestroy
    BY <2>5 DEF OnModuleDestroy
  <2>6. CASE RedisConnects \/ RedisQuits
    BY <2>6 DEF RedisConnects, RedisQuits
  <2>7. CASE UNCHANGED vars
    BY <2>7 DEF vars
  <2>8. QED
    BY <2>1, <2>2, <2>3, <2>4, <2>5, <2>6, <2>7 DEF Next, SubscribeAnswers
<1>3. QED
  BY <1>1, <1>2, TypeCorrect, PTL DEF Spec

\* There is one chain of retries, and none gets lost (OneAttempt): an initialised
\* gateway has one retry pending, one call in flight, is subscribed or gave up.
THEOREM AttemptsAreSingle == Spec => []OneAttempt
<1>1. TypeOK /\ IInv => OneAttempt
  BY DEF TypeOK, IInv, OneAttempt
<1>2. QED
  BY <1>1, TypeCorrect, Invariance, PTL

\* isSubscribed tells what the client does (FlagIsTrue).
THEOREM FlagTellsTheTruth == Spec => []FlagIsTrue
<1>1. IInv => FlagIsTrue
  BY DEF IInv, FlagIsTrue
<1>2. QED
  BY <1>1, Invariance, PTL

\* The gateway never gives up because subscribing fails (GivesUpUnconnected): in
\* the catch block the retry count is zero, and the limit there has no effect.
THEOREM LimitCountsConnectionsOnly == Spec => GivesUpUnconnected
<1>1. TypeOK /\ IInv /\ [Next]_vars => (~gaveUp /\ gaveUp' => ~IsConnected)
  <2> SUFFICES ASSUME TypeOK, IInv, [Next]_vars, ~gaveUp, gaveUp'
               PROVE  ~IsConnected
    OBVIOUS
  <2> USE DEF TypeOK, IInv
  <2>1. CASE AfterInit \/ Retry
    BY <2>1 DEF AfterInit, Retry, SubscribeToRedis, Schedule, BeginSubscribe
  <2>2. CASE SubscribeFails
    <3>1. calls = 1 /\ redisRetryCount = 0
      BY <2>2 DEF SubscribeFails
    <3>2. ~(redisRetryCount >= MAX_REDIS_RETRIES)
      BY <3>1, LimitIsPositive
    <3>3. QED
      BY <2>2, <3>2 DEF SubscribeFails, Schedule
  <2>3. CASE SubscribeSucceeds \/ OnModuleDestroy \/ RedisConnects \/ RedisQuits
    BY <2>3 DEF SubscribeSucceeds, OnModuleDestroy, RedisConnects, RedisQuits
  <2>4. CASE UNCHANGED vars
    BY <2>4 DEF vars
  <2>5. QED
    BY <2>1, <2>2, <2>3, <2>4 DEF Next, SubscribeAnswers
<1>2. QED
  BY <1>1, TypeCorrect, Invariance, PTL DEF Spec, GivesUpUnconnected

=============================================================================
