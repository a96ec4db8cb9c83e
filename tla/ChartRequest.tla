--------------------------- MODULE ChartRequest ---------------------------
(***************************************************************************)
(* A chart for a position or a backtest trade: getPositionChartData and    *)
(* getTradeDetails ask GraphQLService.getCandlesAroundTime for candles     *)
(* around a reference time, over an unreliable HTTP call with retries, and *)
(* mark the candles of the entry and of the exit.                          *)
(*                                                                         *)
(* Abstractions.  A candle is its time and price range; times are integers *)
(* and a candle lasts Interval.  The candle service answers with the       *)
(* stored candles of the requested range: the query's limit is ten more    *)
(* than the range can hold.  The counts 30, 5000, 50 and 10 of the code    *)
(* are constants.  A request is the row the handler has read, with its     *)
(* parameters.  A timeframe is supported or not; whether an answer holds a *)
(* null among its candles, and whether it comes with errors and with how   *)
(* much data, is left to the service.                                      *)
(***************************************************************************)
EXTENDS Integers, FiniteSets

CONSTANTS
    Interval,           \* getCandleInterval(timeframe)
    MinBuffer,          \* candles shown before the entry and after the exit
    MaxAfter,           \* MAX_CANDLES_AFTER
    TradeCandles,       \* candles on either side in getTradeDetails
    SearchWindow,       \* searchWindowCandles
    MaxRetries,         \* attempts of getCandles
    ChartCases,         \* pairs of a request and the stored candles
    None                \* null

\* A position's row, with the counts its caller asks for (PositionChartQueryDto admits
\* 1 to 200), or a trade's row: its pattern forms before it is entered.
IsRequest(r) ==
    /\ r.kind \in {"position", "trade"}
    /\ r.entry \in Int /\ r.exit \in Int \cup {None}
    /\ r.kind = "position" =>
          r.closed \in BOOLEAN /\ r.before \in Nat \ {0} /\ r.after \in Nat \ {0}
    /\ r.kind = "trade" =>
          /\ r.pattern # None => r.pattern \in Int /\ r.pattern <= r.entry
          /\ r.exit # None => r.entry <= r.exit

\* Candles of one symbol and timeframe do not overlap; any of them may be missing.
AreCandles(candles) ==
    /\ IsFiniteSet(candles) /\ None \notin candles
    /\ \A c \in candles : c.time \in Int
    /\ \A c, d \in candles :
          c # d => c.time + Interval <= d.time \/ d.time + Interval <= c.time

ASSUME ChartAssumption ==
    /\ {Interval, MinBuffer, TradeCandles, MaxRetries} \subseteq Nat \ {0}
    /\ MaxAfter \in Nat /\ SearchWindow \in Nat
    /\ None \notin Int
    /\ \A case \in ChartCases : IsRequest(case[1]) /\ AreCandles(case[2])

VARIABLES
    request,
    store,              \* the candles the chart service has
    phase,              \* "asked", "calling", "sleeping", "fetched", then
                        \* "replied" (with Answer, below), "missing" or "failed"
    attempt,
    fetched             \* what getCandles returned

chartVars == <<request, store, phase, attempt, fetched>>

ChartInit ==
    /\ \E case \in ChartCases : request = case[1] /\ store = case[2]
    /\ phase = "asked"
    /\ attempt = 1
    /\ fetched = {}

---------------------------------------------------------------------------
(* How many candles are asked for, and around which time.                  *)

Larger(a, b) == IF a >= b THEN a ELSE b
Smaller(a, b) == IF a <= b THEN a ELSE b
WholeCandlesBetween(from, to) == (to - from) \div Interval
CandlesBetween(from, to) == (to - from + Interval - 1) \div Interval

\* A closed row whose exit lies after its entry decides itself how much is shown.
ShowsLifecycle(r) ==
    /\ r.kind = "position"
    /\ r.closed
    /\ r.exit # None
    /\ r.exit > r.entry

CandlesBefore(r) ==
    IF r.kind = "trade" THEN TradeCandles
    ELSE IF ShowsLifecycle(r) THEN Larger(MinBuffer, r.before) ELSE r.before

CandlesAfter(r) ==
    IF r.kind = "trade" THEN TradeCandles
    ELSE IF ShowsLifecycle(r)
         THEN Larger(r.after, Smaller(CandlesBetween(r.entry, r.exit) + MinBuffer, MaxAfter))
         ELSE r.after

\* A trade is shown around the first extremum of its pattern, if that is known.
Reference(r) == IF r.kind = "trade" /\ r.pattern # None THEN r.pattern ELSE r.entry

InRange(candles, r) ==
    LET startTime == Reference(r) - CandlesBefore(r) * Interval
        endTime == Reference(r) + CandlesAfter(r) * Interval
    IN  {c \in candles : startTime <= c.time /\ c.time <= endTime}

---------------------------------------------------------------------------
(* Splitting the answer, and finding the candles to mark.                  *)

Holds(c, time) == c.time <= time /\ time < c.time + Interval

\* The start of the candle that holds the reference time, or that time.
SplitTime(candles, ref) ==
    IF \E c \in candles : Holds(c, ref)
    THEN (CHOOSE c \in candles : Holds(c, ref)).time
    ELSE ref

Earliest(k, candles) == {c \in candles : Cardinality({d \in candles : d.time < c.time}) < k}
Latest(k, candles) == {c \in candles : Cardinality({d \in candles : d.time > c.time}) < k}

Before(r, candles) ==
    LET split == SplitTime(candles, Reference(r))
        earlier == {c \in candles : c.time < split}
    IN  Latest(CandlesBefore(r), earlier)

AfterLatest(r, candles) ==
    LET split == SplitTime(candles, Reference(r))
        later == {c \in candles : c.time >= split}
    IN  Latest(CandlesAfter(r), later)
After(r, candles) ==
    LET split == SplitTime(candles, Reference(r))
        later == {c \in candles : c.time >= split}
    IN  Earliest(CandlesAfter(r), later)

Distance(c, time) == IF c.time <= time THEN time - c.time ELSE c.time - time

\* findEntryCandleTimestamp: the nearest candle, the earlier of two equally near.
NearestCandle(candles, time) ==
    IF candles = {} THEN None
    ELSE CHOOSE c \in candles : \A d \in candles \ {c} :
            \/ Distance(c, time) < Distance(d, time)
            \/ Distance(c, time) = Distance(d, time) /\ c.time < d.time

\* findExitCandleTimestamp, and the first step of findCandleContainingPrice.
CandleAt(candles, time) ==
    LET past == {c \in candles : c.time <= time} IN
    IF past = {} THEN None ELSE CHOOSE c \in past : \A d \in past : d.time <= c.time

HasPrice(c, price) == c.low <= price /\ price <= c.high

Index(candles, c) == Cardinality({d \in candles : d.time < c.time})

\* The candles searched for the price; without a match the index is -1.
Nearby(candles, match) ==
    LET i == IF match = None THEN -1 ELSE Index(candles, match) IN
    {c \in candles : Index(candles, c) >= i - SearchWindow /\ Index(candles, c) <= i + SearchWindow}

WithPrice(candles, price, match) == {c \in Nearby(candles, match) : HasPrice(c, price)}

\* The message of a hit reads the timestamp of the match, which may be null.
PriceSearchThrows(candles, price, time) ==
    LET match == CandleAt(candles, time) IN
    match = None /\ WithPrice(candles, price, match) # {}

PriceMarker(candles, price, time) ==
    LET match == CandleAt(candles, time)
        hits == WithPrice(candles, price, match)
    IN  IF hits = {} \/ (match # None /\ HasPrice(match, price))
        THEN match
        ELSE CHOOSE c \in hits : \A d \in hits : c.time <= d.time

---------------------------------------------------------------------------
(* The request.                                                            *)

\* getPositionById or the trade's findFirst finds no row of this user.
RowMissing ==
    /\ phase = "asked"
    /\ phase' = "missing"
    /\ UNCHANGED <<request, store, attempt, fetched>>

RowFound ==
    /\ phase = "asked"
    /\ phase' = "calling"
    /\ UNCHANGED <<request, store, attempt, fetched>>

Returns(candles) ==
    /\ phase' = "fetched"
    /\ fetched' = candles
    /\ UNCHANGED <<request, store, attempt>>

\* An error that nothing catches: the request is answered with it.
Fails ==
    /\ phase' = "failed"
    /\ UNCHANGED <<request, store, attempt, fetched>>

\* getCandleInterval throws: of a closed row in the try that falls back on the given
\* counts, and then of every row in getCandlesAroundTime, which nothing catches.
UnsupportedTimeframe ==
    /\ phase = "asked"
    /\ Fails

CandlesArrive ==
    /\ phase = "calling"
    /\ Returns(InRange(store, request))

\* GraphQL errors are not retried: the result is the data sent along, which may be
\* any part of it, or nothing.
GraphQLErrors ==
    /\ phase = "calling"
    /\ \E data \in SUBSET InRange(store, request) : Returns(data)

\* A field that could not be resolved is a null in the answer; a candle that is null
\* has no timestamp to split by.
NullCandle ==
    /\ phase = "calling"
    /\ Fails

NetworkErrorForEver ==
    /\ phase = "calling"
    /\ phase' = "sleeping"
    /\ attempt' = Smaller(attempt + 1, MaxRetries)
    /\ UNCHANGED <<request, store, fetched>>
NetworkError ==
    /\ phase = "calling"
    /\ IF attempt < MaxRetries
       THEN /\ phase' = "sleeping"
            /\ attempt' = attempt + 1
            /\ UNCHANGED <<request, store, fetched>>
       ELSE Returns({})

OtherError ==
    /\ phase = "calling"
    /\ Returns({})

DelayElapses ==
    /\ phase = "sleeping"
    /\ phase' = "calling"
    /\ UNCHANGED <<request, store, attempt, fetched>>

Shown(r, candles) == Before(r, candles) \cup After(r, candles)

PositionReply(r, candles) ==
    LET shown == Shown(r, candles) IN
    [status |-> "OK",
     before |-> Before(r, candles),
     after |-> After(r, candles),
     entry |-> NearestCandle(shown, r.entry),
     exit |-> IF r.closed /\ r.exit # None THEN CandleAt(shown, r.exit) ELSE None]

TradeReply(r, candles) ==
    LET shown == Shown(r, candles) IN
    IF \/ PriceSearchThrows(shown, r.price, r.entry)
       \/ r.exit # None /\ PriceSearchThrows(shown, r.price, r.exit)
    THEN [status |-> "ERROR"]
    ELSE [status |-> "OK",
          before |-> Before(r, candles),
          after |-> After(r, candles),
          entry |-> PriceMarker(shown, r.price, r.entry),
          exit |-> IF r.exit # None THEN PriceMarker(shown, r.price, r.exit) ELSE None]

Answer ==
    IF request.kind = "position" THEN PositionReply(request, fetched)
    ELSE TradeReply(request, fetched)

Reply ==
    /\ phase = "fetched"
    /\ phase' = "replied"
    /\ UNCHANGED <<request, store, attempt, fetched>>

ChartNext ==
    \/ RowMissing \/ RowFound \/ UnsupportedTimeframe
    \/ CandlesArrive \/ GraphQLErrors \/ NullCandle \/ NetworkError \/ OtherError \/ DelayElapses
    \/ Reply

\* The client times out after 30 seconds, so that every attempt comes to an end.
ChartFairness == WF_chartVars(ChartNext)

ChartSpec == ChartInit /\ [][ChartNext]_chartVars /\ ChartFairness

---------------------------------------------------------------------------
(* Properties.                                                             *)

Complete == phase = "replied" /\ fetched = InRange(store, request)

\* Within the cap, the chart of a closed position reaches its exit: if the candle
\* that holds the exit time is stored, it is in the answer and carries the marker.
ExitOnChart ==
    Complete /\ ShowsLifecycle(request)
             /\ CandlesBetween(request.entry, request.exit) < MaxAfter =>
        \A c \in store : Holds(c, request.exit) => c \in Answer.after /\ Answer.exit = c

\* A chart has no holes of its own making: a stored candle between two shown ones
\* is shown, whatever is missing at the service and wherever the split falls.  And
\* no candle is shown twice or on the wrong side, of however much was fetched: those
\* before are the ones that had ended by the reference time.
NoHoles ==
    phase = "replied" =>
        LET shown == Shown(request, fetched)
        IN  /\ Complete => \A c \in store : \A d, e \in shown :
                  d.time < c.time /\ c.time < e.time => c \in shown
            /\ \A c \in Before(request, fetched) : c.time + Interval <= Reference(request)
            /\ \A c \in After(request, fetched) : c.time + Interval > Reference(request)

\* The price search dereferences its match by time even when there is none, and the
\* request fails.  That takes missing data: never if the candle of the reference time
\* was among those fetched, however many others were not.
ThrowNeedsMissingCandle ==
    phase = "replied" /\ Answer.status = "ERROR" =>
        \A c \in fetched : ~Holds(c, Reference(request))

\* Three attempts, a bounded delay between them, and each one times out: every
\* request is answered, with whatever candles there are, or with an error.
ChartAnswered == phase = "asked" ~> phase \in {"replied", "missing", "failed"}
=============================================================================
