---------------------------- MODULE Performance ----------------------------
(***************************************************************************)
(* The performance figures: the equity curve of a backtest result          *)
(* (getPerformanceChart), the totals of its filtered trades, and the       *)
(* snapshots of a portfolio over a time frame, thinned out to a            *)
(* granularity (getPortfolioPerformance, aggregateSnapshots).              *)
(*                                                                         *)
(* Abstractions.  Amounts are integers, so that rounding to two decimals   *)
(* changes nothing; a drawdown is a fraction [drop, of].  Times of         *)
(* snapshots count periods of a day with DayLength periods, day 0 being a  *)
(* Sunday; a date is [year, month, day].                                   *)
(***************************************************************************)
EXTENDS Integers, Sequences, FiniteSets

CONSTANTS
    DayLength,          \* even: a day is two half days
    PerformanceCases,   \* the rows and parameters that are asked about
    Null                \* null

---------------------------------------------------------------------------
(* The calendar.                                                           *)

IsLeap(year) == year % 4 = 0 /\ (year % 100 # 0 \/ year % 400 = 0)

DaysIn(year, month) ==
    CASE month = 2 -> IF IsLeap(year) THEN 29 ELSE 28
      [] month \in {4, 6, 9, 11} -> 30
      [] OTHER -> 31

DayNumber(year, month, day) ==
    LET before[m \in 1..12] == IF m = 1 THEN 0 ELSE before[m - 1] + DaysIn(year, m - 1)
    IN  365 * year + (year - 1) \div 4 - (year - 1) \div 100 + (year - 1) \div 400
        + before[month] + day

IsDate(d) ==
    /\ d.year \in Nat \ {0} /\ d.month \in 1..12
    /\ d.day \in 1..DaysIn(d.year, d.month)

DaysAfter(d, e) == DayNumber(e.year, e.month, e.day) - DayNumber(d.year, d.month, d.day)

---------------------------------------------------------------------------

\* The clock is read twice for a window; midnight may come in between.
\* The balances that the worker stores are taken as never negative: a drawdown is then at
\* most the whole of its peak.
IsCase(case) ==
    /\ case.kind \in {"chart", "snapshots", "window"}
    /\ case.kind = "chart" =>
          /\ case.initial \in Nat
          /\ case.trades \in Seq([exit : Int \cup {Null}, value : Nat \cup {Null},
                                  pnl : Int \cup {Null}])
    /\ case.kind = "snapshots" => case.snapshots \subseteq Nat /\ IsFiniteSet(case.snapshots)
    /\ case.kind = "window" =>
          /\ IsDate(case.now) /\ IsDate(case.start)
          /\ DaysAfter(case.now, case.start) \in {0, 1}

ASSUME PerformanceAssumption ==
    /\ DayLength \in Nat \ {0} /\ DayLength % 2 = 0
    /\ Null \notin Int
    /\ \A case \in PerformanceCases : IsCase(case)

VARIABLES asked, answer

performanceVars == <<asked, answer>>

PerformanceInit ==
    /\ asked \in PerformanceCases
    /\ answer = Null

---------------------------------------------------------------------------
(* getPerformanceChart.  A trade is [exit, value, pnl]; the database       *)
(* returns the trades by exit, those without one last.                     *)

CompletedTrades(trades) ==
    LET kept[i \in 0..Len(trades)] ==
            IF i = 0 THEN << >>
            ELSE IF trades[i].exit = Null THEN kept[i - 1] ELSE Append(kept[i - 1], trades[i])
    IN  kept[Len(trades)]

Balance(trade) == IF trade.value = Null THEN 0 ELSE trade.value

Curve(initial, trades) == <<initial>> \o [i \in 1..Len(trades) |-> Balance(trades[i])]

Percent(peak, balance) ==
    IF peak > 0 THEN [drop |-> peak - balance, of |-> peak] ELSE [drop |-> 0, of |-> 1]

IsMore(d, e) == d.drop * e.of > e.drop * d.of

\* peakBalance and maxDrawdownPercentage after the first i trades.
TrackFromZero(initial, trades) ==
    LET after[i \in 0..Len(trades)] ==
            IF i = 0 THEN [peak |-> 0, worst |-> [drop |-> 0, of |-> 1]]
            ELSE LET balance == Balance(trades[i])
                     peak == IF balance > after[i - 1].peak THEN balance ELSE after[i - 1].peak
                     drawdown == Percent(peak, balance)
                 IN  [peak |-> peak,
                      worst |-> IF IsMore(drawdown, after[i - 1].worst)
                                THEN drawdown ELSE after[i - 1].worst]
    IN  after[Len(trades)]
Track(initial, trades) ==
    LET after[i \in 0..Len(trades)] ==
            IF i = 0 THEN [peak |-> initial, worst |-> [drop |-> 0, of |-> 1]]
            ELSE LET balance == Balance(trades[i])
                     peak == IF balance > after[i - 1].peak THEN balance ELSE after[i - 1].peak
                     drawdown == Percent(peak, balance)
                 IN  [peak |-> peak,
                      worst |-> IF IsMore(drawdown, after[i - 1].worst)
                                THEN drawdown ELSE after[i - 1].worst]
    IN  after[Len(trades)]

\* The last value, unless it is null or 0: then the initial balance.
FinalBalance(initial, trades) ==
    IF trades = << >> \/ Balance(trades[Len(trades)]) = 0
    THEN initial
    ELSE Balance(trades[Len(trades)])

Winners(trades) == Cardinality({i \in DOMAIN trades : trades[i].pnl # Null /\ trades[i].pnl > 0})
Losers(trades) == Cardinality({i \in DOMAIN trades : trades[i].pnl # Null /\ trades[i].pnl <= 0})

EquityChart(initial, trades) ==
    LET completed == CompletedTrades(trades)
        track == Track(initial, completed)
    IN  [curve |-> Curve(initial, completed),
         final |-> FinalBalance(initial, completed),
         peak |-> track.peak,
         drawdown |-> track.worst,
         total |-> Len(completed),
         winning |-> Winners(completed),
         losing |-> Losers(completed)]

\* calculateTradesSummary counts all trades of the filter, open ones too.
TradesSummary(trades) ==
    LET sum[i \in 0..Len(trades)] ==
            IF i = 0 THEN 0
            ELSE sum[i - 1] + (IF trades[i].pnl = Null THEN 0 ELSE trades[i].pnl)
    IN  [total |-> Len(trades),
         winning |-> Winners(trades),
         losing |-> Losers(trades),
         pnl |-> sum[Len(trades)]]

---------------------------------------------------------------------------
(* aggregateSnapshots: the last snapshot of each period.                   *)

Day(t) == t \div DayLength
MondayOf(t) == Day(t) - ((Day(t) + 6) % 7)

GroupKey(granularity, t) ==
    CASE granularity = "TWELVE_HOURLY" -> <<Day(t), (t % DayLength) \div (DayLength \div 2)>>
      [] granularity = "DAILY" -> <<Day(t)>>
      [] granularity = "WEEKLY" -> <<MondayOf(t)>>
      [] OTHER -> <<t>>

AggregateByFirst(snapshots, granularity) ==
    {t \in snapshots : \A u \in snapshots :
        GroupKey(granularity, u) = GroupKey(granularity, t) => u >= t}
Aggregate(snapshots, granularity) ==
    {t \in snapshots : \A u \in snapshots :
        GroupKey(granularity, u) = GroupKey(granularity, t) => u <= t}

---------------------------------------------------------------------------
(* The start of a time frame.  startDate is a second reading of the clock, *)
(* of which the day, the month or the year is set from the first, now.     *)
(* Date.setMonth and setFullYear keep the day of the month and let it run  *)
(* over into the next month.                                               *)

MonthsBackThisYear(year, month, day, months) ==
    LET m == month - months IN
    IF m >= 1 THEN DayNumber(year, m, day)
    ELSE DayNumber(year, m + 12, day)
MonthsBack(year, month, day, months) ==
    LET m == month - months IN
    IF m >= 1 THEN DayNumber(year, m, day)
    ELSE DayNumber(year - 1, m + 12, day)

StartDate(timeframe, now, start, created) ==
    CASE timeframe = "1d" -> DayNumber(start.year, start.month, now.day) - 1
      [] timeframe = "1w" -> DayNumber(start.year, start.month, now.day) - 7
      [] timeframe = "1m" -> MonthsBack(start.year, now.month, start.day, 1)
      [] timeframe = "3m" -> MonthsBack(start.year, now.month, start.day, 3)
      [] timeframe = "1y" -> DayNumber(now.year - 1, start.month, start.day)
      [] timeframe = "all" -> created

---------------------------------------------------------------------------
(* One request.                                                            *)

AnswerChart ==
    /\ answer = Null
    /\ asked.kind = "chart"
    /\ answer' = [chart |-> EquityChart(asked.initial, asked.trades),
                  summary |-> TradesSummary(asked.trades)]
    /\ UNCHANGED asked

\* Without snapshots in the window, the portfolio's first and current values.
AnswerSnapshots ==
    /\ answer = Null
    /\ asked.kind = "snapshots"
    /\ answer' = [g \in {"HOURLY", "TWELVE_HOURLY", "DAILY", "WEEKLY"} |->
                    IF asked.snapshots = {} THEN {asked.created, asked.now}
                    ELSE Aggregate(asked.snapshots, g)]
    /\ UNCHANGED asked

AnswerWindow ==
    /\ answer = Null
    /\ asked.kind = "window"
    /\ answer' = [f \in {"1d", "1w", "1m", "3m", "1y", "all"} |->
                    StartDate(f, asked.now, asked.start, asked.created)]
    /\ UNCHANGED asked

PerformanceNext == AnswerChart \/ AnswerSnapshots \/ AnswerWindow

PerformanceSpec == PerformanceInit /\ [][PerformanceNext]_performanceVars

---------------------------------------------------------------------------
(* Properties.                                                             *)

Answered(kind) == answer # Null /\ asked.kind = kind

\* The drawdown kept along the peaks is the worst fall from any earlier point of
\* the curve to any later one, the starting balance included.
DrawdownIsWorst ==
    Answered("chart") =>
        LET curve == answer.chart.curve
            falls == {f \in (1..Len(curve)) \X (1..Len(curve)) : f[1] <= f[2] /\ curve[f[1]] > 0}
            reported == answer.chart.drawdown
        IN  /\ \A f \in falls : ~IsMore(Percent(curve[f[1]], curve[f[2]]), reported)
            /\ reported.drop = 0 \/ \E f \in falls :
                    reported = Percent(curve[f[1]], curve[f[2]])

\* Every granularity ends with the newest snapshot, so that all report the same end
\* balance, and a coarser one only leaves points out.
GranularitiesAgree ==
    Answered("snapshots") =>
        /\ \A g \in DOMAIN answer : \A t \in asked.snapshots :
              \E u \in answer[g] : u >= t
        /\ answer["WEEKLY"] \subseteq answer["DAILY"]
        /\ answer["DAILY"] \subseteq answer["TWELVE_HOURLY"]
        /\ answer["TWELVE_HOURLY"] \subseteq answer["HOURLY"]

\* A month that ends early makes a date run over: a time frame of months may start
\* days late, but never by more than the month was short, and never too early; midnight
\* between the two readings of the clock costs one day more.  Only when a month ends at
\* that midnight may a window be of any other length.
WindowsKeepTheirLength ==
    Answered("window") /\ asked.start.year = asked.now.year
                       /\ asked.start.month = asked.now.month =>
        LET length(f) == DayNumber(asked.now.year, asked.now.month, asked.now.day) - answer[f]
            lost == DaysAfter(asked.now, asked.start)
        IN  /\ length("1d") = 1 /\ length("1w") = 7
            /\ length("1m") + lost \in 28..31 /\ length("3m") + lost \in 89..92
            /\ length("1y") + lost \in 365..366
=============================================================================
