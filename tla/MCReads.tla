------------------------------ MODULE MCReads ------------------------------
(***************************************************************************)
(* Instances of the three reading modules, checked in one run.  They share *)
(* no state, so that each behaviour is one of a chart request, of a        *)
(* performance request or of a client paging through a list.               *)
(***************************************************************************)
EXTENDS ChartRequest, Performance, ListPages

vars == <<chartVars, performanceVars, pagesVars>>

NoChart ==
    /\ request = None /\ store = {} /\ phase = "off" /\ attempt = 0
    /\ fetched = {}

NoFigures == asked = [kind |-> "off"] /\ answer = Null

NoPages ==
    /\ table = {} /\ left = {} /\ created = 0
    /\ list = [name |-> "off", state |-> "ended", cursorLeft |-> TRUE]

Init ==
    \/ ChartInit /\ NoFigures /\ NoPages
    \/ NoChart /\ PerformanceInit /\ NoPages
    \/ NoChart /\ NoFigures /\ PagesInit

Next ==
    \/ ChartNext /\ UNCHANGED <<performanceVars, pagesVars>>
    \/ PerformanceNext /\ UNCHANGED <<chartVars, pagesVars>>
    \/ PagesNext /\ UNCHANGED <<chartVars, performanceVars>>

Spec == Init /\ [][Next]_vars /\ ChartFairness

PagesSpec == NoChart /\ NoFigures /\ PagesInit /\ [][Next]_vars

---------------------------------------------------------------------------
(* Charts.  A candle lasts two units, so that times need not be aligned.   *)
(* Positions see every set of missing candles; trades also every pattern   *)
(* of candles that hold their price.                                       *)

Candles(times, prices) ==
    {{[time |-> t, low |-> f[t], high |-> f[t]] : t \in S} : S \in SUBSET times, f \in [times -> prices]}

PositionRequests ==
    [kind : {"position"}, closed : {TRUE}, entry : {4, 5}, exit : {4, 9, 12, 13},
     before : {1, 2}, after : {1, 2}]
    \cup [kind : {"position"}, closed : BOOLEAN, entry : {3}, exit : {None}, before : {1}, after : {2}]

TradeRequests ==
    {r \in [kind : {"trade"}, pattern : {2, 3, None}, entry : {3, 7}, exit : {4, 8}, price : {1}] :
        r.entry <= r.exit}

MCChartCases ==
    (PositionRequests \X Candles({0, 2, 4, 6, 8, 10, 12, 14}, {1}))
    \cup (TradeRequests \X Candles({0, 2, 4, 6, 8}, {0, 1}))

---------------------------------------------------------------------------
(* Figures.  Curves of up to three trades; three snapshots within three    *)
(* weeks; every day of a leap year, of the year before and of the next,    *)
(* with and without midnight between the readings of the clock.            *)

Closed == [exit : {1}, value : {Null, 0, 1, 3, 4}, pnl : {Null, -1, 0, 1}]
Open == [exit |-> Null, value |-> Null, pnl |-> Null]

Trades ==
    UNION {[1..n -> Closed] : n \in 0..2}
    \cup {Append(s, Open) : s \in [1..1 -> Closed]}
    \cup {<<[exit |-> 1, value |-> v, pnl |-> 1], [exit |-> 1, value |-> w, pnl |-> 0],
            [exit |-> 1, value |-> x, pnl |-> -1]>> : v, w, x \in {Null, 0, 1, 3, 4}}

Dates == {d \in [year : 2023..2025, month : 1..12, day : 1..31] : d.day <= DaysIn(d.year, d.month)}

NextDate(d) ==
    IF d.day < DaysIn(d.year, d.month) THEN [d EXCEPT !.day = @ + 1]
    ELSE IF d.month < 12 THEN [year |-> d.year, month |-> d.month + 1, day |-> 1]
    ELSE [year |-> d.year + 1, month |-> 1, day |-> 1]

MCPerformanceCases ==
    [kind : {"chart"}, initial : {0, 2}, trades : Trades]
    \cup [kind : {"snapshots"}, created : {0}, now : {90},
          snapshots : {{}} \cup {{a, b, c} : a \in 0..12, b \in 13..40, c \in {26, 27, 28, 29, 30, 83, 84}}]
    \cup UNION {[kind : {"window"}, now : {d}, start : {d, NextDate(d)}, created : {1}] : d \in Dates}

---------------------------------------------------------------------------
(* Lists of four rows and two more to come, some of them created at the    *)
(* same time; sorted columns with equal and missing values; every division *)
(* of the paper rows into open and closed.                                 *)

RowsWith(keys, open) == {[id |-> i, key |-> keys[i], open |-> open[i]] : i \in DOMAIN keys}

Case(name, order, keys, open) == [name |-> name, order |-> order, rows |-> RowsWith(keys, open)]

AllOpen == [i \in 1..4 |-> TRUE]
ByAge == [i \in 1..4 |-> i]
Together == [i \in 1..4 |-> IF i = 1 THEN 1 ELSE 3]

MCListCases ==
    {Case(name, "desc", ByAge, AllOpen) : name \in {"templates", "strategies", "public"}}
    \cup {Case(name, "desc", Together, AllOpen) : name \in {"tasks", "signals", "positions"}}
    \cup {Case("trades", order, keys, AllOpen) : order \in {"asc", "desc"}, keys \in [1..4 -> {1, 2, Nil}]}
    \cup {Case("paper", "desc", ByAge, open) : open \in [1..4 -> BOOLEAN]}
=============================================================================
