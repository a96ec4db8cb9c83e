---------------------------- MODULE ReadsProofs ----------------------------
(***************************************************************************)
(* The three reading modules, for any stored candles, trades, snapshots,   *)
(* dates and rows.  What they compute is about the size of a set, about    *)
(* the last of some rows, or goes through a sequence: the first section    *)
(* derives what this takes, that a finite ordered set has a last element   *)
(* and that a set of numbers with 0 and every successor has them all, from *)
(* the library's fact that inclusion of finite sets is well founded.       *)
(***************************************************************************)
EXTENDS ChartRequest, Performance, ListPages, FiniteSetTheorems, TLAPS

---------------------------------------------------------------------------
(* Finite sets and induction.                                              *)

Smallest(X, F) == \A Y \in F : Y \subseteq X => Y = X

\* A family of finite sets has a smallest one.
LEMMA SmallestSet ==
    ASSUME NEW S, IsFiniteSet(S), NEW F, F \subseteq SUBSET S, F # {}
    PROVE  \E X \in F : Smallest(X, F)
<1>1. IsWellFoundedOn(StrictSubsetOrdering(S), SUBSET S)
  BY FS_StrictSubsetOrderingWellFounded, FS_FiniteSubsetsOfFinite
<1>2. PICK X \in F : \A Y \in F : ~(<<Y, X>> \in StrictSubsetOrdering(S))
  BY <1>1, WFMin
<1>3. ASSUME NEW Y \in F, Y \subseteq X
      PROVE  Y = X
  <2>1. Y \in SUBSET S /\ X \in SUBSET S
    OBVIOUS
  <2>2. QED
    BY <1>2, <1>3, <2>1 DEF StrictSubsetOrdering
<1>4. QED
  BY <1>3 DEF Smallest

\* A set of natural numbers has a least one: what induction rests on.
LEMMA Least ==
    ASSUME NEW T \in SUBSET Nat, T # {}
    PROVE  \E x \in T : \A y \in T : x <= y
<1>1. PICK n \in T : TRUE
  OBVIOUS
<1>2. PICK F : F = {0..m : m \in {t \in T : t <= n}}
  OBVIOUS
<1>3. IsFiniteSet(0..n)
  BY FS_Interval
<1>4. F \subseteq SUBSET (0..n) /\ 0..n \in F
  BY <1>2
<1>5. PICK X \in F : Smallest(X, F)
  BY <1>3, <1>4, SmallestSet
<1>6. PICK x \in T : x <= n /\ X = 0..x
  BY <1>2
<1>7. ASSUME NEW y \in T, ~(x <= y)
      PROVE  FALSE
  <2>1. 0..y \in F /\ 0..y \subseteq X
    BY <1>2, <1>6, <1>7
  <2>2. 0..y = 0..x
    BY <1>5, <1>6, <2>1 DEF Smallest
  <2>3. x \in 0..x /\ x \notin 0..y
    BY <1>7
  <2>4. QED
    BY <2>2, <2>3
<1>8. QED
  BY <1>7

LEMMA Induct ==
    ASSUME NEW P \in SUBSET Nat, 0 \in P, \A n \in P : n + 1 \in P
    PROVE  P = Nat
<1>1. SUFFICES ASSUME P # Nat PROVE FALSE
  OBVIOUS
<1>2. PICK x \in Nat \ P : \A y \in Nat \ P : x <= y
  <2>1. Nat \ P \in SUBSET Nat /\ Nat \ P # {}
    BY <1>1
  <2>2. QED
    BY <2>1, Least
<1>3. x - 1 \in P
  BY <1>2
<1>4. QED
  BY <1>2, <1>3


IsStep(G, n, T) == G \in [(1..n) \X T -> T]

Follows(f, n, T, a, G) ==
    f \in [0..n -> T] /\ f[0] = a /\ \A i \in 1..n : f[i] = G[<<i, f[i - 1]>>]

\* A function that is defined step by step exists: what every LET f[i \in 0..n] needs.
LEMMA StepByStep ==
    ASSUME NEW n \in Nat, NEW T, NEW a \in T, NEW G, IsStep(G, n, T)
    PROVE  \E f : Follows(f, n, T, a, G)
<1> DEFINE Steps(f, m) == f[0] = a /\ \A i \in 1..m : f[i] = G[<<i, f[i - 1]>>]
           P == {m \in Nat : m <= n => \E f \in [0..m -> T] : Steps(f, m)}
<1>1. 0 \in P
  <2>1. [i \in 0..0 |-> a] \in [0..0 -> T] /\ Steps([i \in 0..0 |-> a], 0)
    OBVIOUS
  <2>2. QED
    BY <2>1
<1>2. ASSUME NEW m \in P
      PROVE  m + 1 \in P
  <2> SUFFICES ASSUME m + 1 <= n
               PROVE  \E f \in [0..(m + 1) -> T] : Steps(f, m + 1)
    OBVIOUS
  <2>1. PICK f \in [0..m -> T] : Steps(f, m)
    OBVIOUS
  <2>2. PICK g : g = [i \in 0..(m + 1) |-> IF i <= m THEN f[i] ELSE G[<<m + 1, f[m]>>]]
    OBVIOUS
  <2>3. G[<<m + 1, f[m]>>] \in T
    BY <2>1 DEF IsStep
  <2>4. g \in [0..(m + 1) -> T]
    BY <2>1, <2>2, <2>3
  <2>5. g[0] = a
    BY <2>1, <2>2
  <2>6. ASSUME NEW i \in 1..(m + 1)
        PROVE  g[i] = G[<<i, g[i - 1]>>]
    <3>1. CASE i = m + 1
      <4>1. g[i] = G[<<m + 1, f[m]>>] /\ g[i - 1] = f[m]
        BY <2>2, <3>1
      <4>2. QED
        BY <3>1, <4>1
    <3>2. CASE i \in 1..m
      <4>1. g[i] = f[i] /\ g[i - 1] = f[i - 1]
        BY <2>2, <3>2
      <4>2. QED
        BY <2>1, <3>2, <4>1
    <3>3. QED
      BY <3>1, <3>2
  <2>7. QED
    BY <2>4, <2>5, <2>6
<1> HIDE DEF P
<1>3. n \in P
  <2>1. P \in SUBSET Nat
    BY DEF P
  <2>2. QED
    BY <1>1, <1>2, <2>1, Induct
<1>4. QED
  BY <1>3 DEF P, Follows

\* In a finite nonempty set with a strict order some element has none above it.
LEMMA Topmost ==
    ASSUME NEW S, IsFiniteSet(S), S # {}, NEW R,
           \A x \in S : <<x, x>> \notin R,
           \A x, y, z \in S : (<<x, y>> \in R /\ <<y, z>> \in R) => <<x, z>> \in R
    PROVE  \E x \in S : \A y \in S : <<x, y>> \notin R
<1>1. PICK Above : Above = [x \in S |-> {y \in S : y = x \/ <<x, y>> \in R}]
  OBVIOUS
<1>2. \A x, y \in S : y \in Above[x] <=> y = x \/ <<x, y>> \in R
  BY <1>1
<1>3. Above \in [S -> SUBSET S]
  BY <1>1
<1>4. PICK X \in {Above[x] : x \in S} : Smallest(X, {Above[x] : x \in S})
  <2>1. {Above[x] : x \in S} \subseteq SUBSET S /\ {Above[x] : x \in S} # {}
    BY <1>3
  <2>2. QED
    BY <2>1, SmallestSet
<1>5. PICK x \in S : X = Above[x]
  BY <1>4
<1>6. ASSUME NEW y \in S, <<x, y>> \in R
      PROVE  FALSE
  <2>1. Above[y] \subseteq X
    BY <1>2, <1>3, <1>5, <1>6
  <2>2. x \in Above[x] /\ x \notin Above[y]
    BY <1>2, <1>6
  <2>3. Above[y] = Above[x]
    BY <1>4, <1>5, <2>1 DEF Smallest
  <2>4. QED
    BY <2>2, <2>3
<1>7. QED
  BY <1>6

\* Every nonempty finite set of integers has a greatest.
LEMMA Greatest ==
    ASSUME NEW S \in SUBSET Int, IsFiniteSet(S), S # {}
    PROVE  \E x \in S : \A y \in S : y <= x
<1>1. PICK R : R = {p \in S \X S : p[1] < p[2]}
  OBVIOUS
<1>2. \A x, y \in S : <<x, y>> \in R <=> x < y
  BY <1>1
<1>3. PICK x \in S : \A y \in S : <<x, y>> \notin R
  <2>1. \A x \in S : <<x, x>> \notin R
    BY <1>2
  <2>2. \A x, y, z \in S : (<<x, y>> \in R /\ <<y, z>> \in R) => <<x, z>> \in R
    BY <1>2
  <2>3. QED
    BY <2>1, <2>2, Topmost
<1>4. \A y \in S : y \in Int /\ x \in Int /\ ~(x < y)
  BY <1>2, <1>3
<1>5. \A y \in S : y <= x
  BY <1>4
<1>6. QED
  BY <1>5

---------------------------------------------------------------------------
(* Charts.                                                                 *)

\* What is fetched is a part of the range, the whole of it or nothing included.
ChartReached ==
    /\ IsRequest(request) /\ AreCandles(store)
    /\ fetched \subseteq InRange(store, request)

LEMMA ChartInvariant == ChartSpec => []ChartReached
<1>1. ChartInit => ChartReached
  BY ChartAssumption DEF ChartInit, ChartReached
<1>2. ChartReached /\ [ChartNext]_chartVars => ChartReached'
  <2> SUFFICES ASSUME ChartReached, [ChartNext]_chartVars
               PROVE  ChartReached'
    OBVIOUS
  <2>1. UNCHANGED <<request, store>>
    BY DEF ChartNext, chartVars, RowMissing, RowFound, UnsupportedTimeframe, CandlesArrive,
           GraphQLErrors, NullCandle, NetworkError, OtherError, DelayElapses, Reply,
           Returns, Fails
  <2>2. fetched' = fetched \/ fetched' \subseteq InRange(store, request)
    BY DEF ChartNext, chartVars, RowMissing, RowFound, UnsupportedTimeframe, CandlesArrive,
           GraphQLErrors, NullCandle, NetworkError, OtherError, DelayElapses, Reply,
           Returns, Fails
  <2>3. InRange(store, request)' = InRange(store, request)
    BY <2>1 DEF InRange
  <2>4. QED
    BY <2>1, <2>2, <2>3 DEF ChartReached
<1>3. QED
  BY <1>1, <1>2, PTL DEF ChartSpec

\* The steps a request has left at most: two for each attempt that may still fail,
\* one for the attempt that does not, one for the reply.
Remaining ==
    CASE phase = "asked"    -> 2 * MaxRetries + 1
      [] phase = "calling"  -> 2 * (MaxRetries - attempt) + 2
      [] phase = "sleeping" -> 2 * (MaxRetries - attempt) + 3
      [] phase = "fetched"  -> 1
      [] OTHER              -> 0

AttemptsKept ==
    /\ phase \in {"asked", "calling", "sleeping", "fetched", "replied", "missing",
                "failed"}
    /\ attempt \in 1..MaxRetries

Advances == Remaining \in Nat /\ Remaining' \in Nat /\ Remaining' < Remaining

\* Whatever fails, every step of a chart request uses up one of finitely many: the
\* retries of getCandles cannot go on for ever.  ChartAnswered follows for as long as
\* steps are taken, which its fairness says.
THEOREM ChartStepsRunOut == ChartSpec => [][Advances]_chartVars
<1>1. ChartInit => AttemptsKept
  BY ChartAssumption DEF ChartInit, AttemptsKept
<1>2. AttemptsKept /\ [ChartNext]_chartVars => AttemptsKept' /\ [Advances]_chartVars
  <2> SUFFICES ASSUME AttemptsKept, ChartNext
               PROVE  AttemptsKept' /\ Advances
    BY DEF AttemptsKept, chartVars
  <2> USE ChartAssumption DEF AttemptsKept, Advances, Remaining
  <2>1. CASE RowMissing \/ UnsupportedTimeframe \/ NullCandle
    BY <2>1 DEF RowMissing, UnsupportedTimeframe, NullCandle, Fails
  <2>2. CASE RowFound
    BY <2>2 DEF RowFound
  <2>3. CASE CandlesArrive \/ GraphQLErrors \/ OtherError
    BY <2>3 DEF CandlesArrive, GraphQLErrors, OtherError, Returns
  <2>4. CASE NetworkError
    BY <2>4 DEF NetworkError, Returns
  <2>5. CASE DelayElapses
    BY <2>5 DEF DelayElapses
  <2>6. CASE Reply
    BY <2>6 DEF Reply
  <2>7. QED
    BY <2>1, <2>2, <2>3, <2>4, <2>5, <2>6 DEF ChartNext
<1>3. QED
  BY <1>1, <1>2, PTL DEF ChartSpec

LEMMA RangeIsStored ==
    ASSUME NEW candles, NEW r, AreCandles(candles)
    PROVE  InRange(candles, r) \subseteq candles /\ AreCandles(InRange(candles, r))
<1>1. InRange(candles, r) \subseteq candles
  BY DEF InRange
<1>2. IsFiniteSet(InRange(candles, r))
  BY <1>1, FS_Subset DEF AreCandles
<1>3. QED
  BY <1>1, <1>2 DEF AreCandles

LEMMA FetchedAreCandles ==
    ASSUME ChartReached
    PROVE  fetched \subseteq store /\ AreCandles(fetched)
<1>1. fetched \subseteq store
  BY RangeIsStored DEF ChartReached
<1>2. IsFiniteSet(fetched)
  BY <1>1, FS_Subset DEF ChartReached, AreCandles
<1>3. QED
  BY <1>1, <1>2 DEF ChartReached, AreCandles

LEMMA ChartTypes ==
    ASSUME NEW r, IsRequest(r)
    PROVE  /\ Reference(r) \in Int
           /\ CandlesBefore(r) \in Nat \ {0}
           /\ CandlesAfter(r) \in Nat \ {0}
<1>1. Reference(r) \in Int
  BY DEF IsRequest, Reference
<1>2. CandlesBefore(r) \in Nat \ {0}
  BY ChartAssumption DEF IsRequest, CandlesBefore, Larger
<1>3. CandlesAfter(r) \in Nat \ {0}
  <2>1. CASE ShowsLifecycle(r)
    <3>1. r.after \in Nat \ {0} /\ r.entry \in Int /\ r.exit \in Int
      BY <2>1 DEF ShowsLifecycle, IsRequest
    <3>2. CandlesBetween(r.entry, r.exit) \in Int
      BY <3>1, ChartAssumption DEF CandlesBetween
    <3>3. Smaller(CandlesBetween(r.entry, r.exit) + MinBuffer, MaxAfter) \in Int
      BY <3>2, ChartAssumption DEF Smaller
    <3>4. QED
      BY <2>1, <3>1, <3>3, ChartAssumption DEF CandlesAfter, Larger
  <2>2. CASE ~ShowsLifecycle(r)
    BY <2>2, ChartAssumption DEF IsRequest, CandlesAfter
  <2>3. QED
    BY <2>1, <2>2
<1>4. QED
  BY <1>1, <1>2, <1>3

LEMMA SomeCandles ==
    ASSUME NEW candles, AreCandles(candles), NEW some \in SUBSET candles
    PROVE  AreCandles(some)
BY FS_Subset DEF AreCandles

\* The latest candles reach without a gap to the last one, the earliest to the first.
LEMMA LatestIsClosed ==
    ASSUME NEW candles, AreCandles(candles), NEW k \in Nat, NEW d \in Latest(k, candles),
           NEW c \in candles, d.time <= c.time
    PROVE  c \in Latest(k, candles)
<1> DEFINE newer(x) == {e \in candles : e.time > x.time}
<1>1. newer(c) \subseteq newer(d)
  BY DEF AreCandles, Latest
<1>2. IsFiniteSet(newer(d))
  BY FS_Subset DEF AreCandles
<1>3. Cardinality(newer(c)) <= Cardinality(newer(d)) /\ Cardinality(newer(c)) \in Nat
      /\ Cardinality(newer(d)) \in Nat
  BY <1>1, <1>2, FS_Subset, FS_CardinalityType
<1>4. Cardinality(newer(d)) < k
  BY DEF Latest
<1> HIDE DEF newer
<1>5. Cardinality(newer(c)) < k
  BY <1>3, <1>4
<1>6. QED
  BY <1>5 DEF Latest, newer

LEMMA EarliestIsClosed ==
    ASSUME NEW candles, AreCandles(candles), NEW k \in Nat, NEW d \in Earliest(k, candles),
           NEW c \in candles, c.time <= d.time
    PROVE  c \in Earliest(k, candles)
<1> DEFINE older(x) == {e \in candles : e.time < x.time}
<1>1. older(c) \subseteq older(d)
  BY DEF AreCandles, Earliest
<1>2. IsFiniteSet(older(d))
  BY FS_Subset DEF AreCandles
<1>3. Cardinality(older(c)) <= Cardinality(older(d)) /\ Cardinality(older(c)) \in Nat
      /\ Cardinality(older(d)) \in Nat
  BY <1>1, <1>2, FS_Subset, FS_CardinalityType
<1>4. Cardinality(older(d)) < k
  BY DEF Earliest
<1> HIDE DEF older
<1>5. Cardinality(older(c)) < k
  BY <1>3, <1>4
<1>6. QED
  BY <1>5 DEF Earliest, older

\* The reference candle, if it is there, is where the candles are split; it is one of
\* them, and it holds the reference time.
LEMMA SplitAt ==
    ASSUME NEW candles, AreCandles(candles), NEW ref \in Int
    PROVE  /\ SplitTime(candles, ref) \in Int
           /\ SplitTime(candles, ref) <= ref
           /\ \A c \in candles : Holds(c, ref) => SplitTime(candles, ref) = c.time
           /\ (\A c \in candles : ~Holds(c, ref)) => SplitTime(candles, ref) = ref
<1>1. CASE \E c \in candles : Holds(c, ref)
  <2>1. PICK k \in candles : Holds(k, ref) /\ SplitTime(candles, ref) = k.time
    BY <1>1 DEF SplitTime
  <2>2. k.time \in Int /\ k.time <= ref
    BY <2>1 DEF AreCandles, Holds
  <2>3. ASSUME NEW c \in candles, Holds(c, ref)
        PROVE  c = k
    <3>1. c.time \in Int /\ k.time \in Int /\ Interval \in Int
      BY ChartAssumption DEF AreCandles
    <3>2. ~(c.time + Interval <= k.time) /\ ~(k.time + Interval <= c.time)
      BY <2>1, <2>3, <3>1 DEF Holds
    <3>3. QED
      BY <3>2 DEF AreCandles
  <2>4. QED
    BY <1>1, <2>1, <2>2, <2>3
<1>2. CASE \A c \in candles : ~Holds(c, ref)
  BY <1>2 DEF SplitTime
<1>3. QED
  BY <1>1, <1>2

LEMMA ShownIsFetched ==
    ASSUME NEW r, NEW candles
    PROVE  /\ Shown(r, candles) \subseteq candles
           /\ \A c \in Before(r, candles) : c.time < SplitTime(candles, Reference(r))
           /\ \A c \in After(r, candles) : c.time >= SplitTime(candles, Reference(r))
BY DEF Shown, Before, After, Latest, Earliest

\* The candles before the split are those that had ended by the reference time.
LEMMA SidesOfTheSplit ==
    ASSUME NEW candles, AreCandles(candles), NEW ref \in Int, NEW c \in candles
    PROVE  c.time < SplitTime(candles, ref) <=> c.time + Interval <= ref
<1>1. Interval \in Nat \ {0} /\ c.time \in Int
  BY ChartAssumption DEF AreCandles
<1>2. CASE \E k \in candles : Holds(k, ref)
  <2>1. PICK k \in candles : Holds(k, ref)
    BY <1>2
  <2>2. SplitTime(candles, ref) = k.time /\ k.time \in Int
    BY <2>1, SplitAt DEF AreCandles
  <2>3. k.time <= ref /\ ref < k.time + Interval
    BY <2>1 DEF Holds
  <2>4. c = k \/ c.time + Interval <= k.time \/ k.time + Interval <= c.time
    BY DEF AreCandles
  <2>5. QED
    BY <1>1, <2>2, <2>3, <2>4
<1>3. CASE \A k \in candles : ~Holds(k, ref)
  <2>1. SplitTime(candles, ref) = ref
    BY <1>3, SplitAt
  <2>2. ~(c.time <= ref) \/ ~(ref < c.time + Interval)
    BY <1>3 DEF Holds
  <2>3. QED
    BY <1>1, <2>1, <2>2
<1>4. QED
  BY <1>2, <1>3

\* A chart has no holes of its own making: a stored candle between two shown ones is
\* shown; and of however much was fetched, each candle is on the side of the reference time
\* it belongs to, for any row, interval and set of stored candles (getCandlesAroundTime).
THEOREM ChartsHaveNoHoles == ChartSpec => []NoHoles
<1>1. ASSUME ChartReached
      PROVE  Complete => \A c \in store : \A d, e \in Shown(request, fetched) :
                d.time < c.time /\ c.time < e.time => c \in Shown(request, fetched)
  <2> DEFINE shown == Shown(request, fetched)
             split == SplitTime(fetched, Reference(request))
             earlier == {c \in fetched : c.time < split}
             later == {c \in fetched : c.time >= split}
  <2> SUFFICES ASSUME ChartReached, Complete, NEW c \in store, NEW d \in shown, NEW e \in shown,
                      d.time < c.time, c.time < e.time
               PROVE  c \in shown
    BY <1>1
  <2>1. AreCandles(fetched) /\ fetched \subseteq store
    BY RangeIsStored DEF ChartReached, Complete
  <2>2. Reference(request) \in Int /\ CandlesBefore(request) \in Nat /\ CandlesAfter(request) \in Nat
    BY ChartTypes DEF ChartReached
  <2>3. d \in fetched /\ e \in fetched
    BY ShownIsFetched
  <2>4. c.time \in Int /\ d.time \in Int /\ e.time \in Int /\ split \in Int
    BY <2>1, <2>2, <2>3, SplitAt DEF AreCandles, ChartReached
  <2>5. c \in fetched
    <3>1. Interval \in Int
      BY ChartAssumption
    <3>2. QED
      BY <2>2, <2>3, <2>4, <3>1 DEF Complete, InRange
  <2>6. AreCandles(earlier) /\ AreCandles(later)
    BY <2>1, SomeCandles
  <2>7. CASE c.time < split
    <3>1. d \in Before(request, fetched)
      BY <2>4, <2>7, ShownIsFetched DEF Shown
    <3>2. d \in Latest(CandlesBefore(request), earlier) /\ c \in earlier
      BY <2>5, <2>7, <3>1 DEF Before
    <3>3. c \in Latest(CandlesBefore(request), earlier)
      BY <2>2, <2>4, <2>6, <3>2, LatestIsClosed
    <3>4. QED
      BY <3>3 DEF Shown, Before
  <2>8. CASE ~(c.time < split)
    <3>1. e \in After(request, fetched)
      BY <2>4, <2>8, ShownIsFetched DEF Shown
    <3>2. e \in Earliest(CandlesAfter(request), later) /\ c \in later
      BY <2>4, <2>5, <2>8, <3>1 DEF After
    <3>3. c \in Earliest(CandlesAfter(request), later)
      BY <2>2, <2>4, <2>6, <3>2, EarliestIsClosed
    <3>4. QED
      BY <3>3 DEF Shown, After
  <2>9. QED
    BY <2>7, <2>8
<1>2. ASSUME ChartReached
      PROVE  /\ \A c \in Before(request, fetched) : c.time + Interval <= Reference(request)
             /\ \A c \in After(request, fetched) : c.time + Interval > Reference(request)
  <2>1. AreCandles(fetched) /\ Reference(request) \in Int /\ Interval \in Int
    BY <1>2, FetchedAreCandles, ChartTypes, ChartAssumption DEF ChartReached
  <2>2. SplitTime(fetched, Reference(request)) \in Int
    BY <2>1, SplitAt
  <2>3. \A c \in fetched : c.time \in Int
    BY <2>1 DEF AreCandles
  <2>4. \A c \in fetched : c.time < SplitTime(fetched, Reference(request))
                              <=> c.time + Interval <= Reference(request)
    BY <2>1, SidesOfTheSplit
  <2>5. \A c \in Before(request, fetched) :
            c \in fetched /\ c.time < SplitTime(fetched, Reference(request))
    BY ShownIsFetched DEF Shown
  <2>6. \A c \in After(request, fetched) :
            c \in fetched /\ c.time >= SplitTime(fetched, Reference(request))
    BY ShownIsFetched DEF Shown
  <2>7. QED
    BY <2>1, <2>2, <2>3, <2>4, <2>5, <2>6
<1>3. ChartReached => NoHoles
  BY <1>1, <1>2 DEF NoHoles
<1>4. QED
  BY <1>3, ChartInvariant, PTL

\* Among candles that start by some time there is a last one, and CandleAt is it.
LEMMA CandleAtIsLast ==
    ASSUME NEW candles, AreCandles(candles), NEW time, NEW c \in candles, c.time <= time
    PROVE  /\ CandleAt(candles, time) \in candles
           /\ CandleAt(candles, time).time <= time
           /\ \A d \in candles : d.time <= time => d.time <= CandleAt(candles, time).time
<1> DEFINE past == {d \in candles : d.time <= time}
<1>1. IsFiniteSet(past) /\ past # {} /\ \A d \in past : d.time \in Int
  BY FS_Subset DEF AreCandles
<1>2. PICK R : R = {p \in past \X past : p[1].time < p[2].time}
  OBVIOUS
<1>3. \A x, y \in past : <<x, y>> \in R <=> x.time < y.time
  BY <1>2
<1>4. PICK last \in past : \A d \in past : <<last, d>> \notin R
  <2>1. \A x \in past : <<x, x>> \notin R
    BY <1>1, <1>3
  <2>2. \A x, y, z \in past : (<<x, y>> \in R /\ <<y, z>> \in R) => <<x, z>> \in R
    BY <1>1, <1>3
  <2> HIDE DEF past
  <2>3. QED
    BY <1>1, <2>1, <2>2, Topmost
<1>5. ASSUME NEW d \in past
      PROVE  d.time <= last.time
  <2>1. d.time \in Int /\ last.time \in Int
    BY <1>1
  <2>2. ~(last.time < d.time)
    BY <1>3, <1>4
  <2>3. QED
    BY <2>1, <2>2
<1>6. CandleAt(candles, time) = CHOOSE k \in past : \A d \in past : d.time <= k.time
  BY <1>1 DEF CandleAt
<1> DEFINE at == CHOOSE k \in past : \A d \in past : d.time <= k.time
<1>7. at \in past /\ \A d \in past : d.time <= at.time
  BY <1>5
<1>8. QED
  BY <1>6, <1>7

\* The price search dereferences its match by time even when there is none, and the
\* request fails: never if the candle of the reference time is among those fetched, for any
\* row whose pattern forms before its entry and any part of the other candles
\* (getTradeDetails, findCandleContainingPrice).
THEOREM ThrowsNeedMissingCandle == ChartSpec => []ThrowNeedsMissingCandle
<1>1. ChartReached => ThrowNeedsMissingCandle
  <2> DEFINE r == request
             shown == Shown(r, fetched)
             ref == Reference(r)
             later == {c \in fetched : c.time >= SplitTime(fetched, ref)}
  <2> SUFFICES ASSUME ChartReached, Answer.status = "ERROR", NEW c \in fetched, Holds(c, ref)
               PROVE  FALSE
    BY DEF ThrowNeedsMissingCandle
  <2>1. r.kind = "trade" /\ TradeReply(r, fetched).status = "ERROR"
    BY DEF Answer, PositionReply, ChartReached, IsRequest
  <2>2. PICK time \in {r.entry, r.exit} : time # None /\ PriceSearchThrows(shown, r.price, time)
    BY <2>1, ChartAssumption DEF TradeReply, ChartReached, IsRequest
  <2>3. AreCandles(fetched)
    BY FetchedAreCandles
  <2>4. ref \in Int /\ CandlesBefore(r) \in Nat \ {0} /\ CandlesAfter(r) \in Nat \ {0}
    BY ChartTypes DEF ChartReached
  <2>5. time \in Int /\ ref <= time
    BY <2>1, <2>2 DEF ChartReached, IsRequest, Reference
  <2>6. c.time \in Int /\ c.time <= ref /\ SplitTime(fetched, ref) = c.time
    BY <2>3, <2>4, SplitAt DEF Holds, AreCandles
  <2>7. c \in shown
    <3>1. {d \in later : d.time < c.time} = {}
      BY <2>3, <2>6 DEF AreCandles
    <3>2. Cardinality({d \in later : d.time < c.time}) = 0
      BY <3>1, FS_EmptySet
    <3>3. c \in later
      BY <2>6
    <3>4. PICK k \in Nat \ {0} : k = CandlesAfter(r)
      BY <2>4
    <3>5. c \in Earliest(k, later)
      BY <3>2, <3>3 DEF Earliest
    <3>6. QED
      BY <3>4, <3>5 DEF Shown, After
  <2>8. AreCandles(shown) /\ c.time <= time
    <3>1. shown \in SUBSET fetched
      BY ShownIsFetched
    <3>2. AreCandles(shown)
      BY <2>3, <3>1, SomeCandles
    <3>3. QED
      BY <2>4, <2>5, <2>6, <3>2
  <2>9. CandleAt(shown, time) \in shown
    BY <2>7, <2>8, CandleAtIsLast
  <2>10. QED
    BY <2>2, <2>8, <2>9 DEF PriceSearchThrows, AreCandles
<1>2. QED
  BY <1>1, ChartInvariant, PTL

LEMMA Quotients ==
    ASSUME NEW k \in Nat \ {0}, NEW a \in Int, NEW b \in Int
    PROVE  /\ a \div k \in Int
           /\ a >= 0 => a \div k >= 0
           /\ a + k <= b => a \div k < b \div k
           /\ a <= b => a \div k <= b \div k
OBVIOUS

\* Candles do not overlap, so that only so many start within a time.
LEMMA CandlesWithin ==
    ASSUME NEW candles, AreCandles(candles), NEW from \in Int, NEW c \in candles, from <= c.time
    PROVE  /\ IsFiniteSet({d \in candles : from <= d.time /\ d.time < c.time})
           /\ Cardinality({d \in candles : from <= d.time /\ d.time < c.time})
                <= (c.time - from) \div Interval
<1> DEFINE within == {d \in candles : from <= d.time /\ d.time < c.time}
<1>1. IsFiniteSet(within)
  BY FS_Subset DEF AreCandles
<1>2. Interval \in Nat \ {0} /\ c.time \in Int /\ \A d \in within : d.time \in Int
  BY ChartAssumption DEF AreCandles
<1>3. PICK m \in Nat : m = (c.time - from) \div Interval
  <2>1. c.time - from \in Int /\ c.time - from >= 0
    BY <1>2
  <2>2. (c.time - from) \div Interval \in Int /\ (c.time - from) \div Interval >= 0
    BY <1>2, <2>1, Quotients
  <2>3. QED
    BY <2>2
<1>4. PICK f : f = [d \in within |-> (d.time - from) \div Interval]
  OBVIOUS
<1>5. f \in [within -> 0..(m - 1)]
  <2>1. ASSUME NEW d \in within
        PROVE  (d.time - from) \div Interval \in 0..(m - 1)
    <3>1. d.time - from \in Int /\ d.time - from >= 0
      BY <1>2
    <3>2. d.time + Interval <= c.time
      BY <1>2 DEF AreCandles
    <3>3. (d.time - from) + Interval <= c.time - from
      BY <1>2, <3>2
    <3>4. (d.time - from) \div Interval \in Int /\ (d.time - from) \div Interval >= 0
      BY <1>2, <3>1, Quotients
    <3>5. (d.time - from) \div Interval < (c.time - from) \div Interval
      BY <1>2, <3>1, <3>3, Quotients
    <3>6. QED
      BY <1>3, <3>4, <3>5
  <2>2. QED
    BY <1>4, <2>1
<1>6. ASSUME NEW d \in within, NEW e \in within, d # e
      PROVE  f[d] # f[e]
  <2>1. d.time + Interval <= e.time \/ e.time + Interval <= d.time
    BY <1>6 DEF AreCandles
  <2>2. d.time - from \in Int /\ e.time - from \in Int
    BY <1>2
  <2>3. CASE d.time + Interval <= e.time
    <3>1. (d.time - from) + Interval <= e.time - from
      BY <1>2, <2>3
    <3>2. (d.time - from) \div Interval < (e.time - from) \div Interval
      BY <1>2, <2>2, <3>1, Quotients
    <3>3. f[d] < f[e] /\ f[d] \in Int /\ f[e] \in Int
      BY <1>4, <1>5, <3>2
    <3>4. QED
      BY <3>3
  <2>4. CASE e.time + Interval <= d.time
    <3>1. (e.time - from) + Interval <= d.time - from
      BY <1>2, <2>4
    <3>2. (e.time - from) \div Interval < (d.time - from) \div Interval
      BY <1>2, <2>2, <3>1, Quotients
    <3>3. f[e] < f[d] /\ f[d] \in Int /\ f[e] \in Int
      BY <1>4, <1>5, <3>2
    <3>4. QED
      BY <3>3
  <2>5. QED
    BY <2>1, <2>3, <2>4
<1>7. f \in Injection(within, 0..(m - 1))
  BY <1>5, <1>6 DEF Injection, IsInjective
<1>8. Cardinality(within) <= Cardinality(0..(m - 1)) /\ Cardinality(0..(m - 1)) = m
  <2>1. IsFiniteSet(0..(m - 1)) /\ Cardinality(0..(m - 1)) = m
    BY FS_Interval
  <2>2. QED
    BY <1>7, <2>1, FS_Injection
<1>9. QED
  BY <1>1, <1>3, <1>8

\* How many candles a lifecycle asks for, and that they reach the exit.
LEMMA LifecycleReaches ==
    ASSUME NEW r, IsRequest(r), ShowsLifecycle(r), CandlesBetween(r.entry, r.exit) < MaxAfter
    PROVE  /\ r.entry \in Int /\ r.exit \in Int /\ r.entry < r.exit /\ Reference(r) = r.entry
           /\ CandlesBetween(r.entry, r.exit) \in Nat
           /\ CandlesBetween(r.entry, r.exit) < CandlesAfter(r)
           /\ r.exit <= r.entry + CandlesAfter(r) * Interval
<1> DEFINE n == CandlesBetween(r.entry, r.exit)
<1>1. r.entry \in Int /\ r.exit \in Int /\ r.entry < r.exit /\ Reference(r) = r.entry
  BY DEF IsRequest, ShowsLifecycle, Reference
<1>2. Interval \in Nat \ {0}
  BY ChartAssumption
<1>3. n \in Nat /\ r.exit - r.entry <= n * Interval
  <2>1. r.exit - r.entry + Interval - 1 \in Nat
    BY <1>1, <1>2
  <2>2. PICK x \in Nat : x = r.exit - r.entry + Interval - 1
    BY <2>1
  <2>3. x \div Interval \in Nat /\ x < (x \div Interval) * Interval + Interval
    BY <1>2
  <2>4. n = x \div Interval
    BY <2>2 DEF CandlesBetween
  <2>5. PICK y \in Nat : y = (x \div Interval) * Interval
    BY <1>2, <2>3
  <2>6. r.exit - r.entry <= y
    BY <1>1, <1>2, <2>2, <2>3, <2>5
  <2>7. QED
    BY <2>3, <2>4, <2>5, <2>6
<1>4. n < CandlesAfter(r) /\ CandlesAfter(r) \in Nat
  <2>1. n < Smaller(n + MinBuffer, MaxAfter) /\ Smaller(n + MinBuffer, MaxAfter) \in Nat
    BY <1>3, ChartAssumption DEF Smaller
  <2>2. r.after \in Nat /\ r.kind = "position"
    BY DEF IsRequest, ShowsLifecycle
  <2>3. CandlesAfter(r) = Larger(r.after, Smaller(n + MinBuffer, MaxAfter))
    BY <2>2 DEF CandlesAfter
  <2> HIDE DEF n
  <2>4. QED
    BY <1>3, <2>1, <2>2, <2>3 DEF Larger
<1>5. n * Interval <= CandlesAfter(r) * Interval
      /\ n * Interval \in Nat /\ CandlesAfter(r) * Interval \in Nat
  BY <1>2, <1>3, <1>4
<1>6. QED
  BY <1>1, <1>3, <1>4, <1>5

\* Within the cap, the chart of a closed position reaches its exit: if the candle of the
\* exit time is stored, it is in the answer and carries the marker, whatever other candles
\* are missing and wherever the entry lies in its own (getPositionChartData).
THEOREM ExitsAreOnChart == ChartSpec => []ExitOnChart
<1>1. ChartReached => ExitOnChart
  <2> DEFINE r == request
             shown == Shown(r, fetched)
             split == SplitTime(fetched, r.entry)
             later == {d \in fetched : d.time >= split}
  <2> SUFFICES ASSUME ChartReached, Complete, ShowsLifecycle(r),
                      CandlesBetween(r.entry, r.exit) < MaxAfter,
                      NEW c \in store, Holds(c, r.exit)
               PROVE  c \in Answer.after /\ Answer.exit = c
    BY DEF ExitOnChart
  <2>1. AreCandles(fetched) /\ fetched \subseteq store
    BY RangeIsStored DEF ChartReached, Complete
  <2>2. /\ r.entry \in Int /\ r.exit \in Int /\ r.entry < r.exit /\ Reference(r) = r.entry
        /\ CandlesBetween(r.entry, r.exit) \in Nat
        /\ CandlesBetween(r.entry, r.exit) < CandlesAfter(r)
        /\ r.exit <= r.entry + CandlesAfter(r) * Interval
    BY LifecycleReaches DEF ChartReached
  <2>3. /\ Interval \in Nat \ {0} /\ c.time \in Int
        /\ c.time <= r.exit /\ r.exit < c.time + Interval
    BY ChartAssumption DEF ChartReached, AreCandles, Holds
  <2>4. CandlesBefore(r) \in Nat \ {0} /\ CandlesAfter(r) \in Nat
    BY ChartTypes DEF ChartReached
  <2>5. c \in fetched
    <3>1. Interval <= CandlesBefore(r) * Interval /\ CandlesBefore(r) * Interval \in Int
          /\ CandlesAfter(r) * Interval \in Int
      BY <2>3, <2>4
    <3>2. r.entry - CandlesBefore(r) * Interval <= c.time
          /\ c.time <= r.entry + CandlesAfter(r) * Interval
      BY <2>2, <2>3, <3>1
    <3>3. QED
      BY <2>2, <3>2 DEF Complete, InRange
  <2>6. split \in Int /\ split <= c.time /\ c.time - split <= r.exit - r.entry + Interval - 1
    <3>1. CASE \E k \in fetched : Holds(k, r.entry)
      <4>1. PICK k \in fetched : Holds(k, r.entry)
        BY <3>1
      <4>2. split = k.time /\ k.time \in Int /\ k.time <= r.entry /\ r.entry < k.time + Interval
        BY <2>1, <2>2, <4>1, SplitAt DEF AreCandles, Holds
      <4>3. ~(c.time + Interval <= k.time)
        BY <2>2, <2>3, <4>2
      <4>4. c = k \/ k.time + Interval <= c.time
        BY <2>1, <2>5, <4>3 DEF AreCandles
      <4>5. QED
        BY <2>2, <2>3, <4>2, <4>4
    <3>2. CASE \A k \in fetched : ~Holds(k, r.entry)
      <4>1. split = r.entry
        BY <2>1, <2>2, <3>2, SplitAt
      <4>2. ~(c.time <= r.entry)
        BY <2>2, <2>3, <2>5, <3>2 DEF Holds
      <4>3. QED
        BY <2>2, <2>3, <4>1, <4>2
    <3>3. QED
      BY <3>1, <3>2
  <2>7. c \in After(r, fetched)
    <3>1. {d \in later : d.time < c.time} = {d \in fetched : split <= d.time /\ d.time < c.time}
      BY <2>1, <2>3, <2>6 DEF AreCandles
    <3>2. /\ Cardinality({d \in later : d.time < c.time}) <= (c.time - split) \div Interval
          /\ Cardinality({d \in later : d.time < c.time}) \in Nat
      BY <2>1, <2>5, <2>6, <3>1, CandlesWithin, FS_CardinalityType
    <3>3. (c.time - split) \div Interval <= CandlesBetween(r.entry, r.exit)
      <4>1. c.time - split \in Int /\ r.exit - r.entry + Interval - 1 \in Int
        BY <2>2, <2>3, <2>6
      <4>2. QED
        BY <2>3, <2>6, <4>1, Quotients DEF CandlesBetween
    <3>4. (c.time - split) \div Interval \in Int
      BY <2>3, <2>6
    <3>5. Cardinality({d \in later : d.time < c.time}) < CandlesAfter(r)
      BY <2>2, <2>4, <3>2, <3>3, <3>4
    <3>6. c \in later
      BY <2>3, <2>5, <2>6
    <3>7. c \in Earliest(CandlesAfter(r), later)
      BY <3>5, <3>6 DEF Earliest
    <3>8. QED
      BY <2>2, <3>7 DEF After
  <2>8. CandleAt(shown, r.exit) = c
    <3>1. shown \in SUBSET fetched
      BY ShownIsFetched
    <3>2. AreCandles(shown)
      BY <2>1, <3>1, SomeCandles
    <3>3. c \in shown
      BY <2>7 DEF Shown
    <3>4. /\ CandleAt(shown, r.exit) \in shown
          /\ CandleAt(shown, r.exit).time <= r.exit
          /\ c.time <= CandleAt(shown, r.exit).time
      BY <2>3, <3>2, <3>3, CandleAtIsLast
    <3>5. PICK at \in shown : at = CandleAt(shown, r.exit)
      BY <3>4
    <3>6. at.time \in Int /\ ~(c.time + Interval <= at.time) /\ ~(at.time + Interval <= c.time)
      BY <2>2, <2>3, <3>2, <3>4, <3>5 DEF AreCandles
    <3>7. at = c
      BY <3>2, <3>3, <3>6 DEF AreCandles
    <3>8. QED
      BY <3>5, <3>7
  <2>9. QED
    BY <2>2, <2>7, <2>8, ChartAssumption DEF Answer, PositionReply, ShowsLifecycle
<1>2. QED
  BY <1>1, ChartInvariant, PTL

---------------------------------------------------------------------------
(* Figures.                                                                *)

Granularities == {"HOURLY", "TWELVE_HOURLY", "DAILY", "WEEKLY"}

\* An answer is the one computed for what was asked.
FiguresReached ==
    /\ IsCase(asked)
    /\ answer # Null =>
          \/ /\ asked.kind = "chart"
             /\ answer = [chart |-> EquityChart(asked.initial, asked.trades),
                          summary |-> TradesSummary(asked.trades)]
          \/ /\ asked.kind = "snapshots"
             /\ answer = [g \in Granularities |->
                            IF asked.snapshots = {} THEN {asked.created, asked.now}
                            ELSE Aggregate(asked.snapshots, g)]
          \/ /\ asked.kind = "window"
             /\ answer = [f \in {"1d", "1w", "1m", "3m", "1y", "all"} |->
                            StartDate(f, asked.now, asked.start, asked.created)]

LEMMA FiguresInvariant == PerformanceSpec => []FiguresReached
<1>1. PerformanceInit => FiguresReached
  BY PerformanceAssumption DEF PerformanceInit, FiguresReached
<1>2. FiguresReached /\ [PerformanceNext]_performanceVars => FiguresReached'
  <2> SUFFICES ASSUME FiguresReached, [PerformanceNext]_performanceVars
               PROVE  FiguresReached'
    OBVIOUS
  <2>1. CASE AnswerChart
    BY <2>1 DEF AnswerChart, FiguresReached
  <2>2. CASE AnswerSnapshots
    BY <2>2 DEF AnswerSnapshots, FiguresReached, Granularities
  <2>3. CASE AnswerWindow
    BY <2>3 DEF AnswerWindow, FiguresReached
  <2>4. CASE UNCHANGED performanceVars
    BY <2>4 DEF performanceVars, FiguresReached
  <2>5. QED
    BY <2>1, <2>2, <2>3, <2>4 DEF PerformanceNext
<1>3. QED
  BY <1>1, <1>2, PTL DEF PerformanceSpec

\* The snapshots of a coarser period that stay are among those of a finer one.
LEMMA CoarserLeavesOut ==
    ASSUME NEW snapshots \in SUBSET Nat
    PROVE  /\ Aggregate(snapshots, "WEEKLY") \subseteq Aggregate(snapshots, "DAILY")
           /\ Aggregate(snapshots, "DAILY") \subseteq Aggregate(snapshots, "TWELVE_HOURLY")
           /\ Aggregate(snapshots, "TWELVE_HOURLY") \subseteq Aggregate(snapshots, "HOURLY")
<1>1. ASSUME NEW t \in snapshots, NEW u \in snapshots, GroupKey("DAILY", u) = GroupKey("DAILY", t)
      PROVE  GroupKey("WEEKLY", u) = GroupKey("WEEKLY", t)
  <2>1. Day(u) = Day(t)
    BY <1>1 DEF GroupKey
  <2>2. QED
    BY <2>1 DEF GroupKey, MondayOf
<1>2. ASSUME NEW t \in snapshots, NEW u \in snapshots,
             GroupKey("TWELVE_HOURLY", u) = GroupKey("TWELVE_HOURLY", t)
      PROVE  GroupKey("DAILY", u) = GroupKey("DAILY", t)
  BY <1>2 DEF GroupKey
<1>3. ASSUME NEW t \in snapshots, NEW u \in snapshots, GroupKey("HOURLY", u) = GroupKey("HOURLY", t)
      PROVE  u <= t
  BY <1>3 DEF GroupKey
<1>4. QED
  BY <1>1, <1>2, <1>3 DEF Aggregate

\* Every granularity ends with the newest snapshot, so that all report the same end
\* balance, and a coarser one only leaves points out, for any snapshots and any length of
\* a day (aggregateSnapshots).
THEOREM GranularitiesEndAlike == PerformanceSpec => []GranularitiesAgree
<1>1. FiguresReached => GranularitiesAgree
  <2> SUFFICES ASSUME FiguresReached, Answered("snapshots")
               PROVE  /\ \A g \in DOMAIN answer : \A t \in asked.snapshots :
                            \E u \in answer[g] : u >= t
                      /\ answer["WEEKLY"] \subseteq answer["DAILY"]
                      /\ answer["DAILY"] \subseteq answer["TWELVE_HOURLY"]
                      /\ answer["TWELVE_HOURLY"] \subseteq answer["HOURLY"]
    BY DEF GranularitiesAgree
  <2>1. asked.snapshots \in SUBSET Nat /\ IsFiniteSet(asked.snapshots)
    BY DEF FiguresReached, Answered, IsCase
  <2>2. answer = [g \in Granularities |->
                     IF asked.snapshots = {} THEN {asked.created, asked.now}
                     ELSE Aggregate(asked.snapshots, g)]
    BY DEF FiguresReached, Answered
  <2>3. ASSUME NEW g \in Granularities, NEW t \in asked.snapshots
        PROVE  \E u \in answer[g] : u >= t
    <3> DEFINE group == {u \in asked.snapshots : GroupKey(g, u) = GroupKey(g, t)}
    <3>1. group \in SUBSET Int /\ IsFiniteSet(group) /\ t \in group
      BY <2>1, FS_Subset
    <3>2. PICK last \in group : \A u \in group : u <= last
      BY <3>1, Greatest
    <3>3. last \in Aggregate(asked.snapshots, g) /\ last >= t
      BY <2>1, <3>1, <3>2 DEF Aggregate
    <3>4. QED
      BY <2>2, <3>3
  <2>4. CASE asked.snapshots = {}
    BY <2>2, <2>3, <2>4 DEF Granularities
  <2>5. CASE asked.snapshots # {}
    <3>1. \A g \in Granularities : answer[g] = Aggregate(asked.snapshots, g)
      BY <2>2, <2>5
    <3>2. QED
      BY <2>1, <2>2, <2>3, <3>1, CoarserLeavesOut DEF Granularities
  <2>6. QED
    BY <2>4, <2>5
<1>2. QED
  BY <1>1, FiguresInvariant, PTL

DaysUntil(year, month) ==
    LET feb == DaysIn(year, 2) IN
    CASE month = 1 -> 0
      [] month = 2 -> 31
      [] month = 3 -> 31 + feb
      [] month = 4 -> 62 + feb
      [] month = 5 -> 92 + feb
      [] month = 6 -> 123 + feb
      [] month = 7 -> 153 + feb
      [] month = 8 -> 184 + feb
      [] month = 9 -> 215 + feb
      [] month = 10 -> 245 + feb
      [] month = 11 -> 276 + feb
      [] month = 12 -> 306 + feb

DaysBefore(year) ==
    365 * year + (year - 1) \div 4 - (year - 1) \div 100 + (year - 1) \div 400

\* The days of a year before a month: the recursive function of DayNumber has a solution.
LEMMA DayNumbers ==
    ASSUME NEW year \in Int, NEW month \in 1..12, NEW day \in Int
    PROVE  DayNumber(year, month, day) = DaysBefore(year) + DaysUntil(year, month) + day
<1> DEFINE Sums(f) == [m \in 1..12 |-> IF m = 1 THEN 0 ELSE f[m - 1] + DaysIn(year, m - 1)]
<1>1. PICK feb \in Int : feb = DaysIn(year, 2)
  BY DEF DaysIn
<1>2. /\ DaysIn(year, 1) = 31 /\ DaysIn(year, 3) = 31 /\ DaysIn(year, 4) = 30
      /\ DaysIn(year, 5) = 31 /\ DaysIn(year, 6) = 30 /\ DaysIn(year, 7) = 31
      /\ DaysIn(year, 8) = 31 /\ DaysIn(year, 9) = 30 /\ DaysIn(year, 10) = 31
      /\ DaysIn(year, 11) = 30
  BY DEF DaysIn
<1>3. PICK g : g = [m \in 1..12 |-> DaysUntil(year, m)]
  OBVIOUS
<1>4. g = Sums(g)
  <2>1. ASSUME NEW m \in 1..12
        PROVE  g[m] = IF m = 1 THEN 0 ELSE g[m - 1] + DaysIn(year, m - 1)
    <3>1. m \in {1, 2, 3, 4, 5, 6, 7, 8, 9, 10, 11, 12}
      OBVIOUS
    <3>2. QED
      BY <1>1, <1>2, <1>3, <3>1 DEF DaysUntil
  <2>2. g = [m \in 1..12 |-> g[m]]
    BY <1>3
  <2>3. QED
    BY <2>1, <2>2
<1> DEFINE before == CHOOSE f : f = Sums(f)
<1>5. before = Sums(before)
  BY <1>4
<1> HIDE DEF before
<1>6. before[month] = DaysUntil(year, month)
  <2>1. \A m \in 2..12 : before[m] = before[m - 1] + DaysIn(year, m - 1)
    BY <1>5
  <2>2. before[1] = 0
    BY <1>5
  <2>3. before[2] = 31 /\ before[3] = 31 + feb
    BY <1>1, <1>2, <2>1, <2>2
  <2>4. before[4] = 62 + feb /\ before[5] = 92 + feb
    BY <1>1, <1>2, <2>1, <2>3
  <2>5. before[6] = 123 + feb /\ before[7] = 153 + feb
    BY <1>1, <1>2, <2>1, <2>4
  <2>6. before[8] = 184 + feb /\ before[9] = 215 + feb
    BY <1>1, <1>2, <2>1, <2>5
  <2>7. before[10] = 245 + feb /\ before[11] = 276 + feb
    BY <1>1, <1>2, <2>1, <2>6
  <2>8. before[12] = 306 + feb
    BY <1>1, <1>2, <2>1, <2>7
  <2>9. month \in {1, 2, 3, 4, 5, 6, 7, 8, 9, 10, 11, 12}
    OBVIOUS
  <2>10. QED
    BY <1>1, <2>2, <2>3, <2>4, <2>5, <2>6, <2>7, <2>8, <2>9 DEF DaysUntil
<1>7. QED
  BY <1>6 DEF DayNumber, DaysBefore, before

LEMMA DaysUntilType ==
    ASSUME NEW year \in Int, NEW month \in 1..12
    PROVE  DaysUntil(year, month) \in Int
<1>1. PICK feb \in Int : feb = DaysIn(year, 2)
  BY DEF DaysIn
<1>2. month \in {1, 2, 3, 4, 5, 6, 7, 8, 9, 10, 11, 12}
  OBVIOUS
<1>3. QED
  BY <1>1, <1>2 DEF DaysUntil

\* A year is as long as its February makes it.
LEMMA YearLengths ==
    ASSUME NEW y \in Int, NEW next \in Int, next = y + 1
    PROVE  DaysBefore(next) - DaysBefore(y) = 337 + DaysIn(y, 2)
<1>1. /\ y \div 4 - (y - 1) \div 4 = IF y % 4 = 0 THEN 1 ELSE 0
      /\ y \div 100 - (y - 1) \div 100 = IF y % 100 = 0 THEN 1 ELSE 0
      /\ y \div 400 - (y - 1) \div 400 = IF y % 400 = 0 THEN 1 ELSE 0
  OBVIOUS
<1>2. (y % 400 = 0 => y % 100 = 0) /\ (y % 100 = 0 => y % 4 = 0)
  OBVIOUS
<1>3. (y \div 4 - (y - 1) \div 4) - (y \div 100 - (y - 1) \div 100)
        + (y \div 400 - (y - 1) \div 400) + 28 = DaysIn(y, 2)
  <2>1. DaysIn(y, 2) = IF IsLeap(y) THEN 29 ELSE 28
    BY DEF DaysIn
  <2>2. CASE IsLeap(y)
    BY <1>1, <1>2, <2>1, <2>2 DEF IsLeap
  <2>3. CASE ~IsLeap(y)
    BY <1>1, <1>2, <2>1, <2>3 DEF IsLeap
  <2>4. QED
    BY <2>2, <2>3
<1>4. DaysIn(y, 2) \in Int
  BY DEF DaysIn
<1>5. next - 1 = y
  OBVIOUS
<1>6. QED
  BY <1>3, <1>4, <1>5 DEF DaysBefore

LEMMA DaysBeforeType ==
    ASSUME NEW year \in Int
    PROVE  DaysBefore(year) \in Int
BY DEF DaysBefore

LEMMA DayNumberType ==
    ASSUME NEW year \in Int, NEW month \in 1..12, NEW day \in Int
    PROVE  DayNumber(year, month, day) \in Int
<1>1. PICK until \in Int : until = DaysUntil(year, month)
  BY DaysUntilType
<1>2. QED
  BY <1>1, DayNumbers, DaysBeforeType

LEMMA MonthsBackType ==
    ASSUME NEW year \in Int, NEW month \in 1..12, NEW day \in Int, NEW months \in 1..3
    PROVE  MonthsBack(year, month, day, months) \in Int
<1>1. CASE month - months >= 1
  <2>1. month - months \in 1..12
    BY <1>1
  <2>2. QED
    BY <1>1, <2>1, DayNumberType DEF MonthsBack
<1>2. CASE ~(month - months >= 1)
  <2>1. month - months + 12 \in 1..12 /\ year - 1 \in Int
    BY <1>2
  <2>2. DayNumber(year - 1, month - months + 12, day) \in Int
    BY <2>1, DayNumberType
  <2>3. QED
    BY <1>2, <2>2 DEF MonthsBack
<1>3. QED
  BY <1>1, <1>2

\* A month that ends early makes a date run over, so that a time frame of months may start
\* days late: never by more than the month was short, and never too early, for every date
\* of every year, with or without midnight between the readings of the clock that no month
\* ends with (getPortfolioPerformance's Date.setDate, setMonth and setFullYear).
THEOREM WindowsHaveTheirLength == PerformanceSpec => []WindowsKeepTheirLength
<1>1. FiguresReached => WindowsKeepTheirLength
  <2> DEFINE asOf == asked.now.year
             m == asked.now.month
             date == asked.start.day
             now == DayNumber(asOf, m, asked.now.day)
             today == DayNumber(asOf, m, date)
  <2> SUFFICES ASSUME FiguresReached, Answered("window"),
                      asked.start.year = asOf, asked.start.month = m
               PROVE  /\ now - answer["1d"] = 1 /\ now - answer["1w"] = 7
                      /\ (now - answer["1m"]) + (today - now) \in 28..31
                      /\ (now - answer["3m"]) + (today - now) \in 89..92
                      /\ (now - answer["1y"]) + (today - now) \in 365..366
    BY DEF WindowsKeepTheirLength, DaysAfter
  <2>1. asOf \in Int /\ m \in 1..12 /\ date \in Int /\ asked.now.day \in Int
    BY DEF FiguresReached, Answered, IsCase, IsDate
  <2>2. /\ answer["1d"] = now - 1 /\ answer["1w"] = now - 7
        /\ answer["1m"] = MonthsBack(asOf, m, date, 1)
        /\ answer["3m"] = MonthsBack(asOf, m, date, 3)
        /\ answer["1y"] = DayNumber(asOf - 1, m, date)
    BY DEF FiguresReached, Answered, StartDate
  <2>3. PICK feb \in 28..29 : feb = DaysIn(asOf, 2)
    BY DEF DaysIn
  <2>4. PICK before \in Int : before = asOf - 1
    BY <2>1
  <2>5. PICK last \in 28..29 : last = DaysIn(before, 2)
    BY DEF DaysIn
  <2>6. m \in {1, 2, 3, 4, 5, 6, 7, 8, 9, 10, 11, 12}
    BY <2>1
  <2>7. ASSUME NEW n \in 1..12
        PROVE  /\ today - DayNumber(asOf, n, date) = DaysUntil(asOf, m) - DaysUntil(asOf, n)
               /\ today - DayNumber(before, n, date)
                    = 337 + last + DaysUntil(asOf, m) - DaysUntil(before, n)
    <3> HIDE DEF asOf, m, date
    <3>1. /\ today = DaysBefore(asOf) + DaysUntil(asOf, m) + date
          /\ DayNumber(asOf, n, date) = DaysBefore(asOf) + DaysUntil(asOf, n) + date
          /\ DayNumber(before, n, date) = DaysBefore(before) + DaysUntil(before, n) + date
      BY <2>1, DayNumbers
    <3>2. DaysBefore(asOf) - DaysBefore(before) = 337 + last
      BY <2>1, <2>4, <2>5, YearLengths
    <3>3. /\ DaysUntil(asOf, m) \in Int /\ DaysUntil(asOf, n) \in Int
          /\ DaysUntil(before, n) \in Int
          /\ DaysBefore(asOf) \in Int /\ DaysBefore(before) \in Int
      BY <2>1, DaysUntilType, DaysBeforeType
    <3> HIDE DEF today
    <3>4. QED
      BY <2>1, <3>1, <3>2, <3>3
  <2> HIDE DEF asOf, m, date, now, today
  <2>8. today - answer["1m"] \in 28..31
    <3>1. CASE m >= 2
      <4>1. answer["1m"] = DayNumber(asOf, m - 1, date) /\ m - 1 \in 1..12
        BY <2>1, <2>2, <3>1 DEF MonthsBack
      <4>2. QED
        BY <2>3, <2>6, <2>7, <3>1, <4>1 DEF DaysUntil
    <3>2. CASE m = 1
      <4>1. answer["1m"] = DayNumber(before, 12, date)
        BY <2>1, <2>2, <2>4, <3>2 DEF MonthsBack
      <4>2. QED
        BY <2>5, <2>7, <3>2, <4>1 DEF DaysUntil
    <3>3. QED
      BY <2>6, <3>1, <3>2
  <2>9. today - answer["3m"] \in 89..92
    <3>1. CASE m >= 4
      <4>1. answer["3m"] = DayNumber(asOf, m - 3, date) /\ m - 3 \in 1..12
        BY <2>1, <2>2, <3>1 DEF MonthsBack
      <4>2. QED
        BY <2>3, <2>6, <2>7, <3>1, <4>1 DEF DaysUntil
    <3>2. CASE m \in {1, 2, 3}
      <4>1. answer["3m"] = DayNumber(before, m + 9, date) /\ m + 9 \in 1..12
        BY <2>1, <2>2, <2>4, <3>2 DEF MonthsBack
      <4>2. QED
        BY <2>3, <2>5, <2>7, <3>2, <4>1 DEF DaysUntil
    <3>3. QED
      BY <2>6, <3>1, <3>2
  <2>10. today - answer["1y"] \in 365..366
    <3>1. answer["1y"] = DayNumber(before, m, date)
      BY <2>2, <2>4
    <3>2. QED
      BY <2>1, <2>3, <2>5, <2>6, <2>7, <3>1 DEF DaysUntil
  <2>11. now \in Int /\ today \in Int
    BY <2>1, DayNumberType DEF now, today
  <2>12. answer["1m"] \in Int /\ answer["3m"] \in Int /\ answer["1y"] \in Int
    <3>1. asOf - 1 \in Int /\ (m >= 2 => m - 1 \in 1..12) /\ (m = 1 => m - 1 + 12 \in 1..12)
          /\ (m >= 4 => m - 3 \in 1..12) /\ (m \in {1, 2, 3} => m - 3 + 12 \in 1..12)
      BY <2>1
    <3>2. \A n \in 1..3 : MonthsBack(asOf, m, date, n) \in Int
      BY <2>1, MonthsBackType, Zenon
    <3>3. MonthsBack(asOf, m, date, 1) \in Int /\ MonthsBack(asOf, m, date, 3) \in Int
      BY <3>2
    <3>4. DayNumber(asOf - 1, m, date) \in Int
      BY <2>1, <3>1, DayNumberType
    <3>5. QED
      BY <2>2, <3>2, <3>3, <3>4
  <2>13. QED
    BY <2>2, <2>8, <2>9, <2>10, <2>11, <2>12
<1>2. QED
  BY <1>1, FiguresInvariant, PTL

\* Leaving out the open trades leaves a sequence of trades.
LEMMA CompletedType ==
    ASSUME NEW T, NEW trades \in Seq(T)
    PROVE  CompletedTrades(trades) \in Seq(T)
<1> DEFINE n == Len(trades)
           Kept(f) == [i \in 0..n |->
                         IF i = 0 THEN << >>
                         ELSE IF trades[i].exit = Null THEN f[i - 1]
                              ELSE Append(f[i - 1], trades[i])]
<1>1. n \in Nat /\ \A i \in 1..n : trades[i] \in T
  OBVIOUS
<1>2. \E f : f = Kept(f)
  <2>1. PICK S, none : S = Seq(T) /\ none = << >>
    OBVIOUS
  <2>2. PICK G : G = [p \in (1..n) \X S |->
                        IF trades[p[1]].exit = Null THEN p[2] ELSE Append(p[2], trades[p[1]])]
    OBVIOUS
  <2>3. ASSUME NEW i \in 1..n, NEW s \in S
        PROVE  /\ G[<<i, s>>] = IF trades[i].exit = Null THEN s ELSE Append(s, trades[i])
               /\ G[<<i, s>>] \in S
    BY <1>1, <2>1, <2>2
  <2>4. IsStep(G, n, S) /\ none \in S
    BY <2>1, <2>2, <2>3 DEF IsStep
  <2> HIDE DEF n
  <2>5. PICK f : Follows(f, n, S, none, G)
    BY <1>1, <2>4, StepByStep
  <2>6. ASSUME NEW i \in 0..n
        PROVE  f[i] = IF i = 0 THEN << >>
                      ELSE IF trades[i].exit = Null THEN f[i - 1] ELSE Append(f[i - 1], trades[i])
    <3>1. CASE i = 0
      BY <2>1, <2>5, <3>1 DEF Follows
    <3>2. CASE i \in 1..n
      <4>1. f[i - 1] \in S
        BY <1>1, <2>5, <3>2 DEF Follows
      <4>2. f[i] = G[<<i, f[i - 1]>>]
        BY <2>5, <3>2 DEF Follows
      <4>3. QED
        BY <2>3, <3>2, <4>1, <4>2
    <3>3. QED
      BY <1>1, <3>1, <3>2
  <2>7. f = [i \in 0..n |-> f[i]]
    BY <2>5 DEF Follows
  <2>8. QED
    BY <2>6, <2>7 DEF n
<1> DEFINE kept == CHOOSE f : f = Kept(f)
<1>3. kept = Kept(kept)
  BY <1>2
<1> HIDE DEF kept
<1> DEFINE P == {i \in Nat : i <= n => kept[i] \in Seq(T)}
<1>4. P = Nat
  <2>1. 0 \in P
    BY <1>1, <1>3
  <2>2. ASSUME NEW i \in P
        PROVE  i + 1 \in P
    <3> SUFFICES ASSUME i + 1 <= n
                 PROVE  kept[i + 1] \in Seq(T)
      OBVIOUS
    <3>1. kept[i] \in Seq(T)
      BY <1>1
    <3>2. kept[i + 1] = IF trades[i + 1].exit = Null THEN kept[i]
                        ELSE Append(kept[i], trades[i + 1])
      <4>1. i + 1 \in 0..n /\ i + 1 # 0 /\ (i + 1) - 1 = i
        BY <1>1
      <4>2. QED
        BY <1>3, <4>1
    <3>3. QED
      BY <1>1, <3>1, <3>2
  <2>3. P \in SUBSET Nat
    OBVIOUS
  <2> HIDE DEF P
  <2>4. QED
    BY <2>1, <2>2, <2>3, Induct
<1>5. kept[n] \in Seq(T)
  BY <1>1, <1>4
<1>6. QED
  BY <1>5 DEF CompletedTrades, kept

Fraction == [drop : Int, of : Nat \ {0}]

LEMMA MoreIsTransitive ==
    ASSUME NEW d \in Fraction, NEW e \in Fraction, NEW f \in Fraction
    PROVE  /\ ~IsMore(d, d)
           /\ IsMore(d, e) => ~IsMore(e, d)
           /\ ~IsMore(d, e) /\ ~IsMore(e, f) => ~IsMore(d, f)
<1>1. ASSUME NEW a \in Int, NEW b \in Int, NEW c \in Int,
             NEW p \in Nat \ {0}, NEW q \in Nat \ {0}, NEW r \in Nat \ {0},
             ~(a * q > b * p), ~(b * r > c * q)
      PROVE  ~(a * r > c * p)
  <2>1. a * q <= b * p /\ b * r <= c * q
    BY <1>1
  <2>2. a * r <= c * p
    BY <2>1
  <2>3. QED
    BY <2>2
<1>2. /\ d.drop \in Int /\ e.drop \in Int /\ f.drop \in Int
      /\ d.of \in Nat \ {0} /\ e.of \in Nat \ {0} /\ f.of \in Nat \ {0}
  BY DEF Fraction
<1>3. ~IsMore(d, e) /\ ~IsMore(e, f) => ~IsMore(d, f)
  BY <1>1, <1>2 DEF IsMore
<1>4. ~IsMore(d, d) /\ (IsMore(d, e) => ~IsMore(e, d))
  BY <1>2 DEF IsMore
<1>5. QED
  BY <1>3, <1>4

\* The higher the peak, the worse the fall to the same balance, which is not negative.
LEMMA HigherPeakFallsMore ==
    ASSUME NEW balance \in Nat, NEW peak \in Nat \ {0}, NEW higher \in Nat, peak <= higher
    PROVE  /\ Percent(peak, balance) \in Fraction /\ Percent(higher, balance) \in Fraction
           /\ ~IsMore(Percent(peak, balance), Percent(higher, balance))
<1>1. /\ Percent(peak, balance) = [drop |-> peak - balance, of |-> peak]
      /\ Percent(higher, balance) = [drop |-> higher - balance, of |-> higher]
  BY DEF Percent
<1>2. (peak - balance) * higher <= (higher - balance) * peak
  OBVIOUS
<1>3. (peak - balance) * higher \in Int /\ (higher - balance) * peak \in Int
  OBVIOUS
<1>4. ~((peak - balance) * higher > (higher - balance) * peak)
  BY <1>2, <1>3
<1>5. QED
  BY <1>1, <1>4 DEF IsMore, Fraction

Tracked == [peak : Nat, worst : Fraction]

\* One step of the loop over the trades: the new peak and the new worst fall.
Advance(after, balance) ==
    LET peak == IF balance > after.peak THEN balance ELSE after.peak
        drawdown == Percent(peak, balance)
    IN  [peak |-> peak,
         worst |-> IF IsMore(drawdown, after.worst) THEN drawdown ELSE after.worst]

LEMMA AdvanceType ==
    ASSUME NEW after \in Tracked, NEW balance \in Nat
    PROVE  Advance(after, balance) \in Tracked
<1>1. PICK peak \in Nat : peak = IF balance > after.peak THEN balance ELSE after.peak
  BY DEF Tracked
<1>2. Percent(peak, balance) \in Fraction
  BY DEF Percent, Fraction
<1>3. Advance(after, balance).worst \in Fraction
  BY <1>1, <1>2 DEF Advance, Tracked
<1>4. Advance(after, balance) = [peak |-> peak, worst |-> Advance(after, balance).worst]
  BY <1>1 DEF Advance
<1>5. QED
  BY <1>3, <1>4 DEF Tracked

\* What the loop has found after the first points of the curve.
FoundIn(curve, points, after) ==
    /\ after \in Tracked
    /\ \A j \in 1..points : curve[j] <= after.peak
    /\ \E j \in 1..points : curve[j] = after.peak
    /\ \A j, k \in 1..points :
          j <= k /\ curve[j] > 0 => ~IsMore(Percent(curve[j], curve[k]), after.worst)
    /\ \/ after.worst.drop = 0
       \/ \E j, k \in 1..points :
             j <= k /\ curve[j] > 0 /\ after.worst = Percent(curve[j], curve[k])

\* One more point of the curve.
LEMMA NextPoint ==
    ASSUME NEW curve \in Seq(Nat), NEW m \in Nat, m + 1 \in 1..Len(curve), m >= 1,
           NEW after, FoundIn(curve, m, after)
    PROVE  FoundIn(curve, m + 1, Advance(after, curve[m + 1]))
<1> DEFINE balance == curve[m + 1]
           next == Advance(after, balance)
           peak == IF balance > after.peak THEN balance ELSE after.peak
           drawdown == Percent(peak, balance)
<1>1. \A j \in 1..(m + 1) : curve[j] \in Nat
  OBVIOUS
<1>2. balance \in Nat /\ after.peak \in Nat /\ after.worst \in Fraction
  BY <1>1 DEF FoundIn, Tracked
<1>3. peak \in Nat /\ balance <= peak /\ after.peak <= peak
  BY <1>2
<1>4. drawdown \in Fraction
  BY <1>2, <1>3 DEF Percent, Fraction
<1>5. /\ next \in Tracked
      /\ next.peak = peak
      /\ next.worst = IF IsMore(drawdown, after.worst) THEN drawdown ELSE after.worst
  BY <1>1, AdvanceType DEF Advance, FoundIn
<1> HIDE DEF next, drawdown
<1>6. next.worst \in Fraction
  BY <1>2, <1>4, <1>5
<1>7. ~IsMore(after.worst, next.worst) /\ ~IsMore(drawdown, next.worst)
  BY <1>2, <1>4, <1>5, MoreIsTransitive
<1>8. ASSUME NEW j \in 1..(m + 1)
      PROVE  curve[j] <= next.peak
  <2>1. CASE j = m + 1
    BY <1>3, <1>5, <2>1
  <2>2. CASE j \in 1..m
    <3>1. curve[j] <= after.peak /\ curve[j] \in Nat
      BY <1>1, <2>2 DEF FoundIn
    <3>2. QED
      BY <1>2, <1>3, <1>5, <3>1
  <2>3. QED
    BY <2>1, <2>2
<1>9. \E j \in 1..(m + 1) : curve[j] = next.peak
  <2>1. CASE balance > after.peak
    BY <1>5, <2>1
  <2>2. CASE ~(balance > after.peak)
    <3>1. PICK j \in 1..m : curve[j] = after.peak
      BY DEF FoundIn
    <3>2. QED
      BY <1>5, <2>2, <3>1
  <2>3. QED
    BY <2>1, <2>2
<1>10. ASSUME NEW j \in 1..(m + 1), NEW k \in 1..(m + 1), j <= k, curve[j] > 0
       PROVE  ~IsMore(Percent(curve[j], curve[k]), next.worst)
  <2>1. curve[j] \in Nat \ {0} /\ curve[k] \in Nat
    BY <1>1, <1>10
  <2>2. Percent(curve[j], curve[k]) \in Fraction
    BY <2>1, HigherPeakFallsMore
  <2>3. CASE k = m + 1
    <3>1. curve[j] <= peak
      BY <1>5, <1>8
    <3>2. ~IsMore(Percent(curve[j], balance), drawdown)
      BY <1>2, <1>3, <2>1, <3>1, HigherPeakFallsMore DEF drawdown
    <3>3. QED
      BY <1>4, <1>6, <1>7, <2>2, <2>3, <3>2, MoreIsTransitive
  <2>4. CASE k \in 1..m
    <3>1. ~IsMore(Percent(curve[j], curve[k]), after.worst)
      BY <1>10, <2>4 DEF FoundIn
    <3>2. QED
      BY <1>2, <1>6, <1>7, <2>2, <3>1, MoreIsTransitive
  <2>5. QED
    BY <2>3, <2>4
<1>11. \/ next.worst.drop = 0
       \/ \E j, k \in 1..(m + 1) :
             j <= k /\ curve[j] > 0 /\ next.worst = Percent(curve[j], curve[k])
  <2>1. CASE IsMore(drawdown, after.worst)
    <3>1. CASE peak = 0
      BY <1>5, <2>1, <3>1 DEF drawdown, Percent
    <3>2. CASE peak > 0
      <4>1. PICK j \in 1..(m + 1) : curve[j] = peak
        BY <1>5, <1>9
      <4>2. j <= m + 1 /\ m + 1 \in 1..(m + 1) /\ next.worst = Percent(curve[j], curve[m + 1])
        BY <1>5, <2>1, <4>1 DEF drawdown
      <4>3. QED
        BY <3>2, <4>1, <4>2
    <3>3. QED
      BY <1>3, <3>1, <3>2
  <2>2. CASE ~IsMore(drawdown, after.worst)
    BY <1>5, <2>2 DEF FoundIn
  <2>3. QED
    BY <2>1, <2>2
<1>12. QED
  BY <1>5, <1>8, <1>9, <1>10, <1>11 DEF FoundIn, next

Trade == [exit : Int \cup {Null}, value : Nat \cup {Null}, pnl : Int \cup {Null}]

LEMMA CurveType ==
    ASSUME NEW initial \in Nat, NEW trades \in Seq(Trade)
    PROVE  /\ Curve(initial, trades) \in Seq(Nat)
           /\ Len(Curve(initial, trades)) = Len(trades) + 1
           /\ Curve(initial, trades)[1] = initial
           /\ \A i \in 1..Len(trades) : /\ Balance(trades[i]) \in Nat
                                        /\ Curve(initial, trades)[i + 1] = Balance(trades[i])
<1>1. ASSUME NEW i \in 1..Len(trades)
      PROVE  Balance(trades[i]) \in Nat
  <2>1. trades[i] \in Trade
    OBVIOUS
  <2>2. QED
    BY <2>1 DEF Balance, Trade
<1>2. PICK s : s = [i \in 1..Len(trades) |-> Balance(trades[i])]
  OBVIOUS
<1>3. s \in Seq(Nat) /\ Len(s) = Len(trades)
  BY <1>1, <1>2
<1>4. Curve(initial, trades) = <<initial>> \o s
  BY <1>2 DEF Curve
<1>5. QED
  BY <1>1, <1>2, <1>3, <1>4

\* The loop of getPerformanceChart finds the peak and the worst fall of the whole curve.
LEMMA TrackFinds ==
    ASSUME NEW initial \in Nat, NEW trades \in Seq(Trade)
    PROVE  FoundIn(Curve(initial, trades), Len(trades) + 1, Track(initial, trades))
<1> DEFINE n == Len(trades)
           curve == Curve(initial, trades)
           start == [peak |-> initial, worst |-> [drop |-> 0, of |-> 1]]
           Loop(f) == [i \in 0..n |->
               IF i = 0 THEN [peak |-> initial, worst |-> [drop |-> 0, of |-> 1]]
               ELSE LET balance == Balance(trades[i])
                        peak == IF balance > f[i - 1].peak THEN balance ELSE f[i - 1].peak
                        drawdown == Percent(peak, balance)
                    IN  [peak |-> peak,
                         worst |-> IF IsMore(drawdown, f[i - 1].worst)
                                   THEN drawdown ELSE f[i - 1].worst]]
<1>1. n \in Nat /\ \A i \in 1..n : Balance(trades[i]) \in Nat
  BY CurveType
<1>2. start \in Tracked
  BY DEF Tracked, Fraction
<1>3. ASSUME NEW f
      PROVE  Loop(f) = [i \in 0..n |-> IF i = 0 THEN start
                                       ELSE Advance(f[i - 1], Balance(trades[i]))]
  BY DEF Advance
<1> HIDE DEF Loop, start, n
<1>4. \E f : f = Loop(f)
  <2>1. PICK G : G = [p \in (1..n) \X Tracked |-> Advance(p[2], Balance(trades[p[1]]))]
    OBVIOUS
  <2>2. ASSUME NEW i \in 1..n, NEW a \in Tracked
        PROVE  /\ G[<<i, a>>] = Advance(a, Balance(trades[i]))
               /\ G[<<i, a>>] \in Tracked
    BY <1>1, <2>1, AdvanceType
  <2>3. IsStep(G, n, Tracked)
    BY <2>1, <2>2 DEF IsStep
  <2>4. PICK f : Follows(f, n, Tracked, start, G)
    BY <1>1, <1>2, <2>3, StepByStep
  <2>5. ASSUME NEW i \in 0..n
        PROVE  f[i] = IF i = 0 THEN start ELSE Advance(f[i - 1], Balance(trades[i]))
    <3>1. CASE i = 0
      BY <2>4, <3>1 DEF Follows
    <3>2. CASE i \in 1..n
      <4>1. f[i - 1] \in Tracked
        BY <1>1, <2>4, <3>2 DEF Follows
      <4>2. f[i] = G[<<i, f[i - 1]>>]
        BY <2>4, <3>2 DEF Follows
      <4>3. QED
        BY <2>2, <3>2, <4>1, <4>2
    <3>3. QED
      BY <1>1, <3>1, <3>2
  <2>6. f = [i \in 0..n |-> f[i]]
    BY <2>4 DEF Follows
  <2>7. QED
    BY <1>3, <2>5, <2>6
<1> DEFINE after == CHOOSE f : f = Loop(f)
<1>5. after = Loop(after)
  BY <1>4
<1> HIDE DEF after
<1>6. after[0] = start /\ \A i \in 1..n : after[i] = Advance(after[i - 1], Balance(trades[i]))
  BY <1>1, <1>3, <1>5
<1> DEFINE P == {i \in Nat : i <= n => FoundIn(curve, i + 1, after[i])}
<1>7. P = Nat
  <2>1. 0 \in P
    <3>1. curve[1] = initial
      BY CurveType
    <3>2. ~IsMore(Percent(initial, initial), [drop |-> 0, of |-> 1])
      BY DEF Percent, IsMore
    <3>3. FoundIn(curve, 0 + 1, start)
      BY <1>2, <3>1, <3>2 DEF FoundIn, start
    <3>4. QED
      BY <1>6, <3>3
  <2>2. ASSUME NEW i \in P
        PROVE  i + 1 \in P
    <3> SUFFICES ASSUME i + 1 <= n
                 PROVE  FoundIn(curve, (i + 1) + 1, after[i + 1])
      OBVIOUS
    <3>1. FoundIn(curve, i + 1, after[i])
      BY <1>1
    <3>2. i + 1 \in 1..n /\ (i + 1) - 1 = i
      BY <1>1
    <3>3. after[i + 1] = Advance(after[i], curve[(i + 1) + 1])
      BY <1>6, <3>2, CurveType DEF n
    <3>4. curve \in Seq(Nat) /\ (i + 1) + 1 \in 1..Len(curve)
      <4>1. curve \in Seq(Nat) /\ Len(curve) = n + 1
        BY CurveType DEF n
      <4> HIDE DEF curve
      <4>2. QED
        BY <1>1, <3>2, <4>1
    <3> HIDE DEF curve
    <3>5. FoundIn(curve, (i + 1) + 1, Advance(after[i], curve[(i + 1) + 1]))
      BY <3>1, <3>2, <3>4, NextPoint
    <3>6. QED
      BY <3>3, <3>5
  <2>3. P \in SUBSET Nat
    OBVIOUS
  <2> HIDE DEF P
  <2>4. QED
    BY <2>1, <2>2, <2>3, Induct
<1>8. FoundIn(curve, n + 1, after[n])
  BY <1>1, <1>7
<1>9. Track(initial, trades) = after[n]
  BY DEF Track, after, Loop, n
<1>10. QED
  BY <1>8, <1>9 DEF n

\* The drawdown kept along the peaks is the worst fall from any earlier point of the curve
\* to any later one, for any number of trades and any balances that are not negative
\* (getPerformanceChart).
THEOREM DrawdownsAreWorst == PerformanceSpec => []DrawdownIsWorst
<1>1. FiguresReached => DrawdownIsWorst
  <2> DEFINE completed == CompletedTrades(asked.trades)
             curve == Curve(asked.initial, completed)
             track == Track(asked.initial, completed)
             falls == {f \in (1..Len(curve)) \X (1..Len(curve)) :
                          f[1] <= f[2] /\ curve[f[1]] > 0}
  <2> SUFFICES ASSUME FiguresReached, Answered("chart")
               PROVE  /\ \A f \in falls : ~IsMore(Percent(curve[f[1]], curve[f[2]]), track.worst)
                      /\ track.worst.drop = 0 \/ \E f \in falls :
                              track.worst = Percent(curve[f[1]], curve[f[2]])
    BY DEF DrawdownIsWorst, FiguresReached, Answered, EquityChart
  <2>1. asked.initial \in Nat /\ asked.trades \in Seq(Trade)
    BY DEF FiguresReached, Answered, IsCase, Trade
  <2>2. completed \in Seq(Trade)
    BY <2>1, CompletedType
  <2>3. FoundIn(curve, Len(completed) + 1, track) /\ Len(curve) = Len(completed) + 1
    BY <2>1, <2>2, CurveType, TrackFinds
  <2> HIDE DEF curve, track, completed
  <2>4. FoundIn(curve, Len(curve), track)
    BY <2>3
  <2>5. \A f \in falls : ~IsMore(Percent(curve[f[1]], curve[f[2]]), track.worst)
    BY <2>4 DEF FoundIn
  <2>6. ASSUME track.worst.drop # 0
        PROVE  \E f \in falls : track.worst = Percent(curve[f[1]], curve[f[2]])
    <3>1. PICK j \in 1..Len(curve), k \in 1..Len(curve) :
             j <= k /\ curve[j] > 0 /\ track.worst = Percent(curve[j], curve[k])
      BY <2>4, <2>6 DEF FoundIn
    <3>2. <<j, k>> \in falls
      BY <3>1
    <3>3. QED
      BY <3>1, <3>2
  <2>7. QED
    BY <2>5, <2>6
<1>2. QED
  BY <1>1, FiguresInvariant, PTL

---------------------------------------------------------------------------
(* Lists.                                                                  *)

\* The order of the rows, as a relation that does not depend on the state.
Ordered(order, r, q) ==
    \/ r.key # Nil /\ q.key = Nil
    \/ /\ r.key # Nil /\ q.key # Nil
       /\ IF order = "asc" THEN r.key < q.key ELSE r.key > q.key

UpTo(order, r, q) == r.key = q.key \/ Ordered(order, r, q)

IsRows(rows) == IsFiniteSet(rows) /\ rows \subseteq Row

LEMMA PrecedesIsOrdered ==
    ASSUME list.name # "paper"
    PROVE  \A r, q : Precedes(r, q) <=> Ordered(list.order, r, q)
BY DEF Precedes, Ordered

\* Two rows with different values are ordered, one way or the other.
LEMMA OrderIsWeak ==
    ASSUME NEW order, NEW r \in Row, NEW q \in Row, NEW s \in Row
    PROVE  /\ r.key = q.key => ~Ordered(order, r, q)
           /\ ~(Ordered(order, r, q) /\ Ordered(order, q, r))
           /\ r.key = q.key \/ Ordered(order, r, q) \/ Ordered(order, q, r)
           /\ UpTo(order, r, q) /\ UpTo(order, q, s) => UpTo(order, r, s)
<1>1. /\ r.key \in Int \cup {Nil} /\ q.key \in Int \cup {Nil} /\ s.key \in Int \cup {Nil}
      /\ Nil \notin Int
  BY ListAssumption DEF Row
<1>2. CASE order = "asc"
  BY <1>1, <1>2 DEF Ordered, UpTo
<1>3. CASE order # "asc"
  BY <1>1, <1>3 DEF Ordered, UpTo
<1>4. QED
  BY <1>2, <1>3

LEMMA SomeRows ==
    ASSUME NEW rows, IsRows(rows), NEW some \in SUBSET rows
    PROVE  IsRows(some)
BY FS_Subset DEF IsRows

\* What a take leaves of some rows.
LEMMA TopsTake ==
    ASSUME NEW rows, IsRows(rows), NEW k \in Nat, NEW top \in Tops(k, rows)
    PROVE  /\ IsRows(top) /\ top \subseteq rows
           /\ \A r \in top, q \in rows : Precedes(q, r) => q \in top
           /\ Cardinality(rows) \in Nat
           /\ Cardinality(top) = IF Cardinality(rows) < k THEN Cardinality(rows) ELSE k
           /\ Cardinality(rows) <= k => top = rows
<1>1. /\ top \in SUBSET rows
      /\ Cardinality(top) = IF Cardinality(rows) < k THEN Cardinality(rows) ELSE k
      /\ \A r \in top, q \in rows : Precedes(q, r) => q \in top
  BY DEF Tops
<1>2. Cardinality(rows) \in Nat /\ IsRows(top) /\ IsFiniteSet(rows)
  BY <1>1, SomeRows, FS_CardinalityType DEF IsRows
<1>3. Cardinality(rows) <= k => Cardinality(top) = Cardinality(rows)
  BY <1>1, <1>2
<1>4. Cardinality(rows) <= k => top = rows
  BY <1>1, <1>2, <1>3, FS_Subset
<1>5. QED
  BY <1>1, <1>2, <1>4

ListRecord ==
    list = [name |-> list.name, order |-> list.order, state |-> list.state,
            cursor |-> list.cursor, page |-> list.page, shown |-> list.shown,
            open |-> list.open, cuts |-> list.cuts, start |-> list.start,
            cursorLeft |-> list.cursorLeft]

TableReached == created \in Nat /\ IsRows(table) /\ left \subseteq Row

\* What has been shown has a value up to the cursor's; and of the rows there all the time,
\* whatever has a value before the cursor's was shown, unless a page ended at that value or
\* a cursor row left.
ProgressReached ==
    /\ ListRecord
    /\ list.start \subseteq table /\ list.shown \subseteq Row
    /\ list.cursor \in Row \cup {Nil} /\ list.cursorLeft \in BOOLEAN
    /\ list.state \in {"idle", "ended", "refused"}
    /\ list.cursor = Nil /\ list.state = "idle" => list.shown = {}
    /\ list.cursor # Nil => \A r \in list.shown : UpTo(list.order, r, list.cursor)
    /\ ~list.cursorLeft /\ list.state = "idle" /\ list.cursor # Nil =>
          \A r \in list.start : \/ r \in list.shown \/ r.key \in list.cuts
                                \/ Ordered(list.order, list.cursor, r)
    /\ ~list.cursorLeft /\ list.state = "ended" =>
          \A r \in list.start : r \in list.shown \/ r.key \in list.cuts

ListReached == ListRecord /\ (list.name # "paper" => TableReached /\ ProgressReached)

\* What Prisma continues with has the cursor's value or lies behind it; if the cursor row
\* is still there, it is all that lies behind it.
LEMMA ContinuesBehind ==
    ASSUME NEW rest \in Continuations, IsRows(table), list.cursor \in Row \cup {Nil},
           list.name # "paper"
    PROVE  /\ IsRows(rest) /\ rest \subseteq table
           /\ list.cursor # Nil => \A r \in rest : r # list.cursor /\ UpTo(list.order, list.cursor, r)
           /\ list.cursor = Nil => rest = table
           /\ list.cursor # Nil /\ list.cursor \in table =>
                 \A r \in table : Ordered(list.order, list.cursor, r) => r \in rest
<1>1. CASE list.cursor = Nil
  BY <1>1 DEF Continuations
<1>2. CASE list.cursor # Nil
  <2>1. list.cursor \in Row /\ table \subseteq Row
    BY <1>2 DEF IsRows
  <2>2. ASSUME NEW following \in Following(list.cursor, table)
        PROVE  /\ following \subseteq table
               /\ \A r \in following : r # list.cursor /\ UpTo(list.order, list.cursor, r)
               /\ \A r \in table : Ordered(list.order, list.cursor, r) => r \in following
    <3>1. PICK ties \in SUBSET {r \in table \ {list.cursor} : Tied(list.cursor, r)} :
              following = {r \in table : Precedes(list.cursor, r)} \cup ties
      BY DEF Following
    <3>2. \A r \in table : Precedes(list.cursor, r) => r # list.cursor
      BY <2>1, PrecedesIsOrdered, OrderIsWeak
    <3>3. \A r \in ties : r.key = list.cursor.key
      BY <2>1, PrecedesIsOrdered, OrderIsWeak DEF Tied
    <3>4. QED
      BY <3>1, <3>2, <3>3, PrecedesIsOrdered DEF UpTo
  <2>3. CASE list.cursor \in table
    <3>1. rest \in Following(list.cursor, table)
      BY <1>2, <2>3 DEF Continuations
    <3>2. QED
      BY <1>2, <2>2, <3>1, SomeRows
  <2>4. CASE list.cursor \notin table
    <3>1. rest = {} \/ \E following \in Following(list.cursor, table) : rest \subseteq following
      BY <1>2, <2>4 DEF Continuations
    <3>2. /\ rest \subseteq table
          /\ \A r \in rest : r # list.cursor /\ UpTo(list.order, list.cursor, r)
      BY <2>2, <3>1
    <3>3. QED
      BY <1>2, <2>4, <3>2, SomeRows
  <2>5. QED
    BY <2>3, <2>4
<1>3. QED
  BY <1>1, <1>2

\* A page repeats nothing but rows with the cursor's value, and never the cursor.
RepeatsTies(page) ==
    \A r \in page \cap list.shown :
        list.cursor # Nil /\ r # list.cursor /\ r.key = list.cursor.key

\* One page of a cursor list.
LEMMA PageFollows ==
    ASSUME ListReached, list.name # "paper", list.state = "idle", NEW rest \in Continuations,
           NEW rows \in Fetch(rest), Show(rows), UNCHANGED table
    PROVE  RepeatsTies(list'.page) /\ ProgressReached' /\ list'.name = list.name
<1> DEFINE hasMore == Cardinality(rows) > Limit
<1>1. /\ TableReached /\ ProgressReached /\ ListRecord
      /\ Limit \in Nat \ {0} /\ Limit + 1 \in Nat /\ Nil \notin Row
  BY ListAssumption DEF ListReached
<1>2. IsRows(table) /\ list.cursor \in Row \cup {Nil}
  BY <1>1 DEF TableReached, ProgressReached
<1> DEFINE Shows(data, cursor) ==
              [list EXCEPT
                  !.state = IF hasMore THEN "idle" ELSE "ended",
                  !.cursor = cursor,
                  !.page = data,
                  !.shown = @ \cup data,
                  !.open = {},
                  !.cuts = IF hasMore THEN @ \cup {cursor.key} ELSE @,
                  !.cursorLeft = @ \/ (list.cursor # Nil /\ list.cursor \notin table)]
<1>0. PICK data \in Tops(Limit, rows) :
        \E cursor \in IF hasMore THEN Lasts(data) ELSE {Nil} : list' = Shows(data, cursor)
  BY DEF Show
<1>3. PICK cursor \in IF hasMore THEN Lasts(data) ELSE {Nil} : list' = Shows(data, cursor)
  BY <1>0
<1>4. list' = [name |-> list.name, order |-> list.order,
               state |-> IF hasMore THEN "idle" ELSE "ended",
               cursor |-> cursor, page |-> data, shown |-> list.shown \cup data,
               open |-> {}, cuts |-> IF hasMore THEN list.cuts \cup {cursor.key} ELSE list.cuts,
               start |-> list.start,
               cursorLeft |-> list.cursorLeft
                              \/ (list.cursor # Nil /\ list.cursor \notin table)]
  BY <1>1, <1>3 DEF ListRecord
<1>5. IsRows(rest) /\ rest \subseteq table
  BY <1>2, ContinuesBehind
<1>6. /\ IsRows(rows) /\ rows \subseteq rest
      /\ \A r \in rows, q \in rest : Precedes(q, r) => q \in rows
      /\ Cardinality(rest) \in Nat
      /\ Cardinality(rows) = IF Cardinality(rest) < Limit + 1 THEN Cardinality(rest) ELSE Limit + 1
      /\ Cardinality(rest) <= Limit + 1 => rows = rest
  BY <1>1, <1>5, TopsTake DEF Fetch
<1>7. /\ IsRows(data) /\ data \subseteq rows
      /\ \A r \in data, q \in rows : Precedes(q, r) => q \in data
      /\ Cardinality(rows) <= Limit => data = rows
  BY <1>1, <1>6, TopsTake
<1>8. data \subseteq Row /\ rest \subseteq Row
  BY <1>5, <1>7 DEF IsRows
<1>9. ASSUME NEW r \in data
      PROVE  list.cursor # Nil => r # list.cursor /\ UpTo(list.order, list.cursor, r)
  BY <1>2, <1>6, <1>7, ContinuesBehind
<1>10. RepeatsTies(data)
  <2> SUFFICES ASSUME NEW r \in data, r \in list.shown
               PROVE  list.cursor # Nil /\ r # list.cursor /\ r.key = list.cursor.key
    BY DEF RepeatsTies
  <2>1. list.cursor # Nil
    BY <1>1 DEF ProgressReached
  <2>2. list.cursor \in Row /\ r \in Row
    BY <1>2, <1>8, <2>1
  <2>3. UpTo(list.order, r, list.cursor) /\ UpTo(list.order, list.cursor, r)
    BY <1>1, <1>9, <2>1 DEF ProgressReached
  <2>4. r.key = list.cursor.key
    BY <2>2, <2>3, OrderIsWeak DEF UpTo
  <2>5. QED
    BY <1>9, <2>1, <2>4
<1>11. ASSUME NEW r \in list.start, r \notin list.shown, r.key \notin list.cuts, ~list'.cursorLeft
       PROVE  r \in rest
  <2>1. r \in table /\ ~list.cursorLeft /\ (list.cursor = Nil \/ list.cursor \in table)
    BY <1>1, <1>4, <1>11 DEF ProgressReached
  <2>2. list.cursor # Nil => Ordered(list.order, list.cursor, r)
    BY <1>1, <1>11, <2>1 DEF ProgressReached
  <2>3. QED
    BY <1>2, <2>1, <2>2, ContinuesBehind
<1>12. /\ list'.page = data /\ list'.name = list.name /\ list'.order = list.order
       /\ list'.start = list.start /\ list'.shown = list.shown \cup data
       /\ list'.cursor = cursor /\ list'.cursorLeft \in BOOLEAN
       /\ list'.state = IF hasMore THEN "idle" ELSE "ended"
       /\ list'.cuts = IF hasMore THEN list.cuts \cup {cursor.key} ELSE list.cuts
  BY <1>1, <1>4 DEF ProgressReached
<1>13. ListRecord' /\ list'.start \subseteq table' /\ list'.shown \subseteq Row
  BY <1>1, <1>4, <1>8, <1>12 DEF ProgressReached, ListRecord
<1>14. CASE hasMore
  <2>1. cursor \in data /\ \A r \in data : ~Precedes(cursor, r)
    BY <1>3, <1>14 DEF Lasts
  <2>2. cursor \in Row /\ cursor # Nil
    BY <1>1, <1>8, <2>1
  <2>3. ASSUME NEW r \in list.shown \cup data
        PROVE  UpTo(list.order, r, cursor)
    <3>1. CASE r \in data
      BY <1>8, <2>1, <2>2, <3>1, PrecedesIsOrdered, OrderIsWeak DEF UpTo
    <3>2. CASE r \in list.shown
      <4>1. list.cursor # Nil /\ list.cursor \in Row /\ r \in Row
        BY <1>1, <3>2 DEF ProgressReached
      <4>2. UpTo(list.order, list.cursor, cursor) /\ UpTo(list.order, r, list.cursor)
        BY <1>1, <1>9, <2>1, <3>2, <4>1 DEF ProgressReached
      <4>3. QED
        BY <2>2, <4>1, <4>2, OrderIsWeak
    <3>3. QED
      BY <3>1, <3>2
  <2>4. ASSUME NEW r \in list.start, ~list'.cursorLeft
        PROVE  \/ r \in list.shown \cup data \/ r.key \in list.cuts \cup {cursor.key}
               \/ Ordered(list.order, cursor, r)
    <3> SUFFICES ASSUME r \notin list.shown, r \notin data, r.key \notin list.cuts,
                        r.key # cursor.key, ~Ordered(list.order, cursor, r)
                 PROVE  FALSE
      OBVIOUS
    <3>1. r \in rest /\ r \in Row
      BY <1>8, <1>11, <2>4
    <3>2. Precedes(r, cursor)
      BY <2>2, <3>1, OrderIsWeak, PrecedesIsOrdered
    <3>3. cursor \in rows
      BY <1>7, <2>1
    <3>4. r \in rows
      BY <1>6, <3>1, <3>2, <3>3
    <3>5. QED
      BY <1>7, <2>1, <3>2, <3>4
  <2>5. ProgressReached'
    BY <1>12, <1>13, <1>14, <2>2, <2>3, <2>4 DEF ProgressReached
  <2>6. QED
    BY <1>10, <1>12, <2>5
<1>15. CASE ~hasMore
  <2>1. Cardinality(rest) <= Limit
    BY <1>1, <1>6, <1>15
  <2>2. data = rest
    BY <1>1, <1>6, <1>7, <2>1
  <2>3. cursor = Nil
    BY <1>3, <1>15
  <2>4. ~list'.cursorLeft => \A r \in list.start : r \in list.shown \cup data \/ r.key \in list.cuts
    BY <1>11, <2>2
  <2>5. ProgressReached'
    BY <1>12, <1>13, <1>15, <2>3, <2>4 DEF ProgressReached
  <2>6. QED
    BY <1>10, <1>12, <2>5
<1>16. QED
  BY <1>14, <1>15

\* Everything else that happens to the rows.
LEMMA RowsChange ==
    ASSUME ListReached, list.name # "paper", Insert \/ Leave \/ Return
    PROVE  TableReached' /\ ProgressReached' /\ list'.name = list.name
<1>1. TableReached /\ ProgressReached
  BY DEF ListReached
<1>2. ASSUME NEW rows, Changes(rows)
      PROVE  ProgressReached' /\ list'.name = list.name
  <2>1. list' = [name |-> list.name, order |-> list.order, state |-> list.state,
                 cursor |-> list.cursor, page |-> list.page, shown |-> list.shown,
                 open |-> list.open, cuts |-> list.cuts, start |-> list.start \cap rows,
                 cursorLeft |-> list.cursorLeft]
    BY <1>1, <1>2 DEF Changes, ProgressReached, ListRecord
  <2>2. table' = rows /\ list'.start \subseteq rows /\ list'.start \subseteq list.start
    BY <1>2, <2>1 DEF Changes
  <2>3. QED
    BY <1>1, <2>1, <2>2 DEF ProgressReached, ListRecord
<1>3. CASE Insert
  <2>1. PICK row \in Added(TRUE) : Changes(table \cup {row}) /\ created' = created + 1
                                   /\ left' = left
    BY <1>3 DEF Insert
  <2>2. row \in Row /\ created' \in Nat
    <3>1. created \in Nat
      BY <1>1 DEF TableReached
    <3>2. PICK key \in {created, created + 1} :
              row = [id |-> created + 1, key |-> key, open |-> TRUE]
      BY <2>1 DEF Added
    <3>3. key \in Int \cup {Nil} /\ created + 1 \in Nat
      BY <3>1
    <3>4. QED
      BY <2>1, <3>2, <3>3 DEF Row
  <2>3. table' = table \cup {row}
    BY <2>1 DEF Changes
  <2>4. IsFiniteSet(table')
    BY <1>1, <2>3, FS_AddElement DEF TableReached, IsRows
  <2>5. TableReached'
    BY <1>1, <2>1, <2>2, <2>3, <2>4 DEF TableReached, IsRows
  <2>6. QED
    BY <1>2, <2>1, <2>5
<1>4. CASE Leave
  <2>1. PICK r \in table : /\ Changes(table \ {r}) /\ created' = created
                           /\ left' \in {left, left \cup {r}}
    BY <1>4 DEF Leave
  <2>2. table' = table \ {r}
    BY <2>1 DEF Changes
  <2>3. IsFiniteSet(table')
    BY <1>1, <2>2, FS_RemoveElement DEF TableReached, IsRows
  <2>4. TableReached'
    BY <1>1, <2>1, <2>2, <2>3 DEF TableReached, IsRows
  <2>5. QED
    BY <1>2, <2>1, <2>4
<1>5. CASE Return
  <2>1. PICK r \in left : /\ Changes(table \cup {r}) /\ created' = created
                          /\ left' = left \ {r}
    BY <1>5 DEF Return
  <2>2. table' = table \cup {r}
    BY <2>1 DEF Changes
  <2>3. IsFiniteSet(table')
    BY <1>1, <2>2, FS_AddElement DEF TableReached, IsRows
  <2>4. TableReached'
    BY <1>1, <2>1, <2>2, <2>3 DEF TableReached, IsRows
  <2>5. QED
    BY <1>2, <2>1, <2>4
<1>6. QED
  BY <1>3, <1>4, <1>5

LEMMA CursorPageSteps ==
    ASSUME ListReached, list.name # "paper", CursorPage
    PROVE  /\ TableReached' /\ ProgressReached' /\ list'.name = list.name
           /\ list'.state # "refused" => RepeatsTies(list'.page)
<1>1. TableReached /\ ProgressReached
  BY DEF ListReached
<1>2. list.state = "idle" /\ UNCHANGED <<table, left, created>>
  BY DEF CursorPage, ListTasks, ListTemplates, ListStrategies, ListPublicStrategies,
         ListRejectedSignals, GetRealPositions, GetResultTrades, NextPage, Refuse
<1>3. TableReached'
  BY <1>1, <1>2 DEF TableReached
<1>4. \/ \E rest \in Continuations : \E rows \in Fetch(rest) : Show(rows)
      \/ list' = [list EXCEPT !.state = "refused"]
  BY DEF CursorPage, ListTasks, ListTemplates, ListStrategies, ListPublicStrategies,
         ListRejectedSignals, GetRealPositions, GetResultTrades, NextPage, Refuse
<1>5. CASE \E rest \in Continuations : \E rows \in Fetch(rest) : Show(rows)
  <2>0. PICK rest \in Continuations : \E rows \in Fetch(rest) : Show(rows)
    BY <1>5
  <2>1. PICK rows \in Fetch(rest) : Show(rows)
    BY <2>0
  <2>2. QED
    BY <1>2, <1>3, <2>1, PageFollows
<1>6. CASE list' = [list EXCEPT !.state = "refused"]
  <2>1. list' = [name |-> list.name, order |-> list.order, state |-> "refused",
                 cursor |-> list.cursor, page |-> list.page, shown |-> list.shown,
                 open |-> list.open, cuts |-> list.cuts, start |-> list.start,
                 cursorLeft |-> list.cursorLeft]
    BY <1>1, <1>6 DEF ProgressReached, ListRecord
  <2>2. ProgressReached'
    BY <1>1, <1>2, <2>1 DEF ProgressReached, ListRecord
  <2>3. QED
    BY <1>3, <2>1, <2>2
<1>7. QED
  BY <1>4, <1>5, <1>6

LEMMA ListInvariant == ListSpec => []ListReached
<1>1. PagesInit => ListReached
  <2> SUFFICES ASSUME PagesInit
               PROVE  ListRecord /\ TableReached /\ ProgressReached
    BY DEF ListReached
  <2>1. PICK case \in ListCases :
          /\ table = case.rows /\ left = {} /\ created = Cardinality(case.rows)
          /\ list = [name |-> case.name, order |-> case.order,
                     state |-> "idle", cursor |-> Nil,
                     page |-> {}, shown |-> {}, open |-> {}, cuts |-> {},
                     start |-> case.rows, cursorLeft |-> FALSE]
    BY DEF PagesInit
  <2>2. IsList(case)
    BY ListAssumption
  <2>3. created \in Nat
    BY <2>1, <2>2, FS_CardinalityType DEF IsList
  <2>4. TableReached
    BY <2>1, <2>2, <2>3 DEF IsList, TableReached, IsRows
  <2>5. ProgressReached
    BY <2>1 DEF ProgressReached, ListRecord
  <2>6. QED
    BY <2>4, <2>5 DEF ProgressReached
<1>2. ListReached /\ [PagesNext]_pagesVars => ListReached'
  <2> SUFFICES ASSUME ListReached, [PagesNext]_pagesVars
               PROVE  ListRecord' /\ (list'.name # "paper" => TableReached' /\ ProgressReached')
    BY DEF ListReached
  <2>1. CASE CursorPage
    <3>1. list.name # "paper"
      BY <2>1 DEF CursorPage, ListTasks, ListTemplates, ListStrategies, ListPublicStrategies,
                  ListRejectedSignals, GetRealPositions, GetResultTrades, NextPage, Refuse
    <3>2. QED
      BY <2>1, <3>1, CursorPageSteps DEF ProgressReached
  <2>2. CASE list.name # "paper" /\ (Insert \/ Leave \/ Return)
    BY <2>2, RowsChange DEF ProgressReached
  <2>3. CASE list.name = "paper" /\ (ReadOpen \/ ReadClosed \/ Insert \/ Leave \/ Return \/ Close)
    <3>1. \/ list' = [list EXCEPT !.state = "reading", !.open = list'.open]
          \/ \E rows : Show(rows)
          \/ \E rows : Changes(rows)
      BY <2>3 DEF ReadOpen, ReadClosed, Insert, Leave, Return, Close
    <3>2. list'.name = "paper" /\ ListRecord'
      BY <2>3, <3>1 DEF Show, Changes, ListReached, ListRecord
    <3>3. QED
      BY <3>2
  <2>4. CASE UNCHANGED pagesVars
    BY <2>4 DEF pagesVars, ListReached, TableReached, ProgressReached, ListRecord
  <2>5. QED
    BY <2>1, <2>2, <2>3, <2>4 DEF PagesNext, ReadOpen, ReadClosed, Close
<1>3. QED
  BY <1>1, <1>2, PTL DEF ListSpec

\* A cursor list misses no row that was there from its first page to its last, unless a
\* page ended with a row of the same value or a cursor row left the filter on the way, for
\* any rows, order, page size and changes of the list, however the database orders equal
\* rows each time (the findMany calls with cursor, skip: 1 and take: limit + 1).
THEOREM NothingIsSkipped == ListSpec => []NothingSkipped
<1>1. ListReached => NothingSkipped
  BY DEF ListReached, ProgressReached, NothingSkipped
<1>2. QED
  BY <1>1, ListInvariant, PTL

\* Through all pages of a cursor list, whatever is added, leaves or comes back, a row comes
\* twice only if it has the value of the row the last page ended with, and never that row
\* itself, for any rows, order and page size, however equal rows are ordered each time.
THEOREM RowsComeOnce == ListSpec => NoRowTwice
<1>1. ListReached /\ [PagesNext]_pagesVars =>
         [CursorPage /\ list'.state # "refused" =>
            \A r \in list'.page \cap list.shown :
                list.cursor # Nil /\ r # list.cursor /\ r.key = list.cursor.key]_pagesVars
  <2> SUFFICES ASSUME ListReached, CursorPage, list'.state # "refused"
               PROVE  \A r \in list'.page \cap list.shown :
                         list.cursor # Nil /\ r # list.cursor /\ r.key = list.cursor.key
    OBVIOUS
  <2>1. list.name # "paper"
    BY DEF CursorPage, ListTasks, ListTemplates, ListStrategies, ListPublicStrategies,
           ListRejectedSignals, GetRealPositions, GetResultTrades, NextPage, Refuse
  <2>2. QED
    BY <2>1, CursorPageSteps DEF RepeatsTies
<1>2. QED
  BY <1>1, ListInvariant, PTL DEF ListSpec, NoRowTwice
=============================================================================
