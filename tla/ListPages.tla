----------------------------- MODULE ListPages -----------------------------
(***************************************************************************)
(* Paging through a list while its rows change.  Seven lists of the API    *)
(* hand Prisma the last row's id as cursor (CursorPage); the list of paper *)
(* positions and trades merges two tables and cuts the page itself         *)
(* (ReadOpen, ReadClosed).                                                 *)
(*                                                                         *)
(* Abstractions.  table holds the rows that pass the list's filter; its    *)
(* conditions are not told apart.  A row is its id, the value it is sorted *)
(* by and the table it is in.  Nothing but that value orders the rows: of  *)
(* rows with equal values, each query returns first whichever it likes.    *)
(* Other calls and the trading engine add rows, take rows out of the       *)
(* filter (archived, deleted, unpublished, closed) and put them back.      *)
(* The marketplace's order by performance is left out.                     *)
(***************************************************************************)
EXTENDS Integers, FiniteSets

CONSTANTS
    ListCases,          \* a list, its order and the rows it starts with
    Limit,              \* rows per page
    MaxRowId,           \* bound: no row is added beyond this id
    Nil                 \* null

Row == [id : Nat, key : Int \cup {Nil}, open : BOOLEAN]

\* Rows are numbered in the order in which they were added.
IsList(case) ==
    /\ case.order \in {"asc", "desc"}
    /\ IsFiniteSet(case.rows) /\ case.rows \subseteq Row
    /\ \A r \in case.rows : r.id \in 1..Cardinality(case.rows)
    /\ \A r, q \in case.rows : r.id = q.id => r = q

ASSUME ListAssumption ==
    /\ Limit \in Nat \ {0} /\ MaxRowId \in Nat
    /\ Nil \notin Int \cup Row
    /\ \A case \in ListCases : IsList(case)

VARIABLES
    table,
    left,               \* rows that left the filter and may come back
    created,            \* the id of the newest row ever added
    list                \* the client's progress through the pages

pagesVars == <<table, left, created, list>>

PagesInit ==
    \E case \in ListCases :
        /\ table = case.rows
        /\ left = {}
        /\ created = Cardinality(case.rows)
        /\ list = [name |-> case.name, order |-> case.order,
                   state |-> "idle", cursor |-> Nil,
                   page |-> {}, shown |-> {}, open |-> {},
                   cuts |-> {},             \* the values of the cursor rows so far
                   start |-> case.rows,     \* the rows there all the time
                   cursorLeft |-> FALSE]    \* a cursor row was no longer listed

---------------------------------------------------------------------------
(* The order of the rows.                                                  *)

\* By value, null last.  The stable sort of the two paper tables leaves the open ones
\* first among equals.
Precedes(r, q) ==
    \/ r.key # Nil /\ q.key = Nil
    \/ /\ r.key # Nil /\ q.key # Nil
       /\ IF list.order = "asc" THEN r.key < q.key ELSE r.key > q.key
    \/ list.name = "paper" /\ r.key = q.key /\ r.open /\ ~q.open

Tied(r, q) == ~Precedes(r, q) /\ ~Precedes(q, r)

\* What take: k may leave of the rows, and which of them may come last.
Tops(k, rows) ==
    {top \in SUBSET rows :
        /\ Cardinality(top) = IF Cardinality(rows) < k THEN Cardinality(rows) ELSE k
        /\ \A r \in top, q \in rows : Precedes(q, r) => q \in top}

Lasts(rows) == {r \in rows : \A q \in rows : ~Precedes(r, q)}

\* What may come after a row: all that the order puts there, and any of its equals.
Following(row, rows) ==
    {{r \in rows : Precedes(row, r)} \cup ties : ties \in SUBSET {r \in rows \ {row} : Tied(row, r)}}

\* What Prisma reads from: skip: 1 drops the cursor row itself, or, if that no longer
\* passes the filter, the row that is first; a deleted cursor row yields nothing.
WithoutSkip ==
    IF list.cursor = Nil THEN {table}
    ELSE {rest \cup ({list.cursor} \cap table) : rest \in Following(list.cursor, table)}
Continuations ==
    IF list.cursor = Nil THEN {table}
    ELSE IF list.cursor \in table THEN Following(list.cursor, table)
    ELSE {{}} \cup UNION {{rest \ top : top \in Tops(1, rest)} :
                              rest \in Following(list.cursor, table)}

\* One row more than the page holds tells whether there is another page.
FetchPage(rows) == Tops(Limit, rows)
Fetch(rows) == Tops(Limit + 1, rows)

Show(rows) ==
    LET hasMore == Cardinality(rows) > Limit
    IN  \E data \in Tops(Limit, rows) :
        \E cursor \in IF hasMore THEN Lasts(data) ELSE {Nil} :
            list' = [list EXCEPT
                !.state = IF hasMore THEN "idle" ELSE "ended",
                !.cursor = cursor,
                !.page = data,
                !.shown = @ \cup data,
                !.open = {},
                !.cuts = IF hasMore THEN @ \cup {cursor.key} ELSE @,
                !.cursorLeft = @ \/ (list.cursor # Nil /\ list.cursor \notin table)]

NextPage(name) ==
    /\ list.name = name
    /\ list.state = "idle"
    /\ \E rest \in Continuations : \E rows \in Fetch(rest) : Show(rows)
    /\ UNCHANGED <<table, left, created>>

\* The row whose rows are listed is not there, or, for trades and signals, deleted.
Refuse(name) ==
    /\ list.name = name
    /\ list.state = "idle"
    /\ list' = [list EXCEPT !.state = "refused"]
    /\ UNCHANGED <<table, left, created>>

ListTasks == NextPage("tasks")
ListTemplates == NextPage("templates")
ListStrategies == NextPage("strategies")
ListPublicStrategies == NextPage("public")
ListRejectedSignals == NextPage("signals") \/ Refuse("signals")
GetRealPositions == NextPage("positions") \/ Refuse("positions")
\* Sorted by a column, ascending or descending; the rows of a result never change.
GetResultTrades == NextPage("trades") \/ Refuse("trades")

CursorPage ==
    \/ ListTasks \/ ListTemplates \/ ListStrategies \/ ListPublicStrategies
    \/ ListRejectedSignals \/ GetRealPositions \/ GetResultTrades

---------------------------------------------------------------------------
(* getPaperPositions: open positions, then closed trades, merged.          *)

ReadOpen ==
    /\ list.name = "paper"
    /\ list.state = "idle"
    /\ \E rows \in Fetch({r \in table : r.open}) :
          list' = [list EXCEPT !.state = "reading", !.open = rows]
    /\ UNCHANGED <<table, left, created>>

\* A cursor that is not among the rows read starts the list from the top.
FromCursor(rows) ==
    IF list.cursor \in rows THEN Following(list.cursor, rows) ELSE {rows}

ReadClosed ==
    /\ list.name = "paper"
    /\ list.state = "reading"
    /\ \E closed \in Fetch({r \in table : ~r.open}) :
          \E rows \in FromCursor(list.open \cup closed) : Show(rows)
    /\ UNCHANGED <<table, left, created>>

---------------------------------------------------------------------------
(* Everything else that happens to the rows.                               *)

\* The next row: created_at does not go back, but may be that of the row before.
Added(open) == {[id |-> created + 1, key |-> key, open |-> open] : key \in {created, created + 1}}

Changes(rows) ==
    /\ list.state \in {"idle", "reading"}
    /\ table' = rows
    /\ list' = [list EXCEPT !.start = @ \cap rows]

Insert ==
    /\ list.name # "trades"
    /\ created < MaxRowId
    /\ created' = created + 1
    /\ \E row \in Added(TRUE) : Changes(table \cup {row})
    /\ UNCHANGED left

Leave ==
    /\ list.name \in {"tasks", "templates", "strategies", "public", "positions"}
    /\ \E r \in table :
          /\ Changes(table \ {r})
          /\ left' = IF list.name = "positions" THEN left ELSE left \cup {r}
    /\ UNCHANGED created

\* Unarchived or published again, with the created_at it had.
Return ==
    /\ \E r \in left : Changes(table \cup {r}) /\ left' = left \ {r}
    /\ UNCHANGED created

\* The trading engine closes a position: a new trade takes the place of the row.
Close ==
    /\ list.name = "paper"
    /\ created < MaxRowId
    /\ created' = created + 1
    /\ \E r \in table, row \in Added(FALSE) :
          r.open /\ Changes((table \ {r}) \cup {row})
    /\ UNCHANGED left

PagesNext == CursorPage \/ ReadOpen \/ ReadClosed \/ Insert \/ Leave \/ Return \/ Close

ListSpec == PagesInit /\ [][PagesNext]_pagesVars

---------------------------------------------------------------------------
(* Properties.                                                             *)

\* Through all pages of a cursor list, whatever is added, leaves or comes back, a row
\* comes twice only if it has the same value as the row the last page ended with, and
\* it is never that row itself.
NoRowTwice ==
    [][CursorPage /\ list'.state # "refused" =>
        \A r \in list'.page \cap list.shown :
            list.cursor # Nil /\ r # list.cursor /\ r.key = list.cursor.key]_pagesVars

\* A cursor list misses no row that was there from its first page to its last, unless the
\* row has the same value as one a page ended with, or a row the list stood on left the
\* filter: then skip: 1 drops another.
NothingSkipped ==
    list.name # "paper" /\ list.state = "ended" /\ ~list.cursorLeft =>
        \A r \in list.start \ list.shown : r.key \in list.cuts

\* position.service.ts says of its reads "Fetch more to ensure we have enough after
\* merging": then the pages of an unchanged list would show all its rows.
EveryPaperRowListed ==
    list.name = "paper" /\ list.state = "ended" /\ table = list.start => table \subseteq list.shown
=============================================================================
