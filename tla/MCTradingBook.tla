--------------------------- MODULE MCTradingBook ---------------------------
(***************************************************************************)
(* An instance of TradingBook: one trading account with a strategy in      *)
(* different states, free ids for two more rows, and any three requests,   *)
(* two of them at a time.                                                  *)
(***************************************************************************)
EXTENDS TradingBook, TLC

CONSTANTS s1, s2, s3, a1, n1, n2, c1, c2

Symmetry == Permutations(Calls)

Body(name, live, mode, public) == [name |-> name, live |-> live, mode |-> mode, public |-> public]

MCUpdateDtos == {
    Body(n2, None, None, None),         \* rename
    Body(None, TRUE, None, None),       \* start
    Body(None, FALSE, None, TRUE),      \* stop and publish
    Body(None, TRUE, "REAL", None)}     \* switch and start

Existing(live, portfolios, public) ==
    [state |-> "active", owner |-> a1, name |-> n1, live |-> live, mode |-> "PAPER",
     public |-> public, archived |-> FALSE, portfolios |-> portfolios]

Started(first) ==
    [row |-> [s \in Strategies |-> IF s = s1 THEN first ELSE NoRow],
     accountName |-> [a \in Accounts |-> n1]]

MCPopulations == {
    Started(NoRow),
    Started(Existing(TRUE, {"PAPER"}, FALSE)),
    Started(Existing(FALSE, {"PAPER", "REAL"}, TRUE))}
=============================================================================
