---------------------------- MODULE TradingBook ----------------------------
(***************************************************************************)
(* The rows a user trades with: trading accounts, their strategies with    *)
(* their portfolios, the backtest strategies, and the paper portfolios'    *)
(* ledgers.  A call of the API reads, validates and writes in separate     *)
(* awaited steps, and several are in flight at a time.  The trading engine *)
(* is another program: it opens and closes positions of live strategies.   *)
(*                                                                         *)
(* Abstractions.  All rows belong to the calling user (the first query of  *)
(* every call filters by user), except that a public strategy may be       *)
(* copied.  Trading parameters without influence on these rules are left   *)
(* out.  A paper position ties up one unit of the available balance.       *)
(* Backtest strategies are rows owned by Templates: a name and flags only. *)
(***************************************************************************)
EXTENDS Integers, FiniteSets

CONSTANTS
    Calls,              \* requests that may be in flight at the same time
    Strategies,         \* ids of rows
    Accounts, Templates,
    Names,
    UpdateDtos,         \* bodies of update calls
    Populations,        \* rows and account names the system may start with
    Capital,            \* initial_capital
    MaxRequests,        \* bound: requests begun
    MaxTrades,          \* bound: positions opened by the engine
    None

VARIABLES
    accountName,        \* the name of each trading account, None without one
    row,                \* strategies and backtest strategies
    ledger,             \* the paper portfolio of each strategy
    open,               \* strategies with an open position
    call,               \* the requests in flight
    requests, trades,
    raced,              \* strategies written by a call that met another one
    overwritten         \* portfolios written over what the engine had booked

vars == <<accountName, row, ledger, open, call, requests, trades, raced, overwritten>>

Modes == {"REAL", "PAPER"}

Row == [state : {"none", "active", "deleted", "gone"}, owner : Accounts \cup {Templates, None},
        name : Names \cup {None}, live : BOOLEAN, mode : Modes, public : BOOLEAN,
        archived : BOOLEAN, portfolios : SUBSET Modes]

Ledger == [balance : Int, available : Int, deposits : Nat, withdrawals : Nat, realized : Int]

\* The system starts with active rows, no two of the same name, and no backtest strategy
\* is live.
ASSUME BookAssumption ==
    /\ IsFiniteSet(Calls) /\ Calls # {}
    /\ Capital \in Nat
    /\ Templates \notin Accounts
    /\ None \notin Names \cup Strategies \cup Accounts \cup {Templates}
    /\ None \notin BOOLEAN /\ None \notin Modes
    /\ UpdateDtos \subseteq [name : Names \cup {None}, live : BOOLEAN \cup {None},
                            mode : Modes \cup {None}, public : BOOLEAN \cup {None}]
    /\ \A p \in Populations :
          /\ p.row \in [Strategies -> Row] /\ p.accountName \in [Accounts -> Names \cup {None}]
          /\ \A s \in Strategies :
                /\ \/ p.row[s].state = "none" /\ p.row[s].owner = None
                   \/ p.row[s].state = "active" /\ p.row[s].owner # None
                /\ p.row[s].owner = Templates => ~p.row[s].live
          /\ \A s, t \in Strategies :
                p.row[s].state = "active" /\ p.row[t].state = "active"
                /\ p.row[s].owner = p.row[t].owner /\ p.row[s].name = p.row[t].name => s = t

NoRow == [state |-> "none", owner |-> None, name |-> None, live |-> FALSE, mode |-> "PAPER",
          public |-> FALSE, archived |-> FALSE, portfolios |-> {}]

FreshLedger == [balance |-> Capital, available |-> Capital, deposits |-> 0, withdrawals |-> 0,
                realized |-> 0]

Idle == [step |-> "idle"]

BookInit ==
    /\ \E p \in Populations : row = p.row /\ accountName = p.accountName
    /\ ledger = [s \in Strategies |-> FreshLedger]
    /\ open = {}
    /\ call = [c \in Calls |-> Idle]
    /\ requests = 0
    /\ trades = 0
    /\ raced = {}
    /\ overwritten = {}

---------------------------------------------------------------------------
(* Calls in flight.  s is the strategy a call is about (for a creation the *)
(* id it will have), None for a call about an account.  alone says that no *)
(* other call about the same rows was in flight since the call began.      *)

Busy(c) == call[c].step # "idle"

Meets(k, s, owner) ==
    /\ k.step # "idle"
    /\ k.s = s \/ (k.s = None /\ k.owner = owner) \/ (s = None /\ k.owner = owner)

Begin(c, op, step, s, owner, data) ==
    /\ ~Busy(c)
    /\ requests < MaxRequests
    /\ requests' = requests + 1
    /\ call' = [d \in Calls |->
          IF d = c
          THEN [op |-> op, step |-> step, s |-> s, owner |-> owner, data |-> data,
                alone |-> \A e \in Calls : ~Meets(call[e], s, owner)]
          ELSE IF Meets(call[d], s, owner) THEN [call[d] EXCEPT !.alone = FALSE] ELSE call[d]]

Proceed(c, step) ==
    /\ call' = [call EXCEPT ![c].step = step]
    /\ UNCHANGED requests

End(c) ==
    /\ call' = [call EXCEPT ![c] = Idle]
    /\ UNCHANGED requests

\* A query fails, or the process goes down: what was written stays.
Fail(c) ==
    /\ Busy(c)
    /\ End(c)
    /\ UNCHANGED <<accountName, row, ledger, open, trades, raced, overwritten>>

Wrote(c, written) == raced' = IF call[c].alone THEN raced ELSE raced \cup written

At(c, op, step) == Busy(c) /\ call[c].op = op /\ call[c].step = step

NameTakenByDeleted(owner, name) ==
    \E t \in Strategies : row[t].state = "deleted" /\ row[t].owner = owner /\ row[t].name = name
NameTaken(owner, name) ==
    \E t \in Strategies : row[t].state = "active" /\ row[t].owner = owner /\ row[t].name = name

Reserved(s) == \E d \in Calls : Busy(d) /\ call[d].s = s

---------------------------------------------------------------------------
(* createStrategy and copyStrategy, and their likes for backtest           *)
(* strategies.  data is the new row; a copy makes its own checks of the    *)
(* account and the name before it calls createStrategy, which repeats them.*)

NewRow(owner, name, live, mode, public) ==
    [state |-> "active", owner |-> owner, name |-> name, live |-> live, mode |-> mode,
     public |-> public, archived |-> FALSE,
     portfolios |-> IF owner = Templates THEN {} ELSE {mode}]

\* The account is read first.
CreateStrategy(c) ==
    \E s \in Strategies, a \in Accounts, n \in Names, live \in BOOLEAN, mode \in Modes :
        /\ row[s].state = "none" /\ ~Reserved(s)
        /\ accountName[a] # None
        /\ Begin(c, "create", "name", s, a, NewRow(a, n, live, mode, FALSE))
        /\ UNCHANGED <<accountName, row, ledger, open, trades, raced, overwritten>>

\* The source must be public and not deleted.
CopyStrategy(c) ==
    \E source, s \in Strategies, a \in Accounts, n \in Names :
        /\ row[source].state = "active" /\ row[source].public
        /\ row[s].state = "none" /\ ~Reserved(s)
        /\ Begin(c, "copy", "account", s, a, NewRow(a, n, FALSE, "PAPER", FALSE))
        /\ UNCHANGED <<accountName, row, ledger, open, trades, raced, overwritten>>

\* copyStrategy's queries of the account and the name; then createStrategy's first.
CopyChecks(c) ==
    /\ \/ /\ At(c, "copy", "account")
          /\ IF accountName[call[c].owner] # None THEN Proceed(c, "copyName") ELSE End(c)
       \/ /\ At(c, "copy", "copyName")
          /\ IF NameTaken(call[c].owner, call[c].data.name) THEN End(c) ELSE Proceed(c, "accountAgain")
       \/ /\ At(c, "copy", "accountAgain")
          /\ IF accountName[call[c].owner] # None THEN Proceed(c, "name") ELSE End(c)
    /\ UNCHANGED <<accountName, row, ledger, open, trades, raced, overwritten>>

CreateTemplate(c) ==
    \E s \in Strategies, n \in Names :
        /\ row[s].state = "none" /\ ~Reserved(s)
        /\ Begin(c, "create", "name", s, Templates, NewRow(Templates, n, FALSE, "PAPER", FALSE))
        /\ UNCHANGED <<accountName, row, ledger, open, trades, raced, overwritten>>

CheckName(c) ==
    /\ At(c, "create", "name") \/ At(c, "copy", "name")
    /\ IF NameTaken(call[c].owner, call[c].data.name) THEN End(c) ELSE Proceed(c, "insert")
    /\ UNCHANGED <<accountName, row, ledger, open, trades, raced, overwritten>>

\* Strategy and portfolio in one transaction; without its account the insert fails.
Insert(c) ==
    /\ At(c, "create", "insert") \/ At(c, "copy", "insert")
    /\ End(c)
    /\ IF call[c].owner = Templates \/ accountName[call[c].owner] # None
       THEN row' = [row EXCEPT ![call[c].s] = call[c].data] /\ Wrote(c, {call[c].s})
       ELSE UNCHANGED <<row, raced>>
    /\ UNCHANGED <<accountName, ledger, open, trades, overwritten>>

---------------------------------------------------------------------------
(* updateStrategy, with the fields of the body that are not undefined.     *)

Given(value, old) == IF value = None THEN old ELSE value

ModeAllowedWithoutStop(r, dto) == dto.mode = "REAL" => "REAL" \in r.portfolios
ModeAllowed(r, dto) ==
    /\ dto.mode # None => ~r.live
    /\ dto.mode = "REAL" => "REAL" \in r.portfolios

UpdateStrategy(c) ==
    \E s \in Strategies, dto \in UpdateDtos :
        /\ row[s].state = "active" /\ row[s].owner # Templates
        /\ ModeAllowed(row[s], dto)
        /\ LET renames == dto.name # None /\ dto.name # row[s].name IN
           Begin(c, "update", IF renames THEN "name" ELSE "write", s, row[s].owner, dto)
        /\ UNCHANGED <<accountName, row, ledger, open, trades, raced, overwritten>>

CheckNewName(c) ==
    /\ At(c, "update", "name")
    /\ IF NameTaken(call[c].owner, call[c].data.name) THEN End(c) ELSE Proceed(c, "write")
    /\ UNCHANGED <<accountName, row, ledger, open, trades, raced, overwritten>>

Exists(s) == row[s].state \in {"active", "deleted"}

\* The write is by id: it also changes a row that was deleted in between.
WriteUpdate(c) ==
    /\ At(c, "update", "write")
    /\ End(c)
    /\ LET s == call[c].s
           dto == call[c].data
       IN  IF Exists(s)
           THEN /\ row' = [row EXCEPT ![s].name = Given(dto.name, @),
                                      ![s].live = Given(dto.live, @),
                                      ![s].mode = Given(dto.mode, @),
                                      ![s].public = Given(dto.public, @)]
                /\ Wrote(c, {s})
           ELSE UNCHANGED <<row, raced>>
    /\ UNCHANGED <<accountName, ledger, open, trades, overwritten>>

---------------------------------------------------------------------------
(* Deleting, archiving and unarchiving: a read with the checks, a write.   *)

MayChangeUnchecked(op, r) == TRUE
MayChange(op, r) ==
    CASE op = "delete" -> ~r.live
      [] op = "archive" -> ~r.live /\ ~r.archived
      [] op = "unarchive" -> r.archived

ChangeStrategy(c) ==
    \E s \in Strategies, op \in {"delete", "archive", "unarchive"} :
        /\ row[s].state = "active" /\ row[s].owner # Templates
        /\ MayChange(op, row[s])
        /\ Begin(c, op, "write", s, row[s].owner, None)
        /\ UNCHANGED <<accountName, row, ledger, open, trades, raced, overwritten>>

\* Backtest strategies: whether they are archived already is not checked.
ChangeTemplate(c) ==
    \E s \in Strategies, op \in {"delete", "archive", "unarchive"} :
        /\ row[s].state = "active" /\ row[s].owner = Templates
        /\ Begin(c, op, "write", s, Templates, None)
        /\ UNCHANGED <<accountName, row, ledger, open, trades, raced, overwritten>>

WriteChange(c) ==
    /\ \E op \in {"delete", "archive", "unarchive"} : At(c, op, "write")
    /\ End(c)
    /\ LET s == call[c].s
           op == call[c].op
       IN  IF Exists(s)
           THEN /\ row' = [row EXCEPT ![s].state = IF op = "delete" THEN "deleted" ELSE @,
                                      ![s].archived = IF op = "delete" THEN @ ELSE op = "archive"]
                /\ Wrote(c, {s})
           ELSE UNCHANGED <<row, raced>>
    /\ UNCHANGED <<accountName, ledger, open, trades, overwritten>>

---------------------------------------------------------------------------
(* Trading accounts.  Their names are unique in the database, so that a    *)
(* write may fail where the check has passed.                              *)

AccountNameTaken(n) == \E a \in Accounts : accountName[a] = n

NameAccount(c) ==
    \E a \in Accounts, n \in Names :
        /\ ~AccountNameTaken(n)
        /\ Begin(c, IF accountName[a] = None THEN "createAccount" ELSE "updateAccount", "write",
                 None, a, n)
        /\ UNCHANGED <<accountName, row, ledger, open, trades, raced, overwritten>>

\* An id is new, and a row that is to be updated must still be there.
WriteAccount(c) ==
    /\ At(c, "createAccount", "write") \/ At(c, "updateAccount", "write")
    /\ End(c)
    /\ LET a == call[c].owner IN
       IF ~AccountNameTaken(call[c].data) /\ ((call[c].op = "createAccount") <=> (accountName[a] = None))
       THEN accountName' = [accountName EXCEPT ![a] = call[c].data]
       ELSE UNCHANGED accountName
    /\ UNCHANGED <<row, ledger, open, trades, raced, overwritten>>

\* Strategies still marked live and open positions refuse the deletion.
DeleteAccount(c) ==
    \E a \in Accounts :
        /\ accountName[a] # None
        /\ \A s \in Strategies : row[s].owner = a /\ Exists(s) => ~row[s].live /\ s \notin open
        /\ Begin(c, "deleteAccount", "write", None, a, None)
        /\ UNCHANGED <<accountName, row, ledger, open, trades, raced, overwritten>>

\* The database deletes the strategies, portfolios and positions with the account.
Cascade(c) ==
    /\ At(c, "deleteAccount", "write")
    /\ End(c)
    /\ LET a == call[c].owner
           dropped == {s \in Strategies : row[s].owner = a /\ Exists(s)}
       IN  /\ accountName' = [accountName EXCEPT ![a] = None]
           /\ row' = [s \in Strategies |->
                        IF s \in dropped THEN [row[s] EXCEPT !.state = "gone"] ELSE row[s]]
           /\ Wrote(c, dropped)
    /\ UNCHANGED <<ledger, open, trades, overwritten>>

---------------------------------------------------------------------------
(* updatePortfolio: the new amounts come from one read, and all are        *)
(* written.  data is that read, once it is changed.                        *)

HasLedger(s) == Exists(s) /\ "PAPER" \in row[s].portfolios

MovedBalanceOnly(l, deposit, withdrawal) ==
    [l EXCEPT !.balance = @ + deposit - withdrawal,
              !.available = @ + deposit - withdrawal,
              !.deposits = @ + deposit]
Moved(l, deposit, withdrawal) ==
    [l EXCEPT !.balance = @ + deposit - withdrawal,
              !.available = @ + deposit - withdrawal,
              !.deposits = @ + deposit,
              !.withdrawals = @ + withdrawal]

UpdatePortfolio(c) ==
    \E s \in Strategies, move \in {<<1, 0>>, <<0, 1>>, <<0, 2>>} :
        /\ HasLedger(s)
        /\ move[2] <= ledger[s].available
        /\ Begin(c, "portfolio", "write", s, row[s].owner, Moved(ledger[s], move[1], move[2]))
        /\ UNCHANGED <<accountName, row, ledger, open, trades, raced, overwritten>>

\* realized_pnl, and whatever the engine keeps besides, is not written.
WritePortfolio(c) ==
    /\ At(c, "portfolio", "write")
    /\ End(c)
    /\ LET s == call[c].s
           new == call[c].data
       IN  IF HasLedger(s)
           THEN /\ ledger' = [ledger EXCEPT ![s] = [new EXCEPT !.realized = ledger[s].realized]]
                /\ overwritten' = IF new.realized = ledger[s].realized THEN overwritten
                                  ELSE overwritten \cup {s}
           ELSE UNCHANGED <<ledger, overwritten>>
    /\ UNCHANGED <<accountName, row, open, trades, raced>>

---------------------------------------------------------------------------
(* The trading engine.                                                     *)

OpenPosition(s) ==
    /\ trades < MaxTrades
    /\ Exists(s) /\ row[s].live /\ s \notin open
    /\ ledger[s].available > 0
    /\ trades' = trades + 1
    /\ open' = open \cup {s}
    /\ ledger' = [ledger EXCEPT ![s].available = @ - 1]
    /\ call' = [d \in Calls |-> IF Meets(call[d], s, row[s].owner)
                               THEN [call[d] EXCEPT !.alone = FALSE] ELSE call[d]]
    /\ UNCHANGED <<accountName, row, requests, raced, overwritten>>

ClosePosition(s) ==
    /\ s \in open /\ Exists(s)
    /\ open' = open \ {s}
    /\ \E pnl \in {-1, 1} :
          ledger' = [ledger EXCEPT ![s].balance = @ + pnl,
                                   ![s].available = @ + 1 + pnl,
                                   ![s].realized = @ + pnl]
    /\ UNCHANGED <<accountName, row, call, requests, trades, raced, overwritten>>

---------------------------------------------------------------------------
NewCall(c) ==
    \/ CreateStrategy(c) \/ CopyStrategy(c) \/ CreateTemplate(c) \/ UpdateStrategy(c)
    \/ ChangeStrategy(c) \/ ChangeTemplate(c) \/ NameAccount(c) \/ DeleteAccount(c)
    \/ UpdatePortfolio(c)

CallStep(c) ==
    \/ Fail(c) \/ CopyChecks(c) \/ CheckName(c) \/ Insert(c) \/ CheckNewName(c)
    \/ WriteUpdate(c) \/ WriteChange(c) \/ WriteAccount(c) \/ Cascade(c) \/ WritePortfolio(c)

BookNext ==
    \/ \E c \in Calls : NewCall(c) \/ CallStep(c)
    \/ \E s \in Strategies : OpenPosition(s) \/ ClosePosition(s)

BookSpec == BookInit /\ [][BookNext]_vars

---------------------------------------------------------------------------
(* Properties.                                                             *)

SameName(owner, name) ==
    {s \in Strategies : row[s].state = "active" /\ row[s].owner = owner /\ row[s].name = name}

\* The unique index does not keep active strategies apart (deleted_at is null, and
\* nulls are distinct), only the checks do: as many may share a name as there are
\* requests in flight at a time, and one on its own never creates a duplicate.
DuplicatesBounded ==
    \A o \in Accounts \cup {Templates}, n \in Names : Cardinality(SameName(o, n)) <= Cardinality(Calls)

\* A strategy that is deleted, by itself or with its account, is not marked live,
\* unless another call on it, or the engine, came between the check and the write.
GoneWasIdle ==
    \A s \in Strategies \ raced :
        /\ row[s].state \in {"deleted", "gone"} => ~row[s].live
        /\ row[s].state = "gone" => s \notin open

\* A strategy is switched to another mode only when it has the portfolio for it and is
\* not running: the portfolio however updates overlap, the stop unless they do.
ModeChangesSafely ==
    [][\A s \in Strategies :
          row[s].state = "active" /\ row'[s].mode # row[s].mode =>
              /\ row'[s].mode = "REAL" => "REAL" \in row[s].portfolios
              /\ row[s].live => s \in raced']_vars

\* Concurrent deposits and withdrawals may lose one another but leave the books
\* balanced; only profit booked by the engine between read and write is lost.
LedgerBalances ==
    \A s \in Strategies \ overwritten :
        ledger[s].balance =
            Capital + ledger[s].deposits - ledger[s].withdrawals + ledger[s].realized

Owners == Accounts \cup {Templates}

\* The calls in flight, with what they carry.
Creation == [op : {"create", "copy"}, step : {"account", "copyName", "accountAgain", "name", "insert"},
             s : Strategies, owner : Owners, data : Row, alone : BOOLEAN]
Update == [op : {"update"}, step : {"name", "write"}, s : Strategies, owner : Accounts,
           data : UpdateDtos, alone : BOOLEAN]
Change == [op : {"delete", "archive", "unarchive"}, step : {"write"}, s : Strategies,
           owner : Owners, data : {None}, alone : BOOLEAN]
Movement == [op : {"portfolio"}, step : {"write"}, s : Strategies, owner : Owners,
             data : Ledger, alone : BOOLEAN]
Naming == [op : {"createAccount", "updateAccount"}, step : {"write"}, s : {None},
           owner : Accounts, data : Names, alone : BOOLEAN]
Deletion == [op : {"deleteAccount"}, step : {"write"}, s : {None}, owner : Accounts,
             data : {None}, alone : BOOLEAN]

CallType == {Idle} \cup Creation \cup Update \cup Change \cup Movement \cup Naming \cup Deletion

TypeOK ==
    /\ accountName \in [Accounts -> Names \cup {None}]
    /\ row \in [Strategies -> Row]
    /\ ledger \in [Strategies -> Ledger]
    /\ open \subseteq Strategies
    /\ call \in [Calls -> CallType]
    /\ requests \in Nat /\ trades \in Nat
    /\ raced \subseteq Strategies /\ overwritten \subseteq Strategies
=============================================================================
