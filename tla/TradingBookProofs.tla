------------------------- MODULE TradingBookProofs -------------------------
(***************************************************************************)
(* What overlapping calls can and cannot do to the rows of TradingBook,    *)
(* for any calls, accounts, strategies, names and update bodies.           *)
(***************************************************************************)
EXTENDS TradingBook, FiniteSetTheorems, TLAPS

\* What a creation carries is an active row of its owner; backtest strategies never run.
Carried(r) ==
    r \in Creation => /\ r.data.state = "active" /\ r.data.owner = r.owner
                      /\ r.owner = Templates => ~r.data.live

Typed ==
    /\ TypeOK
    /\ \A s \in Strategies : row[s].state = "none" <=> row[s].owner = None
    /\ \A c \in Calls : Carried(call[c])

\* What the owners and carried data make of TypeOK's parts.
LEMMA TypedFacts ==
    ASSUME Typed
    PROVE  /\ call \in [Calls -> CallType] /\ row \in [Strategies -> Row]
           /\ ledger \in [Strategies -> Ledger] /\ accountName \in [Accounts -> Names \cup {None}]
           /\ \A s \in Strategies : row[s].state # "none" => row[s].owner \in Owners
           /\ \A c \in Calls : Carried(call[c])
BY DEF Typed, TypeOK, Row, Owners

\* A call that is busy is one of the six kinds, and an idle one is none of them.
LEMMA Kinds ==
    ASSUME NEW r \in CallType
    PROVE  /\ r.step # "idle" <=> r \in Creation \cup Update \cup Change \cup Movement \cup Naming \cup Deletion
           /\ r.step = "idle" => r = Idle
BY DEF CallType, Idle, Creation, Update, Change, Movement, Naming, Deletion

\* Losing the claim to be alone changes nothing else.
LEMMA Disturbed ==
    ASSUME NEW r \in CallType, r.step # "idle", NEW x, x = [r EXCEPT !.alone = FALSE]
    PROVE  /\ x \in CallType /\ x.step = r.step /\ x.op = r.op /\ x.s = r.s /\ x.owner = r.owner
           /\ x.data = r.data /\ x.alone = FALSE
           /\ x \in Creation <=> r \in Creation
           /\ x \in Update <=> r \in Update
           /\ x \in Change <=> r \in Change
           /\ x \in Movement <=> r \in Movement
           /\ x \in Naming <=> r \in Naming
           /\ x \in Deletion <=> r \in Deletion
<1>1. r \in Creation \cup Update \cup Change \cup Movement \cup Naming \cup Deletion
  BY Kinds
<1>2. CASE r \in Creation
  BY <1>2 DEF CallType, Creation, Update, Change, Movement, Naming, Deletion
<1>3. CASE r \in Update
  BY <1>3 DEF CallType, Creation, Update, Change, Movement, Naming, Deletion
<1>4. CASE r \in Change
  BY <1>4 DEF CallType, Creation, Update, Change, Movement, Naming, Deletion
<1>5. CASE r \in Movement
  BY <1>5 DEF CallType, Creation, Update, Change, Movement, Naming, Deletion
<1>6. CASE r \in Naming
  BY <1>6 DEF CallType, Creation, Update, Change, Movement, Naming, Deletion
<1>7. CASE r \in Deletion
  BY <1>7 DEF CallType, Creation, Update, Change, Movement, Naming, Deletion
<1>8. QED
  BY <1>1, <1>2, <1>3, <1>4, <1>5, <1>6, <1>7

\* A step of a call under way changes its step only.
LEMMA Stepped ==
    ASSUME NEW r \in CallType, NEW step, NEW x, x = [r EXCEPT !.step = step],
           \/ r \in Creation /\ step \in {"copyName", "accountAgain", "name", "insert"}
           \/ r \in Update /\ step = "write"
    PROVE  /\ x \in CallType /\ x.step = step /\ x.op = r.op /\ x.s = r.s /\ x.owner = r.owner
           /\ x.data = r.data /\ x.alone = r.alone
           /\ x \in Creation <=> r \in Creation
           /\ x \in Update <=> r \in Update
           /\ x \notin Change \cup Movement \cup Naming \cup Deletion
BY DEF CallType, Creation, Update, Change, Movement, Naming, Deletion

---------------------------------------------------------------------------
(* How calls move: each stays what it is, up to its step and its claim to  *)
(* be alone, ends, or has just begun.                                      *)

SameCall(x, r) ==
    /\ r.step # "idle" /\ x.step # "idle"
    /\ x.op = r.op /\ x.s = r.s /\ x.owner = r.owner /\ x.data = r.data
    /\ x.alone => r.alone
    /\ x \in Creation <=> r \in Creation
    /\ x \in Update <=> r \in Update
    /\ x \in Change <=> r \in Change
    /\ x \in Movement <=> r \in Movement
    /\ x \in Naming <=> r \in Naming
    /\ x \in Deletion <=> r \in Deletion

Remains(x, r) == x \in CallType /\ (x = Idle \/ SameCall(x, r))

LEMMA SameIsTyped ==
    ASSUME Typed, NEW d \in Calls, NEW x, Remains(x, call[d])
    PROVE  x \in CallType /\ Carried(x)
<1>1. Idle \notin Creation
  BY DEF Idle, Creation
<1>2. QED
  BY <1>1, TypedFacts DEF Remains, SameCall, Carried

LEMMA Reflexive ==
    ASSUME Typed, NEW d \in Calls
    PROVE  Remains(call[d], call[d])
<1>1. call[d] \in CallType
  BY TypedFacts
<1>2. QED
  BY <1>1, Kinds DEF Remains, SameCall

LEMMA EndedCalls ==
    ASSUME Typed, NEW c \in Calls, End(c), NEW d \in Calls
    PROVE  call'[d] = IF d = c THEN Idle ELSE call[d]
BY TypedFacts DEF End

LEMMA DisturbedCalls ==
    ASSUME Typed, NEW d \in Calls, call[d].step # "idle"
    PROVE  /\ Remains([call[d] EXCEPT !.alone = FALSE], call[d])
           /\ [call[d] EXCEPT !.alone = FALSE].alone = FALSE
           /\ [call[d] EXCEPT !.alone = FALSE].step = call[d].step
<1>1. call[d] \in CallType
  BY TypedFacts
<1>2. PICK x : x = [call[d] EXCEPT !.alone = FALSE]
  OBVIOUS
<1>3. Remains(x, call[d]) /\ x.alone = FALSE /\ x.step = call[d].step
  <2>1. PICK r \in CallType : r = call[d]
    BY <1>1
  <2>2. x = [r EXCEPT !.alone = FALSE] /\ r.step # "idle"
    BY <1>2, <2>1
  <2>3. /\ x \in CallType /\ x.step = r.step /\ x.op = r.op /\ x.s = r.s /\ x.owner = r.owner
        /\ x.data = r.data /\ x.alone = FALSE
        /\ x \in Creation <=> r \in Creation
        /\ x \in Update <=> r \in Update
        /\ x \in Change <=> r \in Change
        /\ x \in Movement <=> r \in Movement
        /\ x \in Naming <=> r \in Naming
        /\ x \in Deletion <=> r \in Deletion
    BY <2>2, Disturbed
  <2>4. QED
    BY <2>1, <2>2, <2>3 DEF Remains, SameCall
<1>4. QED
  BY <1>2, <1>3

\* Whom a new call meets loses the claim to be alone, and so does the new call.
LEMMA BegunCalls ==
    ASSUME Typed, NEW c \in Calls, NEW op, NEW step, NEW s, NEW owner, NEW data,
           Begin(c, op, step, s, owner, data), NEW d \in Calls
    PROVE  /\ call[c].step = "idle"
           /\ d = c => /\ call'[c].op = op /\ call'[c].step = step /\ call'[c].s = s
                       /\ call'[c].owner = owner /\ call'[c].data = data
           /\ d # c => Remains(call'[d], call[d])
           /\ d # c /\ Meets(call[d], s, owner) => call'[d].alone = FALSE
<1>1. call[c].step = "idle"
  BY DEF Begin, Busy
<1>2. CASE d = c
  BY <1>1, <1>2 DEF Begin
<1>3. CASE d # c /\ Meets(call[d], s, owner)
  <2>1. call'[d] = [call[d] EXCEPT !.alone = FALSE] /\ call[d].step # "idle"
    BY <1>3 DEF Begin, Meets
  <2>2. QED
    BY <1>1, <1>3, <2>1, DisturbedCalls
<1>4. CASE d # c /\ ~Meets(call[d], s, owner)
  <2>1. call'[d] = call[d]
    BY <1>4 DEF Begin
  <2>2. QED
    BY <1>1, <1>4, <2>1, Reflexive
<1>5. QED
  BY <1>2, <1>3, <1>4

\* What a call has checked when it begins.
Checked(r) ==
    /\ r \in Creation => row[r.s].state = "none" /\ ~Reserved(r.s) /\ r.step # "insert"
    /\ r \in Update \cup Change => row[r.s].state = "active" /\ row[r.s].owner = r.owner
    /\ r \in Update => /\ ModeAllowed(row[r.s], r.data)
                       /\ r.step = "write" => r.data.name \in {None, row[r.s].name}
    /\ r \in Change => (r.op = "delete" /\ r.owner # Templates => ~row[r.s].live)
    /\ r \in Movement => /\ Exists(r.s) /\ row[r.s].owner = r.owner
                         /\ \E move \in {<<1, 0>>, <<0, 1>>, <<0, 2>>} :
                               r.data = Moved(ledger[r.s], move[1], move[2])
    /\ r \in Deletion => \A s \in Strategies :
          row[s].owner = r.owner /\ Exists(s) => ~row[s].live /\ s \notin open

LEMMA RecordIs ==
    ASSUME NEW op, NEW step, NEW s, NEW owner, NEW data, NEW b \in BOOLEAN,
           NEW r, r = [op |-> op, step |-> step, s |-> s, owner |-> owner, data |-> data, alone |-> b]
    PROVE  /\ r \in Creation <=> /\ op \in {"create", "copy"} /\ s \in Strategies /\ owner \in Owners /\ data \in Row
                                 /\ step \in {"account", "copyName", "accountAgain", "name", "insert"}
           /\ r \in Update <=> /\ op = "update" /\ step \in {"name", "write"} /\ s \in Strategies
                               /\ owner \in Accounts /\ data \in UpdateDtos
           /\ r \in Change <=> /\ op \in {"delete", "archive", "unarchive"} /\ step = "write" /\ s \in Strategies
                               /\ owner \in Owners /\ data = None
           /\ r \in Movement <=> /\ op = "portfolio" /\ step = "write" /\ s \in Strategies
                                 /\ owner \in Owners /\ data \in Ledger
           /\ r \in Naming <=> /\ op \in {"createAccount", "updateAccount"} /\ step = "write" /\ s = None
                               /\ owner \in Accounts /\ data \in Names
           /\ r \in Deletion <=> /\ op = "deleteAccount" /\ step = "write" /\ s = None
                                 /\ owner \in Accounts /\ data = None
           /\ r.op = op /\ r.step = step /\ r.s = s /\ r.owner = owner /\ r.data = data
BY DEF Creation, Update, Change, Movement, Naming, Deletion

\* The record of a new call, whatever its kind.
LEMMA NewRecord ==
    ASSUME Typed, NEW c \in Calls, NEW op, NEW step, NEW s, NEW owner, NEW data,
           Begin(c, op, step, s, owner, data)
    PROVE  \E b \in BOOLEAN : call'[c] = [op |-> op, step |-> step, s |-> s, owner |-> owner,
                                         data |-> data, alone |-> b]
<1>1. call'[c] = [op |-> op, step |-> step, s |-> s, owner |-> owner, data |-> data,
                  alone |-> \A e \in Calls : ~Meets(call[e], s, owner)]
  BY DEF Begin
<1>2. (\A e \in Calls : ~Meets(call[e], s, owner)) \in BOOLEAN
  OBVIOUS
<1>3. QED
  BY <1>1, <1>2

LEMMA NewCreation ==
    ASSUME Typed, NEW c \in Calls, CreateStrategy(c) \/ CopyStrategy(c) \/ CreateTemplate(c)
    PROVE  call'[c] \in Creation /\ Carried(call'[c]) /\ Checked(call'[c])
<1>1. PICK op \in {"create", "copy"}, step \in {"name", "account"}, s \in Strategies,
           owner \in Owners, data \in Row :
        /\ Begin(c, op, step, s, owner, data)
        /\ row[s].state = "none" /\ ~Reserved(s)
        /\ data.state = "active" /\ data.owner = owner
        /\ owner = Templates => ~data.live
  <2>1. CASE CreateStrategy(c)
    <3>1. PICK s \in Strategies, a \in Accounts, n \in Names, live \in BOOLEAN, mode \in Modes :
             /\ row[s].state = "none" /\ ~Reserved(s)
             /\ Begin(c, "create", "name", s, a, NewRow(a, n, live, mode, FALSE))
      BY <2>1 DEF CreateStrategy
    <3>2. a \in Owners /\ a # Templates /\ {mode} \in SUBSET Modes
      BY BookAssumption DEF Owners
    <3>3. PICK data :
             data = [state |-> "active", owner |-> a, name |-> n, live |-> live, mode |-> mode,
                     public |-> FALSE, archived |-> FALSE, portfolios |-> {mode}]
      OBVIOUS
    <3>4. Begin(c, "create", "name", s, a, data)
      BY <3>1, <3>2, <3>3 DEF NewRow
    <3>5. /\ data.state = "active" /\ data.owner = a /\ data.name = n /\ data.mode = mode
          /\ data.portfolios = {mode}
      BY <3>3
    <3>6. data.live \in BOOLEAN /\ data.public \in BOOLEAN /\ data.archived \in BOOLEAN
      BY <3>3
    <3>7. data = [state |-> data.state, owner |-> data.owner, name |-> data.name, live |-> data.live,
                  mode |-> data.mode, public |-> data.public, archived |-> data.archived,
                  portfolios |-> data.portfolios]
      BY <3>3
    <3>8. data \in Row
      BY <3>2, <3>5, <3>6, <3>7 DEF Row, Owners
    <3>9. QED
      BY <3>1, <3>2, <3>4, <3>5, <3>6, <3>8
  <2>2. CASE CopyStrategy(c)
    <3>1. PICK s \in Strategies, a \in Accounts, n \in Names :
             /\ row[s].state = "none" /\ ~Reserved(s)
             /\ Begin(c, "copy", "account", s, a, NewRow(a, n, FALSE, "PAPER", FALSE))
      BY <2>2 DEF CopyStrategy
    <3>2. a \in Owners /\ a # Templates /\ {"PAPER"} \in SUBSET Modes /\ "PAPER" \in Modes
      BY BookAssumption DEF Owners, Modes
    <3>3. PICK data :
             data = [state |-> "active", owner |-> a, name |-> n, live |-> FALSE, mode |-> "PAPER",
                     public |-> FALSE, archived |-> FALSE, portfolios |-> {"PAPER"}]
      OBVIOUS
    <3>4. Begin(c, "copy", "account", s, a, data)
      BY <3>1, <3>2, <3>3 DEF NewRow
    <3>5. /\ data.state = "active" /\ data.owner = a /\ data.name = n /\ data.mode = "PAPER"
          /\ data.portfolios = {"PAPER"}
      BY <3>3
    <3>6. data.live \in BOOLEAN /\ data.public \in BOOLEAN /\ data.archived \in BOOLEAN /\ ~data.live
      BY <3>3
    <3>7. data = [state |-> data.state, owner |-> data.owner, name |-> data.name, live |-> data.live,
                  mode |-> data.mode, public |-> data.public, archived |-> data.archived,
                  portfolios |-> data.portfolios]
      BY <3>3
    <3>8. data \in Row
      BY <3>2, <3>5, <3>6, <3>7 DEF Row, Owners
    <3>9. QED
      BY <3>1, <3>2, <3>4, <3>5, <3>6, <3>8
  <2>3. CASE CreateTemplate(c)
    <3>1. PICK s \in Strategies, n \in Names :
             /\ row[s].state = "none" /\ ~Reserved(s)
             /\ Begin(c, "create", "name", s, Templates, NewRow(Templates, n, FALSE, "PAPER", FALSE))
      BY <2>3 DEF CreateTemplate
    <3>2. Templates \in Owners /\ {} \in SUBSET Modes /\ "PAPER" \in Modes
      BY DEF Owners, Modes
    <3>3. PICK data :
             data = [state |-> "active", owner |-> Templates, name |-> n, live |-> FALSE, mode |-> "PAPER",
                     public |-> FALSE, archived |-> FALSE, portfolios |-> {}]
      OBVIOUS
    <3>4. Begin(c, "create", "name", s, Templates, data)
      BY <3>1, <3>2, <3>3 DEF NewRow
    <3>5. /\ data.state = "active" /\ data.owner = Templates /\ data.name = n /\ data.mode = "PAPER"
          /\ data.portfolios = {}
      BY <3>3
    <3>6. data.live \in BOOLEAN /\ data.public \in BOOLEAN /\ data.archived \in BOOLEAN /\ ~data.live
      BY <3>3
    <3>7. data = [state |-> data.state, owner |-> data.owner, name |-> data.name, live |-> data.live,
                  mode |-> data.mode, public |-> data.public, archived |-> data.archived,
                  portfolios |-> data.portfolios]
      BY <3>3
    <3>8. data \in Row
      BY <3>2, <3>5, <3>6, <3>7 DEF Row, Owners
    <3>9. QED
      BY <3>1, <3>2, <3>4, <3>5, <3>6, <3>8
  <2>4. QED
    BY <2>1, <2>2, <2>3
<1>4. PICK b \in BOOLEAN : call'[c] = [op |-> op, step |-> step, s |-> s, owner |-> owner,
                                       data |-> data, alone |-> b]
  BY <1>1, NewRecord
<1>5. PICK r : r = call'[c]
  OBVIOUS
<1>6. r = [op |-> op, step |-> step, s |-> s, owner |-> owner, data |-> data, alone |-> b]
  BY <1>4, <1>5
<1>7. /\ r \in Creation /\ r.s = s /\ r.owner = owner /\ r.data = data /\ r.step = step
      /\ r \notin Update /\ r \notin Change /\ r \notin Movement /\ r \notin Deletion
  BY <1>1, <1>6, RecordIs
<1>8. Carried(r)
  BY <1>1, <1>7 DEF Carried
<1>9. QED
  BY <1>1, <1>5, <1>7, <1>8 DEF Checked

LEMMA NewUpdate ==
    ASSUME Typed, NEW c \in Calls, UpdateStrategy(c)
    PROVE  call'[c] \in Update /\ Carried(call'[c]) /\ Checked(call'[c])
<1>1. PICK s, dto, step, owner :
        /\ s \in Strategies /\ dto \in UpdateDtos /\ step \in {"name", "write"}
        /\ Begin(c, "update", step, s, owner, dto)
        /\ row[s].state = "active" /\ owner = row[s].owner /\ owner # Templates
        /\ ModeAllowed(row[s], dto)
        /\ step = "write" => dto.name \in {None, row[s].name}
  BY DEF UpdateStrategy
<1>2. owner \in Accounts
  BY <1>1, TypedFacts DEF Owners
<1>3. PICK b \in BOOLEAN : call'[c] = [op |-> "update", step |-> step, s |-> s, owner |-> owner,
                                       data |-> dto, alone |-> b]
  BY <1>1, NewRecord
<1>4. PICK r : r = call'[c]
  OBVIOUS
<1>5. /\ r \in Update /\ r \notin Creation \cup Change \cup Movement \cup Naming \cup Deletion
      /\ r.s = s /\ r.owner = owner /\ r.data = dto /\ r.step = step
  BY <1>1, <1>2, <1>3, <1>4, RecordIs
<1>6. QED
  BY <1>1, <1>4, <1>5 DEF Carried, Checked

LEMMA NewChange ==
    ASSUME Typed, NEW c \in Calls, ChangeStrategy(c) \/ ChangeTemplate(c)
    PROVE  call'[c] \in Change /\ Carried(call'[c]) /\ Checked(call'[c])
<1>1. PICK s, op, owner :
        /\ s \in Strategies /\ op \in {"delete", "archive", "unarchive"}
        /\ Begin(c, op, "write", s, owner, None)
        /\ row[s].state = "active" /\ owner = row[s].owner
        /\ op = "delete" /\ owner # Templates => ~row[s].live
  BY DEF ChangeStrategy, ChangeTemplate, MayChange
<1>2. owner \in Owners
  BY <1>1, TypedFacts
<1>3. PICK b \in BOOLEAN : call'[c] = [op |-> op, step |-> "write", s |-> s, owner |-> owner,
                                       data |-> None, alone |-> b]
  BY <1>1, NewRecord
<1>4. PICK r : r = call'[c]
  OBVIOUS
<1>5. /\ r \in Change /\ r \notin Creation \cup Update \cup Movement \cup Naming \cup Deletion
      /\ r.s = s /\ r.owner = owner /\ r.op = op
  BY <1>1, <1>2, <1>3, <1>4, RecordIs
<1>6. QED
  BY <1>1, <1>4, <1>5 DEF Carried, Checked

LEMMA MovedIs ==
    ASSUME NEW l \in Ledger, NEW deposit \in Nat, NEW withdrawal \in Nat,
           NEW x, x = Moved(l, deposit, withdrawal)
    PROVE  x \in Ledger
<1>1. x = [balance |-> l.balance + deposit - withdrawal,
           available |-> l.available + deposit - withdrawal,
           deposits |-> l.deposits + deposit, withdrawals |-> l.withdrawals + withdrawal,
           realized |-> l.realized]
  BY DEF Moved, Ledger
<1>2. /\ l.balance \in Int /\ l.available \in Int /\ l.deposits \in Nat /\ l.withdrawals \in Nat
      /\ l.realized \in Int
  BY DEF Ledger
<1>3. QED
  BY <1>1, <1>2 DEF Ledger

LEMMA MovedIsTyped ==
    ASSUME NEW l \in Ledger, NEW move \in {<<1, 0>>, <<0, 1>>, <<0, 2>>}
    PROVE  Moved(l, move[1], move[2]) \in Ledger
<1>1. ASSUME NEW deposit \in Nat, NEW withdrawal \in Nat
      PROVE  Moved(l, deposit, withdrawal) \in Ledger
  BY MovedIs
<1>2. CASE move = <<1, 0>>
  <2>1. move[1] = 1 /\ move[2] = 0
    BY <1>2
  <2>2. QED
    BY <1>1, <2>1
<1>3. CASE move = <<0, 1>>
  <2>1. move[1] = 0 /\ move[2] = 1
    BY <1>3
  <2>2. QED
    BY <1>1, <2>1
<1>4. CASE move = <<0, 2>>
  <2>1. move[1] = 0 /\ move[2] = 2
    BY <1>4
  <2>2. QED
    BY <1>1, <2>1
<1>5. QED
  BY <1>2, <1>3, <1>4

LEMMA NewMovement ==
    ASSUME Typed, NEW c \in Calls, UpdatePortfolio(c)
    PROVE  call'[c] \in Movement /\ Carried(call'[c]) /\ Checked(call'[c])
<1>1. PICK s, move, owner, data :
        /\ s \in Strategies /\ move \in {<<1, 0>>, <<0, 1>>, <<0, 2>>}
        /\ Begin(c, "portfolio", "write", s, owner, data)
        /\ Exists(s) /\ owner = row[s].owner /\ data = Moved(ledger[s], move[1], move[2])
  BY DEF UpdatePortfolio, HasLedger
<1>2. owner \in Owners /\ data \in Ledger
  BY <1>1, TypedFacts, MovedIsTyped DEF Exists
<1>3. PICK b \in BOOLEAN : call'[c] = [op |-> "portfolio", step |-> "write", s |-> s,
                                       owner |-> owner, data |-> data, alone |-> b]
  BY <1>1, NewRecord
<1>4. PICK r : r = call'[c]
  OBVIOUS
<1>5. /\ r \in Movement /\ r \notin Creation \cup Update \cup Change \cup Naming \cup Deletion
      /\ r.s = s /\ r.owner = owner /\ r.data = data
  BY <1>1, <1>2, <1>3, <1>4, RecordIs
<1>6. QED
  BY <1>1, <1>4, <1>5 DEF Carried, Checked

LEMMA NewAccountCall ==
    ASSUME Typed, NEW c \in Calls, NameAccount(c) \/ DeleteAccount(c)
    PROVE  call'[c] \in Naming \cup Deletion /\ Carried(call'[c]) /\ Checked(call'[c])
<1>1. PICK a, op, data :
        /\ a \in Accounts
        /\ Begin(c, op, "write", None, a, data)
        /\ \/ op \in {"createAccount", "updateAccount"} /\ data \in Names
           \/ /\ op = "deleteAccount" /\ data = None
              /\ \A s \in Strategies : row[s].owner = a /\ Exists(s) => ~row[s].live /\ s \notin open
  BY DEF NameAccount, DeleteAccount
<1>2. PICK b \in BOOLEAN : call'[c] = [op |-> op, step |-> "write", s |-> None, owner |-> a,
                                       data |-> data, alone |-> b]
  BY <1>1, NewRecord
<1>3. PICK r : r = call'[c]
  OBVIOUS
<1>4. /\ r \in Naming \cup Deletion /\ r \notin Creation \cup Update \cup Change \cup Movement
      /\ r \in Deletion => op = "deleteAccount"
      /\ r.owner = a
  BY <1>1, <1>2, <1>3, RecordIs
<1>5. QED
  BY <1>1, <1>3, <1>4 DEF Carried, Checked

---------------------------------------------------------------------------
(* The steps of a call under way, and how a call comes out of any step.    *)

LEMMA SteppedCalls ==
    ASSUME Typed, NEW c \in Calls, NEW step, Proceed(c, step), call[c].step # "idle",
           \/ call[c] \in Creation /\ step \in {"copyName", "accountAgain", "name", "insert"}
           \/ call[c] \in Update /\ step = "write",
           NEW d \in Calls
    PROVE  Remains(call'[d], call[d])
<1>1. CASE d = c
  <2>1. PICK r \in CallType : r = call[c]
    BY TypedFacts
  <2>2. PICK x : x = [r EXCEPT !.step = step]
    OBVIOUS
  <2>3. call'[c] = x
    BY <2>1, <2>2, TypedFacts DEF Proceed
  <2>4. /\ x \in CallType /\ x.step = step /\ x.op = r.op /\ x.s = r.s /\ x.owner = r.owner
        /\ x.data = r.data /\ x.alone = r.alone
        /\ x \in Creation <=> r \in Creation
        /\ x \in Update <=> r \in Update
        /\ x \notin Change \cup Movement \cup Naming \cup Deletion
    BY <2>1, <2>2, Stepped
  <2>5. r \notin Change \cup Movement \cup Naming \cup Deletion
    BY <2>1 DEF Creation, Update, Change, Movement, Naming, Deletion
  <2>6. step # "idle" /\ r.step # "idle"
    BY <2>1
  <2>7. SameCall(x, r)
    BY <2>4, <2>5, <2>6 DEF SameCall
  <2>8. QED
    BY <1>1, <2>1, <2>3, <2>4, <2>7 DEF Remains
<1>2. CASE d # c
  BY <1>2, TypedFacts, Reflexive DEF Proceed
<1>3. QED
  BY <1>1, <1>2

LEMMA EndedRemain ==
    ASSUME Typed, NEW c \in Calls, End(c), NEW d \in Calls
    PROVE  Remains(call'[d], call[d])
<1>1. Idle \in CallType
  BY DEF CallType
<1>2. QED
  BY <1>1, EndedCalls, Reflexive DEF Remains

LEMMA CallSteps ==
    ASSUME Typed, NEW c \in Calls, CallStep(c), NEW d \in Calls
    PROVE  Remains(call'[d], call[d])
<1>1. CASE CopyChecks(c)
  <2>1. /\ call[c].op = "copy" /\ call[c].step # "idle" /\ call[c] \in CallType
        /\ \/ End(c)
           \/ \E step \in {"copyName", "accountAgain", "name", "insert"} : Proceed(c, step)
    BY <1>1, TypedFacts DEF CopyChecks, At, Busy
  <2>2. call[c] \in Creation
    BY <2>1, Kinds DEF Update, Change, Movement, Naming, Deletion
  <2>3. QED
    BY <2>1, <2>2, EndedRemain, SteppedCalls
<1>2. CASE CheckName(c)
  <2>1. /\ call[c].op \in {"create", "copy"} /\ call[c].step # "idle" /\ call[c] \in CallType
        /\ End(c) \/ Proceed(c, "insert")
    BY <1>2, TypedFacts DEF CheckName, At, Busy
  <2>2. call[c] \in Creation
    BY <2>1, Kinds DEF Update, Change, Movement, Naming, Deletion
  <2>3. QED
    BY <2>1, <2>2, EndedRemain, SteppedCalls
<1>3. CASE CheckNewName(c)
  <2>1. /\ call[c].op = "update" /\ call[c].step # "idle" /\ call[c] \in CallType
        /\ End(c) \/ Proceed(c, "write")
    BY <1>3, TypedFacts DEF CheckNewName, At, Busy
  <2>2. call[c] \in Update
    BY <2>1, Kinds DEF Creation, Change, Movement, Naming, Deletion
  <2>3. QED
    BY <2>1, <2>2, EndedRemain, SteppedCalls
<1>4. CASE Fail(c) \/ Insert(c) \/ WriteUpdate(c) \/ WriteChange(c) \/ WriteAccount(c) \/ Cascade(c)
           \/ WritePortfolio(c)
  BY <1>4, EndedRemain DEF Fail, Insert, WriteUpdate, WriteChange, WriteAccount, Cascade, WritePortfolio
<1>5. QED
  BY <1>1, <1>2, <1>3, <1>4 DEF CallStep

LEMMA Began ==
    ASSUME Typed, NEW c \in Calls, NewCall(c), NEW d \in Calls
    PROVE  /\ d # c => Remains(call'[d], call[d])
           /\ call[c].step = "idle"
           /\ call'[c] \in CallType /\ Carried(call'[c]) /\ Checked(call'[c])
           /\ UNCHANGED <<accountName, row, ledger, open, trades, raced, overwritten>>
<1>1. \E op, step, s, owner, data : Begin(c, op, step, s, owner, data)
  BY DEF NewCall, CreateStrategy, CopyStrategy, CreateTemplate, UpdateStrategy, ChangeStrategy,
         ChangeTemplate, NameAccount, DeleteAccount, UpdatePortfolio
<1>2. UNCHANGED <<accountName, row, ledger, open, trades, raced, overwritten>>
  BY DEF NewCall, CreateStrategy, CopyStrategy, CreateTemplate, UpdateStrategy, ChangeStrategy,
         ChangeTemplate, NameAccount, DeleteAccount, UpdatePortfolio
<1>3. /\ call'[c] \in Creation \cup Update \cup Change \cup Movement \cup Naming \cup Deletion
      /\ Carried(call'[c]) /\ Checked(call'[c])
  BY NewCreation, NewUpdate, NewChange, NewMovement, NewAccountCall DEF NewCall
<1>4. QED
  BY <1>1, <1>2, <1>3, BegunCalls DEF CallType

\* A call comes out of a step as it was or idle, or has just begun and found its checks true.
LEMMA Transition ==
    ASSUME Typed, BookNext, NEW d \in Calls
    PROVE  \/ Remains(call'[d], call[d])
           \/ /\ NewCall(d) /\ call[d].step = "idle"
              /\ call'[d] \in CallType /\ Carried(call'[d]) /\ Checked(call'[d])
<1>1. ASSUME NEW c \in Calls, NewCall(c)
      PROVE  \/ Remains(call'[d], call[d])
             \/ /\ NewCall(d) /\ call[d].step = "idle"
                /\ call'[d] \in CallType /\ Carried(call'[d]) /\ Checked(call'[d])
  BY <1>1, Began
<1>2. ASSUME NEW c \in Calls, CallStep(c)
      PROVE  Remains(call'[d], call[d])
  BY <1>2, CallSteps
<1>3. ASSUME NEW s \in Strategies, OpenPosition(s)
      PROVE  Remains(call'[d], call[d])
  <2>1. CASE Meets(call[d], s, row[s].owner)
    BY <1>3, <2>1, DisturbedCalls DEF OpenPosition, Meets
  <2>2. CASE ~Meets(call[d], s, row[s].owner)
    BY <1>3, <2>2, Reflexive DEF OpenPosition
  <2>3. QED
    BY <2>1, <2>2
<1>4. ASSUME NEW s \in Strategies, ClosePosition(s)
      PROVE  Remains(call'[d], call[d])
  BY <1>4, Reflexive DEF ClosePosition
<1>5. QED
  BY <1>1, <1>2, <1>3, <1>4 DEF BookNext

---------------------------------------------------------------------------
(* What the writes of a call k make of a row.                              *)

ByInsert(k, old, new) == k \in Creation /\ new = k.data

Stays(old, new) == new.owner = old.owner /\ new.portfolios = old.portfolios

ByUpdate(k, old, new) ==
    /\ k \in Update /\ old.state \in {"active", "deleted"}
    /\ Stays(old, new) /\ new.state = old.state
    /\ new.name = Given(k.data.name, old.name)
    /\ new.live = Given(k.data.live, old.live)
    /\ new.mode = Given(k.data.mode, old.mode)

ByChange(k, old, new) ==
    /\ k \in Change /\ old.state \in {"active", "deleted"}
    /\ Stays(old, new) /\ new.live = old.live /\ new.mode = old.mode /\ new.name = old.name
    /\ new.state = IF k.op = "delete" THEN "deleted" ELSE old.state

ByCascade(k, old, new) ==
    /\ k \in Deletion /\ old.state \in {"active", "deleted"} /\ old.owner = k.owner
    /\ Stays(old, new) /\ new.live = old.live /\ new.mode = old.mode /\ new.name = old.name
    /\ new.state = "gone"

\* A write of call c to row s, and what it leaves in raced.
Writes(c, s) ==
    /\ call'[c] = Idle /\ call[c].step # "idle"
    /\ raced \subseteq raced'
    /\ ~call[c].alone => s \in raced'

LEMMA InsertWrites ==
    ASSUME Typed, NEW c \in Calls, Insert(c)
    PROVE  /\ row' \in [Strategies -> Row]
           /\ \A s \in Strategies :
                 \/ row'[s] = row[s]
                 \/ /\ Writes(c, s) /\ s = call[c].s /\ call[c].step = "insert"
                    /\ ByInsert(call[c], row[s], row'[s])
<1>1. /\ call[c].op \in {"create", "copy"} /\ call[c].step = "insert"
      /\ \/ /\ row' = [row EXCEPT ![call[c].s] = call[c].data]
            /\ raced' = IF call[c].alone THEN raced ELSE raced \cup {call[c].s}
         \/ UNCHANGED row
  BY DEF Insert, At, Busy, Wrote
<1>2. call[c] \in CallType /\ row \in [Strategies -> Row] /\ call'[c] = Idle
  BY TypedFacts, EndedCalls DEF Insert
<1>3. PICK r : r = call[c]
  OBVIOUS
<1>4. r \in Creation
  BY <1>1, <1>2, <1>3, Kinds DEF Update, Change, Movement, Naming, Deletion
<1>5. r.s \in Strategies /\ r.data \in Row /\ r.step # "idle"
  BY <1>4 DEF Creation
<1>6. CASE UNCHANGED row
  BY <1>2, <1>6
<1>7. CASE /\ row' = [row EXCEPT ![r.s] = r.data]
           /\ raced' = IF r.alone THEN raced ELSE raced \cup {r.s}
  <2>1. row' \in [Strategies -> Row]
    BY <1>2, <1>5, <1>7
  <2>2. ASSUME NEW s \in Strategies, s # r.s
        PROVE  row'[s] = row[s]
    BY <1>2, <1>7, <2>2
  <2>3. row'[r.s] = r.data
    BY <1>2, <1>5, <1>7
  <2>4. Writes(c, r.s)
    BY <1>2, <1>3, <1>5, <1>7 DEF Writes
  <2>5. QED
    BY <1>1, <1>3, <1>4, <1>5, <2>1, <2>2, <2>3, <2>4 DEF ByInsert
<1>8. QED
  BY <1>1, <1>3, <1>6, <1>7

\* The row an update leaves.
LEMMA UpdatedRow ==
    ASSUME NEW k \in Update, NEW old \in Row, old.state \in {"active", "deleted"},
           NEW name, NEW live, NEW mode, NEW public,
           name = Given(k.data.name, old.name), live = Given(k.data.live, old.live),
           mode = Given(k.data.mode, old.mode), public = Given(k.data.public, old.public),
           NEW new, new = [old EXCEPT !.name = name, !.live = live, !.mode = mode, !.public = public]
    PROVE  new \in Row /\ ByUpdate(k, old, new)
<1>1. k.data \in [name : Names \cup {None}, live : BOOLEAN \cup {None},
                  mode : Modes \cup {None}, public : BOOLEAN \cup {None}]
  BY BookAssumption DEF Update
<1>2. name \in Names \cup {None} /\ live \in BOOLEAN /\ mode \in Modes /\ public \in BOOLEAN
  BY <1>1 DEF Given, Row
<1>3. /\ new.state = old.state /\ new.owner = old.owner /\ new.portfolios = old.portfolios
      /\ new.archived = old.archived
      /\ new.name = name /\ new.live = live /\ new.mode = mode /\ new.public = public
  BY DEF Row
<1>4. new \in Row
  BY <1>2 DEF Row
<1>5. QED
  BY <1>3, <1>4 DEF ByUpdate, Stays

LEMMA UpdateWrites ==
    ASSUME Typed, NEW c \in Calls, WriteUpdate(c)
    PROVE  /\ row' \in [Strategies -> Row]
           /\ \A s \in Strategies :
                 \/ row'[s] = row[s]
                 \/ /\ Writes(c, s) /\ s = call[c].s /\ call[c].step = "write"
                    /\ ByUpdate(call[c], row[s], row'[s])
<1>1. PICK r : r = call[c]
  OBVIOUS
<1>2. PICK s : s = r.s
  OBVIOUS
<1>3. /\ r.op = "update" /\ r.step = "write"
      /\ \/ /\ Exists(s)
            /\ row' = [row EXCEPT ![s].name = Given(r.data.name, @), ![s].live = Given(r.data.live, @),
                                  ![s].mode = Given(r.data.mode, @), ![s].public = Given(r.data.public, @)]
            /\ raced' = IF r.alone THEN raced ELSE raced \cup {s}
         \/ UNCHANGED row
  BY <1>1, <1>2 DEF WriteUpdate, At, Busy, Wrote
<1>4. r \in CallType /\ row \in [Strategies -> Row] /\ call'[c] = Idle
  BY <1>1, TypedFacts, EndedCalls DEF WriteUpdate
<1>5. r \in Update /\ s \in Strategies
  BY <1>2, <1>3, <1>4, Kinds DEF Creation, Update, Change, Movement, Naming, Deletion
<1>6. CASE UNCHANGED row
  BY <1>4, <1>6
<1>7. CASE /\ Exists(s)
           /\ row' = [row EXCEPT ![s].name = Given(r.data.name, @), ![s].live = Given(r.data.live, @),
                                 ![s].mode = Given(r.data.mode, @), ![s].public = Given(r.data.public, @)]
           /\ raced' = IF r.alone THEN raced ELSE raced \cup {s}
  <2>1. PICK old \in Row : old = row[s]
    BY <1>4, <1>5
  <2>2. PICK name, live, mode, public :
          /\ name = Given(r.data.name, old.name) /\ live = Given(r.data.live, old.live)
          /\ mode = Given(r.data.mode, old.mode) /\ public = Given(r.data.public, old.public)
    OBVIOUS
  <2>3. PICK new : new = [old EXCEPT !.name = name, !.live = live, !.mode = mode, !.public = public]
    OBVIOUS
  <2>4. row' = [row EXCEPT ![s] = new]
    BY <1>4, <1>5, <1>7, <2>1, <2>2, <2>3
  <2>5. new \in Row /\ ByUpdate(r, old, new)
    <3>1. old.state \in {"active", "deleted"}
      BY <1>7, <2>1 DEF Exists
    <3>2. QED
      BY <1>5, <2>2, <2>3, <3>1, UpdatedRow
  <2>6. row' \in [Strategies -> Row]
    BY <1>4, <2>4, <2>5
  <2>7. ASSUME NEW t \in Strategies, t # s
        PROVE  row'[t] = row[t]
    BY <1>4, <2>4, <2>7
  <2>8. row'[s] = new
    BY <1>4, <1>5, <2>4
  <2>9. Writes(c, s)
    BY <1>1, <1>3, <1>4, <1>7 DEF Writes
  <2>10. QED
    BY <1>1, <1>2, <1>3, <2>1, <2>5, <2>6, <2>7, <2>8, <2>9
<1>8. QED
  BY <1>3, <1>6, <1>7

LEMMA ChangeWrites ==
    ASSUME Typed, NEW c \in Calls, WriteChange(c)
    PROVE  /\ row' \in [Strategies -> Row]
           /\ \A s \in Strategies :
                 \/ row'[s] = row[s]
                 \/ Writes(c, s) /\ s = call[c].s /\ ByChange(call[c], row[s], row'[s])
<1>1. PICK r : r = call[c]
  OBVIOUS
<1>2. PICK s, op : s = r.s /\ op = r.op
  OBVIOUS
<1>3. /\ op \in {"delete", "archive", "unarchive"} /\ r.step = "write"
      /\ \/ /\ Exists(s)
            /\ row' = [row EXCEPT ![s].state = IF op = "delete" THEN "deleted" ELSE @,
                                  ![s].archived = IF op = "delete" THEN @ ELSE op = "archive"]
            /\ raced' = IF r.alone THEN raced ELSE raced \cup {s}
         \/ UNCHANGED row
  BY <1>1, <1>2 DEF WriteChange, At, Busy, Wrote
<1>4. r \in CallType /\ row \in [Strategies -> Row] /\ call'[c] = Idle
  BY <1>1, TypedFacts, EndedCalls DEF WriteChange
<1>5. r \in Change /\ s \in Strategies
  BY <1>2, <1>3, <1>4, Kinds DEF Creation, Update, Change, Movement, Naming, Deletion
<1>6. CASE UNCHANGED row
  BY <1>4, <1>6
<1>7. CASE /\ Exists(s)
           /\ row' = [row EXCEPT ![s].state = IF op = "delete" THEN "deleted" ELSE @,
                                 ![s].archived = IF op = "delete" THEN @ ELSE op = "archive"]
           /\ raced' = IF r.alone THEN raced ELSE raced \cup {s}
  <2>1. PICK old \in Row : old = row[s]
    BY <1>4, <1>5
  <2>2. PICK new : new = [old EXCEPT !.state = IF op = "delete" THEN "deleted" ELSE @,
                                     !.archived = IF op = "delete" THEN @ ELSE op = "archive"]
    OBVIOUS
  <2>3. row' = [row EXCEPT ![s] = new]
    <3>1. CASE op = "delete"
      BY <1>4, <1>5, <1>7, <2>1, <2>2, <3>1
    <3>2. CASE op = "archive"
      BY <1>4, <1>5, <1>7, <2>1, <2>2, <3>2
    <3>3. CASE op = "unarchive"
      BY <1>4, <1>5, <1>7, <2>1, <2>2, <3>3
    <3>4. QED
      BY <1>3, <3>1, <3>2, <3>3
  <2>4. new \in Row /\ ByChange(r, old, new)
    <3>1. PICK state \in {"deleted", old.state}, archived \in BOOLEAN :
            /\ state = IF op = "delete" THEN "deleted" ELSE old.state
            /\ archived = IF op = "delete" THEN old.archived ELSE op = "archive"
      BY <2>1 DEF Row
    <3>2. new = [old EXCEPT !.state = state, !.archived = archived]
      BY <2>1, <2>2, <3>1 DEF Row
    <3>3. old.state \in {"active", "deleted"}
      BY <1>7, <2>1 DEF Exists
    <3>4. /\ new.state = state /\ new.owner = old.owner /\ new.portfolios = old.portfolios
          /\ new.name = old.name /\ new.live = old.live /\ new.mode = old.mode
          /\ new \in Row
      BY <2>1, <3>1, <3>2, <3>3 DEF Row
    <3>5. QED
      BY <1>2, <1>5, <3>1, <3>3, <3>4 DEF ByChange, Stays
  <2>5. row' \in [Strategies -> Row]
    BY <1>4, <2>3, <2>4
  <2>6. ASSUME NEW t \in Strategies, t # s
        PROVE  row'[t] = row[t]
    BY <1>4, <2>3, <2>6
  <2>7. row'[s] = new
    BY <1>4, <1>5, <2>3
  <2>8. Writes(c, s)
    BY <1>1, <1>3, <1>4, <1>7 DEF Writes
  <2>9. QED
    BY <1>1, <1>2, <2>1, <2>4, <2>5, <2>6, <2>7, <2>8
<1>8. QED
  BY <1>3, <1>6, <1>7

LEMMA CascadeWrites ==
    ASSUME Typed, NEW c \in Calls, Cascade(c)
    PROVE  /\ row' \in [Strategies -> Row]
           /\ accountName' \in [Accounts -> Names \cup {None}]
           /\ \A s \in Strategies :
                 row'[s] = row[s] \/ (Writes(c, s) /\ ByCascade(call[c], row[s], row'[s]))
<1>1. PICK r : r = call[c]
  OBVIOUS
<1>2. PICK a : a = r.owner
  OBVIOUS
<1>3. PICK dropped : dropped = {s \in Strategies : row[s].owner = a /\ Exists(s)}
  OBVIOUS
<1>4. /\ r.op = "deleteAccount" /\ r.step = "write"
      /\ accountName' = [accountName EXCEPT ![a] = None]
      /\ row' = [s \in Strategies |->
                   IF s \in dropped THEN [row[s] EXCEPT !.state = "gone"] ELSE row[s]]
      /\ raced' = IF r.alone THEN raced ELSE raced \cup dropped
  BY <1>1, <1>2, <1>3 DEF Cascade, At, Busy, Wrote
<1>5. /\ r \in CallType /\ row \in [Strategies -> Row] /\ call'[c] = Idle
      /\ accountName \in [Accounts -> Names \cup {None}]
  BY <1>1, TypedFacts, EndedCalls DEF Cascade
<1>6. r \in Deletion
  BY <1>4, <1>5, Kinds DEF Creation, Update, Change, Movement, Naming
<1>7. ASSUME NEW s \in Strategies, s \in dropped
      PROVE  row'[s] \in Row /\ Writes(c, s) /\ ByCascade(r, row[s], row'[s])
  <2>1. PICK old \in Row : old = row[s]
    BY <1>5
  <2>2. row'[s] = [old EXCEPT !.state = "gone"]
    BY <1>4, <1>7, <2>1
  <2>3. old.owner = a /\ old.state \in {"active", "deleted"}
    BY <1>3, <1>7, <2>1 DEF Exists
  <2>4. PICK new : new = [old EXCEPT !.state = "gone"]
    OBVIOUS
  <2>5. new \in Row /\ ByCascade(r, old, new)
    BY <1>2, <1>6, <2>3, <2>4 DEF Row, ByCascade, Stays
  <2>6. Writes(c, s)
    BY <1>1, <1>4, <1>5, <1>7 DEF Writes
  <2>7. QED
    BY <2>1, <2>2, <2>4, <2>5, <2>6
<1>8. ASSUME NEW s \in Strategies, s \notin dropped
      PROVE  row'[s] = row[s] /\ row[s] \in Row
  BY <1>4, <1>5, <1>8
<1>9. row' \in [Strategies -> Row]
  <2>1. \A s \in Strategies : row'[s] \in Row
    BY <1>7, <1>8
  <2>2. QED
    BY <1>4, <2>1
<1>10. accountName' \in [Accounts -> Names \cup {None}]
  BY <1>4, <1>5
<1>11. QED
  BY <1>1, <1>7, <1>8, <1>9, <1>10

\* Every change of a row is a write by a call that ends with it.
LEMMA RowWrites ==
    ASSUME Typed, BookNext
    PROVE  /\ row' \in [Strategies -> Row]
           /\ raced \subseteq raced' /\ overwritten \subseteq overwritten'
           /\ \A s \in Strategies :
                 \/ row'[s] = row[s]
                 \/ \E c \in Calls :
                       /\ Writes(c, s) /\ CallStep(c)
                       /\ \/ /\ s = call[c].s
                             /\ \/ call[c].step = "insert" /\ ByInsert(call[c], row[s], row'[s])
                                \/ call[c].step = "write" /\ ByUpdate(call[c], row[s], row'[s])
                                \/ ByChange(call[c], row[s], row'[s])
                          \/ Cascade(c) /\ ByCascade(call[c], row[s], row'[s])
<1>1. raced \subseteq raced' /\ overwritten \subseteq overwritten'
  <2>1. ASSUME NEW c \in Calls, NewCall(c)
        PROVE  raced \subseteq raced' /\ overwritten \subseteq overwritten'
    BY <2>1, Began
  <2>2. ASSUME NEW c \in Calls, CallStep(c)
        PROVE  raced \subseteq raced' /\ overwritten \subseteq overwritten'
    <3>1. CASE Fail(c) \/ CopyChecks(c) \/ CheckName(c) \/ CheckNewName(c) \/ WriteAccount(c)
      BY <3>1 DEF Fail, CopyChecks, CheckName, CheckNewName, WriteAccount
    <3>2. CASE Insert(c) \/ WriteUpdate(c) \/ WriteChange(c) \/ Cascade(c)
      BY <3>2 DEF Insert, WriteUpdate, WriteChange, Cascade, Wrote
    <3>3. CASE WritePortfolio(c)
      BY <3>3 DEF WritePortfolio
    <3>4. QED
      BY <2>2, <3>1, <3>2, <3>3 DEF CallStep
  <2>3. ASSUME NEW s \in Strategies, OpenPosition(s) \/ ClosePosition(s)
        PROVE  raced \subseteq raced' /\ overwritten \subseteq overwritten'
    BY <2>3 DEF OpenPosition, ClosePosition
  <2>4. QED
    BY <2>1, <2>2, <2>3 DEF BookNext
<1>2. CASE UNCHANGED row
  BY <1>1, <1>2, TypedFacts
<1>3. ASSUME NEW c \in Calls,
             Insert(c) \/ WriteUpdate(c) \/ WriteChange(c) \/ Cascade(c)
      PROVE  /\ row' \in [Strategies -> Row]
             /\ \A s \in Strategies :
                   \/ row'[s] = row[s]
                   \/ /\ Writes(c, s) /\ CallStep(c)
                      /\ \/ /\ s = call[c].s
                            /\ \/ call[c].step = "insert" /\ ByInsert(call[c], row[s], row'[s])
                               \/ call[c].step = "write" /\ ByUpdate(call[c], row[s], row'[s])
                               \/ ByChange(call[c], row[s], row'[s])
                         \/ Cascade(c) /\ ByCascade(call[c], row[s], row'[s])
  <2>1. CallStep(c)
    BY <1>3 DEF CallStep
  <2>2. CASE Insert(c)
    BY <2>1, <2>2, InsertWrites
  <2>3. CASE WriteUpdate(c)
    BY <2>1, <2>3, UpdateWrites
  <2>4. CASE WriteChange(c)
    BY <2>1, <2>4, ChangeWrites
  <2>5. CASE Cascade(c)
    BY <2>1, <2>5, CascadeWrites
  <2>6. QED
    BY <1>3, <2>2, <2>3, <2>4, <2>5
<1>4. \/ UNCHANGED row
      \/ \E c \in Calls : Insert(c) \/ WriteUpdate(c) \/ WriteChange(c) \/ Cascade(c)
  <2>1. ASSUME NEW c \in Calls, NewCall(c)
        PROVE  UNCHANGED row
    BY <2>1, Began
  <2>2. ASSUME NEW c \in Calls, CallStep(c)
        PROVE  UNCHANGED row \/ Insert(c) \/ WriteUpdate(c) \/ WriteChange(c) \/ Cascade(c)
    BY <2>2 DEF CallStep, Fail, CopyChecks, CheckName, CheckNewName, WriteAccount, WritePortfolio
  <2>3. QED
    BY <2>1, <2>2 DEF BookNext, OpenPosition, ClosePosition
<1>5. QED
  BY <1>1, <1>2, <1>3, <1>4

---------------------------------------------------------------------------
(* The ledgers.                                                            *)

Balanced(l) == l.balance = Capital + l.deposits - l.withdrawals + l.realized

\* A movement of calls that waits to be written is balanced, unless its ledger is lost.
Books ==
    /\ LedgerBalances
    /\ \A c \in Calls : call[c] \in Movement /\ call[c].s \notin overwritten => Balanced(call[c].data)

\* What a step makes of a ledger.
LEMMA LedgerWrites ==
    ASSUME Typed, BookNext
    PROVE  /\ ledger' \in [Strategies -> Ledger]
           /\ \A s \in Strategies :
                 \/ ledger'[s] = ledger[s]
                 \/ Balanced(ledger[s]) => Balanced(ledger'[s])
                 \/ s \in overwritten'
                 \/ \E c \in Calls : call[c] \in Movement /\ s = call[c].s /\ ledger'[s] = call[c].data
<1>1. CASE UNCHANGED ledger
  BY <1>1, TypedFacts
<1>2. ASSUME NEW c \in Calls, WritePortfolio(c)
      PROVE  /\ ledger' \in [Strategies -> Ledger]
             /\ \A s \in Strategies :
                   \/ ledger'[s] = ledger[s]
                   \/ s \in overwritten'
                   \/ call[c] \in Movement /\ s = call[c].s /\ ledger'[s] = call[c].data
  <2>1. PICK r : r = call[c]
    OBVIOUS
  <2>2. PICK s : s = r.s
    OBVIOUS
  <2>3. /\ r.op = "portfolio" /\ r.step = "write"
        /\ \/ UNCHANGED ledger
           \/ /\ ledger' = [ledger EXCEPT ![s] = [r.data EXCEPT !.realized = ledger[s].realized]]
              /\ overwritten' = IF r.data.realized = ledger[s].realized THEN overwritten
                                ELSE overwritten \cup {s}
    BY <1>2, <2>1, <2>2 DEF WritePortfolio, At, Busy
  <2>4. r \in CallType /\ ledger \in [Strategies -> Ledger]
    BY <2>1, TypedFacts
  <2>5. r \in Movement /\ s \in Strategies /\ r.data \in Ledger
    BY <2>2, <2>3, <2>4, Kinds DEF Creation, Update, Change, Movement, Naming, Deletion
  <2>6. CASE UNCHANGED ledger
    BY <2>4, <2>6
  <2>7. CASE /\ ledger' = [ledger EXCEPT ![s] = [r.data EXCEPT !.realized = ledger[s].realized]]
             /\ overwritten' = IF r.data.realized = ledger[s].realized THEN overwritten
                               ELSE overwritten \cup {s}
    <3>1. PICK old \in Ledger, data \in Ledger : old = ledger[s] /\ data = r.data
      BY <2>4, <2>5
    <3>2. PICK new : new = [data EXCEPT !.realized = old.realized]
      OBVIOUS
    <3>3. new \in Ledger /\ (data.realized = old.realized => new = data)
      BY <3>1, <3>2 DEF Ledger
    <3>4. ledger' = [ledger EXCEPT ![s] = new]
      BY <2>7, <3>1, <3>2
    <3>5. data.realized # old.realized => s \in overwritten'
      BY <2>7, <3>1
    <3>6. QED
      BY <2>1, <2>2, <2>4, <2>5, <3>1, <3>3, <3>4, <3>5
  <2>8. QED
    BY <2>3, <2>6, <2>7
<1>3. ASSUME NEW s \in Strategies, OpenPosition(s) \/ ClosePosition(s)
      PROVE  /\ ledger' \in [Strategies -> Ledger]
             /\ \A t \in Strategies : ledger'[t] = ledger[t] \/ (Balanced(ledger[t]) => Balanced(ledger'[t]))
  <2>1. PICK old \in Ledger : old = ledger[s]
    BY TypedFacts
  <2>2. PICK available, pnl, new :
          /\ available \in Int /\ pnl \in Int
          /\ ledger' = [ledger EXCEPT ![s] = new]
          /\ new = [balance |-> old.balance + pnl, available |-> available,
                    deposits |-> old.deposits, withdrawals |-> old.withdrawals,
                    realized |-> old.realized + pnl]
    <3>1. CASE OpenPosition(s)
      <4>1. PICK new : new = [old EXCEPT !.available = old.available - 1]
        OBVIOUS
      <4>2. ledger' = [ledger EXCEPT ![s] = new]
        BY <2>1, <3>1, <4>1, TypedFacts DEF OpenPosition, Ledger
      <4>3. /\ new = [balance |-> old.balance + 0, available |-> old.available - 1,
                      deposits |-> old.deposits, withdrawals |-> old.withdrawals,
                      realized |-> old.realized + 0]
            /\ 0 \in Int /\ old.available - 1 \in Int
        BY <4>1 DEF Ledger
      <4>4. QED
        BY <4>2, <4>3
    <3>2. CASE ClosePosition(s)
      <4>1. PICK pnl \in {-1, 1} :
               ledger' = [ledger EXCEPT ![s].balance = @ + pnl, ![s].available = @ + 1 + pnl,
                                        ![s].realized = @ + pnl]
        BY <3>2 DEF ClosePosition
      <4>2. PICK new : new = [old EXCEPT !.balance = old.balance + pnl,
                                         !.available = old.available + 1 + pnl,
                                         !.realized = old.realized + pnl]
        OBVIOUS
      <4>3. ledger' = [ledger EXCEPT ![s] = new]
        BY <2>1, <4>1, <4>2, TypedFacts DEF Ledger
      <4>4. new = [balance |-> old.balance + pnl, available |-> old.available + 1 + pnl,
                   deposits |-> old.deposits, withdrawals |-> old.withdrawals,
                   realized |-> old.realized + pnl]
        BY <4>2 DEF Ledger
      <4>5. pnl \in Int /\ old.available + 1 + pnl \in Int
        BY <4>1 DEF Ledger
      <4>6. QED
        BY <4>3, <4>4, <4>5
    <3>3. QED
      BY <1>3, <3>1, <3>2
  <2>3. /\ old.balance \in Int /\ old.deposits \in Nat /\ old.withdrawals \in Nat
        /\ old.realized \in Int
    BY DEF Ledger
  <2>4. new \in Ledger
    BY <2>2, <2>3 DEF Ledger
  <2>5. Balanced(old) => Balanced(new)
    BY <2>2, <2>3, BookAssumption DEF Balanced
  <2>6. QED
    BY <2>1, <2>2, <2>4, <2>5, TypedFacts
<1>4. \/ UNCHANGED ledger
      \/ \E c \in Calls : WritePortfolio(c)
      \/ \E s \in Strategies : OpenPosition(s) \/ ClosePosition(s)
  <2>1. ASSUME NEW c \in Calls, NewCall(c)
        PROVE  UNCHANGED ledger
    BY <2>1, Began
  <2>2. ASSUME NEW c \in Calls, CallStep(c)
        PROVE  UNCHANGED ledger \/ WritePortfolio(c)
    BY <2>2 DEF CallStep, Fail, CopyChecks, CheckName, Insert, CheckNewName, WriteUpdate, WriteChange,
                WriteAccount, Cascade
  <2>3. QED
    BY <2>1, <2>2 DEF BookNext
<1>5. QED
  BY <1>1, <1>2, <1>3, <1>4

---------------------------------------------------------------------------
(* Types, and the owners of rows.                                          *)

LEMMA CallsAreTyped ==
    ASSUME Typed, BookNext
    PROVE  call' \in [Calls -> CallType] /\ \A c \in Calls : Carried(call'[c])
<1>1. \A d \in Calls : call'[d] \in CallType /\ Carried(call'[d])
  BY Transition, SameIsTyped DEF Remains
<1>2. call' = [d \in Calls |-> call'[d]]
  <2>1. ASSUME NEW c \in Calls, NewCall(c)
        PROVE  call' = [d \in Calls |-> call'[d]]
    <3>1. \E op, step, s, owner, data : Begin(c, op, step, s, owner, data)
      BY <2>1 DEF NewCall, CreateStrategy, CopyStrategy, CreateTemplate, UpdateStrategy, ChangeStrategy,
             ChangeTemplate, NameAccount, DeleteAccount, UpdatePortfolio
    <3>2. QED
      BY <3>1 DEF Begin
  <2>2. ASSUME NEW c \in Calls, CallStep(c)
        PROVE  call' = [d \in Calls |-> call'[d]]
    <3>1. End(c) \/ \E step : Proceed(c, step)
      BY <2>2 DEF CallStep, Fail, CopyChecks, CheckName, Insert, CheckNewName, WriteUpdate, WriteChange,
                  WriteAccount, Cascade, WritePortfolio
    <3>2. QED
      BY <3>1, TypedFacts DEF End, Proceed
  <2>3. ASSUME NEW s \in Strategies, OpenPosition(s) \/ ClosePosition(s)
        PROVE  call' = [d \in Calls |-> call'[d]]
    BY <2>3, TypedFacts DEF OpenPosition, ClosePosition
  <2>4. QED
    BY <2>1, <2>2, <2>3 DEF BookNext
<1>3. QED
  BY <1>1, <1>2

LEMMA AccountsAreTyped ==
    ASSUME Typed, BookNext
    PROVE  accountName' \in [Accounts -> Names \cup {None}]
<1>1. CASE UNCHANGED accountName
  BY <1>1, TypedFacts
<1>2. ASSUME NEW c \in Calls, WriteAccount(c)
      PROVE  accountName' \in [Accounts -> Names \cup {None}]
  <2>1. PICK r : r = call[c]
    OBVIOUS
  <2>2. r.op \in {"createAccount", "updateAccount"} /\ r \in CallType /\ r.step # "idle"
    BY <1>2, <2>1, TypedFacts DEF WriteAccount, At, Busy
  <2>3. r.data \in Names
    BY <2>2, Kinds DEF Creation, Update, Change, Movement, Naming, Deletion
  <2>4. UNCHANGED accountName \/ accountName' = [accountName EXCEPT ![r.owner] = r.data]
    BY <1>2, <2>1 DEF WriteAccount
  <2>5. QED
    BY <2>3, <2>4, TypedFacts
<1>3. ASSUME NEW c \in Calls, Cascade(c)
      PROVE  accountName' \in [Accounts -> Names \cup {None}]
  BY <1>3, CascadeWrites
<1>4. UNCHANGED accountName \/ \E c \in Calls : WriteAccount(c) \/ Cascade(c)
  <2>1. ASSUME NEW c \in Calls, NewCall(c)
        PROVE  UNCHANGED accountName
    BY <2>1, Began
  <2>2. ASSUME NEW c \in Calls, CallStep(c)
        PROVE  UNCHANGED accountName \/ WriteAccount(c) \/ Cascade(c)
    BY <2>2 DEF CallStep, Fail, CopyChecks, CheckName, Insert, CheckNewName, WriteUpdate, WriteChange,
                WritePortfolio
  <2>3. QED
    BY <2>1, <2>2 DEF BookNext, OpenPosition, ClosePosition
<1>5. QED
  BY <1>1, <1>2, <1>3, <1>4

\* The counters, the open positions and the sets that remember.
LEMMA RestIsTyped ==
    ASSUME Typed, BookNext
    PROVE  /\ open' \subseteq Strategies /\ requests' \in Nat /\ trades' \in Nat
           /\ raced' \subseteq Strategies /\ overwritten' \subseteq Strategies
<1>1. /\ open \subseteq Strategies /\ requests \in Nat /\ trades \in Nat
      /\ raced \subseteq Strategies /\ overwritten \subseteq Strategies
  BY DEF Typed, TypeOK
<1>2. ASSUME NEW c \in Calls, NewCall(c)
      PROVE  requests' \in Nat /\ UNCHANGED <<open, trades, raced, overwritten>>
  <2>1. requests' = requests + 1
    BY <1>2 DEF NewCall, CreateStrategy, CopyStrategy, CreateTemplate, UpdateStrategy, ChangeStrategy,
           ChangeTemplate, NameAccount, DeleteAccount, UpdatePortfolio, Begin
  <2>2. QED
    BY <1>1, <1>2, <2>1, Began
<1>3. ASSUME NEW c \in Calls, CallStep(c)
      PROVE  /\ UNCHANGED <<open, trades, requests>>
             /\ raced' \subseteq Strategies /\ overwritten' \subseteq Strategies
  <2>1. CASE CopyChecks(c)
    BY <1>1, <2>1 DEF CopyChecks, End, Proceed
  <2>2. CASE CheckName(c) \/ CheckNewName(c)
    BY <1>1, <2>2 DEF CheckName, CheckNewName, End, Proceed
  <2>3. CASE Fail(c) \/ WriteAccount(c)
    BY <1>1, <2>3 DEF Fail, WriteAccount, End
  <2>4. CASE Insert(c) \/ WriteUpdate(c) \/ WriteChange(c)
    <3>1. /\ call[c].op \in {"create", "copy", "update", "delete", "archive", "unarchive"}
          /\ call[c] \in CallType /\ call[c].step # "idle"
      BY <2>4, TypedFacts DEF Insert, WriteUpdate, WriteChange, At, Busy
    <3>2. call[c].s \in Strategies
      BY <3>1, Kinds DEF Creation, Update, Change, Movement, Naming, Deletion
    <3>3. QED
      BY <1>1, <2>4, <3>2 DEF Insert, WriteUpdate, WriteChange, End, Wrote
  <2>5. CASE Cascade(c)
    BY <1>1, <2>5 DEF Cascade, End, Wrote
  <2>6. CASE WritePortfolio(c)
    <3>1. call[c].op = "portfolio" /\ call[c] \in CallType /\ call[c].step # "idle"
      BY <2>6, TypedFacts DEF WritePortfolio, At, Busy
    <3>2. call[c].s \in Strategies
      BY <3>1, Kinds DEF Creation, Update, Change, Movement, Naming, Deletion
    <3>3. QED
      BY <1>1, <2>6, <3>2 DEF WritePortfolio, End
  <2>7. QED
    BY <1>3, <2>1, <2>2, <2>3, <2>4, <2>5, <2>6 DEF CallStep
<1>4. ASSUME NEW s \in Strategies, OpenPosition(s) \/ ClosePosition(s)
      PROVE  /\ open' \subseteq Strategies /\ trades' \in Nat
             /\ UNCHANGED <<requests, raced, overwritten>>
  BY <1>1, <1>4 DEF OpenPosition, ClosePosition
<1>5. QED
  BY <1>1, <1>2, <1>3, <1>4 DEF BookNext

LEMMA OwnersRemain ==
    ASSUME Typed, BookNext, NEW s \in Strategies
    PROVE  row'[s].state = "none" <=> row'[s].owner = None
<1>1. None \notin Owners
  BY BookAssumption DEF Owners
<1>2. CASE row'[s] = row[s]
  BY <1>2 DEF Typed
<1>3. ASSUME NEW c \in Calls, ByInsert(call[c], row[s], row'[s])
      PROVE  row'[s].state = "active" /\ row'[s].owner # None
  <2>1. Carried(call[c])
    BY TypedFacts
  <2>2. QED
    BY <1>1, <1>3, <2>1 DEF Carried, ByInsert, Creation
<1>4. ASSUME NEW c \in Calls,
             \/ ByUpdate(call[c], row[s], row'[s]) \/ ByChange(call[c], row[s], row'[s])
             \/ ByCascade(call[c], row[s], row'[s])
      PROVE  row'[s].state # "none" /\ row'[s].owner # None
  <2>1. row[s].state \in {"active", "deleted"} /\ row'[s].owner = row[s].owner /\ row'[s].state # "none"
    BY <1>4 DEF ByUpdate, ByChange, ByCascade, Stays
  <2>2. QED
    BY <1>1, <2>1, TypedFacts
<1>5. QED
  BY <1>2, <1>3, <1>4, RowWrites

LEMMA TypedInitially == BookInit => Typed
<1> SUFFICES ASSUME BookInit PROVE Typed
  OBVIOUS
<1>1. PICK p \in Populations : row = p.row /\ accountName = p.accountName
  BY DEF BookInit
<1>2. /\ row \in [Strategies -> Row] /\ accountName \in [Accounts -> Names \cup {None}]
      /\ \A s \in Strategies : row[s].state = "none" <=> row[s].owner = None
  BY <1>1, BookAssumption
<1>3. ledger \in [Strategies -> Ledger]
  BY BookAssumption DEF BookInit, FreshLedger, Ledger
<1>4. call \in [Calls -> CallType] /\ \A c \in Calls : call[c] = Idle
  BY DEF BookInit, CallType
<1>5. \A c \in Calls : Carried(call[c])
  BY <1>4 DEF Carried, Creation, Idle
<1>6. QED
  BY <1>2, <1>3, <1>4, <1>5 DEF Typed, TypeOK, BookInit

LEMMA TypedRemains == Typed /\ [BookNext]_vars => Typed'
<1>1. ASSUME Typed, BookNext
      PROVE  Typed'
  BY <1>1, RowWrites, LedgerWrites, CallsAreTyped, AccountsAreTyped, RestIsTyped, OwnersRemain
     DEF Typed, TypeOK, Carried
<1>2. ASSUME Typed, UNCHANGED vars
      PROVE  Typed'
  BY <1>2 DEF vars, Typed, TypeOK, Carried
<1>3. QED
  BY <1>1, <1>2

LEMMA AlwaysTyped == BookSpec => []Typed
BY TypedInitially, TypedRemains, PTL DEF BookSpec

\* Rows, ledgers and calls stay well formed (TypeOK of TradingBook).
THEOREM BookTypeCorrect == BookSpec => []TypeOK
<1>1. Typed => TypeOK
  BY DEF Typed
<1>2. QED
  BY <1>1, AlwaysTyped, PTL

---------------------------------------------------------------------------
(* However deposits, withdrawals and the engine's bookings overlap, what a *)
(* portfolio holds is what was put in, less what was taken out, plus the   *)
(* profit, unless a write went over a booking (overwritten).               *)

LEMMA BooksInitially == BookInit => Books
<1> SUFFICES ASSUME BookInit PROVE Books
  OBVIOUS
<1>1. \A s \in Strategies : Balanced(ledger[s])
  BY BookAssumption DEF BookInit, FreshLedger, Balanced
<1>2. \A c \in Calls : call[c] \notin Movement
  BY DEF BookInit, Idle, Movement
<1>3. QED
  BY <1>1, <1>2 DEF Books, LedgerBalances, Balanced

LEMMA BooksRemain == Typed /\ Books /\ [BookNext]_vars => Books'
<1>1. ASSUME Typed, Books, BookNext
      PROVE  Books'
  <2>1. overwritten \subseteq overwritten'
    BY <1>1, RowWrites
  <2>2. ASSUME NEW s \in Strategies, s \notin overwritten'
        PROVE  Balanced(ledger'[s])
    <3>1. Balanced(ledger[s])
      BY <1>1, <2>1, <2>2 DEF Books, LedgerBalances, Balanced
    <3>2. ASSUME NEW c \in Calls, call[c] \in Movement, s = call[c].s
          PROVE  Balanced(call[c].data)
      BY <1>1, <2>1, <2>2, <3>2 DEF Books
    <3>3. QED
      BY <1>1, <2>2, <3>1, <3>2, LedgerWrites
  <2>3. ASSUME NEW c \in Calls, call'[c] \in Movement, call'[c].s \notin overwritten'
        PROVE  Balanced(call'[c].data)
    <3>1. CASE Remains(call'[c], call[c])
      <4>1. Idle \notin Movement
        BY DEF Idle, Movement
      <4>2. call[c] \in Movement /\ call[c].s = call'[c].s /\ call[c].data = call'[c].data
        BY <2>3, <3>1, <4>1 DEF Remains, SameCall
      <4>3. QED
        BY <1>1, <2>1, <2>3, <4>2 DEF Books
    <3>2. CASE NewCall(c) /\ Checked(call'[c])
      <4>1. PICK r : r = call'[c]
        OBVIOUS
      <4>2. r \in Movement /\ r.s \in Strategies /\ r.s \notin overwritten
        BY <2>1, <2>3, <4>1 DEF Movement
      <4>3. Balanced(ledger[r.s]) /\ ledger[r.s] \in Ledger
        BY <1>1, <4>2, TypedFacts DEF Books, LedgerBalances, Balanced
      <4>4. PICK move \in {<<1, 0>>, <<0, 1>>, <<0, 2>>} : r.data = Moved(ledger[r.s], move[1], move[2])
        BY <3>2, <4>1, <4>2 DEF Checked
      <4>5. PICK deposit \in Nat, withdrawal \in Nat : r.data = Moved(ledger[r.s], deposit, withdrawal)
        BY <4>4
      <4>6. Balanced(r.data)
        <5>1. PICK old \in Ledger : old = ledger[r.s]
          BY <4>3
        <5>2. PICK new : new = r.data /\ new = Moved(old, deposit, withdrawal)
          BY <4>5, <5>1
        <5>3. /\ new.balance = old.balance + deposit - withdrawal
              /\ new.deposits = old.deposits + deposit
              /\ new.withdrawals = old.withdrawals + withdrawal
              /\ new.realized = old.realized
          BY <5>2 DEF Moved, Ledger
        <5>4. old.balance = Capital + old.deposits - old.withdrawals + old.realized
          BY <4>3, <5>1 DEF Balanced
        <5>5. /\ old.balance \in Int /\ old.deposits \in Nat /\ old.withdrawals \in Nat
              /\ old.realized \in Int /\ Capital \in Nat
          BY BookAssumption DEF Ledger
        <5>6. Balanced(new)
          BY <5>3, <5>4, <5>5 DEF Balanced
        <5>7. QED
          BY <5>2, <5>6
      <4>7. QED
        BY <4>1, <4>6
    <3>3. QED
      BY <1>1, <3>1, <3>2, Transition
  <2>4. QED
    BY <2>2, <2>3 DEF Books, LedgerBalances, Balanced
<1>2. ASSUME Books, UNCHANGED vars
      PROVE  Books'
  BY <1>2 DEF vars, Books, LedgerBalances, Balanced
<1>3. QED
  BY <1>1, <1>2

\* Concurrent deposits and withdrawals leave the books balanced (updatePortfolio in
\* portfolio.service.ts), for any number of calls and any initial capital.
THEOREM BooksBalance == BookSpec => []LedgerBalances
<1>1. Books => LedgerBalances
  BY DEF Books
<1>2. QED
  BY <1>1, BooksInitially, BooksRemain, AlwaysTyped, PTL DEF BookSpec

---------------------------------------------------------------------------
(* Which rows the calls in flight are about, and who is alone.             *)

Placed ==
    \A c \in Calls :
        /\ call[c] \in Creation =>
              /\ row[call[c].s].state = "none"
              /\ \A d \in Calls \ {c} : call[d].step # "idle" => call[d].s # call[c].s
        /\ call[c] \in Update \cup Change \cup Movement =>
              row[call[c].s].state # "none" /\ row[call[c].s].owner = call[c].owner
        /\ call[c] \in Update /\ call[c].data.mode = "REAL" => "REAL" \in row[call[c].s].portfolios

\* Two calls that meet know it.
Pairs ==
    \A c, d \in Calls :
        c # d /\ call[c].step # "idle" /\ Meets(call[d], call[c].s, call[c].owner) => ~call[c].alone

\* What a row keeps once it is there.
LEMMA RowsKeep ==
    ASSUME Typed, Placed, BookNext, NEW s \in Strategies, row[s].state # "none"
    PROVE  row'[s].state # "none" /\ row'[s].owner = row[s].owner /\ row'[s].portfolios = row[s].portfolios
<1>1. ASSUME NEW c \in Calls, s = call[c].s
      PROVE  ~ByInsert(call[c], row[s], row'[s])
  BY <1>1 DEF Placed, ByInsert
<1>2. ASSUME NEW c \in Calls,
             \/ ByUpdate(call[c], row[s], row'[s]) \/ ByChange(call[c], row[s], row'[s])
             \/ ByCascade(call[c], row[s], row'[s])
      PROVE  row'[s].state # "none" /\ Stays(row[s], row'[s])
  BY <1>2 DEF ByUpdate, ByChange, ByCascade
<1>3. QED
  BY <1>1, <1>2, RowWrites DEF Stays

\* A row that is not there comes from the creation that holds its id.
LEMMA RowsAppear ==
    ASSUME Typed, BookNext, NEW s \in Strategies, row[s].state = "none", row'[s] # row[s]
    PROVE  \E c \in Calls : Writes(c, s) /\ s = call[c].s /\ call[c] \in Creation
<1>1. ASSUME NEW c \in Calls
      PROVE  /\ ~ByUpdate(call[c], row[s], row'[s]) /\ ~ByChange(call[c], row[s], row'[s])
             /\ ~ByCascade(call[c], row[s], row'[s])
  BY DEF ByUpdate, ByChange, ByCascade
<1>2. QED
  BY <1>1, RowWrites DEF ByInsert

LEMMA MeetsBoth ==
    ASSUME NEW k, NEW r, k.step # "idle", r.step # "idle"
    PROVE  Meets(k, r.s, r.owner) <=> Meets(r, k.s, k.owner)
BY DEF Meets

LEMMA OneBegins ==
    ASSUME Typed, BookNext, NEW c \in Calls, NEW d \in Calls, c # d, NewCall(c), call[d].step = "idle"
    PROVE  call'[d].step = "idle"
<1>1. Remains(call'[d], call[d])
  BY Began
<1>2. QED
  BY <1>1 DEF Remains, SameCall, Idle

\* A new call that meets another one is not alone, and takes that from the other as well.
LEMMA NewCallsMeet ==
    ASSUME Typed, NEW c \in Calls, NewCall(c), NEW d \in Calls, d # c,
           call[d].step # "idle", Meets(call[d], call'[c].s, call'[c].owner)
    PROVE  call'[c].alone = FALSE /\ call'[d].alone = FALSE
<1>1. PICK op, step, s, owner, data : Begin(c, op, step, s, owner, data)
  BY DEF NewCall, CreateStrategy, CopyStrategy, CreateTemplate, UpdateStrategy, ChangeStrategy,
         ChangeTemplate, NameAccount, DeleteAccount, UpdatePortfolio
<1>2. call'[c] = [op |-> op, step |-> step, s |-> s, owner |-> owner, data |-> data,
                  alone |-> \A e \in Calls : ~Meets(call[e], s, owner)]
  BY <1>1 DEF Begin
<1>3. call'[c].s = s /\ call'[c].owner = owner
  BY <1>2
<1>4. Meets(call[d], s, owner)
  BY <1>3
<1>5. call'[d].alone = FALSE
  <2>1. call'[d] = [call[d] EXCEPT !.alone = FALSE]
    BY <1>1, <1>4 DEF Begin
  <2>2. QED
    BY <2>1, DisturbedCalls
<1>6. (\A e \in Calls : ~Meets(call[e], s, owner)) = FALSE
  BY <1>4
<1>7. call'[c] = [op |-> op, step |-> step, s |-> s, owner |-> owner, data |-> data, alone |-> FALSE]
  BY <1>2, <1>6
<1>8. QED
  BY <1>5, <1>7

LEMMA PairsRemain == Typed /\ Pairs /\ BookNext => Pairs'
<1> SUFFICES ASSUME Typed, Pairs, BookNext, NEW c \in Calls, NEW d \in Calls, c # d,
                    call'[c].step # "idle", Meets(call'[d], call'[c].s, call'[c].owner)
             PROVE  ~call'[c].alone
  BY DEF Pairs, Meets
<1>1. call'[d].step # "idle" /\ Idle.step = "idle"
  BY DEF Meets, Idle
<1>2. CASE Remains(call'[c], call[c]) /\ Remains(call'[d], call[d])
  <2>1. SameCall(call'[c], call[c]) /\ SameCall(call'[d], call[d])
    BY <1>1, <1>2 DEF Remains
  <2>2. Meets(call[d], call[c].s, call[c].owner)
    BY <2>1 DEF SameCall, Meets
  <2>3. QED
    BY <2>1, <2>2 DEF SameCall, Pairs
<1>3. CASE NewCall(c) /\ call[c].step = "idle"
  <2>1. call[d].step # "idle"
    BY <1>1, <1>3, OneBegins
  <2>2. Remains(call'[d], call[d])
    BY <1>3, Began
  <2>3. SameCall(call'[d], call[d])
    BY <1>1, <2>2 DEF Remains
  <2>4. Meets(call[d], call'[c].s, call'[c].owner)
    BY <2>1, <2>3 DEF SameCall, Meets
  <2>5. QED
    BY <1>3, <2>1, <2>4, NewCallsMeet
<1>4. CASE NewCall(d) /\ call[d].step = "idle"
  <2>1. call[c].step # "idle"
    BY <1>4, OneBegins
  <2>2. Remains(call'[c], call[c])
    BY <1>4, Began
  <2>3. SameCall(call'[c], call[c])
    BY <1>1, <2>2 DEF Remains
  <2>4. Meets(call[c], call'[d].s, call'[d].owner)
    BY <1>1, <2>1, <2>3 DEF SameCall, Meets
  <2>5. QED
    BY <1>4, <2>1, <2>4, NewCallsMeet
<1>5. QED
  BY <1>2, <1>3, <1>4, Transition

LEMMA PlacedRemains == Typed /\ Placed /\ BookNext => Placed'
<1> SUFFICES ASSUME Typed, Placed, BookNext
             PROVE  Placed'
  OBVIOUS
<1>1. Idle.step = "idle" /\ Idle \notin Creation \cup Update \cup Change \cup Movement
  BY DEF Idle, Creation, Update, Change, Movement
<1>2. ASSUME NEW c \in Calls, call'[c] \in Creation
      PROVE  row'[call'[c].s].state = "none"
  <2>1. PICK r : r = call'[c]
    OBVIOUS
  <2>2. r.s \in Strategies /\ r.step # "idle"
    BY <1>2, <2>1 DEF Creation
  <2>3. row[r.s].state = "none"
    <3>1. CASE Remains(call'[c], call[c])
      BY <1>1, <1>2, <2>1, <3>1 DEF Remains, SameCall, Placed
    <3>2. CASE Checked(call'[c])
      BY <1>2, <2>1, <3>2 DEF Checked
    <3>3. QED
      BY <3>1, <3>2, Transition
  <2>4. ASSUME row'[r.s] # row[r.s]
        PROVE  FALSE
    <3>1. PICK d \in Calls : Writes(d, r.s) /\ r.s = call[d].s /\ call[d] \in Creation
      BY <2>2, <2>3, <2>4, RowsAppear
    <3>2. call'[d].step = "idle" /\ d # c /\ call[d].step # "idle"
      BY <1>1, <2>1, <2>2, <3>1 DEF Writes
    <3>3. CASE Remains(call'[c], call[c])
      <4>1. call[c].s = r.s /\ call[c].step # "idle"
        BY <1>1, <1>2, <2>1, <3>3 DEF Remains, SameCall
      <4>2. QED
        BY <3>1, <3>2, <4>1 DEF Placed
    <3>4. CASE NewCall(c)
      <4>1. Remains(call'[d], call[d]) /\ UNCHANGED row
        BY <3>2, <3>4, Began
      <4>2. QED
        BY <2>4, <4>1
    <3>5. QED
      BY <3>3, <3>4, Transition
  <2>5. QED
    BY <2>1, <2>3, <2>4
<1>3. ASSUME NEW c \in Calls, call'[c] \in Creation, NEW d \in Calls, d # c, call'[d].step # "idle"
      PROVE  call'[d].s # call'[c].s
  <2>1. call'[c].step # "idle" /\ call'[c].s \in Strategies
    BY <1>3 DEF Creation
  <2>2. CASE Remains(call'[c], call[c]) /\ Remains(call'[d], call[d])
    BY <1>1, <1>3, <2>2 DEF Remains, SameCall, Placed
  <2>3. CASE NewCall(c) /\ Checked(call'[c]) /\ call[c].step = "idle"
    <3>1. call[d].step # "idle"
      BY <1>3, <2>3, OneBegins
    <3>2. Remains(call'[d], call[d])
      BY <1>3, <2>3, Began
    <3>3. call'[d].s = call[d].s
      BY <1>1, <1>3, <3>2 DEF Remains, SameCall
    <3>4. ~Reserved(call'[c].s)
      BY <1>3, <2>3 DEF Checked
    <3>5. QED
      BY <3>1, <3>3, <3>4 DEF Reserved, Busy
  <2>4. CASE NewCall(d) /\ Checked(call'[d]) /\ call'[d] \in CallType /\ call[d].step = "idle"
    <3>1. Remains(call'[c], call[c])
      BY <1>3, <2>4, Began
    <3>2. /\ call[c] \in Creation /\ call'[c].s = call[c].s /\ call[c].step # "idle"
          /\ row[call[c].s].state = "none"
      BY <1>1, <1>3, <3>1, <2>1 DEF Remains, SameCall, Placed
    <3>3. PICK r : r = call'[d]
      OBVIOUS
    <3>4. r \in Creation \cup Update \cup Change \cup Movement \cup Naming \cup Deletion
      BY <1>3, <2>4, <3>3, Kinds
    <3>5. CASE r \in Creation
      <4>1. ~Reserved(r.s)
        BY <2>4, <3>3, <3>5 DEF Checked
      <4>2. QED
        BY <3>2, <3>3, <4>1 DEF Reserved, Busy
    <3>6. CASE r \in Update \cup Change
      BY <2>4, <3>2, <3>3, <3>6 DEF Checked
    <3>7. CASE r \in Movement
      BY <2>4, <3>2, <3>3, <3>7 DEF Checked, Exists
    <3>8. CASE r \in Naming \cup Deletion
      BY <2>1, <3>3, <3>8, BookAssumption DEF Naming, Deletion
    <3>9. QED
      BY <3>4, <3>5, <3>6, <3>7, <3>8
  <2>5. QED
    BY <2>2, <2>3, <2>4, Transition
<1>4. ASSUME NEW c \in Calls, call'[c] \in Update \cup Change \cup Movement
      PROVE  /\ row'[call'[c].s].state # "none" /\ row'[call'[c].s].owner = call'[c].owner
             /\ call'[c] \in Update /\ call'[c].data.mode = "REAL" => "REAL" \in row'[call'[c].s].portfolios
  <2>1. PICK r : r = call'[c]
    OBVIOUS
  <2>2. r.s \in Strategies
    BY <1>4, <2>1 DEF Update, Change, Movement
  <2>3. /\ row[r.s].state # "none" /\ row[r.s].owner = r.owner
        /\ r \in Update /\ r.data.mode = "REAL" => "REAL" \in row[r.s].portfolios
    <3>1. CASE Remains(call'[c], call[c])
      BY <1>1, <1>4, <2>1, <3>1 DEF Remains, SameCall, Placed
    <3>2. CASE Checked(call'[c])
      BY <1>4, <2>1, <3>2 DEF Checked, Exists, ModeAllowed
    <3>3. QED
      BY <3>1, <3>2, Transition
  <2>4. QED
    BY <2>1, <2>2, <2>3, RowsKeep
<1>5. QED
  BY <1>2, <1>3, <1>4 DEF Placed

---------------------------------------------------------------------------
(* What a call that is alone still knows when it writes.                   *)

Known(r) ==
    /\ r \in Update => /\ row[r.s].state = "active"
                       /\ r.data.mode # None => ~row[r.s].live
    /\ r \in Change /\ r.op = "delete" => ~row[r.s].live
    /\ r \in Deletion => \A s \in Strategies :
          row[s].owner = r.owner /\ Exists(s) => ~row[s].live /\ s \notin open

Sure == \A c \in Calls : call[c].alone => Known(call[c])

\* Backtest strategies do not run.
Templated == \A s \in Strategies : row[s].owner = Templates => ~row[s].live

\* The rows a call is about.
About(r, s) == r.s = s \/ (r.s = None /\ row[s].owner = r.owner)

\* Only what is about the rows of a call writes to them, and then the call is not alone.
LEMMA AloneIsUndisturbed ==
    ASSUME Typed, Placed, Pairs, BookNext, NEW c \in Calls, SameCall(call'[c], call[c]),
           call[c] \notin Creation, call'[c].alone, NEW s \in Strategies,
           \/ About(call[c], s)
           \/ call[c].s = None /\ row'[s].owner = call[c].owner
    PROVE  row'[s] = row[s]
<1> SUFFICES ASSUME row'[s] # row[s]
             PROVE  FALSE
  OBVIOUS
<1>1. Idle.step = "idle"
  BY DEF Idle
<1>2. call[c].alone /\ call[c].step # "idle" /\ call'[c].step # "idle" /\ call[c] \in CallType
  BY TypedFacts DEF SameCall
<1>3. PICK d \in Calls :
        /\ Writes(d, s)
        /\ \/ s = call[d].s /\ ByInsert(call[d], row[s], row'[s])
           \/ s = call[d].s /\ ByUpdate(call[d], row[s], row'[s])
           \/ s = call[d].s /\ ByChange(call[d], row[s], row'[s])
           \/ ByCascade(call[d], row[s], row'[s])
  BY RowWrites
<1>4. d # c /\ call[d].step # "idle"
  BY <1>1, <1>2, <1>3 DEF Writes
<1>5. ~Meets(call[d], call[c].s, call[c].owner)
  BY <1>2, <1>4 DEF Pairs
<1>6. CASE call[c].s = s
  <2>1. ByCascade(call[d], row[s], row'[s])
    BY <1>3, <1>4, <1>5, <1>6 DEF Meets
  <2>2. call[d].s = None /\ call[d].owner = row[s].owner
    BY <2>1 DEF ByCascade, Deletion
  <2>3. call[c] \in Update \cup Change \cup Movement
    BY <1>2, <1>6, Kinds, BookAssumption DEF Naming, Deletion
  <2>4. row[s].owner = call[c].owner
    BY <1>6, <2>3 DEF Placed
  <2>5. QED
    BY <1>4, <1>5, <2>2, <2>4 DEF Meets
<1>7. CASE call[c].s = None /\ (row[s].owner = call[c].owner \/ row'[s].owner = call[c].owner)
  <2>1. CASE s = call[d].s /\ ByInsert(call[d], row[s], row'[s])
    <3>1. row[s].owner = None
      BY <2>1 DEF ByInsert, Placed, Typed
    <3>2. row'[s].owner = call[d].owner
      BY <2>1, TypedFacts DEF ByInsert, Carried
    <3>3. call[c].owner # None
      <4>1. call[c].owner \in Owners
        BY <1>2, Kinds DEF Creation, Update, Change, Movement, Naming, Deletion, Owners
      <4>2. QED
        BY <4>1, BookAssumption DEF Owners
    <3>4. QED
      BY <1>4, <1>5, <1>7, <3>1, <3>2, <3>3 DEF Meets
  <2>2. CASE s = call[d].s /\ (ByUpdate(call[d], row[s], row'[s]) \/ ByChange(call[d], row[s], row'[s]))
    <3>1. call[d] \in Update \cup Change /\ row'[s].owner = row[s].owner
      BY <2>2 DEF ByUpdate, ByChange, Stays
    <3>2. row[s].owner = call[d].owner
      BY <2>2, <3>1 DEF Placed
    <3>3. QED
      BY <1>4, <1>5, <1>7, <3>1, <3>2 DEF Meets
  <2>3. CASE ByCascade(call[d], row[s], row'[s])
    <3>1. call[d].s = None /\ row[s].owner = call[d].owner /\ row'[s].owner = row[s].owner
      BY <2>3 DEF ByCascade, Deletion, Stays
    <3>2. QED
      BY <1>4, <1>5, <1>7, <3>1 DEF Meets
  <2>4. QED
    BY <1>3, <2>1, <2>2, <2>3
<1>8. QED
  BY <1>6, <1>7 DEF About

\* The engine, too, takes the claim from the calls about the strategy it trades for.
LEMMA OpensAreSeen ==
    ASSUME Typed, BookNext, NEW c \in Calls, SameCall(call'[c], call[c]), call'[c].alone,
           NEW s \in Strategies, About(call[c], s), s \notin open
    PROVE  s \notin open'
<1>1. ASSUME NEW t \in Strategies, OpenPosition(t), t = s
      PROVE  FALSE
  <2>1. Meets(call[c], s, row[s].owner)
    BY DEF Meets, About, SameCall
  <2>2. call'[c] = [call[c] EXCEPT !.alone = FALSE]
    BY <1>1, <2>1 DEF OpenPosition
  <2>3. call'[c].alone = FALSE
    BY <2>1, <2>2, DisturbedCalls DEF Meets
  <2>4. QED
    BY <2>3
<1>2. ASSUME NEW t \in Strategies, OpenPosition(t), t # s
      PROVE  s \notin open'
  BY <1>2 DEF OpenPosition
<1>3. ASSUME NEW t \in Strategies, ClosePosition(t)
      PROVE  s \notin open'
  BY <1>3 DEF ClosePosition
<1>4. ASSUME NEW d \in Calls, NewCall(d) \/ CallStep(d)
      PROVE  UNCHANGED open
  <2>1. CASE NewCall(d)
    BY <2>1, Began
  <2>2. CASE CallStep(d)
    BY <2>2 DEF CallStep, Fail, CopyChecks, CheckName, Insert, CheckNewName, WriteUpdate, WriteChange,
                WriteAccount, Cascade, WritePortfolio
  <2>3. QED
    BY <1>4, <2>1, <2>2
<1>5. QED
  BY <1>1, <1>2, <1>3, <1>4 DEF BookNext

LEMMA SureRemains == Typed /\ Placed /\ Pairs /\ Sure /\ Templated /\ BookNext => Sure'
<1> SUFFICES ASSUME Typed, Placed, Pairs, Sure, Templated, BookNext, NEW c \in Calls, call'[c].alone
             PROVE  Known(call[c])'
  BY DEF Sure
<1>1. PICK r : r = call'[c]
  OBVIOUS
<1>2. CASE r \notin Update \cup Change \cup Deletion
  BY <1>1, <1>2 DEF Known
<1>3. CASE NewCall(c) /\ Checked(call'[c]) /\ call'[c] \in CallType
  <2>1. UNCHANGED <<row, open>>
    BY <1>3, Began
  <2>2. r \in Change /\ r.op = "delete" => ~row[r.s].live
    <3>1. r \in Change => r.s \in Strategies /\ row[r.s].owner = r.owner
      BY <1>1, <1>3 DEF Checked, Change
    <3>2. QED
      BY <1>1, <1>3, <3>1 DEF Checked, Templated
  <2>3. /\ r \in Update => row[r.s].state = "active" /\ ModeAllowed(row[r.s], r.data)
        /\ r \in Deletion => \A s \in Strategies :
              row[s].owner = r.owner /\ Exists(s) => ~row[s].live /\ s \notin open
    BY <1>1, <1>3 DEF Checked
  <2>4. QED
    BY <1>1, <2>1, <2>2, <2>3 DEF Known, ModeAllowed, Exists
<1>4. CASE SameCall(call'[c], call[c]) /\ r \in Update \cup Change
  <2>1. /\ call[c].s = r.s /\ call[c].data = r.data /\ call[c].op = r.op /\ r.s \in Strategies
        /\ call[c] \notin Creation /\ call[c].alone
        /\ call[c] \in Update <=> r \in Update
        /\ call[c] \in Change <=> r \in Change
        /\ r \notin Deletion
    BY <1>1, <1>4 DEF SameCall, Update, Change, Creation, Deletion
  <2>2. row'[r.s] = row[r.s]
    BY <1>1, <1>4, <2>1, AloneIsUndisturbed DEF About
  <2>3. Known(call[c])
    BY <2>1 DEF Sure
  <2>4. QED
    BY <1>1, <2>1, <2>2, <2>3 DEF Known
<1>5. CASE SameCall(call'[c], call[c]) /\ r \in Deletion
  <2>1. /\ call[c].s = None /\ call[c].owner = r.owner /\ call[c] \in Deletion
        /\ call[c] \notin Creation /\ call[c].alone /\ r \notin Update /\ r \notin Change
    BY <1>1, <1>5 DEF SameCall, Update, Change, Creation, Deletion
  <2>2. ASSUME NEW s \in Strategies, row'[s].owner = r.owner, row'[s].state \in {"active", "deleted"}
        PROVE  ~row'[s].live /\ s \notin open'
    <3>1. row'[s] = row[s]
      BY <1>1, <1>5, <2>1, <2>2, AloneIsUndisturbed
    <3>2. ~row[s].live /\ s \notin open
      BY <2>1, <2>2, <3>1 DEF Sure, Known, Exists
    <3>3. s \notin open'
      BY <1>1, <1>5, <2>1, <2>2, <3>1, <3>2, OpensAreSeen DEF About
    <3>4. QED
      BY <3>1, <3>2, <3>3
  <2>3. QED
    BY <1>1, <2>1, <2>2 DEF Known, Exists
<1>6. CASE call'[c] = Idle
  BY <1>1, <1>2, <1>6 DEF Idle, Update, Change, Deletion
<1>7. QED
  BY <1>1, <1>2, <1>3, <1>4, <1>5, <1>6, Transition DEF Remains

LEMMA TemplatedRemains == Typed /\ Placed /\ Templated /\ BookNext => Templated'
<1> SUFFICES ASSUME Typed, Placed, Templated, BookNext, NEW s \in Strategies, row'[s].owner = Templates
             PROVE  ~row'[s].live
  BY DEF Templated
<1>1. CASE row'[s] = row[s]
  BY <1>1 DEF Templated
<1>2. ASSUME NEW c \in Calls, ByInsert(call[c], row[s], row'[s])
      PROVE  ~row'[s].live
  BY <1>2, TypedFacts DEF ByInsert, Carried
<1>3. ASSUME NEW c \in Calls, s = call[c].s, ByUpdate(call[c], row[s], row'[s])
      PROVE  FALSE
  <2>1. call[c] \in Update /\ row'[s].owner = row[s].owner
    BY <1>3 DEF ByUpdate, Stays
  <2>2. row[s].owner = call[c].owner /\ call[c].owner \in Accounts
    BY <1>3, <2>1 DEF Placed, Update
  <2>3. QED
    BY <2>1, <2>2, BookAssumption
<1>4. ASSUME NEW c \in Calls, ByChange(call[c], row[s], row'[s]) \/ ByCascade(call[c], row[s], row'[s])
      PROVE  ~row'[s].live
  BY <1>4 DEF ByChange, ByCascade, Stays, Templated
<1>5. QED
  BY <1>1, <1>2, <1>3, <1>4, RowWrites

\* The inductive invariant of the rows and the calls.
BookInv == Typed /\ Placed /\ Pairs /\ Sure /\ Templated

LEMMA BookInvInitially == BookInit => BookInv
<1> SUFFICES ASSUME BookInit PROVE BookInv
  OBVIOUS
<1>1. \A c \in Calls : call[c] = Idle
  BY DEF BookInit
<1>2. Idle.step = "idle" /\ Idle \notin Creation \cup Update \cup Change \cup Movement \cup Deletion
  BY DEF Idle, Creation, Update, Change, Movement, Deletion
<1>3. Placed /\ Pairs
  BY <1>1, <1>2 DEF Placed, Pairs
<1>4. Sure
  BY <1>1, <1>2 DEF Sure, Known
<1>5. Templated
  BY BookAssumption DEF BookInit, Templated
<1>6. QED
  BY <1>3, <1>4, <1>5, TypedInitially DEF BookInv

LEMMA BookInvRemains == BookInv /\ [BookNext]_vars => BookInv'
<1>1. ASSUME BookInv, BookNext
      PROVE  BookInv'
  BY <1>1, TypedRemains, PlacedRemains, PairsRemain, SureRemains, TemplatedRemains DEF BookInv
<1>2. ASSUME BookInv, UNCHANGED vars
      PROVE  BookInv'
  <2>1. Typed'
    BY <1>2, TypedRemains DEF BookInv
  <2>2. Placed' /\ Pairs'
    BY <1>2 DEF BookInv, vars, Placed, Pairs, Meets
  <2>3. Sure' /\ Templated'
    BY <1>2 DEF BookInv, vars, Sure, Known, Exists, Templated
  <2>4. QED
    BY <2>1, <2>2, <2>3 DEF BookInv
<1>3. QED
  BY <1>1, <1>2

LEMMA AlwaysBookInv == BookSpec => []BookInv
BY BookInvInitially, BookInvRemains, PTL DEF BookSpec

\* A step that switches the mode of an active strategy finds the portfolio for it, and a
\* stopped strategy, or another call or the engine at work on it.
ModeStep ==
    \A s \in Strategies :
        row[s].state = "active" /\ row'[s].mode # row[s].mode =>
            /\ row'[s].mode = "REAL" => "REAL" \in row[s].portfolios
            /\ row[s].live => s \in raced'

LEMMA ModeSteps == BookInv /\ [BookNext]_vars => ModeStep
<1>1. ASSUME BookInv, BookNext
      PROVE  ModeStep
  <2> SUFFICES ASSUME NEW s \in Strategies, row[s].state = "active", row'[s].mode # row[s].mode
               PROVE  /\ row'[s].mode = "REAL" => "REAL" \in row[s].portfolios
                      /\ row[s].live => s \in raced'
    BY DEF ModeStep
  <2>1. PICK c \in Calls :
           /\ Writes(c, s)
           /\ \/ s = call[c].s /\ ByInsert(call[c], row[s], row'[s])
              \/ s = call[c].s /\ ByUpdate(call[c], row[s], row'[s])
              \/ ByChange(call[c], row[s], row'[s])
              \/ ByCascade(call[c], row[s], row'[s])
    BY <1>1, RowWrites DEF BookInv
  <2>2. s = call[c].s /\ ByUpdate(call[c], row[s], row'[s])
    BY <1>1, <2>1 DEF ByInsert, ByChange, ByCascade, BookInv, Placed
  <2>3. PICK r : r = call[c]
    OBVIOUS
  <2>4. /\ r \in Update /\ r.s = s /\ r.data.mode # None
        /\ row'[s].mode = r.data.mode
    BY <2>2, <2>3 DEF ByUpdate, Given
  <2>5. r.data.mode = "REAL" => "REAL" \in row[s].portfolios
    BY <1>1, <2>3, <2>4 DEF BookInv, Placed
  <2>6. r.alone => ~row[s].live
    BY <1>1, <2>3, <2>4 DEF BookInv, Sure, Known
  <2>7. ~r.alone => s \in raced'
    BY <2>1, <2>3 DEF Writes
  <2>8. QED
    BY <2>4, <2>5, <2>6, <2>7
<1>2. ASSUME UNCHANGED vars
      PROVE  ModeStep
  BY <1>2 DEF vars, ModeStep
<1>3. QED
  BY <1>1, <1>2

\* updateStrategy never switches a strategy to a mode it has no portfolio for, and a running
\* one only when another call or the engine overlapped it (ModeChangesSafely).
THEOREM ModesAreChecked == BookSpec => ModeChangesSafely
<1>1. BookInv /\ [BookNext]_vars => [ModeStep]_vars
  BY ModeSteps
<1>2. BookSpec => [][ModeStep]_vars
  BY <1>1, AlwaysBookInv, PTL DEF BookSpec
<1>3. QED
  BY <1>2 DEF ModeChangesSafely, ModeStep

LEMMA GoneInitially == BookInit => GoneWasIdle
<1> SUFFICES ASSUME BookInit, NEW s \in Strategies
             PROVE  row[s].state \notin {"deleted", "gone"}
  BY DEF GoneWasIdle
<1>1. PICK p \in Populations : row = p.row
  BY DEF BookInit
<1>2. row[s].state = "none" \/ row[s].state = "active"
  BY <1>1, BookAssumption
<1>3. QED
  BY <1>2

LEMMA GoneRemains == BookInv /\ GoneWasIdle /\ [BookNext]_vars => GoneWasIdle'
<1>1. ASSUME BookInv, GoneWasIdle, BookNext, NEW s \in Strategies, s \notin raced'
      PROVE  /\ row'[s].state \in {"deleted", "gone"} => ~row'[s].live
             /\ row'[s].state = "gone" => s \notin open'
  <2>1. /\ s \notin raced
        /\ row[s].state \in {"deleted", "gone"} => ~row[s].live
        /\ row[s].state = "gone" => s \notin open
    BY <1>1, RowWrites DEF BookInv, GoneWasIdle
  <2>2. CASE row'[s] = row[s]
    <3>1. ASSUME row[s].state = "gone"
          PROVE  s \notin open'
      <4>1. ASSUME NEW t \in Strategies, OpenPosition(t)
            PROVE  s \notin open'
        BY <2>1, <3>1, <4>1 DEF OpenPosition, Exists
      <4>2. ASSUME NEW t \in Strategies, ClosePosition(t)
            PROVE  s \notin open'
        BY <2>1, <3>1, <4>2 DEF ClosePosition
      <4>3. ASSUME NEW c \in Calls, NewCall(c) \/ CallStep(c)
            PROVE  UNCHANGED open
        <5>1. CASE NewCall(c)
          BY <1>1, <5>1, Began DEF BookInv
        <5>2. CASE CallStep(c)
          BY <5>2 DEF CallStep, Fail, CopyChecks, CheckName, Insert, CheckNewName, WriteUpdate,
                      WriteChange, WriteAccount, Cascade, WritePortfolio
        <5>3. QED
          BY <4>3, <5>1, <5>2
      <4>4. QED
        BY <1>1, <2>1, <3>1, <4>1, <4>2, <4>3 DEF BookNext
    <3>2. QED
      BY <2>1, <2>2, <3>1
  <2>3. CASE row'[s] # row[s]
    <3>1. PICK c \in Calls :
             /\ Writes(c, s)
             /\ \/ s = call[c].s /\ ByInsert(call[c], row[s], row'[s])
                \/ s = call[c].s /\ ByUpdate(call[c], row[s], row'[s])
                \/ s = call[c].s /\ ByChange(call[c], row[s], row'[s])
                \/ Cascade(c) /\ ByCascade(call[c], row[s], row'[s])
      BY <1>1, <2>3, RowWrites DEF BookInv
    <3>2. PICK r : r = call[c]
      OBVIOUS
    <3>3. Known(r)
      BY <1>1, <3>1, <3>2 DEF Writes, BookInv, Sure
    <3>4. CASE ByInsert(r, row[s], row'[s])
      BY <1>1, <3>2, <3>4, TypedFacts DEF ByInsert, Carried, BookInv
    <3>5. CASE s = r.s /\ ByUpdate(r, row[s], row'[s])
      BY <3>3, <3>5 DEF ByUpdate, Known
    <3>6. CASE s = r.s /\ ByChange(r, row[s], row'[s])
      <4>1. row'[s].live = row[s].live /\ row'[s].state # "gone"
        BY <3>6 DEF ByChange
      <4>2. row'[s].state = "deleted" => ~row[s].live
        BY <2>1, <3>3, <3>6 DEF ByChange, Known
      <4>3. QED
        BY <4>1, <4>2
    <3>7. CASE Cascade(c) /\ ByCascade(r, row[s], row'[s])
      <4>1. /\ r \in Deletion /\ row[s].owner = r.owner /\ Exists(s) /\ row'[s].live = row[s].live
        BY <3>7 DEF ByCascade, Exists
      <4>2. ~row[s].live /\ s \notin open
        BY <3>3, <4>1 DEF Known
      <4>3. open' = open
        BY <3>7 DEF Cascade
      <4>4. QED
        BY <4>1, <4>2, <4>3
    <3>8. QED
      BY <3>1, <3>2, <3>4, <3>5, <3>6, <3>7
  <2>4. QED
    BY <2>2, <2>3
<1>2. ASSUME GoneWasIdle, UNCHANGED vars
      PROVE  GoneWasIdle'
  BY <1>2 DEF vars, GoneWasIdle
<1>3. QED
  BY <1>1, <1>2 DEF GoneWasIdle

\* A strategy is stopped when it is deleted and stays so, and has no open position when its
\* account is deleted, unless a call or the engine overlapped the deletion (GoneWasIdle).
THEOREM DeletionsStop == BookSpec => []GoneWasIdle
BY GoneInitially, GoneRemains, AlwaysBookInv, PTL DEF BookSpec

---------------------------------------------------------------------------
(* Duplicates.  The strategies that have a name, or will have it by a call *)
(* past its check of the name, are at most as many as calls: the check is  *)
(* passed only while no strategy has the name, and nothing else adds one.  *)

Claims(k, o, n) ==
    /\ k.owner = o /\ k.data.name = n
    /\ (k \in Creation /\ k.step = "insert") \/ (k \in Update /\ k.step = "write")

Potential(o, n) ==
    SameName(o, n) \cup {s \in Strategies : \E c \in Calls : Claims(call[c], o, n) /\ s = call[c].s}

Bounded(S) == IsFiniteSet(S) /\ Cardinality(S) <= Cardinality(Calls)

Duplicates == \A o \in Owners, n \in Names : Bounded(Potential(o, n))

LEMMA SmallerIsBounded ==
    ASSUME NEW S, NEW T \in SUBSET S, Bounded(S)
    PROVE  Bounded(T)
<1>1. IsFiniteSet(T) /\ Cardinality(T) <= Cardinality(S)
  BY FS_Subset DEF Bounded
<1>2. Cardinality(T) \in Nat /\ Cardinality(S) \in Nat /\ Cardinality(Calls) \in Nat
  BY <1>1, FS_CardinalityType, BookAssumption DEF Bounded
<1>3. QED
  BY <1>1, <1>2 DEF Bounded

\* There are at most as many ids as calls that hold them.
LEMMA HeldIsBounded ==
    ASSUME NEW f, f = [c \in Calls |-> f[c]], NEW S, \A s \in S : \E c \in Calls : s = f[c]
    PROVE  Bounded(S)
<1>1. PICK T : T = {f[c] : c \in Calls}
  OBVIOUS
<1>2. f \in Surjection(Calls, T)
  BY <1>1 DEF Surjection
<1>3. IsFiniteSet(T) /\ Cardinality(T) <= Cardinality(Calls)
  BY <1>2, FS_Surjection, BookAssumption
<1>4. S \in SUBSET T
  BY <1>1
<1>5. QED
  BY <1>3, <1>4, SmallerIsBounded DEF Bounded

\* A call that a new one or the engine disturbs keeps its step.
LEMMA DisturbedKeepStep ==
    ASSUME Typed, NEW c \in Calls, call[c].step # "idle",
           \/ \E d \in Calls \ {c} : NewCall(d)
           \/ \E s \in Strategies : OpenPosition(s) \/ ClosePosition(s)
    PROVE  call'[c].step = call[c].step
<1>1. call'[c] = call[c] \/ call'[c] = [call[c] EXCEPT !.alone = FALSE]
  <2>1. ASSUME NEW d \in Calls \ {c}, NewCall(d)
        PROVE  call'[c] = call[c] \/ call'[c] = [call[c] EXCEPT !.alone = FALSE]
    <3>1. PICK op, step, s, owner, data : Begin(d, op, step, s, owner, data)
      BY <2>1 DEF NewCall, CreateStrategy, CopyStrategy, CreateTemplate, UpdateStrategy,
             ChangeStrategy, ChangeTemplate, NameAccount, DeleteAccount, UpdatePortfolio
    <3>2. QED
      BY <3>1 DEF Begin
  <2>2. ASSUME NEW s \in Strategies, OpenPosition(s) \/ ClosePosition(s)
        PROVE  call'[c] = call[c] \/ call'[c] = [call[c] EXCEPT !.alone = FALSE]
    BY <2>2 DEF OpenPosition, ClosePosition
  <2>3. QED
    BY <2>1, <2>2
<1>2. QED
  BY <1>1, DisturbedCalls

\* A call gets past the check of its name only while no active strategy has it.
LEMMA ClaimsAreChecked ==
    ASSUME Typed, BookNext, NEW c \in Calls, NEW o, NEW n, SameCall(call'[c], call[c]),
           Claims(call'[c], o, n), ~Claims(call[c], o, n)
    PROVE  SameName(o, n) = {} /\ UNCHANGED row
<1>1. /\ call[c].step # "idle" /\ call'[c].step # "idle" /\ call'[c].step # call[c].step
      /\ call[c].owner = o /\ call[c].data.name = n
      /\ \/ call[c] \in Creation /\ call'[c].step = "insert"
         \/ call[c] \in Update /\ call'[c].step = "write"
  BY DEF SameCall, Claims
<1>2. PICK d \in Calls : CallStep(d)
  <2>1. ASSUME NEW d \in Calls, NewCall(d)
        PROVE  FALSE
    <3>1. d # c
      BY <1>1, <2>1, Began
    <3>2. QED
      BY <1>1, <2>1, <3>1, DisturbedKeepStep
  <2>2. ~\E s \in Strategies : OpenPosition(s) \/ ClosePosition(s)
    BY <1>1, DisturbedKeepStep
  <2>3. QED
    BY <2>1, <2>2 DEF BookNext
<1>3. d = c
  <2>1. ASSUME d # c
        PROVE  call'[c] = call[c]
    <3>1. End(d) \/ \E step : Proceed(d, step)
      BY <1>2 DEF CallStep, Fail, CopyChecks, CheckName, Insert, CheckNewName, WriteUpdate, WriteChange,
                  WriteAccount, Cascade, WritePortfolio
    <3>2. QED
      BY <2>1, <3>1, TypedFacts DEF End, Proceed
  <2>2. QED
    BY <1>1, <2>1
<1>4. ~End(c)
  BY <1>1, EndedCalls DEF Idle
<1>5. ASSUME NEW step, Proceed(c, step)
      PROVE  call'[c].step = step
  <2>1. call[c] \in Creation \/ call[c] \in Update
    BY <1>1
  <2>2. QED
    BY <1>5, <2>1, TypedFacts DEF Proceed, Creation, Update
<1>6. \/ CheckName(c)
      \/ CheckNewName(c)
      \/ CopyChecks(c)
  BY <1>2, <1>3, <1>4 DEF CallStep, Fail, Insert, WriteUpdate, WriteChange, WriteAccount, Cascade,
                           WritePortfolio
<1>7. CASE CheckName(c) \/ CheckNewName(c)
  <2>1. ~NameTaken(call[c].owner, call[c].data.name) /\ UNCHANGED row
    BY <1>4, <1>7 DEF CheckName, CheckNewName
  <2>2. QED
    BY <1>1, <2>1 DEF NameTaken, SameName
<1>8. CASE CopyChecks(c)
  <2>1. call[c].op = "copy" /\ call'[c].step # "insert"
    BY <1>4, <1>5, <1>8 DEF CopyChecks, At
  <2>2. call[c] \notin Update
    BY <2>1 DEF Update
  <2>3. QED
    BY <1>1, <2>1, <2>2
<1>9. QED
  BY <1>6, <1>7, <1>8

LEMMA PotentialGrowsNot ==
    ASSUME BookInv, BookNext, NEW o \in Owners, NEW n \in Names, NEW s,
           s \in Potential(o, n)', s \notin Potential(o, n)
    PROVE  SameName(o, n) = {} /\ UNCHANGED row
<1>1. Typed /\ s \in Strategies
  BY DEF BookInv, Potential, SameName
<1>2. None \notin Names
  BY BookAssumption
<1>3. CASE s \in SameName(o, n)'
  <2>1. row'[s].state = "active" /\ row'[s].owner = o /\ row'[s].name = n
    BY <1>3 DEF SameName
  <2>2. CASE row'[s] = row[s]
    BY <1>1, <2>1, <2>2 DEF Potential, SameName
  <2>3. ASSUME NEW c \in Calls, s = call[c].s, call[c].step = "insert",
               ByInsert(call[c], row[s], row'[s])
        PROVE  FALSE
    <3>1. call[c] \in Creation /\ call[c].owner = o /\ call[c].data.name = n
      BY <1>1, <2>1, <2>3, TypedFacts DEF ByInsert, Carried
    <3>2. QED
      BY <1>1, <2>3, <3>1 DEF Claims, Potential
  <2>4. ASSUME NEW c \in Calls, s = call[c].s, call[c].step = "write",
               ByUpdate(call[c], row[s], row'[s])
        PROVE  FALSE
    <3>1. /\ call[c] \in Update /\ row[s].state = "active" /\ row[s].owner = o
          /\ call[c].owner = o
      BY <2>1, <2>4 DEF ByUpdate, Stays, BookInv, Placed
    <3>2. row[s].name = n \/ call[c].data.name = n
      BY <2>1, <2>4 DEF ByUpdate, Given
    <3>3. QED
      BY <1>1, <2>4, <3>1, <3>2 DEF Claims, Potential, SameName
  <2>5. ASSUME NEW c \in Calls, ByChange(call[c], row[s], row'[s]) \/ ByCascade(call[c], row[s], row'[s])
        PROVE  FALSE
    <3>1. row[s].state = "active" /\ row[s].owner = o /\ row[s].name = n
      BY <2>1, <2>5 DEF ByChange, ByCascade, Stays
    <3>2. QED
      BY <1>1, <3>1 DEF Potential, SameName
  <2>6. QED
    BY <1>1, <2>2, <2>3, <2>4, <2>5, RowWrites
<1>4. CASE s \notin SameName(o, n)'
  <2>1. PICK c \in Calls : Claims(call'[c], o, n) /\ s = call'[c].s
    BY <1>4 DEF Potential, Claims
  <2>2. PICK r : r = call'[c]
    OBVIOUS
  <2>3. r.step # "idle" /\ r # Idle
    BY <2>1, <2>2 DEF Claims, Idle
  <2>4. CASE SameCall(call'[c], call[c])
    <3>1. ~Claims(call[c], o, n)
      BY <1>1, <2>1, <2>4 DEF SameCall, Potential
    <3>2. QED
      BY <1>1, <2>1, <2>4, <3>1, ClaimsAreChecked
  <2>5. CASE Checked(call'[c])
    <3>1. /\ r \in Update /\ r.step = "write" /\ r.data.name = n /\ r.owner = o
      BY <2>1, <2>2, <2>5 DEF Claims, Checked
    <3>2. row[s].state = "active" /\ row[s].owner = o /\ r.data.name \in {None, row[s].name}
      BY <2>1, <2>2, <2>5, <3>1 DEF Checked
    <3>3. s \in SameName(o, n)
      BY <1>1, <1>2, <3>1, <3>2 DEF SameName
    <3>4. QED
      BY <3>3 DEF Potential
  <2>6. QED
    BY <1>1, <2>2, <2>3, <2>4, <2>5, Transition DEF Remains
<1>5. QED
  BY <1>3, <1>4

LEMMA DuplicatesInitially == BookInit => Duplicates
<1> SUFFICES ASSUME BookInit, NEW o \in Owners, NEW n \in Names
             PROVE  Bounded(Potential(o, n))
  BY DEF Duplicates
<1>1. \A c \in Calls : call[c] = Idle
  BY DEF BookInit
<1>2. Idle \notin Creation /\ Idle \notin Update
  BY DEF Idle, Creation, Update
<1>3. PICK p \in Populations : row = p.row
  BY DEF BookInit
<1>4. \A s, t \in SameName(o, n) : s = t
  BY <1>3, BookAssumption DEF SameName
<1>5. Potential(o, n) = SameName(o, n)
  BY <1>1, <1>2 DEF Potential, Claims
<1>6. PICK c \in Calls : TRUE
  BY BookAssumption
<1>7. \A t \in SameName(o, n) : Bounded(SameName(o, n))
  <2>1. TAKE t \in SameName(o, n)
  <2>2. PICK f : f = [d \in Calls |-> t]
    OBVIOUS
  <2>3. f = [d \in Calls |-> f[d]] /\ \A s \in SameName(o, n) : s = f[c]
    BY <1>4, <1>6, <2>2
  <2>4. QED
    BY <1>6, <2>3, HeldIsBounded
<1>8. CASE SameName(o, n) = {}
  <2>1. PICK f : f = [d \in Calls |-> None]
    OBVIOUS
  <2>2. f = [d \in Calls |-> f[d]]
    BY <2>1
  <2>3. QED
    BY <1>5, <1>8, <2>2, HeldIsBounded
<1>9. QED
  BY <1>5, <1>7, <1>8

LEMMA DuplicatesRemain == BookInv /\ Duplicates /\ [BookNext]_vars => Duplicates'
<1>1. ASSUME BookInv, Duplicates, BookNext, NEW o \in Owners, NEW n \in Names
      PROVE  Bounded(Potential(o, n)')
  <2>1. CASE Potential(o, n)' \subseteq Potential(o, n)
    BY <1>1, <2>1, SmallerIsBounded DEF Duplicates
  <2>2. CASE SameName(o, n) = {} /\ UNCHANGED row
    <3>1. PICK f : f = [c \in Calls |-> call'[c].s]
      OBVIOUS
    <3>2. f = [c \in Calls |-> f[c]]
      BY <3>1
    <3>3. \A s \in Potential(o, n)' : \E c \in Calls : s = f[c]
      BY <2>2, <3>1 DEF Potential, SameName
    <3>4. QED
      BY <3>2, <3>3, HeldIsBounded
  <2>3. QED
    BY <1>1, <2>1, <2>2, PotentialGrowsNot
<1>2. ASSUME Duplicates, UNCHANGED vars
      PROVE  Duplicates'
  BY <1>2 DEF vars, Duplicates, Potential, SameName
<1>3. QED
  BY <1>1, <1>2 DEF Duplicates, Bounded

\* However creations, copies and renames overlap, no more active strategies of an account
\* share a name than requests are in flight at a time (DuplicatesBounded).
THEOREM DuplicatesAreBounded == BookSpec => []DuplicatesBounded
<1>1. Duplicates => DuplicatesBounded
  <2> SUFFICES ASSUME Duplicates, NEW o \in Owners, NEW n \in Names
               PROVE  Cardinality(SameName(o, n)) <= Cardinality(Calls)
    BY DEF DuplicatesBounded, Owners
  <2>1. SameName(o, n) \in SUBSET Potential(o, n)
    BY DEF Potential
  <2>2. QED
    BY <2>1, SmallerIsBounded DEF Duplicates, Bounded
<1>2. QED
  BY <1>1, DuplicatesInitially, DuplicatesRemain, AlwaysBookInv, PTL DEF BookSpec
=============================================================================
