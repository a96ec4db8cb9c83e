-------------------------- MODULE TwoFactorProofs --------------------------
(***************************************************************************)
(* What two-factor authentication keeps out, for any number of overlapping *)
(* requests and backup codes and any limit on attempts.                    *)
(***************************************************************************)
EXTENDS TwoFactor, FiniteSetTheorems, TLAPS

FlowType == [op : FlowOps, step : FlowSteps, code : BackupCodes \cup {NoBackup}]

\* A flow is to mark a code only when it has matched one.
Typed ==
    /\ TwoFactorTypeOK
    /\ \A f \in Flows : flow[f].step = "mark" => flow[f].code \in BackupCodes

\* What one request does to the flows: it replaces its own by one of its type.
FlowMoves(f) ==
    \E r \in FlowType : /\ flow' = [flow EXCEPT ![f] = r]
                        /\ r.step = "mark" => r.code \in BackupCodes

LEMMA FlowsMove ==
    ASSUME Typed, NEW f \in Flows, Request(f)
    PROVE  /\ FlowMoves(f)
           /\ begun' \in {begun, begun + 1}
<1>1. flow \in [Flows -> FlowType] /\ flow[f] \in FlowType
  BY DEF Typed, TwoFactorTypeOK, FlowType
<1>2. ASSUME flow' = flow
      PROVE  FlowMoves(f)
  <2>1. flow' = [flow EXCEPT ![f] = flow[f]]
    BY <1>1, <1>2
  <2>2. QED
    <3>1. flow[f].step = "mark" => flow[f].code \in BackupCodes
      BY DEF Typed
    <3>2. QED
      BY <1>1, <2>1, <3>1 DEF FlowMoves
<1>3. CASE Finish(f)
  <2>1. Waiting \in FlowType /\ Waiting.step # "mark"
    BY DEF Waiting, FlowType, FlowOps, FlowSteps
  <2>2. QED
    BY <1>3, <2>1 DEF Finish, FlowMoves
<1>4. ASSUME NEW op \in FlowOps, NEW step \in FlowSteps \ {"mark"}
      PROVE  [op |-> op, step |-> step, code |-> NoBackup] \in FlowType
  BY DEF FlowType
<1>5. ASSUME NEW step \in FlowSteps \ {"mark"}
      PROVE  [flow[f] EXCEPT !.step = step] \in FlowType /\ [flow[f] EXCEPT !.step = step].step = step
  BY <1>1 DEF FlowType
<1>6. CASE PasswordLogin(f) \/ GoogleLogin(f) \/ Refresh(f) \/ Setup(f) \/ Enable(f)
           \/ Disable(f) \/ SecondStep(f) \/ Regenerate(f)
  <2>1. \/ flow' = flow
        \/ \E op \in FlowOps, step \in FlowSteps \ {"mark"} :
              flow' = [flow EXCEPT ![f] = [op |-> op, step |-> step, code |-> NoBackup]]
    BY <1>6 DEF PasswordLogin, GoogleLogin, Refresh, Setup, Enable, Disable, SecondStep,
       Regenerate, BeginFlow, FlowOps, FlowSteps
  <2>2. FlowMoves(f)
    BY <1>2, <1>4, <2>1 DEF FlowMoves
  <2>3. begun' = begun + 1
    BY <1>6 DEF PasswordLogin, GoogleLogin, Refresh, Setup, Enable, Disable, SecondStep,
       Regenerate, BeginFlow
  <2>4. QED
    BY <2>2, <2>3
<1>7. CASE CheckRateLimit(f) \/ VerifyTotp(f) \/ MarkUsed(f)
  <2>1. Finish(f) \/ \E step \in FlowSteps \ {"mark"} : Continue(f, step)
    BY <1>7 DEF CheckRateLimit, VerifyTotp, MarkUsed, Accepted, FlowSteps
  <2>2. QED
    BY <1>3, <1>5, <2>1 DEF Continue, Finish, FlowMoves
<1>8. CASE MatchBackupCode(f)
  <2>1. CASE flow' = [flow EXCEPT ![f].step = "log"]
    BY <1>5, <1>8, <2>1 DEF MatchBackupCode, FlowMoves, FlowSteps
  <2>2. ASSUME NEW b \in BackupCodes, flow' = [flow EXCEPT ![f].step = "mark", ![f].code = b]
        PROVE  FlowMoves(f)
    <3> DEFINE r == [flow[f] EXCEPT !.step = "mark", !.code = b]
    <3>1. r \in FlowType /\ r.code = b
      BY <1>1 DEF FlowType, FlowSteps
    <3>2. flow' = [flow EXCEPT ![f] = r]
      BY <2>2
    <3>3. QED
      BY <3>1, <3>2 DEF FlowMoves
  <2>3. QED
    BY <1>8, <2>1, <2>2 DEF MatchBackupCode
<1>9. QED
  BY <1>3, <1>6, <1>7, <1>8
     DEF Request, IssueTokens, WriteSetup, WriteEnabled, LogFailure, WriteDisabled, WriteRegenerated,
       FlowFails, Finish

LEMMA NewCodesAreTyped ==
    ASSUME NEW codes \in [BackupCodes -> {"new", "open", "used", "deleted"}],
           NEW after \in WithNewCodes(codes)
    PROVE  /\ after \in [BackupCodes -> {"new", "open", "used", "deleted"}]
           /\ \A b \in BackupCodes : codes[b] # "new" => after[b] = codes[b]
BY DEF WithNewCodes

LEMMA TypedInvariant == TwoFactorSpec => []Typed
<1>1. TwoFactorInit => Typed
  BY DEF TwoFactorInit, Typed, TwoFactorTypeOK, Off, Waiting, FlowOps, FlowSteps
<1>2. Typed /\ [TwoFactorNext]_twoFactorVars => Typed'
  <2> SUFFICES ASSUME Typed, [TwoFactorNext]_twoFactorVars
               PROVE  Typed'
    OBVIOUS
  <2>1. TwoFactorTypeOK /\ flow \in [Flows -> FlowType]
        /\ \A f \in Flows : flow[f].step = "mark" => flow[f].code \in BackupCodes
    BY DEF Typed, TwoFactorTypeOK, FlowType
  <2>2. CASE UNCHANGED twoFactorVars
    BY <2>2 DEF twoFactorVars, Typed, TwoFactorTypeOK
  <2>3. CASE WindowMoves \/ ClockTicks
    BY <2>1, <2>3 DEF WindowMoves, ClockTicks, Typed, TwoFactorTypeOK
  <2>4. ASSUME NEW f \in Flows, FlowMoves(f)
        PROVE  /\ flow' \in [Flows -> FlowType]
               /\ \A g \in Flows : flow'[g].step = "mark" => flow'[g].code \in BackupCodes
    <3>1. PICK r \in FlowType : /\ flow' = [flow EXCEPT ![f] = r]
                                /\ r.step = "mark" => r.code \in BackupCodes
      BY <2>4 DEF FlowMoves
    <3>2. QED
      BY <2>1, <3>1
  <2> DEFINE Rows == /\ factor' \in [enabled : BOOLEAN, secret : BOOLEAN, enabledAt : Nat]
                     /\ backup' \in [BackupCodes -> {"new", "open", "used", "deleted"}]
                     /\ recent' \in Nat /\ clock' \in Nat
                     /\ issued' \subseteq [kind : {"session", "pending"}, stamp : Nat, at : Nat]
                     /\ spent' \in [BackupCodes -> Nat]
  <2>5. CASE \E f \in Flows : Request(f)
    <3>1. PICK f \in Flows : Request(f)
      BY <2>5
    <3>2. ASSUME PasswordLogin(f) \/ IssueTokens(f)
          PROVE  Rows
      BY <2>1, <3>2 DEF PasswordLogin, IssueTokens, TwoFactorTypeOK
    <3>3. ASSUME WriteSetup(f)
          PROVE  Rows
      BY <2>1, <3>3 DEF WriteSetup, Off, TwoFactorTypeOK
    <3>4. ASSUME WriteEnabled(f)
          PROVE  Rows
      BY <2>1, <3>4, NewCodesAreTyped DEF WriteEnabled, TwoFactorTypeOK
    <3>5. ASSUME WriteDisabled(f)
          PROVE  Rows
      BY <2>1, <3>5 DEF WriteDisabled, Off, CodesDeleted, TwoFactorTypeOK
    <3>6. ASSUME WriteRegenerated(f)
          PROVE  Rows
      <4>1. CodesDeleted \in [BackupCodes -> {"new", "open", "used", "deleted"}]
        BY <2>1 DEF CodesDeleted, TwoFactorTypeOK
      <4>2. QED
        BY <2>1, <3>6, <4>1, NewCodesAreTyped DEF WriteRegenerated, TwoFactorTypeOK
    <3>7. ASSUME MarkUsed(f)
          PROVE  Rows
      BY <2>1, <3>7 DEF MarkUsed, TwoFactorTypeOK
    <3>8. ASSUME LogFailure(f)
          PROVE  Rows
      BY <2>1, <3>8 DEF LogFailure, TwoFactorTypeOK
    <3>9. ASSUME UNCHANGED <<factor, backup, recent, issued, clock, spent>>
          PROVE  Rows
      BY <2>1, <3>9 DEF TwoFactorTypeOK
    <3>10. Rows
      BY <3>1, <3>2, <3>3, <3>4, <3>5, <3>6, <3>7, <3>8, <3>9
         DEF Request, GoogleLogin, Refresh, Setup, Enable, Disable, SecondStep, CheckRateLimit,
           VerifyTotp, MatchBackupCode, Regenerate, FlowFails
    <3>11. FlowMoves(f) /\ begun' \in Nat
      BY <2>1, <3>1, FlowsMove DEF TwoFactorTypeOK
    <3>12. QED
      BY <2>4, <3>10, <3>11 DEF Typed, TwoFactorTypeOK, FlowType
  <2>6. QED
    BY <2>2, <2>3, <2>5 DEF TwoFactorNext
<1>3. QED
  BY <1>1, <1>2, PTL DEF TwoFactorSpec

\* Every variable keeps its type, for any requests, backup codes and limits.
THEOREM TwoFactorTypeCorrect == TwoFactorSpec => []TwoFactorTypeOK
BY TypedInvariant, PTL DEF Typed

---------------------------------------------------------------------------
(* Sessions.                                                               *)

\* No stamp is from the future, a pending token has none, and 2FA that is on has one.
Stamped ==
    /\ clock >= 1 /\ factor.enabledAt <= clock
    /\ factor.enabled => factor.enabledAt >= 1
    /\ \A t \in issued : IF t.kind = "pending" THEN t.stamp = 0 ELSE t.stamp <= t.at

LEMMA StampedInvariant == TwoFactorSpec => []Stamped
<1>1. TwoFactorInit => Stamped
  BY DEF TwoFactorInit, Stamped, Off
<1>2. Typed /\ Stamped /\ [TwoFactorNext]_twoFactorVars => Stamped'
  <2> SUFFICES ASSUME Typed, Stamped, [TwoFactorNext]_twoFactorVars
               PROVE  Stamped'
    OBVIOUS
  <2>1. /\ factor \in [enabled : BOOLEAN, secret : BOOLEAN, enabledAt : Nat] /\ clock \in Nat
        /\ issued \subseteq [kind : {"session", "pending"}, stamp : Nat, at : Nat]
    BY DEF Typed, TwoFactorTypeOK
  <2>2. CASE UNCHANGED <<factor, issued, clock>>
    BY <2>2 DEF Stamped
  <2>3. CASE \E f \in Flows : PasswordLogin(f) \/ IssueTokens(f)
    <3>1. PICK t : issued' \subseteq issued \cup {t} /\ t \in {[kind |-> "pending", stamp |-> 0, at |-> clock],
                                                    [kind |-> "session", stamp |-> factor.enabledAt, at |-> clock]}
      BY <2>3 DEF PasswordLogin, IssueTokens
    <3>2. IF t.kind = "pending" THEN t.stamp = 0 ELSE t.stamp <= t.at
      BY <3>1 DEF Stamped
    <3>3. factor' = factor /\ clock' = clock
      BY <2>3 DEF PasswordLogin, IssueTokens
    <3>4. QED
      BY <3>1, <3>2, <3>3 DEF Stamped
  <2>4. CASE \E f \in Flows : WriteSetup(f) \/ WriteDisabled(f)
    <3>1. factor'.enabledAt = 0 /\ factor'.enabled = FALSE /\ issued' = issued /\ clock' = clock
      BY <2>4 DEF WriteSetup, WriteDisabled, Off
    <3>2. QED
      BY <2>1, <3>1 DEF Stamped
  <2>5. CASE \E f \in Flows : WriteEnabled(f)
    <3>1. factor'.enabledAt = clock /\ issued' = issued /\ clock' = clock
      BY <2>1, <2>5 DEF WriteEnabled
    <3>2. QED
      BY <2>1, <3>1 DEF Stamped
  <2>6. CASE ClockTicks
    BY <2>1, <2>6 DEF ClockTicks, Stamped
  <2>7. QED
    BY <2>2, <2>3, <2>4, <2>5, <2>6
       DEF TwoFactorNext, twoFactorVars, Request, GoogleLogin, Refresh, Setup, Enable, Disable,
         SecondStep, CheckRateLimit, VerifyTotp, MatchBackupCode, MarkUsed, LogFailure, Regenerate,
         WriteRegenerated, FlowFails, WindowMoves
<1>3. QED
  BY <1>1, <1>2, TypedInvariant, PTL DEF TwoFactorSpec

\* However often 2FA goes off and on and whatever is in flight, while it is on no session
\* from before and no token of an unfinished login is accepted.
THEOREM EnablingIsACut == TwoFactorSpec => []EnablingEndsAccess
<1>1. Typed /\ Stamped => EnablingEndsAccess
  BY DEF Typed, TwoFactorTypeOK, Stamped, EnablingEndsAccess, Admits
<1>2. QED
  BY <1>1, TypedInvariant, StampedInvariant, PTL

---------------------------------------------------------------------------
(* Attempts and backup codes.                                              *)

\* Requests that have passed the limit and may still log a failure.
Past == {f \in Flows : flow[f].step \in {"verify", "match", "log"}}

\* Requests that have matched a backup code and will mark it.
Marking(b) == {f \in Flows : flow[f].step = "mark" /\ flow[f].code = b}

Limits ==
    /\ recent + Cardinality(Past) < MaxAttempts + Cardinality(Flows)
    /\ \A b \in BackupCodes :
          /\ spent[b] + Cardinality(Marking(b)) <= Cardinality(Flows)
          /\ spent[b] > 0 => backup[b] \in {"used", "deleted"}

LEMMA SomeFlows ==
    ASSUME NEW S, S \subseteq Flows
    PROVE  IsFiniteSet(S) /\ Cardinality(S) \in Nat /\ Cardinality(S) <= Cardinality(Flows)
           /\ Cardinality(Flows) \in Nat
BY TwoFactorAssumption, FS_Subset, FS_CardinalityType

LEMMA FewerFlows ==
    ASSUME NEW S, S \subseteq Flows, NEW T, T \subseteq S
    PROVE  Cardinality(T) <= Cardinality(S) /\ Cardinality(T) \in Nat /\ Cardinality(S) \in Nat
BY SomeFlows, FS_Subset, FS_CardinalityType

LEMMA OneFlowLess ==
    ASSUME NEW S, S \subseteq Flows, NEW f \in S, NEW T, T \subseteq S \ {f}
    PROVE  Cardinality(T) + 1 <= Cardinality(S) /\ Cardinality(T) \in Nat /\ Cardinality(S) \in Nat
<1>1. IsFiniteSet(S) /\ Cardinality(S) \in Nat /\ Cardinality(T) \in Nat
  BY SomeFlows
<1>2. Cardinality(S \ {f}) = Cardinality(S) - 1
  BY <1>1, FS_RemoveElement
<1>3. Cardinality(T) <= Cardinality(S \ {f})
  BY FewerFlows
<1>4. QED
  BY <1>1, <1>2, <1>3

\* A flow comes past the limit by the check, and to its marking by a match.
LEMMA Entered ==
    ASSUME Typed, NEW f \in Flows, Request(f), NEW g \in Flows
    PROVE  /\ flow'[g].step \in {"verify", "match", "log"} /\ flow[g].step \notin {"verify", "match", "log"} =>
                  g = f /\ CheckRateLimit(f) /\ ~Limited
           /\ flow'[g].step = "mark" /\ flow'[g] # flow[g] =>
                  g = f /\ MatchBackupCode(f) /\ Usable(flow'[g].code)
<1>1. flow \in [Flows -> FlowType] /\ flow[f] \in FlowType
  BY DEF Typed, TwoFactorTypeOK, FlowType
<1>2. CASE g # f
  <2>1. PICK r : flow' = [flow EXCEPT ![f] = r]
    BY FlowsMove DEF FlowMoves
  <2>2. flow'[g] = flow[g]
    BY <1>1, <1>2, <2>1
  <2>3. QED
    BY <2>2
<1>3. CASE g = f
  <2>1. ASSUME Finish(f)
        PROVE  flow'[f].step = "idle"
    BY <1>1, <2>1 DEF Finish, Waiting
  <2>2. CASE PasswordLogin(f) \/ GoogleLogin(f) \/ Refresh(f) \/ Setup(f) \/ Enable(f)
             \/ Disable(f) \/ SecondStep(f) \/ Regenerate(f)
    <3>1. flow' = flow \/ flow'[f].step \in {"token", "write", "limit"}
      BY <1>1, <2>2 DEF PasswordLogin, GoogleLogin, Refresh, Setup, Enable, Disable, SecondStep,
         Regenerate, BeginFlow
    <3>2. QED
      BY <1>3, <3>1
  <2>3. CASE CheckRateLimit(f)
    <3>1. Limited => flow'[f].step = "idle"
      BY <2>1, <2>3 DEF CheckRateLimit
    <3>2. ~Limited => flow'[f].step = "verify"
      BY <1>1, <2>3 DEF CheckRateLimit, Continue, FlowType
    <3>3. QED
      BY <1>3, <2>3, <3>1, <3>2
  <2>4. CASE VerifyTotp(f)
    <3>1. flow[f].step = "verify" /\ flow'[f].step \in {"idle", "write", "token", "match"}
      BY <1>1, <2>1, <2>4 DEF VerifyTotp, Continue, Accepted, FlowType
    <3>2. QED
      BY <1>3, <3>1
  <2>5. CASE MatchBackupCode(f)
    <3>1. /\ flow[f].step = "match"
          /\ \/ flow'[f].step = "log"
             \/ flow'[f].step = "mark" /\ Usable(flow'[f].code)
      BY <1>1, <2>5 DEF MatchBackupCode, FlowType
    <3>2. QED
      BY <1>3, <2>5, <3>1
  <2>6. CASE MarkUsed(f)
    <3>1. flow'[f].step \in {"idle", "write", "token"}
      BY <1>1, <2>1, <2>6 DEF MarkUsed, Continue, Accepted, FlowType
    <3>2. QED
      BY <1>3, <3>1
  <2>7. QED
    BY <1>3, <2>1, <2>2, <2>3, <2>4, <2>5, <2>6
       DEF Request, IssueTokens, WriteSetup, WriteEnabled, LogFailure, WriteDisabled,
         WriteRegenerated, FlowFails
<1>4. QED
  BY <1>2, <1>3

LEMMA LimitsInvariant == TwoFactorSpec => []Limits
<1>1. TwoFactorInit => Limits
  <2> SUFFICES ASSUME TwoFactorInit
               PROVE  Limits
    OBVIOUS
  <2>1. Past = {} /\ recent = 0
    BY DEF TwoFactorInit, Past, Waiting
  <2>2. ASSUME NEW b \in BackupCodes
        PROVE  Marking(b) = {} /\ spent[b] = 0
    BY DEF TwoFactorInit, Marking, Waiting
  <2>3. Cardinality({}) = 0 /\ Cardinality(Flows) \in Nat
    BY TwoFactorAssumption, FS_EmptySet, FS_CardinalityType
  <2>4. recent + Cardinality(Past) < MaxAttempts + Cardinality(Flows)
    BY <2>1, <2>3, TwoFactorAssumption
  <2>5. ASSUME NEW b \in BackupCodes
        PROVE  spent[b] + Cardinality(Marking(b)) <= Cardinality(Flows) /\ ~(spent[b] > 0)
    BY <2>2, <2>3
  <2>6. QED
    BY <2>4, <2>5 DEF Limits
<1>2. Typed /\ Limits /\ [TwoFactorNext]_twoFactorVars => Limits'
  <2> SUFFICES ASSUME Typed, Limits, [TwoFactorNext]_twoFactorVars
               PROVE  Limits'
    OBVIOUS
  <2>1. /\ flow \in [Flows -> FlowType] /\ recent \in Nat /\ MaxAttempts \in Nat \ {0}
        /\ backup \in [BackupCodes -> {"new", "open", "used", "deleted"}]
        /\ spent \in [BackupCodes -> Nat]
    BY TwoFactorAssumption DEF Typed, TwoFactorTypeOK, FlowType
  <2>2. CASE (UNCHANGED twoFactorVars) \/ WindowMoves \/ ClockTicks
    <3>1. /\ Past' = Past /\ recent' \in Nat /\ recent' <= recent
          /\ \A b \in BackupCodes : Marking(b)' = Marking(b)
          /\ spent' = spent /\ backup' = backup
      BY <2>1, <2>2 DEF twoFactorVars, WindowMoves, ClockTicks, Past, Marking
    <3>2. Past \subseteq Flows
      BY DEF Past
    <3>3. QED
      BY <2>1, <3>1, <3>2, SomeFlows DEF Limits
  <2>3. CASE \E f \in Flows : Request(f)
    <3>1. PICK f \in Flows : Request(f)
      BY <2>3
    <3>2. (recent + Cardinality(Past) < MaxAttempts + Cardinality(Flows))'
      <4>1. Past \subseteq Flows /\ Past' \subseteq Flows
        BY DEF Past
      <4>2. recent' = recent \/ LogFailure(f)
        BY <3>1 DEF Request, PasswordLogin, GoogleLogin, Refresh, IssueTokens, Setup, WriteSetup,
           Enable, WriteEnabled, Disable, SecondStep, CheckRateLimit, VerifyTotp,
           MatchBackupCode, MarkUsed, WriteDisabled, Regenerate, WriteRegenerated, FlowFails
      <4>3. CASE LogFailure(f)
        <5>1. recent' = recent + 1 /\ f \in Past /\ Past' \subseteq Past \ {f}
          BY <2>1, <4>3 DEF LogFailure, Finish, Waiting, Past
        <5>2. QED
          BY <2>1, <4>1, <5>1, OneFlowLess, SomeFlows DEF Limits
      <4>4. CASE ~LogFailure(f) /\ Past' \subseteq Past
        BY <2>1, <4>1, <4>2, <4>4, FewerFlows, SomeFlows DEF Limits
      <4>5. CASE ~LogFailure(f) /\ ~(Past' \subseteq Past)
        <5>1. ~Limited
          BY <3>1, <4>1, <4>5, Entered DEF Past
        <5>2. recent' < MaxAttempts
          BY <2>1, <4>2, <4>5, <5>1 DEF Limited
        <5>3. QED
          BY <2>1, <4>1, <4>2, <4>5, <5>2, SomeFlows
      <4>6. QED
        BY <4>3, <4>4, <4>5
    <3>3. ASSUME NEW b \in BackupCodes
          PROVE  /\ (spent[b] + Cardinality(Marking(b)) <= Cardinality(Flows))'
                 /\ (spent[b] > 0 => backup[b] \in {"used", "deleted"})'
      <4> DEFINE M == Marking(b)
      <4>1. M \subseteq Flows /\ M' \subseteq Flows
        BY DEF Marking
      <4>2. /\ spent[b] \in Nat /\ spent[b] + Cardinality(M) <= Cardinality(Flows)
            /\ spent[b] > 0 => backup[b] \in {"used", "deleted"}
        BY <2>1 DEF Limits
      <4>3. ASSUME NEW g \in M', g \notin M
            PROVE  backup[b] = "open"
        <5>1. flow'[g].step = "mark" /\ flow'[g].code = b /\ flow'[g] # flow[g]
          BY <4>3 DEF Marking
        <5>2. Usable(flow'[g].code)
          BY <3>1, <4>1, <5>1, Entered
        <5>3. QED
          BY <5>1, <5>2 DEF Usable
      \* A code that is used or deleted never opens again.
      <4>4. backup[b] \in {"used", "deleted"} => backup'[b] \in {"used", "deleted"}
        <5>1. CASE backup' = backup
          BY <5>1
        <5>2. CASE WriteEnabled(f)
          BY <2>1, <5>2, NewCodesAreTyped DEF WriteEnabled
        <5>3. CodesDeleted \in [BackupCodes -> {"new", "open", "used", "deleted"}]
              /\ (backup[b] # "new" => CodesDeleted[b] = "deleted")
          BY <2>1 DEF CodesDeleted
        <5>4. CASE WriteDisabled(f)
          BY <5>3, <5>4 DEF WriteDisabled
        <5>5. CASE WriteRegenerated(f)
          BY <5>3, <5>5, NewCodesAreTyped DEF WriteRegenerated
        <5>6. CASE MarkUsed(f)
          BY <2>1, <5>6 DEF MarkUsed
        <5>7. QED
          BY <3>1, <5>1, <5>2, <5>4, <5>5, <5>6
             DEF Request, PasswordLogin, GoogleLogin, Refresh, IssueTokens, Setup, WriteSetup,
               Enable, Disable, SecondStep, CheckRateLimit, VerifyTotp, MatchBackupCode,
               LogFailure, Regenerate, FlowFails
      <4>5. CASE MarkUsed(f) /\ flow[f].code = b /\ backup[b] # "deleted"
        <5>1. spent'[b] = spent[b] + 1 /\ backup'[b] = "used"
          BY <2>1, <4>5 DEF MarkUsed
        <5>2. f \in M
          BY <4>5 DEF MarkUsed, Marking
        <5>3. M' \subseteq M \ {f}
          BY <2>1, <4>5 DEF MarkUsed, Finish, Continue, Accepted, Waiting, Marking, FlowType
        <5>4. QED
          BY <4>1, <4>2, <5>1, <5>2, <5>3, OneFlowLess, SomeFlows
      <4>6. CASE ~(MarkUsed(f) /\ flow[f].code = b /\ backup[b] # "deleted")
        <5>1. spent'[b] = spent[b]
          BY <2>1, <3>1, <4>6
             DEF Request, PasswordLogin, GoogleLogin, Refresh, IssueTokens, Setup, WriteSetup,
               Enable, WriteEnabled, Disable, SecondStep, CheckRateLimit, VerifyTotp,
               MatchBackupCode, MarkUsed, LogFailure, WriteDisabled, Regenerate,
               WriteRegenerated, FlowFails
        <5>2. spent'[b] > 0 => backup'[b] \in {"used", "deleted"}
          BY <4>2, <4>4, <5>1
        <5>3. CASE M' \subseteq M
          BY <4>1, <4>2, <5>1, <5>2, <5>3, FewerFlows, SomeFlows
        <5>4. CASE ~(M' \subseteq M)
          <6>1. spent'[b] = 0
            BY <4>2, <4>3, <5>1, <5>4
          <6>2. QED
            BY <4>1, <5>2, <6>1, SomeFlows
        <5>5. QED
          BY <5>3, <5>4
      <4>7. QED
        BY <4>5, <4>6
    <3>4. QED
      BY <3>2, <3>3 DEF Limits
  <2>4. QED
    BY <2>2, <2>3 DEF TwoFactorNext
<1>3. QED
  BY <1>1, <1>2, TypedInvariant, PTL DEF TwoFactorSpec

\* The limit on failed attempts is exceeded by requests in flight together, by no more.
THEOREM AttemptsAreLimited == TwoFactorSpec => []AttemptsLimited
<1>1. Typed /\ Limits => AttemptsLimited
  <2> SUFFICES ASSUME Typed, Limits
               PROVE  AttemptsLimited
    OBVIOUS
  <2>1. Past \subseteq Flows
    BY DEF Past
  <2>2. QED
    BY <2>1, SomeFlows, TwoFactorAssumption DEF Typed, TwoFactorTypeOK, Limits, AttemptsLimited
<1>2. QED
  BY <1>1, TypedInvariant, LimitsInvariant, PTL

\* A backup code is accepted at most once for each request that was in flight with it.
THEOREM BackupCodesAreSpent == TwoFactorSpec => []BackupCodesWearOut
<1>1. Typed /\ Limits => BackupCodesWearOut
  <2> SUFFICES ASSUME Typed, Limits, NEW b \in BackupCodes
               PROVE  spent[b] <= Cardinality(Flows)
    BY DEF BackupCodesWearOut
  <2>1. Marking(b) \subseteq Flows
    BY DEF Marking
  <2>2. QED
    BY <2>1, SomeFlows DEF Typed, TwoFactorTypeOK, Limits
<1>2. QED
  BY <1>1, TypedInvariant, LimitsInvariant, PTL
=============================================================================
