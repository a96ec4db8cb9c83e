----------------------------- MODULE TwoFactor -----------------------------
(***************************************************************************)
(* Two-factor authentication: set-up, enabling, disabling, regeneration of *)
(* backup codes and the second step of a login, with the limit on failed   *)
(* attempts and the tokens' stamp.  Requests run as flows of one step per  *)
(* awaited query, several at a time; a query may fail.                     *)
(*                                                                         *)
(* Abstractions.  One user, who has a password, and who gives it rightly   *)
(* (a wrong one changes nothing here).  Whether a TOTP code is valid is a  *)
(* free choice, so that of the secret it matters only whether there is     *)
(* one.  Times are seconds and 0 is null.  Attempts that succeeded are     *)
(* logged, but never counted, and left out; so are e-mails and cookies.    *)
(***************************************************************************)
EXTENDS Integers, FiniteSets

CONSTANTS
    Flows,              \* requests in flight
    BackupCodes,        \* ids of backup codes, none of them used again
    CodeCount,          \* BACKUP_CODE_COUNT
    MaxAttempts,        \* RATE_LIMIT_MAX_ATTEMPTS
    MaxFlows,           \* bound: requests begun
    MaxClock,           \* bound: the clock
    NoBackup

ASSUME TwoFactorAssumption ==
    /\ IsFiniteSet(Flows) /\ IsFiniteSet(BackupCodes)
    /\ MaxAttempts \in Nat \ {0} /\ CodeCount \in Nat
    /\ NoBackup \notin BackupCodes

VARIABLES
    factor,             \* the two_factor columns of the user
    backup,             \* backup codes: new (not yet a row), open, used, deleted
    recent,             \* failed attempts within the window
    issued,             \* tokens handed out
    flow,
    clock,
    begun,
    spent               \* how often each backup code has been accepted

twoFactorVars == <<factor, backup, recent, issued, flow, clock, begun, spent>>

Off == [enabled |-> FALSE, secret |-> FALSE, enabledAt |-> 0]
Waiting == [op |-> "none", step |-> "idle", code |-> NoBackup]

TwoFactorInit ==
    /\ factor = Off
    /\ backup = [b \in BackupCodes |-> "new"]
    /\ recent = 0
    /\ issued = {}
    /\ flow = [f \in Flows |-> Waiting]
    /\ clock = 1
    /\ begun = 0
    /\ spent = [b \in BackupCodes |-> 0]

FlowOps == {"none", "login", "second", "refresh", "setup", "enable", "disable", "regenerate"}
FlowSteps == {"idle", "token", "write", "limit", "verify", "match", "mark", "log"}

TwoFactorTypeOK ==
    /\ factor \in [enabled : BOOLEAN, secret : BOOLEAN, enabledAt : Nat]
    /\ backup \in [BackupCodes -> {"new", "open", "used", "deleted"}]
    /\ recent \in Nat
    /\ issued \subseteq [kind : {"session", "pending"}, stamp : Nat, at : Nat]
    /\ flow \in [Flows -> [op : FlowOps, step : FlowSteps, code : BackupCodes \cup {NoBackup}]]
    /\ clock \in Nat /\ begun \in Nat
    /\ spent \in [BackupCodes -> Nat]

---------------------------------------------------------------------------
BeginFlow(f, op, step) ==
    /\ flow[f].step = "idle"
    /\ begun < MaxFlows
    /\ begun' = begun + 1
    /\ flow' = [flow EXCEPT ![f] = [op |-> op, step |-> step, code |-> NoBackup]]

Continue(f, step) == flow' = [flow EXCEPT ![f].step = step] /\ UNCHANGED begun
Finish(f) == flow' = [flow EXCEPT ![f] = Waiting] /\ UNCHANGED begun

\* JwtStrategy.validate, as the gateway's middleware and WsJwtGuard: the stamp must be
\* the user's, null if and only if the user's is.  A pending token has no stamp, and its
\* purpose is not looked at.
AdmitsUnstamped(token) == token.stamp \in {0, factor.enabledAt}
Admits(token) == token.stamp = factor.enabledAt

SignedIn == \E t \in issued : Admits(t)

\* Password accepted.  With 2FA on, the answer is a pending token and the flow ends.
PasswordLogin(f) ==
    /\ IF factor.enabled
       THEN /\ flow[f].step = "idle" /\ begun < MaxFlows
            /\ begun' = begun + 1
            /\ issued' = issued \cup {[kind |-> "pending", stamp |-> 0, at |-> clock]}
            /\ UNCHANGED flow
       ELSE BeginFlow(f, "login", "token") /\ UNCHANGED issued
    /\ UNCHANGED <<factor, backup, recent, clock, spent>>

\* The callback of a Google sign-in issues tokens without a second step.
GoogleLogin(f) ==
    /\ BeginFlow(f, "login", "token")
    /\ UNCHANGED <<factor, backup, recent, issued, clock, spent>>

\* The refresh token is verified by its signature only.
Refresh(f) ==
    /\ \E t \in issued : t.kind = "session"
    /\ BeginFlow(f, "refresh", "token")
    /\ UNCHANGED <<factor, backup, recent, issued, clock, spent>>

\* generateTokens reads the stamp; at is the time of that read.
IssueTokens(f) ==
    /\ flow[f].step = "token"
    /\ issued' = issued \cup {[kind |-> "session", stamp |-> factor.enabledAt, at |-> clock]}
    /\ Finish(f)
    /\ UNCHANGED <<factor, backup, recent, clock, spent>>

---------------------------------------------------------------------------
(* Set-up and enabling: the row is read, then written.                     *)

Setup(f) ==
    /\ SignedIn
    /\ ~factor.enabled
    /\ BeginFlow(f, "setup", "write")
    /\ UNCHANGED <<factor, backup, recent, issued, clock, spent>>

WriteSetup(f) ==
    /\ flow[f].op = "setup" /\ flow[f].step = "write"
    /\ factor' = [Off EXCEPT !.secret = TRUE]
    /\ Finish(f)
    /\ UNCHANGED <<backup, recent, issued, clock, spent>>

\* The code is verified against the secret that was read.
Enable(f) ==
    /\ SignedIn
    /\ ~factor.enabled /\ factor.secret
    /\ BeginFlow(f, "enable", "write")
    /\ UNCHANGED <<factor, backup, recent, issued, clock, spent>>

\* CodeCount rows more.
WithNewCodes(codes) ==
    {[b \in BackupCodes |-> IF b \in B THEN "open" ELSE codes[b]] :
        B \in {S \in SUBSET {b \in BackupCodes : codes[b] = "new"} : Cardinality(S) = CodeCount}}

CodesDeleted == [b \in BackupCodes |-> IF backup[b] = "new" THEN "new" ELSE "deleted"]

\* One transaction; the codes of an earlier enabling, if any are left, stay.
WriteEnabled(f) ==
    /\ flow[f].op = "enable" /\ flow[f].step = "write"
    /\ factor' = [factor EXCEPT !.enabled = TRUE, !.enabledAt = clock]
    /\ backup' \in WithNewCodes(backup)
    /\ Finish(f)
    /\ UNCHANGED <<recent, issued, clock, spent>>

---------------------------------------------------------------------------
(* verify2FACode, for disabling and for the second step of a login.        *)

Disable(f) ==
    /\ SignedIn
    /\ factor.enabled
    /\ BeginFlow(f, "disable", "limit")
    /\ UNCHANGED <<factor, backup, recent, issued, clock, spent>>

SecondStep(f) ==
    /\ \E t \in issued : t.kind = "pending"
    /\ BeginFlow(f, "second", "limit")
    /\ UNCHANGED <<factor, backup, recent, issued, clock, spent>>

Unlimited == FALSE
Limited == recent >= MaxAttempts

CheckRateLimit(f) ==
    /\ flow[f].step = "limit"
    /\ IF Limited THEN Finish(f) ELSE Continue(f, "verify")
    /\ UNCHANGED <<factor, backup, recent, issued, clock, spent>>

\* What follows a valid code.
Accepted(f) == IF flow[f].op = "disable" THEN "write" ELSE "token"

VerifyTotp(f) ==
    /\ flow[f].step = "verify"
    /\ IF factor.enabled /\ factor.secret
       THEN \E step \in {Accepted(f), "match"} : Continue(f, step)
       ELSE Finish(f)
    /\ UNCHANGED <<factor, backup, recent, issued, clock, spent>>

UsableTwice(b) == backup[b] \in {"open", "used"}
Usable(b) == backup[b] = "open"

\* The unused codes are read, and the code is compared with each.
MatchBackupCode(f) ==
    /\ flow[f].step = "match"
    /\ \/ \E b \in BackupCodes :
            Usable(b) /\ flow' = [flow EXCEPT ![f].step = "mark", ![f].code = b]
       \/ flow' = [flow EXCEPT ![f].step = "log"]
    /\ UNCHANGED <<factor, backup, recent, issued, clock, begun, spent>>

\* Marked by id, used or not by now; the update fails if the row is gone.
MarkUsed(f) ==
    /\ flow[f].step = "mark"
    /\ LET b == flow[f].code IN
       IF backup[b] = "deleted"
       THEN Finish(f) /\ UNCHANGED <<backup, spent>>
       ELSE /\ backup' = [backup EXCEPT ![b] = "used"]
            /\ spent' = [spent EXCEPT ![b] = @ + 1]
            /\ Continue(f, Accepted(f))
    /\ UNCHANGED <<factor, recent, issued, clock>>

LogFailure(f) ==
    /\ flow[f].step = "log"
    /\ recent' = recent + 1
    /\ Finish(f)
    /\ UNCHANGED <<factor, backup, issued, clock, spent>>

\* The oldest failed attempt leaves the window of 15 minutes.
WindowMoves ==
    /\ recent > 0
    /\ recent' = recent - 1
    /\ UNCHANGED <<factor, backup, issued, flow, clock, begun, spent>>

WriteDisabled(f) ==
    /\ flow[f].op = "disable" /\ flow[f].step = "write"
    /\ factor' = Off
    /\ backup' = CodesDeleted
    /\ Finish(f)
    /\ UNCHANGED <<recent, issued, clock, spent>>

---------------------------------------------------------------------------
\* TOTP only, and without the limit on attempts.
Regenerate(f) ==
    /\ SignedIn
    /\ factor.enabled /\ factor.secret
    /\ BeginFlow(f, "regenerate", "write")
    /\ UNCHANGED <<factor, backup, recent, issued, clock, spent>>

WriteRegenerated(f) ==
    /\ flow[f].op = "regenerate" /\ flow[f].step = "write"
    /\ backup' \in WithNewCodes(CodesDeleted)
    /\ Finish(f)
    /\ UNCHANGED <<factor, recent, issued, clock, spent>>

\* A query fails, or the process goes down: what was written stays.
FlowFails(f) ==
    /\ flow[f].step # "idle"
    /\ Finish(f)
    /\ UNCHANGED <<factor, backup, recent, issued, clock, spent>>

ClockTicks ==
    /\ clock < MaxClock
    /\ clock' = clock + 1
    /\ UNCHANGED <<factor, backup, recent, issued, flow, begun, spent>>

Request(f) ==
    \/ PasswordLogin(f) \/ GoogleLogin(f) \/ Refresh(f) \/ IssueTokens(f)
    \/ Setup(f) \/ WriteSetup(f) \/ Enable(f) \/ WriteEnabled(f)
    \/ Disable(f) \/ SecondStep(f) \/ CheckRateLimit(f) \/ VerifyTotp(f)
    \/ MatchBackupCode(f) \/ MarkUsed(f) \/ LogFailure(f) \/ WriteDisabled(f)
    \/ Regenerate(f) \/ WriteRegenerated(f) \/ FlowFails(f)

TwoFactorNext ==
    \/ \E f \in Flows : Request(f)
    \/ WindowMoves
    \/ ClockTicks

TwoFactorSpec == TwoFactorInit /\ [][TwoFactorNext]_twoFactorVars

---------------------------------------------------------------------------
(* Properties.                                                             *)

\* While 2FA is on, only tokens whose stamp was read no earlier than the second in which
\* it was turned on are accepted: no session from before, whatever requests were in
\* flight and however often 2FA went off and on, and no token of a login whose second
\* step is still to come.
EnablingEndsAccess ==
    factor.enabled =>
        \A t \in issued : Admits(t) => t.kind = "session" /\ t.at >= factor.enabledAt

\* Counting the failures and logging one are two queries, so that requests in flight
\* together may all be let through: the limit is exceeded by them, but by no more.
AttemptsLimited == recent < MaxAttempts + Cardinality(Flows)

\* Reading the unused codes and marking one are two queries as well: one backup code is
\* accepted at most once for each request that was in flight, and never after.
BackupCodesWearOut == \A b \in BackupCodes : spent[b] <= Cardinality(Flows)
=============================================================================
