------------------------------ MODULE Accounts ------------------------------
(***************************************************************************)
(* How a user comes to an account and into a session: registration, email  *)
(* verification, login with its lockout, password reset and set-password,  *)
(* Google sign-in, linking and unlinking, token refresh and the check that *)
(* every token passes.  Each handler runs as a call of one step per        *)
(* awaited query; several are in flight at a time, and a query may fail.   *)
(*                                                                         *)
(* Abstractions.  One email address and its user.  A password is a model   *)
(* value, so that the bcrypt comparison is equality; a code is the row     *)
(* that holds it.  Times are seconds, to which the stamps in tokens are    *)
(* rounded, and 0 is null.  Expiry of tokens, e-mails, profile fields and  *)
(* the clearing of cookies are left out; two-factor login is in TwoFactor. *)
(***************************************************************************)
EXTENDS Integers, FiniteSets

CONSTANTS
    Calls,
    Passwords,
    GoogleIds,
    Codes,              \* ids of verification and reset codes
    Threshold,          \* lockoutThreshold
    Users,              \* user rows and links the system may start with
    MaxRequests,        \* bound: requests begun
    MaxSecond,          \* bound: the clock
    Absent              \* null

User == [exists : BOOLEAN, password : Passwords \cup {Absent}, verified : BOOLEAN,
         attempts : Nat, locked : BOOLEAN, changedAt : Nat]

\* No failed login yet, and a way to sign in.
ASSUME AccountsAssumption ==
    /\ \A u \in Users :
          /\ u.user \in User /\ u.linked \subseteq GoogleIds
          /\ u.user.attempts = 0 /\ ~u.user.locked /\ u.user.changedAt = 0
          /\ u.user.exists => u.user.password # Absent \/ u.linked # {}
    /\ IsFiniteSet(Calls)
    /\ Threshold \in Nat \ {0}
    /\ Absent \notin Passwords /\ Absent \notin Codes

VARIABLES
    user,               \* the row of the user
    linked,             \* Google accounts linked to it
    code,               \* verification and reset codes
    tokens,             \* pairs of access and refresh token handed out
    call,
    second,
    requests,
    failures,           \* password checks that have failed
    uses                \* how often each code has reset the password

accountVars == <<user, linked, code, tokens, call, second, requests, failures, uses>>

Unused == [kind |-> "none", state |-> "new"]
Idle == [op |-> "none", step |-> "idle", pw |-> Absent, code |-> Absent, google |-> Absent, read |-> 0]

Steps == {"idle", "create", "invalidate", "newCode", "fail", "reset", "token", "find", "write",
          "refreshLink", "lookup", "link", "autoVerify", "signUp", "check", "delete"}

Ops == {"none", "register", "login", "verify", "resend", "forgot", "resetPassword", "setPassword",
        "google", "link", "unlink", "refresh"}

AccountsInit ==
    /\ \E u \in Users : user = u.user /\ linked = u.linked
    /\ code = [k \in Codes |-> Unused]
    /\ tokens = {}
    /\ call = [c \in Calls |-> Idle]
    /\ second = 1
    /\ requests = 0
    /\ failures = 0
    /\ uses = [k \in Codes |-> 0]

---------------------------------------------------------------------------
At(c, op, step) == call[c].op = op /\ call[c].step = step

Begin(c, op, step, fields) ==
    /\ call[c].step = "idle"
    /\ requests < MaxRequests
    /\ requests' = requests + 1
    /\ call' = [call EXCEPT ![c] =
                  [op |-> op, step |-> step, pw |-> fields.pw, code |-> fields.code,
                   google |-> fields.google, read |-> fields.read]]

NoFields == [pw |-> Absent, code |-> Absent, google |-> Absent, read |-> 0]

Proceed(c, step) == call' = [call EXCEPT ![c].step = step] /\ UNCHANGED requests
End(c) == call' = [call EXCEPT ![c] = Idle] /\ UNCHANGED requests

\* JwtStrategy.validate: a token without the stamp of the last password change is
\* rejected; as long as there was no change, any stamp passes.
AcceptsAny(token) == TRUE
Accepts(token) == user.changedAt # 0 => token.stamp = user.changedAt

Session == user.exists /\ \E t \in tokens : Accepts(t)

\* generateTokens reads the stamp; at is the time of that read.
Issue(c) ==
    /\ call[c].step = "token"
    /\ tokens' = tokens \cup {[stamp |-> user.changedAt, at |-> second]}
    /\ End(c)
    /\ UNCHANGED <<user, linked, code, second, failures, uses>>

\* A query fails, or the process goes down: what was written stays.
Fail(c) ==
    /\ call[c].step # "idle"
    /\ End(c)
    /\ UNCHANGED <<user, linked, code, tokens, second, failures, uses>>

---------------------------------------------------------------------------
(* Codes: sendVerificationCode after a registration, resendVerification-   *)
(* Code and forgotPassword.                                                *)

KindOf(op) == IF op \in {"forgot", "resetPassword"} THEN "reset" ELSE "verify"

Resend(c) ==
    /\ user.exists /\ ~user.verified
    /\ Begin(c, "resend", "invalidate", NoFields)
    /\ UNCHANGED <<user, linked, code, tokens, second, failures, uses>>

ForgotPassword(c) ==
    /\ user.exists
    /\ Begin(c, "forgot", "invalidate", NoFields)
    /\ UNCHANGED <<user, linked, code, tokens, second, failures, uses>>

InvalidatedNone(kind) == code
Invalidated(kind) ==
    [k \in Codes |-> IF code[k] = [kind |-> kind, state |-> "open"]
                     THEN [code[k] EXCEPT !.state = "used"] ELSE code[k]]

\* savePasswordResetToken and saveVerificationToken: updateMany, then create.
InvalidateCodes(c) ==
    /\ call[c].step = "invalidate"
    /\ code' = Invalidated(KindOf(call[c].op))
    /\ Proceed(c, "newCode")
    /\ UNCHANGED <<user, linked, tokens, second, failures, uses>>

NewCode(c) ==
    /\ call[c].step = "newCode"
    /\ \E k \in Codes :
          /\ code[k] = Unused
          /\ code' = [code EXCEPT ![k] = [kind |-> KindOf(call[c].op), state |-> "open"]]
    /\ End(c)
    /\ UNCHANGED <<user, linked, tokens, second, failures, uses>>

CodeExpires(k) ==
    /\ code[k].state = "open"
    /\ code' = [code EXCEPT ![k].state = "expired"]
    /\ UNCHANGED <<user, linked, tokens, call, second, requests, failures, uses>>

---------------------------------------------------------------------------
(* Registration and email verification.                                    *)

Register(c) ==
    /\ ~user.exists
    /\ \E p \in Passwords : Begin(c, "register", "create", [NoFields EXCEPT !.pw = p])
    /\ UNCHANGED <<user, linked, code, tokens, second, failures, uses>>

NewUser(p, verified) ==
    [exists |-> TRUE, password |-> p, verified |-> verified, attempts |-> 0, locked |-> FALSE,
     changedAt |-> 0]

\* The address is unique: of two registrations the second fails.
CreateUser(c) ==
    /\ call[c].step = "create"
    /\ IF user.exists THEN End(c) /\ UNCHANGED user
       ELSE Proceed(c, "invalidate") /\ user' = NewUser(call[c].pw, FALSE)
    /\ UNCHANGED <<linked, code, tokens, second, failures, uses>>

VerifyEmail(c) ==
    /\ user.exists /\ ~user.verified
    /\ \E k \in Codes : code[k].kind = "verify"
                        /\ Begin(c, "verify", "find", [NoFields EXCEPT !.code = k])
    /\ UNCHANGED <<user, linked, code, tokens, second, failures, uses>>

\* Unused and not expired, of this kind; also all that verifyResetCode does.
ValidCode(op, k) == code[k] = [kind |-> KindOf(op), state |-> "open"]

FindCode(c) ==
    /\ call[c].step = "find"
    /\ IF ValidCode(call[c].op, call[c].code) THEN Proceed(c, "write") ELSE End(c)
    /\ UNCHANGED <<user, linked, code, tokens, second, failures, uses>>

\* One transaction, then tokens.
WriteVerified(c) ==
    /\ At(c, "verify", "write")
    /\ user' = [user EXCEPT !.verified = TRUE]
    /\ code' = [code EXCEPT ![call[c].code].state = "used"]
    /\ Proceed(c, "token")
    /\ UNCHANGED <<linked, tokens, second, failures, uses>>

---------------------------------------------------------------------------
(* Login with email and password.                                          *)

\* The row is read once: lock, password, attempts and verification are of that time.
Login(c) ==
    /\ user.exists /\ ~user.locked
    /\ \E p \in Passwords :
          IF p = user.password
          THEN user.verified /\ Begin(c, "login", "reset", NoFields) /\ UNCHANGED failures
          ELSE /\ Begin(c, "login", "fail", [NoFields EXCEPT !.read = user.attempts])
               /\ failures' = failures + 1
    /\ UNCHANGED <<user, linked, code, tokens, second, uses>>

LocksEarly(attempts) == attempts >= Threshold - 1
Locks(attempts) == attempts >= Threshold

CountFailure(c) ==
    /\ call[c].step = "fail"
    /\ LET attempts == call[c].read + 1 IN
       user' = [user EXCEPT !.attempts = attempts, !.locked = @ \/ Locks(attempts)]
    /\ End(c)
    /\ UNCHANGED <<linked, code, tokens, second, failures, uses>>

ResetAttempts(c) ==
    /\ At(c, "login", "reset")
    /\ user' = [user EXCEPT !.attempts = 0, !.locked = FALSE]
    /\ Proceed(c, "token")
    /\ UNCHANGED <<linked, code, tokens, second, failures, uses>>

\* locked_until passes; the attempts keep their number.
LockExpires ==
    /\ user.locked
    /\ user' = [user EXCEPT !.locked = FALSE]
    /\ UNCHANGED <<linked, code, tokens, call, second, requests, failures, uses>>

\* The refresh token is verified by its signature only.
RefreshToken(c) ==
    /\ tokens # {}
    /\ Begin(c, "refresh", "token", NoFields)
    /\ UNCHANGED <<user, linked, code, tokens, second, failures, uses>>

---------------------------------------------------------------------------
(* Password reset, and set-password for users without one.                 *)

ResetPassword(c) ==
    /\ user.exists
    /\ \E k \in Codes, p \in Passwords :
          code[k].kind = "reset"
          /\ Begin(c, "resetPassword", "find", [NoFields EXCEPT !.code = k, !.pw = p])
    /\ UNCHANGED <<user, linked, code, tokens, second, failures, uses>>

\* The transaction marks the code as used whether or not it is by now.
WriteReset(c) ==
    /\ At(c, "resetPassword", "write")
    /\ user' = [user EXCEPT !.password = call[c].pw]
    /\ code' = [code EXCEPT ![call[c].code].state = "used"]
    /\ uses' = [uses EXCEPT ![call[c].code] = @ + 1]
    /\ End(c)
    /\ UNCHANGED <<linked, tokens, second, failures>>

SetPassword(c) ==
    /\ Session
    /\ user.password = Absent
    /\ \E p \in Passwords : Begin(c, "setPassword", "write", [NoFields EXCEPT !.pw = p])
    /\ UNCHANGED <<user, linked, code, tokens, second, failures, uses>>

WriteSet(c) ==
    /\ At(c, "setPassword", "write")
    /\ user' = [user EXCEPT !.password = call[c].pw, !.changedAt = second]
    /\ End(c)
    /\ UNCHANGED <<linked, code, tokens, second, failures, uses>>

---------------------------------------------------------------------------
(* Google: validateGoogleUser with the callback's tokens, link and unlink. *)

GoogleSignIn(c) ==
    /\ \E g \in GoogleIds :
          Begin(c, "google", IF g \in linked THEN "refreshLink" ELSE "lookup", [NoFields EXCEPT !.google = g])
    /\ UNCHANGED <<user, linked, code, tokens, second, failures, uses>>

\* The update of the account's tokens fails if the link is gone.
RefreshLink(c) ==
    /\ call[c].step = "refreshLink"
    /\ IF call[c].google \in linked THEN Proceed(c, "token") ELSE End(c)
    /\ UNCHANGED <<user, linked, code, tokens, second, failures, uses>>

\* The user by email: read is 1 if that user was found unverified.
LookUpUser(c) ==
    /\ call[c].step = "lookup"
    /\ call' = [call EXCEPT ![c].step = IF user.exists THEN "link" ELSE "signUp",
                            ![c].read = IF user.exists /\ ~user.verified THEN 1 ELSE 0]
    /\ UNCHANGED <<user, linked, code, tokens, second, requests, failures, uses>>

\* account.create, for auto-linking and for linking; a Google account is linked once.
Link(c) ==
    /\ call[c].step = "link"
    /\ IF call[c].google \in linked THEN End(c) /\ UNCHANGED linked
       ELSE /\ linked' = linked \cup {call[c].google}
            /\ IF call[c].op = "link" THEN End(c)
               ELSE Proceed(c, IF call[c].read = 1 THEN "autoVerify" ELSE "token")
    /\ UNCHANGED <<user, code, tokens, second, failures, uses>>

AutoVerify(c) ==
    /\ call[c].step = "autoVerify"
    /\ user' = [user EXCEPT !.verified = TRUE]
    /\ Proceed(c, "token")
    /\ UNCHANGED <<linked, code, tokens, second, failures, uses>>

\* User and account in one nested create.
SignUp(c) ==
    /\ call[c].step = "signUp"
    /\ IF user.exists \/ call[c].google \in linked
       THEN End(c) /\ UNCHANGED <<user, linked>>
       ELSE /\ user' = NewUser(Absent, TRUE)
            /\ linked' = {call[c].google}
            /\ Proceed(c, "token")
    /\ UNCHANGED <<code, tokens, second, failures, uses>>

LinkGoogle(c) ==
    /\ Session
    /\ \E g \in GoogleIds : Begin(c, "link", "check", [NoFields EXCEPT !.google = g])
    /\ UNCHANGED <<user, linked, code, tokens, second, failures, uses>>

CheckLink(c) ==
    /\ call[c].step = "check"
    /\ IF call[c].google \in linked THEN End(c) ELSE Proceed(c, "link")
    /\ UNCHANGED <<user, linked, code, tokens, second, failures, uses>>

MayUnlinkAny == TRUE
MayUnlink == user.password # Absent

UnlinkGoogle(c) ==
    /\ Session
    /\ MayUnlink
    /\ \E g \in linked : Begin(c, "unlink", "delete", [NoFields EXCEPT !.google = g])
    /\ UNCHANGED <<user, linked, code, tokens, second, failures, uses>>

DeleteLink(c) ==
    /\ call[c].step = "delete"
    /\ linked' = linked \ {call[c].google}
    /\ End(c)
    /\ UNCHANGED <<user, code, tokens, second, failures, uses>>

---------------------------------------------------------------------------
Tick ==
    /\ second < MaxSecond
    /\ second' = second + 1
    /\ UNCHANGED <<user, linked, code, tokens, call, requests, failures, uses>>

NewCall(c) ==
    \/ Resend(c) \/ ForgotPassword(c) \/ Register(c) \/ VerifyEmail(c) \/ Login(c)
    \/ RefreshToken(c) \/ ResetPassword(c) \/ SetPassword(c) \/ GoogleSignIn(c)
    \/ LinkGoogle(c) \/ UnlinkGoogle(c)

CallStep(c) ==
    \/ Issue(c) \/ Fail(c) \/ InvalidateCodes(c) \/ NewCode(c) \/ CreateUser(c)
    \/ FindCode(c) \/ WriteVerified(c) \/ CountFailure(c) \/ ResetAttempts(c)
    \/ WriteReset(c) \/ WriteSet(c) \/ RefreshLink(c) \/ LookUpUser(c) \/ Link(c)
    \/ AutoVerify(c) \/ SignUp(c) \/ CheckLink(c) \/ DeleteLink(c)

AccountsNext ==
    \/ \E c \in Calls : NewCall(c) \/ CallStep(c)
    \/ \E k \in Codes : CodeExpires(k)
    \/ LockExpires
    \/ Tick

AccountsSpec == AccountsInit /\ [][AccountsNext]_accountVars

---------------------------------------------------------------------------
(* Properties.                                                             *)

\* However requests interleave and fail, the user keeps a way to sign in: the
\* password never goes, and the last link goes only once there is a password.
SignInMethod == user.exists => user.password # Absent \/ linked # {}

\* Invalidating the old codes and creating the new one are two queries: at most as
\* many codes are open as requests were in flight, and one on its own leaves one.
\* Nor is a code used more often than that: the check and the write are two, too.
CodesLimited ==
    /\ \A kind \in {"verify", "reset"} :
          Cardinality({k \in Codes : code[k] = [kind |-> kind, state |-> "open"]})
              <= Cardinality(Calls)
    /\ \A k \in Codes : uses[k] <= Cardinality(Calls)

\* Once a password is set, only tokens whose stamp was read no earlier than that
\* second are accepted, wherever the requests that issue them are at the time.
OldTokensRejected == \A t \in tokens : Accepts(t) => t.at >= user.changedAt

\* Lost updates may cost the counter failures, but never add one: the account is
\* locked only after as many failed checks as the threshold says.
LockNeedsFailures == user.locked => failures >= Threshold

AccountsTypeOK ==
    /\ user \in User
    /\ linked \subseteq GoogleIds
    /\ code \in [Codes -> [kind : {"none", "verify", "reset"}, state : {"new", "open", "used", "expired"}]]
    /\ tokens \subseteq [stamp : Nat, at : Nat]
    /\ call \in [Calls -> [op : Ops, step : Steps, pw : Passwords \cup {Absent},
                          code : Codes \cup {Absent}, google : GoogleIds \cup {Absent}, read : Nat]]
    /\ second \in Nat /\ requests \in Nat /\ failures \in Nat
    /\ uses \in [Codes -> Nat]
=============================================================================
