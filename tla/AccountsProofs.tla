--------------------------- MODULE AccountsProofs ---------------------------
(***************************************************************************)
(* The ways into an account, for any number of overlapping calls, codes,   *)
(* passwords and Google accounts, and any lockout threshold.               *)
(***************************************************************************)
EXTENDS Accounts, FiniteSetTheorems, TLAPS

CallType == [op : Ops, step : Steps, pw : Passwords \cup {Absent}, code : Codes \cup {Absent},
             google : GoogleIds \cup {Absent}, read : Nat]

\* What a call carries belongs to its operation, and its step to that operation.
Sound(r) ==
    /\ r.op \in {"register", "resetPassword", "setPassword"} => r.pw \in Passwords
    /\ r.op \in {"verify", "resetPassword"} => r.code \in Codes
    /\ r.op \in {"google", "link", "unlink"} => r.google \in GoogleIds
    /\ r.step = "create" => r.op = "register"
    /\ r.step = "find" => r.op \in {"verify", "resetPassword"}
    /\ r.step \in {"refreshLink", "lookup", "link", "autoVerify", "signUp", "check", "delete"} =>
          r.op \in {"google", "link", "unlink"}

Typed == AccountsTypeOK /\ \A c \in Calls : Sound(call[c])

\* Replacing the record of one call by a sound one keeps all of them sound.
LEMMA CallReplaced ==
    ASSUME Typed, NEW c \in Calls, NEW r \in CallType, Sound(r), call' = [call EXCEPT ![c] = r]
    PROVE  call' \in [Calls -> CallType] /\ \A d \in Calls : Sound(call'[d])
<1>1. call \in [Calls -> CallType]
  BY DEF Typed, AccountsTypeOK, CallType
<1>2. call' \in [Calls -> CallType]
  BY <1>1
<1>3. ASSUME NEW d \in Calls
      PROVE  Sound(call'[d])
  <2>1. CASE d = c
    <3>1. call'[d] = r
      BY <1>1, <2>1
    <3>2. QED
      BY <3>1
  <2>2. CASE d # c
    <3>1. call'[d] = call[d]
      BY <1>1, <2>2
    <3>2. QED
      BY <3>1 DEF Typed
  <2>3. QED
    BY <2>1, <2>2
<1>4. QED
  BY <1>2, <1>3

\* The three ways a call moves on.
LEMMA IdleIsSound == Idle \in CallType /\ Sound(Idle)
BY DEF Idle, CallType, Sound, Ops, Steps

LEMMA Begun ==
    ASSUME Typed, NEW c \in Calls, NEW op, NEW step, NEW fields, Begin(c, op, step, fields),
           [op |-> op, step |-> step, pw |-> fields.pw, code |-> fields.code,
            google |-> fields.google, read |-> fields.read] \in CallType,
           Sound([op |-> op, step |-> step, pw |-> fields.pw, code |-> fields.code,
                  google |-> fields.google, read |-> fields.read])
    PROVE  /\ call' \in [Calls -> CallType] /\ \A d \in Calls : Sound(call'[d])
           /\ requests' = requests + 1
<1>1. requests' = requests + 1
  BY DEF Begin
<1>2. call' = [call EXCEPT ![c] = [op |-> op, step |-> step, pw |-> fields.pw,
                 code |-> fields.code, google |-> fields.google, read |-> fields.read]]
  BY DEF Begin
<1>3. QED
  BY <1>1, <1>2, CallReplaced

LEMMA Proceeded ==
    ASSUME Typed, NEW c \in Calls, NEW step \in Steps, Proceed(c, step),
           step \notin {"create", "find", "refreshLink", "lookup", "check", "delete"},
           step \in {"link", "autoVerify", "signUp"} => call[c].op \in {"google", "link", "unlink"}
    PROVE  call' \in [Calls -> CallType] /\ \A d \in Calls : Sound(call'[d])
<1> DEFINE r == [call[c] EXCEPT !.step = step]
<1>1. call[c] \in CallType /\ Sound(call[c])
  BY DEF Typed, AccountsTypeOK, CallType
<1>2. r \in CallType /\ Sound(r)
  BY <1>1 DEF CallType, Sound
<1>3. call' = [call EXCEPT ![c] = r]
  BY DEF Proceed
<1>4. QED
  BY <1>2, <1>3, CallReplaced

LEMMA Ended ==
    ASSUME Typed, NEW c \in Calls, End(c)
    PROVE  call' \in [Calls -> CallType] /\ \A d \in Calls : Sound(call'[d])
BY IdleIsSound, CallReplaced DEF End

---------------------------------------------------------------------------
\* A new call: the step it begins with and what it carries fit its operation.
LEMMA CallsBegin ==
    ASSUME Typed, NEW c \in Calls, NewCall(c)
    PROVE  /\ call' \in [Calls -> CallType] /\ \A d \in Calls : Sound(call'[d])
           /\ requests' = requests + 1
<1> USE DEF NoFields, CallType, Sound, Ops, Steps
<1>1. user \in User /\ linked \subseteq GoogleIds
  BY DEF Typed, AccountsTypeOK
<1>2. CASE Resend(c) \/ ForgotPassword(c) \/ RefreshToken(c)
  BY <1>2, Begun DEF Resend, ForgotPassword, RefreshToken
<1>3. CASE Register(c)
  BY <1>3, Begun DEF Register
<1>4. CASE VerifyEmail(c)
  BY <1>4, Begun DEF VerifyEmail
<1>5. CASE Login(c)
  <2>1. user.attempts \in Nat
    BY <1>1 DEF User
  <2>2. QED
    BY <1>5, <2>1, Begun DEF Login
<1>6. CASE ResetPassword(c)
  BY <1>6, Begun DEF ResetPassword
<1>7. CASE SetPassword(c)
  BY <1>7, Begun DEF SetPassword
<1>8. CASE GoogleSignIn(c)
  BY <1>8, Begun DEF GoogleSignIn
<1>9. CASE LinkGoogle(c)
  BY <1>9, Begun DEF LinkGoogle
<1>10. CASE UnlinkGoogle(c)
  BY <1>1, <1>10, Begun DEF UnlinkGoogle
<1>11. QED
  BY <1>2, <1>3, <1>4, <1>5, <1>6, <1>7, <1>8, <1>9, <1>10 DEF NewCall

\* A call under way: what it carries still fits wherever it goes on.
LEMMA CallsContinue ==
    ASSUME Typed, NEW c \in Calls, CallStep(c)
    PROVE  /\ call' \in [Calls -> CallType] /\ \A d \in Calls : Sound(call'[d])
           /\ requests' = requests
<1>1. call[c] \in CallType /\ Sound(call[c])
  BY DEF Typed, AccountsTypeOK, CallType
<1>2. CASE End(c)
  BY <1>2, Ended DEF End
<1>3. CASE \E step \in {"newCode", "invalidate", "write", "token"} : Proceed(c, step)
  BY <1>3, Proceeded DEF Proceed, Steps
<1>4. CASE LookUpUser(c)
  <2> DEFINE next == IF user.exists THEN "link" ELSE "signUp"
             known == IF user.exists /\ ~user.verified THEN 1 ELSE 0
             r == [call[c] EXCEPT !.step = next, !.read = known]
  <2>1. r \in CallType /\ Sound(r)
    BY <1>1, <1>4 DEF CallType, Sound, Steps, LookUpUser
  <2>2. call' = [call EXCEPT ![c] = r]
    BY <1>4 DEF LookUpUser
  <2>3. QED
    BY <1>4, <2>1, <2>2, CallReplaced DEF LookUpUser
<1>5. CASE Link(c)
  <2>1. call[c].op \in {"google", "link", "unlink"}
    BY <1>1, <1>5 DEF Link, Sound
  <2>2. End(c) \/ \E step \in {"autoVerify", "token"} : Proceed(c, step)
    BY <1>5 DEF Link
  <2>3. QED
    BY <2>1, <2>2, Ended, Proceeded DEF End, Proceed, Steps
<1>6. CASE CheckLink(c)
  <2>1. call[c].op \in {"google", "link", "unlink"}
    BY <1>1, <1>6 DEF CheckLink, Sound
  <2>2. End(c) \/ Proceed(c, "link")
    BY <1>6 DEF CheckLink
  <2>3. QED
    BY <2>1, <2>2, Ended, Proceeded DEF End, Proceed, Steps
<1>7. QED
  BY <1>2, <1>3, <1>4, <1>5, <1>6
     DEF CallStep, Issue, Fail, InvalidateCodes, NewCode, CreateUser, FindCode, WriteVerified, CountFailure,
         ResetAttempts, WriteReset, WriteSet, RefreshLink, AutoVerify, SignUp, DeleteLink

\* What a step leaves in the user's row, the codes and the tokens has their type.
LEMMA RowsAreTyped ==
    ASSUME Typed, AccountsNext
    PROVE  /\ user' \in User /\ linked' \subseteq GoogleIds
           /\ code' \in [Codes -> [kind : {"none", "verify", "reset"},
                                   state : {"new", "open", "used", "expired"}]]
           /\ tokens' \subseteq [stamp : Nat, at : Nat]
           /\ second' \in Nat /\ failures' \in Nat /\ uses' \in [Codes -> Nat]
<1>1. /\ user \in User /\ linked \subseteq GoogleIds
      /\ code \in [Codes -> [kind : {"none", "verify", "reset"},
                             state : {"new", "open", "used", "expired"}]]
      /\ tokens \subseteq [stamp : Nat, at : Nat]
      /\ second \in Nat /\ failures \in Nat /\ uses \in [Codes -> Nat]
  BY DEF Typed, AccountsTypeOK
<1>2. \A c \in Calls : Sound(call[c]) /\ call[c].read \in Nat
  BY DEF Typed, AccountsTypeOK
<1>3. ASSUME NEW c \in Calls, Issue(c)
      PROVE  tokens' \subseteq [stamp : Nat, at : Nat]
  BY <1>1, <1>3 DEF Issue, User
<1>4. ASSUME NEW c \in Calls, InvalidateCodes(c) \/ NewCode(c)
      PROVE  code' \in [Codes -> [kind : {"none", "verify", "reset"},
                                  state : {"new", "open", "used", "expired"}]]
  BY <1>1, <1>4 DEF InvalidateCodes, NewCode, Invalidated, KindOf
<1>5. ASSUME NEW c \in Calls, CreateUser(c)
      PROVE  user' \in User
  <2>1. call[c].pw \in Passwords
    BY <1>2, <1>5 DEF CreateUser, Sound
  <2>2. NewUser(call[c].pw, FALSE) \in User
    BY <2>1 DEF NewUser, User
  <2>3. user' = user \/ user' = NewUser(call[c].pw, FALSE)
    BY <1>5 DEF CreateUser
  <2>4. QED
    BY <1>1, <2>2, <2>3
<1>6. ASSUME NEW c \in Calls, WriteVerified(c) \/ WriteReset(c)
      PROVE  /\ user' \in User /\ uses' \in [Codes -> Nat]
             /\ code' \in [Codes -> [kind : {"none", "verify", "reset"},
                                     state : {"new", "open", "used", "expired"}]]
  <2>1. call[c].code \in Codes
    BY <1>2, <1>6 DEF WriteVerified, WriteReset, At, Sound
  <2>2. user' \in User
    BY <1>1, <1>2, <1>6 DEF WriteVerified, WriteReset, At, Sound, User
  <2>3. QED
    BY <1>1, <1>6, <2>1, <2>2 DEF WriteVerified, WriteReset
<1>7. ASSUME NEW c \in Calls, CountFailure(c) \/ ResetAttempts(c) \/ WriteSet(c) \/ AutoVerify(c)
      PROVE  user' \in User
  <2>1. CASE CountFailure(c)
    <3> DEFINE attempts == call[c].read + 1
               locked == user.locked \/ Locks(attempts)
    <3>1. attempts \in Nat /\ locked \in BOOLEAN
      BY <1>2
    <3>2. user' = [user EXCEPT !.attempts = attempts, !.locked = locked]
      BY <2>1 DEF CountFailure
    <3> HIDE DEF attempts, locked
    <3>3. QED
      BY <1>1, <3>1, <3>2 DEF User
  <2>2. CASE ResetAttempts(c) \/ AutoVerify(c)
    <3>1. [user EXCEPT !.attempts = 0, !.locked = FALSE] \in User
      BY <1>1 DEF User
    <3>2. [user EXCEPT !.verified = TRUE] \in User
      BY <1>1 DEF User
    <3>3. QED
      BY <2>2, <3>1, <3>2 DEF ResetAttempts, AutoVerify
  <2>3. CASE WriteSet(c)
    <3>1. call[c].pw \in Passwords
      BY <1>2, <2>3 DEF WriteSet, At, Sound
    <3>2. user' = [user EXCEPT !.password = call[c].pw, !.changedAt = second]
      BY <2>3 DEF WriteSet
    <3>3. QED
      BY <1>1, <3>1, <3>2 DEF User
  <2>4. QED
    BY <1>7, <2>1, <2>2, <2>3
<1>8. ASSUME NEW c \in Calls, Link(c) \/ SignUp(c) \/ DeleteLink(c)
      PROVE  user' \in User /\ linked' \subseteq GoogleIds
  <2>1. call[c].step \in {"link", "signUp"} => call[c].google \in GoogleIds
    BY <1>2 DEF Sound
  <2>2. linked' \subseteq GoogleIds
    BY <1>1, <1>8, <2>1 DEF Link, SignUp, DeleteLink
  <2>3. user' \in User
    <3>1. NewUser(Absent, TRUE) \in User
      BY DEF NewUser, User
    <3>2. user' = user \/ user' = NewUser(Absent, TRUE)
      BY <1>8 DEF Link, SignUp, DeleteLink
    <3>3. QED
      BY <1>1, <3>1, <3>2
  <2>4. QED
    BY <2>2, <2>3
<1>9. ASSUME NEW k \in Codes, CodeExpires(k)
      PROVE  code' \in [Codes -> [kind : {"none", "verify", "reset"},
                                  state : {"new", "open", "used", "expired"}]]
  BY <1>1, <1>9 DEF CodeExpires
<1>10. CASE LockExpires
  <2>1. user' \in User
    BY <1>1, <1>10 DEF LockExpires, User
  <2>2. QED
    BY <1>1, <1>10, <2>1 DEF LockExpires
<1>11. ASSUME NEW c \in Calls,
              \/ Fail(c) \/ Resend(c) \/ ForgotPassword(c) \/ Register(c) \/ VerifyEmail(c)
              \/ FindCode(c) \/ Login(c) \/ RefreshToken(c) \/ ResetPassword(c) \/ SetPassword(c)
              \/ GoogleSignIn(c) \/ RefreshLink(c) \/ LookUpUser(c) \/ LinkGoogle(c)
              \/ CheckLink(c) \/ UnlinkGoogle(c)
       PROVE  UNCHANGED <<user, linked, code, tokens, second, uses>> /\ failures' \in Nat
  <2>1. UNCHANGED <<user, linked, code, tokens, second, uses>>
    BY <1>11 DEF Fail, Resend, ForgotPassword, Register, VerifyEmail, FindCode, Login,
       RefreshToken, ResetPassword, SetPassword, GoogleSignIn, RefreshLink, LookUpUser,
       LinkGoogle, CheckLink, UnlinkGoogle
  <2>2. failures' = failures \/ failures' = failures + 1
    BY <1>11 DEF Fail, Resend, ForgotPassword, Register, VerifyEmail, FindCode, Login,
       RefreshToken, ResetPassword, SetPassword, GoogleSignIn, RefreshLink, LookUpUser,
       LinkGoogle, CheckLink, UnlinkGoogle
  <2>3. QED
    BY <1>1, <2>1, <2>2
<1>12. CASE \E c \in Calls : Issue(c) \/ InvalidateCodes(c) \/ NewCode(c) \/ CreateUser(c)
  BY <1>1, <1>3, <1>4, <1>5, <1>12 DEF Issue, InvalidateCodes, NewCode, CreateUser
<1>13. CASE \E c \in Calls : WriteVerified(c) \/ WriteReset(c)
  BY <1>1, <1>6, <1>13 DEF WriteVerified, WriteReset
<1>14. CASE \E c \in Calls : CountFailure(c) \/ ResetAttempts(c) \/ WriteSet(c) \/ AutoVerify(c)
  BY <1>1, <1>7, <1>14 DEF CountFailure, ResetAttempts, WriteSet, AutoVerify
<1>15. CASE \E c \in Calls : Link(c) \/ SignUp(c) \/ DeleteLink(c)
  BY <1>1, <1>8, <1>15 DEF Link, SignUp, DeleteLink
<1>16. CASE (\E k \in Codes : CodeExpires(k)) \/ Tick
  BY <1>1, <1>9, <1>16 DEF CodeExpires, Tick
<1>17. QED
  BY <1>1, <1>10, <1>11, <1>12, <1>13, <1>14, <1>15, <1>16 DEF AccountsNext, NewCall, CallStep

LEMMA TypedInvariant == AccountsSpec => []Typed
<1>1. AccountsInit => Typed
  <2> SUFFICES ASSUME AccountsInit
               PROVE  Typed
    OBVIOUS
  <2>1. user \in User /\ linked \subseteq GoogleIds
    BY AccountsAssumption DEF AccountsInit
  <2>2. call \in [Calls -> CallType] /\ \A c \in Calls : Sound(call[c])
    BY IdleIsSound DEF AccountsInit
  <2>3. QED
    BY <2>1, <2>2 DEF AccountsInit, Typed, AccountsTypeOK, Unused, CallType
<1>2. Typed /\ [AccountsNext]_accountVars => Typed'
  <2> SUFFICES ASSUME Typed, [AccountsNext]_accountVars
               PROVE  Typed'
    OBVIOUS
  <2>1. CASE AccountsNext
    <3>1. /\ call' \in [Calls -> CallType] /\ \A c \in Calls : Sound(call'[c])
          /\ requests' \in Nat
      <4>1. requests \in Nat /\ call \in [Calls -> CallType] /\ \A c \in Calls : Sound(call[c])
        BY DEF Typed, AccountsTypeOK, CallType
      <4>2. CASE LockExpires \/ Tick \/ \E k \in Codes : CodeExpires(k)
        BY <4>1, <4>2 DEF LockExpires, Tick, CodeExpires
      <4>3. CASE ~(LockExpires \/ Tick \/ \E k \in Codes : CodeExpires(k))
        BY <2>1, <4>1, <4>3, CallsBegin, CallsContinue DEF AccountsNext
      <4>4. QED
        BY <4>2, <4>3
    <3>2. QED
      BY <2>1, <3>1, RowsAreTyped DEF Typed, AccountsTypeOK, CallType
  <2>2. CASE UNCHANGED accountVars
    BY <2>2 DEF accountVars, Typed, AccountsTypeOK
  <2>3. QED
    BY <2>1, <2>2
<1>3. QED
  BY <1>1, <1>2, PTL DEF AccountsSpec

\* Every variable keeps its type, for any users, calls, codes and passwords.
THEOREM AccountsTypeCorrect == AccountsSpec => []AccountsTypeOK
BY TypedInvariant, PTL DEF Typed

---------------------------------------------------------------------------
(* A way to sign in remains.                                               *)

\* While an unlinking is between its check and its write, the password is there: none
\* of the other calls takes it away.
Signable ==
    /\ SignInMethod
    /\ \A c \in Calls : call[c].step = "delete" => user.exists /\ user.password # Absent

\* No handler takes the user or the password away.
LEMMA PasswordStays ==
    ASSUME Typed, AccountsNext, user.exists, user.password # Absent
    PROVE  user'.exists /\ user'.password # Absent
<1>1. user \in User /\ \A c \in Calls : Sound(call[c])
  BY DEF Typed, AccountsTypeOK
<1>2. CASE user' = user
  BY <1>2
<1>3. CASE \E c \in Calls : WriteReset(c) \/ WriteSet(c)
  <2>1. PICK c \in Calls : WriteReset(c) \/ WriteSet(c)
    BY <1>3
  <2>2. call[c].pw \in Passwords
    BY <1>1, <2>1 DEF WriteReset, WriteSet, At, Sound
  <2>3. QED
    BY <1>1, <2>1, <2>2, AccountsAssumption DEF WriteReset, WriteSet, User
<1>4. CASE LockExpires \/ \E c \in Calls : WriteVerified(c) \/ CountFailure(c) \/ ResetAttempts(c) \/ AutoVerify(c)
  <2>1. user'.exists = user.exists /\ user'.password = user.password
    BY <1>1, <1>4 DEF LockExpires, WriteVerified, CountFailure, ResetAttempts, AutoVerify, User
  <2>2. QED
    BY <2>1
<1>5. QED
  BY <1>2, <1>3, <1>4
     DEF AccountsNext, NewCall, CallStep, Issue, Fail, Resend, ForgotPassword, InvalidateCodes, NewCode, Register,
         CreateUser, VerifyEmail, FindCode, Login,
         RefreshToken, ResetPassword, SetPassword, GoogleSignIn,
         RefreshLink, LookUpUser, Link, SignUp, LinkGoogle, CheckLink, UnlinkGoogle,
         DeleteLink, CodeExpires, Tick

\* A call moves by its own handler, and a begun one starts from idle.
LEMMA OwnMoves ==
    ASSUME Typed, AccountsNext, NEW c \in Calls, call'[c] # call[c]
    PROVE  NewCall(c) \/ CallStep(c)
<1>1. call \in [Calls -> CallType]
  BY DEF Typed, AccountsTypeOK, CallType
<1>2. CASE call' = call
  BY <1>2
<1>3. CASE \E d \in Calls : NewCall(d) \/ CallStep(d)
  <2>1. PICK d \in Calls : NewCall(d) \/ CallStep(d)
    BY <1>3
  <2>2. \E r : call' = [call EXCEPT ![d] = r]
    <3>1. CASE NewCall(d)
      BY <3>1 DEF NewCall, Begin, Resend, ForgotPassword, Register, VerifyEmail, Login,
         RefreshToken, ResetPassword, SetPassword, GoogleSignIn, LinkGoogle, UnlinkGoogle
    <3>2. CASE CallStep(d)
      BY <3>2 DEF CallStep, End, Proceed, Issue, Fail, InvalidateCodes, NewCode, CreateUser,
         FindCode, WriteVerified, CountFailure, ResetAttempts, WriteReset, WriteSet, RefreshLink,
         LookUpUser, Link, AutoVerify, SignUp, CheckLink, DeleteLink
    <3>3. QED
      BY <2>1, <3>1, <3>2
  <2>3. d = c
    BY <1>1, <2>2
  <2>4. QED
    BY <2>1, <2>3
<1>4. QED
  BY <1>2, <1>3 DEF AccountsNext, CodeExpires, LockExpires, Tick

\* Where each step of a call is entered from.
LEMMA Entered ==
    ASSUME Typed, AccountsNext, NEW c \in Calls, call'[c] # call[c]
    PROVE  /\ call'[c].step = "delete" => UnlinkGoogle(c)
           /\ call'[c].step = "fail" => Login(c) /\ call'[c].read = user.attempts
           /\ call'[c].step = "newCode" => InvalidateCodes(c) /\ call'[c].op = call[c].op
           /\ At(c, "resetPassword", "write")' => FindCode(c) /\ call'[c] = [call[c] EXCEPT !.step = "write"]
<1>1. call \in [Calls -> CallType] /\ call[c] \in CallType
  BY DEF Typed, AccountsTypeOK, CallType
<1>2. CASE NewCall(c)
  <2>1. UnlinkGoogle(c) => call'[c].step = "delete" /\ call'[c].op = "unlink"
    BY <1>1 DEF UnlinkGoogle, Begin
  <2>2. Login(c) => /\ call'[c].step \in {"reset", "fail"} /\ call'[c].op = "login"
                    /\ call'[c].step = "fail" => call'[c].read = user.attempts
    BY <1>1 DEF Login, Begin, NoFields
  <2>3. Resend(c) \/ ForgotPassword(c) \/ RefreshToken(c) => call'[c].step \in {"invalidate", "token"}
    BY <1>1 DEF Resend, ForgotPassword, RefreshToken, Begin
  <2>4. Register(c) \/ VerifyEmail(c) \/ ResetPassword(c) => call'[c].step \in {"create", "find"}
    BY <1>1 DEF Register, VerifyEmail, ResetPassword, Begin
  <2>5. SetPassword(c) => call'[c].step = "write" /\ call'[c].op = "setPassword"
    BY <1>1 DEF SetPassword, Begin
  <2>6. GoogleSignIn(c) \/ LinkGoogle(c) => call'[c].step \in {"refreshLink", "lookup", "check"}
    BY <1>1 DEF GoogleSignIn, LinkGoogle, Begin
  <2>7. QED
    BY <1>2, <2>1, <2>2, <2>3, <2>4, <2>5, <2>6 DEF NewCall, At
<1>3. CASE CallStep(c)
  <2>1. \/ End(c) \/ LookUpUser(c) \/ InvalidateCodes(c) \/ FindCode(c)
        \/ Proceed(c, "invalidate") \/ Proceed(c, "token") \/ Proceed(c, "autoVerify")
        \/ Proceed(c, "link")
    BY <1>3 DEF CallStep, Issue, Fail, NewCode, CreateUser, WriteVerified, CountFailure,
       ResetAttempts, WriteReset, WriteSet, RefreshLink, Link, AutoVerify, SignUp, CheckLink,
       DeleteLink
  <2>2. End(c) => call'[c] = Idle
    BY <1>1 DEF End
  <2>3. LookUpUser(c) => call'[c].step \in {"link", "signUp"}
    BY <1>1 DEF LookUpUser, CallType
  <2>4. InvalidateCodes(c) => call'[c].step = "newCode" /\ call'[c].op = call[c].op
    BY <1>1 DEF InvalidateCodes, Proceed, CallType
  <2>5. FindCode(c) => call'[c] = [call[c] EXCEPT !.step = "write"] \/ call'[c] = Idle
    BY <1>1 DEF FindCode, Proceed, End
  <2>6. FindCode(c) => call'[c].step \in {"write", "idle"}
    BY <1>1, <2>5 DEF CallType, Idle
  <2>7. /\ Proceed(c, "invalidate") => call'[c].step = "invalidate"
        /\ Proceed(c, "token") => call'[c].step = "token"
        /\ Proceed(c, "autoVerify") => call'[c].step = "autoVerify"
        /\ Proceed(c, "link") => call'[c].step = "link"
    BY <1>1 DEF Proceed, CallType
  <2>8. QED
    BY <2>1, <2>2, <2>3, <2>4, <2>5, <2>6, <2>7 DEF At, Idle
<1>4. QED
  BY <1>2, <1>3, OwnMoves

LEMMA SignableInvariant == AccountsSpec => []Signable
<1>1. AccountsInit => Signable
  BY AccountsAssumption DEF AccountsInit, Signable, SignInMethod, Idle
<1>2. Typed /\ Signable /\ [AccountsNext]_accountVars => Signable'
  <2> SUFFICES ASSUME Typed, Signable, [AccountsNext]_accountVars
               PROVE  Signable'
    OBVIOUS
  <2>1. user \in User /\ call \in [Calls -> CallType] /\ \A c \in Calls : Sound(call[c])
    BY DEF Typed, AccountsTypeOK, CallType
  <2>2. CASE AccountsNext
    <3>1. user.exists /\ user.password # Absent => user'.exists /\ user'.password # Absent
      BY <2>1, <2>2, PasswordStays
    <3>2. ASSUME NEW c \in Calls, call'[c].step = "delete"
          PROVE  user.exists /\ user.password # Absent
      <4>1. call[c].step = "delete" \/ UnlinkGoogle(c)
        BY <2>2, <3>2, Entered
      <4>2. UnlinkGoogle(c) => user.exists /\ user.password # Absent
        BY DEF UnlinkGoogle, Session, MayUnlink
      <4>3. QED
        BY <4>1, <4>2 DEF Signable
    <3>3. SignInMethod'
      <4>1. CASE user' = user /\ linked \subseteq linked'
        BY <4>1 DEF Signable, SignInMethod
      <4>2. CASE user.exists /\ user.password # Absent
        BY <3>1, <4>2 DEF SignInMethod
      <4>3. CASE \E c \in Calls : DeleteLink(c)
        BY <3>1, <4>3 DEF DeleteLink, Signable, SignInMethod
      <4>4. CASE \E c \in Calls : CreateUser(c) \/ SignUp(c)
        <5>1. PICK c \in Calls : CreateUser(c) \/ SignUp(c)
          BY <4>4
        <5>2. call[c].step = "create" => call[c].pw \in Passwords
          BY <2>1 DEF Sound
        <5>3. QED
          BY <4>1, <5>1, <5>2, AccountsAssumption DEF CreateUser, SignUp, NewUser, SignInMethod
      <4>5. CASE \E c \in Calls : WriteReset(c) \/ WriteSet(c)
        <5>1. PICK c \in Calls : WriteReset(c) \/ WriteSet(c)
          BY <4>5
        <5>2. call[c].pw \in Passwords
          BY <2>1, <5>1 DEF WriteReset, WriteSet, At, Sound
        <5>3. QED
          BY <2>1, <5>1, <5>2, AccountsAssumption DEF WriteReset, WriteSet, User, SignInMethod
      <4>6. CASE LockExpires \/ \E c \in Calls : WriteVerified(c) \/ CountFailure(c) \/ ResetAttempts(c) \/ AutoVerify(c)
        <5>1. user'.exists = user.exists /\ user'.password = user.password /\ linked' = linked
          BY <2>1, <4>6 DEF LockExpires, WriteVerified, CountFailure, ResetAttempts, AutoVerify, User
        <5>2. QED
          BY <5>1 DEF Signable, SignInMethod
      <4>7. QED
        BY <2>2, <4>1, <4>3, <4>4, <4>5, <4>6
           DEF AccountsNext, NewCall, CallStep, Issue, Fail, Resend, ForgotPassword,
             InvalidateCodes, NewCode, Register, VerifyEmail, FindCode, Login, RefreshToken,
             ResetPassword, SetPassword, GoogleSignIn, RefreshLink, LookUpUser, Link, LinkGoogle,
             CheckLink, UnlinkGoogle, CodeExpires, Tick
    <3>4. QED
      BY <3>1, <3>2, <3>3 DEF Signable
  <2>3. CASE UNCHANGED accountVars
    BY <2>3 DEF accountVars, Signable, SignInMethod
  <2>4. QED
    BY <2>2, <2>3
<1>3. QED
  BY <1>1, <1>2, TypedInvariant, PTL DEF AccountsSpec

\* However requests overlap and fail, the user keeps a password or a linked account.
THEOREM SignInRemains == AccountsSpec => []SignInMethod
BY SignableInvariant, PTL DEF Signable

---------------------------------------------------------------------------
(* The lock.                                                               *)

\* No number in the row or in a failed login still to be recorded is larger than the
\* number of failures there were.
Counted ==
    /\ user.attempts <= failures
    /\ user.locked => failures >= Threshold
    /\ \A c \in Calls : call[c].step = "fail" => call[c].read + 1 <= failures

\* The failures that a step counts, and what it does to the row's number.
LEMMA AttemptsMove ==
    ASSUME Typed, AccountsNext
    PROVE  /\ failures' \in {failures, failures + 1}
           /\ (\E c \in Calls : Login(c) /\ call'[c].step = "fail") => failures' = failures + 1
           /\ \/ user'.attempts = user.attempts /\ (user'.locked => user.locked)
              \/ user'.attempts = 0 /\ ~user'.locked
              \/ \E c \in Calls : CountFailure(c)
<1>1. user \in User /\ failures \in Nat /\ call \in [Calls -> CallType]
  BY DEF Typed, AccountsTypeOK, CallType
<1>2. ASSUME NEW c \in Calls, Login(c)
      PROVE  /\ user' = user /\ failures' \in {failures, failures + 1}
             /\ call'[c].step = "fail" => failures' = failures + 1
  BY <1>1, <1>2 DEF Login, Begin
<1>3. ASSUME NEW c \in Calls, NewCall(c), ~Login(c)
      PROVE  user' = user /\ failures' = failures
  BY <1>3 DEF NewCall, Resend, ForgotPassword, Register, VerifyEmail, RefreshToken,
     ResetPassword, SetPassword, GoogleSignIn, LinkGoogle, UnlinkGoogle
<1>4. ASSUME NEW c \in Calls, CallStep(c)
      PROVE  failures' = failures
  BY <1>4 DEF CallStep, Issue, Fail, InvalidateCodes, NewCode, CreateUser, FindCode,
     WriteVerified, CountFailure, ResetAttempts, WriteReset, WriteSet, RefreshLink, LookUpUser,
     Link, AutoVerify, SignUp, CheckLink, DeleteLink
<1>5. ASSUME NEW c \in Calls, CallStep(c), ~CountFailure(c)
      PROVE  \/ user'.attempts = user.attempts /\ user'.locked = user.locked
             \/ user'.attempts = 0 /\ ~user'.locked
  <2>1. CASE user' = user
    BY <2>1
  <2>2. CASE CreateUser(c) \/ SignUp(c)
    BY <2>2 DEF CreateUser, SignUp, NewUser
  <2>3. CASE WriteVerified(c) \/ WriteReset(c) \/ WriteSet(c) \/ AutoVerify(c) \/ ResetAttempts(c)
    BY <1>1, <2>3 DEF WriteVerified, WriteReset, WriteSet, AutoVerify, ResetAttempts, User
  <2>4. QED
    BY <1>5, <2>1, <2>2, <2>3
       DEF CallStep, Issue, Fail, InvalidateCodes, NewCode, FindCode, RefreshLink, LookUpUser,
         Link, CheckLink, DeleteLink
<1>6. ASSUME (\E k \in Codes : CodeExpires(k)) \/ LockExpires \/ Tick
      PROVE  /\ failures' = failures
             /\ user'.attempts = user.attempts /\ (user'.locked => user.locked)
  BY <1>1, <1>6 DEF CodeExpires, LockExpires, Tick, User
<1>7. QED
  BY <1>2, <1>3, <1>4, <1>5, <1>6 DEF AccountsNext

LEMMA CountedInvariant == AccountsSpec => []Counted
<1>1. AccountsInit => Counted
  BY AccountsAssumption DEF AccountsInit, Counted, Idle
<1>2. Typed /\ Counted /\ [AccountsNext]_accountVars => Counted'
  <2> SUFFICES ASSUME Typed, Counted, [AccountsNext]_accountVars
               PROVE  Counted'
    OBVIOUS
  <2>1. /\ user \in User /\ user.attempts \in Nat /\ failures \in Nat
        /\ call \in [Calls -> CallType] /\ Threshold \in Nat \ {0}
    BY AccountsAssumption DEF Typed, AccountsTypeOK, CallType, User
  <2>2. CASE AccountsNext
    <3>1. failures' \in {failures, failures + 1}
      BY <2>2, AttemptsMove
    <3>2. ASSUME NEW c \in Calls, call'[c].step = "fail"
          PROVE  call'[c].read + 1 <= failures'
      <4>1. CASE call'[c] = call[c]
        <5>1. call[c].read + 1 <= failures /\ call[c].read \in Nat
          BY <2>1, <3>2, <4>1 DEF Counted, CallType
        <5>2. QED
          BY <2>1, <3>1, <4>1, <5>1
      <4>2. CASE call'[c] # call[c]
        <5>1. Login(c) /\ call'[c].read = user.attempts
          BY <2>2, <3>2, <4>2, Entered
        <5>2. failures' = failures + 1
          BY <2>2, <3>2, <5>1, AttemptsMove
        <5>3. QED
          BY <2>1, <5>1, <5>2 DEF Counted
      <4>3. QED
        BY <4>1, <4>2
    <3>3. ASSUME NEW c \in Calls, CountFailure(c)
          PROVE  user'.attempts <= failures' /\ (user'.locked => failures' >= Threshold)
      <4>1. call[c].read \in Nat /\ call[c].read + 1 <= failures
        BY <2>1, <3>3 DEF CountFailure, Counted, CallType
      <4>2. /\ user'.attempts = call[c].read + 1
            /\ user'.locked => user.locked \/ call[c].read + 1 >= Threshold
        BY <2>1, <3>3 DEF CountFailure, Locks, User
      <4>3. failures' >= failures
        BY <2>1, <3>1
      <4>4. user'.locked => failures >= Threshold
        BY <2>1, <4>1, <4>2 DEF Counted
      <4>5. QED
        BY <2>1, <3>1, <4>1, <4>2, <4>3, <4>4
    <3>4. user'.attempts <= failures' /\ (user'.locked => failures' >= Threshold)
      <4>1. CASE \E c \in Calls : CountFailure(c)
        BY <3>3, <4>1
      <4>2. CASE user'.attempts = user.attempts /\ (user'.locked => user.locked)
        <5>1. user'.attempts <= failures'
          BY <2>1, <3>1, <4>2 DEF Counted
        <5>2. user.locked => failures' >= Threshold
          BY <2>1, <3>1 DEF Counted
        <5>3. QED
          BY <4>2, <5>1, <5>2
      <4>3. CASE user'.attempts = 0 /\ ~user'.locked
        <5>1. user'.attempts <= failures'
          BY <2>1, <3>1, <4>3
        <5>2. QED
          BY <4>3, <5>1
      <4>4. QED
        BY <2>2, <4>1, <4>2, <4>3, AttemptsMove
    <3>5. QED
      BY <3>2, <3>4 DEF Counted
  <2>3. CASE UNCHANGED accountVars
    BY <2>3 DEF accountVars, Counted
  <2>4. QED
    BY <2>2, <2>3
<1>3. QED
  BY <1>1, <1>2, TypedInvariant, PTL DEF AccountsSpec

\* However logins overlap and their updates are lost, the account is locked only after
\* as many failures as the threshold says.
THEOREM LocksAreEarned == AccountsSpec => []LockNeedsFailures
BY CountedInvariant, PTL DEF Counted, LockNeedsFailures

---------------------------------------------------------------------------
(* The stamp in the tokens.                                                *)

\* No stamp is from the future, in the row or in a token.
Stamped ==
    /\ user.changedAt <= second
    /\ \A t \in tokens : t.stamp <= t.at

LEMMA StampedInvariant == AccountsSpec => []Stamped
<1>1. AccountsInit => Stamped
  BY AccountsAssumption DEF AccountsInit, Stamped
<1>2. Typed /\ Stamped /\ [AccountsNext]_accountVars => Stamped'
  <2> SUFFICES ASSUME Typed, Stamped, [AccountsNext]_accountVars
               PROVE  Stamped'
    OBVIOUS
  <2>1. /\ user \in User /\ user.changedAt \in Nat /\ second \in Nat
        /\ tokens \subseteq [stamp : Nat, at : Nat]
    BY DEF Typed, AccountsTypeOK, User
  <2>2. CASE user'.changedAt = user.changedAt /\ second' = second /\ tokens' = tokens
    BY <2>2 DEF Stamped
  <2>3. CASE \E c \in Calls : Issue(c)
    BY <2>1, <2>3 DEF Issue, Stamped
  <2>4. CASE \E c \in Calls : CreateUser(c) \/ SignUp(c)
    BY <2>1, <2>2, <2>4 DEF CreateUser, SignUp, NewUser, Stamped
  <2>5. CASE \E c \in Calls : WriteSet(c)
    BY <2>1, <2>5 DEF WriteSet, Stamped, User
  <2>6. CASE Tick
    BY <2>1, <2>6 DEF Tick, Stamped
  <2>7. CASE LockExpires \/ \E c \in Calls : WriteVerified(c) \/ CountFailure(c) \/ ResetAttempts(c)
                                             \/ AutoVerify(c) \/ WriteReset(c)
    <3>1. user'.changedAt = user.changedAt /\ second' = second /\ tokens' = tokens
      BY <2>1, <2>7 DEF LockExpires, WriteVerified, CountFailure, ResetAttempts, AutoVerify,
         WriteReset, User
    <3>2. QED
      BY <2>2, <3>1
  <2>8. QED
    BY <2>2, <2>3, <2>4, <2>5, <2>6, <2>7
       DEF AccountsNext, accountVars, NewCall, CallStep, Fail, Resend, ForgotPassword,
         InvalidateCodes, NewCode, Register, VerifyEmail, FindCode, Login, RefreshToken,
         ResetPassword, SetPassword, GoogleSignIn, RefreshLink, LookUpUser, Link, LinkGoogle,
         CheckLink, UnlinkGoogle, DeleteLink, CodeExpires
<1>3. QED
  BY <1>1, <1>2, TypedInvariant, PTL DEF AccountsSpec

\* Whatever requests are in flight while a password is set, no token whose stamp was
\* read before that second is accepted.
THEOREM OldTokensAreRejected == AccountsSpec => []OldTokensRejected
<1>1. Typed /\ Stamped => OldTokensRejected
  BY DEF Typed, AccountsTypeOK, Stamped, OldTokensRejected, Accepts, User
<1>2. QED
  BY <1>1, TypedInvariant, StampedInvariant, PTL

---------------------------------------------------------------------------
(* Codes.                                                                  *)

Open(kind) == {k \in Codes : code[k] = [kind |-> kind, state |-> "open"]}

\* Calls that have invalidated the codes of a kind and will create one.
Making(kind) == {c \in Calls : call[c].step = "newCode" /\ KindOf(call[c].op) = kind}

\* Calls that have found a code valid and will reset the password with it.
Writing(k) == {c \in Calls : At(c, "resetPassword", "write") /\ call[c].code = k}

Limits ==
    /\ \A kind \in {"verify", "reset"} :
          /\ IsFiniteSet(Open(kind))
          /\ Cardinality(Open(kind)) + Cardinality(Making(kind)) <= Cardinality(Calls)
    /\ \A k \in Codes :
          /\ uses[k] + Cardinality(Writing(k)) <= Cardinality(Calls)
          /\ uses[k] > 0 => code[k].state = "used"

LEMMA SomeCalls ==
    ASSUME NEW S, S \subseteq Calls
    PROVE  IsFiniteSet(S) /\ Cardinality(S) \in Nat /\ Cardinality(S) <= Cardinality(Calls)
           /\ Cardinality(Calls) \in Nat
BY AccountsAssumption, FS_Subset, FS_CardinalityType

LEMMA FewerCalls ==
    ASSUME NEW S, S \subseteq Calls, NEW T, T \subseteq S
    PROVE  Cardinality(T) <= Cardinality(S) /\ Cardinality(T) \in Nat /\ Cardinality(S) \in Nat
BY SomeCalls, FS_Subset, FS_CardinalityType

LEMMA OneCallLess ==
    ASSUME NEW S, S \subseteq Calls, NEW c \in S, NEW T, T \subseteq S \ {c}
    PROVE  Cardinality(T) + 1 <= Cardinality(S) /\ Cardinality(T) \in Nat /\ Cardinality(S) \in Nat
<1>1. IsFiniteSet(S) /\ Cardinality(S) \in Nat /\ Cardinality(T) \in Nat
  BY SomeCalls
<1>2. Cardinality(S \ {c}) = Cardinality(S) - 1
  BY <1>1, FS_RemoveElement
<1>3. Cardinality(T) <= Cardinality(S \ {c})
  BY FewerCalls
<1>4. QED
  BY <1>1, <1>2, <1>3

\* Other steps than the creation of a code open none, and a used one stays used.
LEMMA CodesMove ==
    ASSUME Typed, AccountsNext, NEW k \in Codes
    PROVE  /\ code'[k] # code[k] =>
                \/ code'[k].state \in {"used", "expired"}
                \/ code[k] = Unused /\ \E c \in Calls : NewCode(c) /\ code'[k].kind = KindOf(call[c].op)
           /\ code[k].state = "used" => code'[k].state = "used"
           /\ uses'[k] = uses[k] \/ \E c \in Calls : WriteReset(c)
<1>1. /\ code \in [Codes -> [kind : {"none", "verify", "reset"},
                             state : {"new", "open", "used", "expired"}]]
      /\ uses \in [Codes -> Nat]
  BY DEF Typed, AccountsTypeOK
<1>2. CASE code' = code /\ uses' = uses
  BY <1>2
<1>3. CASE \E c \in Calls : NewCode(c)
  <2>1. PICK c \in Calls, j \in Codes :
            /\ NewCode(c) /\ code[j] = Unused
            /\ code' = [code EXCEPT ![j] = [kind |-> KindOf(call[c].op), state |-> "open"]]
    BY <1>3 DEF NewCode
  <2>2. uses' = uses
    BY <2>1 DEF NewCode
  <2>3. CASE k = j
    <3>1. code'[k].kind = KindOf(call[c].op) /\ code[k] = Unused
      BY <1>1, <2>1, <2>3
    <3>2. QED
      BY <2>1, <2>2, <3>1 DEF Unused
  <2>4. CASE k # j
    <3>1. code'[k] = code[k]
      BY <1>1, <2>1, <2>4
    <3>2. QED
      BY <2>2, <3>1
  <2>5. QED
    BY <2>3, <2>4
<1>4. CASE \E c \in Calls : InvalidateCodes(c)
  BY <1>1, <1>4 DEF InvalidateCodes, Invalidated
<1>5. CASE \E c \in Calls : WriteVerified(c) \/ WriteReset(c)
  <2>1. PICK c \in Calls : WriteVerified(c) \/ WriteReset(c)
    BY <1>5
  <2>2. code' = [code EXCEPT ![call[c].code].state = "used"]
    BY <2>1 DEF WriteVerified, WriteReset
  <2>3. code'[k] = code[k] \/ code'[k].state = "used"
    BY <1>1, <2>2
  <2>4. uses' = uses \/ WriteReset(c)
    BY <2>1 DEF WriteVerified
  <2>5. QED
    BY <2>3, <2>4
<1>6. CASE \E j \in Codes : CodeExpires(j)
  BY <1>1, <1>6 DEF CodeExpires
<1>7. QED
  BY <1>2, <1>3, <1>4, <1>5, <1>6
     DEF AccountsNext, NewCall, CallStep, Issue, Fail, Resend, ForgotPassword, Register,
         CreateUser, VerifyEmail, FindCode, Login, CountFailure, ResetAttempts, RefreshToken,
         ResetPassword, SetPassword, WriteSet, GoogleSignIn, RefreshLink, LookUpUser, Link,
         AutoVerify, SignUp, LinkGoogle, CheckLink, UnlinkGoogle, DeleteLink, LockExpires, Tick

LEMMA OpenStep ==
    ASSUME Typed, Limits, AccountsNext, NEW kind \in {"verify", "reset"}
    PROVE  /\ IsFiniteSet(Open(kind))'
           /\ Cardinality(Open(kind)') + Cardinality(Making(kind)') <= Cardinality(Calls)
<1> DEFINE O == Open(kind)
           M == Making(kind)
<1>0. /\ code \in [Codes -> [kind : {"none", "verify", "reset"},
                             state : {"new", "open", "used", "expired"}]]
      /\ call \in [Calls -> CallType]
  BY DEF Typed, AccountsTypeOK, CallType
<1>1. /\ IsFiniteSet(O) /\ Cardinality(O) \in Nat
      /\ Cardinality(O) + Cardinality(M) <= Cardinality(Calls)
  BY FS_CardinalityType DEF Limits
<1>2. M \subseteq Calls /\ M' \subseteq Calls
  BY DEF Making
<1>3. ASSUME NEW c \in Calls, c \in M', c \notin M
      PROVE  InvalidateCodes(c) /\ KindOf(call[c].op) = kind
  BY <1>3, Entered DEF Making
<1>4. CASE \E c \in Calls : InvalidateCodes(c) /\ KindOf(call[c].op) = kind
  <2>1. O' = {}
    BY <1>0, <1>4 DEF Open, InvalidateCodes, Invalidated
  <2>2. IsFiniteSet(O') /\ Cardinality(O') = 0
    BY <2>1, FS_EmptySet
  <2>3. QED
    BY <1>2, <2>2, SomeCalls
<1>5. CASE \E c \in Calls : NewCode(c) /\ KindOf(call[c].op) = kind
  <2>1. PICK c \in Calls : NewCode(c) /\ KindOf(call[c].op) = kind
    BY <1>5
  <2>2. PICK k \in Codes : code' = [code EXCEPT ![k] = [kind |-> kind, state |-> "open"]]
    BY <2>1 DEF NewCode
  <2>3. O' = O \cup {k}
    BY <1>0, <2>2 DEF Open
  <2>4. IsFiniteSet(O') /\ Cardinality(O') <= Cardinality(O) + 1 /\ Cardinality(O') \in Nat
    <3> HIDE DEF O
    <3>1. IsFiniteSet(O \cup {k}) /\ Cardinality(O \cup {k}) \in {Cardinality(O), Cardinality(O) + 1}
      BY <1>1, FS_AddElement
    <3>2. QED
      BY <1>1, <2>3, <3>1
  <2>5. c \in M
    BY <2>1 DEF NewCode, Making
  <2>6. M' \subseteq M \ {c}
    BY <1>0, <1>2, <2>1 DEF NewCode, End, Idle, Making
  <2>7. QED
    BY <1>1, <1>2, <2>4, <2>5, <2>6, OneCallLess, SomeCalls
<1>6. CASE ~\E c \in Calls : (NewCode(c) \/ InvalidateCodes(c)) /\ KindOf(call[c].op) = kind
  <2>1. O' \subseteq O
    BY <1>6, CodesMove DEF Open
  <2>2. M' \subseteq M
    BY <1>2, <1>3, <1>6
  <2>3. IsFiniteSet(O') /\ Cardinality(O') <= Cardinality(O) /\ Cardinality(O') \in Nat
    BY <1>1, <2>1, FS_Subset, FS_CardinalityType
  <2>4. QED
    BY <1>1, <1>2, <2>2, <2>3, FewerCalls, SomeCalls
<1>7. QED
  BY <1>4, <1>5, <1>6

LEMMA UsesStep ==
    ASSUME Typed, Limits, AccountsNext, NEW k \in Codes
    PROVE  /\ uses'[k] + Cardinality(Writing(k)') <= Cardinality(Calls)
           /\ uses'[k] > 0 => code'[k].state = "used"
<1> DEFINE W == Writing(k)
<1>0. /\ code \in [Codes -> [kind : {"none", "verify", "reset"},
                             state : {"new", "open", "used", "expired"}]]
      /\ uses \in [Codes -> Nat] /\ call \in [Calls -> CallType]
  BY DEF Typed, AccountsTypeOK, CallType
<1>1. /\ uses[k] + Cardinality(W) <= Cardinality(Calls) /\ uses[k] \in Nat
      /\ uses[k] > 0 => code[k].state = "used"
  BY <1>0 DEF Limits
<1>2. W \subseteq Calls /\ W' \subseteq Calls
  BY DEF Writing
<1>3. ASSUME NEW c \in Calls, c \in W', c \notin W
      PROVE  FindCode(c) /\ call[c].code = k /\ code[k].state = "open"
  <2>1. call'[c] # call[c] /\ At(c, "resetPassword", "write")' /\ call'[c].code = k
    BY <1>3 DEF Writing, At
  <2>2. FindCode(c) /\ call'[c] = [call[c] EXCEPT !.step = "write"] /\ call'[c].step = "write"
    BY <2>1, Entered DEF At
  <2>3. call[c].code = k
    BY <1>0, <2>1, <2>2 DEF CallType
  <2>4. ValidCode(call[c].op, call[c].code)
    BY <1>0, <2>2 DEF FindCode, End, Idle
  <2>5. QED
    BY <2>2, <2>3, <2>4 DEF ValidCode
<1>4. CASE \E c \in Calls : WriteReset(c) /\ call[c].code = k
  <2>1. PICK c \in Calls : WriteReset(c) /\ call[c].code = k
    BY <1>4
  <2>2. uses'[k] = uses[k] + 1 /\ code'[k].state = "used"
    BY <1>0, <2>1 DEF WriteReset
  <2>3. c \in W
    BY <2>1 DEF WriteReset, Writing
  <2>4. W' \subseteq W \ {c}
    BY <1>0, <1>2, <2>1 DEF WriteReset, End, Idle, Writing, At
  <2>5. QED
    BY <1>1, <1>2, <2>2, <2>3, <2>4, OneCallLess, SomeCalls
<1>5. CASE ~\E c \in Calls : WriteReset(c) /\ call[c].code = k
  <2>1. uses'[k] = uses[k]
    BY <1>0, <1>5, CodesMove DEF WriteReset
  <2>2. uses'[k] > 0 => code'[k].state = "used"
    BY <1>1, <2>1, CodesMove
  <2>3. CASE W' \subseteq W
    BY <1>1, <1>2, <2>1, <2>2, <2>3, FewerCalls, SomeCalls
  <2>4. CASE ~(W' \subseteq W)
    <3>1. code[k].state = "open"
      BY <1>2, <1>3, <2>4
    <3>2. uses'[k] = 0
      BY <1>1, <2>1, <3>1
    <3>3. QED
      BY <1>2, <2>2, <3>2, SomeCalls
  <2>5. QED
    BY <2>3, <2>4
<1>6. QED
  BY <1>4, <1>5

LEMMA LimitsInvariant == AccountsSpec => []Limits
<1>1. AccountsInit => Limits
  <2> SUFFICES ASSUME AccountsInit
               PROVE  Limits
    OBVIOUS
  <2>1. ASSUME NEW kind \in {"verify", "reset"}
        PROVE  Open(kind) = {} /\ Making(kind) = {}
    BY DEF AccountsInit, Open, Making, Unused, Idle
  <2>2. ASSUME NEW k \in Codes
        PROVE  Writing(k) = {} /\ uses[k] = 0
    BY DEF AccountsInit, Writing, At, Idle
  <2>3. Cardinality({}) = 0 /\ IsFiniteSet({}) /\ Cardinality(Calls) \in Nat
    BY AccountsAssumption, FS_EmptySet, FS_CardinalityType
  <2>4. QED
    BY <2>1, <2>2, <2>3 DEF Limits
<1>2. Typed /\ Limits /\ [AccountsNext]_accountVars => Limits'
  <2> SUFFICES ASSUME Typed, Limits, [AccountsNext]_accountVars
               PROVE  Limits'
    OBVIOUS
  <2>1. CASE AccountsNext
    BY <2>1, OpenStep, UsesStep DEF Limits
  <2>2. CASE UNCHANGED accountVars
    BY <2>2 DEF accountVars, Limits, Open, Making, Writing, At
  <2>3. QED
    BY <2>1, <2>2
<1>3. QED
  BY <1>1, <1>2, TypedInvariant, PTL DEF AccountsSpec

\* Overlapping requests leave at most one open code each, and use one code at most once each.
THEOREM CodesAreLimited == AccountsSpec => []CodesLimited
<1>1. Typed /\ Limits => CodesLimited
  <2> SUFFICES ASSUME Typed, Limits
               PROVE  CodesLimited
    OBVIOUS
  <2>1. ASSUME NEW kind \in {"verify", "reset"}
        PROVE  Cardinality(Open(kind)) <= Cardinality(Calls)
    <3>1. Making(kind) \subseteq Calls
      BY DEF Making
    <3>2. Cardinality(Open(kind)) \in Nat
      BY FS_CardinalityType DEF Limits
    <3>3. QED
      BY <3>1, <3>2, SomeCalls DEF Limits
  <2>2. ASSUME NEW k \in Codes
        PROVE  uses[k] <= Cardinality(Calls)
    <3>1. Writing(k) \subseteq Calls
      BY DEF Writing
    <3>2. QED
      BY <3>1, SomeCalls DEF Limits, Typed, AccountsTypeOK
  <2>3. QED
    BY <2>1, <2>2 DEF Open, CodesLimited
<1>2. QED
  BY <1>1, TypedInvariant, LimitsInvariant, PTL
=============================================================================
