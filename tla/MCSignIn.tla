------------------------------ MODULE MCSignIn ------------------------------
(***************************************************************************)
(* Instances of Accounts and of TwoFactor, checked in one run: they share  *)
(* no state, and each behaviour is one of the two.                         *)
(***************************************************************************)
EXTENDS Accounts, TwoFactor, TLC

vars == <<accountVars, twoFactorVars>>

NoAccount == [user |-> [exists |-> FALSE, password |-> Absent, verified |-> FALSE,
                        attempts |-> 0, locked |-> FALSE, changedAt |-> 0],
              linked |-> {}]

\* Users in every state registration and sign-up can leave them in.
MCUsers ==
    {NoAccount}
    \cup {[user |-> NewUser(p, v), linked |-> {}] : p \in Passwords, v \in BOOLEAN}
    \cup {[user |-> NewUser(Absent, TRUE), linked |-> {g}] : g \in GoogleIds}

NoAccounts ==
    /\ user = NoAccount.user /\ linked = {} /\ code = [k \in Codes |-> Unused]
    /\ tokens = {} /\ call = [c \in Calls |-> Idle] /\ second = 0 /\ requests = MaxRequests
    /\ failures = 0 /\ uses = [k \in Codes |-> 0]

NoTwoFactor ==
    /\ factor = Off /\ backup = [b \in BackupCodes |-> "new"] /\ recent = 0 /\ issued = {}
    /\ flow = [f \in Flows |-> Waiting] /\ clock = 0 /\ begun = MaxFlows
    /\ spent = [b \in BackupCodes |-> 0]

Init ==
    \/ AccountsInit /\ NoTwoFactor
    \/ NoAccounts /\ TwoFactorInit

Next ==
    \/ second > 0 /\ AccountsNext /\ UNCHANGED twoFactorVars
    \/ clock > 0 /\ TwoFactorNext /\ UNCHANGED accountVars

Spec == Init /\ [][Next]_vars

\* Calls, passwords, codes, flows and backup codes are interchangeable.
Interchangeable ==
    Permutations(Calls) \cup Permutations(Passwords) \cup Permutations(Codes) \cup Permutations(Flows) \cup Permutations(BackupCodes)
=============================================================================
