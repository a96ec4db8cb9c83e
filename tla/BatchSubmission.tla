-------------------------- MODULE BatchSubmission --------------------------
(***************************************************************************)
(* What a createTask call promises its caller, without the queue, the      *)
(* worker or the failures in between: a request is accepted with a plan of *)
(* task combinations, submits them one at a time, is answered with success *)
(* only when the whole plan is submitted, and otherwise is abandoned,      *)
(* keeping what it submitted.                                              *)
(***************************************************************************)
CONSTANTS
    Request,
    Plan        \* the sets of combinations a request can be accepted with

VARIABLES
    phase,      \* "idle", "open", "answered" or "failed"
    plan,       \* the combinations a request has to submit
    submitted   \* the combinations it has submitted

vars == <<phase, plan, submitted>>

Init ==
    /\ phase = [r \in Request |-> "idle"]
    /\ plan = [r \in Request |-> {}]
    /\ submitted = [r \in Request |-> {}]

Accept(r, P) ==
    /\ phase[r] = "idle"
    /\ phase' = [phase EXCEPT ![r] = "open"]
    /\ plan' = [plan EXCEPT ![r] = P]
    /\ UNCHANGED submitted

Submit(r, k) ==
    /\ phase[r] = "open"
    /\ k \notin submitted[r]
    /\ submitted' = [submitted EXCEPT ![r] = @ \union {k}]
    /\ UNCHANGED <<phase, plan>>

Answer(r) ==
    /\ phase[r] = "open"
    /\ submitted[r] = plan[r]
    /\ phase' = [phase EXCEPT ![r] = "answered"]
    /\ UNCHANGED <<plan, submitted>>

\* A process that stops abandons all its open requests at once.
Abandon(R) ==
    /\ \A r \in R : phase[r] = "open"
    /\ phase' = [r \in Request |-> IF r \in R THEN "failed" ELSE phase[r]]
    /\ UNCHANGED <<plan, submitted>>

Next ==
    \/ \E r \in Request :
        \/ \E P \in Plan : Accept(r, P)
        \/ \E k \in plan[r] : Submit(r, k)
        \/ Answer(r)
    \/ \E R \in SUBSET Request : Abandon(R)

Spec == Init /\ [][Next]_vars

=============================================================================
