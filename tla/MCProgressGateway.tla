------------------------- MODULE MCProgressGateway -------------------------
(***************************************************************************)
(* ProgressGateway for TLC: one user owns all tasks, the handlers that     *)
(* check messages are interchangeable, and two of them, or one and a       *)
(* connecting client, are at work at once.  A client is connecting from    *)
(* the verification of its token until its snapshot is sent.               *)
(***************************************************************************)
EXTENDS ProgressGateway, TLC

MCOwner == [t \in Task |-> CHOOSE u \in User : TRUE]
FewInFlight ==
    Cardinality({h \in Handler : check[h] # NoCheck})
        + Cardinality({s \in Socket : client[s].state = "entering" \/ join[s] # NotJoining})
        <= 2
HandlerSymmetry == Permutations(Handler)

=============================================================================
