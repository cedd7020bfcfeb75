---------------------------- MODULE ExactSearch ----------------------------
(***************************************************************************)
(* What a search promises its caller, however it is executed: one answer,  *)
(* which is either the exact one or an error.  There is no partial answer, *)
(* and an answer that was given does not change.                           *)
(***************************************************************************)
CONSTANT Exact    \* the answer an unpruned, unsharded scan would give

VARIABLES outcome, result

avars == <<outcome, result>>

Init == outcome = "pending" /\ result = {}

Answer ==
    /\ outcome = "pending"
    /\ outcome' = "ok"
    /\ result' = Exact

Refuse ==
    /\ outcome = "pending"
    /\ outcome' = "err"
    /\ UNCHANGED result

Next == Answer \/ Refuse

Spec == Init /\ [][Next]_avars
=============================================================================
