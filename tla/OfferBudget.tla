---------------------------- MODULE OfferBudget ----------------------------
(***************************************************************************)
(* What the coordinator promises about credential offers, wherever they    *)
(* are dispatched from: an offer begins only while fewer offers than the   *)
(* shared budget are outstanding, and only next to offers dispatched under *)
(* the same budget.  An offer whose worker died is outstanding for good:   *)
(* nobody knows whether the agent is still working on it.                  *)
(***************************************************************************)
EXTENDS Naturals, FiniteSets

CONSTANTS Call, Budget   \* Budget[c]: the budget configured where c runs

VARIABLE outstanding

Init == outstanding = {}

Begin(c) ==
    /\ c \notin outstanding
    /\ \A d \in outstanding : Budget[d] = Budget[c]
    /\ Cardinality(outstanding) < Budget[c]
    /\ outstanding' = outstanding \cup {c}

End(c) ==
    /\ c \in outstanding
    /\ outstanding' = outstanding \ {c}

Next == \E c \in Call : Begin(c) \/ End(c)

Spec == Init /\ [][Next]_outstanding
=============================================================================
