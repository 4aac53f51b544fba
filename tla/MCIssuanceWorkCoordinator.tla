--------------------- MODULE MCIssuanceWorkCoordinator ---------------------
(* Three calls in two replicas: two recipients of an interactive request in  *)
(* one replica and a bulk row in the other.                                  *)
EXTENDS IssuanceWorkCoordinator, TLC

CONSTANTS c1, c2, c3, p1, p2, r1

MCHome == [c \in Call |-> IF c = c3 THEN p2 ELSE p1]
MCRequestOf == [c \in Call |-> IF c = c3 THEN Bulk ELSE r1]

(* All replicas use the same budget. *)
EqualBudgets == (p1 :> 1) @@ (p2 :> 1)

(* A replica was restarted with another budget than the other one still uses. *)
MixedBudgets == (p1 :> 2) @@ (p2 :> 1)
=============================================================================
