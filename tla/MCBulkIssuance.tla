--------------------------- MODULE MCBulkIssuance ---------------------------
EXTENDS BulkIssuance, TLC

(* The rows of a file are interchangeable. *)
Symmetry == Permutations(Row)
=============================================================================
