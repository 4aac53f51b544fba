------------------------ MODULE MCProofResponseCode ------------------------
EXTENDS ProofResponseCode, TLC

(* Webhook calls are interchangeable, and so are pages. *)
Symmetry == Permutations(Handler) \cup Permutations(Poller)
=============================================================================
