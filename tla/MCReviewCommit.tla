--------------------------- MODULE MCReviewCommit ---------------------------
(* Small instances of ReviewCommit for TLC. *)
EXTENDS ReviewCommit, TLC

Symmetry == Permutations(Wakes)
=============================================================================
