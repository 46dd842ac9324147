------------------------ MODULE MCTransitionJournal ------------------------
(* Small instances of TransitionJournal for TLC. *)
EXTENDS TransitionJournal, TLC

Symmetry == Permutations(Handles) \cup Permutations(Keys)
=============================================================================
