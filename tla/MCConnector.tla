----------------------------- MODULE MCConnector -----------------------------
(* Instances of Connector for TLC. *)
EXTENDS Connector, TLC

Symmetry == Permutations(User \ Hydrated) \cup Permutations(Agent \ Loud)
=============================================================================
