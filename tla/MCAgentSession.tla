--------------------------- MODULE MCAgentSession ---------------------------
(* Instances of AgentSession for TLC.                                      *)
EXTENDS AgentSession, TLC

CONSTANTS s1, s2, u1, u2, u3

Symmetry == Permutations(Session) \cup Permutations(Input)
=============================================================================
