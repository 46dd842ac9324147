---------------------------- MODULE MCAdmission ----------------------------
(* A small instance of Admission for TLC. *)
EXTENDS Admission

\* the second event of the first resource contradicts itself
SecondRefuted == {<<1, 2>>}
=============================================================================
