------------------------------ MODULE MCAdmission ------------------------------
(* Admission with calls and pairs as model values.                         *)
EXTENDS Admission, TLC

Symmetry == Permutations(Calls) \cup Permutations(Pairs)
=============================================================================
