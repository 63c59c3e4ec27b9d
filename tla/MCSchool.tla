------------------------------ MODULE MCSchool ------------------------------
(* Instances of School for TLC. *)
EXTENDS School, TLC
CONSTANTS c1, c2
TwoClients == {c1, c2}
Symmetry == Permutations(TwoClients)
=============================================================================
