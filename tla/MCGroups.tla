------------------------------ MODULE MCGroups ------------------------------
(* Symmetry for checking Groups with TLC.                                  *)
EXTENDS Groups, TLC

Symmetry == Permutations(Workers) \cup Permutations(Users)

=============================================================================
