------------------------- MODULE MCAccountRecovery -------------------------
(* Symmetry for checking AccountRecovery with TLC.                         *)
EXTENDS AccountRecovery, TLC

Symmetry == Permutations(Workers) \cup Permutations(Users)
            \cup Permutations(Names) \cup Permutations(Words)

=============================================================================
