-------------------------- MODULE MCUsernameMarket --------------------------
(* Model values and symmetry for checking UsernameMarket with TLC.         *)
EXTENDS UsernameMarket, TLC

Symmetry == Permutations(Workers) \cup Permutations(Users) \cup Permutations(Names)

=============================================================================
