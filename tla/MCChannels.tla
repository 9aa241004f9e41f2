----------------------------- MODULE MCChannels -----------------------------
(* Symmetry, and the rights promotions ask for, for checking Channels.      *)
EXTENDS Channels, TLC

Symmetry == Permutations(Workers) \cup Permutations(Users)
SomeGrants == {{"content"}, {"people", "admins"}}

=============================================================================
