--------------------------- MODULE MCChannelPosts ---------------------------
(* Symmetry for checking ChannelPosts with TLC.                             *)
EXTENDS ChannelPosts, TLC

Symmetry == Permutations(Workers) \cup Permutations(Texts)

=============================================================================
