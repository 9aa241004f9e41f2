-------------------------- MODULE MCDirectMessages --------------------------
(* Model values and symmetry for checking DirectMessages with TLC.         *)
EXTENDS DirectMessages, TLC

Symmetry == Permutations(Workers)

\* Two people who write to each other, and one of them to himself as well.
BothWays == {<<1, 2>>, <<2, 1>>}
WithNotes == BothWays \cup {<<1, 1>>}

=============================================================================
