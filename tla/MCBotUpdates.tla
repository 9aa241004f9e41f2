---------------------------- MODULE MCBotUpdates ----------------------------
(* Symmetry for checking BotUpdates with TLC.                              *)
EXTENDS BotUpdates, TLC

Symmetry == Permutations(Callers) \cup Permutations(Hooks)

=============================================================================
