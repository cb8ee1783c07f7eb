--------------------------- MODULE MC_RefreshCommand ---------------------------
(* Instances of RefreshCommand for TLC. *)
EXTENDS RefreshCommand, TLC

Interchangeable ==
  Permutations(Daemons) \union Permutations(Commands) \union Permutations(Tokens)
=============================================================================
