----------------------------- MODULE MC_DevGateway -----------------------------
(* Instances of DevGateway for TLC. *)
EXTENDS DevGateway, TLC

Interchangeable == Permutations(Flows) \union Permutations(Calls)
=============================================================================
