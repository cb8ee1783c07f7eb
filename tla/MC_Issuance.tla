----------------------------- MODULE MC_Issuance -----------------------------
(***************************************************************************)
(* Instances of Issuance for TLC: one flow, since no variable relates two, *)
(* both addresses of its node, and interchangeable addresses, invocations  *)
(* and calls.                                                              *)
(***************************************************************************)
EXTENDS Issuance, TLC

Interchangeable ==
  Permutations(Addresses) \union Permutations(Invocations) \union
  Permutations(Calls)
=============================================================================
