------------------------------- MODULE MC_Daemon -------------------------------
(* Instances of Daemon for TLC. *)
EXTENDS Daemon, TLC

Interchangeable == Permutations(Flows)
=============================================================================
