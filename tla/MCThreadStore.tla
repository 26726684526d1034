---------------------------- MODULE MCThreadStore ----------------------------
(* ThreadStore for TLC. *)
EXTENDS ThreadStore, TLC

Symmetry == Permutations(Threads) \cup Permutations(Assistants)
=============================================================================
