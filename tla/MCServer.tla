------------------------------ MODULE MCServer ------------------------------
(***************************************************************************)
(* Small instances of Server.                                              *)
(***************************************************************************)
EXTENDS Server, TLC

Symmetry == Permutations(Requests) \cup Permutations(Assistants)
=============================================================================
