---------------------------- MODULE MCApplication ----------------------------
(* A small application: one configuration per way of opening a checkpointer. *)
EXTENDS Application, TLC

CONSTANTS c1, c2, c3, c4

MCSavers == c1 :> "context" @@ c2 :> "alien" @@ c3 :> "closing"
            @@ c4 :> "plain"

Symmetry == Permutations(ThreadIds) \cup Permutations(CheckpointIds)
=============================================================================
