----------------------- MODULE MCBoundedInMemorySaver -----------------------
(***************************************************************************)
(* Small instances of BoundedInMemorySaver: the inputs of put and          *)
(* put_writes, in bytes.                                                   *)
(***************************************************************************)
EXTENDS BoundedInMemorySaver, TLC

NoValues == [v \in {} |-> 0]

\* A checkpoint without blobs, one with a blob, and one with a channel that
\* has no value.
SmallPut == [body |-> 1, values |-> NoValues, empties |-> {}]
BlobPut == [body |-> 1, values |-> (1 :> 2), empties |-> {}]
EmptyPut == [body |-> 1, values |-> NoValues, empties |-> {1}]
HugePut == [body |-> 9, values |-> NoValues, empties |-> {}]

\* Batches of pending writes of one task.
OneWrite == [writes |-> (1 :> 1), taskId |-> 1, path |-> 0]
TwoWrites == [writes |-> (1 :> 1) @@ (2 :> 1), taskId |-> 0, path |-> 2]
HugeWrite == [writes |-> (1 :> 9), taskId |-> 1, path |-> 0]

EvictionPuts == {SmallPut, BlobPut, HugePut}
EvictionBatches == {OneWrite, TwoWrites, HugeWrite}

LimitPuts == {SmallPut, EmptyPut}
LimitBatches == {OneWrite, TwoWrites}

BudgetPuts == {SmallPut}
BudgetBatches == {TwoWrites}

Symmetry == Permutations(Threads)
=============================================================================
