--------------------- MODULE BoundedInMemorySaverProofs ---------------------
(***************************************************************************)
(* Proofs about BoundedInMemorySaver, for any threads, inputs and limits.  *)
(*                                                                         *)
(* The invariant has two halves that meet in NoOrphans: the order and      *)
(* times of _last_access, and the stored items with what is accounted for  *)
(* them.  Sums of bytes occur only in the choice of the threads to evict   *)
(* and in the counter, and nothing here depends on their values: for those *)
(* see SaverBytesProofs.                                                   *)
(***************************************************************************)
EXTENDS BoundedInMemorySaver, FiniteSetTheorems, TLAPS

\* _last_access is finite, well typed and ordered by last use.  Its times are
\* never in the future: a touched thread may go to the end of the order.
AccessInv ==
  /\ Known \subseteq Threads /\ lastAccess \in [Known -> 0..MaxClock]
  /\ IsFiniteSet(Known)
  /\ lru \subseteq Threads \X Threads
  /\ clock \in 0..MaxClock /\ \A t \in Known : lastAccess[t] <= clock
  /\ LruIsOrder

\* Items are well typed and exactly accounted for.
DataInv ==
  /\ DOMAIN stored \subseteq Key /\ stored \in [DOMAIN stored -> Nat]
  /\ namespaces \subseteq Threads \X Namespaces
  /\ SizesAreExact

\* The limit on threads, as long as upstream has no delta history for threads
\* it does not know.
LimitInv == ~ DeltaAnswersUnknown => ThreadLimit

ReplyInv ==
  /\ reply = Answer(reply.thread, reply.result, reply.need)
  /\ reply.thread \in Threads \cup {None} /\ reply.result \in Results

SaverInv == AccessInv /\ DataInv /\ NoOrphans /\ LimitInv /\ ReplyInv

-----------------------------------------------------------------------------
(***************************************************************************)
(* What the building blocks of the operations do to _last_access.          *)
(***************************************************************************)

\* Deleting threads keeps the order of the others (_delete_thread_locked).
LEMMA AccessDrop ==
  ASSUME AccessInv, NEW gone, Forgotten(gone), clock' = clock
  PROVE  AccessInv' /\ Known' = Known \ gone
<1>1. Known' = Known \ gone
  BY DEF Forgotten, Known
<1>2. lastAccess' \in [Known' -> 0..MaxClock] /\ Known' \subseteq Threads
  BY <1>1 DEF AccessInv, Forgotten, Known
<1>3. IsFiniteSet(Known')
  BY <1>1, FS_Subset DEF AccessInv
<1>4. lru' \subseteq lru
  BY DEF Forgotten, LruWithout
<1>5. LruIsOrder'
  BY <1>1 DEF AccessInv, LruIsOrder, Forgotten, LruWithout, Known
<1>6. \A t \in Known' : lastAccess'[t] <= clock'
  BY <1>1 DEF AccessInv, Forgotten
<1> QED BY <1>1, <1>2, <1>3, <1>4, <1>5, <1>6 DEF AccessInv

\* A touched thread becomes the last one (_touch_locked).
LEMMA AccessTouch ==
  ASSUME AccessInv, NEW t \in Threads, NEW gone, Touch(t, gone), clock' = clock
  PROVE  AccessInv' /\ Known' = (Known \ gone) \cup {t}
<1>1. Known' = (Known \ gone) \cup {t}
  BY DEF Touch, Known
<1>2. lastAccess' \in [Known' -> 0..MaxClock] /\ Known' \subseteq Threads
  BY <1>1 DEF AccessInv, Touch, Known
<1>3. IsFiniteSet(Known')
  <2>1. IsFiniteSet(Known \ gone)
    BY FS_Subset DEF AccessInv
  <2> QED BY <1>1, <2>1, FS_AddElement
<1>4. lru' \subseteq Threads \X Threads
  BY DEF Touch, LruWithout, AccessInv
<1>5. LruIsOrder'
  <2>1. \A e \in lru' : e \in Threads \X Threads
    BY <1>4
  <2>2. \A u, v \in Threads :
          <<u, v>> \in lru' <=>
            \/ <<u, v>> \in lru /\ u \notin gone \cup {t} /\ v \notin gone \cup {t}
            \/ u \in Known \ (gone \cup {t}) /\ v = t
    BY DEF Touch, LruWithout
  <2>3. \A u, v \in Threads : <<u, v>> \in lru => u \in Known /\ v \in Known /\ u # v
    BY DEF AccessInv, LruIsOrder
  <2>4. \A u, v \in Threads : <<u, v>> \in lru => lastAccess[u] <= lastAccess[v]
    BY DEF AccessInv, LruIsOrder
  <2>5. \A u, v \in Threads : <<u, v>> \in lru' => u \in Known' /\ v \in Known' /\ u # v
    BY <1>1, <2>2, <2>3
  <2>6. \A u, v \in Known' : u # v => (<<u, v>> \in lru' <=> <<v, u>> \notin lru')
    BY <1>1, <1>2, <2>2, <2>3, Zenon DEF AccessInv, LruIsOrder
  <2>7. \A u, v, w \in Known' :
          <<u, v>> \in lru' /\ <<v, w>> \in lru' => <<u, w>> \in lru'
    BY <1>1, <1>2, <2>2, <2>3 DEF AccessInv, LruIsOrder
  <2>8. \A u, v \in Threads : <<u, v>> \in lru' => lastAccess'[u] <= lastAccess'[v]
    <3> SUFFICES ASSUME NEW u \in Threads, NEW v \in Threads, <<u, v>> \in lru'
                 PROVE  lastAccess'[u] <= lastAccess'[v]
      OBVIOUS
    <3>1. u \in Known' /\ v \in Known' /\ u # v
      BY <2>5
    <3>2. u # t /\ u \in Known
      BY <2>2, <2>3
    <3>3. lastAccess'[u] = lastAccess[u]
      BY <3>1, <3>2, <1>1 DEF Touch
    <3>4. CASE v = t
      <4>1. lastAccess'[v] = clock
        BY <3>1, <3>4, <1>1 DEF Touch
      <4> QED BY <4>1, <3>2, <3>3 DEF AccessInv
    <3>5. CASE v # t
      BY <2>2, <2>4, <3>1, <3>3, <3>5, <1>1 DEF Touch
    <3> QED BY <3>4, <3>5
  <2> QED BY <2>1, <2>5, <2>6, <2>7, <2>8 DEF LruIsOrder
<1>6. \A u \in Known' : lastAccess'[u] <= clock'
  BY <1>1 DEF AccessInv, Touch
<1> QED BY <1>1, <1>2, <1>3, <1>4, <1>5, <1>6 DEF AccessInv

\* clear.
LEMMA AccessClear ==
  ASSUME AccessInv, Clear
  PROVE  AccessInv' /\ Known' = {}
<1>1. Known' = {} /\ lru' = {} /\ clock' = clock
  BY DEF Clear, Known
<1>2. lastAccess' \in [Known' -> 0..MaxClock]
  BY DEF Clear, Known
<1> QED BY <1>1, <1>2, FS_EmptySet DEF AccessInv, LruIsOrder

\* Steps that leave _last_access alone; the clock may advance.
LEMMA AccessSame ==
  ASSUME AccessInv, UNCHANGED <<lastAccess, lru>>,
         clock' = clock \/ (clock < MaxClock /\ clock' = clock + 1)
  PROVE  AccessInv' /\ Known' = Known
<1>1. Known' = Known
  BY DEF Known
<1>2. clock' \in 0..MaxClock /\ clock <= clock'
  BY InputsAssumption DEF AccessInv
<1>3. \A t \in Known' : lastAccess'[t] <= clock'
  BY <1>1, <1>2 DEF AccessInv
<1> QED BY <1>1, <1>2, <1>3 DEF AccessInv, LruIsOrder

-----------------------------------------------------------------------------
(***************************************************************************)
(* What they do to the items and to the accounting.                        *)
(***************************************************************************)

\* What is left of a table of items is well typed, and is the same for the
\* upstream dictionaries and for _sizes.
LEMMA DataDrop ==
  ASSUME DataInv, NEW gone, Drop(gone)
  PROVE  /\ DataInv'
         /\ DOMAIN stored' = {k \in DOMAIN stored : k.thread \notin gone}
         /\ namespaces' = {e \in namespaces : e[1] \notin gone}
<1>1. DOMAIN stored' = {k \in DOMAIN stored : k.thread \notin gone}
  BY DEF Drop, UpstreamWithout, Without
<1>2. stored' \in [DOMAIN stored' -> Nat]
  BY <1>1 DEF DataInv, Drop, UpstreamWithout, Without
<1>3. SizesAreExact'
  BY DEF DataInv, Drop, UpstreamWithout, Forgotten, SizesAreExact
<1> QED BY <1>1, <1>2, <1>3 DEF DataInv, Drop, UpstreamWithout

\* The accounting of a lookup that touches its thread.
LEMMA DataPurgeAndTouch ==
  ASSUME DataInv, NEW t, PurgeAndTouch(t)
  PROVE  /\ DataInv'
         /\ DOMAIN stored' = {k \in DOMAIN stored : k.thread \notin Expired}
         /\ namespaces' = {e \in namespaces : e[1] \notin Expired}
<1>1. DOMAIN stored' = {k \in DOMAIN stored : k.thread \notin Expired}
  BY DEF PurgeAndTouch, UpstreamWithout, Without
<1>2. stored' \in [DOMAIN stored' -> Nat]
  BY <1>1 DEF DataInv, PurgeAndTouch, UpstreamWithout, Without
<1>3. SizesAreExact'
  BY DEF DataInv, PurgeAndTouch, UpstreamWithout, Record, SizesAreExact, Without
<1> QED BY <1>1, <1>2, <1>3 DEF DataInv, PurgeAndTouch, UpstreamWithout

\* put: what _record_checkpoint_sizes_locked sets is what upstream stored.
LEMMA DataPut ==
  ASSUME DataInv, NEW t \in Threads, NEW ns \in Namespaces, NEW id \in Ids,
         NEW p \in Puts, NEW gone,
         UpstreamPut(t, ns, id, p, gone), Record(CheckpointKeys(t, ns, id, p), gone)
  PROVE  /\ DataInv'
         /\ \A k \in DOMAIN stored' :
               k.thread = t \/ (k \in DOMAIN stored /\ k.thread \notin gone)
         /\ namespaces' = {e \in namespaces : e[1] \notin gone} \cup {<<t, ns>>}
<1> DEFINE key == Item("checkpoint", t, ns, id, NoSlot)
           blobs == BlobKeys(t, ns, p)
           left == Without(stored, gone)
<1>1. IsPut(p)
  BY InputsAssumption
<1>2. key \in Key /\ key.thread = t /\ key.kind = "checkpoint"
  BY DEF Item, Key
<1>3. blobs \subseteq Key
      /\ \A k \in blobs : k.thread = t /\ k.kind = "blob" /\ k.id \in DOMAIN p.values \cup p.empties
  BY <1>1 DEF BlobKeys, Item, Key, IsPut
<1>4. DOMAIN stored' = DOMAIN left \cup {key} \cup blobs
  BY DEF UpstreamPut
<1>5. DOMAIN left \subseteq DOMAIN stored
      /\ \A k \in DOMAIN left : left[k] = stored[k] /\ k.thread \notin gone
  BY DEF Without
<1>6. \A k \in DOMAIN stored' :
         stored'[k] = IF k = key THEN p.body
                      ELSE IF k \in blobs
                        THEN IF k.id \in p.empties THEN EmptyBlobBytes ELSE p.values[k.id]
                      ELSE left[k]
  BY <1>4 DEF UpstreamPut
<1>7. \A k \in DOMAIN stored' : stored'[k] \in Nat
  BY <1>1, <1>3, <1>4, <1>5, <1>6, InputsAssumption DEF IsPut, DataInv
<1>8. SizesAreExact'
  <2>1. CheckpointKeys(t, ns, id, p) = {key} \cup blobs
    BY DEF CheckpointKeys
  <2>2. sizes' = [k \in DOMAIN left \cup ({key} \cup blobs) |->
                    IF k \in {key} \cup blobs THEN stored'[k] ELSE left[k]]
    BY <2>1 DEF Record, DataInv, SizesAreExact
  <2>3. DOMAIN sizes' = DOMAIN stored'
    BY <2>2, <1>4
  <2>4. \A k \in DOMAIN stored' : sizes'[k] = stored'[k]
    BY <2>2, <2>3, <1>6
  <2> HIDE DEF key, blobs, left
  <2>5. stored' = [k \in DOMAIN stored' |-> stored'[k]]
    BY DEF UpstreamPut
  <2>6. sizes' = [k \in DOMAIN sizes' |-> sizes'[k]]
    BY <2>2
  <2> QED BY <2>3, <2>4, <2>5, <2>6 DEF SizesAreExact
<1>9. DOMAIN stored' \subseteq Key
  BY <1>2, <1>3, <1>4, <1>5 DEF DataInv
<1>10. stored' \in [DOMAIN stored' -> Nat]
  <2>1. stored' = [k \in DOMAIN stored' |-> stored'[k]]
    BY DEF UpstreamPut
  <2> QED BY <2>1, <1>7
<1>11. namespaces' = {e \in namespaces : e[1] \notin gone} \cup {<<t, ns>>}
  BY DEF UpstreamPut
<1>12. namespaces' \subseteq Threads \X Namespaces
  BY <1>11 DEF DataInv
<1>13. \A k \in DOMAIN stored' :
          k.thread = t \/ (k \in DOMAIN stored /\ k.thread \notin gone)
  BY <1>2, <1>3, <1>4, <1>5
<1> QED BY <1>8, <1>9, <1>10, <1>11, <1>12, <1>13 DEF DataInv

\* put_writes: _record_write_sizes_locked goes over all writes of the
\* checkpoint and so reaches those upstream added, overwrote or kept.
LEMMA DataPutWrites ==
  ASSUME DataInv, NEW t \in Threads, NEW ns \in Namespaces, NEW id \in Ids,
         NEW b \in Batches, NEW gone,
         UpstreamPutWrites(t, ns, id, b, gone), Record(WriteKeys(t, ns, id), gone)
  PROVE  /\ DataInv'
         /\ \A k \in DOMAIN stored' :
               k.thread = t \/ (k \in DOMAIN stored /\ k.thread \notin gone)
         /\ namespaces' = {e \in namespaces : e[1] \notin gone}
<1> DEFINE left == Without(stored, gone)
           keys == {Item("write", t, ns, id, s) : s \in DOMAIN b.writes}
           taken == {k \in keys : k \in DOMAIN left /\ k.slot \notin SpecialSlots}
<1>1. IsBatch(b)
  BY InputsAssumption
<1>2. keys \subseteq Key
      /\ \A k \in keys : /\ k.thread = t /\ k.kind = "write" /\ k.ns = ns /\ k.id = id
                         /\ k.slot \in DOMAIN b.writes
  BY <1>1 DEF Item, Key, IsBatch
<1>3. DOMAIN stored' = DOMAIN left \cup keys
  BY DEF UpstreamPutWrites
<1>4. DOMAIN left \subseteq DOMAIN stored
      /\ \A k \in DOMAIN left : left[k] = stored[k] /\ k.thread \notin gone
  BY DEF Without
<1>5. \A k \in DOMAIN stored' :
         stored'[k] = IF k \in keys \ taken THEN b.writes[k.slot] + b.path ELSE left[k]
  BY <1>3 DEF UpstreamPutWrites
<1>6. \A k \in DOMAIN stored' : stored'[k] \in Nat
  BY <1>1, <1>2, <1>3, <1>4, <1>5 DEF IsBatch, DataInv
<1>7. SizesAreExact'
  <2>1. keys \subseteq WriteKeys(t, ns, id) /\ WriteKeys(t, ns, id) \subseteq DOMAIN stored'
    BY <1>2, <1>3 DEF WriteKeys
  <2>2. sizes' = [k \in DOMAIN left \cup WriteKeys(t, ns, id) |->
                    IF k \in WriteKeys(t, ns, id) THEN stored'[k] ELSE left[k]]
    BY DEF Record, DataInv, SizesAreExact
  <2>3. DOMAIN sizes' = DOMAIN stored'
    BY <2>1, <2>2, <1>3
  <2>4. \A k \in DOMAIN stored' : sizes'[k] = stored'[k]
    BY <2>1, <2>2, <2>3, <1>5
  <2> HIDE DEF keys, left
  <2>5. stored' = [k \in DOMAIN stored' |-> stored'[k]]
    BY DEF UpstreamPutWrites
  <2>6. sizes' = [k \in DOMAIN sizes' |-> sizes'[k]]
    BY <2>2
  <2> QED BY <2>3, <2>4, <2>5, <2>6 DEF SizesAreExact
<1>8. DOMAIN stored' \subseteq Key
  BY <1>2, <1>3, <1>4 DEF DataInv
<1>9. stored' \in [DOMAIN stored' -> Nat]
  <2>1. stored' = [k \in DOMAIN stored' |-> stored'[k]]
    BY DEF UpstreamPutWrites
  <2> QED BY <2>1, <1>6
<1>10. namespaces' = {e \in namespaces : e[1] \notin gone}
  BY DEF UpstreamPutWrites
<1>11. \A k \in DOMAIN stored' :
          k.thread = t \/ (k \in DOMAIN stored /\ k.thread \notin gone)
  BY <1>2, <1>3, <1>4
<1> QED BY <1>7, <1>8, <1>9, <1>10, <1>11 DEF DataInv

-----------------------------------------------------------------------------
(***************************************************************************)
(* The thread limit.                                                       *)
(***************************************************************************)

\* Threads that survive _make_room_for_thread_locked have different numbers
\* of later threads, all below MaxThreads - 1: so few threads survive.
LEMMA RoomForThread ==
  ASSUME AccessInv, NEW t \in Threads, t \notin Known \ Expired
  PROVE  Cardinality((Known \ GoneFor(t)) \cup {t}) <= MaxThreads
<1> DEFINE live == Known \ Expired
           after(u) == {v \in live : <<u, v>> \in lru}
           kept == Known \ GoneFor(t)
           rank == [u \in kept |-> Cardinality(after(u))]
<1>1. IsFiniteSet(live) /\ live \subseteq Known
  BY FS_Subset DEF AccessInv
<1>2. \A u \in live : IsFiniteSet(after(u)) /\ Cardinality(after(u)) \in Nat
  BY <1>1, FS_Subset, FS_CardinalityType
<1>3. kept = {u \in live : ~ (Cardinality(after(u)) >= MaxThreads - 1)}
  BY DEF GoneFor, ThreadVictims
<1>4. MaxThreads \in Nat /\ MaxThreads > 0
  BY LimitsAssumption
<1>5. \A u \in kept : Cardinality(after(u)) \in 0..(MaxThreads - 2)
  <2> HIDE DEF after
  <2> QED BY <1>2, <1>3, <1>4
<1>6. \A u, v \in live : <<u, v>> \in lru => Cardinality(after(u)) # Cardinality(after(v))
  <2> SUFFICES ASSUME NEW u \in live, NEW v \in live, <<u, v>> \in lru
               PROVE  Cardinality(after(u)) # Cardinality(after(v))
    OBVIOUS
  <2>1. after(v) \subseteq after(u)
    BY <1>1 DEF AccessInv, LruIsOrder
  <2>2. v \in after(u) /\ v \notin after(v)
    BY DEF AccessInv, LruIsOrder
  <2> HIDE DEF after
  <2> QED BY <2>1, <2>2, <1>2, FS_Subset
<1>7. \A u, v \in live : u # v => <<u, v>> \in lru \/ <<v, u>> \in lru
  BY <1>1, Zenon DEF AccessInv, LruIsOrder
<1>8. rank \in Injection(kept, 0..(MaxThreads - 2))
  <2>1. kept \subseteq live
    BY <1>3
  <2> HIDE DEF after, kept, live
  <2>2. rank \in [kept -> 0..(MaxThreads - 2)]
    BY <1>5
  <2>3. \A u, v \in kept : rank[u] = rank[v] => u = v
    BY <1>6, <1>7, <2>1
  <2> QED BY <2>2, <2>3 DEF Injection, IsInjective
<1>9. IsFiniteSet(0..(MaxThreads - 2)) /\ Cardinality(0..(MaxThreads - 2)) = MaxThreads - 1
  BY <1>4, FS_Interval
<1>10. IsFiniteSet(kept) /\ Cardinality(kept) <= MaxThreads - 1
  <2> HIDE DEF rank, kept
  <2> QED BY <1>8, <1>9, FS_Injection
<1> HIDE DEF kept
<1>11. Cardinality(kept) \in Nat
  BY <1>10, FS_CardinalityType
<1>12. Cardinality(kept \cup {t}) <= MaxThreads
  <2>1. Cardinality(kept \cup {t}) =
          IF t \in kept THEN Cardinality(kept) ELSE Cardinality(kept) + 1
    BY <1>10, FS_AddElement
  <2> QED BY <2>1, <1>4, <1>10, <1>11
<1> QED BY <1>12 DEF kept

\* An operation that deletes at least what _make_room_for_thread_locked
\* deletes, and then adds its thread, keeps the limit.
LEMMA LimitTouch ==
  ASSUME AccessInv, AccessInv', LimitInv, NEW t \in Threads, NEW gone,
         GoneFor(t) \subseteq gone, Known' = (Known \ gone) \cup {t}
  PROVE  LimitInv'
<1> SUFFICES ASSUME ~ DeltaAnswersUnknown PROVE Cardinality(Known') <= MaxThreads
  BY DEF LimitInv, ThreadLimit
<1>1. Cardinality(Known) <= MaxThreads
  BY DEF LimitInv, ThreadLimit
<1>2. MaxThreads \in Nat
  BY LimitsAssumption
<1>3. CASE t \in Known \ Expired
  <2>1. Known' \subseteq Known
    BY <1>3
  <2>2. Cardinality(Known') <= Cardinality(Known) /\ Cardinality(Known') \in Nat
        /\ Cardinality(Known) \in Nat
    BY <2>1, FS_Subset, FS_CardinalityType DEF AccessInv
  <2> QED BY <2>2, <1>1, <1>2
<1>4. CASE t \notin Known \ Expired
  <2> DEFINE most == (Known \ GoneFor(t)) \cup {t}
  <2>1. Cardinality(most) <= MaxThreads
    BY <1>4, RoomForThread
  <2>2. IsFiniteSet(Known \ GoneFor(t))
    BY FS_Subset DEF AccessInv
  <2>3. IsFiniteSet(most) /\ Known' \subseteq most
    BY <2>2, FS_AddElement
  <2> HIDE DEF most
  <2>4. Cardinality(Known') <= Cardinality(most) /\ Cardinality(Known') \in Nat
        /\ Cardinality(most) \in Nat
    BY <2>3, FS_Subset, FS_CardinalityType
  <2> QED BY <2>1, <2>4, <1>2
<1> QED BY <1>3, <1>4

\* So does an operation after which fewer threads are known.
LEMMA LimitShrinks ==
  ASSUME AccessInv, LimitInv, Known' \subseteq Known
  PROVE  LimitInv'
<1>1. Cardinality(Known') <= Cardinality(Known) /\ Cardinality(Known') \in Nat
      /\ Cardinality(Known) \in Nat
  BY FS_Subset, FS_CardinalityType DEF AccessInv
<1> QED BY <1>1, LimitsAssumption DEF LimitInv, ThreadLimit

-----------------------------------------------------------------------------
(***************************************************************************)
(* The operations.                                                         *)
(***************************************************************************)

\* Purges, deletions and the errors that come after evictions.
LEMMA InvDrop ==
  ASSUME SaverInv, NEW gone, Drop(gone), clock' = clock, ReplyInv'
  PROVE  SaverInv'
<1>1. AccessInv' /\ Known' = Known \ gone
  BY AccessDrop DEF SaverInv, Drop
<1>2. /\ DataInv'
      /\ DOMAIN stored' = {k \in DOMAIN stored : k.thread \notin gone}
      /\ namespaces' = {e \in namespaces : e[1] \notin gone}
  BY DataDrop DEF SaverInv
<1>3. NoOrphans'
  BY <1>1, <1>2 DEF SaverInv, NoOrphans
<1>4. LimitInv'
  BY <1>1, LimitShrinks DEF SaverInv
<1> QED BY <1>1, <1>2, <1>3, <1>4 DEF SaverInv

\* Lookups that find something, and delta history.
LEMMA InvPurgeAndTouch ==
  ASSUME SaverInv, NEW t \in Threads, PurgeAndTouch(t),
         t \in Known \ Expired \/ DeltaAnswersUnknown
  PROVE  SaverInv'
<1>1. AccessInv' /\ Known' = (Known \ Expired) \cup {t}
  BY AccessTouch DEF SaverInv, PurgeAndTouch
<1>2. /\ DataInv'
      /\ DOMAIN stored' = {k \in DOMAIN stored : k.thread \notin Expired}
      /\ namespaces' = {e \in namespaces : e[1] \notin Expired}
  BY DataPurgeAndTouch DEF SaverInv
<1>3. NoOrphans'
  BY <1>1, <1>2 DEF SaverInv, NoOrphans
<1>4. LimitInv'
  <2>1. CASE DeltaAnswersUnknown
    BY <2>1 DEF LimitInv
  <2>2. CASE t \in Known \ Expired
    <3>1. Known' \subseteq Known
      BY <1>1, <2>2
    <3> QED BY <3>1, LimitShrinks DEF SaverInv
  <2> QED BY <2>1, <2>2
<1>5. ReplyInv'
  BY DEF PurgeAndTouch, ReplyInv, NoReply, Answer, Results
<1> QED BY <1>1, <1>2, <1>3, <1>4, <1>5 DEF SaverInv

\* The errors of put and put_writes.
LEMMA InvRefused ==
  ASSUME SaverInv, NEW t \in Threads, NEW ns, NEW id, NEW need, NEW limit,
         \/ TooLarge(t, need, limit)
         \/ OverLimit(t, ns, id, need)
         \/ OverBudget(t, ns, id, need)
  PROVE  SaverInv'
<1>1. ReplyInv'
  BY DEF TooLarge, OverLimit, OverBudget, ReplyInv, Answer, Results
<1>2. CASE TooLarge(t, need, limit)
  <2>1. AccessInv' /\ Known' = Known
    BY <1>2, AccessSame DEF TooLarge, SaverInv
  <2>2. DataInv' /\ NoOrphans' /\ LimitInv'
    BY <1>2, <2>1
       DEF TooLarge, SaverInv, DataInv, SizesAreExact, NoOrphans, LimitInv, ThreadLimit
  <2> QED BY <1>1, <2>1, <2>2 DEF SaverInv
<1>3. CASE OverLimit(t, ns, id, need)
  BY <1>1, <1>3, InvDrop DEF OverLimit
<1>4. CASE OverBudget(t, ns, id, need)
  BY <1>1, <1>4, InvDrop DEF OverBudget
<1> QED BY <1>2, <1>3, <1>4

\* put.
LEMMA InvPut ==
  ASSUME SaverInv, NEW t \in Threads, NEW ns \in Namespaces, NEW id \in Ids,
         NEW p \in Puts, Put(t, ns, id, p)
  PROVE  SaverInv'
<1>1. CASE PutStored(t, ns, id, p)
  <2> DEFINE gone == GoneForBytes(t, EstimatedSize(p))
  <2>1. AccessInv' /\ Known' = (Known \ gone) \cup {t}
    BY <1>1, AccessTouch DEF SaverInv, PutStored
  <2>2. /\ DataInv'
        /\ \A k \in DOMAIN stored' :
              k.thread = t \/ (k \in DOMAIN stored /\ k.thread \notin gone)
        /\ namespaces' = {e \in namespaces : e[1] \notin gone} \cup {<<t, ns>>}
    BY <1>1, DataPut DEF SaverInv, PutStored
  <2>3. GoneFor(t) \subseteq gone
    BY DEF GoneForBytes
  <2>4. ReplyInv'
    BY <1>1 DEF PutStored, ReplyInv, Answer, Results
  <2> HIDE DEF gone
  <2>5. NoOrphans'
    BY <2>1, <2>2 DEF SaverInv, NoOrphans
  <2>6. LimitInv'
    BY <2>1, <2>3, LimitTouch DEF SaverInv
  <2> QED BY <2>1, <2>2, <2>4, <2>5, <2>6 DEF SaverInv
<1>2. CASE ~ PutStored(t, ns, id, p)
  BY <1>2, InvRefused DEF Put
<1> QED BY <1>1, <1>2

\* put_writes.
LEMMA InvPutWrites ==
  ASSUME SaverInv, NEW t \in Threads, NEW ns \in Namespaces, NEW id \in Ids,
         NEW b \in Batches, PutWrites(t, ns, id, b)
  PROVE  SaverInv'
<1>1. CASE PutWritesStored(t, ns, id, b)
  <2> DEFINE gone == GoneForBytes(t, WriteSize(b))
  <2>1. AccessInv' /\ Known' = (Known \ gone) \cup {t}
    BY <1>1, AccessTouch DEF SaverInv, PutWritesStored
  <2>2. /\ DataInv'
        /\ \A k \in DOMAIN stored' :
              k.thread = t \/ (k \in DOMAIN stored /\ k.thread \notin gone)
        /\ namespaces' = {e \in namespaces : e[1] \notin gone}
    BY <1>1, DataPutWrites DEF SaverInv, PutWritesStored
  <2>3. GoneFor(t) \subseteq gone
    BY DEF GoneForBytes
  <2>4. ReplyInv'
    BY <1>1 DEF PutWritesStored, ReplyInv, Answer, Results
  <2> HIDE DEF gone
  <2>5. NoOrphans'
    BY <2>1, <2>2 DEF SaverInv, NoOrphans
  <2>6. LimitInv'
    BY <2>1, <2>3, LimitTouch DEF SaverInv
  <2> QED BY <2>1, <2>2, <2>4, <2>5, <2>6 DEF SaverInv
<1>2. CASE ~ PutWritesStored(t, ns, id, b)
  BY <1>2, InvRefused DEF PutWrites
<1> QED BY <1>1, <1>2

\* A purge alone.
LEMMA InvPurgeOnly ==
  ASSUME SaverInv, PurgeOnly
  PROVE  SaverInv'
<1>1. ReplyInv'
  BY DEF PurgeOnly, ReplyInv, NoReply, Answer, Results
<1> QED BY <1>1, InvDrop DEF PurgeOnly

\* get_tuple: a miss may add a namespace, but only to a thread that is known.
LEMMA InvGetTuple ==
  ASSUME SaverInv, NEW t \in Threads, NEW ns \in Namespaces, NEW id,
         GetTuple(t, ns, id)
  PROVE  SaverInv'
<1>1. CASE Found(t, ns, id) /\ PurgeAndTouch(t)
  <2>1. t \in Known \ Expired
    BY <1>1 DEF SaverInv, NoOrphans, Found, Items
  <2> QED BY <1>1, <2>1, InvPurgeAndTouch
<1>2. CASE ~ Found(t, ns, id)
  <2>1. /\ stored' = Without(stored, Expired)
        /\ namespaces' = {e \in namespaces : e[1] \notin Expired}
                         \cup {e \in {<<t, ns>>} : InStorage(t, Expired)}
        /\ Forgotten(Expired) /\ clock' = clock /\ reply' = NoReply
    BY <1>2 DEF GetTuple
  <2>2. AccessInv' /\ Known' = Known \ Expired
    BY <2>1, AccessDrop DEF SaverInv
  <2>3. InStorage(t, Expired) => t \in Known \ Expired
    BY DEF InStorage, SaverInv, NoOrphans
  <2>4. DOMAIN stored' = {k \in DOMAIN stored : k.thread \notin Expired}
    BY <2>1 DEF Without
  <2>5. stored' \in [DOMAIN stored' -> Nat]
    BY <2>1, <2>4 DEF SaverInv, DataInv, Without
  <2>6. SizesAreExact'
    BY <2>1 DEF SaverInv, DataInv, Forgotten, SizesAreExact
  <2>7. DataInv'
    BY <2>1, <2>4, <2>5, <2>6 DEF SaverInv, DataInv
  <2>8. NoOrphans'
    BY <2>1, <2>2, <2>3, <2>4 DEF SaverInv, NoOrphans
  <2>9. LimitInv'
    BY <2>2, LimitShrinks DEF SaverInv
  <2>10. ReplyInv'
    BY <2>1 DEF ReplyInv, NoReply, Answer, Results
  <2> QED BY <2>2, <2>7, <2>8, <2>9, <2>10 DEF SaverInv
<1> QED BY <1>1, <1>2 DEF GetTuple

-----------------------------------------------------------------------------
(***************************************************************************)
(* The invariant and the theorems.                                         *)
(***************************************************************************)

\* An empty saver satisfies the invariant.
LEMMA SaverInvInit == SaverInit => SaverInv
<1> SUFFICES ASSUME SaverInit PROVE SaverInv
  OBVIOUS
<1>1. Known = {} /\ DOMAIN stored = {}
  BY DEF SaverInit, Known
<1>2. AccessInv
  <2>1. lastAccess \in [Known -> 0..MaxClock]
    BY DEF SaverInit, Known
  <2>2. clock \in 0..MaxClock
    BY InputsAssumption DEF SaverInit
  <2> QED BY <1>1, <2>1, <2>2, FS_EmptySet DEF SaverInit, AccessInv, LruIsOrder
<1>3. DataInv
  <2>1. stored \in [DOMAIN stored -> Nat]
    BY DEF SaverInit
  <2> QED BY <1>1, <2>1 DEF SaverInit, DataInv, SizesAreExact
<1>4. NoOrphans
  BY <1>1 DEF SaverInit, NoOrphans
<1>5. LimitInv
  BY <1>1, FS_EmptySet, LimitsAssumption DEF LimitInv, ThreadLimit
<1>6. ReplyInv
  BY DEF SaverInit, ReplyInv, NoReply, Answer, Results
<1> QED BY <1>2, <1>3, <1>4, <1>5, <1>6 DEF SaverInv

\* Every operation, and a tick of the clock, preserves the invariant.
LEMMA SaverInvStep == SaverInv /\ [SaverNext]_saverVars => SaverInv'
<1> SUFFICES ASSUME SaverInv, [SaverNext]_saverVars PROVE SaverInv'
  OBVIOUS
<1>1. ASSUME NEW t \in Threads, NEW ns \in Namespaces, NEW id \in Ids,
             NEW p \in Puts, Put(t, ns, id, p)
      PROVE  SaverInv'
  BY <1>1, InvPut
<1>2. ASSUME NEW t \in Threads, NEW ns \in Namespaces, NEW id \in Ids,
             NEW b \in Batches, PutWrites(t, ns, id, b)
      PROVE  SaverInv'
  BY <1>2, InvPutWrites
<1>3. ASSUME NEW t \in Threads, NEW ns \in ReadNamespaces,
             NEW id \in Ids \cup {None}, GetTuple(t, ns, id)
      PROVE  SaverInv'
  BY <1>3, InvGetTuple, InputsAssumption
<1>4. ASSUME NEW t \in Threads, List(t)
      PROVE  SaverInv'
  <2>1. CASE PurgeOnly
    BY <2>1, InvPurgeOnly
  <2>2. CASE (\E ns \in Namespaces : Found(t, ns, None)) /\ PurgeAndTouch(t)
    <3>1. t \in Known \ Expired
      BY <2>2 DEF SaverInv, NoOrphans, Found, Items
    <3> QED BY <2>2, <3>1, InvPurgeAndTouch
  <2> QED BY <1>4, <2>1, <2>2 DEF List
<1>5. ASSUME NEW t \in Threads, DeltaHistory(t)
      PROVE  SaverInv'
  <2>1. CASE PurgeOnly
    BY <2>1, InvPurgeOnly
  <2>2. CASE (InStorage(t, Expired) \/ DeltaAnswersUnknown) /\ PurgeAndTouch(t)
    <3>1. t \in Known \ Expired \/ DeltaAnswersUnknown
      BY <2>2 DEF SaverInv, NoOrphans, InStorage
    <3> QED BY <2>2, <3>1, InvPurgeAndTouch
  <2> QED BY <1>5, <2>1, <2>2 DEF DeltaHistory
<1>6. ASSUME NEW t \in Threads, DeleteThread(t)
      PROVE  SaverInv'
  <2>1. ReplyInv'
    BY <1>6 DEF DeleteThread, ReplyInv, NoReply, Answer, Results
  <2> QED BY <1>6, <2>1, InvDrop DEF DeleteThread
<1>7. CASE PurgeExpired \/ Stats
  BY <1>7, InvPurgeOnly DEF PurgeExpired, Stats
<1>8. CASE Clear
  <2>1. AccessInv' /\ Known' = {}
    BY <1>8, AccessClear DEF SaverInv
  <2>2. stored' = [k \in {} |-> 0] /\ sizes' = stored' /\ namespaces' = {}
    BY <1>8 DEF Clear
  <2>3. DataInv' /\ NoOrphans'
    BY <2>2 DEF DataInv, SizesAreExact, NoOrphans
  <2>4. LimitInv'
    BY <2>1, LimitShrinks DEF SaverInv
  <2>5. ReplyInv'
    BY <1>8 DEF Clear, ReplyInv, NoReply, Answer, Results
  <2> QED BY <2>1, <2>3, <2>4, <2>5 DEF SaverInv
<1>9. CASE Tick \/ UNCHANGED saverVars
  <2>1. AccessInv' /\ Known' = Known
    BY <1>9, AccessSame DEF SaverInv, Tick, saverVars
  <2>2. UNCHANGED <<stored, namespaces, sizes>>
    BY <1>9 DEF Tick, saverVars
  <2>3. DataInv' /\ NoOrphans' /\ LimitInv'
    BY <2>1, <2>2 DEF SaverInv, DataInv, SizesAreExact, NoOrphans, LimitInv, ThreadLimit
  <2>4. ReplyInv'
    BY <1>9 DEF SaverInv, Tick, saverVars, ReplyInv, NoReply, Answer, Results
  <2> QED BY <2>1, <2>3, <2>4 DEF SaverInv
<1> QED BY <1>1, <1>2, <1>3, <1>4, <1>5, <1>6, <1>7, <1>8, <1>9 DEF SaverNext

\* The inductive invariant holds of every behaviour of the saver.
THEOREM SaverInvariance == SaverSpec => []SaverInv
<1>1. SaverInit => SaverInv
  BY SaverInvInit
<1>2. SaverInv /\ [SaverNext]_saverVars => SaverInv'
  BY SaverInvStep
<1> QED BY <1>1, <1>2, PTL DEF SaverSpec

\* The variables of the saver keep their types.
THEOREM SaverTypeCorrect == SaverSpec => []SaverTypeOK
<1>1. SaverInv => SaverTypeOK
  BY DEF SaverInv, AccessInv, DataInv, ReplyInv, SizesAreExact, SaverTypeOK
<1> QED BY <1>1, SaverInvariance, PTL

\* _sizes always has exactly the items the upstream dictionaries hold, each
\* with its real size, whatever is stored, replaced, evicted or expired.
THEOREM SizesStayExact == SaverSpec => []SizesAreExact
<1>1. SaverInv => SizesAreExact
  BY DEF SaverInv, DataInv
<1> QED BY <1>1, SaverInvariance, PTL

\* Nothing is stored for a thread that expiry and eviction cannot reach.
THEOREM NothingIsStranded == SaverSpec => []NoOrphans
<1>1. SaverInv => NoOrphans
  BY DEF SaverInv
<1> QED BY <1>1, SaverInvariance, PTL

\* _last_access is always ordered by last use, so that the first entry the
\* eviction loops take is the least recently used thread.
THEOREM LastAccessIsOrdered == SaverSpec => []LruIsOrder
<1>1. SaverInv => LruIsOrder
  BY DEF SaverInv, AccessInv
<1> QED BY <1>1, SaverInvariance, PTL

\* max_threads is never exceeded, provided that upstream has no delta history
\* for threads it does not know: get_delta_channel_history alone adds threads
\* without making room for them.
THEOREM ThreadsAreLimited == SaverSpec => [](~ DeltaAnswersUnknown => ThreadLimit)
<1>1. SaverInv => (~ DeltaAnswersUnknown => ThreadLimit)
  BY DEF SaverInv, LimitInv
<1> QED BY <1>1, SaverInvariance, PTL

\* A thread that has not expired is never among those that are deleted to
\* make room for it.
LEMMA ProtectedThread ==
  ASSUME NEW t, t \notin Expired
  PROVE  t \notin GoneFor(t) /\ GoneFor(t) \subseteq Known
BY DEF GoneFor, ThreadVictims, Expired

\* Deleting other threads leaves the items of a thread unchanged.
LEMMA DropKeepsOthers ==
  ASSUME NEW t, NEW gone, gone \subseteq Threads \ {t}, UpstreamWithout(gone)
  PROVE  ThreadItems(t)' = ThreadItems(t)
BY DEF UpstreamWithout, ThreadItems, Without

\* A capacity error of put or put_writes leaves the items of the thread it
\* was raised for as they were, unless that thread had expired, even though
\* every other thread may have been evicted first.
THEOREM RejectionsKeepThreads == SaverSpec => RejectionKeepsThread
<1> DEFINE A == \A t \in Threads \ Expired :
                   reply'.result \in Refusals /\ reply'.thread = t
                     => ThreadItems(t)' = ThreadItems(t)
<1>1. SaverInv /\ [SaverNext]_saverVars => [A]_saverVars
  <2> SUFFICES ASSUME SaverInv, SaverNext, NEW t \in Threads \ Expired,
                      reply'.result \in Refusals, reply'.thread = t
               PROVE  ThreadItems(t)' = ThreadItems(t)
    OBVIOUS
  <2>1. Known \subseteq Threads
    BY DEF SaverInv, AccessInv
  <2>2. ASSUME NEW u \in Threads, NEW ns, NEW id, NEW need, NEW limit,
               \/ TooLarge(u, need, limit)
               \/ OverLimit(u, ns, id, need)
               \/ OverBudget(u, ns, id, need)
        PROVE  ThreadItems(t)' = ThreadItems(t)
    <3>1. u = t
      BY <2>2 DEF TooLarge, OverLimit, OverBudget, Answer
    <3>2. GoneFor(t) \subseteq Threads \ {t}
      BY <2>1, ProtectedThread
    <3>3. CASE TooLarge(u, need, limit)
      BY <3>3 DEF TooLarge, ThreadItems, Without
    <3>4. CASE OverLimit(u, ns, id, need)
      BY <3>1, <3>2, <3>4, DropKeepsOthers DEF OverLimit, Drop
    <3>5. CASE OverBudget(u, ns, id, need)
      <4>1. GoneFor(t) \cup (Known \ {t}) \subseteq Threads \ {t}
        BY <2>1, <3>2
      <4> QED BY <3>1, <3>5, <4>1, DropKeepsOthers DEF OverBudget, Drop
    <3> QED BY <2>2, <3>3, <3>4, <3>5
  <2>3. ASSUME NEW u \in Threads, NEW ns \in Namespaces, NEW id \in Ids,
               \/ \E p \in Puts : Put(u, ns, id, p)
               \/ \E b \in Batches : PutWrites(u, ns, id, b)
        PROVE  ThreadItems(t)' = ThreadItems(t)
    <3>1. ASSUME NEW p \in Puts, Put(u, ns, id, p)
          PROVE  ThreadItems(t)' = ThreadItems(t)
      <4>1. ~ PutStored(u, ns, id, p)
        BY DEF PutStored, Answer, Refusals
      <4> QED BY <3>1, <4>1, <2>2 DEF Put
    <3>2. ASSUME NEW b \in Batches, PutWrites(u, ns, id, b)
          PROVE  ThreadItems(t)' = ThreadItems(t)
      <4>1. ~ PutWritesStored(u, ns, id, b)
        BY DEF PutWritesStored, Answer, Refusals
      <4> QED BY <3>2, <4>1, <2>2 DEF PutWrites
    <3> QED BY <2>3, <3>1, <3>2
  <2>4. reply' # NoReply
    BY DEF NoReply, Refusals
  <2>5. \E u \in Threads, ns \in Namespaces, id \in Ids :
           \/ \E p \in Puts : Put(u, ns, id, p)
           \/ \E b \in Batches : PutWrites(u, ns, id, b)
    BY <2>4 DEF SaverNext, GetTuple, List, DeltaHistory, DeleteThread, PurgeExpired,
                Stats, Clear, Tick, PurgeOnly, PurgeAndTouch
  <2> QED BY <2>3, <2>5
<1> QED BY <1>1, SaverInvariance, PTL DEF SaverSpec, RejectionKeepsThread

-----------------------------------------------------------------------------
(***************************************************************************)
(* Which threads are evicted.                                              *)
(***************************************************************************)

\* The order of _last_access, thread by thread.
LEMMA LruFacts ==
  ASSUME AccessInv
  PROVE  /\ \A u, v \in Known : u # v => <<u, v>> \in lru \/ <<v, u>> \in lru
         /\ \A u, v, w \in Known : <<u, v>> \in lru /\ <<v, w>> \in lru => <<u, w>> \in lru
         /\ \A u, v \in Known : <<u, v>> \in lru => <<v, u>> \notin lru /\ u # v
BY DEF AccessInv, LruIsOrder

\* The loop of _make_room_for_thread_locked takes the oldest threads: one that
\* it spares has fewer threads after it than one that it takes.
LEMMA ThreadVictimsAreOldest ==
  ASSUME AccessInv, NEW t, NEW u \in ThreadVictims(t),
         NEW v \in Known \ Expired, v \notin ThreadVictims(t)
  PROVE  <<u, v>> \in lru
<1> DEFINE live == Known \ Expired
           after(w) == {x \in live : <<w, x>> \in lru}
<1>1. u \in live /\ v \in live /\ u # v /\ live \subseteq Known
  BY DEF ThreadVictims
<1>2. /\ t \notin live /\ Cardinality(after(u)) >= MaxThreads - 1
      /\ ~ (Cardinality(after(v)) >= MaxThreads - 1)
  BY DEF ThreadVictims
<1>3. ASSUME <<v, u>> \in lru PROVE FALSE
  <2>1. after(u) \subseteq after(v)
    BY <1>1, <1>3, LruFacts
  <2>2. IsFiniteSet(after(v))
    <3>1. after(v) \subseteq Known
      BY <1>1
    <3> QED BY <3>1, FS_Subset DEF AccessInv
  <2> HIDE DEF after
  <2>3. /\ Cardinality(after(u)) \in Nat /\ Cardinality(after(v)) \in Nat
        /\ Cardinality(after(u)) <= Cardinality(after(v))
    BY <2>1, <2>2, FS_Subset, FS_CardinalityType
  <2> QED BY <1>2, <2>3, LimitsAssumption
<1> QED BY <1>1, <1>3, LruFacts

\* The loop of _make_room_for_bytes_locked takes the oldest of the threads it
\* does not protect: it reaches one only through those before it.
LEMMA ByteVictimsAreOldest ==
  ASSUME AccessInv, NEW t, NEW need, NEW gone, NEW u \in ByteVictims(t, need, gone),
         NEW v \in Known \ (gone \cup {t}), v \notin ByteVictims(t, need, gone)
  PROVE  <<u, v>> \in lru
<1> DEFINE others == Known \ (gone \cup {t})
           older(w) == {x \in others : <<x, w>> \in lru}
           full(w) == ~ Fits(need, gone \cup older(w))
<1>1. u \in others /\ v \in others /\ u # v /\ others \subseteq Known
  BY DEF ByteVictims
<1>2. (\A w \in older(u) \cup {u} : full(w)) /\ ~ (\A w \in older(v) \cup {v} : full(w))
  BY DEF ByteVictims
<1>3. ASSUME <<v, u>> \in lru PROVE FALSE
  <2>1. older(v) \cup {v} \subseteq older(u)
    BY <1>1, <1>3, LruFacts
  <2> HIDE DEF full, older
  <2> QED BY <1>2, <2>1
<1> QED BY <1>1, <1>3, LruFacts

\* Only put and put_writes reply; what they reply and what they delete.
LEMMA RepliesAreOfPuts ==
  ASSUME SaverInv, SaverNext, reply'.result # "none"
  PROVE  \E t \in Threads : \E need :
           /\ reply' = Answer(t, reply'.result, need)
           /\ \/ Known' = Known
              \/ reply'.result # "ok" /\ Known' = Known \ GoneFor(t)
              \/ reply'.result = "budget" /\ Known' = Known \ (GoneFor(t) \cup (Known \ {t}))
              \/ Known' = (Known \ GoneForBytes(t, need)) \cup {t}
<1>1. ASSUME NEW t \in Threads, NEW ns, NEW id, NEW need, NEW limit,
             \/ TooLarge(t, need, limit)
             \/ OverLimit(t, ns, id, need)
             \/ OverBudget(t, ns, id, need)
      PROVE  /\ reply' = Answer(t, reply'.result, need)
             /\ \/ Known' = Known
                \/ reply'.result # "ok" /\ Known' = Known \ GoneFor(t)
                \/ /\ reply'.result = "budget"
                   /\ Known' = Known \ (GoneFor(t) \cup (Known \ {t}))
  <2>1. CASE TooLarge(t, need, limit)
    BY <2>1 DEF TooLarge, Answer, Known
  <2>2. CASE OverLimit(t, ns, id, need)
    BY <2>2 DEF OverLimit, Answer, Drop, Forgotten, Known
  <2>3. CASE OverBudget(t, ns, id, need)
    BY <2>3 DEF OverBudget, Answer, Drop, Forgotten, Known
  <2> QED BY <1>1, <2>1, <2>2, <2>3
<1>2. reply' # NoReply
  BY DEF NoReply
<1>3. PICK t \in Threads, ns \in Namespaces, id \in Ids :
           \/ \E p \in Puts : Put(t, ns, id, p)
           \/ \E b \in Batches : PutWrites(t, ns, id, b)
  BY <1>2 DEF SaverNext, GetTuple, List, DeltaHistory, DeleteThread, PurgeExpired,
              Stats, Clear, Tick, PurgeOnly, PurgeAndTouch
<1>4. ASSUME NEW p \in Puts, PutStored(t, ns, id, p)
      PROVE  /\ reply' = Answer(t, reply'.result, EstimatedSize(p))
             /\ Known' = (Known \ GoneForBytes(t, EstimatedSize(p))) \cup {t}
  BY <1>4, AccessTouch DEF PutStored, Answer, SaverInv
<1>5. ASSUME NEW b \in Batches, PutWritesStored(t, ns, id, b)
      PROVE  /\ reply' = Answer(t, reply'.result, WriteSize(b))
             /\ Known' = (Known \ GoneForBytes(t, WriteSize(b))) \cup {t}
  BY <1>5, AccessTouch DEF PutWritesStored, Answer, SaverInv
<1>6. ASSUME NEW p \in Puts, Put(t, ns, id, p), ~ PutStored(t, ns, id, p)
      PROVE  \/ TooLarge(t, EstimatedSize(p), MaxCheckpointBytes)
             \/ OverLimit(t, ns, id, EstimatedSize(p))
             \/ OverBudget(t, ns, id, EstimatedSize(p))
  BY <1>6 DEF Put
<1>7. ASSUME NEW b \in Batches, PutWrites(t, ns, id, b), ~ PutWritesStored(t, ns, id, b)
      PROVE  \/ TooLarge(t, WriteSize(b), MaxPendingWriteBytes)
             \/ OverLimit(t, ns, id, WriteSize(b))
             \/ OverBudget(t, ns, id, WriteSize(b))
  BY <1>7 DEF PutWrites
<1> QED BY <1>1, <1>3, <1>4, <1>5, <1>6, <1>7

\* Apart from the expired threads, put and put_writes delete the least recently
\* used threads first and spare the one they write to, whatever they answer.
THEOREM EvictsInOrderOfUse == SaverSpec => EvictsLeastRecentlyUsed
<1> DEFINE evicted == Known \ (Known' \cup Expired)
           A == reply'.result # "none" =>
                  /\ reply'.thread \notin evicted
                  /\ \A u \in evicted, v \in Known' \ {reply'.thread} : <<u, v>> \in lru
<1>1. SaverInv /\ [SaverNext]_saverVars => [A]_saverVars
  <2> SUFFICES ASSUME SaverInv, SaverNext, reply'.result # "none"
               PROVE  /\ reply'.thread \notin evicted
                      /\ \A u \in evicted, v \in Known' \ {reply'.thread} : <<u, v>> \in lru
    OBVIOUS
  <2>1. PICK t \in Threads : \E need :
           /\ reply' = Answer(t, reply'.result, need)
           /\ \/ Known' = Known
              \/ reply'.result # "ok" /\ Known' = Known \ GoneFor(t)
              \/ reply'.result = "budget" /\ Known' = Known \ (GoneFor(t) \cup (Known \ {t}))
              \/ Known' = (Known \ GoneForBytes(t, need)) \cup {t}
    BY RepliesAreOfPuts
  <2>2. PICK need :
           /\ reply' = Answer(t, reply'.result, need)
           /\ \/ Known' = Known
              \/ reply'.result # "ok" /\ Known' = Known \ GoneFor(t)
              \/ reply'.result = "budget" /\ Known' = Known \ (GoneFor(t) \cup (Known \ {t}))
              \/ Known' = (Known \ GoneForBytes(t, need)) \cup {t}
    BY <2>1
  <2>3. reply'.thread = t /\ AccessInv
    BY <2>2 DEF Answer, SaverInv
  <2>4. t \notin ThreadVictims(t)
    BY DEF ThreadVictims
  <2>5. CASE Known' = Known
    BY <2>5
  <2>6. CASE Known' = Known \ GoneFor(t)
    <3>1. evicted \subseteq ThreadVictims(t)
      BY <2>6 DEF GoneFor
    <3>2. \A v \in Known' : v \in Known \ Expired /\ v \notin ThreadVictims(t)
      BY <2>6 DEF GoneFor
    <3> QED BY <2>3, <2>4, <3>1, <3>2, ThreadVictimsAreOldest
  <2>7. CASE Known' = Known \ (GoneFor(t) \cup (Known \ {t}))
    <3>1. Known' \subseteq {t} /\ (t \in evicted => t \in ThreadVictims(t))
      BY <2>7 DEF GoneFor
    <3> QED BY <2>3, <2>4, <3>1
  <2>8. CASE Known' = (Known \ GoneForBytes(t, need)) \cup {t}
    <3>1. evicted \subseteq ThreadVictims(t) \cup ByteVictims(t, need, GoneFor(t))
          /\ t \notin evicted
      BY <2>8 DEF GoneFor, GoneForBytes
    <3>2. \A v \in Known' \ {t} :
             /\ v \in Known \ Expired /\ v \notin ThreadVictims(t)
             /\ v \in Known \ (GoneFor(t) \cup {t})
             /\ v \notin ByteVictims(t, need, GoneFor(t))
      BY <2>8 DEF GoneFor, GoneForBytes
    <3> QED BY <2>3, <3>1, <3>2, ThreadVictimsAreOldest, ByteVictimsAreOldest
  <2> QED BY <2>2, <2>5, <2>6, <2>7, <2>8
<1> QED BY <1>1, SaverInvariance, PTL DEF SaverSpec, EvictsLeastRecentlyUsed

\* The last thread that is evicted is one too many: with it, there is no room
\* for the thread, or the budget is exceeded although all the others are gone.
THEOREM EvictsOnlyWhatItMust == SaverSpec => EvictsNoMoreThanNeeded
<1> DEFINE evicted == Known \ (Known' \cup Expired)
           A == reply'.result = "ok" =>
                  \A u \in evicted :
                     (\A v \in evicted : v = u \/ <<v, u>> \in lru) =>
                        \/ Cardinality((Known' \ {reply'.thread}) \cup {u}) >= MaxThreads
                        \/ ~ Fits(reply'.need, Expired \cup (evicted \ {u}))
<1>1. SaverInv /\ [SaverNext]_saverVars => [A]_saverVars
  <2> SUFFICES ASSUME SaverInv, SaverNext, reply'.result = "ok",
                      NEW u \in evicted, \A v \in evicted : v = u \/ <<v, u>> \in lru
               PROVE  \/ Cardinality((Known' \ {reply'.thread}) \cup {u}) >= MaxThreads
                      \/ ~ Fits(reply'.need, Expired \cup (evicted \ {u}))
    OBVIOUS
  <2>1. PICK t \in Threads : \E need :
           /\ reply' = Answer(t, reply'.result, need)
           /\ \/ Known' = Known
              \/ reply'.result # "ok" /\ Known' = Known \ GoneFor(t)
              \/ reply'.result = "budget" /\ Known' = Known \ (GoneFor(t) \cup (Known \ {t}))
              \/ Known' = (Known \ GoneForBytes(t, need)) \cup {t}
    BY RepliesAreOfPuts
  <2>2. PICK need :
           /\ reply' = Answer(t, reply'.result, need)
           /\ Known' = (Known \ GoneForBytes(t, need)) \cup {t}
    BY <2>1
  <2>3. reply'.thread = t /\ reply'.need = need /\ AccessInv
    BY <2>2 DEF Answer, SaverInv
  <2>4. evicted = ThreadVictims(t) \cup ByteVictims(t, need, GoneFor(t))
    <3>1. /\ ThreadVictims(t) \subseteq Known \ (Expired \cup {t})
          /\ ByteVictims(t, need, GoneFor(t)) \subseteq Known \ (Expired \cup {t})
      BY DEF ThreadVictims, ByteVictims, GoneFor
    <3> QED BY <2>2, <3>1 DEF GoneFor, GoneForBytes
  <2>5. CASE u \in ThreadVictims(t)
    <3> DEFINE live == Known \ Expired
               after == {v \in live : <<u, v>> \in lru}
               rest == Known' \ {t}
    <3>1. t \notin live /\ Cardinality(after) >= MaxThreads - 1 /\ u \in live
      BY <2>5 DEF ThreadVictims
    <3>2. after \subseteq rest /\ u \notin after
      <4>1. \A v \in after : v \notin evicted /\ v # t
        BY <3>1, <2>3, LruFacts
      <4> QED BY <2>2, <2>3, <3>1, <4>1, LruFacts
    <3>3. IsFiniteSet(rest \cup {u})
      <4>1. rest \cup {u} \subseteq Known
        BY <2>2, <3>1
      <4> QED BY <4>1, <2>3, FS_Subset DEF AccessInv
    <3> HIDE DEF after, rest
    <3>4. IsFiniteSet(after) /\ after \cup {u} \subseteq rest \cup {u}
      <4>1. after \subseteq rest \cup {u} /\ after \cup {u} \subseteq rest \cup {u}
        BY <3>2
      <4> QED BY <3>3, <4>1, FS_Subset
    <3>5. /\ Cardinality(after) \in Nat /\ Cardinality(rest \cup {u}) \in Nat
          /\ Cardinality(after \cup {u}) = Cardinality(after) + 1
          /\ Cardinality(after \cup {u}) <= Cardinality(rest \cup {u})
      BY <3>2, <3>3, <3>4, FS_AddElement, FS_Subset, FS_CardinalityType
    <3>6. Cardinality(rest \cup {u}) >= MaxThreads
      BY <3>1, <3>5, LimitsAssumption
    <3> QED BY <2>3, <3>6 DEF rest
  <2>6. CASE u \in ByteVictims(t, need, GoneFor(t)) /\ u \notin ThreadVictims(t)
    <3> DEFINE others == Known \ (GoneFor(t) \cup {t})
               older == {v \in others : <<v, u>> \in lru}
    <3>1. ~ Fits(need, GoneFor(t) \cup older) /\ u \in others
      BY <2>6 DEF ByteVictims
    <3>2. older = ByteVictims(t, need, GoneFor(t)) \ {u}
      <4>1. ASSUME NEW v \in older PROVE v \in ByteVictims(t, need, GoneFor(t)) \ {u}
        <5>1. v \in others /\ <<v, u>> \in lru /\ v \in Known /\ u \in Known
          BY <3>1
        <5>2. v # u /\ <<u, v>> \notin lru
          BY <5>1, <2>3, LruFacts
        <5> QED BY <2>3, <2>6, <5>1, <5>2, ByteVictimsAreOldest
      <4>2. ASSUME NEW v \in ByteVictims(t, need, GoneFor(t)), v # u PROVE v \in older
        <5>1. v \in evicted
          BY <2>4
        <5> QED BY <4>2, <5>1 DEF ByteVictims
      <4> QED BY <4>1, <4>2
    <3>3. GoneFor(t) \cup older = Expired \cup (evicted \ {u})
      BY <2>4, <2>6, <3>2 DEF GoneFor
    <3> QED BY <2>3, <3>1, <3>3
  <2> QED BY <2>4, <2>5, <2>6
<1> QED BY <1>1, SaverInvariance, PTL DEF SaverSpec, EvictsNoMoreThanNeeded

-----------------------------------------------------------------------------
(***************************************************************************)
(* The limits of a thread.                                                 *)
(***************************************************************************)

\* What a thread has can be counted, and is within its limits.
CountInv ==
  /\ \A t \in Threads :
        IsFiniteSet(KnownCheckpoints(t, {})) /\ IsFiniteSet(KnownNamespaces(t, {}))
  /\ PerThreadLimits

\* A set with at most one more element than one that is not full is not too
\* large.
LEMMA OneMoreFits ==
  ASSUME NEW S, NEW T, NEW x, NEW n \in Nat \ {0}, IsFiniteSet(S), T \subseteq S \cup {x},
         x \in S => Cardinality(S) <= n, x \notin S => ~ (Cardinality(S) >= n)
  PROVE  IsFiniteSet(T) /\ Cardinality(T) <= n
<1>1. /\ IsFiniteSet(S \cup {x}) /\ Cardinality(S) \in Nat
      /\ Cardinality(S \cup {x}) = IF x \in S THEN Cardinality(S) ELSE Cardinality(S) + 1
  BY FS_AddElement, FS_CardinalityType
<1>2. IsFiniteSet(T) /\ Cardinality(T) <= Cardinality(S \cup {x})
  BY <1>1, FS_Subset
<1>3. Cardinality(T) \in Nat
  BY <1>2, FS_CardinalityType
<1> QED BY <1>1, <1>2, <1>3

\* Part of a set that is within a limit is.
LEMMA PartFits ==
  ASSUME NEW S, NEW T, NEW n \in Nat, IsFiniteSet(S), T \subseteq S, Cardinality(S) <= n
  PROVE  IsFiniteSet(T) /\ Cardinality(T) <= n
<1>1. IsFiniteSet(T) /\ Cardinality(T) <= Cardinality(S)
  BY FS_Subset
<1>2. Cardinality(T) \in Nat /\ Cardinality(S) \in Nat
  BY <1>1, FS_CardinalityType
<1> QED BY <1>1, <1>2

\* Operations that store nothing may only add a namespace that was looked up,
\* which the limit on namespaces does not count.
LEMMA CountShrinks ==
  ASSUME CountInv, NEW t, NEW ns, DOMAIN stored' \subseteq DOMAIN stored,
         \A e \in namespaces' : e \in namespaces \/ (e = <<t, ns>> /\ ns \in ReadNamespaces)
  PROVE  CountInv'
<1> SUFFICES ASSUME NEW u \in Threads
             PROVE  /\ IsFiniteSet(KnownCheckpoints(u, {})')
                    /\ IsFiniteSet(KnownNamespaces(u, {})')
                    /\ Cardinality(KnownCheckpoints(u, {})') <= MaxCheckpoints
                    /\ Cardinality(KnownNamespaces(u, {})' \ ReadNamespaces) <= MaxNamespaces
  BY DEF CountInv, PerThreadLimits
<1>1. MaxCheckpoints \in Nat /\ MaxNamespaces \in Nat
  BY LimitsAssumption
<1>2. KnownCheckpoints(u, {})' \subseteq KnownCheckpoints(u, {})
  BY DEF KnownCheckpoints, Items
<1>3. KnownNamespaces(u, {})' \subseteq KnownNamespaces(u, {}) \cup ({ns} \cap ReadNamespaces)
  BY DEF KnownNamespaces, Items
<1>4. IsFiniteSet(KnownNamespaces(u, {}) \cup {ns})
  BY FS_AddElement DEF CountInv
<1>5. IsFiniteSet(KnownNamespaces(u, {})')
  BY <1>3, <1>4, FS_Subset
<1>6. KnownNamespaces(u, {})' \ ReadNamespaces \subseteq KnownNamespaces(u, {}) \ ReadNamespaces
  BY <1>3
<1>7. IsFiniteSet(KnownNamespaces(u, {}) \ ReadNamespaces)
  BY FS_Subset DEF CountInv
<1>8. Cardinality(KnownNamespaces(u, {})' \ ReadNamespaces) <= MaxNamespaces
  BY <1>1, <1>6, <1>7, PartFits DEF CountInv, PerThreadLimits
<1>9. /\ IsFiniteSet(KnownCheckpoints(u, {})')
      /\ Cardinality(KnownCheckpoints(u, {})') <= MaxCheckpoints
  BY <1>1, <1>2, PartFits DEF CountInv, PerThreadLimits
<1> QED BY <1>5, <1>8, <1>9

\* put and put_writes add one checkpoint and one namespace to what is left of
\* their thread, having looked whether there is room.
LEMMA CountStores ==
  ASSUME CountInv, NEW t \in Threads, NEW ns, NEW id, Admitted(t, ns, id),
         \A k \in DOMAIN stored' :
            \/ k \in DOMAIN stored /\ k.thread \notin GoneFor(t)
            \/ k.thread = t /\ k.kind = "blob"
            \/ k.thread = t /\ k.ns = ns /\ k.id = id,
         \A e \in namespaces' : (e \in namespaces /\ e[1] \notin GoneFor(t)) \/ e = <<t, ns>>
  PROVE  CountInv'
<1> SUFFICES ASSUME NEW u \in Threads
             PROVE  /\ IsFiniteSet(KnownCheckpoints(u, {})')
                    /\ IsFiniteSet(KnownNamespaces(u, {})')
                    /\ Cardinality(KnownCheckpoints(u, {})') <= MaxCheckpoints
                    /\ Cardinality(KnownNamespaces(u, {})' \ ReadNamespaces) <= MaxNamespaces
  BY DEF CountInv, PerThreadLimits
<1>1. MaxCheckpoints \in Nat \ {0} /\ MaxNamespaces \in Nat \ {0}
  BY LimitsAssumption
<1>2. CASE u # t
  <2>1. KnownCheckpoints(u, {})' \subseteq KnownCheckpoints(u, {})
    BY <1>2 DEF KnownCheckpoints, Items
  <2>2. KnownNamespaces(u, {})' \subseteq KnownNamespaces(u, {})
    BY <1>2 DEF KnownNamespaces, Items
  <2>3. IsFiniteSet(KnownNamespaces(u, {})')
    BY <2>2, FS_Subset DEF CountInv
  <2>4. KnownNamespaces(u, {})' \ ReadNamespaces \subseteq KnownNamespaces(u, {}) \ ReadNamespaces
    BY <2>2
  <2>5. IsFiniteSet(KnownNamespaces(u, {}) \ ReadNamespaces)
    BY FS_Subset DEF CountInv
  <2>6. Cardinality(KnownNamespaces(u, {})' \ ReadNamespaces) <= MaxNamespaces
    BY <1>1, <2>4, <2>5, PartFits DEF CountInv, PerThreadLimits
  <2>7. /\ IsFiniteSet(KnownCheckpoints(u, {})')
        /\ Cardinality(KnownCheckpoints(u, {})') <= MaxCheckpoints
    BY <1>1, <2>1, PartFits DEF CountInv, PerThreadLimits
  <2> QED BY <2>3, <2>6, <2>7
<1>3. CASE u = t
  <2> DEFINE checkpoints == KnownCheckpoints(t, GoneFor(t))
             spaces == KnownNamespaces(t, GoneFor(t))
  <2>1. checkpoints \subseteq KnownCheckpoints(t, {}) /\ spaces \subseteq KnownNamespaces(t, {})
    BY DEF KnownCheckpoints, KnownNamespaces, Items
  <2>2. KnownCheckpoints(t, {})' \subseteq checkpoints \cup {<<ns, id>>}
    BY DEF KnownCheckpoints, Items
  <2>3. KnownNamespaces(t, {})' \subseteq spaces \cup {ns}
    BY DEF KnownNamespaces, Items
  <2>4. /\ <<ns, id>> \notin checkpoints => ~ (Cardinality(checkpoints) >= MaxCheckpoints)
        /\ ns \notin spaces => ~ (Cardinality(spaces) >= MaxNamespaces)
    BY DEF Admitted, CheckpointsFull, NamespacesFull
  <2> HIDE DEF checkpoints, spaces
  <2>5. IsFiniteSet(checkpoints) /\ Cardinality(checkpoints) <= MaxCheckpoints
    BY <1>1, <2>1, PartFits DEF CountInv, PerThreadLimits
  <2>6. /\ IsFiniteSet(KnownCheckpoints(t, {})')
        /\ Cardinality(KnownCheckpoints(t, {})') <= MaxCheckpoints
    BY <1>1, <2>2, <2>4, <2>5, OneMoreFits
  <2>7. IsFiniteSet(spaces) /\ IsFiniteSet(spaces \cup {ns})
    BY <2>1, FS_Subset, FS_AddElement DEF CountInv
  <2>8. IsFiniteSet(KnownNamespaces(t, {})')
    BY <2>3, <2>7, FS_Subset
  <2>9. CASE ns \in spaces
    <3>1. KnownNamespaces(t, {})' \ ReadNamespaces \subseteq KnownNamespaces(t, {}) \ ReadNamespaces
      BY <2>1, <2>3, <2>9
    <3>2. IsFiniteSet(KnownNamespaces(t, {}) \ ReadNamespaces)
      BY FS_Subset DEF CountInv
    <3>3. Cardinality(KnownNamespaces(t, {})' \ ReadNamespaces) <= MaxNamespaces
      BY <1>1, <3>1, <3>2, PartFits DEF CountInv, PerThreadLimits
    <3> QED BY <1>3, <2>6, <2>8, <3>3
  <2>10. CASE ns \notin spaces
    <3>1. KnownNamespaces(t, {})' \ ReadNamespaces \subseteq spaces \cup {ns}
      BY <2>3
    <3>2. Cardinality(KnownNamespaces(t, {})' \ ReadNamespaces) <= MaxNamespaces
      BY <1>1, <2>4, <2>7, <2>10, <3>1, OneMoreFits
    <3> QED BY <1>3, <2>6, <2>8, <3>2
  <2> QED BY <2>9, <2>10
<1> QED BY <1>2, <1>3

\* Every action keeps what a thread has countable and within its limits.
LEMMA CountInvStep == CountInv /\ [SaverNext]_saverVars => CountInv'
<1> SUFFICES ASSUME CountInv, [SaverNext]_saverVars PROVE CountInv'
  OBVIOUS
<1>1. ASSUME NEW gone, UpstreamWithout(gone) PROVE CountInv'
  <2>1. DOMAIN stored' \subseteq DOMAIN stored /\ namespaces' \subseteq namespaces
    BY <1>1 DEF UpstreamWithout, Without
  <2> QED BY <2>1, CountShrinks
<1>2. ASSUME UNCHANGED <<stored, namespaces>> PROVE CountInv'
  BY <1>2, CountShrinks
<1>3. CASE PurgeOnly
  BY <1>1, <1>3 DEF PurgeOnly, Drop
<1>4. ASSUME NEW t, PurgeAndTouch(t) PROVE CountInv'
  BY <1>1, <1>4 DEF PurgeAndTouch
<1>5. ASSUME NEW t, NEW ns, NEW id, NEW need, NEW limit,
             \/ TooLarge(t, need, limit)
             \/ OverLimit(t, ns, id, need)
             \/ OverBudget(t, ns, id, need)
      PROVE  CountInv'
  <2>1. CASE TooLarge(t, need, limit)
    BY <1>2, <2>1 DEF TooLarge
  <2>2. CASE OverLimit(t, ns, id, need)
    BY <1>1, <2>2 DEF OverLimit, Drop
  <2>3. CASE OverBudget(t, ns, id, need)
    BY <1>1, <2>3 DEF OverBudget, Drop
  <2> QED BY <1>5, <2>1, <2>2, <2>3
<1>6. ASSUME NEW t \in Threads, NEW ns \in Namespaces, NEW id \in Ids,
             NEW p \in Puts, PutStored(t, ns, id, p)
      PROVE  CountInv'
  <2> DEFINE gone == GoneForBytes(t, EstimatedSize(p))
             key == Item("checkpoint", t, ns, id, NoSlot)
             blobs == BlobKeys(t, ns, p)
             left == Without(stored, gone)
  <2>1. UpstreamPut(t, ns, id, p, gone) /\ Admitted(t, ns, id)
    BY <1>6 DEF PutStored, HasRoom
  <2>2. GoneFor(t) \subseteq gone
    BY DEF GoneForBytes
  <2>3. DOMAIN stored' = DOMAIN left \cup {key} \cup blobs
    BY <2>1 DEF UpstreamPut
  <2>4. \A k \in DOMAIN left : k \in DOMAIN stored /\ k.thread \notin gone
    BY DEF Without
  <2>5. \A k \in blobs : k.thread = t /\ k.kind = "blob"
    BY DEF BlobKeys, Item
  <2>6. key.thread = t /\ key.ns = ns /\ key.id = id
    BY DEF Item
  <2>7. namespaces' = {e \in namespaces : e[1] \notin gone} \cup {<<t, ns>>}
    BY <2>1 DEF UpstreamPut
  <2> HIDE DEF gone, key, blobs, left
  <2>8. \A k \in DOMAIN stored' :
            \/ k \in DOMAIN stored /\ k.thread \notin GoneFor(t)
            \/ k.thread = t /\ k.kind = "blob"
            \/ k.thread = t /\ k.ns = ns /\ k.id = id
    BY <2>2, <2>3, <2>4, <2>5, <2>6
  <2>9. \A e \in namespaces' : (e \in namespaces /\ e[1] \notin GoneFor(t)) \/ e = <<t, ns>>
    BY <2>2, <2>7
  <2> QED BY <2>1, <2>8, <2>9, CountStores
<1>7. ASSUME NEW t \in Threads, NEW ns \in Namespaces, NEW id \in Ids,
             NEW b \in Batches, PutWritesStored(t, ns, id, b)
      PROVE  CountInv'
  <2> DEFINE gone == GoneForBytes(t, WriteSize(b))
             keys == {Item("write", t, ns, id, s) : s \in DOMAIN b.writes}
             left == Without(stored, gone)
  <2>1. UpstreamPutWrites(t, ns, id, b, gone) /\ Admitted(t, ns, id)
    BY <1>7 DEF PutWritesStored, HasRoom
  <2>2. GoneFor(t) \subseteq gone
    BY DEF GoneForBytes
  <2>3. DOMAIN stored' = DOMAIN left \cup keys
    BY <2>1 DEF UpstreamPutWrites
  <2>4. \A k \in DOMAIN left : k \in DOMAIN stored /\ k.thread \notin gone
    BY DEF Without
  <2>5. \A k \in keys : k.thread = t /\ k.ns = ns /\ k.id = id
    BY DEF Item
  <2>6. namespaces' = {e \in namespaces : e[1] \notin gone}
    BY <2>1 DEF UpstreamPutWrites
  <2> HIDE DEF gone, keys, left
  <2>7. \A k \in DOMAIN stored' :
            \/ k \in DOMAIN stored /\ k.thread \notin GoneFor(t)
            \/ k.thread = t /\ k.kind = "blob"
            \/ k.thread = t /\ k.ns = ns /\ k.id = id
    BY <2>2, <2>3, <2>4, <2>5
  <2>8. \A e \in namespaces' : (e \in namespaces /\ e[1] \notin GoneFor(t)) \/ e = <<t, ns>>
    BY <2>2, <2>6
  <2> QED BY <2>1, <2>7, <2>8, CountStores
<1>8. ASSUME NEW t \in Threads, NEW ns \in Namespaces, NEW id \in Ids,
             NEW p \in Puts, Put(t, ns, id, p)
      PROVE  CountInv'
  BY <1>5, <1>6, <1>8 DEF Put
<1>9. ASSUME NEW t \in Threads, NEW ns \in Namespaces, NEW id \in Ids,
             NEW b \in Batches, PutWrites(t, ns, id, b)
      PROVE  CountInv'
  BY <1>5, <1>7, <1>9 DEF PutWrites
<1>10. ASSUME NEW t \in Threads, NEW ns \in ReadNamespaces, NEW id, GetTuple(t, ns, id)
       PROVE  CountInv'
  <2>1. CASE Found(t, ns, id) /\ PurgeAndTouch(t)
    BY <1>4, <2>1
  <2>2. CASE ~ Found(t, ns, id)
    <3>1. /\ DOMAIN stored' \subseteq DOMAIN stored
          /\ \A e \in namespaces' : e \in namespaces \/ e = <<t, ns>>
      BY <1>10, <2>2 DEF GetTuple, Without
    <3> QED BY <3>1, CountShrinks
  <2> QED BY <1>10, <2>1, <2>2 DEF GetTuple
<1>11. ASSUME NEW t \in Threads, List(t) \/ DeltaHistory(t) \/ DeleteThread(t) PROVE CountInv'
  BY <1>1, <1>3, <1>4, <1>11 DEF List, DeltaHistory, DeleteThread, Drop
<1>12. CASE PurgeExpired \/ Stats
  BY <1>3, <1>12 DEF PurgeExpired, Stats
<1>13. CASE Clear
  <2>1. DOMAIN stored' = {} /\ namespaces' = {}
    BY <1>13 DEF Clear
  <2> QED BY <2>1, CountShrinks
<1>14. CASE Tick \/ UNCHANGED saverVars
  BY <1>2, <1>14 DEF Tick, saverVars
<1> QED BY <1>8, <1>9, <1>10, <1>11, <1>12, <1>13, <1>14 DEF SaverNext

\* A thread never has more than max_checkpoints_per_thread checkpoints, those
\* of pending writes alone included, nor more than max_namespaces_per_thread
\* namespaces beside those that were looked up, whatever is stored, replaced,
\* expired or evicted in between.
THEOREM ThreadsStayWithinLimits == SaverSpec => []PerThreadLimits
<1>1. SaverInit => CountInv
  <2> SUFFICES ASSUME SaverInit PROVE CountInv
    OBVIOUS
  <2>1. DOMAIN stored = {} /\ namespaces = {}
    BY DEF SaverInit
  <2>2. \A t \in Threads : KnownCheckpoints(t, {}) = {} /\ KnownNamespaces(t, {}) = {}
    BY <2>1 DEF KnownCheckpoints, KnownNamespaces, Items
  <2> QED BY <2>2, FS_EmptySet, LimitsAssumption DEF CountInv, PerThreadLimits
<1>2. CountInv => PerThreadLimits
  BY DEF CountInv
<1> QED BY <1>1, <1>2, CountInvStep, PTL DEF SaverSpec
=============================================================================
