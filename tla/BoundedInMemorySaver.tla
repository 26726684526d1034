------------------------ MODULE BoundedInMemorySaver ------------------------
(***************************************************************************)
(* checkpoint/memory.py: the bounded in-memory checkpoint saver.           *)
(*                                                                         *)
(* Every public operation holds the saver's RLock from its purge of the    *)
(* expired threads to its last bookkeeping call, so each is one action,    *)
(* run by any event-loop task or worker thread.  What the saver keeps is   *)
(* abstracted to what its limits count: an item (a checkpoint with its     *)
(* metadata, a channel blob, or a pending write) is a key and the number   *)
(* of bytes of its serialized form.                                        *)
(*                                                                         *)
(* stored and namespaces are the dictionaries of the upstream saver        *)
(* (storage, blobs, writes); the other variables are this class's own      *)
(* bookkeeping, which has to follow them.                                  *)
(***************************************************************************)
EXTENDS Integers, FiniteSets, FiniteSums

CONSTANTS
  Threads,         \* thread identifiers
  Namespaces,      \* checkpoint namespaces
  ReadNamespaces,  \* the namespaces that lookups ask for
  Ids,             \* checkpoint ids, and channel versions
  Slots,           \* (task_id, index) pairs of a pending write
  SpecialSlots,    \* those with one of upstream's negative indexes
  NoSlot,          \* the slot of an item that is not a pending write
  Puts,            \* the checkpoints callers store, see IsPut
  Batches,         \* the batches of pending writes, see IsBatch
  EmptyBlobBytes,  \* the blob upstream stores for a channel without a value
  Ttl, MaxThreads, MaxNamespaces, MaxCheckpoints,
  MaxCheckpointBytes, MaxPendingWriteBytes, MaxTotalBytes,
  DeltaAnswersUnknown,  \* upstream answers delta history of unknown threads
  MaxClock,        \* bound on the clock
  None

\* InMemoryCheckpointConfig.__post_init__.
ASSUME LimitsAssumption ==
  /\ {Ttl, MaxThreads, MaxNamespaces, MaxCheckpoints, MaxCheckpointBytes,
      MaxPendingWriteBytes, MaxTotalBytes} \subseteq Nat \ {0}
  /\ MaxCheckpointBytes <= MaxTotalBytes
  /\ MaxPendingWriteBytes <= MaxTotalBytes

\* A checkpoint to store: the bytes of its body and metadata, the bytes of
\* each channel value with a new version, and the new versions of channels
\* that have no value.
IsPut(p) ==
  /\ p.body \in Nat
  /\ DOMAIN p.values \subseteq Ids /\ p.values \in [DOMAIN p.values -> Nat]
  /\ p.empties \subseteq Ids \ DOMAIN p.values
  /\ IsFiniteSet(DOMAIN p.values) /\ IsFiniteSet(p.empties)

\* A batch of pending writes of one task: the bytes of each value with its
\* channel name, of the task id and of the task path.
IsBatch(b) ==
  /\ DOMAIN b.writes \subseteq Slots /\ b.writes \in [DOMAIN b.writes -> Nat]
  /\ b.taskId \in Nat /\ b.path \in Nat /\ IsFiniteSet(DOMAIN b.writes)

ASSUME InputsAssumption ==
  /\ ReadNamespaces \subseteq Namespaces
  /\ SpecialSlots \subseteq Slots /\ NoSlot \notin Slots
  /\ \A p \in Puts : IsPut(p)
  /\ \A b \in Batches : IsBatch(b)
  /\ EmptyBlobBytes \in Nat /\ MaxClock \in Nat
  /\ DeltaAnswersUnknown \in BOOLEAN
  /\ None \notin Threads

VARIABLES
  stored,      \* storage, blobs and writes: item key -> serialized bytes
  namespaces,  \* the <<thread, namespace>> entries of storage, even if empty
  lastAccess,  \* _last_access: thread -> time of its last use
  lru,         \* order of _last_access: <<u, t>> when u comes before t
  sizes,       \* _sizes: item key -> the bytes accounted for it
  bytes,       \* _serialized_bytes
  clock,       \* _clock()
  reply        \* the last operation's outcome

saverVars == <<stored, namespaces, lastAccess, lru, sizes, bytes, clock, reply>>

Key ==
  [kind: {"checkpoint", "blob", "write"}, thread: Threads, ns: Namespaces,
   id: Ids, slot: Slots \cup {NoSlot}]

Results == {"none", "ok", "too_large", "namespaces", "checkpoints", "budget"}
NoReply == [thread |-> None, result |-> "none", need |-> 0]
Answer(t, result, need) == [thread |-> t, result |-> result, need |-> need]

Known == DOMAIN lastAccess

SaverTypeOK ==
  /\ DOMAIN stored \subseteq Key /\ stored \in [DOMAIN stored -> Nat]
  /\ namespaces \subseteq Threads \X Namespaces
  /\ Known \subseteq Threads /\ lastAccess \in [Known -> 0..MaxClock]
  /\ lru \subseteq Threads \X Threads
  /\ DOMAIN sizes \subseteq Key /\ sizes \in [DOMAIN sizes -> Nat]
  /\ clock \in 0..MaxClock
  /\ reply = Answer(reply.thread, reply.result, reply.need)
  /\ reply.thread \in Threads \cup {None} /\ reply.result \in Results

SaverInit ==
  /\ stored = [k \in {} |-> 0] /\ sizes = [k \in {} |-> 0] /\ bytes = 0
  /\ namespaces = {} /\ lastAccess = [t \in {} |-> 0] /\ lru = {}
  /\ clock = 0 /\ reply = NoReply

-----------------------------------------------------------------------------
(***************************************************************************)
(* What the threads of a set hold, and the state without them.             *)
(***************************************************************************)
Without(f, gone) == [k \in {k \in DOMAIN f : k.thread \notin gone} |-> f[k]]

BytesOf(threads) == SumOver(sizes, {k \in DOMAIN sizes : k.thread \in threads})

LruWithout(gone) == {e \in lru : e[1] \notin gone /\ e[2] \notin gone}

\* super().delete_thread, for every thread of a set.
UpstreamWithout(gone) ==
  /\ stored' = Without(stored, gone)
  /\ namespaces' = {e \in namespaces : e[1] \notin gone}

\* The bookkeeping of _delete_thread_locked, for every thread of a set.
Forgotten(gone) ==
  /\ lastAccess' = [t \in Known \ gone |-> lastAccess[t]]
  /\ lru' = LruWithout(gone)
  /\ sizes' = Without(sizes, gone)
  /\ bytes' = bytes - BytesOf(gone)

Drop(gone) == UpstreamWithout(gone) /\ Forgotten(gone)

\* Mutant: a touch keeps the thread's place in the order.
TouchInPlace(t, gone) ==
  /\ lastAccess' = [u \in (Known \ gone) \cup {t} |->
                      IF u = t THEN clock ELSE lastAccess[u]]
  /\ lru' = LruWithout(gone)
            \cup (IF t \in Known \ gone THEN {} ELSE (Known \ gone) \X {t})

\* Mutant: a thread that is not an entry of _last_access is not added.
TouchKnownOnly(t, gone) ==
  /\ lastAccess' = [u \in Known \ gone |-> IF u = t THEN clock ELSE lastAccess[u]]
  /\ lru' = LruWithout(gone)

\* Mutant: the entry is the time at which the thread expires.
TouchExpiry(t, gone) ==
  /\ lastAccess' = [u \in (Known \ gone) \cup {t} |->
                      IF u = t THEN clock + Ttl ELSE lastAccess[u]]
  /\ lru' = LruWithout(gone \cup {t}) \cup ((Known \ (gone \cup {t})) \X {t})

\* _touch_locked, after the threads of gone were deleted: t becomes the last
\* entry of _last_access.
Touch(t, gone) ==
  /\ lastAccess' = [u \in (Known \ gone) \cup {t} |->
                      IF u = t THEN clock ELSE lastAccess[u]]
  /\ lru' = LruWithout(gone \cup {t}) \cup ((Known \ (gone \cup {t})) \X {t})

-----------------------------------------------------------------------------
(***************************************************************************)
(* Which threads a purge and the two eviction loops delete.                *)
(***************************************************************************)

\* _purge_expired_locked.
Expired == {t \in Known : lastAccess[t] <= clock - Ttl}

\* Mutant: the loop stops one thread too late.
ThreadVictimsLate(t) ==
  LET live == Known \ Expired
      after(u) == {v \in live : <<u, v>> \in lru}
  IN  {u \in live : t \notin live /\ Cardinality(after(u)) >= MaxThreads}

\* _make_room_for_thread_locked: a thread the saver does not know evicts the
\* oldest others until there are fewer than MaxThreads.
ThreadVictims(t) ==
  LET live == Known \ Expired
      after(u) == {v \in live : <<u, v>> \in lru}
  IN  {u \in live : t \notin live /\ Cardinality(after(u)) >= MaxThreads - 1}

\* Mutant: the bytes about to be added are left out.
FitsAlready(need, gone) == bytes - BytesOf(gone) <= MaxTotalBytes

Fits(need, gone) == bytes - BytesOf(gone) + need <= MaxTotalBytes

\* Mutant: every other thread goes as soon as the budget is exceeded.
ByteVictimsAll(t, need, gone) ==
  {u \in Known \ (gone \cup {t}) : ~ Fits(need, gone)}

\* Mutant: the loop walks from the most recently used thread.
ByteVictimsNewest(t, need, gone) ==
  LET others == Known \ (gone \cup {t})
      newer(u) == {v \in others : <<u, v>> \in lru}
  IN  {u \in others : ~ Fits(need, gone \cup newer(u))}

\* _make_room_for_bytes_locked: another thread is evicted, in the order of
\* _last_access, as long as the budget is exceeded without those before it.
ByteVictims(t, need, gone) ==
  LET others == Known \ (gone \cup {t})
      older(u) == {v \in others : <<v, u>> \in lru}
  IN  {u \in others : \A v \in older(u) \cup {u} : ~ Fits(need, gone \cup older(v))}

\* The threads gone when _make_room_for_thread_locked returns.
GoneFor(t) == Expired \cup ThreadVictims(t)

-----------------------------------------------------------------------------
(***************************************************************************)
(* The per-thread limits, on what is left once the threads of gone are     *)
(* deleted.                                                                *)
(***************************************************************************)
Items(t, gone) == {k \in DOMAIN stored : k.thread = t /\ t \notin gone}

\* _known_namespaces_locked: entries of storage and namespaces of writes.
KnownNamespaces(t, gone) ==
  {e[2] : e \in {e \in namespaces : e[1] = t /\ t \notin gone}}
  \cup {k.ns : k \in {k \in Items(t, gone) : k.kind = "write"}}

\* _known_checkpoints_locked: from storage and from writes.
KnownCheckpoints(t, gone) ==
  {<<k.ns, k.id>> :
     k \in {k \in Items(t, gone) : k.kind \in {"checkpoint", "write"}}}

NamespacesFull(t, ns, gone) ==
  /\ ns \notin KnownNamespaces(t, gone)
  /\ Cardinality(KnownNamespaces(t, gone)) >= MaxNamespaces

\* Mutant: checkpoints that exist only as pending writes do not count.
CheckpointsFullStorageOnly(t, ns, id, gone) ==
  LET known == {<<k.ns, k.id>> :
                  k \in {k \in Items(t, gone) : k.kind = "checkpoint"}}
  IN  <<ns, id>> \notin known /\ Cardinality(known) >= MaxCheckpoints

CheckpointsFull(t, ns, id, gone) ==
  /\ <<ns, id>> \notin KnownCheckpoints(t, gone)
  /\ Cardinality(KnownCheckpoints(t, gone)) >= MaxCheckpoints

-----------------------------------------------------------------------------
(***************************************************************************)
(* put and put_writes: the outcomes they share.                            *)
(***************************************************************************)

\* The size check comes first and, alone of all checks, before the purge.
TooLarge(t, need, limit) ==
  /\ need > limit
  /\ reply' = Answer(t, "too_large", need)
  /\ UNCHANGED <<stored, namespaces, lastAccess, lru, sizes, bytes, clock>>

\* The namespace limit is checked before the checkpoint limit; the purge and
\* the evictions made for a new thread are kept.
OverLimit(t, ns, id, need) ==
  /\ \/ /\ NamespacesFull(t, ns, GoneFor(t))
        /\ reply' = Answer(t, "namespaces", need)
     \/ /\ ~ NamespacesFull(t, ns, GoneFor(t))
        /\ CheckpointsFull(t, ns, id, GoneFor(t))
        /\ reply' = Answer(t, "checkpoints", need)
  /\ Drop(GoneFor(t))
  /\ UNCHANGED clock

Admitted(t, ns, id) ==
  ~ NamespacesFull(t, ns, GoneFor(t)) /\ ~ CheckpointsFull(t, ns, id, GoneFor(t))

\* Mutant: the error is raised before the other threads are evicted.
OverBudgetAtOnce(t, ns, id, need) ==
  /\ Admitted(t, ns, id)
  /\ ~ Fits(need, GoneFor(t))
  /\ reply' = Answer(t, "budget", need)
  /\ Drop(GoneFor(t))
  /\ UNCHANGED clock

\* Mutant: the eviction loop does not spare the protected thread.
OverBudgetUnprotected(t, ns, id, need) ==
  /\ Admitted(t, ns, id)
  /\ ~ Fits(need, GoneFor(t) \cup (Known \ {t}))
  /\ reply' = Answer(t, "budget", need)
  /\ Drop(Known)
  /\ UNCHANGED clock

\* Even without every other thread the budget is exceeded: the error leaves
\* them all evicted.
OverBudget(t, ns, id, need) ==
  LET gone == GoneFor(t) \cup (Known \ {t})
  IN  /\ Admitted(t, ns, id)
      /\ ~ Fits(need, gone)
      /\ reply' = Answer(t, "budget", need)
      /\ Drop(gone)
      /\ UNCHANGED clock

\* The threads gone when _make_room_for_bytes_locked returns normally.
GoneForBytes(t, need) == GoneFor(t) \cup ByteVictims(t, need, GoneFor(t))

HasRoom(t, ns, id, need) ==
  /\ Admitted(t, ns, id)
  /\ Fits(need, GoneFor(t) \cup (Known \ {t}))

\* Mutant: what was accounted before for a replaced item is not subtracted.
RecordAdding(keys, gone) ==
  LET left == Without(sizes, gone)
  IN  /\ sizes' = [k \in DOMAIN left \cup keys |->
                     IF k \in keys THEN stored'[k] ELSE left[k]]
      /\ bytes' = bytes - BytesOf(gone)
                  + SumOver(stored', keys)

\* _set_size_locked for every key of a set, on top of the deletions: the
\* counter moves by the difference with what was accounted before.
Record(keys, gone) ==
  LET left == Without(sizes, gone)
      previous(k) == IF k \in DOMAIN left THEN left[k] ELSE 0
  IN  /\ sizes' = [k \in DOMAIN left \cup keys |->
                     IF k \in keys THEN stored'[k] ELSE left[k]]
      /\ bytes' = bytes - BytesOf(gone)
                  + SumOver([k \in keys |-> stored'[k] - previous(k)], keys)

-----------------------------------------------------------------------------
(***************************************************************************)
(* put                                                                     *)
(***************************************************************************)
Item(kind, t, ns, id, slot) ==
  [kind |-> kind, thread |-> t, ns |-> ns, id |-> id, slot |-> slot]

\* _estimate_checkpoint_size: channels without a value are not counted.
EstimatedSize(p) == p.body + Total(p.values)

BlobKeys(t, ns, p) ==
  {Item("blob", t, ns, v, NoSlot) : v \in DOMAIN p.values \cup p.empties}

\* InMemorySaver.put, upstream: a blob for every new version, an empty one
\* where the channel has no value.
UpstreamPut(t, ns, id, p, gone) ==
  LET left == Without(stored, gone)
      key == Item("checkpoint", t, ns, id, NoSlot)
      blobs == BlobKeys(t, ns, p)
  IN  /\ stored' = [k \in DOMAIN left \cup {key} \cup blobs |->
                      IF k = key THEN p.body
                      ELSE IF k \in blobs
                        THEN IF k.id \in p.empties THEN EmptyBlobBytes
                                                   ELSE p.values[k.id]
                      ELSE left[k]]
      /\ namespaces' = {e \in namespaces : e[1] \notin gone} \cup {<<t, ns>>}

\* Mutant: only the checkpoint is recorded, not its blobs.
CheckpointKeysOnly(t, ns, id, p) == {Item("checkpoint", t, ns, id, NoSlot)}

\* The keys _record_checkpoint_sizes_locked sets.
CheckpointKeys(t, ns, id, p) ==
  {Item("checkpoint", t, ns, id, NoSlot)} \cup BlobKeys(t, ns, p)

PutStored(t, ns, id, p) ==
  LET need == EstimatedSize(p)
      gone == GoneForBytes(t, need)
  IN  /\ need <= MaxCheckpointBytes
      /\ HasRoom(t, ns, id, need)
      /\ UpstreamPut(t, ns, id, p, gone)
      /\ Record(CheckpointKeys(t, ns, id, p), gone)
      /\ Touch(t, gone)
      /\ reply' = Answer(t, "ok", need)
      /\ UNCHANGED clock

Put(t, ns, id, p) ==
  \/ TooLarge(t, EstimatedSize(p), MaxCheckpointBytes)
  \/ EstimatedSize(p) <= MaxCheckpointBytes /\ OverLimit(t, ns, id, EstimatedSize(p))
  \/ EstimatedSize(p) <= MaxCheckpointBytes /\ OverBudget(t, ns, id, EstimatedSize(p))
  \/ PutStored(t, ns, id, p)

-----------------------------------------------------------------------------
(***************************************************************************)
(* put_writes                                                              *)
(***************************************************************************)

\* The task path is counted once for the whole batch.
WriteSize(b) == Total(b.writes) + b.taskId + b.path

\* InMemorySaver.put_writes, upstream: a slot that is taken keeps its write
\* unless it is special.  Each stored write carries its task path.
UpstreamPutWrites(t, ns, id, b, gone) ==
  LET left == Without(stored, gone)
      keys == {Item("write", t, ns, id, s) : s \in DOMAIN b.writes}
      taken == {k \in keys : k \in DOMAIN left /\ k.slot \notin SpecialSlots}
  IN  /\ stored' = [k \in DOMAIN left \cup keys |->
                      IF k \in keys \ taken THEN b.writes[k.slot] + b.path
                                            ELSE left[k]]
      /\ namespaces' = {e \in namespaces : e[1] \notin gone}

\* The keys _record_write_sizes_locked sets: all writes of the checkpoint.
WriteKeys(t, ns, id) ==
  {k \in DOMAIN stored' :
     k.kind = "write" /\ k.thread = t /\ k.ns = ns /\ k.id = id}

PutWritesStored(t, ns, id, b) ==
  LET need == WriteSize(b)
      gone == GoneForBytes(t, need)
  IN  /\ need <= MaxPendingWriteBytes
      /\ HasRoom(t, ns, id, need)
      /\ UpstreamPutWrites(t, ns, id, b, gone)
      /\ Record(WriteKeys(t, ns, id), gone)
      /\ Touch(t, gone)
      /\ reply' = Answer(t, "ok", need)
      /\ UNCHANGED clock

PutWrites(t, ns, id, b) ==
  \/ TooLarge(t, WriteSize(b), MaxPendingWriteBytes)
  \/ WriteSize(b) <= MaxPendingWriteBytes /\ OverLimit(t, ns, id, WriteSize(b))
  \/ WriteSize(b) <= MaxPendingWriteBytes /\ OverBudget(t, ns, id, WriteSize(b))
  \/ PutWritesStored(t, ns, id, b)

-----------------------------------------------------------------------------
(***************************************************************************)
(* The other operations.                                                   *)
(***************************************************************************)
InStorage(t, gone) == t \notin gone /\ \E e \in namespaces : e[1] = t

\* A purge and nothing else.
PurgeOnly == Drop(Expired) /\ UNCHANGED clock /\ reply' = NoReply

\* A purge and then a touch.
PurgeAndTouch(t) ==
  /\ UpstreamWithout(Expired)
  /\ Record({}, Expired)
  /\ Touch(t, Expired)
  /\ UNCHANGED clock /\ reply' = NoReply

\* The checkpoints a lookup may return: the latest of the namespace, or the
\* one that is named.
Found(t, ns, id) ==
  \E k \in Items(t, Expired) :
     k.kind = "checkpoint" /\ k.ns = ns /\ id \in {None, k.id}

\* get_tuple touches the thread only when it returns a checkpoint.  Upstream
\* reads a defaultdict: a lookup in a thread of storage that finds nothing
\* leaves an entry for the namespace.
GetTuple(t, ns, id) ==
  \/ Found(t, ns, id) /\ PurgeAndTouch(t)
  \/ /\ ~ Found(t, ns, id)
     /\ stored' = Without(stored, Expired)
     /\ namespaces' = {e \in namespaces : e[1] \notin Expired}
                      \cup {e \in {<<t, ns>>} : InStorage(t, Expired)}
     /\ Forgotten(Expired)
     /\ UNCHANGED clock /\ reply' = NoReply

\* list: the filters may leave no item of a thread that has some.
List(t) ==
  \/ PurgeOnly
  \/ (\E ns \in Namespaces : Found(t, ns, None)) /\ PurgeAndTouch(t)

\* get_delta_channel_history, the one read that does not look whether the
\* thread is in storage first.
DeltaHistory(t) ==
  \/ PurgeOnly
  \/ (InStorage(t, Expired) \/ DeltaAnswersUnknown) /\ PurgeAndTouch(t)

\* delete_thread does not purge.
DeleteThread(t) == Drop({t}) /\ UNCHANGED clock /\ reply' = NoReply

PurgeExpired == PurgeOnly

Stats == PurgeOnly

Clear ==
  /\ stored' = [k \in {} |-> 0] /\ sizes' = [k \in {} |-> 0] /\ bytes' = 0
  /\ namespaces' = {} /\ lastAccess' = [t \in {} |-> 0] /\ lru' = {}
  /\ UNCHANGED clock /\ reply' = NoReply

Tick ==
  /\ clock < MaxClock
  /\ clock' = clock + 1
  /\ reply' = NoReply
  /\ UNCHANGED <<stored, namespaces, lastAccess, lru, sizes, bytes>>

SaverNext ==
  \/ \E t \in Threads, ns \in Namespaces, id \in Ids :
        \/ \E p \in Puts : Put(t, ns, id, p)
        \/ \E b \in Batches : PutWrites(t, ns, id, b)
  \/ \E t \in Threads, ns \in ReadNamespaces, id \in Ids \cup {None} :
        GetTuple(t, ns, id)
  \/ \E t \in Threads : List(t) \/ DeltaHistory(t) \/ DeleteThread(t)
  \/ PurgeExpired
  \/ Stats
  \/ Clear
  \/ Tick

SaverSpec == SaverInit /\ [][SaverNext]_saverVars

-----------------------------------------------------------------------------
(***************************************************************************)
(* Properties                                                              *)
(***************************************************************************)

\* The bookkeeping follows the upstream dictionaries: _sizes has exactly the
\* items that are stored, each with its real size.
SizesAreExact == sizes = stored

\* _serialized_bytes, only ever changed by differences, is the sum of _sizes.
CounterIsSum == bytes = Total(sizes)

\* Whatever is stored belongs to a thread of _last_access, so that expiry
\* and eviction can still reach it: no operation strands an item.
NoOrphans ==
  /\ \A k \in DOMAIN stored : k.thread \in Known
  /\ \A e \in namespaces : e[1] \in Known

\* _last_access is ordered by last use: a strict total order of the known
\* threads that never contradicts their times, which is what makes its first
\* entry the least recently used thread.
LruIsOrder ==
  /\ \A e \in lru : e[1] \in Known /\ e[2] \in Known /\ e[1] # e[2]
  /\ \A u, v \in Known : u # v => (<<u, v>> \in lru <=> <<v, u>> \notin lru)
  /\ \A u, v, w \in Known :
        <<u, v>> \in lru /\ <<v, w>> \in lru => <<u, w>> \in lru
  /\ \A e \in lru : lastAccess[e[1]] <= lastAccess[e[2]]

\* There are never more than max_threads threads.
ThreadLimit == Cardinality(Known) <= MaxThreads

\* A thread never has more than max_checkpoints_per_thread checkpoints, those
\* that exist only as pending writes included, and exceeds
\* max_namespaces_per_thread only by namespaces that were looked up: the
\* entries put and put_writes add stay within the limit.
PerThreadLimits ==
  \A t \in Threads :
     /\ Cardinality(KnownCheckpoints(t, {})) <= MaxCheckpoints
     /\ Cardinality(KnownNamespaces(t, {}) \ ReadNamespaces) <= MaxNamespaces

\* The accounted bytes never exceed max_total_bytes.
WithinByteBudget == bytes <= MaxTotalBytes

\* What is recorded for an input beyond what was estimated for it.
Overshoots ==
  {Cardinality(p.empties) * EmptyBlobBytes : p \in Puts}
  \cup {Cardinality(DOMAIN b.writes) * b.path - b.path - b.taskId : b \in Batches}

\* The accounted bytes exceed the budget by at most what one operation
\* stores beyond its estimate: excesses do not add up.
ByteBudgetWithOvershoot == \E o \in Overshoots \cup {0} : bytes <= MaxTotalBytes + o

\* A budget error is raised only when the thread alone does not leave room
\* for the operation, even though other threads were evicted first.
RejectsOnlyIfNecessary ==
  reply.result = "budget"
    => Total(Without(stored, Threads \ {reply.thread})) + reply.need > MaxTotalBytes

ThreadItems(t) == Without(stored, Threads \ {t})

Refusals == {"too_large", "namespaces", "checkpoints", "budget"}

\* A capacity error leaves the thread it protects unchanged, unless that
\* thread was idle past its TTL and purged.
RejectionKeepsThread ==
  [][\A t \in Threads \ Expired :
        reply'.result \in Refusals /\ reply'.thread = t
          => ThreadItems(t)' = ThreadItems(t)]_saverVars

\* Apart from the expired threads, put and put_writes delete threads in the
\* order of last use, sparing the one they write to.
EvictsLeastRecentlyUsed ==
  [][reply'.result # "none" =>
       LET t == reply'.thread
           evicted == Known \ (Known' \cup Expired)
       IN  /\ t \notin evicted
           /\ \A u \in evicted, v \in Known' \ {t} : <<u, v>> \in lru]_saverVars

\* A successful operation evicts no more than it needs: the thread evicted
\* last was one too many for the thread limit or for the byte budget.
EvictsNoMoreThanNeeded ==
  [][reply'.result = "ok" =>
       LET t == reply'.thread
           evicted == Known \ (Known' \cup Expired)
       IN  \A u \in evicted :
             (\A v \in evicted : v = u \/ <<v, u>> \in lru) =>
                \/ Cardinality((Known' \ {t}) \cup {u}) >= MaxThreads
                \/ ~ Fits(reply'.need, Expired \cup (evicted \ {u}))]_saverVars
=============================================================================
