-------------------------- MODULE ThreadStoreProofs --------------------------
(***************************************************************************)
(* Proofs about ThreadStore, for any threads, assistants, limit and ttl.   *)
(* That it implements ThreadRecords does not depend on the order of use,   *)
(* since callers may lose any record; its limit and what it drops do.      *)
(***************************************************************************)
EXTENDS ThreadStore, FiniteSetTheorems, WellFoundedInduction, TLAPS

StoreInv ==
  /\ entries \in [Threads -> Entry \cup {Absent}]
  /\ call \in Call \cup {NoCall}
  /\ WritesWhatItFound

-----------------------------------------------------------------------------
\* Initially nobody is at work.
LEMMA StoreInvInit == StoreInit => StoreInv
BY DEF StoreInit, StoreInv, WritesWhatItFound

\* What a lookup of put_thread leaves to be written.
LEMMA PutReadsInv ==
  ASSUME StoreInv, NEW t \in Threads, NEW status \in Statuses, PutReads(t, status)
  PROVE  StoreInv'
<1>1. Owner(t) \in Owners
  BY DEF StoreInv, Owner, Alive, Owners, Entry
<1>2. call' \in Call /\ entries' \in [Threads -> Entry \cup {Absent}]
  BY <1>1 DEF PutReads, StoreInv, Call, Alive
<1>3. WritesWhatItFound'
  <2>1. CASE Alive(t)
    BY <2>1 DEF PutReads, WritesWhatItFound, Owner, Alive
  <2>2. CASE ~ Alive(t)
    BY <2>2 DEF PutReads, WritesWhatItFound, Owner, Alive
  <2> QED BY <2>1, <2>2
<1> QED BY <1>2, <1>3 DEF StoreInv

\* Time takes nothing from a record but its life.
LEMMA TickEntries ==
  ASSUME StoreInv, Tick
  PROVE  /\ entries' \in [Threads -> Entry \cup {Absent}]
         /\ \A t \in Threads : entries[t] = Absent <=> entries'[t] = Absent
         /\ \A t \in Threads : entries[t] # Absent =>
              /\ entries'[t].owner = entries[t].owner
              /\ entries'[t].status = entries[t].status
         /\ \A t \in Threads : Alive(t)' => Alive(t)
<1>1. \A t \in Threads : entries[t] # Absent =>
        /\ entries[t] \in Entry /\ Older(entries[t]) \in Entry
        /\ Older(entries[t]).owner = entries[t].owner
        /\ Older(entries[t]).status = entries[t].status
        /\ Older(entries[t]).left > 0 => entries[t].left > 0
  BY LimitsAssumption DEF StoreInv, Entry, Older
<1>2. \A t \in Threads :
        entries'[t] = IF entries[t] = Absent THEN Absent ELSE Older(entries[t])
  BY DEF Tick
<1> QED BY <1>1, <1>2, AbsentAssumption DEF Tick, Alive

\* Every step preserves the invariant.
LEMMA StoreInvNext == StoreInv /\ [StoreNext]_storeVars => StoreInv'
<1> SUFFICES ASSUME StoreInv, [StoreNext]_storeVars PROVE StoreInv'
  OBVIOUS
<1>1. ASSUME NEW t \in Threads, Get(t) PROVE StoreInv'
  BY <1>1 DEF StoreInv, Get, WritesWhatItFound, Alive
<1>2. ASSUME NEW t \in Threads, DeleteThread(t) PROVE StoreInv'
  BY <1>2 DEF StoreInv, DeleteThread, WritesWhatItFound
<1>3. ASSUME NEW t \in Threads, NEW status \in Statuses, SetStatusReads(t, status)
      PROVE  StoreInv'
  BY <1>3 DEF StoreInv, SetStatusReads, WritesWhatItFound, Call, Owners
<1>4. ASSUME NEW t \in Threads, NEW status \in Statuses, PutThread(t, status)
      PROVE  StoreInv'
  BY <1>4, PutReadsInv DEF PutThread
<1>5. ASSUME NEW t \in Threads, NEW a \in Assistants, ClaimAssistant(t, a)
      PROVE  StoreInv'
  <2>1. entries[t] \in Entry
    BY <1>5 DEF ClaimAssistant, Alive, StoreInv
  <2>2. entries' \in [Threads -> Entry \cup {Absent}] /\ entries'[t] \in Entry
        /\ entries'[t].owner = a
    BY <1>5, <2>1 DEF ClaimAssistant, StoreInv, Entry, Owners
  <2>3. call' \in Call
    BY <1>5, <2>1 DEF ClaimAssistant, Call, Entry, Owners
  <2>4. WritesWhatItFound'
    BY <1>5, <2>2, AbsentAssumption DEF ClaimAssistant, WritesWhatItFound
  <2> QED BY <2>2, <2>3, <2>4 DEF StoreInv
<1>6. CASE SetStatusPuts
  <2>1. CASE PutReads(call.thread, call.status)
    BY <1>6, <2>1, PutReadsInv DEF SetStatusPuts, StoreInv, Call
  <2>2. CASE call' = NoCall /\ UNCHANGED <<entries, order>>
    BY <2>2 DEF StoreInv, WritesWhatItFound
  <2> QED BY <1>6, <2>1, <2>2 DEF SetStatusPuts
<1>7. CASE Writes
  <2>1. call \in Call
    BY <1>7 DEF Writes, StoreInv
  <2>2. [status |-> call.status, owner |-> call.owner, left |-> Ttl] \in Entry
    BY <2>1, LimitsAssumption DEF Call, Entry
  <2> QED BY <1>7, <2>1, <2>2 DEF Writes, Insert, StoreInv, WritesWhatItFound
<1>8. CASE Tick
  <2>1. call \in Call => call.thread \in Threads
    BY DEF Call
  <2> QED BY <1>8, <2>1, TickEntries DEF Tick, StoreInv, WritesWhatItFound
<1>9. CASE UNCHANGED storeVars
  BY <1>9 DEF storeVars, StoreInv, WritesWhatItFound, Alive
<1> QED BY <1>1, <1>2, <1>3, <1>4, <1>5, <1>6, <1>7, <1>8, <1>9 DEF StoreNext

\* What a call is about to write agrees with the record it found, for every
\* number of threads and every limit.
THEOREM StoreWritesWhatItFound == StoreSpec => []WritesWhatItFound
<1>1. StoreInv => WritesWhatItFound
  BY DEF StoreInv
<1> QED BY <1>1, StoreInvInit, StoreInvNext, PTL DEF StoreSpec

-----------------------------------------------------------------------------
\* What callers see of a record the store holds.
Seen(t) == [status |-> entries[t].status, owner |-> entries[t].owner]

\* A call keeps t in sight.
Kept(t) ==
  /\ entries[t] # Absent /\ call # NoCall
  /\ call.op # "status" /\ call.thread = t /\ call.found

\* The records are functions of the threads.
LEMMA RecordsAre ==
  /\ records = [t \in Threads |-> IF Alive(t) \/ Kept(t) THEN Seen(t) ELSE Absent]
  /\ records' = [t \in Threads |->
                   IF Alive(t)' \/ Kept(t)' THEN Seen(t)' ELSE Absent]
BY DEF records, Kept, Seen, Alive

\* A record that is seen is a record.
LEMMA SeenType ==
  ASSUME StoreInv, NEW t \in Threads, entries[t] # Absent
  PROVE  Seen(t) \in Records!StoredThread /\ Seen(t) # Absent
<1>1. entries[t] \in Entry
  BY DEF StoreInv
<1>2. Seen(t) \in [status: Statuses, owner: Owners]
  BY <1>1 DEF Seen, Entry
<1> QED BY <1>2, AbsentRecordAssumption DEF Records!StoredThread, Statuses, Owners

\* So all that callers see are records.
LEMMA RecordsType ==
  StoreInv => records \in [Threads -> Records!StoredThread \cup {Absent}]
<1> SUFFICES ASSUME StoreInv
             PROVE  records \in [Threads -> Records!StoredThread \cup {Absent}]
  OBVIOUS
<1>1. \A t \in Threads : Alive(t) \/ Kept(t) => Seen(t) \in Records!StoredThread
  BY SeenType DEF Alive, Kept
<1> QED BY <1>1, RecordsAre

\* Calls that only look leave what callers see as it is.
LEMMA LooksKeepRecords ==
  ASSUME StoreInv, UNCHANGED entries,
         \A t \in Threads : Alive(t) \/ Kept(t) <=> Alive(t) \/ Kept(t)'
  PROVE  UNCHANGED records
<1>1. \A t \in Threads : (Alive(t)' <=> Alive(t)) /\ Seen(t)' = Seen(t)
  BY DEF Alive, Seen
<1> QED BY <1>1, RecordsAre

\* The lookup of a put keeps in sight what is alive.
LEMMA PutReadsKeepsRecords ==
  ASSUME StoreInv, NEW t \in Threads, NEW status \in Statuses, PutReads(t, status),
         call = NoCall \/ call.op = "status"
  PROVE  UNCHANGED records
<1>1. call' \in Call /\ call' # NoCall
  <2>1. Owner(t) \in Owners
    BY DEF StoreInv, Owner, Alive, Owners, Entry
  <2>2. call' \in Call
    BY <2>1 DEF PutReads, Call, Alive
  <2> QED BY <2>2, AbsentAssumption
<1>2. \A u \in Threads : ~ Kept(u) /\ (Kept(u)' => Alive(u))
  BY <1>1 DEF Kept, PutReads, Alive
<1> QED BY <1>2, LooksKeepRecords DEF PutReads

\* Every step of the store is one of the records, or leaves them alone.
LEMMA StoreSimulates ==
  ASSUME StoreInv, StoreInv', [StoreNext]_storeVars
  PROVE  [Records!RecordsNext]_records
<1> USE DEF Records!RecordsNext
<1>0. /\ records' \in [Threads -> Records!StoredThread \cup {Absent}]
      /\ records \in [Threads -> Records!StoredThread \cup {Absent}]
  <2>1. (StoreInv => records \in [Threads -> Records!StoredThread \cup {Absent}])'
    BY RecordsType, PTL
  <2> QED BY <2>1, RecordsType
<1>1. ASSUME NEW t \in Threads, Get(t) PROVE UNCHANGED records
  BY <1>1, LooksKeepRecords DEF Get, Kept
<1>2. ASSUME NEW t \in Threads, DeleteThread(t) PROVE Records!RecordsNext
  <2>1. \A u \in Threads : ~ Kept(u) /\ ~ Kept(u)'
    BY <1>2 DEF DeleteThread, Kept
  <2>2. \A u \in Threads \ {t} : (Alive(u)' <=> Alive(u)) /\ Seen(u)' = Seen(u)
    BY <1>2 DEF DeleteThread, Alive, Seen, StoreInv
  <2>3. ~ Alive(t)'
    BY <1>2 DEF DeleteThread, Alive, StoreInv
  <2>4. records'[t] = Absent /\ \A u \in Threads \ {t} : records'[u] = records[u]
    BY <2>1, <2>2, <2>3, RecordsAre
  <2> QED BY <1>0, <2>4 DEF Records!Becomes
<1>3. ASSUME NEW t \in Threads, NEW status \in Statuses, SetStatusReads(t, status)
      PROVE  UNCHANGED records
  BY <1>3, LooksKeepRecords DEF SetStatusReads, Kept
<1>4. ASSUME NEW t \in Threads, NEW status \in Statuses, PutThread(t, status)
      PROVE  UNCHANGED records
  BY <1>4, PutReadsKeepsRecords DEF PutThread
<1>5. ASSUME NEW t \in Threads, NEW a \in Assistants, ClaimAssistant(t, a)
      PROVE  Records!RecordsNext
  <2>1. entries[t] \in Entry /\ Alive(t)
    BY <1>5 DEF ClaimAssistant, Alive, StoreInv
  <2>2. /\ entries'[t] # Absent /\ entries'[t].left = entries[t].left
        /\ entries'[t].owner = a /\ entries'[t].status = entries[t].status
    BY <1>5, <2>1, AbsentAssumption DEF ClaimAssistant, StoreInv, Entry, Owners
  <2>3. Alive(t)' /\ Seen(t)' = [Seen(t) EXCEPT !.owner = a]
    BY <2>1, <2>2 DEF Alive, Seen
  <2>4. \A u \in Threads \ {t} : (Alive(u)' <=> Alive(u)) /\ Seen(u)' = Seen(u)
    BY <1>5 DEF ClaimAssistant, Alive, Seen, StoreInv
  <2>5. \A u \in Threads : ~ Kept(u) /\ (Kept(u)' => u = t)
    BY <1>5 DEF ClaimAssistant, Kept
  <2>6. records[t] = Seen(t) /\ records'[t] = [Seen(t) EXCEPT !.owner = a]
    BY <2>1, <2>3, RecordsAre
  <2>7. \A u \in Threads \ {t} : records'[u] = records[u]
    BY <2>4, <2>5, RecordsAre
  <2>8. Records!Claimable(records, t, a)
    BY <1>5, <2>1, <2>6, SeenType
       DEF ClaimAssistant, Alive, Seen, Records!Claimable
  <2>9. Records!Claimed(records, t, a)[t] = records'[t]
    BY <1>0, <2>6 DEF Records!Claimed
  <2> QED BY <1>0, <2>7, <2>8, <2>9 DEF Records!Becomes
<1>6. CASE SetStatusPuts
  <2>1. call \in Call /\ call.op = "status"
    BY <1>6 DEF SetStatusPuts, StoreInv
  <2>2. CASE PutReads(call.thread, call.status)
    BY <2>1, <2>2, PutReadsKeepsRecords DEF Call
  <2>3. CASE call' = NoCall /\ UNCHANGED <<entries, order>>
    BY <2>1, <2>3, LooksKeepRecords DEF Kept
  <2> QED BY <1>6, <2>2, <2>3 DEF SetStatusPuts
<1>7. CASE Writes
  <2>0. PICK t \in Threads, new \in [status: Statuses, owner: Owners] :
           t = call.thread /\ new = [status |-> call.status, owner |-> call.owner]
    BY <1>7 DEF Writes, StoreInv, Call
  <2>1. call \in Call /\ call.thread = t /\ call.status \in Statuses
        /\ call # NoCall /\ call.op # "status"
    BY <1>7, <2>0 DEF Writes, StoreInv, Call
  <2>2. records'[t] = new
    <3>1. /\ entries'[t] = [status |-> call.status, owner |-> call.owner, left |-> Ttl]
          /\ entries'[t] \in Entry
      BY <1>7, <2>1, LimitsAssumption DEF Writes, Insert, Call, Entry
    <3>2. Alive(t)' /\ Seen(t)' = new
      BY <2>0, <3>1, LimitsAssumption, AbsentAssumption DEF Alive, Seen
    <3> QED BY <2>1, <3>2, RecordsAre
  <2>3. \A u \in Threads \ {t} : records'[u] \in {records[u], Absent}
    <3> SUFFICES ASSUME NEW u \in Threads \ {t}
                 PROVE  records'[u] \in {records[u], Absent}
      OBVIOUS
    <3>1. ~ Kept(u) /\ ~ Kept(u)'
      BY <1>7, <2>0 DEF Writes, Kept
    <3>2. entries'[u] = Absent \/ (Alive(u) /\ entries'[u] = entries[u])
      BY <1>7, <2>0 DEF Writes, Insert
    <3>3. CASE entries'[u] = Absent
      BY <3>1, <3>3, RecordsAre DEF Alive
    <3>4. CASE Alive(u) /\ entries'[u] = entries[u]
      BY <3>1, <3>4, RecordsAre DEF Alive, Seen
    <3> QED BY <3>2, <3>3, <3>4
  <2>4. Records!OwnerIn(records, t) = call.owner
    <3>1. CASE call.found
      <4>1. Kept(t) /\ Seen(t).owner = call.owner
        BY <2>1, <3>1 DEF Kept, Seen, StoreInv, WritesWhatItFound
      <4>2. records[t] = Seen(t) /\ records[t] # Absent
        BY <2>1, <4>1, RecordsAre, SeenType DEF Kept
      <4> QED BY <4>1, <4>2 DEF Records!OwnerIn
    <3>2. CASE ~ call.found
      <4>1. ~ Alive(t) /\ ~ Kept(t) /\ call.owner = NoAssistant
        BY <2>1, <3>2 DEF Kept, StoreInv, WritesWhatItFound
      <4>2. records[t] = Absent
        BY <2>1, <4>1, RecordsAre
      <4> QED BY <4>1, <4>2 DEF Records!OwnerIn
    <3> QED BY <3>1, <3>2
  <2>5. Records!WithThread(records, t, call.status)[t] = new
    BY <1>0, <2>0, <2>4 DEF Records!WithThread
  <2> QED BY <1>0, <2>1, <2>2, <2>3, <2>5 DEF Records!Becomes, Statuses
<1>8. CASE Tick
  <2>1. \A u \in Threads : (Kept(u)' <=> Kept(u))
    BY <1>8, TickEntries DEF Tick, Kept
  <2>2. \A u \in Threads : records'[u] \in {records[u], Absent}
    <3> SUFFICES ASSUME NEW u \in Threads PROVE records'[u] \in {records[u], Absent}
      OBVIOUS
    <3>1. CASE Alive(u)' \/ Kept(u)
      <4>1. Seen(u)' = Seen(u) /\ (Alive(u) \/ Kept(u))
        BY <1>8, <3>1, TickEntries DEF Seen, Alive, Kept
      <4> QED BY <2>1, <3>1, <4>1, RecordsAre
    <3>2. CASE ~ (Alive(u)' \/ Kept(u))
      BY <2>1, <3>2, RecordsAre
    <3> QED BY <3>1, <3>2
  <2>3. CASE \E u \in Threads : records'[u] = Absent
    BY <1>0, <2>2, <2>3 DEF Records!Becomes
  <2>4. CASE \A u \in Threads : records'[u] # Absent
    BY <1>0, <2>2, <2>4
  <2> QED BY <2>3, <2>4
<1>9. CASE UNCHANGED storeVars
  BY <1>9 DEF storeVars, records, Alive
<1> QED BY <1>1, <1>2, <1>3, <1>4, <1>5, <1>6, <1>7, <1>8, <1>9 DEF StoreNext

\* For any threads, assistants, limit and ttl, and however expiry and eviction
\* fall into the steps of the calls, the TTL cache behind InMemoryThreadStore
\* is the store of owned records that the routes are written for.
THEOREM StoreImplementsRecords == StoreSpec => ImplementsRecords
<1>1. StoreInit => Records!RecordsInit
  BY DEF StoreInit, Records!RecordsInit, records, Alive
<1>2. StoreInv /\ StoreInv' /\ [StoreNext]_storeVars => [Records!RecordsNext]_records
  BY StoreSimulates
<1> QED BY <1>1, <1>2, StoreInvInit, StoreInvNext, PTL
        DEF StoreSpec, ImplementsRecords, Records!RecordsSpec

-----------------------------------------------------------------------------
(***************************************************************************)
(* The order of use and the limit                                          *)
(***************************************************************************)

\* order is a strict total order of what the cache holds.
Ordered ==
  /\ order \subseteq Held \X Held
  /\ \A u, v \in Held : <<u, v>> \in order <=> u # v /\ <<v, u>> \notin order
  /\ \A u, v, w \in Held : <<u, v>> \in order /\ <<v, w>> \in order => <<u, w>> \in order

CacheInv == StoreInv /\ Ordered /\ Cardinality(Held) <= MaxThreads

\* What the cache holds can be counted.
LEMMA HeldIsFinite ==
  ASSUME NEW S, S \subseteq Held PROVE IsFiniteSet(S) /\ Cardinality(S) \in Nat
<1>1. S \subseteq Threads
  BY DEF Held
<1>2. IsFiniteSet(S)
  BY <1>1, NamesAssumption, FS_Subset
<1> QED BY <1>2, FS_CardinalityType

\* Of the threads the cache holds, there is exactly one that was used before
\* all the others: fewest threads were used before it.
LEMMA OneIsLeastRecentlyUsed ==
  ASSUME Ordered, NEW S, S \subseteq Held, S # {}
  PROVE  \E u \in S : LeastRecentlyUsed(S) = {u}
<1> DEFINE before(u) == {v \in S : <<v, u>> \in order}
           counts == {Cardinality(before(u)) : u \in S}
<1>1. \A u \in S : IsFiniteSet(before(u)) /\ Cardinality(before(u)) \in Nat
  <2>1. \A u \in S : before(u) \subseteq Held
    OBVIOUS
  <2> QED BY <2>1, HeldIsFinite
<1>2. PICK n \in counts : \A m \in counts : ~ (<<m, n>> \in OpToRel(<, Nat))
  <2>1. counts \subseteq Nat /\ counts # {}
    BY <1>1
  <2> HIDE DEF counts
  <2> QED BY <2>1, NatLessThanWellFounded, WFMin, Zenon
<1>3. PICK u \in S : n = Cardinality(before(u))
  OBVIOUS
<1>4. \A v \in S : ~ (Cardinality(before(v)) < Cardinality(before(u)))
  <2> HIDE DEF before
  <2> QED BY <1>1, <1>2, <1>3 DEF OpToRel
<1>5. before(u) = {}
  <2> SUFFICES ASSUME NEW v \in before(u) PROVE FALSE
    OBVIOUS
  <2>1. before(v) \subseteq before(u) /\ v \notin before(v) /\ v \in S
    BY DEF Ordered
  <2> HIDE DEF before
  <2>2. Cardinality(before(v)) < Cardinality(before(u))
    BY <1>1, <2>1, FS_Subset
  <2> QED BY <1>4, <2>1, <2>2
<1>6. u \in LeastRecentlyUsed(S)
  BY <1>5 DEF LeastRecentlyUsed, Ordered
<1>7. \A v \in LeastRecentlyUsed(S) : v = u
  BY <1>6 DEF LeastRecentlyUsed, Ordered
<1> QED BY <1>6, <1>7

\* A thread that is used becomes the last of those that stay.
LEMMA OrderedUsedAfter ==
  ASSUME Ordered, NEW others, others \subseteq Held, NEW t \in Threads, t \notin others,
         Held' = others \cup {t}, order' = UsedAfter(others, t)
  PROVE  Ordered'
<1>1. \A u, v : <<u, v>> \in order' <=>
         \/ u \in others /\ v \in others /\ <<u, v>> \in order
         \/ u \in others /\ v = t
  BY DEF UsedAfter, Within
<1>2. order' \subseteq Held' \X Held'
  BY DEF UsedAfter, Within, Ordered
<1>3. \A u, v \in Held' : <<u, v>> \in order' <=> u # v /\ <<v, u>> \notin order'
  BY <1>1, Zenon DEF Ordered
<1>4. \A u, v, w \in Held' : <<u, v>> \in order' /\ <<v, w>> \in order' => <<u, w>> \in order'
  BY <1>1 DEF Ordered
<1> QED BY <1>2, <1>3, <1>4 DEF Ordered

\* A lookup changes nothing but the order.
LEMMA OrderedUsed ==
  ASSUME Ordered, NEW t \in Threads, order' = Used(t), Held' = Held
  PROVE  Ordered'
<1>1. CASE Alive(t)
  <2>1. t \in Held /\ order' = UsedAfter(Held \ {t}, t)
    BY <1>1 DEF Alive, Held, Used
  <2>2. Held' = (Held \ {t}) \cup {t}
    BY <2>1
  <2> QED BY <2>1, <2>2, OrderedUsedAfter
<1>2. CASE ~ Alive(t)
  BY <1>2 DEF Used, Ordered
<1> QED BY <1>1, <1>2

\* What the cache holds after TTLCache.__setitem__.
LEMMA InsertHolds ==
  ASSUME StoreInv, NEW t \in Threads, NEW status \in Statuses, NEW owner \in Owners,
         Insert(t, status, owner)
  PROVE  LET stays == {u \in Threads \ {t} : Alive(u) /\ u \notin Victims(t)}
         IN  Held' = stays \cup {t} /\ stays \subseteq Held /\ order' = UsedAfter(stays, t)
<1> DEFINE stays == {u \in Threads \ {t} : Alive(u) /\ u \notin Victims(t)}
           new == [status |-> status, owner |-> owner, left |-> Ttl]
<1>1. new # Absent
  <2>1. new \in Entry
    BY LimitsAssumption DEF Entry
  <2> QED BY <2>1, AbsentAssumption
<1>2. stays \subseteq Held
  BY DEF Alive, Held
<1>3. \A u \in Threads :
         entries'[u] = IF u = t THEN new ELSE IF u \in stays THEN entries[u] ELSE Absent
  BY DEF Insert
<1>4. order' = UsedAfter(stays, t)
  BY DEF Insert
<1> HIDE DEF new, stays
<1>5. Held' = stays \cup {t}
  <2>1. stays \subseteq Threads
    BY <1>2 DEF Held
  <2> QED BY <1>1, <1>2, <1>3, <2>1 DEF Held
<1> QED BY <1>2, <1>4, <1>5 DEF stays

\* It never holds more than max_threads: a new record takes the place of the
\* least recently used one if there is none left.
LEMMA InsertKeepsLimit ==
  ASSUME CacheInv, NEW t \in Threads, NEW status \in Statuses, NEW owner \in Owners,
         Insert(t, status, owner)
  PROVE  Cardinality(Held') <= MaxThreads
<1> DEFINE kept == {u \in Threads : Alive(u)}
           stays == {u \in Threads \ {t} : Alive(u) /\ u \notin Victims(t)}
<1>1. Held' = stays \cup {t}
  BY InsertHolds DEF CacheInv
<1>2. kept \subseteq Held
  BY DEF Alive, Held
<1>3. /\ IsFiniteSet(kept) /\ Cardinality(kept) \in Nat
      /\ Cardinality(kept) <= MaxThreads
  <2>1. IsFiniteSet(kept) /\ Cardinality(kept) \in Nat /\ Cardinality(Held) \in Nat
        /\ IsFiniteSet(Held)
    BY <1>2, HeldIsFinite
  <2>2. Cardinality(kept) <= Cardinality(Held)
    BY <1>2, <2>1, FS_Subset
  <2> QED BY <2>1, <2>2, LimitsAssumption DEF CacheInv
<1>4. CASE t \in kept
  <2>1. Held' \subseteq kept
    BY <1>1, <1>4
  <2> HIDE DEF kept
  <2>2. Cardinality(Held') <= Cardinality(kept) /\ Cardinality(Held') \in Nat
    BY <1>3, <2>1, FS_Subset, FS_CardinalityType
  <2> QED BY <1>3, <2>2, LimitsAssumption
<1>5. CASE t \notin kept /\ Cardinality(kept) < MaxThreads
  <2>1. Held' \subseteq kept \cup {t}
    BY <1>1
  <2> HIDE DEF kept
  <2>2. IsFiniteSet(kept \cup {t}) /\ Cardinality(kept \cup {t}) = Cardinality(kept) + 1
    BY <1>3, <1>5, FS_AddElement
  <2>3. Cardinality(Held') <= Cardinality(kept) + 1 /\ Cardinality(Held') \in Nat
    BY <2>1, <2>2, FS_Subset, FS_CardinalityType
  <2> QED BY <1>3, <1>5, <2>3, LimitsAssumption
<1>6. CASE t \notin kept /\ ~ (Cardinality(kept) < MaxThreads)
  <2>1. Victims(t) = LeastRecentlyUsed(kept)
    BY <1>3, <1>6, LimitsAssumption DEF Victims
  <2>2. kept # {}
    BY <1>3, <1>6, FS_EmptySet, LimitsAssumption
  <2>3. PICK u \in kept : LeastRecentlyUsed(kept) = {u}
    BY <1>2, <2>2, OneIsLeastRecentlyUsed DEF CacheInv
  <2>4. Held' \subseteq (kept \ {u}) \cup {t}
    BY <1>1, <2>1, <2>3
  <2> HIDE DEF kept
  <2>5. /\ IsFiniteSet(kept \ {u}) /\ Cardinality(kept \ {u}) = Cardinality(kept) - 1
        /\ t \notin kept \ {u}
    BY <1>3, <1>6, FS_RemoveElement
  <2>6. /\ IsFiniteSet((kept \ {u}) \cup {t})
        /\ Cardinality((kept \ {u}) \cup {t}) = Cardinality(kept \ {u}) + 1
    BY <2>5, FS_AddElement
  <2>7. Cardinality(Held') <= Cardinality((kept \ {u}) \cup {t}) /\ Cardinality(Held') \in Nat
    BY <2>4, <2>6, FS_Subset, FS_CardinalityType
  <2> QED BY <1>3, <2>5, <2>6, <2>7, LimitsAssumption
<1> QED BY <1>4, <1>5, <1>6

\* Every step keeps the order and the limit.
LEMMA CacheInvNext == CacheInv /\ [StoreNext]_storeVars => CacheInv'
<1> SUFFICES ASSUME CacheInv, [StoreNext]_storeVars PROVE CacheInv'
  OBVIOUS
<1>0. StoreInv'
  BY StoreInvNext DEF CacheInv
<1> SUFFICES Ordered' /\ Cardinality(Held') <= MaxThreads
  BY <1>0 DEF CacheInv
<1>1. ASSUME NEW t \in Threads, order' = Used(t), Held' = Held
      PROVE  Ordered' /\ Cardinality(Held') <= MaxThreads
  BY <1>1, OrderedUsed DEF CacheInv
<1>2. ASSUME UNCHANGED entries PROVE Held' = Held
  BY <1>2 DEF Held
<1>3. ASSUME NEW t \in Threads, Get(t) PROVE Ordered' /\ Cardinality(Held') <= MaxThreads
  BY <1>1, <1>2, <1>3 DEF Get
<1>4. ASSUME NEW t \in Threads, DeleteThread(t)
      PROVE  Ordered' /\ Cardinality(Held') <= MaxThreads
  <2>1. Held' = Held \ {t} /\ order' = Within(Held \ {t})
    <3>1. \A u \in Threads : entries'[u] = IF u = t THEN Absent ELSE entries[u]
      BY <1>4 DEF DeleteThread, CacheInv, StoreInv
    <3> QED BY <1>4, <3>1 DEF DeleteThread, Held
  <2>2. Ordered'
    BY <2>1 DEF CacheInv, Ordered, Within
  <2>3. IsFiniteSet(Held) /\ Cardinality(Held) \in Nat /\ Cardinality(Held') \in Nat
    BY <2>1, HeldIsFinite
  <2>4. Cardinality(Held') <= Cardinality(Held)
    BY <2>1, <2>3, FS_Subset
  <2> QED BY <2>2, <2>3, <2>4, LimitsAssumption DEF CacheInv
<1>5. ASSUME NEW t \in Threads, NEW status, PutReads(t, status)
      PROVE  Ordered' /\ Cardinality(Held') <= MaxThreads
  BY <1>1, <1>2, <1>5 DEF PutReads
<1>6. ASSUME NEW t \in Threads, NEW status \in Statuses,
             SetStatusReads(t, status) \/ PutThread(t, status)
      PROVE  Ordered' /\ Cardinality(Held') <= MaxThreads
  BY <1>1, <1>2, <1>5, <1>6 DEF SetStatusReads, PutThread
<1>7. ASSUME NEW t \in Threads, NEW a \in Assistants, ClaimAssistant(t, a)
      PROVE  Ordered' /\ Cardinality(Held') <= MaxThreads
  <2>1. entries[t] \in Entry
    BY <1>7 DEF ClaimAssistant, Alive, CacheInv, StoreInv
  <2>2. entries'[t] \in Entry /\ \A u \in Threads \ {t} : entries'[u] = entries[u]
    BY <1>7, <2>1 DEF ClaimAssistant, CacheInv, StoreInv, Entry, Owners
  <2>3. Held' = Held
    BY <2>1, <2>2, AbsentAssumption DEF Held
  <2> QED BY <1>1, <1>7, <2>3 DEF ClaimAssistant
<1>8. CASE SetStatusPuts
  <2>1. CASE PutReads(call.thread, call.status)
    BY <1>5, <1>8, <2>1 DEF SetStatusPuts, CacheInv, StoreInv, Call
  <2>2. CASE UNCHANGED <<entries, order>>
    BY <1>2, <2>2 DEF CacheInv, Ordered
  <2> QED BY <1>8, <2>1, <2>2 DEF SetStatusPuts
<1>9. CASE Writes
  <2>1. /\ call.thread \in Threads /\ call.status \in Statuses /\ call.owner \in Owners
        /\ Insert(call.thread, call.status, call.owner)
    BY <1>9 DEF Writes, CacheInv, StoreInv, Call
  <2> DEFINE stays == {u \in Threads \ {call.thread} :
                          Alive(u) /\ u \notin Victims(call.thread)}
  <2>2. /\ Held' = stays \cup {call.thread} /\ stays \subseteq Held
        /\ order' = UsedAfter(stays, call.thread)
    BY <2>1, InsertHolds DEF CacheInv
  <2>3. call.thread \notin stays
    OBVIOUS
  <2> HIDE DEF stays
  <2>4. Ordered'
    BY <2>1, <2>2, <2>3, OrderedUsedAfter DEF CacheInv
  <2> QED BY <2>1, <2>4, InsertKeepsLimit
<1>10. CASE Tick
  <2>1. Held' = Held
    BY <1>10, TickEntries DEF Held, CacheInv
  <2> QED BY <1>10, <2>1 DEF Tick, CacheInv, Ordered
<1>11. CASE UNCHANGED storeVars
  BY <1>2, <1>11 DEF storeVars, CacheInv, Ordered
<1> QED BY <1>3, <1>4, <1>6, <1>7, <1>8, <1>9, <1>10, <1>11 DEF StoreNext

\* The invariant of the cache holds in every state.
LEMMA CacheInvariance == StoreSpec => []CacheInv
<1>1. StoreInit => CacheInv
  <2> SUFFICES ASSUME StoreInit PROVE CacheInv
    OBVIOUS
  <2>1. Held = {} /\ order = {}
    BY DEF StoreInit, Held
  <2> QED BY <2>1, StoreInvInit, FS_EmptySet, LimitsAssumption DEF CacheInv, Ordered
<1> QED BY <1>1, CacheInvNext, PTL DEF StoreSpec

\* The TTL cache keeps a strict total order of the use of what it holds and
\* never holds more than max_threads records, expired ones included, however
\* time passes between the lookup and the write of a call.
THEOREM CacheStaysWellFormed == StoreSpec => []CacheWellFormed
<1>1. CacheInv => CacheWellFormed
  BY DEF CacheInv, StoreInv, Ordered, CacheWellFormed
<1> QED BY <1>1, CacheInvariance, PTL

\* A write takes a record that has not expired away from its callers only when
\* max_threads records are alive after it, and then the one that was used least
\* recently.
THEOREM StoreLosesOnlyAtItsLimit == StoreSpec => NoNeedlessLoss
<1> DEFINE A == \A u \in Threads :
                  Alive(u) /\ entries'[u] = Absent /\ call # NoCall /\ call.thread # u
                  => /\ Cardinality({v \in Threads : Alive(v)'}) = MaxThreads
                     /\ \A v \in Threads \ {call.thread} : Alive(v)' => <<u, v>> \in order
<1>1. CacheInv /\ [StoreNext]_storeVars => [A]_storeVars
  <2> SUFFICES ASSUME CacheInv, StoreNext, NEW u \in Threads, Alive(u), entries'[u] = Absent,
                      call # NoCall, call.thread # u
               PROVE  /\ Cardinality({v \in Threads : Alive(v)'}) = MaxThreads
                      /\ \A v \in Threads \ {call.thread} : Alive(v)' => <<u, v>> \in order
    OBVIOUS
  <2>1. Writes
    <3>1. entries[u] # Absent
      BY DEF Alive
    <3>2. ~ UNCHANGED entries
      BY <3>1
    <3>3. ~ Tick
      BY <3>1, TickEntries DEF CacheInv
    <3> QED BY <3>2, <3>3 DEF StoreNext, Get, DeleteThread, SetStatusReads, PutThread,
               ClaimAssistant, SetStatusPuts, PutReads
  <2>2. PICK t \in Threads : t = call.thread
    BY <2>1 DEF Writes, CacheInv, StoreInv, Call
  <2>3. /\ call.status \in Statuses /\ call.owner \in Owners
        /\ Insert(t, call.status, call.owner)
    BY <2>1, <2>2 DEF Writes, CacheInv, StoreInv, Call
  <2> DEFINE kept == {v \in Threads : Alive(v)}
             stays == {v \in Threads \ {t} : Alive(v) /\ v \notin Victims(t)}
             new == [status |-> call.status, owner |-> call.owner, left |-> Ttl]
  <2>4. u \in Victims(t)
    BY <2>2, <2>3 DEF Insert, Alive
  <2>5. /\ t \notin kept /\ Cardinality(kept) >= MaxThreads
        /\ Victims(t) = LeastRecentlyUsed(kept)
    BY <2>4 DEF Victims
  <2>6. kept \subseteq Held /\ u \in kept
    BY DEF Alive, Held
  <2>7. Victims(t) = {u}
    BY <2>4, <2>5, <2>6, OneIsLeastRecentlyUsed DEF CacheInv
  <2>8. IsFiniteSet(kept) /\ Cardinality(kept) = MaxThreads
    <3>1. /\ IsFiniteSet(kept) /\ Cardinality(kept) \in Nat
          /\ IsFiniteSet(Held) /\ Cardinality(Held) \in Nat
      BY <2>6, HeldIsFinite
    <3>2. Cardinality(kept) <= Cardinality(Held)
      BY <2>6, <3>1, FS_Subset
    <3> QED BY <2>5, <3>1, <3>2, LimitsAssumption DEF CacheInv
  <2>9. {v \in Threads : Alive(v)'} = (kept \ {u}) \cup {t}
    <3>1. stays = kept \ {u}
      BY <2>5, <2>7
    <3>2. \A v \in Threads :
             entries'[v] = IF v = t THEN new ELSE IF v \in stays THEN entries[v] ELSE Absent
      BY <2>3 DEF Insert
    <3>3. new \in Entry /\ new.left > 0 /\ new # Absent
      <4>1. new \in Entry /\ new.left > 0
        BY <2>3, LimitsAssumption DEF Entry
      <4> QED BY <4>1, AbsentAssumption
    <3> HIDE DEF new
    <3>4. \A v \in Threads : Alive(v)' <=> v = t \/ v \in stays
      BY <3>2, <3>3 DEF Alive
    <3> HIDE DEF stays
    <3>5. stays \subseteq Threads
      BY <3>1
    <3> QED BY <3>1, <3>4, <3>5
  <2>10. Cardinality((kept \ {u}) \cup {t}) = MaxThreads
    <3> HIDE DEF kept
    <3>1. /\ IsFiniteSet(kept \ {u}) /\ Cardinality(kept \ {u}) = Cardinality(kept) - 1
          /\ t \notin kept \ {u}
      BY <2>5, <2>6, <2>8, FS_RemoveElement
    <3>2. Cardinality((kept \ {u}) \cup {t}) = Cardinality(kept \ {u}) + 1
      BY <3>1, FS_AddElement
    <3> QED BY <2>8, <3>1, <3>2, LimitsAssumption
  <2>11. \A v \in kept \ {u} : <<u, v>> \in order
    BY <2>4, <2>5 DEF LeastRecentlyUsed
  <2>12. \A v \in Threads \ {t} : Alive(v)' => v \in kept \ {u}
    BY <2>9
  <2> QED BY <2>2, <2>9, <2>10, <2>11, <2>12
<1> QED BY <1>1, CacheInvariance, PTL DEF StoreSpec, NoNeedlessLoss
=============================================================================
