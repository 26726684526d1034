----------------------------- MODULE ThreadStore -----------------------------
(***************************************************************************)
(* storage.py, InMemoryThreadStore: thread records in a TTLCache of        *)
(* cachetools, which drops the least recently used record at its limit and *)
(* keeps an expired one, unseen, until the next write.                     *)
(*                                                                         *)
(* The store never waits, but time passes while it works: put_thread and   *)
(* claim_assistant look a record up at one time and write it at a later    *)
(* one, and _set_thread_status reads before it puts.  Each look at the     *)
(* clock is a step; between the steps of a call only time passes.          *)
(*                                                                         *)
(* Time is counted in what is left of a record's ttl, so it has no bound.  *)
(***************************************************************************)
EXTENDS Naturals, FiniteSets

CONSTANTS
  Threads, Assistants,
  NoAssistant,   \* a record without an owner
  Absent,        \* no record
  NoCall,        \* nobody is at work in the store
  MaxThreads,    \* max_threads
  Ttl            \* ttl_seconds, in ticks of the clock

\* __post_init__ rejects other limits.
ASSUME LimitsAssumption == MaxThreads \in Nat \ {0} /\ Ttl \in Nat \ {0}
ASSUME NamesAssumption ==
  NoAssistant \notin Assistants /\ IsFiniteSet(Threads)

Statuses == {"idle", "busy"}
Owners == Assistants \cup {NoAssistant}
Entry == [status: Statuses, owner: Owners, left: 0..Ttl]

\* status: _set_thread_status holds a copy of the record.  put, claim: the
\* call found the record, or did not, and is to write it.
Call == [op: {"status", "put", "claim"}, thread: Threads, status: Statuses,
         owner: Owners, found: BOOLEAN]

ASSUME AbsentAssumption == Absent \notin Entry /\ NoCall \notin Call
ASSUME AbsentRecordAssumption == Absent \notin [status: Statuses, owner: Owners]

VARIABLES
  entries,  \* what the cache holds, expired or not
  order,    \* the order of their use: <<u, t>> when u was used before t
  call      \* the call under way

storeVars == <<entries, order, call>>

StoreInit ==
  /\ entries = [t \in Threads |-> Absent]
  /\ order = {}
  /\ call = NoCall

\* key in self: an expired record is not seen.
Alive(t) == entries[t] # Absent /\ entries[t].left > 0

Owner(t) == IF Alive(t) THEN entries[t].owner ELSE NoAssistant

Held == {t \in Threads : entries[t] # Absent}

Within(threads) == {e \in order : e[1] \in threads /\ e[2] \in threads}

\* t is used after the other threads.
UsedAfter(others, t) == Within(others) \cup (others \X {t})

\* A lookup that finds t makes it the most recently used.
Used(t) == IF Alive(t) THEN UsedAfter(Held \ {t}, t) ELSE order

LeastRecentlyUsed(threads) ==
  {u \in threads : \A v \in threads \ {u} : <<u, v>> \in order}

-----------------------------------------------------------------------------
(***************************************************************************)
(* TTLCache.__setitem__: expired records are dropped, then the least       *)
(* recently used one if a new record finds no room.                        *)
(***************************************************************************)
\* Mutant: the limit is looked at before the expired records are dropped.
VictimsUnpurged(t) ==
  IF t \notin Held /\ Cardinality(Held) >= MaxThreads THEN LeastRecentlyUsed(Held) ELSE {}

Victims(t) ==
  LET kept == {u \in Threads : Alive(u)}
  IN  IF t \notin kept /\ Cardinality(kept) >= MaxThreads
      THEN LeastRecentlyUsed(kept) ELSE {}

\* Mutant: one record too many is let in.
InsertLate(t, status, owner) ==
  LET kept == {u \in Threads \ {t} : Alive(u)}
      stays == IF Cardinality(kept) > MaxThreads THEN kept \ Victims(t) ELSE kept
  IN  /\ entries' = [u \in Threads |->
             IF u = t THEN [status |-> status, owner |-> owner, left |-> Ttl]
             ELSE IF u \in stays THEN entries[u] ELSE Absent]
      /\ order' = UsedAfter(stays, t)

Insert(t, status, owner) ==
  LET stays == {u \in Threads \ {t} : Alive(u) /\ u \notin Victims(t)}
  IN  /\ entries' = [u \in Threads |->
             IF u = t THEN [status |-> status, owner |-> owner, left |-> Ttl]
             ELSE IF u \in stays THEN entries[u] ELSE Absent]
      /\ order' = UsedAfter(stays, t)

-----------------------------------------------------------------------------
\* get_thread, get_assistant_id.
Get(t) ==
  /\ call = NoCall /\ order' = Used(t)
  /\ UNCHANGED <<entries, call>>

\* _set_thread_status reads; it returns at once if there is no record.
SetStatusReads(t, status) ==
  /\ call = NoCall /\ Alive(t) /\ order' = Used(t)
  /\ call' = [op |-> "status", thread |-> t, status |-> status,
              owner |-> NoAssistant, found |-> TRUE]
  /\ UNCHANGED entries

\* Mutant: the owner of the record to be replaced is not looked up.
PutReadsUnowned(t, status) ==
  /\ call' = [op |-> "put", thread |-> t, status |-> status,
              owner |-> NoAssistant, found |-> Alive(t)]
  /\ order' = Used(t) /\ UNCHANGED entries

\* put_thread, from its lookup of the owner on.
PutReads(t, status) ==
  /\ call' = [op |-> "put", thread |-> t, status |-> status,
              owner |-> Owner(t), found |-> Alive(t)]
  /\ order' = Used(t) /\ UNCHANGED entries

\* A put that exceeds max_thread_bytes raises before it looks at the cache.
PutThread(t, status) == call = NoCall /\ PutReads(t, status)

SetStatusPuts ==
  /\ call # NoCall /\ call.op = "status"
  /\ \/ PutReads(call.thread, call.status)
     \/ call' = NoCall /\ UNCHANGED <<entries, order>>   \* too large by now

\* claim_assistant looks the record up and changes its owner in place;
\* LookupError and ThreadAssistantConflictError change nothing.
ClaimAssistant(t, a) ==
  /\ call = NoCall /\ Alive(t) /\ entries[t].owner \in {NoAssistant, a}
  /\ entries' = [entries EXCEPT ![t].owner = a]
  /\ order' = Used(t)
  /\ call' = [op |-> "claim", thread |-> t, status |-> entries[t].status,
              owner |-> a, found |-> TRUE]

\* put_thread and claim_assistant write.
Writes ==
  /\ call # NoCall /\ call.op \in {"put", "claim"}
  /\ Insert(call.thread, call.status, call.owner)
  /\ call' = NoCall

\* pop of a key that is seen; otherwise nothing happens.
DeleteThread(t) ==
  /\ call = NoCall /\ Alive(t)
  /\ entries' = [entries EXCEPT ![t] = Absent]
  /\ order' = Within(Held \ {t})
  /\ UNCHANGED call

Older(e) == [e EXCEPT !.left = IF e.left = 0 THEN 0 ELSE e.left - 1]

Tick ==
  /\ entries' = [t \in Threads |->
                   IF entries[t] = Absent THEN Absent ELSE Older(entries[t])]
  /\ UNCHANGED <<order, call>>

StoreNext ==
  \/ \E t \in Threads :
        \/ Get(t) \/ DeleteThread(t)
        \/ \E status \in Statuses : SetStatusReads(t, status) \/ PutThread(t, status)
        \/ \E a \in Assistants : ClaimAssistant(t, a)
  \/ SetStatusPuts \/ Writes \/ Tick

StoreSpec == StoreInit /\ [][StoreNext]_storeVars

-----------------------------------------------------------------------------
(***************************************************************************)
(* Properties                                                              *)
(***************************************************************************)

\* The types, and what the cache keeps true of itself: its order of use is a
\* strict total order of what it holds, which is never more than max_threads,
\* expired records included.
CacheWellFormed ==
  /\ entries \in [Threads -> Entry \cup {Absent}]
  /\ call \in Call \cup {NoCall}
  /\ order \subseteq Held \X Held
  /\ \A u, v \in Held : <<u, v>> \in order <=> u # v /\ <<v, u>> \notin order
  /\ \A u, v, w \in Held : <<u, v>> \in order /\ <<v, w>> \in order => <<u, w>> \in order
  /\ Cardinality(Held) <= MaxThreads

\* The owner that a call is about to write is that of the record it replaces,
\* even if the record has expired since the call looked it up.
WritesWhatItFound ==
  call # NoCall =>
    \/ call.op = "status"
    \/ call.found /\ entries[call.thread] # Absent
                  /\ entries[call.thread].owner = call.owner
    \/ ~ call.found /\ ~ Alive(call.thread) /\ call.owner = NoAssistant

\* A write takes another record away that has not expired only when max_threads
\* records are alive after it, and every other one that stays was used later.
NoNeedlessLoss ==
  [][\A u \in Threads :
       Alive(u) /\ entries'[u] = Absent /\ call # NoCall /\ call.thread # u
       => /\ Cardinality({v \in Threads : Alive(v)'}) = MaxThreads
          /\ \A v \in Threads \ {call.thread} : Alive(v)' => <<u, v>> \in order]_storeVars

\* What callers see.  A record that a call found lives on until the call has
\* written it, whatever the clock says.
records ==
  [t \in Threads |->
     IF Alive(t) \/ (entries[t] # Absent /\ call # NoCall
                       /\ call.op # "status" /\ call.thread = t /\ call.found)
     THEN [status |-> entries[t].status, owner |-> entries[t].owner]
     ELSE Absent]

Records == INSTANCE ThreadRecords WITH store <- records

\* However expiry and eviction fall into the steps of the calls, callers see
\* records with one owner each, that change only by being written, claimed,
\* deleted or lost.
ImplementsRecords == Records!RecordsSpec
=============================================================================
