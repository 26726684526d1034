--------------------------- MODULE ThreadRecords ---------------------------
(***************************************************************************)
(* What storage.py promises its callers: a record per thread that is       *)
(* written, claimed by one assistant, deleted, and may be lost at any      *)
(* time to the TTL or to the limit on their number.                        *)
(***************************************************************************)
CONSTANTS Threads, Assistants, NoAssistant, Absent

VARIABLE store   \* thread -> record, or Absent

StoredThread ==
  [status: {"idle", "busy"}, owner: Assistants \cup {NoAssistant}]

-----------------------------------------------------------------------------
(***************************************************************************)
(* The operations, as functions of the contents s.                         *)
(***************************************************************************)
\* Mutant: put_thread forgets who owns the thread it replaces.
WithThreadUnowned(s, t, status) ==
  [s EXCEPT ![t] = [status |-> status, owner |-> NoAssistant]]

\* get_assistant_id.
OwnerIn(s, t) == IF s[t] = Absent THEN NoAssistant ELSE s[t].owner

\* put_thread keeps the owner of a record it replaces.
WithThread(s, t, status) ==
  [s EXCEPT ![t] = [status |-> status, owner |-> OwnerIn(s, t)]]

\* _set_thread_status: nothing happens to a thread that is not stored.
WithStatus(s, t, status) == IF s[t] = Absent THEN s ELSE WithThread(s, t, status)

\* claim_assistant succeeds; otherwise it raises LookupError or
\* ThreadAssistantConflictError.
Claimable(s, t, a) == s[t] # Absent /\ s[t].owner \in {NoAssistant, a}

Claimed(s, t, a) == [s EXCEPT ![t].owner = a]

-----------------------------------------------------------------------------
RecordsInit == store = [t \in Threads |-> Absent]

\* The call on t leaves rec in its place; other records may be lost meanwhile.
Becomes(t, rec) ==
  /\ store' \in [Threads -> StoredThread \cup {Absent}]
  /\ store'[t] = rec
  /\ \A u \in Threads \ {t} : store'[u] \in {store[u], Absent}

RecordsNext ==
  \E t \in Threads :
     \/ \E status \in {"idle", "busy"} : Becomes(t, WithThread(store, t, status)[t])
     \/ \E a \in Assistants : Claimable(store, t, a) /\ Becomes(t, Claimed(store, t, a)[t])
     \/ Becomes(t, Absent)

RecordsSpec == RecordsInit /\ [][RecordsNext]_store
=============================================================================
