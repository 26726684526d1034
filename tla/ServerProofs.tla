---------------------------- MODULE ServerProofs ----------------------------
(***************************************************************************)
(* Proofs about Server, for any threads, requests and assistants, with     *)
(* timeouts, disconnections, evictions and restarts.                       *)
(***************************************************************************)
EXTENDS Server, RunCoordinatorProofs

StoreType == [Threads -> StoredThread \cup {Absent}]

\* Where a request has not yet been given a lease, unless it is an update,
\* which acquires before it looks for the owner.
Looking == {"create", "owner"}

\* Where a request holds its lease and has not called release.
Holding == {"granted", "metadata", "graph", "event", "failed", "working",
            "erasing", "expiring"}

Idle(q) ==
  q.work = "none" /\ ~ q.inner /\ ~ q.eraser /\ ~ q.erase /\ ~ q.background

\* Which kinds of request come to which lookup.
LooksUp(kind, pc) ==
  /\ pc = "exists" => kind \notin {"delete", "stateless"}
  /\ pc = "create" => kind # "delete"
  /\ pc = "owner" => kind \in RunKinds \cup {"update"}

(***************************************************************************)
(* The inductive invariant: how far a request is determines its lease, and *)
(* which of its flags may be set.                                          *)
(***************************************************************************)

\* A request has a thread, and an assistant wherever it may write for it.
Addressed(r) ==
  LET q == req[r]
  IN  /\ q.pc # "none" => q.thread \in Threads
      /\ q.kind \in RunKinds => q.assistant \in Assistants
      /\ q.work # "none" => q.pc # "none"
      /\ q.work # "none" /\ q.kind # "delete" => q.assistant \in Assistants

\* A lease is for the request's thread, is there while the request needs it,
\* and is not asked back before the request has come to its release.
Leased(r) ==
  LET q == req[r]
  IN  /\ leaseOf[r] # NoThread => leaseOf[r] = q.thread
      /\ q.pc \in {"none", "arrived", "exists"} => leaseOf[r] = NoThread
      /\ q.pc \in Looking =>
           IF q.kind = "update" THEN leaseOf[r] = q.thread /\ ~ AskedBack(r)
                                ELSE leaseOf[r] = NoThread
      /\ q.pc \in Holding => leaseOf[r] = q.thread /\ ~ AskedBack(r)

\* What a request can have under way where it is.
Staged(r) ==
  LET q == req[r]
  IN  /\ q.pc \in {"none", "arrived", "exists", "granted"} \cup Looking => Idle(q)
      /\ q.background => q.pc \in {"abandoned", "closing", "done"}
      /\ q.work = "live" => q.pc \in {"graph", "event", "working", "abandoned", "closing"}
      /\ q.inner => /\ q.pc \in {"graph", "event", "abandoned", "closing"}
                    /\ q.kind \in Streaming
      /\ q.kind \in Streaming /\ (q.work = "live" \/ q.pc \in {"graph", "event"}) => q.inner
      /\ q.eraser => q.pc \in {"metadata", "graph", "event", "abandoned", "closing"}
      /\ q.eraser \/ q.erase => q.kind = "stateless"
      /\ q.pc \in {"granted", "metadata", "event", "abandoned", "closing"}
           => q.kind \in Streaming
      /\ q.pc = "graph" => q.kind \in RunKinds
      /\ q.pc = "working" => q.kind \in {"update", "delete"}
      /\ LooksUp(q.kind, q.pc)

RequestInv(r) == Addressed(r) /\ Leased(r) /\ Staged(r)

ServerInv ==
  /\ CoordInv
  /\ ServerTypeOK
  /\ \A r \in Requests : RequestInv(r)

-----------------------------------------------------------------------------
\* Nothing has arrived.
LEMMA ServerInvInit == ServerInit => ServerInv
<1> SUFFICES ASSUME ServerInit PROVE ServerInv
  OBVIOUS
<1>1. CoordInv
  BY CoordInvInit DEF ServerInit
<1>2. NoRequestYet \in RequestRecord
  BY DEF NoRequestYet, FreshRequest, RequestRecord, Pcs, AllKinds, RunKinds, WorkStates
<1>3. ServerTypeOK
  BY <1>1, <1>2 DEF ServerInit, ServerTypeOK, CoordInv
<1>4. ASSUME NEW r \in Requests PROVE RequestInv(r)
  BY <1>4 DEF ServerInit, CoordInit, RequestInv, Addressed, Leased, Staged, Idle, Looking,
     LooksUp, Holding, NoRequestYet, FreshRequest, RunKinds, Streaming
<1> QED BY <1>1, <1>3, <1>4 DEF ServerInv
-----------------------------------------------------------------------------
(***************************************************************************)
(* The operations of the thread store, as functions of its contents.       *)
(***************************************************************************)

\* Owners are assistants, or there is none.
LEMMA OwnerInType ==
  ASSUME NEW s \in StoreType, NEW t \in Threads
  PROVE  OwnerIn(s, t) \in Assistants \cup {NoAssistant}
BY DEF StoreType, StoredThread, OwnerIn

\* put_thread stores a record with the owner of the one it replaces.
LEMMA WithThreadFacts ==
  ASSUME NEW s \in StoreType, NEW t \in Threads, NEW status \in {"idle", "busy"}
  PROVE  /\ WithThread(s, t, status) \in StoreType
         /\ WithThread(s, t, status)[t] # Absent
         /\ WithThread(s, t, status)[t].status = status
         /\ \A u \in Threads : OwnerIn(WithThread(s, t, status), u) = OwnerIn(s, u)
         /\ \A u \in Threads \ {t} : WithThread(s, t, status)[u] = s[u]
<1>1. [status |-> status, owner |-> OwnerIn(s, t)] \in StoredThread
  BY OwnerInType DEF StoredThread
<1>2. [status |-> status, owner |-> OwnerIn(s, t)] # Absent
  BY <1>1, AbsentAssumption
<1>3. /\ WithThread(s, t, status) \in StoreType
      /\ WithThread(s, t, status)[t] = [status |-> status, owner |-> OwnerIn(s, t)]
      /\ \A u \in Threads \ {t} : WithThread(s, t, status)[u] = s[u]
  BY <1>1 DEF WithThread, StoreType
<1> QED BY <1>2, <1>3 DEF OwnerIn

\* claim_assistant changes the owner of a record that is there.
LEMMA ClaimedFacts ==
  ASSUME NEW s \in StoreType, NEW t \in Threads, NEW a \in Assistants, Claimable(s, t, a)
  PROVE  /\ Claimed(s, t, a) \in StoreType
         /\ Claimed(s, t, a)[t] # Absent /\ s[t] # Absent
         /\ Claimed(s, t, a)[t].status = s[t].status
         /\ OwnerIn(Claimed(s, t, a), t) = a
         /\ \A u \in Threads \ {t} : Claimed(s, t, a)[u] = s[u]
<1>1. s[t] \in StoredThread
  BY DEF Claimable, StoreType
<1>2. /\ [s[t] EXCEPT !.owner = a] \in StoredThread
      /\ [s[t] EXCEPT !.owner = a].owner = a
      /\ [s[t] EXCEPT !.owner = a].status = s[t].status
  BY <1>1 DEF StoredThread
<1>3. /\ Claimed(s, t, a) = [s EXCEPT ![t] = [s[t] EXCEPT !.owner = a]]
      /\ s[t] # Absent
  BY DEF Claimed, Claimable
<1>4. /\ Claimed(s, t, a) \in StoreType
      /\ Claimed(s, t, a)[t] = [s[t] EXCEPT !.owner = a]
      /\ \A u \in Threads \ {t} : Claimed(s, t, a)[u] = s[u]
  BY <1>2, <1>3 DEF StoreType
<1> QED BY <1>2, <1>3, <1>4, AbsentAssumption DEF OwnerIn

-----------------------------------------------------------------------------
(***************************************************************************)
(* What a stretch of a handler may come to, if it starts with the contents *)
(* s of the store.                                                         *)
(***************************************************************************)

\* Of the request only its place, lookup, assistant and work change.
Keeps(r) ==
  LET q == req[r]
      n == req'[r]
  IN  /\ req' \in [Requests -> RequestRecord]
      /\ \A p \in Requests \ {r} : req'[p] = req[p]
      /\ n.kind = q.kind /\ n.thread = q.thread /\ n.read = Unread
      /\ n.inner = q.inner /\ n.eraser = q.eraser /\ n.erase = q.erase
      /\ n.background = q.background

\* It is over, or gives back the lease it has.
Leaves(r, s) ==
  /\ store' = s
  /\ req'[r].assistant = req[r].assistant /\ req'[r].work = req[r].work
  /\ \/ req'[r].pc = "done" /\ leaseOf[r] = NoThread /\ UNCHANGED coordVars
     \/ req'[r].pc = "cleanup" /\ leaseOf[r] # NoThread /\ ReleaseCall(r, "cleanup")

\* An update has its lease by now, or acquires it.
Secures(r) ==
  \/ leaseOf[r] # NoThread /\ UNCHANGED coordVars
  \/ leaseOf[r] = NoThread /\ Acquire(r, req[r].thread)

\* It waits for the checkpointer.
Waits(r, s) ==
  /\ store' = s /\ LooksUp(req[r].kind, req'[r].pc)
  /\ req'[r].assistant = req[r].assistant /\ req'[r].work = req[r].work
  /\ \/ req'[r].pc = "exists" /\ leaseOf[r] = NoThread /\ UNCHANGED coordVars
     \/ /\ req'[r].pc \in Looking
        /\ IF req[r].kind = "update"
           THEN Secures(r) ELSE leaseOf[r] = NoThread /\ UNCHANGED coordVars

\* It claims the thread, which is its assistant's already or had no checkpoint
\* when it looked, and is refused or goes on with a lease.
Claims(r, s) ==
  LET q == req[r]
      n == req'[r]
  IN  /\ q.assistant \in Assistants /\ n.assistant = q.assistant
      /\ Claimable(s, q.thread, q.assistant)
      /\ store' = Claimed(s, q.thread, q.assistant)
      /\ \/ OwnerIn(s, q.thread) = q.assistant
         \/ q.pc = "owner" /\ q.read = NoCheckpoint
      /\ leaseOf[r] = NoThread
      /\ \/ n.pc = "done" /\ n.work = q.work /\ UNCHANGED coordVars
         \/ /\ n.pc = "graph" /\ n.work = "live" /\ q.kind = "run"
            /\ Acquire(r, q.thread)
         \/ /\ n.pc = "granted" /\ n.work = q.work /\ q.kind \in Streaming
            /\ Acquire(r, q.thread)

\* An update for the thread's owner, or a deletion, starts under its lease.
Works(r, s) ==
  LET q == req[r]
      n == req'[r]
  IN  /\ store' = s /\ n.pc = "working" /\ n.work = "live" /\ Secures(r)
      /\ \/ /\ q.kind = "update" /\ n.assistant \in Assistants
            /\ n.assistant = OwnerIn(s, q.thread)
         \/ q.kind = "delete" /\ n.assistant = q.assistant

Outcome(r, s) == Keeps(r) /\ (Leaves(r, s) \/ Waits(r, s) \/ Claims(r, s) \/ Works(r, s))

\* Where a stretch begins.
Early(r) == ServerInv /\ req[r].pc \in {"arrived", "exists"} \cup Looking

\* The record of one request is replaced.
LEMMA RecordReplaced ==
  ASSUME req \in [Requests -> RequestRecord], NEW r \in Requests, NEW n \in RequestRecord,
         req' = [req EXCEPT ![r] = n]
  PROVE  /\ req' \in [Requests -> RequestRecord] /\ req'[r] = n
         /\ \A p \in Requests \ {r} : req'[p] = req[p]
OBVIOUS

\* What Suspend and Work do to the request.
Suspended(r, pc) == req' = [req EXCEPT ![r].pc = pc, ![r].read = Unread]

Started(r, pc, a) == req' = [req EXCEPT ![r].pc = pc, ![r].read = Unread,
                                        ![r].assistant = a, ![r].work = "live"]

\* They change what Keeps says.
LEMMA SuspendKeeps ==
  ASSUME ServerTypeOK, NEW r \in Requests, NEW pc \in Pcs, Suspended(r, pc)
  PROVE  /\ Keeps(r) /\ req'[r].pc = pc
         /\ req'[r].assistant = req[r].assistant /\ req'[r].work = req[r].work
<1> USE DEF ServerTypeOK
<1> DEFINE n == [req[r] EXCEPT !.pc = pc, !.read = Unread]
<1>1. n \in RequestRecord
  BY DEF RequestRecord
<1>2. /\ n.pc = pc /\ n.read = Unread
      /\ n.kind = req[r].kind /\ n.thread = req[r].thread
      /\ n.assistant = req[r].assistant /\ n.work = req[r].work
      /\ n.inner = req[r].inner /\ n.eraser = req[r].eraser
      /\ n.erase = req[r].erase /\ n.background = req[r].background
  BY DEF RequestRecord
<1>3. req' = [req EXCEPT ![r] = n]
  BY DEF Suspended
<1> HIDE DEF n
<1>4. /\ req' \in [Requests -> RequestRecord] /\ req'[r] = n
      /\ \A p \in Requests \ {r} : req'[p] = req[p]
  BY <1>1, <1>3, RecordReplaced
<1> QED BY <1>2, <1>4 DEF Keeps

\* So does Work, which also sets the assistant and starts the work.
LEMMA WorkKeeps ==
  ASSUME ServerTypeOK, NEW r \in Requests, NEW pc \in Pcs,
         NEW a \in Assistants \cup {NoAssistant},
         Started(r, pc, a)
  PROVE  Keeps(r) /\ req'[r].pc = pc /\ req'[r].assistant = a /\ req'[r].work = "live"
<1> DEFINE n == [req[r] EXCEPT !.pc = pc, !.read = Unread, !.assistant = a, !.work = "live"]
<1>1. req \in [Requests -> RequestRecord] /\ req[r] \in RequestRecord
  BY DEF ServerTypeOK
<1>2. n \in RequestRecord
  BY <1>1 DEF RequestRecord, WorkStates
<1>3. /\ n.pc = pc /\ n.read = Unread /\ n.assistant = a /\ n.work = "live"
      /\ n.kind = req[r].kind /\ n.thread = req[r].thread
      /\ n.inner = req[r].inner /\ n.eraser = req[r].eraser /\ n.erase = req[r].erase
      /\ n.background = req[r].background
  BY <1>1 DEF RequestRecord
<1>4. req' = [req EXCEPT ![r] = n]
  BY DEF Started
<1> HIDE DEF n
<1>5. /\ req' \in [Requests -> RequestRecord] /\ req'[r] = n
      /\ \A p \in Requests \ {r} : req'[p] = req[p]
  BY <1>1, <1>2, <1>4, RecordReplaced, Zenon
<1> QED BY <1>3, <1>5 DEF Keeps

\* A request at the start of a stretch has its thread, and a lease only if it
\* is an update that has got to its lookups.
LEMMA EarlyFacts ==
  ASSUME NEW r \in Requests, Early(r)
  PROVE  /\ ServerTypeOK /\ req[r] \in RequestRecord /\ req[r].thread \in Threads
         /\ store \in StoreType /\ LooksUp(req[r].kind, req[r].pc)
         /\ req[r].kind \in RunKinds => req[r].assistant \in Assistants
         /\ IF req[r].kind = "update" /\ req[r].pc \in Looking
            THEN leaseOf[r] = req[r].thread /\ leaseOf[r] # NoThread
            ELSE leaseOf[r] = NoThread
<1>1. RequestInv(r) /\ ServerTypeOK /\ req[r].pc # "none"
  BY DEF Early, ServerInv, Looking
<1>2. req[r].thread \in Threads /\ (req[r].kind \in RunKinds => req[r].assistant \in Assistants)
  BY <1>1 DEF RequestInv, Addressed
<1>3. req[r] \in RequestRecord /\ store \in StoreType
  BY <1>1 DEF ServerTypeOK, StoreType
<1>4. req[r].pc \in {"arrived", "exists"} => leaseOf[r] = NoThread
  BY <1>1 DEF RequestInv, Leased
<1>5. req[r].pc \in Looking =>
        IF req[r].kind = "update" THEN leaseOf[r] = req[r].thread ELSE leaseOf[r] = NoThread
  BY <1>1 DEF RequestInv, Leased
<1>6. req[r].pc \in {"arrived", "exists"} => req[r].pc \notin Looking
  BY DEF Looking
<1>7. LooksUp(req[r].kind, req[r].pc)
  BY <1>1 DEF RequestInv, Staged
<1> QED BY <1>1, <1>2, <1>3, <1>4, <1>5, <1>6, <1>7, SentinelAssumption DEF Early

\* The handler answers or raises, through its release if it has a lease.
LEMMA LeaveOutcome ==
  ASSUME NEW r \in Requests, Early(r), NEW s, Leave(r, s)
  PROVE  Outcome(r, s)
<1>1. CASE leaseOf[r] = NoThread
  <2>1. Suspended(r, "done") /\ store' = s /\ UNCHANGED coordVars
    BY <1>1 DEF Leave, Suspend, Suspended
  <2>2. Keeps(r) /\ req'[r].pc = "done"
        /\ req'[r].assistant = req[r].assistant /\ req'[r].work = req[r].work
    <3>1. ServerTypeOK /\ "done" \in Pcs
      BY EarlyFacts DEF Pcs
    <3> QED BY <2>1, <3>1, SuspendKeeps
  <2> QED BY <1>1, <2>1, <2>2 DEF Outcome, Leaves
<1>2. CASE leaseOf[r] # NoThread
  <2>1. Suspended(r, "cleanup") /\ store' = s /\ ReleaseCall(r, "cleanup")
    BY <1>2 DEF Leave, Suspend, Suspended
  <2>2. Keeps(r) /\ req'[r].pc = "cleanup"
        /\ req'[r].assistant = req[r].assistant /\ req'[r].work = req[r].work
    <3>1. ServerTypeOK /\ "cleanup" \in Pcs
      BY EarlyFacts DEF Pcs
    <3> QED BY <2>1, <3>1, SuspendKeeps
  <2> QED BY <1>2, <2>1, <2>2 DEF Outcome, Leaves
<1> QED BY <1>1, <1>2

\* From the claim to the lease.
LEMMA ClaimOutcome ==
  ASSUME NEW r \in Requests, Early(r), NEW s \in StoreType, req[r].kind \in RunKinds,
         \/ OwnerIn(s, req[r].thread) = req[r].assistant
         \/ req[r].pc = "owner" /\ req[r].read = NoCheckpoint,
         ClaimAndAcquire(r, s)
  PROVE  Outcome(r, s)
<1> DEFINE t == req[r].thread
           a == req[r].assistant
<1>1. /\ ServerTypeOK /\ a \in Assistants /\ leaseOf[r] = NoThread
      /\ req[r].kind # "update"
  BY EarlyFacts DEF RunKinds, Streaming
<1>2. CASE Leave(r, s)
  BY <1>2, LeaveOutcome
<1>3. CASE /\ Claimable(s, t, a)
           /\ Suspend(r, Claimed(s, t, a), "done", UNCHANGED coordVars)
  <2>1. Keeps(r) /\ req'[r].pc = "done"
        /\ req'[r].assistant = req[r].assistant /\ req'[r].work = req[r].work
    <3>1. Suspended(r, "done") /\ "done" \in Pcs
      BY <1>3 DEF Suspend, Suspended, Pcs
    <3> QED BY <1>1, <3>1, SuspendKeeps
  <2> QED BY <1>1, <1>3, <2>1 DEF Suspend, Outcome, Claims
<1>4. CASE /\ Claimable(s, t, a) /\ req[r].kind = "run"
           /\ Work(r, Claimed(s, t, a), "graph", a, Acquire(r, t))
  <2>1. Keeps(r) /\ req'[r].pc = "graph" /\ req'[r].assistant = a /\ req'[r].work = "live"
    <3>1. /\ "graph" \in Pcs /\ a \in Assistants \cup {NoAssistant}
          /\ Started(r, "graph", a)
      BY <1>1, <1>4 DEF Work, Started, Pcs
    <3> QED BY <1>1, <3>1, WorkKeeps
  <2> QED BY <1>1, <1>4, <2>1 DEF Work, Outcome, Claims
<1>5. CASE /\ Claimable(s, t, a) /\ req[r].kind \in Streaming
           /\ Suspend(r, Claimed(s, t, a), "granted", Acquire(r, t))
  <2>1. Keeps(r) /\ req'[r].pc = "granted"
        /\ req'[r].assistant = req[r].assistant /\ req'[r].work = req[r].work
    <3>1. Suspended(r, "granted") /\ "granted" \in Pcs
      BY <1>5 DEF Suspend, Suspended, Pcs
    <3> QED BY <1>1, <3>1, SuspendKeeps
  <2> QED BY <1>1, <1>5, <2>1 DEF Suspend, Outcome, Claims
<1>6. CASE Claimable(s, t, a) /\ Suspend(r, Claimed(s, t, a), "done", AcquireRefused(t))
  BY <1>3, <1>6 DEF Suspend, AcquireRefused
<1> QED BY <1>2, <1>3, <1>4, <1>5, <1>6 DEF ClaimAndAcquire

\* The owner is known: from the store, or from a lookup that found none.
LEMMA OwnedOutcome ==
  ASSUME NEW r \in Requests, Early(r), NEW s \in StoreType,
         req[r].kind \in RunKinds \cup {"update"},
         req[r].kind = "update" => req[r].pc \in Looking,
         NEW existing,
         \/ existing = OwnerIn(s, req[r].thread)
         \/ existing = NoAssistant /\ req[r].pc = "owner" /\ req[r].read = NoCheckpoint,
         existing = NoAssistant => req[r].pc = "owner" /\ req[r].read = NoCheckpoint,
         Owned(r, s, existing, UNCHANGED coordVars)
  PROVE  Outcome(r, s)
<1>1. req[r].thread \in Threads /\ ServerTypeOK
  BY EarlyFacts
<1>2. CASE req[r].kind = "update"
  <2>1. CASE existing = NoAssistant
    BY <1>2, <2>1, LeaveOutcome DEF Owned
  <2>2. CASE existing # NoAssistant
    <3>1. existing = OwnerIn(s, req[r].thread) /\ existing \in Assistants
      BY <1>1, <2>2, OwnerInType
    <3>2. Started(r, "working", existing) /\ store' = s /\ UNCHANGED coordVars
      BY <1>2, <2>2 DEF Owned, Work, Started
    <3>3. Keeps(r) /\ req'[r].pc = "working" /\ req'[r].assistant = existing
          /\ req'[r].work = "live"
      <4>1. "working" \in Pcs /\ existing \in Assistants \cup {NoAssistant}
        BY <3>1 DEF Pcs
      <4> QED BY <1>1, <3>2, <4>1, WorkKeeps
    <3>4. leaseOf[r] # NoThread
      BY <1>2, EarlyFacts
    <3>5. Works(r, s)
      BY <1>2, <3>1, <3>2, <3>3, <3>4 DEF Works, Secures
    <3> QED BY <3>3, <3>5, Zenon DEF Outcome
  <2> QED BY <2>1, <2>2
<1>3. CASE req[r].kind # "update"
  <2>1. req[r].kind \in RunKinds
    BY <1>3
  <2>2. CASE existing \in {NoAssistant, req[r].assistant}
    <3>1. ClaimAndAcquire(r, s)
      BY <1>3, <2>2 DEF Owned
    <3> QED BY <2>1, <2>2, <3>1, ClaimOutcome
  <2>3. CASE existing \notin {NoAssistant, req[r].assistant}
    BY <1>3, <2>3, LeaveOutcome DEF Owned
  <2> QED BY <2>2, <2>3
<1> QED BY <1>2, <1>3

\* get_thread_assistant_id, for every kind that reaches it with its lease, or
\* without one.
LEMMA EnterOwnerOutcome ==
  ASSUME NEW r \in Requests, Early(r), NEW s \in StoreType,
         req[r].kind \in RunKinds \cup {"update"},
         req[r].kind = "update" => req[r].pc \in Looking,
         EnterOwner(r, s, UNCHANGED coordVars)
  PROVE  Outcome(r, s)
<1> DEFINE existing == OwnerIn(s, req[r].thread)
<1>1. CASE existing = NoAssistant
  <2>1. Suspended(r, "owner") /\ store' = s /\ UNCHANGED coordVars
    BY <1>1 DEF EnterOwner, Suspend, Suspended
  <2>2. Keeps(r) /\ req'[r].pc = "owner"
        /\ req'[r].assistant = req[r].assistant /\ req'[r].work = req[r].work
    <3>1. ServerTypeOK /\ "owner" \in Pcs
      BY EarlyFacts DEF Pcs
    <3> QED BY <2>1, <3>1, SuspendKeeps
  <2>3. IF req[r].kind = "update" THEN leaseOf[r] # NoThread ELSE leaseOf[r] = NoThread
    BY EarlyFacts
  <2> QED BY <2>1, <2>2, <2>3 DEF Outcome, Waits, Secures, Looking, LooksUp
<1>2. CASE existing # NoAssistant
  <2>1. Owned(r, s, existing, UNCHANGED coordVars)
    BY <1>2 DEF EnterOwner
  <2> QED BY <1>2, <2>1, OwnedOutcome
<1> QED BY <1>1, <1>2

\* An update goes to its lookups, or to its work, as it acquires its lease.
LEMMA AcquireOutcome ==
  ASSUME NEW r \in Requests, Early(r), NEW s \in StoreType, req[r].kind = "update",
         req[r].pc \notin Looking, EnterCreate(r, s, Acquire(r, req[r].thread))
  PROVE  Outcome(r, s)
<1> DEFINE t == req[r].thread
           existing == OwnerIn(s, t)
<1>1. t \in Threads /\ ServerTypeOK /\ leaseOf[r] = NoThread
  BY EarlyFacts
<1>2. ASSUME NEW pc \in Looking, Suspend(r, s, pc, Acquire(r, t)) PROVE Outcome(r, s)
  <2>1. pc \in Pcs
    BY DEF Looking, Pcs
  <2>2. Keeps(r) /\ req'[r].pc = pc
        /\ req'[r].assistant = req[r].assistant /\ req'[r].work = req[r].work
    <3>1. Suspended(r, pc)
      BY <1>2 DEF Suspend, Suspended
    <3> QED BY <1>1, <2>1, <3>1, SuspendKeeps
  <2>3. LooksUp(req[r].kind, pc)
    BY DEF LooksUp, Looking
  <2> QED BY <1>1, <1>2, <2>2, <2>3 DEF Suspend, Outcome, Waits, Secures
<1>3. CASE s[t] = Absent
  <2>1. Suspend(r, s, "create", Acquire(r, t))
    BY <1>3 DEF EnterCreate
  <2> QED BY <1>2, <2>1 DEF Looking
<1>4. CASE s[t] # Absent
  <2>1. EnterOwner(r, s, Acquire(r, t))
    BY <1>4 DEF EnterCreate, Created
  <2>2. CASE existing = NoAssistant
    <3>1. Suspend(r, s, "owner", Acquire(r, t))
      BY <2>1, <2>2 DEF EnterOwner
    <3> QED BY <1>2, <3>1 DEF Looking
  <2>3. CASE existing # NoAssistant
    <3>1. existing \in Assistants
      BY <1>1, <2>3, OwnerInType
    <3>2. Started(r, "working", existing) /\ store' = s /\ Acquire(r, t)
      BY <2>1, <2>3 DEF EnterOwner, Owned, Work, Started
    <3>3. Keeps(r) /\ req'[r].pc = "working" /\ req'[r].assistant = existing
          /\ req'[r].work = "live"
      <4>1. "working" \in Pcs /\ existing \in Assistants \cup {NoAssistant}
        BY <3>1 DEF Pcs
      <4> QED BY <1>1, <3>2, <4>1, WorkKeeps
    <3>4. Works(r, s)
      BY <1>1, <3>1, <3>2, <3>3 DEF Works, Secures
    <3> QED BY <3>3, <3>4, Zenon DEF Outcome
  <2> QED BY <2>2, <2>3
<1> QED BY <1>3, <1>4

\* get_or_create_thread and what follows it.
LEMMA CreatedOutcome ==
  ASSUME NEW r \in Requests, Early(r), NEW s \in StoreType, req[r].kind # "delete",
         req[r].kind = "update" => req[r].pc \in Looking,
         Created(r, s, UNCHANGED coordVars)
  PROVE  Outcome(r, s)
<1>1. CASE req[r].kind \in {"create", "get"}
  BY <1>1, LeaveOutcome DEF Created
<1>2. CASE req[r].kind \notin {"create", "get"}
  <2>1. req[r].kind \in RunKinds \cup {"update"}
    BY <1>2, EarlyFacts DEF RequestRecord, AllKinds
  <2> QED BY <1>2, <2>1, EnterOwnerOutcome DEF Created
<1> QED BY <1>1, <1>2

\* get_or_create_thread of a handler that has no lease yet.
LEMMA EnterCreateOutcome ==
  ASSUME NEW r \in Requests, Early(r), NEW s \in StoreType,
         req[r].kind \notin {"delete", "update"},
         EnterCreate(r, s, UNCHANGED coordVars)
  PROVE  Outcome(r, s)
<1>1. CASE s[req[r].thread] = Absent
  <2>1. Suspended(r, "create") /\ store' = s /\ UNCHANGED coordVars
    BY <1>1 DEF EnterCreate, Suspend, Suspended
  <2>2. Keeps(r) /\ req'[r].pc = "create"
        /\ req'[r].assistant = req[r].assistant /\ req'[r].work = req[r].work
    <3>1. ServerTypeOK /\ "create" \in Pcs
      BY EarlyFacts DEF Pcs
    <3> QED BY <2>1, <3>1, SuspendKeeps
  <2>3. leaseOf[r] = NoThread
    BY EarlyFacts
  <2> QED BY <2>1, <2>2, <2>3 DEF Outcome, Waits, Looking, LooksUp
<1>2. CASE s[req[r].thread] # Absent
  BY <1>2, CreatedOutcome DEF EnterCreate
<1> QED BY <1>1, <1>2

\* thread_exists answered.
LEMMA ExistsAnsweredOutcome ==
  ASSUME NEW r \in Requests, Early(r), req[r].pc \notin Looking,
         req[r].kind \notin {"delete", "stateless"}, NEW found \in BOOLEAN,
         ExistsAnswered(r, found)
  PROVE  Outcome(r, store)
<1>1. /\ req[r].kind \in {"run", "stream", "get", "create", "update"}
      /\ store \in StoreType /\ leaseOf[r] = NoThread /\ ServerTypeOK
  BY EarlyFacts DEF RequestRecord, AllKinds, RunKinds, Streaming
<1>2. CASE req[r].kind \in {"run", "stream", "get"}
  <2>1. Leave(r, store) \/ EnterCreate(r, store, UNCHANGED coordVars)
    BY <1>2 DEF ExistsAnswered
  <2> QED BY <1>1, <1>2, <2>1, LeaveOutcome, EnterCreateOutcome
<1>3. CASE req[r].kind = "create"
  <2>1. Leave(r, store) \/ EnterCreate(r, store, UNCHANGED coordVars)
    BY <1>3 DEF ExistsAnswered
  <2> QED BY <1>1, <1>3, <2>1, LeaveOutcome, EnterCreateOutcome
<1>4. CASE req[r].kind = "update"
  <2>1. \/ Leave(r, store)
        \/ Suspend(r, store, "done", AcquireRefused(req[r].thread))
        \/ EnterCreate(r, store, Acquire(r, req[r].thread))
    BY <1>4 DEF ExistsAnswered
  <2>2. CASE Suspend(r, store, "done", AcquireRefused(req[r].thread))
    <3>1. Leave(r, store)
      BY <1>1, <2>2 DEF Leave, Suspend, AcquireRefused
    <3> QED BY <3>1, LeaveOutcome
  <2> QED BY <1>1, <1>4, <2>1, <2>2, LeaveOutcome, AcquireOutcome
<1> QED BY <1>1, <1>2, <1>3, <1>4

\* The contents of the store that a stretch goes on with: what it finds, the
\* record get_or_create_thread writes, or the claim for a checkpoint's owner.
Opening(r, s) ==
  LET t == req[r].thread
  IN  \/ s = store
      \/ req[r].pc = "create" /\ s = WithThread(store, t, "idle")
      \/ /\ req[r].pc = "owner" /\ req[r].read \in Assistants
         /\ Claimable(store, t, req[r].read) /\ s = Claimed(store, t, req[r].read)

Stretch(r) == Begin(r) \/ ResumeExists(r) \/ ResumeCreate(r) \/ ResumeOwner(r)

\* Whatever stretch of a handler runs, it has one of the outcomes.
LEMMA StretchOutcome ==
  ASSUME NEW r \in Requests, ServerInv, Stretch(r)
  PROVE  /\ Early(r) /\ UNCHANGED cpOwner
         /\ \E s \in StoreType : Opening(r, s) /\ Outcome(r, s)
<1>1. Early(r)
  BY DEF Early, Stretch, Begin, ResumeExists, ResumeCreate, ResumeOwner, Looking
<1>2. store \in StoreType /\ Opening(r, store) /\ req[r].thread \in Threads
      /\ req[r] \in RequestRecord /\ ServerTypeOK
  BY <1>1, EarlyFacts DEF Opening
<1>3. CASE Begin(r)
  <2>1. req[r].pc = "arrived" /\ req[r].pc \notin Looking /\ leaseOf[r] = NoThread
        /\ UNCHANGED cpOwner
    BY <1>1, <1>3, EarlyFacts DEF Begin, Looking
  <2>2. CASE req[r].kind \notin {"delete", "stateless"} /\ EnterExists(r)
    <3>1. CASE store[req[r].thread] = Absent
      <4>1. Suspended(r, "exists") /\ store' = store /\ UNCHANGED coordVars
        BY <2>2, <3>1 DEF EnterExists, Suspend, Suspended
      <4>2. Keeps(r) /\ req'[r].pc = "exists"
            /\ req'[r].assistant = req[r].assistant /\ req'[r].work = req[r].work
        <5>1. "exists" \in Pcs
          BY DEF Pcs
        <5> QED BY <1>2, <4>1, <5>1, SuspendKeeps
      <4>3. Outcome(r, store)
        BY <2>1, <2>2, <4>1, <4>2 DEF Outcome, Waits, LooksUp
      <4> QED BY <1>1, <1>2, <2>1, <4>3
    <3>2. CASE store[req[r].thread] # Absent
      <4>1. Outcome(r, store)
        BY <1>1, <2>1, <2>2, <3>2, ExistsAnsweredOutcome DEF EnterExists
      <4> QED BY <1>1, <1>2, <2>1, <4>1
    <3> QED BY <3>1, <3>2
  <2>3. CASE req[r].kind \in RunKinds /\ EnterCreate(r, store, UNCHANGED coordVars)
    <3>1. Outcome(r, store)
      BY <1>1, <1>2, <2>3, EnterCreateOutcome DEF RunKinds, Streaming
    <3> QED BY <1>1, <1>2, <2>1, <3>1
  <2>4. CASE Leave(r, store)
    BY <1>1, <1>2, <2>1, <2>4, LeaveOutcome
  <2>5. CASE req[r].kind = "delete"
             /\ Suspend(r, store, "done", AcquireRefused(req[r].thread))
    <3>1. Leave(r, store)
      BY <2>1, <2>5 DEF Leave, Suspend, AcquireRefused
    <3> QED BY <2>4, <3>1
  <2>6. CASE req[r].kind = "delete"
             /\ Work(r, store, "working", req[r].assistant, Acquire(r, req[r].thread))
    <3>1. Keeps(r) /\ req'[r].pc = "working" /\ req'[r].assistant = req[r].assistant
          /\ req'[r].work = "live"
      <4>1. /\ "working" \in Pcs /\ req[r].assistant \in Assistants \cup {NoAssistant}
            /\ Started(r, "working", req[r].assistant)
        BY <1>2, <2>6 DEF Work, Started, Pcs, RequestRecord
      <4> QED BY <1>2, <4>1, WorkKeeps
    <3>2. Outcome(r, store)
      <4>1. /\ store' = store /\ Acquire(r, req[r].thread) /\ req[r].kind = "delete"
        BY <2>6 DEF Work
      <4>2. Works(r, store)
        BY <2>1, <3>1, <4>1 DEF Works, Secures
      <4> QED BY <3>1, <4>2, Zenon DEF Outcome
    <3> QED BY <1>1, <1>2, <2>1, <3>2
  <2> QED BY <1>3, <2>2, <2>3, <2>4, <2>5, <2>6 DEF Begin
<1>4. CASE ResumeExists(r)
  <2>1. req[r].pc \notin Looking /\ req[r].kind \notin {"delete", "stateless"} /\ UNCHANGED cpOwner
    BY <1>1, <1>4, EarlyFacts DEF ResumeExists, Looking, LooksUp
  <2> QED BY <1>1, <1>2, <1>4, <2>1, ExistsAnsweredOutcome DEF ResumeExists
<1>5. CASE ResumeCreate(r)
  <2> DEFINE s == WithThread(store, req[r].thread, "idle")
  <2>1. s \in StoreType /\ Opening(r, s) /\ UNCHANGED cpOwner
    BY <1>2, <1>5, WithThreadFacts DEF ResumeCreate, Opening
  <2>2. CASE Leave(r, store)
    BY <1>1, <1>2, <2>1, <2>2, LeaveOutcome
  <2>3. CASE Created(r, s, UNCHANGED coordVars)
    <3>1. req[r].kind # "delete" /\ req[r].pc \in Looking
      BY <1>1, <1>5, EarlyFacts DEF ResumeCreate, Looking, LooksUp
    <3>2. Outcome(r, s)
      BY <1>1, <2>1, <2>3, <3>1, CreatedOutcome
    <3> QED BY <1>1, <2>1, <3>2
  <2> QED BY <1>5, <2>2, <2>3 DEF ResumeCreate
<1>6. CASE ResumeOwner(r)
  <2> DEFINE t == req[r].thread
             found == req[r].read
  <2>1. /\ req[r].pc = "owner" /\ found # Unread /\ UNCHANGED cpOwner
        /\ req[r].kind \in RunKinds \cup {"update"} /\ req[r].pc \in Looking
    BY <1>1, <1>6, EarlyFacts DEF ResumeOwner, LooksUp, Looking
  <2>2. CASE found = NoCheckpoint
    <3>1. Owned(r, store, NoAssistant, UNCHANGED coordVars)
      BY <1>6, <2>2 DEF ResumeOwner
    <3>2. Outcome(r, store)
      BY <1>1, <1>2, <2>1, <2>2, <3>1, OwnedOutcome
    <3> QED BY <1>1, <1>2, <2>1, <3>2
  <2>3. CASE found # NoCheckpoint /\ Claimable(store, t, found)
    <3> DEFINE s == Claimed(store, t, found)
    <3>1. Owned(r, s, found, UNCHANGED coordVars)
      BY <1>6, <2>3 DEF ResumeOwner
    <3>2. found \in Assistants
      BY <1>2, <2>1, <2>3 DEF RequestRecord
    <3>3. s \in StoreType /\ OwnerIn(s, t) = found
      BY <1>2, <2>3, <3>2, ClaimedFacts
    <3>4. Outcome(r, s)
      BY <1>1, <2>1, <3>1, <3>2, <3>3, OwnersAssumption, OwnedOutcome
    <3>5. Opening(r, s)
      BY <2>1, <2>3, <3>2 DEF Opening
    <3> QED BY <1>1, <2>1, <3>3, <3>4, <3>5
  <2>4. CASE found # NoCheckpoint /\ ~ Claimable(store, t, found)
    <3>1. Leave(r, store)
      BY <1>6, <2>4 DEF ResumeOwner
    <3>2. Outcome(r, store)
      BY <1>1, <3>1, LeaveOutcome
    <3> QED BY <1>1, <1>2, <2>1, <3>2
  <2> QED BY <2>2, <2>3, <2>4
<1> QED BY <1>3, <1>4, <1>5, <1>6 DEF Stretch

-----------------------------------------------------------------------------
(***************************************************************************)
(* A step of one request leaves the others as they are.                    *)
(***************************************************************************)

\* What a step of request r may do to the coordinator.
Moves(r) ==
  \/ UNCHANGED coordVars
  \/ \E t \in Threads : Acquire(r, t)
  \/ \E c \in Callers :
        \/ ReleaseNoop(r, c) \/ ReleaseCall(r, c) \/ ReleaseTask(r, c)
        \/ ReleaseReturn(r, c) \/ ReleaseCancelled(r, c)
  \/ Forget(r)

\* The coordinator's invariant holds in the server too, and the leases of other
\* requests and the calls to release them are untouched.
LEMMA MovesFacts ==
  ASSUME CoordInv, NEW r \in Requests, Moves(r)
  PROVE  /\ CoordInv'
         /\ \A p \in Requests \ {r} : leaseOf'[p] = leaseOf[p] /\ call'[p] = call[p]
<1>1. CASE UNCHANGED coordVars
  BY <1>1, CoordInvStep DEF coordVars
<1>2. CASE \E t \in Threads : Acquire(r, t)
  BY <1>2, CoordInvAcquire DEF Acquire, CoordInv, CoordTypeOK
<1>3. ASSUME NEW c \in Callers,
             \/ ReleaseNoop(r, c) \/ ReleaseCall(r, c) \/ ReleaseTask(r, c)
             \/ ReleaseReturn(r, c) \/ ReleaseCancelled(r, c)
      PROVE  /\ CoordInv'
             /\ \A p \in Requests \ {r} : leaseOf'[p] = leaseOf[p] /\ call'[p] = call[p]
  <2>1. CoordInv'
    BY <1>3, CoordInvReleaseTask, CoordInvReleaseSteps
  <2>2. leaseOf' = leaseOf /\ \A p \in Requests \ {r} : call'[p] = call[p]
    BY <1>3 DEF ReleaseNoop, ReleaseCall, ReleaseTask, ReleaseReturn, ReleaseCancelled,
       CoordInv, CoordTypeOK
  <2> QED BY <2>1, <2>2
<1>4. CASE Forget(r)
  BY <1>4, CoordInvForget DEF Forget, CoordInv, CoordTypeOK
<1> QED BY <1>1, <1>2, <1>3, <1>4 DEF Moves

\* So a step of r preserves the invariant if it preserves what is said of r.
LEMMA LocalStep ==
  ASSUME ServerInv, NEW r \in Requests, Moves(r),
         store' \in StoreType, cpOwner' \in [Threads -> Assistants \cup {NoCheckpoint}],
         req' \in [Requests -> RequestRecord],
         \A p \in Requests \ {r} : req'[p] = req[p],
         RequestInv(r)'
  PROVE  ServerInv'
<1>1. /\ CoordInv'
      /\ \A p \in Requests \ {r} : leaseOf'[p] = leaseOf[p] /\ call'[p] = call[p]
  BY MovesFacts DEF ServerInv
<1>2. ServerTypeOK'
  BY <1>1 DEF CoordInv, ServerTypeOK, StoreType
<1>3. ASSUME NEW p \in Requests \ {r} PROVE RequestInv(p)'
  <2>1. req'[p] = req[p] /\ leaseOf'[p] = leaseOf[p] /\ AskedBack(p)' = AskedBack(p)
    BY <1>1 DEF AskedBack
  <2>2. RequestInv(p)
    BY DEF ServerInv
  <2> QED BY <2>1, <2>2 DEF RequestInv, Addressed, Leased, Staged
<1> QED BY <1>1, <1>2, <1>3 DEF ServerInv

\* Acquiring a lease, or calling release.
LEMMA LeaseFacts ==
  ASSUME CoordInv, NEW r \in Requests
  PROVE  /\ \A t \in Threads : Acquire(r, t) => leaseOf'[r] = t /\ ~ AskedBack(r)'
         /\ \A c \in Callers : ReleaseCall(r, c) \/ ReleaseNoop(r, c) => leaseOf'[r] = leaseOf[r]
         /\ UNCHANGED coordVars => leaseOf' = leaseOf /\ AskedBack(r)' = AskedBack(r)
<1>1. ASSUME NEW t \in Threads, Acquire(r, t) PROVE leaseOf'[r] = t /\ ~ AskedBack(r)'
  BY <1>1 DEF Acquire, AskedBack, CoordInv, CoordTypeOK, NoLeaseNoCalls
<1>2. ASSUME NEW c \in Callers, ReleaseCall(r, c) \/ ReleaseNoop(r, c)
      PROVE  leaseOf'[r] = leaseOf[r]
  BY <1>2 DEF ReleaseCall, ReleaseNoop
<1>3. UNCHANGED coordVars => leaseOf' = leaseOf /\ AskedBack(r)' = AskedBack(r)
  BY DEF coordVars, AskedBack
<1> QED BY <1>1, <1>2, <1>3


\* Nothing of a request is under way where a stretch begins.
LEMMA EarlyIdle ==
  ASSUME NEW r \in Requests, Early(r)
  PROVE  CoordInv /\ Idle(req[r]) /\ (leaseOf[r] # NoThread => ~ AskedBack(r))
<1>1. RequestInv(r) /\ CoordInv
  BY DEF Early, ServerInv
<1> QED BY <1>1 DEF Early, RequestInv, Leased, Staged, Looking

\* Whether it had its lease or acquires it now, it has the lease afterwards.
LEMMA SecuresFacts ==
  ASSUME NEW r \in Requests, Early(r), Secures(r)
  PROVE  Moves(r) /\ leaseOf'[r] = req[r].thread /\ ~ AskedBack(r)'
<1>1. CASE leaseOf[r] # NoThread /\ UNCHANGED coordVars
  BY <1>1, EarlyFacts, EarlyIdle, LeaseFacts DEF Moves
<1>2. CASE leaseOf[r] = NoThread /\ Acquire(r, req[r].thread)
  BY <1>2, EarlyFacts, EarlyIdle, LeaseFacts DEF Moves
<1> QED BY <1>1, <1>2 DEF Secures

\* The store holds records after a stretch.
LEMMA OutcomeStore ==
  ASSUME NEW r \in Requests, Early(r), NEW s \in StoreType, Outcome(r, s)
  PROVE  store' \in StoreType
<1>1. CASE Claims(r, s)
  BY <1>1, EarlyFacts, ClaimedFacts DEF Claims
<1>2. CASE ~ Claims(r, s)
  BY <1>2 DEF Outcome, Leaves, Waits, Works
<1> QED BY <1>1, <1>2

\* Every stretch of a handler preserves the invariant.
LEMMA StretchKeepsInv ==
  ASSUME NEW r \in Requests, ServerInv, Stretch(r)
  PROVE  ServerInv'
<1>1. PICK s \in StoreType : Opening(r, s) /\ Outcome(r, s)
  BY StretchOutcome
<1>2. Early(r) /\ UNCHANGED cpOwner /\ Keeps(r) /\ store' \in StoreType
  BY <1>1, StretchOutcome, OutcomeStore DEF Outcome
<1>3. /\ CoordInv /\ Idle(req[r]) /\ ServerTypeOK /\ req[r].thread \in Threads
      /\ req[r].kind \in RunKinds => req[r].assistant \in Assistants
      /\ leaseOf[r] # NoThread => leaseOf[r] = req[r].thread
  BY <1>2, EarlyFacts, EarlyIdle
<1>4. /\ req'[r].kind = req[r].kind /\ req'[r].thread = req[r].thread
      /\ ~ req'[r].inner /\ ~ req'[r].eraser /\ ~ req'[r].erase /\ ~ req'[r].background
      /\ req'[r].work # "live" => Idle(req'[r])
  BY <1>1, <1>2, <1>3 DEF Keeps, Idle, Outcome, Leaves, Waits, Claims, Works
<1>5. CASE Leaves(r, s)
  <2>1. Moves(r) /\ leaseOf'[r] = leaseOf[r]
    BY <1>3, <1>5, LeaseFacts DEF Leaves, Moves, Callers
  <2>2. RequestInv(r)'
    BY <1>2, <1>3, <1>4, <1>5, <2>1 DEF RequestInv, Addressed, Leased, Staged, Leaves, Keeps, Idle,
       Looking, Holding, LooksUp
  <2> QED BY <1>2, <1>3, <2>1, <2>2, LocalStep DEF Keeps, ServerTypeOK
<1>6. CASE Waits(r, s)
  <2>1. /\ Moves(r)
        /\ IF req[r].kind = "update" /\ req'[r].pc \in Looking
           THEN leaseOf'[r] = req[r].thread /\ ~ AskedBack(r)'
           ELSE leaseOf'[r] = NoThread
    BY <1>2, <1>3, <1>6, SecuresFacts, LeaseFacts DEF Waits, Moves, Looking
  <2>2. RequestInv(r)'
    BY <1>2, <1>3, <1>4, <1>6, <2>1 DEF RequestInv, Addressed, Leased, Staged, Waits, Keeps, Idle,
       Looking, Holding
  <2> QED BY <1>2, <1>3, <2>1, <2>2, LocalStep DEF Keeps, ServerTypeOK
<1>7. CASE Claims(r, s)
  <2>1. /\ Moves(r) /\ (leaseOf'[r] # NoThread => leaseOf'[r] = req[r].thread)
        /\ req'[r].pc \in Holding => leaseOf'[r] = req[r].thread /\ ~ AskedBack(r)'
    BY <1>3, <1>7, LeaseFacts DEF Claims, Moves, Holding
  <2>2. RequestInv(r)'
    BY <1>2, <1>3, <1>4, <1>7, <2>1 DEF RequestInv, Addressed, Leased, Staged, Claims, Keeps, Idle,
       Looking, LooksUp, RunKinds, Streaming
  <2> QED BY <1>2, <1>3, <2>1, <2>2, LocalStep DEF Keeps, ServerTypeOK
<1>8. CASE Works(r, s)
  <2>1. Moves(r) /\ leaseOf'[r] = req[r].thread /\ ~ AskedBack(r)'
    BY <1>2, <1>8, SecuresFacts DEF Works
  <2>2. RequestInv(r)'
    BY <1>2, <1>3, <1>4, <1>8, <2>1 DEF RequestInv, Addressed, Leased, Staged, Works, Keeps, Idle,
       Looking, LooksUp, Holding, Streaming
  <2> QED BY <1>2, <1>3, <2>1, <2>2, LocalStep DEF Keeps, ServerTypeOK
<1> QED BY <1>1, <1>5, <1>6, <1>7, <1>8 DEF Outcome


-----------------------------------------------------------------------------
(***************************************************************************)
(* The other steps of a request.                                           *)
(***************************************************************************)

\* A step of r changes neither what it asks for nor the other requests.
Advances(r) ==
  /\ req' \in [Requests -> RequestRecord]
  /\ \A p \in Requests \ {r} : req'[p] = req[p]
  /\ req'[r].kind = req[r].kind /\ req'[r].thread = req[r].thread
  /\ req'[r].assistant = req[r].assistant

\* _set_thread_status leaves records.
LEMMA WithStatusFacts ==
  ASSUME NEW s \in StoreType, NEW t \in Threads, NEW status \in {"idle", "busy"}
  PROVE  /\ WithStatus(s, t, status) \in StoreType
         /\ \A u \in Threads : /\ OwnerIn(WithStatus(s, t, status), u) = OwnerIn(s, u)
                               /\ WithStatus(s, t, status)[u] = Absent <=> s[u] = Absent
         /\ WithStatus(s, t, status)[t] # Absent => WithStatus(s, t, status)[t].status = status
         /\ \A u \in Threads \ {t} : WithStatus(s, t, status)[u] = s[u]
<1>1. CASE s[t] = Absent
  BY <1>1 DEF WithStatus
<1>2. CASE s[t] # Absent
  <2>1. WithStatus(s, t, status) = WithThread(s, t, status)
    BY <1>2 DEF WithStatus
  <2>2. /\ WithThread(s, t, status) \in StoreType
        /\ WithThread(s, t, status)[t] # Absent
        /\ WithThread(s, t, status)[t].status = status
        /\ \A u \in Threads : OwnerIn(WithThread(s, t, status), u) = OwnerIn(s, u)
        /\ \A u \in Threads \ {t} : WithThread(s, t, status)[u] = s[u]
    <3>1. WithThread(s, t, status) \in StoreType
      BY WithThreadFacts
    <3>2. WithThread(s, t, status)[t] # Absent
      BY WithThreadFacts
    <3>3. WithThread(s, t, status)[t].status = status
      BY DEF WithThread, StoreType
    <3>4. /\ WithThread(s, t, status)[t] = [status |-> status, owner |-> OwnerIn(s, t)]
          /\ \A u \in Threads \ {t} : WithThread(s, t, status)[u] = s[u]
      BY DEF WithThread, StoreType
    <3>5. ASSUME NEW u \in Threads
          PROVE  OwnerIn(WithThread(s, t, status), u) = OwnerIn(s, u)
      <4>1. CASE u = t
        BY <3>2, <3>4, <4>1 DEF OwnerIn
      <4>2. CASE u # t
        BY <3>4, <4>2 DEF OwnerIn
      <4> QED BY <4>1, <4>2
    <3> QED BY <3>1, <3>2, <3>3, <3>4, <3>5
  <2>3. \A u \in Threads : WithThread(s, t, status)[u] = Absent <=> s[u] = Absent
    BY <1>2, <2>2
  <2> QED BY <2>1, <2>2, <2>3
<1> QED BY <1>1, <1>2

\* The arrival of a request.
LEMMA ArriveKeepsInv ==
  ASSUME ServerInv, NEW r \in Requests, NEW kind \in Kinds, NEW t \in Threads,
         NEW a \in Assistants \cup {NoAssistant}, Arrive(r, kind, t, a)
  PROVE  ServerInv'
<1> DEFINE n == FreshRequest(kind, t, a)
<1>1. /\ n \in RequestRecord /\ n.pc = "arrived" /\ n.kind = kind /\ n.thread = t
      /\ n.assistant = a /\ Idle(n)
  BY KindsAssumption DEF FreshRequest, RequestRecord, Pcs, WorkStates, Idle
<1>2. /\ req' \in [Requests -> RequestRecord] /\ req'[r] = n
      /\ \A p \in Requests \ {r} : req'[p] = req[p]
  BY <1>1 DEF Arrive, ServerInv, ServerTypeOK
<1>3. UNCHANGED <<coordVars, store, cpOwner>> /\ Moves(r)
  BY DEF Arrive, Moves
<1>4. leaseOf'[r] = NoThread
  <2>1. req[r].pc = "none" /\ Leased(r)
    BY DEF Arrive, NoRequestYet, ServerInv, RequestInv
  <2> QED BY <1>3, <2>1 DEF Leased, coordVars
<1>5. RequestInv(r)'
  BY <1>1, <1>2, <1>4 DEF RequestInv, Addressed, Leased, Staged, Idle, Looking, Holding,
     LooksUp, Arrive
<1> QED BY <1>2, <1>3, <1>5, LocalStep DEF ServerInv, ServerTypeOK, StoreType

\* The facts about request r that its steps start from.
LEMMA StepFacts ==
  ASSUME ServerInv, NEW r \in Requests
  PROVE  /\ RequestInv(r) /\ req[r] \in RequestRecord /\ store \in StoreType /\ CoordInv
         /\ req \in [Requests -> RequestRecord]
         /\ cpOwner \in [Threads -> Assistants \cup {NoCheckpoint}]
         /\ req[r].pc # "none" => req[r].thread \in Threads
BY DEF ServerInv, ServerTypeOK, RequestInv, Addressed, StoreType

\* A worker thread at the checkpointer, which the coordinator and the thread
\* store see nothing of: a lookup, a graph's checkpoint, an update, a deletion.
LEMMA CheckpointerKeepsInv ==
  ASSUME ServerInv, NEW r \in Requests,
         SaverRead(r) \/ GraphWrite(r) \/ Worker(r) \/ Erases(r)
  PROVE  ServerInv'
<1> USE StepFacts
<1>1. UNCHANGED <<coordVars, store>> /\ Moves(r)
  BY DEF SaverRead, GraphWrite, Worker, Erases, Moves
<1>2. leaseOf' = leaseOf /\ AskedBack(r)' = AskedBack(r)
  BY <1>1, LeaseFacts
<1>3. req[r].pc # "none" /\ req[r].thread \in Threads
  BY DEF SaverRead, GraphWrite, Worker, Erases, RequestInv, Addressed, Staged, Idle
<1>4. /\ Advances(r)
      /\ req'[r].pc = req[r].pc /\ req'[r].work \in {req[r].work, "none"}
      /\ req'[r].inner = req[r].inner /\ req'[r].eraser = req[r].eraser
      /\ req'[r].erase => req[r].erase
      /\ req'[r].background = req[r].background
  <2>1. CASE SaverRead(r)
    <3>1. cpOwner[req[r].thread] \in Assistants \cup {NoCheckpoint, Unread}
      BY <1>3
    <3> QED BY <2>1, <3>1 DEF SaverRead, RequestRecord, Advances
  <2>2. CASE GraphWrite(r)
    BY <2>2 DEF GraphWrite, Advances
  <2>3. CASE Worker(r)
    BY <2>3 DEF Worker, RequestRecord, WorkStates, Advances
  <2>4. CASE Erases(r)
    <3> DEFINE n == [req[r] EXCEPT !.erase = FALSE]
    <3>1. n \in RequestRecord
      BY DEF RequestRecord
    <3>2. /\ n.kind = req[r].kind /\ n.thread = req[r].thread
          /\ n.assistant = req[r].assistant /\ n.pc = req[r].pc /\ n.work = req[r].work
          /\ n.inner = req[r].inner /\ n.eraser = req[r].eraser /\ n.erase = FALSE
          /\ n.background = req[r].background
      BY DEF RequestRecord
    <3>3. req' = [req EXCEPT ![r] = n]
      BY <2>4 DEF Erases
    <3> HIDE DEF n
    <3>4. /\ req' \in [Requests -> RequestRecord] /\ req'[r] = n
          /\ \A p \in Requests \ {r} : req'[p] = req[p]
      BY <3>1, <3>3, RecordReplaced
    <3> QED BY <3>2, <3>4 DEF Advances
  <2> QED BY <2>1, <2>2, <2>3, <2>4
<1>5. cpOwner' \in [Threads -> Assistants \cup {NoCheckpoint}]
  BY <1>3 DEF SaverRead, GraphWrite, Worker, Erases, RequestInv, Addressed
<1>6. RequestInv(r)'
  BY <1>2, <1>4 DEF Advances, RequestInv, Addressed, Leased, Staged, Idle
<1> QED BY <1>1, <1>4, <1>5, <1>6, LocalStep DEF Advances


\* A step of a handler that has passed its lookups: it may go on under the
\* lease it has or come to its release.
LEMMA AdvanceStep ==
  ASSUME ServerInv, NEW r \in Requests, Advances(r), Moves(r), store' \in StoreType,
         UNCHANGED cpOwner, leaseOf'[r] = leaseOf[r], req[r].pc # "none",
         req'[r].pc \notin {"none", "arrived", "exists"} \cup Looking,
         req'[r].pc \in Holding => req[r].pc \in Holding /\ AskedBack(r)' = AskedBack(r),
         req'[r].work # "none" => req[r].work # "none" \/ req[r].kind \in RunKinds,
         Staged(r)'
  PROVE  ServerInv'
<1>1. RequestInv(r) /\ cpOwner' \in [Threads -> Assistants \cup {NoCheckpoint}]
  BY StepFacts
<1>2. Addressed(r)'
  BY <1>1 DEF Advances, RequestInv, Addressed
<1>3. Leased(r)'
  BY <1>1 DEF Advances, RequestInv, Leased
<1> QED BY <1>1, <1>2, <1>3, LocalStep DEF RequestInv, Advances

\* A stream between its generator's start and its last event.
LEMMA StreamKeepsInv ==
  ASSUME ServerInv, NEW r \in Requests,
         StreamStarts(r) \/ StreamRuns(r) \/ StreamYields(r) \/ StreamContinues(r)
  PROVE  ServerInv'
<1> USE StepFacts
<1>1. UNCHANGED coordVars /\ UNCHANGED cpOwner /\ Moves(r)
  BY DEF StreamStarts, StreamRuns, StreamYields, StreamContinues, Moves
<1>2. leaseOf' = leaseOf /\ AskedBack(r)' = AskedBack(r)
  BY <1>1, LeaseFacts
<1>3. /\ req[r].pc \in {"granted", "metadata", "graph", "event"}
      /\ req[r].kind \in Streaming /\ req[r].thread \in Threads
  BY DEF StreamStarts, StreamRuns, StreamYields, StreamContinues, RequestInv, Staged
<1>4. store' \in StoreType
  BY <1>3, WithStatusFacts DEF StreamStarts, StreamRuns, StreamYields, StreamContinues
<1>5. /\ Advances(r) /\ req'[r].pc \in {"metadata", "graph", "event"}
      /\ req'[r].work = "live" => req'[r].pc \in {"graph", "event"}
      /\ req'[r].inner <=> req'[r].pc \in {"graph", "event"}
      /\ req'[r].eraser => req[r].kind = "stateless"
      /\ req'[r].erase => req[r].erase
      /\ req'[r].background = req[r].background
  <2>1. CASE StreamStarts(r)
    <3> DEFINE wiped == req[r].kind = "stateless"
    <3>1. /\ Advances(r) /\ req'[r].pc = "metadata" /\ req'[r].work = req[r].work
          /\ req'[r].inner = req[r].inner /\ req'[r].eraser = wiped
          /\ req'[r].erase = req[r].erase /\ req'[r].background = req[r].background
      <4>0. wiped \in BOOLEAN /\ "metadata" \in Pcs
        BY DEF Pcs
      <4> DEFINE n == [req[r] EXCEPT !.pc = "metadata", !.eraser = wiped]
      <4>1. n \in RequestRecord
        BY <4>0 DEF RequestRecord
      <4>2. /\ n.pc = "metadata" /\ n.eraser = wiped
            /\ n.kind = req[r].kind /\ n.thread = req[r].thread
            /\ n.assistant = req[r].assistant /\ n.work = req[r].work
            /\ n.inner = req[r].inner /\ n.erase = req[r].erase
            /\ n.background = req[r].background
        BY DEF RequestRecord
      <4>3. req' = [req EXCEPT ![r] = n]
        BY <2>1 DEF StreamStarts
      <4> HIDE DEF n
      <4>4. /\ req' \in [Requests -> RequestRecord] /\ req'[r] = n
            /\ \A p \in Requests \ {r} : req'[p] = req[p]
        BY <4>1, <4>3, RecordReplaced
      <4> QED BY <4>2, <4>4 DEF Advances
    <3>2. Idle(req[r])
      BY <2>1 DEF StreamStarts, RequestInv, Staged
    <3> QED BY <3>1, <3>2 DEF Idle
  <2>2. CASE StreamRuns(r)
    <3>1. PICK pc \in {"graph", "event"}, work \in {"live", req[r].work} :
            /\ req' = [req EXCEPT ![r].pc = pc, ![r].work = work, ![r].inner = TRUE]
            /\ pc = "event" => work = req[r].work
      <4>1. CASE req' = [req EXCEPT ![r].pc = "graph", ![r].work = "live", ![r].inner = TRUE]
        BY <4>1
      <4>2. CASE req' = [req EXCEPT ![r].pc = "event", ![r].inner = TRUE]
        <5>1. req' = [req EXCEPT ![r].pc = "event", ![r].work = req[r].work, ![r].inner = TRUE]
          BY <4>2 DEF RequestRecord
        <5> QED BY <5>1
      <4> QED BY <2>2, <4>1, <4>2 DEF StreamRuns
    <3>2. /\ Advances(r) /\ req'[r].pc = pc /\ req'[r].work = work /\ req'[r].inner = TRUE
          /\ req'[r].eraser = req[r].eraser /\ req'[r].erase = req[r].erase
          /\ req'[r].background = req[r].background
      <4>0. pc \in Pcs /\ work \in WorkStates /\ TRUE \in BOOLEAN
        BY DEF Pcs, WorkStates, RequestRecord
      <4> DEFINE n == [req[r] EXCEPT !.pc = pc, !.work = work, !.inner = TRUE]
      <4>1. n \in RequestRecord
        BY <4>0 DEF RequestRecord
      <4>2. /\ n.pc = pc /\ n.work = work /\ n.inner = TRUE
            /\ n.kind = req[r].kind /\ n.thread = req[r].thread
            /\ n.assistant = req[r].assistant /\ n.eraser = req[r].eraser
            /\ n.erase = req[r].erase /\ n.background = req[r].background
        BY DEF RequestRecord
      <4>3. req' = [req EXCEPT ![r] = n]
        BY <3>1
      <4> HIDE DEF n
      <4>4. /\ req' \in [Requests -> RequestRecord] /\ req'[r] = n
            /\ \A p \in Requests \ {r} : req'[p] = req[p]
        BY <4>1, <4>3, RecordReplaced
      <4> QED BY <4>2, <4>4 DEF Advances
    <3> QED BY <3>2 DEF RequestInv, Staged
  <2>3. CASE StreamYields(r)
    BY <2>3 DEF StreamYields, RequestRecord, Pcs, WorkStates, Advances, RequestInv, Staged
  <2>4. CASE StreamContinues(r)
    BY <2>4 DEF StreamContinues, RequestRecord, Pcs, Advances, RequestInv, Staged
  <2> QED BY <2>1, <2>2, <2>3, <2>4
<1>6. Staged(r)'
  BY <1>3, <1>5 DEF Staged, Advances, RequestInv, Looking, LooksUp, RunKinds
<1> QED BY <1>1, <1>2, <1>3, <1>4, <1>5, <1>6, AdvanceStep DEF Looking, Holding, RunKinds

\* What is cancelled is not live any more.
LEMMA RemainsFacts ==
  ASSUME NEW work \in WorkStates, NEW left \in Remains(work)
  PROVE  left \in WorkStates /\ left # "live" /\ (left # "none" => work # "none")
BY DEF Remains, WorkStates

\* The generators of a stream unwind.
LEMMA UnwindKeepsInv ==
  ASSUME ServerInv, NEW r \in Requests, req[r].pc \in {"graph", "event", "failed"},
         NEW left \in WorkStates, left # "live", left # "none" => req[r].work # "none",
         NEW pc \in {"erasing", "expiring", "failed", "cleanup"},
         Unwind(r, left, pc), UNCHANGED cpOwner
  PROVE  ServerInv'
<1> USE StepFacts
<1>1. /\ Moves(r) /\ leaseOf'[r] = leaseOf[r]
      /\ pc # "cleanup" => AskedBack(r)' = AskedBack(r)
  BY LeaseFacts DEF Unwind, Moves, Callers
<1>2. store' \in StoreType
  BY WithStatusFacts DEF Unwind
<1>3. /\ Advances(r) /\ req'[r].pc = pc /\ req'[r].work = left /\ ~ req'[r].inner
      /\ ~ req'[r].eraser /\ (req'[r].erase => req[r].erase \/ req[r].eraser)
      /\ req'[r].background = req[r].background
  <2> DEFINE q == req[r]
             n == [q EXCEPT !.pc = pc, !.work = left, !.inner = FALSE, !.eraser = FALSE,
                            !.erase = q.erase \/ q.eraser]
  <2>1. (q.erase \/ q.eraser) \in BOOLEAN /\ pc \in Pcs
    BY DEF Pcs
  <2>2. /\ n \in RequestRecord /\ n.pc = pc /\ n.work = left /\ n.inner = FALSE
        /\ n.eraser = FALSE /\ n.erase = (q.erase \/ q.eraser)
        /\ n.background = q.background
        /\ n.kind = q.kind /\ n.thread = q.thread /\ n.assistant = q.assistant
    BY <2>1 DEF RequestRecord
  <2>3. req' = [req EXCEPT ![r] = n]
    BY DEF Unwind
  <2>4. req' \in [Requests -> RequestRecord] /\ req'[r] = n
        /\ \A p \in Requests \ {r} : req'[p] = req[p]
    BY <2>2, <2>3
  <2> QED BY <2>2, <2>4 DEF Advances
<1>4. Staged(r)'
  BY <1>3 DEF Staged, Advances, RequestInv, Looking, LooksUp
<1> QED BY <1>1, <1>2, <1>3, <1>4, AdvanceStep DEF Looking, Holding

\* A handler that is within no generator comes to its release.
LEMMA CleanupKeepsInv ==
  ASSUME ServerInv, NEW r \in Requests, req[r].pc \in Holding,
         req[r].pc \in {"graph", "event", "metadata"} => req[r].kind = "run",
         Advances(r), req'[r].pc = "cleanup", req'[r].work # "live",
         req'[r].work # "none" => req[r].work # "none",
         req'[r].inner = req[r].inner, req'[r].eraser = req[r].eraser,
         req'[r].erase = req[r].erase, req'[r].background = req[r].background,
         ReleaseCall(r, "cleanup"), store' \in StoreType, UNCHANGED cpOwner
  PROVE  ServerInv'
<1> USE StepFacts
<1>1. Moves(r) /\ leaseOf'[r] = leaseOf[r]
  BY LeaseFacts DEF Moves, Callers
<1>2. ~ req[r].inner /\ ~ req[r].eraser /\ ~ req[r].background
  BY DEF RequestInv, Staged, Holding, Streaming
<1>3. Staged(r)'
  BY <1>2 DEF Staged, Advances, RequestInv, Looking, LooksUp
<1> QED BY <1>1, <1>3, AdvanceStep DEF Looking, Holding

\* Updates, deletions and runs end.
LEMMA WorkEndsKeepsInv ==
  ASSUME ServerInv, NEW r \in Requests, WorkerDone(r) \/ WorkerFails(r) \/ InvokeEnds(r)
  PROVE  ServerInv'
<1> USE StepFacts
<1>1. /\ UNCHANGED cpOwner /\ req[r].pc \in Holding /\ req[r].thread \in Threads
      /\ req[r].pc \in {"graph", "event", "metadata"} => req[r].kind = "run"
  BY DEF WorkerDone, WorkerFails, InvokeEnds, Holding
<1>2. leaseOf[r] # NoThread
  BY <1>1, SentinelAssumption DEF RequestInv, Leased
<1>3. ReleaseCall(r, "cleanup")
  BY <1>2 DEF WorkerDone, WorkerFails, InvokeEnds, Leave, Suspend
<1>4. store' \in StoreType
  BY <1>1, <1>2 DEF WorkerDone, WorkerFails, InvokeEnds, Leave, Suspend, StoreType
<1>5. /\ Advances(r) /\ req'[r].pc = "cleanup" /\ req'[r].work = "none"
      /\ req'[r].inner = req[r].inner /\ req'[r].eraser = req[r].eraser
      /\ req'[r].erase = req[r].erase /\ req'[r].background = req[r].background
  <2>1. "cleanup" \in Pcs /\ "none" \in WorkStates
    BY DEF Pcs, WorkStates
  <2>2. CASE WorkerDone(r)
    <3>1. Suspended(r, "cleanup") /\ req[r].work = "none"
      BY <1>2, <2>2 DEF WorkerDone, Leave, Suspend, Suspended
    <3>2. /\ Keeps(r) /\ req'[r].pc = "cleanup"
          /\ req'[r].assistant = req[r].assistant /\ req'[r].work = req[r].work
      BY <2>1, <3>1, SuspendKeeps DEF ServerInv
    <3> QED BY <3>1, <3>2 DEF Keeps, Advances
  <2>3. CASE WorkerFails(r) \/ InvokeEnds(r)
    <3> DEFINE n == [req[r] EXCEPT !.pc = "cleanup", !.work = "none"]
    <3>1. n \in RequestRecord
      BY <2>1 DEF RequestRecord
    <3>2. /\ n.pc = "cleanup" /\ n.work = "none"
          /\ n.kind = req[r].kind /\ n.thread = req[r].thread
          /\ n.assistant = req[r].assistant /\ n.inner = req[r].inner
          /\ n.eraser = req[r].eraser /\ n.erase = req[r].erase
          /\ n.background = req[r].background
      BY DEF RequestRecord
    <3>3. req' = [req EXCEPT ![r] = n]
      BY <2>3 DEF WorkerFails, InvokeEnds
    <3> HIDE DEF n
    <3>4. /\ req' \in [Requests -> RequestRecord] /\ req'[r] = n
          /\ \A p \in Requests \ {r} : req'[p] = req[p]
      BY <3>1, <3>3, RecordReplaced
    <3> QED BY <3>2, <3>4 DEF Advances
  <2> QED BY <2>2, <2>3
<1> QED BY <1>1, <1>3, <1>4, <1>5, CleanupKeepsInv


\* The last event of a stream was sent.
LEMMA StreamEndsKeepsInv ==
  ASSUME ServerInv, NEW r \in Requests, StreamEnds(r)
  PROVE  ServerInv'
<1>1. /\ req[r].pc \in {"event", "failed"} /\ req[r].work # "live" /\ req[r].work \in WorkStates
      /\ Unwind(r, req[r].work, IF req[r].eraser THEN "erasing" ELSE "cleanup")
      /\ UNCHANGED cpOwner
  BY StepFacts DEF StreamEnds, RequestInv, Staged, RequestRecord
<1> QED BY <1>1, UnwindKeepsInv

\* A request moves on, with the lease it has and with nothing but its place,
\* and its background task, changed.
LEMMA DropKeepsInv ==
  ASSUME ServerInv, NEW r \in Requests, NEW pc \in {"failed", "abandoned", "done"},
         NEW b \in BOOLEAN,
         \/ req' = [req EXCEPT ![r].pc = pc] /\ b = req[r].background
         \/ req' = [req EXCEPT ![r].pc = pc, ![r].background = b],
         CASE pc = "failed" -> req[r].pc \in {"erasing", "expiring"}
           [] pc = "abandoned" ->
                req[r].kind \in Streaming /\ req[r].pc \in {"metadata", "event", "failed"}
           [] pc = "done" -> req[r].pc \in {"granted", "cleanup"},
         b => pc # "failed",
         \/ UNCHANGED coordVars
         \/ pc = "done" /\ ReleaseCancelled(r, "cleanup"),
         UNCHANGED <<store, cpOwner>>
  PROVE  ServerInv'
<1> USE StepFacts
<1>1. /\ Advances(r) /\ req'[r].pc = pc /\ req'[r].work = req[r].work
      /\ req'[r].inner = req[r].inner /\ req'[r].eraser = req[r].eraser
      /\ req'[r].erase = req[r].erase /\ req'[r].background = b
  BY DEF Advances, RequestRecord, Pcs
<1>2. /\ Moves(r) /\ leaseOf'[r] = leaseOf[r]
      /\ pc # "done" => AskedBack(r)' = AskedBack(r)
  BY LeaseFacts DEF Moves, Callers, ReleaseCancelled
<1>3. /\ req[r].pc \in {"erasing", "expiring", "metadata", "event", "failed", "granted", "cleanup"}
      /\ pc = "abandoned" => req[r].kind \in Streaming
      /\ pc = "failed" => req[r].pc \in Holding
      /\ req[r].pc \in {"metadata", "event"} => pc = "abandoned"
  BY DEF Holding
<1>4. Staged(r)'
  BY <1>1, <1>3 DEF Staged, Advances, RequestInv, Looking, LooksUp
<1> QED BY <1>1, <1>2, <1>3, <1>4, AdvanceStep DEF Looking, Holding

\* A stateless stream resumes after the deletion of its checkpoints.
LEMMA ErasedKeepsInv ==
  ASSUME ServerInv, NEW r \in Requests, Erased(r)
  PROVE  ServerInv'
<1> USE StepFacts
<1>1. CASE /\ req[r].pc = "erasing" /\ req' = [req EXCEPT ![r].pc = "cleanup"]
           /\ ReleaseCall(r, "cleanup")
  <2>1. /\ Advances(r) /\ req'[r].pc = "cleanup" /\ req'[r].work = req[r].work
        /\ req'[r].inner = req[r].inner /\ req'[r].eraser = req[r].eraser
        /\ req'[r].erase = req[r].erase /\ req'[r].background = req[r].background
    BY <1>1 DEF RequestRecord, Pcs, Advances
  <2>2. req[r].work # "live" /\ UNCHANGED <<store, cpOwner>>
    BY <1>1 DEF RequestInv, Staged, Erased
  <2> QED BY <1>1, <2>1, <2>2, CleanupKeepsInv DEF Holding
<1>2. CASE /\ req[r].pc = "expiring" /\ req' = [req EXCEPT ![r].pc = "failed"]
           /\ UNCHANGED coordVars
  <2>1. ~ req[r].background /\ req[r].background \in BOOLEAN /\ UNCHANGED <<store, cpOwner>>
    BY <1>2 DEF RequestInv, Staged, Erased, RequestRecord
  <2> QED BY <1>2, <2>1, DropKeepsInv
<1> QED BY <1>1, <1>2 DEF Erased

\* A timeout, wherever the task waits.
LEMMA TimesOutKeepsInv ==
  ASSUME ServerInv, NEW r \in Requests, TimesOut(r)
  PROVE  ServerInv'
<1> USE StepFacts
<1>1. UNCHANGED cpOwner /\ req[r].work \in WorkStates /\ req[r].background \in BOOLEAN
  BY DEF TimesOut, RequestRecord
<1>2. CASE /\ (req[r].pc = "graph" /\ req[r].kind = "run") \/ req[r].pc = "working"
           /\ \E left \in Remains(req[r].work) :
                 req' = [req EXCEPT ![r].pc = "cleanup", ![r].work = left]
           /\ ReleaseCall(r, "cleanup") /\ UNCHANGED store
  <2>1. PICK left \in Remains(req[r].work) :
               req' = [req EXCEPT ![r].pc = "cleanup", ![r].work = left]
    BY <1>2
  <2>2. left \in WorkStates /\ left # "live" /\ (left # "none" => req[r].work # "none")
    BY <1>1, RemainsFacts
  <2>3. /\ Advances(r) /\ req'[r].pc = "cleanup" /\ req'[r].work = left
        /\ req'[r].inner = req[r].inner /\ req'[r].eraser = req[r].eraser
        /\ req'[r].erase = req[r].erase /\ req'[r].background = req[r].background
    BY <2>1, <2>2 DEF RequestRecord, Pcs, Advances
  <2> QED BY <1>1, <1>2, <2>2, <2>3, CleanupKeepsInv DEF Holding
<1>3. CASE /\ req[r].pc = "graph" /\ req[r].kind \in Streaming
           /\ \E left \in Remains(req[r].work) :
                 Unwind(r, left, IF req[r].eraser THEN "expiring" ELSE "failed")
  <2>1. PICK left \in Remains(req[r].work) :
               Unwind(r, left, IF req[r].eraser THEN "expiring" ELSE "failed")
    BY <1>3
  <2>2. left \in WorkStates /\ left # "live" /\ (left # "none" => req[r].work # "none")
    BY <1>1, RemainsFacts
  <2> QED BY <1>1, <1>3, <2>1, <2>2, UnwindKeepsInv
<1>4. CASE /\ req[r].pc = "erasing" /\ req' = [req EXCEPT ![r].pc = "failed"]
           /\ UNCHANGED <<coordVars, store>>
  <2>1. ~ req[r].background
    BY <1>4 DEF RequestInv, Staged
  <2> QED BY <1>1, <1>4, <2>1, DropKeepsInv
<1>5. CASE /\ req[r].pc \in {"metadata", "event"} /\ req' = [req EXCEPT ![r].pc = "abandoned"]
           /\ UNCHANGED <<coordVars, store>>
  <2>1. req[r].kind \in Streaming
    BY <1>5 DEF RequestInv, Staged
  <2> QED BY <1>1, <1>5, <2>1, DropKeepsInv
<1> QED BY <1>2, <1>3, <1>4, <1>5 DEF TimesOut

\* A client goes away.
LEMMA DisconnectsKeepsInv ==
  ASSUME ServerInv, NEW r \in Requests, Disconnects(r)
  PROVE  ServerInv'
<1> USE StepFacts
<1>1. UNCHANGED cpOwner /\ req[r].kind \in Streaming /\ req[r].work \in WorkStates
  BY DEF Disconnects, RequestRecord
<1>2. CASE /\ req[r].pc = "granted"
           /\ req' = [req EXCEPT ![r].pc = "done", ![r].background = TRUE]
           /\ UNCHANGED <<coordVars, store>>
  BY <1>1, <1>2, DropKeepsInv
<1>3. CASE req[r].pc = "graph" /\ \E left \in Remains(req[r].work) : Unwind(r, left, "cleanup")
  <2>1. PICK left \in Remains(req[r].work) : Unwind(r, left, "cleanup")
    BY <1>3
  <2>2. left \in WorkStates /\ left # "live" /\ (left # "none" => req[r].work # "none")
    BY <1>1, RemainsFacts
  <2> QED BY <1>1, <1>3, <2>1, <2>2, UnwindKeepsInv
<1>4. CASE /\ req[r].pc \in {"erasing", "expiring"} /\ req' = [req EXCEPT ![r].pc = "cleanup"]
           /\ ReleaseCall(r, "cleanup") /\ UNCHANGED store
  <2>1. /\ Advances(r) /\ req'[r].pc = "cleanup" /\ req'[r].work = req[r].work
        /\ req'[r].inner = req[r].inner /\ req'[r].eraser = req[r].eraser
        /\ req'[r].erase = req[r].erase /\ req'[r].background = req[r].background
    <3>0. "cleanup" \in Pcs
      BY DEF Pcs
    <3> DEFINE n == [req[r] EXCEPT !.pc = "cleanup"]
    <3>1. n \in RequestRecord
      BY <3>0 DEF RequestRecord
    <3>2. /\ n.pc = "cleanup"
          /\ n.kind = req[r].kind /\ n.thread = req[r].thread
          /\ n.assistant = req[r].assistant /\ n.work = req[r].work
          /\ n.inner = req[r].inner /\ n.eraser = req[r].eraser
          /\ n.erase = req[r].erase /\ n.background = req[r].background
      BY DEF RequestRecord
    <3>3. req' = [req EXCEPT ![r] = n]
      BY <1>4
    <3> HIDE DEF n
    <3>4. /\ req' \in [Requests -> RequestRecord] /\ req'[r] = n
          /\ \A p \in Requests \ {r} : req'[p] = req[p]
      BY <3>1, <3>3, RecordReplaced
    <3> QED BY <3>2, <3>4 DEF Advances
  <2>2. req[r].work # "live"
    BY <1>4 DEF RequestInv, Staged
  <2> QED BY <1>1, <1>4, <2>1, <2>2, CleanupKeepsInv DEF Holding
<1>5. CASE /\ req[r].pc \in {"metadata", "event", "failed"}
           /\ req' = [req EXCEPT ![r].pc = "abandoned", ![r].background = TRUE]
           /\ UNCHANGED <<coordVars, store>>
  BY <1>1, <1>5, DropKeepsInv
<1>6. CASE /\ req[r].pc = "cleanup"
           /\ req' = [req EXCEPT ![r].pc = "done", ![r].background = TRUE]
           /\ ReleaseCancelled(r, "cleanup") /\ UNCHANGED store
  BY <1>1, <1>6, DropKeepsInv
<1> QED BY <1>2, <1>3, <1>4, <1>5, <1>6 DEF Disconnects


\* The finalizer closes a dropped stream, from the outer generator inwards.
LEMMA ClosesKeepsInv ==
  ASSUME ServerInv, NEW r \in Requests, OuterCloses(r) \/ EraserCloses(r) \/ InnerCloses(r)
  PROVE  ServerInv'
<1> USE StepFacts
<1>1. /\ req[r].pc \in {"abandoned", "closing"} /\ req[r].kind \in Streaming
      /\ req[r].thread \in Threads /\ req[r].work \in WorkStates /\ UNCHANGED cpOwner
  BY Zenon DEF OuterCloses, EraserCloses, InnerCloses, RequestInv, Staged, RequestRecord
<1>2. Moves(r) /\ leaseOf'[r] = leaseOf[r]
  BY LeaseFacts, Zenon DEF OuterCloses, EraserCloses, InnerCloses, Moves, Callers
<1>3. store' \in StoreType
  <2>1. WithStatus(store, req[r].thread, "idle") \in StoreType
    BY <1>1, WithStatusFacts
  <2> QED BY <2>1, Zenon DEF OuterCloses, EraserCloses, InnerCloses
<1>4. /\ Advances(r) /\ req'[r].pc \in {"closing", "done"}
      /\ req'[r].work # "none" => req[r].work # "none"
      /\ req'[r].background = req[r].background
      /\ req'[r].pc = "done" => req'[r].work # "live" /\ ~ req'[r].inner /\ ~ req'[r].eraser
      /\ req'[r].work = "live" => req'[r].inner
      /\ req'[r].eraser \/ req'[r].erase => req[r].kind = "stateless"
  <2>1. CASE OuterCloses(r)
    <3> DEFINE pc == IF req[r].inner \/ req[r].eraser THEN "closing" ELSE "done"
    <3>1. /\ Advances(r) /\ req'[r].pc = pc /\ req'[r].work = req[r].work
          /\ req'[r].inner = req[r].inner /\ req'[r].eraser = req[r].eraser
          /\ req'[r].erase = req[r].erase /\ req'[r].background = req[r].background
      BY <2>1 DEF OuterCloses, Advances, RequestRecord, Pcs
    <3> QED BY <1>1, <3>1 DEF RequestInv, Staged
  <2>2. CASE EraserCloses(r)
    <3>1. /\ Advances(r) /\ req'[r].pc = "closing" /\ req'[r].work = req[r].work
          /\ req'[r].inner = req[r].inner /\ req'[r].background = req[r].background
      <4> DEFINE n == [req[r] EXCEPT !.eraser = FALSE, !.erase = TRUE]
      <4>1. n \in RequestRecord
        BY DEF RequestRecord
      <4>2. /\ n.kind = req[r].kind /\ n.thread = req[r].thread
            /\ n.assistant = req[r].assistant /\ n.pc = req[r].pc /\ n.work = req[r].work
            /\ n.inner = req[r].inner /\ n.background = req[r].background
        BY DEF RequestRecord
      <4>3. req' = [req EXCEPT ![r] = n] /\ req[r].pc = "closing"
        BY <2>2 DEF EraserCloses
      <4> HIDE DEF n
      <4>4. /\ req' \in [Requests -> RequestRecord] /\ req'[r] = n
            /\ \A p \in Requests \ {r} : req'[p] = req[p]
        BY <4>1, <4>3, RecordReplaced
      <4> QED BY <4>2, <4>3, <4>4 DEF Advances
    <3>2. req[r].eraser
      BY <2>2 DEF EraserCloses
    <3> QED BY <1>1, <3>1, <3>2 DEF RequestInv, Staged
  <2>3. CASE InnerCloses(r)
    <3>1. PICK left \in Remains(req[r].work) :
            req' = [req EXCEPT ![r].pc = "done", ![r].work = left, ![r].inner = FALSE]
      BY <2>3, Zenon DEF InnerCloses
    <3>2. left \in WorkStates /\ left # "live" /\ (left # "none" => req[r].work # "none")
      BY <1>1, RemainsFacts
    <3>3. /\ Advances(r) /\ req'[r].pc = "done" /\ req'[r].work = left
          /\ ~ req'[r].inner /\ req'[r].eraser = req[r].eraser
          /\ req'[r].erase = req[r].erase /\ req'[r].background = req[r].background
      <4> DEFINE n == [req[r] EXCEPT !.pc = "done", !.work = left, !.inner = FALSE]
      <4>1. /\ n.pc = "done" /\ n.work = left /\ n.inner = FALSE
            /\ n.eraser = req[r].eraser /\ n.erase = req[r].erase
            /\ n.background = req[r].background /\ n.kind = req[r].kind
            /\ n.thread = req[r].thread /\ n.assistant = req[r].assistant
        BY DEF RequestRecord
      <4>2. n \in RequestRecord /\ req' = [req EXCEPT ![r] = n]
        <5>1. n \in RequestRecord
          <6>1. "done" \in Pcs /\ FALSE \in BOOLEAN
            BY DEF Pcs
          <6> QED BY <3>2, <6>1 DEF RequestRecord
        <5> QED BY <3>1, <5>1
      <4> HIDE DEF n
      <4>3. req' \in [Requests -> RequestRecord] /\ req'[r] = n
            /\ \A p \in Requests \ {r} : req'[p] = req[p]
        BY <4>2, RecordReplaced
      <4> QED BY <4>1, <4>3 DEF Advances
    <3> QED BY <1>1, <2>3, <3>2, <3>3, Zenon DEF InnerCloses, RequestInv, Staged
  <2> QED BY <2>1, <2>2, <2>3
<1>5. Staged(r)'
  BY <1>1, <1>4 DEF Staged, Advances, Looking, LooksUp
<1> QED BY <1>1, <1>2, <1>3, <1>4, <1>5, AdvanceStep DEF Looking, Holding

\* The shielded task of a release runs.
LEMMA ReleaseTaskKeepsInv ==
  ASSUME ServerInv, NEW r \in Requests, NEW c \in Callers, RunsReleaseTask(r, c)
  PROVE  ServerInv'
<1>1. Moves(r) /\ UNCHANGED <<leaseOf, call, store, cpOwner, req>>
  BY DEF RunsReleaseTask, ReleaseTask, Moves
<1>2. RequestInv(r)'
  <2>1. RequestInv(r) /\ AskedBack(r)' = AskedBack(r)
    BY <1>1, StepFacts DEF AskedBack
  <2> QED BY <1>1, <2>1 DEF RequestInv, Addressed, Leased, Staged
<1> QED BY <1>1, <1>2, StepFacts, LocalStep

\* A release returns to a handler, whose answer follows, or to the background
\* task.  While one is under way, the lease has been asked back.
LEMMA ReleaseReturnsKeepsInv ==
  ASSUME ServerInv, NEW r \in Requests, NEW c \in Callers, ReleaseReturns(r, c)
  PROVE  ServerInv'
<1> USE StepFacts
<1>1. /\ Moves(r) /\ leaseOf'[r] = leaseOf[r] /\ AskedBack(r) /\ leaseOf[r] # NoThread
      /\ UNCHANGED <<store, cpOwner>>
  BY DEF ReleaseReturns, ReleaseReturn, Moves, AskedBack, CoordInv, NoLeaseNoCalls
<1>2. req[r].pc \notin Holding \cup Looking \cup {"none", "arrived", "exists"}
  BY <1>1 DEF RequestInv, Leased
<1>3. CASE c = "cleanup" /\ req[r].pc = "cleanup"
  <2>1. req' = [req EXCEPT ![r].pc = "done", ![r].background = req[r].kind \in Streaming]
    BY <1>3 DEF ReleaseReturns
  <2> DEFINE streams == req[r].kind \in Streaming
  <2>2. streams \in BOOLEAN /\ "done" \in Pcs
    BY DEF Pcs
  <2>3. /\ Advances(r) /\ req'[r].pc = "done" /\ req'[r].work = req[r].work
        /\ req'[r].inner = req[r].inner /\ req'[r].eraser = req[r].eraser
        /\ req'[r].erase = req[r].erase
    <3> DEFINE n == [req[r] EXCEPT !.pc = "done", !.background = streams]
    <3>1. n \in RequestRecord
      BY <2>2 DEF RequestRecord
    <3>2. /\ n.pc = "done" /\ n.background = streams
          /\ n.kind = req[r].kind /\ n.thread = req[r].thread
          /\ n.assistant = req[r].assistant /\ n.work = req[r].work
          /\ n.inner = req[r].inner /\ n.eraser = req[r].eraser
          /\ n.erase = req[r].erase
      BY DEF RequestRecord
    <3>3. req' = [req EXCEPT ![r] = n]
      BY <2>1
    <3> HIDE DEF n
    <3>4. /\ req' \in [Requests -> RequestRecord] /\ req'[r] = n
          /\ \A p \in Requests \ {r} : req'[p] = req[p]
      BY <3>1, <3>3, RecordReplaced
    <3> QED BY <3>2, <3>4 DEF Advances
  <2>4. Staged(r)'
    BY <1>3, <2>3 DEF Staged, Advances, RequestInv, Looking, LooksUp
  <2> QED BY <1>1, <1>3, <2>3, <2>4, AdvanceStep DEF Looking, Holding
<1>4. CASE ~ (c = "cleanup" /\ req[r].pc = "cleanup")
  <2>1. req' = req
    BY <1>4 DEF ReleaseReturns
  <2>2. Advances(r) /\ Staged(r)'
    BY <2>1 DEF Advances, RequestInv, Staged
  <2> QED BY <1>1, <1>2, <2>1, <2>2, AdvanceStep
<1> QED BY <1>3, <1>4

\* The background task of a streaming response.
LEMMA BackgroundKeepsInv ==
  ASSUME ServerInv, NEW r \in Requests, BackgroundRelease(r)
  PROVE  ServerInv'
<1> USE StepFacts
<1>1. /\ Moves(r) /\ leaseOf'[r] = leaseOf[r] /\ req[r].pc \in {"abandoned", "closing", "done"}
      /\ UNCHANGED <<store, cpOwner>>
  BY LeaseFacts DEF BackgroundRelease, Moves, Callers, RequestInv, Staged
<1>2. /\ Advances(r) /\ req'[r].pc = req[r].pc /\ req'[r].work = req[r].work
      /\ req'[r].inner = req[r].inner /\ req'[r].eraser = req[r].eraser
      /\ req'[r].erase = req[r].erase /\ ~ req'[r].background
  <2> DEFINE n == [req[r] EXCEPT !.background = FALSE]
  <2>1. n \in RequestRecord
    BY DEF RequestRecord
  <2>2. /\ n.background = FALSE
        /\ n.pc = req[r].pc /\ n.kind = req[r].kind
        /\ n.thread = req[r].thread /\ n.assistant = req[r].assistant
        /\ n.work = req[r].work /\ n.inner = req[r].inner
        /\ n.eraser = req[r].eraser /\ n.erase = req[r].erase
    BY DEF RequestRecord
  <2>3. req' = [req EXCEPT ![r] = n]
    BY DEF BackgroundRelease
  <2> HIDE DEF n
  <2>4. /\ req' \in [Requests -> RequestRecord] /\ req'[r] = n
        /\ \A p \in Requests \ {r} : req'[p] = req[p]
    BY <2>1, <2>3, RecordReplaced
  <2> QED BY <2>2, <2>4 DEF Advances
<1>3. Staged(r)'
  BY <1>1, <1>2 DEF Staged, Advances, RequestInv, Looking, LooksUp
<1> QED BY <1>1, <1>2, <1>3, AdvanceStep DEF Looking, Holding

\* A request that is over is forgotten.
LEMMA RecycleKeepsInv ==
  ASSUME ServerInv, NEW r \in Requests, Recycle(r)
  PROVE  ServerInv'
<1> USE StepFacts
<1>1. Moves(r) /\ leaseOf'[r] = NoThread
  BY LeaseFacts DEF Recycle, Moves, Forget, CoordInv, CoordTypeOK
<1>2. NoRequestYet \in RequestRecord /\ NoRequestYet.pc = "none" /\ Idle(NoRequestYet)
      /\ NoRequestYet.kind = "get"
  BY DEF NoRequestYet, FreshRequest, RequestRecord, Pcs, AllKinds, RunKinds, WorkStates, Idle
<1>3. /\ req' \in [Requests -> RequestRecord] /\ req'[r] = NoRequestYet
      /\ \A p \in Requests \ {r} : req'[p] = req[p]
  BY <1>2 DEF Recycle
<1>4. store' \in StoreType /\ UNCHANGED cpOwner
  BY DEF Recycle, Over, StoreType
<1>5. RequestInv(r)'
  BY <1>1, <1>2, <1>3 DEF RequestInv, Addressed, Leased, Staged, Idle, Looking, LooksUp, Holding,
     RunKinds, Streaming
<1> QED BY <1>1, <1>3, <1>4, <1>5, LocalStep


-----------------------------------------------------------------------------
(***************************************************************************)
(* The invariant                                                           *)
(***************************************************************************)

\* Only the contents of the store or the checkpointer change.
LEMMA ContentsKeepInv ==
  ASSUME ServerInv, UNCHANGED <<coordVars, req>>, store' \in StoreType,
         cpOwner' \in [Threads -> Assistants \cup {NoCheckpoint}]
  PROVE  ServerInv'
<1>1. CoordInv'
  BY CoordInvStep DEF ServerInv
<1>2. ServerTypeOK'
  BY <1>1 DEF ServerInv, ServerTypeOK, CoordInv, StoreType
<1>3. ASSUME NEW r \in Requests PROVE RequestInv(r)'
  <2>1. RequestInv(r) /\ leaseOf' = leaseOf /\ AskedBack(r)' = AskedBack(r)
    BY DEF ServerInv, coordVars, AskedBack
  <2> QED BY <2>1 DEF RequestInv, Addressed, Leased, Staged
<1> QED BY <1>1, <1>2, <1>3 DEF ServerInv

\* Records and checkpoints are evicted.
LEMMA EvictKeepsInv ==
  ASSUME ServerInv, NEW t \in Threads, Evict(t)
  PROVE  ServerInv'
<1>1. /\ UNCHANGED <<coordVars, req>> /\ store' \in StoreType
      /\ cpOwner' \in [Threads -> Assistants \cup {NoCheckpoint}]
  BY DEF Evict, ServerInv, ServerTypeOK, StoreType
<1> QED BY <1>1, ContentsKeepInv

\* A new process starts with the checkpoints of the old one.
LEMMA RestartKeepsInv ==
  ASSUME ServerInv, Restart
  PROVE  ServerInv'
<1>1. CoordInv'
  <2>1. CoordTypeOK'
    BY DEF Restart, CoordTypeOK, CallStates, TaskStates
  <2>2. ActiveThreads' = {}
    BY DEF Restart, ActiveThreads
  <2>3. CapacityBound'
    BY <2>2, FS_EmptySet, MaxRunsAssumption DEF CapacityBound
  <2>4. /\ EntriesAreLeases' /\ NoLeaseNoCalls' /\ TasksHaveCalls' /\ TaskFreesSlot'
        /\ HolderKeepsSlot' /\ ReleasedMeansFree'
    BY DEF Restart, EntriesAreLeases, NoLeaseNoCalls, TasksHaveCalls, TaskFreesSlot,
       HolderKeepsSlot, ReleasedMeansFree
  <2> QED BY <2>1, <2>3, <2>4 DEF CoordInv
<1>2. NoRequestYet \in RequestRecord
  BY DEF NoRequestYet, FreshRequest, RequestRecord, Pcs, AllKinds, RunKinds, WorkStates
<1>3. ServerTypeOK'
  BY <1>1, <1>2 DEF Restart, ServerInv, ServerTypeOK, CoordInv
<1>4. ASSUME NEW r \in Requests PROVE RequestInv(r)'
  BY <1>4 DEF Restart, RequestInv, Addressed, Leased, Staged, Idle, Looking, LooksUp,
     Holding, NoRequestYet, FreshRequest, RunKinds, Streaming
<1> QED BY <1>1, <1>3, <1>4 DEF ServerInv

\* Every step of the server preserves the invariant.
LEMMA ServerInvStep == ServerInv /\ [ServerNext]_serverVars => ServerInv'
<1> SUFFICES ASSUME ServerInv, [ServerNext]_serverVars PROVE ServerInv'
  OBVIOUS
<1>1. CASE UNCHANGED serverVars
  BY <1>1, ContentsKeepInv DEF serverVars, ServerInv, ServerTypeOK, StoreType
<1>2. ASSUME NEW r \in Requests, NEW kind \in Kinds, NEW t \in Threads,
             NEW a \in Assistants \cup {NoAssistant}, Arrive(r, kind, t, a)
      PROVE  ServerInv'
  BY <1>2, ArriveKeepsInv
<1>3. ASSUME NEW r \in Requests, RequestNext(r) PROVE ServerInv'
  <2>1. CASE Begin(r) \/ ResumeExists(r) \/ ResumeCreate(r) \/ ResumeOwner(r)
    BY <2>1, StretchKeepsInv DEF Stretch
  <2>2. CASE SaverRead(r) \/ GraphWrite(r) \/ Worker(r) \/ Erases(r)
    BY <2>2, CheckpointerKeepsInv
  <2>3. CASE WorkerDone(r) \/ WorkerFails(r) \/ InvokeEnds(r)
    BY <2>3, WorkEndsKeepsInv
  <2>4. CASE StreamStarts(r) \/ StreamRuns(r) \/ StreamYields(r) \/ StreamContinues(r)
    BY <2>4, StreamKeepsInv
  <2>5. CASE StreamEnds(r)
    BY <2>5, StreamEndsKeepsInv
  <2>6. CASE Erased(r)
    BY <2>6, ErasedKeepsInv
  <2>7. CASE TimesOut(r)
    BY <2>7, TimesOutKeepsInv
  <2>8. CASE Disconnects(r)
    BY <2>8, DisconnectsKeepsInv
  <2>9. CASE OuterCloses(r) \/ EraserCloses(r) \/ InnerCloses(r)
    BY <2>9, ClosesKeepsInv
  <2>10. CASE BackgroundRelease(r)
    BY <2>10, BackgroundKeepsInv
  <2>11. CASE Recycle(r)
    BY <2>11, RecycleKeepsInv
  <2>12. CASE \E c \in Callers : RunsReleaseTask(r, c) \/ ReleaseReturns(r, c)
    BY <2>12, ReleaseTaskKeepsInv, ReleaseReturnsKeepsInv
  <2> QED BY <1>3, <2>1, <2>2, <2>3, <2>4, <2>5, <2>6, <2>7, <2>8, <2>9, <2>10, <2>11, <2>12
          DEF RequestNext
<1>4. ASSUME NEW t \in Threads, Evict(t) PROVE ServerInv'
  BY <1>4, EvictKeepsInv
<1>5. CASE Restart
  BY <1>5, RestartKeepsInv
<1> QED BY <1>1, <1>2, <1>3, <1>4, <1>5 DEF ServerNext

\* The invariant holds of every state the server comes to.
THEOREM ServerInvariance == ServerSafeSpec => []ServerInv
<1>1. ServerInit => ServerInv
  BY ServerInvInit
<1>2. ServerInv /\ [ServerNext]_serverVars => ServerInv'
  BY ServerInvStep
<1> QED BY <1>1, <1>2, PTL DEF ServerSafeSpec

\* The state of the server has its type, whatever fails, is evicted or restarts.
THEOREM ServerTypeCorrect == ServerSafeSpec => []ServerTypeOK
<1>1. ServerInv => ServerTypeOK
  BY DEF ServerInv
<1> QED BY <1>1, ServerInvariance, PTL

\* With timeouts and disconnections a graph, update or deletion that was not
\* cancelled works under its thread's lease, except for the graph of a stream
\* dropped at a yield, until the event loop has closed its generators.
THEOREM OnlyDroppedWorkIsLate == ServerSafeSpec => []OnlyDroppedWorkOutlivesLease
<1>1. ASSUME ServerInv PROVE OnlyDroppedWorkOutlivesLease
  <2> SUFFICES ASSUME NEW r \in Requests, req[r].work = "live", active[req[r].thread] # r
               PROVE  req[r].kind \in Streaming /\ req[r].pc \in {"abandoned", "closing"}
    BY DEF OnlyDroppedWorkOutlivesLease
  <2>1. RequestInv(r) /\ HolderKeepsSlot /\ (req[r].pc # "none" => req[r].thread \in Threads)
    BY <1>1, StepFacts DEF CoordInv
  <2>2. req[r].pc \notin Holding
    <3> SUFFICES ASSUME req[r].pc \in Holding PROVE FALSE
      OBVIOUS
    <3>1. leaseOf[r] = req[r].thread /\ ~ AskedBack(r) /\ leaseOf[r] # NoThread
      BY <2>1, SentinelAssumption DEF RequestInv, Leased, Holding
    <3> QED BY <2>1, <3>1 DEF HolderKeepsSlot
  <2> QED BY <2>1, <2>2 DEF RequestInv, Staged, Holding
<1> QED BY <1>1, ServerInvariance, PTL


-----------------------------------------------------------------------------
(***************************************************************************)
(* The server uses the coordinator: what is proved of it composes          *)
(***************************************************************************)

\* A step of a request does at most one operation of the coordinator, and only
\* on a lease of its own.
LEMMA RequestMoves ==
  ASSUME ServerInv, NEW r \in Requests, RequestNext(r)
  PROVE  Moves(r)
<1>1. CASE Stretch(r)
  <2>1. PICK s \in StoreType : Outcome(r, s)
    BY <1>1, StretchOutcome
  <2>2. Secures(r) => Moves(r)
    <3>1. req[r].thread \in Threads
      BY <1>1, StretchOutcome, EarlyFacts
    <3> QED BY <3>1 DEF Secures, Moves
  <2>3. CASE Leaves(r, s)
    BY <2>3 DEF Leaves, Moves, Callers
  <2>4. CASE Waits(r, s)
    BY <2>2, <2>4, Zenon DEF Waits, Moves
  <2>5. CASE Claims(r, s)
    <3>1. req[r].thread \in Threads
      BY <1>1, StretchOutcome, EarlyFacts
    <3> QED BY <2>5, <3>1, Zenon DEF Claims, Moves
  <2>6. CASE Works(r, s)
    BY <2>2, <2>6, Zenon DEF Works
  <2> QED BY <2>1, <2>3, <2>4, <2>5, <2>6, Zenon DEF Outcome
<1>2. CASE \/ SaverRead(r) \/ GraphWrite(r) \/ Worker(r) \/ StreamStarts(r) \/ StreamRuns(r)
           \/ StreamYields(r) \/ StreamContinues(r) \/ Erases(r) \/ EraserCloses(r)
           \/ InnerCloses(r)
  BY <1>2, Zenon DEF SaverRead, GraphWrite, Worker, StreamStarts, StreamRuns, StreamYields,
     StreamContinues, Erases, EraserCloses, InnerCloses, Moves
<1>3. ASSUME UNCHANGED coordVars \/ (\E c \in Callers : ReleaseCall(r, c) \/ ReleaseNoop(r, c)
                                                      \/ ReleaseCancelled(r, c))
      PROVE  Moves(r)
  BY <1>3, Zenon DEF Moves
<1>4. "cleanup" \in Callers /\ "background" \in Callers
  BY DEF Callers
<1>5. CASE WorkerDone(r) \/ WorkerFails(r) \/ InvokeEnds(r) \/ Erased(r)
  BY <1>3, <1>4, <1>5, Zenon DEF WorkerDone, Leave, Suspend, WorkerFails, InvokeEnds, Erased
<1>6. CASE StreamEnds(r)
  BY <1>3, <1>4, <1>6, Zenon DEF StreamEnds, Unwind
<1>7. CASE TimesOut(r)
  BY <1>3, <1>4, <1>7, Zenon DEF TimesOut, Unwind
<1>8. CASE Disconnects(r)
  BY <1>3, <1>4, <1>8, Zenon DEF Disconnects, Unwind
<1>9. CASE OuterCloses(r) \/ BackgroundRelease(r)
  BY <1>3, <1>4, <1>9, Zenon DEF OuterCloses, BackgroundRelease
<1>10. CASE Recycle(r)
  BY <1>10, Zenon DEF Recycle, Moves
<1>11. CASE \E c \in Callers : RunsReleaseTask(r, c) \/ ReleaseReturns(r, c)
  BY <1>11, Zenon DEF RunsReleaseTask, ReleaseReturns, Moves
<1> QED BY <1>1, <1>2, <1>5, <1>6, <1>7, <1>8, <1>9, <1>10, <1>11, Zenon
        DEF RequestNext, Stretch

\* Every step of the server is a step of the coordinator or leaves it alone,
\* unless the process is restarted.
LEMMA ServerStepsCoordinate ==
  ServerInv /\ [ServerNext]_serverVars => [CoordNext]_coordVars \/ Restart
<1> SUFFICES ASSUME ServerInv, [ServerNext]_serverVars PROVE [CoordNext]_coordVars \/ Restart
  OBVIOUS
<1>1. CASE UNCHANGED serverVars
  BY <1>1, Zenon DEF serverVars
<1>2. ASSUME NEW r \in Requests, NEW kind \in Kinds, NEW t \in Threads,
             NEW a \in Assistants \cup {NoAssistant}, Arrive(r, kind, t, a)
      PROVE  UNCHANGED coordVars
  BY <1>2, Zenon DEF Arrive
<1>3. ASSUME NEW r \in Requests, RequestNext(r) PROVE [CoordNext]_coordVars
  BY <1>3, RequestMoves, Zenon DEF Moves, CoordNext
<1>4. ASSUME NEW t \in Threads, Evict(t) PROVE UNCHANGED coordVars
  BY <1>4, Zenon DEF Evict
<1> QED BY <1>1, <1>2, <1>3, <1>4, Zenon DEF ServerNext

\* To all the requests of a process the leases are a pool that keeps what
\* LeasePool promises, whatever the handlers, generators and background tasks
\* do with them; a new process starts with an empty one.
THEOREM PoolAcrossRestarts ==
  ServerSafeSpec => /\ Pool!PoolInit
                    /\ [][Pool!PoolNext \/ Pool!PoolInit']_(Pool!poolVars)
<1>1. ServerInit => Pool!PoolInit
  BY PoolInitRefined DEF ServerInit
<1>2. ServerInv /\ [ServerNext]_serverVars
        => [Pool!PoolNext \/ Pool!PoolInit']_(Pool!poolVars)
  <2>1. Restart => Pool!PoolInit'
    BY DEF Restart, Pool!PoolInit, AskedBack
  <2>2. ServerInv => CoordInv
    BY DEF ServerInv
  <2> QED BY <2>1, <2>2, ServerStepsCoordinate, PoolStepRefined
<1> QED BY <1>1, <1>2, ServerInvariance, PTL DEF ServerSafeSpec

\* Without restarts the server implements the lease pool, apart from the pool's
\* fairness: no path through a handler gets a lease that is not free, or loses
\* one before it was asked back.
THEOREM ServerImplementsPool ==
  ASSUME ~ MayRestart
  PROVE  ServerSafeSpec => Pool!PoolInit /\ [][Pool!PoolNext]_(Pool!poolVars)
<1>1. ServerInit => Pool!PoolInit
  BY PoolInitRefined DEF ServerInit
<1>2. ServerInv /\ [ServerNext]_serverVars => [Pool!PoolNext]_(Pool!poolVars)
  <2>1. ~ Restart
    BY DEF Restart
  <2>2. ServerInv => CoordInv
    BY DEF ServerInv
  <2> QED BY <2>1, <2>2, ServerStepsCoordinate, PoolStepRefined
<1> QED BY <1>1, <1>2, ServerInvariance, PTL DEF ServerSafeSpec

-----------------------------------------------------------------------------
(***************************************************************************)
(* Threads that are stored as busy                                         *)
(***************************************************************************)
Busy(s, t) == s[t] # Absent /\ s[t].status = "busy"

\* A step that makes no thread busy and ends no stream.
LEMMA QuietStep ==
  ASSUME BusyMeansStreaming, \A t \in Threads : Busy(store', t) => Busy(store, t),
         \A p \in Requests : req[p].inner => req'[p].inner /\ req'[p].thread = req[p].thread
  PROVE  BusyMeansStreaming'
BY DEF BusyMeansStreaming, Busy

\* No stretch of a handler makes a thread busy: a new record is idle, and a
\* claim leaves the status as it is.
LEMMA StretchNotBusier ==
  ASSUME NEW r \in Requests, ServerInv, Stretch(r)
  PROVE  \A t \in Threads : Busy(store', t) => Busy(store, t)
<1>1. PICK s \in StoreType : Opening(r, s) /\ Outcome(r, s)
  BY StretchOutcome
<1>2. /\ req[r].thread \in Threads /\ store \in StoreType
      /\ req[r].kind \in RunKinds => req[r].assistant \in Assistants
  BY StretchOutcome, EarlyFacts
<1>3. ASSUME NEW t \in Threads, Busy(s, t) PROVE Busy(store, t)
  <2>1. CASE s = WithThread(store, req[r].thread, "idle")
    <3> DEFINE w == WithThread(store, req[r].thread, "idle")
    <3>1. /\ w[req[r].thread].status = "idle"
          /\ \A u \in Threads \ {req[r].thread} : w[u] = store[u]
      <4>1. w[req[r].thread].status = "idle"
        BY <1>2 DEF WithThread, StoreType
      <4>2. \A u \in Threads \ {req[r].thread} : w[u] = store[u]
        BY <1>2 DEF WithThread, StoreType
      <4> QED BY <4>1, <4>2
    <3> QED BY <1>2, <1>3, <2>1, <3>1 DEF Busy
  <2>2. CASE /\ req[r].read \in Assistants /\ Claimable(store, req[r].thread, req[r].read)
             /\ s = Claimed(store, req[r].thread, req[r].read)
    BY <1>2, <1>3, <2>2, ClaimedFacts DEF Busy
  <2> QED BY <1>1, <1>3, <2>1, <2>2 DEF Opening
<1>4. ASSUME NEW t \in Threads, Busy(store', t) PROVE Busy(s, t)
  <2>1. CASE Claims(r, s)
    BY <1>2, <1>4, <2>1, ClaimedFacts DEF Busy, Claims
  <2> QED BY <1>1, <1>4, <2>1 DEF Outcome, Leaves, Waits, Works
<1> QED BY <1>3, <1>4

\* When a stream leaves its try block, the thread becomes idle.
LEMMA IdleStep ==
  ASSUME ServerInv, BusyMeansStreaming, NEW r \in Requests, req[r].thread \in Threads,
         store' = IF req[r].inner THEN WithStatus(store, req[r].thread, "idle") ELSE store,
         \A p \in Requests \ {r} : req'[p] = req[p]
  PROVE  BusyMeansStreaming'
<1> SUFFICES ASSUME NEW t \in Threads, Busy(store', t)
             PROVE  \E p \in Requests : req'[p].inner /\ req'[p].thread = t
  BY DEF BusyMeansStreaming, Busy
<1>1. store \in StoreType
  BY StepFacts
<1>2. Busy(store, t) /\ (req[r].inner => t # req[r].thread)
  <2> DEFINE w == WithStatus(store, req[r].thread, "idle")
  <2>1. /\ w[req[r].thread] # Absent => w[req[r].thread].status = "idle"
        /\ \A u \in Threads \ {req[r].thread} : w[u] = store[u]
    BY <1>1 DEF WithStatus, WithThread, StoreType
  <2>2. CASE req[r].inner
    BY <2>1, <2>2 DEF Busy
  <2>3. CASE ~ req[r].inner
    BY <2>3
  <2> QED BY <2>2, <2>3
<1>3. PICK p \in Requests : req[p].inner /\ req[p].thread = t
  BY <1>2 DEF BusyMeansStreaming, Busy
<1> QED BY <1>2, <1>3

\* Every step of the server keeps busy threads to streams.
LEMMA BusyStep ==
  ServerInv /\ BusyMeansStreaming /\ [ServerNext]_serverVars => BusyMeansStreaming'
<1> SUFFICES ASSUME ServerInv, BusyMeansStreaming, [ServerNext]_serverVars
             PROVE  BusyMeansStreaming'
  OBVIOUS
<1> USE StepFacts
<1>1. CASE UNCHANGED serverVars
  BY <1>1, QuietStep DEF serverVars
<1>2. ASSUME NEW r \in Requests, NEW kind \in Kinds, NEW t \in Threads,
             NEW a \in Assistants \cup {NoAssistant}, Arrive(r, kind, t, a)
      PROVE  BusyMeansStreaming'
  <2>1. ~ req[r].inner
    BY <1>2 DEF Arrive, NoRequestYet, FreshRequest
  <2> QED BY <1>2, <2>1, QuietStep DEF Arrive
<1>3. ASSUME NEW r \in Requests, RequestNext(r) PROVE BusyMeansStreaming'
  <2>1. CASE Stretch(r)
    <3>1. Keeps(r)
      BY <2>1, StretchOutcome DEF Outcome
    <3> QED BY <2>1, <3>1, StretchNotBusier, QuietStep DEF Keeps
  <2>2. CASE \/ SaverRead(r) \/ GraphWrite(r) \/ Worker(r) \/ WorkerFails(r) \/ InvokeEnds(r)
             \/ StreamStarts(r) \/ StreamYields(r) \/ StreamContinues(r) \/ Erases(r)
             \/ Erased(r) \/ OuterCloses(r) \/ EraserCloses(r) \/ BackgroundRelease(r)
             \/ \E c \in Callers : RunsReleaseTask(r, c) \/ ReleaseReturns(r, c)
    <3>1. UNCHANGED store
      BY <2>2 DEF SaverRead, GraphWrite, Worker, WorkerFails, InvokeEnds, StreamStarts,
         StreamYields, StreamContinues, Erases, Erased, OuterCloses, EraserCloses,
         BackgroundRelease, RunsReleaseTask, ReleaseReturns
    <3>2. \A p \in Requests : req'[p].inner = req[p].inner /\ req'[p].thread = req[p].thread
      BY <2>2 DEF SaverRead, GraphWrite, Worker, WorkerFails, InvokeEnds, StreamStarts,
         StreamYields, StreamContinues, Erases, Erased, OuterCloses, EraserCloses,
         BackgroundRelease, RunsReleaseTask, ReleaseReturns, RequestRecord
    <3> QED BY <3>1, <3>2, QuietStep
  <2>3. CASE WorkerDone(r)
    <3>1. \A t \in Threads : Busy(store', t) => Busy(store, t)
      BY <2>3 DEF WorkerDone, Leave, Suspend, Busy, StoreType
    <3>2. \A p \in Requests : req'[p].inner = req[p].inner /\ req'[p].thread = req[p].thread
      BY <2>3 DEF WorkerDone, Leave, Suspend, RequestRecord
    <3> QED BY <3>1, <3>2, QuietStep
  <2>4. CASE StreamRuns(r)
    <3>1. req[r].thread \in Threads
      BY <2>4 DEF StreamRuns
    <3>2. /\ req'[r].inner /\ req'[r].thread = req[r].thread
          /\ \A p \in Requests \ {r} : req'[p] = req[p]
      BY <2>4 DEF StreamRuns, RequestRecord
    <3>3. \A t \in Threads \ {req[r].thread} : store'[t] = store[t]
      <4> DEFINE w == WithStatus(store, req[r].thread, "busy")
      <4>1. \A t \in Threads \ {req[r].thread} : w[t] = store[t]
        BY <3>1, WithStatusFacts
      <4> QED BY <2>4, <4>1 DEF StreamRuns
    <3> QED BY <3>2, <3>3 DEF BusyMeansStreaming
  <2>5. ASSUME NEW left, NEW pc, Unwind(r, left, pc), req[r].pc # "none"
        PROVE  BusyMeansStreaming'
    <3>1. \A p \in Requests \ {r} : req'[p] = req[p]
      BY <2>5 DEF Unwind
    <3> QED BY <2>5, <3>1, IdleStep DEF Unwind
  <2>6. CASE InnerCloses(r)
    <3>1. \A p \in Requests \ {r} : req'[p] = req[p]
      BY <2>6 DEF InnerCloses
    <3> QED BY <2>6, <3>1, IdleStep DEF InnerCloses
  <2>7. CASE StreamEnds(r)
    BY <2>5, <2>7 DEF StreamEnds
  <2>8. CASE TimesOut(r) \/ Disconnects(r)
    <3>1. CASE /\ UNCHANGED store
               /\ \A p \in Requests :
                     req'[p].inner = req[p].inner /\ req'[p].thread = req[p].thread
      BY <3>1, QuietStep
    <3>2. CASE req[r].pc = "graph" /\ \E left \in WorkStates, pc \in Pcs : Unwind(r, left, pc)
      BY <2>5, <3>2
    <3> QED BY <2>8, <3>1, <3>2 DEF TimesOut, Disconnects, RequestRecord, Remains, WorkStates, Pcs
  <2>9. CASE Recycle(r)
    <3>1. /\ ~ req[r].inner
          /\ \A p \in Requests \ {r} : req'[p] = req[p]
      BY <2>9 DEF Recycle, Over, RequestInv, Staged
    <3>2. \A t \in Threads : Busy(store', t) => Busy(store, t)
      BY <2>9 DEF Recycle, Busy, StoreType
    <3> QED BY <3>1, <3>2, QuietStep
  <2> QED BY <1>3, <2>1, <2>2, <2>3, <2>4, <2>6, <2>7, <2>8, <2>9 DEF RequestNext, Stretch
<1>4. ASSUME NEW t \in Threads, Evict(t) PROVE BusyMeansStreaming'
  <2>1. \A u \in Threads : Busy(store', u) => Busy(store, u)
    BY <1>4 DEF Evict, Busy, ServerInv, ServerTypeOK
  <2> QED BY <1>4, <2>1, QuietStep DEF Evict
<1>5. CASE Restart
  BY <1>5 DEF Restart, BusyMeansStreaming
<1> QED BY <1>1, <1>2, <1>3, <1>4, <1>5 DEF ServerNext

\* No thread is left busy: whatever ends a stream, its finally clause has set
\* the thread idle, or is still to do so.
THEOREM NoThreadLeftBusy == ServerSafeSpec => []BusyMeansStreaming
<1>1. ServerInit => BusyMeansStreaming
  BY DEF ServerInit, BusyMeansStreaming
<1>2. ServerInv /\ BusyMeansStreaming /\ [ServerNext]_serverVars => BusyMeansStreaming'
  BY BusyStep
<1> QED BY <1>1, <1>2, ServerInvariance, PTL DEF ServerSafeSpec


-----------------------------------------------------------------------------
(***************************************************************************)
(* Without timeouts and disconnections                                     *)
(***************************************************************************)
Undisturbed == ~ MayTimeOut /\ ~ MayDisconnect

\* Then nothing is cancelled or dropped, and a stateless stream waits for the
\* deletion of its checkpoints.
Prompt(q) ==
  /\ q.pc \notin {"failed", "expiring", "abandoned", "closing"}
  /\ q.work # "late"
  /\ q.erase => q.pc = "erasing"

AllPrompt == \A r \in Requests : Prompt(req[r])

\* No step of an undisturbed server leaves work behind.
LEMMA PromptStep ==
  ASSUME Undisturbed
  PROVE  ServerInv /\ AllPrompt /\ [ServerNext]_serverVars => AllPrompt'
<1> SUFFICES ASSUME ServerInv, AllPrompt, [ServerNext]_serverVars PROVE AllPrompt'
  OBVIOUS
<1> USE StepFacts
<1>1. ASSUME NEW r \in Requests, Prompt(req'[r]), \A p \in Requests \ {r} : req'[p] = req[p]
      PROVE  AllPrompt'
  BY <1>1 DEF AllPrompt
<1>2. CASE UNCHANGED req
  BY <1>2 DEF AllPrompt
<1>3. ASSUME NEW r \in Requests, NEW kind \in Kinds, NEW t \in Threads,
             NEW a \in Assistants \cup {NoAssistant}, Arrive(r, kind, t, a)
      PROVE  AllPrompt'
  BY <1>1, <1>3 DEF Arrive, FreshRequest, Prompt
<1>4. ASSUME NEW r \in Requests, RequestNext(r) PROVE AllPrompt'
  <2>1. Prompt(req[r]) /\ RequestInv(r) /\ req[r] \in RequestRecord
    BY DEF AllPrompt
  <2>2. CASE Stretch(r)
    <3>1. PICK s \in StoreType : Outcome(r, s)
      BY <2>2, StretchOutcome
    <3>2. Idle(req[r])
      BY <2>2, StretchOutcome, EarlyIdle
    <3>3. Prompt(req'[r]) /\ \A p \in Requests \ {r} : req'[p] = req[p]
      BY <3>1, <3>2 DEF Outcome, Keeps, Leaves, Waits, Claims, Works, Idle, Prompt, Looking
    <3> QED BY <1>1, <3>3
  <2>3. CASE \/ SaverRead(r) \/ Worker(r) \/ WorkerFails(r) \/ InvokeEnds(r) \/ Erases(r)
             \/ StreamStarts(r) \/ StreamRuns(r) \/ StreamYields(r) \/ StreamContinues(r)
    <3>1. Prompt(req'[r])
      <4> USE <2>1 DEF Prompt, RequestRecord
      <4>1. CASE SaverRead(r) \/ Worker(r) \/ Erases(r)
        BY <4>1 DEF SaverRead, Worker, Erases
      <4>2. CASE WorkerFails(r) \/ InvokeEnds(r) \/ StreamStarts(r)
        BY <4>2 DEF WorkerFails, InvokeEnds, StreamStarts
      <4>3. CASE StreamRuns(r) \/ StreamYields(r) \/ StreamContinues(r)
        BY <4>3 DEF StreamRuns, StreamYields, StreamContinues
      <4> QED BY <2>3, <4>1, <4>2, <4>3
    <3>2. \A p \in Requests \ {r} : req'[p] = req[p]
      BY <2>3 DEF SaverRead, Worker, WorkerFails, InvokeEnds, Erases, StreamStarts,
         StreamRuns, StreamYields, StreamContinues
    <3> QED BY <1>1, <3>1, <3>2
  <2>4. CASE WorkerDone(r)
    <3>1. Prompt(req'[r]) /\ \A p \in Requests \ {r} : req'[p] = req[p]
      BY <2>1, <2>4 DEF WorkerDone, Leave, Suspend, Prompt, RequestRecord
    <3> QED BY <1>1, <3>1
  <2>5. CASE StreamEnds(r)
    <3> DEFINE q == req[r]
               pc == IF q.eraser THEN "erasing" ELSE "cleanup"
               n == [q EXCEPT !.pc = pc, !.work = q.work, !.inner = FALSE, !.eraser = FALSE,
                              !.erase = q.erase \/ q.eraser]
    <3>1. req' = [req EXCEPT ![r] = n] /\ q.pc = "event"
      BY <2>1, <2>5 DEF StreamEnds, Unwind, Prompt
    <3>2. n.pc = pc /\ n.work = q.work /\ n.erase = (q.erase \/ q.eraser)
      BY <2>1 DEF RequestRecord
    <3>3. req'[r] = n /\ \A p \in Requests \ {r} : req'[p] = req[p]
      BY <3>1
    <3> HIDE DEF n
    <3>4. Prompt(n)
      BY <2>1, <3>1, <3>2 DEF Prompt
    <3> QED BY <1>1, <3>3, <3>4
  <2>6. CASE \/ Erased(r) \/ BackgroundRelease(r)
             \/ \E c \in Callers : ReleaseReturns(r, c) /\ req' # req
    <3>1. Prompt(req'[r])
      BY <2>1, <2>6 DEF Erased, BackgroundRelease, ReleaseReturns, Prompt, RequestRecord
    <3>2. \A p \in Requests \ {r} : req'[p] = req[p]
      BY <2>6 DEF Erased, BackgroundRelease, ReleaseReturns
    <3> QED BY <1>1, <3>1, <3>2
  <2>7. CASE \/ GraphWrite(r)
             \/ \E c \in Callers : RunsReleaseTask(r, c)
             \/ \E c \in Callers : ReleaseReturns(r, c) /\ req' = req
    BY <1>2, <2>7 DEF GraphWrite, RunsReleaseTask
  <2>8. CASE Recycle(r)
    BY <1>1, <2>8 DEF Recycle, NoRequestYet, FreshRequest, Prompt
  <2>9. ~ (\/ TimesOut(r) \/ Disconnects(r) \/ OuterCloses(r) \/ EraserCloses(r)
           \/ InnerCloses(r))
    BY <2>1, Zenon DEF Undisturbed, TimesOut, Disconnects, OuterCloses, EraserCloses, InnerCloses, Prompt
  <2> QED BY <1>4, <2>2, <2>3, <2>4, <2>5, <2>6, <2>7, <2>8, <2>9 DEF RequestNext, Stretch
<1>5. CASE Restart
  BY <1>5 DEF Restart, NoRequestYet, FreshRequest, Prompt, AllPrompt
<1>6. CASE \E t \in Threads : Evict(t)
  BY <1>2, <1>6 DEF Evict
<1> QED BY <1>2, <1>3, <1>4, <1>5, <1>6 DEF ServerNext, serverVars

\* Work under way is then work of a handler that holds its lease.
LEMMA PromptWorkLeased == ServerInv /\ AllPrompt => LeaseCoversWork
<1> SUFFICES ASSUME ServerInv, AllPrompt, NEW r \in Requests, req[r].work # "none" \/ req[r].erase
             PROVE  active[req[r].thread] = r
  BY DEF LeaseCoversWork
<1>1. /\ Prompt(req[r]) /\ RequestInv(r) /\ HolderKeepsSlot /\ req[r] \in RequestRecord
      /\ req[r].pc # "none" => req[r].thread \in Threads
  BY StepFacts DEF AllPrompt, CoordInv
<1>2. req[r].pc \in Holding
  BY <1>1 DEF Prompt, RequestInv, Staged, Holding, RequestRecord, WorkStates
<1>3. leaseOf[r] = req[r].thread /\ ~ AskedBack(r) /\ leaseOf[r] # NoThread
  BY <1>1, <1>2, SentinelAssumption DEF RequestInv, Leased, Holding
<1> QED BY <1>1, <1>3 DEF HolderKeepsSlot

\* Without timeouts and disconnections whatever is at work on a thread's
\* checkpoints is under the thread's lease: no handler gives it back before
\* its graph, update or deletion has ended.
THEOREM WorkIsLeased ==
  ASSUME Undisturbed
  PROVE  ServerSafeSpec => []LeaseCoversWork
<1>1. ServerInit => AllPrompt
  BY DEF ServerInit, AllPrompt, Prompt, NoRequestYet, FreshRequest
<1>2. ServerInv /\ AllPrompt /\ [ServerNext]_serverVars => AllPrompt'
  BY PromptStep
<1>3. ServerInv /\ AllPrompt => LeaseCoversWork
  BY PromptWorkLeased
<1> QED BY <1>1, <1>2, <1>3, ServerInvariance, PTL DEF ServerSafeSpec

\* So only one request at a time works on a thread's checkpoints, whatever the
\* interleaving of any number of requests.
THEOREM MutatorIsSingle ==
  ASSUME Undisturbed
  PROVE  ServerSafeSpec => []SingleMutator
<1>1. LeaseCoversWork => SingleMutator
  BY DEF LeaseCoversWork, SingleMutator
<1> QED BY <1>1, WorkIsLeased, PTL
=============================================================================
