------------------------------- MODULE Server -------------------------------
(***************************************************************************)
(* routes/runs.py, routes/threads.py and streaming.py over the coordinator,*)
(* the thread store and the checkpointer: the life of an HTTP request that *)
(* runs a graph, updates, deletes, creates or reads a thread.              *)
(*                                                                         *)
(* The event loop runs a handler without interruption from one suspension  *)
(* point to the next, so a step of this module is such a stretch of code.  *)
(* A handler suspends where it really waits: for the checkpointer (which   *)
(* works in a worker thread: the read and the use of what was read are two *)
(* steps), for a graph, for the client at a yield, and for the task of     *)
(* RunLease.release.  The thread store never waits.                        *)
(*                                                                         *)
(* Of the checkpoints of a thread only the assistant recorded in the       *)
(* latest one is kept.                                                     *)
(***************************************************************************)
EXTENDS RunCoordinator

CONSTANTS
  Assistants,     \* assistant ids
  NoAssistant,    \* a thread record without an owner
  NoCheckpoint,   \* a thread the checkpointer knows nothing of
  Unread,         \* a lookup the worker thread has not done yet
  Absent,         \* a thread the thread store has no record of
  Generated,      \* the thread ids made by secrets.token_hex
  Kinds,          \* the kinds of request clients send
  MayTimeOut,     \* run_timeout_seconds is set
  MayDisconnect,  \* clients disconnect from streams
  SaverErases,    \* adelete_thread is supported and does not fail
  MayRestart,     \* the process may be restarted; the checkpointer is durable
  Evictions       \* who loses threads to a TTL or limit: "store", "saver"

Streaming == {"stream", "stateless"}
RunKinds == Streaming \cup {"run"}
AllKinds == RunKinds \cup {"update", "delete", "create", "get"}

ASSUME KindsAssumption == Kinds \subseteq AllKinds
ASSUME EnvironmentAssumption ==
  /\ {MayTimeOut, MayDisconnect, SaverErases, MayRestart} \subseteq BOOLEAN
  /\ Evictions \subseteq {"store", "saver"} /\ Generated \subseteq Threads
ASSUME OwnersAssumption ==
  /\ NoAssistant \notin Assistants /\ NoCheckpoint \notin Assistants
  /\ Unread \notin Assistants \cup {NoCheckpoint}

VARIABLES
  store,    \* the thread store: thread -> record, or Absent
  cpOwner,  \* the assistant named by a thread's latest checkpoint
  req       \* the state of every request

serverVars == <<coordVars, store, cpOwner, req>>

\* The operations on store.  That the TTL cache implements them is ThreadStore.
INSTANCE ThreadRecords

ASSUME AbsentAssumption == Absent \notin StoredThread

\* Where a handler is suspended.  arrived: its first step is to come.
\* exists, create, owner: at a lookup of the checkpointer.  granted: a stream
\* with a lease whose generator has not started.  metadata, event, failed: a
\* stream at a yield, before its graph starts, within stream_graph_response's
\* try block, and in the timeout handler of _run_with_lease.  graph: in the
\* graph.  working: a state update or a deletion at the checkpointer.
\* erasing, expiring: a stateless stream that ended, or timed out, at the
\* deletion of its checkpoints.  cleanup: at release.  abandoned, closing: a
\* stream dropped at a yield, before and after its outer generator is closed.
Pcs == {"none", "arrived", "exists", "create", "owner", "granted", "metadata",
        "graph", "event", "failed", "working", "erasing", "expiring", "cleanup",
        "abandoned", "closing", "done"}

\* live: a graph, update or deletion is under way.  late: it was cancelled
\* while a worker thread was at the checkpointer, which does not stop.
WorkStates == {"none", "live", "late"}

RequestRecord ==
  [pc: Pcs, kind: AllKinds, thread: Threads \cup {NoThread},
   assistant: Assistants \cup {NoAssistant},
   read: Assistants \cup {NoCheckpoint, Unread},
   work: WorkStates,    \* may what it started still change checkpoints?
   inner: BOOLEAN,      \* stream_graph_response is in its try block
   eraser: BOOLEAN,     \* so is _delete_stateless_checkpoints
   erase: BOOLEAN,      \* its shielded adelete_thread is to be done
   background: BOOLEAN] \* the response's background task is to run

FreshRequest(kind, t, a) ==
  [pc |-> "arrived", kind |-> kind, thread |-> t, assistant |-> a, read |-> Unread,
   work |-> "none", inner |-> FALSE, eraser |-> FALSE, erase |-> FALSE,
   background |-> FALSE]

NoRequestYet == [FreshRequest("get", NoThread, NoAssistant) EXCEPT !.pc = "none"]

ServerTypeOK ==
  /\ CoordTypeOK
  /\ store \in [Threads -> StoredThread \cup {Absent}]
  /\ cpOwner \in [Threads -> Assistants \cup {NoCheckpoint}]
  /\ req \in [Requests -> RequestRecord]

ServerInit ==
  /\ CoordInit
  /\ store = [t \in Threads |-> Absent]
  /\ cpOwner = [t \in Threads |-> NoCheckpoint]
  /\ req = [r \in Requests |-> NoRequestYet]

-----------------------------------------------------------------------------
(***************************************************************************)
(* The stretches of a handler.  s is the contents of the store when the    *)
(* stretch reaches the operator, coord what it did to the coordinator.     *)
(***************************************************************************)
Suspend(r, s, pc, coord) ==
  /\ store' = s
  /\ req' = [req EXCEPT ![r].pc = pc, ![r].read = Unread]
  /\ coord

\* The handler ends, by its response or by an exception.  Within a try block
\* that holds a lease, it first goes through lease.release().
Leave(r, s) ==
  IF leaseOf[r] = NoThread
  THEN Suspend(r, s, "done", UNCHANGED coordVars)
  ELSE Suspend(r, s, "cleanup", ReleaseCall(r, "cleanup"))

\* invoke_graph, aupdate_state or adelete_thread is called.
Work(r, s, pc, a, coord) ==
  /\ store' = s
  /\ req' = [req EXCEPT ![r].pc = pc, ![r].read = Unread,
                        ![r].assistant = a, ![r].work = "live"]
  /\ coord

\* From the claim to the lease: store.claim_assistant and _acquire_run_lease
\* with no suspension between them.  A refused request leaves its claim.
ClaimAndAcquire(r, s) ==
  LET t == req[r].thread
      a == req[r].assistant
  IN  \/ ~ Claimable(s, t, a) /\ Leave(r, s)
      \/ /\ Claimable(s, t, a)
         /\ \/ Suspend(r, Claimed(s, t, a), "done", AcquireRefused(t))
            \/ /\ req[r].kind = "run"   \* prepare_input raises
               /\ Suspend(r, Claimed(s, t, a), "done", UNCHANGED coordVars)
            \/ /\ req[r].kind = "run"
               /\ Work(r, Claimed(s, t, a), "graph", a, Acquire(r, t))
            \/ /\ req[r].kind \in Streaming
               /\ Suspend(r, Claimed(s, t, a), "granted", Acquire(r, t))

\* The handler knows the thread's owner (existing).
Owned(r, s, existing, coord) ==
  IF req[r].kind = "update"
  THEN IF existing = NoAssistant
       THEN Leave(r, s)
       ELSE Work(r, s, "working", existing, coord)
  ELSE IF existing \in {NoAssistant, req[r].assistant}
       THEN ClaimAndAcquire(r, s)
       ELSE Leave(r, s)

\* Mutant: the owner is looked for in the thread store alone.
EnterOwnerStoreOnly(r, s, coord) == Owned(r, s, OwnerIn(s, req[r].thread), coord)

\* get_thread_assistant_id, up to its lookup in the checkpointer.
EnterOwner(r, s, coord) ==
  LET existing == OwnerIn(s, req[r].thread)
  IN  IF existing = NoAssistant
      THEN Suspend(r, s, "owner", coord)
      ELSE Owned(r, s, existing, coord)

\* What follows get_or_create_thread.
Created(r, s, coord) ==
  IF req[r].kind \in {"create", "get"} THEN Leave(r, s) ELSE EnterOwner(r, s, coord)

\* get_or_create_thread, up to its lookup in the checkpointer.
EnterCreate(r, s, coord) ==
  IF s[req[r].thread] = Absent
  THEN Suspend(r, s, "create", coord)
  ELSE Created(r, s, coord)

\* thread_exists answered.  if_exists=raise and if_not_exists=reject are
\* the client's choice.
ExistsAnswered(r, found) ==
  LET t == req[r].thread
  IN  CASE req[r].kind \in {"run", "stream", "get"} ->
             IF found THEN EnterCreate(r, store, UNCHANGED coordVars)
                      ELSE Leave(r, store)
        [] req[r].kind = "create" ->
             \/ found /\ Leave(r, store)
             \/ EnterCreate(r, store, UNCHANGED coordVars)
        [] req[r].kind = "update" ->
             \/ ~ found /\ Leave(r, store)
             \/ found /\ Suspend(r, store, "done", AcquireRefused(t))
             \/ found /\ EnterCreate(r, store, Acquire(r, t))

\* thread_exists, up to its lookup in the checkpointer.
EnterExists(r) ==
  IF store[req[r].thread] = Absent
  THEN Suspend(r, store, "exists", UNCHANGED coordVars)
  ELSE ExistsAnswered(r, TRUE)

-----------------------------------------------------------------------------
(***************************************************************************)
(* Requests arrive and resolve their thread.                               *)
(***************************************************************************)
\* A stateless run makes up a thread id that nobody used or will use: its own
\* store is the entry of store for it.
Arrive(r, kind, t, a) ==
  /\ req[r] = NoRequestYet
  /\ kind \in RunKinds <=> a # NoAssistant
  /\ kind = "stateless" <=> t \in Generated
  /\ kind = "stateless" =>
       cpOwner[t] = NoCheckpoint /\ \A q \in Requests : req[q].thread # t
  /\ req' = [req EXCEPT ![r] = FreshRequest(kind, t, a)]
  /\ UNCHANGED <<coordVars, store, cpOwner>>

\* The first stretch of each handler.
Begin(r) ==
  /\ req[r].pc = "arrived"
  /\ \/ req[r].kind \notin {"delete", "stateless"} /\ EnterExists(r)
     \/ /\ req[r].kind \in RunKinds   \* if_not_exists is not reject
        /\ EnterCreate(r, store, UNCHANGED coordVars)
     \/ req[r].kind = "stateless" /\ Leave(r, store)   \* it is
     \/ /\ req[r].kind = "delete"
        /\ \/ Suspend(r, store, "done", AcquireRefused(req[r].thread))
           \/ Work(r, store, "working", req[r].assistant, Acquire(r, req[r].thread))
  /\ UNCHANGED cpOwner

\* aget_tuple, in a worker thread.
SaverRead(r) ==
  /\ req[r].pc \in {"exists", "create", "owner"} /\ req[r].read = Unread
  /\ req' = [req EXCEPT ![r].read = cpOwner[req[r].thread]]
  /\ UNCHANGED <<coordVars, store, cpOwner>>

ResumeExists(r) ==
  /\ req[r].pc = "exists" /\ req[r].read # Unread
  /\ ExistsAnswered(r, req[r].read # NoCheckpoint)
  /\ UNCHANGED cpOwner

\* The record is written without looking at the store again, unless it is
\* larger than max_thread_bytes.
ResumeCreate(r) ==
  /\ req[r].pc = "create" /\ req[r].read # Unread
  /\ \/ Created(r, WithThread(store, req[r].thread, "idle"), UNCHANGED coordVars)
     \/ req[r].kind # "stateless" /\ Leave(r, store)
  /\ UNCHANGED cpOwner

\* Mutant: the answer of the checkpointer is used without looking whether it
\* found a checkpoint.
ResumeOwnerUnchecked(r) ==
  LET t == req[r].thread
      found == req[r].read
  IN  /\ req[r].pc = "owner" /\ found # Unread
      /\ IF Claimable(store, t, found)
         THEN Owned(r, Claimed(store, t, found), found, UNCHANGED coordVars)
         ELSE Leave(r, store)
      /\ UNCHANGED cpOwner

\* An owner found in a checkpoint is claimed in the store first; a failure of
\* that claim is not handled.  Every checkpoint has the metadata that names its
\* owner, since build_runnable_config puts it there.
ResumeOwner(r) ==
  LET t == req[r].thread
      found == req[r].read
  IN  /\ req[r].pc = "owner" /\ found # Unread
      /\ IF found = NoCheckpoint
         THEN Owned(r, store, NoAssistant, UNCHANGED coordVars)
         ELSE IF Claimable(store, t, found)
         THEN Owned(r, Claimed(store, t, found), found, UNCHANGED coordVars)
         ELSE Leave(r, store)
      /\ UNCHANGED cpOwner

-----------------------------------------------------------------------------
(***************************************************************************)
(* Graphs, state updates and deletions at work on the checkpoints.         *)
(***************************************************************************)
\* A graph that was started and not closed stores a checkpoint.
GraphWrite(r) ==
  /\ req[r].work = "live" /\ req[r].kind \in RunKinds
  /\ cpOwner' = [cpOwner EXCEPT ![req[r].thread] = req[r].assistant]
  /\ UNCHANGED <<coordVars, store, req>>

\* What is left of work that is cancelled: nothing, or the job that a worker
\* thread has begun (aput, aupdate_state's, adelete_thread).
Remains(work) == IF work = "live" THEN {"none", "late"} ELSE {work}

\* A worker thread does the work of an update or a deletion, or the job left
\* by a cancelled graph, whether or not the handler still waits for it.
Worker(r) ==
  /\ \/ req[r].work = "live" /\ req[r].kind \in {"update", "delete"}
     \/ req[r].work = "late"
  /\ cpOwner' = [cpOwner EXCEPT ![req[r].thread] =
                   IF req[r].kind = "delete" THEN NoCheckpoint ELSE req[r].assistant]
  /\ req' = [req EXCEPT ![r].work = "none"]
  /\ UNCHANGED <<coordVars, store>>

\* The handler resumes; a deletion then removes the thread's record.
WorkerDone(r) ==
  LET t == req[r].thread
  IN  /\ req[r].pc = "working" /\ req[r].work = "none"
      /\ Leave(r, IF req[r].kind = "delete" THEN [store EXCEPT ![t] = Absent] ELSE store)
      /\ UNCHANGED cpOwner

\* An invalid update, one that is refused once its lease is held (422, 501),
\* a deletion that is not supported, or any other error.
WorkerFails(r) ==
  /\ req[r].pc = "working" /\ req[r].work = "live"
  /\ req' = [req EXCEPT ![r].pc = "cleanup", ![r].work = "none"]
  /\ ReleaseCall(r, "cleanup")
  /\ UNCHANGED <<store, cpOwner>>

\* Mutant: the lease is given back while the graph is still running.
InvokeEndsEarly(r) ==
  /\ req[r].pc = "graph" /\ req[r].kind = "run"
  /\ req' = [req EXCEPT ![r].pc = "cleanup"]
  /\ ReleaseCall(r, "cleanup")
  /\ UNCHANGED <<store, cpOwner>>

\* ainvoke returns or raises.
InvokeEnds(r) ==
  /\ req[r].pc = "graph" /\ req[r].kind = "run"
  /\ req' = [req EXCEPT ![r].pc = "cleanup", ![r].work = "none"]
  /\ ReleaseCall(r, "cleanup")
  /\ UNCHANGED <<store, cpOwner>>

-----------------------------------------------------------------------------
(***************************************************************************)
(* Streams: the generator _run_with_lease around stream_graph_response,    *)
(* with _delete_stateless_checkpoints between them in a stateless run.     *)
(***************************************************************************)
\* Mutant: the stream of a stateless run is not wrapped in the deletion.
StreamStartsUnwrapped(r) ==
  /\ req[r].pc = "granted"
  /\ req' = [req EXCEPT ![r].pc = "metadata"]
  /\ UNCHANGED <<coordVars, store, cpOwner>>

StreamStarts(r) ==
  /\ req[r].pc = "granted"
  /\ req' = [req EXCEPT ![r].pc = "metadata", ![r].eraser = req[r].kind = "stateless"]
  /\ UNCHANGED <<coordVars, store, cpOwner>>

\* The status is set outside the try block, the graph is started in it.  An
\* input that prepare_input cannot handle goes straight to the error event.
StreamRuns(r) ==
  /\ req[r].pc = "metadata"
  /\ store' = WithStatus(store, req[r].thread, "busy")
  /\ \/ req' = [req EXCEPT ![r].pc = "graph", ![r].work = "live", ![r].inner = TRUE]
     \/ req' = [req EXCEPT ![r].pc = "event", ![r].inner = TRUE]
  /\ UNCHANGED <<coordVars, cpOwner>>

\* The graph yields an event, or ends: the last event is end or error.
StreamYields(r) ==
  /\ req[r].pc = "graph" /\ req[r].kind \in Streaming
  /\ \E work \in {"live", "none"} :
        req' = [req EXCEPT ![r].pc = "event", ![r].work = work]
  /\ UNCHANGED <<coordVars, store, cpOwner>>

StreamContinues(r) ==
  /\ req[r].pc = "event" /\ req[r].work = "live"
  /\ req' = [req EXCEPT ![r].pc = "graph"]
  /\ UNCHANGED <<coordVars, store, cpOwner>>

\* Mutant: the finally clause that sets the thread idle is missing.
UnwindBusy(r, left, pc) ==
  LET q == req[r]
  IN  /\ req' = [req EXCEPT ![r] =
                   [q EXCEPT !.pc = pc, !.work = left, !.inner = FALSE,
                             !.eraser = FALSE, !.erase = q.erase \/ q.eraser]]
      /\ IF pc = "cleanup" THEN ReleaseCall(r, "cleanup") ELSE UNCHANGED coordVars
      /\ UNCHANGED store

\* Mutant: the deletion is lost when the stream is cancelled at it.
UnwindUnshielded(r, left, pc) ==
  LET q == req[r]
  IN  /\ store' = IF q.inner THEN WithStatus(store, q.thread, "idle") ELSE store
      /\ req' = [req EXCEPT ![r] =
                   [q EXCEPT !.pc = pc, !.work = left, !.inner = FALSE,
                             !.eraser = FALSE, !.erase = q.eraser /\ pc # "cleanup"]]
      /\ IF pc = "cleanup" THEN ReleaseCall(r, "cleanup") ELSE UNCHANGED coordVars

\* The generators end from the innermost outwards: the thread becomes idle,
\* the deletion of a stateless run's checkpoints is scheduled, and the stream
\* waits for it, or goes on to the release or to report a timeout.
Unwind(r, left, pc) ==
  LET q == req[r]
  IN  /\ store' = IF q.inner THEN WithStatus(store, q.thread, "idle") ELSE store
      /\ req' = [req EXCEPT ![r] =
                   [q EXCEPT !.pc = pc, !.work = left, !.inner = FALSE,
                             !.eraser = FALSE, !.erase = q.erase \/ q.eraser]]
      /\ IF pc = "cleanup" THEN ReleaseCall(r, "cleanup") ELSE UNCHANGED coordVars

\* The last event was sent.
StreamEnds(r) ==
  /\ \/ req[r].pc = "event" /\ req[r].work = "none"
     \/ req[r].pc = "failed"
  /\ Unwind(r, req[r].work, IF req[r].eraser THEN "erasing" ELSE "cleanup")
  /\ UNCHANGED cpOwner

\* adelete_thread of _delete_stateless_checkpoints, in a worker thread and
\* shielded, so that it is done whatever happens to the stream.  Its errors
\* are logged.
Erases(r) ==
  /\ req[r].erase
  /\ req' = [req EXCEPT ![r].erase = FALSE]
  /\ \/ cpOwner' = [cpOwner EXCEPT ![req[r].thread] = NoCheckpoint]
     \/ ~ SaverErases /\ UNCHANGED cpOwner
  /\ UNCHANGED <<coordVars, store>>

\* A stateless stream resumes after the deletion.
Erased(r) ==
  /\ ~ req[r].erase
  /\ \/ /\ req[r].pc = "erasing"
        /\ req' = [req EXCEPT ![r].pc = "cleanup"]
        /\ ReleaseCall(r, "cleanup")
     \/ /\ req[r].pc = "expiring"
        /\ req' = [req EXCEPT ![r].pc = "failed"]
        /\ UNCHANGED coordVars
  /\ UNCHANGED <<store, cpOwner>>

\* Mutant: the timeout is applied to streams only.
TimesOutStreamsOnly(r) ==
  /\ MayTimeOut
  /\ req[r].pc \in {"metadata", "event"}
  /\ req' = [req EXCEPT ![r].pc = "abandoned"]
  /\ UNCHANGED <<coordVars, store, cpOwner>>

\* asyncio.timeout cancels the task wherever it waits.  In the graph the
\* generators see it and unwind; at a yield only the response does, and the
\* generators are dropped.  A deletion that is done, but whose handler has not
\* resumed, is cancelled too: the thread's record stays.
TimesOut(r) ==
  /\ MayTimeOut
  /\ \/ /\ (req[r].pc = "graph" /\ req[r].kind = "run") \/ req[r].pc = "working"
        /\ \E left \in Remains(req[r].work) :
              req' = [req EXCEPT ![r].pc = "cleanup", ![r].work = left]
        /\ ReleaseCall(r, "cleanup") /\ UNCHANGED store
     \/ /\ req[r].pc = "graph" /\ req[r].kind \in Streaming
        /\ \E left \in Remains(req[r].work) :
              Unwind(r, left, IF req[r].eraser THEN "expiring" ELSE "failed")
     \/ /\ req[r].pc = "erasing"
        /\ req' = [req EXCEPT ![r].pc = "failed"]
        /\ UNCHANGED <<coordVars, store>>
     \/ /\ req[r].pc \in {"metadata", "event"}
        /\ req' = [req EXCEPT ![r].pc = "abandoned"]
        /\ UNCHANGED <<coordVars, store>>
  /\ UNCHANGED cpOwner

\* The client of a stream goes away and the response's task is cancelled, at
\* every wait of its finally blocks again.  The background task runs once that
\* task has ended.
Disconnects(r) ==
  /\ MayDisconnect /\ req[r].kind \in Streaming
  /\ \/ /\ req[r].pc = "granted"   \* a generator that never started
        /\ req' = [req EXCEPT ![r].pc = "done", ![r].background = TRUE]
        /\ UNCHANGED <<coordVars, store>>
     \/ /\ req[r].pc = "graph"
        /\ \E left \in Remains(req[r].work) : Unwind(r, left, "cleanup")
     \/ /\ req[r].pc \in {"erasing", "expiring"}
        /\ req' = [req EXCEPT ![r].pc = "cleanup"]
        /\ ReleaseCall(r, "cleanup") /\ UNCHANGED store
     \/ /\ req[r].pc \in {"metadata", "event", "failed"}
        /\ req' = [req EXCEPT ![r].pc = "abandoned", ![r].background = TRUE]
        /\ UNCHANGED <<coordVars, store>>
     \/ /\ req[r].pc = "cleanup"
        /\ req' = [req EXCEPT ![r].pc = "done", ![r].background = TRUE]
        /\ ReleaseCancelled(r, "cleanup") /\ UNCHANGED store
  /\ UNCHANGED cpOwner

\* Mutant: the lease is left to the background task alone.
OuterClosesSilently(r) ==
  /\ req[r].pc = "abandoned"
  /\ req' = [req EXCEPT ![r].pc = IF req[r].inner \/ req[r].eraser
                                     THEN "closing" ELSE "done"]
  /\ UNCHANGED <<coordVars, store, cpOwner>>

\* The event loop's finalizer closes the outer generator of a dropped stream:
\* the finally block of _run_with_lease.
OuterCloses(r) ==
  /\ req[r].pc = "abandoned"
  /\ req' = [req EXCEPT ![r].pc = IF req[r].inner \/ req[r].eraser
                                     THEN "closing" ELSE "done"]
  /\ ReleaseCall(r, "cleanup") \/ ReleaseNoop(r, "cleanup")
  /\ UNCHANGED <<store, cpOwner>>

\* Then the next one inwards is unreferenced and closed in its turn.  That of
\* a stateless run deletes the checkpoints while it still holds the graph.
EraserCloses(r) ==
  /\ req[r].pc = "closing" /\ req[r].eraser
  /\ req' = [req EXCEPT ![r].eraser = FALSE, ![r].erase = TRUE]
  /\ UNCHANGED <<coordVars, store, cpOwner>>

\* Last come the graph and the finally block of stream_graph_response.
InnerCloses(r) ==
  /\ req[r].pc = "closing" /\ ~ req[r].eraser /\ ~ req[r].erase
  /\ store' = IF req[r].inner THEN WithStatus(store, req[r].thread, "idle") ELSE store
  /\ \E left \in Remains(req[r].work) :
        req' = [req EXCEPT ![r].pc = "done", ![r].work = left, ![r].inner = FALSE]
  /\ UNCHANGED <<coordVars, cpOwner>>

-----------------------------------------------------------------------------
(***************************************************************************)
(* Leases are given back.                                                  *)
(***************************************************************************)
RunsReleaseTask(r, c) == ReleaseTask(r, c) /\ UNCHANGED <<store, cpOwner, req>>

\* A release returns: the handler answers; after a stream's own release the
\* background task is next.
ReleaseReturns(r, c) ==
  /\ ReleaseReturn(r, c)
  /\ req' = IF c = "cleanup" /\ req[r].pc = "cleanup"
            THEN [req EXCEPT ![r].pc = "done", ![r].background = req[r].kind \in Streaming]
            ELSE req
  /\ UNCHANGED <<store, cpOwner>>

BackgroundRelease(r) ==
  /\ req[r].background
  /\ ReleaseCall(r, "background") \/ ReleaseNoop(r, "background")
  /\ req' = [req EXCEPT ![r].background = FALSE]
  /\ UNCHANGED <<store, cpOwner>>

Over(r) ==
  req[r].pc = "done" /\ req[r].work = "none" /\ ~ req[r].erase /\ ~ req[r].background

\* A request that is over makes place for another one; the store of a
\* stateless run is gone with it.
Recycle(r) ==
  /\ Over(r)
  /\ req' = [req EXCEPT ![r] = NoRequestYet]
  /\ store' = IF req[r].kind = "stateless"
              THEN [store EXCEPT ![req[r].thread] = Absent] ELSE store
  /\ Forget(r) \/ (leaseOf[r] = NoThread /\ UNCHANGED coordVars)
  /\ UNCHANGED cpOwner

\* The TTL or the size limit of the thread store, or of the checkpointer.
Evict(t) ==
  \/ /\ "store" \in Evictions /\ store[t] # Absent
     /\ store' = [store EXCEPT ![t] = Absent]
     /\ UNCHANGED <<coordVars, cpOwner, req>>
  \/ /\ "saver" \in Evictions /\ cpOwner[t] # NoCheckpoint
     /\ cpOwner' = [cpOwner EXCEPT ![t] = NoCheckpoint]
     /\ UNCHANGED <<coordVars, store, req>>

\* A new process: of what this module keeps only checkpoints are durable.  The
\* checkpoints of a stateless run that was cut off stay under an id that is
\* never used again; here its name stands for another id from now on.
Restart ==
  /\ MayRestart
  /\ active' = [t \in Threads |-> NoRequest]
  /\ leaseOf' = [r \in Requests |-> NoThread]
  /\ released' = [r \in Requests |-> FALSE]
  /\ call' = [r \in Requests |-> [c \in Callers |-> "none"]]
  /\ task' = [r \in Requests |-> [c \in Callers |-> "none"]]
  /\ store' = [t \in Threads |-> Absent]
  /\ req' = [r \in Requests |-> NoRequestYet]
  /\ cpOwner' = [t \in Threads |-> IF t \in Generated THEN NoCheckpoint ELSE cpOwner[t]]

RequestNext(r) ==
  \/ Begin(r) \/ SaverRead(r) \/ ResumeExists(r) \/ ResumeCreate(r) \/ ResumeOwner(r)
  \/ GraphWrite(r) \/ Worker(r) \/ WorkerDone(r) \/ WorkerFails(r) \/ InvokeEnds(r)
  \/ StreamStarts(r) \/ StreamRuns(r) \/ StreamYields(r) \/ StreamContinues(r)
  \/ StreamEnds(r) \/ Erases(r) \/ Erased(r) \/ TimesOut(r) \/ Disconnects(r)
  \/ OuterCloses(r) \/ EraserCloses(r) \/ InnerCloses(r)
  \/ BackgroundRelease(r) \/ Recycle(r)
  \/ \E c \in Callers : RunsReleaseTask(r, c) \/ ReleaseReturns(r, c)

ServerNext ==
  \/ \E r \in Requests, kind \in Kinds, t \in Threads,
        a \in Assistants \cup {NoAssistant} : Arrive(r, kind, t, a)
  \/ \E r \in Requests : RequestNext(r)
  \/ \E t \in Threads : Evict(t)
  \/ Restart

ServerSafeSpec == ServerInit /\ [][ServerNext]_serverVars

\* The step of a request that the event loop, or the worker thread of a lookup,
\* is to take next: at most one of these is enabled.
Resumes(r) ==
  \/ Begin(r) \/ SaverRead(r) \/ ResumeExists(r) \/ ResumeCreate(r) \/ ResumeOwner(r)
  \/ StreamStarts(r) \/ WorkerDone(r) \/ Erased(r)
  \/ OuterCloses(r) \/ EraserCloses(r) \/ InnerCloses(r)

\* The event loop resumes every handler, task and finalizer that is ready,
\* lookups and the deletions of stateless runs in worker threads return (these
\* deletions are not subject to the timeout), and timeouts fire.  Nothing is assumed of
\* clients and nothing of graphs, which may run or yield for ever.
RequestFairness(r) ==
  /\ WF_serverVars(Resumes(r)) /\ WF_serverVars(TimesOut(r))
  /\ WF_serverVars(Erases(r)) /\ WF_serverVars(BackgroundRelease(r))
  /\ \A c \in Callers :
        WF_serverVars(RunsReleaseTask(r, c)) /\ WF_serverVars(ReleaseReturns(r, c))

ServerSpec == ServerSafeSpec /\ \A r \in Requests : RequestFairness(r)

\* In addition, the last event of a stream is sent: its client reads what is
\* sent or goes away.
AttentiveSpec == ServerSpec /\ \A r \in Requests : WF_serverVars(StreamEnds(r))

-----------------------------------------------------------------------------
(***************************************************************************)
(* Properties                                                              *)
(***************************************************************************)

\* Only one run, state update or deletion is at work on the checkpoints of a
\* thread at a time, however requests interleave.
SingleMutator ==
  \A q, r \in Requests :
     q # r /\ "none" \notin {req[q].work, req[r].work} => req[q].thread # req[r].thread

\* Whatever is at work on a thread's checkpoints does so under the thread's
\* lease: no release comes before the end of the work.
LeaseCoversWork ==
  \A r \in Requests : req[r].work # "none" \/ req[r].erase => active[req[r].thread] = r

\* Even with timeouts and disconnections a graph, update or deletion that was
\* not cancelled works under its thread's lease, with one exception: the graph
\* of a stream dropped at a yield, until its generators are closed.
OnlyDroppedWorkOutlivesLease ==
  \A r \in Requests :
     req[r].work = "live" /\ active[req[r].thread] # r
       => req[r].kind \in Streaming /\ req[r].pc \in {"abandoned", "closing"}

\* The owner in the thread store and the owner named by the checkpoints never
\* contradict each other.
OwnersAgree ==
  \A t \in Threads :
     OwnerIn(store, t) # NoAssistant /\ cpOwner[t] # NoCheckpoint
       => OwnerIn(store, t) = cpOwner[t]

\* The checkpoints of a thread are never continued by another assistant than
\* the one that wrote them: only once they are deleted, or lost, may another
\* assistant write to the thread.
NoCrossAssistantWrites ==
  [][\A t \in Threads : cpOwner[t] # NoCheckpoint => cpOwner'[t] \in {cpOwner[t], NoCheckpoint}]_serverVars

\* A thread is stored as busy only while a stream on it is within the try
\* block whose finally clause sets it idle: no thread stays busy.
BusyMeansStreaming ==
  \A t \in Threads :
     store[t] # Absent /\ store[t].status = "busy"
       => \E r \in Requests : req[r].inner /\ req[r].thread = t

\* A deletion that goes through leaves neither a record nor checkpoints behind:
\* nothing was stored between the checkpointer's part and the store's.
DeletionIsComplete ==
  [][\A r \in Requests :
       req[r].kind = "delete" /\ req[r].pc = "working" /\ req[r].work = "none"
         /\ req'[r].pc # "working"
       => store'[req[r].thread] = Absent /\ cpOwner'[req[r].thread] = NoCheckpoint]_serverVars

\* Once a stateless run is over, no checkpoint of its thread is left.  (A run
\* that ends with the process is not over: see Restart.)
StatelessLeavesNothing ==
  \A t \in Generated :
     (\A r \in Requests : req[r].thread = t => Over(r)) => cpOwner[t] = NoCheckpoint

\* Whatever a stateless stream has stored by the time its wrapper ends is
\* deleted, however that ends: the deletion is not lost to timeouts and
\* disconnections.
StatelessErased ==
  \A r \in Requests, t \in Generated :
     (req[r].eraser /\ req[r].thread = t) ~> (cpOwner[t] = NoCheckpoint)

\* With a run timeout every lease is given back, whatever the graph does.
LeasesReturned ==
  \A r \in Requests : (\E t \in Threads : active[t] = r) ~> (\A t \in Threads : active[t] # r)

\* With a run timeout every request that arrives is answered or dropped.
RequestsEnd == \A r \in Requests : (req[r].pc = "arrived") ~> (req[r].pc = "done")
=============================================================================
