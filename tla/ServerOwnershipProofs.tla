----------------------- MODULE ServerOwnershipProofs -----------------------
(***************************************************************************)
(* Proofs about Server: whose a thread is, and what deletions and          *)
(* stateless runs leave behind.  They are for a server whose thread store  *)
(* loses no record, and which either has no timeouts and disconnections or *)
(* deletes no threads; checkpoints may be evicted and the process          *)
(* restarted at any time.                                                  *)
(***************************************************************************)
EXTENDS ServerProofs

Settled == "store" \notin Evictions /\ (Undisturbed \/ "delete" \notin Kinds)

\* Nothing is cancelled or dropped, unless there are timeouts or disconnections.
Calm == Undisturbed => AllPrompt

(***************************************************************************)
(* The inductive invariant                                                 *)
(***************************************************************************)

\* Where a request may write checkpoints, or has claimed to, the thread is its
\* assistant's; also where its work goes on after it was cancelled or dropped.
Entitled(r) ==
  LET q == req[r]
  IN  \/ q.pc \in {"granted", "metadata", "graph", "event"}
      \/ q.pc = "working" /\ q.kind = "update"
      \/ q.work # "none" /\ q.kind # "delete"
      => q.assistant \in Assistants /\ OwnerIn(store, q.thread) = q.assistant

\* The owner that a handler has read from a checkpoint is out of date only if
\* the checkpoints are gone, or the store knows their owner by now.
Informed(r) ==
  LET q == req[r]
  IN  q.pc = "owner" /\ q.read # Unread
      => \/ cpOwner[q.thread] \in {NoCheckpoint, q.read}
         \/ OwnerIn(store, q.thread) = cpOwner[q.thread]

\* A deletion whose handler has not resumed yet has left no checkpoint.
Deleted(r) ==
  LET q == req[r]
  IN  q.kind = "delete" /\ q.pc = "working" /\ q.work = "none"
      => cpOwner[q.thread] = NoCheckpoint

\* The thread of a stateless run is nobody else's.
Private(r) ==
  LET q == req[r]
  IN  /\ q.thread \in Generated <=> q.kind = "stateless"
      /\ q.thread \in Generated => \A p \in Requests \ {r} : req[p].thread # q.thread

\* Threads are deleted only where clients may ask for it.
Asked(r) == req[r].kind = "delete" => "delete" \in Kinds

OwnerInv ==
  /\ OwnersAgree
  /\ \A r \in Requests :
        Entitled(r) /\ Informed(r) /\ Deleted(r) /\ Private(r) /\ Asked(r)

\* The wrapper of a stateless stream stays in place until it schedules the
\* deletion, and as long as there are checkpoints one of the two is there.
Wrapped(r) ==
  LET q == req[r]
  IN  q.kind = "stateless" /\ q.pc \in {"metadata", "graph", "event"} => q.eraser

ErasureDue ==
  \A t \in Generated :
     cpOwner[t] # NoCheckpoint
       => \E r \in Requests : req[r].thread = t /\ (req[r].eraser \/ req[r].erase)

ErasureInv == ErasureDue /\ \A r \in Requests : Wrapped(r)


-----------------------------------------------------------------------------
(***************************************************************************)
(* What steps do to owners                                                 *)
(***************************************************************************)

\* Two requests that hold a lease hold those of different threads.
LEMMA OneHolder ==
  ASSUME ServerInv, NEW p \in Requests, NEW r \in Requests,
         req[p].pc \in Holding, req[r].pc \in Holding, req[p].thread = req[r].thread
  PROVE  p = r
<1>1. ASSUME NEW q \in Requests, req[q].pc \in Holding PROVE active[req[q].thread] = q
  <2>1. /\ RequestInv(q) /\ HolderKeepsSlot
        /\ req[q].pc # "none" => req[q].thread \in Threads
    BY <1>1, StepFacts DEF CoordInv
  <2>2. leaseOf[q] = req[q].thread /\ ~ AskedBack(q) /\ leaseOf[q] # NoThread
    BY <1>1, <2>1, SentinelAssumption DEF RequestInv, Leased, Holding
  <2> QED BY <2>1, <2>2 DEF HolderKeepsSlot
<1> QED BY <1>1

\* Who writes checkpoints is the thread's owner, and at a place where it holds
\* the lease unless it was cancelled or dropped.
LEMMA WriterFacts ==
  ASSUME ServerInv, OwnerInv, NEW r \in Requests, req[r].work # "none"
  PROVE  /\ AllPrompt => req[r].pc \in Holding
         /\ req[r].thread \in Threads
         /\ req[r].kind # "delete" =>
              /\ req[r].assistant \in Assistants
              /\ OwnerIn(store, req[r].thread) = req[r].assistant
<1>1. /\ RequestInv(r) /\ Entitled(r) /\ req[r] \in RequestRecord
      /\ req[r].pc # "none" => req[r].thread \in Threads
  BY StepFacts DEF OwnerInv
<1>2. ASSUME AllPrompt PROVE req[r].pc \in {"graph", "event", "working"}
  <2>1. Prompt(req[r])
    BY <1>2 DEF AllPrompt
  <2> QED BY <1>1, <2>1 DEF Prompt, RequestInv, Staged, RequestRecord, WorkStates
<1>3. req[r].pc # "none"
  BY <1>1 DEF RequestInv, Staged, Idle
<1> QED BY <1>1, <1>2, <1>3 DEF Entitled, Holding

\* A settled server that deletes threads is never disturbed.
LEMMA DeletesArePrompt ==
  ASSUME Settled, Calm, OwnerInv, NEW r \in Requests, req[r].kind = "delete"
  PROVE  AllPrompt
BY DEF Settled, Calm, OwnerInv, Asked

\* A handler's stretch never takes a thread from its owner; a thread without
\* an owner gets one only after the lookup in the checkpointer, which is the
\* owner found there if there was one.
LEMMA StretchOwners ==
  ASSUME ServerInv, NEW r \in Requests, Stretch(r)
  PROVE  \A t \in Threads :
           \/ OwnerIn(store', t) = OwnerIn(store, t)
           \/ /\ t = req[r].thread /\ OwnerIn(store, t) = NoAssistant
              /\ req[r].pc = "owner" /\ req[r].read # Unread
              /\ req[r].read = NoCheckpoint \/ OwnerIn(store', t) = req[r].read
<1> DEFINE u == req[r].thread
           a == req[r].assistant
           found == req[r].read
<1>1. PICK s \in StoreType : Opening(r, s) /\ Outcome(r, s)
  BY StretchOutcome
<1>2. /\ u \in Threads /\ store \in StoreType
      /\ req[r].kind \in RunKinds => a \in Assistants
  BY StretchOutcome, EarlyFacts
<1>3. \/ \A t \in Threads : OwnerIn(s, t) = OwnerIn(store, t)
      \/ /\ req[r].pc = "owner" /\ found \in Assistants /\ OwnerIn(s, u) = found
         /\ OwnerIn(store, u) \in {NoAssistant, found}
         /\ \A t \in Threads \ {u} : OwnerIn(s, t) = OwnerIn(store, t)
  <2>1. CASE s = WithThread(store, u, "idle")
    BY <1>2, <2>1, WithThreadFacts
  <2>2. CASE /\ req[r].pc = "owner" /\ found \in Assistants /\ Claimable(store, u, found)
             /\ s = Claimed(store, u, found)
    <3>1. /\ OwnerIn(s, u) = found /\ \A t \in Threads \ {u} : s[t] = store[t]
      BY <1>2, <2>2, ClaimedFacts
    <3> QED BY <2>2, <3>1 DEF Claimable, OwnerIn
  <2> QED BY <1>1, <2>1, <2>2 DEF Opening
<1>4. \/ \A t \in Threads : OwnerIn(store', t) = OwnerIn(s, t)
      \/ /\ a \in Assistants /\ OwnerIn(store', u) = a /\ OwnerIn(s, u) \in {NoAssistant, a}
         /\ OwnerIn(s, u) = a \/ (req[r].pc = "owner" /\ found = NoCheckpoint)
         /\ \A t \in Threads \ {u} : OwnerIn(store', t) = OwnerIn(s, t)
  <2>1. CASE Claims(r, s)
    <3>1. a \in Assistants /\ Claimable(s, u, a) /\ store' = Claimed(s, u, a)
      BY <2>1 DEF Claims
    <3>2. OwnerIn(store', u) = a /\ \A t \in Threads \ {u} : store'[t] = s[t]
      BY <1>2, <3>1, ClaimedFacts
    <3> QED BY <2>1, <3>1, <3>2 DEF Claims, Claimable, OwnerIn
  <2> QED BY <1>1, <2>1 DEF Outcome, Leaves, Waits, Works
<1> QED BY <1>2, <1>3, <1>4, OwnersAssumption


\* A step of r that takes no thread from its owner, writes no checkpoint but
\* for the thread's owner, and keeps what is said of r.
LEMMA OwnerStep ==
  ASSUME ServerInv, OwnerInv, NEW r \in Requests,
         \A p \in Requests \ {r} : req'[p] = req[p],
         req'[r].kind = req[r].kind, req'[r].thread = req[r].thread,
         \A t \in Threads : OwnerIn(store, t) # NoAssistant
                              => OwnerIn(store', t) = OwnerIn(store, t),
         \A t \in Threads : cpOwner'[t] \in {cpOwner[t], NoCheckpoint, OwnerIn(store', t)},
         \A p \in Requests \ {r} : Deleted(p)',
         OwnersAgree', Entitled(r)', Informed(r)', Deleted(r)'
  PROVE  OwnerInv'
<1>1. ASSUME NEW p \in Requests \ {r} PROVE Entitled(p)' /\ Informed(p)' /\ Deleted(p)'
  <2>1. /\ Entitled(p) /\ Informed(p) /\ req'[p] = req[p] /\ Deleted(p)' /\ RequestInv(p)
        /\ cpOwner \in [Threads -> Assistants \cup {NoCheckpoint}]
        /\ req[p].pc # "none" => req[p].thread \in Threads
    BY StepFacts DEF OwnerInv
  <2>2. Entitled(p)'
    <3>1. req[p].work # "none" => req[p].pc # "none"
      BY <2>1 DEF RequestInv, Staged, Idle
    <3> QED BY <2>1, <3>1, OwnersAssumption DEF Entitled
  <2>3. Informed(p)'
    <3> SUFFICES ASSUME req[p].pc = "owner", req[p].read # Unread
                 PROVE  \/ cpOwner'[req[p].thread] \in {NoCheckpoint, req[p].read}
                        \/ OwnerIn(store', req[p].thread) = cpOwner'[req[p].thread]
      BY <2>1 DEF Informed
    <3> DEFINE t == req[p].thread
    <3>1. t \in Threads
      BY <2>1
    <3>2. \/ cpOwner[t] \in {NoCheckpoint, req[p].read}
          \/ OwnerIn(store, t) = cpOwner[t] /\ OwnerIn(store, t) # NoAssistant
      BY <2>1, <3>1, OwnersAssumption DEF Informed
    <3> QED BY <3>1, <3>2
  <2> QED BY <2>1, <2>2, <2>3
<1>2. ASSUME NEW p \in Requests PROVE Private(p)' /\ Asked(p)'
  <2>1. \A q \in Requests : req'[q].kind = req[q].kind /\ req'[q].thread = req[q].thread
    OBVIOUS
  <2>2. Private(p) /\ Asked(p)
    BY DEF OwnerInv
  <2> QED BY <2>1, <2>2 DEF Private, Asked
<1> QED BY <1>1, <1>2 DEF OwnerInv

\* A step of r that touches neither owners nor checkpoints.
LEMMA QuietOwnerStep ==
  ASSUME ServerInv, OwnerInv, NEW r \in Requests,
         \A p \in Requests \ {r} : req'[p] = req[p],
         req'[r].kind = req[r].kind, req'[r].thread = req[r].thread,
         \A t \in Threads : OwnerIn(store', t) = OwnerIn(store, t),
         UNCHANGED cpOwner, Entitled(r)', Informed(r)', Deleted(r)'
  PROVE  OwnerInv'
<1>1. OwnersAgree'
  BY DEF OwnerInv, OwnersAgree
<1>2. ASSUME NEW p \in Requests \ {r} PROVE Deleted(p)'
  <2>1. Deleted(p)
    BY DEF OwnerInv
  <2> QED BY <2>1 DEF Deleted
<1> QED BY <1>1, <1>2, OwnerStep

\* A stretch of a handler.
LEMMA StretchKeepsOwner ==
  ASSUME ServerInv, OwnerInv, NEW r \in Requests, Stretch(r)
  PROVE  OwnerInv'
<1> DEFINE u == req[r].thread
<1>1. PICK s \in StoreType : Opening(r, s) /\ Outcome(r, s)
  BY StretchOutcome
<1>2. /\ UNCHANGED cpOwner /\ Keeps(r) /\ u \in Threads
      /\ cpOwner \in [Threads -> Assistants \cup {NoCheckpoint}]
  BY <1>1, StretchOutcome, EarlyFacts, StepFacts DEF Outcome
<1>3. \A t \in Threads :
           \/ OwnerIn(store', t) = OwnerIn(store, t)
           \/ /\ t = u /\ OwnerIn(store, t) = NoAssistant
              /\ req[r].pc = "owner" /\ req[r].read # Unread
              /\ req[r].read = NoCheckpoint \/ OwnerIn(store', t) = req[r].read
  BY StretchOwners
<1>4. Informed(r) /\ OwnersAgree
  BY DEF OwnerInv
<1>5. OwnersAgree'
  <2> SUFFICES ASSUME NEW t \in Threads, OwnerIn(store', t) # NoAssistant,
                      cpOwner[t] # NoCheckpoint
               PROVE  OwnerIn(store', t) = cpOwner[t]
    BY <1>2 DEF OwnersAgree
  <2>1. CASE OwnerIn(store', t) = OwnerIn(store, t)
    BY <1>4, <2>1 DEF OwnersAgree
  <2>2. CASE OwnerIn(store', t) # OwnerIn(store, t)
    <3>1. /\ t = u /\ OwnerIn(store, t) = NoAssistant
          /\ req[r].pc = "owner" /\ req[r].read # Unread
          /\ req[r].read = NoCheckpoint \/ OwnerIn(store', t) = req[r].read
      BY <1>3, <2>2
    <3>2. cpOwner[t] = req[r].read
      BY <1>2, <1>4, <3>1, OwnersAssumption DEF Informed
    <3> QED BY <3>1, <3>2
  <2> QED BY <2>1, <2>2
<1>6. Entitled(r)'
  <2>1. CASE Claims(r, s)
    <3>1. /\ req'[r].assistant \in Assistants
          /\ OwnerIn(store', u) = req'[r].assistant
      BY <1>2, <2>1, ClaimedFacts DEF Claims
    <3> QED BY <1>2, <3>1 DEF Entitled, Keeps
  <2>2. CASE Works(r, s)
    BY <1>2, <2>2 DEF Works, Entitled, Keeps
  <2>3. CASE Leaves(r, s) \/ Waits(r, s)
    <3>1. req'[r].work = "none"
      BY <2>3, StretchOutcome, EarlyIdle DEF Leaves, Waits, Idle
    <3> QED BY <2>3, <3>1 DEF Leaves, Waits, Looking, Entitled
  <2> QED BY <1>1, <2>1, <2>2, <2>3 DEF Outcome
<1>7. Informed(r)' /\ Deleted(r)'
  BY <1>1, <1>2 DEF Keeps, Informed, Deleted, Outcome, Leaves, Waits, Claims, Works, Looking
<1>8. \A p \in Requests \ {r} : Deleted(p)'
  BY <1>2 DEF OwnerInv, Deleted, Keeps
<1>9. \A t \in Threads : OwnerIn(store, t) # NoAssistant
                              => OwnerIn(store', t) = OwnerIn(store, t)
  BY <1>3
<1> QED BY <1>2, <1>5, <1>6, <1>7, <1>8, <1>9, OwnerStep DEF Keeps


\* A lookup in the checkpointer.
LEMMA SaverReadKeepsOwner ==
  ASSUME ServerInv, OwnerInv, NEW r \in Requests, SaverRead(r)
  PROVE  OwnerInv'
<1>1. /\ req \in [Requests -> RequestRecord] /\ UNCHANGED <<store, cpOwner>>
      /\ \A p \in Requests \ {r} : req'[p] = req[p]
  BY StepFacts DEF SaverRead
<1>2. /\ req'[r].pc = req[r].pc /\ req'[r].kind = req[r].kind
      /\ req'[r].thread = req[r].thread /\ req'[r].read = cpOwner[req[r].thread]
      /\ req[r].pc \in {"exists", "create", "owner"} /\ req'[r].work = req[r].work
  BY <1>1 DEF SaverRead, RequestRecord
<1>3. req[r].work = "none"
  BY <1>2, StepFacts DEF RequestInv, Staged, Idle, Looking
<1>4. Entitled(r)' /\ Informed(r)' /\ Deleted(r)'
  BY <1>1, <1>2, <1>3 DEF Entitled, Informed, Deleted
<1> QED BY <1>1, <1>2, <1>4, QuietOwnerStep

\* A graph stores a checkpoint, or a worker thread does an update or a deletion.
LEMMA WriteKeepsOwner ==
  ASSUME Settled, ServerInv, Calm, OwnerInv, NEW r \in Requests, GraphWrite(r) \/ Worker(r)
  PROVE  OwnerInv'
<1> DEFINE u == req[r].thread
           v == IF req[r].kind = "delete" THEN NoCheckpoint ELSE req[r].assistant
<1>1. req[r].work # "none"
  BY DEF GraphWrite, Worker
<1>2. /\ AllPrompt => req[r].pc \in Holding
      /\ u \in Threads
      /\ req[r].kind # "delete" => v \in Assistants /\ OwnerIn(store, u) = v
      /\ cpOwner \in [Threads -> Assistants \cup {NoCheckpoint}]
      /\ req \in [Requests -> RequestRecord]
  BY <1>1, WriterFacts, StepFacts
<1>3. UNCHANGED store /\ cpOwner' = [cpOwner EXCEPT ![u] = v]
  BY DEF GraphWrite, Worker, RunKinds, Streaming
<1>4. /\ \A p \in Requests \ {r} : req'[p] = req[p]
      /\ req'[r].pc = req[r].pc /\ req'[r].kind = req[r].kind /\ req'[r].thread = u
      /\ req'[r].assistant = req[r].assistant /\ req'[r].work \in {"none", req[r].work}
  BY <1>2 DEF GraphWrite, Worker, RequestRecord
<1>5. /\ cpOwner'[u] = v /\ \A t \in Threads \ {u} : cpOwner'[t] = cpOwner[t]
      /\ v \in {NoCheckpoint, OwnerIn(store, u)}
  BY <1>2, <1>3
<1>6. OwnersAgree'
  BY <1>3, <1>5 DEF OwnerInv, OwnersAgree
<1>7. Entitled(r)' /\ Informed(r)' /\ Deleted(r)'
  <2>1. Entitled(r) /\ req'[r].pc # "owner"
    BY <1>1, <1>4, StepFacts DEF OwnerInv, RequestInv, Staged, Idle, Looking
  <2> QED BY <1>3, <1>4, <1>5, <2>1 DEF Entitled, Informed, Deleted
<1>8. ASSUME NEW p \in Requests \ {r} PROVE Deleted(p)'
  <2>1. Deleted(p) /\ req'[p] = req[p] /\ (req[p].pc # "none" => req[p].thread \in Threads)
    BY <1>4, StepFacts DEF OwnerInv
  <2>2. req[p].kind = "delete" /\ req[p].pc = "working" => req[p].thread # u
    BY <1>2, OneHolder, DeletesArePrompt DEF Holding
  <2> QED BY <1>5, <2>1, <2>2 DEF Deleted
<1> QED BY <1>3, <1>4, <1>5, <1>6, <1>7, <1>8, OwnerStep

\* Checkpoints are lost: OwnerInv says nothing of threads without any.
LEMMA LossKeepsOwner ==
  ASSUME OwnerInv, NEW t \in Threads, UNCHANGED store,
         cpOwner \in [Threads -> Assistants \cup {NoCheckpoint}],
         \/ cpOwner' = cpOwner
         \/ cpOwner' = [cpOwner EXCEPT ![t] = NoCheckpoint],
         \A p \in Requests : /\ req'[p].pc = req[p].pc /\ req'[p].kind = req[p].kind
                             /\ req'[p].thread = req[p].thread /\ req'[p].read = req[p].read
                             /\ req'[p].assistant = req[p].assistant
                             /\ req'[p].work = req[p].work,
         \A p \in Requests : req[p].pc # "none" => req[p].thread \in Threads
  PROVE  OwnerInv'
<1>1. \A u \in Threads : cpOwner'[u] \in {cpOwner[u], NoCheckpoint}
  OBVIOUS
<1>2. OwnersAgree'
  BY <1>1 DEF OwnerInv, OwnersAgree
<1>3. ASSUME NEW p \in Requests
      PROVE  Entitled(p)' /\ Informed(p)' /\ Deleted(p)' /\ Private(p)' /\ Asked(p)'
  <2>1. Entitled(p) /\ Informed(p) /\ Deleted(p) /\ Private(p) /\ Asked(p)
    BY DEF OwnerInv
  <2> QED BY <1>1, <2>1 DEF Entitled, Informed, Deleted, Private, Asked
<1> QED BY <1>2, <1>3 DEF OwnerInv

\* The deletion of a stateless run's checkpoints, and evictions.
LEMMA ErasesKeepsOwner ==
  ASSUME ServerInv, OwnerInv, NEW r \in Requests, Erases(r)
  PROVE  OwnerInv'
<1>1. /\ req \in [Requests -> RequestRecord]
      /\ cpOwner \in [Threads -> Assistants \cup {NoCheckpoint}]
      /\ \A p \in Requests : req[p].pc # "none" => req[p].thread \in Threads
  BY StepFacts
<1>2. req[r].thread \in Threads
  BY <1>1, StepFacts DEF Erases, RequestInv, Staged, Idle
<1>3. \A p \in Requests : /\ req'[p].pc = req[p].pc /\ req'[p].kind = req[p].kind
                          /\ req'[p].thread = req[p].thread /\ req'[p].read = req[p].read
                          /\ req'[p].assistant = req[p].assistant
                          /\ req'[p].work = req[p].work
  BY <1>1 DEF Erases, RequestRecord
<1> QED BY <1>1, <1>2, <1>3, LossKeepsOwner DEF Erases

\* The steps of a handler that has its lease, and the steps of releases.
LEMMA HandlerKeepsOwner ==
  ASSUME ServerInv, OwnerInv, NEW r \in Requests,
         \/ WorkerFails(r) \/ InvokeEnds(r) \/ Erased(r) \/ BackgroundRelease(r)
         \/ StreamStarts(r) \/ StreamRuns(r) \/ StreamYields(r) \/ StreamContinues(r)
         \/ \E c \in Callers : RunsReleaseTask(r, c) \/ ReleaseReturns(r, c)
  PROVE  OwnerInv'
<1>1. /\ req \in [Requests -> RequestRecord] /\ RequestInv(r) /\ Entitled(r) /\ Informed(r)
      /\ Deleted(r) /\ store \in StoreType
      /\ req[r].pc # "none" => req[r].thread \in Threads
  BY StepFacts DEF OwnerInv
<1>2. \A t \in Threads : OwnerIn(store', t) = OwnerIn(store, t)
  <2>1. CASE StreamRuns(r)
    <3>1. req[r].thread \in Threads /\ store' = WithStatus(store, req[r].thread, "busy")
      BY <1>1, <2>1 DEF StreamRuns
    <3> QED BY <1>1, <3>1, WithStatusFacts
  <2>2. CASE ~ StreamRuns(r)
    <3>1. UNCHANGED store
      BY <2>2 DEF WorkerFails, InvokeEnds, Erased, BackgroundRelease, StreamStarts, StreamYields,
         StreamContinues, RunsReleaseTask, ReleaseReturns
    <3> QED BY <3>1
  <2> QED BY <2>1, <2>2
<1>3. UNCHANGED cpOwner /\ \A p \in Requests \ {r} : req'[p] = req[p]
  BY <1>1 DEF WorkerFails, InvokeEnds, Erased, BackgroundRelease, StreamStarts, StreamRuns,
     StreamYields, StreamContinues, RunsReleaseTask, ReleaseReturns
<1>4. /\ req'[r].kind = req[r].kind /\ req'[r].thread = req[r].thread
      /\ req'[r].assistant = req[r].assistant /\ req'[r].read = req[r].read
  BY <1>1 DEF WorkerFails, InvokeEnds, Erased, BackgroundRelease, StreamStarts, StreamRuns,
     StreamYields, StreamContinues, RunsReleaseTask, ReleaseReturns, RequestRecord
<1>5. \/ /\ req'[r].pc \in {"cleanup", "done", "failed"}
         /\ req'[r].work \in {"none", req[r].work}
      \/ /\ req[r].pc \in {"granted", "metadata", "graph", "event"}
         /\ req'[r].pc \in {"metadata", "graph", "event"}
      \/ req'[r].pc = req[r].pc /\ req'[r].work = req[r].work
  BY <1>1 DEF WorkerFails, InvokeEnds, Erased, BackgroundRelease, StreamStarts, StreamRuns,
     StreamYields, StreamContinues, RunsReleaseTask, ReleaseReturns, RequestRecord
<1>6. Entitled(r)' /\ Informed(r)' /\ Deleted(r)'
  <2>1. CASE /\ req'[r].pc \in {"cleanup", "done", "failed"}
             /\ req'[r].work \in {"none", req[r].work}
    <3>1. Entitled(r)'
      <4>1. CASE req'[r].work = "none"
        BY <2>1, <4>1 DEF Entitled
      <4>2. CASE req'[r].work = req[r].work /\ req[r].work # "none"
        <5>1. req[r].thread \in Threads
          BY <4>2, WriterFacts
        <5> QED BY <1>1, <1>2, <1>4, <2>1, <4>2, <5>1 DEF Entitled
      <4> QED BY <2>1, <4>1, <4>2
    <3> QED BY <2>1, <3>1 DEF Informed, Deleted
  <2>2. CASE /\ req[r].pc \in {"granted", "metadata", "graph", "event"}
             /\ req'[r].pc \in {"metadata", "graph", "event"}
    BY <1>1, <1>2, <1>4, <2>2 DEF Entitled, Informed, Deleted
  <2>3. CASE req'[r].pc = req[r].pc /\ req'[r].work = req[r].work
    <3>1. \/ req[r].pc \in {"granted", "metadata", "graph", "event", "owner", "working"}
          \/ req[r].work # "none"
          \/ Entitled(r)' /\ Informed(r)' /\ Deleted(r)'
      BY <2>3 DEF Entitled, Informed, Deleted
    <3>2. req[r].work # "none" => req[r].thread \in Threads
      BY WriterFacts
    <3> QED BY <1>1, <1>2, <1>3, <1>4, <2>3, <3>1, <3>2 DEF Entitled, Informed, Deleted
  <2> QED BY <1>5, <2>1, <2>2, <2>3
<1> QED BY <1>2, <1>3, <1>4, <1>6, QuietOwnerStep


\* The generators of a stream that has ended unwind.
LEMMA StreamEndsKeepsOwner ==
  ASSUME ServerInv, OwnerInv, NEW r \in Requests, StreamEnds(r)
  PROVE  OwnerInv'
<1> DEFINE q == req[r]
           pc == IF q.eraser THEN "erasing" ELSE "cleanup"
           n == [q EXCEPT !.pc = pc, !.work = q.work, !.inner = FALSE, !.eraser = FALSE,
                          !.erase = q.erase \/ q.eraser]
<1>1. req' = [req EXCEPT ![r] = n] /\ UNCHANGED cpOwner
      /\ store' = IF q.inner THEN WithStatus(store, q.thread, "idle") ELSE store
  BY DEF StreamEnds, Unwind
<1>2. /\ q \in RequestRecord /\ req \in [Requests -> RequestRecord] /\ store \in StoreType
      /\ q.thread \in Threads
  BY StepFacts DEF StreamEnds
<1>3. /\ n.pc = pc /\ n.kind = q.kind /\ n.thread = q.thread
      /\ n.work = q.work /\ n.assistant = q.assistant
  BY <1>2 DEF RequestRecord
<1>4. req'[r] = n /\ \A p \in Requests \ {r} : req'[p] = req[p]
  BY <1>1, <1>2
<1>5. \A t \in Threads : OwnerIn(store', t) = OwnerIn(store, t)
  <2>1. CASE q.inner
    <3>1. store' = WithStatus(store, q.thread, "idle")
      BY <1>1, <2>1
    <3> QED BY <1>2, <3>1, WithStatusFacts
  <2>2. CASE ~ q.inner
    BY <1>1, <2>2
  <2> QED BY <2>1, <2>2
<1> HIDE DEF n
<1>6. Entitled(r)' /\ Informed(r)' /\ Deleted(r)'
  <2>1. Entitled(r)
    BY DEF OwnerInv
  <2> QED BY <1>2, <1>3, <1>4, <1>5, <2>1 DEF Entitled, Informed, Deleted
<1> QED BY <1>1, <1>3, <1>4, <1>5, <1>6, QuietOwnerStep

\* A stream or the work of a handler is cancelled, or a stream that was dropped
\* is closed: what is left of the work is still entitled to the thread.
LEMMA DisturbedKeepsOwner ==
  ASSUME ServerInv, OwnerInv, NEW r \in Requests,
         TimesOut(r) \/ Disconnects(r) \/ OuterCloses(r) \/ EraserCloses(r) \/ InnerCloses(r)
  PROVE  OwnerInv'
<1> DEFINE q == req[r]
           Idled == store' \in {store, WithStatus(store, q.thread, "idle")}
<1>1. /\ q \in RequestRecord /\ req \in [Requests -> RequestRecord] /\ store \in StoreType
      /\ q.pc # "none" => q.thread \in Threads
  BY StepFacts
<1>2. UNCHANGED cpOwner /\ q.pc # "none"
  BY Zenon DEF TimesOut, Disconnects, OuterCloses, EraserCloses, InnerCloses
<1>3. ASSUME NEW n \in RequestRecord, req' = [req EXCEPT ![r] = n], Idled,
             n.kind = q.kind, n.thread = q.thread, n.assistant = q.assistant,
             n.work # "none" => q.work # "none",
             n.pc \in {"cleanup", "expiring", "failed", "abandoned", "closing", "done"}
      PROVE  OwnerInv'
  <2>1. req'[r] = n /\ \A p \in Requests \ {r} : req'[p] = req[p]
    BY <1>1, <1>3
  <2>2. \A t \in Threads : OwnerIn(store', t) = OwnerIn(store, t)
    <3>1. CASE store' = store
      BY <3>1
    <3>2. CASE store' = WithStatus(store, q.thread, "idle")
      BY <1>1, <1>2, <3>2, WithStatusFacts
    <3> QED BY <1>3, <3>1, <3>2
  <2>3. Entitled(r)
    BY DEF OwnerInv
  <2>4. Entitled(r)' /\ Informed(r)' /\ Deleted(r)'
    BY <1>1, <1>2, <1>3, <2>1, <2>2, <2>3 DEF Entitled, Informed, Deleted
  <2> QED BY <1>2, <1>3, <2>1, <2>2, <2>4, QuietOwnerStep
<1>4. ASSUME NEW left \in Remains(q.work), NEW pc \in {"cleanup", "expiring", "failed"},
             Unwind(r, left, pc)
      PROVE  OwnerInv'
  <2> DEFINE e == q.erase \/ q.eraser
             n == [q EXCEPT !.pc = pc, !.work = left, !.inner = FALSE, !.eraser = FALSE,
                            !.erase = e]
  <2>1. left \in WorkStates /\ (left # "none" => q.work # "none")
    BY <1>1 DEF Remains, WorkStates, RequestRecord
  <2>2. req' = [req EXCEPT ![r] = n] /\ Idled
    BY <1>4, Zenon DEF Unwind
  <2> HIDE DEF e
  <2>3. e \in BOOLEAN /\ pc \in Pcs
    BY Zenon DEF e, Pcs
  <2>4. n \in RequestRecord
    BY <1>1, <2>1, <2>3 DEF RequestRecord
  <2>5. /\ n.kind = q.kind /\ n.thread = q.thread
        /\ n.assistant = q.assistant /\ n.work = left /\ n.pc = pc
    BY <1>1 DEF RequestRecord
  <2> HIDE DEF n
  <2> QED BY <1>3, <2>1, <2>2, <2>4, <2>5
<1>5. ASSUME NEW left \in Remains(q.work), UNCHANGED store,
             req' = [req EXCEPT ![r].pc = "cleanup", ![r].work = left]
      PROVE  OwnerInv'
  <2> DEFINE n == [q EXCEPT !.pc = "cleanup", !.work = left]
  <2>1. left \in WorkStates /\ (left # "none" => q.work # "none")
    BY <1>1 DEF Remains, WorkStates, RequestRecord
  <2>2. req' = [req EXCEPT ![r] = n]
    BY <1>1, <1>5
  <2>3. /\ n \in RequestRecord /\ n.kind = q.kind /\ n.thread = q.thread
        /\ n.assistant = q.assistant /\ n.work = left /\ n.pc = "cleanup"
    BY <1>1, <2>1 DEF RequestRecord, Pcs
  <2> HIDE DEF n
  <2> QED BY <1>3, <1>5, <2>1, <2>2, <2>3
<1>6. ASSUME NEW pc \in {"cleanup", "failed", "abandoned", "closing", "done"},
             NEW b \in BOOLEAN, UNCHANGED store,
             req' = [req EXCEPT ![r] = [q EXCEPT !.pc = pc, !.background = b]]
      PROVE  OwnerInv'
  <2> DEFINE n == [q EXCEPT !.pc = pc, !.background = b]
  <2>1. /\ n \in RequestRecord /\ n.kind = q.kind /\ n.thread = q.thread
        /\ n.assistant = q.assistant /\ n.work = q.work /\ n.pc = pc
    BY <1>1 DEF RequestRecord, Pcs
  <2>2. req' = [req EXCEPT ![r] = n]
    BY <1>6
  <2> HIDE DEF n
  <2> QED BY <1>3, <1>6, <2>1, <2>2
<1>7. ASSUME NEW pc \in {"cleanup", "failed", "abandoned", "closing", "done"},
             UNCHANGED store, req' = [req EXCEPT ![r].pc = pc]
      PROVE  OwnerInv'
  <2> DEFINE n == [q EXCEPT !.pc = pc]
  <2>1. /\ n \in RequestRecord /\ n.kind = q.kind /\ n.thread = q.thread
        /\ n.assistant = q.assistant /\ n.work = q.work /\ n.pc = pc
    BY <1>1 DEF RequestRecord, Pcs
  <2>2. req' = [req EXCEPT ![r] = n]
    BY <1>1, <1>7
  <2> HIDE DEF n
  <2> QED BY <1>3, <1>7, <2>1, <2>2
<1>8. ASSUME NEW pc \in {"abandoned", "done"}, UNCHANGED store,
             req' = [req EXCEPT ![r].pc = pc, ![r].background = TRUE]
      PROVE  OwnerInv'
  <2>1. req' = [req EXCEPT ![r] = [q EXCEPT !.pc = pc, !.background = TRUE]]
    BY <1>1, <1>8
  <2> QED BY <1>6, <1>8, <2>1, Zenon
<1>9. CASE TimesOut(r)
  <2>1. CASE \E left \in Remains(q.work) :
               req' = [req EXCEPT ![r].pc = "cleanup", ![r].work = left] /\ UNCHANGED store
    BY <1>5, <2>1
  <2>2. CASE \E left \in Remains(q.work) :
               Unwind(r, left, IF q.eraser THEN "expiring" ELSE "failed")
    BY <1>4, <2>2
  <2>3. CASE \E pc \in {"failed", "abandoned"} :
               req' = [req EXCEPT ![r].pc = pc] /\ UNCHANGED store
    BY <1>7, <2>3
  <2> QED BY <1>9, <2>1, <2>2, <2>3 DEF TimesOut
<1>10. CASE Disconnects(r)
  <2>1. CASE \E left \in Remains(q.work) : Unwind(r, left, "cleanup")
    BY <1>4, <2>1
  <2>2. CASE req' = [req EXCEPT ![r].pc = "cleanup"] /\ UNCHANGED store
    BY <1>7, <2>2
  <2>3. CASE \E pc \in {"abandoned", "done"} :
               /\ req' = [req EXCEPT ![r].pc = pc, ![r].background = TRUE]
               /\ UNCHANGED store
    BY <1>8, <2>3
  <2> QED BY <1>10, <2>1, <2>2, <2>3 DEF Disconnects
<1>11. CASE OuterCloses(r)
  BY <1>7, <1>11 DEF OuterCloses
<1>12. CASE EraserCloses(r)
  <2> DEFINE n == [q EXCEPT !.eraser = FALSE, !.erase = TRUE]
  <2>1. /\ n \in RequestRecord /\ n.kind = q.kind /\ n.thread = q.thread
        /\ n.assistant = q.assistant /\ n.work = q.work /\ n.pc = q.pc
    BY <1>1 DEF RequestRecord
  <2>2. req' = [req EXCEPT ![r] = n] /\ UNCHANGED store /\ q.pc = "closing"
    BY <1>1, <1>12 DEF EraserCloses
  <2> HIDE DEF n
  <2> QED BY <1>3, <2>1, <2>2
<1>13. CASE InnerCloses(r)
  <2>1. PICK left \in Remains(q.work) :
               req' = [req EXCEPT ![r].pc = "done", ![r].work = left, ![r].inner = FALSE]
    BY <1>13, Zenon DEF InnerCloses
  <2> DEFINE n == [q EXCEPT !.pc = "done", !.work = left, !.inner = FALSE]
  <2>2. left \in WorkStates /\ (left # "none" => q.work # "none")
    BY <1>1 DEF Remains, WorkStates, RequestRecord
  <2>3. req' = [req EXCEPT ![r] = n]
    BY <1>1, <2>1
  <2>4. /\ n \in RequestRecord /\ n.kind = q.kind /\ n.thread = q.thread
        /\ n.assistant = q.assistant /\ n.work = left /\ n.pc = "done"
    BY <1>1, <2>2 DEF RequestRecord, Pcs
  <2>5. Idled
    BY <1>13, Zenon DEF InnerCloses
  <2> HIDE DEF n
  <2> QED BY <1>3, <2>2, <2>3, <2>4, <2>5
<1> QED BY <1>9, <1>10, <1>11, <1>12, <1>13

\* An update's handler resumes, or that of a deletion, which removes the
\* record: nobody else holds the thread's lease, and there is no checkpoint.
LEMMA WorkerDoneKeepsOwner ==
  ASSUME Settled, ServerInv, Calm, OwnerInv, NEW r \in Requests, WorkerDone(r)
  PROVE  OwnerInv'
<1> DEFINE u == req[r].thread
<1>1. /\ req[r].pc = "working" /\ req[r].work = "none" /\ u \in Threads
      /\ req \in [Requests -> RequestRecord] /\ store \in StoreType
      /\ UNCHANGED cpOwner
  BY StepFacts DEF WorkerDone
<1>2. /\ store' = IF req[r].kind = "delete" THEN [store EXCEPT ![u] = Absent] ELSE store
      /\ \A p \in Requests \ {r} : req'[p] = req[p]
      /\ req'[r].kind = req[r].kind /\ req'[r].thread = u
      /\ req'[r].pc \in {"cleanup", "done"} /\ req'[r].work = "none"
  BY <1>1 DEF WorkerDone, Leave, Suspend, RequestRecord
<1>3. Entitled(r)' /\ Informed(r)' /\ Deleted(r)'
  BY <1>2 DEF Entitled, Informed, Deleted
<1>4. CASE req[r].kind # "delete"
  BY <1>1, <1>2, <1>3, <1>4, QuietOwnerStep
<1>5. CASE req[r].kind = "delete"
  <2>1. cpOwner[u] = NoCheckpoint
    BY <1>1, <1>5 DEF OwnerInv, Deleted
  <2>2. store'[u] = Absent /\ \A t \in Threads \ {u} : store'[t] = store[t]
    BY <1>1, <1>2, <1>5 DEF StoreType
  <2>3. OwnersAgree'
    BY <1>1, <2>1, <2>2 DEF OwnerInv, OwnersAgree, OwnerIn
  <2>4. ASSUME NEW p \in Requests \ {r} PROVE Entitled(p)' /\ Informed(p)' /\ Deleted(p)'
    <3>1. /\ Entitled(p) /\ Informed(p) /\ Deleted(p) /\ req'[p] = req[p]
          /\ req[p].pc # "none" => req[p].thread \in Threads
      BY <1>2, StepFacts DEF OwnerInv
    <3>2. req[p].pc \in Holding => req[p].thread # u
      BY <1>1, OneHolder DEF Holding
    <3>3. Entitled(p)'
      <4>1. req[p].work # "none" => req[p].pc \in Holding /\ req[p].thread \in Threads
        BY <1>5, WriterFacts, DeletesArePrompt
      <4> QED BY <2>2, <3>1, <3>2, <4>1 DEF Entitled, Holding, OwnerIn
    <3>4. Informed(p)'
      BY <1>1, <2>1, <2>2, <3>1 DEF Informed, OwnerIn
    <3>5. Deleted(p)'
      BY <1>1, <3>1 DEF Deleted
    <3> QED BY <3>3, <3>4, <3>5
  <2>5. ASSUME NEW p \in Requests PROVE Private(p)' /\ Asked(p)'
    <3>1. \A q \in Requests : req'[q].kind = req[q].kind /\ req'[q].thread = req[q].thread
      BY <1>2
    <3>2. Private(p) /\ Asked(p)
      BY DEF OwnerInv
    <3> QED BY <3>1, <3>2 DEF Private, Asked
  <2> QED BY <1>3, <2>3, <2>4, <2>5 DEF OwnerInv
<1> QED BY <1>4, <1>5

\* A request that is over is forgotten, with the store of a stateless run.
LEMMA RecycleKeepsOwner ==
  ASSUME ServerInv, OwnerInv, NEW r \in Requests, Recycle(r)
  PROVE  OwnerInv'
<1> DEFINE u == req[r].thread
<1>1. /\ req[r].pc = "done" /\ u \in Threads /\ store \in StoreType /\ UNCHANGED cpOwner
      /\ req \in [Requests -> RequestRecord]
  BY StepFacts DEF Recycle, Over
<1>2. /\ req'[r] = NoRequestYet /\ \A p \in Requests \ {r} : req'[p] = req[p]
      /\ \A t \in Threads : \/ store'[t] = store[t]
                            \/ t = u /\ req[r].kind = "stateless" /\ store'[t] = Absent
  BY <1>1 DEF Recycle, StoreType
<1>3. /\ NoRequestYet.pc = "none" /\ NoRequestYet.thread = NoThread
      /\ NoRequestYet.kind = "get" /\ NoThread \notin Generated
      /\ NoRequestYet.work = "none"
  BY SentinelAssumption, EnvironmentAssumption DEF NoRequestYet, FreshRequest
<1>4. OwnersAgree'
  BY <1>1, <1>2 DEF OwnerInv, OwnersAgree, OwnerIn
<1>5. Entitled(r)' /\ Informed(r)' /\ Deleted(r)' /\ Private(r)' /\ Asked(r)'
  BY <1>2, <1>3 DEF Entitled, Informed, Deleted, Private, Asked
<1>6. ASSUME NEW p \in Requests \ {r}
      PROVE  Entitled(p)' /\ Informed(p)' /\ Deleted(p)' /\ Private(p)' /\ Asked(p)'
  <2>1. /\ Entitled(p) /\ Informed(p) /\ Deleted(p) /\ Private(p) /\ Asked(p)
        /\ req'[p] = req[p] /\ (req[p].pc # "none" => req[p].thread \in Threads)
    BY <1>2, StepFacts DEF OwnerInv
  <2>2. req[p].pc # "none" => store'[req[p].thread] = store[req[p].thread]
    <3>1. req[r].kind = "stateless" => req[p].thread # u
      BY DEF OwnerInv, Private
    <3> QED BY <1>2, <2>1, <3>1
  <2>3. Entitled(p)' /\ Informed(p)' /\ Deleted(p)'
    <3>1. req[p].work # "none" => req[p].pc # "none"
      BY StepFacts DEF RequestInv, Staged, Idle
    <3> QED BY <1>1, <2>1, <2>2, <3>1 DEF Entitled, Informed, Deleted, OwnerIn
  <2>4. Private(p)' /\ Asked(p)'
    BY <1>2, <1>3, <2>1 DEF Private, Asked
  <2> QED BY <2>3, <2>4
<1> QED BY <1>4, <1>5, <1>6 DEF OwnerInv

\* A request arrives; the thread of a stateless one is new.
LEMMA ArriveKeepsOwner ==
  ASSUME ServerInv, OwnerInv, NEW r \in Requests, NEW kind \in Kinds, NEW t \in Threads,
         NEW a \in Assistants \cup {NoAssistant}, Arrive(r, kind, t, a)
  PROVE  OwnerInv'
<1> DEFINE n == FreshRequest(kind, t, a)
<1>1. n.pc = "arrived" /\ n.kind = kind /\ n.thread = t /\ n.work = "none"
  BY DEF FreshRequest
<1>2. /\ req'[r] = n /\ \A p \in Requests \ {r} : req'[p] = req[p]
      /\ UNCHANGED <<store, cpOwner>>
  BY StepFacts DEF Arrive
<1>3. OwnersAgree'
  BY <1>2 DEF OwnerInv, OwnersAgree
<1>4. /\ kind = "stateless" <=> t \in Generated
      /\ kind = "stateless" => \A p \in Requests : req[p].thread # t
  BY DEF Arrive
<1> HIDE DEF n
<1>5. Entitled(r)' /\ Informed(r)' /\ Deleted(r)' /\ Private(r)' /\ Asked(r)'
  BY <1>1, <1>2, <1>4 DEF Entitled, Informed, Deleted, Private, Asked
<1>6. ASSUME NEW p \in Requests \ {r}
      PROVE  Entitled(p)' /\ Informed(p)' /\ Deleted(p)' /\ Private(p)' /\ Asked(p)'
  <2>1. /\ Entitled(p) /\ Informed(p) /\ Deleted(p) /\ Private(p) /\ Asked(p)
        /\ req'[p] = req[p]
    BY <1>2 DEF OwnerInv
  <2>2. Entitled(p)' /\ Informed(p)' /\ Deleted(p)'
    BY <1>2, <2>1 DEF Entitled, Informed, Deleted
  <2>3. Private(p)' /\ Asked(p)'
    BY <1>1, <1>2, <1>4, <2>1 DEF Private, Asked
  <2> QED BY <2>2, <2>3
<1> QED BY <1>3, <1>5, <1>6 DEF OwnerInv


\* Every step of a settled server preserves the invariant.
LEMMA OwnerInvStep ==
  ASSUME Settled
  PROVE  ServerInv /\ Calm /\ OwnerInv /\ [ServerNext]_serverVars => OwnerInv'
<1> SUFFICES ASSUME ServerInv, Calm, OwnerInv, [ServerNext]_serverVars PROVE OwnerInv'
  OBVIOUS
<1>1. CASE UNCHANGED serverVars
  BY <1>1 DEF serverVars, OwnerInv, OwnersAgree, Entitled, Informed, Deleted, Private, Asked
<1>2. ASSUME NEW r \in Requests, NEW kind \in Kinds, NEW t \in Threads,
             NEW a \in Assistants \cup {NoAssistant}, Arrive(r, kind, t, a)
      PROVE  OwnerInv'
  BY <1>2, ArriveKeepsOwner
<1>3. ASSUME NEW r \in Requests, RequestNext(r) PROVE OwnerInv'
  <2>1. CASE Stretch(r)
    BY <2>1, StretchKeepsOwner
  <2>2. CASE SaverRead(r)
    BY <2>2, SaverReadKeepsOwner
  <2>3. CASE GraphWrite(r) \/ Worker(r)
    BY <2>3, WriteKeepsOwner
  <2>4. CASE Erases(r)
    BY <2>4, ErasesKeepsOwner
  <2>5. CASE \/ WorkerFails(r) \/ InvokeEnds(r) \/ Erased(r) \/ BackgroundRelease(r)
             \/ StreamStarts(r) \/ StreamRuns(r) \/ StreamYields(r) \/ StreamContinues(r)
             \/ \E c \in Callers : RunsReleaseTask(r, c) \/ ReleaseReturns(r, c)
    BY <2>5, HandlerKeepsOwner
  <2>6. CASE StreamEnds(r)
    BY <2>6, StreamEndsKeepsOwner
  <2>7. CASE WorkerDone(r)
    BY <2>7, WorkerDoneKeepsOwner
  <2>8. CASE Recycle(r)
    BY <2>8, RecycleKeepsOwner
  <2>9. CASE \/ TimesOut(r) \/ Disconnects(r) \/ OuterCloses(r) \/ EraserCloses(r)
             \/ InnerCloses(r)
    BY <2>9, DisturbedKeepsOwner
  <2> QED BY <1>3, <2>1, <2>2, <2>3, <2>4, <2>5, <2>6, <2>7, <2>8, <2>9
          DEF RequestNext, Stretch
<1>4. ASSUME NEW t \in Threads, Evict(t) PROVE OwnerInv'
  <2>1. UNCHANGED <<store, req>> /\ cpOwner' = [cpOwner EXCEPT ![t] = NoCheckpoint]
    BY <1>4 DEF Settled, Evict
  <2>2. /\ cpOwner \in [Threads -> Assistants \cup {NoCheckpoint}]
        /\ \A p \in Requests : req[p].pc # "none" => req[p].thread \in Threads
    BY StepFacts DEF ServerInv, ServerTypeOK
  <2> QED BY <2>1, <2>2, LossKeepsOwner
<1>5. CASE Restart
  <2>1. /\ NoRequestYet.pc = "none" /\ NoRequestYet.thread = NoThread
        /\ NoRequestYet.kind = "get" /\ NoThread \notin Generated
        /\ NoRequestYet.work = "none"
    BY SentinelAssumption, EnvironmentAssumption DEF NoRequestYet, FreshRequest
  <2>2. \A r \in Requests : req'[r] = NoRequestYet
    BY <1>5 DEF Restart
  <2>3. OwnersAgree'
    BY <1>5 DEF Restart, OwnersAgree, OwnerIn
  <2> QED BY <2>1, <2>2, <2>3 DEF OwnerInv, Entitled, Informed, Deleted, Private, Asked
<1> QED BY <1>1, <1>2, <1>3, <1>4, <1>5 DEF ServerNext

\* Nothing is owned at first.
LEMMA OwnerInvInit == ServerInit => OwnerInv
<1> SUFFICES ASSUME ServerInit PROVE OwnerInv
  OBVIOUS
<1>1. /\ NoRequestYet.pc = "none" /\ NoRequestYet.thread = NoThread
      /\ NoRequestYet.kind = "get" /\ NoThread \notin Generated
      /\ NoRequestYet.work = "none"
  BY SentinelAssumption, EnvironmentAssumption DEF NoRequestYet, FreshRequest
<1>2. \A r \in Requests : req[r] = NoRequestYet
  BY DEF ServerInit
<1>3. OwnersAgree
  BY DEF ServerInit, OwnersAgree, OwnerIn
<1> QED BY <1>1, <1>2, <1>3 DEF OwnerInv, Entitled, Informed, Deleted, Private, Asked

SettledInv == ServerInv /\ Calm /\ OwnerInv

\* The invariant holds of every state a settled server comes to.
THEOREM SettledInvariance ==
  ASSUME Settled
  PROVE  ServerSafeSpec => []SettledInv
<1>1. ServerInit => SettledInv
  <2>1. ServerInit => Calm
    BY DEF ServerInit, Calm, AllPrompt, Prompt, NoRequestYet, FreshRequest
  <2> QED BY <2>1, ServerInvInit, OwnerInvInit DEF SettledInv
<1>2. SettledInv /\ [ServerNext]_serverVars => SettledInv'
  <2>1. ServerInv /\ Calm /\ [ServerNext]_serverVars => Calm'
    BY PromptStep DEF Calm, Undisturbed
  <2> QED BY <2>1, ServerInvStep, OwnerInvStep DEF SettledInv
<1> QED BY <1>1, <1>2, PTL DEF ServerSafeSpec

-----------------------------------------------------------------------------
(***************************************************************************)
(* What follows from it                                                    *)
(***************************************************************************)

\* The store and the checkpoints name the same owner, however lookups, claims,
\* writes, deletions and restarts of any number of requests interleave; if no
\* thread is deleted, timeouts and disconnections and what they leave running
\* do not change that.
THEOREM StoreAndCheckpointsAgree ==
  ASSUME Settled
  PROVE  ServerSafeSpec => []OwnersAgree
<1>1. SettledInv => OwnersAgree
  BY DEF SettledInv, OwnerInv
<1> QED BY <1>1, SettledInvariance, PTL

\* The checkpoints of a thread are never continued by another assistant.
THEOREM AssistantsKeepApart ==
  ASSUME Settled
  PROVE  ServerSafeSpec => NoCrossAssistantWrites
<1> DEFINE Apart == \A t \in Threads :
                      cpOwner[t] # NoCheckpoint => cpOwner'[t] \in {cpOwner[t], NoCheckpoint}
<1>1. ASSUME SettledInv, ServerNext PROVE Apart
  <2>1. /\ ServerInv /\ OwnerInv /\ OwnersAgree
        /\ cpOwner \in [Threads -> Assistants \cup {NoCheckpoint}]
    BY <1>1 DEF SettledInv, OwnerInv, ServerInv, ServerTypeOK
  <2>2. CASE \E r \in Requests : GraphWrite(r) \/ Worker(r)
    <3>1. PICK r \in Requests : GraphWrite(r) \/ Worker(r)
      BY <2>2
    <3> DEFINE u == req[r].thread
               v == IF req[r].kind = "delete" THEN NoCheckpoint ELSE req[r].assistant
    <3>2. req[r].work # "none" /\ cpOwner' = [cpOwner EXCEPT ![u] = v]
      BY <3>1 DEF GraphWrite, Worker, RunKinds, Streaming
    <3>3. u \in Threads /\ (req[r].kind # "delete" => v \in Assistants /\ OwnerIn(store, u) = v)
      BY <2>1, <3>2, WriterFacts
    <3>4. cpOwner[u] # NoCheckpoint => v \in {cpOwner[u], NoCheckpoint}
      BY <2>1, <3>3, OwnersAssumption DEF OwnersAgree
    <3> QED BY <2>1, <3>2, <3>3, <3>4
  <2>3. CASE \E r \in Requests : Erases(r)
    BY <2>1, <2>3 DEF Erases
  <2>4. CASE \E t \in Threads : Evict(t)
    BY <2>1, <2>4 DEF Evict
  <2>5. CASE Restart
    BY <2>1, <2>5 DEF Restart
  <2>6. CASE UNCHANGED cpOwner
    BY <2>6
  <2>7. \/ \E r \in Requests : GraphWrite(r) \/ Worker(r)
        \/ \E r \in Requests : Erases(r)
        \/ \E t \in Threads : Evict(t)
        \/ Restart \/ UNCHANGED cpOwner
    <3>1. ASSUME NEW r \in Requests, RequestNext(r)
          PROVE  GraphWrite(r) \/ Worker(r) \/ Erases(r) \/ UNCHANGED cpOwner
      <4>1. CASE \/ Begin(r) \/ SaverRead(r) \/ ResumeExists(r) \/ ResumeCreate(r)
                 \/ ResumeOwner(r) \/ WorkerDone(r) \/ WorkerFails(r) \/ InvokeEnds(r)
        BY <4>1 DEF Begin, SaverRead, ResumeExists, ResumeCreate, ResumeOwner, WorkerDone,
           WorkerFails, InvokeEnds
      <4>2. CASE \/ StreamStarts(r) \/ StreamRuns(r) \/ StreamYields(r) \/ StreamContinues(r)
                 \/ StreamEnds(r) \/ Erased(r) \/ TimesOut(r) \/ Disconnects(r)
        BY <4>2 DEF StreamStarts, StreamRuns, StreamYields, StreamContinues, StreamEnds, Erased,
           TimesOut, Disconnects
      <4>3. CASE \/ OuterCloses(r) \/ EraserCloses(r) \/ InnerCloses(r)
                 \/ BackgroundRelease(r) \/ Recycle(r)
                 \/ \E c \in Callers : RunsReleaseTask(r, c) \/ ReleaseReturns(r, c)
        BY <4>3, Zenon DEF OuterCloses, EraserCloses, InnerCloses, BackgroundRelease, Recycle,
           RunsReleaseTask, ReleaseReturns
      <4> QED BY <3>1, <4>1, <4>2, <4>3, Zenon DEF RequestNext
    <3>2. ASSUME NEW r \in Requests, NEW kind \in Kinds, NEW t \in Threads,
                 NEW a \in Assistants \cup {NoAssistant}, Arrive(r, kind, t, a)
          PROVE  UNCHANGED cpOwner
      BY <3>2 DEF Arrive
    <3> QED BY <1>1, <3>1, <3>2, Zenon DEF ServerNext
  <2> QED BY <2>2, <2>3, <2>4, <2>5, <2>6, <2>7
<1>2. SettledInv /\ [ServerNext]_serverVars => [Apart]_serverVars
  BY <1>1
<1>3. ServerSafeSpec => [][Apart]_serverVars
  BY <1>2, SettledInvariance, PTL DEF ServerSafeSpec
<1> QED BY <1>3 DEF NoCrossAssistantWrites


\* The steps of a request change no other request.
LEMMA OthersStay ==
  ASSUME ServerInv, NEW p \in Requests, RequestNext(p), NEW r \in Requests \ {p}
  PROVE  req'[r] = req[r]
<1>0. req \in [Requests -> RequestRecord]
  BY DEF ServerInv, ServerTypeOK
<1>1. CASE Stretch(p)
  BY <1>1, StretchOutcome DEF Outcome, Keeps
<1>2. CASE \/ SaverRead(p) \/ GraphWrite(p) \/ Worker(p) \/ WorkerFails(p) \/ InvokeEnds(p)
           \/ StreamStarts(p) \/ StreamRuns(p) \/ StreamYields(p) \/ StreamContinues(p)
           \/ Erases(p) \/ Erased(p) \/ OuterCloses(p) \/ EraserCloses(p) \/ InnerCloses(p)
           \/ BackgroundRelease(p) \/ Recycle(p)
  BY <1>0, <1>2, Zenon DEF SaverRead, GraphWrite, Worker, WorkerFails, InvokeEnds, StreamStarts, StreamRuns,
     StreamYields, StreamContinues, Erases, Erased, OuterCloses, EraserCloses, InnerCloses,
     BackgroundRelease, Recycle
<1>3. CASE WorkerDone(p)
  BY <1>0, <1>3 DEF WorkerDone, Leave, Suspend
<1>4. CASE StreamEnds(p) \/ TimesOut(p) \/ Disconnects(p)
  BY <1>0, <1>4, Zenon DEF StreamEnds, TimesOut, Disconnects, Unwind
<1>5. CASE \E c \in Callers : RunsReleaseTask(p, c) \/ ReleaseReturns(p, c)
  BY <1>0, <1>5 DEF RunsReleaseTask, ReleaseReturns
<1> QED BY <1>1, <1>2, <1>3, <1>4, <1>5 DEF RequestNext, Stretch

\* A deletion that goes through leaves neither record nor checkpoints: nobody
\* stores anything between the checkpointer's part and the store's.
THEOREM DeletionsAreComplete ==
  ASSUME Settled, Undisturbed
  PROVE  ServerSafeSpec => DeletionIsComplete
<1> DEFINE Complete ==
      \A r \in Requests :
        req[r].kind = "delete" /\ req[r].pc = "working" /\ req[r].work = "none"
          /\ req'[r].pc # "working"
        => store'[req[r].thread] = Absent /\ cpOwner'[req[r].thread] = NoCheckpoint
<1>1. ASSUME SettledInv, ServerNext PROVE Complete
  <2> SUFFICES ASSUME NEW r \in Requests, req[r].kind = "delete", req[r].pc = "working",
                      req[r].work = "none", req'[r].pc # "working"
               PROVE  store'[req[r].thread] = Absent /\ cpOwner'[req[r].thread] = NoCheckpoint
    OBVIOUS
  <2>1. /\ ServerInv /\ Deleted(r) /\ RequestInv(r)
        /\ req \in [Requests -> RequestRecord] /\ store \in StoreType
        /\ req[r].thread \in Threads /\ cpOwner[req[r].thread] = NoCheckpoint
    BY <1>1, StepFacts DEF SettledInv, OwnerInv, Deleted
  <2>2. CASE WorkerDone(r)
    <3>1. leaseOf[r] # NoThread
      BY <2>1, SentinelAssumption DEF RequestInv, Leased, Holding
    <3> QED BY <2>1, <2>2, <3>1 DEF WorkerDone, Leave, Suspend, StoreType
  <2>3. CASE Restart
    BY <2>1, <2>3 DEF Restart
  <2>4. ASSUME RequestNext(r), ~ WorkerDone(r) PROVE FALSE
    <3>1. ~ Stretch(r)
      BY DEF Stretch, Begin, ResumeExists, ResumeCreate, ResumeOwner
    <3>2. ~ (TimesOut(r) \/ Disconnects(r))
      BY DEF Undisturbed, TimesOut, Disconnects
    <3>3. ~ (\/ SaverRead(r) \/ Worker(r) \/ WorkerFails(r) \/ InvokeEnds(r) \/ StreamStarts(r)
             \/ StreamRuns(r) \/ StreamYields(r) \/ StreamContinues(r) \/ StreamEnds(r)
             \/ Erased(r) \/ OuterCloses(r) \/ EraserCloses(r) \/ InnerCloses(r) \/ Recycle(r))
      BY DEF SaverRead, Worker, WorkerFails, InvokeEnds, StreamStarts, StreamRuns, StreamYields,
         StreamContinues, StreamEnds, Erased, OuterCloses, EraserCloses, InnerCloses, Recycle, Over
    <3>4. ~ (GraphWrite(r) \/ Erases(r) \/ BackgroundRelease(r))
      BY <2>1 DEF GraphWrite, Erases, BackgroundRelease, RequestRecord
    <3>5. \A c \in Callers : ~ (RunsReleaseTask(r, c) \/ ReleaseReturns(r, c))
      BY DEF RunsReleaseTask, ReleaseReturns
    <3> QED BY <2>4, <3>1, <3>2, <3>3, <3>4, <3>5 DEF RequestNext, Stretch
  <2>5. ASSUME NEW p \in Requests \ {r}, RequestNext(p) PROVE FALSE
    BY <2>1, <2>5, OthersStay
  <2>6. ASSUME NEW p \in Requests, NEW kind \in Kinds, NEW t \in Threads,
               NEW a \in Assistants \cup {NoAssistant}, Arrive(p, kind, t, a)
        PROVE  FALSE
    <3>1. p # r
      BY <2>6 DEF Arrive, NoRequestYet, FreshRequest
    <3> QED BY <2>6, <3>1 DEF Arrive
  <2>7. ASSUME NEW t \in Threads, Evict(t) PROVE FALSE
    BY <2>7 DEF Evict
  <2> QED BY <1>1, <2>2, <2>3, <2>4, <2>5, <2>6, <2>7 DEF ServerNext
<1>2. SettledInv /\ [ServerNext]_serverVars => [Complete]_serverVars
  BY <1>1
<1>3. ServerSafeSpec => [][Complete]_serverVars
  BY <1>2, SettledInvariance, PTL DEF ServerSafeSpec
<1> QED BY <1>3 DEF DeletionIsComplete

-----------------------------------------------------------------------------
(***************************************************************************)
(* Stateless runs                                                          *)
(***************************************************************************)

\* The step of r, or of no request, keeps the erasure due if no checkpoint is
\* written and r does not drop its wrapper without scheduling the deletion.
LEMMA ErasureStep ==
  ASSUME ErasureDue, NEW r \in Requests, \A p \in Requests \ {r} : req'[p] = req[p],
         req[r].eraser \/ req[r].erase
           => /\ req'[r].thread = req[r].thread
              /\ \/ req'[r].eraser \/ req'[r].erase
                 \/ cpOwner'[req[r].thread] = NoCheckpoint,
         \A t \in Generated : cpOwner'[t] # NoCheckpoint =>
           \/ cpOwner[t] # NoCheckpoint
           \/ req'[r].thread = t /\ req'[r].eraser
  PROVE  ErasureDue'
<1> SUFFICES ASSUME NEW t \in Generated, cpOwner'[t] # NoCheckpoint
             PROVE  \E p \in Requests : req'[p].thread = t /\ (req'[p].eraser \/ req'[p].erase)
  BY DEF ErasureDue
<1>1. CASE cpOwner[t] # NoCheckpoint
  <2>1. PICK p \in Requests : req[p].thread = t /\ (req[p].eraser \/ req[p].erase)
    BY <1>1 DEF ErasureDue
  <2>2. CASE p = r
    BY <2>1, <2>2
  <2>3. CASE p # r
    BY <2>1, <2>3
  <2> QED BY <2>2, <2>3
<1>2. CASE cpOwner[t] = NoCheckpoint
  BY <1>2
<1> QED BY <1>1, <1>2

\* No step of a settled server forgets the checkpoints of a stateless run.
LEMMA ErasureInvStep ==
  ASSUME Settled, Undisturbed, SaverErases
  PROVE  SettledInv /\ ErasureInv /\ [ServerNext]_serverVars => ErasureInv'
<1> SUFFICES ASSUME SettledInv, ErasureInv, [ServerNext]_serverVars PROVE ErasureInv'
  OBVIOUS
<1>1. /\ ServerInv /\ AllPrompt /\ OwnerInv /\ ErasureDue
      /\ req \in [Requests -> RequestRecord]
      /\ cpOwner \in [Threads -> Assistants \cup {NoCheckpoint}]
  BY DEF SettledInv, Calm, ErasureInv, ServerInv, ServerTypeOK
<1>2. ASSUME NEW r \in Requests, ErasureDue', Wrapped(r)',
             \A p \in Requests \ {r} : req'[p] = req[p]
      PROVE  ErasureInv'
  BY <1>2 DEF ErasureInv, Wrapped
<1>3. ASSUME NEW r \in Requests, NEW kind \in Kinds, NEW t \in Threads,
             NEW a \in Assistants \cup {NoAssistant}, Arrive(r, kind, t, a)
      PROVE  ErasureInv'
  <2>1. /\ \A p \in Requests \ {r} : req'[p] = req[p]
        /\ req'[r].pc = "arrived" /\ ~ req[r].eraser /\ ~ req[r].erase /\ UNCHANGED cpOwner
    BY <1>1, <1>3 DEF Arrive, NoRequestYet, FreshRequest
  <2>2. ErasureDue'
    BY <1>1, <2>1, ErasureStep
  <2>3. Wrapped(r)'
    BY <2>1 DEF Wrapped
  <2> QED BY <1>2, <2>1, <2>2, <2>3
<1>4. ASSUME NEW r \in Requests, RequestNext(r) PROVE ErasureInv'
  <2>1. /\ RequestInv(r) /\ Wrapped(r) /\ Private(r) /\ Prompt(req[r]) /\ req[r] \in RequestRecord
        /\ \A p \in Requests \ {r} : req'[p] = req[p]
        /\ req[r].pc # "none" => req[r].thread \in Threads
    BY <1>1, <1>4, OthersStay, StepFacts DEF ErasureInv, OwnerInv, AllPrompt
  <2>2. ASSUME req[r].eraser \/ req[r].erase
                 => req'[r].thread = req[r].thread /\ (req'[r].eraser \/ req'[r].erase),
               UNCHANGED cpOwner, Wrapped(r)'
        PROVE  ErasureInv'
    BY <1>1, <1>2, <2>1, <2>2, ErasureStep
  <2>3. CASE Stretch(r)
    <3>1. UNCHANGED cpOwner /\ Idle(req[r])
      BY <1>1, <2>3, StretchOutcome, EarlyIdle
    <3>2. req'[r].pc = "graph" => req[r].kind = "run" /\ req'[r].kind = "run"
      BY <1>1, <2>3, StretchOutcome DEF Outcome, Keeps, Leaves, Waits, Claims, Works, Looking
    <3>3. req'[r].pc \notin {"metadata", "event"}
      BY <1>1, <2>3, StretchOutcome DEF Outcome, Keeps, Leaves, Waits, Claims, Works, Looking
    <3> QED BY <2>2, <3>1, <3>2, <3>3 DEF Wrapped, Idle
  <2>4. CASE GraphWrite(r)
    <3>1. /\ req' = req /\ cpOwner' = [cpOwner EXCEPT ![req[r].thread] = req[r].assistant]
          /\ req[r].work = "live"
      BY <2>4 DEF GraphWrite
    <3>2. req[r].kind = "stateless" => req[r].eraser
      BY <2>1, <2>4 DEF GraphWrite, RequestInv, Staged, Prompt, Wrapped, RunKinds
    <3>3. \A t \in Generated : cpOwner'[t] # NoCheckpoint =>
             cpOwner[t] # NoCheckpoint \/ (req'[r].thread = t /\ req'[r].eraser)
      BY <1>1, <2>1, <3>1, <3>2, EnvironmentAssumption DEF Private
    <3>4. ErasureDue'
      BY <1>1, <2>1, <3>1, <3>3, ErasureStep
    <3>5. Wrapped(r)'
      BY <2>1, <3>1 DEF Wrapped
    <3> QED BY <1>2, <2>1, <3>4, <3>5
  <2>5. CASE Worker(r)
    <3>1. req[r].thread \notin Generated
      BY <2>1, <2>5 DEF Worker, Prompt, Private
    <3>2. \A t \in Generated : cpOwner'[t] = cpOwner[t]
      BY <1>1, <2>5, <3>1, EnvironmentAssumption DEF Worker
    <3>3. /\ req'[r].thread = req[r].thread /\ req'[r].kind = req[r].kind
          /\ req'[r].pc = req[r].pc /\ req'[r].eraser = req[r].eraser
          /\ req'[r].erase = req[r].erase
      BY <1>1, <2>5 DEF Worker, RequestRecord
    <3>4. ErasureDue'
      BY <1>1, <2>1, <3>2, <3>3, ErasureStep
    <3>5. Wrapped(r)'
      BY <2>1, <3>3 DEF Wrapped
    <3> QED BY <1>2, <2>1, <3>4, <3>5
  <2>6. CASE Erases(r)
    <3>1. req[r].thread \in Threads
      BY <2>1, <2>6 DEF Erases, RequestInv, Staged, Idle
    <3>2. /\ cpOwner'[req[r].thread] = NoCheckpoint
          /\ \A t \in Threads \ {req[r].thread} : cpOwner'[t] = cpOwner[t]
      BY <1>1, <2>6, <3>1 DEF Erases
    <3>3. req'[r].thread = req[r].thread /\ req'[r].pc = req[r].pc /\ req[r].pc = "erasing"
      BY <1>1, <2>1, <2>6 DEF Erases, RequestRecord, Prompt
    <3>4. ErasureDue'
      BY <1>1, <2>1, <3>1, <3>2, <3>3, EnvironmentAssumption, ErasureStep
    <3>5. Wrapped(r)'
      BY <3>3 DEF Wrapped
    <3> QED BY <1>2, <2>1, <3>4, <3>5
  <2>7. CASE StreamEnds(r)
    <3> DEFINE q == req[r]
               pc == IF q.eraser THEN "erasing" ELSE "cleanup"
               n == [q EXCEPT !.pc = pc, !.work = q.work, !.inner = FALSE, !.eraser = FALSE,
                              !.erase = q.erase \/ q.eraser]
    <3>1. req' = [req EXCEPT ![r] = n] /\ UNCHANGED cpOwner
      BY <2>7 DEF StreamEnds, Unwind
    <3>2. n.pc = pc /\ n.thread = q.thread /\ n.erase = (q.erase \/ q.eraser)
      BY <2>1 DEF RequestRecord
    <3>3. req'[r] = n
      BY <1>1, <3>1
    <3> HIDE DEF n
    <3>4. Wrapped(r)'
      BY <3>2, <3>3 DEF Wrapped
    <3> QED BY <2>2, <3>1, <3>2, <3>3, <3>4
  <2>8. CASE StreamStarts(r)
    <3>1. /\ req' = [req EXCEPT ![r].pc = "metadata", ![r].eraser = req[r].kind = "stateless"]
          /\ UNCHANGED cpOwner /\ req[r].pc = "granted"
      BY <2>8 DEF StreamStarts
    <3>2. /\ req'[r].kind = req[r].kind /\ req'[r].eraser = (req[r].kind = "stateless")
      BY <1>1, <3>1 DEF RequestRecord
    <3>3. ~ req[r].eraser /\ ~ req[r].erase
      BY <2>1, <3>1 DEF RequestInv, Staged, Idle
    <3>4. Wrapped(r)'
      BY <3>2 DEF Wrapped
    <3> QED BY <2>2, <3>1, <3>3, <3>4
  <2>9. CASE \/ SaverRead(r) \/ WorkerFails(r) \/ InvokeEnds(r) \/ StreamRuns(r)
             \/ StreamYields(r) \/ StreamContinues(r) \/ Erased(r) \/ BackgroundRelease(r)
             \/ \E c \in Callers : RunsReleaseTask(r, c) \/ ReleaseReturns(r, c)
    <3>1. UNCHANGED cpOwner
      BY <2>9 DEF SaverRead, WorkerFails, InvokeEnds, StreamRuns, StreamYields,
         StreamContinues, Erased, BackgroundRelease, RunsReleaseTask, ReleaseReturns
    <3>2. /\ req'[r].kind = req[r].kind /\ req'[r].thread = req[r].thread
          /\ req'[r].eraser = req[r].eraser /\ req'[r].erase = req[r].erase
      BY <1>1, <2>9 DEF SaverRead, WorkerFails, InvokeEnds, StreamRuns, StreamYields,
         StreamContinues, Erased, BackgroundRelease, RunsReleaseTask, ReleaseReturns, RequestRecord
    <3>3. \/ req[r].pc \in {"metadata", "graph", "event"}
          \/ req'[r].pc \notin {"metadata", "graph", "event"}
      BY <1>1, <2>9 DEF SaverRead, WorkerFails, InvokeEnds, StreamRuns, StreamYields,
         StreamContinues, Erased, BackgroundRelease, RunsReleaseTask, ReleaseReturns, RequestRecord
    <3>4. Wrapped(r)'
      BY <2>1, <3>2, <3>3 DEF Wrapped
    <3> QED BY <2>2, <3>1, <3>2, <3>4
  <2>10. CASE WorkerDone(r)
    <3>1. /\ UNCHANGED cpOwner /\ req'[r].pc \in {"cleanup", "done"}
          /\ req'[r].thread = req[r].thread
          /\ req'[r].eraser = req[r].eraser /\ req'[r].erase = req[r].erase
      BY <1>1, <2>10 DEF WorkerDone, Leave, Suspend, RequestRecord
    <3>2. Wrapped(r)'
      BY <3>1 DEF Wrapped
    <3> QED BY <2>2, <3>1, <3>2
  <2>11. CASE Recycle(r)
    <3>1. /\ UNCHANGED cpOwner /\ req'[r] = NoRequestYet /\ req[r].pc = "done" /\ ~ req[r].erase
      BY <1>1, <2>11 DEF Recycle, Over
    <3>2. ~ req[r].eraser
      BY <2>1, <3>1 DEF RequestInv, Staged
    <3>3. Wrapped(r)'
      BY <3>1 DEF Wrapped, NoRequestYet, FreshRequest
    <3> QED BY <2>2, <3>1, <3>2, <3>3
  <2>12. ~ (\/ TimesOut(r) \/ Disconnects(r) \/ OuterCloses(r) \/ EraserCloses(r)
            \/ InnerCloses(r))
    BY <2>1, Zenon DEF Undisturbed, TimesOut, Disconnects, OuterCloses, EraserCloses,
       InnerCloses, Prompt
  <2> QED BY <1>4, <2>3, <2>4, <2>5, <2>6, <2>7, <2>8, <2>9, <2>10, <2>11, <2>12
          DEF RequestNext, Stretch
<1>5. ASSUME UNCHANGED req,
             \A t \in Generated : cpOwner'[t] # NoCheckpoint => cpOwner[t] # NoCheckpoint
      PROVE  ErasureInv'
  BY <1>5 DEF ErasureInv, ErasureDue, Wrapped
<1>6. CASE UNCHANGED serverVars
  BY <1>5, <1>6 DEF serverVars
<1>7. CASE \E t \in Threads : Evict(t)
  BY <1>1, <1>5, <1>7, EnvironmentAssumption DEF Evict
<1>8. CASE Restart
  <2>1. \A t \in Generated : cpOwner'[t] = NoCheckpoint
    BY <1>8, EnvironmentAssumption DEF Restart
  <2>2. \A r \in Requests : req'[r].pc = "none"
    BY <1>8 DEF Restart, NoRequestYet, FreshRequest
  <2> QED BY <2>1, <2>2 DEF ErasureInv, ErasureDue, Wrapped
<1> QED BY <1>3, <1>4, <1>6, <1>7, <1>8 DEF ServerNext

\* Where adelete_thread works, no checkpoint of a stateless run is left once
\* the run is over.
THEOREM StatelessRunsLeaveNothing ==
  ASSUME Settled, Undisturbed, SaverErases
  PROVE  ServerSafeSpec => []StatelessLeavesNothing
<1>1. ServerInit => ErasureInv
  BY EnvironmentAssumption DEF ServerInit, ErasureInv, ErasureDue, Wrapped, NoRequestYet,
     FreshRequest
<1>2. SettledInv /\ ErasureInv /\ [ServerNext]_serverVars => ErasureInv'
  BY ErasureInvStep
<1>3. ASSUME SettledInv, ErasureInv PROVE StatelessLeavesNothing
  <2> SUFFICES ASSUME NEW t \in Generated, \A r \in Requests : req[r].thread = t => Over(r),
                      cpOwner[t] # NoCheckpoint
               PROVE  FALSE
    BY DEF StatelessLeavesNothing
  <2>1. PICK r \in Requests : req[r].thread = t /\ (req[r].eraser \/ req[r].erase)
    BY <1>3 DEF ErasureInv, ErasureDue
  <2>2. Over(r) /\ RequestInv(r)
    BY <1>3, <2>1, StepFacts DEF SettledInv
  <2> QED BY <2>1, <2>2 DEF Over, RequestInv, Staged
<1> QED BY <1>1, <1>2, <1>3, SettledInvariance, PTL DEF ServerSafeSpec
=============================================================================
