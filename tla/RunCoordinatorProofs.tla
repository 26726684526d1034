------------------------ MODULE RunCoordinatorProofs ------------------------
(***************************************************************************)
(* Proofs about RunCoordinator, for any set of threads and requests and    *)
(* any positive limit.                                                     *)
(***************************************************************************)
EXTENDS RunCoordinator, FiniteSetTheorems, TLAPS

(***************************************************************************)
(* The inductive invariant.  It adds to the properties how a request's     *)
(* lease, its calls of release and their tasks fit together.               *)
(***************************************************************************)

\* An entry of _active is the token of a lease of that very thread.
EntriesAreLeases ==
  \A t \in Threads : active[t] # NoRequest => leaseOf[active[t]] = t

\* Without a lease there is nothing to release.
NoLeaseNoCalls ==
  \A r \in Requests :
     leaseOf[r] = NoThread =>
        /\ ~ released[r]
        /\ \A c \in Callers : call[r][c] = "none" /\ task[r][c] = "none"

\* A task belongs to a call.
TasksHaveCalls ==
  \A r \in Requests, c \in Callers : task[r][c] # "none" => call[r][c] # "none"

\* Once the task of some call has run, the lease's slot is not its own.
TaskFreesSlot ==
  \A r \in Requests, c \in Callers :
     task[r][c] = "done" => active[leaseOf[r]] # r

CoordInv ==
  /\ CoordTypeOK
  /\ CapacityBound
  /\ EntriesAreLeases
  /\ NoLeaseNoCalls
  /\ TasksHaveCalls
  /\ TaskFreesSlot
  /\ HolderKeepsSlot
  /\ ReleasedMeansFree

\* The initial state, with no entry and no lease, satisfies the invariant.
LEMMA CoordInvInit == CoordInit => CoordInv
<1> SUFFICES ASSUME CoordInit PROVE CoordInv
  OBVIOUS
<1>1. CoordTypeOK
  BY DEF CoordInit, CoordTypeOK, CallStates, TaskStates
<1>2. ActiveThreads = {}
  BY DEF CoordInit, ActiveThreads
<1>3. CapacityBound
  BY <1>2, FS_EmptySet, MaxRunsAssumption DEF CapacityBound
<1>4. /\ EntriesAreLeases /\ NoLeaseNoCalls /\ TasksHaveCalls /\ TaskFreesSlot
      /\ HolderKeepsSlot /\ ReleasedMeansFree
  BY DEF CoordInit, EntriesAreLeases, NoLeaseNoCalls, TasksHaveCalls,
         TaskFreesSlot, HolderKeepsSlot, ReleasedMeansFree
<1> QED
  BY <1>1, <1>3, <1>4 DEF CoordInv

\* A step that only deletes entries of _active keeps the capacity bound.
LEMMA CapacityShrinks ==
  ASSUME CapacityBound, ActiveThreads' \subseteq ActiveThreads
  PROVE  CapacityBound'
<1>1. /\ IsFiniteSet(ActiveThreads')
      /\ Cardinality(ActiveThreads') <= Cardinality(ActiveThreads)
  BY FS_Subset DEF CapacityBound
<1>2. Cardinality(ActiveThreads) \in Nat /\ Cardinality(ActiveThreads') \in Nat
  BY <1>1, FS_CardinalityType DEF CapacityBound
<1> QED
  BY <1>1, <1>2, MaxRunsAssumption DEF CapacityBound

\* acquire, which adds an entry only below the limit, keeps the invariant.
LEMMA CoordInvAcquire ==
  ASSUME CoordInv, NEW r \in Requests, NEW t \in Threads, Acquire(r, t)
  PROVE  CoordInv'
<1> USE DEF CoordInv
<1>1. CoordTypeOK'
  BY DEF CoordTypeOK, Acquire
<1>2. CapacityBound'
  <2>1. t \notin ActiveThreads /\ IsFiniteSet(ActiveThreads)
    BY DEF Acquire, Conflicts, CapacityBound
  <2>2. ActiveThreads' = ActiveThreads \cup {t}
    BY SentinelAssumption DEF Acquire, ActiveThreads, CoordTypeOK
  <2>3. /\ IsFiniteSet(ActiveThreads')
        /\ Cardinality(ActiveThreads') = Cardinality(ActiveThreads) + 1
    BY <2>1, <2>2, FS_AddElement
  <2>4. Cardinality(ActiveThreads) \in Nat
    BY <2>1, FS_CardinalityType
  <2>5. Cardinality(ActiveThreads) < MaxRuns
    BY <2>4, MaxRunsAssumption DEF Acquire, PoolFull
  <2> QED
    BY <2>3, <2>4, <2>5, MaxRunsAssumption DEF CapacityBound
<1>3. EntriesAreLeases'
  BY SentinelAssumption DEF Acquire, EntriesAreLeases, CoordTypeOK
<1>4. NoLeaseNoCalls' /\ TasksHaveCalls'
  BY SentinelAssumption DEF Acquire, NoLeaseNoCalls, TasksHaveCalls, CoordTypeOK
<1>5. active[t] = NoRequest
  BY DEF Acquire, Conflicts, ActiveThreads
<1>6. TaskFreesSlot'
  BY <1>5, SentinelAssumption
  DEF Acquire, TaskFreesSlot, NoLeaseNoCalls, CoordTypeOK
<1>7. HolderKeepsSlot'
  BY <1>5, SentinelAssumption
  DEF Acquire, HolderKeepsSlot, AskedBack, CoordTypeOK
<1>8. ReleasedMeansFree'
  BY <1>5, SentinelAssumption
  DEF Acquire, ReleasedMeansFree, NoLeaseNoCalls, CoordTypeOK
<1> QED
  BY <1>1, <1>2, <1>3, <1>4, <1>6, <1>7, <1>8

\* _release deletes an entry only if it is this lease's own: no other lease
\* that has not been asked back can lose its slot.
LEMMA CoordInvReleaseTask ==
  ASSUME CoordInv, NEW r \in Requests, NEW c \in Callers, ReleaseTask(r, c)
  PROVE  CoordInv'
<1> USE DEF CoordInv
<1>1. leaseOf[r] \in Threads
  BY DEF ReleaseTask, NoLeaseNoCalls, CoordTypeOK
<1>2. CoordTypeOK'
  BY <1>1 DEF CoordTypeOK, ReleaseTask, TaskStates
<1>3. CapacityBound'
  <2>1. ActiveThreads' \subseteq ActiveThreads
    BY <1>1 DEF ActiveThreads, ReleaseTask, CoordTypeOK
  <2> QED
    BY <2>1, CapacityShrinks
<1>4. \A u \in Threads : active'[u] = active[u] \/ active'[u] = NoRequest
  BY <1>1 DEF ReleaseTask, CoordTypeOK
<1>5. EntriesAreLeases'
  BY <1>4 DEF ReleaseTask, EntriesAreLeases, CoordTypeOK
<1>6. NoLeaseNoCalls' /\ TasksHaveCalls'
  BY <1>1, SentinelAssumption
  DEF ReleaseTask, NoLeaseNoCalls, TasksHaveCalls, CoordTypeOK
<1>7. active'[leaseOf[r]] # r
  BY <1>1, SentinelAssumption DEF ReleaseTask, CoordTypeOK
<1>8. TaskFreesSlot'
  <2> SUFFICES ASSUME NEW q \in Requests, NEW d \in Callers, task'[q][d] = "done"
               PROVE  active'[leaseOf[q]] # q
    BY DEF TaskFreesSlot, ReleaseTask
  <2>1. CASE q = r
    BY <2>1, <1>7
  <2>2. CASE q # r
    <3>1. task[q][d] = "done" /\ leaseOf[q] \in Threads
      BY <2>2, SentinelAssumption DEF ReleaseTask, NoLeaseNoCalls, CoordTypeOK
    <3> QED
      BY <3>1, <1>4, SentinelAssumption DEF TaskFreesSlot
  <2> QED
    BY <2>1, <2>2
<1>9. HolderKeepsSlot'
  <2> SUFFICES ASSUME NEW q \in Requests, leaseOf[q] # NoThread, ~ AskedBack(q)
               PROVE  active'[leaseOf[q]] = q
    BY DEF HolderKeepsSlot, AskedBack, ReleaseTask
  <2>1. q # r
    BY DEF AskedBack, TasksHaveCalls, ReleaseTask
  <2>2. active[leaseOf[q]] = q /\ leaseOf[q] \in Threads
    BY DEF HolderKeepsSlot, CoordTypeOK
  <2> QED
    BY <2>1, <2>2, <1>1 DEF ReleaseTask, CoordTypeOK
<1>10. ReleasedMeansFree'
  <2> SUFFICES ASSUME NEW q \in Requests, released[q]
               PROVE  active'[leaseOf[q]] # q
    BY DEF ReleasedMeansFree, ReleaseTask
  <2>1. leaseOf[q] \in Threads /\ active[leaseOf[q]] # q
    BY DEF ReleasedMeansFree, NoLeaseNoCalls, CoordTypeOK
  <2> QED
    BY <2>1, <1>4, SentinelAssumption
<1> QED
  BY <1>2, <1>3, <1>5, <1>6, <1>8, <1>9, <1>10

\* The steps of RunLease.release that leave _active alone.
LEMMA CoordInvReleaseSteps ==
  ASSUME CoordInv, NEW r \in Requests, NEW c \in Callers,
         \/ ReleaseNoop(r, c) \/ ReleaseCall(r, c)
         \/ ReleaseReturn(r, c) \/ ReleaseCancelled(r, c)
  PROVE  CoordInv'
<1> USE DEF CoordInv
<1>1. active' = active /\ leaseOf' = leaseOf
  BY DEF ReleaseNoop, ReleaseCall, ReleaseReturn, ReleaseCancelled
<1>2. CoordTypeOK'
  <2> USE DEF CoordTypeOK, CallStates, TaskStates
  <2>1. CASE ReleaseNoop(r, c)
    BY <2>1 DEF ReleaseNoop
  <2>2. CASE ReleaseCall(r, c)
    BY <2>2 DEF ReleaseCall
  <2>3. CASE ReleaseReturn(r, c)
    BY <2>3 DEF ReleaseReturn
  <2>4. CASE ReleaseCancelled(r, c)
    BY <2>4 DEF ReleaseCancelled
  <2> QED
    BY <2>1, <2>2, <2>3, <2>4
<1>3. CapacityBound'
  BY <1>1, CapacityShrinks DEF ActiveThreads
<1>4. EntriesAreLeases'
  BY <1>1 DEF EntriesAreLeases
<1>5. NoLeaseNoCalls' /\ TasksHaveCalls'
  <2>1. leaseOf[r] # NoThread
    BY DEF NoLeaseNoCalls, ReleaseNoop, ReleaseCall, ReleaseReturn, ReleaseCancelled
  <2>2. NoLeaseNoCalls'
    <3> USE DEF NoLeaseNoCalls, CoordTypeOK
    <3>1. CASE ReleaseNoop(r, c)
      BY <1>1, <2>1, <3>1 DEF ReleaseNoop
    <3>2. CASE ReleaseCall(r, c)
      BY <1>1, <2>1, <3>2 DEF ReleaseCall
    <3>3. CASE ReleaseReturn(r, c)
      BY <1>1, <2>1, <3>3 DEF ReleaseReturn
    <3>4. CASE ReleaseCancelled(r, c)
      BY <1>1, <2>1, <3>4 DEF ReleaseCancelled
    <3> QED
      BY <3>1, <3>2, <3>3, <3>4
  <2>3. TasksHaveCalls'
    <3> SUFFICES ASSUME NEW q \in Requests, NEW d \in Callers, task'[q][d] # "none"
                 PROVE  call'[q][d] # "none"
      BY DEF TasksHaveCalls
    <3>1. task[q][d] # "none" => call[q][d] # "none"
      BY DEF TasksHaveCalls
    <3>2. CASE q = r /\ d = c
      BY <3>2 DEF CoordTypeOK, ReleaseNoop, ReleaseCall, ReleaseReturn, ReleaseCancelled
    <3>3. CASE ~ (q = r /\ d = c)
      <4>1. task'[q][d] = task[q][d] /\ call'[q][d] = call[q][d]
        <5> USE DEF CoordTypeOK
        <5>1. CASE ReleaseNoop(r, c)
          BY <3>3, <5>1 DEF ReleaseNoop
        <5>2. CASE ReleaseCall(r, c)
          BY <3>3, <5>2 DEF ReleaseCall
        <5>3. CASE ReleaseReturn(r, c)
          BY <3>3, <5>3 DEF ReleaseReturn
        <5>4. CASE ReleaseCancelled(r, c)
          BY <3>3, <5>4 DEF ReleaseCancelled
        <5> QED
          BY <5>1, <5>2, <5>3, <5>4
      <4> QED
        BY <3>1, <4>1
    <3> QED
      BY <3>2, <3>3
  <2> QED
    BY <2>2, <2>3
<1>6. TaskFreesSlot'
  <2> USE DEF CoordTypeOK, TaskFreesSlot
  <2>1. CASE ReleaseNoop(r, c)
    BY <1>1, <2>1 DEF ReleaseNoop
  <2>2. CASE ReleaseCall(r, c)
    BY <1>1, <2>2 DEF ReleaseCall
  <2>3. CASE ReleaseReturn(r, c)
    BY <1>1, <2>3 DEF ReleaseReturn
  <2>4. CASE ReleaseCancelled(r, c)
    BY <1>1, <2>4 DEF ReleaseCancelled
  <2> QED
    BY <2>1, <2>2, <2>3, <2>4
<1>7. HolderKeepsSlot'
  <2> USE DEF HolderKeepsSlot, AskedBack, CoordTypeOK
  <2>1. CASE ReleaseNoop(r, c)
    BY <1>1, <2>1 DEF ReleaseNoop
  <2>2. CASE ReleaseCall(r, c)
    BY <1>1, <2>2 DEF ReleaseCall
  <2>3. CASE ReleaseReturn(r, c)
    BY <1>1, <2>3 DEF ReleaseReturn
  <2>4. CASE ReleaseCancelled(r, c)
    BY <1>1, <2>4 DEF ReleaseCancelled
  <2> QED
    BY <2>1, <2>2, <2>3, <2>4
<1>8. ReleasedMeansFree'
  <2> USE DEF ReleasedMeansFree, TaskFreesSlot, CoordTypeOK
  <2>1. CASE ReleaseNoop(r, c)
    BY <1>1, <2>1 DEF ReleaseNoop
  <2>2. CASE ReleaseCall(r, c)
    BY <1>1, <2>2 DEF ReleaseCall
  <2>3. CASE ReleaseReturn(r, c)
    BY <1>1, <2>3 DEF ReleaseReturn
  <2>4. CASE ReleaseCancelled(r, c)
    BY <1>1, <2>4 DEF ReleaseCancelled
  <2> QED
    BY <2>1, <2>2, <2>3, <2>4
<1> QED
  BY <1>2, <1>3, <1>4, <1>5, <1>6, <1>7, <1>8

\* A request is forgotten only once nothing refers to its token.
LEMMA CoordInvForget ==
  ASSUME CoordInv, NEW r \in Requests, Forget(r)
  PROVE  CoordInv'
<1> USE DEF CoordInv
<1>1. active' = active
  BY DEF Forget
<1>2. CoordTypeOK'
  BY DEF CoordTypeOK, Forget, CallStates, TaskStates
<1>3. CapacityBound'
  BY <1>1, CapacityShrinks DEF ActiveThreads
<1>4. EntriesAreLeases'
  BY <1>1 DEF EntriesAreLeases, Forget, CoordTypeOK
<1>5. NoLeaseNoCalls' /\ TasksHaveCalls'
  BY DEF NoLeaseNoCalls, TasksHaveCalls, Forget, CoordTypeOK
<1>6. TaskFreesSlot' /\ HolderKeepsSlot' /\ ReleasedMeansFree'
  BY <1>1 DEF TaskFreesSlot, HolderKeepsSlot, ReleasedMeansFree, AskedBack,
              Forget, CoordTypeOK
<1> QED
  BY <1>2, <1>3, <1>4, <1>5, <1>6

\* Every step of the coordinator preserves the invariant.
LEMMA CoordInvStep == CoordInv /\ [CoordNext]_coordVars => CoordInv'
<1> SUFFICES ASSUME CoordInv, [CoordNext]_coordVars PROVE CoordInv'
  OBVIOUS
<1>1. ASSUME UNCHANGED coordVars PROVE CoordInv'
  BY <1>1 DEF coordVars, CoordInv, CoordTypeOK, CapacityBound, ActiveThreads,
     EntriesAreLeases, NoLeaseNoCalls, TasksHaveCalls, TaskFreesSlot,
     HolderKeepsSlot, AskedBack, ReleasedMeansFree
<1>2. ASSUME NEW r \in Requests, NEW t \in Threads, Acquire(r, t) PROVE CoordInv'
  BY <1>2, CoordInvAcquire
<1>3. ASSUME NEW t \in Threads, AcquireRefused(t) PROVE CoordInv'
  BY <1>3, <1>1 DEF AcquireRefused
<1>4. ASSUME NEW r \in Requests, NEW c \in Callers, ReleaseTask(r, c)
      PROVE  CoordInv'
  BY <1>4, CoordInvReleaseTask
<1>5. ASSUME NEW r \in Requests, NEW c \in Callers,
             \/ ReleaseNoop(r, c) \/ ReleaseCall(r, c)
             \/ ReleaseReturn(r, c) \/ ReleaseCancelled(r, c)
      PROVE  CoordInv'
  BY <1>5, CoordInvReleaseSteps
<1>6. ASSUME NEW r \in Requests, Forget(r) PROVE CoordInv'
  BY <1>6, CoordInvForget
<1> QED
  BY <1>1, <1>2, <1>3, <1>4, <1>5, <1>6 DEF CoordNext

\* The invariant holds in every reachable state of the coordinator.
THEOREM CoordInvariance == CoordSpec => []CoordInv
<1>1. CoordInit => CoordInv
  BY CoordInvInit
<1>2. CoordInv /\ [CoordNext]_coordVars => CoordInv'
  BY CoordInvStep
<1> QED
  BY <1>1, <1>2, PTL DEF CoordSpec

\* Type correctness of the coordinator's state.
THEOREM CoordTypeCorrect == CoordSpec => []CoordTypeOK
<1>1. CoordInv => CoordTypeOK
  BY DEF CoordInv
<1> QED
  BY <1>1, CoordInvariance, PTL

\* However acquire and release interleave, _active never has more than
\* max_concurrent_runs entries.
THEOREM CapacityIsBounded == CoordSpec => []CapacityBound
<1>1. CoordInv => CapacityBound
  BY DEF CoordInv
<1> QED
  BY <1>1, CoordInvariance, PTL

\* No late _release of an earlier lease takes the slot of a lease whose
\* release was not called yet.
THEOREM HoldersKeepSlots == CoordSpec => []HolderKeepsSlot
<1>1. CoordInv => HolderKeepsSlot
  BY DEF CoordInv
<1> QED
  BY <1>1, CoordInvariance, PTL

\* The _released flag of a lease is TRUE only if its slot is given back.
THEOREM ReleasedLeasesAreFree == CoordSpec => []ReleasedMeansFree
<1>1. CoordInv => ReleasedMeansFree
  BY DEF CoordInv
<1> QED
  BY <1>1, CoordInvariance, PTL

-----------------------------------------------------------------------------
(***************************************************************************)
(* The coordinator implements the lease pool (its safety part).            *)
(***************************************************************************)

\* The coordinator starts as an empty pool.
LEMMA PoolInitRefined == CoordInit => Pool!PoolInit
  BY DEF CoordInit, Pool!PoolInit, AskedBack

\* Each step of the coordinator is a step of the pool or changes nothing the
\* pool sees: acquire grants, the first call of release asks, the task that
\* finds the lease's own token frees, and forgetting a request retires it.
LEMMA PoolStepRefined ==
  CoordInv /\ [CoordNext]_coordVars => [Pool!PoolNext]_(Pool!poolVars)
<1> SUFFICES ASSUME CoordInv, [CoordNext]_coordVars
             PROVE  [Pool!PoolNext]_(Pool!poolVars)
  OBVIOUS
<1> USE DEF CoordInv
<1> DEFINE asked == {r \in Requests : AskedBack(r)}
<1>1. ASSUME UNCHANGED coordVars PROVE [Pool!PoolNext]_(Pool!poolVars)
  BY <1>1 DEF coordVars, Pool!poolVars, AskedBack
<1>2. ASSUME NEW r \in Requests, NEW t \in Threads, Acquire(r, t)
      PROVE  [Pool!PoolNext]_(Pool!poolVars)
  <2>1. active[t] = NoRequest
    BY <1>2 DEF Acquire, Conflicts, ActiveThreads
  <2>2. r \notin asked
    BY <1>2 DEF Acquire, AskedBack, NoLeaseNoCalls
  <2>3. \A u \in Threads : active[u] # r
    BY <1>2, SentinelAssumption DEF Acquire, EntriesAreLeases
  <2>4. Pool!Cardinality(Pool!Held) < MaxRuns
    <3>1. Cardinality(ActiveThreads) \in Nat
      BY FS_CardinalityType DEF CapacityBound
    <3> QED
      BY <1>2, <3>1, MaxRunsAssumption DEF Acquire, PoolFull, ActiveThreads, Pool!Held, Cardinality, Pool!Cardinality
  <2>5. active' = [active EXCEPT ![t] = r] /\ asked' = asked
    BY <1>2 DEF Acquire, AskedBack
  <2>6. Pool!Grant(r, t)
    BY <2>1, <2>2, <2>3, <2>4, <2>5 DEF Pool!Grant
  <2> QED
    BY <2>6 DEF Pool!PoolNext
<1>3. ASSUME NEW t \in Threads, AcquireRefused(t)
      PROVE  [Pool!PoolNext]_(Pool!poolVars)
  BY <1>3, <1>1 DEF AcquireRefused
<1>4. ASSUME NEW r \in Requests, NEW c \in Callers,
             ReleaseNoop(r, c) \/ ReleaseCall(r, c)
      PROVE  [Pool!PoolNext]_(Pool!poolVars)
  <2>1. active' = active /\ AskedBack(r)'
    BY <1>4 DEF ReleaseNoop, ReleaseCall, AskedBack, CoordTypeOK
  <2>2. \A q \in Requests : q # r => (AskedBack(q)' <=> AskedBack(q))
    BY <1>4 DEF ReleaseNoop, ReleaseCall, AskedBack, CoordTypeOK
  <2>3. asked' = asked \cup {r}
    BY <2>1, <2>2
  <2>4. CASE r \in asked
    BY <2>1, <2>3, <2>4 DEF Pool!poolVars
  <2>5. CASE r \notin asked
    <3>1. Pool!Ask(r)
      BY <2>1, <2>3, <2>5 DEF Pool!Ask
    <3> QED
      BY <3>1 DEF Pool!PoolNext
  <2> QED
    BY <2>4, <2>5
<1>5. ASSUME NEW r \in Requests, NEW c \in Callers, ReleaseTask(r, c)
      PROVE  [Pool!PoolNext]_(Pool!poolVars)
  <2>1. leaseOf[r] \in Threads /\ r \in asked
    BY <1>5 DEF ReleaseTask, NoLeaseNoCalls, TasksHaveCalls, AskedBack, CoordTypeOK
  <2>2. asked' = asked
    BY <1>5 DEF ReleaseTask, AskedBack
  <2>3. CASE active[leaseOf[r]] = r
    <3>1. active' = [active EXCEPT ![leaseOf[r]] = NoRequest]
      BY <1>5, <2>3 DEF ReleaseTask
    <3>2. Pool!Free(leaseOf[r])
      BY <2>1, <2>2, <2>3, <3>1 DEF Pool!Free
    <3> QED
      BY <2>1, <3>2 DEF Pool!PoolNext
  <2>4. CASE active[leaseOf[r]] # r
    <3>1. active' = active
      BY <1>5, <2>1, <2>4 DEF ReleaseTask, CoordTypeOK
    <3> QED
      BY <2>2, <3>1 DEF Pool!poolVars
  <2> QED
    BY <2>3, <2>4
<1>6. ASSUME NEW r \in Requests, NEW c \in Callers,
             ReleaseReturn(r, c) \/ ReleaseCancelled(r, c)
      PROVE  [Pool!PoolNext]_(Pool!poolVars)
  <2>1. \A q \in Requests : AskedBack(q)' <=> AskedBack(q)
    BY <1>6 DEF ReleaseReturn, ReleaseCancelled, AskedBack, CoordTypeOK
  <2> QED
    BY <1>6, <2>1 DEF ReleaseReturn, ReleaseCancelled, Pool!poolVars
<1>7. ASSUME NEW r \in Requests, Forget(r)
      PROVE  [Pool!PoolNext]_(Pool!poolVars)
  <2>1. \A q \in Requests : AskedBack(q)' <=> (AskedBack(q) /\ q # r)
    <3>1. call' = [call EXCEPT ![r] = [c \in Callers |-> "none"]]
      BY <1>7 DEF Forget
    <3>2. ~ AskedBack(r)'
      BY <3>1 DEF AskedBack, CoordTypeOK
    <3>3. \A q \in Requests : q # r => call'[q] = call[q]
      BY <3>1 DEF CoordTypeOK
    <3> QED
      BY <3>2, <3>3 DEF AskedBack
  <2>2. asked' = asked \ {r}
    BY <2>1
  <2>3. Pool!Retire(r)
    BY <1>7, <2>2 DEF Forget, Pool!Retire
  <2> QED
    BY <2>3 DEF Pool!PoolNext
<1> QED
  BY <1>1, <1>2, <1>3, <1>4, <1>5, <1>6, <1>7 DEF CoordNext

\* Apart from the pool's fairness, which is left to TLC, the coordinator
\* implements the lease pool: its tasks, flags and cancellations never show.
THEOREM CoordImplementsPool ==
  CoordSpec => Pool!PoolInit /\ [][Pool!PoolNext]_(Pool!poolVars)
<1>1. CoordInit => Pool!PoolInit
  BY PoolInitRefined
<1>2. CoordInv /\ [CoordNext]_coordVars => [Pool!PoolNext]_(Pool!poolVars)
  BY PoolStepRefined
<1> QED
  BY <1>1, <1>2, CoordInvariance, PTL DEF CoordSpec
=============================================================================
