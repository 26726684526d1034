--------------------------- MODULE RunCoordinator ---------------------------
(***************************************************************************)
(* coordination.py: the process-local RunCoordinator and its RunLease.     *)
(*                                                                         *)
(* acquire and _release hold an asyncio.Lock whose critical sections never *)
(* suspend, so each is one atomic step.  RunLease.release is not: it hands *)
(* _release to a task of its own (asyncio.shield) and suspends, and while  *)
(* it is suspended its caller may be cancelled without the task being      *)
(* cancelled.  Two callers may release one lease: the cleanup block of the *)
(* handler or generator that runs the graph, and the background task of    *)
(* the streaming response.                                                 *)
(*                                                                         *)
(* A request stands for the token acquire creates for it.  The actions     *)
(* constrain the variables of this module only, so that a specification of *)
(* the HTTP server conjoins them with its own state.                       *)
(***************************************************************************)
EXTENDS Naturals, FiniteSets

CONSTANTS
  Threads,    \* thread identifiers
  Requests,   \* HTTP requests, each with the token of its lease
  MaxRuns,    \* RunCoordinator.max_concurrent_runs
  NoRequest,  \* the value of a thread that is not a key of _active
  NoThread    \* the thread of a request that holds no RunLease object

\* RunCoordinator.__init__ rejects a limit that is not positive.
ASSUME MaxRunsAssumption == MaxRuns \in Nat \ {0}
ASSUME SentinelAssumption == NoRequest \notin Requests /\ NoThread \notin Threads

VARIABLES
  active,    \* RunCoordinator._active: thread -> token, or NoRequest
  leaseOf,   \* RunLease.thread_id of the lease a request was given
  released,  \* RunLease._released
  call,      \* each caller's progress through RunLease.release
  task       \* the task asyncio.shield created for that call

coordVars == <<active, leaseOf, released, call, task>>

\* The two code paths that call release on the same RunLease.
Callers == {"cleanup", "background"}
CallStates == {"none", "waiting", "returned", "cancelled"}
TaskStates == {"none", "scheduled", "done"}

\* The keys of _active.
ActiveThreads == {t \in Threads : active[t] # NoRequest}

CoordTypeOK ==
  /\ active \in [Threads -> Requests \cup {NoRequest}]
  /\ leaseOf \in [Requests -> Threads \cup {NoThread}]
  /\ released \in [Requests -> BOOLEAN]
  /\ call \in [Requests -> [Callers -> CallStates]]
  /\ task \in [Requests -> [Callers -> TaskStates]]

CoordInit ==
  /\ active = [t \in Threads |-> NoRequest]
  /\ leaseOf = [r \in Requests |-> NoThread]
  /\ released = [r \in Requests |-> FALSE]
  /\ call = [r \in Requests |-> [c \in Callers |-> "none"]]
  /\ task = [r \in Requests |-> [c \in Callers |-> "none"]]

(***************************************************************************)
(* acquire: a conflict is reported before a full pool.                     *)
(***************************************************************************)
\* Mutant: a thread that is active is not looked for.
ConflictsNever(t) == FALSE

Conflicts(t) == t \in ActiveThreads

\* Mutant: an off-by-one in the capacity check.
PoolFullLate == Cardinality(ActiveThreads) > MaxRuns

PoolFull == Cardinality(ActiveThreads) >= MaxRuns

AcquireRefused(t) ==
  /\ Conflicts(t) \/ PoolFull
  /\ UNCHANGED coordVars

\* Mutant: the entry is the thread's id and not the lease's token.
AcquireWithoutToken(r, t) ==
  /\ leaseOf[r] = NoThread
  /\ ~ Conflicts(t)
  /\ ~ PoolFull
  /\ active' = [active EXCEPT ![t] = t]
  /\ leaseOf' = [leaseOf EXCEPT ![r] = t]
  /\ UNCHANGED <<released, call, task>>

Acquire(r, t) ==
  /\ leaseOf[r] = NoThread
  /\ ~ Conflicts(t)
  /\ ~ PoolFull
  /\ active' = [active EXCEPT ![t] = r]
  /\ leaseOf' = [leaseOf EXCEPT ![r] = t]
  /\ UNCHANGED <<released, call, task>>

(***************************************************************************)
(* RunLease.release: the flag is read before the await and set after it.   *)
(***************************************************************************)
ReleaseNoop(r, c) ==
  /\ leaseOf[r] # NoThread /\ call[r][c] = "none"
  /\ released[r]
  /\ call' = [call EXCEPT ![r][c] = "returned"]
  /\ UNCHANGED <<active, leaseOf, released, task>>

\* Mutant: the flag is set before the shielded task has run.
ReleaseCallEarlyFlag(r, c) ==
  /\ leaseOf[r] # NoThread /\ call[r][c] = "none"
  /\ ~ released[r]
  /\ call' = [call EXCEPT ![r][c] = "waiting"]
  /\ task' = [task EXCEPT ![r][c] = "scheduled"]
  /\ released' = [released EXCEPT ![r] = TRUE]
  /\ UNCHANGED <<active, leaseOf>>

ReleaseCall(r, c) ==
  /\ leaseOf[r] # NoThread /\ call[r][c] = "none"
  /\ ~ released[r]
  /\ call' = [call EXCEPT ![r][c] = "waiting"]
  /\ task' = [task EXCEPT ![r][c] = "scheduled"]
  /\ UNCHANGED <<active, leaseOf, released>>

\* Mutant: _release deletes the thread's entry whoever holds it.
ReleaseTaskNoToken(r, c) ==
  /\ task[r][c] = "scheduled"
  /\ active' = [active EXCEPT ![leaseOf[r]] = NoRequest]
  /\ task' = [task EXCEPT ![r][c] = "done"]
  /\ UNCHANGED <<leaseOf, released, call>>

\* RunCoordinator._release, run by the shielded task: the entry is deleted
\* only when it still holds this lease's token.
ReleaseTask(r, c) ==
  /\ task[r][c] = "scheduled"
  /\ active' = [active EXCEPT ![leaseOf[r]] = IF @ = r THEN NoRequest ELSE @]
  /\ task' = [task EXCEPT ![r][c] = "done"]
  /\ UNCHANGED <<leaseOf, released, call>>

ReleaseReturn(r, c) ==
  /\ call[r][c] = "waiting" /\ task[r][c] = "done"
  /\ call' = [call EXCEPT ![r][c] = "returned"]
  /\ released' = [released EXCEPT ![r] = TRUE]
  /\ UNCHANGED <<active, leaseOf, task>>

\* Mutant: release awaits _release without asyncio.shield.
ReleaseCancelledUnshielded(r, c) ==
  /\ call[r][c] = "waiting"
  /\ call' = [call EXCEPT ![r][c] = "cancelled"]
  /\ task' = [task EXCEPT ![r][c] = "done"]
  /\ UNCHANGED <<active, leaseOf, released>>

\* The caller is cancelled at the await: the flag is not set, the task lives.
ReleaseCancelled(r, c) ==
  /\ call[r][c] = "waiting"
  /\ call' = [call EXCEPT ![r][c] = "cancelled"]
  /\ UNCHANGED <<active, leaseOf, released, task>>

\* The request is over and nothing refers to its lease or token any more;
\* its name is used again for a later request.
Forget(r) ==
  /\ leaseOf[r] # NoThread
  /\ \A t \in Threads : active[t] # r
  /\ \A c \in Callers : call[r][c] # "waiting" /\ task[r][c] # "scheduled"
  /\ leaseOf' = [leaseOf EXCEPT ![r] = NoThread]
  /\ released' = [released EXCEPT ![r] = FALSE]
  /\ call' = [call EXCEPT ![r] = [c \in Callers |-> "none"]]
  /\ task' = [task EXCEPT ![r] = [c \in Callers |-> "none"]]
  /\ UNCHANGED active

CoordNext ==
  \/ \E r \in Requests, t \in Threads : Acquire(r, t)
  \/ \E t \in Threads : AcquireRefused(t)
  \/ \E r \in Requests, c \in Callers :
        \/ ReleaseNoop(r, c)
        \/ ReleaseCall(r, c)
        \/ ReleaseTask(r, c)
        \/ ReleaseReturn(r, c)
        \/ ReleaseCancelled(r, c)
  \/ \E r \in Requests : Forget(r)

\* The event loop runs every task that is ready to run.
CoordFairness ==
  \A r \in Requests, c \in Callers : WF_coordVars(ReleaseTask(r, c))

CoordSpec == CoordInit /\ [][CoordNext]_coordVars /\ CoordFairness

-----------------------------------------------------------------------------
(***************************************************************************)
(* Properties                                                              *)
(***************************************************************************)
AskedBack(r) == \E c \in Callers : call[r][c] # "none"

\* acquire never lets more than max_concurrent_runs threads be active,
\* however acquisitions and shielded releases interleave.
CapacityBound ==
  IsFiniteSet(ActiveThreads) /\ Cardinality(ActiveThreads) <= MaxRuns

\* A request that was given a lease and has not started to release it still
\* holds its thread's slot: no late _release task of an earlier lease of the
\* same thread takes it away, because _release compares tokens.
HolderKeepsSlot ==
  \A r \in Requests :
     leaseOf[r] # NoThread /\ ~ AskedBack(r) => active[leaseOf[r]] = r

\* RunLease._released is TRUE only once the slot is given back, so the early
\* return of release never skips a release that is still needed.
ReleasedMeansFree ==
  \A r \in Requests : released[r] => active[leaseOf[r]] # r

\* The coordinator implements the lease pool: a request has asked for its
\* lease back from the moment it calls release.
Pool == INSTANCE LeasePool
          WITH holder <- active, asked <- {r \in Requests : AskedBack(r)}

\* Every behaviour of the coordinator is one of the abstract lease pool; in
\* particular a slot whose release was called, by anyone and even if that
\* caller was cancelled, is given back.
ImplementsPool == Pool!PoolSpec
=============================================================================
