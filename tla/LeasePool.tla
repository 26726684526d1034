----------------------------- MODULE LeasePool -----------------------------
(***************************************************************************)
(* What the run coordinator promises its callers, with no event loop, no   *)
(* tasks and no cancellation: a pool of at most MaxRuns leases, at most    *)
(* one per thread.  A lease is taken away from its holder only after that  *)
(* holder asked for it, and then it is taken away eventually.              *)
(***************************************************************************)
EXTENDS Naturals, FiniteSets

CONSTANTS Threads, Requests, MaxRuns, NoRequest

VARIABLES
  holder,  \* thread -> the request that holds its lease, or NoRequest
  asked    \* the requests that asked for their lease to be given back

poolVars == <<holder, asked>>

Held == {t \in Threads : holder[t] # NoRequest}

PoolInit ==
  /\ holder = [t \in Threads |-> NoRequest]
  /\ asked = {}

Grant(r, t) ==
  /\ holder[t] = NoRequest
  /\ r \notin asked
  /\ \A u \in Threads : holder[u] # r
  /\ Cardinality(Held) < MaxRuns
  /\ holder' = [holder EXCEPT ![t] = r]
  /\ UNCHANGED asked

Ask(r) ==
  /\ r \notin asked
  /\ asked' = asked \cup {r}
  /\ UNCHANGED holder

Free(t) ==
  /\ holder[t] \in asked
  /\ holder' = [holder EXCEPT ![t] = NoRequest]
  /\ UNCHANGED asked

Retire(r) ==
  /\ \A t \in Threads : holder[t] # r
  /\ asked' = asked \ {r}
  /\ UNCHANGED holder

PoolNext ==
  \/ \E r \in Requests, t \in Threads : Grant(r, t)
  \/ \E r \in Requests : Ask(r) \/ Retire(r)
  \/ \E t \in Threads : Free(t)

PoolSpec ==
  /\ PoolInit
  /\ [][PoolNext]_poolVars
  /\ \A t \in Threads : WF_poolVars(Free(t))
=============================================================================
