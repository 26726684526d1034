# A TLA+ development of fastapi-langgraph-server

The server exposes LangGraph graphs over HTTP: clients create threads, run
graphs on them (answered at once or streamed as server-sent events), update and
read their state and delete them. All requests share one process, one event
loop, one run coordinator, one thread store and one checkpointer. This directory
models the parts that keep state and the ways requests interleave over them,
checks the models with TLC and proves the safety properties with TLAPS, for all
values of the constants.

Paths below are relative to `src/src/fastapi_langgraph_server/`.

## 1. Inventory

| Component | State | Operations | What makes it correct |
| --- | --- | --- | --- |
| Run coordinator (`coordination.py`) | `_active`: thread to token; `_released` per lease | `acquire`, `RunLease.release`, `_release`, `active_runs` | one lease per thread, at most `max_concurrent_runs`; a lease is lost only by its own release; every release completes |
| Bounded in-memory checkpointer (`checkpoint/memory.py`) | the upstream dictionaries (storage, blobs, writes), `_last_access`, `_sizes`, `_serialized_bytes` | `put`, `put_writes`, `get_tuple`, `list`, `get_delta_channel_history`, `delete_thread`, `purge_expired`, `stats`, `clear` | accounting follows the data; every limit holds; eviction follows last use, spares the thread being written, and is no larger than needed |
| Run routes (`routes/runs.py`) | the lease of each request | `create_run`, `stream_run_with_thread`, `stream_run_stateless` | a graph works on a thread only under the thread's lease; the lease always comes back |
| Thread routes (`routes/threads.py`) | none of their own | create, get, delete, `get_state`, `update_state`, `get_history`; `thread_exists`, `get_or_create_thread`, `claim_thread_assistant` | a thread belongs to one assistant; one mutation at a time |
| Streaming (`streaming.py`) | a generator and the status of its thread | `stream_graph_response` | the status returns to idle however a stream ends |
| Thread store (`storage.py`) | a TTL cache of thread records with their owner | `get_thread`, `put_thread`, `get_assistant_id`, `claim_assistant`, `delete_thread` | the owner survives a replaced record and is claimed once |
| Graph execution (`execution.py`) | none | `prepare_input`, `build_runnable_config`, `invoke_graph` | reserved keys of a configuration cannot be overridden |
| State conversion (`state.py`), HTTP models (`models.py`) | none | validation of bodies, `checkpoint_config`, checkpoints to response models | a request is about the checkpoints it names, of the thread of its route |
| Request-body limit (`middleware.py`) | the messages of one request and their bytes | declared length, chunk counting, replay | a body over the limit never reaches a route, one within it arrives whole |
| Factory and lifespan (`factory.py`) | the exposed configuration, the checkpointer context | startup, shutdown, nesting | a context that was entered is left; handlers find it open |
| Configuration and dependencies (`config.py`, `dependencies.py`) | none | resolution of the configuration, authorization | the configuration a handler finds is the one of its application |
| Assistant and health routes, packaging script | none | views | stateless |

How they interact. A route resolves its thread through the thread store and, if
that knows nothing, through the checkpointer; claims the thread for its
assistant in the store; acquires a lease; runs the graph, which reads and writes
the checkpointer; and releases the lease in a `finally` block. A stream does the
last steps inside nested asynchronous generators that Starlette drives, with a
second release as the response's background task. A stateless stream generates
its thread id, has a thread store of its own, and puts a third generator in
between that deletes its checkpoints at the end.

What is hard here:

* the checkpointer is called in a worker thread, so each lookup is separated
  from the use of its answer, and other requests run in between;
* a cancellation (timeout, disconnection) arrives wherever a handler waits,
  including inside the release of its lease, and never inside a worker thread;
* a stream that is dropped while it is suspended at a `yield` unwinds later, by
  the event loop's finalizers, and from the outermost generator inwards;
* both stores lose threads by themselves, by age or by size, in the middle of
  runs; the thread store looks a record up and writes it at a later time;
* after a restart the process has forgotten everything, while a durable
  checkpointer has not;
* the checkpointer keeps its own accounting beside dictionaries that another
  library changes, moves a counter by differences, and combines expiry with two
  kinds of eviction in one operation.

The list of hazards, each at its line with the properties that address it, is
in `PROJECT.json`.

## 2. Modules

### RunCoordinator and LeasePool

`RunCoordinator` models `coordination.py`. `active` is `_active`; a request
stands for the token `acquire` creates; `leaseOf` and `released` are the fields
of its `RunLease`. The critical sections of `acquire` and `_release` contain no
await, so each is one step. `RunLease.release` is several: the flag is read
(`ReleaseNoop`, `ReleaseCall`), `_release` runs in a task of its own
(`ReleaseTask`), the caller resumes and sets the flag (`ReleaseReturn`), or is
cancelled while it waits (`ReleaseCancelled`), which `asyncio.shield` keeps from
the task. Two callers exist, the cleanup block and the background task, and they
race. `Forget` reuses the name of a request that is over; it stands for a new
request with a fresh token.

`LeasePool` is what callers rely on: a pool with at most one lease per thread
and at most `MaxRuns` in all, in which a lease disappears only after its holder
asked for it and then does so eventually. `RunCoordinator!Pool` maps the
coordinator to it: a request has asked from its first call of `release`.

### BoundedInMemorySaver

Models `checkpoint/memory.py`. Every public operation holds the `RLock`
throughout, so each is one action, and the clock has one value during it.
`stored` and `namespaces` are the dictionaries of the upstream saver; `sizes`,
`bytes`, `lastAccess` are this class's bookkeeping, and `lru` is the order of
the `OrderedDict` `_last_access` as a relation. An item (checkpoint with its
metadata, channel blob, pending write) is abstracted to its key and the number
of bytes of its serialized form.

`put` and `put_writes` follow the order of the code: size check before anything
else, purge, room for a new thread, namespace limit, checkpoint limit, room for
the bytes, upstream call, accounting, touch. Errors keep the deletions made
before them. The two eviction loops are stated as the set of threads they
delete (`ThreadVictims`, `ByteVictims`): a thread is deleted exactly if the
limit is still exceeded without those before it in `_last_access`, at it and at
every one before it, since the loop stops at the first where it is not. All
deletions of one operation are composed into one set, `gone`. Sums of bytes are
those of `FiniteSums`: `SumOver(f, S)`, and `Total(f)` for a whole function.

The upstream saver is modelled from how this class uses it: a lookup in a
thread of `storage` leaves an entry for its namespace (a `defaultdict`); a
channel with a new version and no value is stored as an empty blob; a write to a
slot that is taken is ignored unless its index is special; every stored write
carries its task path. `list` and `get_delta_channel_history` may also find
nothing although the thread has items, because filters are the caller's.
Validation of identifiers raises before any state changes and is left out; the
asynchronous methods run the same operations and are the same actions.

### ThreadStore and ThreadRecords

`ThreadRecords` is what callers of the store rely on, written from
`storage.py`'s interface as the routes use it: a record per thread, with an owner
that replacing the record keeps and only one assistant can claim, and which may
vanish at any time. `Server` computes with its operators (`WithThread`,
`Claimable`, `Claimed`, `OwnerIn`, `WithStatus`).

`ThreadStore` is `InMemoryThreadStore`. `entries` is the content of the
`TTLCache`, expired records included, with the time each has left; `order` is the order
of their use, as a relation. The cache of cachetools is external: a lookup does not see an
expired record, a write first drops the expired ones and then, at the limit, the
one used least recently, and a lookup that succeeds counts as a use. Time is
counted downwards, so no clock needs a bound. The methods of the store never
suspend, but they read the clock several times: `put_thread` looks the owner up
and writes later, `claim_assistant` changes the record in place and then writes
it, and `_set_thread_status` of `streaming.py` gets the record before it puts it.
So each call is a lookup and a write, with `Tick` in between. The clock can expire
a record between them. A put above `max_thread_bytes` raises before it looks at
the cache, and is possible in `SetStatusPuts` because a status change rewrites a
timestamp.

### Server

Extends `RunCoordinator` with the thread store (`store`), the checkpoints
(`cpOwner`) and the requests (`req`), and models `routes/runs.py`,
`routes/threads.py` and `streaming.py` over them. Of a thread's checkpoints it
keeps the assistant recorded in the latest one, which is all that ownership
looks at.

The event loop runs a handler without interruption between suspension points,
and the store's operations and `acquire` never suspend in practice (their locks
are never held across an await, so they are never contended). A step is
therefore the stretch from one real suspension to the next: operators such as
`EnterExists`, `EnterCreate`, `EnterOwner`, `Owned` and `ClaimAndAcquire` follow
the calls of the code and pass the contents of the store along until a stretch
suspends or ends. `SaverRead` is the worker thread's part of a lookup; the
handler resumes later with what was read.

Kinds of request: `run` (`create_run`), `stream` (`stream_run_with_thread`),
`stateless` (`stream_run_stateless`), `update` (`update_state`), `delete`,
`create` and `get` for threads. The outcome of options the client chooses
(`if_exists`, `if_not_exists`), of `prepare_input`, of graphs and of the size
check of a record is nondeterministic; the server is one with a checkpointer
configured. `work` is `live` while a graph, an update or a deletion is under way.
When it is cancelled it becomes `none`, or `late` if a worker thread is in the
middle of a call of the checkpointer: `asyncio.to_thread` does not stop it, and it
stores or deletes later.

Streams are the generators `_run_with_lease` around `stream_graph_response`. A
cancellation within the graph unwinds both in order (`Unwind`). At a `yield` it
reaches only the response: the generators are dropped (`abandoned`), the outer one
is closed first and releases the lease (`OuterCloses`), and only then is the inner
one closed with its graph (`InnerCloses`). After a disconnection Starlette runs
the background task; a timeout that hits the response itself skips it. These
behaviours of asyncio and Starlette, and the writes of graphs, are external
code, modelled from how `src/` relies on them.

A stateless stream takes a thread of `Generated`, an id nobody else uses, whose
entry of `store` is the request's own store. Its generator
`_delete_stateless_checkpoints` stands between the two others: `eraser` says that
it is in its try block, `erase` that its shielded `adelete_thread` is still to be
done. A stream that ends waits for the deletion (`erasing`), and so does one that
timed out, before it reports the timeout (`expiring`). A dropped stream deletes
when that generator is closed (`EraserCloses`), before its graph is.

Clocks and limits of the two stores appear as `Evict`: any stored thread may
vanish at any time. `Restart` is a new process with a durable checkpointer: the
coordinator, the thread store and all requests are gone, the checkpoints are not.
What a stateless run that was cut off has stored remains for good under an id
nobody knows; the model lets the name of that id stand for another from then on.

### Lifespan, RequestBodyLimit, CheckpointTargets and Application

`Lifespan` is `langgraph_lifespan` and `_checkpointer_lifespan` of `factory.py`:
`exposed` is the attribute of the application's state, `spans` the nest of
lifespans under way and `open` the number of times each configuration's
checkpointer has been opened and not closed. A configuration has no checkpointer,
one with nothing to close, one with `aclose`, one that is an async context manager,
or one whose context does not return the checkpointer itself, which is an error.
Entering and leaving may fail.

`RequestBodyLimit` is the middleware. `Checks` is the look at the declared length,
`Reads` one turn of its loop, `AppReceives` the `replay_receive` the application
gets. What the ASGI server's `receive` returns is any sequence of chunks of the
given sizes, ended by a last chunk or a disconnection; after the end it returns
disconnections. `received` and `got` are histories for the properties.

`CheckpointTargets` has no state. For each route it says which bodies the
validators of `models.py` and the routes accept, and which checkpoints the
checkpointer or the graph is then asked for.

`Application` puts the three together: a request passes the middleware, finds the
configuration of its router or the exposed one (`get_server_config`), is validated
and authorized, and its handler asks for checkpoints. The ASGI server is external;
it starts and ends lifespans only while no request is served.

### Instances

`MCBoundedInMemorySaver`, `MCServer`, `MCThreadStore` and `MCApplication` add the
symmetry sets, the inputs of the saver and the checkpointers of the
configurations; `RunCoordinator` is checked as it is. No configuration replaces a
definition.

## 3. Runs

| Run | Instance | Shows |
| --- | --- | --- |
| `coordinator` | 3 threads, 2 requests, 1 slot | the limit holds (`CapacityBound`); a late `_release` never frees the slot of a later lease (`HolderKeepsSlot`); `_released` is never set early (`ReleasedMeansFree`); the coordinator implements `LeasePool`, fairness included, so a release completes even if its caller is cancelled (`ImplementsPool`) |
| `saver_eviction` | 4 threads, room for 3 and for 7 bytes, clock 0..3, TTL 2 | `_last_access` is the order of last use (`LruIsOrder`); `ThreadLimit`; victims are the least recently used (`EvictsLeastRecentlyUsed`), no more than needed (`EvictsNoMoreThanNeeded`); errors are unavoidable (`RejectsOnlyIfNecessary`) and leave the thread they protect intact (`RejectionKeepsThread`) |
| `saver_limits` | 2 threads with room for 1, 3 namespaces, 2 ids, 2 write slots | the accounting equals the data (`SizesAreExact`, `CounterIsSum`); nothing is stranded (`NoOrphans`); `PerThreadLimits`; the budget is exceeded by at most one operation's overshoot (`ByteBudgetWithOvershoot`) |
| `server` | 1 thread and 1 generated id, 3 requests of every kind, 2 assistants, evictions by the saver, restarts | without failures one mutator at a time (`SingleMutator`) under its lease (`LeaseCoversWork`); one owner (`OwnersAgree`, `NoCrossAssistantWrites`), despite stale lookups and an empty thread store after a restart; a deletion leaves neither half of a thread (`DeletionIsComplete`), a stateless run nothing (`StatelessLeavesNothing`) |
| `server_failures` | the same threads, 2 requests of every kind but `get`, 2 assistants, timeouts, disconnections, all evictions, deletions that fail | no thread stays busy (`BusyMeansStreaming`); work that nobody cancelled outlives its lease only in dropped streams (`OnlyDroppedWorkOutlivesLease`) |
| `server_live` | the same threads, 2 requests (`run`, `stateless`, `delete`), 1 slot, timeouts, disconnections | leases come back (`LeasesReturned`), requests end (`RequestsEnd`), what stateless streams stored is deleted however they end (`StatelessErased`) |
| `thread_store` | 4 threads, room for 3, TTL 2, 2 assistants | the cache is consistent and within its limit (`CacheWellFormed`); a call writes the owner of the record it replaces, although time passed since it looked (`WritesWhatItFound`); only a full cache loses live records, the least recently used (`NoNeedlessLoss`); it implements `ThreadRecords` (`ImplementsRecords`) |
| `application` | 2 lifespans over 4 configurations, bodies of 3 messages around a limit of 3 bytes, 4 routes with every body over 2 threads, 2 ids, 2 namespaces | messages are replayed whole and in order (`ReplayInOrder`); `LimitIsExact`; checkpointers are closed exactly if opened (`OpenWhileUsed`), the exposed configuration is restored (`ExposesInnermost`), handlers work with an open one (`HandlersFindOpenCheckpointer`); an accepted request asks for exactly the checkpoints its body calls for, in thread, namespace and id (`SelectorsHonoured`, with the exception below) |

Four runs end in a violation, each of a statement of the repository's own
documents, comments or tests:

* `saver_budget`, `WithinByteBudget`: `put_writes` estimates a batch with its
  task path counted once, the accounting counts it for every write. A batch
  that passes the check can leave the total above `max_total_bytes`
  (`docs/In-Memory-Checkpointer.md:17`, `tests/test_memory_checkpoint.py:172`).
  Empty blobs, not estimated at all, have the same effect.
* `server_stalled`, `LeasesReturned`: after a timeout the error event is sent
  before the lease is released and outside the timeout. A client that neither
  reads nor disconnects keeps the lease, which `_run_with_lease` says it always
  releases (`routes/runs.py:116`).
* `server_ownership`, `NoCrossAssistantWrites`: the thread store loses a record
  during the thread's first run; another assistant, whose lookup had found no
  checkpoint yet, claims the thread, and the claim is not checked again under
  the lease (`docs/RemoteGraph-Compatibility.md:62`).
* `server_stateless`, `StatelessLeavesNothing`: a stateless stream dropped at a
  `yield` deletes its checkpoints before its graph is closed, and the graph stores
  one more, which stays (`README.md:217`).

Further exceptions are stated inside the passing properties instead of by runs
of their own. A deletion or update that times out gives its lease back while its
worker thread is still to act (`work = "late"`): `SingleMutator` and
`LeaseCoversWork` are therefore checked without timeouts, and
`OnlyDroppedWorkOutlivesLease` speaks of `live` work. The graph of a stream dropped
at a `yield` outlives the lease, which is the exception in
`OnlyDroppedWorkOutlivesLease`. And a lookup in an unknown namespace of a stored
thread makes the namespace known, so a later `put` to it passes the limit, which is
the exception in `PerThreadLimits`; `docs/In-Memory-Checkpointer.md:13` says that an
additional namespace is rejected, without exception. So no run checks anything of late
work or of looked-up namespaces; the list of hazards says so.

The last exception is in `SelectorsHonoured`. The checkpoint in the body of a history
has a thread, a namespace and an id; `get_history` checks the thread, lists the
namespace and discards the id in silence (`routes/threads.py:436-458`), so that the
listing starts at the latest checkpoint whatever the id. `ProtocolModel` says that the
models reject unknown fields "instead of silently discarding behavior"
(`models.py:42`). The field is a known one and no document says what it does, so this
is not listed as a finding, but a client that sets it is not told. The property also
leaves out two selectors that another one overrides by design: the thread in a run's
config, where the route's prevails, and the id in a run's config when the run has a
`checkpoint_id` of its own.

### Bounds

Three requests on one thread give every pair of racing operations a third that
slips in between; requests are recycled, so behaviours are not limited to three
requests. The server's properties speak of one thread at a time, and threads
share only the slots of the coordinator, for which its own run contends with
three threads. There two requests, recycled, suffice for a late release to meet a
later lease of its thread; the proofs cover all sizes. A second stateless run would
use an id of its own, so one generated id suffices. In the saver, four threads with
room for three let one operation expire some threads, evict others and keep some; with seven bytes, items of one
to five bytes fill the budget with one to seven of them. The clock's range
exceeds the TTL, so that threads expire while others stay. `MaxClock`, for the
saver's clock, `MaxMessages`, for the messages of a body, and `MaxNested`, for
lifespans within lifespans, are the only bounds on what the code leaves unbounded.
Two ids and two slots, one special, suffice for a
replaced checkpoint, a kept write and an overwritten one. In the thread store, four
threads with room for three and a TTL of two ticks have a write find expired and
live records at once. Chunks of 0, 2 and 3 bytes reach a limit of 3 from below,
exactly and from above; declared lengths are below, above, absent and not numbers.
Two nested lifespans show the restoring of a previous configuration, and of none.
Symmetry (threads in the stores; requests and assistants in the server; threads and
checkpoint ids in the application) is used only where no liveness property is
checked.

No run disables deadlock checking: every state has a successor, because a
request that is over makes place for another.

### Fairness

`CoordFairness` says that the event loop runs a task that is ready.
`RequestFairness` says in addition that handlers and finalizers that are ready
are resumed (`Resumes`), that a lookup in a worker thread returns, that a timeout
that is set fires, and that the deletion of a stateless run returns (`Erases`):
it comes after the timeout's reach, so nothing else would end it. Nothing is
assumed of graphs, which may run or yield for ever, nor
of the worker thread of an update or a deletion, which may hang: the timeout
covers it. `ServerSpec` assumes nothing of clients either, and the run
`server_stalled` shows that this is not enough for leases to come back.
`AttentiveSpec`, used by `server_live`, adds that the last event of a stream is
eventually sent, that is, that a client reads or goes away.

## 4. Proofs

`RunCoordinatorProofs` proves, for any sets of threads and requests (finite or
not) and any positive limit:

* `CoordTypeCorrect`, `CapacityIsBounded`, `HoldersKeepSlots`,
  `ReleasedLeasesAreFree`: the four invariants the run `coordinator` checks;
* `CoordImplementsPool`: the coordinator implements the initial condition and
  the steps of `LeasePool`.

Assumptions: `MaxRunsAssumption`, which the constructor enforces, and
`SentinelAssumption`, that the two sentinels are neither requests nor threads.

None of the invariants is inductive alone. `CoordInv` adds

* `EntriesAreLeases`: an entry of `_active` is the token of a lease of that very
  thread, so a request occupies at most one slot, and `_release`, which looks
  only at the thread of the lease, looks at the right place;
* `NoLeaseNoCalls` and `TasksHaveCalls`: tasks exist only for calls and calls
  only for leases, so that a fresh lease finds no task that could release it;
* `TaskFreesSlot`: once the task of some call has run, the slot is not the
  request's own. This is what makes `ReleaseReturn` right to set the flag, and
  it survives later steps because a request with calls never acquires again.

The limit needs a fact about cardinalities: removing an entry does not raise
the number of active threads and adding one raises it by one
(`CapacityShrinks`, `CoordInvAcquire`), with finiteness carried along, since
`Threads` may be infinite. The refinement uses `CoordInv` to show that
`Acquire` is a `Grant`, the first call of a request an `Ask`, an effective
`ReleaseTask` a `Free`, `Forget` a `Retire`, and all else stutters.

`BoundedInMemorySaverProofs` proves, for any threads, namespaces, inputs and
limits, from `LimitsAssumption` (which the configuration class enforces) and
`InputsAssumption`:

* `SaverTypeCorrect`, `SizesStayExact`, `NothingIsStranded` and
  `LastAccessIsOrdered`: invariants of the saver's two runs;
* `ThreadsAreLimited`: `ThreadLimit`, under the condition that upstream has no
  delta history of a thread it does not know. `get_delta_channel_history` is the
  one operation that adds a thread to `_last_access` without making room;
* `RejectionsKeepThreads`: the action property `RejectionKeepsThread`.

The invariant `SaverInv` has two halves. `AccessInv` is about `_last_access`: it
is finite, `lru` orders it strictly and totally by time, and no time is in the
future. The last part is what lets a touched thread go to the end of the order.
`DataInv` is about the items: well typed, and `_sizes` equal to what is stored.
`NoOrphans` ties them together: a lookup that finds an item, or that adds a
namespace, does so for a thread of `_last_access`, so touching it adds no thread.
The lemmas follow the building blocks of the operations (deletion, touch,
accounting of a put, of a batch of writes) and each operation then combines them.
For `ThreadLimit`, the threads that survive `_make_room_for_thread_locked` are
mapped to their number of later threads. Because the order is total this is an
injection into `0..MaxThreads-2`, so fewer than `MaxThreads` survive.

Three more results rest on the same invariant:

* `EvictsInOrderOfUse` and `EvictsOnlyWhatItMust`, the action properties
  `EvictsLeastRecentlyUsed` and `EvictsNoMoreThanNeeded`: the victims of either
  loop are the first in the order (`ThreadVictimsAreOldest`,
  `ByteVictimsAreOldest`), so a thread that was evicted last is the first that the
  loop would have spared;
* `ThreadsStayWithinLimits`, `PerThreadLimits`. Its invariant `CountInv` carries
  the finiteness of what is counted; the two facts behind it are that everything
  `put` and `put_writes` add belongs to the one namespace and the one checkpoint
  that was admitted, and that a lookup adds only namespaces of `ReadNamespaces`.

Nothing so far depends on sums of bytes: the bytes decide which other threads are
evicted, and the lemmas hold whichever set that is. `SaverBytesProofs` is about
the sums. Its invariant `ByteInv` says that finitely many items are stored, that
the counter is the sum of their sizes, and that the budget is exceeded by at most
one overshoot. It gives

* `CounterStaysSum`, `CounterIsSum`: deleting threads splits the sum
  (`BytesLeft`), recording sizes moves it by the differences (`BytesRecord`);
* `BudgetIsKept`, `ByteBudgetWithOvershoot`. The eviction loop leaves room
  (`RoomForBytes`: the oldest thread it spares is one at which the bytes fit, or
  all others are gone and `HasRoom` says they do), a `put` adds at most its
  estimate and the empty blobs (`PutBytes`), a `put_writes` at most its estimate
  and a task path for every further write (`PutWritesBytes`);
* `RejectsOnlyWhatItMust`, `RejectsOnlyIfNecessary`: after the evictions of a
  refused operation only the thread's own items are left, by `NoOrphans`, and the
  counter is their sum.

`FiniteSumsProofs` has what these need of sums: the sum over no elements, over one
more, over two disjoint sets, over an image; of differences; monotonicity; and the
update of some values (`SumUpdate`). The folds of the community modules are
recursive functions, and the library states induction with an operator as its
parameter, which the provers cannot instantiate. Induction is over sets instead: a
set of numbers without a least element missing is all of `Nat` (`NatSetInduction`,
from the well-foundedness of `<`), and a set of subsets that has the empty set and
is closed under adding an element has every finite set (`SubsetInduction`). The
recursive function behind a fold exists (`SumExists`) and is unique
(`SumIsUnique`) by the first.

`ThreadStoreProofs` proves, for any finite set of threads, any assistants, limit
and TTL, from the assumptions of `ThreadStore` (limits are positive, the sentinels
are not records):

* `StoreWritesWhatItFound`: what a call is about to write agrees with the record it
  found, even if that has expired since;
* `StoreImplementsRecords`: the cache implements `ThreadRecords`.

The invariant `StoreInv` is the types and `WritesWhatItFound`. The refinement
mapping keeps a record in sight while a call that found it is to write it: without
that a claim whose record expires would abstractly create a record with an owner,
which no operation does. The order of use plays no part in it, since callers may
lose any record. For the cache itself `CacheInv` adds that `order` is a strict total
order of what is held and that no more than `MaxThreads` records are, from which

* `CacheStaysWellFormed`: `CacheWellFormed`. A write at the limit drops exactly one
  record, because a nonempty set has exactly one least recently used element
  (`OneIsLeastRecentlyUsed`: the one with the fewest before it);
* `StoreLosesOnlyAtItsLimit`: the action property `NoNeedlessLoss`.

`ServerProofs` proves, for any threads, requests, assistants, kinds of request and
limits, and with timeouts, disconnections, evictions and restarts wherever the
constants allow them:

* `ServerTypeCorrect`: `ServerTypeOK`;
* `NoThreadLeftBusy`: `BusyMeansStreaming`;
* `OnlyDroppedWorkIsLate`: `OnlyDroppedWorkOutlivesLease`;
* `PoolAcrossRestarts`: whatever its handlers, generators and background tasks do,
  the server uses the coordinator as the lease pool of `LeasePool`, and a restart
  leaves an empty pool; `ServerImplementsPool`: without restarts it implements that
  pool's initial condition and steps. A request's step does at most one operation of
  the coordinator, on its own lease (`RequestMoves`), so every step of the server is
  one of the coordinator, a stutter or a restart (`ServerStepsCoordinate`), and the
  refinement of the coordinator (`PoolStepRefined`) composes with it;
* `WorkIsLeased` and `MutatorIsSingle`: `LeaseCoversWork` and `SingleMutator`, under
  the hypothesis `Undisturbed`, that nothing times out and nobody disconnects.

`ServerInv` extends the coordinator's invariant by one fact per request: where its
handler is determines its lease and its flags. `Leased`: a request that is past
`acquire` and not yet at its release holds the lease of its own thread and has not
asked it back, so that `HolderKeepsSlot` makes it the entry of `_active`;
`update_state`, which acquires before it looks for the owner, is the exception that
`Looking` names. `Staged`: work, generators and flags exist only at certain places.
`Addressed`: whatever may write has an assistant. The steps are proved by operator,
as the stretches of the handlers are composed. `Undisturbed` is needed because a
cancelled call of a worker thread goes on after the lease is back, and a stream
dropped at a `yield` releases before its graph is closed; `AllPrompt` says that
without cancellations neither exists.

`ServerOwnershipProofs` is about a server that is `Settled`: its thread store loses no
record, and it is `Undisturbed` or deletes no threads. Checkpoints may be evicted and
the process restarted at any time. Neither part can be dropped. The run
`server_ownership` shows what happens when the store loses a record. And where threads
are deleted, a timeout or a disconnection alone is enough: a graph is cancelled while
a worker thread stores its checkpoint, the thread is deleted and found empty by a run
of another assistant, the late checkpoint appears, and the other assistant claims the
thread. Without deletions nothing takes a thread from its owner, so that what is left
of cancelled work does no harm. (The run `server` checks `OwnersAgree` and
`NoCrossAssistantWrites` undisturbed; with timeouts and disconnections and without
deletions they rest on the theorems.)

* `StoreAndCheckpointsAgree`: `OwnersAgree`;
* `AssistantsKeepApart`: the action property `NoCrossAssistantWrites`;
* `DeletionsAreComplete`: the action property `DeletionIsComplete`, if the server is
  `Undisturbed`;
* `StatelessRunsLeaveNothing`: `StatelessLeavesNothing`, if besides `adelete_thread`
  does not fail (`SaverErases`).

`OwnerInv` is what makes stale lookups harmless. `Entitled`: from its claim on, and as
long as anything it started may still write, the store names the assistant of a request
as the owner. `DisturbedKeepsOwner` shows that cancelling, dropping and closing keep
that: they leave no more work than there was. `Informed`: an owner that was
read from a checkpoint is out of date only if the checkpoints are gone or the store
has come to know their owner, so that the claim that follows is checked against the
right one. `Deleted`: between the checkpointer's part of a deletion and the store's,
no checkpoint appears, because the deletion holds the lease. `Private`: the thread
of a stateless run is nobody else's; with `ErasureInv`, as long as it has
checkpoints the generator that deletes them is in place or its deletion is due.

`ApplicationProofs` proves, for any clients, bodies, limits, configurations and
nesting of lifespans:

* `BodiesAreReplayedInOrder` and `BodyLimitIsExact`: `ReplayInOrder` and
  `LimitIsExact`. `BodyInv` says that until `message_index` reaches the end the
  application has got the messages before it, and that nothing is received
  meanwhile; `MeterInv` that `consumed` is the sum of the sizes, and that once the
  application is called the body has ended, so that all the server still returns is
  disconnections, which have no bytes;
* `CheckpointersOpenWhileUsed` and `InnermostIsExposed`: `OpenWhileUsed` and
  `ExposesInnermost`, with `LifeInv`: each lifespan keeps what the one around it
  exposes, and only the innermost is not in its body;
* `CheckpointersOpenForHandlers`: `HandlersFindOpenCheckpointer`, from `LifeInv` and
  `ServeInv`, that no lifespan begins or ends while a request is served;
* `SelectorsAreHonoured`: `SelectorsHonoured`, by the case of each route over every
  accepted body. `CalledFor` says what a body calls for without the code's case
  distinctions: the selectors a checkpoint has to agree with and what holds of a field
  that none of them gives. The guards of the routes matter here. Without the
  comparison of a checkpoint's thread with the route's, or without
  `validate_checkpoint_target`, two selectors of an accepted body could disagree, and
  no target satisfies both.

Assumptions on constants, beside those above: the sentinels of `Server` and
`ThreadStore` are neither owners nor records (`AbsentAssumption`, `OwnersAssumption`);
the kinds and the environment of a server are those the model has
(`KindsAssumption`, `EnvironmentAssumption`); an id is not a checkpoint object
(`SelectorsAssumption`); limits are positive. The channel values, the empty channels
and the writes of an input are finite (`IsPut`, `IsBatch`), as dictionaries are.

Every safety property of a passing run is a theorem. Only model-checked are the
liveness properties `LeasesReturned`, `RequestsEnd` and `StatelessErased` and the
fairness part of `ImplementsPool`, whose safety part is `CoordImplementsPool` for the
coordinator and `ServerImplementsPool` for the server: liveness under fairness is out of the prover's reach. So are, of course, the four
violations.

## 5. Not modelled

* The formatting of events and the conversion of checkpoints to responses: data
  copied into response models, with no state behind it.
* Assistant and health routes: read-only views of a configuration that does not
  change while the process runs. The packaging script is not part of the server.
* A restart with other assistants: `update_state` then finds an owner without a
  graph in a durable checkpoint, and `get_graph_runtime` raises the `LookupError`
  that its comment (`config.py:115`) calls guarded by the routes. The assistants
  are fixed in `Server`.
* A status change that makes a record too large for `max_thread_bytes`:
  `ThreadStore` has it, `Server` takes a record to keep its size, as it does unless
  a timestamp happens to have no microseconds.
* `checkpoint_map` of a body's checkpoint: no route reads it.
* The owner of a checkpoint without the server's metadata, for which
  `get_thread_assistant_id` returns `None` without a claim (`threads.py:158-161`):
  every checkpoint that the server writes has it.
* The ancestry of checkpoints, and so a parent that is evicted in the middle of a
  run; what the upstream saver answers to `get_delta_channel_history` for a thread
  it does not know (`DeltaAnswersUnknown` is the switch, off in the runs).
* A stream whose generator never starts because sending the response's head fails.
* Two instances of the server: the coordinator and stores are process-local by
  design. CORS and routing are left to their libraries.

## 6. Plan

1. What remains true of stateless runs with timeouts and disconnections: a run that is
   not dropped at a `yield` still leaves nothing behind.
2. `Server` is composed with the coordinator, as a theorem. It uses the operators of
   `ThreadRecords`, which `ThreadStore` is proved to implement; the composition of
   these two, and of the saver with the checkpoints of `Server`, is not a theorem yet.
3. The ancestry of checkpoints, and a restart with other assistants.
