# Verification of azure-functions-langgraph

TLA+ models of this library: who may run a graph on a conversation thread, what
is left behind when a request, a store call or a host fails, what a client is told,
and what is kept of a thread's past. TLC checks the models on small instances;
TLAPS proves the safety properties that the passing runs check, of every component, for every
value of the constants; liveness stays with TLC.

Source paths below are relative to `src/azure_functions_langgraph/`.

## 1. The system

The library serves LangGraph graphs as Azure Functions. A **thread** is a
conversation; its checkpoints are written by a saver that assumes a single
writer. Everything hard in this code comes from keeping that promise across
requests, worker threads, host processes and crashes, without a coordinator.

| Component | State it keeps | Operations | Interacts with |
|---|---|---|---|
| Thread lock (`locks/base.py`) | owner of each (graph, thread) key | acquire, release | handlers; backends below |
| In-process lock (`locks/inprocess.py`) | registry of `_KeyState` (lock, token, refs) | acquire, release, `_maybe_gc` | threads of one process |
| Blob lease lock, guard (`locks/azure_blob.py`, `guard.py`) | active leases, failure counts, renewal thread | acquire, release, renew loop, check, close | Blob service, checkpoint saver |
| Async lock helpers (`locks/_async.py`) | the task that owns a worker thread's result | acquire, release under cancellation | native handlers, streaming, durable |
| Thread store (`platform/stores.py`) | a `Thread` record per thread | create, get, update, delete, try_acquire, release, renew, search, count | Platform handlers |
| Azure Table store (`stores/azure_table.py`) | one entity per thread, ETags | the same, and reset_stale_locks | Table service, timer trigger |
| Platform runs (`platform/_runs.py`) | the locals of a request | runs_wait, runs_stream, threadless runs | thread lock, store, renewal |
| Store renewal (`platform/_store_renewal.py`) | `_STORE_RENEWALS`, one worker per run | start, loop, stop | store, run cleanup |
| Platform threads (`platform/_threads.py`) | the locals of a request | create, get, PATCH, DELETE, search, count, state, history | thread lock, store, graph |
| Native handlers (`_handlers.py`), streaming (`streaming.py`) | the locals of a request, a response generator | invoke, stream, state | thread lock, graph |
| Blob checkpoint saver (`checkpointers/azure_blob.py`) | value, checkpoint, metadata, write blobs; latest pointer | put, put_writes, get_tuple, list, prune, collect_orphaned_values | Blob service, guard |
| Durable runs (`durable/`) | the Durable Functions instance | create, get, cancel, orchestrate, activity | thread lock, graph |
| Service Bus trigger (`triggers/service_bus.py`) | the message being processed | process | thread lock, graph |
| App, OpenAPI, validation, authorization, observability | registrations, made at import | sequential checks and formatting | all of the above |

What makes it hard: the two locks of a run are taken, held and released by
separate calls with crashes, exceptions and lost answers between them; the
remote store has only conditional writes on an ETag read earlier; a worker
thread renews a lock the handler may be releasing; a timer resets what it takes
for abandoned; and reads made before a lock is taken are used under it.

What makes each component correct:

- *locks*: at most one holder per key; a stale token frees nobody; the registry
  does not grow; every acquire answers; a lease that nobody uses ends, and the
  guard of a holder that lost its own stops passing;
- *store*: each operation is atomic in spite of being a read and a write; a run
  lock is freed only by its owner, a sweep of an aged row, or a delete;
- *handlers*: executions of a thread exclude each other; no way out leaves a lock
  behind; what the observer, the frames and the status say agree; a success is
  answered only for a run that kept its lock, as far as it can know;
- *saver*: a checkpoint that exists is whole and is found, wherever a put stopped
  and whatever is pruned and collected meanwhile; a retried task keeps what it wrote;
- *durable, Service Bus*: redelivery runs nothing twice at once, a rejected or
  contended delivery is not a lost run, and a client gets a truthful status;
- *listings*: paging finds what was there all along and nothing twice;
- *registration*: what is served is what was registered, in whatever order.

## 2. Modules

```
ThreadLock  <--implements--  InProcessThreadLock         locks/base.py, inprocess.py
AsyncThreadLock                                          locks/_async.py
RunLock     <--implements--  BlobLeaseThreadLock         locks/azure_blob.py, guard.py
   |- StreamingRuns, NativeRuns, ServiceBusRuns, DurableRuns
ThreadRecord
   |- ThreadStore  <--implements--  AzureTableThreadStore
   |- PlatformRuns  (Store == INSTANCE ThreadStore)      platform/_runs.py, _threads.py
ThreadlessRuns, ThreadListing, ThreadHistory             platform/
CheckpointHistory  <--implements--  BlobCheckpointSaver  checkpointers/azure_blob.py
BlobPendingWrites                                        checkpointers/azure_blob.py
AppRegistration                                          app.py, streaming.py
```

A handler is modelled over the *contract* of what it uses: `PlatformRuns` over
`ThreadStore`, the run handlers over `RunLock`, the async callers over the contract of
`locks/base.py`. What is shown of them holds over every backend that implements
the contract, which is shown by refinement and, for the in-process lock, the Azure Table store and the
Blob lease lock, proved. That the Platform handlers and the streaming endpoints use their
contract as it allows is proved as well, and so is the same of the native handlers, the Service Bus
deliveries and the durable activities.

`MC*` modules hold what TLC needs, and compose components that are checked together; `*_proofs`
modules hold theorems:

| Module | Theorems about |
|---|---|
| `InProcessThreadLock_proofs`, `AsyncThreadLock_proofs`, `BlobLeaseThreadLock_proofs`, `AzureTableThreadStore_proofs` | the module they are named after |
| `Platform_proofs` | `PlatformRuns`, `ThreadListing`, `ThreadHistory`, `ThreadlessRuns`, `AppRegistration`, and `MCPlatform` |
| `LockedRuns_proofs` | `StreamingRuns`, `NativeRuns`, `ServiceBusRuns`, `DurableRuns`, and `MCLockedRuns` |
| `BlobCheckpointSaver_proofs` | `BlobCheckpointSaver`, for any of its constants |
| `BlobCheckpoints_proofs` | `BlobPendingWrites`, and the instances of `BlobCheckpointSaver` in `MCBlobCheckpoints` |

### ThreadLock, InProcessThreadLock

`ThreadLock` is the contract of `locks/base.py`: a request is granted when the
key has no owner, refused only while it has one, released only by its owner.

`InProcessThreadLock` is the default backend. `states` is `self._states`, and
`lock`, `token`, `refs` are the fields of `_KeyState`; `pc`, `key`, `obj`, `mine`
are a caller's position and locals. Each `with self._guard` block is one action:
`Reserve` (look up or create, count), `Unreserve` (uncount, collect, answer
None), `Publish` (record the token), `Release` (look up, compare, unlock,
uncount, collect). Between them a thread may be preempted; the primitive's own
acquire is `TakePrimitive` or `GiveUp`. A `_KeyState` is an object with an
identity: one that nothing refers to may be allocated again, so a collected
object that someone still waits on is a distinct lock, which is the race the
reference count exists to prevent. Tokens nobody remembers may be drawn again,
so neither set bounds the number of acquisitions.

### ThreadRecord, ThreadStore

`ThreadRecord` has the record and the effect of each operation on it. `ThreadStore`
is the contract: a client `Call`s an operation, which takes effect and answers in one
`Perform` step. `InMemoryThreadStore` is exactly this, each method under one RLock.
For remote stores the contract allows two more outcomes. An operation may give
up (acquire answers None, release and update raise, renew answers False), but only
if somebody else's write came between the call and the answer (`overtaken`);
and the service may fail, before or after the effect (`raised`). `Sweep` is
`reset_stale_locks`, `Age` makes the row older than its cutoff.

### AzureTableThreadStore

One row, its ETag, and the operations as `get_entity`, local decision, conditional
write. The service gives every write a fresh ETag, so an ETag is valid until
the next write of anybody; `matching` is the set of those who hold a valid one,
which needs no ETag names and no counter. `snap[c]` is the entity read in this
attempt, `tries[c]` the attempts lost to conflicts; `Conflict` retries or gives up. A
release and an update replace the whole entity by one built from `snap`, an
acquire, a renewal and a sweep merge a patch into the row, as in the code. `Fault`
is any other error of the service without an effect; a lost acknowledgement is the
"raised" alternative of each write. `SweepQuery` lists the row with its
ETag, `SweepReset` patches it if unmodified, `SweepSkip` leaves it.

### PlatformRuns

A handler is one request (`wait`, `stream`, `state`, `patch`, `delete`) in one host, with
the program points of the code:

| pc | code |
|---|---|
| `reading` | the `thread_store.get` at the head of the handler |
| `acquiring` | the thread lock is taken, `try_acquire_run_lock` is called |
| `merging` | `thread_store.update` of the request's metadata |
| `executing` | the graph's invoke, stream or update_state |
| `stopping` | the `finally`: the renewal worker is stopped and the status decided |
| `releasing` | `release_run_lock` is called; then the thread lock is released |
| `writing` | the update of PATCH, the delete of DELETE |

A handler and its renewal worker are two clients of the store, so their calls
overlap. `worker` is `waiting` between renewals, `renewing` inside one, `failed` once it
ended with a failure. `Stop` stands for `stop_store_renewal`: it waits for the worker
(the renewal returns first) or abandons it (it stops while `renewing`). `Crash(i)`
ends every handler and worker of host `i` and forgets its thread lock, while the
store may still serve what had been sent. The thread lock is the in-process
backend's: one per host and graph, non-blocking, as one atomic
step by its own contract.

Two reads are taken as one in the state update: `_resolve_thread_graph` and the
`get` that follows it. A binding to an assistant never changes while the thread
exists, so only the second read's status matters, and that is the one modelled.
`interrupted` is a terminal status no handler writes and is left out.

### AsyncThreadLock

Tasks on an event loop that run the blocking acquire, graph call and release in
worker threads. A step of a task runs from one await to the next; a worker thread
cannot be interrupted, a task may be cancelled at any await, several times.
`pc` is the await where the task is suspended, `thrown` a `CancelledError` on its way,
`heard` the local `cancellation` of `run_sync_retaining_ownership`, `job` and `answer` the
executor's futures. `StartJob` takes a thread of the pool, which may be smaller than
the number of tasks.

### RunLock, BlobLeaseThreadLock

`RunLock` is the lock that the code around a graph sees: one holder per process,
one in the system until a lock lapses, and a guard that may report a loss some
time after it. `BlobLeaseThreadLock` implements it: the lease of one marker blob
at the service (`lease`, `age`), each host's bookkeeping (`active`, `lost`, `fails`),
its renewal worker and `close`. `acquire` is `FastCheck`, `AcquireLease`, `Register`;
`release` is `Unregister`, `ReleaseLease`; a renewal round is `StartRound`, `RenewLands` at
the service, `EndRound` with what the host counts. Each of the service's calls may
take effect with its answer lost, and a renewal that outlasts its client-side
timeout is an orphan that may land later. Time is counted in renewal intervals, as the
class itself fixes its proportions (a lease of three intervals).

### StreamingRuns, NativeRuns, ServiceBusRuns, DurableRuns

Each handler runs over `RunLock`, whose losses (`Lapse`, `Report`) happen at any time,
on one thread of one graph. The program points are the awaits and the calls between
which something else may happen; the names of actions are those of the functions.

- `StreamingRuns`: `HandleInvoke`, `HandleStream` up to the deferred response, `Generate` for
  the SSE generator: events, exhaustion, failure, and the `finally` that waits for the
  worker threads, closes the iterator, releases the lock and settles on one
  terminal event. `Leave` is a client that goes away or a cancelled task, at any
  await or yield. `worker[r]` are the threads inside the synchronous graph.
- `NativeRuns`: the two sync and two async handlers, with the byte limit of the buffered
  stream, the guard at every event and at the end, cancellation and generator
  cleanup that raises, and a host that dies.
- `ServiceBusRuns`: the mapper, the lock, the graph, the result handler, and the
  broker: peek-lock, delivery count, sessions, lost message locks, dead letters.
- `DurableRuns`: the three routes, the orchestration and the activity; the framework
  delivers an activity at least once, `terminate` acts on the orchestration
  only, and an id may be used again once its run has ended.

### ThreadlessRuns, ThreadListing, ThreadHistory

`ThreadlessRuns` are runs on a clone of the graph without its checkpointer, with the
bounded buffer of a stream. `ThreadListing` has create, PATCH (a read, then a write),
delete, count and search by offset, with a client that counts and pages while
others write. `ThreadHistory` pages by checkpoint id while checkpoints are written
in any order of their ids and pruned; a page may also be answered empty by the handler of KeyError and
ValueError, and then the client takes it for the end (`ShowsNothing`), or fail and be asked for again or
given up (`Fails`). In both, `steady` is what the client could expect, recorded when it
began; `disturbed`, `grown`, `pruned` and `misled` record what happened since.
A page is cut from the list in order (`Sorted`), which is defined as the sequence that has the
elements in that order: what a sort returns, not how.

### BlobCheckpointSaver, CheckpointHistory, BlobPendingWrites

The blobs of one thread and namespace: `latest` (latest.json), `markers`
(checkpoint.bin, which makes a checkpoint exist), `metas`, `values`. `put` is one upload
per step (`PutDirties`, `PutValue`, `PutMeta`, `PutMarker`, `PutCleans`) and may stop before any
of them; `late` are uploads that arrive after their put stopped. Readers follow the
pointer or scan, then download one blob per step; the maintenance (`delete_before`,
`delete_old`, `delete_thread`, `collect`) deletes one per step. `CheckpointHistory` is what
a reader may rely on: a read of the newest answers as of some moment after it began.

`BlobPendingWrites` is `put_writes`: attempts at one task, each looking for a write
and then uploading it, and a reader. The attempts come one after another: an upload that a
stopped attempt left under way beside the retry is not modelled. It shares no blob with the rest.

### AppRegistration

Registration of graphs and triggers, the store's setter and the cached FunctionApp,
in any order of calls, for both apps and every setting and environment.

## 3. Runs

TLC with two workers. Components that share no state are checked together: the
first state of a behaviour chooses one (`component`, `scene`, `timely`), its steps are the
ones that are taken, and the variables of the others stay at one initial value. This
composes nothing that interacts; it saves as many starts of the checker. That a behaviour of the
whole is one of each component is a theorem (`PlatformIsEach`, `LockedIsEach`). A property of
such a run joins those of its modules that say the same of each, or that belong to one
promise; the modules state the parts, each with the hazard it is about.

| Run | Instance | Shows |
|---|---|---|
| `in_process_lock` | 3 callers, 2 keys, 5 objects, 3 tokens | `MutualExclusion`, `RegistryBounded` (an entry exists exactly while somebody uses it), `AcquireAnswers`, `ImplementsContract` |
| `async_and_lease` | 2 tasks on a pool of one thread, 2 cancellations each; a Blob lease of 2 intervals, lost at the first failed renewal, with a caller in each of 2 hosts; fair | `OwnedWhileWorking`, `NothingLeftBehind`, `CancellationHeard`, `ScopeEnds`; `LossIsDetected`, `UnusedLeaseEnds` |
| `azure_table_store` | 2 clients, sweep, 3 tokens, 2 assistants, 2 attempts | `DecisionStands`, `SweepSparesLive`, `OnlyOwnerOrSweepFrees`, `ImplementsContract` |
| `platform` | a run beside a run, state update, PATCH or delete on 2 hosts; a state update beside a stream, state update or delete on one; 3 threads, 2 clocks, pages of one; 3 checkpoints, pages of two; 2 threadless runs of 3 events; a graph and 2 triggers | `OneRunPerThread`, `SuccessIsReleased`, `LocksReturned`; `PagesFaithful` (of threads and of history), `NoResurrection`; `ThreadlessFaithful`; `ServedAsRegistered` |
| `platform_recover` | a run, and a state update or a PATCH, 2 hosts, fair | `BusyEnds` |
| `blob_lease` | 3 callers, 2 hosts: timely ones with a lease of three intervals, one of which dies; or ones that stall, one of which closes, with a lease of one interval and calls that hang | `OwnsUnlessLapsed`, `ClosedHoldsNothing`, `GuardNamesHolder`, `OneFailureIsSurvived`, `ImplementsRunLock` |
| `locked_runs` | 2 requests of either endpoint and kind of graph, or 2 native ones, on 2 hosts of which one may die; 2 messages twice, on one host or two; 2 deliveries of 2 starts of an id | of each of the four: `ExecutionsExclude`, `LocksGivenBack`, `LossIsNoSuccess` (a run whose lock is known to be lost while its graph is at work, of any endpoint, is never told a success, now or later); `OneTerminalEvent` and `ToldAlike` where there are events and answers; `WorkerAlone` of streams, `SettledRan` of messages |
| `runs_end` | 2 locked streams; a message three times; 2 deliveries; fair | `EveryRunEnds` |
| `blob_checkpoints` | 3 checkpoints, 2 channels, or 2 checkpoints with readers; a task of 3 writes in 3 attempts | `CommittedComplete`, `HintIsNewest`, `ReadsFaithful`, `RefinesHistory`; `WritesKept` |
| `azure_table_reclaimed_release` | as `azure_table_store` | violated: divergence 1 |
| `platform_state_lock_leak` | a run and a state update, one host | violated: divergence 2 |
| `blob_checkpoints_shared` | a prune of the base of a running graph | violated: divergence 3 |

The runs take from some seconds to four minutes. Modules state a `TypeOK`: that of the components is
proved, and any can be added to the INVARIANTS of its run. `Inv` of a module, its inductive invariant, was
checked that way before it was proved, and so was `TimelyInv`.
CHECK_DEADLOCK is off where requests, calls or attempts are finite
in number, so that the system rightly comes to rest.

### Why the bounds are enough

- *In-process lock.* Every hazard involves at most a leaver, a waiter and a
  newcomer on one key, hence three callers; a second key shows that entries do
  not mix. As many tokens as callers and as many objects as callers plus keys:
  all others are forgotten or unreachable and may be reused. The proofs
  cover every other size. *Async callers*: two tasks compete for the lock and for the one thread of the
  pool, the second cancellation comes while the first is retained.
- *Azure Table store.* Two clients and the sweep give all pairs of racing
  operations; `MaxAttempts` is 2 where the code has 3, so that a call both
  retries and gives up; the proofs cover any number. Three tokens let each
  client hold an old token while another one is in the row.
- *Platform.* A request acquires at most once, so two requests need two
  tokens. Each crosses the other at every store call, and the renewal workers,
  the sweep and crashes are actors of their own. `wait` and `stream` differ in what
  happens while the graph executes, so one of them stands for both in a pair. Four handlers make two pairs,
  one on two hosts and one on one host, and a behaviour sends the requests of one pair (`Only`); the proofs
  cover every mix of kinds, hosts and requests. Paging goes wrong between two pages
  and an insertion: three threads give two pages after one. Events fit the buffer, fill it exactly or exceed it.
  Two triggers and a graph meet in every order.
- *Blob lease.* Two callers of one host race for one key, the third is another
  host. Three failures in a row are counted by the code, and the age of a lease
  is bounded by its duration. The run for liveness gives a lease up at the first failure: what must
  end then ends after more rounds otherwise, none of which does anything else.
- *Runs under a lock.* The properties are about one run, or two; the lapse, the
  report and the second request can come between any two steps of the first. One
  event of a stream is in front of the limit and the other one at it. Two streams, or two native requests,
  meet on two hosts; on one host the lock refuses the second, as the deliveries of the queue show. The proofs
  cover any requests and placement.
- *Saver.* The third checkpoint is newer or older than both others, and shares
  values with either; a collection needs one to keep, one to prune and one that
  is being written. Two channels are written apart. The proofs cover any checkpoints and
  channels, and any number of pending writes and attempts.

### Fairness and assumptions

- A thread that runs finishes the acquire it started; `threading.Lock` is not fair, so a
  waiter is promised an answer, not the lock. The event loop and the executor go on
  (`AsyncThreadLock!Fairness`), and nothing makes a task be cancelled.
- `PlatformRuns!Fairness`: a live host schedules its threads, the store answers,
  a graph call ends (a Functions host has an execution timeout), time passes and the
  timer fires again and again. Nothing makes a client send a request, and
  nothing makes a host crash or a worker renew.
- `Timely` (PlatformRuns): the sweep's cutoff is longer than any step of a live owner that is
  renewed, so a busy row ages only when its owner is gone or nobody renews it. The
  documentation demands this of the operator ("set the threshold
  comfortably above your longest expected run", `docs/production-guide.md`). With
  `Timely = FALSE` a sweep may free any busy thread, and `OneRunPerThread` fails as it
  must.
- `BlobLeaseThreadLock!Fairness`: time passes and the renewal worker goes on; a call that hangs
  need not end. `Timely` there means that a round starts when it is due, and is assumed by
  `OneFailureIsSurvived` alone.
- `runs_end`: a handler goes on while its host lives, worker threads end, the broker
  delivers what waits, the framework dispatches what was called. A client that
  neither reads nor leaves is excluded by the fairness of `Generate`: the connection then
  stands for as long as the host lets it.
- `PruneBase = FALSE` (BlobCheckpointSaver): no checkpoint is pruned while a run builds on it. The
  code does not see to that; divergence 3 is what happens otherwise.
- No upload is late where there is a collection (`LateUploads`, BlobCheckpointSaver). With both, TLC finds
  `CommittedComplete` violated: the late upload of a stopped put's pointer makes it clean while the next put
  is at work, so a collection takes that put's values for orphans. The model takes the grace period of
  `collect_orphaned_values` at its least (a value that was there when the collection began is old); in the code
  five minutes, by default, are what keeps the values of a put at work. The proofs call both hypotheses `Sheltered`.

## 4. Proofs

Checked by TLAPS with the SMT solver and Zenon, PTL for the temporal steps; no assumption but the named ones
of the modules: finitely many callers, bounds that are numbers, each caller in a host, known kinds and
endpoints, and the "None" values being none of the real ones. The theorems that rest on more say so in their
statements: `Timely` for the Platform runs; `Timely`, answered calls and a lease of more than two intervals
for `OneIsSurvived`; `Sheltered` (section 3) for the saver.

**`InProcessThreadLock_proofs`.** `MutualExclusion` is not inductive: nothing in it says that the primitive
a caller holds is the one the registry hands to the next. `Inv` adds that a counted caller's object is the
registered one for its key, that registered objects are distinct, count exactly their users
(`Cardinality(UsersOf(k))`), are held exactly while a user is inside, and record a token only of a holder,
with all remembered tokens distinct. The lemmas on `UsersOf` (gain, lose, same) carry the counting;
`LeaveRegistry` serves both actions that uncount. From `Inv`: `Exclusion`, `HolderKeeps`, `RegistryExact`,
`TypeCorrect`, and `Refinement` to ThreadLock, where a caller owns its key from the moment it has the
primitive.

**`AzureTableThreadStore_proofs`.** `Inv` joins `SnapshotCurrent`, `DecisionStands` and `SweepSparesLive`
with `SnapshotPending`: a snapshot belongs to a pending call, and its ETag is valid or the call was
overtaken. The last part is what entitles an operation to give up, and without it the refinement does not go
through. `Refinement` maps `row` to `thread` and every operation's deciding step to the atomic `Perform`:
reads that go on and retries are stutters. `OwnerKeepsRow` is about steps: `ExecuteFrees` goes through the
writes and leaves the release alone, as an acquire that is let through finds the row free and an update that
is let through was built from the very row it replaces. `RecordTypes`, `SameRecords` and the per-helper
lemmas (`AnswerInv`, `StoreInv`, `ReadInv`, `ConflictInv`) are stated once and cited by each operation.

**`BlobCheckpointSaver_proofs`.** For any ids, channels, calls and tasks, under `Sheltered`.
`CommittedComplete` is not inductive: a collection deletes what it found to be needed by nobody some steps
ago. `Inv` follows the values through both: what the put at work needs is its own, uploaded or yet to be, or
of a base that stays (`PutFits`), a marker that may be late is of a checkpoint that is whole (`LateFits`),
and the maintenance is about to delete no value that a checkpoint needs (`MtFits`). A collection stops at a
dirty pointer (`Dirty`); this is where a late pointer would break it. On `Inv` rest four more invariants:
`HintInv` (`PointerIsNewest`: the pointer, unless it is dirty, names the newest), `ReadInv`
(`ReadsAreWhole`), `HistoryInv`, from which `Refinement` to `CheckpointHistory` follows (the scan and the
pointer are stutters; a read answers as of some moment after it began, if nothing it had seen was deleted),
and `ListInv` (`ListsAreExact`: a list holds the newest of those it was asked for, by counting how many of
them come before each).

**`BlobCheckpoints_proofs`.** For any number of writes, attempts and special writes: `NeverAHole`,
`AllWritesThere` and `LoadedStays`, together `WritesAreKept`, and `WrittenOnce`. None of them is inductive.
The invariant adds that at most the last attempt is at work, that what it is about to upload without
overwriting is missing, and that it has seen to every write before the one it is at. The scenes of
`MCBlobCheckpoints` are each `Sheltered`, so the theorems of the saver hold in them (`SceneInvariance`):
`CheckpointsAreComplete`, `PointersAreNewest`, `ReadsAreFaithful`, `WritesAreKeptBeside`, and `HistoryKept`
in the scene that reads the newest.

**`AsyncThreadLock_proofs`.** For any tasks, pool size, cancellations and graph calls: `WorkIsOwned`,
`EndsClean`, `CancellationIsHeard`. The invariant says, task by task, which calls its position implies
(`CallsFollowPc`), what the owner of the lock was answered (`OwnerIsKnown`), who must own it (`HolderOwns`)
and where a cancellation is until the task ends (`CancelsCounted`). `OthersGood` shows once that a step of
one task keeps the others' part, so each lemma is about one task alone.

**`BlobLeaseThreadLock_proofs`.** For any hosts, callers, leases and durations, with stalls, crashes,
closes, lost answers and calls that hang: `HolderOwnsLease`, `ClosedStaysEmpty`, `GuardIsOfHolder`. What
makes `OwnsUnlessLapsed` inductive is who can end a lease: a race loser or a former holder only the one it
remembers, and remembered leases are distinct (`MineDistinct`); `close` only what it took out of its own
host's table (`LeftoverIsLocal`); anybody at all one that has expired, which is then known as lapsed to
whoever remembers it (`ExpiredIsLapsed`), even between grant and registration (`GrantedOwns`).
`TrackedIsHeld` and `HolderIsTracked` tie the table to the one holder of the host. `RoundsCount` keeps the
count of failures within its bound: a round that can still be accounted for is of a lease that is not lost.

`Refinement` maps a caller that holds to a holder of `RunLock`. Registering is its `Acquire`: either the
lease is still the blob's, and every other holder has lapsed, or it is lost already. A lease that expires is
`Lapse`, a round that finds it lost is `Report`, `close` is both at once for the one holder of the host, and
a crash makes that holder vanish. All other steps change none of the three sets (`BarsKept`).

`OneIsSurvived` is about time. `TimelyInv` bounds the age of a tracked lease by the rounds: by the present
wait, and one wait more after a failure (`OnSchedule`); a lease just granted has age zero until it is
registered (`GrantedFresh`). `HostKept` shows once that what other hosts and callers do to the blob leaves
this alone, since they can only renew the lease, end another one, or take one that is free, which a lease on
schedule is not. The run checks three intervals, the proportion of the code; the theorem shows that more
than two are enough, with a renewal call that is answered. One that hangs costs an interval of its own
(section 5).

**`Platform_proofs`.** *The runs about a thread*, for any requests, hosts, tokens and payloads. `Inv` is
what holds whatever the sweep does: which store calls can be pending at which point, that the only release
that names a token is that of the handler that acquired it, and who is inside the thread lock of a host.
From it: `LocksAreReturned`, of every handler but for a state update whose acquire raised (`Leaked`,
section 5), and `StoreUsed`: every step of a handler is a step of `ThreadStore` or none.
With the refinement of `AzureTableThreadStore`, what is proved of the handlers holds over that backend.

`TimelyInv` rests on the sweep's cutoff. `OneRunPerThread` alone says nothing of the row; a handler is
`Live` from the answer of its acquire until a renewal tells its worker otherwise or its release is served,
and while it is the row is busy, carries its token and is not old (`LiveOwns`). So no acquire is granted, no
other release matches and no sweep takes the row; what remains is a delete, after which nobody acquires
either, so that the one live handler stays the only one (`OneLive`). `ReleaseTold` carries the answer of the
release to the 200. From these: `OneRun`, `SuccessMeansReleased`.

*Lists in order.* The provers know nothing of a sort. `SortExists` shows that a finite set has a list in
every strict total order, without an induction: place each element by how many come before it, which is one
to one (`BeforeGrows`), hence onto. `SortPlaces` is the converse: in any such list an element's place is the
number of those before it.

*The search*, for any threads, metadata, clocks and limits. That pages cover what was there says nothing of
a page in between. While a client pages and nothing stops matching, a thread's place can only grow
(`ChangesKeep`), since a write adds to what is ahead of it and never changes its own time; so what lies
before the offset was shown (`PassedIsShown`), and if nothing comes to match either, what was shown is the
list up to the offset (`ShownIsPrefix`). *The history*, for any checkpoints and limits: the cursor is the
last one shown (`CursorIsLast`), and what the client began with was shown or is behind it, admitted by its
filter (`ShownOrBehind`); that nothing is shown twice holds even with a pruned cursor. An error that is
answered as an empty page leaves the client with a beginning of the history, which `NothingSkipped` still
speaks of; only that the end was reached is lost. Together
`PagesAreFaithful`; `NothingResurrected` is the step of a late PATCH.

*Runs without a thread*, for any requests, sizes and limits: while a stream goes on it is its metadata and
data within the buffer; once answered it ends as the observer was told (`Streams`, `Streamed`). `DataIs` and
`TwoAreTwo` count its one beginning and one end. *The registration*, for any names and methods: what was
admitted stays admissible whatever is registered after it, and a FunctionApp that was handed out is the one
that would be built now (`AppCurrent`), since each change drops the cached one; from that,
`ServedIsRegistered`.

*Together*: a step of `MCPlatform` is one of a single component and a stutter of the others
(`PlatformNextIsEach`), so a behaviour is one of each (`PlatformIsEach`), and the five invariants hold of
the whole (`PlatformInvariance`).

**`LockedRuns_proofs`.** For any requests, messages, runs, hosts, graphs and limits, over a lock that may
lapse at any time. The four parts go alike. None of the properties is inductive: that no lock is kept at the
end rests on where a handler is inside its scope, and what the client was told on what was yielded at each
point before. `Fits` says it request by request: the lock is held exactly in the scope (`HoldsInScope`), the
observer has heard what the point implies, and the frames, the answer, the outcome or the output are those
of the way the handler took. `HoldersApart` is the part about several. Steps of the lock change no program
point, so they are one lemma for each handler.

- *Streaming*: a thread is inside the graph only while its handler awaits the call (`WorkersFit`), and the
  frames are the data, then an error if there was one, then the end (`Yielded`, `FramesFit`).
- *Native*: how a handler left its scope decides its one terminal event and its answer (`ExitFits`,
  `AnswerFits`). A run that was cut off or whose host died may have none (`EndsUntold`), and
  `TerminalEventIsOne` says of which runs this is true instead of leaving such runs out.
- *Service Bus*: the deliveries there were are those the broker counted (`Counted`), a session is handed out
  one message at a time (`OneOfSession`), and a settled message has a delivery that is over and was handled
  (`Settled`).
- *Durable*: a delivery is of a call that was made (`TaskFits`), and a run that is over was answered by a
  delivery of this start of its id (`AnsweredBy`); what the status routes say follows.

From these, over the composition (`LockedIsEach`, `LockedInvariance`): `ExecutionsAreExclusive`,
`LocksAreGivenBack`, `WorkerIsAlone`, `TerminalEventIsOne`, `AllAreToldAlike`, `SettledWereRun` and, of
steps, `LossIsNeverSuccess`. The guard alone does not give the last one: between the loss and the last word
lie other ways out, the release, which forgets the loss, and in the streaming endpoints the frames. `Doomed`
names what a run whose loss is known can still become, in all the points before its guard and after it, and
`LossStep`, `NativeLossStep`, `BusLossStep` and `DurableLossStep` show that no step leads out of it or tells
a success; `OthersDoomed` and its like, that a step of another run does neither. `LocksAreUsed`: every step uses the lock as `RunLock` allows, which the Blob
lease lock implements. Where a host dies, several holders go at once; `RunLock` has that as steps of its own
(`AtOnce`).

Only model-checked: liveness, out of the prover's reach (`AcquireAnswers`, `ScopeEnds`, `BusyEnds`,
`LossIsDetected`, `UnusedLeaseEnds`, `EveryRunEnds`); and `RefinesHistory` beside late uploads, where the
scenes of `blob_checkpoints` are concerned (`Refinement` holds of every instance without them). The three
divergences of section 5 are counterexamples of TLC.

## 5. What the code does not keep

Each of these is what TLC shows of the code against a sentence in the repository.

1. **A swept lock can still be released by its old owner**
   (`stores/azure_table.py:692`, run `azure_table_reclaimed_release`). The sweep resets the status and leaves the
   token; the docstring of `release_run_lock` and the adapter reference say such a
   release is ignored. A slow run thus overwrites the swept status, and stores
   its values, unless somebody acquired the thread in between.
2. **A store exception leaks the thread lock in the state update**
   (`platform/_threads.py:407`, run `platform_state_lock_leak`), which handles only KeyError and ValueError, where the
   run handlers handle all. `LocksReturned` is stated of every handler, with this exception alone: a state
   update whose acquire raised (`Leaked`).
3. **A collection can take the values of a checkpoint that is being written**
   (`checkpointers/azure_blob.py:738`, run `blob_checkpoints_shared`), if the checkpoint it builds on is pruned
   meanwhile; the docstring says that a shared version is never deleted as long as one owner survives.

Others were met while modelling. The models show them, but no run is kept for them, and
the properties allow them, by name where one bears on them:

- `renew_run_lock` answers False to an owner on any ETag conflict (`stores/azure_table.py:613`), though
  the protocol says "after ownership changes": one PATCH at the wrong moment turns a healthy run into an error.
- A state update can leave the thread busy until the sweep (`platform/_threads.py:398`): the prior status it
  will restore is read before any lock and may be "busy", which `release_run_lock` rejects.
- Of a renewal call that hangs, one is enough to lose a lease (`locks/azure_blob.py:702`): the timeout
  takes an interval, and the retry waits for another.
- A cancelled async run, or one whose generator's cleanup raises, was started for the observer and gets no
  terminal event (`_handlers.py:621`), which `observability.py:96` promises. `OneTerminalEvent` says that
  among the runs of a live host only these have none.
- A history page during which the saver raises KeyError or ValueError is answered 200 with an empty list
  (`platform/_threads.py:562`), whatever had been collected. `tests/test_platform_routes.py:3071` wants that
  answer where the first step fails; a client in the middle of its pages cannot tell it from the end, and
  lacks the rest. `PagesFaithful` promises a complete history only without such an error, and no gap in what
  was shown with one.
- A message that meets nothing but contention is dead-lettered (`triggers/service_bus.py:208`), though the
  docstring says it is not dropped.
- The status route answers `success`, `error`, `cancelled` (`durable/_state.py:187`) where the adapter reference
  lists `completed`, `failed`, `canceled`.
- A trigger and a graph with unique names may get functions of one name (`app.py:802`).

`OneRunPerThread` has an exception built in: a run whose renewal failed is not told,
so once the sweep frees its thread another may start beside it. Its result is
discarded, but not what its graph writes meanwhile.

## 6. Not modelled

- *In the modelled parts*: parsing and validation of requests, bodies of responses but for what the
  properties tell apart, log lines; entity size limits and JSON chunking of the Table store;
  `lock_expires_at` (written, never read); several namespaces of a checkpoint and the metadata filter
  of `list`; the ownership guard and the observer around a *Platform* run, which are those of the
  native handlers; more than one thread of one graph, where nothing is shared but a registry.
- *Other checkpointers* (Cosmos, SQLite, Postgres): factories around savers of other projects, with
  configuration checks and no protocol of their own.
- *Validation, authorization, observability, OpenAPI, routes, assistants, SSE formatting*: sequential
  functions that keep nothing between requests.
- *Metadata merges*: `PATCH` and a run that brings metadata merge into what they read before; of two that
  overlap one is lost. `ThreadListing` has the two steps, and no property forbids the loss, as nothing in
  the repository promises otherwise.
- *A client that keeps patching an abandoned thread* keeps its row young and postpones the sweep for ever
  (`stores/azure_table.py:379`). Requests are finite in number in the model.

Next would be a model of several namespaces of a checkpoint, whose collection is shared, and of the grace period of
`collect_orphaned_values`, in place of the hypothesis that no upload is late beside a collection.
