# A TLA+ model of dxpool

dxpool is a C++ library of thread-safe object pools and worker pools, with a
single-header C library of memory pools beside it. This directory holds TLA+
modules that model its concurrent core, TLC configurations that check them on
small instances, and TLAPS proofs of the results that hold for every instance.
`PROJECT.json` lists the components, the runs, the source lines each definition
stands for, and the hazards the properties are aimed at.

## 1. The system

| Component | Source | State | Operations | Uses |
|---|---|---|---|---|
| IndexHolder | `src/IndexHolder.h` | value, empty flag | the two constructors, `Get`, `Empty` | - |
| MutexIndexer | `src/MutexIndexer.h` | vector of indices, position, mutex | `Next`, `Return` | IndexHolder |
| ConcurrentIndexer | `src/ConcurrentIndexer.h` | ring of atomics, `readPos`, `writePos` | `Next`, `Return`, `WrapOnOverflow` | IndexHolder |
| Pool, PoolItem | `src/Pool.h`, `src/PoolItem.h` | items; per handle: item, index, empty flag, destroy callback | `Take`; move and destruction of a handle | an indexer |
| WorkQueue | `src/WorkQueue.h` | queue, mutex, condition variable | `Add`, `Take`, `HasWork` | - |
| WorkerPool | `src/WorkerPool.h` | `isAlive`, threads | the thread loop, `Submit`, `HasWork`, `Shutdown`, destructor | WorkQueue, processor operations |
| WorkerPoolBuilder | `src/WorkerPool.h`, `src/NUMANode.h`, `src/Core.h` | cores, node, threads per core | the setters, `Build` | WorkerPool |
| ProcessorLinux | `src/ProcessorLinux.h`, `src/ProcessorOperator.h`, `src/Processor.h` | none of its own: the affinities of threads are in the kernel | `FindAvailableCores`, `FindAvailableNumaNodes`, `SetThreadAffinity` | Linux |
| MemPool | `simple_pool/dyn_mem_pool.h` | list of free nodes, two counters | `alloc_mem_pool`, `pool_mem_acquire`, `pool_mem_return`, `pool_mem_free_all`, `free_mem_pool` | `malloc` |
| MultiPool | `simple_pool/dyn_mem_pool.h` | array of MemPools by size class | create, acquire, return, free | MemPool |

(Paths are relative to `src/` of this checkout.)

How the parts interact. A `Pool` asks its indexer for an index and wraps the item
at that index in a `PoolItem`, whose destructor calls back into the pool, which
resets the item and gives the index back. Handles live on any thread, so calls of
the indexer overlap. A `WorkerPool` shares one `WorkQueue` between its threads and
every submitter; `Shutdown` talks to the workers through `isAlive`, through noop
tasks and through `join`. A client asks ProcessorLinux for cores or NUMA nodes, hands
them to a `WorkerPoolBuilder`, and the constructor of the pool creates threads which
pin themselves to their core through ProcessorLinux again. A `MemPool` is shared by
all its callers with no lock; a `MultiPool` is an array of them, one per size class.

What is hard, and the properties that make each part correct:

* **Indexers.** Overlapping `Next` and `Return`; unchecked arithmetic on the
  position; in the lock-free one, a slot that is looked at, claimed, read and
  cleared in four separate steps, waits that end only if another thread moves, and
  wrap-around of the positions. *Correct*: an index is with one caller at a time,
  none is lost, "empty" is answered for a reason, a call that has claimed a position
  ends, and all this can be summed up by an atomic set of free indices.
* **Pool and PoolItem.** Chains of moves, destructors of moved-from handles, a reset
  that takes time. *Correct*: each item is in the pool or has exactly one owning
  handle, and only clean items are handed out.
* **MemPool.** A lock-free stack compared by address, counters updated after the
  fact, `malloc` failing between two steps. *Correct*: a block is in use once, the
  free list is exactly the unused blocks, the pool does not grow beyond its use.
* **WorkQueue and WorkerPool.** Lost wakeups, stolen items, shutdown against blocked
  and running workers, two shutdowns at once, a task that throws or shuts down the
  pool it runs on. *Correct*: no notification is lost, a task is run at most once and
  not lost, every worker stops and `Shutdown` ends.
* **WorkerPoolBuilder and ProcessorLinux.** Answers that are old when they are used,
  threads that start long after they were created, a constructor that fails half way,
  and a scan of the NUMA nodes that moves the calling thread about while the kernel
  may move it too. *Correct*: `Build` gives a whole pool or none, the workers are
  where the scan said, and the scan gives the caller its affinity back.
* **MultiPool.** Arithmetic at powers of two and at zero, NULL entries stored without
  a look. *Correct*: a caller gets the smallest class that fits, and the program goes
  down only for a reason the header's reader can know.

## 2. The modules

    IndexHolder            what Next() answers
      IndexPool            abstract: an atomic set of free indices (Spec, WeakSpec)
      MutexIndexer         implements IndexPool!Spec       MutexIndexerProofs
      ConcurrentIndexer    with two callers, implements
                           IndexPool!WeakSpec              ConcurrentIndexerProofs
    ObjectPool             Pool + PoolItem over IndexPool  ObjectPoolProofs
    BlockPool              abstract: an atomic set of free blocks
      DynMemPool           MemPool, implements BlockPool   DynMemPoolProofs
      MultiPool            size classes over BlockPool     MultiPoolProofs
    WorkQueue              the blocking queue
      WorkerPool           workers and Shutdown over it    WorkerPoolProofs
    ProcessorLinux         cores, nodes and affinities
      WorkerPoolBuilder    Build and the constructor       WorkerPoolBuilderProofs

Each `MC*` module declares the model values of the instances TLC checks. Operators
whose comment begins with "Mutation:" are wrong variants of a neighbouring
definition. No specification uses them; they are there to show that each property
fails when the code is changed in a plausible way.

**IndexPool** is what an indexer promises the pool: `free`, `held[t]`, and `holder[t]`,
the last answer. `NextIndex`, `NextEmpty` (only when nothing is free) and
`ReturnIndex` are atomic. `WeakSpec` adds `NextMiss`, an empty answer while indices
are free.

**MutexIndexer** has one step per access to a shared member inside the
`lock_guard` scope, so that it is the mutex, not the grain of the model, that
separates two calls.

**ConcurrentIndexer** has one step per atomic load, store or compare-and-swap.
`pc[t]` is the place in the call, `cur[t]` the local `curReadPos` or `curWritePos`.
`UnusedPosition` is 0 and slots hold the index plus one, as in the code. The spin
of `Next` on an unused slot is the guard of `NextReadSlot`; that of `Return` is
the explicit stuttering step `ReturnSpin`. Both `WrapOnOverflow` calls are modelled
with their load and their compare-and-swap.

**DynMemPool** models the header built with `TRACK_POOL_USAGE`. A node stands for the
`MemNode` with its data block. Its two `malloc`s are two steps and each may fail; when
the second does, the node of the first is freed again. `phase` tells whether one of the
two free functions, which the header calls not thread-safe, is running; they walk the
list node by node. `num_available` is taken modulo `CounterModulus`; `num_allocs`, which
the header only counts up and never reads, is left out.

**BlockPool** is what a MemPool promises: `pooled` and `out[u]`, with `AcquirePooled`,
`AcquireNew` (allowed although blocks are pooled, since the caller may have looked
earlier), `Return`, `Hand` (a block goes back through another thread) and `Free`. In
DynMemPool an acquire takes effect at the `malloc` of the data, before which a node is
no block, or at its successful compare-and-swap, a return at its successful
compare-and-swap.

**MultiPool** models the global multi pool. `pools[i]` is an entry of the array, NULL
when its `malloc` failed; `nodePool[b]` is `node->pool`. `find_multipool_index_for_size`
is translated with the wrap of `size - 1` at zero and `__builtin_clz`. `ndebug` is a
variable that never changes, so one run covers builds with and without assertions.
An acquire looks at the index before it reads the array, so without assertions a size
that has no class gets NULL even from a multi pool that was never allocated.
`request` and `asked` record sizes for the properties.

**ObjectPool** uses the actions of `IndexPool`, not those of an indexer: it needs
only the promise. `phase[h]` tells whether the handle exists and how far its
destructor is. The reset is a step of its own, so that other handles act while it
runs; this covers a reset callback that uses the pool itself.
A reset that throws, which would be `std::terminate`, is left out.

**WorkQueue** makes a critical section one step, and `awake` and `waiting` are the
threads inside `Take` that compete for the mutex and that are blocked. Spurious
wakeups are included. It has no run of its own: WorkerPool is the only user of the
queue, and takes its actions.

**WorkerPool** instantiates WorkQueue with its workers as takers. `cpc[c]` is the place
of a caller in `Shutdown`: the test of `isAlive` and its assignment are separate steps.
A call that finds `isAlive` already false is "turnedAway", a call whose `join` throws is
"failed": made by the destructor, which is `noexcept`, it ends the process, and another
caller may catch the exception, so both are possible. `drained` records the callers that
polled `HasWork` until it was false, as the tests do, with nothing submitted since. A
task in `Closing` may call `Shutdown` on its worker, whose `cpc` is then used; its
`join` of its own thread throws and so ends the process. `terminated` is
`std::terminate`, after which nothing moves.

**ProcessorLinux** has the kernel's view as state: `allowed`, the cores the process may
use, `affinity[t]`, and `answers`, which of the queries succeed at all.
`FindAvailableNumaNodes` is one step per system call: save the mask, read it again,
then pin and ask for each core, and restore. Between any two of them `Repartition` may
change `allowed`, as a change of the cpuset does. Two history variables serve
`ScanRestores`: `due`, the affinity the caller would have if it had not called, and
`kept`, the cores of the saved mask that were allowed throughout the call.

**WorkerPoolBuilder** is a client's thread with one builder. `coresLeft` and `threadNum`
are the two loops of `buildWorkerPool`; `threads[w]` is the core captured by the lambda
of worker `w`, which a created thread uses when it first runs (`WorkerStart`), also long
after `Build` returned. `CreateFails` is `std::thread` throwing. The constructor then
destroys the queue before the threads, whose destructors call `std::terminate`; what
started workers do with the destroyed queue in between is undefined, and the model goes
to `std::terminate` at once.

### Assumptions on callers and platform

* Callers return what they hold, once. Whoever has a block or handle may pass it on.
* Atomic operations take effect at once, in one order, and `compare_exchange_weak` has
  no spurious failure. The project's README names x86-64 as the supported processor,
  where this holds of loads and of locked instructions. The release stores of
  ConcurrentIndexer into a slot are plain stores there, which the processor may delay
  past later loads of the same thread. Each is the last access of its call, so it can
  only be passed by loads of that thread's next call, up to that call's first
  compare-and-swap. The model leaves that delay out.
* A reset does not throw.
* A pool outlives its handles; the free functions of MemPool and the creation and
  freeing of the multi pool run alone, and a freed multi pool is not used.
* Tasks end, by returning or by throwing, if their own call of `Shutdown` lets them.
* The kernel never leaves a thread without a core. Pinning fails only when no core of
  the mask is allowed, and the two queries succeed always or never.

## 3. What TLC checks

Each passing run explores all states of its instance.

| Run | Instance | Shows |
|---|---|---|
| `mutex_indexer` | 3 threads, 2 indices | `Exclusive`, `Accounting`, and refinement of `IndexPool!Spec` |
| `concurrent_two_threads` | 2 threads, 2 indices, 10 positions, fair | `Conservation`, `ClaimedSlotFilled`, `EmptyOnlyWhenDrained`, refinement of `IndexPool!WeakSpec`, `ClaimsComplete` |
| `concurrent_wrap` | 2 threads, 2 indices, positions wrap after 4, fair | `ConservedUnlessOvertaken` and `SomeCallCompletes` across the wrap |
| `concurrent_duplicate` | 3 threads, 2 indices | violates `ExclusiveIndex`, see section 5 |
| `mem_pool_single_acquirer` | 3 threads, 1 of them acquiring, 4 nodes | `ExclusiveBlock`, `FreeListComplete`, `AvailableLedger`, `FreedPoolIsEmpty`, `AllocationBound`, refinement of `BlockPool` |
| `mem_pool_aba` | 3 acquiring threads, 3 nodes | violates `ExclusiveBlock`, see section 5 |
| `multi_pool` | classes of 2, 4 and 8 bytes, all 5-bit sizes, 3 blocks, 2 creations | `SmallestClassThatFits`, `CrashHasCause`, `FreedLeavesNothing` |
| `worker_pool_shutdown` | 2 workers, 2 tasks (one may throw or shut down), 2 callers of `Shutdown`, late submissions, fair | `TaskConservation`, `NoStrandedTask`, `NoopsSuffice`, `ShutdownStopsWorkers`, `DrainedShutdownFinishes`, `ShutdownEnds`, `WorkersStop`, `TasksRun` |
| `worker_placement` | 3 cores on 2 nodes, 0 to 2 threads per core, 2 repartitions | `BuildAllOrNothing`, `NodePoolPlaced`, `ScanRestores` |
| `worker_pool_drops_tasks` | 2 workers, 2 tasks, 1 caller | violates `ShutdownFinishesTasks`, see section 5 |
| `worker_pool_join_twice` | 2 workers, 2 callers | violates `JoinedOnce`, see section 5 |
| `object_pool` | 4 handles, 2 items | `OneOwner`, `HandleTruthful`, `FreeItemsClean` |

### Bounds, and why they are enough

* *Indexers.* Two indices and three threads let the pool run dry while two calls
  compete. In ConcurrentIndexer the ring has four slots; `PositionBound` = 10 lets
  both positions go round it twice, so that a slot is reused by a reader and a
  writer of different rounds. `MaxValue` stands for the largest `size_t`: 255 is
  never reached, and in `concurrent_wrap` it is 5, so the positions wrap after one
  ring, the shortest cycle there is. `HoldBound` limits what one caller holds: it is 2
  in both passing runs, so one thread can drain the pool. At the wrap `PositionBound`
  is beyond the last position and bounds nothing, so that run's behaviours are
  infinite.
* *A drained ring at the wrap.* `readPos` can wrap while `writePos` is still at the end;
  the two then differ although the ring is empty, and `Next` goes on to look at a slot.
  If a reader of one ring earlier has not cleared that slot, its index is handed out
  again. `Conservation` therefore fails at the wrap, with two threads already, and TLC
  finds it in seconds in the instance of `concurrent_wrap`. `ConservedUnlessOvertaken`
  says what is left: as long as no `Next` at the front looks into the slot of a reader
  that has not cleared it, no index is lost or duplicated, whichever position wraps
  first. With 64 bits the wrap is 2^64 operations away.
* *MemPool.* Four nodes exceed the `AllocationBound` of the instance, so the bound is
  not an effect of a lack of nodes. A counter modulus of 4 makes the transient below
  zero visible. Nodes and returning threads are interchangeable and are declared
  symmetric; the run has no liveness property, for which that would not be sound.
  Deadlock is not checked, since a freed pool is where the program stops.
* *MultiPool.* Sizes run over all 32 values of the scaled type: zero, both sides of
  every power of two, and far beyond the last class. Three blocks can be of one class
  or of three. The second creation meets blocks that survived the first.
  Deadlock is not checked: when no creation is left a freed pool is the end.
* *WorkerPoolBuilder.* One node has two cores and the other one. Clients also pass a
  core the machine does not have, no core, a node without cores and a node with an ID
  only. Each of two repartitions can fall between any two system calls, so that a core
  can be taken away and given back within one scan. Deadlock is not checked: a built
  pool is the end of the builder's story.
* *WorkerPool.* Each task is submitted once. Two workers and two callers put a worker
  in each of its places while both shutdowns advance. Deadlock is not checked, since
  a pool that was shut down is where the program stops: `ShutdownEnds` and
  `WorkersStop` tell that end from being stuck.
* *ObjectPool.* More handles than items: some stay empty, and items are moved while
  others are returned.

### Fairness

Every fairness condition is weak and covers only threads inside a call, or worker
threads, that can take a step: the operating system's scheduler runs them, and a
mutex is eventually granted. No client has to call anything, and no spurious wakeup
is relied on. Only ConcurrentIndexer and WorkerPool state liveness.
A single call of ConcurrentIndexer or MemPool may in principle retry for ever while
others succeed, so for the retry loops only `SomeCallCompletes` is claimed.

## 4. What is proved

TLAPS proves the theorems below for every value of the constants allowed by the
ASSUMEs of the modules: natural pool sizes and bounds, null values distinct from the
rest, finite sets of handles, of cores, of MemPool threads and of the cores a client
names, positions wide enough for the ring of ConcurrentIndexer, and size classes that
fit the type of MultiPool's sizes. Every property of the passing runs other than
liveness is stated by a theorem; where a theorem has a hypothesis on the number of
callers, it is one the violating runs show to be needed.

**MutexIndexerProofs.** `Invariance: Spec => []IndInv`, and from it `TypeCorrect` (the
`size_t` position stays within the vector), `ExclusiveHolds`, `AccountingHolds`, and
`Refinement: Spec => IndexPool!Spec`. Neither exclusivity nor the accounting is
inductive alone. `IndInv` adds that the one thread in a critical section owns the
mutex (`LockInv`), that the part of the vector above the position holds no index
twice and none that is out (`StackInv`, where `LivePos` corrects the position between
the two writes of `Return`), and what the locals hold between two steps (`LocalInv`).
In the refinement a call takes effect at its unlock.

**ConcurrentIndexerProofs.** `TypeCorrect` for every instance, wrapping positions
included: it needs only that a call whose position is at the end goes to
`WrapOnOverflow` before it uses it.

The other theorems assume `NoWrap`: the calls of `Return` end before the positions do,
which with 64 bits is no restriction. Three invariants are proved together.

* `RingInv` says what a position means: between `readPos` and `writePos` each position
  is written or has exactly one `Return` filling it; a written position's slot and a
  claimed reader's slot are filled and no two of them coincide; nothing else is in the
  ring (`NoStray`).
* `HomeInv` is `Conservation` without counting: the slots, the callers and the calls
  that have an index are one singleton and two empty sets.
* `FarInv` keeps `writePos` away from the end, counting the calls about to claim.

They depend on each other. That `Return` finds room in the ring is an argument by
pigeonhole from `HomeInv` (`Room`): the positions from `readPos` to `writePos` carry
different indices, so there are at most `PoolSize`. That slots do not collide uses
that the ring is twice as long (`SlotInjective`).

One step does not preserve them: `Next` passing its check of a slot that a reader of one
ring earlier has not cleared. `NotOvertaken` says that no `Next` at the front stands
before such a slot, and is the whole hypothesis of `OvertakingIsTheOnlyWay: Spec =>
ConservedUnlessOvertaken`, that is `[]NotOvertaken => []Conservation`, for any number of
threads: the defect of section 5 is the only way to lose or duplicate an index. With at
most two callers `NotOvertaken` follows from `RingInv`: the position at the front would
have to be one a third thread's `Return` is waiting to write. Hence, for any pool size,
`TwoCallersConserve`, `TwoCallersFindTheirIndex`, `TwoCallersEmptyTruthful` (an action
property) and `TwoCallersRefine: Spec => ImplementsWeakPool`, in which a `Next` takes
effect when it clears its slot and a `Return` when it writes it.

**DynMemPoolProofs.** `TypeCorrect` for any set of acquirers. `SingleAcquirerExclusive`:
if at most one thread acquires, no block is in use twice, for any number of
returning threads and nodes. `PoolInv` adds the shape of the list (`ListShape`: links
stay among pooled nodes, no two meet, none leads to the head) and `LoadedInv`: what
the acquirer loaded is still true. The latter is exactly what a second acquirer
destroys, hence the hypothesis, which the other results share:

* `Refinement: Spec => ImplementsBlockPool`. One lemma per action shows which step of
  BlockPool it is. It is what lets MultiPool be built on BlockPool.
* `FreeListKept: Spec => []FreeListComplete`. The nodes reachable from the head are the
  intersection of the sets closed under the links, which needs no induction along the
  list: `ReachInv` says that every closed set has all pooled nodes. `ListEffect` sums
  up each action as one of three effects on the list: none, a pop, or a push.
* `AvailableCounted: Spec => []AvailableLedger`, from the same effects and modular
  arithmetic of the counter.
* `FreedPoolEmpty` combines both: a head that is NULL means an empty pool.
* `AllocationBounded` needs `BoundInv`: a thread that saw the list empty is still below
  the bound when it allocates, as every block that was out at that moment is its own
  or in one of the returns.

**MultiPoolProofs.** `IndexIsSmallestClass`: `find_multipool_index_for_size` returns an
index inside the table exactly for sizes from 1 to the largest class, and then the
smallest class that fits, for every width and table. It rests on facts about powers of
two and on `HighestBit` for `__builtin_clz`. As the provers cannot instantiate an
induction schema, powers are related to cardinalities of power sets (`PowCard`), and an
induction over numbers is an appeal to the least counterexample (`LeastNat`). With it
`TypeCorrect`, `BlocksFit`, `CrashesExplained` and `FreedIsEmpty` hold for every table,
set of blocks and number of creations; `FreeInv` says what the loop of `multipool_free`
has left behind so far.

**ObjectPoolProofs.** `TypeCorrect`, `HandlesTellTheTruth`, `OwnershipSafe` and
`CleanSafe`, one for each property. `IndInv` states ownership without counting
(`OwnerInv`: an owner's index is out, two owners of one index are the same handle,
each index that is out has an owner), that a running destructor belongs to a handle
with an item (`DestroyInv`), and that a changed item is with a handle whose reset has
yet to run (`CleanInv`).

**WorkerPoolProofs.** For any number of workers, tasks and overlapping shutdowns:

* `TypeCorrect`, `NoWakeupLost: Spec => []NoStrandedTask` and
  `ReturnedMeansStopped: Spec => []ShutdownStopsWorkers`. `NoStrandedTask` is inductive
  with the types: `Add` brings one item and, if anyone is blocked, one awake thread;
  `Take` consumes one of each, or blocks only on an empty queue.
  `ShutdownStopsWorkers` needs `JoinInv`: the workers a call has passed in its joins
  have left their loop, and a call returns past the last.
* `NoopsReachEveryWorker: Spec => []NoopsSuffice`. A call has sent nothing before it
  lowers `isAlive` (`NoopInv`); afterwards a worker that takes an item does not come
  back to `Take`, so items and takers go down together.
* `TasksConserved: Spec => []TaskConservation`, from its form without counting,
  `PlaceInv`: a task has at most one place in the queue or one worker, and has one
  exactly while it is submitted and not done.
* `DrainedLosesNothing: Spec => []DrainedShutdownFinishes` combines both with
  `DrainInv`: while a caller counts as drained, only noops are queued.

**WorkerPoolBuilderProofs**, about ProcessorLinux too, for every machine and client:

* `TypeCorrect` and `BuildWholeOrNone: Spec => []BuildAllOrNothing`. `Counted` is the
  invariant of the two loops of `buildWorkerPool`.
* `ScanGivesBack: Spec => ScanRestores`, for any number of repartitions during the scan.
  `ScanInv` says that the cores kept throughout are still allowed and, if there are
  any, are the affinity the caller is due.
* `WorkersPlaced: Spec => []NodePoolPlaced`. `PlaceInv` follows the cores from the
  caller's mask through the walk (`Scanning`, `Found`, `Complete`) to the nodes
  answered (`NodesTrue`) and the threads pinned (`Pinned`).

Only model-checked: the liveness properties `ClaimsComplete`, `SomeCallCompletes`,
`ShutdownEnds`, `WorkersStop` and `TasksRun`, since fairness and ENABLED are outside
TLAPS; and `ConservedUnlessOvertaken` across the wrap, since its proof assumes `NoWrap`.

## 5. What the checks found

* **ConcurrentIndexer can hand an index out twice** (`concurrent_duplicate`). `Next`
  reads its slot and clears it in two steps. While a reader stands between them,
  the other index travels round the ring until a `Return` claims the position one
  ring later and waits for the clear; a third thread's `Next` sees the slot filled,
  claims that same position and reads the old value. It takes three threads, or two
  where the positions wrap, which no run of the program reaches (section 3); the
  repository's README calls this indexer experimental.
* **MemPool has the ABA problem** (`mem_pool_aba`). With several acquirers, the
  compare-and-swap of `pool_mem_acquire` succeeds on a head that left and came back,
  and installs a node that is in use as the head.
* **Shutdown drops queued tasks** (`worker_pool_drops_tasks`). Workers test `isAlive`
  before each task, so what is queued when `Shutdown` starts need not run, although a
  comment of `WorkerPool.h` says that destruction waits for all tasks. A client
  that first waits for `HasWork` to be false is safe (`DrainedShutdownFinishes`).
* **Two Shutdowns can join the same thread** (`worker_pool_join_twice`), as test and
  assignment of `isAlive` are separate steps. The second `join` throws; the workers
  stop all the same (`WorkersStop`).

One more disagreement with a comment needs no run, as it can be read off the early
return: a call of `Shutdown` that finds `isAlive` false returns at once, while the
workers may still be running, although `WorkerPool.h` line 118 says "Waits for all
workers to finish and stops all threads". `ShutdownStopsWorkers` speaks only of calls
that went past the test.

Some behaviours are no disagreement with a document but worth knowing.

* `ConcurrentIndexer::Next` may answer empty although an index is free, when a `Return`
  has claimed a position it has not written. A comment there says both that this is
  possible and that it should never happen; it does happen, and is why only `WeakSpec`
  is implemented.
* A task that calls `Shutdown` takes the process down: the worker's join of itself
  throws, and nothing catches it. It does not hang (`ShutdownEnds`).
* A worker whose core was taken from the process since the scan runs unpinned; the
  result of `SetThreadAffinity` is not looked at. `NodePoolPlaced` therefore speaks of
  processes that keep their cores.
* `FindAvailableNumaNodes` reads the mask twice. If the process is moved to other cores
  between the two reads, restoring the first fails and the caller stays pinned to the
  last core of the second. If a core of the first mask is taken away and given back
  during the scan, the restored mask has it again, although the kernel would have
  dropped it from a thread left alone. These are the exceptions in `ScanRestores`;
  without either, TLC finds the case. The second shows only with two repartitions: the
  attempt to prove the property for any number of them brought it up.
* A node given an ID with `SetID` still reports `Empty`, and `Build` rejects it; a node
  constructed with no cores is accepted and gives a pool without workers.
* `multipool_create` keeps a NULL entry when a `malloc` fails, and the program goes down
  at the first acquire of that class or at the latest in `multipool_free`
  (`CrashHasCause`).

## 6. What is not modelled, and the plan

Done, in the order of the plan: the abstract index pool and MutexIndexer with its
proofs; ConcurrentIndexer; MemPool with its proofs; WorkQueue and WorkerPool with their
proofs; Pool and PoolItem with their proofs; the abstract block pool, its refinement by
MemPool, and MultiPool on it; ProcessorLinux and WorkerPoolBuilder.

All safety properties of the passing runs are proved, `ConservedUnlessOvertaken` for
positions that do not wrap, as section 4 says. What could
still be proved: more of ConcurrentIndexer for three and more callers, such as a bound
on how many indices they may hold under which `NotOvertaken` holds; and the behaviour
across the wrap, under the hypothesis of `ConservedUnlessOvertaken`.

Left out: `ProcessorUnsupported.h` (constant answers), `Optimizers.h`, `TypePolicies.h`
and the umbrella header (no state), and the layout of the NUMA topology, which is a
constant of the model. Tests, benchmarks, fuzzers and examples are clients: they were
read for how the library is used and for what they assert.
