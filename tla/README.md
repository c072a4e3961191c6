# KMeans: models, checks and proofs

This directory holds TLA+ models of the program in `src/src`: k-means clustering in one
thread and in many, the concurrent data structures the second is built on, and the lock-free
queue and hazard-pointer collector of the libcds that the repository carries for them. TLC
checks the models on small instances; TLAPS proves, for instances of any size, every invariant
and every refinement that a passing run checks: among them that the blocking list implements a
queue, that both programs of k-means implement Lloyd's algorithm and never increase its cost,
and that the lock-free queue is linearizable and never touches freed memory. Every definition follows the code; `PROJECT.json` gives the lines.

## The system

| part | source (under `src/src`) | state | operations |
| --- | --- | --- | --- |
| blocking list | `threadsafe/blocking/list.h` | `m_front`, `m_back`, `m_size`, heap cells, one mutex | `push_back`, `pop_front`, `empty`, `size`, destructor |
| thread pool | `threadsafe/threadpool.{h,cpp}` | task list, `m_isRunning`, condition variable `m_waiting` and its mutex, threads, `m_onWaiting` | `Init`, `AddTask`, `SetOnWaiting`, destructor, `workThread` in each thread |
| task | `threadsafe/task.{h,cpp}` | a promise and its future | `Execute` (virtual), `Wait`, `Notify` |
| single-threaded k-means | `kmeans/singleThread/kmeansSingleThread.h` | two vectors of centroids, cluster indexes, counts, `V` | `Run` = `kmeansPP`, `kmeans` |
| multi-threaded k-means | `kmeans/multiThread/*` | the same with one vector of centroids, the tasks of an iteration, a pool of 8 threads | `Run`, `CKMTask::Execute` in the workers |
| points, generator | `kmeans/userData/point.h`, `kmeans/generator/generate.h` | none | vector arithmetic, `randf` |
| index locker | `threadsafe/locks.h` | a map from indexes to counted mutexes, a global mutex | `lock`, `unlock`, `size` |
| lock-free list, bloom, `TSafe::queue` | `threadsafe/lockfree/list.h`, `threadsafe/data_structures.h` | none | stubs and declarations |
| hazard pointers | `libcds/cds/gc/details/hp.h`, `libcds/cds/gc/impl/hp_decl.h`, `libcds/src/hp_gc.cpp` | a list of records, each with an owner, a free mark, hazard pointers and an array of retired nodes | attach, detach, end of a thread, `assign`, `protect`, `retirePtr`, `inplace_scan`, `classic_scan`, `HelpScan`, construction and destruction |
| lock-free queue | `libcds/cds/intrusive/msqueue.h`, `libcds/cds/container/msqueue.h` | `m_pHead`, `m_pTail`, nodes with a link, a dummy node | `enqueue`, `dequeue`, `clear`, `empty`, destructor |
| Rosetta k-means | `kmeans/kmeansRosettaCode.*` | arrays of points | `kpp`, `lloyd`, `nearest`, printing |
| programs and tests | `main.cpp`, `kmeans/{single,multi}.cpp`, `tests/` | none | drivers |

How they interact. The main thread of multi-threaded k-means owns a pool. In each
iteration it creates twelve tasks, `AddTask`s them and `Wait`s for each. `AddTask` pushes a
pointer on the blocking list and notifies one worker; a worker pops pointers while the list
is not empty, calls `Execute` and `Notify`, and parks on the condition variable when the
list is empty. Workers and main thread share `m_indexes` and `m_centers` with no lock: the
promises are the only synchronisation. The index locker is used by its own test only.

The lock-free list of the program is still a stub; libcds is in the tree to build it from, and
its Michael-Scott queue over hazard pointers is the part with the same interface. A thread that
calls the queue is attached to a record of the collector. It announces each node it is about to
follow in one of its two hazard pointers and reads the source of the pointer again. A dequeued
node is retired into the thread's record; a scan frees the retired nodes that no hazard
pointer of any record holds. A thread that detaches scans and then helps: it takes over the
nodes of records whose threads have detached or ended.

What is hard here: the list is tested outside the mutex of the condition variable, so that
notifications can be lost; a promise can be fulfilled once; the tasks of an iteration are
destroyed as soon as the waits return; the ranges of points must cover the set whatever its
size; empty clusters; a loop that ends on the equality of two sums; an unsynchronised search
in a map that other threads change. In the queue and its collector: a pointer that is loaded before it
is guarded, addresses that come back after they were freed, scans that read hazard pointers one
by one while they move, records that change hands, threads that end in the middle, a tail that
lags behind. `hazards` in `PROJECT.json` lists each at its line, with
the properties that would catch it.

## Modules

```
FifoQueue  <== BlockingList                   KMeansAlgo <-- KMeansAlgoProofs
                    |                             |  |  |
               BlockingListProofs                 |  |  |
ThreadPool <-- PoolOwner                      Lloyd  |  |
    |   \                                       ^    |  |
    |    ThreadPoolProofs <-- PoolOwnerProofs    \== KMeansSingle <-- MCKMeansSingle
    |                     <-- KMeansMultiProofs   \     |  \-- KMeansSingleProofs
    +---------------------------------------------== KMeansMulti <-- MCKMeansMulti
                                                         \-- KMeansMultiProofs
IndexLocker <-- IndexLockerProofs
LinearQueue <== MSQueue --> HazardPointers
                   |
             MSQueueProofs                        (<-- EXTENDS, <== implements)
```

- **FifoQueue** is what callers of the list rely on: every call takes effect at one instant.
- **BlockingList** is the code of the list, one step per statement that matters while the
  mutex is held: `m_size++`, `new`, the two branches of linking, reading the value, unlinking
  and `delete`. Cells have addresses; a deleted cell reads as `Freed`. `order` (a history
  variable) is the list's contents by address, and the refinement mapping reads the values
  through it. An allocation may fail (`PushBadAlloc`).
- **ThreadPool** holds the state of the pool and of the tasks, the steps of a worker
  (`workThread`, one action per statement: the two loop tests, the pop, `Execute`, `Notify`,
  the lock, the wait, the wake-up) and the steps of the pool's operations. It uses the list as
  an atomic queue, which `BlockingList` justifies. `m_waiting` is the set of parked threads:
  waiting and releasing the mutex are one step, a notification with no thread parked is lost,
  and a thread may wake with no notification. A second `set_value` sets `terminated`.
- **PoolOwner** adds a thread that uses the pool like `tests/test_threadpool/main.cpp`:
  `Init`, then any calls of `SetOnWaiting`, `AddTask` and `Wait`, then the destructor, which
  ends by destroying the list with the tasks that are still in it (`DestroyMembers`).
- **KMeansAlgo** holds the arithmetic: distances, `findNearest` (the first of several nearest),
  the k-means++ draw, sums and means. Coordinates are integers that are multiples of all
  numbers up to `N`, so that the means the code computes are integers too.
- **Lloyd** is the sequential algorithm, an iteration in one step; `KeepEmpty` says what
  happens to the centroid of an empty cluster, the one point in which the two programs differ.
- **KMeansSingle** is the single-threaded program, with its two buffers that change places.
- **KMeansMulti** is the multi-threaded one: the main thread's statements, the ranges of the
  tasks, and `Execute` in the workers, one step per point. It extends `ThreadPool` and
  `KMeansAlgo`. `AtomicFloat` is the plain variable `V`: after the change that moved the
  accumulation to the main thread, no other thread touches it.
- **IndexLocker** is `index_locker` with threads that lock one index at a time, as its test
  does. The insertion and the erasure are steps during which an unsynchronised `find` in
  another thread may miss; that is how the data race shows here. Worse outcomes of the race
  (a crash in `find`) are not modelled. If `AllocFails`, the insertion may throw, which leaves
  `m_global` locked (`InsertBadAlloc`).
- **HazardPointers** is the collector, one step per access to memory that threads share:
  owning a record or pushing a new one (`AllocOwn`, `AllocUnfree`, `AllocNew`), a scan that
  reads the hazard pointers of the other records one at a time and frees what it has not seen
  (`ScanOwn`, `ScanRecord`, `ScanSlot`, `ScanFree`), `HelpScan` over the records (`HelpOwn`,
  `HelpMove`, `HelpRelease`) with the scan it makes when its array fills up in the middle
  (`HelpMoveFull`), detaching, a thread that ends without detaching (`End`), and the destruction,
  `detachAllThread` included (`DestroyRecords`). `Classic` selects the scan.
- **LinearQueue** is a linearizable queue: a call takes effect at one instant between its
  invocation and its return; a dequeue may answer "empty" if the queue was empty at some
  instant of the call.
- **MSQueue** is the queue over the collector: `enqueue` and `dequeue` statement by statement
  with the retry loops, the container's copy of the value before the node is disposed of, and
  `clear`, the destructors and the collector's `Destruct` at the end. Freed nodes may be
  allocated again, with their link as the code leaves it.
- `...Proofs` hold the theorems; see below. `KMeansMultiProofs` and `KMeansSingleProofs` both
  extend `KMeansAlgoProofs`.
- `MC...` modules give the inputs. The operators under a comment "Defect" are plausible bugs
  of the definition that follows; nothing uses them but the mutation runs, which put one in
  the place of the definition and expect the property named in `PROJECT.json` to fail.

## Runs

| run | bounds | properties | result |
| --- | --- | --- | --- |
| `list` | 2 threads, 2 values, 3 cells, 1 failed allocation | `Linked`, `NoLeak`, `SizeAccounts`, `ImplementsFifo` | hold |
| `pool` | 2 workers, 3 tasks, each added at most once | `WaitIsBarrier`, `OnlyShutdownDrops`, `NoTaskDuplicated`, `NeverTerminates`, `HangsOnlyOnLostWakeUp` | hold |
| `pool_reuse` | 2 workers, 2 tasks, 3 additions | `NeverTerminates` | fails: a task added twice |
| `pool_lost_wakeup` | 2 workers, 2 tasks | `WaitsOnlyForNewTasks` | fails: a lost notification |
| `pool_on_waiting` | 2 workers, 2 tasks | `OnWaitingIsCalled` | fails: never called |
| `single` | 4 points on a line, 3 clusters, 256 placements, all draws | `NeverGrows`, `ImplementsLloyd` | hold |
| `single_nearest` | 5 points, 4 clusters | `ResultIsNearest` | fails: zero centroid of an empty cluster |
| `single_seeds` | as `single` | `SeedsFromSet` | fails: a draw beyond the sum |
| `multi` | 2 workers, 3 tasks over 5 points (ranges 2, 2, 1), 2 clusters, 2 inputs | `NoRace`, `TasksOutliveUse`, `ClustersAreCurrent`, `NeverGrows`, `ResultIsNearest`, `EndsUnlessStalled`, `ImplementsLloyd` | hold |
| `index_locker` | 3 threads, 2 indexes, 2 calls each, allocations may fail | `MutualExclusion`, `NoUseAfterErase`, `CountsUsers`, `NoElementLeft`, `HangsOnlyOnMissOrBadAlloc` | hold |
| `msqueue` | 2 threads, one of which stays and one of which may detach, return or end; 3 nodes, 3 attachments, at most 5 nodes and attachments together | `NoUseAfterFree`, `OneHolder`, `TailIsClose`, `FreeRecordsAreUnused`, `ImplementsQueue`, `LockFree` | hold |
| `index_locker_hangs` | 2 threads, 2 indexes, 2 calls each, no allocation fails | `ThreadsReturn` | fails: a missed unlock |

Every passing run also checks the module's `TypeOK`. Deadlock checking is off everywhere:
each system ends, or hangs in the ways the properties describe.

Why the bounds are enough. Three cells are an empty list, one with a single cell, one whose
last cell is not its first, and one more. Two workers are needed for a pop that loses a race
and for notifications that wake the wrong thread; three tasks are more than workers. Three
tasks of an iteration include ranges of several points and a shorter last one; the second
input has an empty cluster when both centroids start at the origin. The run has no empty range
and not fewer points than tasks; for those edges of the ranges there are the theorems
(`RangesPartition` and what follows from it), which hold for all numbers of points and tasks. Three threads on two
indexes let one thread leave, one hold and one arrive at an element while another index
changes the map. The list's counter has a small modulus that the cells cannot reach; the
overflow of the real one needs 2^32 elements.

In `msqueue` (450,000 distinct states) three nodes are the least for a tail that lags behind a
list of two, and for a node that is freed and allocated again while another thread still
remembers it. With three attachments a record is left, helped and reused. `MaxLoad` bounds
their sum: either three nodes and two attachments, or two nodes and three attachments. Which
of several unused nodes an allocation returns makes no difference, so the run takes the first.
The scan is the default one (in place); the proofs hold for both. A push of `retirePtr` may fill the
array of the thread in `Filling`, a push inside `HelpScan` that of any thread; a scan follows.

What the failing runs mean. Multi-threaded k-means and the pool can hang: a worker that found
the list empty and has not parked yet misses the notification, and if all do so while the main
thread waits, nothing wakes them (`pool_lost_wakeup`); in the same way the destructor's
`notify_all` can be missed and `join` never returns. `HangsOnlyOnLostWakeUp` and
`EndsUnlessStalled` say that there is no other way to hang. A destruction that does not hang may
still drop tasks: those in the list when the workers see `m_isRunning` false are deleted with it,
and whoever waits for one of them waits for ever. `OnlyShutdownDrops` says that no other task is
lost.

`randf` exceeds its argument when
`rand()` is `RAND_MAX`: with a `RAND_MAX` of 32767 the excess survives the conversion to
`float`; with a larger one it is lost there, and the rounding of the running subtraction has
the same effect. The model uses exact fractions.

## Fairness

A thread that can take a step takes one eventually (`WF` on each worker, each thread of the
locker, and the main thread): the operating system schedules them all. The owner in
`PoolOwner` has fairness only inside a call; it need not make another. There is no fairness
for spurious wake-ups, nor for the outcome of any choice (`rand()`, which thread is notified,
which waiter gets a mutex). `EndsUnlessStalled` speaks of one seeding, one iteration and the
destruction: each ends unless the pool stalls. Neither it nor anything else claims that the number
of iterations is finite. The loop of both programs ends when `V`, a sum of rounded terms, equals its
last value, and that may never happen; a claim made in the exact arithmetic of the models would not
be one about the program, and `KMeansSingle` has no fairness.

The tests' threads make a bounded number of calls, so weak fairness is enough for mutexes: a thread can be overtaken only finitely often.

For the queue less is assumed: only that *some* thread takes steps while one can
(`WF` of the disjunction over threads). A thread may stop for ever anywhere. `LockFree` says
that still some call returns again and again, which is the progress the algorithm promises.

## Proofs

All theorems hold for any constants that satisfy the `ASSUME`s: that the marks `NoWorker`,
`NoTask`, `NoThread` and `NULL` are not threads, tasks, addresses or values, that bounds are
natural numbers, that an iteration has at least two tasks, that threads of the locker and
addresses are finitely many, that `m_size` can count the addresses and the failed
allocations (2^32 elements do not fit in it), and that there are points, clusters and
coordinates, with coordinates of which the means up to `N` points are integers.

**BlockingListProofs** proves all properties of the run `list`: `TypeOK`, `Linked`, `NoLeak`,
`SizeAccounts`, and that the list implements `FifoQueue`. `Linked` speaks of the moments in
which the mutex is free. The invariant says what replaces it at each statement of the holder
(`Stage`): the new cell is allocated but not in the list, the last cell links to a cell that
`m_back` does not yet point to, `m_front` is one cell ahead (`Shape`, `Heap`, `HolderKnows`), `m_size`
is one ahead or behind (`Sizes`). `OrderFits` bounds the length by the number of addresses, so
that the counter does not wrap. For the refinement, a step inside a method leaves the
contents alone (`InnerSteps`), and the last step of a method is the atomic operation.

**ThreadPoolProofs** has lemmas about the steps of the pool: what push and pop do to the
list (`PushKeepsList`, `PopKeepsList`), and that every step keeps the types and that a worker
in `Execute` or `Notify` has a task (`PoolInv`).

**PoolOwnerProofs** proves `TypeOK`, `WaitIsBarrier`, `OnlyShutdownDrops`, `NoTaskDuplicated`, and,
for an owner that adds no task twice, `NeverTerminates`. None is inductive alone: that a
worker's task is not fulfilled yet follows from its having been in one place only when it was
popped, which follows from its not having been anywhere when it was added. The invariant
`IInv` therefore says where each task is (`Places`), that only added tasks are anywhere
(`OnlyAdded`), that what `Notify` fulfils has been executed and what is executed is fulfilled or
about to be (`Ordered`), and that a pool that is gone has no worker left (`GoneIsJoined`). Three steps
move a task (`AddTask`, `PopTask`, `Notify`); each has a lemma. The end of the destructor drops
tasks (`DestroyDrops`); it waits for all workers, so that each dropped task is one that none has
popped. All other steps leave `Places` alone (`PlacesStay`).

**IndexLockerProofs** proves `TypeOK`, `MutualExclusion`, `NoUseAfterErase`, `CountsUsers` and
`NoElementLeft`. The difficulty is that an element is erased by the thread that counts to 0, one
step after it counted. The invariant says what the holder of `m_global` knows in that step
(`GlobalHeld`, `HolderKnows`): its element is there and its count is 0, so that, by `CountsUsers`,
nobody blocks on it or holds it. Conversely `NoUseAfterErase` is what keeps the counter from
going below 0. `MissedStays` is needed because an index must not be inserted anew with a count of
0 while an earlier unlock of it was missed: a missed element is never erased. Each step that
changes users or counts has a lemma that adds or removes one member of `Users`.

**KMeansAlgoProofs** is about the computations, for any number of points, clusters and
coordinates. Sums over points, over clusters and over coordinates are inductive definitions.
The library's induction theorems take an operator as a parameter, which none of the provers
here can instantiate; `NatInSet` says the same of a *set* of numbers, and follows from the
well-foundedness of strict inclusion among finite sets (`IntInduction` is its form for an
interval). From it come existence and uniqueness of the sums, linearity, monotony, and the
exchange of the order of two summations. `NearestIsNearest` says that the scan with a
strict `<` returns a nearest centroid; `MeanIsExact`, that the divisions are exact;
`MeansAreLeast`, that no choice of a centroid makes the squared distances of the points of a
cluster smaller than their mean does, and that any other choice makes them larger. Together:
`MoveDescends`, an iteration does not increase the cost, and `SameCostIsStable`, if it keeps the
cost then it keeps the centroids.

**KMeansMultiProofs** proves all safety properties of the run `multi`. First the threads: the
ranges partition the points (`RangesPartition`; the order of products and the division are its
arithmetic), `NoRace`, `TasksOutliveUse` and `ClustersAreCurrent`. The invariant `IInv` relates
the pool to the main thread: only tasks that were
added in this iteration are in the list or with a worker, each once and unfulfilled (`Distinct`);
what is fulfilled was added in this iteration, and what was waited for is fulfilled (`Waits`);
and the indexes in the part of a range that a worker is through with, and in the whole range
of a task that is fulfilled, are right (`Written`). When the last wait returns, all tasks are fulfilled, hence
none is in use, and the partition makes all indexes right (`AllAwaited`). Then the values:
`DataInv` says what is in the sums before and after the accumulation (`Sums`), and that the cost
of the last complete iteration bounds that of the next and equals it only if the centroids are
at rest (`Descent`). From it follow `TypeOK` (in it, that nothing is divided by 0), `NeverGrows`
and `ResultIsNearest`. `ImplementsLloyd` is a simulation: the steps of the workers and the
statements of the main thread inside an iteration stutter, and the step that moves the centroids
is Lloyd's iteration, because `DataInv` has made the sums those of the sequential algorithm.

**KMeansSingleProofs** proves `TypeOK`, `NeverGrows` and `ImplementsLloyd` of the run `single`. What
is particular here is that the two vectors of centroids change places: the invariant (`Buffers`)
says that the vector of the next centroids and the counts are zero at every statement but the
one that divides, so that nothing of an older iteration leaks into the sums. The centroid of an
empty cluster jumps to the origin; the cost cannot grow by that, because no point is
counted with it before `findNearest` has chosen again.

**MSQueueProofs** proves all safety properties of the run `msqueue` and that the queue is
linearizable, in four layers of which each is an invariant that contains the one before.

1. `RecInv` is about records: the owner of a record is the thread that is attached to it, is
   attaching or is helping; the list is numbered without gaps; a free record is empty; a
   thread scans only while attached. It gives `FreeRecordsAreUnused`.
2. `TypeInv` adds the queue's variables, which locals are not null at which statements, and that
   the destructors run alone. It gives `TypeOK`.
3. `MemInv` says that a thread *holds* a node by a hazard pointer between the check that
   follows `assign` and the next use of the slot. A node begins to be held only when it is in the
   queue: the tail and the head because they were read again after `assign`, the second node
   because the head was found in place after the link was read again. Nodes in the queue are not
   retired. A scan may come in the middle of a move from one array to another; the moves keep the
   arrays disjoint (`ArraysMove`, `RetiredOnce`). So when a node is retired everyone who can still reach it
   holds it already, and a scan either has the hazard pointer ahead of it or has marked the node
   (`Seen`). Hence what is held is allocated (`HeldAlive`), which gives `NoUseAfterFree`. What a node's
   link can be is needed
   too: a node that is being enqueued is known to nobody else and has a null link
   (`NewIsPrivate`, `FreshLinks`); a link once set stays until the node is freed (`LinkRead`);
   the nodes of the queue are a set in which links are one to one and none leads back to
   `m_pHead`, with `m_pTail` last or next to last (`List`), and a thread may conclude from what it
   read whether its node is in that set (`View`).
4. `OrderInv` is about the order. `Path(h, f, s)` says that the sequence `s` is what one reads when
   one follows the links `f` from `h`; there is at most one such sequence, and the recursive
   function that the model's `Chain` is built from returns it (`NatInSet` again, over the length).
   A CAS of the last link appends a node to the path, a CAS of `m_pHead` drops the first one, and
   nothing else changes it (`QueueMovesChain`, `CollectorKeepsChain`): other links that are
   written are those of nodes outside of it. So `m_pTail` is one of its last two nodes
   (`TailIsClose`). `Accounted` adds that an allocated node is on the path, with the call that made
   it, with the call that unlinked it, or retired; that these places exclude each other
   (`PlacesApart`) is known from `MemInv`, and counting gives `OneHolder`.

For linearizability each step is mapped (`QueueImplements`, `CollectorImplements`): the CAS of the
last link is the abstract `Enqueue`, the CAS of `m_pHead` the abstract `Dequeue`; a load of a null
link is the instant at which the queue was seen empty, which the call may use or discard
later; every other step leaves the abstract state alone. `EmptySeen` is what is needed at the load: a
null link is found only behind the present head, since a head that is out of the queue has a link.
`Clearing` says the same of the destructor's loop, which does not look again.

What stays with TLC is liveness: `EndsUnlessStalled`, `HangsOnlyOnLostWakeUp`,
`HangsOnlyOnMissOrBadAlloc` and `LockFree`. They rest on fairness and `ENABLED`, of which TLAPS
has no rules. The properties of the failing runs are false and are not proved, of course.

## Not modelled

Floating-point rounding (exact arithmetic hides that `V` may alternate between two values);
output and timing; the destruction of a promise while `set_value` is returning; the lock-free
list, bloom filter and `TSafe::queue`, which have no code; the Rosetta version, which no build
file compiles and nothing includes; calls with no points or no clusters.

Of the collector: a change of the scan type on the fly, statistics, and the capacity of the array
of retired nodes. In the model the array may be found full after any push and is scanned then, which
covers a scan that empties part of it, but not one that frees nothing. The code takes the
capacity as the larger of the given value and a default of 1600 and does not compute the product of
threads and guards that its comment asks for. Assertions are not modelled. Memory is sequentially consistent: each store of
a hazard pointer is followed by a full fence, and the other shared accesses are read-modify-writes
or loads that are checked again. A weak CAS never fails spuriously, as on x86. Of the queue: the
item counter, which is off by default, and `empty` and `size`, which only read.

Of the other vendored libraries (the rest of libcds, Catch): nothing; no program calls them. They are
nearly all lines of the repository, which is why the map covers a small share of it: the
program itself has about 2,000 lines, tests included, and most of those that keep state
are mapped.

## Plan

Done: list, pool, k-means in both forms, index locker, hazard pointers and the lock-free queue;
proofs of every invariant and refinement of their passing runs. What could follow:

1. the measures behind the liveness properties, as safety: what each step of a worker or of an
   iteration decreases;
2. the Rosetta version (`kpp`, `lloyd`, `nearest`) with its division by an empty cluster's count,
   once something builds it;
3. a change of the scan type while threads are attached.
