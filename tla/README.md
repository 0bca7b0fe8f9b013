# A TLA+ verification of the RCX hash tables

The repository is a Linux kernel module that measures hash tables whose buckets
are sorted linked lists. Lookups never lock. What differs from table to table is
how updates exclude each other: spin locks (RCU), hardware transactions that
validate what an unprotected traversal found (RCX), transactions with a locking
fallback (RCU-HTM), locks taken by transactions, or RLU. This directory models
the tables, the RLU library and the benchmark driver as TLA+ state machines and checks
them with TLC on small instances. For every table and for the driver, TLAPS proves the safety
properties for every instance; for RLU, if no two threads advance the clock together
(finding 2 shows what happens if they do).

## 1. Inventory

| Component (source) | State | Operations | Talks to |
|---|---|---|---|
| Nodes, lists, buckets (`hash-list.h`) | `node_t`: `val`, `p_next`, `removed`, RCU head, lock bytes and locks; `list_t`: head, bucket lock `rcuspin`; `hash_list_t`: buckets | allocate, link, unlink, free | every table |
| RCX list (`rcx-hash-list.c`: `rcx_list_contains/add/remove`) | the nodes | traverse, validate and write in one transaction, free after a grace period | kernel RCU, RTM |
| RCX with fallback (`rcx_list_lf_*`, `rcx_list_fb1_*`) | and `rcuspin`, local `retries` | transaction, after aborts the bucket lock | RCU, RTM, spin lock |
| RCX with transactional locks (`rcx_list_htmlock_*`, `_hhtmlock_*`, `_numa_*`) | and a lock byte per NUMA node and a global lock per node | lock by transaction (and spin lock), validate, write, unlock | RCU, RTM, spin locks |
| RCU list (`rcu-hash-list.c`: `rcu_list_add/remove`, `_try_*`) | nodes, `rcuspin` | lock or try-lock the bucket, traverse, write | RCU, spin lock |
| RCU list with node locks (`rcu_list_fg_*`, `rcu_list_numa_*`) | locks of every node, one level or two | traverse, lock two or three nodes, validate, write, unlock or start over | RCU, spin locks |
| RLU core (`rlu.c`, `rlu.h`) | two global clocks; per thread a run counter, versions, a ring of write sets, objects to free; per object a header that points to the copy of the thread that locked it | begin and end a section, dereference, lock and copy, commit or abort, synchronize (advance the clock, wait, write back, free) | the other threads' data |
| RLU list (`rlu-hash-list.c`) | nodes as RLU objects | traverse, lock two neighbours, link or unlink, abort and start over or give up | RLU core |
| Driver (`sync_test.c`) | parameters, threads, counters, completion | check, bind, half fill, start the threads, issue calls, wait, report, tear down | every table, RLU core |
| Start barrier (`barrier.c`) | `count`, `crossing` | init, cross | driver |
| RTM (`rtm.h`) | - | `_xbegin`, `_xend`, `_xabort` | RCX |
| Abort statistics (`rtm_debug.c`) | counters per processor | `record_abort`, `pr_abort_stat` | RCX, driver |

**What is hard.** A traversal holds pointers to nodes that others unlink, mark,
free and allocate again. An update acts on what it read earlier, and must notice
every relevant change in between. Locks live inside the nodes that are being
freed. Transactions may abort at any time, for no reason the program controls.
RCU sections are paired by hand across `goto`s, and mean different things in
different kernels. Two synchronisation mechanisms (transaction and fallback lock)
must exclude each other. RLU threads read each other's clocks, counters and logs
without a lock. `PROJECT.json` lists each hazard at its line.

**What makes each part correct.**

- Every table: it is a set, and its calls are linearizable (`ImplementsSet`,
  `Linearizable`); the lists stay sorted and complete (`SortedLists`,
  `NoLostUpdate`); no freed memory is used (`NoUseAfterFree`), no node is freed
  twice (`FreedOnce`), readers on an unlinked node find their way back
  (`StaleNodesFrozen`), removed nodes are freed in the end (`RemovedIsFreed`),
  calls return (`CallsReturn`).
- RCU list: the bucket lock keeps what an updater read current (`ViewIsCurrent`).
- Node locks: no deadlock on stale views (`NoLockCycle`), no lock in freed memory
  (`LocksInMemory`), disjoint critical sections (`DisjointSections`).
- Fallback: lock and transactions exclude each other (`LockExcludesHtm`), a
  transaction on a stale view fails (`StaleViewRejected`), RCU sections are paired
  on both paths (`SectionsPaired`), the fallback ends a call (`FallbackEndsCall`).
- RLU: a section sees one snapshot while others publish, write back and free
  (`SnapshotIsolation`); it never holds a freed object or a slot of a log that is used
  again (`NoStalePointer`); deferred updates appear at once and conflict with each
  other (`ImplementsSnapshotSet`); the assertions in the code hold (`AssertionsHold`);
  nobody waits for ever and nothing stays locked or unfreed (`AllEnd`).
- Driver: the report is exact (`ReportExact`), the threads start together
  (`StartTogether`) on processors of their own (`BoundApart`), nothing is taken down
  under a call (`TeardownAfterCalls`), the initialization ends (`DriverEnds`).

## 2. Modules

```
ConcurrentSet            abstract: a set with calls of several threads in progress
SortedList               nodes, traversal, RCU, half fill,     SortedListProofs
  |                      common properties
  |-- RcxList            forgive, retry                          RcxListProofs
  |-- RcuList            rcu, rcu-forgive                        RcuListProofs
  |-- RcuFgList          rcu-fglock, rcu-numa                    RcuFgListProofs
  |-- RcxLfList          rcuhtm, hwa                             RcxLfListProofs
  `-- RcxHtmLockList     rcx-htmlock, rcx-hhtmlock, rcx          RcxHtmLockListProofs
SnapshotSet              abstract: a set whose sections see snapshots
Rlu                      the RLU library: state and steps
  `-- RluList            rlu, rlu-forgive
        `-- RluInvariants  its inductive invariants              RluListProofs
Driver                   the benchmark driver, barrier,          DriverProofs
                         abort statistics
MC<module>               constants and symmetry for TLC
```

`SortedList` is extended by every variant, and a proof module (right column) extends the
module it is about. The variable `bench` is the module
parameter `benchmark`: chosen once from the constant `Benchmarks`, it selects
among the functions a module models, as the table `benchmarks[]` does.

**State.** `val`, `link` (the field `p_next`) and `removed` are fields of nodes;
`bkt` is the list a node belongs to and `mem` the life cycle of its memory:
free, private (allocated), live (linked), unlinked, deferred (given to
`kfree_rcu`), free. `p_prev`, `p_next`, `n`, `p_new_node` and `result` are the
local variables of a thread, `pc` the step it takes next. `seen` and `obs` are
history variables which no guard reads.

**Atomicity.** One step is one access to shared memory: reading a `p_next`
pointer is a step, comparing the (immutable) value another, a lock or unlock of
one lock is a step. A transaction is one step; it commits, or aborts without
effect. Where transactions only set lock bytes, the accesses inside the critical
section are one step, which `DisjointSections` justifies. Memory is sequentially
consistent; the repository assumes total store order, and `RCU_ASSIGN_PTR`,
transactions and locks order the stores that matter.

**The kernel** (external) is modelled from its use. `kfree_rcu(x)` waits for every
thread that is a reader at that moment. With `PREEMPT_RCU` a reader is a thread
with a positive count of `rcu_read_lock()`. Without it the calls are no-ops, as
`src/README.md` assumes, and a thread is a reader from one `cond_resched()` of the
driver to the next, unless `kmalloc(GFP_KERNEL)` sleeps (`KMALLOC_SLEEPS`). The
counts are kept in both builds but matter in the first only.

**Code and actions.** A call is the action `Begin...`, then traversal
(`Deref`, `Advance`), the decision (`ContainsDone`, `AddPresent`, `RemoveFound`,
...), `AddNewNode`, the lock steps, the commit (`AddCommit`, `RemoveCommit`) or
the abort, the unlock steps, `Free` and `Finish`. `PROJECT.json` maps each
definition to its lines. Peculiarities of the code are kept: the missing unlock
of `rcx_list_remove()`, the successor that lf/fb1 marks in place of the removed
node, the different retry limits of `lf_add` and `lf_remove`, the surplus unlocks
of `unlock_retry`, the results of the fine-grained updates.

**RLU.** A pointer is an object or a triple <thread, slot, position> that names a copy
in a log, so that "is this a copy" and "whose is it" are what the headers tell the
code. `Rlu` has one action per access to what threads share: `SyncVersion` and
`SyncAdvance` are lines 563 and 564, `SyncReadCounter` reads one run counter,
`SyncQuiesced` ends the wait, `WriteBack` copies one object back and unlocks it,
`Register`, `ReadVersion` and `ReadCommitVersion` are the three steps of beginning a
section, `Deref` reads a header and `Steal` the owner's version, `TryLock` reads a
header and `CompareAndSwap` locks it. `ret` is the return address of
`rlu_sync_and_writeback()`, which five places call. The copying and the unlocking of
`WriteBack` are one step because every section that could read the object between
them takes the copy. `is_sync` is kept as "not zero", the only thing the code asks.
`set`, `delta` and `view` are history: the published values, what a thread has deferred,
and the snapshot a section is to see. `SnapshotSet` is the promise in those terms: a
section takes a view, an answer is true of the view, an update is possible only if no
other thread has an unpublished update of the same value, and a thread publishes all it
has deferred in one step. The answers are therefore not linearizable, and that is what
RLU promises: a thread may look up a value in vain that another thread has "added".

**Driver.** `mpc` is the position of `sync_test_init()`, `pc` that of each
`sync_test_thread()`; the main thread is thread 0. A table operation is one step with an
arbitrary result. `table` and `rlu` are the life cycles of the memory that the teardown
frees, `deferred` the threads whose RLU log holds updates, `made` the history that
the report is compared with. `cpubind_numa_arr` is the function of the same name over
the sets of processors of the NUMA nodes, in order.

A definition named `Faulty...` is a plausible mistake in the definition that
follows it and is used by no action. Put in its place, it must make TLC report
the property that `PROJECT.json` ("mutants") names: the evidence that the
property is able to fail.

## 3. Runs

| Run | Instance | Shows |
|---|---|---|
| `rcx_forgive` | RcxList, counted RCU sections; 2 threads x 2 calls, 2 values, 4 addresses, 2 insertions before | the inductive invariant of the proofs; set, order, memory safety, freed once, linearizable answers, frozen stale nodes |
| `rcx_retry` | RcxList, sections no-ops; 2 threads x 1 call, retried | calls return because the time ends; removed nodes are freed |
| `rcu` | RcuList, both benchmarks, counted sections; 2 threads, 2 values, 3 addresses | bucket lock keeps views current; set; memory safety; liveness |
| `rcu_fg` | RcuFgList, both benchmarks, sections no-ops; threads on two NUMA nodes | locks never freed under a waiter, no deadlock, no lost update, set, liveness |
| `rcx_lf` | RcxLfList, both benchmarks, sections no-ops; `LF_RETRY_LIMIT` = 1 | set; memory safety; lock and transactions exclude each other; stale views rejected; sections paired; fallback ends a call |
| `rcx_htmlock` | RcxHtmLockList, three benchmarks, sections no-ops; threads on two NUMA nodes | disjoint critical sections, no deadlock, locks in memory, set |
| `rlu` | RluList, both benchmarks; 2 threads x 1 call of any kind, 2 values, one bucket, 1 insertion before, two write sets deferred | snapshots, pointers, assertions, `SnapshotSet`, everybody ends |
| `rlu_steal` | RluList, `rlu`; 3 threads: a remover and an adder in different buckets, a reader; nothing deferred | snapshots and pointers while logs and addresses are used again under a reader that steals |
| `driver` | Driver; forgive, rlu, rlu-forgive, rcu with 1 to 3 threads, and each refusal; 3 processors on two NUMA nodes, two layouts | report, start, binding, teardown, end |
| `rcx_sleep` | RcxList, sections no-ops, allocation sleeps | **violated** `NoUseAfterFree` |
| `rlu_clock` | as `rlu_steal`, `ClockRace` | **violated** `StealsAfterUpdate` |
| `driver_finish` | as `driver` | **violated** `FinishBeforeTeardown` |

The properties every table shares are stated once, in `SortedList`, and each is
checked where it is the sharpest one: sortedness, linearizability, single freeing and
frozen stale nodes for the RCX list, `NoLostUpdate` for the fine-grained locks. The
other runs rely on `ImplementsSet`, in which a lost update shows as a wrong answer; the
proofs (section 5) establish sortedness, `NoLostUpdate` and linearizability for all of
them.

**Bounds.** `Threads`, `Keys`, `DataNodes`, `FillOps` (insertions before the
start), `MaxOps` (calls per thread), `MaxUnlocks` (aborts of the second
transaction of hhtmlock, each of which decrements a counter). Two threads on one
bucket with two adjacent values meet the cases the algorithms are about: two
updates of one node, updates of neighbours, an insertion behind a node being
removed, a lookup standing on an unlinked node. A table filled with two values lets
adjacent nodes be removed at once. Three addresses never run out with one call per
thread; `rcx_forgive` has two calls per thread and four addresses, so that an address
is freed and allocated again while another thread still compares pointers. One
bucket is enough because buckets share nothing; the proofs cover any number.
Symmetry is used only in runs without liveness properties. Deadlock checking is off,
because threads stop for good after `MaxOps` calls; `NoLockCycle`,
`CallsReturn`, `AllEnd` and `DriverEnds` look for the deadlocks that matter.

RLU: `ClockRace` = FALSE lets only one thread at a time be between lines 563 and 564;
finding 2 shows why the properties need it. `Calls` gives threads roles where any call
of three threads is too much. `MaxRestarts` bounds how often a call starts again on a
foreign lock; after that it starts only when no other thread holds a lock
(`MayStart`). `max_write_sets` is 2 of 4 slots in `rlu`, so that a second section of the
main thread meets what its first deferred, and 1 of 2 in the runs with three threads,
where every update synchronizes and slots are used again at once. `MAX_VERSION` is
beyond every clock value reached. Driver: `FillOps`, `KeyRange`, `MaxOps` and `MaxAborts`
bound loops whose iterations are alike; `RLU_STALLS` stands for 144 and
`RLU_MAX_THREADS` for 200, scaled so that the refusals and the skipped benchmark happen
with three processors.

**Fairness.** A thread inside a call is scheduled (weak fairness of its steps): the
threads are bound to processors and do not block. The kernel's spin locks queue
their waiters (strong fairness of taking one). Grace periods end and the benchmark's
time passes (weak fairness). Nothing is assumed of transactions: they may abort for
ever. So `CallsReturn` is claimed for `retry` only through the end of time, for
`rcuhtm` through the fallback (`FallbackEndsCall`), and not at all for `hwa` (an
abort with `_XABORT_RETRY` is repeated without limit) or the `htmlock` family (no
fallback). As `MaxOps` bounds the calls, these properties say that a call ends once
the other threads stop interfering, not that it is free from starvation. RLU
threads never block on a lock but spin on each other's counters, so weak fairness of
each thread is enough for `AllEnd`, given the bound on restarts. The driver's threads
are scheduled (the barrier calls `schedule()`), and its calls return, which is what the
list modules show.

## 4. Findings

1. `rcx_sleep`: `rcx_list_add()` allocates with `GFP_KERNEL` inside its RCU section
   (line 192). In the kernel the repository assumes, a sleep is a quiescent state:
   nodes the transaction validates may be freed meanwhile.
2. `rlu_clock`: `rlu_sync_and_writeback()` reads the clock (563) and advances it (564)
   in two accesses. Two writers may get the same version; a section that begins when
   only one has advanced the clock steals the copies of both, which the comment at 837
   excludes. With the constants of this run TLC also finds a section whose snapshot
   changes while it runs (`SnapshotIsolation`, 57 steps) and one that holds a freed
   object (`NoStalePointer`, 76 steps): the second writer does not wait for it,
   because its version looks new enough.
3. `driver_finish`: a thread announces its completion (271) before it calls
   `rlu_thread_finish()` (272). The main thread, which waits "for the threads to finish"
   (448), may free the thread's RLU data, and before that the table, while the thread
   still synchronizes.

Noticed while modelling, without a run of their own:

- `rcx_list_remove()` of an absent value returns (line 768) without the unlock that
  matches line 728. Harmless where sections are no-ops; with `PREEMPT_RCU` no later
  grace period ends (`RemovedIsFreed` fails with `PREEMPT_RCU = TRUE`).
- The fallback of `rcx_list_fb1_remove()` (line 932) leaves an RCU section it did not
  enter (953, 960); with `PREEMPT_RCU` the next lookup is unprotected
  (`NoUseAfterFree` of RcxLfList fails).
- The fine-grained RCU updates return one for success (rcu 315, 586); their comments
  (269, 540) promise zero, and the driver counts non-zero results as aborts.
- `rcx_list_add()` returns one for an insertion that was done and zero for a value
  that was there (lines 189, 215); its comment (162-163) says the opposite. Its
  callers only compare with two.
- `rcx_list_numa_add()` of a present value returns inside its section (line 712), and
  `unlock_retry` of the htmlock family leaves a section twice (for instance 480 and
  later 499), as does every abort of the second transaction of hhtmlock (578, 1122).
- `lf_remove` and `fb1_remove` mark the successor `n` under the lock (808, 951).
  `StaleViewRejected` shows why the transactions still notice: a transaction on the
  unlinked node validates that very successor. The price is that the marked node, which
  stays in the list, makes all later transactions next to it abort.
- The destroy loops read `iter->p_next` after `kfree(iter)` (rcx 99-104, rcu 723-728,
  rlu-hash-list 429-430).
- "Initial set size is half the key range" (sync_test.c 44): the half fill draws random
  values and counts an insertion of a present value too, so the set is smaller.
- Condition (1) of `rlu_commit_write_set()` (603) never decides: at most
  `2 * max_write_sets` slots are in use and `rlu_init()` asserts that this is not more
  than there are.
- `rlu-forgive` ignores the results of its deletions at the end (sync_test.c 524); a
  value whose lock is still deferred by a finishing thread stays in the table, and its
  node is leaked or freed by the destroy loop.
- `record_abort(ABORT_CONFLICT)` and `record_abort(ABORT_DOUBLE_FREE)` (rcx 481, 486 and
  others) pass a code where a status word is expected: 7 and 6 count as explicit, retry
  and conflict.
- Thread 0's data is registered twice (sync_test.c 460): with 200 threads the second
  identifier is past `g_rlu_threads`. The report divides by `duration` (473), which may
  be 0. `kthread_create()` fails with an error pointer, not NULL (435).

## 5. Proofs

The theorems hold for any set of threads and values and any number of buckets, addresses,
calls, NUMA nodes and retries. Rows are properties, columns the modules; the entry is the
name of the theorem in the proof module of that list.

| Property | RcxList | RcuList | RcuFgList | RcxLfList | RcxHtmLockList |
|---|---|---|---|---|---|
| `Inv` (inductive) | `Invariance` | `Invariance` | `Invariance` | `Invariance` | `Invariance` |
| `TypeOK` | `TypeCorrect` | `TypeCorrect` | `TypeCorrect` | `TypeCorrect` | `TypeCorrect` |
| `SortedLists` | `ListsSorted` | `ListsSorted` | `ListsSorted` | `ListsSorted` | `ListsSorted` |
| `NoLostUpdate` | `UpdatesNotLost` | `UpdatesNotLost` | `UpdatesNotLost` | `UpdatesNotLost` | `UpdatesNotLost` |
| `Linearizable` | `AnswersLinearizable` | `AnswersLinearizable` | `AnswersLinearizable` | `AnswersLinearizable` | `AnswersLinearizable` |
| `ImplementsSet` | `Refinement` | `Refinement` | `Refinement` | `Refinement` | `Refinement` |
| `NoUseAfterFree` | `MemorySafe` | `MemorySafe` | | `MemorySafe` | |
| `LocksInMemory` | | | `LocksStayAllocated` | | `LocksStayAllocated` |
| `FreedOnce` | `NodesFreedOnce` | `NodesFreedOnce` | | `NodesFreedOnce` | |
| `StaleNodesFrozen` | `StaleFrozen` | `StaleFrozen` | | | |
| its own | | `ViewStaysCurrent`: `ViewIsCurrent` | `DeadlockFree`: `NoLockCycle` | `SectionsBalanced`: `SectionsPaired`; `LockExcludes`: `LockExcludesHtm`; `StaleRejected`: `StaleViewRejected` | `DeadlockFree`: `NoLockCycle`; `SectionsDisjoint`: `DisjointSections` |

| Driver | States |
|---|---|
| `Invariance`, `TypeCorrect` | the inductive invariant, the types |
| `StartsTogether`, `TeardownSafe` | `StartTogether`, `TeardownAfterCalls` |
| `CountersFinal` | once the main thread has all completions, no counter of a thread changes |
| `ReportIsExact` | `ReportExact`: the report sums the operations of all threads, and the aborts of every online processor under the reason their status names |
| `ThreadsBoundApart` | `BoundApart` |

| RluList | States |
|---|---|
| `LogInvariant`, `RluTypeCorrect` | the inductive invariant of the logs, `LogInv`; the types |
| `LocksPointHome` | `LocksAtHome`: a header points to a copy of its object that is not written back |
| `CopiesStayInLog` | `CopiesInLog`: `NoStalePointer` for the copies that sections hold |
| `RingNeverOverflows` | `RingHasRoom`: the clause of `AssertionsHold` about the ring |
| if `ClockRace` is FALSE: | |
| `StealsWithoutRace` | `StealsAfterUpdate`, which `rlu_clock` refutes |
| `RluInvariant` | the inductive invariant of the objects, `RluInv` |
| `RluAssertions` | `AssertionsHold` |
| `NoPointerIsStale` | `NoStalePointer` |
| `SectionsAreIsolated` | `SnapshotIsolation` |
| `RluSnapshotSet` | `ImplementsSnapshotSet` |

**Assumptions.** The named `ASSUME`s of the modules, which TLC evaluates in every run:
sentinels differ from each other and from data nodes, values lie between `LIST_VAL_MIN`
and `LIST_VAL_MAX`, `NULL` is no thread, there are finitely many addresses, bounds are
natural numbers, the benchmark is one the module models. In addition, as a hypothesis of
the theorems, the kernel build:

- `RcxList`: `SafeBuild`, the kernel counts sections or allocations do not sleep.
  `rcx_sleep` shows that it is needed.
- `RcuList`: nothing. Lookups pair their sections and updaters hold the lock.
- `RcuFgList`, `RcxHtmLockList`: `CallIsReader`, sections are no-ops and allocations do
  not sleep, the kernel of `src/README.md`. With counted sections these updates return
  inside their section or leave it twice (section 4).
- `RcxLfList`: `Protecting`, the same or, for `rcuhtm` only, counted sections. `hwa` leaves
  a section that its fallback did not enter (section 4). `SectionsBalanced` needs no
  hypothesis.
- `RluList`: `ClockInRange`, the clock has not reached `MAX_VERSION`, which in the code is
  the largest `long` but one. The theorems about logs hold with and without the race of
  the clock. Those about objects take `ClockRace` to be FALSE, because with it they are
  false: `rlu_clock` and finding 2. `PointerAssumption` says that headers tell objects from
  copies, `FreedAssumption` that freed memory, if it is read at all, looks like a node:
  without it a section that reads a freed object could do anything. (`NoPointerIsStale` says
  that none does, but its proof rests on `LogInv`, which covers the race as well.)
  `SentinelAssumption`: every list has its own sentinels; `FiniteAssumption`: threads and
  objects are finitely many; `ViewAssumption`: `NULL` is no thread and no set of values.

**What they share (`SortedListProofs`).** "The list is sorted" is not inductive: whether a
commit keeps it sorted depends on what a traversal saw long before. The history variable
`seen[t]` is the set of nodes that were in a list at some moment since `t`'s traversal
began. `View(t)` says: none of them is freed before `t` stops being a reader
(`ViewProtected`); following `p_next` leads upwards and never out of the set
(`ViewClosed`); each value and each gap that can be met in it was real at some moment of the
call (`ViewWitnessed`). `ViewPublish` and `ViewUnlink` show that a step of another thread
preserves it, `InsertSorted` and `DeleteSorted` that linking and unlinking on a current view
preserve sortedness, and the lemmas ending in `Step` which step of `ConcurrentSet` each kind
of step is: commits are `Insert` and `Delete`, decisions `Report` or `GiveUp`, all
others stutter. `NothingLost` derives `NoLostUpdate` from sortedness. It is about a
recursive function, the walk along `p_next`; the induction is replaced by the least
index at which the claim would fail (`LeastNatural`).

**What each list adds.** How an update knows that its view is current when it writes:

- `RcxList`: `removed` is set exactly on the nodes that were unlinked (`RemovedFlag`), so a
  validation that finds 0 on a node of `seen[t]` knows the node is live, and with the
  comparison of pointers that the view is current. Private and unlinked nodes have one
  owner (`Owned`).
- `RcuList`: the lock of a bucket has one holder (`Locked`), and what the holder has
  read stays true because every other writer needs the lock.
- `RcuFgList`, `RcxHtmLockList`: which locks a thread holds at which step, that one thread
  holds a lock, and that a validated critical section stays valid because whoever would
  invalidate it needs one of its locks. Deadlock freedom is the order of the locks: the
  values of the nodes a thread locks ascend even on a stale view, because every link
  ever followed led upwards; in a circle of waiting threads the largest lock held
  would have a larger successor.
- `RcxLfList`: the flag `removed` does not mean "unlinked" here, because a removal
  under the lock marks the successor. The invariant that replaces it (`ViewMarked`) is that
  a node of a view that is no longer live is itself marked or is followed by a marked
  node, and a transaction validates both. The holder of the lock keeps its view current
  (`LockCursor`) because transactions read the lock.
- `Driver`: the barrier's counter `crossing` is the number of threads that have crossed, the
  completions consumed and pending are the threads that have announced their end
  (cardinalities of sets of threads). The sum in the report is a partial sum over
  the threads added so far, and the counters no longer move. The sum over the
  processors is a recursive function as well; that an abort adds one to one
  term of it is shown with the least processor at which the partial sums would
  differ otherwise (`AbortsByNumberFacts`, `NextAborts`). `cpubind_numa_arr` is a recursive
  function over the threads: by the least thread at which it would fail, the
  processors bound so far are the first ones of the nodes (`BindFirst`, `BindNext`,
  `BindAll`), hence no two threads share one unless there are more threads than
  processors.
- `RluList`: a copy is protected by two waits. The counters `ws_head_counter`,
  `ws_wb_counter` and `ws_tail_counter` divide the ring (`Ring`): what is between the
  first two is written back and must outlive the sections that stole it, what is between
  the last two is deferred. A section may hold a copy of another thread in either
  part (`Safe`); if it is written back, the owner's next synchronization must still wait
  for the section (`WaitsFor`): the owner's version is above the section's, and the run
  counter it remembers is the section's. A copy that a section has seen in a header but not
  taken yet (`Candidate`) is safe only if the owner's version admits it, because the owner may
  reset its log in between; the code reads the header and the version in two
  accesses. Which pointers a thread has at which step is `Standing`, and `Made` carries
  from an update to the check of the ring that it deferred something. That the slots in
  use are different is arithmetic on remainders (`IndexFacts`, `RingFacts`), from
  `2 * max_write_sets <= RLU_MAX_WRITE_SETS`. What a write-back goes through is a
  recursive function, whose members are found with the least counter at which the claim
  would fail (`CopiesFromFacts`). TLC finds `LogInv` true on the instances of `rlu`
  and `rlu_steal`. The candidate shows there: a log may be reset under it, but then
  it is not taken, which is why `Held` counts it only while `Stealing(t)`.

**The objects of RLU.** The module `RluInvariants` defines the invariants of RLU and
`RluListProofs` proves them. `SnapshotIsolation` says what walks over the lists find, and
is far from inductive. `RluInv` replaces the walks by a set: there is a set `B` of
nodes, those in the lists as they are in memory (`Linked`: sorted, one successor and one
predecessor each, from a head to an end). It has these parts:

- `Heap(B)`. `Pend[x]` is what `x` will contain when its lock is written back. Where
  `Pend` differs from `data` an update is deferred, and it is an insertion behind `x` or the
  removal of its successor; its thread has locked `x` first and the successor second
  (`Changes`). So deferred updates, even of several threads, never touch the same pair of
  neighbours, and the list a section sees is `B` without the removals and with
  the insertions of the threads it sees (`View`, `Vis`); it is sorted and closed whatever the set of
  these threads is (`ViewFacts`, `ViewNext`). Who will free a node has unlinked it,
  in memory or by a deferred change, and in the first case nobody else leads to it
  (`Frees`).
- `SlotInv`: every copy not written back is the one its lock points to, and a slot that is
  not in use is empty. This is what makes a write-back and an abort find their own locks.
- `SetInv(B)`: the history variables are what the heap says. `set` are the values seen by
  who sees the published changes; the values seen with the changes of `t` differ from those
  without by `delta[t]` (`Differs`), whoever else is seen; `view[t]` is what the
  section of `t` sees.
- `PtrInv(B, t)`: every pointer of a section leads to a node of its own view, with the
  contents it is to see (`Good`); `p_prev` is before the value looked for, and `n` and
  `p_next` follow it once locked or compared.
- `Waits`: a thread that writes back has a version that every open section has seen
  (`WaitInv`, the meaning of the quiescence loop), and the two clocks differ by the number
  of synchronizations in progress (`CommitInv`, a cardinality), so that a section that skips
  the locks or the steals because both clocks agree misses nothing.

Every step of `Rlu` is one of few operations on a heap, and for each one a lemma says what it
does to `Heap` and to the views (`HeapLock`, `HeapAdd`, `HeapRemove`, `HeapWriteBack`,
`HeapUnlock`, `HeapFree`; `Kept` is the relation between the view before and after). They are
stated about a heap as such, not about the variables, so that they serve a
step of any thread and the view of any set of threads.

`RluAssertions` and `NoPointerIsStale` follow state by state. For `RluSnapshotSet` each step
is a step of `SnapshotSet` or a stutter; `CallInv` says when a call has its answer. For
`SectionsAreIsolated` the walk of `Seen` is related to the set `View`: the
walk does not leave the set (`ViewNext`), and it has met a node after at most as many steps
as there are nodes below it in its list (`LowerNext`: it is behind one of them;
`LowerHead`: only the head has none), so that after as many steps as there are nodes it has met all
(`SeenIs`). The induction is again replaced by a least counterexample. `FlagsInv` says that a
section which has not read the second clock yet looks at locks and steals. TLC finds
`RluInv`, `CallInv` and `FlagsInv` true on the instances of `rlu` and `rlu_steal`.

**Model-checked only.** Liveness (`CallsReturn`, `FallbackEndsCall`, `RemovedIsFreed`,
`AllEnd`, `DriverEnds`): outside the prover's reach. Every invariant and every action property that
a passing run checks, and both abstract specifications, have a theorem.

## 6. Not modelled

- The coarse-grained half of `rlu.c` (writer locks, `rlu_lock`), `rlu_cmp_ptrs`,
  `rlu_print_stats` and the size functions of the tables: nothing calls them.
- The loops of the destroy functions: sequential, one step of `Driver`.
- `BIND_CPU_SEQ`: not compiled.
- Failing allocation of a node: the code dereferences NULL, there is no path to model.
  (The driver's own allocations may fail in `Driver`.) Failing thread creation.
- Memory layout (alignment, `NR_NUMA_NODES`, sizes of the RLU buffers), instruction
  encodings, wording of the output, wrap-around of the 64-bit clocks and counters.
- Migration between processors inside an update (only the main thread is not bound).

## 7. Plan

Done: every module of section 2 with its runs, and the proofs of the safety properties of
every run that passes.

Left:

1. The race of the clock. `rlu_clock` shows what goes wrong with `ClockRace`. The theorems about
   objects are about the code with lines 563 and 564 under a lock; those about the logs
   cover it as it is.
2. The rounds of `htmlock`, `hhtmlock` and `numa`, which repeat an aborted transaction
   for ever: under an assumption that transactions sometimes commit, `CallsReturn` could be
   checked for them as it is for `retry`.
3. The coarse-grained half of `rlu.c`, if something comes to call it.
