# VectorSimilarity: a TLA+ development

VectorSimilarity (VecSim) is a library of vector indexes: a brute-force ("flat")
index, an HNSW graph index, and a wrapper around the external SVS library, each
storing vectors under labels and answering nearest-neighbour queries. On top of
HNSW and SVS it builds *tiered* indexes: a flat write buffer in front of a main
index, with background jobs that move vectors from one to the other while the
host adds, deletes and queries. The tiered indexes are where the library is
hard to get right, because a logical operation of the user is spread over two
indexes, two reader-writer locks, per-label job lists and worker threads.

This directory holds TLA+ modules that model the flat index, the tiered HNSW index, the
repair of the HNSW graph around deleted elements, the tiered SVS index, the thread pool of
SVS jobs, and the choice and the shape of the distance kernels; TLC configurations that
check them on small instances; and TLAPS proofs, for instances of every size, of the
invariants of the flat index, of the tiered HNSW index with its callers and queries, and of
the tiered SVS index (each single- or multi-value), of deletion from a single-value HNSW graph, of
the thread pool, and of the kernels and their choice, and of two refinements of a store of vectors.

Paths below are relative to the repository's `src/VecSim/`.

## 1. Inventory of the system

| Component | State | Operations | Interacts with | Hard part | What makes it correct |
|---|---|---|---|---|---|
| **Brute-force index** (`algorithms/brute_force/brute_force{,_single,_multi}.h`, `containers/data_blocks_container.cpp`) | dense internal ids, `idToLabelMapping`, `labelToId(s)Lookup`, raw data blocks, metadata capacity | add, overwrite, delete a label, delete one id, delete and report renamed ids | write buffer of the tiered indexes | swap-with-last removal while a label's own id list is being walked; block-wise grow and shrink | lookup is the inverse of the mapping; the reported renames are exact; its asserts hold; calls do what a store of vectors does |
| **Tiered HNSW index** (`algorithms/hnsw/hnsw_tiered.h`) | insert jobs by label, invalid jobs, repair jobs by id, swap jobs by id, count of ready swap jobs | `addVector`, `deleteVector`, `executeInsertJob`, `executeRepairJob`, `executeReadySwapJobs`, batch iterator | flat index, HNSW, the host's job queue | one operation spans several critical sections; a job names its vector by an id that removals change | jobs follow their vectors; no old value wins over a new one; callers see a store; everything submitted ends |
| **Tiered index base** (`vec_sim_tiered_index.h`) | `frontendIndex`, `backendIndex`, `flatIndexGuard`, `mainIndexGuard`, write mode | `topKQuery`, `rangeQuery`, job submission, statistics | both tiers | the tiers are read one after the other | a query misses nothing and resurrects nothing |
| **HNSW index** (`algorithms/hnsw/hnsw{,_single,_multi}.h`, `graph_data.h`) | elements with flags and levels, per-level links, incoming edges, label lookup, entry point | `storeNewElement`, `indexVector`, `markDelete`, `repairNodeConnections`, `removeVectorInPlace`, `removeAndSwap` | tiered HNSW | inserts and repairs in parallel under per-node locks; collecting incoming edges one lock at a time | edges lead to existing elements; incoming sets match; no lock cycle; the entry point is found |
| **HNSW repair and swap jobs** (`hnsw_tiered.h:284-440, 523-544, 610-655`) | `idToRepairJobs`, `idToSwapJob`, pending counters, `readySwapJobs` | mark and schedule, repair, swap, dispose, in-place removal | HNSW graph, host's job queue | ids are renamed under jobs that other threads hold | a swap happens only when nothing refers to the element; no swap job is lost |
| **Tiered SVS index** (`algorithms/svs/svs_tiered.h`) | journal of labels removed during an update, scheduled flag | `addVector`, `deleteVector`, update job, queries | flat index, SVS, thread pool | the update works on a copy without locks and replays a journal afterwards | no update lost, no deleted label back |
| **SVS jobs and thread pool** (`svs_tiered.h:20-330`, `svs_utils.h`) | reservation control block, job registry, pool size, deferred resize | reserve, wait with timeout, release, rent, resize | host's job queue | a late reservation against a timeout; a resize while jobs run | threads are never lost or used twice; waits end |
| **SVS index** (`algorithms/svs/svs.h`) | the external index | add, delete, search, compact | external library | none of its own | |
| **Result merging** (`utils/query_result_utils.h`) | none | merge two sorted lists, with or without a set of seen labels | tiered queries | order by score and label; truncated comparison | sorted, without duplicates, complete |
| **Batch iterators** | heaps, visited tags, the tiers' locks | next batch, reset | tiered queries | the tiered iterator keeps the main lock between calls | no result twice, none lost |
| **Distance spaces** (`spaces/`, `types/sq8.h`) | none; one kernel per data type, metric and instruction set | `*_GetDistFunc`, `Choose_*_implementation_*`, the kernels | every index, preprocessors | a residual, a loop and a tail that have to cover the dimension exactly; loads wider than what is used; features asked for in one place and used in another | each coordinate counts once; no read behind the blobs; no kernel compiled for an instruction set the CPU lacks |
| Containers, heaps, visited-nodes pool, allocator, factories, serializers, C API and bindings | local | - | all | a tag that wraps; otherwise sequential | unit-testable |

How the parts meet in the tiered HNSW index:

- The **main thread** (the host's, one at a time) calls `addVector` and
  `deleteVector`. In async mode a vector goes to the flat buffer under the exclusive
  flat lock and an **insert job** is handed to the host's queue. When the buffer is full
  the main thread inserts into HNSW itself; in in-place mode it always does.
- **Workers** execute jobs. An insert job shares the flat lock while it copies the blob
  and until the element is *stored* in HNSW, shares (or, if HNSW must grow, owns) the main
  lock until the element is *indexed*, then takes the flat lock exclusively to remove the
  vector from the buffer.
- **Queries** read the flat buffer under its shared lock, release it, read HNSW under the
  shared main lock, and merge.
- A **removal from the buffer** moves the last vector into the gap, so it must also rename the
  id in that vector's pending job. An overwritten or deleted vector's job is *invalidated*,
  not removed from the queue: the worker that gets it drops it.

All hazards found in the code, each at its line, with the properties that cover it or the
reason why none does yet, are in `PROJECT.json` under `hazards`.

## 2. The modules

| Module | Models | Lines of code it stands for |
|---|---|---|
| `VectorStore` | nothing: the abstract specification, a map from labels to sets of vectors | the contract of `VecSimIndex` |
| `FlatIndex` | the flat index's bookkeeping, as operators on a record | `brute_force.h`, `brute_force_single.h`, `brute_force_multi.h` |
| `FlatKinds` | `FlatIndex` with the kind of the index, single- or multi-value, as a variable | |
| `BruteForce` | the stand-alone flat index as a state machine: `FlatIndex` with capacity, asserts and blob processing | the same, with growing and shrinking |
| `TieredHNSW` | the tiered HNSW index: main thread, workers, queries, locks; its write buffer is a `FlatIndex` value | `hnsw_tiered.h`, `vec_sim_tiered_index.h`, label level of `hnsw*.h` |
| `TieredHNSWInv` | nothing: the inductive invariants `TieredInv` and `CallerInv` | |
| `HNSWGraph` | links and incoming edges of one level, as operators on a record | `hnsw.h`: connecting, repairing, removing, swapping ids |
| `HNSWDeletion` | deletion from the graph as a state machine: inserts, repair jobs, swap jobs, garbage collection, deletion in place | `hnsw_tiered.h:284-440, 523-544, 610-655`, `hnsw.h` |
| `HNSWDeletionInv` | nothing: the inductive invariant `DeletionInv` | |
| `TieredSVS` | the tiered SVS index: buffer, SVS as a map, update job with its journals; its buffer is a `FlatIndex` value | `svs_tiered.h`, the wrapper `svs.h` |
| `TieredSVSInv` | nothing: the inductive invariant `SVSInv` | |
| `SVSThreads` | jobs that reserve host workers and rent threads of the shared pool while it is resized | `svs_tiered.h:60-330`, `svs_utils.h` |
| `Kernels`, `KernelsNaive`, `KernelsX86`, `KernelsARM` | the kernels, each by the loads it makes | `spaces/IP`, `spaces/L2` |
| `Implementations` | which kernel each file compiled for an instruction set offers | `spaces/functions` |
| `Distance` | choosers, sizes of blobs, and the run of a kernel | `IP_space.cpp`, `L2_space.cpp`, preprocessors |
| `MCBruteForce`, `MCTieredHNSW`, `MCHNSWDeletion`, `MCTieredSVS`, `MCDistance` | model values, symmetry, CPUs | |
| `FlatKinds_proofs`, `BruteForce_proofs`, `TieredHNSW_proofs`, `TieredHNSWCallers_proofs`, `HNSWDeletion_proofs`, `TieredSVS_proofs`, `SVSThreads_proofs`, `Distance_proofs` | nothing: theorems and proofs | |

`BruteForce`, `TieredHNSW` and `TieredSVS` use the same `FlatIndex` operators (the first and the last
through `FlatKinds`), so what one checks about swap-with-last removal is what the others rely on. Operators whose comment begins
with "Mutant" are not used by any specification; each is a plausible bug in a mapped
definition, and shows that the property that guards it can be violated.

### FlatIndex and BruteForce

A flat index is a record `[labels, vectors, ids]`: `idToLabelMapping`, the raw data
container, and the lookup (a sequence of ids per label, of length at most one in the
single-value class). Internal id `i` is position `i + 1`.

- `AppendVector`, `UpdateElement`, `RemoveVector`, `ReplaceIdOfLabel` are the methods of
  those names. In the multi-value class `ReplaceIdOfLabel` replaces the *last*
  occurrence, as the code does with a reverse search.
- `DeleteSingle` and `DeleteMulti` are `deleteVectorAndGetUpdatedIds`. `DeleteMulti` is the
  code's loop as a recursive function (`DeleteRounds`): the list is read at position `i` as it
  is *now*, after the swaps of earlier rounds. `deleteVector` has the same effect without the map.
- `RemovalAsserts` are the asserts of `removeVector` and `replaceIdOfLabel`; `DeletionAsserts` and
  `DeletionByIdAsserts` evaluate them where a deletion comes to them: of a multi-value label in each
  round, after the swaps of the rounds before; of a single-value one when the lookup has lost it.
- `BruteForce` adds `indexCapacity()` (`Grow`, `Shrink`), one flag that records whether
  every one of these asserts and of those on counts and capacities held, and whether a stored blob went through
  `preprocessForStorage`. Its calls are one thread's: the flat index has no locks of its own.

### TieredHNSW

A vector, its insert job and its HNSW element are named by the number of the `addVector`
call that brought the vector, so "the job's vector", "an older value" and "an element of
the overwritten vector" are all visible in the state.

| Variables | In the code |
|---|---|
| `flat` | `frontendIndex` |
| `element`, `lookup` | `idToMetaData` flags and `labelLookup` of the HNSW index |
| `job`, `labelToInsertJobs`, `invalidJobs`, `currInvalidJobId` | `HNSWInsertJob` objects and the members of those names |
| `queue` | the host's job queue (external) |
| `flatReaders`, `mainReaders`, `mainWriter`, `dataGuard` | workers and callers that hold `flatIndexGuard`, `mainIndexGuard` and HNSW's `indexDataGuard` across steps |
| `writeMode`, `pc`, `op`, `task`, `blob`, `adds` | control: the write mode, program points, the main thread's call with the value it will return, each worker's job and its copy of the blob |
| `query` | of each query its program point, which says what lock it holds (`flat`: the shared flat lock, `search`: the shared main lock), and its results from each tier |
| `promised`, `gone`, `op.before` | history, read only by properties |

| Actions | In the code |
|---|---|
| `StartAdd`, `RecheckFlatLimit`, `AddToFlat`, `AddDeletesOldFromHNSW`, `SubmitInsertJob`, `AddInplace` | `addVector`, section by section |
| `StartDelete`, `DeleteCheckFlat`, `DeleteFromFlat`, `DeleteFromHNSW`, `DeleteFromHNSWInplace` | `deleteVector`, called by the user or by `addVector` |
| `ExecuteReadySwapJobs` | `executeReadySwapJobs` |
| `StoreShared`, `FindFull`, `StoreExclusive`, `IndexVector` | `insertVectorToHNSW`, run by workers and by the main thread |
| `TakeJob`, `DropInvalidJob`, `CopyBlob`, `FinishJob` | `executeInsertJob` |
| `SetWriteMode` | `VecSim_SetWriteMode`, between calls |
| `QueryStart`, `QueryFlat`, `QueryLockMain`, `QueryMain`, `QueryReturn` | `topKQuery` and `rangeQuery`: take the flat lock, read and release it, take the main lock, read and release it, return |

**Granularity.** A section under one exclusive lock is one step. A section under a shared
lock that is released before another lock is taken only reads, and is one step too.
Locks held *across* such sections are variables: the flat lock a worker shares from
`CopyBlob` until its element is stored, the main lock from storing to indexing, `indexDataGuard`
for the same time if the element is on a higher level than the entry point (`StoreAndReleaseFlat` leaves
open whether it is), and the lock of a query while it reads a tier. What needs `indexDataGuard`, the
beginning of a search included, waits while somebody keeps it. That it waits with the main lock in
hand is left out: the thread that keeps `indexDataGuard` has the main lock already and
waits for nothing. `invalidJobsLookupGuard` is held only inside single steps.

**Abstractions**, each chosen so that it only adds behaviours or leaves out what no
property is about:

- Search is exact: a read of HNSW returns every element that is neither marked deleted nor in
  process. The model says which vectors a query *may* find, not how well the graph leads to
  them; a query is one with `k`, or a radius, large enough for all.
- When HNSW is full is left open (`FindFull` may always happen).
- Which marked-deleted elements are ready to be swapped out, and when the threshold
  for doing so is reached, is left open. Removal never waits for a repair here; that
  it must is the subject of `HNSWDeletion`.
- A query holds the lock of a tier from one step to another, and what it finds there is what is there
  when it releases it. The buffer cannot change meanwhile. Within HNSW a scan may overlap another thread's
  insertion; since elements become visible in one write of a flag, the scan's result is that of some
  moment between its beginning and its end for each element. Readers that are not in `Watched`
  only take the locks; their results are not kept.
- Memory is a model of ownership only: an insert job is deleted (`NoJob`) by whoever executes
  it, and `JobsHeldOnce` and `InvalidJobsTracked` say that nobody holds a deleted one.

### HNSWGraph and HNSWDeletion

A graph is a record `[links, incoming, ok]` of one level: the out-neighbours of each id,
`incomingUnidirectionalEdges` (those that point to an id it does not point to), and whether
every assert on the way held. The operators are what the code does while it holds the
locks of the nodes involved: `ConnectBoth`, `RevisitNeighbor`, `RepairOutcomes` (of
`mutuallyUpdateForRepairedNode`), `InplaceRepairs` (of `repairConnectionsForDeletion`),
`RemoveAndSwap` with `SwapLastId`.

| State of `HNSWDeletion` | In the code |
|---|---|
| `count`, `meta`, `lookup` | `curElementCount`, `idToMetaData`, `labelLookup` |
| `graph` | the level-0 links of all elements |
| `jobs` | `idToRepairJobs`, `idToSwapJob`, the job objects with their counters, `readySwapJobs` |
| `worker`, `main` | what a worker or the main thread has read and still has to do |
| `unused`, `calls` | bounds |

| Actions | In the code |
|---|---|
| `StoreNewElement`, `LockNeighbor`, `ConnectNext`, `UnmarkInProcess` | `insertVectorToHNSW`, `mutuallyConnectNewElement`, one neighbour at a time: check of the marks, then links |
| `LockRevisited`, `RevisitNeighborConnections` | `revisitNeighborConnections`, after it has released its locks: check of the marks, then links |
| `ExecuteRepairJob`, `CollectNeighbors`, `CollectFromDeleted` | `executeRepairJob`, `repairNodeConnections`, one set of locks at a time |
| `LockNodesToUpdate`, `CheckChosen`, `UpdateRepairedNode` | `mutuallyUpdateForRepairedNode`: locks, flags of one chosen node after the other, links |
| `MarkDelete`, `CopyLinks`, `CheckNeighbor`, `CollectIncoming`, `CreateJobs` | `deleteLabelFromHNSW`, `safeCollectAllNodeIncomingNeighbors` |
| `StartGC`, `GCStep`, `FinishGC` | `executeReadySwapJobs` |
| `StartInplace`, `NextInplace`, `RepairForDeletion`, `RemoveInplace`, `FinishInplace` | `deleteLabelFromHNSWInplace`, `removeVectorInPlace` |

A set of node locks under which marks are read and links change is held over several steps (`Locks`),
because marks are set without node locks (`markDelete` holds `indexDataGuard` and shares the main lock):
`MarkDelete` may come between a worker's check and the link it appends. Other sections under the locks of
one set of nodes are one step. `CollectNeighbors` and `CollectFromDeleted` read the marks of a whole list
at one moment, the code one after the other; what is taken for alive there is checked again. Inserting,
repairing and asynchronous deleting share the main index lock, so they interleave with each other; garbage
collection and in-place deletion own it and start only when no worker is active.
Left out: levels above 0, the entry point, and distances. The search for candidates may
come up with any element, and the heuristic may select any of them, which includes what the code
does. Locks of several nodes are taken in one step, once all are free, so this model says nothing about
their order. Which of the first elements is the centre of the star (`Centre`) makes no difference but for names.

### TieredSVS

The main thread's calls are cut at their critical sections; the update job is
`StartUpdate` (takes `updateJobMutex`, clears the flag), `CopyBuffer` (shared flat lock),
`PrepareSVS`/`SetImpl` or `AddVectors`, `CleanUp` (exclusive flat lock, replays
`swaps_journal`) and `DeleteRemovedMeanwhile`. A vector is the number of its label's
additions, so a stale value is told from the current one. `expected` is history: what a
store that did each call at once would hold.

The write mode may be switched between any two calls (`SetWriteMode`), as `VecSim_SetWriteMode` allows and
the test `switchWriteModes` does while vectors are still being indexed (`test_svs_tiered.cpp:3087-3096`). Two
things can then happen to a label of a single-value index, and a vector is lost:

- An in-place `addVector` does not look whether the buffer still has an older vector of the label. The new
  one goes straight to SVS, and the next update moves the older one over it (`svs_tiered.h:838-844`).
- In in-place mode, an overwrite in the buffer is not journaled. If an update is running on
  a still empty SVS, its clean-up takes the new value for the one it copied and removes it
  (`svs_tiered.h:820-825`).

`exposed` is the set of the labels to which the one or the other has happened, until the label is deleted
or is written where neither can. It is history: no step depends on it. The properties say of every other label what
they say without a switch, and of these labels what is left: a deleted one is in no tier, and the journal
leads the clean-up of an update to what it has copied or what was written over it. `Contents` is what
a query finds, which merges both tiers (`svs_tiered.h:1070-1083`); so the stale values that SVS may have of a label of
a single-value index, while the buffer has the current one, are seen by it (`NoLabelInBothTiers`, section 6), and
`DeletedStayDeleted` says that nothing else stale is there once the update is over.

Return values are left out. In the code `deleteVector` may count one vector twice, as in the tiered HNSW index.

### SVSThreads

A job of SVS is a main job and reserve jobs in the host's queue. A worker that takes a
reserve job checks in with the control block and waits for the end, so that the main job can
rent a thread of the pool in its stead. `pool` is the pool's `slots_`, `pending_jobs_`,
`deferred_size_`; `job` is the control block of each job and what it has rented. The host
has as many workers as the size it asked for last and changes both together
(`VecSim_UpdateThreadPoolSize`). Every job is of another index, which lets most of them run
at once. The timeout of `waitForThreads` may come at any time. Exceptions of a task and the
registry of jobs at destruction are left out.

### Kernels, Implementations, Distance

A kernel walks over two vectors with one load of each at a time. It is described by its
loads (`Load`: which coordinates count, how many elements are read of either operand,
how far the pointers go), those before its loop, in it, and behind it, and by the
instruction sets it is compiled for: `COMPILE_FLAGS` has the flags that `spaces/CMakeLists.txt` gives
each file of `spaces/functions`, and a kernel has those of the file that instantiates it. Residuals are computed as the code's templates do, from
the remainder of the dimension. `Distance` chooses a kernel as `*_GetDistFunc` does, makes
blobs of the sizes that the preprocessors make, and runs the kernel load by load.

Left out: arithmetic (so also an overflow, see section 6), the alignment hint, normalization
and quantization. The build is one with all `OPT_` macros, little-endian. `CpuAssumption`
names what the choosers take for granted of a CPU (for instance that AVX512-VNNI comes
with AVX512VL, and dot products with ARMv8.2). A flag stands for what it implies, too, since a
CPU that has the one feature has the other. Three constants say what is decided outside the source:
`SharedCopy` and `SVECopy` whose copy the linker keeps of functions that two files define under one
name, and `FP16FML` whether the compiler uses an instruction set that only the flags name. Section 6 says what
depends on them; the run has the choice under which `KernelRunsOnCpu` can hold (`NoForeignInstructions`).

## 3. The runs

| Run | Instance | Shows |
|---|---|---|
| `bf` | both classes, 3 labels, 5 vectors, blocks of 2 | `LookupIsInverse`, `AssertsHold`, `CapacityFits`, `UpdatedIdsAreExact`, and that each call is a step of `VectorStore` |
| `tiered_single` | single value, 3 labels, 3 adds, buffer limit 2, 2 workers | the job invariants, `CopyIsCurrent`, `LookupMatchesElements`, `FlatWithinLimit`, and that the index implements `VectorStore` |
| `tiered_multi` | multi value, 2 labels, 3 adds, limit 2, 1 worker, 1 query | renaming with several vectors per label (`JobsMatchFlat`, `LookupMatchesElements`); `QueriesAreComplete`, `QueriesSeeNoDeleted` |
| `tiered_live` | single value, 1 label, 2 adds, limit 1, 1 worker, 2 queries of which 1 is watched, fair | every submitted job ends (`JobsComplete`), every call returns (`CallsReturn`), given that queries leave the locks; the inductive invariants for a single value (`CallerInv`) |
| `hnsw_deletion` | one label per vector, 3 elements indexed and 1 to insert, 2 workers, 2 links, 3 calls | links and incoming edges stay exact, jobs follow their elements, counters are exact, no edge leads to an element that is reclaimed, and none arises to one that is being collected (`CollectedGainNoEdges`); the inductive invariant (`DeletionInv`) |
| `tiered_svs` | both kinds, both modes with switches at any time, 3 labels, 6 calls, training threshold 2, update threshold 1 | no vector is lost (outside `exposed`), none comes back, the journal is exact, a full buffer has an update coming; the inductive invariant (`SVSInv`) |
| `svs_threads` | 3 workers at most, 2 jobs, 2 resizes, fair | rented threads exist, the pool comes to the size asked for, jobs and reservations end |
| `distance` | 8 data types, 3 metrics, 23 CPUs, dimensions 1 to 330 and 383, 511, 512, 513 | each coordinate once, no read behind a blob, no kernel compiled for an instruction set the CPU lacks |
| `bf_raw`, `shared_ids` | as above | a statement of the repository that the code does not keep, see section 6 |
| `svs_duplicates` | both kinds, 2 labels, 2 calls, both thresholds 1 | the same, for a label in both tiers of the SVS index |
| `swap_job_lost` | as `hnsw_deletion`, with two vectors under one label | the same, for deletion in place |

**The properties.**
`JobsMatchFlat` is the central one: a pending job's id always leads to the vector it was
created for, whatever swaps happened since. `CopyIsCurrent` says that a value a
worker is about to store cannot have been overwritten or deleted since it was copied: the
shared flat lock is what prevents an old value from winning. `JobsHeldOnce` and
`InvalidJobsTracked` say that every job object has one owner until it is freed, once.
`FlatWithinLimit` holds although the size check is made without a lock.
`QueriesAreComplete` says that a vector that changes tiers between the two reads of a query
is not missed. `QueriesSeeNoDeleted` says that what was deleted before a query began is not
found. `ImplementsStore` is the refinement: with a call taking effect when it
returns, and the steps of workers invisible, the tiered index is a `VectorStore`.

For deletion the central property is `EdgesIntoDeletedAreCovered`: an edge into a deleted
element always has a filed repair job associated with the element's swap job, or a worker that
is about to remove it. With `PendingIsExact` it follows that an element whose swap job is
ready, while nobody works, has no edge to it. `CollectedGainNoEdges` is why marks without node locks do no harm: a
worker may link to an element that was marked after it looked, but it has the element's lock then, which the
collection of incoming edges has to take, and from the beginning of that on no step adds an edge. `GraphIsExact` is what renaming ids relies on, as
`SwapLastIdWithDeletedId` finds the edges to change through the incoming sets.
`DeletedHaveSwapJobs` says that no deleted element is forgotten, and `ReadyIsExact` that the
counter that starts garbage collection is right under its lock (the main thread reads it without: `StartGC` may
follow any delete).
For SVS, `JournalIsExact` compares what the replayed journal leads to with the buffer as
it is: exactly the positions that still hold what was copied (or, of a label in `exposed`, what was
written over it in place). `NothingIsLost` and `DeletedStayDeleted` are the consequences a user sees. `RentedThreadsExist` is the code's "This
should not happen": a shrink that were not deferred would break it.

**Bounds**, all constants: `MaxAdds` (calls of `addVector`; deletes, mode changes, and
queries are unbounded in number), `FlatLimit`, `Labels`, `Workers`, `Readers`, `Vectors` and
`BlockSize`.

- In `bf` five vectors in blocks of two reach three blocks, so growing, the hysteresis of
  shrinking and the empty index all occur, and a label with three ids next to another with
  two makes a vector move twice during one deletion (the chained renames).
- In `tiered_single` three labels are needed: an overwrite frees no place, so the limit of two
  bites only when two other labels fill the buffer. Three adds give an overwritten
  value, its successor, and a bystander to be swapped; two workers give a job that is dropped
  while another is between storing and removing.
- `tiered_multi` has two vectors of one label and one of the other, which is the least for a
  deletion that swaps the bystander's vector into the gap and renames its job.
- `hnsw_deletion` starts from a star of three elements, with two links per node: the third
  neighbour forces the heuristic to drop an edge, so unidirectional edges arise, which are what
  deletion may miss. Two workers give an insert and a repair, or two repairs, beside the
  deleting main thread. Three calls are two deletions (a deleted neighbour of a deleted
  element, one repair job for two swap jobs) and an insert, or an in-place deletion while swap
  jobs wait. A threshold of two stops garbage collection half-way. Four repair jobs are never
  used up.
- `tiered_svs`: a training threshold above the update threshold makes the first update differ from later
  ones; six calls fill a buffer of two, and overwrite, delete and add again while an update
  runs, with a third label as the vector that is swapped into the gap, and the mode switched at
  every point between two calls.
- `svs_threads`: a shrink from three to one with two jobs that each want all three threads; two
  resizes give a deferred shrink that a grow or another shrink supersedes.
- `distance`: the longest step of any kernel is four SVE registers of 64 bytes, 256 one-byte
  elements, so the dimensions have every residual of every kernel with no chunk, with one and, for
  all but those, with two and more. The CPUs are a chain of x86 generations, one CPU with AVX2 and
  without FMA, and AArch64 with NEON only up to SVE2, with registers of 16, 32 and 64 bytes.
- `tiered_live` has a full buffer after one add, so the main thread and workers compete for the
  main lock, with the upgrade from shared to exclusive, while two queries take turns at sharing both locks: with
  one query alone nobody would ever find a lock shared before the last holder has left. One of them is watched, for
  `CallerInv`. More labels add nothing to what threads wait for.

Symmetry is used for labels, workers, readers (and vectors in `bf`), which are only
compared, and not in the liveness run.
Deadlock is checked in the runs of `BruteForce`, `TieredHNSW` and `Distance`; none of them
needs to stop, since the main thread may always delete or change the mode, and another
distance may be computed. In `hnsw_deletion`, `swap_job_lost`, `tiered_svs` and
`svs_threads` the number of calls is bounded, so the system stops when all are used and all jobs
are done: `CHECK_DEADLOCK FALSE`.

**Fairness** (`tiered_live`). A thread that can go on does: each worker and the main
thread. A submitted job is eventually handed to a worker, which the host's queue
promises. Strong fairness is used because threads wait for locks that
others take and release again and again. `std::shared_mutex` promises no fairness, so that
a lock that is free again and again is eventually granted is an *assumption* about the
platform. New calls and queries are not fair: nobody has to come, and nothing is assumed of a query
that has begun.

That a lock is free again and again is not assumed by the fairness, and nothing in the library sees to it: queries may
overlap so that at each moment one of them shares the main lock, and then a worker that has to grow HNSW, or
an in-place call, waits for ever. `JobsComplete` and `CallsReturn` name this as a premise (`QueriesLeaveLocks`): again and again there is a moment when
no query reads the buffer, and one when none searches HNSW. Without the premise TLC finds both violated, by
queries that never end as well as by two that take turns so that one of them is always in `search`. What the properties then say is that nothing
else keeps a thread from its end: not the upgrade of the main lock with the flat lock shared, not
the workers, not `indexDataGuard`.

**Fairness** (`svs_threads`). A worker goes on with what it has taken, an idle one takes the
next job of the queue, the wait for threads times out, a task gives back what it rented. All
of this is weak fairness. `MarkJobDone` has strong fairness, for a task may rent and release
again and again: that the task ends is the SVS library's promise.

## 4. What is proved

Every theorem is for *every* value of the constants that satisfies the named assumptions: any
set of labels, workers and readers, any number of calls, any limit of a buffer, any block size.

| Module | Proves |
|---|---|
| `FlatKinds_proofs` | what a removal, a deletion of a label and their map of updated ids do to any consistent flat index, single- or multi-value: the lemmas of `BruteForce_proofs` and `TieredSVS_proofs`, which EXTEND it, and of `TieredHNSW_proofs`, which has an instance of it (`Kinds`) |
| `BruteForce_proofs` | for single- and multi-value indexes: the invariants `TypeOK`, `LookupIsInverse`, `AssertsHold`, `CapacityFits`; `UpdatedIdsAreExact`; the refinement of `VectorStore` (`StepsOfStore`) |
| `TieredHNSW_proofs` | for single- and multi-value indexes: `TypeOK`, `JobsMatchFlat`, `InvalidJobsTracked`, `JobsHeldOnce`, `CopyIsCurrent`, `LookupMatchesElements`, `FlatWithinLimit` |
| `TieredHNSWCallers_proofs` | for single- and multi-value indexes: `CallerInv`, `QueriesAreComplete`, `QueriesSeeNoDeleted`, and the refinement of `VectorStore` (`ImplementsStore`) |
| `HNSWDeletion_proofs` | what each operator on a graph does to links and incoming edges; for `SingleValue` (no two vectors share a label): `DeletionInv`, every invariant of the run `hnsw_deletion`, `TypeOK`, and `CollectedGainNoEdges` |
| `TieredSVS_proofs` | for both kinds, with the mode switched between any two calls: `SVSInv`, `NothingIsLost`, `DeletedStayDeleted`, `JournalIsExact`, `FullBufferHasUpdate` |
| `SVSThreads_proofs` | `RentedThreadsExist`, `PoolFollowsRequests` |
| `Distance_proofs` | `EachCoordinateOnce`, `ReadsStayInBlob`; `KernelRunsOnCpu`, in a build with `NoForeignInstructions` |

Assumptions, as named in `TieredHNSW`: `BoundsAssumption` (bounds are naturals),
`IsMultiAssumption`, `ThreadsAssumption` (the main thread is not a worker), `WatchedAssumption` (watched readers are readers), `AbsentAssumption`
(the values for "none" are not values of the kind they stand for); those of `HNSWDeletion` are of
the same kinds, and `BlockSizeAssumption` says that a block holds at least one vector. `TieredSVSAssumption` says that
both thresholds are at least one. `SkipAssumption` says that no label is `SKIP_LABEL`, which the code takes
for granted: it is the greatest value of `labelType` (`svs_tiered.h:238`), and nothing stops a host from using
that value, whose vectors the clean-up of an update would then leave in the buffer. TLC
evaluates the assumptions in each run.

**The argument for the flat index** (`FlatKinds_proofs`, `BruteForce_proofs`). A removal is looked at as a change of one pair: `Removable`
says which ids may be removed from which state, `Removed` where every vector is afterwards, and
`Covers` that the lookup lists the ids of a label on the positions that are still to be
visited. `RemovalKeeps` shows this for one removal, `RemovalFollows` that the map of updated ids
follows the chain of moves, with the ids of *before* the call. The multi-value deletion is a
loop over the label's own list, whose ids change while it runs: `RoundDeletes` is one round, whose asserts hold as
well (`RemovalFinds`), and `RoundsDelete` the induction over the rounds. A recursive function in a `LET` is unfolded by an
induction that shows that a run of the loop exists (`UpToInduction`, from
`WFMin` of the library: the least counterexample). The same induction gives the number of blocks that the
shrinking loop of the metadata removes (`ShrinkTimesFits`), which `CapacityFits` needs: the capacity
stays a multiple of the block size, and its asserts hold. `BruteForceInv` adds to the properties that
no vector is there twice and that the capacity is right for the count, and is the invariant.
`BruteForceIsStore` maps each step to a step of `VectorStore` by what it did to the content of one label.

**The argument for the tiered HNSW index.** None of the invariants is inductive alone. `TieredInv` (module
`TieredHNSWInv`, a part of `CallerInv`, which TLC checks in `tiered_live` for the single-value kind; it also holds of the instance
of `tiered_multi`, whose run leaves it out because it takes several minutes) adds:

| Part | Why it is needed |
|---|---|
| `FlatLookupIsInverse` | the buffer's lookup lists exactly the ids that carry a label, each once, so that a deletion reports every vector that moves and renaming finds its job |
| `CallConsistent` | which kind of call is at which program point, with its number |
| `JobsOwned` | `JobsHeldOnce` without cardinalities, one pair of holders at a time |
| `NewIsFresh` | a call's number names no job and no element before it stores its vector |
| `NotStoredYet` | a pending job's vector is in HNSW only while its worker is indexing or about to finish |
| `LocksHeld` | who is at a program point holds its locks: what excludes a swap or an overwrite |
| `JobListsShort` | a single-value label has at most one valid job |
| `BufferedNotInHNSW` | single-value: a buffered label has nothing live in HNSW except the very vector on its way, or the old one that the running call is about to delete: why overwriting never occurs in HNSW |
| `LabelCleared` | once a call that deletes its label (`ClearsLabel`: `deleteVector`, and the `addVector` of a single-value index) has done so, nothing brings the label back before the call ends or stores its vector |
| `RoomInFlat` | the unlocked size check stays true, as only the main thread adds |
| `InvalidIdsOld` | ids of invalid jobs are not given out twice |

`InitInv` shows that the initial states satisfy `TieredInv`; there is one lemma for each action
(`StartAddInv`, ..., `FinishJobInv`); `StepInv` combines them over the disjuncts of `Next`
and `TieredInvHolds` concludes. The long ones are the four that disturb several parts
at once: `DeleteFromFlat`, `AddToFlat`, `StoreElement` and `FinishJob`. They work from lemmas about removals from the buffer, one vector by a worker or all of a
label by a call. `Compacts` says what they have in common: the updated-ids map leads from each
vector's new place to the one it had, through any chain of swaps (shown in `FlatKinds_proofs`). The
code renames jobs by that map one entry after the other, in the order of an `unordered_map`, which
`Renamed` does in one step: `RenamesDoNotMeet` shows that no entry gives an id that another takes away, so no
order renames a job twice. `Removes` says that each job ends with the id its vector has. The
invariants of jobs follow from it for either kind. `JobListsShort` and `BufferedNotInHNSW` are what a single-value
index has beyond that.

**The argument for its callers.** `CallerInv` adds what is known of vectors on their way and of queries:

| Part | Why it is needed |
|---|---|
| `ElementsAreOwn` | an element has the vector it is named by, so "the old value" cannot hide under a new name |
| `IngestedInBoth` | a vector on its way is in both tiers from when it is stored until it leaves the buffer: why the order buffer-then-HNSW of a query misses nothing. If a call took it out of the buffer, the call is about to take it out of HNSW |
| `CallsEndWithOwn` | an `addVector` ends with its own vector under its label, in a single-value index with no other: what the refinement shows of the step at which a call takes effect |
| `BeforeStays` | an `addVector` of a multi-value index leaves under its label what was there when it began |
| `QueriesOnCourse` | what was promised to a query is still to be read or was read, and no running call is about to take it away (`Stays`); what was gone before it began is in no tier |

The invariants of queries follow at once. For the refinement the content of a label is
what is visible of it, and for the label of a running call `op.before`, what was visible when the call
began; each action then either leaves that alone or is a return, where `CallsEndWithOwn` and `BeforeStays` say which step
of `VectorStore` it is: a vector replaces the one of its label, or joins the others.

**The argument for deletion from the graph.** `DeletionInv` (module `HNSWDeletionInv`, checked by TLC in
`hnsw_deletion`) has these parts beside `EdgesIntoDeletedAreCovered`:

| Part | Why it is needed |
|---|---|
| `ElementsInv`, `LookupInv` | vectors, labels and ids correspond one to one, with the one exception of a label whose deletion in place is about to end |
| `GraphInv` | links are bounded, among stored elements, and incoming edges exact; while an element is unlinked in place, exact for all but its own edges (`Unlinking`) |
| `WorkersInv` | only its worker links an element that is being inserted, and only to neighbours it has tried; what a repair has found to be deleted still is, and is not among its candidates; no two workers hold one lock, and an element that a worker found alive and may link to, if it was marked since then, is locked by that worker and not being collected yet (`LocksInv`) |
| `MainInv` | whoever points to the element being deleted was found, is still to be asked, or will be found in the incoming edges: why collecting them one lock at a time misses none |
| `JobsInv` | repair jobs are filed under their current node; counters are cardinalities; swap jobs and marked elements correspond one to one (`Reclaimed`), by current ids (`Indexes`); where garbage collection has got to (`GCInv`) |

The first part of `HNSWDeletion_proofs` says of each operator on a graph which edges it adds or removes and that it keeps
`Exact`. The main lemmas about jobs are about the swap of the last id into a gap, which renames one element
in links, lookup, job lists and the two maps at once.

A marked element may gain an edge: a worker finds both nodes alive (`LockNeighbor`), the main thread marks one of them
(`MarkDelete`), the worker links them (`ConnectNext`). But the worker has the lock of the element from the one to the
other, and the collection of the element's incoming edges begins with taking that lock (`CopyLinks`), when the mark is
there to be seen. So whoever links to the element after that has read the mark, and does not (`LocksInv`):
`CollectedGainNoEdges`. `EdgesIntoDeletedAreCovered` then holds because the collection finds all the edges there are
(`MainInv`) and gives each a repair job, and such a job leaves the list of its node only in the hand of
the worker that removes the edge.

**The argument for the tiered SVS index.** `SVSInv` (module `TieredSVSInv`, checked by TLC in `tiered_svs`)
holds for both kinds of index, whenever the mode is switched:

| Part | Why it is needed |
|---|---|
| `VariablesInv`, `BufferOK` | types; the buffer's lookup lists the ids of each label, each once |
| `MainInv` | who runs the update, and that only an `addVector` of a single-value index looks for its label in SVS |
| `JournalInv` | in every step of an update since the copy, and not only at its clean-up, the journal replayed so far leads to exactly the positions that still hold what was copied, or was written over it in place (`Tracks`, `Copies`) |
| `LabelsInv` | of each label, what it should have against what is in the buffer, in SVS, in the copy of the buffer, and in the journal of deleted labels, in each phase of a call and of an update; of a label in `exposed`, what is left of that (`ExposedOK`) |
| `BuildInv` | an SVS index that was found empty, and is built aside, is still empty when it is set: nobody else puts the first vector there |
| `SchedulingInv` | the flag is set only while an update is queued; a full buffer was copied entirely, or an update comes |

The core of `JournalInv` is the deletion of a label from the buffer. It moves vectors of other labels from
beyond the new end into gaps (`DeletionMoves`) and journals one record for each id that was freed
(`RecordsSwap`). The moves are of different vectors to different places, so the records commute, and replaying
them (`SwapsCommute`, an induction over the records) moves the copied labels as the deletion moved the vectors:
`DeletionTracks`. The clean-up is an induction as well: its rounds remove, from the highest id down, what is
tracked and nothing else (`CleanUpRemoves`). `LabelsInv` is about one label at a time. `View` takes from the state what
concerns a label, so that a step is a relation between two small records: a lemma `Label...` for each kind of
step shows `LabelOK` after it, and the lemma of the action lifts that to all labels. The four properties are read off `SVSInv`: between calls, `NothingLost` is
`NothingIsLost`; without an update no label is about to be removed, so `NothingElse` is `DeletedStayDeleted`. A step that writes in place decides whether its label enters `exposed`; the mode
itself is in no part of the invariant.

**The argument for the pool.** `PoolFollowsRequests` needs only the types of the pool
(`PoolInv`). `RentedThreadsExist` is a matter of counting, and `ThreadsInv` is what makes the
count inductive:

| Part | Why it is needed |
|---|---|
| `PoolInv`, `ThreadTypes` | sizes and counters are numbers; the pool is as large as asked for or larger |
| `PendingIsLive` | `pending_jobs_` counts the jobs that are not deleted, so a deferred shrink is applied only when no worker is attached to any |
| `AttachedExist` | a worker attached to a live job is one of the pool's `1..Size`: a shrink at once happens only without jobs |
| `QueueInv` | a main job is taken once, and reserve jobs only of jobs that were scheduled |
| `WorkersInv` | a running job has exactly one main worker |
| `CountsInv` | what a job counts as reserved, and so what it rents, is bounded by the workers that wait for it |

`RentedAreReserved` then maps each rented thread to a worker that waits for the same job.
The map is injective and leaves out the main worker of the job that rents, so the threads are at
most `Size - 1`, which is `slots`.

**The argument for the kernels** (`Distance_proofs`). For the instruction sets there is one lemma for
each file of `spaces/functions`, on what its kernels are compiled for, and one for each
chooser, which compares that with what was asked of the CPU.

For the coordinates, a *way* is a sequence of loads each of which uses all the coordinates from where
the one before left the pointers to where it leaves them, and stays within both blobs; a load that
overwrites the accumulator may only come first (`Fits`, `Way`). `RunsTheWay` shows, by induction
over the loads, that running a way from `p` to `q` in a state in which exactly the coordinates below
`p` have been used, each once (`Clean`), leads to such a state for `q`. A *course* of a kernel
(`Course`) is a way to the coordinate `p` before the loop, a number of turns of `w` coordinates each,
a way from there to the dimension, and a loop condition that counts exactly these turns: a do-while
needs at least one, and both it and a while need `w > 0`. Lemmas for any width of a register give
the courses of the shapes kernels come in (`ResidualByHalves`, `ResidualByPieces`,
`ChunksThenRest`, `SVEKernelTraverses`, ...), from the division with remainder that the templates on
the residual amount to. One lemma for each file then says that its kernels have a course
(`Traverses`) for every dimension from the file's least one on, and one for each chooser that it
asks for that much: a do-while kernel on a vector shorter than a chunk would have none. The
metadata a kernel reads is compared with what the preprocessors append (`MetadataOf`,
`RoomFor`). The invariant is `OnCourse`: an index has a kernel with a course over its blobs, and
a call has come as far on it as its turn says. Nothing is assumed about the
dimension but that it is positive, or about the SVE register but that it is a multiple of 16 bytes, up to 256.

The runs check the inductive invariants and the refinement of the tiered HNSW index for the single-value kind
(`tiered_live`, `tiered_single`); for the other kind they rest on the proofs.

**Only model-checked**: liveness (`JobsComplete`, `CallsReturn` and those of `SVSThreads`: out of
the reach of the prover, as is ENABLED); deletion from the graph for labels with several vectors, where `DeletedHaveSwapJobs` is false (run
`swap_job_lost`, see section 6), and what does hold has not been stated.

## 5. What is not modelled, and the plan

Parts of the modelled components that are left out, in the order of importance:

1. The levels and the entry point of the HNSW graph (`replaceEntryPoint` busy-waits while it
   holds the data lock, `hnsw.h:1115`), and the order in which locks of several nodes are
   taken (`hnsw.h:834`): the code sorts them; a model with one step per lock would have to show
   that no step takes a lower one.
2. Locks of the tiered SVS index that are held together (`svs_tiered.h:813`), its return
   values, the steps of its queries, exceptions of a task (`svs_tiered.h:157`).
3. Result merging (`utils/query_result_utils.h`): sequential and stateless; a merge as a fold against a
   definition by sets would be the way. The truncated comparison (line 22) and the tolerance of
   scores (line 45) are listed as hazards.

`TieredSVS` does not implement `VectorStore`: a label of a single-value index may show its old value beside the new one, or
lose the new one after a switch of the mode (section 6).

Not planned: batch iterators (state private to one query; the hazard is only the lock they
keep), result containers and heaps (sequential, with direct unit tests), the visited-nodes
pool (one mutex), allocator, factories, serializers (I/O of an index at rest), the
arithmetic of distances, C API and bindings (delegation), statistics and debug info.

## 6. Where code and documentation disagree

- **Overwriting skips preprocessing** (`bf_raw`). `BruteForceIndex_Single::addVector` gives the
  caller's blob to `updateElement` when the label exists (`brute_force_single.h:142`), whereas
  `appendVector` stores `preprocessForStorage(blob)`. `hnsw_tiered.h:713` assumes that blobs
  in the buffer are processed. With the cosine metric, an overwriting vector stays
  unnormalised.
- **Shared ids with different scores** (`shared_ids`). The merge of a single-value query relies on
  equal ids having equal scores in both tiers (`vec_sim_tiered_index.h:227`). A query that read the
  old vector from the buffer and, after an overwrite reached HNSW, the new one from there, returns
  the label twice.
- **A swap job is lost** (`swap_job_lost`). `executeSwapJob` says that an existing entry of
  `idToSwapJob` is updated for the id of the swapped element (`hnsw_tiered.h:318`). When a
  multi-value label is deleted in place, its second vector may by then live under the id its first
  vector had. That id is already in the list of ids to remove when the second removal enters
  the swap job of the last element under it, and the loop at line 538 erases the entry. The
  element stays marked as deleted, with nothing left to reclaim it, while `readySwapJobs`
  goes on counting it once its repairs are done.

- **A label in both tiers of the SVS index** (`svs_duplicates`). "there is the risk of labels duplication in both
  indices which can lead to wrong results of topK queries", says `svs_tiered.h:944`. The asynchronous `addVector` of
  a single-value index looks for the label in SVS (line 860) before it takes the lock of the buffer (line 871). An
  update that has copied the old vector may add it to SVS and take it out of the buffer in between. The new vector is then
  appended to the buffer, with nothing to journal, and the old one stays in SVS after the update. `topKQuery` and
  `rangeQuery` merge both tiers (lines 1070-1083), and return the label with the better of its two scores, until
  another update moves the new vector.

Seen while modelling, without a run of their own:

- A vector that was written in place to a single-value SVS index is lost if the buffer still had an older
  one of its label, or if it overwrote one there that an update had copied (the two cases of `exposed` in section 2,
  `svs_tiered.h:838-844, 820-825`). With `exposed` left out of them, `NothingIsLost` and `JournalIsExact` are violated.
- `TieredHNSWIndex::addVector` may return -1. `vec_sim.h:63` documents 1 or 0. In in-place mode the
  result is `1 - deleteVector(label)` (`hnsw_tiered.h:727`), and a vector that a worker is still ingesting,
  since the mode was asynchronous, is counted in both tiers. The asynchronous paths cannot return -1: when
  the buffer is full, a vector counted in the buffer leaves room there, so the new one goes through the
  buffer as well, where the result is clamped (line 804).

- `INT8_InnerProductImp<residual>` and its `UINT8` twin are templates of one name with other
  bodies in `NEON.cpp` and `NEON_DOTPROD.cpp`; `IP_NEON_SQ8_SQ8.h:31` says which instructions the
  one for plain NEON has. Where they are not inlined, a linker may keep either. With `SharedCopy = TRUE`, which is the
  case that the copy with dot products is kept, `KernelRunsOnCpu` is violated on a CPU
  without them.
- `SVE.cpp` and `SVE2.cpp` instantiate the same templates "but different compilation flags"
  (`SVE2.cpp:14`). The instances have external linkage and their addresses are taken, so the program has
  one copy of each, for both files. A linker that takes the first in the library
  (`CMakeLists.txt:129-143`) keeps that of `SVE.cpp`, and the flags of `SVE2.cpp` have no effect; with
  `SVECopy = "SVE2"` `KernelRunsOnCpu` is violated on a CPU with SVE alone.
- `NEON_HP.cpp` is compiled with `fp16fml` (`CMakeLists.txt:113`), which its choosers do not ask for
  (`IP_space.cpp:446`). No kernel is written with it; should the compiler use it (`FP16FML = TRUE`),
  `KernelRunsOnCpu` is violated on a CPU with half precision and without FP16FML.
- The integer distances add up in an `int`, "to support dimension up to 2^16" (`IP.cpp:179`);
  255 * 255 * dim exceeds it from dimension 33,026 on.
- The NEON kernel of SQ8 against FP32 loads eight bytes of which it uses four. It stays in the blob
  because metadata follows the coordinates (`ReadsStayInBlob`).
