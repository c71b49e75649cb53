---------------------------- MODULE HNSWDeletion ----------------------------
(***************************************************************************)
(* Deletion from the HNSW graph of a tiered index: elements are marked,    *)
(* repair jobs mend the nodes that pointed to them, and swap jobs reclaim  *)
(* them once no repair is pending, while other workers insert elements.    *)
(*                                                                         *)
(* One level of the graph is modelled.  A step is what a thread does while *)
(* it holds the locks of one set of nodes; a worker that is going to add   *)
(* links holds them over several steps, for it reads deletion marks first, *)
(* and marks are set without these locks.  The main thread is the only one *)
(* that deletes; a worker that is not idle and a main thread that is       *)
(* deleting asynchronously share the main index lock, the garbage          *)
(* collection and the deletion in place own it.                            *)
(*                                                                         *)
(* A swap job is named by the vector it reclaims, a repair job by a number.*)
(***************************************************************************)
EXTENDS HNSWGraph, Integers, Sequences, Functions

CONSTANTS
  Workers,      \* threads that run the jobs of the index
  Vecs,         \* vectors, each added at most once
  Labels,
  LabelOf,      \* the label of each vector; injective in a single-value index
  Indexed,      \* number of vectors 1, 2, ... that are indexed at the start
  Centre,       \* the one of them to which the others are linked
  M,            \* the largest number of neighbours a new element selects
  Threshold,    \* pendingSwapJobsThreshold
  MaxCalls,   \* bounds the calls that add a vector or delete a label
  RepairJobs    \* numbers of repair jobs, bounds those that exist at once

NoVec == 0      \* no element, and no swap job
NoJob == [node |-> 0]
Idle  == [pc |-> "idle"]

ASSUME DeletionAssumption ==
  /\ IsFiniteSet(Vecs) /\ Vecs \subseteq Nat \ {NoVec}
  /\ Indexed \in Nat /\ 1..Indexed \subseteq Vecs /\ Indexed >= 3
  /\ Centre \in {1, 2} /\ MaxLinks \in Nat /\ Indexed <= MaxLinks + 1
  /\ Ids = 1..Cardinality(Vecs)
  /\ LabelOf \in [Vecs -> Labels]
  /\ MaxCalls \in Nat /\ M \in Nat \ {0} /\ Threshold \in Nat \ {0}
  /\ IsFiniteSet(RepairJobs)

VARIABLES
  count,     \* curElementCount: ids 1..count are stored
  meta,      \* idToMetaData: the vector of an id and its flags
  lookup,    \* labelLookup
  unused,    \* vectors not added yet
  calls,   \* calls so far, see MaxCalls
  graph,     \* see HNSWGraph
  jobs,      \* repair and swap jobs, see InitJobs
  worker,    \* what each worker does
  main       \* what the main thread does

vars == <<count, meta, lookup, unused, calls, graph, jobs, worker, main>>

Stored     == 1..count
Deleted    == {i \in Stored : meta[i].deleted}
MayLink(i) == ~meta[i].deleted /\ ~meta[i].inProcess
NoMeta     == [vec |-> NoVec, deleted |-> FALSE, inProcess |-> FALSE]

\* A repair job counts how often each swap job is associated with it.
NoSwaps == [v \in Vecs |-> 0]

\* repair     the repair jobs that were submitted and not taken yet
\* byNode     idToRepairJobs
\* swap       the swap jobs, by the vector they reclaim
\* bySwapId   idToSwapJob
\* ready      readySwapJobs
InitJobs ==
  [repair   |-> [j \in RepairJobs |-> NoJob],
   byNode   |-> [i \in Ids |-> {}],
   swap     |-> [v \in Vecs |-> [id |-> 0, pending |-> 0]],
   bySwapId |-> [i \in Ids |-> NoVec],
   ready    |-> 0]

\* The associations of the repair jobs S with the swap job of v, one by one.
Associations(J, S, v) == UNION {{j} \X (1..J.repair[j].swaps[v]) : j \in S}

HasSwap(J, v)   == J.swap[v].id # 0
NoSwapJob       == [id |-> 0, pending |-> 0]
NoWorkerActive  == \A w \in Workers : worker[w].pc = "idle"
OwnsMain        == main.pc \in {"gc", "inplace", "unlink"}

\* The nodes whose locks a worker that does r holds from one step to the next.
\* They are taken in the order of the ids; the model takes them once all are free.
Locks(r) == CASE r.pc = "link"   -> {r.node, r.target}
              [] r.pc = "relink" -> {r.node, r.target} \cup r.removed
              [] r.pc = "update" -> {r.node} \cup r.orig \cup r.cands
              [] OTHER           -> {}

Free(N) == \A w \in Workers : Locks(worker[w]) \cap N = {}

\* The numbers of S in ascending order.
Ascending(S) == CHOOSE s \in [1..Cardinality(S) -> S] :
                  \A p, q \in 1..Cardinality(S) : p < q => s[p] < s[q]

\* The first vectors, inserted one after the other, form a star.
Init ==
  /\ count = Indexed
  /\ meta = [i \in Ids |-> IF i <= Indexed THEN [NoMeta EXCEPT !.vec = i] ELSE NoMeta]
  /\ lookup = [l \in Labels |-> Ascending({i \in 1..Indexed : LabelOf[i] = l})]
  /\ unused = Vecs \ 1..Indexed
  /\ calls = 0
  /\ graph = [EmptyGraph EXCEPT !.links = [i \in Ids |->
                IF i > Indexed THEN {}
                ELSE IF i = Centre THEN 1..Indexed \ {i} ELSE {Centre}]]
  /\ jobs = InitJobs
  /\ worker = [w \in Workers |-> Idle]
  /\ main = Idle

-----------------------------------------------------------------------------
(* Inserting an element (insertVectorToHNSW, indexVector).                 *)

StoreNewElement(w) ==
  /\ worker[w].pc = "idle" /\ ~OwnsMain /\ calls < MaxCalls
  /\ calls' = calls + 1
  /\ \E v \in unused :
       /\ unused' = unused \ {v}
       /\ meta' = [meta EXCEPT ![count + 1] = [vec |-> v, deleted |-> FALSE, inProcess |-> TRUE]]
       /\ lookup' = [lookup EXCEPT ![LabelOf[v]] = Append(@, count + 1)]
  /\ count' = count + 1
  /\ worker' = [worker EXCEPT ![w] = [pc |-> "connect", node |-> count + 1, tried |-> {}]]
  /\ UNCHANGED <<graph, jobs, main>>

\* Mutant: the deletion marks are not read under the node locks.
LinkDeleted(n, s) == TRUE

\* The marks of both nodes, read while their locks are held.
BothAlive(n, s) == ~meta[n].deleted /\ ~meta[s].deleted

\* The next of at most M selected neighbours, none of which is in process: both
\* nodes are locked and not marked.  A mark may be set from here on.
LockNeighbor(w) ==
  LET r == worker[w] IN
  /\ r.pc = "connect" /\ Cardinality(r.tried) < M /\ HasRoom(graph, r.node)
  /\ \E s \in Stored \ ({r.node} \cup r.tried) :
       /\ ~meta[s].inProcess /\ Free({r.node, s}) /\ BothAlive(r.node, s)
       /\ worker' = [worker EXCEPT ![w] = [pc |-> "link", node |-> r.node, target |-> s,
                                           tried |-> r.tried \cup {s}]]
  /\ UNCHANGED <<count, meta, lookup, unused, calls, graph, jobs, main>>

\* They are linked, or, if the neighbour has no room, the heuristic selects what
\* it should drop.
ConnectNext(w) ==
  LET r == worker[w] IN
  /\ r.pc = "link"
  /\ \/ /\ HasRoom(graph, r.target)
        /\ graph' = ConnectBoth(graph, r.node, r.target)
        /\ worker' = [worker EXCEPT ![w] = [pc |-> "connect", node |-> r.node, tried |-> r.tried]]
     \/ /\ ~HasRoom(graph, r.target)
        /\ \E kept \in Selections(graph.links[r.target] \cup {r.node}, MaxLinks) :
             worker' = [worker EXCEPT ![w] =
               [pc |-> "revisit", node |-> r.node, target |-> r.target, tried |-> r.tried,
                removed |-> (graph.links[r.target] \cup {r.node}) \ kept]]
        /\ UNCHANGED graph
  /\ UNCHANGED <<count, meta, lookup, unused, calls, jobs, main>>

\* All locks are taken again, and the marks read again ...
LockRevisited(w) ==
  LET r == worker[w] IN
  /\ r.pc = "revisit" /\ Free({r.node, r.target} \cup r.removed)
  /\ worker' = [worker EXCEPT ![w] =
       [pc |-> "relink", node |-> r.node, target |-> r.target, tried |-> r.tried,
        removed |-> r.removed, may |-> BothAlive(r.node, r.target)]]
  /\ UNCHANGED <<count, meta, lookup, unused, calls, graph, jobs, main>>

\* ... before the links are changed.
RevisitNeighborConnections(w) ==
  LET r == worker[w] IN
  /\ r.pc = "relink"
  /\ graph' = RevisitNeighbor(graph, r.node, r.target, r.removed, r.may)
  /\ worker' = [worker EXCEPT ![w] = [pc |-> "connect", node |-> r.node, tried |-> r.tried]]
  /\ UNCHANGED <<count, meta, lookup, unused, calls, jobs, main>>

\* Neighbours may be fewer than M, and those deleted meanwhile are skipped.
UnmarkInProcess(w) ==
  /\ worker[w].pc = "connect"
  /\ meta' = [meta EXCEPT ![worker[w].node].inProcess = FALSE]
  /\ worker' = [worker EXCEPT ![w] = Idle]
  /\ UNCHANGED <<count, lookup, unused, calls, graph, jobs, main>>

-----------------------------------------------------------------------------
(* Repair jobs.                                                            *)

\* Repairs are done for the swap jobs in the count n: their pending counters
\* drop, and those that reach zero are ready.
Decreased(J, n) ==
  LET done == {v \in Vecs : n[v] > 0 /\ J.swap[v].pending = n[v]} IN
  [J EXCEPT !.swap = [v \in Vecs |-> [J.swap[v] EXCEPT !.pending = @ - n[v]]],
            !.ready = @ + Cardinality(done)]

\* The job j leaves the lookup before it is executed.
Unfiled(J, j) == [J EXCEPT !.byNode[J.repair[j].node] = @ \ {j}]

\* executeRepairJob up to the release of idToRepairJobsGuard.
ExecuteRepairJob(w) ==
  /\ worker[w].pc = "idle" /\ ~OwnsMain
  /\ \E j \in RepairJobs :
       LET job == jobs.repair[j] IN
       /\ job # NoJob
       /\ \/ /\ ~job.valid
             /\ jobs' = [jobs EXCEPT !.repair[j] = NoJob]
             /\ UNCHANGED worker
          \/ /\ job.valid
             /\ jobs' = [Decreased(Unfiled(jobs, j), job.swaps) EXCEPT !.repair[j] = NoJob]
             /\ worker' = [worker EXCEPT ![w] = [pc |-> "repair", node |-> job.node]]
  /\ UNCHANGED <<count, meta, lookup, unused, calls, graph, main>>

\* repairNodeConnections, under the lock of the node: its links are split.
CollectNeighbors(w) ==
  LET u    == worker[w].node
      gone == graph.links[u] \cap Deleted
  IN
  /\ worker[w].pc = "repair" /\ Free({u})
  /\ worker' = [worker EXCEPT ![w] =
       IF gone = {} THEN Idle
       ELSE [pc |-> "candidates", node |-> u, orig |-> graph.links[u], gone |-> gone,
             todo |-> gone, cands |-> graph.links[u] \ gone]]
  /\ UNCHANGED <<count, meta, lookup, unused, calls, graph, jobs, main>>

\* The links of a deleted neighbour, read under its lock, are candidates too.
CollectFromDeleted(w) ==
  LET r == worker[w] IN
  /\ r.pc = "candidates"
  /\ \E d \in r.todo :
       /\ Free({d})
       /\ worker' = [worker EXCEPT ![w].todo = @ \ {d},
                       ![w].cands = @ \cup (graph.links[d] \ (Deleted \cup {r.node}))]
  /\ UNCHANGED <<count, meta, lookup, unused, calls, graph, jobs, main>>

\* mutuallyUpdateForRepairedNode takes the locks of all nodes to update.
LockNodesToUpdate(w) ==
  LET r == worker[w] IN
  /\ r.pc = "candidates" /\ r.todo = {}
  /\ \E chosen \in IF Cardinality(r.cands) <= MaxLinks THEN {r.cands}
                   ELSE Selections(r.cands, MaxLinks) :
       /\ Free({r.node} \cup r.orig \cup chosen)
       /\ worker' = [worker EXCEPT ![w] =
            [pc |-> "update", node |-> r.node, orig |-> r.orig, gone |-> r.gone, cands |-> chosen,
             todo |-> chosen \ graph.links[r.node], eligible |-> {}]]
  /\ UNCHANGED <<count, meta, lookup, unused, calls, graph, jobs, main>>

\* Mutant: an element that is being indexed gets new neighbours.
EligibleInProcess(u, c) == ~meta[u].deleted /\ ~meta[c].deleted

\* The node u may be linked to c.
Eligible(u, c) == MayLink(u) /\ MayLink(c)

\* The flags are read for one chosen node after the other, each time those of the
\* repaired node too: once it may not be linked, no further node is looked at.
CheckChosen(w) ==
  LET r == worker[w] IN
  /\ r.pc = "update"
  /\ \E c \in r.todo :
       worker' = [worker EXCEPT ![w].todo = IF MayLink(r.node) THEN @ \ {c} ELSE {},
                                ![w].eligible = IF Eligible(r.node, c) THEN @ \cup {c} ELSE @]
  /\ UNCHANGED <<count, meta, lookup, unused, calls, graph, jobs, main>>

\* The links change under the same locks.
UpdateRepairedNode(w) ==
  LET r == worker[w] IN
  /\ r.pc = "update" /\ r.todo = {}
  /\ graph' \in RepairOutcomes(graph, r.node, r.orig \cup r.cands, r.cands, r.eligible)
  /\ worker' = [worker EXCEPT ![w] = Idle]
  /\ UNCHANGED <<count, meta, lookup, unused, calls, jobs, main>>

-----------------------------------------------------------------------------
(* Asynchronous deletion (deleteLabelFromHNSW).                            *)

MarkDelete(l) ==
  /\ main = Idle /\ lookup[l] # <<>> /\ calls < MaxCalls
  /\ calls' = calls + 1
  /\ meta' = [i \in Ids |-> [meta[i] EXCEPT !.deleted = @ \/ i \in Range(lookup[l])]]
  /\ lookup' = [lookup EXCEPT ![l] = <<>>]
  /\ main' = [pc |-> "copy", ids |-> lookup[l]]
  /\ UNCHANGED <<count, unused, graph, jobs, worker>>

\* safeCollectAllNodeIncomingNeighbors takes one node lock at a time: first the
\* links of the element are copied ...
CopyLinks ==
  /\ main.pc = "copy" /\ Free({Head(main.ids)})
  /\ main' = [pc |-> "check", ids |-> main.ids, todo |-> graph.links[Head(main.ids)],
              found |-> [i \in Ids |-> 0]]
  /\ UNCHANGED <<count, meta, lookup, unused, calls, graph, jobs, worker>>

\* ... then each of them is asked whether it points back ...
CheckNeighbor ==
  /\ main.pc = "check"
  /\ \E u \in main.todo :
       /\ Free({u})
       /\ main' = [main EXCEPT !.todo = @ \ {u},
                      !.found[u] = @ + IF Head(main.ids) \in graph.links[u] THEN 1 ELSE 0]
  /\ UNCHANGED <<count, meta, lookup, unused, calls, graph, jobs, worker>>

\* Mutant: unidirectional incoming edges are not collected.
CollectNoIncoming ==
  /\ main.pc = "check" /\ main.todo = {} /\ Free({Head(main.ids)})
  /\ main' = [pc |-> "create", ids |-> main.ids, found |-> main.found]
  /\ UNCHANGED <<count, meta, lookup, unused, calls, graph, jobs, worker>>

\* ... and last come the unidirectional incoming edges.  A node may be found twice.
CollectIncoming ==
  /\ main.pc = "check" /\ main.todo = {} /\ Free({Head(main.ids)})
  /\ main' = [pc |-> "create", ids |-> main.ids,
              found |-> [i \in Ids |-> main.found[i] +
                           IF i \in graph.incoming[Head(main.ids)] THEN 1 ELSE 0]]
  /\ UNCHANGED <<count, meta, lookup, unused, calls, graph, jobs, worker>>

\* The entries of the list of nodes found, a node as often as it was found.
Entries(found) == UNION {{i} \X (1..found[i]) : i \in Ids}

\* How the nodes found that have no pending repair job may be given numbers of
\* jobs; there is none when the numbers do not suffice.
Numberings(J, found) == Injection({i \in Ids : found[i] > 0 /\ J.byNode[i] = {}},
                                  {j \in RepairJobs : J.repair[j] = NoJob})

\* One repair job per node found: the pending one, if there is one, else a new one.
WithRepairJobs(J, v, found) ==
  LET nodes == {i \in Ids : found[i] > 0}
      fresh == {i \in nodes : J.byNode[i] = {}}
      new   == CHOOSE f \in Numberings(J, found) : TRUE
      JobOf(i) == IF i \in fresh THEN new[i] ELSE CHOOSE j \in J.byNode[i] : TRUE
      After(j) ==
        IF \E i \in fresh : new[i] = j
        THEN LET i == CHOOSE i \in fresh : new[i] = j
             IN  [node |-> i, valid |-> TRUE, swaps |-> [NoSwaps EXCEPT ![v] = found[i]]]
        ELSE IF \E i \in nodes : JobOf(i) = j
             THEN [J.repair[j] EXCEPT !.swaps[v] = @ + found[J.repair[j].node]]
             ELSE J.repair[j]
  IN  [J EXCEPT !.repair = [j \in RepairJobs |-> After(j)],
                !.byNode = [i \in Ids |-> IF i \in nodes THEN @[i] \cup {JobOf(i)} ELSE @[i]]]

\* Mutant: a swap job without repairs is not counted as ready.
NeverReady(J, n) == J

\* A swap job with n pending repairs has been created.
ReadyIfNone(J, n) == IF n = 0 THEN [J EXCEPT !.ready = @ + 1] ELSE J

\* The repair jobs are filed under idToRepairJobsGuard and then submitted; the
\* swap job is entered in idToSwapJob, which only the main thread reads.
CreateJobs ==
  LET id == Head(main.ids)
      v  == meta[id].vec
      n  == Cardinality(Entries(main.found))
      J  == [WithRepairJobs(jobs, v, main.found) EXCEPT
               !.swap[v] = [id |-> id, pending |-> n], !.bySwapId[id] = v]
  IN
  /\ main.pc = "create" /\ Numberings(jobs, main.found) # {}
  /\ jobs' = ReadyIfNone(J, n)
  /\ main' = IF Len(main.ids) = 1 THEN Idle ELSE [pc |-> "copy", ids |-> Tail(main.ids)]
  /\ UNCHANGED <<count, meta, lookup, unused, calls, graph, worker>>

-----------------------------------------------------------------------------
(* Swap jobs: the last element takes the id of one that was reclaimed.     *)

\* The last of the positions at which the id occurs (replaceIdOfLabel).
Replaced(ids, old, new) ==
  LET at == {p \in DOMAIN ids : ids[p] = old}
  IN  [ids EXCEPT ![CHOOSE p \in at : \A q \in at : q <= p] = new]

\* removeAndSwap, on everything but the graph.
MoveLastTo(id) ==
  LET last == meta[count] IN
  /\ count' = count - 1
  /\ meta' = [meta EXCEPT ![id] = last, ![count] = NoMeta]
  /\ lookup' = IF id = count \/ last.deleted THEN lookup
               ELSE [lookup EXCEPT ![LabelOf[last.vec]] = Replaced(@, count, id)]

\* Mutant: repair jobs of a disposed node are dropped without telling its swap jobs.
DisposedSilently(J, id) ==
  [J EXCEPT !.repair = [j \in RepairJobs |-> IF j \in J.byNode[id]
                                             THEN [@[j] EXCEPT !.valid = FALSE] ELSE @[j]],
            !.byNode[id] = {}]

\* The repair jobs of a node that is gone are invalid, their swap jobs stop waiting.
Disposed(J, id) ==
  LET n == [v \in Vecs |-> Cardinality(Associations(J, J.byNode[id], v))]
  IN  [Decreased(J, n) EXCEPT
         !.repair = [j \in RepairJobs |-> IF j \in J.byNode[id]
                                          THEN [@[j] EXCEPT !.valid = FALSE] ELSE @[j]],
         !.byNode[id] = {}]

\* Mutant: repair jobs keep the id their node had before the swap.
KeepsNodeId(J, last, id) == J

\* Repair jobs of the last node follow it to its new id.
FollowsNode(J, last, id) ==
  IF J.byNode[last] = {} THEN J
  ELSE [J EXCEPT !.repair = [j \in RepairJobs |-> IF j \in J.byNode[last]
                                                  THEN [@[j] EXCEPT !.node = id] ELSE @[j]],
                 !.byNode = [@ EXCEPT ![id] = J.byNode[last], ![last] = {}]]

\* Mutant: the swap job of the last element is not looked for.
IgnoresSwapOfLast(J, id, last, toRemove) ==
  [jobs |-> FollowsNode(Disposed(J, id), last, id), toRemove |-> Append(toRemove, id)]

\* executeSwapJob: the element id is gone and the one with id last has taken its
\* id.  Returns the jobs and the ids to be removed from idToSwapJob.
ExecuteSwapJob(J, id, last, toRemove) ==
  LET H == FollowsNode(Disposed(J, id), last, id)
      v == H.bySwapId[last]
  IN  IF last # id /\ v # NoVec /\ last \notin Range(toRemove)
      THEN [jobs |-> [H EXCEPT !.swap[v].id = id, !.bySwapId[id] = v],
            toRemove |-> Append(toRemove, last)]
      ELSE [jobs |-> H, toRemove |-> Append(toRemove, id)]

\* Mutant: the executed jobs still count as ready.
ErasedKeepReady(J, toRemove) ==
  [J EXCEPT !.bySwapId = [i \in Ids |-> IF i \in Range(toRemove) THEN NoVec ELSE @[i]]]

\* The end of executeReadySwapJobs and of deleteLabelFromHNSWInplace.
Erased(J, toRemove) ==
  [J EXCEPT !.bySwapId = [i \in Ids |-> IF i \in Range(toRemove) THEN NoVec ELSE @[i]],
            !.ready = @ - Len(toRemove)]

\* Garbage collection: asked for by the host (runGC), or at the end of an add or
\* a delete when enough jobs are ready.  It goes over idToSwapJob in any order, and
\* does nothing unless a job is ready.
StartGC ==
  /\ main = Idle /\ NoWorkerActive
  /\ \E v \in Vecs : HasSwap(jobs, v) /\ jobs.swap[v].pending = 0
  /\ main' = [pc |-> "gc", todo |-> {i \in Ids : jobs.bySwapId[i] # NoVec}, toRemove |-> <<>>]
  /\ UNCHANGED <<count, meta, lookup, unused, calls, graph, jobs, worker>>

GCStep ==
  /\ main.pc = "gc"
  /\ \E i \in main.todo :
       LET v == jobs.bySwapId[i]
           d == jobs.swap[v].id
           e == ExecuteSwapJob(jobs, d, count, main.toRemove)
       IN
       \/ /\ jobs.swap[v].pending > 0
          /\ main' = [main EXCEPT !.todo = @ \ {i}]
          /\ UNCHANGED <<count, meta, lookup, graph, jobs>>
       \/ /\ jobs.swap[v].pending = 0
          /\ graph' = RemoveAndSwap(graph, d, count, TRUE)
          /\ MoveLastTo(d)
          /\ jobs' = [e.jobs EXCEPT !.swap[v] = NoSwapJob]
          /\ main' = [main EXCEPT !.toRemove = e.toRemove,
                                  !.todo = IF Len(e.toRemove) >= Threshold THEN {} ELSE @ \ {i}]
  /\ UNCHANGED <<unused, calls, worker>>

FinishGC ==
  /\ main.pc = "gc" /\ main.todo = {}
  /\ jobs' = Erased(jobs, main.toRemove)
  /\ main' = Idle
  /\ UNCHANGED <<count, meta, lookup, unused, calls, graph, worker>>

-----------------------------------------------------------------------------
(* Deletion in place (deleteLabelFromHNSWInplace, removeVectorInPlace).    *)

StartInplace(l) ==
  /\ main = Idle /\ NoWorkerActive /\ lookup[l] # <<>> /\ calls < MaxCalls
  /\ calls' = calls + 1
  /\ jobs' = [jobs EXCEPT !.ready = @ + Len(lookup[l])]
  /\ main' = [pc |-> "inplace", label |-> l, ind |-> 1, toRemove |-> <<>>]
  /\ UNCHANGED <<count, meta, lookup, unused, graph, worker>>

\* The id is read again for every vector: swaps may have changed it.
NextInplace ==
  LET e == lookup[main.label][main.ind] IN
  /\ main.pc = "inplace" /\ main.ind <= Len(lookup[main.label])
  /\ main' = [pc |-> "unlink", label |-> main.label, ind |-> main.ind,
              toRemove |-> main.toRemove, id |-> e,
              todo |-> {u \in graph.links[e] : e \in graph.links[u]} \cup graph.incoming[e]]
  /\ UNCHANGED <<count, meta, lookup, unused, calls, graph, jobs, worker>>

RepairForDeletion ==
  /\ main.pc = "unlink"
  /\ \E u \in main.todo :
       /\ graph' \in InplaceRepairs(graph, main.id, u, Deleted)
       /\ main' = [main EXCEPT !.todo = @ \ {u}]
  /\ UNCHANGED <<count, meta, lookup, unused, calls, jobs, worker>>

RemoveInplace ==
  LET e == ExecuteSwapJob(jobs, main.id, count, main.toRemove) IN
  /\ main.pc = "unlink" /\ main.todo = {}
  /\ graph' = RemoveAndSwap(graph, main.id, count, FALSE)
  /\ MoveLastTo(main.id)
  /\ jobs' = e.jobs
  /\ main' = [pc |-> "inplace", label |-> main.label, ind |-> main.ind + 1,
              toRemove |-> e.toRemove]
  /\ UNCHANGED <<unused, calls, worker>>

FinishInplace ==
  /\ main.pc = "inplace" /\ main.ind > Len(lookup[main.label])
  /\ lookup' = [lookup EXCEPT ![main.label] = <<>>]
  /\ jobs' = Erased(jobs, main.toRemove)
  /\ main' = Idle
  /\ UNCHANGED <<count, meta, unused, calls, graph, worker>>

-----------------------------------------------------------------------------
WorkerStep(w) ==
  \/ StoreNewElement(w)  \/ LockNeighbor(w)  \/ ConnectNext(w)
  \/ LockRevisited(w)    \/ RevisitNeighborConnections(w)  \/ UnmarkInProcess(w)
  \/ ExecuteRepairJob(w) \/ CollectNeighbors(w)  \/ CollectFromDeleted(w)
  \/ LockNodesToUpdate(w)  \/ CheckChosen(w)  \/ UpdateRepairedNode(w)

\* A call of the main thread begins, and goes on until it returns.
MainStart == StartGC \/ \E l \in Labels : MarkDelete(l) \/ StartInplace(l)

MainStep ==
  \/ CopyLinks \/ CheckNeighbor \/ CollectIncoming \/ CreateJobs
  \/ GCStep \/ FinishGC
  \/ NextInplace \/ RepairForDeletion \/ RemoveInplace \/ FinishInplace

Next == MainStart \/ MainStep \/ \E w \in Workers : WorkerStep(w)

Spec == Init /\ [][Next]_vars

-----------------------------------------------------------------------------
(* Properties.                                                             *)

JobsAlive  == {j \in RepairJobs : jobs.repair[j] # NoJob /\ jobs.repair[j].valid}

\* The elements that are marked deleted and have no swap job yet, and those of
\* them whose links have not been copied yet.
Uncollected == IF main.pc \in {"copy", "check", "create"} THEN Range(main.ids) ELSE {}
Marking     == CASE main.pc = "copy"                -> Range(main.ids)
                 [] main.pc \in {"check", "create"} -> Range(Tail(main.ids))
                 [] OTHER                           -> {}

\* Types of the state: ids in range, flags, and swap jobs that never count below zero.
TypeOK ==
  /\ count \in 0..Cardinality(Ids)
  /\ meta \in [Ids -> [vec : Vecs \cup {NoVec}, deleted : BOOLEAN, inProcess : BOOLEAN]]
  /\ \A i \in Ids : i \in Stored <=> meta[i].vec # NoVec
  /\ \A l \in Labels : Range(lookup[l]) \subseteq Ids
  /\ graph.links \in [Ids -> SUBSET Ids] /\ graph.incoming \in [Ids -> SUBSET Ids]
  /\ \A v \in Vecs : jobs.swap[v].pending >= 0

\* Whatever inserts, repairs and removals interleave, incomingUnidirectionalEdges
\* holds exactly the edges without an edge back, no list points to an id that is
\* not stored or holds one twice, and the asserts of hnsw.h hold.  Swaps of ids
\* rely on it: an edge they do not find keeps the old id (hnsw.h:1132-1192).
GraphIsExact == main.pc # "unlink" => graph.ok /\ GraphConsistent(graph, Stored)

\* The counter of a swap job is the number of times repair jobs that are filed and
\* valid are associated with it, and no such job refers to a swap job that is gone
\* (hnsw_tiered.h:385-411, 631-640, 291-301).
PendingIsExact ==
  \A v \in Vecs :
    LET n == Cardinality(Associations(jobs, JobsAlive, v))
    IN  IF HasSwap(jobs, v) THEN jobs.swap[v].pending = n ELSE n = 0

\* Every valid repair job is the only one filed for its node, and it is filed under
\* the id the node has now (hnsw_tiered.h:303-309, 623-634).
RepairJobsFollowNodes ==
  /\ \A j \in JobsAlive : jobs.byNode[jobs.repair[j].node] = {j} /\ jobs.repair[j].node \in Stored
  /\ \A i \in Ids : jobs.byNode[i] \subseteq JobsAlive

\* readySwapJobs, which decides when to collect garbage, is the number of swap jobs
\* without pending repairs (hnsw_tiered.h:811, 859).
ReadyIsExact ==
  OwnsMain \/ jobs.ready = Cardinality({v \in Vecs : HasSwap(jobs, v) /\ jobs.swap[v].pending = 0})

\* Every element marked deleted and collected has a swap job that will reclaim it:
\* idToSwapJob holds it under the id the element has now, the job itself names that
\* id, and nothing else has one.  "Update the swap jobs if the last id also needs a
\* swap" (hnsw_tiered.h:310).
DeletedHaveSwapJobs ==
  OwnsMain \/ \A i \in Ids :
    /\ jobs.bySwapId[i] = IF i \in Deleted \ Uncollected THEN meta[i].vec ELSE NoVec
    /\ jobs.bySwapId[i] # NoVec => jobs.swap[jobs.bySwapId[i]].id = i

\* Once a deleted element is collected, an edge into it is the concern of a repair
\* job associated with its swap job, or of a worker that is repairing the node: so
\* when the swap job is ready and no worker is active, no edge leads to the element
\* that is about to go (hnsw_tiered.h:623-642, 340-350).
EdgesIntoDeletedAreCovered ==
  \A i \in Stored, e \in Deleted \ Uncollected :
    e \in graph.links[i] =>
      \/ \E j \in jobs.byNode[i] : jobs.repair[j].swaps[meta[e].vec] > 0
      \/ \E w \in Workers : worker[w].pc = "repair" /\ worker[w].node = i
      \/ \E w \in Workers : /\ worker[w].pc \in {"candidates", "update"}
                            /\ worker[w].node = i /\ e \in worker[w].gone

\* Marks are set without node locks, so a worker that has read none may still link
\* to an element that is marked by now; but not once its collection has begun,
\* which takes the lock of the element first: from then on no step of any thread
\* adds an edge to it (hnsw.h:861, 928, 1403-1412, 1258), and those that are found
\* are all.
CollectedGainNoEdges ==
  [][count' >= count => \A i \in Stored, e \in Deleted \ Marking :
       e \in graph.links'[i] => e \in graph.links[i]]_vars

=============================================================================
