--------------------------- MODULE HNSWDeletionInv ---------------------------
(***************************************************************************)
(* The inductive invariant of HNSWDeletion in a single-value index: what   *)
(* has to be known of every state for one step of any thread to preserve   *)
(* the invariants of HNSWDeletion.  TLC checks it, HNSWDeletion_proofs     *)
(* proves it.                                                              *)
(***************************************************************************)
EXTENDS HNSWDeletion

\* A single-value index: no two vectors have a label in common.
SingleValue == IsInjective(LabelOf)

-----------------------------------------------------------------------------
(* Elements and labels.                                                     *)

\* Elements have vectors of their own, which are not to be added any more.
ElementsInv ==
  /\ count \in Nat /\ unused \subseteq Vecs /\ calls \in Nat
  /\ count + Cardinality(unused) <= Cardinality(Vecs)
  /\ meta \in [Ids -> [vec : Vecs \cup {NoVec}, deleted : BOOLEAN, inProcess : BOOLEAN]]
  /\ \A i \in Ids : i \in Stored <=> meta[i].vec # NoVec
  /\ \A i \in Stored : meta[i].vec \notin unused
  /\ \A i, k \in Stored : meta[i].vec = meta[k].vec => i = k

\* Between the removal of an element in place and the end of that deletion the
\* lookup still has the label, which is no element's any more.
Outdated(l) == main.pc = "inplace" /\ main.ind = 2 /\ main.label = l

LookupInv ==
  /\ lookup \in [Labels -> Seq(Ids)]
  /\ \A l \in Labels :
       /\ Len(lookup[l]) <= 1
       /\ {i \in Stored : ~meta[i].deleted /\ LabelOf[meta[i].vec] = l} =
            IF Outdated(l) THEN {} ELSE Range(lookup[l])

-----------------------------------------------------------------------------
(* The graph.                                                               *)

GraphType == [links : [Ids -> SUBSET Ids], incoming : [Ids -> SUBSET Ids], ok : BOOLEAN]

\* Links are among the nodes N, and within their bound.
Shaped(g, N) ==
  /\ g \in GraphType /\ g.ok
  /\ \A i \in Ids : g.links[i] \subseteq N \ {i} /\ Cardinality(g.links[i]) <= MaxLinks
  /\ \A i \in Ids \ N : g.links[i] = {}

\* incomingUnidirectionalEdges is right on the edge from u to v.
EdgeExact(g, u, v) == u \in g.incoming[v] <=> v \in g.links[u] /\ u \notin g.links[v]

Exact(g, N) == Shaped(g, N) /\ \A u, v \in Ids : EdgeExact(g, u, v)

\* The element e is being removed in place: the nodes todo still point to it.
Unlinking(g, N, e, todo) ==
  /\ Shaped(g, N)
  /\ \A u, v \in Ids \ {e} : EdgeExact(g, u, v)
  /\ \A u \in Ids : e \in g.links[u] <=> u \in todo
  /\ \A v \in Ids : e \in g.incoming[v] => v \in g.links[e]

GraphInv == IF main.pc = "unlink" THEN Unlinking(graph, Stored, main.id, main.todo)
                                  ELSE Exact(graph, Stored)

-----------------------------------------------------------------------------
(* What the workers do.                                                     *)

WorkerType ==
  {Idle} \cup [pc : {"connect"}, node : Ids, tried : SUBSET Ids]
         \cup [pc : {"link"}, node : Ids, target : Ids, tried : SUBSET Ids]
         \cup [pc : {"revisit"}, node : Ids, target : Ids, tried : SUBSET Ids,
               removed : SUBSET Ids]
         \cup [pc : {"relink"}, node : Ids, target : Ids, tried : SUBSET Ids,
               removed : SUBSET Ids, may : BOOLEAN]
         \cup [pc : {"repair"}, node : Ids]
         \cup [pc : {"candidates"}, node : Ids, orig : SUBSET Ids, gone : SUBSET Ids,
               todo : SUBSET Ids, cands : SUBSET Ids]
         \cup [pc : {"update"}, node : Ids, orig : SUBSET Ids, gone : SUBSET Ids,
               todo : SUBSET Ids, cands : SUBSET Ids, eligible : SUBSET Ids]

Inserting(w) == worker[w].pc \in {"connect", "link", "revisit", "relink"}
Targeting(w) == worker[w].pc \in {"link", "revisit", "relink"}
Repairing(w) == worker[w].pc \in {"candidates", "update"}

\* Only its worker links an element that is being inserted: so far the element
\* is linked to the neighbours that were tried, and not to the current one.
InsertInv(w) ==
  LET r == worker[w]
      n == worker[w].node
      linked == IF Targeting(w) THEN r.tried \ {r.target} ELSE r.tried
  IN  /\ meta[n].inProcess
      /\ r.tried \subseteq Stored \ {n} /\ \A s \in r.tried : ~meta[s].inProcess
      /\ Targeting(w) => r.target \in r.tried
      /\ r.pc = "link" => HasRoom(graph, n)
      /\ graph.links[n] \subseteq linked
      /\ \A s \in Ids : n \in graph.links[s] => s \in linked

\* A repair leaves the deleted neighbours it has found without a link, and adds
\* no link to or from a node that is being inserted.
RepairInv(w) ==
  LET r == worker[w]
  IN  /\ r.gone \subseteq r.orig \cap Deleted /\ r.cands \cap r.gone = {}
      /\ r.todo \subseteq Stored /\ r.cands \subseteq Stored \ {r.node}
      /\ r.pc = "update" =>
           /\ r.todo \cup r.eligible \subseteq r.cands
           /\ \A c \in r.eligible : ~meta[c].inProcess /\ ~meta[r.node].inProcess

\* The nodes that a worker that does r found alive under locks that it still holds.
FoundAlive(r) == CASE r.pc = "link"                      -> {r.node, r.target}
                   [] r.pc = "relink" /\ r.may           -> {r.node, r.target}
                   [] r.pc = "update" /\ r.eligible # {} -> {r.node} \cup r.eligible
                   [] OTHER                              -> {}

\* No two workers hold the same lock, and what one found alive and was marked
\* since then is not being collected yet.
LocksInv ==
  /\ \A v, w \in Workers : v # w => Locks(worker[v]) \cap Locks(worker[w]) = {}
  /\ \A w \in Workers : /\ FoundAlive(worker[w]) \subseteq Locks(worker[w])
                         /\ FoundAlive(worker[w]) \cap Deleted \subseteq Marking

WorkersInv ==
  /\ worker \in [Workers -> WorkerType]
  /\ \A w \in Workers :
       /\ worker[w].pc # "idle" => worker[w].node \in Stored
       /\ Inserting(w) => InsertInv(w)
       /\ Repairing(w) => RepairInv(w)
  /\ \A v, w \in Workers :
       Inserting(v) /\ Inserting(w) /\ worker[v].node = worker[w].node => v = w
  /\ LocksInv

-----------------------------------------------------------------------------
(* What the main thread does.                                               *)

MainType ==
  {Idle} \cup [pc : {"copy"}, ids : Seq(Ids)]
         \cup [pc : {"check"}, ids : Seq(Ids), todo : SUBSET Ids, found : [Ids -> Nat]]
         \cup [pc : {"create"}, ids : Seq(Ids), found : [Ids -> Nat]]
         \cup [pc : {"gc"}, todo : SUBSET Ids, toRemove : Seq(Ids)]
         \cup [pc : {"inplace"}, label : Labels, ind : {1, 2}, toRemove : Seq(Ids)]
         \cup [pc : {"unlink"}, label : Labels, ind : {1}, toRemove : Seq(Ids),
               id : Ids, todo : SUBSET Ids]

\* The nodes that point to the deleted element, while they are looked for: they
\* were found, are to be asked, or will be found in its incoming edges.
CollectInv ==
  /\ main.pc \in {"copy", "check", "create"} =>
       Len(main.ids) = 1 /\ Head(main.ids) \in Deleted
  /\ main.pc \in {"check", "create"} => \A i \in Ids : main.found[i] > 0 => i \in Stored
  /\ main.pc = "check" =>
       /\ main.todo \subseteq Stored
       /\ \A i \in Ids : Head(main.ids) \in graph.links[i] =>
            main.found[i] > 0 \/ i \in main.todo \/ i \in graph.incoming[Head(main.ids)]
  /\ main.pc = "create" =>
       \A i \in Ids : Head(main.ids) \in graph.links[i] => main.found[i] > 0

\* A deletion in place has one element to remove, and then none.
InplaceInv ==
  /\ main.pc \in {"inplace", "unlink"} =>
       Len(lookup[main.label]) = 1 /\ Len(main.toRemove) = main.ind - 1
  /\ main.pc = "unlink" => main.id = lookup[main.label][1]

MainInv ==
  /\ main \in MainType
  /\ OwnsMain => NoWorkerActive
  /\ CollectInv /\ InplaceInv

-----------------------------------------------------------------------------
(* Repair and swap jobs.                                                    *)

JobsType ==
  [repair   : [RepairJobs -> {NoJob} \cup [node : Ids, valid : BOOLEAN, swaps : [Vecs -> Nat]]],
   byNode   : [Ids -> SUBSET RepairJobs],
   swap     : [Vecs -> [id : Ids \cup {0}, pending : Int]],
   bySwapId : [Ids -> Vecs \cup {NoVec}],
   ready    : Int]

Alive(J) == {j \in RepairJobs : J.repair[j] # NoJob /\ J.repair[j].valid}

\* The valid repair jobs are filed, each under its node, one per node.
Filed(J, N) ==
  /\ \A j \in Alive(J) : J.byNode[J.repair[j].node] = {j} /\ J.repair[j].node \in N
  /\ \A i \in Ids : \A j \in J.byNode[i] : j \in Alive(J) /\ J.repair[j].node = i

\* The pending counter of every swap job.
Counted(J) ==
  \A v \in Vecs :
    J.swap[v].pending = IF HasSwap(J, v) THEN Cardinality(Associations(J, Alive(J), v)) ELSE 0

\* Only existing swap jobs have associations.
NoDangling(J) == \A j \in Alive(J), v \in Vecs : J.repair[j].swaps[v] > 0 => HasSwap(J, v)

\* Marked elements that are collected, and swap jobs, correspond one to one.
Collected == Deleted \ Uncollected

Reclaimed(J, D) ==
  /\ \A v \in Vecs : HasSwap(J, v) => J.swap[v].id \in D /\ meta[J.swap[v].id].vec = v
  /\ \A i \in D : J.swap[meta[i].vec].id = i

\* idToSwapJob has them by the current ids, and otherwise only what is about to
\* be removed from it.
ToRemove == IF OwnsMain THEN Range(main.toRemove) ELSE {}

Indexes(J, D, R) ==
  /\ \A i \in Ids \ R : J.bySwapId[i] = IF i \in D THEN meta[i].vec ELSE NoVec
  /\ R \cap D = {}

\* What garbage collection has yet to look at: ids of different swap jobs, each
\* the current one or one that the collection has left behind.
GCInv ==
  main.pc = "gc" => \A i \in main.todo :
    LET v == jobs.bySwapId[i] IN
    /\ v # NoVec /\ HasSwap(jobs, v)
    /\ jobs.swap[v].id = i \/ jobs.swap[v].id \notin main.todo
    /\ \A k \in main.todo : jobs.bySwapId[k] = v => k = i

ReadyJobs(J) == {v \in Vecs : HasSwap(J, v) /\ J.swap[v].pending = 0}

\* The part of readySwapJobs that will be subtracted when the jobs are erased.
Executed == CASE main.pc = "gc" -> Len(main.toRemove)
              [] main.pc \in {"inplace", "unlink"} -> 1
              [] OTHER -> 0

JobsInv ==
  /\ jobs \in JobsType
  /\ Filed(jobs, Stored) /\ Counted(jobs) /\ NoDangling(jobs)
  /\ Reclaimed(jobs, Collected) /\ Indexes(jobs, Collected, ToRemove) /\ GCInv
  /\ jobs.ready = Cardinality(ReadyJobs(jobs)) + Executed

\* The inductive invariant.
DeletionInv ==
  /\ ElementsInv /\ LookupInv /\ GraphInv /\ WorkersInv /\ MainInv /\ JobsInv
  /\ EdgesIntoDeletedAreCovered

=============================================================================
