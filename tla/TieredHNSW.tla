----------------------------- MODULE TieredHNSW -----------------------------
(***************************************************************************)
(* The tiered HNSW index: a flat write buffer in front of an HNSW index,   *)
(* one main thread that adds and deletes, workers that execute the insert  *)
(* jobs which move vectors from the buffer to HNSW, and queries that read  *)
(* first one tier and then the other.                                      *)
(*                                                                         *)
(* A vector, its insert job and its HNSW element are all named by the      *)
(* number of the addVector call that brought the vector.  HNSW is seen     *)
(* through its label lookup and its element flags: internal ids, the graph *)
(* and the repair and swap jobs are the subject of HNSWDeletion.           *)
(*                                                                         *)
(* A section of a call or a job under one exclusive lock, or under one     *)
(* shared lock that is released before the next lock is taken, is one      *)
(* step.  Locks held across steps are part of the state: the flat lock     *)
(* that a worker shares until its vector is stored, the main lock that it  *)
(* holds until the vector is indexed, with indexDataGuard for some         *)
(* vectors, and either lock while a query reads what it guards.            *)
(***************************************************************************)
EXTENDS FlatIndex, Integers, FiniteSets

CONSTANTS
  MaxAdds,      \* bound on the number of addVector calls
  FlatLimit,    \* flatBufferLimit
  Workers, Readers,
  Watched,      \* the readers whose results are kept
  MainThread, NoThread,
  NoJob, NoElement, NoBlob

Adds == 1..MaxAdds
Threads == Workers \cup {MainThread}

ASSUME BoundsAssumption == MaxAdds \in Nat /\ FlatLimit \in Nat
ASSUME IsMultiAssumption == IsMulti \in BOOLEAN
ASSUME ThreadsAssumption == MainThread \notin Workers /\ NoThread \notin Threads
ASSUME WatchedAssumption == Watched \subseteq Readers
ASSUME AbsentAssumption ==
  /\ NoBlob \notin Adds
  /\ NoJob \notin Adds \cup [label : Labels, id : Nat, isValid : BOOLEAN]
  /\ NoElement \notin
       [label : Labels, vec : Adds, inProcess : BOOLEAN, deleted : BOOLEAN]

VARIABLES
  \* the tiers
  flat,               \* frontendIndex, see FlatIndex
  element,            \* per add: its HNSW element, [label, vec, inProcess, deleted]
  lookup,             \* HNSW labelLookup: the elements of every label
  \* the insert jobs
  job,                \* per add: its insert job, [label, id, isValid]
  labelToInsertJobs,
  invalidJobs,        \* invalid id -> job
  currInvalidJobId,
  queue,              \* jobs submitted and not yet taken by a worker
  \* locks held across steps
  flatReaders,        \* threads sharing flatIndexGuard
  mainReaders,        \* threads sharing mainIndexGuard
  mainWriter,         \* the thread that holds mainIndexGuard exclusively
  dataGuard,          \* the thread that keeps HNSW's indexDataGuard
  \* control
  writeMode,
  pc,                 \* per thread of Threads
  op,                 \* the main thread's current call, [kind, label, add, ret]
  task,               \* per worker: the job in execution
  blob,               \* per thread: the vector it takes to HNSW
  adds,               \* number of addVector calls so far
  query,              \* per reader: [pc, first, second], the results of the tiers
  \* history, read by properties only
  promised,           \* per reader: the results its query may not miss
  gone                \* per reader: the vectors deleted before its query

tiers   == <<flat, element, lookup>>
jobs    == <<job, labelToInsertJobs, invalidJobs, currInvalidJobId>>
locks   == <<flatReaders, mainReaders, mainWriter, dataGuard>>
control == <<writeMode, pc, op, task, blob, adds>>
queries == <<query, promised, gone>>
vars    == <<tiers, jobs, queue, locks, control, queries>>

NoOp == [kind |-> "none", label |-> 0, add |-> 0, ret |-> 0, before |-> {}]
NoQuery == [pc |-> "idle", first |-> {}, second |-> {}]

Init ==
  /\ flat = EmptyFlat
  /\ element = [a \in Adds |-> NoElement]
  /\ lookup = [l \in Labels |-> <<>>]
  /\ job = [a \in Adds |-> NoJob]
  /\ labelToInsertJobs = [l \in Labels |-> <<>>]
  /\ invalidJobs = [i \in {} |-> 0]
  /\ currInvalidJobId = 0
  /\ queue = {}
  /\ flatReaders = {} /\ mainReaders = {} /\ mainWriter = NoThread
  /\ dataGuard = NoThread
  /\ writeMode \in {"async", "inplace"}
  /\ pc = [t \in Threads |-> "idle"]
  /\ op = NoOp
  /\ task = [w \in Workers |-> NoJob]
  /\ blob = [t \in Threads |-> NoBlob]
  /\ adds = 0
  /\ query = [r \in Readers |-> NoQuery]
  /\ promised = [r \in Readers |-> {}]
  /\ gone = [r \in Readers |-> {}]

-----------------------------------------------------------------------------
(* Locks.  Exclusive sections of the flat lock are single steps, so nobody *)
(* is ever seen holding it exclusively.                                    *)

\* Mutant: shared holds on the flat lock are not respected.
FlatAlwaysLockable == TRUE

\* The queries that hold a lock: one at a time, shared.
QueriesAt(p) == {r \in Readers : query[r].pc = p}

FlatLockable  == flatReaders = {} /\ QueriesAt("flat") = {}
MainShareable == mainWriter = NoThread
MainLockable  == mainWriter = NoThread /\ mainReaders = {} /\ QueriesAt("search") = {}

\* indexDataGuard is taken with the main lock held, for a single step unless
\* it is kept.  Who waits for it then keeps the main lock shared, which the
\* model leaves out: the guard's keeper has the main lock and waits for nothing.
DataGuardFree == dataGuard = NoThread

-----------------------------------------------------------------------------
(* What the two tiers hold.                                                *)

Live(a) == element[a] # NoElement /\ ~element[a].deleted

FlatResults == {<<flat.labels[i], flat.vectors[i]>> : i \in 1..Count(flat)}

\* A graph scan skips elements that are marked deleted or in process.
MainResults == {<<element[a].label, element[a].vec>> :
                   a \in {b \in Adds : Live(b) /\ ~element[b].inProcess}}

Visible(l) == {r[2] : r \in {x \in FlatResults \cup MainResults : x[1] = l}}

\* storeNewElement: in process before it is reachable through the lookup.
StoreElement(a, l, v) ==
  /\ element' = [element EXCEPT ![a] =
                   [label |-> l, vec |-> v, inProcess |-> TRUE, deleted |-> FALSE]]
  /\ lookup' = [lookup EXCEPT ![l] = IF IsMulti THEN Append(@, a) ELSE <<a>>]

\* Mutant: the label stays in the lookup.
MarkDeleteKeepLabel(l) ==
  /\ element' = [a \in Adds |-> IF a \in Range(lookup[l])
                                THEN [element[a] EXCEPT !.deleted = TRUE]
                                ELSE element[a]]
  /\ UNCHANGED lookup

\* Mutant: only the lookup forgets the elements, they are not marked.
UnlinkOnly(l) ==
  /\ UNCHANGED element
  /\ lookup' = [lookup EXCEPT ![l] = <<>>]

\* markDelete, the part of deleteLabelFromHNSW that labels depend on.
MarkDelete(l) ==
  /\ element' = [a \in Adds |-> IF a \in Range(lookup[l])
                                THEN [element[a] EXCEPT !.deleted = TRUE]
                                ELSE element[a]]
  /\ lookup' = [lookup EXCEPT ![l] = <<>>]

\* element with the elements of A disposed of.
Without(A) == [a \in Adds |-> IF a \in A THEN NoElement ELSE element[a]]

-----------------------------------------------------------------------------
(* The insert jobs.                                                        *)

\* setAndSaveInvalidJob on the jobs of the sequence js, one after the other:
\* an invalid job's id is its key in invalidJobs.
InvalidId(js, a) == currInvalidJobId + SelectInSeq(js, LAMBDA b : b = a) - 1

Invalidated(js) ==
  [a \in Adds |-> IF a \in Range(js)
                  THEN [label |-> job[a].label, id |-> InvalidId(js, a), isValid |-> FALSE]
                  ELSE job[a]]

SaveInvalid(js) ==
  /\ invalidJobs' = [i \in DOMAIN invalidJobs
                           \cup {InvalidId(js, a) : a \in Range(js)} |->
                       IF i < currInvalidJobId THEN invalidJobs[i]
                       ELSE js[i - currInvalidJobId + 1]]
  /\ currInvalidJobId' = currInvalidJobId + Len(js)

\* Mutant: the lookup keeps a job that was deleted.
KeepInvalid(i) == UNCHANGED invalidJobs

EraseInvalid(i) ==
  invalidJobs' = [j \in DOMAIN invalidJobs \ {i} |-> invalidJobs[j]]

\* Mutant: jobs keep the ids their vectors had before the removal.
NotRenamed(js, lists, updated) == js

\* updateInsertJobInternalId for every entry of an updated-ids map.  lists is
\* labelToInsertJobs as it is by then.  The code takes the entries in the order
\* of the map, which makes no difference: an id that a job gets is never the
\* previous id of another entry (RenamesDoNotMeet in FlatKinds_proofs).
Renamed(js, lists, updated) ==
  [a \in Adds |->
     IF \E i \in DOMAIN updated : /\ a \in Range(lists[updated[i][2]])
                                  /\ js[a].id = updated[i][1]
     THEN [js[a] EXCEPT !.id = CHOOSE i \in DOMAIN updated :
                                 /\ a \in Range(lists[updated[i][2]])
                                 /\ js[a].id = updated[i][1]]
     ELSE js[a]]

-----------------------------------------------------------------------------
(* The main thread: the calls.                                             *)

Busy == pc[MainThread] # "idle"

Goto(t, label) == pc' = [pc EXCEPT ![t] = label]

\* A call that replaces or removes what is stored under l ends the promise
\* that queries already running will return it.
EndPromises(l) ==
  promised' = [r \in Readers |-> {x \in promised[r] : x[1] # l}]

\* addVector: where the call goes first depends on the write mode and, read
\* without a lock, on the size of the flat buffer.
StartAdd(l) ==
  /\ ~Busy /\ adds < MaxAdds
  /\ adds' = adds + 1
  /\ op' = [kind |-> "add", label |-> l, add |-> adds + 1, ret |-> 1,
            before |-> Visible(l)]
  /\ Goto(MainThread,
       IF writeMode = "async" /\ Count(flat) < FlatLimit THEN "add_flat"
       ELSE IF ~IsMulti THEN "del_flat"
       ELSE IF writeMode = "inplace" THEN "add_inplace" ELSE "recheck")
  /\ IF IsMulti THEN UNCHANGED promised ELSE EndPromises(l)
  /\ UNCHANGED <<tiers, jobs, queue, locks, writeMode, task, blob, query, gone>>

StartDelete(l) ==
  /\ ~Busy
  /\ op' = [kind |-> "delete", label |-> l, add |-> 0, ret |-> 0,
            before |-> Visible(l)]
  /\ Goto(MainThread, "del_flat")
  /\ EndPromises(l)
  /\ UNCHANGED <<tiers, jobs, queue, locks, writeMode, task, blob, adds, query, gone>>

SetWriteMode ==
  /\ ~Busy
  /\ writeMode' = IF writeMode = "async" THEN "inplace" ELSE "async"
  /\ UNCHANGED <<tiers, jobs, queue, locks, pc, op, task, blob, adds, queries>>

-----------------------------------------------------------------------------
(* The main thread: deleteVector, which addVector calls as well.           *)

\* deleteVector's count is subtracted from the result of addVector.
Counted(n) == op' = [op EXCEPT !.ret = IF op.kind = "add" THEN @ - n ELSE @ + n]

AfterDelete == IF op.kind = "delete" THEN "idle"
               ELSE IF writeMode = "inplace" THEN "add_inplace" ELSE "recheck"

DeleteCheckFlat ==
  /\ pc[MainThread] = "del_flat"
  /\ Goto(MainThread, IF IsLabelExists(flat, op.label) THEN "del_flat_x" ELSE "del_hnsw")
  /\ UNCHANGED <<tiers, jobs, queue, locks, writeMode, op, task, blob, adds, queries>>

\* The exclusive lock is taken after the shared one was released, so the label
\* may have left the buffer in between.
DeleteFromFlat ==
  /\ pc[MainThread] = "del_flat_x" /\ FlatLockable
  /\ IF IsLabelExists(flat, op.label)
     THEN LET js    == labelToInsertJobs[op.label]
              r     == DeleteVectorAndGetUpdatedIds(flat, op.label)
              lists == [labelToInsertJobs EXCEPT ![op.label] = <<>>]
          IN  /\ flat' = r.flat
              /\ job' = Renamed(Invalidated(js), lists, r.updated)
              /\ SaveInvalid(js)
              /\ labelToInsertJobs' = lists
              /\ Counted(Len(js))
     ELSE UNCHANGED <<flat, jobs, op>>
  /\ Goto(MainThread, "del_hnsw")
  /\ UNCHANGED <<element, lookup, queue, locks, writeMode, task, blob, adds, queries>>

\* deleteLabelFromHNSW under the shared main lock; ready swap jobs may then
\* have reached their threshold.
DeleteFromHNSW ==
  /\ pc[MainThread] = "del_hnsw" /\ writeMode = "async" /\ MainShareable
  /\ DataGuardFree
  /\ MarkDelete(op.label)
  /\ Counted(Len(lookup[op.label]))
  /\ \E next \in {"gc", AfterDelete} : Goto(MainThread, next)
  /\ UNCHANGED <<flat, jobs, queue, locks, writeMode, task, blob, adds, queries>>

\* deleteLabelFromHNSWInplace under the exclusive main lock.
DeleteFromHNSWInplace ==
  /\ pc[MainThread] = "del_hnsw" /\ writeMode = "inplace" /\ MainLockable
  /\ element' = Without(Range(lookup[op.label]))
  /\ lookup' = [lookup EXCEPT ![op.label] = <<>>]
  /\ Counted(Len(lookup[op.label]))
  /\ Goto(MainThread, AfterDelete)
  /\ UNCHANGED <<flat, jobs, queue, locks, writeMode, task, blob, adds, queries>>

\* executeReadySwapJobs under the exclusive main lock: some of the elements
\* that are marked deleted are ready, and are disposed of.
ExecuteReadySwapJobs ==
  /\ pc[MainThread] \in {"gc", "gc_add"} /\ MainLockable
  /\ \E A \in SUBSET {a \in Adds : element[a] # NoElement /\ element[a].deleted} :
        element' = Without(A)
  /\ Goto(MainThread, IF pc[MainThread] = "gc" THEN AfterDelete ELSE "submit")
  /\ UNCHANGED <<flat, lookup, jobs, queue, locks, writeMode, op, task, blob, adds, queries>>

-----------------------------------------------------------------------------
(* The main thread: addVector.                                             *)

\* Write-in-place: HNSWIndex::addVector under the exclusive main lock, which
\* removes what a single-value lookup still has under the label.
AddInplace ==
  /\ pc[MainThread] = "add_inplace" /\ MainLockable
  /\ LET l == op.label
         old == IF IsMulti THEN {} ELSE Range(lookup[l])
     IN /\ element' = [Without(old) EXCEPT ![op.add] =
              [label |-> l, vec |-> op.add, inProcess |-> FALSE, deleted |-> FALSE]]
        /\ lookup' = [lookup EXCEPT ![l] = IF IsMulti THEN Append(@, op.add)
                                           ELSE <<op.add>>]
  /\ Goto(MainThread, "idle")
  /\ UNCHANGED <<flat, jobs, queue, locks, writeMode, op, task, blob, adds, queries>>

\* Mutant: the limit is exceeded by one.
RecheckFlatLimitOffByOne ==
  /\ pc[MainThread] = "recheck"
  /\ IF Count(flat) > FlatLimit
     THEN Goto(MainThread, "store") /\ blob' = [blob EXCEPT ![MainThread] = op.add]
     ELSE Goto(MainThread, "add_flat") /\ UNCHANGED blob
  /\ UNCHANGED <<tiers, jobs, queue, locks, writeMode, op, task, adds, queries>>

\* The buffer was full: is it still, now that the label was deleted from it?
RecheckFlatLimit ==
  /\ pc[MainThread] = "recheck"
  /\ IF Count(flat) >= FlatLimit
     THEN Goto(MainThread, "store") /\ blob' = [blob EXCEPT ![MainThread] = op.add]
     ELSE Goto(MainThread, "add_flat") /\ UNCHANGED blob
  /\ UNCHANGED <<tiers, jobs, queue, locks, writeMode, op, task, adds, queries>>

NewJob(l, id) == [label |-> l, id |-> id, isValid |-> TRUE]

\* A label that is in the buffer of a single-value index is overwritten where
\* it is, and its job is replaced by the new one.
OverwriteInFlat ==
  LET l  == op.label
      js == <<labelToInsertJobs[l][1]>>
      id == flat.ids[l][1]
  IN  /\ flat' = UpdateElement(flat, id, op.add)
      /\ job' = [Invalidated(js) EXCEPT ![op.add] = NewJob(l, id)]
      /\ SaveInvalid(js)
      /\ labelToInsertJobs' = [labelToInsertJobs EXCEPT ![l] = <<op.add>>]
      /\ op' = [op EXCEPT !.ret = 0]

AppendToFlat ==
  LET l == op.label
  IN  /\ flat' = AppendVector(flat, l, op.add)
      /\ job' = [job EXCEPT ![op.add] = NewJob(l, Count(flat) + 1)]
      /\ labelToInsertJobs' = [labelToInsertJobs EXCEPT ![l] = Append(@, op.add)]
      /\ UNCHANGED <<invalidJobs, currInvalidJobId, op>>

AddToFlat ==
  /\ pc[MainThread] = "add_flat" /\ FlatLockable
  /\ \/ ~IsMulti /\ IsLabelExists(flat, op.label) /\ OverwriteInFlat
     \/ (IsMulti \/ ~IsLabelExists(flat, op.label)) /\ AppendToFlat
  /\ \E next \in IF IsMulti THEN {"gc_add", "submit"} ELSE {"add_del_hnsw"} :
        Goto(MainThread, next)
  /\ UNCHANGED <<element, lookup, queue, locks, writeMode, task, blob, adds, queries>>

\* The value that was just overwritten may have reached HNSW meanwhile, and a
\* value that HNSW held before is outdated: deleteLabelFromHNSW, before the
\* new job is submitted.
AddDeletesOldFromHNSW ==
  /\ pc[MainThread] = "add_del_hnsw" /\ MainShareable /\ DataGuardFree
  /\ MarkDelete(op.label)
  /\ LET n == Len(lookup[op.label])
     IN  op' = [op EXCEPT !.ret = IF @ - n > 0 THEN @ - n ELSE 0]
  /\ \E next \in {"gc_add", "submit"} : Goto(MainThread, next)
  /\ UNCHANGED <<flat, jobs, queue, locks, writeMode, task, blob, adds, queries>>

SubmitInsertJob ==
  /\ pc[MainThread] = "submit"
  /\ queue' = queue \cup {op.add}
  /\ Goto(MainThread, "idle")
  /\ UNCHANGED <<tiers, jobs, locks, writeMode, op, task, blob, adds, queries>>

-----------------------------------------------------------------------------
(* insertVectorToHNSW, run by a worker for its job and by the main thread  *)
(* when the buffer is full.                                                *)

AddOf(t)   == IF t = MainThread THEN op.add ELSE task[t]
LabelOf(t) == IF t = MainThread THEN op.label ELSE job[task[t]].label

\* Mutant: the flat lock is still shared after storing.
StoreKeepFlat(t) ==
  /\ StoreElement(AddOf(t), LabelOf(t), blob[t])
  /\ dataGuard' \in {NoThread, t}
  /\ Goto(t, "index")
  /\ UNCHANGED <<flat, jobs, queue, flatReaders, writeMode, op, task, blob, adds, queries>>

\* Storing ends the worker's hold on the flat lock.  indexDataGuard is kept
\* when the element's level, which is left open, is above the entry point's.
StoreAndReleaseFlat(t) ==
  /\ StoreElement(AddOf(t), LabelOf(t), blob[t])
  /\ flatReaders' = flatReaders \ {t}
  /\ dataGuard' \in {NoThread, t}
  /\ Goto(t, "index")
  /\ UNCHANGED <<flat, jobs, queue, writeMode, op, task, blob, adds, queries>>

\* There is room in HNSW: the shared main lock is enough.
StoreShared(t) ==
  /\ pc[t] = "store" /\ MainShareable /\ DataGuardFree
  /\ mainReaders' = mainReaders \cup {t}
  /\ UNCHANGED mainWriter
  /\ StoreAndReleaseFlat(t)

\* HNSW is full: the shared lock is released and the exclusive one awaited.
\* When HNSW is full is left open.
FindFull(t) ==
  /\ pc[t] = "store" /\ MainShareable /\ DataGuardFree
  /\ Goto(t, "store_x")
  /\ UNCHANGED <<tiers, jobs, queue, locks, writeMode, op, task, blob, adds, queries>>

StoreExclusive(t) ==
  /\ pc[t] = "store_x" /\ MainLockable /\ DataGuardFree
  /\ mainWriter' = t
  /\ UNCHANGED mainReaders
  /\ StoreAndReleaseFlat(t)

\* Mutant: the main lock, if it is shared, is not released after indexing.
IndexKeepMain(t) ==
  /\ pc[t] = "index"
  /\ element' = [element EXCEPT ![AddOf(t)].inProcess = FALSE]
  /\ dataGuard' = IF dataGuard = t THEN NoThread ELSE dataGuard
  /\ mainWriter' = IF mainWriter = t THEN NoThread ELSE mainWriter
  /\ blob' = [blob EXCEPT ![t] = NoBlob]
  /\ Goto(t, IF t = MainThread THEN "idle" ELSE "finish")
  /\ UNCHANGED <<flat, lookup, jobs, queue, flatReaders, mainReaders, writeMode,
                 op, task, adds, queries>>

\* indexVector ends by unmarking the element; indexDataGuard, if it was kept,
\* and the main lock are released.
IndexVector(t) ==
  /\ pc[t] = "index"
  /\ element' = [element EXCEPT ![AddOf(t)].inProcess = FALSE]
  /\ dataGuard' = IF dataGuard = t THEN NoThread ELSE dataGuard
  /\ mainReaders' = mainReaders \ {t}
  /\ mainWriter' = IF mainWriter = t THEN NoThread ELSE mainWriter
  /\ blob' = [blob EXCEPT ![t] = NoBlob]
  /\ Goto(t, IF t = MainThread THEN "idle" ELSE "finish")
  /\ UNCHANGED <<flat, lookup, jobs, queue, flatReaders, writeMode, op, task, adds, queries>>

-----------------------------------------------------------------------------
(* The workers: executeInsertJob.                                          *)

\* Mutant: a job that was taken can be taken again.
TakeJobAgain(w, a) ==
  /\ pc[w] = "idle" /\ a \in queue
  /\ task' = [task EXCEPT ![w] = a]
  /\ Goto(w, "check")
  /\ UNCHANGED <<tiers, jobs, queue, locks, writeMode, op, blob, adds, queries>>

\* The job queue is the host's; it may hand out jobs in any order.
TakeJob(w, a) ==
  /\ pc[w] = "idle" /\ a \in queue
  /\ queue' = queue \ {a}
  /\ task' = [task EXCEPT ![w] = a]
  /\ Goto(w, "check")
  /\ UNCHANGED <<tiers, jobs, locks, writeMode, op, blob, adds, queries>>

JobDone(w) == /\ task' = [task EXCEPT ![w] = NoJob]
              /\ Goto(w, "idle")

DropInvalidJob(w) ==
  /\ pc[w] = "check" /\ ~job[task[w]].isValid
  /\ EraseInvalid(job[task[w]].id)
  /\ job' = [job EXCEPT ![task[w]] = NoJob]
  /\ JobDone(w)
  /\ UNCHANGED <<tiers, labelToInsertJobs, currInvalidJobId, queue, locks,
                 writeMode, op, blob, adds, queries>>

\* From here the worker shares the flat lock until its vector is stored.
CopyBlob(w) ==
  /\ pc[w] = "check" /\ job[task[w]].isValid
  /\ flatReaders' = flatReaders \cup {w}
  /\ blob' = [blob EXCEPT ![w] = flat.vectors[job[task[w]].id]]
  /\ Goto(w, "store")
  /\ UNCHANGED <<tiers, jobs, queue, mainReaders, mainWriter, dataGuard, writeMode,
                 op, task, adds, queries>>

\* Remove the job, found by its id, and the vector; the job of the vector that
\* takes its place gets its id.
RemoveIngested(w) ==
  LET j     == job[task[w]]
      i     == SelectInSeq(labelToInsertJobs[j.label], LAMBDA a : job[a].id = j.id)
      lists == [labelToInsertJobs EXCEPT ![j.label] = RemoveAt(@, i)]
      last  == Count(flat)
      moved == [k \in {j.id} \ {last} |-> <<last, flat.labels[last]>>]
  IN  /\ labelToInsertJobs' = lists
      /\ flat' = DeleteVectorById(flat, j.label, j.id)
      /\ job' = [Renamed(job, lists, moved) EXCEPT ![task[w]] = NoJob]
      /\ UNCHANGED <<invalidJobs, currInvalidJobId>>

FinishJob(w) ==
  /\ pc[w] = "finish" /\ FlatLockable
  /\ \/ job[task[w]].isValid /\ RemoveIngested(w)
     \/ /\ ~job[task[w]].isValid
        /\ EraseInvalid(job[task[w]].id)
        /\ job' = [job EXCEPT ![task[w]] = NoJob]
        /\ UNCHANGED <<flat, labelToInsertJobs, currInvalidJobId>>
  /\ JobDone(w)
  /\ UNCHANGED <<element, lookup, queue, locks, writeMode, op, blob, adds, queries>>

-----------------------------------------------------------------------------
(* Queries (topKQuery and rangeQuery with all vectors in range): the flat  *)
(* buffer under its shared lock, then HNSW under the shared main lock.  A   *)
(* query holds the lock for as long as it reads.  Of the readers that are   *)
(* not watched only the locks matter, and their results are not kept.       *)

\* Mutant: HNSW is read first.
ReadTierMainFirst(n) == IF n = 1 THEN MainResults ELSE FlatResults

\* The results of the tier that a query reads first, and of the other one.
ReadTier(n) == IF n = 1 THEN FlatResults ELSE MainResults

Kept(r, results) == IF r \in Watched THEN results ELSE {}

QueryStart(r) ==
  /\ query[r].pc = "idle"
  /\ query' = [query EXCEPT ![r] = [pc |-> "flat", first |-> {}, second |-> {}]]
  /\ promised' = [promised EXCEPT ![r] =
        Kept(r, {x \in FlatResults \cup MainResults :
            Busy => x[2] # op.add /\ (x[1] = op.label => op.kind = "add" /\ IsMulti)})]
  /\ gone' = [gone EXCEPT ![r] =
        Kept(r, {a \in 1..adds : /\ \A i \in 1..Count(flat) : flat.vectors[i] # a
                                 /\ \A b \in Adds : Live(b) => element[b].vec # a
                                 /\ Busy => op.add # a})]
  /\ UNCHANGED <<tiers, jobs, queue, locks, control>>

QueryFlat(r) ==
  /\ query[r].pc = "flat"
  /\ query' = [query EXCEPT ![r] = [pc |-> "main", first |-> Kept(r, ReadTier(1)),
                                      second |-> {}]]
  /\ UNCHANGED <<tiers, jobs, queue, locks, control, promised, gone>>

QueryLockMain(r) ==
  /\ query[r].pc = "main" /\ MainShareable
  /\ query' = [query EXCEPT ![r].pc = "search"]
  /\ UNCHANGED <<tiers, jobs, queue, locks, control, promised, gone>>

\* The search begins by reading the entry point under indexDataGuard.
QueryMain(r) ==
  /\ query[r].pc = "search" /\ DataGuardFree
  /\ query' = [query EXCEPT ![r] = [pc |-> "done", first |-> @.first,
                                      second |-> Kept(r, ReadTier(2))]]
  /\ UNCHANGED <<tiers, jobs, queue, locks, control, promised, gone>>

QueryReturn(r) ==
  /\ query[r].pc = "done"
  /\ query' = [query EXCEPT ![r] = NoQuery]
  /\ promised' = [promised EXCEPT ![r] = {}]
  /\ gone' = [gone EXCEPT ![r] = {}]
  /\ UNCHANGED <<tiers, jobs, queue, locks, control>>

-----------------------------------------------------------------------------
Call == SetWriteMode \/ \E l \in Labels : StartAdd(l) \/ StartDelete(l)

DeleteStep == \/ DeleteCheckFlat \/ DeleteFromFlat \/ DeleteFromHNSW
              \/ DeleteFromHNSWInplace \/ ExecuteReadySwapJobs

AddStep == \/ AddInplace \/ RecheckFlatLimit \/ AddToFlat
           \/ AddDeletesOldFromHNSW \/ SubmitInsertJob

InsertStep(t) == StoreShared(t) \/ FindFull(t) \/ StoreExclusive(t) \/ IndexVector(t)

MainStep == DeleteStep \/ AddStep \/ InsertStep(MainThread)

WorkerStep(w) == DropInvalidJob(w) \/ CopyBlob(w) \/ InsertStep(w) \/ FinishJob(w)

QueryStep(r) == QueryFlat(r) \/ QueryLockMain(r) \/ QueryMain(r) \/ QueryReturn(r)

Next == \/ Call \/ MainStep
        \/ \E w \in Workers : WorkerStep(w) \/ \E a \in Adds : TakeJob(w, a)
        \/ \E r \in Readers : QueryStart(r) \/ QueryStep(r)

Spec == Init /\ [][Next]_vars

-----------------------------------------------------------------------------
(* Fairness.  Threads run, submitted jobs are handed to workers, and a lock  *)
(* that is free again and again is eventually granted.  Nothing is assumed   *)
(* of queries, nor that a lock is ever free.                                 *)

Fairness ==
  /\ SF_vars(MainStep)
  /\ \A w \in Workers : SF_vars(WorkerStep(w))
  /\ WF_vars(\E w \in Workers, a \in Adds : TakeJob(w, a))

FairSpec == Spec /\ Fairness

-----------------------------------------------------------------------------
(* Invariants *)

HasJob(a)   == job[a] # NoJob
ValidJob(a) == HasJob(a) /\ job[a].isValid

WorkerPc == {"idle", "check", "store", "store_x", "index", "finish"}
MainPc   == {"idle", "del_flat", "del_flat_x", "del_hnsw", "gc", "recheck",
             "add_inplace", "add_flat", "add_del_hnsw", "gc_add", "submit",
             "store", "store_x", "index"}

TiersType ==
  /\ flat \in [labels : Seq(Labels), vectors : Seq(Adds), ids : [Labels -> Seq(Nat \ {0})]]
  /\ Len(flat.labels) = Len(flat.vectors)
  /\ element \in [Adds -> {NoElement} \cup
        [label : Labels, vec : Adds, inProcess : BOOLEAN, deleted : BOOLEAN]]
  /\ lookup \in [Labels -> Seq(Adds)]

JobsType ==
  /\ job \in [Adds -> {NoJob} \cup [label : Labels, id : Nat, isValid : BOOLEAN]]
  /\ labelToInsertJobs \in [Labels -> Seq(Adds)]
  /\ currInvalidJobId \in Nat
  /\ DOMAIN invalidJobs \subseteq Nat /\ invalidJobs \in [DOMAIN invalidJobs -> Adds]
  /\ queue \subseteq Adds

LocksType ==
  /\ flatReaders \subseteq Workers /\ mainReaders \subseteq Threads
  /\ mainWriter \in Threads \cup {NoThread} /\ dataGuard \in Threads \cup {NoThread}

ControlType ==
  /\ writeMode \in {"async", "inplace"}
  /\ pc \in [Threads -> WorkerPc \cup MainPc]
  /\ pc[MainThread] \in MainPc /\ \A w \in Workers : pc[w] \in WorkerPc
  /\ op \in [kind : {"none", "add", "delete"}, label : Labels \cup {0},
             add : 0..MaxAdds, ret : Int, before : SUBSET Adds]
  /\ task \in [Workers -> Adds \cup {NoJob}]
  /\ blob \in [Threads -> Adds \cup {NoBlob}]
  /\ adds \in 0..MaxAdds

QueriesType ==
  /\ query \in [Readers -> [pc : {"idle", "flat", "main", "search", "done"},
                            first : SUBSET (Labels \X Adds),
                            second : SUBSET (Labels \X Adds)]]
  /\ promised \in [Readers -> SUBSET (Labels \X Adds)]
  /\ gone \in [Readers -> SUBSET Adds]

\* Every variable holds what the code declares it to hold.
TypeOK == TiersType /\ JobsType /\ LocksType /\ ControlType /\ QueriesType

\* The valid jobs and the buffered vectors correspond one to one, through the
\* ids that removals from the buffer keep changing: a job's id always leads to
\* the vector it was created for, and labelToInsertJobs lists exactly them.
JobsMatchFlat ==
  /\ \A i \in 1..Count(flat) : LET a == flat.vectors[i] IN
        ValidJob(a) /\ job[a].id = i /\ job[a].label = flat.labels[i]
  /\ \A a \in Adds : ValidJob(a) =>
        /\ job[a].id \in 1..Count(flat) /\ flat.vectors[job[a].id] = a
        /\ a \in Range(labelToInsertJobs[job[a].label])
  /\ \A l \in Labels : /\ IsInjective(labelToInsertJobs[l])
                       /\ \A a \in Range(labelToInsertJobs[l]) :
                            ValidJob(a) /\ job[a].label = l

\* Invalid jobs are found under their id in invalidJobs until a worker drops
\* them: the destructor frees each exactly once, and no live one.
InvalidJobsTracked ==
  /\ \A a \in Adds : HasJob(a) /\ ~job[a].isValid =>
        job[a].id \in DOMAIN invalidJobs /\ invalidJobs[job[a].id] = a
  /\ \A i \in DOMAIN invalidJobs :
        LET a == invalidJobs[i] IN HasJob(a) /\ ~job[a].isValid /\ job[a].id = i

\* Every job is in one pair of hands: about to be submitted, in the queue, or
\* executed by one worker; nobody holds a job that was deleted.
JobsHeldOnce ==
  \A a \in Adds :
    LET holders == {w \in Workers : task[w] = a}
                   \cup {q \in {"queue"} : a \in queue}
                   \cup {q \in {"main"} : op.add = a /\
                           pc[MainThread] \in {"add_del_hnsw", "gc_add", "submit"}}
    IN  Cardinality(holders) = IF HasJob(a) THEN 1 ELSE 0

\* A worker that is about to store its copy holds the current value: nobody
\* can overwrite, delete or move it before it is in HNSW, because the flat lock
\* stays shared.  And what it indexes is still there while it does.
CopyIsCurrent ==
  /\ \A w \in Workers : pc[w] \in {"store", "store_x"} =>
        ValidJob(task[w]) /\ flat.vectors[job[task[w]].id] = blob[w]
  /\ \A t \in Threads : pc[t] = "index" =>
        element[AddOf(t)] # NoElement /\ element[AddOf(t)].inProcess

\* The HNSW lookup lists exactly the elements that are not marked deleted; in
\* a single-value index a label never has two ("overwrite should not occur").
LookupMatchesElements ==
  \A l \in Labels :
    /\ Range(lookup[l]) = {a \in Adds : Live(a) /\ element[a].label = l}
    /\ IsInjective(lookup[l])
    /\ ~IsMulti => Len(lookup[l]) <= 1

\* The size check of addVector is made without the flat lock, yet the buffer
\* never exceeds its limit, since only the main thread adds to it.
FlatWithinLimit == Count(flat) <= FlatLimit

Result(r) == query[r].first \cup query[r].second

\* "All read operations are guaranteed to consider all vectors that were added
\* to the index before the query was submitted": a vector that is not deleted
\* or overwritten meanwhile is not missed although it changes tiers.
QueriesAreComplete ==
  \A r \in Readers : query[r].pc = "done" => promised[r] \subseteq Result(r)

\* No query returns a vector whose deletion or overwrite was over before the
\* query began: no late insert job brings it back.
QueriesSeeNoDeleted ==
  \A r \in Readers : \A x \in Result(r) : x[2] \notin gone[r]

-----------------------------------------------------------------------------
(* Refinement: seen by its callers the index is a VectorStore.  A call takes *)
(* effect when it returns; what workers do is invisible.                     *)

Store == INSTANCE VectorStore WITH
  Vectors <- Adds,
  content <- [l \in Labels |-> IF Busy /\ op.label = l THEN op.before ELSE Visible(l)]

ImplementsStore == Store!Spec

-----------------------------------------------------------------------------
(* Liveness *)

\* Both locks admit any number of queries at a time, and nothing in the code
\* keeps the next one from sharing a lock before the last one has released it.
\* So what follows depends on the callers: again and again there is a moment
\* when no query reads the buffer, and one when none searches HNSW.
QueriesLeaveLocks == []<>(QueriesAt("flat") = {}) /\ []<>(QueriesAt("search") = {})

\* Then every submitted insert job is executed and leaves the system.
JobsComplete == QueriesLeaveLocks => \A a \in Adds : a \in queue ~> ~HasJob(a)

\* Then every call returns: the lock upgrades and the waits for workers and
\* queries never leave the main thread stuck.
CallsReturn == QueriesLeaveLocks => (Busy ~> ~Busy)

-----------------------------------------------------------------------------
(* A statement of the documentation that the code does not keep.            *)

\* vec_sim_tiered_index.h merges the two result lists of a single-value index
\* "assuming that shared IDs across lists also have identical scores".
SharedIdsHaveSameScore ==
  \A r \in Readers : \A x \in query[r].first, y \in query[r].second :
    x[1] = y[1] => x[2] = y[2]

=============================================================================
