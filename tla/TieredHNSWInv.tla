--------------------------- MODULE TieredHNSWInv ---------------------------
(***************************************************************************)
(* The inductive invariants of the tiered index, single- or multi-value:   *)
(* what has to be known of every state for one step to preserve the        *)
(* invariants of TieredHNSW.  TieredInv is about the tiers and the jobs,   *)
(* and is proved in TieredHNSW_proofs; CallerInv adds what queries and     *)
(* callers see, and is proved in TieredHNSWCallers_proofs.  TLC checks     *)
(* both under MCTieredLive.cfg.                                            *)
(***************************************************************************)
EXTENDS TieredHNSW

\* The program points of addVector before it has stored its vector anywhere.
BeforeStored == {"del_flat", "del_flat_x", "del_hnsw", "gc", "recheck",
                 "add_inplace", "add_flat", "store", "store_x"}

\* The program points at which only an addVector call can be.
AddOnly == {"recheck", "add_inplace", "add_flat", "add_del_hnsw", "gc_add", "submit",
            "store", "store_x", "index"}

\* The main thread has a job in hand that it has not yet submitted.
Submitting == pc[MainThread] \in {"add_del_hnsw", "gc_add", "submit"}

Storing(t) == pc[t] \in {"store", "store_x"}

\* What the main thread's call is at each of its program points.
CallConsistent ==
  /\ op.kind = "add" => op.add = adds /\ adds \in Adds
  /\ op.kind # "add" => op.add = 0 /\ pc[MainThread] \notin AddOnly
  /\ op.kind = "none" => ~Busy
  /\ op.kind # "none" => op.label \in Labels

\* What has been said of a job's hands, one pair at a time; and numbers that
\* were not given to a call yet, or to the call that is about to store its
\* vector, name nothing.
JobsOwned ==
  /\ \A w \in Workers : pc[w] = "idle" <=> task[w] = NoJob
  /\ \A w \in Workers : task[w] # NoJob => HasJob(task[w]) /\ task[w] \notin queue
  /\ \A v, w \in Workers : task[v] = task[w] /\ task[w] # NoJob => v = w
  /\ \A a \in queue : HasJob(a)
  /\ Submitting => /\ HasJob(op.add) /\ op.add \notin queue
                   /\ \A w \in Workers : task[w] # op.add
  /\ \A a \in Adds : HasJob(a) => \/ a \in queue \/ \E w \in Workers : task[w] = a
                                  \/ Submitting /\ op.add = a

Fresh(a) == job[a] = NoJob /\ element[a] = NoElement

NewIsFresh ==
  /\ \A a \in Adds : a > adds => Fresh(a)
  /\ op.kind = "add" /\ pc[MainThread] \in BeforeStored => Fresh(op.add)
  /\ pc[MainThread] = "index" => job[op.add] = NoJob

\* A job that is not yet at "index" has no element.
NotStoredYet ==
  \A a \in Adds : HasJob(a) /\ element[a] # NoElement =>
    \E w \in Workers : task[w] = a /\ pc[w] \in {"index", "finish"}

\* Who is at a program point holds the locks that the point requires.
LocksHeld ==
  /\ \A w \in Workers : Storing(w) <=> w \in flatReaders
  /\ \A t \in Threads : pc[t] = "index" <=> t \in mainReaders \/ mainWriter = t
  /\ \A t \in Threads : dataGuard = t => pc[t] = "index"
  /\ \A t \in Threads : Storing(t) => blob[t] \in Adds

\* The lookup of the buffer lists the ids that carry a label, each once, and in
\* a single-value index at most one.
FlatLookupIsInverse ==
  \A l \in Labels :
    /\ Range(flat.ids[l]) = {i \in 1..Count(flat) : flat.labels[i] = l}
    /\ IsInjective(flat.ids[l])
    /\ ~IsMulti => Len(flat.ids[l]) <= 1

JobListsShort == ~IsMulti => \A l \in Labels : Len(labelToInsertJobs[l]) <= 1

\* In a single-value index a label that is in the buffer has nothing live in
\* HNSW, unless that is the buffered vector itself, on its way, or the call that
\* has just buffered it is about to delete the old vector.
BufferedNotInHNSW ==
  ~IsMulti => \A i \in 1..Count(flat) : LET l == flat.labels[i] IN
       lookup[l] # <<>> =>
         \/ /\ lookup[l] = <<flat.vectors[i]>>
            /\ \E w \in Workers : task[w] = flat.vectors[i] /\ pc[w] \in {"index", "finish"}
         \/ /\ pc[MainThread] = "add_del_hnsw" /\ op.label = l
            /\ flat.vectors[i] = op.add

\* A call that deletes its label, which the addVector of a multi-value index
\* does not, leaves nothing under it in the buffer, and then nothing in HNSW,
\* and no worker brings it back.
ClearsLabel == ~IsMulti \/ op.kind = "delete"

LabelCleared == ClearsLabel =>
  /\ pc[MainThread] \in {"del_hnsw", "gc", "recheck", "add_inplace", "store", "store_x"} =>
       ~IsLabelExists(flat, op.label)
  /\ pc[MainThread] \in {"gc", "recheck", "add_inplace", "store", "store_x"} =>
       lookup[op.label] = <<>>

\* The buffer has room for the vector that is about to be added.
RoomInFlat == pc[MainThread] = "add_flat" => Count(flat) < FlatLimit

\* Ids of invalid jobs were all handed out.
InvalidIdsOld == \A i \in DOMAIN invalidJobs : i < currInvalidJobId

\* The inductive invariant.
TieredInv ==
  /\ TypeOK /\ FlatLookupIsInverse /\ CallConsistent
  /\ JobsMatchFlat /\ JobListsShort /\ JobsOwned /\ NewIsFresh /\ NotStoredYet
  /\ LocksHeld /\ CopyIsCurrent
  /\ LookupMatchesElements /\ BufferedNotInHNSW /\ LabelCleared
  /\ InvalidJobsTracked /\ InvalidIdsOld
  /\ FlatWithinLimit /\ RoomInFlat

-----------------------------------------------------------------------------
(* What queries and callers see.                                            *)

\* The vectors that some tier holds, the ones in process among them.
Held == {r[2] : r \in FlatResults} \cup {element[a].vec : a \in {b \in Adds : Live(b)}}

\* An element has the vector of the call that it is named by.
ElementsAreOwn ==
  /\ \A a \in Adds : element[a] # NoElement => element[a].vec = a
  /\ Storing(MainThread) => blob[MainThread] = op.add

\* A vector on its way from the buffer is in both tiers under one label from
\* when it is stored until it leaves the buffer.  If a call has removed it
\* from the buffer, that call is about to remove it from HNSW as well.
IngestedInBoth ==
  \A w \in Workers : pc[w] \in {"index", "finish"} =>
    LET a == task[w]
    IN  /\ ValidJob(a) => Live(a)
        /\ Live(a) =>
             /\ element[a].label = job[a].label
             /\ pc[w] = "finish" => ~element[a].inProcess
             /\ \/ ValidJob(a)
                \/ /\ pc[MainThread] \in {"del_hnsw", "add_del_hnsw"}
                   /\ op.label = job[a].label

\* A call of addVector ends with its vector under its label, and in a
\* single-value index with no other.  Only a call that is to clear its label
\* deletes.
CallsEndWithOwn ==
  /\ Submitting => ValidJob(op.add) /\ job[op.add].label = op.label
  /\ pc[MainThread] = "index" =>
       /\ op.add \in Range(lookup[op.label])
       /\ ~IsMulti => Len(lookup[op.label]) = 1 /\ ~IsLabelExists(flat, op.label)
  /\ op.kind = "add" => op.add \notin op.before
  /\ pc[MainThread] \in {"del_flat", "del_flat_x", "del_hnsw", "gc", "add_del_hnsw"} =>
       ClearsLabel

\* A call that does not clear its label leaves what was there when it began.
BeforeStays == Busy /\ ~ClearsLabel => op.before = Visible(op.label) \ {op.add}

\* No call is about to take vector a from under label k.
Stays(a, k) == Busy /\ op.label = k => ~ClearsLabel /\ a # op.add

\* What a query was promised and has not read yet is still to be read; what
\* was gone when it began has neither come back nor been read.
QueryOnCourse(r) ==
  /\ \A x \in promised[r] : x[2] <= adds /\ Stays(x[2], x[1])
  /\ r \notin Watched => promised[r] = {}
  /\ query[r].pc = "flat" => promised[r] \subseteq FlatResults \cup MainResults
  /\ query[r].pc \in {"main", "search"} =>
       promised[r] \subseteq query[r].first \cup MainResults
  /\ query[r].pc = "done" => promised[r] \subseteq Result(r)
  /\ gone[r] \subseteq 1..adds /\ gone[r] \cap Held = {}
  /\ Busy => op.add \notin gone[r]
  /\ \A x \in Result(r) : x[2] \notin gone[r]

QueriesOnCourse == \A r \in Readers : QueryOnCourse(r)

\* The inductive invariant for the properties of queries and callers.
CallerInv == /\ TieredInv
             /\ ElementsAreOwn /\ IngestedInBoth /\ CallsEndWithOwn
             /\ BeforeStays /\ QueriesOnCourse

=============================================================================
