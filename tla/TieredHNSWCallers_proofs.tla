---------------------- MODULE TieredHNSWCallers_proofs ----------------------
(***************************************************************************)
(* What queries and callers of the tiered index see, single- or            *)
(* multi-value, for every number of labels, vectors, workers and readers:  *)
(* queries are complete and see nothing that was deleted, and the index    *)
(* implements VectorStore.  The proof shows that CallerInv is inductive:   *)
(* one lemma per action says what it moves (Moves) and that the parts of   *)
(* CallerInv which are about the tiers are kept.                           *)
(***************************************************************************)
EXTENDS TieredHNSW_proofs

\* Vector a is in the flat buffer under label k, and a scan of HNSW finds it.
Buffered(a, k) == ValidJob(a) /\ job[a].label = k
Indexed(a, k)  == Live(a) /\ ~element[a].inProcess /\ element[a].label = k

TiersInv == ElementsAreOwn /\ IngestedInBoth /\ CallsEndWithOwn

\* What a step may do to the content of the tiers.
Moves ==
  /\ \A a \in Adds, k \in Labels : Stays(a, k) =>
       /\ Buffered(a, k)' \/ Indexed(a, k)' <=> Buffered(a, k) \/ Indexed(a, k)
       /\ Indexed(a, k) => Indexed(a, k)'
  /\ \A a \in Adds : ValidJob(a)' \/ Live(a)' =>
       ValidJob(a) \/ Live(a) \/ (Busy /\ a = op.add)

\* A step that ends a call leaves the call's vector under its label, and nothing
\* else if the call clears it.
Returns ==
  Busy /\ ~Busy' =>
    /\ op.kind = "add" => Buffered(op.add, op.label)' \/ Indexed(op.add, op.label)'
    /\ ClearsLabel =>
         \A a \in Adds : Buffered(a, op.label)' \/ Indexed(a, op.label)'
                           => op.kind = "add" /\ a = op.add

\* A step that neither begins a call nor changes what it is about.
SameCall ==
  /\ Busy' => Busy
  /\ op'.kind = op.kind /\ op'.label = op.label
  /\ op'.add = op.add /\ op'.before = op.before

\* The records of the jobs and of the elements.
LEMMA RecordTypes ==
  ASSUME TieredInv
  PROVE  /\ \A a \in Adds : HasJob(a) =>
              job[a] \in [label : Labels, id : Nat, isValid : BOOLEAN]
         /\ \A a \in Adds : element[a] # NoElement =>
              element[a] \in [label : Labels, vec : Adds, inProcess : BOOLEAN,
                              deleted : BOOLEAN]
BY DEF TieredInv, TypeOK, JobsType, TiersType, HasJob

\* A valid job's label is in the buffer, and in a single-value index has no other
\* valid job.
LEMMA ValidJobs ==
  ASSUME TieredInv, NEW a \in Adds, ValidJob(a)
  PROVE  /\ job[a].label \in Labels
         /\ IsLabelExists(flat, job[a].label)
         /\ flat.vectors[job[a].id] = a
         /\ ~IsMulti => \A b \in Adds : ValidJob(b) /\ job[b].label = job[a].label => a = b
<1>1. job[a].label \in Labels
  BY RecordTypes DEF ValidJob
<1>2. PICK i \in 1..Count(flat) : flat.vectors[i] = a /\ i = job[a].id
  BY DEF TieredInv, JobsMatchFlat
<1>3. flat.labels[i] = job[a].label
  BY <1>2 DEF TieredInv, JobsMatchFlat
<1>4. IsLabelExists(flat, job[a].label)
  BY <1>1, <1>3, LabelsInBuffer
<1>5. ASSUME ~IsMulti, NEW b \in Adds, ValidJob(b), job[b].label = job[a].label
      PROVE  a = b
  <2>1. PICK j \in 1..Count(flat) : flat.vectors[j] = b /\ j = job[b].id
    BY <1>5 DEF TieredInv, JobsMatchFlat
  <2>2. flat.labels[j] = job[a].label
    BY <1>5, <2>1 DEF TieredInv, JobsMatchFlat
  <2>3. j = i
    BY <1>1, <1>3, <1>5, <2>2, OneId
  <2>4. QED
    BY <1>2, <2>1, <2>3
<1>6. QED
  BY <1>1, <1>2, <1>4, <1>5

\* What the tiers hold, by vector: the buffer through the jobs, HNSW through
\* the elements.
LEMMA WhatIsSeen ==
  TieredInv /\ ElementsAreOwn =>
    /\ FlatResults = {x \in Labels \X Adds : Buffered(x[2], x[1])}
    /\ MainResults = {x \in Labels \X Adds : Indexed(x[2], x[1])}
    /\ \A k \in Labels : Visible(k) = {a \in Adds : Buffered(a, k) \/ Indexed(a, k)}
    /\ Held = {a \in Adds : ValidJob(a) \/ Live(a)}
<1> SUFFICES ASSUME TieredInv, ElementsAreOwn
             PROVE  /\ FlatResults = {x \in Labels \X Adds : Buffered(x[2], x[1])}
                    /\ MainResults = {x \in Labels \X Adds : Indexed(x[2], x[1])}
                    /\ \A k \in Labels :
                         Visible(k) = {a \in Adds : Buffered(a, k) \/ Indexed(a, k)}
                    /\ Held = {a \in Adds : ValidJob(a) \/ Live(a)}
  OBVIOUS
<1>1. \A i \in 1..Count(flat) : flat.labels[i] \in Labels /\ flat.vectors[i] \in Adds
  BY CountType DEF TieredInv, TypeOK, TiersType, FlatOf
<1>2. FlatResults = {x \in Labels \X Adds : Buffered(x[2], x[1])}
  <2>1. ASSUME NEW x \in FlatResults
        PROVE  x \in Labels \X Adds /\ Buffered(x[2], x[1])
    BY <1>1 DEF FlatResults, TieredInv, JobsMatchFlat, Buffered
  <2>2. ASSUME NEW x \in Labels \X Adds, Buffered(x[2], x[1])
        PROVE  x \in FlatResults
    <3>1. PICK i \in 1..Count(flat) : flat.vectors[i] = x[2] /\ flat.labels[i] = x[1]
      BY <2>2 DEF TieredInv, JobsMatchFlat, Buffered
    <3>2. QED
      BY <3>1, <2>2 DEF FlatResults
  <2>3. QED
    BY <2>1, <2>2
<1>3. MainResults = {x \in Labels \X Adds : Indexed(x[2], x[1])}
  BY RecordTypes DEF MainResults, ElementsAreOwn, Indexed, Live
<1>4. ASSUME NEW k \in Labels
      PROVE  Visible(k) = {a \in Adds : Buffered(a, k) \/ Indexed(a, k)}
  <2>1. ASSUME NEW a \in Visible(k)
        PROVE  a \in Adds /\ (Buffered(a, k) \/ Indexed(a, k))
    BY <1>2, <1>3 DEF Visible
  <2>2. ASSUME NEW a \in Adds, Buffered(a, k) \/ Indexed(a, k)
        PROVE  a \in Visible(k)
    <3>1. <<k, a>> \in FlatResults \cup MainResults
      BY <2>2, <1>2, <1>3
    <3>2. QED
      BY <3>1 DEF Visible
  <2>3. QED
    BY <2>1, <2>2
<1>5. Held = {a \in Adds : ValidJob(a) \/ Live(a)}
  <2>1. \A a \in Adds : ValidJob(a) => <<job[a].label, a>> \in FlatResults
    BY <1>2, ValidJobs DEF Buffered
  <2>2. \A x \in FlatResults : x[2] \in Adds /\ ValidJob(x[2])
    BY <1>2 DEF Buffered
  <2>3. ASSUME NEW a \in Adds, ValidJob(a)
        PROVE  a \in {r[2] : r \in FlatResults}
    <3>1. <<job[a].label, a>> \in FlatResults /\ <<job[a].label, a>>[2] = a
      BY <2>1, <2>3
    <3>2. QED
      BY <3>1
  <2>4. \A a \in Adds : Live(a) => element[a].vec = a
    BY DEF Live, ElementsAreOwn
  <2>5. QED
    BY <2>2, <2>3, <2>4 DEF Held
<1>6. QED
  BY <1>2, <1>3, <1>4, <1>5

\* The same of the next state.
LEMMA WhatIsSeenNext ==
  (TieredInv /\ ElementsAreOwn)' =>
    (/\ FlatResults = {x \in Labels \X Adds : Buffered(x[2], x[1])}
     /\ MainResults = {x \in Labels \X Adds : Indexed(x[2], x[1])}
     /\ \A k \in Labels : Visible(k) = {a \in Adds : Buffered(a, k) \/ Indexed(a, k)}
     /\ Held = {a \in Adds : ValidJob(a) \/ Live(a)})'
BY WhatIsSeen, PTL

-----------------------------------------------------------------------------
(* Steps that leave tiers and jobs alone.                                   *)

\* A step that changes no element and no job moves nothing.
LEMMA NothingMoves ==
  ASSUME CallerInv, UNCHANGED <<flat, element, lookup, job>>,
         \A w \in Workers : pc'[w] \in {"index", "finish"} =>
            pc'[w] = pc[w] /\ task'[w] = task[w],
         pc[MainThread] \in {"del_hnsw", "add_del_hnsw"} =>
            pc'[MainThread] = pc[MainThread] /\ op'.label = op.label,
         Storing(MainThread)' => blob'[MainThread] = op'.add,
         Submitting' => Submitting /\ op'.add = op.add /\ op'.label = op.label,
         pc'[MainThread] = "index" =>
            pc[MainThread] = "index" /\ op'.add = op.add /\ op'.label = op.label,
         op'.kind = "add" => op'.add \notin op'.before,
         pc'[MainThread] \in {"del_flat", "del_flat_x", "del_hnsw", "gc", "add_del_hnsw"} =>
            ClearsLabel'
  PROVE  TiersInv' /\ Moves
<1>1. \A a \in Adds : (ValidJob(a)' <=> ValidJob(a)) /\ (Live(a)' <=> Live(a))
  BY DEF ValidJob, HasJob, Live
<1>2. Moves
  BY <1>1 DEF Moves, Buffered, Indexed
<1>3. ElementsAreOwn'
  BY DEF CallerInv, ElementsAreOwn
<1>4. IngestedInBoth'
  BY DEF CallerInv, IngestedInBoth, ValidJob, HasJob, Live
<1>5. CallsEndWithOwn'
  BY DEF CallerInv, CallsEndWithOwn, ValidJob, HasJob, IsLabelExists
<1>6. QED
  BY <1>2, <1>3, <1>4, <1>5 DEF TiersInv

\* Switching the write mode, and what queries do, moves nothing.
LEMMA OthersMove ==
  ASSUME CallerInv, \/ SetWriteMode \/ UNCHANGED vars
                    \/ \E r \in Readers : QueryStart(r) \/ QueryStep(r)
  PROVE  TiersInv' /\ Moves /\ Returns /\ SameCall
<1>1. UNCHANGED <<flat, element, lookup, job, pc, op, task, blob>>
  BY DEF SetWriteMode, vars, control, tiers, jobs, QueryStart, QueryStep, QueryFlat,
         QueryLockMain, QueryMain, QueryReturn
<1>2. Busy' <=> Busy
  BY <1>1 DEF Busy
<1>3. /\ Storing(MainThread)' => blob'[MainThread] = op'.add
      /\ Submitting' <=> Submitting
      /\ op.kind = "add" => op.add \notin op.before
      /\ pc'[MainThread] \in {"del_flat", "del_flat_x", "del_hnsw", "gc", "add_del_hnsw"} =>
           ClearsLabel'
  BY <1>1 DEF CallerInv, ElementsAreOwn, Storing, Submitting, CallsEndWithOwn, ClearsLabel
<1>4. TiersInv' /\ Moves
  BY <1>1, <1>3, NothingMoves
<1>5. QED
  BY <1>1, <1>2, <1>4 DEF Returns, SameCall

\* A vector whose number was not given out yet is nowhere.
LEMMA FreshIsUnseen ==
  ASSUME TieredInv, ElementsAreOwn
  PROVE  /\ \A k \in Labels : Visible(k) \subseteq Adds /\ \A a \in Visible(k) : a <= adds
         /\ \A x \in FlatResults \cup MainResults : x[2] <= adds
<1>1. \A a \in Adds : a > adds => Fresh(a)
  BY DEF TieredInv, NewIsFresh
<1>2. adds \in Nat /\ Adds \subseteq Nat
  BY BoundsAssumption DEF TieredInv, TypeOK, ControlType, Adds
<1>3. \A a \in Adds : a > adds \/ a <= adds
  BY <1>2
<1>4. \A a \in Adds : Fresh(a) => \A k \in Labels : ~Buffered(a, k) /\ ~Indexed(a, k)
  BY DEF Fresh, Buffered, Indexed, ValidJob, HasJob, Live
<1>5. \A a \in Adds, k \in Labels : Buffered(a, k) \/ Indexed(a, k) => a <= adds
  BY <1>1, <1>3, <1>4
<1>6. \A k \in Labels : Visible(k) = {a \in Adds : Buffered(a, k) \/ Indexed(a, k)}
  BY WhatIsSeen
<1>7. /\ \A x \in FlatResults : x \in Labels \X Adds /\ Buffered(x[2], x[1])
      /\ \A x \in MainResults : x \in Labels \X Adds /\ Indexed(x[2], x[1])
  BY WhatIsSeen
<1>8. QED
  BY <1>5, <1>6, <1>7

\* A call begins: its vector has a number that no label had before, and if it is
\* to clear its label it ends the promises about it.
LEMMA StartMoves ==
  ASSUME CallerInv, NEW l \in Labels, StartAdd(l) \/ StartDelete(l)
  PROVE  /\ TiersInv' /\ Moves
         /\ ~Busy /\ Busy' /\ op'.label = l /\ op'.before = Visible(l)
         /\ op'.add = 0 \/ op'.add > adds
         /\ op'.add \notin Visible(l)
         /\ \A r \in Readers : /\ promised'[r] \subseteq promised[r]
                               /\ ClearsLabel' => \A x \in promised'[r] : x[1] # l
         /\ UNCHANGED <<flat, element, lookup, job, query, gone>>
<1>1. /\ ~Busy /\ op'.label = l /\ op'.before = Visible(l)
      /\ UNCHANGED <<flat, element, lookup, job, task, blob, query, gone>>
  BY DEF StartAdd, StartDelete, tiers, jobs
<1>2. PICK y \in {"add_flat", "del_flat", "add_inplace", "recheck"} :
         Goto(MainThread, y) /\ (y = "del_flat" => ClearsLabel')
  <2>1. CASE StartAdd(l)
    BY <2>1 DEF StartAdd, ClearsLabel
  <2>2. CASE StartDelete(l)
    BY <2>2 DEF StartDelete, ClearsLabel
  <2>3. QED
    BY <2>1, <2>2
<1>3. /\ pc'[MainThread] = y /\ \A w \in Workers : pc'[w] = pc[w]
  BY <1>2, GotoFacts, ThreadsAssumption
  DEF CallerInv, TieredInv, TypeOK, Threads, MainPc
<1>4. /\ op'.kind = "add" => op'.add = adds + 1
      /\ op'.add = 0 \/ op'.add = adds + 1
  BY DEF StartAdd, StartDelete
<1>5. adds \in Nat
  BY BoundsAssumption DEF CallerInv, TieredInv, TypeOK, ControlType
<1>6. op'.add \notin Visible(l)
  <2>1. Visible(l) \subseteq Adds /\ \A a \in Visible(l) : a <= adds
    BY FreshIsUnseen DEF CallerInv
  <2>2. \A a \in Adds : a \in Nat /\ a # 0
    BY BoundsAssumption DEF Adds
  <2>3. QED
    BY <1>4, <1>5, <2>1, <2>2
<1>7. TiersInv' /\ Moves
  BY <1>1, <1>2, <1>3, <1>6, NothingMoves DEF Storing, Submitting, Busy
<1>8. \A r \in Readers : /\ promised'[r] \subseteq promised[r]
                         /\ ClearsLabel' => \A x \in promised'[r] : x[1] # l
  <2>1. CASE promised' = [r \in Readers |-> {x \in promised[r] : x[1] # l}]
    BY <2>1
  <2>2. CASE promised' = promised /\ ~ClearsLabel'
    BY <2>2
  <2>3. QED
    BY <2>1, <2>2 DEF StartAdd, StartDelete, EndPromises, ClearsLabel
<1>9. QED
  BY <1>1, <1>3, <1>4, <1>5, <1>6, <1>7, <1>8 DEF Busy

\* Steps of a call that only look, or hand the call's vector on.
LEMMA LookingMoves ==
  ASSUME CallerInv, DeleteCheckFlat \/ RecheckFlatLimit
  PROVE  TiersInv' /\ Moves /\ Returns /\ SameCall
<1>1. /\ pc[MainThread] \in {"del_flat", "recheck"}
      /\ UNCHANGED <<flat, element, lookup, job, op, task>>
  BY DEF DeleteCheckFlat, RecheckFlatLimit, tiers, jobs
<1>2. PICK y \in {"del_flat_x", "del_hnsw", "store", "add_flat"} :
         /\ Goto(MainThread, y)
         /\ y = "store" => blob' = [blob EXCEPT ![MainThread] = op.add]
         /\ y \in {"del_flat_x", "del_hnsw"} => pc[MainThread] = "del_flat"
  BY DEF DeleteCheckFlat, RecheckFlatLimit
<1>3. /\ pc'[MainThread] = y
      /\ \A w \in Workers : pc'[w] = pc[w]
  BY <1>2, GotoFacts, ThreadsAssumption
  DEF CallerInv, TieredInv, TypeOK, Threads, MainPc
<1>4. Storing(MainThread)' => blob'[MainThread] = op'.add
  BY <1>1, <1>2, <1>3 DEF Storing, CallerInv, TieredInv, TypeOK, ControlType, Threads
<1>5. /\ op'.kind = "add" => op'.add \notin op'.before
      /\ y \in {"del_flat_x", "del_hnsw"} => ClearsLabel'
  BY <1>1, <1>2 DEF CallerInv, CallsEndWithOwn, ClearsLabel
<1>6. TiersInv' /\ Moves
  BY <1>1, <1>3, <1>4, <1>5, NothingMoves DEF Submitting
<1>7. QED
  BY <1>1, <1>3, <1>6 DEF Returns, SameCall, Busy

\* addVector submits its job and returns: the vector is in the buffer, and in a
\* single-value index nothing else is under its label.
LEMMA SubmitMoves ==
  ASSUME CallerInv, SubmitInsertJob
  PROVE  TiersInv' /\ Moves /\ Returns /\ SameCall
<1>1. /\ pc[MainThread] = "submit" /\ Goto(MainThread, "idle")
      /\ UNCHANGED <<flat, element, lookup, job, op, task, blob>>
  BY DEF SubmitInsertJob, tiers, jobs
<1>2. pc'[MainThread] = "idle" /\ \A w \in Workers : pc'[w] = pc[w]
  BY <1>1, GotoFacts, ThreadsAssumption
  DEF CallerInv, TieredInv, TypeOK, Threads, MainPc
<1>3. op'.kind = "add" => op'.add \notin op'.before
  BY <1>1 DEF CallerInv, CallsEndWithOwn
<1>4. TiersInv' /\ Moves
  BY <1>1, <1>2, <1>3, NothingMoves DEF Submitting, Storing
<1>5. op.kind = "add" /\ op.add \in Adds /\ Buffered(op.add, op.label) /\ Submitting
  BY <1>1 DEF CallerInv, TieredInv, CallConsistent, AddOnly, CallsEndWithOwn, Submitting, Buffered
<1>6. ~IsMulti => \A a \in Adds : Buffered(a, op.label) => a = op.add
  BY <1>5, ValidJobs DEF Buffered, CallerInv
<1>7. ASSUME ~IsMulti PROVE \A a \in Adds : ~Indexed(a, op.label)
  <2>1. op.label \in Labels
    BY <1>5, ValidJobs DEF Buffered, CallerInv
  <2>2. PICK i \in 1..Count(flat) : flat.vectors[i] = op.add /\ flat.labels[i] = op.label
    BY <1>5 DEF CallerInv, TieredInv, JobsMatchFlat, Buffered
  <2>3. \A w \in Workers : task[w] # op.add
    BY <1>5 DEF CallerInv, TieredInv, JobsOwned
  <2>4. lookup[op.label] = <<>>
    BY <1>1, <1>7, <2>2, <2>3 DEF CallerInv, TieredInv, BufferedNotInHNSW
  <2>5. Range(lookup[op.label]) = {}
    BY <2>4 DEF Range
  <2>6. QED
    BY <2>1, <2>5 DEF CallerInv, TieredInv, LookupMatchesElements, Indexed
<1>8. \A a \in Adds : /\ Buffered(a, op.label)' <=> Buffered(a, op.label)
                      /\ Indexed(a, op.label)' <=> Indexed(a, op.label)
  BY <1>1 DEF Buffered, Indexed, ValidJob, HasJob, Live
<1>9. Returns
  <2>1. op'.label = op.label /\ op'.add = op.add
    BY <1>1
  <2>2. ClearsLabel => ~IsMulti
    BY <1>5 DEF ClearsLabel
  <2>3. QED
    BY <1>1, <1>5, <1>6, <1>7, <1>8, <2>1, <2>2 DEF Returns
<1>10. QED
  BY <1>1, <1>2, <1>4, <1>9 DEF SameCall, Busy

\* Workers take jobs and copy vectors.
LEMMA WorkerLooksMoves ==
  ASSUME CallerInv, NEW w \in Workers,
         \/ CopyBlob(w) \/ \E a \in Adds : TakeJob(w, a)
  PROVE  TiersInv' /\ Moves /\ Returns /\ SameCall
<1>1. /\ pc[w] \in {"idle", "check"}
      /\ UNCHANGED <<flat, element, lookup, job, op>>
  BY DEF CopyBlob, TakeJob, tiers, jobs
<1>2. PICK y \in {"check", "store"} : Goto(w, y)
  BY DEF CopyBlob, TakeJob
<1>3. w # MainThread /\ w \in Threads /\ MainThread \in Threads
  BY ThreadsAssumption DEF Threads
<1>4. pc'[w] = y /\ \A s \in Threads : s # w => pc'[s] = pc[s]
  BY <1>2, <1>3, GotoFacts DEF CallerInv, TieredInv, TypeOK, WorkerPc
<1>5. /\ pc'[MainThread] = pc[MainThread] /\ blob'[MainThread] = blob[MainThread]
      /\ \A v \in Workers : v # w => task'[v] = task[v]
  BY <1>3, <1>4 DEF CopyBlob, TakeJob, CallerInv, TieredInv, TypeOK, ControlType
<1>6. \A v \in Workers : pc'[v] \in {"index", "finish"} =>
          pc'[v] = pc[v] /\ task'[v] = task[v]
  BY <1>2, <1>4, <1>5 DEF Threads
<1>7. /\ Storing(MainThread)' => blob'[MainThread] = op'.add
      /\ Submitting' <=> Submitting
      /\ op'.kind = "add" => op'.add \notin op'.before
      /\ pc'[MainThread] \in {"del_flat", "del_flat_x", "del_hnsw", "gc", "add_del_hnsw"} =>
           ClearsLabel'
  BY <1>1, <1>5
  DEF CallerInv, ElementsAreOwn, Storing, Submitting, CallsEndWithOwn, ClearsLabel
<1>8. TiersInv' /\ Moves
  BY <1>1, <1>5, <1>6, <1>7, NothingMoves
<1>9. QED
  BY <1>1, <1>5, <1>8 DEF Returns, SameCall, Busy

\* A thread that finds HNSW full goes for the exclusive lock.
LEMMA FindFullMoves ==
  ASSUME CallerInv, NEW t \in Threads, FindFull(t)
  PROVE  TiersInv' /\ Moves /\ Returns /\ SameCall
<1>1. /\ pc[t] = "store" /\ Goto(t, "store_x")
      /\ UNCHANGED <<flat, element, lookup, job, op, task, blob>>
  BY DEF FindFull, tiers, jobs
<1>2. pc'[t] = "store_x" /\ \A s \in Threads : s # t => pc'[s] = pc[s]
  BY <1>1, GotoFacts DEF CallerInv, TieredInv, TypeOK, MainPc
<1>3. /\ \A w \in Workers : pc'[w] \in {"index", "finish"} => pc'[w] = pc[w]
      /\ Storing(MainThread)' <=> Storing(MainThread)
      /\ Submitting' <=> Submitting
      /\ Busy' <=> Busy
      /\ \/ pc'[MainThread] = pc[MainThread]
         \/ pc[MainThread] = "store" /\ pc'[MainThread] = "store_x"
  <2>1. \A s \in Threads :
          pc'[s] = pc[s] \/ (pc[s] = "store" /\ pc'[s] = "store_x")
    BY <1>1, <1>2
  <2>2. MainThread \in Threads /\ Workers \subseteq Threads
    BY DEF Threads
  <2>3. QED
    BY <2>1, <2>2 DEF Storing, Submitting, Busy
<1>4. /\ Storing(MainThread) => blob[MainThread] = op.add
      /\ op.kind = "add" => op.add \notin op.before
      /\ pc'[MainThread] \in {"del_flat", "del_flat_x", "del_hnsw", "gc", "add_del_hnsw"} =>
           ClearsLabel'
  BY <1>1, <1>3 DEF CallerInv, ElementsAreOwn, CallsEndWithOwn, ClearsLabel
<1>5. TiersInv' /\ Moves
  BY <1>1, <1>3, <1>4, NothingMoves
<1>6. QED
  BY <1>1, <1>3, <1>5 DEF Returns, SameCall

-----------------------------------------------------------------------------
(* Deletions from HNSW.                                                     *)

\* A deletion from HNSW that touches live elements of the call's label only,
\* and all of them unless it is the disposal of deleted ones.
LEMMA DeletionMoves ==
  ASSUME CallerInv,
         pc[MainThread] \in {"del_hnsw", "add_del_hnsw", "gc", "gc_add"},
         UNCHANGED <<flat, job, task, blob>>, SameCall,
         \A a \in Adds : element'[a] # NoElement =>
            element[a] # NoElement /\ element'[a].vec = element[a].vec,
         \A a \in Adds : Live(a)' => Live(a),
         \A a \in Adds : Live(a) /\ (element[a].label # op.label
                                     \/ pc[MainThread] \in {"gc", "gc_add"}) => Live(a)',
         \A a \in Adds : Live(a)' => element'[a] = element[a],
         \A a \in Adds : pc[MainThread] \in {"del_hnsw", "add_del_hnsw"} /\ Live(a)' =>
            element[a].label # op.label,
         NEW y, Goto(MainThread, y),
         y \in IF pc[MainThread] \in {"add_del_hnsw", "gc_add"} THEN {"gc_add", "submit"}
               ELSE {"gc", "idle", "add_inplace", "recheck"},
         y = "idle" => op.kind # "add"
  PROVE  TiersInv' /\ Moves /\ Returns
<1>1. TieredInv /\ ElementsAreOwn /\ IngestedInBoth /\ CallsEndWithOwn
  BY DEF CallerInv
<1>2. y \in MainPc
  BY DEF MainPc
<1>3. pc'[MainThread] = y /\ \A w \in Workers : pc'[w] = pc[w]
  BY <1>1, <1>2, GotoFacts, ThreadsAssumption DEF TieredInv, TypeOK, Threads
<1>4. Busy /\ op.label \in Labels
  BY <1>1 DEF TieredInv, CallConsistent, Busy
<1>5. \A a \in Adds : ValidJob(a)' <=> ValidJob(a)
  BY DEF ValidJob, HasJob
<1>6. Moves
  <2>1. pc[MainThread] \in {"del_hnsw", "add_del_hnsw"} => ClearsLabel
    BY <1>1 DEF CallsEndWithOwn
  <2>2. \A a \in Adds, k \in Labels : Stays(a, k) =>
           k # op.label \/ pc[MainThread] \in {"gc", "gc_add"}
    BY <1>4, <2>1 DEF Stays
  <2>3. \A a \in Adds, k \in Labels : Stays(a, k) => (Indexed(a, k)' <=> Indexed(a, k))
    BY <2>2 DEF Indexed
  <2>4. QED
    BY <1>5, <2>3 DEF Moves, Buffered
<1>7. ElementsAreOwn'
  BY <1>1, <1>3 DEF ElementsAreOwn, Storing
<1>8. IngestedInBoth'
  <2> SUFFICES ASSUME NEW w \in Workers, pc[w] \in {"index", "finish"},
                      NEW a \in Adds, a = task[w]
               PROVE  /\ ValidJob(a)' => Live(a)'
                      /\ Live(a)' =>
                           /\ element'[a].label = job'[a].label
                           /\ pc'[w] = "finish" => ~element'[a].inProcess
                           /\ ValidJob(a)'
    <3>1. \A w \in Workers : pc[w] \in {"index", "finish"} => task[w] \in Adds
      BY <1>1 DEF TieredInv, TypeOK, ControlType, JobsOwned
    <3>2. QED
      BY <1>3, <3>1 DEF IngestedInBoth
  <2>1. /\ ValidJob(a) => Live(a)
        /\ Live(a) => /\ element[a].label = job[a].label
                      /\ pc[w] = "finish" => ~element[a].inProcess
                      /\ \/ ValidJob(a)
                         \/ /\ pc[MainThread] \in {"del_hnsw", "add_del_hnsw"}
                            /\ op.label = job[a].label
    BY <1>1 DEF IngestedInBoth
  <2>2. Live(a)' => /\ element'[a].label = job'[a].label
                    /\ pc'[w] = "finish" => ~element'[a].inProcess
                    /\ ValidJob(a)'
    BY <2>1, <1>3, <1>5
  <2>3. ASSUME ValidJob(a), pc[MainThread] \in {"del_hnsw", "add_del_hnsw"}
        PROVE  job[a].label # op.label
    <3>1. IsLabelExists(flat, job[a].label)
      BY <1>1, <2>3, ValidJobs
    <3>2. CASE pc[MainThread] = "del_hnsw"
      BY <1>1, <3>1, <3>2 DEF TieredInv, LabelCleared, CallsEndWithOwn
    <3>3. CASE pc[MainThread] = "add_del_hnsw"
      <4>1. Submitting /\ ~IsMulti
        BY <1>1, <3>3
        DEF Submitting, CallsEndWithOwn, ClearsLabel, TieredInv, CallConsistent, AddOnly
      <4>2. /\ ValidJob(op.add) /\ job[op.add].label = op.label
            /\ task[w] # op.add /\ op.add \in Adds
        BY <1>1, <3>3, <4>1 DEF CallsEndWithOwn, TieredInv, JobsOwned, CallConsistent, AddOnly
      <4>3. QED
        BY <1>1, <2>3, <4>1, <4>2, ValidJobs
    <3>4. QED
      BY <2>3, <3>2, <3>3
  <2>4. ValidJob(a)' => Live(a)'
    BY <1>5, <2>1, <2>3
  <2>5. QED
    BY <2>2, <2>4
<1>9. CallsEndWithOwn'
  <2>1. Submitting' => ValidJob(op.add)' /\ job'[op.add].label = op.label
    <3>1. Submitting' => Submitting /\ op.add \in Adds
      <4>1. Submitting' => Submitting
        BY <1>3 DEF Submitting
      <4>2. Submitting => op.add \in Adds
        BY <1>1 DEF Submitting, TieredInv, CallConsistent, AddOnly
      <4>3. QED
        BY <4>1, <4>2
    <3>2. QED
      BY <1>1, <1>5, <3>1 DEF CallsEndWithOwn, SameCall
  <2>2. pc'[MainThread] = "gc" => ClearsLabel'
    BY <1>1, <1>3 DEF CallsEndWithOwn, SameCall, ClearsLabel
  <2>3. QED
    BY <1>1, <1>3, <2>1, <2>2 DEF CallsEndWithOwn, SameCall
<1>10. Returns
  <2> SUFFICES ASSUME y = "idle", NEW a \in Adds
               PROVE  ~Buffered(a, op.label)' /\ ~Indexed(a, op.label)'
    BY <1>3 DEF Returns, Busy
  <2>1. pc[MainThread] \in {"del_hnsw", "gc"} /\ ClearsLabel
    BY <1>1 DEF CallsEndWithOwn
  <2>2. ~Buffered(a, op.label)
    <3>1. ~IsLabelExists(flat, op.label)
      BY <1>1, <2>1 DEF TieredInv, LabelCleared
    <3>2. QED
      BY <1>1, <3>1, ValidJobs DEF Buffered
  <2>3. ~Indexed(a, op.label)'
    <3>1. CASE pc[MainThread] = "del_hnsw"
      BY <3>1 DEF Indexed, SameCall
    <3>2. CASE pc[MainThread] = "gc"
      <4>1. Range(lookup[op.label]) = {}
        BY <1>1, <2>1, <3>2 DEF TieredInv, LabelCleared, Range
      <4>2. ~(Live(a) /\ element[a].label = op.label)
        BY <1>1, <1>4, <4>1 DEF TieredInv, LookupMatchesElements
      <4>3. QED
        BY <4>2 DEF Indexed, SameCall
    <3>3. QED
      BY <2>1, <3>1, <3>2
  <2>4. QED
    BY <1>5, <2>2, <2>3 DEF Buffered, SameCall
<1>11. QED
  BY <1>6, <1>7, <1>8, <1>9, <1>10 DEF TiersInv

\* Marking a label deleted takes its elements, and no other, out of the results.
LEMMA MarkedMoves ==
  ASSUME TieredInv, NEW l \in Labels, MarkDelete(l)
  PROVE  /\ \A a \in Adds : element'[a] # NoElement =>
              element[a] # NoElement /\ element'[a].vec = element[a].vec
         /\ \A a \in Adds : Live(a)' <=> Live(a) /\ element[a].label # l
         /\ \A a \in Adds : Live(a)' => element'[a] = element[a]
<1>1. \A a \in Adds : a \in Range(lookup[l]) <=> Live(a) /\ element[a].label = l
  BY DEF TieredInv, LookupMatchesElements
<1> SUFFICES ASSUME NEW a \in Adds
             PROVE  /\ element'[a] # NoElement =>
                         element[a] # NoElement /\ element'[a].vec = element[a].vec
                    /\ Live(a)' <=> Live(a) /\ element[a].label # l
                    /\ Live(a)' => element'[a] = element[a]
  OBVIOUS
<1>2. CASE Live(a) /\ element[a].label = l
  <2>1. element'[a] = [element[a] EXCEPT !.deleted = TRUE]
    BY <1>1, <1>2 DEF MarkDelete
  <2>2. PICK e \in [label : Labels, vec : Adds, inProcess : BOOLEAN, deleted : BOOLEAN] :
           e = element[a]
    BY <1>2, RecordTypes DEF Live
  <2>3. element'[a].deleted = TRUE /\ element'[a].vec = element[a].vec
    BY <2>1, <2>2
  <2>4. QED
    BY <1>2, <2>3 DEF Live
<1>3. CASE ~(Live(a) /\ element[a].label = l)
  <2>1. element'[a] = element[a]
    BY <1>1, <1>3 DEF MarkDelete
  <2>2. QED
    BY <1>3, <2>1 DEF Live
<1>4. QED
  BY <1>2, <1>3

\* Counting what was deleted changes the call's result only.
LEMMA CountedCall ==
  ASSUME ControlType, pc[MainThread] # "idle",
         \/ \E n : Counted(n)
         \/ \E n : op' = [op EXCEPT !.ret = n]
         \/ op' = op
  PROVE  SameCall
BY DEF ControlType, Counted, SameCall, Busy

\* deleteVector, and addVector after it has buffered its vector, delete what
\* HNSW has under the label.
LEMMA MarkDeleteMoves ==
  ASSUME CallerInv, DeleteFromHNSW \/ AddDeletesOldFromHNSW
  PROVE  TiersInv' /\ Moves /\ Returns /\ SameCall
<1>1. /\ pc[MainThread] \in {"del_hnsw", "add_del_hnsw"} /\ MarkDelete(op.label)
      /\ UNCHANGED <<flat, job, task, blob>>
  BY DEF DeleteFromHNSW, AddDeletesOldFromHNSW, jobs
<1>2. TieredInv /\ op.label \in Labels
  BY <1>1 DEF CallerInv, TieredInv, CallConsistent, Busy
<1>3. SameCall
  BY <1>1, <1>2, CountedCall
  DEF DeleteFromHNSW, AddDeletesOldFromHNSW, TieredInv, TypeOK
<1>4. PICK y : /\ Goto(MainThread, y)
               /\ y \in IF pc[MainThread] = "add_del_hnsw" THEN {"gc_add", "submit"}
                        ELSE {"gc", AfterDelete}
  BY DEF DeleteFromHNSW, AddDeletesOldFromHNSW
<1>5. /\ y \in IF pc[MainThread] = "add_del_hnsw" THEN {"gc_add", "submit"}
               ELSE {"gc", "idle", "add_inplace", "recheck"}
      /\ y = "idle" => op.kind # "add"
  BY <1>4 DEF AfterDelete
<1>6. /\ \A a \in Adds : element'[a] # NoElement =>
              element[a] # NoElement /\ element'[a].vec = element[a].vec
      /\ \A a \in Adds : Live(a)' <=> Live(a) /\ element[a].label # op.label
      /\ \A a \in Adds : Live(a)' => element'[a] = element[a]
  BY <1>1, <1>2, MarkedMoves
<1>7. QED
  BY <1>1, <1>3, <1>4, <1>5, <1>6, DeletionMoves

\* deleteVector in write-in-place mode, and the disposal of deleted elements.
LEMMA DisposalMoves ==
  ASSUME CallerInv, DeleteFromHNSWInplace \/ ExecuteReadySwapJobs
  PROVE  TiersInv' /\ Moves /\ Returns /\ SameCall
<1>1. TieredInv /\ UNCHANGED <<flat, job, task, blob>>
  BY DEF CallerInv, DeleteFromHNSWInplace, ExecuteReadySwapJobs, jobs
<1>2. CASE DeleteFromHNSWInplace
  <2>1. pc[MainThread] = "del_hnsw" /\ op.label \in Labels
    BY <1>1, <1>2 DEF DeleteFromHNSWInplace, TieredInv, CallConsistent, Busy
  <2>2. \A a \in Adds : a \in Range(lookup[op.label]) <=> Live(a) /\ element[a].label = op.label
    BY <1>1, <2>1 DEF TieredInv, LookupMatchesElements
  <2>3. \A a \in Adds : element'[a] = IF Live(a) /\ element[a].label = op.label
                                      THEN NoElement ELSE element[a]
    BY <1>2, <2>2 DEF DeleteFromHNSWInplace, Without
  <2>4. \A a \in Adds : Live(a)' <=> Live(a) /\ element[a].label # op.label
    BY <2>3 DEF Live
  <2>5. SameCall
    BY <1>1, <1>2, <2>1, CountedCall DEF DeleteFromHNSWInplace, TieredInv, TypeOK
  <2>6. Goto(MainThread, AfterDelete)
    BY <1>2 DEF DeleteFromHNSWInplace
  <2>7. /\ AfterDelete \in {"gc", "idle", "add_inplace", "recheck"}
        /\ AfterDelete = "idle" => op.kind # "add"
    BY DEF AfterDelete
  <2>8. \A a \in Adds : /\ element'[a] # NoElement => element'[a] = element[a]
                        /\ Live(a)' => element'[a] = element[a]
    BY <2>3, <2>4
  <2>9. QED
    BY <1>1, <2>1, <2>4, <2>5, <2>6, <2>7, <2>8, DeletionMoves
<1>3. CASE ExecuteReadySwapJobs
  <2>1. pc[MainThread] \in {"gc", "gc_add"} /\ op' = op
    BY <1>3 DEF ExecuteReadySwapJobs
  <2>2. PICK A \in SUBSET {a \in Adds : element[a] # NoElement /\ element[a].deleted} :
           element' = Without(A)
    BY <1>3 DEF ExecuteReadySwapJobs
  <2>3. /\ \A a \in Adds : element'[a] = element[a] \/ element'[a] = NoElement
        /\ \A a \in Adds : Live(a)' <=> Live(a)
        /\ \A a \in Adds : Live(a)' => element'[a] = element[a]
    BY <2>2 DEF Without, Live
  <2>4. SameCall
    BY <1>1, <2>1, CountedCall DEF TieredInv, TypeOK
  <2>5. PICK y : /\ Goto(MainThread, y)
                 /\ y = IF pc[MainThread] = "gc" THEN AfterDelete ELSE "submit"
    BY <1>3 DEF ExecuteReadySwapJobs
  <2>6. /\ y \in IF pc[MainThread] = "gc_add" THEN {"gc_add", "submit"}
                 ELSE {"gc", "idle", "add_inplace", "recheck"}
        /\ y = "idle" => op.kind # "add"
    BY <2>1, <2>5 DEF AfterDelete
  <2>7. QED
    BY <1>1, <2>1, <2>3, <2>4, <2>5, <2>6, DeletionMoves
<1>4. QED
  BY <1>2, <1>3

-----------------------------------------------------------------------------
(* Steps that change the buffer.                                            *)

\* Making jobs invalid and renaming the job of a moved vector keep labels.
LEMMA LabelsOfJobsStay ==
  ASSUME TieredInv, NEW a \in Adds, HasJob(a), NEW js, NEW lists, NEW updated
  PROVE  /\ Invalidated(js)[a].label = job[a].label
         /\ Renamed(Invalidated(js), lists, updated)[a].label = job[a].label
<1>1. PICK r \in [label : Labels, id : Nat, isValid : BOOLEAN] : r = job[a]
  BY RecordTypes
<1>2. Invalidated(js)[a] = IF a \in Range(js)
                           THEN [label |-> r.label, id |-> InvalidId(js, a), isValid |-> FALSE]
                           ELSE r
  BY <1>1 DEF Invalidated
<1>3. /\ Invalidated(js)[a].label = r.label
      /\ \A i : [Invalidated(js)[a] EXCEPT !.id = i].label = r.label
  BY <1>2
<1>4. \/ Renamed(Invalidated(js), lists, updated)[a] = Invalidated(js)[a]
      \/ \E i : Renamed(Invalidated(js), lists, updated)[a] = [Invalidated(js)[a] EXCEPT !.id = i]
  BY DEF Renamed
<1>5. QED
  BY <1>1, <1>3, <1>4

\* The vectors that workers are about to finish with are the calls' vectors.
LEMMA TasksAreAdds ==
  ASSUME TieredInv, NEW w \in Workers, pc[w] # "idle"
  PROVE  task[w] \in Adds /\ HasJob(task[w])
BY DEF TieredInv, TypeOK, ControlType, JobsOwned

\* deleteVector takes the label out of the buffer.  The vector may be in HNSW
\* already; the call goes there next.
LEMMA DeleteFromFlatMoves ==
  ASSUME CallerInv, DeleteFromFlat
  PROVE  TiersInv' /\ Moves /\ Returns /\ SameCall
<1>1. /\ pc[MainThread] = "del_flat_x" /\ Goto(MainThread, "del_hnsw")
      /\ UNCHANGED <<element, lookup, task, blob>>
  BY DEF DeleteFromFlat
<1>2. TieredInv /\ ElementsAreOwn /\ IngestedInBoth /\ CallsEndWithOwn
  BY DEF CallerInv
<1>3. pc'[MainThread] = "del_hnsw" /\ \A w \in Workers : pc'[w] = pc[w]
  BY <1>1, <1>2, GotoFacts, ThreadsAssumption DEF TieredInv, TypeOK, Threads, MainPc
<1>4. PICK l \in Labels : l = op.label
  BY <1>1, <1>2 DEF TieredInv, CallConsistent, Busy
<1>5. SameCall
  <2>1. (\E n : Counted(n)) \/ op' = op
    BY DEF DeleteFromFlat
  <2>2. QED
    BY <1>1, <1>2, <2>1, CountedCall DEF TieredInv, TypeOK
<1>6. \A a \in Adds : Live(a)' <=> Live(a)
  BY <1>1 DEF Live
<1>7. /\ \A a \in Adds : HasJob(a) => job'[a].label = job[a].label
      /\ \A a \in Adds : ValidJob(a)' => ValidJob(a)
      /\ \A a \in Adds : ValidJob(a) /\ job[a].label # l => ValidJob(a)'
  <2>1. CASE IsLabelExists(flat, l)
    <3>1. PICK R, up : /\ R = Range(labelToInsertJobs[l]) /\ Removes(R, up)
      BY <1>1, <1>2, <1>4, <2>1, DeleteFromFlatFacts
    <3>2. \A a \in Adds : a \in R => ~ValidJob(a)'
      BY <3>1 DEF Removes
    <3>3. OtherJobsStay(R)
      BY <1>2, <3>1, RemovalFollowed
    <3>4. \A a \in R : job[a].label = l
      BY <1>2, <1>4, <3>1 DEF TieredInv, JobsMatchFlat
    <3>5. ASSUME NEW a \in Adds, HasJob(a)
          PROVE  job'[a].label = job[a].label
      <4> DEFINE js == labelToInsertJobs[op.label]
                 lists == [labelToInsertJobs EXCEPT ![op.label] = <<>>]
                 r == DeleteVectorAndGetUpdatedIds(flat, op.label)
      <4>1. job' = Renamed(Invalidated(js), lists, r.updated)
        BY <1>4, <2>1 DEF DeleteFromFlat
      <4> HIDE DEF js, lists, r
      <4>2. QED
        BY <1>2, <3>5, <4>1, LabelsOfJobsStay
    <3>6. QED
      BY <3>2, <3>3, <3>4, <3>5 DEF OtherJobsStay, ValidJob
  <2>2. CASE ~IsLabelExists(flat, l)
    <3>1. job' = job
      BY <1>4, <2>2 DEF DeleteFromFlat, jobs
    <3>2. QED
      BY <3>1 DEF ValidJob, HasJob
  <2>3. QED
    BY <2>1, <2>2
<1>8. Moves
  <2>1. \A a \in Adds, k \in Labels : Stays(a, k) => k # l
    BY <1>1, <1>2, <1>4 DEF Busy, Stays, CallsEndWithOwn
  <2>2. QED
    BY <1>1, <1>6, <1>7, <2>1 DEF Moves, Buffered, Indexed, ValidJob
<1>9. ElementsAreOwn'
  BY <1>1, <1>2, <1>3 DEF ElementsAreOwn, Storing
<1>10. IngestedInBoth'
  <2> SUFFICES ASSUME NEW w \in Workers, pc[w] \in {"index", "finish"},
                      NEW a \in Adds, a = task[w], HasJob(a)
               PROVE  /\ ValidJob(a)' => Live(a)'
                      /\ Live(a)' => /\ element[a].label = job'[a].label
                                     /\ pc[w] = "finish" => ~element[a].inProcess
                                     /\ ValidJob(a)' \/ l = job'[a].label
    BY <1>1, <1>2, <1>3, <1>4, <1>5, TasksAreAdds DEF IngestedInBoth, SameCall
  <2>1. /\ ValidJob(a) => Live(a)
        /\ Live(a) => /\ element[a].label = job[a].label
                      /\ pc[w] = "finish" => ~element[a].inProcess
                      /\ ValidJob(a)
    BY <1>1, <1>2 DEF IngestedInBoth
  <2>2. QED
    BY <2>1, <1>6, <1>7
<1>11. CallsEndWithOwn'
  BY <1>1, <1>2, <1>3, <1>5 DEF CallsEndWithOwn, Submitting, SameCall, ClearsLabel
<1>12. QED
  BY <1>3, <1>5, <1>8, <1>9, <1>10, <1>11 DEF TiersInv, Returns, Busy

\* Storing a vector under its label makes no job invalid but, in a single-value
\* index, the label's old one.
LEMMA AddedJobs ==
  ASSUME TieredInv, NEW l \in Labels, NEW a \in Adds, NEW id \in Nat,
         StoresAt(l, a, id), CreatesJob(l, a, id),
         \/ Count(flat)' = Count(flat) + 1
         \/ ~IsMulti /\ Count(flat)' = Count(flat) /\ flat'.labels = flat.labels
  PROVE  /\ ValidJob(a)' /\ job'[a].label = l
         /\ \A b \in Adds : b # a =>
              /\ ValidJob(b)' => ValidJob(b) /\ job'[b] = job[b]
              /\ ValidJob(b) /\ (IsMulti \/ job[b].label # l) => ValidJob(b)'
<1>1. Count(flat) \in Nat /\ \A b \in Adds : ValidJob(b) =>
        /\ job[b].id \in 1..Count(flat) /\ flat.labels[job[b].id] = job[b].label
  BY DEF TieredInv, TypeOK, TiersType, Count, JobsMatchFlat
<1>2. \A b \in Adds : ValidJob(b) /\ (IsMulti \/ job[b].label # l) => job[b].id # id
  <2>1. CASE Count(flat)' = Count(flat) + 1
    <3>1. id \notin 1..Count(flat)
      <4>1. Count(flat) + 1 \in 1..Count(flat)'
        BY <1>1, <2>1
      <4>2. Count(flat) + 1 \notin 1..Count(flat)
        BY <1>1
      <4>3. QED
        BY <4>1, <4>2 DEF StoresAt
    <3>2. QED
      BY <1>1, <3>1
  <2>2. CASE ~IsMulti /\ flat'.labels = flat.labels
    BY <1>1, <2>2 DEF StoresAt
  <2>3. QED
    BY <2>1, <2>2
<1>3. QED
  BY <1>2 DEF CreatesJob

\* addVector buffers its vector; in a single-value index in the place of the
\* label's old one if there is one.  The old one may be in HNSW already; the
\* call goes there next.
LEMMA AddToFlatMoves ==
  ASSUME CallerInv, AddToFlat
  PROVE  TiersInv' /\ Moves /\ Returns /\ SameCall
<1>1. /\ pc[MainThread] = "add_flat"
      /\ UNCHANGED <<element, lookup, task, blob>>
  BY DEF AddToFlat
<1>2. TieredInv /\ ElementsAreOwn /\ IngestedInBoth /\ CallsEndWithOwn
  BY DEF CallerInv
<1>3. /\ pc'[MainThread] \in IF IsMulti THEN {"gc_add", "submit"} ELSE {"add_del_hnsw"}
      /\ \A w \in Workers : pc'[w] = pc[w]
  <2>1. PICK y \in IF IsMulti THEN {"gc_add", "submit"} ELSE {"add_del_hnsw"} :
           Goto(MainThread, y)
    BY DEF AddToFlat
  <2>2. y \in MainPc
    BY <2>1 DEF MainPc
  <2>3. QED
    BY <1>2, <2>1, <2>2, GotoFacts, ThreadsAssumption DEF TieredInv, TypeOK, Threads
<1>4. PICK l \in Labels, a0 \in Adds : l = op.label /\ a0 = op.add /\ job[a0] = NoJob
  BY <1>1, <1>2
  DEF TieredInv, CallConsistent, AddOnly, NewIsFresh, BeforeStored, Fresh
<1>5. /\ SameCall
      /\ \E id \in Nat : StoresAt(l, a0, id) /\ CreatesJob(l, a0, id)
      /\ \/ Count(flat)' = Count(flat) + 1
         \/ ~IsMulti /\ Count(flat)' = Count(flat) /\ flat'.labels = flat.labels
      /\ \A a \in Adds : HasJob(a) => job'[a].label = job[a].label
  <2>1. CASE ~IsMulti /\ IsLabelExists(flat, l)
    <3>1. OverwriteInFlat
      BY <1>4, <2>1 DEF AddToFlat
    <3>2. SameCall
      BY <1>1, <1>2, <3>1, CountedCall DEF OverwriteInFlat, TieredInv, TypeOK
    <3>3. ASSUME NEW a \in Adds, HasJob(a)
          PROVE  job'[a].label = job[a].label
      <4> DEFINE js == <<labelToInsertJobs[op.label][1]>>
      <4>1. a # a0
        BY <1>4, <3>3 DEF HasJob
      <4>2. /\ job' = [Invalidated(js) EXCEPT ![a0] = NewJob(l, flat.ids[l][1])]
            /\ a \in DOMAIN Invalidated(js)
        BY <1>4, <3>1 DEF OverwriteInFlat, Invalidated
      <4> HIDE DEF js
      <4>3. job'[a] = Invalidated(js)[a]
        BY <4>1, <4>2
      <4>4. QED
        BY <1>2, <3>3, <4>3, LabelsOfJobsStay
    <3>4. flat'.labels = flat.labels
      BY <1>2, <3>1 DEF OverwriteInFlat, UpdateElement, TieredInv, TypeOK, TiersType
    <3>5. QED
      BY <1>2, <1>4, <2>1, <3>1, <3>2, <3>3, <3>4, OverwriteFacts
  <2>2. CASE IsMulti \/ ~IsLabelExists(flat, l)
    <3>1. AppendToFlat
      BY <1>4, <2>2 DEF AddToFlat
    <3>2. SameCall
      BY <1>1, <1>2, <3>1, CountedCall DEF AppendToFlat, TieredInv, TypeOK
    <3>3. \A a \in Adds : HasJob(a) => job'[a] = job[a]
      BY <1>2, <1>4, <3>1 DEF AppendToFlat, TieredInv, TypeOK, JobsType, HasJob
    <3>4. QED
      BY <1>2, <1>4, <2>2, <3>1, <3>2, <3>3, AppendFacts
  <2>3. QED
    BY <2>1, <2>2
<1>6. /\ ValidJob(a0)' /\ job'[a0].label = l
      /\ \A b \in Adds : b # a0 =>
           /\ ValidJob(b)' => ValidJob(b) /\ job'[b] = job[b]
           /\ ValidJob(b) /\ (IsMulti \/ job[b].label # l) => ValidJob(b)'
  BY <1>2, <1>5, AddedJobs
<1>7. \A a \in Adds : Live(a)' <=> Live(a)
  BY <1>1 DEF Live
<1>8. Moves
  <2>1. /\ Busy /\ op.kind = "add"
        /\ \A a \in Adds, k \in Labels : Stays(a, k) => k # l \/ (IsMulti /\ a # a0)
    BY <1>1, <1>2, <1>4
    DEF Busy, Stays, ClearsLabel, TieredInv, CallConsistent, AddOnly
  <2>2. ~ValidJob(a0)
    BY <1>4 DEF ValidJob, HasJob
  <2>3. \A a \in Adds, k \in Labels : Stays(a, k) => (Buffered(a, k)' <=> Buffered(a, k))
    BY <1>6, <2>1, <2>2 DEF Buffered
  <2>4. QED
    BY <1>1, <1>4, <1>6, <1>7, <2>1, <2>3 DEF Moves, Indexed
<1>9. ElementsAreOwn'
  BY <1>1, <1>2, <1>3 DEF ElementsAreOwn, Storing
<1>10. IngestedInBoth'
  <2> SUFFICES ASSUME NEW w \in Workers, pc[w] \in {"index", "finish"},
                      NEW a \in Adds, a = task[w], HasJob(a)
               PROVE  /\ ValidJob(a)' => Live(a)'
                      /\ Live(a)' => /\ element[a].label = job'[a].label
                                     /\ pc[w] = "finish" => ~element[a].inProcess
                                     /\ \/ ValidJob(a)'
                                        \/ pc'[MainThread] = "add_del_hnsw" /\ l = job'[a].label
    BY <1>1, <1>2, <1>3, <1>4, <1>5, TasksAreAdds DEF IngestedInBoth, SameCall
  <2>1. /\ ValidJob(a) => Live(a)
        /\ Live(a) => /\ element[a].label = job[a].label
                      /\ pc[w] = "finish" => ~element[a].inProcess
                      /\ ValidJob(a)
    BY <1>1, <1>2 DEF IngestedInBoth
  <2>2. a # a0
    BY <1>4 DEF HasJob
  <2>3. QED
    BY <2>1, <2>2, <1>3, <1>5, <1>6, <1>7
<1>11. CallsEndWithOwn'
  BY <1>2, <1>3, <1>4, <1>5, <1>6 DEF CallsEndWithOwn, SameCall, ClearsLabel, Submitting
<1>12. QED
  BY <1>3, <1>5, <1>8, <1>9, <1>10, <1>11 DEF TiersInv, Returns, Busy

\* A worker forgets its job, and takes the vector out of the buffer if the job
\* is still valid: then HNSW has the vector under the same label.
LEMMA JobEndMoves ==
  ASSUME CallerInv, NEW w \in Workers, FinishJob(w) \/ DropInvalidJob(w)
  PROVE  TiersInv' /\ Moves /\ Returns /\ SameCall
<1>1. /\ pc[w] \in {"finish", "check"} /\ JobDone(w)
      /\ pc[w] = "check" => DropInvalidJob(w)
      /\ UNCHANGED <<element, lookup, op, blob>>
  BY DEF FinishJob, DropInvalidJob, tiers
<1>2. TieredInv /\ ElementsAreOwn /\ IngestedInBoth /\ CallsEndWithOwn
  BY DEF CallerInv
<1>3. PICK a0 \in Adds : a0 = task[w] /\ HasJob(a0)
  BY <1>1, <1>2, TasksAreAdds
<1>4. w \in Threads /\ MainThread \in Threads /\ w # MainThread
  BY ThreadsAssumption DEF Threads
<1>5. /\ pc'[w] = "idle" /\ \A s \in Threads : s # w => pc'[s] = pc[s]
      /\ \A v \in Workers : v # w => task'[v] = task[v] /\ task[v] # a0
  <2>1. Goto(w, "idle")
    BY <1>1 DEF JobDone
  <2>2. pc'[w] = "idle" /\ \A s \in Threads : s # w => pc'[s] = pc[s]
    BY <2>1, <1>2, <1>4, GotoFacts DEF TieredInv, TypeOK, WorkerPc
  <2>3. \A v \in Workers : v # w => task'[v] = task[v]
    BY <1>1, <1>2 DEF JobDone, TieredInv, TypeOK, ControlType
  <2>4. \A v \in Workers : v # w => task[v] # a0
    BY <1>2, <1>3, AbsentAssumption DEF TieredInv, JobsOwned
  <2>5. QED
    BY <2>2, <2>3, <2>4
<1>6. Submitting => op.add # a0
  BY <1>2, <1>3 DEF TieredInv, JobsOwned
<1>7. /\ ~ValidJob(a0)'
      /\ ValidJob(a0) => pc[w] = "finish"
      /\ \A a \in Adds \ {a0} :
           /\ ValidJob(a)' <=> ValidJob(a)
           /\ HasJob(a) => job'[a].label = job[a].label
      /\ \A k \in Labels : ~IsLabelExists(flat, k) => ~IsLabelExists(flat, k)'
  <2>1. CASE job' = [job EXCEPT ![a0] = NoJob] /\ flat' = flat /\ ~ValidJob(a0)
    <3>1. job'[a0] = NoJob /\ \A a \in Adds \ {a0} : job'[a] = job[a]
      BY <1>2, <2>1 DEF TieredInv, TypeOK, JobsType
    <3>2. QED
      BY <2>1, <3>1 DEF ValidJob, HasJob, IsLabelExists
  <2>2. CASE FinishJob(w) /\ job[a0].isValid
    <3>1. ValidJob(a0) /\ RemoveIngested(w) /\ pc[w] = "finish"
      BY <1>3, <2>2 DEF FinishJob, ValidJob
    <3>2. PICK up : /\ Removes({a0}, up) /\ job'[a0] = NoJob
                    /\ flat' \in FlatOf(Adds) /\ FlatLookupIsInverse'
      BY <1>2, <1>3, <3>1, RemoveIngestedFacts
    <3>3. ~ValidJob(a0)'
      BY <3>2 DEF ValidJob, HasJob
    <3>4. OtherJobsStay({a0}) /\ OthersStay({a0})
      BY <1>2, <3>2, RemovalFollowed
    <3>5. \A k \in Labels : ~IsLabelExists(flat, k) => ~IsLabelExists(flat, k)'
      BY <1>2, <3>2, <3>4, GoneStaysGone
    <3>6. QED
      BY <3>1, <3>3, <3>4, <3>5 DEF OtherJobsStay, ValidJob
  <2>3. QED
    BY <1>3, <2>1, <2>2 DEF FinishJob, DropInvalidJob, ValidJob, tiers
<1>8. \A a \in Adds : Live(a)' <=> Live(a)
  BY <1>1 DEF Live
<1>9. ValidJob(a0) => Indexed(a0, job[a0].label)
  BY <1>2, <1>3, <1>7 DEF IngestedInBoth, Indexed
<1>10. Moves
  BY <1>1, <1>7, <1>8, <1>9 DEF Moves, Buffered, Indexed, ValidJob
<1>11. pc'[MainThread] = pc[MainThread]
  BY <1>4, <1>5
<1>12. ElementsAreOwn'
  BY <1>1, <1>2, <1>11 DEF ElementsAreOwn, Storing
<1>13. IngestedInBoth'
  <2> SUFFICES ASSUME NEW v \in Workers, v # w, pc[v] \in {"index", "finish"},
                      NEW a \in Adds, a = task[v], HasJob(a), a # a0
               PROVE  /\ ValidJob(a)' => Live(a)'
                      /\ Live(a)' =>
                           /\ element[a].label = job'[a].label
                           /\ pc[v] = "finish" => ~element[a].inProcess
                           /\ \/ ValidJob(a)'
                              \/ /\ pc[MainThread] \in {"del_hnsw", "add_del_hnsw"}
                                 /\ op.label = job'[a].label
    BY <1>1, <1>2, <1>4, <1>5, <1>11, TasksAreAdds DEF IngestedInBoth, Threads
  <2>1. QED
    BY <1>2, <1>7, <1>8 DEF IngestedInBoth
<1>14. CallsEndWithOwn'
  <2>1. Submitting' <=> Submitting
    BY <1>11 DEF Submitting
  <2>2. Submitting => /\ ValidJob(op.add)' /\ job'[op.add].label = op.label
    <3>1. Submitting => /\ op.add \in Adds \ {a0} /\ ValidJob(op.add)
                        /\ job[op.add].label = op.label
      BY <1>2, <1>6 DEF TieredInv, CallConsistent, AddOnly, Submitting, CallsEndWithOwn
    <3>2. QED
      BY <1>1, <1>7, <3>1 DEF ValidJob
  <2>3. pc[MainThread] = "index" /\ ~IsMulti => ~IsLabelExists(flat', op.label)
    BY <1>2, <1>7 DEF CallsEndWithOwn, TieredInv, CallConsistent, AddOnly
  <2>4. QED
    BY <1>1, <1>2, <1>11, <2>1, <2>2, <2>3 DEF CallsEndWithOwn, ClearsLabel
<1>15. QED
  BY <1>1, <1>10, <1>11, <1>12, <1>13, <1>14 DEF TiersInv, Returns, SameCall, Busy

-----------------------------------------------------------------------------
(* Steps that bring vectors to HNSW.                                        *)

\* A stored vector is in process: nobody sees it there yet.
LEMMA StoreMoves ==
  ASSUME CallerInv, NEW t \in Threads, StoreShared(t) \/ StoreExclusive(t)
  PROVE  TiersInv' /\ Moves /\ Returns /\ SameCall
<1>1. TieredInv /\ ElementsAreOwn /\ IngestedInBoth /\ CallsEndWithOwn
  BY DEF CallerInv
<1>2. /\ Storing(t) /\ StoreElement(AddOf(t), LabelOf(t), blob[t]) /\ Goto(t, "index")
      /\ UNCHANGED <<flat, job, op, task, blob>>
  BY DEF StoreShared, StoreExclusive, StoreAndReleaseFlat, Storing, jobs
<1>3. PICK a0 \in Adds, l \in Labels :
        /\ a0 = AddOf(t) /\ l = LabelOf(t)
        /\ element[a0] = NoElement
        /\ t \in Workers => HasJob(task[t])
        /\ t = MainThread => Fresh(op.add) /\ (~IsMulti => ~IsLabelExists(flat, op.label))
        /\ ~IsMulti => lookup[l] = <<>>
  BY <1>1, <1>2, StoringFacts
<1>4. blob[t] = a0
  <2>1. CASE t = MainThread
    BY <1>1, <1>2, <1>3, <2>1 DEF ElementsAreOwn, AddOf
  <2>2. CASE t \in Workers
    <3>1. ValidJob(task[t]) /\ flat.vectors[job[task[t]].id] = blob[t]
      BY <1>1, <1>2, <2>2 DEF TieredInv, CopyIsCurrent, Storing
    <3>2. task[t] = a0
      BY <1>3, <2>2, ThreadsAssumption DEF AddOf
    <3>3. QED
      BY <1>1, <3>1, <3>2, ValidJobs
  <2>3. QED
    BY <2>1, <2>2 DEF Threads
<1> DEFINE e == [label |-> l, vec |-> a0, inProcess |-> TRUE, deleted |-> FALSE]
<1>5. /\ element' = [element EXCEPT ![a0] = e]
      /\ lookup' = [lookup EXCEPT ![l] = Grown(@, a0)]
  BY <1>2, <1>3, <1>4 DEF StoreElement, Grown
<1>6. /\ e \in [label : Labels, vec : Adds, inProcess : BOOLEAN, deleted : BOOLEAN]
      /\ e.label = l /\ e.vec = a0 /\ e.inProcess = TRUE /\ e.deleted = FALSE
  OBVIOUS
<1> HIDE DEF e
<1>7. /\ element'[a0] = e /\ \A a \in Adds : a # a0 => element'[a] = element[a]
      /\ Range(lookup'[l]) = Range(lookup[l]) \cup {a0}
      /\ ~IsMulti => Len(lookup'[l]) = 1
      /\ \A k \in Labels : k # l => lookup'[k] = lookup[k]
  <2>1. a0 \notin Range(lookup[l])
    BY <1>1, <1>3 DEF TieredInv, LookupMatchesElements, Live
  <2>2. lookup[l] \in Seq(Adds) /\ IsInjective(lookup[l])
    BY <1>1 DEF TieredInv, TypeOK, TiersType, LookupMatchesElements
  <2>3. /\ Range(Grown(lookup[l], a0)) = Range(lookup[l]) \cup {a0}
        /\ ~IsMulti => Len(Grown(lookup[l], a0)) = 1
    <3>1. ~IsMulti => Grown(lookup[l], a0) = <<a0>>
      BY DEF Grown
    <3>2. QED
      BY <1>3, <2>1, <2>2, <3>1, ListGrows
  <2>4. lookup'[l] = Grown(lookup[l], a0) /\ \A k \in Labels : k # l => lookup'[k] = lookup[k]
    BY <1>1, <1>5 DEF TieredInv, TypeOK, TiersType
  <2>5. element'[a0] = e /\ \A a \in Adds : a # a0 => element'[a] = element[a]
    BY <1>1, <1>5 DEF TieredInv, TypeOK, TiersType
  <2>6. QED
    BY <2>3, <2>4, <2>5
<1>8. /\ Live(a0)' /\ ~Live(a0)
      /\ \A a \in Adds : a # a0 => (Live(a)' <=> Live(a))
  BY <1>3, <1>6, <1>7, AbsentAssumption DEF Live
<1>9. /\ pc'[t] = "index" /\ \A s \in Threads : s # t => pc'[s] = pc[s]
  BY <1>1, <1>2, GotoFacts DEF TieredInv, TypeOK, MainPc
<1>10. /\ t \in Workers => ValidJob(a0) /\ t # MainThread /\ a0 = task[t] /\ l = job[a0].label
       /\ t = MainThread => a0 = op.add /\ l = op.label /\ ~HasJob(a0) /\ Busy
  <2>1. t \in Workers => ValidJob(task[t])
    BY <1>1, <1>2 DEF TieredInv, CopyIsCurrent, Storing
  <2>2. t = MainThread => Busy
    BY <1>2 DEF Storing, Busy
  <2>3. QED
    BY <1>3, <2>1, <2>2, ThreadsAssumption DEF AddOf, LabelOf, Fresh, HasJob
<1>11. \A a \in Adds : ValidJob(a)' <=> ValidJob(a)
  BY <1>2 DEF ValidJob, HasJob
<1>12. Moves
  <2>1. \A a \in Adds, k \in Labels : Indexed(a, k)' <=> Indexed(a, k)
    BY <1>6, <1>7, <1>8 DEF Indexed
  <2>2. QED
    BY <1>2, <1>8, <1>10, <1>11, <2>1 DEF Moves, Buffered, Threads
<1>13. ElementsAreOwn'
  <2>1. Storing(MainThread)' => Storing(MainThread)
    BY <1>9 DEF Storing, Threads
  <2>2. QED
    BY <1>1, <1>2, <1>6, <1>7, <2>1 DEF ElementsAreOwn
<1>14. IngestedInBoth'
  <2> SUFFICES ASSUME NEW w \in Workers, pc'[w] \in {"index", "finish"},
                      NEW a \in Adds, a = task[w], HasJob(a)
               PROVE  /\ ValidJob(a)' => Live(a)'
                      /\ Live(a)' =>
                           /\ element'[a].label = job'[a].label
                           /\ pc'[w] = "finish" => ~element'[a].inProcess
                           /\ \/ ValidJob(a)'
                              \/ /\ pc'[MainThread] \in {"del_hnsw", "add_del_hnsw"}
                                 /\ op'.label = job'[a].label
    <3>1. \A w \in Workers : pc'[w] \in {"index", "finish"} => pc[w] # "idle"
      BY <1>2, <1>9 DEF Threads, Storing
    <3>2. QED
      BY <1>1, <1>2, <3>1, TasksAreAdds DEF IngestedInBoth
  <2>1. CASE w = t
    BY <2>1, <1>2, <1>6, <1>7, <1>8, <1>9, <1>10, <1>11
  <2>2. CASE w # t
    <3>1. a # a0
      <4>1. t \in Workers => task[t] # task[w]
        BY <1>1, <2>2, AbsentAssumption DEF TieredInv, JobsOwned
      <4>2. QED
        BY <1>10, <4>1 DEF Threads
    <3>2. pc'[w] = pc[w]
      BY <1>9, <2>2 DEF Threads
    <3>3. pc[MainThread] \in {"del_hnsw", "add_del_hnsw"} =>
            pc'[MainThread] = pc[MainThread]
      BY <1>2, <1>9 DEF Threads, Storing
    <3>4. QED
      BY <1>1, <1>2, <1>7, <1>8, <1>11, <3>1, <3>2, <3>3 DEF IngestedInBoth
  <2>3. QED
    BY <2>1, <2>2
<1>15. CallsEndWithOwn'
  <2>1. CASE t = MainThread
    <3>1. ~Submitting' /\ pc'[MainThread] = "index"
      BY <1>9, <2>1 DEF Submitting
    <3>2. QED
      BY <1>1, <1>2, <1>3, <1>7, <1>10, <2>1, <3>1 DEF CallsEndWithOwn, IsLabelExists
  <2>2. CASE t \in Workers
    <3>1. pc'[MainThread] = pc[MainThread]
      BY <1>9, <1>10, <2>2 DEF Threads
    <3>2. IsLabelExists(flat, l)
      BY <1>1, <1>10, <2>2, ValidJobs
    <3>3. pc[MainThread] = "index" => /\ op.label \in Labels /\ op.add \in Range(lookup[op.label])
                                      /\ ~IsMulti => op.label # l
      BY <1>1, <3>2 DEF CallsEndWithOwn, TieredInv, CallConsistent, AddOnly
    <3>4. pc[MainThread] = "index" => /\ op.add \in Range(lookup'[op.label])
                                      /\ ~IsMulti => lookup'[op.label] = lookup[op.label]
      BY <1>7, <3>3
    <3>5. QED
      BY <1>1, <1>2, <1>11, <3>1, <3>3, <3>4
      DEF CallsEndWithOwn, Submitting, IsLabelExists, ValidJob, HasJob, ClearsLabel
  <2>3. QED
    BY <2>1, <2>2 DEF Threads
<1>16. Busy' <=> Busy
  BY <1>2, <1>9 DEF Busy, Threads, Storing
<1>17. QED
  BY <1>2, <1>12, <1>13, <1>14, <1>15, <1>16 DEF TiersInv, Returns, SameCall

\* An indexed vector becomes visible in HNSW.  A worker's vector is still
\* visible in the buffer, unless a call is about to delete it.
LEMMA IndexMoves ==
  ASSUME CallerInv, NEW t \in Threads, IndexVector(t)
  PROVE  TiersInv' /\ Moves /\ Returns /\ SameCall
<1>1. TieredInv /\ ElementsAreOwn /\ IngestedInBoth /\ CallsEndWithOwn
  BY DEF CallerInv
<1>2. /\ pc[t] = "index" /\ element' = [element EXCEPT ![AddOf(t)].inProcess = FALSE]
      /\ blob' = [blob EXCEPT ![t] = NoBlob]
      /\ Goto(t, IF t = MainThread THEN "idle" ELSE "finish")
      /\ UNCHANGED <<flat, lookup, job, op, task>>
  BY DEF IndexVector, jobs
<1>3. PICK a0 \in Adds : a0 = AddOf(t) /\ element[a0] # NoElement
  BY <1>1, <1>2, IndexedElement
<1>4. /\ element'[a0].label = element[a0].label /\ element'[a0].vec = element[a0].vec
      /\ element'[a0].deleted = element[a0].deleted /\ element'[a0].inProcess = FALSE
      /\ element'[a0] # NoElement
      /\ \A a \in Adds : a # a0 => element'[a] = element[a]
  <2>1. PICK e \in [label : Labels, vec : Adds, inProcess : BOOLEAN, deleted : BOOLEAN] :
           e = element[a0]
    BY <1>1, <1>3, RecordTypes
  <2>2. PICK f : f = [e EXCEPT !.inProcess = FALSE]
    OBVIOUS
  <2>3. /\ f \in [label : Labels, vec : Adds, inProcess : BOOLEAN, deleted : BOOLEAN]
        /\ f.label = e.label /\ f.vec = e.vec /\ f.deleted = e.deleted /\ f.inProcess = FALSE
    BY <2>2
  <2>4. element' = [element EXCEPT ![a0] = f]
    BY <1>2, <1>3, <2>1, <2>2
  <2>5. element'[a0] = f /\ \A a \in Adds : a # a0 => element'[a] = element[a]
    BY <1>1, <2>4 DEF TieredInv, TypeOK, TiersType
  <2>6. QED
    BY <2>1, <2>3, <2>5, AbsentAssumption
<1>5. /\ pc'[t] = IF t = MainThread THEN "idle" ELSE "finish"
      /\ \A s \in Threads : s # t => pc'[s] = pc[s]
  BY <1>1, <1>2, GotoFacts DEF TieredInv, TypeOK, MainPc, WorkerPc
<1>6. \A a \in Adds : /\ Live(a)' <=> Live(a)
                      /\ ValidJob(a)' <=> ValidJob(a)
                      /\ element'[a] # NoElement => element[a] # NoElement
                      /\ element[a] # NoElement => /\ element'[a].label = element[a].label
                                                   /\ element'[a].vec = element[a].vec
                      /\ element[a] # NoElement /\ ~element[a].inProcess => ~element'[a].inProcess
  BY <1>2, <1>3, <1>4 DEF Live, ValidJob, HasJob
<1>7. t = MainThread => /\ a0 = op.add /\ op.kind = "add" /\ op.label \in Labels
                        /\ Live(a0) /\ element[a0].label = op.label
                        /\ ~IsMulti =>
                             /\ \A a \in Adds : Live(a) /\ element[a].label = op.label => a = a0
                             /\ ~IsLabelExists(flat, op.label)
  <2> SUFFICES ASSUME t = MainThread
               PROVE  /\ a0 = op.add /\ op.kind = "add" /\ op.label \in Labels
                      /\ Live(a0) /\ element[a0].label = op.label
                      /\ ~IsMulti =>
                           /\ \A a \in Adds : Live(a) /\ element[a].label = op.label => a = a0
                           /\ ~IsLabelExists(flat, op.label)
    OBVIOUS
  <2>1. a0 = op.add /\ op.kind = "add" /\ op.label \in Labels
    BY <1>1, <1>2, <1>3 DEF AddOf, TieredInv, CallConsistent, AddOnly
  <2>2. /\ a0 \in Range(lookup[op.label])
        /\ ~IsMulti => Len(lookup[op.label]) = 1 /\ ~IsLabelExists(flat, op.label)
    BY <1>1, <1>2, <2>1 DEF CallsEndWithOwn
  <2>3. ASSUME ~IsMulti PROVE Range(lookup[op.label]) = {a0}
    <3>1. PICK s \in Seq(Adds) : s = lookup[op.label]
      BY <1>1, <2>1 DEF TieredInv, TypeOK, TiersType
    <3>2. DOMAIN s = 1..1
      BY <2>2, <2>3, <3>1, LenProperties
    <3>3. QED
      BY <2>2, <3>1, <3>2 DEF Range
  <2>4. Range(lookup[op.label]) = {a \in Adds : Live(a) /\ element[a].label = op.label}
    BY <1>1, <2>1 DEF TieredInv, LookupMatchesElements
  <2>5. QED
    BY <2>1, <2>2, <2>3, <2>4
<1>8. t \in Workers =>
        /\ t # MainThread /\ a0 = task[t]
        /\ Live(a0) => /\ element[a0].label = job[a0].label
                       /\ \/ ValidJob(a0)
                          \/ Busy /\ ClearsLabel /\ op.label = job[a0].label
  <2>1. pc[MainThread] \in {"del_hnsw", "add_del_hnsw"} => Busy /\ ClearsLabel
    BY <1>1 DEF Busy, CallsEndWithOwn
  <2>2. t \in Workers => t # MainThread /\ a0 = task[t]
    BY <1>3, ThreadsAssumption DEF AddOf
  <2>3. QED
    BY <1>1, <1>2, <2>1, <2>2 DEF IngestedInBoth
<1>9. Moves
  <2>1. \A a \in Adds, k \in Labels : /\ Buffered(a, k)' <=> Buffered(a, k)
                                      /\ Indexed(a, k) => Indexed(a, k)'
                                      /\ a # a0 => (Indexed(a, k)' <=> Indexed(a, k))
    BY <1>2, <1>4, <1>6 DEF Buffered, Indexed, Live
  <2>2. ASSUME NEW k \in Labels, Stays(a0, k), Indexed(a0, k)'
        PROVE  Buffered(a0, k)
    <3>1. Live(a0) /\ element[a0].label = k
      BY <1>3, <1>6, <2>2 DEF Indexed
    <3>2. CASE t = MainThread
      BY <1>2, <1>7, <2>2, <3>1, <3>2 DEF Stays, Busy
    <3>3. CASE t \in Workers
      BY <1>8, <2>2, <3>1, <3>3 DEF Stays, Buffered
    <3>4. QED
      BY <3>2, <3>3 DEF Threads
  <2>3. QED
    BY <1>6, <2>1, <2>2 DEF Moves
<1>10. Busy' => Busy
  BY <1>2, <1>5 DEF Busy, Threads
<1>11. Returns
  <2> SUFFICES ASSUME Busy, ~Busy'
               PROVE  /\ Indexed(op.add, op.label)'
                      /\ ~IsMulti => \A a \in Adds :
                           Buffered(a, op.label)' \/ Indexed(a, op.label)' => a = op.add
    <3>1. Busy /\ ~Busy' => op.kind = "add"
      BY <1>5, <1>7 DEF Busy, Threads
    <3>2. QED
      BY <3>1 DEF Returns, ClearsLabel
  <2>1. t = MainThread
    BY <1>5 DEF Busy, Threads
  <2>2. Indexed(op.add, op.label)'
    BY <1>2, <1>4, <1>6, <1>7, <2>1 DEF Indexed, Live
  <2>3. ASSUME ~IsMulti, NEW a \in Adds
        PROVE  Buffered(a, op.label)' \/ Indexed(a, op.label)' => a = op.add
    <3>1. ~Buffered(a, op.label)
      BY <1>1, <1>7, <2>1, <2>3, ValidJobs DEF Buffered
    <3>2. Buffered(a, op.label)' <=> Buffered(a, op.label)
      BY <1>2, <1>6 DEF Buffered
    <3>3. Indexed(a, op.label)' => a = op.add
      BY <1>2, <1>4, <1>6, <1>7, <2>1, <2>3 DEF Indexed, Live
    <3>4. QED
      BY <3>1, <3>2, <3>3
  <2>4. QED
    BY <2>2, <2>3
<1>12. ElementsAreOwn'
  <2>1. Storing(MainThread)' => Storing(MainThread) /\ t # MainThread
    BY <1>5 DEF Storing, Threads
  <2>2. t # MainThread => blob'[MainThread] = blob[MainThread]
    BY <1>1, <1>2 DEF TieredInv, TypeOK, ControlType, Threads
  <2>3. QED
    BY <1>1, <1>2, <1>6, <2>1, <2>2 DEF ElementsAreOwn
<1>13. IngestedInBoth'
  <2> SUFFICES ASSUME NEW w \in Workers, pc[w] \in {"index", "finish"},
                      NEW a \in Adds, a = task[w],
                      pc'[w] = pc[w] \/ (w = t /\ pc'[w] = "finish")
               PROVE  /\ ValidJob(a)' => Live(a)'
                      /\ Live(a)' =>
                           /\ element'[a].label = job'[a].label
                           /\ pc'[w] = "finish" => ~element'[a].inProcess
                           /\ \/ ValidJob(a)'
                              \/ /\ pc'[MainThread] \in {"del_hnsw", "add_del_hnsw"}
                                 /\ op'.label = job'[a].label
    <3>1. \A w \in Workers : pc'[w] \in {"index", "finish"} =>
            /\ pc[w] \in {"index", "finish"}
            /\ pc'[w] = pc[w] \/ (w = t /\ pc'[w] = "finish")
      BY <1>2, <1>5, <1>8 DEF Threads
    <3>2. QED
      BY <1>1, <1>2, <3>1, TasksAreAdds DEF IngestedInBoth
  <2>1. pc[MainThread] \in {"del_hnsw", "add_del_hnsw"} => pc'[MainThread] = pc[MainThread]
    BY <1>2, <1>5 DEF Threads
  <2>2. pc'[w] = "finish" /\ Live(a) => ~element'[a].inProcess
    BY <1>1, <1>4, <1>6, <1>8 DEF IngestedInBoth, Live
  <2>3. QED
    BY <1>1, <1>2, <1>6, <2>1, <2>2 DEF IngestedInBoth, Live
<1>14. CallsEndWithOwn'
  <2>1. (Submitting' => Submitting) /\ (pc'[MainThread] = "index" => pc[MainThread] = "index")
    BY <1>5 DEF Submitting, Threads
  <2>2. pc'[MainThread] \in {"del_flat", "del_flat_x", "del_hnsw", "gc", "add_del_hnsw"} =>
           ClearsLabel'
    BY <1>1, <1>2, <1>5 DEF CallsEndWithOwn, ClearsLabel, Threads
  <2>3. QED
    BY <1>1, <1>2, <2>1, <2>2 DEF CallsEndWithOwn, IsLabelExists, ValidJob, HasJob
<1>15. QED
  BY <1>2, <1>9, <1>10, <1>11, <1>12, <1>13, <1>14 DEF TiersInv, SameCall

\* Write-in-place: the label's old vectors are gone when the new one is added to
\* a single-value index.
LEMMA AddInplaceMoves ==
  ASSUME CallerInv, AddInplace
  PROVE  TiersInv' /\ Moves /\ Returns /\ SameCall
<1>1. TieredInv /\ ElementsAreOwn /\ IngestedInBoth /\ CallsEndWithOwn
  BY DEF CallerInv
<1>2. /\ pc[MainThread] = "add_inplace" /\ Goto(MainThread, "idle")
      /\ UNCHANGED <<flat, job, op, task, blob>>
  BY DEF AddInplace, jobs
<1>3. /\ op.kind = "add" /\ op.add \in Adds /\ op.label \in Labels
      /\ Fresh(op.add)
      /\ ~IsMulti => lookup[op.label] = <<>> /\ ~IsLabelExists(flat, op.label)
  BY <1>1, <1>2
  DEF TieredInv, CallConsistent, AddOnly, NewIsFresh, BeforeStored, LabelCleared, ClearsLabel
<1>4. PICK a0 \in Adds, l \in Labels : a0 = op.add /\ l = op.label
  BY <1>3
<1> DEFINE e == [label |-> l, vec |-> a0, inProcess |-> FALSE, deleted |-> FALSE]
<1>5. element' = [element EXCEPT ![a0] = e]
  <2>1. (IF IsMulti THEN {} ELSE Range(lookup[l])) = {}
    BY <1>3, <1>4 DEF Range
  <2>2. Without({}) = element
    BY <1>1 DEF Without, TieredInv, TypeOK, TiersType
  <2>3. QED
    BY <2>1, <2>2, <1>4 DEF AddInplace
<1>6. /\ e \in [label : Labels, vec : Adds, inProcess : BOOLEAN, deleted : BOOLEAN]
      /\ e.label = l /\ e.vec = a0 /\ e.inProcess = FALSE /\ e.deleted = FALSE
  OBVIOUS
<1> HIDE DEF e
<1>7. element'[a0] = e /\ \A a \in Adds : a # a0 => element'[a] = element[a]
  BY <1>1, <1>5 DEF TieredInv, TypeOK, TiersType
<1>8. /\ Live(a0)' /\ ~Live(a0) /\ ~HasJob(a0)
      /\ \A a \in Adds : a # a0 => (Live(a)' <=> Live(a))
      /\ \A a \in Adds : ValidJob(a)' <=> ValidJob(a)
  BY <1>2, <1>3, <1>4, <1>6, <1>7, AbsentAssumption DEF Live, Fresh, ValidJob, HasJob
<1>9. pc'[MainThread] = "idle" /\ \A w \in Workers : pc'[w] = pc[w]
  BY <1>1, <1>2, GotoFacts, ThreadsAssumption DEF TieredInv, TypeOK, Threads, MainPc
<1>10. ASSUME ~IsMulti
       PROVE  \A a \in Adds : ~(Live(a) /\ element[a].label = l) /\ ~Buffered(a, l)
  <2>1. Range(lookup[l]) = {}
    BY <1>3, <1>4, <1>10 DEF Range
  <2>2. \A a \in Adds : ~(Live(a) /\ element[a].label = l)
    BY <1>1, <2>1 DEF TieredInv, LookupMatchesElements
  <2>3. \A a \in Adds : ~Buffered(a, l)
    BY <1>1, <1>3, <1>4, <1>10, ValidJobs DEF Buffered
  <2>4. QED
    BY <2>2, <2>3
<1>11. \A a \in Adds, k \in Labels :
         /\ Buffered(a, k)' <=> Buffered(a, k)
         /\ Indexed(a, k)' <=> Indexed(a, k) \/ (a = a0 /\ k = l)
  BY <1>2, <1>6, <1>7, <1>8 DEF Buffered, Indexed
<1>12. Moves
  BY <1>2, <1>4, <1>8, <1>11 DEF Moves, Stays, Busy
<1>13. Returns
  <2>1. op'.label = l /\ op'.add = a0 /\ (ClearsLabel => ~IsMulti)
    BY <1>2, <1>3, <1>4 DEF ClearsLabel
  <2>2. Indexed(a0, l)'
    BY <1>11
  <2>3. ~IsMulti => \A a \in Adds : Buffered(a, l)' \/ Indexed(a, l)' => a = a0
    BY <1>10, <1>11 DEF Indexed
  <2>4. Indexed(op.add, op.label)'
    BY <1>2, <1>4, <2>2 DEF Indexed
  <2>5. ~IsMulti => \A a \in Adds : Buffered(a, op.label)' \/ Indexed(a, op.label)' => a = op.add
    BY <1>2, <1>4, <2>3 DEF Indexed, Buffered
  <2>6. QED
    BY <1>3, <2>1, <2>4, <2>5 DEF Returns
<1>14. ElementsAreOwn'
  BY <1>1, <1>2, <1>6, <1>7, <1>9 DEF ElementsAreOwn, Storing
<1>15. IngestedInBoth'
  <2> SUFFICES ASSUME NEW w \in Workers, pc[w] \in {"index", "finish"},
                      NEW a \in Adds, a = task[w], HasJob(a)
               PROVE  /\ ValidJob(a)' => Live(a)'
                      /\ Live(a)' => /\ element'[a].label = job'[a].label
                                     /\ pc[w] = "finish" => ~element'[a].inProcess
                                     /\ ValidJob(a)'
    BY <1>1, <1>2, <1>9, TasksAreAdds DEF IngestedInBoth
  <2>1. QED
    BY <1>1, <1>2, <1>7, <1>8 DEF IngestedInBoth
<1>16. CallsEndWithOwn'
  BY <1>1, <1>2, <1>9 DEF CallsEndWithOwn, Submitting
<1>17. QED
  BY <1>2, <1>9, <1>12, <1>13, <1>14, <1>15, <1>16 DEF TiersInv, SameCall, Busy

-----------------------------------------------------------------------------
(* Every step.                                                              *)

\* No step of a call, of a worker or of a query does more than Moves allows,
\* and a call returns with its vector, or nothing, under its label.
LEMMA StepMoves ==
  ASSUME CallerInv, [Next]_vars,
         ~ \E l \in Labels : StartAdd(l) \/ StartDelete(l)
  PROVE  TiersInv' /\ Moves /\ Returns /\ SameCall
<1>1. CASE Call
  BY <1>1, OthersMove DEF Call
<1>2. CASE DeleteStep
  BY <1>2, LookingMoves, DeleteFromFlatMoves, MarkDeleteMoves, DisposalMoves DEF DeleteStep
<1>3. CASE AddStep
  BY <1>3, AddInplaceMoves, LookingMoves, AddToFlatMoves, MarkDeleteMoves, SubmitMoves
  DEF AddStep
<1>4. ASSUME NEW t \in Threads, InsertStep(t)
      PROVE  TiersInv' /\ Moves /\ Returns /\ SameCall
  BY <1>4, StoreMoves, FindFullMoves, IndexMoves DEF InsertStep
<1>5. ASSUME NEW w \in Workers, WorkerStep(w) \/ \E a \in Adds : TakeJob(w, a)
      PROVE  TiersInv' /\ Moves /\ Returns /\ SameCall
  BY <1>4, <1>5, JobEndMoves, WorkerLooksMoves DEF WorkerStep, Threads
<1>6. CASE UNCHANGED vars \/ \E r \in Readers : QueryStart(r) \/ QueryStep(r)
  BY <1>6, OthersMove
<1>7. QED
  BY <1>1, <1>2, <1>3, <1>4, <1>5, <1>6 DEF Next, MainStep, Threads

\* What a step that is not a query's leaves of the queries.
LEMMA QueriesStay ==
  ASSUME [Next]_vars, ~ \E r \in Readers : QueryStart(r) \/ QueryStep(r),
         ~ \E l \in Labels : StartAdd(l) \/ StartDelete(l)
  PROVE  UNCHANGED <<query, promised, gone, adds>>
<1>1. CASE Next
  <2>1. ASSUME NEW t \in Threads, InsertStep(t)
        PROVE  UNCHANGED <<query, promised, gone, adds>>
    BY <2>1 DEF InsertStep, StoreShared, StoreExclusive, StoreAndReleaseFlat, FindFull,
                IndexVector, queries
  <2>2. SetWriteMode => UNCHANGED <<query, promised, gone, adds>>
    BY DEF SetWriteMode, queries
  <2>3. DeleteStep \/ AddStep => UNCHANGED <<query, promised, gone, adds>>
    BY DEF DeleteStep, DeleteCheckFlat, DeleteFromFlat, DeleteFromHNSW, DeleteFromHNSWInplace,
           ExecuteReadySwapJobs, AddStep, AddInplace, RecheckFlatLimit, AddToFlat,
           AddDeletesOldFromHNSW, SubmitInsertJob, queries
  <2>4. ASSUME NEW w \in Workers, WorkerStep(w) \/ \E a \in Adds : TakeJob(w, a)
        PROVE  UNCHANGED <<query, promised, gone, adds>>
    BY <2>1, <2>4 DEF WorkerStep, DropInvalidJob, CopyBlob, FinishJob, TakeJob, queries, Threads
  <2>5. QED
    BY <1>1, <2>1, <2>2, <2>3, <2>4 DEF Next, Call, MainStep, Threads
<1>2. QED
  BY <1>1 DEF vars, queries, control

\* The invariant of the queries survives whatever else is going on.
LEMMA OthersKeepQueries ==
  ASSUME CallerInv, (TieredInv /\ ElementsAreOwn)', Moves, UNCHANGED <<query, gone>>,
         adds' >= adds, adds' \in Nat,
         Busy' => \/ Busy /\ op'.add = op.add
                  \/ ~Busy /\ (op'.add = 0 \/ op'.add > adds),
         \A r \in Readers : /\ promised'[r] \subseteq promised[r]
                            /\ \A x \in promised'[r] : Stays(x[2], x[1])'
  PROVE  QueriesOnCourse'
<1>1. TieredInv /\ ElementsAreOwn /\ QueriesOnCourse
  BY DEF CallerInv
<1> SUFFICES ASSUME NEW r \in Readers PROVE QueryOnCourse(r)'
  BY DEF QueriesOnCourse
<1>2. QueryOnCourse(r)
  BY <1>1 DEF QueriesOnCourse
<1>3. \A x \in promised'[r] : x[2] <= adds' /\ Stays(x[2], x[1])'
  <2>1. adds \in Nat /\ adds' \in Nat /\ promised[r] \subseteq Labels \X Adds /\ Adds \subseteq Nat
    BY <1>1, BoundsAssumption DEF TieredInv, TypeOK, ControlType, QueriesType, Adds
  <2>2. \A a \in Nat : a <= adds => a <= adds'
    BY <2>1
  <2>3. QED
    BY <1>2, <2>1, <2>2 DEF QueryOnCourse
<1>4. /\ promised[r] \cap MainResults \subseteq MainResults'
      /\ promised'[r] \subseteq FlatResults \cup MainResults =>
           promised'[r] \subseteq FlatResults' \cup MainResults'
  <2>1. /\ FlatResults = {x \in Labels \X Adds : Buffered(x[2], x[1])}
        /\ MainResults = {x \in Labels \X Adds : Indexed(x[2], x[1])}
    BY <1>1, WhatIsSeen
  <2>2. /\ FlatResults' = {x \in Labels \X Adds : Buffered(x[2], x[1])'}
        /\ MainResults' = {x \in Labels \X Adds : Indexed(x[2], x[1])'}
    BY WhatIsSeenNext
  <2>3. \A x \in promised[r] : Stays(x[2], x[1])
    BY <1>2 DEF QueryOnCourse
  <2>4. ASSUME NEW x \in promised[r], x \in FlatResults \cup MainResults
        PROVE  x \in FlatResults' \cup MainResults' /\ (x \in MainResults => x \in MainResults')
    BY <2>1, <2>2, <2>3, <2>4 DEF Moves
  <2>5. QED
    BY <2>4
<1>5. gone[r] \cap Held' = {}
  <2>1. Held = {a \in Adds : ValidJob(a) \/ Live(a)}
    BY <1>1, WhatIsSeen
  <2>2. Held' = {a \in Adds : ValidJob(a)' \/ Live(a)'}
    BY WhatIsSeenNext
  <2>3. QED
    BY <1>2, <2>1, <2>2 DEF Moves, QueryOnCourse
<1>6. adds \in Nat /\ adds' \in Nat
  BY <1>1, BoundsAssumption DEF TieredInv, TypeOK, ControlType
<1>7. gone[r] \subseteq 1..adds'
  BY <1>2, <1>6 DEF QueryOnCourse
<1>8. Busy' => op'.add \notin gone[r]
  BY <1>2, <1>6 DEF QueryOnCourse
<1>10. /\ r \notin Watched => promised'[r] = {}
       /\ query[r].pc = "flat" => promised'[r] \subseteq FlatResults' \cup MainResults'
       /\ query[r].pc \in {"main", "search"} =>
            promised'[r] \subseteq query[r].first \cup MainResults'
       /\ query[r].pc = "done" => promised'[r] \subseteq Result(r)
       /\ \A x \in Result(r) : x[2] \notin gone[r]
  <2> HIDE DEF FlatResults, MainResults
  <2>1. QED
    BY <1>2, <1>4 DEF QueryOnCourse
<1>9. QED
  BY <1>3, <1>5, <1>7, <1>8, <1>10 DEF QueryOnCourse, Result

\* A query's step changes nothing that the others' courses depend on.
LEMMA OtherQueriesKeep ==
  ASSUME QueriesOnCourse, UNCHANGED <<flat, element, pc, op, adds>>,
         NEW r \in Readers, QueryOnCourse(r)',
         \A s \in Readers : s # r => /\ query'[s] = query[s]
                                     /\ promised'[s] = promised[s]
                                     /\ gone'[s] = gone[s]
  PROVE  QueriesOnCourse'
<1>1. /\ FlatResults' = FlatResults /\ MainResults' = MainResults /\ Held' = Held
      /\ (Busy' <=> Busy) /\ \A x : Stays(x[2], x[1])' <=> Stays(x[2], x[1])
  BY DEF MainResults, Held, FlatResults, Live, Count, Busy, Stays, ClearsLabel
<1>2. ASSUME NEW s \in Readers, s # r
      PROVE  QueryOnCourse(s)'
  <2>1. QueryOnCourse(s) /\ query'[s] = query[s] /\ promised'[s] = promised[s]
        /\ gone'[s] = gone[s]
    BY <1>2 DEF QueriesOnCourse
  <2>2. Result(s)' = Result(s)
    BY <2>1 DEF Result
  <2>3. QED
    BY <1>1, <2>1, <2>2 DEF QueryOnCourse
<1>3. QED
  BY <1>2 DEF QueriesOnCourse

\* A query that begins is promised what no call is about to change.
LEMMA QueryStartKeeps ==
  ASSUME CallerInv, NEW r \in Readers, QueryStart(r)
  PROVE  QueriesOnCourse'
<1>1. TieredInv /\ ElementsAreOwn /\ QueriesOnCourse
  BY DEF CallerInv
<1>2. UNCHANGED <<flat, element, pc, op, adds>>
  BY DEF QueryStart, tiers, control
<1>3. /\ query'[r] = [pc |-> "flat", first |-> {}, second |-> {}]
      /\ promised'[r] = Kept(r, {x \in FlatResults \cup MainResults :
              Busy => x[2] # op.add /\ (x[1] = op.label => op.kind = "add" /\ IsMulti)})
      /\ gone'[r] = Kept(r, {a \in 1..adds :
                                /\ \A i \in 1..Count(flat) : flat.vectors[i] # a
                                /\ \A b \in Adds : Live(b) => element[b].vec # a
                                /\ Busy => op.add # a})
      /\ \A s \in Readers : s # r => /\ query'[s] = query[s]
                                     /\ promised'[s] = promised[s]
                                     /\ gone'[s] = gone[s]
  BY <1>1 DEF QueryStart, TieredInv, TypeOK, QueriesType
<1>4. /\ \A x \in promised'[r] : /\ x \in FlatResults \cup MainResults
                                 /\ Busy => x[2] # op.add
                                 /\ Busy /\ x[1] = op.label => op.kind = "add" /\ IsMulti
      /\ r \notin Watched => promised'[r] = {}
      /\ \A a \in gone'[r] : /\ a \in 1..adds
                             /\ \A i \in 1..Count(flat) : flat.vectors[i] # a
                             /\ \A b \in Adds : Live(b) => element[b].vec # a
                             /\ Busy => op.add # a
  BY <1>3 DEF Kept
<1>5. gone'[r] \cap Held = {}
  <2>1. \A x \in FlatResults : x[2] \notin gone'[r]
    BY <1>4 DEF FlatResults
  <2>2. QED
    BY <1>4, <2>1 DEF Held
<1>6. \A x \in promised'[r] : Stays(x[2], x[1]) /\ x[2] <= adds
  <2>1. \A x \in promised'[r] : Stays(x[2], x[1])
    BY <1>4 DEF Stays, ClearsLabel
  <2>2. \A x \in promised'[r] : x[2] <= adds
    BY <1>1, <1>4, FreshIsUnseen
  <2>3. QED
    BY <2>1, <2>2
<1>7. /\ FlatResults' = FlatResults /\ MainResults' = MainResults /\ Held' = Held
      /\ (Busy' <=> Busy) /\ \A x : Stays(x[2], x[1])' <=> Stays(x[2], x[1])
  BY <1>2 DEF MainResults, Held, FlatResults, Live, Count, Busy, Stays, ClearsLabel
<1>8. Result(r)' = {}
  BY <1>3 DEF Result
<1>9. QueryOnCourse(r)'
  BY <1>2, <1>3, <1>4, <1>5, <1>6, <1>7, <1>8 DEF QueryOnCourse
<1>10. QED
  BY <1>1, <1>2, <1>3, <1>9, OtherQueriesKeep

\* A query reads the buffer, and what it was promised and did not see is in HNSW;
\* it reads HNSW, and has all that it was promised.
LEMMA QueryStepKeeps ==
  ASSUME CallerInv, NEW r \in Readers, QueryStep(r)
  PROVE  QueriesOnCourse'
<1>1. TieredInv /\ ElementsAreOwn /\ QueriesOnCourse
  BY DEF CallerInv
<1>2. UNCHANGED <<flat, element, pc, op, adds>>
  BY DEF QueryStep, QueryFlat, QueryLockMain, QueryMain, QueryReturn, tiers, control
<1>3. /\ FlatResults' = FlatResults /\ MainResults' = MainResults /\ Held' = Held
      /\ (Busy' <=> Busy) /\ \A x : Stays(x[2], x[1])' <=> Stays(x[2], x[1])
  BY <1>2 DEF MainResults, Held, FlatResults, Live, Count, Busy, Stays, ClearsLabel
<1>4. QueryOnCourse(r)
  BY <1>1 DEF QueriesOnCourse
<1>5. \A x \in FlatResults \cup MainResults : x[2] \notin gone[r]
  <2>1. /\ FlatResults = {x \in Labels \X Adds : Buffered(x[2], x[1])}
        /\ MainResults = {x \in Labels \X Adds : Indexed(x[2], x[1])}
        /\ Held = {a \in Adds : ValidJob(a) \/ Live(a)}
    BY <1>1, WhatIsSeen
  <2>2. \A x \in FlatResults \cup MainResults : x[2] \in Held
    BY <2>1 DEF Buffered, Indexed
  <2>3. QED
    BY <1>4, <2>2 DEF QueryOnCourse
<1>6. \A s \in Readers : s # r => /\ query'[s] = query[s]
                                  /\ promised'[s] = promised[s]
                                  /\ gone'[s] = gone[s]
  BY <1>1 DEF QueryStep, QueryFlat, QueryLockMain, QueryMain, QueryReturn,
              TieredInv, TypeOK, QueriesType
<1> DEFINE first == query[r].first
<1>7. ASSUME promised'[r] = promised[r], gone'[r] = gone[r],
             NEW F, NEW S, F \cup S \subseteq Result(r) \cup FlatResults \cup MainResults,
             query'[r].first = F, query'[r].second = S,
             query'[r].pc \in {"main", "search"} => promised[r] \subseteq F \cup MainResults,
             query'[r].pc = "done" => promised[r] \subseteq F \cup S,
             query'[r].pc # "flat"
      PROVE  QueryOnCourse(r)'
  <2>1. Result(r)' = F \cup S
    BY <1>7 DEF Result
  <2>2. \A x \in F \cup S : x[2] \notin gone[r]
    BY <1>4, <1>5, <1>7 DEF QueryOnCourse
  <2>3. /\ \A x \in Result(r)' : x[2] \notin gone'[r]
        /\ query'[r].pc = "done" => promised'[r] \subseteq Result(r)'
    BY <1>7, <2>1, <2>2
  <2>4. QED
    BY <1>2, <1>3, <1>4, <1>7, <2>3 DEF QueryOnCourse
<1>8. CASE QueryFlat(r)
  <2>1. /\ promised'[r] = promised[r] /\ gone'[r] = gone[r] /\ query[r].pc = "flat"
        /\ query'[r] = [pc |-> "main", first |-> Kept(r, FlatResults), second |-> {}]
    BY <1>1, <1>8 DEF QueryFlat, ReadTier, TieredInv, TypeOK, QueriesType
  <2>2. promised[r] \subseteq Kept(r, FlatResults) \cup MainResults
    BY <1>4, <2>1 DEF QueryOnCourse, Kept
  <2>3. Kept(r, FlatResults) \subseteq FlatResults
    BY DEF Kept
  <2>4. QueryOnCourse(r)'
    BY <1>7, <2>1, <2>2, <2>3
  <2>5. QED
    BY <1>1, <1>2, <1>6, <2>4, OtherQueriesKeep
<1>9. CASE QueryLockMain(r)
  <2>1. /\ promised'[r] = promised[r] /\ gone'[r] = gone[r] /\ query[r].pc = "main"
        /\ query'[r].pc = "search" /\ query'[r].first = first
        /\ query'[r].second = query[r].second
    BY <1>1, <1>9 DEF QueryLockMain, TieredInv, TypeOK, QueriesType
  <2>2. /\ promised[r] \subseteq first \cup MainResults
        /\ first \cup query[r].second \subseteq Result(r)
    BY <1>4, <2>1 DEF QueryOnCourse, Result
  <2>3. QueryOnCourse(r)'
    BY <1>7, <2>1, <2>2
  <2>4. QED
    BY <1>1, <1>2, <1>6, <2>3, OtherQueriesKeep
<1>10. CASE QueryMain(r)
  <2>1. /\ promised'[r] = promised[r] /\ gone'[r] = gone[r] /\ query[r].pc = "search"
        /\ query'[r] = [pc |-> "done", first |-> first, second |-> Kept(r, MainResults)]
    BY <1>1, <1>10 DEF QueryMain, ReadTier, TieredInv, TypeOK, QueriesType
  <2>2. /\ promised[r] \subseteq first \cup Kept(r, MainResults)
        /\ first \subseteq Result(r)
    BY <1>4, <2>1 DEF QueryOnCourse, Kept, Result
  <2>3. Kept(r, MainResults) \subseteq MainResults
    BY DEF Kept
  <2>4. QueryOnCourse(r)'
    BY <1>7, <2>1, <2>2, <2>3
  <2>5. QED
    BY <1>1, <1>2, <1>6, <2>4, OtherQueriesKeep
<1>11. CASE QueryReturn(r)
  <2>1. query'[r] = NoQuery /\ promised'[r] = {} /\ gone'[r] = {}
    BY <1>1, <1>11 DEF QueryReturn, TieredInv, TypeOK, QueriesType
  <2>2. QueryOnCourse(r)'
    BY <2>1 DEF QueryOnCourse, NoQuery, Result
  <2>3. QED
    BY <1>1, <1>2, <1>6, <2>2, OtherQueriesKeep
<1>12. QED
  BY <1>8, <1>9, <1>10, <1>11 DEF QueryStep

\* What callers see of a vector does not change while no call is about it.
LEMMA OthersShown ==
  ASSUME CallerInv, (TieredInv /\ ElementsAreOwn)', Moves, NEW k \in Labels
  PROVE  /\ Visible(k) \subseteq Adds /\ Visible(k)' \subseteq Adds
         /\ \A a \in Adds : Stays(a, k) => (a \in Visible(k)' <=> a \in Visible(k))
<1>1. Visible(k) = {a \in Adds : Buffered(a, k) \/ Indexed(a, k)}
  BY WhatIsSeen DEF CallerInv
<1>2. (\A l \in Labels : Visible(l) = {a \in Adds : Buffered(a, l) \/ Indexed(a, l)})'
  BY WhatIsSeenNext
<1>3. Visible(k)' = {a \in Adds : Buffered(a, k)' \/ Indexed(a, k)'}
  BY <1>2
<1>4. QED
  BY <1>1, <1>3 DEF Moves

\* CallerInv is inductive.
LEMMA CallerStep == ASSUME CallerInv, [Next]_vars PROVE CallerInv'
<1>1. TieredInv /\ TieredInv' /\ adds \in Nat /\ adds' \in Nat
  <2>1. TieredInv /\ TieredInv'
    BY StepInv DEF CallerInv
  <2>2. adds \in Nat /\ adds' \in Nat
    BY <2>1, BoundsAssumption DEF TieredInv, TypeOK, ControlType
  <2>3. QED
    BY <2>1, <2>2
<1>2. CASE \E l \in Labels : StartAdd(l) \/ StartDelete(l)
  <2>1. PICK l \in Labels : StartAdd(l) \/ StartDelete(l)
    BY <1>2
  <2>2. /\ TiersInv' /\ Moves /\ ~Busy /\ Busy' /\ op'.label = l /\ op'.before = Visible(l)
        /\ op'.add = 0 \/ op'.add > adds
        /\ op'.add \notin Visible(l)
        /\ \A r \in Readers : /\ promised'[r] \subseteq promised[r]
                              /\ ClearsLabel' => \A x \in promised'[r] : x[1] # l
        /\ UNCHANGED <<query, gone>>
    BY <2>1, StartMoves
  <2>3. adds' >= adds
    BY <1>1, <2>1 DEF StartAdd, StartDelete
  <2>4. \A r \in Readers : \A x \in promised'[r] : Stays(x[2], x[1])'
    <3>1. \A r \in Readers : \A x \in promised'[r] : x[2] \in Adds /\ x[2] <= adds
      BY <2>2 DEF CallerInv, QueriesOnCourse, QueryOnCourse, TieredInv, TypeOK, QueriesType
    <3>2. \A a \in Adds : a \in Nat /\ a # 0
      BY BoundsAssumption DEF Adds
    <3>3. \A a \in Adds : a <= adds => a # op'.add
      BY <1>1, <2>2, <3>2
    <3>4. QED
      BY <2>2, <3>1, <3>3 DEF Stays
  <2>5. QueriesOnCourse'
    BY <1>1, <2>2, <2>3, <2>4, OthersKeepQueries DEF TiersInv
  <2>6. BeforeStays'
    <3>1. Visible(l) \subseteq Adds /\ Visible(l)' \subseteq Adds
      BY <1>1, <2>2, OthersShown DEF TiersInv
    <3>2. \A a \in Adds : a \in Visible(l)' <=> a \in Visible(l)
      BY <1>1, <2>2, OthersShown DEF TiersInv, Stays
    <3>3. Visible(l)' = Visible(l)
      BY <3>1, <3>2
    <3>4. Visible(op.label)' = Visible(l)
      BY <2>2, <3>3 DEF Visible
    <3>5. QED
      BY <2>2, <3>4 DEF BeforeStays
  <2>7. QED
    BY <1>1, <2>2, <2>5, <2>6 DEF CallerInv, TiersInv
<1>3. CASE ~ \E l \in Labels : StartAdd(l) \/ StartDelete(l)
  <2>1. TiersInv' /\ Moves /\ SameCall
    BY <1>3, StepMoves
  <2>2. QueriesOnCourse'
    <3>1. CASE \E r \in Readers : QueryStart(r) \/ QueryStep(r)
      BY <3>1, QueryStartKeeps, QueryStepKeeps
    <3>2. CASE ~ \E r \in Readers : QueryStart(r) \/ QueryStep(r)
      <4>1. UNCHANGED <<query, promised, gone, adds>>
        BY <1>3, <3>2, QueriesStay
      <4>2. \A r \in Readers : \A x \in promised[r] : Stays(x[2], x[1])'
        BY <2>1 DEF CallerInv, QueriesOnCourse, QueryOnCourse, Stays, SameCall, ClearsLabel
      <4>3. QED
        BY <1>1, <2>1, <4>1, <4>2, OthersKeepQueries DEF TiersInv, SameCall
    <3>3. QED
      BY <3>1, <3>2
  <2>3. BeforeStays'
    <3> SUFFICES ASSUME Busy', ~ClearsLabel'
                 PROVE  op'.before = Visible(op.label)' \ {op'.add}
      BY DEF BeforeStays
    <3>1. /\ Busy /\ ~ClearsLabel /\ op.label \in Labels
          /\ op'.label = op.label /\ op'.add = op.add /\ op'.before = op.before
      BY <1>1, <2>1 DEF SameCall, ClearsLabel, TieredInv, CallConsistent
    <3>2. op.before = Visible(op.label) \ {op.add}
      BY <3>1 DEF CallerInv, BeforeStays
    <3>3. PICK l \in Labels : l = op.label
      BY <3>1
    <3>4. /\ Visible(l) \subseteq Adds /\ Visible(l)' \subseteq Adds
          /\ \A a \in Adds : Stays(a, l) => (a \in Visible(l)' <=> a \in Visible(l))
      BY <1>1, <2>1, OthersShown DEF TiersInv
    <3>5. \A a \in Adds : a # op.add => Stays(a, l)
      BY <3>1 DEF Stays
    <3>6. Visible(l)' \ {op.add} = Visible(l) \ {op.add}
      BY <3>4, <3>5
    <3>7. Visible(op.label)' = Visible(l)'
      BY <3>1, <3>3 DEF Visible
    <3>8. QED
      BY <3>1, <3>2, <3>3, <3>6, <3>7
  <2>4. QED
    BY <1>1, <2>1, <2>2, <2>3 DEF CallerInv, TiersInv
<1>4. QED
  BY <1>2, <1>3

\* Nothing is stored, and nobody asks, in the beginning.
LEMMA CallerInit == ASSUME Init PROVE CallerInv
<1>1. TieredInv
  BY InitInv
<1>2. ElementsAreOwn /\ IngestedInBoth
  BY DEF Init, ElementsAreOwn, IngestedInBoth, Storing, Threads
<1>3. CallsEndWithOwn
  BY DEF Init, CallsEndWithOwn, Submitting, NoOp, Threads
<1>4. QueriesOnCourse /\ BeforeStays
  BY DEF Init, QueriesOnCourse, QueryOnCourse, BeforeStays, Stays, Busy, NoQuery, Result, Threads
<1>5. QED
  BY <1>1, <1>2, <1>3, <1>4 DEF CallerInv

\* The strengthening holds in every state of the index, of either kind.
THEOREM CallerInvHolds == Spec => []CallerInv
<1>1. Init => CallerInv
  BY CallerInit
<1>2. CallerInv /\ [Next]_vars => CallerInv'
  BY CallerStep
<1>3. QED
  BY <1>1, <1>2, PTL DEF Spec

\* No query misses a vector that was stored before it began and is not deleted
\* or overwritten while it runs, although workers move vectors between the
\* tiers while it reads one after the other.
THEOREM QueriesAlwaysComplete == Spec => []QueriesAreComplete
<1>1. CallerInv => QueriesAreComplete
  BY DEF CallerInv, QueriesOnCourse, QueryOnCourse, QueriesAreComplete
<1>2. QED
  BY <1>1, CallerInvHolds, PTL

\* No query returns a vector that was deleted or overwritten before it began:
\* no late insert job brings it back.
THEOREM QueriesNeverSeeDeleted == Spec => []QueriesSeeNoDeleted
<1>1. CallerInv => QueriesSeeNoDeleted
  BY DEF CallerInv, QueriesOnCourse, QueryOnCourse, QueriesSeeNoDeleted
<1>2. QED
  BY <1>1, CallerInvHolds, PTL

-----------------------------------------------------------------------------
(* The index implements VectorStore.                                        *)

\* What callers see under every label; Store is instantiated with it.
Content == [l \in Labels |-> IF Busy /\ op.label = l THEN op.before ELSE Visible(l)]

\* A vector is under one label, in whichever tiers it is.
LEMMA OneLabel ==
  CallerInv => \A a \in Adds : \A k, l \in Labels :
    (Buffered(a, k) \/ Indexed(a, k)) /\ (Buffered(a, l) \/ Indexed(a, l)) => k = l
<1> SUFFICES ASSUME CallerInv, NEW a \in Adds, NEW k \in Labels, NEW l \in Labels,
                    Buffered(a, k) \/ Indexed(a, k), Buffered(a, l) \/ Indexed(a, l)
             PROVE  k = l
  OBVIOUS
<1>1. CASE ValidJob(a) /\ Live(a)
  <2>1. PICK w \in Workers : task[w] = a /\ pc[w] \in {"index", "finish"}
    BY <1>1 DEF CallerInv, TieredInv, NotStoredYet, ValidJob, Live
  <2>2. element[a].label = job[a].label
    BY <1>1, <2>1 DEF CallerInv, IngestedInBoth
  <2>3. QED
    BY <2>2 DEF Buffered, Indexed
<1>2. QED
  BY <1>1 DEF Buffered, Indexed

LEMMA OneLabelNext ==
  CallerInv' => (\A a \in Adds : \A k, l \in Labels :
    (Buffered(a, k) \/ Indexed(a, k)) /\ (Buffered(a, l) \/ Indexed(a, l)) => k = l)'
BY OneLabel, PTL

\* A call that returns does to the store what it was called for.
LEMMA ReturnIsStoreStep ==
  ASSUME CallerInv, CallerInv', Moves, Returns, SameCall, Busy, ~Busy'
  PROVE  Store!Next
<1>1. PICK l \in Labels : l = op.label /\ op'.label = l /\ op.kind \in {"add", "delete"}
  BY DEF CallerInv, TieredInv, TypeOK, ControlType, CallConsistent, SameCall
<1>2. \A k \in Labels : Visible(k) \subseteq Adds /\ Visible(k)' \subseteq Adds
        /\ \A a \in Adds : Stays(a, k) => (a \in Visible(k)' <=> a \in Visible(k))
  BY OthersShown DEF CallerInv
<1>3. \A k \in Labels : k # l => Visible(k)' = Visible(k)
  <2>1. \A a, k : k # l => Stays(a, k)
    BY <1>1 DEF Stays
  <2>2. QED
    BY <1>2, <2>1
<1>4. (\A k \in Labels : Visible(k) = {a \in Adds : Buffered(a, k) \/ Indexed(a, k)})'
  BY WhatIsSeenNext DEF CallerInv
<1>5. Visible(l)' = {a \in Adds : Buffered(a, op.label)' \/ Indexed(a, op.label)'}
  <2>1. Visible(l)' = {a \in Adds : Buffered(a, l)' \/ Indexed(a, l)'}
    BY <1>4
  <2>2. QED
    BY <1>1, <2>1 DEF Buffered, Indexed
<1>6. CASE op.kind = "add"
  <2>1. PICK v \in Adds : v = op.add /\ op'.add = v
    BY <1>6 DEF CallerInv, TieredInv, CallConsistent, SameCall
  <2>2. v \in Visible(l)'
    BY <1>1, <1>5, <1>6, <2>1 DEF Returns, Buffered, Indexed
  <2>3. Visible(l)' = IF IsMulti THEN op.before \cup {v} ELSE {v}
    <3>1. CASE IsMulti
      <4>1. ~ClearsLabel /\ \A a \in Adds : a # v => Stays(a, l)
        BY <1>1, <1>6, <2>1, <3>1 DEF ClearsLabel, Stays
      <4>2. op.before = Visible(l) \ {v}
        BY <1>1, <2>1, <4>1 DEF CallerInv, BeforeStays
      <4>3. QED
        BY <1>2, <2>2, <3>1, <4>1, <4>2
    <3>2. CASE ~IsMulti
      BY <1>5, <2>1, <2>2, <3>2 DEF Returns, ClearsLabel
    <3>3. QED
      BY <3>1, <3>2
  <2>4. Content' = [Content EXCEPT ![l] = IF IsMulti THEN @ \cup {v} ELSE {v}]
    BY <1>1, <1>3, <2>3 DEF Content
  <2>5. ASSUME NEW k \in Labels PROVE v \notin Content[k]
    <3>1. CASE k = l
      BY <1>1, <1>6, <2>1, <3>1 DEF Content, CallerInv, CallsEndWithOwn
    <3>2. CASE k # l
      <4>1. Buffered(v, l)' \/ Indexed(v, l)'
        BY <1>4, <2>2
      <4>2. ~(Buffered(v, k)' \/ Indexed(v, k)')
        BY <3>2, <4>1, OneLabelNext
      <4>3. v \notin Visible(k)'
        BY <1>4, <4>2
      <4>4. QED
        BY <1>1, <1>3, <3>2, <4>3 DEF Content
    <3>3. QED
      BY <3>1, <3>2
  <2>6. v \notin UNION {Content[k] : k \in Labels}
    BY <2>5
  <2>7. Store!Add(l, v)
    BY <2>4, <2>6 DEF Store!Add, Store!Stored, Content
  <2>8. QED
    BY <2>7 DEF Store!Next
<1>7. CASE op.kind = "delete"
  <2>1. Visible(l)' = {}
    BY <1>5, <1>7 DEF Returns, ClearsLabel
  <2>2. Content' = [Content EXCEPT ![l] = {}]
    BY <1>1, <1>3, <2>1 DEF Content
  <2>3. Store!Delete(l)
    BY <2>2 DEF Store!Delete, Content
  <2>4. QED
    BY <2>3 DEF Store!Next
<1>8. QED
  BY <1>1, <1>6, <1>7

\* Any other step shows callers nothing: a call that begins hides what workers
\* and the call itself do to its label.
LEMMA StepOfStore ==
  ASSUME CallerInv, [Next]_vars
  PROVE  Store!Next \/ Content' = Content
<1>1. CallerInv'
  BY CallerStep
<1>2. CASE \E l \in Labels : StartAdd(l) \/ StartDelete(l)
  <2>1. PICK l \in Labels : StartAdd(l) \/ StartDelete(l)
    BY <1>2
  <2>2. Moves /\ ~Busy /\ Busy' /\ op'.label = l /\ op'.before = Visible(l)
    BY <2>1, StartMoves
  <2>3. \A k \in Labels : Visible(k)' = Visible(k)
    <3>1. \A a, k : Stays(a, k)
      BY <2>2 DEF Stays
    <3>2. QED
      BY <1>1, <2>2, <3>1, OthersShown DEF CallerInv
  <2>4. QED
    BY <2>2, <2>3 DEF Content
<1>3. CASE ~ \E l \in Labels : StartAdd(l) \/ StartDelete(l)
  <2>1. Moves /\ Returns /\ SameCall
    BY <1>3, StepMoves
  <2>2. \A k \in Labels : ~(Busy /\ op.label = k) => Visible(k)' = Visible(k)
    <3>1. \A a, k : ~(Busy /\ op.label = k) => Stays(a, k)
      BY DEF Stays
    <3>2. QED
      BY <1>1, <2>1, <3>1, OthersShown DEF CallerInv
  <2>3. CASE Busy' \/ ~Busy
    BY <2>1, <2>2, <2>3 DEF Content, SameCall
  <2>4. CASE Busy /\ ~Busy'
    BY <1>1, <2>1, <2>4, ReturnIsStoreStep
  <2>5. QED
    BY <2>3, <2>4
<1>4. QED
  BY <1>2, <1>3

\* Callers of the tiered index, of either kind, see a store of vectors under
\* labels: a call takes effect when it returns, all at once, and what the
\* workers do between the tiers shows nowhere.
THEOREM TieredImplementsStore == Spec => ImplementsStore
<1>1. Init => Store!Init
  <2> SUFFICES ASSUME Init PROVE Store!Init
    OBVIOUS
  <2>1. CallerInv /\ ~Busy
    BY CallerInit DEF Init, Busy, Threads
  <2>2. \A k \in Labels : Visible(k) = {a \in Adds : Buffered(a, k) \/ Indexed(a, k)}
    BY <2>1, WhatIsSeen DEF CallerInv
  <2>3. \A k \in Labels : Visible(k) = {}
    BY <2>2 DEF Init, Buffered, Indexed, ValidJob, HasJob, Live
  <2>4. QED
    BY <2>1, <2>3 DEF Store!Init
<1>2. CallerInv /\ [Next]_vars => [Store!Next]_Content
  BY StepOfStore
<1>3. Spec => []CallerInv
  BY CallerInvHolds
<1>4. QED
  BY <1>1, <1>2, <1>3, PTL DEF Spec, ImplementsStore, Store!Spec, Content

=============================================================================
