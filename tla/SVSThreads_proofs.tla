------------------------- MODULE SVSThreads_proofs -------------------------
(***************************************************************************)
(* The shared pool while it is resized, for any number of workers, jobs    *)
(* and resizes: it comes to the size last asked for, and it never shrinks  *)
(* below a worker that is attached to a job that is not deleted, so that   *)
(* no rent gets fewer threads than it asks for.                            *)
(***************************************************************************)
EXTENDS SVSThreads, FiniteSetTheorems, SequenceTheorems, TLAPS

PoolType ==
  /\ pool \in [slots : Nat, pending : Int, deferred : Sizes \cup {None}]
  /\ requested \in Sizes

PoolInv == PoolType /\ PoolFollowsRequests

\* A resize gives the pool the size asked for at once or leaves it for later.
LEMMA ResizeFollows ==
  ASSUME PoolInv, NEW size \in Sizes, requested' = size, pool' = Resized(pool, size)
  PROVE  PoolInv'
<1> USE SVSThreadsAssumption DEF Sizes, None
<1>1. CASE size - 1 >= pool.slots
  <2>1. pool' = [pool EXCEPT !.slots = size - 1, !.deferred = None]
    BY <1>1 DEF Resized
  <2>2. pool'.slots = size - 1 /\ pool'.deferred = None /\ pool'.pending = pool.pending
    BY <2>1 DEF PoolInv, PoolType
  <2>3. PoolType'
    <3>1. size - 1 \in Nat
      OBVIOUS
    <3>2. pool' = [slots |-> size - 1, pending |-> pool.pending, deferred |-> None]
      BY <2>1 DEF PoolInv, PoolType
    <3>3. QED
      BY <3>1, <3>2 DEF PoolInv, PoolType
  <2>4. QED
    BY <2>2, <2>3 DEF PoolInv, PoolFollowsRequests, Size
<1>2. CASE ~(size - 1 >= pool.slots) /\ pool.pending > 0
  <2>1. pool' = [pool EXCEPT !.deferred = size]
    BY <1>2 DEF Resized
  <2>2. pool'.slots = pool.slots /\ pool'.deferred = size /\ pool'.pending = pool.pending
    BY <2>1 DEF PoolInv, PoolType
  <2>3. PoolType'
    BY <2>1 DEF PoolInv, PoolType
  <2>4. size < pool.slots + 1
    BY <1>2 DEF PoolInv, PoolType
  <2>5. QED
    BY <1>2, <2>2, <2>3, <2>4 DEF PoolInv, PoolFollowsRequests, Size
<1>3. CASE ~(size - 1 >= pool.slots) /\ ~(pool.pending > 0)
  <2>1. pool' = [pool EXCEPT !.slots = size - 1]
    BY <1>3 DEF Resized
  <2>2. pool'.slots = size - 1 /\ pool'.deferred = pool.deferred
    BY <2>1 DEF PoolInv, PoolType
  <2>3. pool.deferred = None
    BY <1>3 DEF PoolInv, PoolFollowsRequests
  <2>4. PoolType'
    BY <2>1 DEF PoolInv, PoolType
  <2>5. QED
    BY <2>2, <2>3, <2>4 DEF PoolInv, PoolFollowsRequests, Size
<1>4. QED
  BY <1>1, <1>2, <1>3

\* The end of the last job applies the shrink that was deferred.
LEMMA EndFollows ==
  ASSUME PoolInv, requested' = requested, pool' = Ended(pool)
  PROVE  PoolInv'
<1> USE SVSThreadsAssumption DEF Sizes, None
<1> DEFINE q == [pool EXCEPT !.pending = @ - 1]
<1>1. /\ q \in [slots : Nat, pending : Int, deferred : Sizes \cup {None}]
      /\ q.slots = pool.slots /\ q.deferred = pool.deferred /\ q.pending = pool.pending - 1
  BY DEF PoolInv, PoolType
<1> HIDE DEF q
<1>2. CASE q.pending = 0 /\ q.deferred # None
  <2>1. pool.deferred < pool.slots + 1 /\ pool.deferred = requested
    BY <1>1, <1>2 DEF PoolInv, PoolFollowsRequests, Size
  <2>2. Resized(q, q.deferred) = [q EXCEPT !.slots = q.deferred - 1]
    BY <1>1, <1>2, <2>1 DEF Resized, PoolInv, PoolType
  <2>3. pool' = [[q EXCEPT !.slots = q.deferred - 1] EXCEPT !.deferred = None]
    BY <1>2, <2>2 DEF Ended, q
  <2>4. pool'.slots = pool.deferred - 1 /\ pool'.deferred = None
    BY <1>1, <2>3
  <2>5. PoolType'
    <3>1. pool.deferred - 1 \in Nat
      BY <1>1, <1>2 DEF PoolInv, PoolType
    <3>2. pool' = [slots |-> pool.deferred - 1, pending |-> q.pending, deferred |-> None]
      BY <1>1, <2>3
    <3>3. QED
      BY <1>1, <3>1, <3>2 DEF PoolInv, PoolType
  <2>6. QED
    BY <1>1, <1>2, <2>1, <2>4, <2>5 DEF PoolInv, PoolType, PoolFollowsRequests, Size
<1>3. CASE ~(q.pending = 0 /\ q.deferred # None)
  <2>1. pool' = q
    BY <1>3 DEF Ended, q
  <2>2. PoolType'
    BY <1>1, <2>1 DEF PoolInv, PoolType
  <2>3. QED
    BY <1>1, <1>3, <2>1, <2>2 DEF PoolInv, PoolType, PoolFollowsRequests, Size
<1>4. QED
  BY <1>2, <1>3

\* The pool has the size last asked for, or a shrink to it waits for the end of
\* pending jobs (svs_utils.h:474-482, 593-616).
THEOREM PoolFollows == Spec => []PoolFollowsRequests
<1>1. Init => PoolInv
  BY SVSThreadsAssumption DEF Init, PoolInv, PoolType, PoolFollowsRequests, Sizes, None, Size
<1>2. PoolInv /\ [Next]_vars => PoolInv'
  <2> SUFFICES ASSUME PoolInv, [Next]_vars PROVE PoolInv'
    OBVIOUS
  <2>1. ASSUME pool' = pool, requested' = requested PROVE PoolInv'
    BY <2>1 DEF PoolInv, PoolType, PoolFollowsRequests, Size
  <2>2. ASSUME NEW size \in Sizes, Resize(size) PROVE PoolInv'
    BY <2>2, ResizeFollows DEF Resize
  <2>3. ASSUME NEW j \in Jobs, Schedule(j) PROVE PoolInv'
    <3>1. pool' = [pool EXCEPT !.pending = @ + 1] /\ requested' = requested
      BY <2>3 DEF Schedule
    <3>2. /\ pool'.slots = pool.slots /\ pool'.deferred = pool.deferred
          /\ pool'.pending = pool.pending + 1 /\ PoolType'
      BY <3>1 DEF PoolInv, PoolType
    <3>3. QED
      BY <3>1, <3>2 DEF PoolInv, PoolType, PoolFollowsRequests, Size
  <2>4. ASSUME NEW w \in Workers, WorkerStep(w) PROVE PoolInv'
    <3>1. CASE DeleteJob(w)
      BY <3>1, EndFollows DEF DeleteJob
    <3>2. CASE TakeMainJob(w) \/ TakeReserveJob(w) \/ EndReserve(w)
      BY <3>2, <2>1 DEF TakeMainJob, TakeReserveJob, EndReserve
    <3>3. CASE EndWait(w) \/ Rent(w) \/ ReleaseRented(w) \/ MarkJobDone(w)
      BY <3>3, <2>1 DEF EndWait, Rent, ReleaseRented, MarkJobDone
    <3>4. QED
      BY <2>4, <3>1, <3>2, <3>3 DEF WorkerStep
  <2>5. CASE UNCHANGED vars
    BY <2>5, <2>1 DEF vars
  <2>6. QED
    BY <2>2, <2>3, <2>4, <2>5 DEF Next
<1>3. PoolInv => PoolFollowsRequests
  BY DEF PoolInv
<1>4. QED
  BY <1>1, <1>2, <1>3, PTL DEF Spec

-----------------------------------------------------------------------------
(* Rented threads exist.  A thread that a job may rent stands for a worker *)
(* that checked in for the job and waits for its end; the pool never       *)
(* shrinks below a worker that is attached to a job that is not deleted.   *)

States == {"none", "queued", "waiting", "running", "done", "deleted"}

Live == {j \in Jobs : job[j].state \notin {"none", "deleted"}}

Attached(w) == worker[w] # Idle /\ job[worker[w].job].state # "deleted"

\* The workers that checked in for job j and wait for its end.
ReserveWorkers(j) == {w \in Workers : worker[w] = [pc |-> "reserve", job |-> j]}

JobRecords == [state : States, wanted : Nat, reserved : Nat, threads : Nat, rented : Nat]

ThreadTypes ==
  /\ job \in [Jobs -> JobRecords]
  /\ worker \in [Workers -> {Idle} \cup [pc : {"main", "reserve"}, job : Jobs]]
  /\ queue \in Seq({"main", "reserve"} \X Jobs)

\* The pool counts the jobs that are not deleted, and only the end of all lets it shrink.
PendingIsLive == pool.pending = Cardinality(Live)

AttachedExist == \A w \in Workers : Attached(w) => w <= Size

\* A main job is queued once, and a job is in the queue only after it was scheduled.
QueueInv ==
  /\ \A k \in 1..Len(queue) : job[queue[k][2]].state # "none"
  /\ \A k \in 1..Len(queue) : queue[k][1] = "main" => job[queue[k][2]].state = "queued"
  /\ \A k, l \in 1..Len(queue) : queue[k][1] = "main" /\ queue[l] = queue[k] => k = l

MainWorker(w, j) == worker[w] = [pc |-> "main", job |-> j]

WorkersInv ==
  /\ \A w \in Workers, j \in Jobs :
       /\ w \in ReserveWorkers(j) => job[j].state # "none"
       /\ MainWorker(w, j) => job[j].state \in {"waiting", "running", "done"}
  /\ \A j \in Jobs : job[j].state = "running" => \E w \in Workers : MainWorker(w, j)
  /\ \A w, v \in Workers, j \in Jobs : MainWorker(w, j) /\ MainWorker(v, j) => w = v

\* What a job counts as reserved are its main worker and workers that still wait.
Counted(j) ==
  LET n == Cardinality(ReserveWorkers(j)) IN
  /\ job[j].state = "queued"  => job[j].reserved <= n
  /\ job[j].state = "waiting" => job[j].reserved <= n + 1
  /\ job[j].state = "running" => job[j].threads <= n + 1 /\ job[j].rented <= n
  /\ job[j].state # "running" => job[j].rented = 0

CountsInv == \A j \in Jobs : Counted(j)

ThreadsInv ==
  /\ PoolInv
  /\ ThreadTypes /\ PendingIsLive /\ AttachedExist /\ QueueInv /\ WorkersInv /\ CountsInv

LEMMA FiniteWorkers ==
  ASSUME NEW S \in SUBSET Workers
  PROVE  IsFiniteSet(S) /\ Cardinality(S) \in Nat
<1>1. 1 \in Int /\ MaxSize \in Int /\ Workers = 1..MaxSize
  BY SVSThreadsAssumption DEF Workers
<1>2. IsFiniteSet(Workers)
  BY <1>1, FS_Interval
<1>3. IsFiniteSet(S)
  BY <1>2, FS_Subset
<1>4. QED
  BY <1>3, FS_CardinalityType

LEMMA FiniteJobs ==
  ASSUME NEW S \in SUBSET Jobs
  PROVE  IsFiniteSet(S) /\ Cardinality(S) \in Nat
<1>1. 1 \in Int /\ MaxJobs \in Int /\ Jobs = 1..MaxJobs
  BY SVSThreadsAssumption DEF Jobs
<1>2. IsFiniteSet(Jobs)
  BY <1>1, FS_Interval
<1>3. IsFiniteSet(S)
  BY <1>2, FS_Subset
<1>4. QED
  BY <1>3, FS_CardinalityType

LEMMA QueueTail ==
  ASSUME NEW T, NEW q \in Seq(T), q # <<>>
  PROVE  /\ Head(q) \in T /\ Head(q) = q[1] /\ Tail(q) \in Seq(T) /\ 1 \in 1..Len(q)
         /\ Len(Tail(q)) = Len(q) - 1
         /\ \A k \in 1..Len(Tail(q)) : k + 1 \in 1..Len(q) /\ Tail(q)[k] = q[k + 1]
OBVIOUS

LEMMA JobsInQueue ==
  ASSUME NEW j \in Jobs, NEW n \in Nat \ {0}
  PROVE  /\ JobsOf(j, n) \in Seq({"main", "reserve"} \X Jobs)
         /\ Len(JobsOf(j, n)) = n
         /\ JobsOf(j, n)[1] = <<"main", j>>
         /\ \A k \in 2..n : JobsOf(j, n)[k] = <<"reserve", j>>
<1> DEFINE r == [i \in 1..(n - 1) |-> <<"reserve", j>>]
           m == <<<<"main", j>>>>
           T == {"main", "reserve"} \X Jobs
<1>1. r \in Seq(T) /\ Len(r) = n - 1 /\ \A i \in 1..(n - 1) : r[i] = <<"reserve", j>>
  <2>1. n - 1 \in Nat
    OBVIOUS
  <2>2. <<"reserve", j>> \in T
    OBVIOUS
  <2>3. r \in [1..(n - 1) -> T]
    BY <2>2
  <2>4. r \in Seq(T)
    BY <2>1, <2>3
  <2>5. Len(r) = n - 1
    BY <2>1
  <2>6. QED
    BY <2>4, <2>5
<1>2. m \in Seq(T) /\ Len(m) = 1 /\ m[1] = <<"main", j>>
  OBVIOUS
<1> HIDE DEF r, m, T
<1>3. /\ m \o r \in Seq(T) /\ Len(m \o r) = n
      /\ \A k \in 1..n : (m \o r)[k] = IF k <= 1 THEN m[k] ELSE r[k - 1]
  <2>1. Len(m) + Len(r) = n
    BY <1>1, <1>2
  <2>2. QED
    BY <1>1, <1>2, <2>1, ConcatProperties
<1>4. (m \o r)[1] = <<"main", j>>
  BY <1>2, <1>3
<1>5. \A k \in 2..n : (m \o r)[k] = <<"reserve", j>>
  BY <1>1, <1>3
<1>6. JobsOf(j, n) = m \o r
  BY DEF JobsOf, m, r
<1>7. QED
  BY <1>3, <1>4, <1>5, <1>6 DEF T


\* Every thread a job holds or may rent stands for another worker within the pool, none
\* of them the caller's.
LEMMA RentedAreReserved ==
  ASSUME ThreadsInv, NEW j \in Running
  PROVE  Cardinality(RentedWith(j)) <= pool.slots
<1> DEFINE claim(i) == IF i = j THEN job[i].threads - 1 ELSE job[i].rented
           n(i) == Cardinality(ReserveWorkers(i))
           f(i) == CHOOSE g : g \in Bijection(1..n(i), ReserveWorkers(i))
           held == RentedWith(j)
           F == [p \in held |-> f(p[1])[p[2]]]
<1>1. j \in Jobs /\ job[j].state = "running"
  BY DEF Running
<1>2. PICK m \in Workers : MainWorker(m, j)
  BY <1>1 DEF ThreadsInv, WorkersInv
<1>3. /\ pool.slots \in Nat /\ Size = pool.slots + 1
      /\ \A i \in Jobs : job[i] \in JobRecords
  BY DEF ThreadsInv, PoolInv, PoolType, Size, ThreadTypes
<1>4. \A i \in Jobs : n(i) \in Nat /\ IsFiniteSet(ReserveWorkers(i))
  BY FiniteWorkers DEF ReserveWorkers
<1>5. ASSUME NEW i \in Jobs
      PROVE  claim(i) \in Int /\ claim(i) <= n(i) /\ (claim(i) > 0 => job[i].state = "running")
  <2>1. Counted(i)
    BY DEF ThreadsInv, CountsInv
  <2>2. QED
    BY <1>1, <1>3, <1>4, <2>1 DEF Counted, JobRecords
<1>6. ASSUME NEW i \in Jobs
      PROVE  f(i) \in Bijection(1..n(i), ReserveWorkers(i))
  BY <1>4, FS_CardinalityType DEF ExistsBijection
<1> DEFINE T == (1..Size) \ {m}
<1>7. ASSUME NEW p \in held
      PROVE  /\ p[1] \in Jobs /\ p[2] \in 1..claim(p[1]) /\ p = <<p[1], p[2]>>
             /\ p[2] \in 1..n(p[1])
  <2>1. PICK i \in Jobs : p \in {i} \X (1..claim(i))
    BY DEF RentedWith
  <2>2. p[1] = i /\ p[2] \in 1..claim(i) /\ p = <<p[1], p[2]>>
    BY <2>1
  <2> HIDE DEF claim, n
  <2>3. claim(i) \in Int /\ claim(i) <= n(i) /\ n(i) \in Nat
    BY <1>4, <1>5
  <2>4. QED
    BY <2>2, <2>3
<1> HIDE DEF held
<1>8. ASSUME NEW p \in held
      PROVE  F[p] \in ReserveWorkers(p[1]) /\ F[p] \in T
  <2>1. F[p] = f(p[1])[p[2]]
    OBVIOUS
  <2> HIDE DEF f, F
  <2>2. F[p] \in ReserveWorkers(p[1])
    BY <1>6, <1>7, <2>1 DEF Bijection, Injection
  <2>3. job[p[1]].state = "running"
    <3>1. claim(p[1]) > 0
      <4> HIDE DEF claim
      <4> QED
        BY <1>5, <1>7
    <3>2. QED
      BY <1>5, <1>7, <3>1
  <2>4. F[p] \in Workers /\ worker[F[p]] = [pc |-> "reserve", job |-> p[1]]
    BY <2>2 DEF ReserveWorkers
  <2>5. Attached(F[p])
    <3>1. worker[F[p]] # Idle
      BY <2>4 DEF Idle
    <3>2. QED
      BY <2>3, <2>4, <3>1 DEF Attached
  <2>6. F[p] <= Size
    BY <2>4, <2>5 DEF ThreadsInv, AttachedExist
  <2>7. F[p] # m
    BY <1>2, <2>4 DEF MainWorker
  <2>8. QED
    BY <1>3, <2>2, <2>4, <2>6, <2>7, SVSThreadsAssumption DEF Workers
<1>9. ASSUME NEW p \in held, NEW q \in held, F[p] = F[q]
      PROVE  p = q
  <2>1. F[p] = f(p[1])[p[2]] /\ F[q] = f(q[1])[q[2]]
    OBVIOUS
  <2> HIDE DEF f, F
  <2>2. p[1] = q[1]
    <3>1. F[p] \in ReserveWorkers(p[1]) /\ F[p] \in ReserveWorkers(q[1])
      BY <1>8, <1>9
    <3>2. [pc |-> "reserve", job |-> p[1]] = [pc |-> "reserve", job |-> q[1]]
      BY <3>1 DEF ReserveWorkers
    <3>3. QED
      BY <3>2
  <2>3. p[2] = q[2]
    <3>1. /\ f(p[1]) \in [1..n(p[1]) -> ReserveWorkers(p[1])]
          /\ \A a, b \in 1..n(p[1]) : f(p[1])[a] = f(p[1])[b] => a = b
      <4>1. f(p[1]) \in Bijection(1..n(p[1]), ReserveWorkers(p[1]))
        BY <1>6, <1>7
      <4> HIDE DEF n
      <4>2. QED
        BY <4>1 DEF Bijection, Injection, IsInjective
    <3>2. f(p[1])[p[2]] = f(p[1])[q[2]]
      BY <1>9, <2>1, <2>2
    <3> HIDE DEF n
    <3>3. p[2] \in 1..n(p[1]) /\ q[2] \in 1..n(p[1])
      BY <1>7, <2>2
    <3>4. QED
      BY <3>1, <3>2, <3>3
  <2>4. QED
    BY <1>7, <2>2, <2>3
<1>10. F \in Injection(held, T)
  BY <1>8, <1>9 DEF Injection, IsInjective
<1>11. IsFiniteSet(T) /\ Cardinality(T) = pool.slots
  <2>1. IsFiniteSet(1..Size) /\ Cardinality(1..Size) = Size
    <3>1. 1 \in Int /\ Size \in Int /\ Size >= 1
      BY <1>3
    <3> HIDE DEF Size
    <3>2. QED
      BY <3>1, FS_Interval
  <2>2. m \in 1..Size
    <3>1. Attached(m)
      <4>1. worker[m] # Idle
        BY <1>2 DEF MainWorker, Idle
      <4>2. QED
        BY <1>1, <1>2, <4>1 DEF MainWorker, Attached
    <3>2. QED
      BY <1>2, <1>3, <3>1, SVSThreadsAssumption DEF ThreadsInv, AttachedExist, Workers
  <2>3. IsFiniteSet(T) /\ Cardinality(T) = Cardinality(1..Size) - 1
    BY <2>1, <2>2, FS_RemoveElement
  <2>4. QED
    BY <1>3, <2>1, <2>3
<1> HIDE DEF F, T
<1>12. QED
  BY <1>10, <1>11, FS_Injection DEF held


-----------------------------------------------------------------------------
(* ThreadsInv is inductive.                                                *)

LEMMA ResizedFacts ==
  ASSUME NEW p \in [slots : Nat, pending : Int, deferred : Sizes \cup {None}], NEW size \in Sizes
  PROVE  /\ Resized(p, size).pending = p.pending
         /\ Resized(p, size).slots < p.slots => p.pending <= 0
BY SVSThreadsAssumption DEF Resized, Sizes

LEMMA EndedFacts ==
  ASSUME NEW p \in [slots : Nat, pending : Int, deferred : Sizes \cup {None}]
  PROVE  /\ Ended(p).pending = p.pending - 1
         /\ Ended(p).slots < p.slots => p.pending - 1 = 0
<1> DEFINE q == [p EXCEPT !.pending = @ - 1]
<1>1. /\ q \in [slots : Nat, pending : Int, deferred : Sizes \cup {None}]
      /\ q.slots = p.slots /\ q.deferred = p.deferred /\ q.pending = p.pending - 1
  OBVIOUS
<1>2. Ended(p) = IF q.pending = 0 /\ q.deferred # None
                 THEN [Resized(q, q.deferred) EXCEPT !.deferred = None] ELSE q
  BY DEF Ended
<1> HIDE DEF q
<1>3. CASE q.pending = 0 /\ q.deferred # None
  <2>1. /\ Ended(p).pending = Resized(q, q.deferred).pending
    BY <1>1, <1>2, <1>3 DEF Resized
  <2>2. Resized(q, q.deferred).pending = q.pending
    BY <1>1, <1>3, ResizedFacts
  <2>3. QED
    BY <1>1, <1>3, <2>1, <2>2
<1>4. CASE ~(q.pending = 0 /\ q.deferred # None)
  BY <1>1, <1>2, <1>4
<1>5. QED
  BY <1>3, <1>4

\* The queue without its head.
LEMMA QueueTaken ==
  ASSUME ThreadTypes, QueueInv, queue # <<>>, queue' = Tail(queue),
         \A i \in Jobs : job[i].state # "none" => job'[i].state # "none",
         \A i \in Jobs : job[i].state = "queued" /\ Head(queue) # <<"main", i>>
                           => job'[i].state = "queued"
  PROVE  QueueInv' /\ queue' \in Seq({"main", "reserve"} \X Jobs)
<1> DEFINE T == {"main", "reserve"} \X Jobs
<1>1. /\ queue \in Seq(T) /\ queue' \in Seq(T) /\ Head(queue) = queue[1] /\ 1 \in 1..Len(queue)
      /\ \A k \in 1..Len(queue') : k + 1 \in 1..Len(queue) /\ queue'[k] = queue[k + 1]
  BY QueueTail DEF ThreadTypes
<1>2. \A k \in 1..Len(queue) : queue[k] \in T /\ queue[k][2] \in Jobs
  BY <1>1
<1>3. ASSUME NEW k \in 1..Len(queue')
      PROVE  job'[queue'[k][2]].state # "none"
  BY <1>1, <1>2 DEF QueueInv
<1>4. ASSUME NEW k \in 1..Len(queue'), queue'[k][1] = "main"
      PROVE  job'[queue'[k][2]].state = "queued"
  <2>1. queue[k + 1] = queue'[k] /\ k + 1 \in 1..Len(queue) /\ k + 1 # 1
    BY <1>1
  <2>2. queue'[k] = <<"main", queue'[k][2]>>
    BY <1>2, <1>4, <2>1
  <2>3. Head(queue) # <<"main", queue'[k][2]>>
    <3>1. queue[1] # queue[k + 1]
      BY <1>1, <1>4, <2>1 DEF QueueInv
    <3>2. QED
      BY <1>1, <2>1, <2>2, <3>1
  <2>4. job[queue'[k][2]].state = "queued" /\ queue'[k][2] \in Jobs
    BY <1>2, <1>4, <2>1 DEF QueueInv
  <2>5. QED
    BY <2>3, <2>4
<1>5. ASSUME NEW k \in 1..Len(queue'), NEW l \in 1..Len(queue'),
             queue'[k][1] = "main", queue'[l] = queue'[k]
      PROVE  k = l
  <2>1. k + 1 = l + 1
    BY <1>1, <1>5 DEF QueueInv
  <2>2. QED
    BY <2>1
<1>6. QED
  BY <1>1, <1>3, <1>4, <1>5 DEF QueueInv

\* The main worker of a job goes on and changes nothing but the record of the job.
LEMMA JobGoesOn ==
  ASSUME ThreadsInv, NEW j \in Jobs, NEW w \in Workers, MainWorker(w, j),
         UNCHANGED <<pool, requested, queue, worker>>,
         NEW r \in JobRecords, job' = [job EXCEPT ![j] = r],
         job[j].state \in {"waiting", "running"}, r.state \in {"running", "done"},
         r.state = "running" => /\ r.threads <= Cardinality(ReserveWorkers(j)) + 1
                                /\ r.rented <= Cardinality(ReserveWorkers(j)),
         r.state = "done" => r.rented = 0
  PROVE  ThreadsInv'
<1>1. /\ \A i \in Jobs : job'[i] = IF i = j THEN r ELSE job[i]
      /\ job' \in [Jobs -> JobRecords]
  BY DEF ThreadsInv, ThreadTypes
<1>2. PoolInv'
  BY DEF ThreadsInv, PoolInv, PoolType, PoolFollowsRequests, Size
<1>3. ThreadTypes'
  BY <1>1 DEF ThreadsInv, ThreadTypes
<1>4. Live' = Live
  BY <1>1 DEF Live
<1>5. PendingIsLive'
  BY <1>4 DEF ThreadsInv, PendingIsLive
<1>6. AttachedExist'
  BY <1>1 DEF ThreadsInv, ThreadTypes, AttachedExist, Attached, Size
<1>7. QueueInv'
  <2>1. \A k \in 1..Len(queue) : queue[k][2] \in Jobs
    BY DEF ThreadsInv, ThreadTypes
  <2>2. QED
    BY <1>1, <2>1 DEF ThreadsInv, QueueInv
<1>8. \A i \in Jobs : ReserveWorkers(i)' = ReserveWorkers(i)
  BY DEF ReserveWorkers
<1>9. WorkersInv'
  BY <1>1, <1>8 DEF ThreadsInv, WorkersInv, MainWorker
<1>10. CountsInv'
  BY <1>1, <1>8 DEF ThreadsInv, CountsInv, Counted
<1>11. QED
  BY <1>2, <1>3, <1>5, <1>6, <1>7, <1>9, <1>10 DEF ThreadsInv

LEMMA WorkersJob ==
  ASSUME ThreadsInv, NEW w \in Workers, worker[w].pc \in {"main", "reserve"}
  PROVE  /\ worker[w].job \in Jobs /\ job[worker[w].job] \in JobRecords
         /\ worker[w] = [pc |-> worker[w].pc, job |-> worker[w].job]
<1>1. worker[w] # Idle
  BY DEF Idle
<1>2. worker[w] \in [pc : {"main", "reserve"}, job : Jobs]
  BY <1>1 DEF ThreadsInv, ThreadTypes
<1>3. QED
  BY <1>2 DEF ThreadsInv, ThreadTypes

LEMMA MainGoesOn ==
  ASSUME ThreadsInv, NEW w \in Workers,
         EndWait(w) \/ Rent(w) \/ ReleaseRented(w) \/ MarkJobDone(w)
  PROVE  ThreadsInv'
<1> DEFINE j == worker[w].job
           n == Cardinality(ReserveWorkers(j))
<1>1. worker[w].pc = "main" /\ UNCHANGED <<pool, requested, queue, worker>>
  BY DEF EndWait, Rent, ReleaseRented, MarkJobDone
<1>2. j \in Jobs /\ job[j] \in JobRecords /\ MainWorker(w, j)
  BY <1>1, WorkersJob DEF MainWorker
<1>3. job \in [Jobs -> JobRecords]
  BY DEF ThreadsInv, ThreadTypes
<1>4. Counted(j) /\ n \in Nat
  BY <1>2, FiniteWorkers DEF ThreadsInv, CountsInv, ReserveWorkers
<1>5. CASE EndWait(w)
  <2> DEFINE r == [job[j] EXCEPT !.state = "running", !.threads = job[j].reserved]
  <2>1. job[j].state = "waiting" /\ job' = [job EXCEPT ![j] = r]
    BY <1>2, <1>3, <1>5 DEF EndWait
  <2>2. /\ r \in JobRecords /\ r.state = "running"
        /\ r.threads = job[j].reserved /\ r.rented = job[j].rented
    BY <1>2 DEF JobRecords, States
  <2>3. r.threads <= n + 1 /\ r.rented <= n
    BY <1>4, <2>1, <2>2 DEF Counted
  <2> HIDE DEF r, n
  <2>4. QED
    BY <1>1, <1>2, <2>1, <2>2, <2>3, JobGoesOn DEF n
<1>6. CASE Rent(w)
  <2> DEFINE r == [job[j] EXCEPT !.rented = job[j].threads - 1]
  <2>1. /\ job[j].state = "running" /\ job' = [job EXCEPT ![j] = r]
        /\ job[j].rented < job[j].threads - 1
    BY <1>2, <1>3, <1>6 DEF Rent
  <2>2. r \in JobRecords /\ r.state = "running" /\ r.threads = job[j].threads
          /\ r.rented = job[j].threads - 1
    BY <1>2, <2>1 DEF JobRecords, States
  <2>3. r.threads <= n + 1 /\ r.rented <= n
    BY <1>2, <1>4, <2>1, <2>2 DEF Counted, JobRecords
  <2> HIDE DEF r, n
  <2>4. QED
    BY <1>1, <1>2, <2>1, <2>2, <2>3, JobGoesOn DEF n
<1>7. CASE ReleaseRented(w)
  <2> DEFINE r == [job[j] EXCEPT !.rented = 0]
  <2>1. job' = [job EXCEPT ![j] = r] /\ job[j].rented > 0
    BY <1>2, <1>3, <1>7 DEF ReleaseRented
  <2>2. job[j].state = "running"
    BY <1>4, <2>1 DEF Counted
  <2>3. r \in JobRecords /\ r.state = "running" /\ r.threads = job[j].threads /\ r.rented = 0
    BY <1>2, <2>2 DEF JobRecords, States
  <2>4. r.threads <= n + 1 /\ r.rented <= n
    BY <1>4, <2>2, <2>3 DEF Counted
  <2> HIDE DEF r, n
  <2>5. QED
    BY <1>1, <1>2, <2>1, <2>2, <2>3, <2>4, JobGoesOn DEF n
<1>8. CASE MarkJobDone(w)
  <2> DEFINE r == [job[j] EXCEPT !.state = "done"]
  <2>1. job[j].state = "running" /\ job[j].rented = 0 /\ job' = [job EXCEPT ![j] = r]
    BY <1>2, <1>3, <1>8 DEF MarkJobDone
  <2>2. r \in JobRecords /\ r.state = "done" /\ r.rented = 0
    BY <1>2, <2>1 DEF JobRecords, States
  <2> HIDE DEF r, n
  <2>3. QED
    BY <1>1, <1>2, <2>1, <2>2, JobGoesOn DEF n
<1>9. QED
  BY <1>5, <1>6, <1>7, <1>8

\* The record of a job whose main job is taken.
Taken(r) == [r EXCEPT !.reserved = @ + 1,
                      !.threads = IF r.wanted = 1 THEN 1 ELSE 0,
                      !.state = IF r.wanted = 1 THEN "running" ELSE "waiting"]

LEMMA RecordTaken ==
  ASSUME NEW r \in JobRecords
  PROVE  /\ Taken(r) \in JobRecords
         /\ Taken(r).reserved = r.reserved + 1 /\ Taken(r).rented = r.rented
         /\ \/ Taken(r).state = "running" /\ Taken(r).threads = 1
            \/ Taken(r).state = "waiting"
<1> DEFINE t == IF r.wanted = 1 THEN 1 ELSE 0
           s == IF r.wanted = 1 THEN "running" ELSE "waiting"
<1>1. t \in Nat /\ s \in States /\ ((s = "running" /\ t = 1) \/ s = "waiting")
  BY DEF States
<1>2. Taken(r) = [r EXCEPT !.reserved = @ + 1, !.threads = t, !.state = s]
  BY DEF Taken
<1> HIDE DEF t, s
<1>3. r = [state |-> r.state, wanted |-> r.wanted, reserved |-> r.reserved,
           threads |-> r.threads, rented |-> r.rented]
  BY DEF JobRecords
<1>4. Taken(r) = [state |-> s, wanted |-> r.wanted, reserved |-> r.reserved + 1,
                  threads |-> t, rented |-> r.rented]
  BY <1>2, <1>3
<1>5. r.reserved + 1 \in Nat /\ r.wanted \in Nat /\ r.rented \in Nat
  BY DEF JobRecords
<1>6. QED
  BY <1>1, <1>4, <1>5 DEF JobRecords

LEMMA TakeMainKeeps ==
  ASSUME ThreadsInv, NEW w \in Workers, TakeMainJob(w)
  PROVE  ThreadsInv'
<1> DEFINE j == Head(queue)[2]
<1>1. /\ worker[w] = Idle /\ w <= requested /\ queue # <<>> /\ queue' = Tail(queue)
      /\ UNCHANGED <<pool, requested>> /\ Head(queue)[1] = "main"
      /\ worker' = [worker EXCEPT ![w] = [pc |-> "main", job |-> j]]
  BY DEF TakeMainJob, Takes
<1>2. Head(queue) = <<"main", j>> /\ j \in Jobs /\ job[j].state = "queued"
  <2>1. Head(queue) \in {"main", "reserve"} \X Jobs /\ Head(queue) = queue[1] /\ 1 \in 1..Len(queue)
    BY <1>1, QueueTail DEF ThreadsInv, ThreadTypes
  <2>2. QED
    BY <1>1, <2>1 DEF ThreadsInv, QueueInv
<1>3. /\ \A i \in Jobs : i # j => job'[i] = job[i]
      /\ job'[j] \in JobRecords /\ job' \in [Jobs -> JobRecords]
      /\ \/ job'[j].state = "running" /\ job'[j].threads = 1
         \/ job'[j].state = "waiting"
      /\ job'[j].reserved = job[j].reserved + 1 /\ job'[j].rented = job[j].rented
  <2> DEFINE r == Taken(job[j])
  <2>1. job \in [Jobs -> JobRecords] /\ job[j] \in JobRecords
    BY <1>2 DEF ThreadsInv, ThreadTypes
  <2>2. job' = [job EXCEPT ![j] = r]
    BY <1>2, <2>1 DEF TakeMainJob, Taken
  <2>3. /\ r \in JobRecords /\ r.reserved = job[j].reserved + 1 /\ r.rented = job[j].rented
        /\ (r.state = "running" /\ r.threads = 1) \/ r.state = "waiting"
    BY <2>1, RecordTaken
  <2> HIDE DEF r
  <2>4. QED
    BY <1>2, <2>1, <2>2, <2>3
<1> HIDE DEF j
<1>4. \A v \in Workers : worker'[v] = IF v = w THEN [pc |-> "main", job |-> j] ELSE worker[v]
  BY <1>1 DEF ThreadsInv, ThreadTypes
<1>5. \A i \in Jobs : ReserveWorkers(i)' = ReserveWorkers(i)
  BY <1>1, <1>4 DEF ReserveWorkers, Idle
<1>6. PoolInv' /\ w <= Size
  <2>1. PoolInv'
    BY <1>1 DEF ThreadsInv, PoolInv, PoolType, PoolFollowsRequests, Size
  <2>2. requested <= Size
    BY SVSThreadsAssumption DEF ThreadsInv, PoolInv, PoolType, PoolFollowsRequests, Size, Sizes
  <2>3. QED
    BY <1>1, <2>1, <2>2, SVSThreadsAssumption
       DEF ThreadsInv, PoolInv, PoolType, Workers, Sizes, Size
<1>7. QueueInv' /\ queue' \in Seq({"main", "reserve"} \X Jobs)
  BY <1>1, <1>2, <1>3, QueueTaken DEF ThreadsInv
<1>8. ThreadTypes'
  <2>1. worker' \in [Workers -> {Idle} \cup [pc : {"main", "reserve"}, job : Jobs]]
    BY <1>1, <1>2 DEF ThreadsInv, ThreadTypes
  <2>2. QED
    BY <1>3, <1>7, <2>1 DEF ThreadTypes
<1>9. PendingIsLive'
  <2>1. Live' = Live
    BY <1>2, <1>3 DEF Live
  <2>2. QED
    BY <1>1, <2>1 DEF ThreadsInv, PendingIsLive
<1>10. AttachedExist'
  <2> SUFFICES ASSUME NEW v \in Workers, Attached(v)'
               PROVE  v <= Size'
    BY DEF AttachedExist
  <2>1. Size' = Size
    BY <1>1 DEF Size
  <2>2. CASE v = w
    BY <1>6, <2>1, <2>2
  <2>3. CASE v # w
    <3>1. worker'[v] = worker[v] /\ worker[v] # Idle
      BY <1>4, <2>3 DEF Attached
    <3>2. worker[v].job \in Jobs
      BY <3>1 DEF ThreadsInv, ThreadTypes
    <3>3. Attached(v)
      BY <1>2, <1>3, <3>1, <3>2 DEF Attached
    <3>4. QED
      BY <2>1, <3>3 DEF ThreadsInv, AttachedExist
  <2>4. QED
    BY <2>2, <2>3
<1>11. WorkersInv'
  <2>1. \A v \in Workers, i \in Jobs : MainWorker(v, i)' <=>
          IF v = w THEN i = j ELSE MainWorker(v, i)
    BY <1>4 DEF MainWorker
  <2>2. \A v \in Workers : ~MainWorker(v, j)
    BY <1>2 DEF ThreadsInv, WorkersInv
  <2>3. \A v \in Workers, i \in Jobs :
          /\ v \in ReserveWorkers(i)' => job'[i].state # "none"
          /\ MainWorker(v, i)' => job'[i].state \in {"waiting", "running", "done"}
    BY <1>2, <1>3, <1>5, <2>1 DEF ThreadsInv, WorkersInv
  <2>4. \A i \in Jobs : job'[i].state = "running" => \E v \in Workers : MainWorker(v, i)'
    <3> SUFFICES ASSUME NEW i \in Jobs, job'[i].state = "running"
                 PROVE  \E v \in Workers : MainWorker(v, i)'
      OBVIOUS
    <3>1. CASE i = j
      BY <2>1, <3>1
    <3>2. CASE i # j
      <4>1. PICK v \in Workers : MainWorker(v, i)
        BY <1>3, <3>2 DEF ThreadsInv, WorkersInv
      <4>2. v # w
        BY <1>1, <4>1 DEF MainWorker, Idle
      <4>3. QED
        BY <2>1, <4>1, <4>2
    <3>3. QED
      BY <3>1, <3>2
  <2>5. \A v, u \in Workers, i \in Jobs : MainWorker(v, i)' /\ MainWorker(u, i)' => v = u
    BY <2>1, <2>2 DEF ThreadsInv, WorkersInv
  <2>6. QED
    BY <2>3, <2>4, <2>5 DEF WorkersInv
<1>12. CountsInv'
  <2> SUFFICES ASSUME NEW i \in Jobs PROVE Counted(i)'
    BY DEF CountsInv
  <2> DEFINE n == Cardinality(ReserveWorkers(i))
  <2>1. Cardinality(ReserveWorkers(i)') = n
    BY <1>5
  <2>2. Counted(i) /\ n \in Nat /\ job[i] \in JobRecords
    BY FiniteWorkers DEF ThreadsInv, CountsInv, ReserveWorkers, ThreadTypes
  <2>3. CASE i # j
    <3>1. job'[i] = job[i]
      BY <1>3, <2>3
    <3>2. QED
      BY <2>1, <2>2, <3>1 DEF Counted
  <2>4. CASE i = j
    <3>1. job[j].rented = 0 /\ job[j].reserved <= n /\ job[j].reserved \in Nat
      BY <1>2, <2>2, <2>4 DEF Counted, JobRecords
    <3> HIDE DEF n
    <3>2. QED
      BY <1>3, <2>1, <2>2, <2>4, <3>1 DEF Counted
  <2>5. QED
    BY <2>3, <2>4
<1>13. QED
  BY <1>6, <1>7, <1>8, <1>9, <1>10, <1>11, <1>12 DEF ThreadsInv

LEMMA TakeReserveKeeps ==
  ASSUME ThreadsInv, NEW w \in Workers, TakeReserveJob(w)
  PROVE  ThreadsInv'
<1> DEFINE j == Head(queue)[2]
<1>1. /\ worker[w] = Idle /\ w <= requested /\ queue # <<>> /\ queue' = Tail(queue)
      /\ UNCHANGED <<pool, requested>> /\ Head(queue)[1] = "reserve"
  BY DEF TakeReserveJob, Takes
<1>2. j \in Jobs /\ job[j].state # "none" /\ \A i : Head(queue) # <<"main", i>>
  <2>1. Head(queue) \in {"main", "reserve"} \X Jobs /\ Head(queue) = queue[1] /\ 1 \in 1..Len(queue)
    BY <1>1, QueueTail DEF ThreadsInv, ThreadTypes
  <2>2. QED
    BY <1>1, <2>1 DEF ThreadsInv, QueueInv
<1>3. PoolInv' /\ w <= Size /\ Size' = Size /\ pool' = pool
  <2>1. PoolInv'
    BY <1>1 DEF ThreadsInv, PoolInv, PoolType, PoolFollowsRequests, Size
  <2>2. requested <= Size
    BY SVSThreadsAssumption DEF ThreadsInv, PoolInv, PoolType, PoolFollowsRequests, Size, Sizes
  <2>3. QED
    BY <1>1, <2>1, <2>2, SVSThreadsAssumption
       DEF ThreadsInv, PoolInv, PoolType, Workers, Sizes, Size
<1>4. CASE job[j].state = "deleted" /\ UNCHANGED <<job, worker>>
  <2>1. QueueInv' /\ queue' \in Seq({"main", "reserve"} \X Jobs)
    BY <1>1, <1>4, QueueTaken DEF ThreadsInv
  <2>2. ThreadTypes' /\ PendingIsLive'
    BY <1>3, <1>4, <2>1 DEF ThreadsInv, ThreadTypes, PendingIsLive, Live
  <2>3. AttachedExist'
    BY <1>3, <1>4 DEF ThreadsInv, AttachedExist, Attached
  <2>4. WorkersInv' /\ CountsInv'
    BY <1>4 DEF ThreadsInv, WorkersInv, CountsInv, Counted, MainWorker, ReserveWorkers
  <2>5. QED
    BY <1>3, <2>1, <2>2, <2>3, <2>4 DEF ThreadsInv
<1>5. CASE /\ job[j].state # "deleted"
           /\ job' = [job EXCEPT ![j].reserved = @ + 1]
           /\ worker' = [worker EXCEPT ![w] = [pc |-> "reserve", job |-> j]]
  <2>1. /\ \A i \in Jobs : i # j => job'[i] = job[i]
        /\ job' \in [Jobs -> JobRecords]
        /\ job'[j] = [job[j] EXCEPT !.reserved = @ + 1]
        /\ job'[j].reserved = job[j].reserved + 1
        /\ job'[j].state = job[j].state
        /\ job'[j].threads = job[j].threads /\ job'[j].rented = job[j].rented
    <3> DEFINE r == [job[j] EXCEPT !.reserved = @ + 1]
    <3>1. job \in [Jobs -> JobRecords] /\ job[j] \in JobRecords
      BY <1>2 DEF ThreadsInv, ThreadTypes
    <3>2. job' = [job EXCEPT ![j] = r]
      BY <1>2, <1>5, <3>1
    <3>3. /\ r \in JobRecords /\ r.reserved = job[j].reserved + 1 /\ r.state = job[j].state
          /\ r.threads = job[j].threads /\ r.rented = job[j].rented
      BY <3>1 DEF JobRecords
    <3> HIDE DEF r
    <3>4. job'[j] = r
      BY <1>2, <3>1, <3>2
    <3>5. QED
      BY <1>2, <3>1, <3>2, <3>3, <3>4 DEF r
  <2>2. \A i \in Jobs : job'[i].state = job[i].state
    BY <2>1
  <2> HIDE DEF j
  <2>3. \A v \in Workers : worker'[v] = IF v = w THEN [pc |-> "reserve", job |-> j] ELSE worker[v]
    BY <1>5 DEF ThreadsInv, ThreadTypes
  <2>4. \A v \in Workers, i \in Jobs : MainWorker(v, i)' <=> MainWorker(v, i)
    BY <1>1, <2>3 DEF MainWorker, Idle
  <2>5. \A i \in Jobs :
          /\ i # j => ReserveWorkers(i)' = ReserveWorkers(i)
          /\ i = j => ReserveWorkers(i)' = ReserveWorkers(i) \cup {w}
          /\ w \notin ReserveWorkers(i)
    <3>1. w \in Workers /\ \A i \in Jobs : worker[w] # [pc |-> "reserve", job |-> i]
      BY <1>1 DEF Idle
    <3>2. \A i \in Jobs, v \in Workers :
            v \in ReserveWorkers(i)' <=> (IF v = w THEN i = j ELSE v \in ReserveWorkers(i))
      BY <2>3 DEF ReserveWorkers
    <3>3. \A i \in Jobs : w \notin ReserveWorkers(i)
      BY <3>1 DEF ReserveWorkers
    <3>4. \A i \in Jobs : /\ ReserveWorkers(i) \subseteq Workers
                          /\ ReserveWorkers(i)' \subseteq Workers
      BY DEF ReserveWorkers
    <3>5. ASSUME NEW i \in Jobs, i = j
          PROVE  ReserveWorkers(i)' = ReserveWorkers(i) \cup {w}
      BY <3>1, <3>2, <3>4, <3>5
    <3>6. ASSUME NEW i \in Jobs, i # j
          PROVE  ReserveWorkers(i)' = ReserveWorkers(i)
      BY <3>2, <3>3, <3>4, <3>6
    <3>7. QED
      BY <3>3, <3>5, <3>6
  <2>6. QueueInv' /\ queue' \in Seq({"main", "reserve"} \X Jobs)
    BY <1>1, <2>2, QueueTaken DEF ThreadsInv
  <2>7. ThreadTypes'
    <3>1. worker' \in [Workers -> {Idle} \cup [pc : {"main", "reserve"}, job : Jobs]]
      BY <1>2, <1>5 DEF ThreadsInv, ThreadTypes
    <3>2. QED
      BY <2>1, <2>6, <3>1 DEF ThreadTypes
  <2>8. PendingIsLive'
    <3>1. Live' = Live
      BY <2>2 DEF Live
    <3>2. QED
      BY <1>3, <3>1 DEF ThreadsInv, PendingIsLive
  <2>9. AttachedExist'
    <3> SUFFICES ASSUME NEW v \in Workers, Attached(v)'
                 PROVE  v <= Size'
      BY DEF AttachedExist
    <3>1. CASE v = w
      BY <1>3, <3>1
    <3>2. CASE v # w
      <4>1. worker'[v] = worker[v] /\ worker[v] # Idle
        BY <2>3, <3>2 DEF Attached
      <4>2. worker[v].job \in Jobs
        BY <4>1 DEF ThreadsInv, ThreadTypes
      <4>3. Attached(v)
        BY <2>2, <4>1, <4>2 DEF Attached
      <4>4. QED
        BY <1>3, <4>3 DEF ThreadsInv, AttachedExist
    <3>3. QED
      BY <3>1, <3>2
  <2>10. WorkersInv'
    <3>1. \A v \in Workers, i \in Jobs :
            /\ v \in ReserveWorkers(i)' => job'[i].state # "none"
            /\ MainWorker(v, i)' => job'[i].state \in {"waiting", "running", "done"}
      BY <1>2, <2>2, <2>4, <2>5 DEF ThreadsInv, WorkersInv, j
    <3>2. \A i \in Jobs : job'[i].state = "running" => \E v \in Workers : MainWorker(v, i)'
      BY <2>2, <2>4 DEF ThreadsInv, WorkersInv
    <3>3. \A v, u \in Workers, i \in Jobs : MainWorker(v, i)' /\ MainWorker(u, i)' => v = u
      BY <2>4 DEF ThreadsInv, WorkersInv
    <3>4. QED
      BY <3>1, <3>2, <3>3 DEF WorkersInv
  <2>11. CountsInv'
    <3> SUFFICES ASSUME NEW i \in Jobs PROVE Counted(i)'
      BY DEF CountsInv
    <3> DEFINE n == Cardinality(ReserveWorkers(i))
               R == ReserveWorkers(i)
    <3>1. Counted(i) /\ n \in Nat /\ job[i] \in JobRecords /\ IsFiniteSet(ReserveWorkers(i))
      BY FiniteWorkers DEF ThreadsInv, CountsInv, ReserveWorkers, ThreadTypes
    <3>2. CASE i # j
      <4>1. job'[i] = job[i] /\ Cardinality(ReserveWorkers(i)') = n
        BY <2>1, <2>5, <3>2
      <4>2. QED
        BY <3>1, <4>1 DEF Counted
    <3>3. CASE i = j
      <4>1. Cardinality(ReserveWorkers(i)') = n + 1
        <5>1. ReserveWorkers(i)' = ReserveWorkers(i) \cup {w} /\ w \notin ReserveWorkers(i)
          BY <2>5, <3>3
        <5>2. IsFiniteSet(R) /\ w \notin R
          BY <3>1, <5>1
        <5> HIDE DEF R
        <5>3. Cardinality(R \cup {w}) = Cardinality(R) + 1
          BY <5>2, FS_AddElement
        <5>4. QED
          BY <5>1, <5>3 DEF R
      <4>2. job[i].reserved \in Nat /\ job[i].threads \in Nat /\ job[i].rented \in Nat
        BY <3>1 DEF JobRecords
      <4>3. /\ job'[i].reserved = job[i].reserved + 1 /\ job'[i].state = job[i].state
            /\ job'[i].threads = job[i].threads /\ job'[i].rented = job[i].rented
        BY <2>1, <3>3
      <4>4. /\ job[i].state = "queued"  => job[i].reserved <= n
            /\ job[i].state = "waiting" => job[i].reserved <= n + 1
            /\ job[i].state = "running" => job[i].threads <= n + 1 /\ job[i].rented <= n
            /\ job[i].state # "running" => job[i].rented = 0
        BY <3>1 DEF Counted
      <4> HIDE DEF n
      <4>5. QED
        BY <3>1, <4>1, <4>2, <4>3, <4>4 DEF Counted
    <3>4. QED
      BY <3>2, <3>3
  <2>12. QED
    BY <1>3, <2>6, <2>7, <2>8, <2>9, <2>10, <2>11 DEF ThreadsInv
<1>6. QED
  BY <1>4, <1>5 DEF TakeReserveJob

LEMMA EndReserveKeeps ==
  ASSUME ThreadsInv, NEW w \in Workers, EndReserve(w)
  PROVE  ThreadsInv'
<1> DEFINE j == worker[w].job
<1>1. /\ worker[w].pc = "reserve" /\ job[j].state \in {"done", "deleted"}
      /\ worker' = [worker EXCEPT ![w] = Idle]
      /\ UNCHANGED <<pool, requested, queue, job>>
  BY DEF EndReserve
<1>2. j \in Jobs /\ worker[w] = [pc |-> "reserve", job |-> j]
  BY <1>1, WorkersJob
<1> HIDE DEF j
<1>3. \A v \in Workers : worker'[v] = IF v = w THEN Idle ELSE worker[v]
  BY <1>1 DEF ThreadsInv, ThreadTypes
<1>4. \A v \in Workers, i \in Jobs : MainWorker(v, i)' <=> MainWorker(v, i)
  BY <1>2, <1>3 DEF MainWorker, Idle
<1>5. \A i \in Jobs : /\ ReserveWorkers(i)' \subseteq ReserveWorkers(i)
                      /\ i # j => ReserveWorkers(i)' = ReserveWorkers(i)
  BY <1>2, <1>3 DEF ReserveWorkers, Idle
<1>6. PoolInv' /\ PendingIsLive' /\ QueueInv'
  BY <1>1 DEF ThreadsInv, PoolInv, PoolType, PoolFollowsRequests, Size, PendingIsLive, Live, QueueInv
<1>7. ThreadTypes'
  BY <1>1 DEF ThreadsInv, ThreadTypes
<1>8. AttachedExist'
  BY <1>1, <1>3 DEF ThreadsInv, AttachedExist, Attached, Size
<1>9. WorkersInv'
  BY <1>1, <1>4, <1>5 DEF ThreadsInv, WorkersInv
<1>10. CountsInv'
  BY <1>1, <1>5 DEF ThreadsInv, CountsInv, Counted, j
<1>11. QED
  BY <1>6, <1>7, <1>8, <1>9, <1>10 DEF ThreadsInv


\* A live job keeps the pool from shrinking.
LEMMA PendingPositive ==
  ASSUME ThreadsInv, pool.pending <= 0
  PROVE  Live = {}
<1>1. IsFiniteSet(Live) /\ Cardinality(Live) \in Nat
  BY FiniteJobs DEF Live
<1>2. Cardinality(Live) = 0
  BY <1>1 DEF ThreadsInv, PendingIsLive
<1>3. QED
  BY <1>1, <1>2, FS_EmptySet

\* The job of a worker was scheduled.
LEMMA AttachedToLive ==
  ASSUME ThreadsInv, NEW v \in Workers, Attached(v)
  PROVE  worker[v].job \in Live
<1>1. worker[v] \in [pc : {"main", "reserve"}, job : Jobs]
  BY DEF ThreadsInv, ThreadTypes, Attached
<1> DEFINE i == worker[v].job
<1>2. i \in Jobs /\ worker[v] = [pc |-> worker[v].pc, job |-> i] /\ worker[v].pc \in {"main", "reserve"}
  BY <1>1
<1> HIDE DEF i
<1>3. v \in ReserveWorkers(i) \/ MainWorker(v, i)
  BY <1>2 DEF ReserveWorkers, MainWorker
<1>4. job[i].state # "none"
  BY <1>2, <1>3 DEF ThreadsInv, WorkersInv
<1>5. QED
  BY <1>2, <1>4 DEF Attached, Live, i

LEMMA ResizeKeeps ==
  ASSUME ThreadsInv, NEW size \in Sizes, Resize(size)
  PROVE  ThreadsInv'
<1>1. requested' = size /\ pool' = Resized(pool, size) /\ UNCHANGED <<queue, job, worker>>
  BY DEF Resize
<1>2. PoolInv'
  BY <1>1, ResizeFollows DEF ThreadsInv
<1>3. /\ pool'.pending = pool.pending
      /\ pool'.slots < pool.slots => pool.pending <= 0
  BY <1>1, ResizedFacts DEF ThreadsInv, PoolInv, PoolType
<1>4. PendingIsLive'
  BY <1>1, <1>3 DEF ThreadsInv, PendingIsLive, Live
<1>5. AttachedExist'
  <2> SUFFICES ASSUME NEW v \in Workers, Attached(v)
               PROVE  v <= Size'
    BY <1>1 DEF AttachedExist, Attached
  <2>1. worker[v].job \in Live
    BY AttachedToLive
  <2>2. ~(pool'.slots < pool.slots)
    BY <1>3, <2>1, PendingPositive
  <2>3. v <= pool.slots + 1
    BY DEF ThreadsInv, AttachedExist, Size
  <2>4. pool.slots \in Nat /\ pool'.slots \in Nat /\ v \in Int
    BY <1>2, SVSThreadsAssumption DEF ThreadsInv, PoolInv, PoolType, Workers
  <2>5. QED
    BY <2>2, <2>3, <2>4 DEF Size
<1>6. ThreadTypes' /\ QueueInv' /\ WorkersInv' /\ CountsInv'
  BY <1>1 DEF ThreadsInv, ThreadTypes, QueueInv, WorkersInv, CountsInv, Counted, MainWorker,
              ReserveWorkers
<1>7. QED
  BY <1>2, <1>4, <1>5, <1>6 DEF ThreadsInv

LEMMA ScheduleKeeps ==
  ASSUME ThreadsInv, NEW j \in Jobs, Schedule(j)
  PROVE  ThreadsInv'
<1> DEFINE new == [NoJob EXCEPT !.state = "queued", !.wanted = Size]
           T == {"main", "reserve"} \X Jobs
<1>1. /\ job[j] = NoJob /\ job' = [job EXCEPT ![j] = new]
      /\ pool' = [pool EXCEPT !.pending = @ + 1]
      /\ queue' = queue \o JobsOf(j, Size)
      /\ UNCHANGED <<requested, worker>>
  BY DEF Schedule
<1>2. Size \in Nat \ {0} /\ Size = pool.slots + 1
  BY DEF ThreadsInv, PoolInv, PoolType, Size
<1>3. new \in JobRecords /\ new.state = "queued" /\ new.reserved = 0 /\ new.rented = 0
  BY <1>2 DEF NoJob, JobRecords, States
<1> HIDE DEF new
<1>4. /\ \A i \in Jobs : job'[i] = IF i = j THEN new ELSE job[i]
      /\ job' \in [Jobs -> JobRecords] /\ job[j].state = "none"
  BY <1>1, <1>3 DEF ThreadsInv, ThreadTypes, NoJob
<1>5. PoolInv' /\ pool'.slots = pool.slots /\ pool'.pending = pool.pending + 1 /\ Size' = Size
  <2>1. /\ pool'.slots = pool.slots /\ pool'.deferred = pool.deferred
        /\ pool'.pending = pool.pending + 1 /\ PoolType'
    <3>1. pool' = [pool EXCEPT !.pending = @ + 1] /\ requested' = requested
      BY <1>1
    <3>2. PoolType
      BY DEF ThreadsInv, PoolInv
    <3>3. QED
      BY <3>1, <3>2 DEF PoolType
  <2>2. QED
    BY <1>1, <2>1 DEF ThreadsInv, PoolInv, PoolType, PoolFollowsRequests, Size
<1>6. PendingIsLive'
  <2>1. Live' = Live \cup {j} /\ j \notin Live
    BY <1>3, <1>4 DEF Live
  <2>2. IsFiniteSet(Live) /\ Cardinality(Live) = pool.pending
    BY FiniteJobs DEF ThreadsInv, PendingIsLive, Live
  <2>3. Cardinality(Live \cup {j}) = Cardinality(Live) + 1
    BY <2>1, <2>2, FS_AddElement
  <2>4. QED
    BY <1>5, <2>1, <2>2, <2>3 DEF PendingIsLive
<1>7. /\ queue' \in Seq(T) /\ Len(queue') = Len(queue) + Size /\ Len(queue) \in Nat
      /\ \A k \in 1..Len(queue) : queue'[k] = queue[k] /\ queue[k] \in T
      /\ queue'[Len(queue) + 1] = <<"main", j>>
      /\ \A k \in (Len(queue) + 2)..(Len(queue) + Size) : queue'[k] = <<"reserve", j>>
  <2> DEFINE o == JobsOf(j, Size)
  <2>1. /\ o \in Seq(T) /\ Len(o) = Size /\ o[1] = <<"main", j>>
        /\ \A k \in 2..Size : o[k] = <<"reserve", j>>
    BY <1>2, JobsInQueue
  <2>2. queue \in Seq(T) /\ Len(queue) \in Nat /\ \A k \in 1..Len(queue) : queue[k] \in T
    BY DEF ThreadsInv, ThreadTypes
  <2> HIDE DEF o, T
  <2>3. /\ queue \o o \in Seq(T) /\ Len(queue \o o) = Len(queue) + Len(o)
        /\ \A k \in 1..(Len(queue) + Len(o)) :
             (queue \o o)[k] = IF k <= Len(queue) THEN queue[k] ELSE o[k - Len(queue)]
    BY <2>1, <2>2, ConcatProperties
  <2>4. queue' = queue \o o
    BY <1>1 DEF o
  <2> HIDE DEF Size
  <2>5. ASSUME NEW k \in (Len(queue) + 2)..(Len(queue) + Size)
        PROVE  queue'[k] = <<"reserve", j>>
    <3>1. k \in 1..(Len(queue) + Len(o)) /\ ~(k <= Len(queue)) /\ k - Len(queue) \in 2..Size
      BY <1>2, <2>1, <2>2
    <3>2. QED
      BY <2>1, <2>3, <2>4, <3>1
  <2>6. queue'[Len(queue) + 1] = <<"main", j>>
    <3>1. /\ Len(queue) + 1 \in 1..(Len(queue) + Len(o)) /\ ~(Len(queue) + 1 <= Len(queue))
          /\ Len(queue) + 1 - Len(queue) = 1
      BY <1>2, <2>1, <2>2
    <3>2. QED
      BY <2>1, <2>3, <2>4, <3>1
  <2>7. \A k \in 1..Len(queue) : queue'[k] = queue[k]
    BY <1>2, <2>1, <2>2, <2>3, <2>4
  <2>8. QED
    BY <2>1, <2>2, <2>3, <2>4, <2>5, <2>6, <2>7
<1>8. QueueInv'
  <2>1. ASSUME NEW k \in 1..Len(queue')
        PROVE  \/ /\ k \in 1..Len(queue) /\ queue'[k] = queue[k] /\ queue[k] \in T
                  /\ queue[k][2] # j /\ queue[k][2] \in Jobs
               \/ k = Len(queue) + 1 /\ queue'[k] = <<"main", j>>
               \/ queue'[k] = <<"reserve", j>>
    <3>1. CASE k \in 1..Len(queue)
      <4>1. queue'[k] = queue[k] /\ queue[k] \in T
        BY <1>7, <3>1
      <4>2. queue[k][2] # j
        BY <1>4, <3>1 DEF ThreadsInv, QueueInv
      <4>3. QED
        BY <3>1, <4>1, <4>2
    <3>2. CASE k = Len(queue) + 1
      BY <1>7, <3>2
    <3>3. CASE k > Len(queue) + 1
      <4> HIDE DEF Size
      <4>1. k \in (Len(queue) + 2)..(Len(queue) + Size)
        BY <1>2, <1>7, <3>3
      <4>2. QED
        BY <1>7, <4>1
    <3>4. QED
      BY <1>7, <3>1, <3>2, <3>3
  <2>2. \A k \in 1..Len(queue') : job'[queue'[k][2]].state # "none"
    BY <1>3, <1>4, <2>1 DEF ThreadsInv, QueueInv
  <2>3. \A k \in 1..Len(queue') : queue'[k][1] = "main" => job'[queue'[k][2]].state = "queued"
    BY <1>3, <1>4, <2>1 DEF ThreadsInv, QueueInv
  <2>4. ASSUME NEW k \in 1..Len(queue'), NEW l \in 1..Len(queue'),
               queue'[k][1] = "main", queue'[l] = queue'[k]
        PROVE  k = l
    <3>1. CASE k \in 1..Len(queue) /\ queue'[k] = queue[k] /\ queue[k][2] # j
      <4>1. l \in 1..Len(queue) /\ queue'[l] = queue[l]
        BY <2>1, <2>4, <3>1
      <4>2. QED
        BY <2>4, <3>1, <4>1 DEF ThreadsInv, QueueInv
    <3>2. CASE k = Len(queue) + 1 /\ queue'[k] = <<"main", j>>
      BY <2>1, <2>4, <3>2
    <3>3. QED
      BY <2>1, <2>4, <3>1, <3>2
  <2>5. QED
    BY <2>2, <2>3, <2>4 DEF QueueInv
<1>9. ThreadTypes'
  BY <1>1, <1>4, <1>7 DEF ThreadsInv, ThreadTypes
<1>10. AttachedExist'
  BY <1>1, <1>4, <1>5 DEF ThreadsInv, ThreadTypes, AttachedExist, Attached
<1>11. \A i \in Jobs : ReserveWorkers(i)' = ReserveWorkers(i)
  BY <1>1 DEF ReserveWorkers
<1>12. WorkersInv'
  BY <1>1, <1>3, <1>4, <1>11 DEF ThreadsInv, WorkersInv, MainWorker
<1>13. CountsInv'
  <2> SUFFICES ASSUME NEW i \in Jobs PROVE Counted(i)'
    BY DEF CountsInv
  <2>1. Counted(i) /\ Cardinality(ReserveWorkers(i)) \in Nat
    BY FiniteWorkers DEF ThreadsInv, CountsInv, ReserveWorkers
  <2>2. QED
    BY <1>3, <1>4, <1>11, <2>1 DEF Counted
<1>14. QED
  BY <1>5, <1>6, <1>8, <1>9, <1>10, <1>12, <1>13 DEF ThreadsInv

LEMMA DeleteKeeps ==
  ASSUME ThreadsInv, NEW w \in Workers, DeleteJob(w)
  PROVE  ThreadsInv'
<1>1. PICK j \in Jobs : MainWorker(w, j) /\ worker[w].job = j /\ job[j] \in JobRecords
  BY WorkersJob DEF DeleteJob, MainWorker
<1>2. /\ job[j].state = "done" /\ job' = [job EXCEPT ![j].state = "deleted"]
      /\ pool' = Ended(pool) /\ worker' = [worker EXCEPT ![w] = Idle]
      /\ UNCHANGED <<requested, queue>>
  BY <1>1 DEF DeleteJob
<1>3. /\ \A i \in Jobs : i # j => job'[i] = job[i]
      /\ job' \in [Jobs -> JobRecords] /\ job'[j].state = "deleted"
      /\ job'[j].rented = job[j].rented
  <2> DEFINE r == [job[j] EXCEPT !.state = "deleted"]
  <2>1. r \in JobRecords /\ r.state = "deleted" /\ r.rented = job[j].rented
    BY <1>1 DEF JobRecords, States
  <2>2. job \in [Jobs -> JobRecords]
    BY DEF ThreadsInv, ThreadTypes
  <2>3. job' = [job EXCEPT ![j] = r]
    BY <1>2, <2>2
  <2> HIDE DEF r
  <2>4. QED
    BY <2>1, <2>2, <2>3
<1>4. \A v \in Workers : worker'[v] = IF v = w THEN Idle ELSE worker[v]
  BY <1>2 DEF ThreadsInv, ThreadTypes
<1>5. PoolInv' /\ pool'.pending = pool.pending - 1
      /\ (pool'.slots < pool.slots => pool'.pending = 0)
  BY <1>2, EndFollows, EndedFacts DEF ThreadsInv, PoolInv, PoolType
<1>6. Live' = Live \ {j} /\ j \in Live
  BY <1>2, <1>3 DEF Live
<1>7. PendingIsLive'
  <2>1. IsFiniteSet(Live) /\ Cardinality(Live) = pool.pending
    BY FiniteJobs DEF ThreadsInv, PendingIsLive, Live
  <2>2. Cardinality(Live \ {j}) = Cardinality(Live) - 1
    BY <1>6, <2>1, FS_RemoveElement
  <2>3. QED
    BY <1>5, <1>6, <2>1, <2>2 DEF PendingIsLive
<1>8. QueueInv'
  <2>1. \A k \in 1..Len(queue) : queue[k][2] \in Jobs
    BY DEF ThreadsInv, ThreadTypes
  <2>2. QED
    BY <1>2, <1>3, <2>1 DEF ThreadsInv, QueueInv
<1>9. ThreadTypes'
  BY <1>2, <1>3 DEF ThreadsInv, ThreadTypes
<1>10. AttachedExist'
  <2> SUFFICES ASSUME NEW v \in Workers, Attached(v)'
               PROVE  v <= Size'
    BY DEF AttachedExist
  <2>1. worker'[v] = worker[v] /\ worker[v] # Idle
    BY <1>4 DEF Attached
  <2>2. worker[v].job \in Jobs
    BY <2>1 DEF ThreadsInv, ThreadTypes
  <2>3. Attached(v) /\ worker[v].job # j
    BY <1>2, <1>3, <2>1, <2>2 DEF Attached
  <2>4. worker[v].job \in Live'
    BY <1>6, <2>3, AttachedToLive
  <2>5. pool'.pending # 0
    <3>1. IsFiniteSet(Live') /\ Live' # {}
      BY <2>4, FiniteJobs DEF Live
    <3>2. Cardinality(Live') # 0
      BY <3>1, FS_EmptySet
    <3>3. QED
      BY <1>7, <3>2 DEF PendingIsLive
  <2>6. v <= pool.slots + 1
    BY <2>3 DEF ThreadsInv, AttachedExist, Size
  <2>7. pool.slots \in Nat /\ pool'.slots \in Nat /\ v \in Int
    BY <1>5, SVSThreadsAssumption DEF ThreadsInv, PoolInv, PoolType, Workers
  <2>8. QED
    BY <1>5, <2>5, <2>6, <2>7 DEF Size
<1>11. \A i \in Jobs : ReserveWorkers(i)' = ReserveWorkers(i)
  BY <1>1, <1>4 DEF ReserveWorkers, MainWorker, Idle
<1>12. \A v \in Workers, i \in Jobs : MainWorker(v, i)' <=> MainWorker(v, i) /\ i # j
  <2>1. \A v \in Workers : MainWorker(v, j) => v = w
    BY <1>1 DEF ThreadsInv, WorkersInv
  <2>2. \A i \in Jobs : MainWorker(w, i) => i = j
    BY <1>1 DEF MainWorker
  <2>3. QED
    <3> SUFFICES ASSUME NEW v \in Workers, NEW i \in Jobs
                 PROVE  MainWorker(v, i)' <=> MainWorker(v, i) /\ i # j
      OBVIOUS
    <3>1. CASE v = w
      <4>1. ~MainWorker(v, i)'
        BY <1>4, <3>1 DEF MainWorker, Idle
      <4>2. QED
        BY <2>2, <3>1, <4>1
    <3>2. CASE v # w
      <4>1. MainWorker(v, i)' <=> MainWorker(v, i)
        BY <1>4, <3>2 DEF MainWorker
      <4>2. QED
        BY <2>1, <3>2, <4>1
    <3>3. QED
      BY <3>1, <3>2
<1>13. WorkersInv'
  BY <1>3, <1>11, <1>12 DEF ThreadsInv, WorkersInv
<1>14. CountsInv'
  BY <1>2, <1>3, <1>11 DEF ThreadsInv, CountsInv, Counted
<1>15. QED
  BY <1>5, <1>7, <1>8, <1>9, <1>10, <1>13, <1>14 DEF ThreadsInv

\* Every rent gets as many threads as it asks for: what the jobs hold and what a running
\* job may rent, the pool has, after any resize (svs_utils.h:511-540).
THEOREM RentSucceeds == Spec => []RentedThreadsExist
<1>1. Init => ThreadsInv
  <2> SUFFICES ASSUME Init PROVE ThreadsInv
    OBVIOUS
  <2> USE SVSThreadsAssumption
  <2>1. PoolInv
    BY DEF Init, PoolInv, PoolType, PoolFollowsRequests, Sizes, None, Size
  <2>2. ThreadTypes
    BY DEF Init, ThreadTypes, NoJob, JobRecords, States
  <2>3. PendingIsLive
    <3>1. Live = {}
      BY DEF Init, Live, NoJob
    <3>2. QED
      BY <3>1, FS_EmptySet DEF Init, PendingIsLive
  <2>4. AttachedExist /\ QueueInv
    BY DEF Init, AttachedExist, Attached, QueueInv
  <2>5. \A w \in Workers : worker[w] = Idle
    BY DEF Init
  <2>6. \A j \in Jobs : ReserveWorkers(j) = {} /\ \A w \in Workers : ~MainWorker(w, j)
    BY <2>5 DEF ReserveWorkers, MainWorker, Idle
  <2>7. \A j \in Jobs : job[j].state = "none" /\ job[j].rented = 0
    BY DEF Init, NoJob
  <2>8. WorkersInv /\ CountsInv
    BY <2>6, <2>7 DEF WorkersInv, CountsInv, Counted
  <2>9. QED
    BY <2>1, <2>2, <2>3, <2>4, <2>8 DEF ThreadsInv
<1>2. ThreadsInv /\ [Next]_vars => ThreadsInv'
  <2> SUFFICES ASSUME ThreadsInv, [Next]_vars PROVE ThreadsInv'
    OBVIOUS
  <2>1. ASSUME NEW size \in Sizes, Resize(size) PROVE ThreadsInv'
    BY <2>1, ResizeKeeps
  <2>2. ASSUME NEW j \in Jobs, Schedule(j) PROVE ThreadsInv'
    BY <2>2, ScheduleKeeps
  <2>3. ASSUME NEW w \in Workers, WorkerStep(w) PROVE ThreadsInv'
    BY <2>3, TakeMainKeeps, MainGoesOn, DeleteKeeps, TakeReserveKeeps, EndReserveKeeps
       DEF WorkerStep
  <2>4. CASE UNCHANGED vars
    BY <2>4 DEF vars, ThreadsInv, PoolInv, PoolType, PoolFollowsRequests, ThreadTypes,
                PendingIsLive, Live, AttachedExist, Attached, Size, QueueInv, WorkersInv,
                MainWorker, CountsInv, Counted, ReserveWorkers
  <2>5. QED
    BY <2>1, <2>2, <2>3, <2>4 DEF Next
<1>3. ThreadsInv => RentedThreadsExist
  BY RentedAreReserved DEF RentedThreadsExist
<1>4. QED
  BY <1>1, <1>2, <1>3, PTL DEF Spec

=============================================================================
