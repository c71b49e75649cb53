----------------------------- MODULE SVSThreads -----------------------------
(***************************************************************************)
(* How an SVS job gets its threads.  A job is a main job and reserve jobs  *)
(* in the queue of the host: a worker that takes a reserve job checks in   *)
(* and then only waits for the job to end, so that the main job may rent a *)
(* thread of the shared pool in its stead.  The pool is resized while jobs *)
(* are under way.                                                          *)
(*                                                                         *)
(* The jobs of one index exclude each other by updateJobMutex; here every  *)
(* job is of another index, which lets most of them run at once.           *)
(***************************************************************************)
EXTENDS Integers, Sequences, FiniteSets

CONSTANTS
  MaxSize,     \* the largest size of the pool, and number of host workers
  MaxJobs,     \* bounds the scheduled jobs
  MaxResizes   \* bounds the changes of the size

ASSUME SVSThreadsAssumption ==
  MaxSize \in Nat \ {0} /\ MaxJobs \in Nat /\ MaxResizes \in Nat

Sizes   == 1..MaxSize
Workers == 1..MaxSize     \* the host runs jobs on its workers 1..requested
Jobs    == 1..MaxJobs
None    == 0              \* deferred_size_ without a value

VARIABLES
  pool,       \* [slots, pending, deferred]: slots_, pending_jobs_, deferred_size_
  requested,  \* the size last asked for, which the host also has
  resizes,
  queue,      \* the job queue of the host, first in first out
  job,        \* the control block of each job and what it has rented
  worker      \* what each host worker does

vars == <<pool, requested, resizes, queue, job, worker>>

Idle   == [pc |-> "idle"]
NoJob  == [state |-> "none", wanted |-> 0, reserved |-> 0, threads |-> 0, rented |-> 0]
Size   == pool.slots + 1

Init ==
  /\ requested \in Sizes
  /\ pool = [slots |-> requested - 1, pending |-> 0, deferred |-> None]
  /\ resizes = 0
  /\ queue = <<>>
  /\ job = [j \in Jobs |-> NoJob]
  /\ worker = [w \in Workers |-> Idle]

-----------------------------------------------------------------------------
(* The pool.                                                               *)

\* Mutant: a shrink is not deferred.
ResizedAtOnce(p, size) == [p EXCEPT !.slots = size - 1, !.deferred = None]

\* Mutant: a grow leaves an earlier shrink to be applied later.
ResizedKeepDeferred(p, size) ==
  IF size - 1 >= p.slots THEN [p EXCEPT !.slots = size - 1]
  ELSE IF p.pending > 0 THEN [p EXCEPT !.deferred = size]
  ELSE [p EXCEPT !.slots = size - 1]

\* resize_locked: a grow is immediate and cancels a deferred shrink, a shrink waits
\* for the end of all jobs.
Resized(p, size) ==
  IF size - 1 >= p.slots THEN [p EXCEPT !.slots = size - 1, !.deferred = None]
  ELSE IF p.pending > 0 THEN [p EXCEPT !.deferred = size]
  ELSE [p EXCEPT !.slots = size - 1]

\* VecSim_UpdateThreadPoolSize, by the main thread; the host follows suit.
Resize(size) ==
  /\ resizes < MaxResizes /\ size # requested
  /\ resizes' = resizes + 1
  /\ requested' = size
  /\ pool' = Resized(pool, size)
  /\ UNCHANGED <<queue, job, worker>>

\* endScheduledJob, by the destructor of the main job.
Ended(p) ==
  LET q == [p EXCEPT !.pending = @ - 1]
  IN  IF q.pending = 0 /\ q.deferred # None
      THEN [Resized(q, q.deferred) EXCEPT !.deferred = None] ELSE q

-----------------------------------------------------------------------------
(* Scheduling.                                                             *)

\* Mutant: the reserve jobs come first.
JobsOfMainLast(j, n) == Append([i \in 1..(n - 1) |-> <<"reserve", j>>], <<"main", j>>)

\* createJobs: the main job is followed by the reserve jobs.
JobsOf(j, n) == <<<<"main", j>>>> \o [i \in 1..(n - 1) |-> <<"reserve", j>>]

\* createScheduledJobs: the job is counted and the size of the pool read in one
\* critical section.
Schedule(j) ==
  /\ job[j] = NoJob /\ \A i \in 1..(j - 1) : job[i] # NoJob
  /\ job' = [job EXCEPT ![j] = [NoJob EXCEPT !.state = "queued", !.wanted = Size]]
  /\ pool' = [pool EXCEPT !.pending = @ + 1]
  /\ queue' = queue \o JobsOf(j, Size)
  /\ UNCHANGED <<requested, resizes, worker>>

-----------------------------------------------------------------------------
(* The main job (ExecuteMultiThreadJobImpl).                               *)

Takes(w, kind) ==
  /\ worker[w] = Idle /\ w <= requested
  /\ queue # <<>> /\ Head(queue)[1] = kind
  /\ queue' = Tail(queue)

\* Without reserve jobs there is no control block and nothing to wait for.
TakeMainJob(w) ==
  /\ Takes(w, "main")
  /\ LET j == Head(queue)[2] IN
     /\ worker' = [worker EXCEPT ![w] = [pc |-> "main", job |-> j]]
     /\ job' = [job EXCEPT ![j].reserved = @ + 1,
                           ![j].threads = IF job[j].wanted = 1 THEN 1 ELSE 0,
                           ![j].state = IF job[j].wanted = 1 THEN "running" ELSE "waiting"]
  /\ UNCHANGED <<pool, requested, resizes>>

\* waitForThreads: all have checked in, or the time is over.
EndWait(w) ==
  LET j == worker[w].job IN
  /\ worker[w].pc = "main" /\ job[j].state = "waiting"
  /\ job' = [job EXCEPT ![j].state = "running", ![j].threads = job[j].reserved]
  /\ UNCHANGED <<pool, requested, resizes, queue, worker>>

\* parallel_for rents a worker of the pool for each thread that checked in but the
\* caller's; fewer, for a smaller task, cannot do more harm.
Rent(w) ==
  LET j == worker[w].job IN
  /\ worker[w].pc = "main" /\ job[j].state = "running" /\ job[j].rented < job[j].threads - 1
  /\ job' = [job EXCEPT ![j].rented = job[j].threads - 1]
  /\ UNCHANGED <<pool, requested, resizes, queue, worker>>

ReleaseRented(w) ==
  LET j == worker[w].job IN
  /\ worker[w].pc = "main" /\ job[j].rented > 0
  /\ job' = [job EXCEPT ![j].rented = 0]
  /\ UNCHANGED <<pool, requested, resizes, queue, worker>>

\* The task has returned: the waiting workers are woken (markJobDone), then the job
\* is deleted.
MarkJobDone(w) ==
  LET j == worker[w].job IN
  /\ worker[w].pc = "main" /\ job[j].state = "running" /\ job[j].rented = 0
  /\ job' = [job EXCEPT ![j].state = "done"]
  /\ UNCHANGED <<pool, requested, resizes, queue, worker>>

DeleteJob(w) ==
  LET j == worker[w].job IN
  /\ worker[w].pc = "main" /\ job[j].state = "done"
  /\ job' = [job EXCEPT ![j].state = "deleted"]
  /\ pool' = Ended(pool)
  /\ worker' = [worker EXCEPT ![w] = Idle]
  /\ UNCHANGED <<requested, resizes, queue>>

-----------------------------------------------------------------------------
(* A reserve job (ExecuteReserveThreadImpl).                               *)

\* It may come after the wait has ended, or after the control block is gone.
TakeReserveJob(w) ==
  /\ Takes(w, "reserve")
  /\ LET j == Head(queue)[2] IN
     \/ /\ job[j].state = "deleted"
        /\ UNCHANGED <<job, worker>>
     \/ /\ job[j].state # "deleted"
        /\ job' = [job EXCEPT ![j].reserved = @ + 1]
        /\ worker' = [worker EXCEPT ![w] = [pc |-> "reserve", job |-> j]]
  /\ UNCHANGED <<pool, requested, resizes>>

\* The predicate of cv_done holds.
EndReserve(w) ==
  /\ worker[w].pc = "reserve" /\ job[worker[w].job].state \in {"done", "deleted"}
  /\ worker' = [worker EXCEPT ![w] = Idle]
  /\ UNCHANGED <<pool, requested, resizes, queue, job>>

-----------------------------------------------------------------------------
WorkerStep(w) ==
  \/ TakeMainJob(w) \/ EndWait(w) \/ Rent(w) \/ ReleaseRented(w) \/ MarkJobDone(w)
  \/ DeleteJob(w) \/ TakeReserveJob(w) \/ EndReserve(w)

Next ==
  \/ \E size \in Sizes : Resize(size)
  \/ \E j \in Jobs : Schedule(j)
  \/ \E w \in Workers : WorkerStep(w)

\* Workers go on with what they have taken, idle ones take jobs, a wait times out and
\* a task comes to its end.
Fairness ==
  \A w \in Workers :
    /\ WF_vars(TakeMainJob(w) \/ TakeReserveJob(w))
    /\ WF_vars(EndWait(w)) /\ WF_vars(ReleaseRented(w)) /\ SF_vars(MarkJobDone(w))
    /\ WF_vars(DeleteJob(w)) /\ WF_vars(EndReserve(w))

Spec == Init /\ [][Next]_vars /\ Fairness

-----------------------------------------------------------------------------
(* Properties.                                                             *)

Running == {j \in Jobs : job[j].state = "running"}

\* The threads that job i holds at the moment when job j rents all it may.
RentedWith(j) == UNION {{i} \X (1 .. (IF i = j THEN job[i].threads - 1 ELSE job[i].rented)) :
                          i \in Jobs}

\* What jobs have rented at once, and what a running job may rent now, the pool has,
\* after any resize since they were scheduled: rent never gets fewer than it asked for,
\* "This should not happen" (svs_utils.h:524-533).
RentedThreadsExist ==
  \A j \in Running : Cardinality(RentedWith(j)) <= pool.slots

\* The pool has the size last asked for, unless a shrink waits for the end of pending
\* jobs; a later grow or shrink supersedes it (svs_utils.h:477-497, 605-617).
PoolFollowsRequests ==
  IF pool.deferred = None THEN Size = requested
  ELSE pool.pending > 0 /\ pool.deferred = requested /\ requested < Size

\* Every job that is scheduled ends, and no worker that has checked in waits for ever:
\* the wait for threads times out, and the main job is taken before its reserve jobs
\* (svs_tiered.h:93-115, 190-206).
JobsEnd ==
  /\ \A j \in Jobs : job[j].state = "queued" ~> job[j].state = "deleted"
  /\ \A w \in Workers : worker[w].pc = "reserve" ~> worker[w].pc = "idle"

=============================================================================
