------------------------- MODULE TieredHNSW_proofs -------------------------
(***************************************************************************)
(* The tiered index, single- or multi-value, keeps its invariants for      *)
(* every number of labels, vectors, workers and readers and every buffer   *)
(* limit.  The proof shows that TieredInv is inductive: one lemma per      *)
(* action.                                                                 *)
(***************************************************************************)
EXTENDS TieredHNSWInv, FiniteSetTheorems, SequenceTheorems, TLAPS

-----------------------------------------------------------------------------
(* The buffer.  What the operations of a flat index of either kind do is    *)
(* proved in FlatKinds_proofs.                                              *)

Kinds == INSTANCE FlatKinds_proofs WITH multi <- IsMulti

\* The flat indexes that hold vectors of V.
FlatOf(V) == {f \in [labels  : Seq(Labels), vectors : Seq(V),
                     ids     : [Labels -> Seq(Nat \ {0})]] :
                Len(f.labels) = Len(f.vectors)}

\* The three parts of a flat index agree in length and type.
LEMMA CountType ==
  ASSUME NEW V, NEW f \in FlatOf(V)
  PROVE  /\ Count(f) \in Nat
         /\ Len(f.vectors) = Count(f)
         /\ \A i \in 1..Count(f) : f.labels[i] \in Labels /\ f.vectors[i] \in V
<1>1. f.labels \in Seq(Labels) /\ f.vectors \in Seq(V)
  BY DEF FlatOf
<1>2. QED
  BY <1>1, LenProperties, ElementOfSeq DEF FlatOf, Count

\* A list that has no element twice holds each element at one position.
LEMMA ListsOnceRange ==
  ASSUME NEW S, NEW s \in Seq(S), NEW T
  PROVE  Range(s) = T /\ IsInjective(s) <=> Kinds!ListsOnce(s, 1..Len(s), T)
<1>1. DOMAIN s = 1..Len(s)
  BY LenProperties
<1>2. Kinds!ListsOnce(s, 1..Len(s), T) <=>
        /\ \A q \in DOMAIN s : s[q] \in T
        /\ \A x \in T : \E q \in DOMAIN s : s[q] = x
        /\ \A q, r \in DOMAIN s : s[q] = s[r] => q = r
  BY <1>1, Zenon DEF Kinds!ListsOnce
<1>3. IsInjective(s) <=> \A q, r \in DOMAIN s : s[q] = s[r] => q = r
  BY Zenon DEF IsInjective
<1>4. Range(s) = T <=> /\ \A q \in DOMAIN s : s[q] \in T
                       /\ \A x \in T : \E q \in DOMAIN s : s[q] = x
  BY DEF Range
<1>5. QED
  BY <1>2, <1>3, <1>4

\* An exact lookup, in the words of FlatKinds_proofs.
LEMMA ExactLookup ==
  ASSUME NEW f \in FlatOf(Adds)
  PROVE  Kinds!FlatOK(Adds, f) <=>
           \A l \in Labels : /\ Range(f.ids[l]) = {i \in 1..Count(f) : f.labels[i] = l}
                             /\ IsInjective(f.ids[l])
                             /\ ~IsMulti => Len(f.ids[l]) <= 1
<1>1. f \in Kinds!FlatOf(Adds) /\ f.ids \in [Labels -> Seq(Nat \ {0})]
  BY DEF FlatOf, Kinds!FlatOf
<1>2. ASSUME NEW l \in Labels
      PROVE  Kinds!ListsOnce(f.ids[l], Kinds!Everywhere(f)[l], Kinds!Holding(f, l) \ {})
               <=> Range(f.ids[l]) = {i \in 1..Count(f) : f.labels[i] = l} /\ IsInjective(f.ids[l])
  <2>1. PICK s \in Seq(Nat \ {0}) : s = f.ids[l]
    BY <1>1
  <2>2. PICK T : T = {i \in 1..Count(f) : f.labels[i] = l}
    OBVIOUS
  <2>3. Kinds!Holding(f, l) \ {} = T
    BY <2>2 DEF Kinds!Holding, Kinds!Count, Count
  <2>4. Kinds!Everywhere(f)[l] = 1..Len(s)
    BY <2>1 DEF Kinds!Everywhere
  <2>5. Range(s) = T /\ IsInjective(s) <=> Kinds!ListsOnce(s, 1..Len(s), T)
    BY <2>1, ListsOnceRange
  <2>6. QED
    BY <2>1, <2>2, <2>3, <2>4, <2>5
<1>3. Kinds!FlatOK(Adds, f) <=>
        /\ \A l \in Labels :
             Kinds!ListsOnce(f.ids[l], Kinds!Everywhere(f)[l], Kinds!Holding(f, l) \ {})
        /\ ~IsMulti => \A l \in Labels : Len(f.ids[l]) <= 1
  BY <1>1, Zenon DEF Kinds!FlatOK, Kinds!Covers
<1>4. QED
  BY <1>2, <1>3, IsMultiAssumption

\* The buffer is as the lemmas on flat indexes require it.
LEMMA BufferOK ==
  ASSUME TieredInv
  PROVE  flat \in FlatOf(Adds) /\ Kinds!FlatOK(Adds, flat)
<1>1. flat \in FlatOf(Adds)
  BY DEF TieredInv, TypeOK, TiersType, FlatOf
<1>2. FlatLookupIsInverse
  BY DEF TieredInv
<1>3. QED
  BY <1>1, <1>2, ExactLookup DEF FlatLookupIsInverse

\* And a step that leaves it so keeps the lookup exact.
LEMMA BufferStaysOK ==
  ASSUME Kinds!FlatOK(Adds, flat')
  PROVE  flat' \in FlatOf(Adds) /\ FlatLookupIsInverse'
<1>1. flat' \in FlatOf(Adds)
  BY DEF Kinds!FlatOK, Kinds!FlatOf, FlatOf
<1>2. PICK g \in FlatOf(Adds) : g = flat'
  BY <1>1
<1>3. \A l \in Labels : /\ Range(g.ids[l]) = {i \in 1..Count(g) : g.labels[i] = l}
                        /\ IsInjective(g.ids[l])
                        /\ ~IsMulti => Len(g.ids[l]) <= 1
  BY <1>2, ExactLookup
<1>4. QED
  BY <1>1, <1>2, <1>3 DEF FlatLookupIsInverse, Count

\* A label is in the buffer when some id carries it.
LEMMA LabelsInBuffer ==
  ASSUME TieredInv, NEW l \in Labels
  PROVE  IsLabelExists(flat, l) <=> \E i \in 1..Count(flat) : flat.labels[i] = l
<1>1. PICK s \in Seq(Nat \ {0}) : s = flat.ids[l]
  BY DEF TieredInv, TypeOK, TiersType
<1>2. Range(s) = {i \in 1..Count(flat) : flat.labels[i] = l}
  BY <1>1 DEF TieredInv, FlatLookupIsInverse
<1>3. s # <<>> <=> Range(s) # {}
  <2>1. Len(s) \in Nat /\ DOMAIN s = 1..Len(s) /\ (s = <<>> <=> Len(s) = 0)
    BY LenProperties, EmptySeq
  <2>2. Len(s) # 0 => 1 \in DOMAIN s
    BY <2>1
  <2>3. Range(s) # {} <=> \E i : i \in DOMAIN s
    BY DEF Range
  <2>4. Len(s) = 0 => ~ \E i : i \in DOMAIN s
    BY <2>1
  <2>5. QED
    BY <2>1, <2>2, <2>3, <2>4
<1>4. QED
  BY <1>1, <1>2, <1>3 DEF IsLabelExists

\* In a single-value index one id carries it, and the lookup has just that one.
LEMMA OneId ==
  ASSUME TieredInv, ~IsMulti, NEW l \in Labels, NEW i \in 1..Count(flat), flat.labels[i] = l
  PROVE  flat.ids[l] = <<i>> /\ \A j \in 1..Count(flat) : flat.labels[j] = l => j = i
<1>1. PICK s \in Seq(Nat \ {0}) : s = flat.ids[l]
  BY DEF TieredInv, TypeOK, TiersType
<1>2. Range(s) = {j \in 1..Count(flat) : flat.labels[j] = l} /\ Len(s) <= 1
  BY <1>1 DEF TieredInv, FlatLookupIsInverse
<1>3. Len(s) \in Nat /\ DOMAIN s = 1..Len(s)
  BY LenProperties
<1>4. i \in Range(s)
  BY <1>2
<1>5. \A x \in Range(s) : \E p \in 1..Len(s) : s[p] = x
  BY <1>3 DEF Range
<1>6. Len(s) = 1
  BY <1>2, <1>3, <1>4, <1>5
<1>7. \A x \in Range(s) : s[1] = x
  BY <1>5, <1>6
<1>8. s = <<i>>
  BY <1>4, <1>6, <1>7
<1>9. QED
  BY <1>1, <1>2, <1>4, <1>7, <1>8


\* A list with one more element, which is the only one in a single-value index.
Grown(s, a) == IF IsMulti THEN Append(s, a) ELSE <<a>>

\* A list grows by one element that it does not have yet.
LEMMA ListGrows ==
  ASSUME NEW S, NEW s \in Seq(S), NEW a \in S, IsInjective(s), a \notin Range(s),
         ~IsMulti => s = <<>>
  PROVE  /\ Grown(s, a) \in Seq(S) /\ Grown(s, a) = Append(s, a) /\ Grown(s, a) # <<>>
         /\ Range(Grown(s, a)) = Range(s) \cup {a} /\ IsInjective(Grown(s, a))
         /\ ~IsMulti => Grown(s, a) = <<a>> /\ Len(Grown(s, a)) <= 1
<1>0. PICK t : t = Grown(s, a)
  OBVIOUS
<1>1. t = Append(s, a)
  <2>1. CASE IsMulti
    BY <1>0, <2>1 DEF Grown
  <2>2. CASE ~IsMulti
    <3>1. s = <<>> /\ t = <<a>>
      BY <1>0, <2>2 DEF Grown
    <3>2. QED
      BY <3>1
  <2>3. QED
    BY <2>1, <2>2
<1>2. t \in Seq(S)
  BY <1>1, AppendProperties
<1>3. ~IsMulti => t = <<a>> /\ Len(t) <= 1
  BY <1>1
<1>4. Len(s) \in Nat /\ DOMAIN s = 1..Len(s)
  BY LenProperties
<1>5. /\ Len(t) = Len(s) + 1 /\ t[Len(s) + 1] = a
      /\ \A i \in 1..Len(s) : t[i] = s[i]
  BY <1>1, AppendProperties
<1>6. DOMAIN t = 1..(Len(s) + 1)
  BY <1>2, <1>5, LenProperties
<1>7. \A i \in 1..Len(s) : s[i] # a
  BY <1>4 DEF Range
<1>8. Range(t) = Range(s) \cup {a}
  BY <1>4, <1>5, <1>6 DEF Range
<1>9. IsInjective(t)
  <2>1. \A i, j \in 1..Len(s) : s[i] = s[j] => i = j
    BY <1>4 DEF IsInjective
  <2>2. \A i \in 1..(Len(s) + 1) : i \in 1..Len(s) \/ i = Len(s) + 1
    BY <1>4
  <2>3. \A i, j \in 1..(Len(s) + 1) : t[i] = t[j] => i = j
    BY <2>1, <2>2, <1>5, <1>7
  <2>4. QED
    BY <2>3, <1>6 DEF IsInjective
<1>10. t # <<>>
  BY <1>4, <1>5, EmptySeq
<1>11. QED
  BY <1>0, <1>1, <1>2, <1>3, <1>8, <1>9, <1>10

-----------------------------------------------------------------------------
(* What an action changes and what it leaves alone.                         *)

\* Moving one thread to a program point moves no other.
LEMMA GotoFacts ==
  ASSUME ControlType, NEW t \in Threads, NEW x \in WorkerPc \cup MainPc, Goto(t, x)
  PROVE  /\ pc' \in [Threads -> WorkerPc \cup MainPc]
         /\ pc'[t] = x
         /\ \A s \in Threads : s # t => pc'[s] = pc[s]
BY DEF ControlType, Goto

\* Every vector the callers see is one of the calls' vectors.
LEMMA ResultsType ==
  ASSUME TiersType
  PROVE  /\ FlatResults \subseteq Labels \X Adds
         /\ MainResults \subseteq Labels \X Adds
         /\ \A l \in Labels : Visible(l) \subseteq Adds
<1>1. flat \in FlatOf(Adds)
  BY DEF TiersType, FlatOf
<1>2. FlatResults \subseteq Labels \X Adds
  BY <1>1, CountType DEF FlatResults
<1>3. MainResults \subseteq Labels \X Adds
  BY DEF TiersType, MainResults, Live
<1>4. QED
  BY <1>2, <1>3 DEF Visible

\* The empty index satisfies the inductive invariant.
LEMMA InitInv == Init => TieredInv
<1> SUFFICES ASSUME Init PROVE TieredInv
  OBVIOUS
<1>1. TypeOK
  BY BoundsAssumption, ThreadsAssumption
  DEF Init, EmptyFlat, NoOp, NoQuery, TypeOK, TiersType, JobsType, LocksType,
      ControlType, QueriesType, Threads, WorkerPc, MainPc, Adds
<1>2. FlatLookupIsInverse
  <2>1. \A l \in Labels : flat.ids[l] = <<>> /\ Range(<<>>) = {} /\ IsInjective(<<>>)
    BY DEF Init, EmptyFlat, Range, IsInjective
  <2>2. Count(flat) = 0
    BY DEF Init, EmptyFlat, Count
  <2>3. QED
    BY <2>1, <2>2 DEF FlatLookupIsInverse
<1>12. FlatWithinLimit /\ RoomInFlat
  BY BoundsAssumption, ThreadsAssumption
  DEF Init, EmptyFlat, Count, FlatWithinLimit, RoomInFlat, Threads
<1>3. CallConsistent
  BY ThreadsAssumption DEF Init, NoOp, CallConsistent, Busy, AddOnly, Threads
<1>4. JobsMatchFlat /\ JobListsShort
  BY DEF Init, EmptyFlat, Count, JobsMatchFlat, JobListsShort, ValidJob, HasJob, Range, IsInjective
<1>5. JobsOwned
  BY DEF Init, JobsOwned, HasJob, Submitting, Threads
<1>6. NewIsFresh /\ NotStoredYet
  BY DEF Init, NewIsFresh, NotStoredYet, Fresh, HasJob, BeforeStored, NoOp, Threads
<1>7. LocksHeld /\ CopyIsCurrent
  BY ThreadsAssumption DEF Init, LocksHeld, CopyIsCurrent, Storing, Threads
<1>8. LookupMatchesElements
  BY DEF Init, LookupMatchesElements, Live, Range, IsInjective
<1>9. BufferedNotInHNSW /\ LabelCleared
  BY DEF Init, BufferedNotInHNSW, LabelCleared, EmptyFlat, Count, Threads
<1>10. InvalidJobsTracked /\ InvalidIdsOld
  BY DEF Init, InvalidJobsTracked, InvalidIdsOld, HasJob
<1>11. QED
  BY <1>1, <1>2, <1>3, <1>4, <1>5, <1>6, <1>7, <1>8, <1>9, <1>10, <1>12 DEF TieredInv

-----------------------------------------------------------------------------
(* Calls, and steps of the main thread that only move its program counter.  *)

\* Switching between async and in-place writes between two calls is harmless.
LEMMA SetWriteModeInv == ASSUME TieredInv, SetWriteMode PROVE TieredInv'
<1>1. TypeOK'
  BY DEF TieredInv, TypeOK, TiersType, JobsType, LocksType, ControlType, QueriesType,
         SetWriteMode, tiers, jobs, locks, queries
<1>2. (FlatLookupIsInverse /\ CallConsistent /\ JobsMatchFlat /\ JobListsShort)'
  BY DEF TieredInv, SetWriteMode, tiers, jobs, FlatLookupIsInverse, IsLabelExists, Count,
         CallConsistent, Busy, JobsMatchFlat, ValidJob, HasJob, JobListsShort
<1>3. (JobsOwned /\ NewIsFresh /\ NotStoredYet)'
  BY DEF TieredInv, SetWriteMode, tiers, jobs, JobsOwned, Submitting, HasJob,
         NewIsFresh, Fresh, NotStoredYet
<1>4. (LocksHeld /\ CopyIsCurrent)'
  BY DEF TieredInv, SetWriteMode, tiers, jobs, locks, LocksHeld, Storing,
         CopyIsCurrent, ValidJob, HasJob, AddOf
<1>5. (LookupMatchesElements /\ BufferedNotInHNSW /\ LabelCleared)'
  BY DEF TieredInv, SetWriteMode, tiers, LookupMatchesElements, Live,
         BufferedNotInHNSW, LabelCleared, ClearsLabel, Count, IsLabelExists
<1>6. (InvalidJobsTracked /\ InvalidIdsOld /\ FlatWithinLimit /\ RoomInFlat)'
  BY DEF TieredInv, SetWriteMode, tiers, jobs, InvalidJobsTracked, HasJob,
         InvalidIdsOld, FlatWithinLimit, RoomInFlat, Count
<1>7. QED
  BY <1>1, <1>2, <1>3, <1>4, <1>5, <1>6 DEF TieredInv

\* Queries change nothing but their own results.
LEMMA QueryInv ==
  ASSUME TieredInv, NEW r \in Readers, QueryStart(r) \/ QueryStep(r)
  PROVE  TieredInv'
<1> DEFINE Queries == [pc : {"idle", "flat", "main", "search", "done"},
                       first : SUBSET (Labels \X Adds), second : SUBSET (Labels \X Adds)]
<1>5. /\ FlatResults \subseteq Labels \X Adds /\ MainResults \subseteq Labels \X Adds
      /\ \A n \in {1, 2} : Kept(r, ReadTier(n)) \subseteq Labels \X Adds
  BY ResultsType DEF TieredInv, TypeOK, ReadTier, Kept
<1>6. query \in [Readers -> Queries]
  BY DEF TieredInv, TypeOK, QueriesType
<1>7. /\ query[r].first \subseteq Labels \X Adds
      /\ [pc |-> "flat", first |-> {}, second |-> {}] \in Queries
      /\ [query[r] EXCEPT !.pc = "search"] \in Queries
  BY <1>6
<1>1. QueriesType'
  <2>1. CASE QueryStart(r)
    <3>1. 1..adds \subseteq Adds
      BY BoundsAssumption DEF TieredInv, TypeOK, ControlType, Adds
    <3>2. query' = [query EXCEPT ![r] = [pc |-> "flat", first |-> {}, second |-> {}]]
      BY <2>1 DEF QueryStart
    <3>3. query' \in [Readers -> Queries]
      BY <1>6, <1>7, <3>2
    <3>4. /\ promised'[r] \subseteq Labels \X Adds
          /\ promised' = [promised EXCEPT ![r] = promised'[r]]
      BY <2>1, <1>5 DEF QueryStart, Kept, TieredInv, TypeOK, QueriesType
    <3>5. /\ gone'[r] \subseteq Adds
          /\ gone' = [gone EXCEPT ![r] = gone'[r]]
      BY <2>1, <3>1 DEF QueryStart, Kept, TieredInv, TypeOK, QueriesType
    <3>6. QED
      BY <3>3, <3>4, <3>5 DEF TieredInv, TypeOK, QueriesType
  <2>2. ASSUME NEW q \in Queries, query' = [query EXCEPT ![r] = q], UNCHANGED <<promised, gone>>
        PROVE  QueriesType'
    BY <1>6, <2>2 DEF TieredInv, TypeOK, QueriesType
  <2>3. CASE QueryFlat(r)
    <3>1. PICK q : q = [pc |-> "main", first |-> Kept(r, ReadTier(1)), second |-> {}]
      OBVIOUS
    <3>2. q \in Queries
      BY <1>5, <3>1
    <3>3. QED
      BY <2>2, <2>3, <3>1, <3>2 DEF QueryFlat
  <2>4. CASE QueryLockMain(r)
    BY <1>7, <2>2, <2>4 DEF QueryLockMain
  <2>5. CASE QueryMain(r)
    <3>1. PICK q : q = [pc |-> "done", first |-> query[r].first,
                        second |-> Kept(r, ReadTier(2))]
      OBVIOUS
    <3>2. q \in Queries
      BY <1>5, <1>7, <3>1
    <3>3. QED
      BY <2>2, <2>5, <3>1, <3>2 DEF QueryMain
  <2>6. CASE QueryReturn(r)
    BY <2>6 DEF TieredInv, TypeOK, QueriesType, QueryReturn, NoQuery
  <2>7. QED
    BY <2>1, <2>3, <2>4, <2>5, <2>6 DEF QueryStep
<1>2. UNCHANGED <<tiers, jobs, queue, locks, control>>
  BY DEF QueryStart, QueryStep, QueryFlat, QueryLockMain, QueryMain, QueryReturn
<1>3. TypeOK'
  BY <1>1, <1>2 DEF TieredInv, TypeOK, TiersType, JobsType, LocksType, ControlType,
                    tiers, jobs, locks, control
<1>4. QED
  BY <1>2, <1>3 DEF TieredInv, tiers, jobs, locks, control, FlatLookupIsInverse, IsLabelExists,
     Count, CallConsistent, Busy, JobsMatchFlat, ValidJob, HasJob, JobListsShort, JobsOwned,
     Submitting, NewIsFresh, Fresh, NotStoredYet, LocksHeld, Storing, CopyIsCurrent, AddOf,
     LookupMatchesElements, Live, BufferedNotInHNSW, LabelCleared, ClearsLabel, InvalidJobsTracked, InvalidIdsOld,
     FlatWithinLimit, RoomInFlat

\* A call of addVector brings a number that names nothing yet.
LEMMA StartAddInv ==
  ASSUME TieredInv, NEW l \in Labels, StartAdd(l)
  PROVE  TieredInv'
<1>1. /\ pc[MainThread] = "idle" /\ adds < MaxAdds /\ adds' = adds + 1
      /\ op' = [kind |-> "add", label |-> l, add |-> adds + 1, ret |-> 1,
                before |-> Visible(l)]
      /\ UNCHANGED <<tiers, jobs, queue, locks, writeMode, task, blob, query, gone>>
  BY DEF StartAdd, Busy
<1>2. Count(flat) \in Nat
  BY CountType DEF TieredInv, TypeOK, TiersType, FlatOf
<1>3. PICK x \in {"del_flat", "add_flat", "add_inplace", "recheck"} :
         /\ Goto(MainThread, x)
         /\ x = "add_flat" => Count(flat) < FlatLimit
         /\ x \in {"add_inplace", "recheck"} => IsMulti
  BY <1>2, BoundsAssumption DEF StartAdd, TieredInv, TypeOK, ControlType
<1>4. /\ pc' \in [Threads -> WorkerPc \cup MainPc] /\ pc'[MainThread] = x
      /\ \A w \in Workers : pc'[w] = pc[w]
  BY <1>3, GotoFacts, ThreadsAssumption
  DEF TieredInv, TypeOK, ControlType, Threads, MainPc
<1>5. adds \in Nat /\ adds' \in Adds
  BY <1>1, BoundsAssumption DEF TieredInv, TypeOK, ControlType, Adds
<1>6. TypeOK'
  <2>1. Visible(l) \subseteq Adds
    BY ResultsType DEF TieredInv, TypeOK
  <2>2. ControlType'
    BY <1>1, <1>3, <1>4, <1>5, <2>1 DEF TieredInv, TypeOK, ControlType, Adds, MainPc
  <2>3. QueriesType'
    <3>1. CASE IsMulti
      BY <1>1, <3>1 DEF TieredInv, TypeOK, QueriesType, StartAdd
    <3>2. CASE ~IsMulti
      BY <1>1, <3>2 DEF TieredInv, TypeOK, QueriesType, StartAdd, EndPromises
    <3>3. QED
      BY <3>1, <3>2
  <2>4. QED
    BY <1>1, <2>2, <2>3 DEF TieredInv, TypeOK, TiersType, JobsType, LocksType,
                            tiers, jobs, locks
<1>7. (FlatLookupIsInverse /\ JobsMatchFlat /\ JobListsShort)'
  BY <1>1 DEF TieredInv, tiers, jobs, FlatLookupIsInverse, IsLabelExists, Count,
              JobsMatchFlat, ValidJob, HasJob, JobListsShort
<1>8. CallConsistent'
  BY <1>1, <1>4, <1>5 DEF CallConsistent
<1>9. (JobsOwned /\ NotStoredYet)'
  BY <1>1, <1>3, <1>4 DEF TieredInv, tiers, jobs, JobsOwned, Submitting, HasJob, NotStoredYet
<1>10. NewIsFresh'
  <2>1. \A a \in Adds : a > adds => Fresh(a)
    BY DEF TieredInv, NewIsFresh
  <2>2. \A a \in Adds : a > adds => Fresh(a)'
    BY <2>1, <1>1 DEF Fresh, tiers, jobs
  <2>3. \A a \in Adds : a > adds' => a > adds
    BY <1>1, <1>5 DEF Adds
  <2>4. Fresh(op.add)'
    BY <1>1, <1>5, <2>2
  <2>5. QED
    BY <1>3, <1>4, <2>2, <2>3, <2>4 DEF NewIsFresh
<1>11. (LocksHeld /\ CopyIsCurrent)'
  BY <1>1, <1>3, <1>4 DEF TieredInv, tiers, jobs, locks, Threads, LocksHeld, Storing,
                          CopyIsCurrent, ValidJob, HasJob, AddOf
<1>12. (LookupMatchesElements /\ BufferedNotInHNSW /\ LabelCleared)'
  BY <1>1, <1>3, <1>4 DEF TieredInv, tiers, LookupMatchesElements, Live,
                          BufferedNotInHNSW, LabelCleared, ClearsLabel, Count, IsLabelExists
<1>13. (InvalidJobsTracked /\ InvalidIdsOld /\ FlatWithinLimit /\ RoomInFlat)'
  BY <1>1, <1>3, <1>4 DEF TieredInv, tiers, jobs, InvalidJobsTracked, HasJob,
                          InvalidIdsOld, FlatWithinLimit, RoomInFlat, Count
<1>14. QED
  BY <1>6, <1>7, <1>8, <1>9, <1>10, <1>11, <1>12, <1>13 DEF TieredInv

\* A call of deleteVector starts.
LEMMA StartDeleteInv ==
  ASSUME TieredInv, NEW l \in Labels, StartDelete(l)
  PROVE  TieredInv'
<1>1. /\ pc[MainThread] = "idle"
      /\ op' = [kind |-> "delete", label |-> l, add |-> 0, ret |-> 0,
                before |-> Visible(l)]
      /\ Goto(MainThread, "del_flat")
      /\ UNCHANGED <<tiers, jobs, queue, locks, writeMode, task, blob, adds, query, gone>>
  BY DEF StartDelete, Busy
<1>2. /\ pc' \in [Threads -> WorkerPc \cup MainPc] /\ pc'[MainThread] = "del_flat"
      /\ \A w \in Workers : pc'[w] = pc[w]
  BY <1>1, GotoFacts, ThreadsAssumption DEF TieredInv, TypeOK, Threads, MainPc
<1>3. TypeOK'
  <2>1. Visible(l) \subseteq Adds
    BY ResultsType DEF TieredInv, TypeOK
  <2>2. ControlType'
    BY <1>1, <1>2, <2>1, BoundsAssumption DEF TieredInv, TypeOK, ControlType, MainPc
  <2>3. QueriesType'
    BY <1>1 DEF TieredInv, TypeOK, QueriesType, StartDelete, EndPromises
  <2>4. QED
    BY <1>1, <2>2, <2>3 DEF TieredInv, TypeOK, TiersType, JobsType, LocksType,
                            tiers, jobs, locks
<1>4. (FlatLookupIsInverse /\ CallConsistent /\ JobsMatchFlat /\ JobListsShort)'
  BY <1>1, <1>2 DEF TieredInv, tiers, jobs, FlatLookupIsInverse, IsLabelExists, Count,
              CallConsistent, AddOnly, JobsMatchFlat, ValidJob, HasJob, JobListsShort
<1>5. (JobsOwned /\ NewIsFresh /\ NotStoredYet)'
  BY <1>1, <1>2 DEF TieredInv, tiers, jobs, JobsOwned, Submitting, HasJob, NewIsFresh,
                    Fresh, NotStoredYet
<1>6. (LocksHeld /\ CopyIsCurrent)'
  BY <1>1, <1>2 DEF TieredInv, tiers, jobs, locks, Threads, LocksHeld, Storing,
                    CopyIsCurrent, ValidJob, HasJob, AddOf
<1>7. (LookupMatchesElements /\ BufferedNotInHNSW /\ LabelCleared)'
  BY <1>1, <1>2 DEF TieredInv, tiers, LookupMatchesElements, Live,
                    BufferedNotInHNSW, LabelCleared, ClearsLabel, Count, IsLabelExists
<1>8. (InvalidJobsTracked /\ InvalidIdsOld /\ FlatWithinLimit /\ RoomInFlat)'
  BY <1>1, <1>2 DEF TieredInv, tiers, jobs, InvalidJobsTracked, HasJob,
                    InvalidIdsOld, FlatWithinLimit, RoomInFlat, Count
<1>9. QED
  BY <1>3, <1>4, <1>5, <1>6, <1>7, <1>8 DEF TieredInv

\* deleteVector looks for the label under the shared flat lock; only the main
\* thread adds, so a label that is absent stays absent.
LEMMA DeleteCheckFlatInv == ASSUME TieredInv, DeleteCheckFlat PROVE TieredInv'
<1>1. /\ pc[MainThread] = "del_flat"
      /\ UNCHANGED <<tiers, jobs, queue, locks, writeMode, op, task, blob, adds, queries>>
  BY DEF DeleteCheckFlat
<1>2. PICK x \in {"del_flat_x", "del_hnsw"} :
         Goto(MainThread, x) /\ (x = "del_hnsw" => ~IsLabelExists(flat, op.label))
  BY DEF DeleteCheckFlat
<1>3. /\ pc' \in [Threads -> WorkerPc \cup MainPc] /\ pc'[MainThread] = x
      /\ \A w \in Workers : pc'[w] = pc[w]
  BY <1>2, GotoFacts, ThreadsAssumption DEF TieredInv, TypeOK, Threads, MainPc
<1>4. TypeOK'
  BY <1>1, <1>2, <1>3 DEF TieredInv, TypeOK, TiersType, JobsType, LocksType, ControlType,
                    QueriesType, tiers, jobs, locks, queries, MainPc
<1>5. (FlatLookupIsInverse /\ CallConsistent /\ JobsMatchFlat /\ JobListsShort)'
  BY <1>1, <1>2, <1>3 DEF TieredInv, tiers, jobs, FlatLookupIsInverse, IsLabelExists, Count,
              CallConsistent, AddOnly, Busy, JobsMatchFlat, ValidJob, HasJob, JobListsShort
<1>6. (JobsOwned /\ NewIsFresh /\ NotStoredYet)'
  BY <1>1, <1>2, <1>3 DEF TieredInv, tiers, jobs, JobsOwned, Submitting, HasJob,
                    NewIsFresh, BeforeStored, Fresh, NotStoredYet
<1>7. (LocksHeld /\ CopyIsCurrent)'
  BY <1>1, <1>2, <1>3 DEF TieredInv, tiers, jobs, locks, Threads, LocksHeld, Storing,
                    CopyIsCurrent, ValidJob, HasJob, AddOf
<1>8. (LookupMatchesElements /\ BufferedNotInHNSW /\ LabelCleared)'
  BY <1>1, <1>2, <1>3 DEF TieredInv, tiers, LookupMatchesElements, Live,
                    BufferedNotInHNSW, LabelCleared, ClearsLabel, Count, IsLabelExists
<1>9. (InvalidJobsTracked /\ InvalidIdsOld /\ FlatWithinLimit /\ RoomInFlat)'
  BY <1>1, <1>2, <1>3 DEF TieredInv, tiers, jobs, InvalidJobsTracked, HasJob,
                    InvalidIdsOld, FlatWithinLimit, RoomInFlat, Count
<1>10. QED
  BY <1>4, <1>5, <1>6, <1>7, <1>8, <1>9 DEF TieredInv

\* addVector finds the buffer full and stores to HNSW, or finds room.
LEMMA RecheckFlatLimitInv == ASSUME TieredInv, RecheckFlatLimit PROVE TieredInv'
<1>1. /\ pc[MainThread] = "recheck" /\ op.kind = "add" /\ op.add \in Adds
      /\ UNCHANGED <<tiers, jobs, queue, locks, writeMode, op, task, adds, queries>>
  BY DEF RecheckFlatLimit, TieredInv, CallConsistent, AddOnly
<1>2. PICK x \in {"store", "add_flat"} :
         /\ Goto(MainThread, x)
         /\ x = "store" => blob' = [blob EXCEPT ![MainThread] = op.add]
         /\ x = "add_flat" => Count(flat) < FlatLimit /\ blob' = blob
  <2>1. Count(flat) \in Nat
    BY CountType DEF TieredInv, TypeOK, TiersType, FlatOf
  <2>2. QED
    BY <2>1, BoundsAssumption DEF RecheckFlatLimit
<1>3. /\ pc' \in [Threads -> WorkerPc \cup MainPc] /\ pc'[MainThread] = x
      /\ \A w \in Workers : pc'[w] = pc[w]
  BY <1>2, GotoFacts, ThreadsAssumption DEF TieredInv, TypeOK, Threads, MainPc
<1>4. /\ blob' \in [Threads -> Adds \cup {NoBlob}]
      /\ x = "store" => blob'[MainThread] = op.add
      /\ \A w \in Workers : blob'[w] = blob[w]
  BY <1>1, <1>2, ThreadsAssumption DEF TieredInv, TypeOK, ControlType, Threads
<1>5. TypeOK'
  BY <1>1, <1>3, <1>4 DEF TieredInv, TypeOK, TiersType, JobsType, LocksType, ControlType,
                    QueriesType, tiers, jobs, locks, queries, MainPc
<1>6. (FlatLookupIsInverse /\ CallConsistent /\ JobsMatchFlat /\ JobListsShort)'
  BY <1>1, <1>2, <1>3 DEF TieredInv, tiers, jobs, FlatLookupIsInverse, IsLabelExists, Count,
              CallConsistent, AddOnly, Busy, JobsMatchFlat, ValidJob, HasJob, JobListsShort
<1>7. (JobsOwned /\ NewIsFresh /\ NotStoredYet)'
  BY <1>1, <1>2, <1>3 DEF TieredInv, tiers, jobs, JobsOwned, Submitting, HasJob,
                    NewIsFresh, BeforeStored, Fresh, NotStoredYet
<1>8. (LocksHeld /\ CopyIsCurrent)'
  BY <1>1, <1>2, <1>3, <1>4 DEF TieredInv, tiers, jobs, locks, Threads, LocksHeld, Storing,
                    CopyIsCurrent, ValidJob, HasJob, AddOf
<1>9. (LookupMatchesElements /\ BufferedNotInHNSW /\ LabelCleared)'
  BY <1>1, <1>2, <1>3 DEF TieredInv, tiers, LookupMatchesElements, Live,
                    BufferedNotInHNSW, LabelCleared, ClearsLabel, Count, IsLabelExists
<1>10. (InvalidJobsTracked /\ InvalidIdsOld /\ FlatWithinLimit /\ RoomInFlat)'
  BY <1>1, <1>2, <1>3 DEF TieredInv, tiers, jobs, InvalidJobsTracked, HasJob,
                    InvalidIdsOld, FlatWithinLimit, RoomInFlat, Count
<1>11. QED
  BY <1>5, <1>6, <1>7, <1>8, <1>9, <1>10 DEF TieredInv

-----------------------------------------------------------------------------
(* Jobs change hands.                                                       *)

\* The job passes from the main thread to the queue.
LEMMA SubmitInsertJobInv == ASSUME TieredInv, SubmitInsertJob PROVE TieredInv'
<1>1. /\ pc[MainThread] = "submit" /\ op.kind = "add" /\ op.add \in Adds
      /\ Goto(MainThread, "idle") /\ queue' = queue \cup {op.add}
      /\ UNCHANGED <<tiers, jobs, locks, writeMode, op, task, blob, adds, queries>>
  BY DEF SubmitInsertJob, TieredInv, CallConsistent, AddOnly
<1>2. /\ pc' \in [Threads -> WorkerPc \cup MainPc] /\ pc'[MainThread] = "idle"
      /\ \A w \in Workers : pc'[w] = pc[w]
  BY <1>1, GotoFacts, ThreadsAssumption DEF TieredInv, TypeOK, Threads, MainPc
<1>3. TypeOK'
  BY <1>1, <1>2 DEF TieredInv, TypeOK, TiersType, JobsType, LocksType, ControlType,
                    QueriesType, tiers, jobs, locks, queries, MainPc
<1>4. (FlatLookupIsInverse /\ CallConsistent /\ JobsMatchFlat /\ JobListsShort)'
  BY <1>1, <1>2 DEF TieredInv, tiers, jobs, FlatLookupIsInverse, IsLabelExists, Count,
              CallConsistent, AddOnly, Busy, JobsMatchFlat, ValidJob, HasJob, JobListsShort
<1>5. JobsOwned'
  BY <1>1, <1>2 DEF TieredInv, jobs, JobsOwned, Submitting, HasJob
<1>6. (NewIsFresh /\ NotStoredYet)'
  BY <1>1, <1>2 DEF TieredInv, tiers, jobs, HasJob, NewIsFresh, BeforeStored, Fresh,
                    NotStoredYet
<1>7. (LocksHeld /\ CopyIsCurrent)'
  BY <1>1, <1>2 DEF TieredInv, tiers, jobs, locks, Threads, LocksHeld, Storing,
                    CopyIsCurrent, ValidJob, HasJob, AddOf
<1>8. (LookupMatchesElements /\ BufferedNotInHNSW /\ LabelCleared)'
  BY <1>1, <1>2 DEF TieredInv, tiers, LookupMatchesElements, Live,
                    BufferedNotInHNSW, LabelCleared, ClearsLabel, Count, IsLabelExists
<1>9. (InvalidJobsTracked /\ InvalidIdsOld /\ FlatWithinLimit /\ RoomInFlat)'
  BY <1>1, <1>2 DEF TieredInv, tiers, jobs, InvalidJobsTracked, HasJob,
                    InvalidIdsOld, FlatWithinLimit, RoomInFlat, Count
<1>10. QED
  BY <1>3, <1>4, <1>5, <1>6, <1>7, <1>8, <1>9 DEF TieredInv

\* The job passes from the queue to a worker.
LEMMA TakeJobInv ==
  ASSUME TieredInv, NEW w \in Workers, NEW a \in Adds, TakeJob(w, a)
  PROVE  TieredInv'
<1>1. /\ pc[w] = "idle" /\ a \in queue /\ queue' = queue \ {a}
      /\ task' = [task EXCEPT ![w] = a] /\ Goto(w, "check")
      /\ UNCHANGED <<tiers, jobs, locks, writeMode, op, blob, adds, queries>>
  BY DEF TakeJob
<1>2. /\ pc' \in [Threads -> WorkerPc \cup MainPc] /\ pc'[w] = "check"
      /\ pc'[MainThread] = pc[MainThread]
      /\ \A v \in Workers : v # w => pc'[v] = pc[v]
  BY <1>1, GotoFacts, ThreadsAssumption DEF TieredInv, TypeOK, Threads, WorkerPc
<1>3. /\ task' \in [Workers -> Adds \cup {NoJob}] /\ task'[w] = a
      /\ \A v \in Workers : v # w => task'[v] = task[v]
  BY <1>1 DEF TieredInv, TypeOK, ControlType
<1>4. TypeOK'
  BY <1>1, <1>2, <1>3 DEF TieredInv, TypeOK, TiersType, JobsType, LocksType, ControlType,
                    QueriesType, tiers, jobs, locks, queries, WorkerPc
<1>5. (FlatLookupIsInverse /\ CallConsistent /\ JobsMatchFlat /\ JobListsShort)'
  BY <1>1, <1>2 DEF TieredInv, tiers, jobs, FlatLookupIsInverse, IsLabelExists, Count,
              CallConsistent, AddOnly, Busy, JobsMatchFlat, ValidJob, HasJob, JobListsShort
<1>6. JobsOwned'
  <2>1. task[w] = NoJob /\ a # NoJob /\ HasJob(a) /\ \A v \in Workers : task[v] # a
    BY <1>1, AbsentAssumption DEF TieredInv, JobsOwned
  <2>2. (Submitting <=> Submitting') /\ (Submitting => op.add # a) /\ op' = op
    BY <1>1, <1>2 DEF TieredInv, JobsOwned, Submitting
  <2>3. \A b \in Adds : HasJob(b) <=> HasJob(b)'
    BY <1>1 DEF HasJob, jobs
  <2>4. (\A v \in Workers : pc[v] = "idle" <=> task[v] = NoJob)'
    BY <1>2, <1>3, <2>1 DEF TieredInv, JobsOwned
  <2>5. (\A v \in Workers : task[v] # NoJob => HasJob(task[v]) /\ task[v] \notin queue)'
    BY <1>1, <1>3, <2>1, <2>3 DEF TieredInv, JobsOwned, TypeOK, ControlType
  <2>6. (\A v, u \in Workers : task[v] = task[u] /\ task[u] # NoJob => v = u)'
    BY <1>3, <2>1 DEF TieredInv, JobsOwned
  <2>7. (\A b \in queue : HasJob(b))'
    BY <1>1, <2>3 DEF TieredInv, JobsOwned, TypeOK, JobsType
  <2>8. (Submitting => /\ HasJob(op.add) /\ op.add \notin queue
                       /\ \A v \in Workers : task[v] # op.add)'
    BY <1>1, <1>3, <2>2 DEF TieredInv, JobsOwned, jobs, HasJob
  <2>9. (\A b \in Adds : HasJob(b) => \/ b \in queue \/ \E v \in Workers : task[v] = b
                                      \/ Submitting /\ op.add = b)'
    <3> SUFFICES ASSUME NEW b \in Adds, HasJob(b)', b \notin queue', ~(Submitting /\ op.add = b)'
                 PROVE  \E v \in Workers : task'[v] = b
      OBVIOUS
    <3>1. CASE b = a
      BY <3>1, <1>3
    <3>2. CASE b # a
      <4>1. PICK v \in Workers : task[v] = b
        BY <3>2, <1>1, <2>2, <2>3 DEF TieredInv, JobsOwned
      <4>2. v # w
        BY <4>1, <2>1, AbsentAssumption
      <4>3. QED
        BY <4>1, <4>2, <1>3
    <3>3. QED
      BY <3>1, <3>2
  <2>10. QED
    BY <2>4, <2>5, <2>6, <2>7, <2>8, <2>9 DEF JobsOwned
<1>7. (NewIsFresh /\ NotStoredYet)'
  <2>1. NewIsFresh'
    BY <1>1, <1>2 DEF TieredInv, tiers, jobs, NewIsFresh, Fresh
  <2>2. NotStoredYet'
    BY <1>1, <1>2, <1>3 DEF TieredInv, tiers, jobs, HasJob, NotStoredYet
  <2>3. QED
    BY <2>1, <2>2
<1>8. LocksHeld'
  BY <1>1, <1>2 DEF TieredInv, locks, Threads, LocksHeld, Storing
<1>9. CopyIsCurrent'
  BY <1>1, <1>2, <1>3, ThreadsAssumption
  DEF TieredInv, tiers, jobs, Threads, CopyIsCurrent, ValidJob, HasJob, AddOf
<1>10. (LookupMatchesElements /\ LabelCleared)'
  BY <1>1, <1>2 DEF TieredInv, tiers, LookupMatchesElements, Live, LabelCleared, ClearsLabel, IsLabelExists
<1>11. BufferedNotInHNSW'
  BY <1>1, <1>2, <1>3 DEF TieredInv, tiers, BufferedNotInHNSW, Count
<1>12. (InvalidJobsTracked /\ InvalidIdsOld /\ FlatWithinLimit /\ RoomInFlat)'
  BY <1>1, <1>2 DEF TieredInv, tiers, jobs, InvalidJobsTracked, HasJob,
                    InvalidIdsOld, FlatWithinLimit, RoomInFlat, Count
<1>13. QED
  BY <1>4, <1>5, <1>6, <1>7, <1>8, <1>9, <1>10, <1>11, <1>12 DEF TieredInv

-----------------------------------------------------------------------------
(* insertVectorToHNSW.                                                      *)

\* Who is about to store brings a vector that has no element yet, in a
\* single-value index under a label that has nothing in HNSW ("overwrite should
\* not occur").
LEMMA StoringFacts ==
  ASSUME TieredInv, NEW t \in Threads, Storing(t)
  PROVE  /\ AddOf(t) \in Adds /\ LabelOf(t) \in Labels /\ blob[t] \in Adds
         /\ element[AddOf(t)] = NoElement
         /\ ~IsMulti => lookup[LabelOf(t)] = <<>>
         /\ AddOf(t) <= adds
         /\ t \in Workers => /\ HasJob(task[t])
                             /\ \E i \in 1..Count(flat) : /\ flat.vectors[i] = task[t]
                                                          /\ flat.labels[i] = LabelOf(t)
         /\ t = MainThread => /\ Fresh(op.add)
                              /\ ~IsMulti => ~IsLabelExists(flat, op.label)
<1>1. blob[t] \in Adds
  BY DEF TieredInv, LocksHeld
<1>2. CASE t = MainThread
  <2>1. op.kind = "add" /\ op.add = adds /\ op.add \in Adds /\ op.label \in Labels
    BY <1>2 DEF TieredInv, CallConsistent, Storing, AddOnly
  <2>2. Fresh(op.add)
    BY <1>2, <2>1 DEF TieredInv, NewIsFresh, Storing, BeforeStored
  <2>3. ~IsMulti => lookup[op.label] = <<>> /\ ~IsLabelExists(flat, op.label)
    BY <1>2 DEF TieredInv, LabelCleared, ClearsLabel, Storing
  <2>4. QED
    BY <1>1, <1>2, <2>1, <2>2, <2>3, ThreadsAssumption DEF AddOf, LabelOf, Fresh, Adds
<1>3. CASE t \in Workers
  <2> DEFINE a == task[t]
             l == job[a].label
  <2>1. ValidJob(a) /\ a \in Adds
    <3>1. a # NoJob
      BY <1>3 DEF TieredInv, JobsOwned, Storing
    <3>2. QED
      BY <1>3, <3>1 DEF TieredInv, CopyIsCurrent, Storing, TypeOK, ControlType
  <2>2. l \in Labels
    BY <2>1 DEF TieredInv, TypeOK, JobsType, ValidJob, HasJob
  <2>3. PICK i \in 1..Count(flat) : flat.vectors[i] = a /\ flat.labels[i] = l
    BY <2>1 DEF TieredInv, JobsMatchFlat
  <2>4. ~ \E w \in Workers : task[w] = a /\ pc[w] \in {"index", "finish"}
    BY <1>3, <2>1, AbsentAssumption DEF TieredInv, JobsOwned, Storing
  <2>5. element[a] = NoElement
    BY <2>1, <2>4 DEF TieredInv, NotStoredYet, ValidJob
  <2>6. ~(Submitting /\ op.add = a)
    BY <1>3 DEF TieredInv, JobsOwned
  <2>7. ~IsMulti => lookup[l] = <<>>
    BY <2>3, <2>4, <2>6 DEF TieredInv, BufferedNotInHNSW, Submitting
  <2>8. a <= adds
    BY <2>1 DEF TieredInv, NewIsFresh, Fresh, ValidJob, HasJob, Adds, TypeOK, ControlType
  <2>9. t # MainThread
    BY <1>3, ThreadsAssumption
  <2>10. QED
    BY <1>1, <2>1, <2>2, <2>3, <2>5, <2>7, <2>8, <2>9 DEF AddOf, LabelOf, ValidJob
<1>4. QED
  BY <1>2, <1>3 DEF Threads

\* Storing: the vector of the job, or of the call, becomes an element in process,
\* in a single-value index the only one that is live under its label.
LEMMA StoreInv ==
  ASSUME TieredInv, NEW t \in Threads, StoreShared(t) \/ StoreExclusive(t)
  PROVE  TieredInv'
<1>1. Storing(t)
  BY DEF StoreShared, StoreExclusive, Storing
<1>2. PICK a \in Adds, l \in Labels, v \in Adds :
         a = AddOf(t) /\ l = LabelOf(t) /\ v = blob[t]
  BY <1>1, StoringFacts
<1> DEFINE e == [label |-> l, vec |-> v, inProcess |-> TRUE, deleted |-> FALSE]
<1>3. /\ Storing(t) /\ Goto(t, "index") /\ flatReaders' = flatReaders \ {t}
      /\ element' = [element EXCEPT ![a] = e]
      /\ lookup' = [lookup EXCEPT ![l] = IF IsMulti THEN Append(@, a) ELSE <<a>>]
      /\ UNCHANGED <<flat, jobs, queue, writeMode, op, task, blob, adds, queries>>
  BY <1>1, <1>2 DEF StoreShared, StoreExclusive, StoreAndReleaseFlat, StoreElement
<1>4. a <= adds /\ element[a] = NoElement /\ (~IsMulti => lookup[l] = <<>>)
  BY <1>1, <1>2, StoringFacts
<1>5. t \in Workers => /\ HasJob(a)
                       /\ \E i \in 1..Count(flat) : /\ flat.vectors[i] = a
                                                    /\ flat.labels[i] = l
  BY <1>1, <1>2, StoringFacts, ThreadsAssumption DEF AddOf
<1>6. t = MainThread => /\ a = op.add /\ l = op.label /\ Fresh(a)
                        /\ ~IsMulti => ~IsLabelExists(flat, op.label)
  BY <1>1, <1>2, StoringFacts DEF AddOf, LabelOf
<1>7. t \in Workers => t # MainThread /\ a = task[t]
  BY <1>2, ThreadsAssumption DEF AddOf
<1> HIDE DEF e
<1>8. /\ pc' \in [Threads -> WorkerPc \cup MainPc] /\ pc'[t] = "index"
      /\ \A s \in Threads : s # t => pc'[s] = pc[s]
  BY <1>3, GotoFacts DEF TieredInv, TypeOK, MainPc
<1>9. /\ e \in [label : Labels, vec : Adds, inProcess : BOOLEAN, deleted : BOOLEAN]
      /\ e # NoElement /\ e.label = l /\ e.inProcess = TRUE /\ e.deleted = FALSE
  <2>1. e \in [label : Labels, vec : Adds, inProcess : BOOLEAN, deleted : BOOLEAN]
    BY <1>2 DEF e
  <2>2. QED
    BY <2>1, AbsentAssumption DEF e
<1>10. /\ element'[a] = e /\ \A b \in Adds : b # a => element'[b] = element[b]
      /\ element' \in [Adds -> {NoElement} \cup
            [label : Labels, vec : Adds, inProcess : BOOLEAN, deleted : BOOLEAN]]
  BY <1>3, <1>4, <1>9 DEF TieredInv, TypeOK, TiersType
<1>11. /\ lookup'[l] \in Seq(Adds) /\ lookup'[l] # <<>>
       /\ Range(lookup'[l]) = Range(lookup[l]) \cup {a} /\ IsInjective(lookup'[l])
       /\ ~IsMulti => lookup'[l] = <<a>> /\ Len(lookup'[l]) <= 1
       /\ \A k \in Labels : k # l => lookup'[k] = lookup[k]
       /\ lookup' \in [Labels -> Seq(Adds)]
  <2>1. PICK s \in Seq(Adds) : s = lookup[l]
    BY DEF TieredInv, TypeOK, TiersType
  <2>2. a \notin Range(s) /\ IsInjective(s)
    BY <2>1, <1>4 DEF TieredInv, LookupMatchesElements, Live
  <2>8. ~IsMulti => s = <<>>
    BY <2>1, <1>4
  <2>3. PICK t1 : t1 = Grown(s, a)
    OBVIOUS
  <2>4. /\ t1 \in Seq(Adds) /\ t1 # <<>> /\ Range(t1) = Range(s) \cup {a}
        /\ IsInjective(t1) /\ (~IsMulti => t1 = <<a>> /\ Len(t1) <= 1)
    BY <2>2, <2>3, <2>8, ListGrows
  <2>5. lookup' = [lookup EXCEPT ![l] = t1]
    BY <1>3, <2>1, <2>3 DEF Grown
  <2>6. lookup \in [Labels -> Seq(Adds)]
    BY DEF TieredInv, TypeOK, TiersType
  <2>7. QED
    BY <2>1, <2>3, <2>4, <2>5, <2>6
<1>12. /\ mainReaders' \subseteq Threads /\ mainWriter' \in Threads \cup {NoThread}
       /\ t \in mainReaders' \/ mainWriter' = t
       /\ \A s \in Threads : s # t =>
             (s \in mainReaders' \/ mainWriter' = s <=> s \in mainReaders \/ mainWriter = s)
       /\ dataGuard' \in {NoThread, t}
  BY ThreadsAssumption DEF StoreShared, StoreExclusive, StoreAndReleaseFlat, MainShareable,
                           MainLockable, TieredInv, TypeOK, LocksType
<1>13. TypeOK'
  <2>1. TiersType'
    BY <1>3, <1>10, <1>11 DEF TieredInv, TypeOK, TiersType
  <2>2. LocksType'
    BY <1>3, <1>12 DEF TieredInv, TypeOK, LocksType
  <2>3. ControlType'
    BY <1>3, <1>8 DEF TieredInv, TypeOK, ControlType, Threads, WorkerPc, MainPc
  <2>4. QED
    BY <1>3, <2>1, <2>2, <2>3 DEF TieredInv, TypeOK, JobsType, QueriesType, jobs, queries
<1>14. (FlatLookupIsInverse /\ JobsMatchFlat /\ JobListsShort)'
  BY <1>3 DEF TieredInv, jobs, FlatLookupIsInverse, IsLabelExists, Count, JobsMatchFlat,
              ValidJob, HasJob, JobListsShort
<1>15. CallConsistent'
  BY <1>3, <1>8, ThreadsAssumption
  DEF TieredInv, CallConsistent, AddOnly, Busy, Storing, Threads
<1>16. JobsOwned'
  <2>1. Submitting <=> Submitting'
    <3>1. CASE t = MainThread
      BY <3>1, <1>3, <1>8 DEF Storing, Submitting
    <3>2. CASE t # MainThread
      BY <3>2, <1>8 DEF Submitting, Threads
    <3>3. QED
      BY <3>1, <3>2
  <2>2. \A w \in Workers : pc[w] = "idle" <=> pc'[w] = "idle"
    BY <1>3, <1>8 DEF Storing, Threads
  <2>3. QED
    BY <1>3, <2>1, <2>2 DEF TieredInv, jobs, JobsOwned, Submitting, HasJob
<1>17. NewIsFresh'
  <2>1. \A b \in Adds : b # a /\ Fresh(b) => Fresh(b)'
    BY <1>3, <1>10 DEF Fresh, jobs
  <2>2. ~(a > adds)
    BY <1>4 DEF TieredInv, TypeOK, ControlType, Adds
  <2>3. CASE t = MainThread
    BY <2>1, <2>2, <2>3, <1>3, <1>6, <1>8
    DEF TieredInv, NewIsFresh, Fresh, jobs, BeforeStored, Threads
  <2>4. CASE t \in Workers
    <3>1. pc'[MainThread] = pc[MainThread] /\ ~Fresh(a)
      BY <2>4, <1>5, <1>7, <1>8 DEF Threads, Fresh, HasJob
    <3>2. op.kind = "add" /\ pc[MainThread] \in BeforeStored => Fresh(op.add)' /\ op.add \in Adds
      BY <2>1, <3>1, <1>3 DEF TieredInv, NewIsFresh, CallConsistent
    <3>3. QED
      BY <2>1, <2>2, <3>1, <3>2, <1>3 DEF TieredInv, NewIsFresh, jobs
  <2>5. QED
    BY <2>3, <2>4 DEF Threads
<1>18. NotStoredYet'
  <2> SUFFICES ASSUME NEW b \in Adds, HasJob(b)', element'[b] # NoElement
               PROVE  \E w \in Workers : task'[w] = b /\ pc'[w] \in {"index", "finish"}
    BY DEF NotStoredYet
  <2>1. HasJob(b)
    BY <1>3 DEF HasJob, jobs
  <2>2. CASE b = a
    <3>1. t # MainThread
      BY <2>1, <2>2, <1>6 DEF Fresh, HasJob
    <3>2. QED
      BY <2>2, <3>1, <1>3, <1>7, <1>8 DEF Threads
  <2>3. CASE b # a
    <3>1. PICK w \in Workers : task[w] = b /\ pc[w] \in {"index", "finish"}
      BY <2>1, <2>3, <1>10 DEF TieredInv, NotStoredYet
    <3>2. w # t
      BY <3>1, <1>3 DEF Storing
    <3>3. QED
      BY <3>1, <3>2, <1>3, <1>8 DEF Threads
  <2>4. QED
    BY <2>2, <2>3
<1>19. LocksHeld'
  <2>1. \A w \in Workers : Storing(w)' <=> w \in flatReaders'
    BY <1>3, <1>8 DEF TieredInv, LocksHeld, Storing, Threads
  <2>2. \A s \in Threads : (pc[s] = "index" <=> s \in mainReaders \/ mainWriter = s)'
    BY <1>8, <1>12 DEF TieredInv, LocksHeld
  <2>3. \A s \in Threads : Storing(s)' => blob'[s] \in Adds
    BY <1>3, <1>8 DEF TieredInv, LocksHeld, Storing
  <2>4. \A s \in Threads : dataGuard' = s => pc'[s] = "index"
    BY <1>8, <1>12, ThreadsAssumption
  <2>5. QED
    BY <2>1, <2>2, <2>3, <2>4 DEF LocksHeld
<1>20. CopyIsCurrent'
  <2>1. ASSUME NEW w \in Workers, pc'[w] \in {"store", "store_x"}
        PROVE  (ValidJob(task[w]) /\ flat.vectors[job[task[w]].id] = blob[w])'
    <3>1. w # t
      BY <2>1, <1>8
    <3>2. QED
      BY <2>1, <3>1, <1>3, <1>8
      DEF TieredInv, CopyIsCurrent, ValidJob, HasJob, jobs, Threads
  <2>2. ASSUME NEW s \in Threads, pc'[s] = "index"
        PROVE  (element[AddOf(s)] # NoElement /\ element[AddOf(s)].inProcess)'
    <3>1. AddOf(s)' = AddOf(s)
      BY <1>3 DEF AddOf
    <3>2. CASE AddOf(s) = a
      BY <3>1, <3>2, <1>9, <1>10
    <3>3. CASE AddOf(s) # a
      <4>1. s # t /\ pc[s] = "index"
        BY <2>2, <3>3, <1>8, <1>2
      <4>2. AddOf(s) \in Adds
        BY <4>1 DEF TieredInv, AddOf, Threads, CallConsistent, AddOnly, JobsOwned, TypeOK,
                    ControlType
      <4>3. QED
        BY <3>1, <3>3, <4>1, <4>2, <1>10 DEF TieredInv, CopyIsCurrent
    <3>4. QED
      BY <3>2, <3>3
  <2>3. QED
    BY <2>1, <2>2 DEF CopyIsCurrent
<1>21. LookupMatchesElements'
  <2> SUFFICES ASSUME NEW k \in Labels
               PROVE  (/\ Range(lookup[k]) = {b \in Adds : Live(b) /\ element[b].label = k}
                       /\ IsInjective(lookup[k])
                       /\ ~IsMulti => Len(lookup[k]) <= 1)'
    BY DEF LookupMatchesElements
  <2>1. /\ Range(lookup[k]) = {b \in Adds : Live(b) /\ element[b].label = k}
        /\ IsInjective(lookup[k]) /\ (~IsMulti => Len(lookup[k]) <= 1)
    BY DEF TieredInv, LookupMatchesElements
  <2>2. \A b \in Adds : b # a =>
           (Live(b) /\ element[b].label = k <=> (Live(b) /\ element[b].label = k)')
    BY <1>10 DEF Live
  <2>3. ~Live(a) /\ Live(a)' /\ element'[a].label = l
    BY <1>4, <1>9, <1>10 DEF Live
  <2>4. CASE k = l
    <3>1. {b \in Adds : Live(b) /\ element[b].label = k}'
            = {b \in Adds : Live(b) /\ element[b].label = k} \cup {a}
      BY <2>2, <2>3, <2>4
    <3>2. QED
      BY <2>1, <2>4, <3>1, <1>11
  <2>5. CASE k # l
    <3>1. {b \in Adds : Live(b) /\ element[b].label = k}'
            = {b \in Adds : Live(b) /\ element[b].label = k}
      BY <2>2, <2>3, <2>5
    <3>2. QED
      BY <2>1, <2>5, <3>1, <1>11
  <2>6. QED
    BY <2>4, <2>5
<1>22. BufferedNotInHNSW'
  <2> SUFFICES ASSUME ~IsMulti, NEW i \in 1..Count(flat), lookup'[flat.labels[i]] # <<>>
               PROVE  \/ /\ lookup'[flat.labels[i]] = <<flat.vectors[i]>>
                         /\ \E w \in Workers : /\ task[w] = flat.vectors[i]
                                               /\ pc'[w] \in {"index", "finish"}
                      \/ /\ pc'[MainThread] = "add_del_hnsw" /\ op.label = flat.labels[i]
                         /\ flat.vectors[i] = op.add
    BY <1>3 DEF BufferedNotInHNSW, Count
  <2>0. flat.labels[i] \in Labels
    BY CountType DEF TieredInv, TypeOK, TiersType, FlatOf
  <2>1. CASE flat.labels[i] = l
    <3>1. t # MainThread
      <4>1. IsLabelExists(flat, l)
        BY <2>1, LabelsInBuffer
      <4>2. QED
        BY <4>1, <1>6
    <3>2. PICK j \in 1..Count(flat) : flat.vectors[j] = a /\ flat.labels[j] = l
      BY <3>1, <1>5 DEF Threads
    <3>3. i = j
      BY <2>1, <3>2, OneId
    <3>4. QED
      BY <2>1, <3>1, <3>2, <3>3, <1>7, <1>8, <1>11 DEF Threads
  <2>2. CASE flat.labels[i] # l
    <3>1. \A w \in Workers : pc[w] \in {"index", "finish"} => pc'[w] = pc[w]
      BY <1>3, <1>8 DEF Storing, Threads
    <3>2. pc[MainThread] = "add_del_hnsw" => pc'[MainThread] = pc[MainThread]
      BY <1>3, <1>8 DEF Storing, Threads
    <3>3. lookup'[flat.labels[i]] = lookup[flat.labels[i]]
      BY <2>0, <2>2, <1>11
    <3>4. QED
      BY <3>1, <3>2, <3>3 DEF TieredInv, BufferedNotInHNSW
  <2>3. QED
    BY <2>1, <2>2
<1>23. LabelCleared'
  <2>1. CASE t = MainThread
    BY <2>1, <1>8 DEF LabelCleared
  <2>2. CASE t \in Workers
    <3>1. pc'[MainThread] = pc[MainThread]
      BY <2>2, <1>7, <1>8 DEF Threads
    <3>2. IsLabelExists(flat, l)
      <4>1. PICK i \in 1..Count(flat) : flat.labels[i] = l
        BY <2>2, <1>5
      <4>2. QED
        BY <4>1, LabelsInBuffer
    <3>3. ClearsLabel /\ pc[MainThread] \in {"del_hnsw", "gc", "recheck", "add_inplace",
                                              "store", "store_x"}
            => op.label # l /\ op.label \in Labels
      BY <3>2 DEF TieredInv, LabelCleared, CallConsistent, Busy
    <3>4. QED
      BY <3>1, <3>3, <1>3, <1>11 DEF TieredInv, LabelCleared, ClearsLabel, IsLabelExists
  <2>3. QED
    BY <2>1, <2>2 DEF Threads
<1>24. (InvalidJobsTracked /\ InvalidIdsOld /\ FlatWithinLimit /\ RoomInFlat)'
  BY <1>3, <1>8 DEF TieredInv, jobs, InvalidJobsTracked, HasJob, InvalidIdsOld,
                    FlatWithinLimit, RoomInFlat, Count, Storing, Threads
<1>25. QED
  BY <1>13, <1>14, <1>15, <1>16, <1>17, <1>18, <1>19, <1>20, <1>21, <1>22, <1>23, <1>24
  DEF TieredInv

\* A thread that finds HNSW full lets go of the main lock and waits for it.
LEMMA FindFullInv ==
  ASSUME TieredInv, NEW t \in Threads, FindFull(t)
  PROVE  TieredInv'
<1>1. /\ pc[t] = "store" /\ Goto(t, "store_x")
      /\ UNCHANGED <<tiers, jobs, queue, locks, writeMode, op, task, blob, adds, queries>>
  BY DEF FindFull
<1>2. /\ pc' \in [Threads -> WorkerPc \cup MainPc] /\ pc'[t] = "store_x"
      /\ \A s \in Threads : s # t => pc'[s] = pc[s]
  BY <1>1, GotoFacts DEF TieredInv, TypeOK, MainPc
<1>3. /\ Submitting <=> Submitting'
      /\ \A w \in Workers : pc[w] = "idle" <=> pc'[w] = "idle"
      /\ \A w \in Workers : pc[w] \in {"index", "finish"} => pc'[w] = pc[w]
      /\ \A s \in Threads : Storing(s) <=> Storing(s)'
      /\ \A s \in Threads : pc[s] = "index" <=> pc'[s] = "index"
  BY <1>1, <1>2 DEF Submitting, Storing, Threads
<1>4. TypeOK'
  BY <1>1, <1>2 DEF TieredInv, TypeOK, TiersType, JobsType, LocksType, ControlType,
                    QueriesType, tiers, jobs, locks, queries, MainPc, WorkerPc, Threads
<1>5. (FlatLookupIsInverse /\ JobsMatchFlat /\ JobListsShort)'
  BY <1>1 DEF TieredInv, tiers, jobs, FlatLookupIsInverse, IsLabelExists, Count,
              JobsMatchFlat, ValidJob, HasJob, JobListsShort
<1>6. CallConsistent'
  BY <1>1, <1>2 DEF TieredInv, CallConsistent, AddOnly, Busy, Threads
<1>7. JobsOwned'
  BY <1>1, <1>3 DEF TieredInv, tiers, jobs, JobsOwned, HasJob
<1>8. NewIsFresh'
  BY <1>1, <1>2 DEF TieredInv, tiers, jobs, NewIsFresh, BeforeStored, Fresh, Threads
<1>9. NotStoredYet'
  BY <1>1, <1>3 DEF TieredInv, tiers, jobs, NotStoredYet, HasJob
<1>10. LocksHeld'
  BY <1>1, <1>3 DEF TieredInv, locks, Threads, LocksHeld
<1>11. CopyIsCurrent'
  BY <1>1, <1>2, <1>3 DEF TieredInv, tiers, jobs, Threads, Storing, CopyIsCurrent,
                          ValidJob, HasJob, AddOf
<1>12. LookupMatchesElements'
  BY <1>1 DEF TieredInv, tiers, LookupMatchesElements, Live
<1>13. BufferedNotInHNSW'
  BY <1>1, <1>2, <1>3 DEF TieredInv, tiers, BufferedNotInHNSW, Count, Threads
<1>14. LabelCleared'
  BY <1>1, <1>2 DEF TieredInv, tiers, LabelCleared, ClearsLabel, IsLabelExists, Threads
<1>15. (InvalidJobsTracked /\ InvalidIdsOld /\ FlatWithinLimit /\ RoomInFlat)'
  BY <1>1, <1>2 DEF TieredInv, tiers, jobs, InvalidJobsTracked, HasJob, Threads,
                    InvalidIdsOld, FlatWithinLimit, RoomInFlat, Count
<1>16. QED
  BY <1>4, <1>5, <1>6, <1>7, <1>8, <1>9, <1>10, <1>11, <1>12, <1>13, <1>14, <1>15
  DEF TieredInv

\* Two threads never bring the same vector to HNSW.
LEMMA BringersDiffer ==
  ASSUME TieredInv, NEW s \in Threads, NEW t \in Threads, s # t,
         pc[s] = "index", pc[t] = "index"
  PROVE  AddOf(s) # AddOf(t) /\ AddOf(s) \in Adds
<1>1. ASSUME NEW w \in Workers, pc[w] = "index"
      PROVE  /\ task[w] \in Adds /\ HasJob(task[w])
             /\ AddOf(w) = task[w]
             /\ \A v \in Workers : task[v] = task[w] => v = w
  BY <1>1, ThreadsAssumption DEF TieredInv, JobsOwned, AddOf, TypeOK, ControlType
<1>2. pc[MainThread] = "index" => job[op.add] = NoJob /\ op.add \in Adds
  BY DEF TieredInv, NewIsFresh, CallConsistent, AddOnly
<1>3. QED
  BY <1>1, <1>2 DEF AddOf, Threads, HasJob

\* Indexing ends: the element is no longer in process and the lock is released.
LEMMA IndexVectorInv ==
  ASSUME TieredInv, NEW t \in Threads, IndexVector(t)
  PROVE  TieredInv'
<1>1. pc[t] = "index"
  BY DEF IndexVector
<1>2. AddOf(t) \in Adds /\ element[AddOf(t)] # NoElement
  <2>1. AddOf(t) \in Adds
    BY <1>1, ThreadsAssumption DEF TieredInv, JobsOwned, AddOf, TypeOK, ControlType,
       CallConsistent, AddOnly, Threads
  <2>2. QED
    BY <1>1, <2>1 DEF TieredInv, CopyIsCurrent
<1>3. PICK a \in Adds : a = AddOf(t)
  BY <1>2
<1>4. PICK x \in {"idle", "finish"} :
        /\ Goto(t, x)
        /\ x = IF t = MainThread THEN "idle" ELSE "finish"
  BY DEF IndexVector
<1> DEFINE e == [element[a] EXCEPT !.inProcess = FALSE]
<1>5. element' = [element EXCEPT ![a] = e]
  BY <1>3 DEF IndexVector
<1>6. /\ blob' = [blob EXCEPT ![t] = NoBlob]
      /\ mainReaders' = mainReaders \ {t}
      /\ mainWriter' = IF mainWriter = t THEN NoThread ELSE mainWriter
      /\ dataGuard' = IF dataGuard = t THEN NoThread ELSE dataGuard
      /\ UNCHANGED <<flat, lookup, jobs, queue, flatReaders, writeMode, op, task, adds, queries>>
  BY DEF IndexVector
<1>7. element[a] \in [label : Labels, vec : Adds, inProcess : BOOLEAN, deleted : BOOLEAN]
  BY <1>2, <1>3 DEF TieredInv, TypeOK, TiersType
<1>8. /\ e \in [label : Labels, vec : Adds, inProcess : BOOLEAN, deleted : BOOLEAN]
      /\ e.label = element[a].label /\ e.deleted = element[a].deleted
  BY <1>7
<1>9. e # NoElement
  BY <1>8, AbsentAssumption
<1> HIDE DEF e
<1>10. /\ element' \in [Adds -> {NoElement} \cup
             [label : Labels, vec : Adds, inProcess : BOOLEAN, deleted : BOOLEAN]]
       /\ element'[a].label = element[a].label /\ element'[a].deleted = element[a].deleted
       /\ element'[a] # NoElement
       /\ \A b \in Adds : b # a => element'[b] = element[b]
  BY <1>5, <1>8, <1>9 DEF TieredInv, TypeOK, TiersType
<1>11. /\ \A b \in Adds : Live(b) <=> Live(b)'
       /\ \A b \in Adds : element'[b] = NoElement <=> element[b] = NoElement
       /\ \A b \in Adds : Live(b) => element'[b].label = element[b].label
  BY <1>2, <1>3, <1>10 DEF Live
<1>12. /\ pc' \in [Threads -> WorkerPc \cup MainPc] /\ pc'[t] = x
       /\ \A s \in Threads : s # t => pc'[s] = pc[s]
  BY <1>4, GotoFacts DEF TieredInv, TypeOK, MainPc, WorkerPc
<1>13. /\ Submitting <=> Submitting'
       /\ \A w \in Workers : pc[w] = "idle" <=> pc'[w] = "idle"
       /\ \A w \in Workers : pc[w] \in {"index", "finish"} => pc'[w] \in {"index", "finish"}
       /\ \A s \in Threads : Storing(s) <=> Storing(s)'
       /\ \A s \in Threads : pc'[s] = "index" <=> pc[s] = "index" /\ s # t
  BY <1>1, <1>4, <1>12, ThreadsAssumption DEF Submitting, Storing, Threads
<1>14. /\ blob' \in [Threads -> Adds \cup {NoBlob}]
       /\ \A s \in Threads : s # t => blob'[s] = blob[s]
  BY <1>6 DEF TieredInv, TypeOK, ControlType
<1>15. TypeOK'
  <2>1. ControlType'
    BY <1>1, <1>4, <1>6, <1>12, <1>14, ThreadsAssumption
    DEF TieredInv, TypeOK, ControlType, Threads, WorkerPc, MainPc
  <2>2. LocksType' /\ TiersType'
    BY <1>6, <1>10 DEF TieredInv, TypeOK, LocksType, TiersType
  <2>3. QED
    BY <1>6, <2>1, <2>2 DEF TieredInv, TypeOK, JobsType, QueriesType, jobs, queries
<1>16. (FlatLookupIsInverse /\ JobsMatchFlat /\ JobListsShort)'
  BY <1>6 DEF TieredInv, jobs, FlatLookupIsInverse, IsLabelExists, Count,
              JobsMatchFlat, ValidJob, HasJob, JobListsShort
<1>17. CallConsistent'
  BY <1>1, <1>4, <1>6, <1>12 DEF TieredInv, CallConsistent, AddOnly, Busy, Threads
<1>18. JobsOwned'
  BY <1>6, <1>13 DEF TieredInv, jobs, JobsOwned, HasJob
<1>19. NewIsFresh'
  <2>1. \A b \in Adds : Fresh(b) => Fresh(b)'
    BY <1>6, <1>11 DEF Fresh, jobs
  <2>2. pc'[MainThread] \in BeforeStored \cup {"index"} => pc'[MainThread] = pc[MainThread]
    BY <1>4, <1>12 DEF BeforeStored, Threads
  <2>3. op.kind = "add" => op.add \in Adds
    BY DEF TieredInv, CallConsistent
  <2>4. QED
    BY <1>6, <2>1, <2>2, <2>3 DEF TieredInv, NewIsFresh, jobs
<1>20. NotStoredYet'
  BY <1>6, <1>11, <1>13 DEF TieredInv, jobs, NotStoredYet, HasJob
<1>21. LocksHeld'
  <2>1. \A w \in Workers : Storing(w)' <=> w \in flatReaders'
    BY <1>6, <1>13 DEF TieredInv, LocksHeld, Threads
  <2>2. \A s \in Threads : pc'[s] = "index" <=> s \in mainReaders' \/ mainWriter' = s
    BY <1>6, <1>13, ThreadsAssumption DEF TieredInv, LocksHeld
  <2>3. \A s \in Threads : Storing(s)' => blob'[s] \in Adds
    BY <1>1, <1>13, <1>14 DEF TieredInv, LocksHeld, Storing
  <2>4. \A s \in Threads : dataGuard' = s => pc'[s] = "index"
    BY <1>6, <1>13, ThreadsAssumption DEF TieredInv, LocksHeld
  <2>5. QED
    BY <2>1, <2>2, <2>3, <2>4 DEF LocksHeld
<1>22. CopyIsCurrent'
  <2>1. ASSUME NEW w \in Workers, pc'[w] \in {"store", "store_x"}
        PROVE  (ValidJob(task[w]) /\ flat.vectors[job[task[w]].id] = blob[w])'
    <3>1. w # t /\ pc[w] \in {"store", "store_x"}
      BY <2>1, <1>4, <1>12 DEF Threads
    <3>2. QED
      BY <3>1, <1>6, <1>14 DEF TieredInv, CopyIsCurrent, ValidJob, HasJob, jobs, Threads
  <2>2. ASSUME NEW s \in Threads, pc'[s] = "index"
        PROVE  (element[AddOf(s)] # NoElement /\ element[AddOf(s)].inProcess)'
    <3>1. AddOf(s)' = AddOf(s)
      BY <1>6 DEF AddOf
    <3>2. s # t /\ pc[s] = "index"
      BY <2>2, <1>13
    <3>3. AddOf(s) # a /\ AddOf(s) \in Adds
      BY <3>2, <1>1, <1>3, BringersDiffer
    <3>4. QED
      BY <3>1, <3>2, <3>3, <1>10 DEF TieredInv, CopyIsCurrent
  <2>3. QED
    BY <2>1, <2>2 DEF CopyIsCurrent
<1>23. LookupMatchesElements'
  <2>1. \A k \in Labels : {b \in Adds : (Live(b) /\ element[b].label = k)'}
                          = {b \in Adds : Live(b) /\ element[b].label = k}
    BY <1>11
  <2>2. QED
    BY <1>6, <2>1 DEF TieredInv, LookupMatchesElements
<1>24. BufferedNotInHNSW'
  <2>1. pc[MainThread] = "add_del_hnsw" => pc'[MainThread] = pc[MainThread]
    BY <1>1, <1>12 DEF Threads
  <2>2. QED
    BY <1>6, <1>13, <2>1 DEF TieredInv, BufferedNotInHNSW, Count
<1>25. LabelCleared'
  BY <1>4, <1>6, <1>12 DEF TieredInv, LabelCleared, ClearsLabel, IsLabelExists, Threads
<1>26. (InvalidJobsTracked /\ InvalidIdsOld /\ FlatWithinLimit /\ RoomInFlat)'
  BY <1>4, <1>6, <1>12 DEF TieredInv, jobs, InvalidJobsTracked, HasJob, Threads,
                    InvalidIdsOld, FlatWithinLimit, RoomInFlat, Count
<1>27. QED
  BY <1>15, <1>16, <1>17, <1>18, <1>19, <1>20, <1>21, <1>22, <1>23, <1>24, <1>25, <1>26
  DEF TieredInv

-----------------------------------------------------------------------------
(* executeInsertJob.                                                        *)

\* A worker copies the vector of its valid job and keeps the flat lock shared.
LEMMA CopyBlobInv ==
  ASSUME TieredInv, NEW w \in Workers, CopyBlob(w)
  PROVE  TieredInv'
<1>1. /\ pc[w] = "check" /\ Goto(w, "store") /\ flatReaders' = flatReaders \cup {w}
      /\ blob' = [blob EXCEPT ![w] = flat.vectors[job[task[w]].id]]
      /\ UNCHANGED <<tiers, jobs, queue, mainReaders, mainWriter, dataGuard, writeMode, op,
                     task, adds, queries>>
  BY DEF CopyBlob
<1>2. task[w] \in Adds /\ ValidJob(task[w])
  BY <1>1 DEF CopyBlob, TieredInv, JobsOwned, TypeOK, ControlType, ValidJob
<1>3. flat.vectors[job[task[w]].id] = task[w]
  BY <1>2 DEF TieredInv, JobsMatchFlat
<1>4. /\ blob' \in [Threads -> Adds \cup {NoBlob}] /\ blob'[w] = task[w]
      /\ \A s \in Threads : s # w => blob'[s] = blob[s]
  BY <1>1, <1>2, <1>3 DEF TieredInv, TypeOK, ControlType, Threads
<1>5. /\ pc' \in [Threads -> WorkerPc \cup MainPc] /\ pc'[w] = "store"
      /\ \A s \in Threads : s # w => pc'[s] = pc[s]
      /\ pc'[MainThread] = pc[MainThread]
  BY <1>1, GotoFacts, ThreadsAssumption DEF TieredInv, TypeOK, WorkerPc, Threads
<1>6. /\ Submitting <=> Submitting'
      /\ \A v \in Workers : pc[v] = "idle" <=> pc'[v] = "idle"
      /\ \A v \in Workers : pc[v] \in {"index", "finish"} => pc'[v] = pc[v]
      /\ \A s \in Threads : Storing(s)' <=> Storing(s) \/ s = w
      /\ \A s \in Threads : pc[s] = "index" <=> pc'[s] = "index"
  BY <1>1, <1>5, ThreadsAssumption DEF Submitting, Storing, Threads
<1>7. TypeOK'
  BY <1>1, <1>4, <1>5 DEF TieredInv, TypeOK, TiersType, JobsType, LocksType, ControlType,
                    QueriesType, tiers, jobs, queries, WorkerPc, Threads
<1>8. (FlatLookupIsInverse /\ JobListsShort /\ CallConsistent)'
  BY <1>1, <1>5 DEF TieredInv, tiers, jobs, FlatLookupIsInverse, IsLabelExists, Count,
              JobListsShort, CallConsistent, Busy
<1>9. JobsMatchFlat'
  BY <1>1 DEF TieredInv, tiers, jobs, JobsMatchFlat, ValidJob, HasJob, Count
<1>10. (JobsOwned /\ NewIsFresh /\ NotStoredYet)'
  BY <1>1, <1>5, <1>6 DEF TieredInv, tiers, jobs, JobsOwned, HasJob, NewIsFresh, Fresh,
                    NotStoredYet
<1>11. LocksHeld'
  BY <1>1, <1>2, <1>4, <1>6 DEF TieredInv, LocksHeld, Threads
<1>12. CopyIsCurrent'
  <2>1. ASSUME NEW v \in Workers, pc'[v] \in {"store", "store_x"}
        PROVE  (ValidJob(task[v]) /\ flat.vectors[job[task[v]].id] = blob[v])'
    <3>1. CASE v = w
      BY <3>1, <1>1, <1>2, <1>3, <1>4 DEF ValidJob, HasJob, tiers, jobs
    <3>2. CASE v # w
      BY <3>2, <2>1, <1>1, <1>4, <1>5
      DEF TieredInv, CopyIsCurrent, ValidJob, HasJob, tiers, jobs, Threads
    <3>3. QED
      BY <3>1, <3>2
  <2>2. ASSUME NEW s \in Threads, pc'[s] = "index"
        PROVE  (element[AddOf(s)] # NoElement /\ element[AddOf(s)].inProcess)'
    BY <2>2, <1>1, <1>6 DEF TieredInv, CopyIsCurrent, AddOf, tiers
  <2>3. QED
    BY <2>1, <2>2 DEF CopyIsCurrent
<1>13. (LookupMatchesElements /\ BufferedNotInHNSW /\ LabelCleared)'
  BY <1>1, <1>5, <1>6 DEF TieredInv, tiers, LookupMatchesElements, Live,
                    BufferedNotInHNSW, LabelCleared, ClearsLabel, Count, IsLabelExists
<1>14. (InvalidJobsTracked /\ InvalidIdsOld /\ FlatWithinLimit /\ RoomInFlat)'
  BY <1>1, <1>5 DEF TieredInv, tiers, jobs, InvalidJobsTracked, HasJob,
                    InvalidIdsOld, FlatWithinLimit, RoomInFlat, Count
<1>15. QED
  BY <1>7, <1>8, <1>9, <1>10, <1>11, <1>12, <1>13, <1>14 DEF TieredInv

\* A worker that is done with job a leaves it, and only it, without an owner.
LEMMA JobDoneOwned ==
  ASSUME TieredInv, NEW w \in Workers, NEW a \in Adds, a = task[w], JobDone(w),
         job'[a] = NoJob, \A b \in Adds : b # a => (HasJob(b) <=> HasJob(b)'),
         pc[w] \in {"check", "finish"},
         UNCHANGED <<queue, op>>
  PROVE  /\ JobsOwned'
         /\ pc' \in [Threads -> WorkerPc \cup MainPc] /\ pc'[w] = "idle"
         /\ \A s \in Threads : s # w => pc'[s] = pc[s]
         /\ pc'[MainThread] = pc[MainThread]
         /\ task' \in [Workers -> Adds \cup {NoJob}]
         /\ \A v \in Workers : v # w => task'[v] = task[v] /\ task[v] # a
         /\ Submitting => op.add # a
         /\ Submitting <=> Submitting'
<1>1. /\ pc' \in [Threads -> WorkerPc \cup MainPc] /\ pc'[w] = "idle"
      /\ \A s \in Threads : s # w => pc'[s] = pc[s]
      /\ pc'[MainThread] = pc[MainThread]
  BY GotoFacts, ThreadsAssumption DEF JobDone, TieredInv, TypeOK, WorkerPc, Threads
<1>2. /\ task' \in [Workers -> Adds \cup {NoJob}] /\ task'[w] = NoJob
      /\ \A v \in Workers : v # w => task'[v] = task[v]
  BY DEF JobDone, TieredInv, TypeOK, ControlType
<1>3. a # NoJob
  BY AbsentAssumption
<1>4. /\ \A v \in Workers : v # w => task[v] # a
      /\ a \notin queue /\ (Submitting => op.add # a)
  BY <1>3 DEF TieredInv, JobsOwned
<1>5. ~HasJob(a)' /\ (Submitting <=> Submitting')
  BY <1>1 DEF HasJob, Submitting
<1>6. JobsOwned'
  <2>1. (\A v \in Workers : pc[v] = "idle" <=> task[v] = NoJob)'
    BY <1>1, <1>2 DEF TieredInv, JobsOwned, Threads
  <2>2. (\A v \in Workers : task[v] # NoJob => HasJob(task[v]) /\ task[v] \notin queue)'
    BY <1>2, <1>4 DEF TieredInv, JobsOwned, TypeOK, ControlType
  <2>3. (\A v, u \in Workers : task[v] = task[u] /\ task[u] # NoJob => v = u)'
    BY <1>2 DEF TieredInv, JobsOwned
  <2>4. (\A b \in queue : HasJob(b))'
    BY <1>4 DEF TieredInv, JobsOwned, TypeOK, JobsType
  <2>5. Submitting => op.add \in Adds
    BY DEF TieredInv, CallConsistent, AddOnly, Submitting
  <2>6. (Submitting => /\ HasJob(op.add) /\ op.add \notin queue
                       /\ \A v \in Workers : task[v] # op.add)'
    <3> SUFFICES ASSUME Submitting
                 PROVE  HasJob(op.add)' /\ op.add \notin queue
                        /\ \A v \in Workers : task'[v] # op.add
      BY <1>5
    <3>1. op.add # NoJob
      BY <2>5, AbsentAssumption
    <3>2. HasJob(op.add) /\ op.add \notin queue /\ \A v \in Workers : task[v] # op.add
      BY DEF TieredInv, JobsOwned
    <3>3. QED
      BY <2>5, <3>1, <3>2, <1>2, <1>4
  <2>7. (\A b \in Adds : HasJob(b) => \/ b \in queue \/ \E v \in Workers : task[v] = b
                                      \/ Submitting /\ op.add = b)'
    <3> SUFFICES ASSUME NEW b \in Adds, HasJob(b)', b \notin queue, ~(Submitting /\ op.add = b)
                 PROVE  \E v \in Workers : task'[v] = b
      BY <1>5
    <3>1. b # a /\ HasJob(b)
      BY <1>5
    <3>2. PICK v \in Workers : task[v] = b
      BY <3>1 DEF TieredInv, JobsOwned
    <3>3. QED
      BY <3>1, <3>2, <1>2
  <2>8. QED
    BY <2>1, <2>2, <2>3, <2>4, <2>6, <2>7 DEF JobsOwned
<1>7. QED
  BY <1>1, <1>2, <1>4, <1>5, <1>6

\* A worker finds its job invalid, before or after it has stored its copy.
LEMMA ForgetInvalidJob ==
  ASSUME TieredInv, NEW w \in Workers, pc[w] \in {"check", "finish"},
         ~job[task[w]].isValid,
         EraseInvalid(job[task[w]].id), job' = [job EXCEPT ![task[w]] = NoJob], JobDone(w),
         UNCHANGED <<tiers, labelToInsertJobs, currInvalidJobId, queue, locks,
                     writeMode, op, blob, adds, queries>>
  PROVE  TieredInv'
<1>1. PICK a \in Adds : a = task[w] /\ HasJob(a)
  BY DEF TieredInv, JobsOwned, TypeOK, ControlType
<1>2. /\ job'[a] = NoJob /\ \A b \in Adds : b # a => job'[b] = job[b]
      /\ job' \in [Adds -> {NoJob} \cup [label : Labels, id : Nat, isValid : BOOLEAN]]
  BY <1>1 DEF TieredInv, TypeOK, JobsType
<1>3. /\ ~HasJob(a)' /\ ~ValidJob(a) /\ ~ValidJob(a)'
      /\ \A b \in Adds : b # a => /\ HasJob(b) <=> HasJob(b)'
                                  /\ ValidJob(b) <=> ValidJob(b)'
  BY <1>1, <1>2 DEF HasJob, ValidJob
<1>4. /\ JobsOwned'
      /\ pc' \in [Threads -> WorkerPc \cup MainPc] /\ pc'[w] = "idle"
      /\ \A s \in Threads : s # w => pc'[s] = pc[s]
      /\ pc'[MainThread] = pc[MainThread]
      /\ task' \in [Workers -> Adds \cup {NoJob}]
      /\ \A v \in Workers : v # w => task'[v] = task[v] /\ task[v] # a
      /\ Submitting => op.add # a
      /\ Submitting <=> Submitting'
  BY <1>1, <1>2, <1>3, JobDoneOwned
<1>5. /\ \A s \in Threads : Storing(s) <=> Storing(s)'
      /\ \A s \in Threads : pc[s] = "index" <=> pc'[s] = "index"
      /\ \A v \in Workers : pc[v] \in {"store", "store_x", "index"} => v # w
  BY <1>4 DEF Storing
<1>6. TypeOK'
  <2>1. ControlType'
    BY <1>4 DEF TieredInv, TypeOK, ControlType, WorkerPc, Threads
  <2>2. JobsType'
    BY <1>2 DEF TieredInv, TypeOK, JobsType, EraseInvalid
  <2>3. QED
    BY <2>1, <2>2 DEF TieredInv, TypeOK, TiersType, LocksType, QueriesType, tiers, locks, queries
<1>7. (FlatLookupIsInverse /\ JobListsShort /\ CallConsistent)'
  BY <1>4 DEF TieredInv, tiers, FlatLookupIsInverse, IsLabelExists, Count, JobListsShort,
              CallConsistent, Busy
<1>8. JobsMatchFlat'
  <2>1. \A i \in 1..Count(flat) : flat.vectors[i] \in Adds /\ flat.labels[i] \in Labels
    BY CountType DEF TieredInv, TypeOK, TiersType, FlatOf
  <2>2. \A l \in Labels : \A b \in Range(labelToInsertJobs[l]) : b \in Adds
    BY DEF TieredInv, TypeOK, JobsType, Range
  <2>3. (\A i \in 1..Count(flat) : LET b == flat.vectors[i] IN
            ValidJob(b) /\ job[b].id = i /\ job[b].label = flat.labels[i])'
    BY <2>1, <1>2, <1>3 DEF TieredInv, JobsMatchFlat, tiers, Count
  <2>4. (\A b \in Adds : ValidJob(b) =>
            /\ job[b].id \in 1..Count(flat) /\ flat.vectors[job[b].id] = b
            /\ b \in Range(labelToInsertJobs[job[b].label]))'
    BY <1>2, <1>3 DEF TieredInv, JobsMatchFlat, tiers, Count
  <2>5. (\A l \in Labels : /\ IsInjective(labelToInsertJobs[l])
                           /\ \A b \in Range(labelToInsertJobs[l]) :
                                ValidJob(b) /\ job[b].label = l)'
    BY <2>2, <1>2, <1>3 DEF TieredInv, JobsMatchFlat
  <2>6. QED
    BY <2>3, <2>4, <2>5 DEF JobsMatchFlat
<1>9. NewIsFresh'
  <2>1. \A b \in Adds : Fresh(b) => Fresh(b)'
    BY <1>2 DEF Fresh, tiers
  <2>2. op.kind = "add" => op.add \in Adds
    BY DEF TieredInv, CallConsistent
  <2>3. pc[MainThread] = "index" => job'[op.add] = NoJob
    BY <2>2, <1>2 DEF TieredInv, NewIsFresh, CallConsistent, AddOnly
  <2>4. QED
    BY <2>1, <2>2, <2>3, <1>4 DEF TieredInv, NewIsFresh
<1>10. NotStoredYet'
  BY <1>1, <1>3, <1>4 DEF TieredInv, NotStoredYet, tiers, Threads
<1>11. LocksHeld'
  BY <1>5 DEF TieredInv, LocksHeld, Threads, locks
<1>12. CopyIsCurrent'
  <2>1. ASSUME NEW v \in Workers, pc'[v] \in {"store", "store_x"}
        PROVE  (ValidJob(task[v]) /\ flat.vectors[job[task[v]].id] = blob[v])'
    <3>1. v # w /\ pc[v] \in {"store", "store_x"}
      BY <2>1, <1>4 DEF Threads
    <3>2. task[v] \in Adds
      BY <3>1 DEF TieredInv, JobsOwned, TypeOK, ControlType
    <3>3. QED
      BY <3>1, <3>2, <1>2, <1>3, <1>4 DEF TieredInv, CopyIsCurrent, tiers
  <2>2. ASSUME NEW s \in Threads, pc'[s] = "index"
        PROVE  (element[AddOf(s)] # NoElement /\ element[AddOf(s)].inProcess)'
    <3>1. s # w /\ pc[s] = "index"
      BY <2>2, <1>4
    <3>2. AddOf(s)' = AddOf(s)
      BY <3>1, <1>4 DEF AddOf, Threads
    <3>3. QED
      BY <3>1, <3>2 DEF TieredInv, CopyIsCurrent, tiers
  <2>3. QED
    BY <2>1, <2>2 DEF CopyIsCurrent
<1>13. (LookupMatchesElements /\ LabelCleared)'
  BY <1>4 DEF TieredInv, tiers, LookupMatchesElements, Live, LabelCleared, ClearsLabel, IsLabelExists
<1>14. BufferedNotInHNSW'
  <2>1. \A i \in 1..Count(flat) : flat.vectors[i] # a
    BY <1>3 DEF TieredInv, JobsMatchFlat
  <2>2. \A v \in Workers : \A i \in 1..Count(flat) :
           task[v] = flat.vectors[i] => task'[v] = task[v] /\ pc'[v] = pc[v]
    BY <2>1, <1>1, <1>4 DEF Threads
  <2> SUFFICES ASSUME ~IsMulti, NEW i \in 1..Count(flat), lookup[flat.labels[i]] # <<>>
               PROVE  \/ /\ lookup[flat.labels[i]] = <<flat.vectors[i]>>
                         /\ \E v \in Workers : /\ task'[v] = flat.vectors[i]
                                               /\ pc'[v] \in {"index", "finish"}
                      \/ /\ pc'[MainThread] = "add_del_hnsw" /\ op.label = flat.labels[i]
                         /\ flat.vectors[i] = op.add
    BY DEF BufferedNotInHNSW, tiers, Count
  <2>3. CASE /\ lookup[flat.labels[i]] = <<flat.vectors[i]>>
             /\ \E v \in Workers : task[v] = flat.vectors[i] /\ pc[v] \in {"index", "finish"}
    BY <2>2, <2>3
  <2>4. CASE /\ pc[MainThread] = "add_del_hnsw" /\ op.label = flat.labels[i]
             /\ flat.vectors[i] = op.add
    BY <2>4, <1>4
  <2>5. QED
    BY <2>3, <2>4 DEF TieredInv, BufferedNotInHNSW
<1>15. InvalidJobsTracked'
  <2>1. invalidJobs' = [i \in DOMAIN invalidJobs \ {job[a].id} |-> invalidJobs[i]]
    BY <1>1 DEF EraseInvalid
  <2>2. job[a].id \in DOMAIN invalidJobs /\ invalidJobs[job[a].id] = a
    BY <1>1 DEF TieredInv, InvalidJobsTracked
  <2>3. \A i \in DOMAIN invalidJobs : invalidJobs[i] \in Adds
    BY DEF TieredInv, TypeOK, JobsType
  <2>4. \A i \in DOMAIN invalidJobs : invalidJobs[i] = a => i = job[a].id
    BY DEF TieredInv, InvalidJobsTracked
  <2>5. QED
    BY <2>1, <2>2, <2>3, <2>4, <1>2, <1>3 DEF TieredInv, InvalidJobsTracked
<1>16. (InvalidIdsOld /\ FlatWithinLimit /\ RoomInFlat)'
  BY <1>4 DEF TieredInv, tiers, InvalidIdsOld, EraseInvalid, FlatWithinLimit, RoomInFlat, Count
<1>17. QED
  BY <1>4, <1>6, <1>7, <1>8, <1>9, <1>10, <1>11, <1>12, <1>13, <1>14, <1>15, <1>16
  DEF TieredInv

\* A worker drops a job that became invalid before it was started.
LEMMA DropInvalidJobInv ==
  ASSUME TieredInv, NEW w \in Workers, DropInvalidJob(w)
  PROVE  TieredInv'
<1>1. UNCHANGED <<tiers, labelToInsertJobs, currInvalidJobId, queue, locks,
                  writeMode, op, blob, adds, queries>>
  BY DEF DropInvalidJob
<1>2. QED
  BY <1>1, ForgetInvalidJob DEF DropInvalidJob

-----------------------------------------------------------------------------
(* Steps of the main thread that delete from HNSW.                          *)

\* Marking a label's elements leaves the label nothing in the lookup and
\* every other label what it had.
LEMMA MarkDeleteFacts ==
  ASSUME TieredInv, NEW l \in Labels, MarkDelete(l)
  PROVE  /\ element' \in [Adds -> {NoElement} \cup
               [label : Labels, vec : Adds, inProcess : BOOLEAN, deleted : BOOLEAN]]
         /\ lookup' \in [Labels -> Seq(Adds)]
         /\ \A a \in Adds : element'[a] = NoElement <=> element[a] = NoElement
         /\ \A a \in Adds : element[a] # NoElement /\ element[a].inProcess =>
                              element'[a].inProcess
         /\ lookup'[l] = <<>>
         /\ \A k \in Labels : k # l => lookup'[k] = lookup[k]
         /\ LookupMatchesElements'
<1> DEFINE Rec == [label : Labels, vec : Adds, inProcess : BOOLEAN, deleted : BOOLEAN]
           Marked(a) == [element[a] EXCEPT !.deleted = TRUE]
<1>1. \A a \in Adds : a \in Range(lookup[l]) <=> Live(a) /\ element[a].label = l
  BY DEF TieredInv, LookupMatchesElements
<1>2. \A a \in Adds : element[a] # NoElement => element[a] \in Rec
  BY DEF TieredInv, TypeOK, TiersType
<1>3. ASSUME NEW a \in Adds, Live(a)
      PROVE  /\ Marked(a) \in Rec /\ Marked(a) # NoElement /\ Marked(a).deleted = TRUE
             /\ Marked(a).label = element[a].label
             /\ Marked(a).inProcess = element[a].inProcess
  <2>1. element[a] \in Rec
    BY <1>2, <1>3 DEF Live
  <2>2. /\ Marked(a) \in Rec /\ Marked(a).deleted = TRUE
        /\ Marked(a).label = element[a].label
        /\ Marked(a).inProcess = element[a].inProcess
    BY <2>1
  <2>3. QED
    BY <2>2, AbsentAssumption
<1>4. \A a \in Adds : element'[a] = IF a \in Range(lookup[l]) THEN Marked(a) ELSE element[a]
  BY DEF MarkDelete
<1> HIDE DEF Marked
<1>5. /\ element' \in [Adds -> {NoElement} \cup Rec]
      /\ \A a \in Adds : element'[a] = NoElement <=> element[a] = NoElement
      /\ \A a \in Adds : element[a] # NoElement /\ element[a].inProcess =>
                           element'[a].inProcess
  <2>1. element' = [a \in Adds |-> element'[a]]
    BY DEF MarkDelete
  <2>2. \A a \in Adds : element'[a] \in {NoElement} \cup Rec
    BY <1>1, <1>3, <1>4 DEF TieredInv, TypeOK, TiersType
  <2>3. QED
    BY <2>1, <2>2, <1>1, <1>3, <1>4 DEF Live
<1>6. /\ lookup' \in [Labels -> Seq(Adds)] /\ lookup'[l] = <<>>
      /\ \A k \in Labels : k # l => lookup'[k] = lookup[k]
  BY DEF MarkDelete, TieredInv, TypeOK, TiersType
<1>7. LookupMatchesElements'
  <2> SUFFICES ASSUME NEW k \in Labels
               PROVE  /\ Range(lookup'[k]) = {a \in Adds : (Live(a) /\ element[a].label = k)'}
                      /\ IsInjective(lookup'[k])
                      /\ ~IsMulti => Len(lookup'[k]) <= 1
    BY DEF LookupMatchesElements
  <2>1. \A a \in Adds : Live(a)' <=> Live(a) /\ element[a].label # l
    BY <1>1, <1>3, <1>4 DEF Live
  <2>2. \A a \in Adds : Live(a)' => element'[a].label = element[a].label
    BY <2>1, <1>1, <1>4
  <2>3. CASE k = l
    <3>1. Range(<<>>) = {} /\ IsInjective(<<>>) /\ Len(<<>>) = 0
      BY DEF Range, IsInjective
    <3>2. QED
      BY <2>1, <2>2, <2>3, <3>1, <1>6
  <2>4. CASE k # l
    <3>1. {a \in Adds : (Live(a) /\ element[a].label = k)'}
            = {a \in Adds : Live(a) /\ element[a].label = k}
      BY <2>1, <2>2, <2>4
    <3>2. QED
      BY <2>4, <3>1, <1>6 DEF TieredInv, LookupMatchesElements
  <2>5. QED
    BY <2>3, <2>4
<1>8. QED
  BY <1>5, <1>6, <1>7

\* What all deletions from HNSW have in common, synchronous or not.
LEMMA HNSWDeletes ==
  ASSUME TieredInv, NEW y,
         element' \in [Adds -> {NoElement} \cup
            [label : Labels, vec : Adds, inProcess : BOOLEAN, deleted : BOOLEAN]],
         lookup' \in [Labels -> Seq(Adds)], LookupMatchesElements',
         \A a \in Adds : element[a] = NoElement => element'[a] = NoElement,
         \A t \in Threads : pc[t] = "index" =>
            element'[AddOf(t)] # NoElement /\ element'[AddOf(t)].inProcess,
         \A k \in Labels : lookup'[k] = lookup[k] \/ lookup'[k] = <<>>,
         ClearsLabel /\ pc[MainThread] \in {"add_del_hnsw", "gc", "del_hnsw"} =>
            lookup'[op.label] = <<>>,
         \/ pc[MainThread] \in {"add_del_hnsw", "gc_add"} /\ y \in {"gc_add", "submit"}
         \/ pc[MainThread] = "del_hnsw" /\ y \in {"gc", AfterDelete}
         \/ pc[MainThread] = "gc" /\ y = AfterDelete,
         Goto(MainThread, y),
         op' \in [kind : {"none", "add", "delete"}, label : Labels \cup {0},
                  add : 0..MaxAdds, ret : Int, before : SUBSET Adds],
         op'.kind = op.kind, op'.label = op.label, op'.add = op.add,
         UNCHANGED <<flat, jobs, queue, locks, writeMode, task, blob, adds, queries>>
  PROVE  TieredInv'
<1>1. op.kind \in {"add", "delete"} /\ op.label \in Labels
  BY DEF TieredInv, CallConsistent, Busy, TypeOK, ControlType
<1>2. y \in MainPc /\ (y \in {"recheck", "add_inplace"} => op.kind = "add")
  BY <1>1 DEF MainPc, AfterDelete
<1>3. /\ pc' \in [Threads -> WorkerPc \cup MainPc] /\ pc'[MainThread] = y
      /\ \A w \in Workers : pc'[w] = pc[w]
  <2>1. y \in WorkerPc \cup MainPc /\ MainThread \in Threads /\ ControlType
    BY <1>2 DEF TieredInv, TypeOK, Threads
  <2>2. /\ pc' \in [Threads -> WorkerPc \cup MainPc] /\ pc'[MainThread] = y
        /\ \A s \in Threads : s # MainThread => pc'[s] = pc[s]
    BY <2>1, GotoFacts
  <2>3. QED
    BY <2>2, ThreadsAssumption DEF Threads
<1>4. y \in {"gc_add", "submit"} \cup {"idle", "gc", "recheck", "add_inplace"}
  BY DEF AfterDelete
<1>5. /\ Submitting <=> Submitting'
      /\ \A s \in Threads : Storing(s) <=> Storing(s)'
      /\ \A s \in Threads : pc[s] = "index" <=> pc'[s] = "index"
  BY <1>3, <1>4 DEF Submitting, Storing, Threads, AfterDelete
<1>6. TypeOK'
  <2>1. ControlType'
    BY <1>2, <1>3 DEF TieredInv, TypeOK, ControlType
  <2>2. QED
    BY <2>1 DEF TieredInv, TypeOK, TiersType, JobsType, LocksType, QueriesType,
                jobs, locks, queries
<1>7. (FlatLookupIsInverse /\ JobsMatchFlat /\ JobListsShort)'
  BY DEF TieredInv, jobs, FlatLookupIsInverse, IsLabelExists, Count, JobsMatchFlat,
         ValidJob, HasJob, JobListsShort
<1>8. CallConsistent'
  BY <1>1, <1>2, <1>3, <1>4 DEF TieredInv, CallConsistent, AddOnly, AfterDelete
<1>9. JobsOwned'
  BY <1>3, <1>5 DEF TieredInv, jobs, JobsOwned, HasJob
<1>10. NewIsFresh'
  <2>1. \A a \in Adds : Fresh(a) => Fresh(a)'
    BY DEF Fresh, jobs
  <2>2. op.kind = "add" => op.add \in Adds
    BY DEF TieredInv, CallConsistent
  <2>3. y \in BeforeStored => pc[MainThread] \in BeforeStored
    BY <1>4 DEF BeforeStored
  <2>4. QED
    BY <2>1, <2>2, <2>3, <1>3, <1>4 DEF TieredInv, NewIsFresh
<1>11. NotStoredYet'
  BY <1>3 DEF TieredInv, NotStoredYet, jobs, HasJob
<1>12. LocksHeld'
  BY <1>5 DEF TieredInv, locks, LocksHeld, Threads
<1>13. CopyIsCurrent'
  BY <1>3, <1>5 DEF TieredInv, CopyIsCurrent, jobs, ValidJob, HasJob, AddOf
<1>14. BufferedNotInHNSW'
  <2> SUFFICES ASSUME ~IsMulti, NEW i \in 1..Count(flat), lookup'[flat.labels[i]] # <<>>
               PROVE  \/ /\ lookup'[flat.labels[i]] = <<flat.vectors[i]>>
                         /\ \E w \in Workers : /\ task[w] = flat.vectors[i]
                                               /\ pc'[w] \in {"index", "finish"}
                      \/ /\ pc'[MainThread] = "add_del_hnsw" /\ op.label = flat.labels[i]
                         /\ flat.vectors[i] = op.add
    BY DEF BufferedNotInHNSW, Count
  <2>1. flat.labels[i] \in Labels
    BY CountType DEF TieredInv, TypeOK, TiersType, FlatOf
  <2>2. lookup[flat.labels[i]] = lookup'[flat.labels[i]]
    BY <2>1
  <2>3. ~(pc[MainThread] = "add_del_hnsw" /\ op.label = flat.labels[i])
    BY <2>1 DEF ClearsLabel
  <2>4. QED
    BY <2>2, <2>3, <1>3 DEF TieredInv, BufferedNotInHNSW
<1>15. LabelCleared'
  BY <1>3, <1>4 DEF TieredInv, LabelCleared, ClearsLabel, IsLabelExists
<1>16. (InvalidJobsTracked /\ InvalidIdsOld /\ FlatWithinLimit /\ RoomInFlat)'
  BY <1>3, <1>4 DEF TieredInv, jobs, InvalidJobsTracked, HasJob, InvalidIdsOld,
                    FlatWithinLimit, RoomInFlat, Count
<1>17. QED
  BY <1>6, <1>7, <1>8, <1>9, <1>10, <1>11, <1>12, <1>13, <1>14, <1>15, <1>16 DEF TieredInv

\* Elements that a thread is still indexing.
LEMMA IndexedElement ==
  ASSUME TieredInv, NEW t \in Threads, pc[t] = "index"
  PROVE  AddOf(t) \in Adds /\ element[AddOf(t)] # NoElement /\ element[AddOf(t)].inProcess
BY ThreadsAssumption DEF TieredInv, CopyIsCurrent, JobsOwned, AddOf, TypeOK, ControlType,
   CallConsistent, AddOnly, Threads

\* deleteVector marks the label's elements deleted.
LEMMA DeleteFromHNSWInv == ASSUME TieredInv, DeleteFromHNSW PROVE TieredInv'
<1>1. /\ pc[MainThread] = "del_hnsw" /\ MarkDelete(op.label)
      /\ Counted(Len(lookup[op.label]))
      /\ UNCHANGED <<flat, jobs, queue, locks, writeMode, task, blob, adds, queries>>
  BY DEF DeleteFromHNSW
<1>2. PICK y \in {"gc", AfterDelete} : Goto(MainThread, y)
  BY DEF DeleteFromHNSW
<1>3. op.label \in Labels
  BY <1>1 DEF TieredInv, CallConsistent, Busy
<1>4. Len(lookup[op.label]) \in Nat
  BY <1>3 DEF TieredInv, TypeOK, TiersType
<1>5. /\ op' \in [kind : {"none", "add", "delete"}, label : Labels \cup {0},
                  add : 0..MaxAdds, ret : Int, before : SUBSET Adds]
      /\ op'.kind = op.kind /\ op'.label = op.label /\ op'.add = op.add
  BY <1>1, <1>4 DEF Counted, TieredInv, TypeOK, ControlType
<1>6. QED
  BY <1>1, <1>2, <1>3, <1>5, MarkDeleteFacts, IndexedElement, HNSWDeletes

\* addVector marks the label's old elements deleted after it has buffered the
\* new vector.
LEMMA AddDeletesOldFromHNSWInv ==
  ASSUME TieredInv, AddDeletesOldFromHNSW
  PROVE  TieredInv'
<1> DEFINE n == Len(lookup[op.label])
<1>1. /\ pc[MainThread] = "add_del_hnsw" /\ MarkDelete(op.label)
      /\ op' = [op EXCEPT !.ret = IF @ - n > 0 THEN @ - n ELSE 0]
      /\ UNCHANGED <<flat, jobs, queue, locks, writeMode, task, blob, adds, queries>>
  BY DEF AddDeletesOldFromHNSW
<1>2. PICK y \in {"gc_add", "submit"} : Goto(MainThread, y)
  BY DEF AddDeletesOldFromHNSW
<1>3. op.label \in Labels
  BY <1>1 DEF TieredInv, CallConsistent, Busy
<1>4. n \in Nat
  BY <1>3 DEF TieredInv, TypeOK, TiersType
<1>5. /\ op' \in [kind : {"none", "add", "delete"}, label : Labels \cup {0},
                  add : 0..MaxAdds, ret : Int, before : SUBSET Adds]
      /\ op'.kind = op.kind /\ op'.label = op.label /\ op'.add = op.add
  <2> HIDE DEF n
  <2>1. QED
    BY <1>1, <1>4 DEF TieredInv, TypeOK, ControlType
<1>6. QED
  BY <1>1, <1>2, <1>3, <1>5, MarkDeleteFacts, IndexedElement, HNSWDeletes

\* deleteVector disposes of the label's elements under the exclusive lock.
LEMMA DeleteFromHNSWInplaceInv ==
  ASSUME TieredInv, DeleteFromHNSWInplace
  PROVE  TieredInv'
<1> DEFINE l == op.label
<1>1. /\ pc[MainThread] = "del_hnsw" /\ MainLockable
      /\ element' = Without(Range(lookup[l]))
      /\ lookup' = [lookup EXCEPT ![l] = <<>>]
      /\ Counted(Len(lookup[l])) /\ Goto(MainThread, AfterDelete)
      /\ UNCHANGED <<flat, jobs, queue, locks, writeMode, task, blob, adds, queries>>
  BY DEF DeleteFromHNSWInplace
<1>2. l \in Labels
  BY <1>1 DEF TieredInv, CallConsistent, Busy
<1>3. /\ op' \in [kind : {"none", "add", "delete"}, label : Labels \cup {0},
                  add : 0..MaxAdds, ret : Int, before : SUBSET Adds]
      /\ op'.kind = op.kind /\ op'.label = l /\ op'.add = op.add
  <2>1. Len(lookup[l]) \in Nat
    BY <1>2 DEF TieredInv, TypeOK, TiersType
  <2>2. QED
    BY <1>1, <2>1 DEF Counted, TieredInv, TypeOK, ControlType
<1>4. \A t \in Threads : pc[t] # "index"
  BY <1>1, ThreadsAssumption DEF TieredInv, LocksHeld, MainLockable
<1>5. \A a \in Adds : a \in Range(lookup[l]) <=> Live(a) /\ element[a].label = l
  BY <1>2 DEF TieredInv, LookupMatchesElements
<1>6. /\ \A a \in Adds : element'[a] = IF Live(a) /\ element[a].label = l THEN NoElement
                                       ELSE element[a]
      /\ element' \in [Adds -> {NoElement} \cup
            [label : Labels, vec : Adds, inProcess : BOOLEAN, deleted : BOOLEAN]]
  BY <1>1, <1>5 DEF Without, TieredInv, TypeOK, TiersType
<1>7. /\ lookup' \in [Labels -> Seq(Adds)] /\ lookup'[l] = <<>>
      /\ \A k \in Labels : k # l => lookup'[k] = lookup[k]
  BY <1>1, <1>2 DEF TieredInv, TypeOK, TiersType
<1>8. LookupMatchesElements'
  <2> SUFFICES ASSUME NEW k \in Labels
               PROVE  /\ Range(lookup'[k]) = {a \in Adds : (Live(a) /\ element[a].label = k)'}
                      /\ IsInjective(lookup'[k])
                      /\ ~IsMulti => Len(lookup'[k]) <= 1
    BY DEF LookupMatchesElements
  <2>1. \A a \in Adds : Live(a)' <=> Live(a) /\ element[a].label # l
    BY <1>6 DEF Live
  <2>2. \A a \in Adds : Live(a)' => element'[a] = element[a]
    BY <2>1, <1>6
  <2>3. CASE k = l
    <3>1. Range(<<>>) = {} /\ IsInjective(<<>>) /\ Len(<<>>) = 0
      BY DEF Range, IsInjective
    <3>2. QED
      BY <2>1, <2>2, <2>3, <3>1, <1>7
  <2>4. CASE k # l
    <3>1. {a \in Adds : (Live(a) /\ element[a].label = k)'}
            = {a \in Adds : Live(a) /\ element[a].label = k}
      BY <2>1, <2>2, <2>4
    <3>2. QED
      BY <2>4, <3>1, <1>7 DEF TieredInv, LookupMatchesElements
  <2>5. QED
    BY <2>3, <2>4
<1>9. QED
  BY <1>1, <1>3, <1>4, <1>6, <1>7, <1>8, HNSWDeletes

\* Only elements that are marked deleted are disposed of.
LEMMA ExecuteReadySwapJobsInv ==
  ASSUME TieredInv, ExecuteReadySwapJobs
  PROVE  TieredInv'
<1>1. /\ pc[MainThread] \in {"gc", "gc_add"} /\ MainLockable
      /\ UNCHANGED <<flat, lookup, jobs, queue, locks, writeMode, op, task, blob, adds, queries>>
  BY DEF ExecuteReadySwapJobs
<1>2. PICK A \in SUBSET {a \in Adds : element[a] # NoElement /\ element[a].deleted} :
         element' = Without(A)
  BY DEF ExecuteReadySwapJobs
<1>3. PICK y : /\ Goto(MainThread, y)
               /\ pc[MainThread] = "gc" => y = AfterDelete
               /\ pc[MainThread] = "gc_add" => y = "submit"
  BY <1>1 DEF ExecuteReadySwapJobs
<1>4. \A t \in Threads : pc[t] # "index"
  BY <1>1, ThreadsAssumption DEF TieredInv, LocksHeld, MainLockable
<1>5. /\ \A a \in Adds : element'[a] = element[a] \/ element'[a] = NoElement
      /\ \A a \in Adds : Live(a) => element'[a] = element[a]
      /\ element' \in [Adds -> {NoElement} \cup
            [label : Labels, vec : Adds, inProcess : BOOLEAN, deleted : BOOLEAN]]
  BY <1>2 DEF Without, Live, TieredInv, TypeOK, TiersType
<1>6. LookupMatchesElements'
  <2>1. \A a \in Adds : Live(a)' <=> Live(a)
    BY <1>5 DEF Live
  <2>2. \A k \in Labels : {a \in Adds : (Live(a) /\ element[a].label = k)'}
                          = {a \in Adds : Live(a) /\ element[a].label = k}
    BY <2>1, <1>5
  <2>3. QED
    BY <2>2, <1>1 DEF TieredInv, LookupMatchesElements
<1>7. /\ lookup' \in [Labels -> Seq(Adds)]
      /\ ClearsLabel /\ pc[MainThread] = "gc" => lookup'[op.label] = <<>>
  BY <1>1 DEF TieredInv, TypeOK, TiersType, LabelCleared
<1>8. /\ op' \in [kind : {"none", "add", "delete"}, label : Labels \cup {0},
                  add : 0..MaxAdds, ret : Int, before : SUBSET Adds]
      /\ op' = op
  BY <1>1 DEF TieredInv, TypeOK, ControlType
<1>9. QED
  BY <1>1, <1>3, <1>4, <1>5, <1>6, <1>7, <1>8, HNSWDeletes

\* Write-in-place: a single-value index has cleared the label in both tiers, so
\* the new vector is alone under it.
LEMMA AddInplaceInv ==
  ASSUME TieredInv, AddInplace
  PROVE  TieredInv'
<1>1. /\ pc[MainThread] = "add_inplace" /\ MainLockable /\ Goto(MainThread, "idle")
      /\ UNCHANGED <<flat, jobs, queue, locks, writeMode, op, task, blob, adds, queries>>
  BY DEF AddInplace
<1>2. /\ op.kind = "add" /\ op.add = adds /\ op.add \in Adds /\ op.label \in Labels
      /\ Fresh(op.add)
      /\ ~IsMulti => lookup[op.label] = <<>> /\ ~IsLabelExists(flat, op.label)
  BY <1>1 DEF TieredInv, CallConsistent, AddOnly, NewIsFresh, BeforeStored, LabelCleared,
              ClearsLabel
<1>3. PICK a \in Adds, l \in Labels : a = op.add /\ l = op.label
  BY <1>2
<1> DEFINE e == [label |-> l, vec |-> a, inProcess |-> FALSE, deleted |-> FALSE]
<1>4. /\ element' = [element EXCEPT ![a] = e]
      /\ lookup' = [lookup EXCEPT ![l] = IF IsMulti THEN Append(@, a) ELSE <<a>>]
  <2>1. ~IsMulti => Range(lookup[l]) = {}
    BY <1>2, <1>3 DEF Range
  <2>2. Without({}) = element
    BY DEF Without, TieredInv, TypeOK, TiersType
  <2>3. QED
    BY <2>1, <2>2, <1>3 DEF AddInplace
<1>5. e \in [label : Labels, vec : Adds, inProcess : BOOLEAN, deleted : BOOLEAN]
  OBVIOUS
<1>6. e # NoElement /\ e.label = l /\ e.deleted = FALSE
  BY <1>5, AbsentAssumption
<1> HIDE DEF e
<1>7. /\ element'[a] = e /\ \A b \in Adds : b # a => element'[b] = element[b]
      /\ element' \in [Adds -> {NoElement} \cup
            [label : Labels, vec : Adds, inProcess : BOOLEAN, deleted : BOOLEAN]]
  BY <1>4, <1>5 DEF TieredInv, TypeOK, TiersType
<1>8. /\ Range(lookup'[l]) = Range(lookup[l]) \cup {a} /\ IsInjective(lookup'[l])
      /\ ~IsMulti => Len(lookup'[l]) <= 1
      /\ \A k \in Labels : k # l => lookup'[k] = lookup[k]
      /\ lookup' \in [Labels -> Seq(Adds)]
  <2>1. PICK s \in Seq(Adds) : s = lookup[l]
    BY DEF TieredInv, TypeOK, TiersType
  <2>2. a \notin Range(s) /\ IsInjective(s)
    BY <2>1, <1>2, <1>3 DEF TieredInv, LookupMatchesElements, Live, Fresh
  <2>8. ~IsMulti => s = <<>>
    BY <2>1, <1>2, <1>3
  <2>3. PICK t : t = Grown(s, a)
    OBVIOUS
  <2>4. /\ t \in Seq(Adds) /\ Range(t) = Range(s) \cup {a}
        /\ IsInjective(t) /\ (~IsMulti => Len(t) <= 1)
    BY <2>2, <2>3, <2>8, ListGrows
  <2>5. lookup' = [lookup EXCEPT ![l] = t]
    BY <1>4, <2>1, <2>3 DEF Grown
  <2>6. lookup \in [Labels -> Seq(Adds)]
    BY DEF TieredInv, TypeOK, TiersType
  <2>7. QED
    BY <2>1, <2>3, <2>4, <2>5, <2>6
<1>9. \A t \in Threads : pc[t] # "index"
  BY <1>1, ThreadsAssumption DEF TieredInv, LocksHeld, MainLockable
<1>10. /\ pc' \in [Threads -> WorkerPc \cup MainPc] /\ pc'[MainThread] = "idle"
       /\ \A w \in Workers : pc'[w] = pc[w]
  BY <1>1, GotoFacts, ThreadsAssumption DEF TieredInv, TypeOK, Threads, MainPc
<1>11. TypeOK'
  <2>1. ControlType'
    BY <1>1, <1>10 DEF TieredInv, TypeOK, ControlType, MainPc
  <2>2. QED
    BY <1>1, <1>7, <1>8, <2>1 DEF TieredInv, TypeOK, TiersType, JobsType, LocksType,
                QueriesType, jobs, locks, queries
<1>12. (FlatLookupIsInverse /\ CallConsistent /\ JobsMatchFlat /\ JobListsShort)'
  BY <1>1, <1>10 DEF TieredInv, jobs, FlatLookupIsInverse, IsLabelExists, Count, JobsMatchFlat,
         ValidJob, HasJob, JobListsShort, CallConsistent, AddOnly, Busy
<1>13. JobsOwned'
  BY <1>1, <1>10 DEF TieredInv, jobs, JobsOwned, HasJob, Submitting
<1>14. NewIsFresh'
  <2>1. \A b \in Adds : b # a /\ Fresh(b) => Fresh(b)'
    BY <1>1, <1>7 DEF Fresh, jobs
  <2>2. ~(a > adds)
    BY <1>2, <1>3 DEF Adds
  <2>3. QED
    BY <2>1, <2>2, <1>1, <1>10 DEF TieredInv, NewIsFresh, BeforeStored
<1>15. NotStoredYet'
  BY <1>1, <1>2, <1>3, <1>7, <1>10 DEF TieredInv, NotStoredYet, jobs, HasJob, Fresh
<1>16. (LocksHeld /\ CopyIsCurrent)'
  <2>1. \A t \in Threads : pc'[t] # "index" /\ (Storing(t)' <=> Storing(t))
    BY <1>1, <1>9, <1>10 DEF Storing, Threads
  <2>2. LocksHeld'
    BY <2>1, <1>1, <1>9 DEF TieredInv, LocksHeld, locks, Threads
  <2>3. CopyIsCurrent'
    BY <2>1, <1>1, <1>10 DEF TieredInv, CopyIsCurrent, jobs, ValidJob, HasJob
  <2>4. QED
    BY <2>2, <2>3
<1>17. LookupMatchesElements'
  <2> SUFFICES ASSUME NEW k \in Labels
               PROVE  /\ Range(lookup'[k]) = {b \in Adds : (Live(b) /\ element[b].label = k)'}
                      /\ IsInjective(lookup'[k])
                      /\ ~IsMulti => Len(lookup'[k]) <= 1
    BY DEF LookupMatchesElements
  <2>1. /\ Range(lookup[k]) = {b \in Adds : Live(b) /\ element[b].label = k}
        /\ IsInjective(lookup[k]) /\ (~IsMulti => Len(lookup[k]) <= 1)
    BY DEF TieredInv, LookupMatchesElements
  <2>2. \A b \in Adds : b # a =>
           (Live(b) /\ element[b].label = k <=> (Live(b) /\ element[b].label = k)')
    BY <1>7 DEF Live
  <2>3. ~Live(a) /\ Live(a)' /\ element'[a].label = l
    BY <1>2, <1>3, <1>6, <1>7 DEF Live, Fresh
  <2>4. CASE k = l
    <3>1. {b \in Adds : (Live(b) /\ element[b].label = k)'}
            = {b \in Adds : Live(b) /\ element[b].label = k} \cup {a}
      BY <2>2, <2>3, <2>4
    <3>2. QED
      BY <2>1, <2>4, <3>1, <1>8
  <2>5. CASE k # l
    <3>1. {b \in Adds : (Live(b) /\ element[b].label = k)'}
            = {b \in Adds : Live(b) /\ element[b].label = k}
      BY <2>2, <2>3, <2>5
    <3>2. QED
      BY <2>1, <2>5, <3>1, <1>8
  <2>6. QED
    BY <2>4, <2>5
<1>18. BufferedNotInHNSW'
  <2>1. \A i \in 1..Count(flat) : flat.labels[i] \in Labels
    BY CountType DEF TieredInv, TypeOK, TiersType, FlatOf
  <2>2. ~IsMulti =>
          \A i \in 1..Count(flat) : lookup'[flat.labels[i]] = lookup[flat.labels[i]]
    BY <2>1, <1>2, <1>3, <1>8, LabelsInBuffer
  <2>3. QED
    BY <2>2, <1>1, <1>10 DEF TieredInv, BufferedNotInHNSW, Count
<1>19. (LabelCleared /\ InvalidJobsTracked /\ InvalidIdsOld /\ FlatWithinLimit /\ RoomInFlat)'
  BY <1>1, <1>10 DEF TieredInv, LabelCleared, jobs, InvalidJobsTracked, HasJob,
                     InvalidIdsOld, FlatWithinLimit, RoomInFlat, Count
<1>20. QED
  BY <1>11, <1>12, <1>13, <1>14, <1>15, <1>16, <1>17, <1>18, <1>19 DEF TieredInv


-----------------------------------------------------------------------------
(* Removals from the buffer.                                                *)

J == [label : Labels, id : Nat, isValid : BOOLEAN]

\* g has the vectors of f but those of R, and the updated-ids map up leads from
\* their ids in g to those in f.
Compacts(f, g, R, up) ==
  /\ DOMAIN up \subseteq 1..Count(g)
  /\ \A i \in DOMAIN up : up[i] = <<Kinds!From(up, i), f.labels[Kinds!From(up, i)]>>
  /\ \A i \in 1..Count(g) : /\ Kinds!From(up, i) \in 1..Count(f)
                            /\ g.labels[i] = f.labels[Kinds!From(up, i)]
                            /\ g.vectors[i] = f.vectors[Kinds!From(up, i)]
                            /\ f.vectors[Kinds!From(up, i)] \notin R
  /\ \A i, j \in 1..Count(g) : Kinds!From(up, i) = Kinds!From(up, j) => i = j
  /\ \A x \in 1..Count(f) : f.vectors[x] \notin R => \E i \in 1..Count(g) : Kinds!From(up, i) = x

\* js has the job of b with the id that its vector has in g.
Follows(js, b, g, up) ==
  \E i \in 1..Count(g) : Kinds!From(up, i) = job[b].id /\ js[b] = [job[b] EXCEPT !.id = i]

\* The jobs of the buffer lead to their vectors.
LEMMA JobFacts ==
  ASSUME TieredInv
  PROVE  /\ job \in [Adds -> {NoJob} \cup J] /\ labelToInsertJobs \in [Labels -> Seq(Adds)]
         /\ Count(flat) \in Nat
         /\ \A i \in 1..Count(flat) : flat.labels[i] \in Labels /\ flat.vectors[i] \in Adds
         /\ \A i \in 1..Count(flat) : LET a == flat.vectors[i] IN
              ValidJob(a) /\ job[a].id = i /\ job[a].label = flat.labels[i]
         /\ \A a \in Adds : ValidJob(a) =>
              /\ job[a] \in J
              /\ job[a].id \in 1..Count(flat) /\ flat.vectors[job[a].id] = a
              /\ flat.labels[job[a].id] = job[a].label
              /\ a \in Range(labelToInsertJobs[job[a].label])
         /\ \A k \in Labels : \A a \in Range(labelToInsertJobs[k]) :
              a \in Adds /\ ValidJob(a) /\ job[a].label = k
<1>1. /\ job \in [Adds -> {NoJob} \cup J] /\ labelToInsertJobs \in [Labels -> Seq(Adds)]
      /\ flat \in FlatOf(Adds)
  BY DEF TieredInv, TypeOK, TiersType, JobsType, FlatOf, J
<1>2. /\ Count(flat) \in Nat
      /\ \A i \in 1..Count(flat) : flat.labels[i] \in Labels /\ flat.vectors[i] \in Adds
  BY <1>1, CountType
<1>3. \A i \in 1..Count(flat) : LET a == flat.vectors[i] IN
         ValidJob(a) /\ job[a].id = i /\ job[a].label = flat.labels[i]
  BY DEF TieredInv, JobsMatchFlat
<1>4. \A a \in Adds : ValidJob(a) =>
         /\ job[a].id \in 1..Count(flat) /\ flat.vectors[job[a].id] = a
         /\ flat.labels[job[a].id] = job[a].label
         /\ a \in Range(labelToInsertJobs[job[a].label])
  BY <1>3 DEF TieredInv, JobsMatchFlat
<1>5. \A a \in Adds : ValidJob(a) => job[a] \in J
  BY <1>1 DEF ValidJob, HasJob
<1>6. \A k \in Labels : \A a \in Range(labelToInsertJobs[k]) : a \in Adds
  BY <1>1, ElementOfSeq, LenProperties DEF Range
<1>7. \A k \in Labels : \A a \in Range(labelToInsertJobs[k]) : ValidJob(a) /\ job[a].label = k
  BY DEF TieredInv, JobsMatchFlat
<1>8. QED
  BY <1>1, <1>2, <1>3, <1>4, <1>5, <1>6, <1>7

\* updateInsertJobInternalId for every entry of the map gives the job of every
\* vector that stays its new id, and changes no other job.
LEMMA RenamedFollow ==
  ASSUME TieredInv, NEW R, NEW g, NEW up, Compacts(flat, g, R, up),
         NEW lists, \A k \in Labels : Range(lists[k]) = Range(labelToInsertJobs[k]) \ R,
         NEW js, \A b \in Adds \ R : js[b] = job[b]
  PROVE  /\ \A b \in Adds \ R :
              /\ ~ValidJob(b) => Renamed(js, lists, up)[b] = job[b]
              /\ ValidJob(b) => Follows(Renamed(js, lists, up), b, g, up)
         /\ \A b \in Adds : b \in R => Renamed(js, lists, up)[b] = js[b]
<1> DEFINE P(b, i) == b \in Range(lists[up[i][2]]) /\ js[b].id = up[i][1]
           found(b) == \E i \in DOMAIN up : P(b, i)
           to(b) == CHOOSE i \in DOMAIN up : P(b, i)
<1>1. \A b \in Adds : Renamed(js, lists, up)[b] = IF found(b) THEN [js[b] EXCEPT !.id = to(b)]
                                                  ELSE js[b]
  BY DEF Renamed
<1>2. \A i \in DOMAIN up : /\ i \in 1..Count(g) /\ Kinds!From(up, i) \in 1..Count(flat)
                           /\ up[i][1] = Kinds!From(up, i)
                           /\ up[i][2] = flat.labels[Kinds!From(up, i)] /\ up[i][2] \in Labels
  BY JobFacts DEF Compacts
<1>3. \A b \in Adds : \A i \in DOMAIN up : P(b, i) <=>
         b \in Range(labelToInsertJobs[up[i][2]]) /\ b \notin R /\ js[b].id = up[i][1]
  BY <1>2
<1>4. \A b \in Adds : found(b) => b \notin R /\ ValidJob(b)
  BY <1>2, <1>3, JobFacts
<1>5. ASSUME NEW b \in Adds \ R, ValidJob(b)
      PROVE  Follows(Renamed(js, lists, up), b, g, up)
  <2>1. PICK x \in 1..Count(flat) : /\ x = job[b].id /\ flat.vectors[x] = b
                                    /\ flat.labels[x] = job[b].label
    BY <1>5, JobFacts
  <2>2. PICK i \in 1..Count(g) : Kinds!From(up, i) = x
    BY <2>1 DEF Compacts
  <2>3. \A k \in DOMAIN up : P(b, k) => k = i
    BY <2>1, <2>2, <1>2, <1>5 DEF Compacts
  <2>4. CASE i \in DOMAIN up
    <3>1. P(b, i)
      BY <2>1, <2>2, <2>4, <1>2, <1>3, <1>5, JobFacts
    <3>2. found(b)
      BY <2>4, <3>1
    <3>3. to(b) \in DOMAIN up /\ P(b, to(b))
      BY <3>2
    <3> HIDE DEF found, to, P
    <3>4. to(b) = i
      BY <2>3, <3>3
    <3>5. Renamed(js, lists, up)[b] = [job[b] EXCEPT !.id = i]
      BY <3>2, <3>4, <1>1, <1>5
    <3>6. QED
      BY <2>1, <2>2, <3>5 DEF Follows
  <2>5. CASE i \notin DOMAIN up
    <3>1. ~found(b)
      BY <2>3, <2>5
    <3> HIDE DEF found, to, P
    <3>2. Renamed(js, lists, up)[b] = job[b]
      BY <3>1, <1>1, <1>5
    <3>3. i = job[b].id
      BY <2>1, <2>2, <2>5 DEF Kinds!From
    <3>4. job[b] \in J
      BY <1>5, JobFacts
    <3>5. job[b] = [job[b] EXCEPT !.id = i]
      BY <3>3, <3>4 DEF J
    <3>6. QED
      BY <2>1, <2>2, <3>2, <3>5 DEF Follows
  <2>6. QED
    BY <2>4, <2>5
<1> HIDE DEF found, to, P
<1>6. \A b \in Adds \ R : ~ValidJob(b) => Renamed(js, lists, up)[b] = job[b]
  BY <1>1, <1>4
<1>7. \A b \in Adds : b \in R => Renamed(js, lists, up)[b] = js[b]
  BY <1>1, <1>4
<1>8. QED
  BY <1>5, <1>6, <1>7

\* What is in the buffer after a step was there before, and is not in R.
OthersStay(R) ==
  \A i \in 1..Count(flat)' : \E j \in 1..Count(flat) :
    /\ flat.labels[i]' = flat.labels[j] /\ flat.vectors[i]' = flat.vectors[j]
    /\ flat.vectors[j] \notin R

\* A step leaves every job but those of R as it is, except for the id of a
\* valid one.
OtherJobsStay(R) ==
  \A b \in Adds \ R :
    /\ HasJob(b) <=> HasJob(b)'
    /\ HasJob(b) => /\ job'[b] \in J
                    /\ job'[b].label = job[b].label
                    /\ job'[b].isValid = job[b].isValid
                    /\ ~job[b].isValid => job'[b] = job[b]

\* A removal of the vectors of R from the buffer that takes their jobs out of
\* the lists and lets the other jobs follow their vectors.
Removes(R, up) ==
  /\ Compacts(flat, flat', R, up)
  /\ labelToInsertJobs' \in [Labels -> Seq(Adds)]
  /\ \A k \in Labels : /\ Range(labelToInsertJobs'[k]) = Range(labelToInsertJobs[k]) \ R
                       /\ IsInjective(labelToInsertJobs'[k])
                       /\ ~IsMulti => Len(labelToInsertJobs'[k]) <= 1
  /\ \A b \in R : b \in Adds => ~ValidJob(b)'
  /\ \A b \in Adds \ R : /\ ~ValidJob(b) => job'[b] = job[b]
                         /\ ValidJob(b) => Follows(job', b, flat', up)

\* The job of a vector that stays is the same but for its id.
LEMMA FollowingJob ==
  ASSUME TieredInv, NEW R, NEW up, Removes(R, up), NEW b \in Adds \ R, ValidJob(b)
  PROVE  /\ job'[b] \in J /\ ValidJob(b)' /\ job'[b].label = job[b].label
         /\ job'[b].isValid = job[b].isValid
         /\ job'[b].id \in 1..Count(flat)' /\ Kinds!From(up, job'[b].id) = job[b].id
<1>1. PICK i \in 1..Count(flat') : Kinds!From(up, i) = job[b].id
                                   /\ job'[b] = [job[b] EXCEPT !.id = i]
  BY DEF Removes, Follows
<1>2. PICK r \in J : r = job[b] /\ r.isValid
  BY JobFacts DEF ValidJob
<1>3. i \in Nat
  BY <1>1
<1>4. /\ [r EXCEPT !.id = i] \in J /\ [r EXCEPT !.id = i].id = i
      /\ [r EXCEPT !.id = i].label = r.label /\ [r EXCEPT !.id = i].isValid = r.isValid
  BY <1>2, <1>3 DEF J
<1>5. job'[b] # NoJob
  BY <1>1, <1>2, <1>4, AbsentAssumption DEF J
<1>6. QED
  BY <1>1, <1>2, <1>4, <1>5 DEF ValidJob, HasJob, Count

\* Such a removal keeps jobs and vectors in step.
LEMMA RemovalFollowed ==
  ASSUME TieredInv, NEW R, NEW up, Removes(R, up)
  PROVE  /\ JobsMatchFlat' /\ JobListsShort'
         /\ OthersStay(R) /\ OtherJobsStay(R)
<1>1. OthersStay(R)
  <2>1. \A i \in 1..Count(flat') : /\ Kinds!From(up, i) \in 1..Count(flat)
                                   /\ flat'.labels[i] = flat.labels[Kinds!From(up, i)]
                                   /\ flat'.vectors[i] = flat.vectors[Kinds!From(up, i)]
                                   /\ flat.vectors[Kinds!From(up, i)] \notin R
    BY DEF Removes, Compacts
  <2>2. QED
    BY <2>1 DEF OthersStay, Count
<1>2. \A b \in Adds \ R : ValidJob(b) =>
         /\ job'[b] \in J /\ ValidJob(b)' /\ job'[b].label = job[b].label
         /\ job'[b].isValid = job[b].isValid
         /\ job'[b].id \in 1..Count(flat)' /\ Kinds!From(up, job'[b].id) = job[b].id
  BY FollowingJob
<1>3. \A b \in Adds \ R : ~ValidJob(b) => job'[b] = job[b]
  BY DEF Removes
<1>4. OtherJobsStay(R)
  <2> SUFFICES ASSUME NEW b \in Adds \ R
               PROVE  /\ HasJob(b) <=> HasJob(b)'
                      /\ HasJob(b) => /\ job'[b] \in J
                                      /\ job'[b].label = job[b].label
                                      /\ job'[b].isValid = job[b].isValid
                                      /\ ~job[b].isValid => job'[b] = job[b]
    BY DEF OtherJobsStay
  <2>1. CASE ValidJob(b)
    BY <2>1, <1>2 DEF ValidJob
  <2>2. CASE ~ValidJob(b)
    BY <2>2, <1>3, JobFacts DEF HasJob
  <2>3. QED
    BY <2>1, <2>2
<1>5. \A b \in Adds : ValidJob(b)' => b \notin R /\ ValidJob(b)
  <2> SUFFICES ASSUME NEW b \in Adds, ValidJob(b)'
               PROVE  b \notin R /\ ValidJob(b)
    OBVIOUS
  <2>1. b \notin R
    BY DEF Removes
  <2>2. QED
    BY <2>1, <1>3 DEF ValidJob, HasJob
<1>6. JobListsShort'
  BY DEF Removes, JobListsShort
<1>7. \A b \in Adds : ValidJob(b)' =>
         /\ job'[b].id \in 1..Count(flat)' /\ flat'.vectors[job'[b].id] = b
         /\ flat'.labels[job'[b].id] = job'[b].label
         /\ b \in Range(labelToInsertJobs'[job'[b].label])
  <2> SUFFICES ASSUME NEW b \in Adds \ R, ValidJob(b)
               PROVE  /\ job'[b].id \in 1..Count(flat)' /\ flat'.vectors[job'[b].id] = b
                      /\ flat'.labels[job'[b].id] = job'[b].label
                      /\ b \in Range(labelToInsertJobs'[job'[b].label])
    BY <1>5
  <2>1. PICK i \in 1..Count(flat)' :
           /\ job'[b].id = i /\ Kinds!From(up, i) = job[b].id /\ job'[b].label = job[b].label
    BY <1>2
  <2>2. flat'.vectors[i] = flat.vectors[job[b].id] /\ flat'.labels[i] = flat.labels[job[b].id]
    BY <2>1 DEF Removes, Compacts, Count
  <2>3. /\ flat.vectors[job[b].id] = b /\ flat.labels[job[b].id] = job[b].label
        /\ job[b].label \in Labels /\ b \in Range(labelToInsertJobs[job[b].label])
    BY JobFacts DEF J
  <2>4. b \in Range(labelToInsertJobs'[job[b].label])
    BY <2>3 DEF Removes
  <2>5. QED
    BY <2>1, <2>2, <2>3, <2>4
<1>8. (\A i \in 1..Count(flat) : LET b == flat.vectors[i] IN
          ValidJob(b) /\ job[b].id = i /\ job[b].label = flat.labels[i])'
  <2> SUFFICES ASSUME NEW i \in 1..Count(flat)'
               PROVE  (LET b == flat.vectors[i] IN
                        ValidJob(b) /\ job[b].id = i /\ job[b].label = flat.labels[i])'
    OBVIOUS
  <2>1. PICK x \in 1..Count(flat) :
           /\ x = Kinds!From(up, i) /\ flat'.labels[i] = flat.labels[x]
           /\ flat'.vectors[i] = flat.vectors[x] /\ flat.vectors[x] \notin R
    BY DEF Removes, Compacts, Count
  <2>2. PICK b \in Adds \ R : b = flat.vectors[x]
    BY <2>1, JobFacts
  <2>3. ValidJob(b) /\ job[b].id = x /\ job[b].label = flat.labels[x]
    BY <2>2, JobFacts
  <2>4. PICK k \in 1..Count(flat)' : k = job'[b].id /\ Kinds!From(up, k) = x
    BY <2>3, <1>2
  <2>5. k = i
    BY <2>1, <2>4 DEF Removes, Compacts, Count
  <2>6. ValidJob(b)' /\ job'[b].id = i /\ job'[b].label = flat'.labels[i] /\ flat'.vectors[i] = b
    BY <2>1, <2>2, <2>3, <2>4, <2>5, <1>2
  <2>7. QED
    BY <2>6 DEF ValidJob, HasJob
<1>9. \A k \in Labels : \A b \in Range(labelToInsertJobs'[k]) :
         ValidJob(b)' /\ job'[b].label = k
  <2> SUFFICES ASSUME NEW k \in Labels, NEW b \in Range(labelToInsertJobs'[k])
               PROVE  ValidJob(b)' /\ job'[b].label = k
    OBVIOUS
  <2>1. b \in Range(labelToInsertJobs[k]) /\ b \notin R
    BY DEF Removes
  <2>2. QED
    BY <2>1, <1>2, JobFacts
<1>10. JobsMatchFlat'
  <2>1. \A k \in Labels : IsInjective(labelToInsertJobs'[k])
    BY DEF Removes
  <2>2. QED
    BY <2>1, <1>7, <1>8, <1>9 DEF JobsMatchFlat
<1>11. QED
  BY <1>1, <1>4, <1>6, <1>10

-----------------------------------------------------------------------------
(* A worker ends its job.                                                   *)

\* The removal of one vector leaves the others, and the entry that the code
\* makes up for updateInsertJobInternalId says where the moved one was.
LEMMA RemovalCompacts ==
  ASSUME TieredInv, NEW id \in 1..Count(flat), NEW g, Kinds!Removed(flat, g, id),
         NEW up, up = [k \in {id} \ {Count(flat)} |-> <<Count(flat), flat.labels[Count(flat)]>>]
  PROVE  Compacts(flat, g, {flat.vectors[id]}, up)
<1> DEFINE n == Count(flat)
<1>1. n \in Nat /\ id \in 1..n
  BY JobFacts
<1>2. /\ Count(g) = n - 1
      /\ \A j \in 1..Count(g) : /\ g.labels[j] = flat.labels[IF j = id THEN n ELSE j]
                                /\ g.vectors[j] = flat.vectors[IF j = id THEN n ELSE j]
  BY DEF Kinds!Removed, Kinds!Before, Kinds!Count, Count
<1>3. DOMAIN up = {id} \ {n} /\ \A k \in DOMAIN up : up[k] = <<n, flat.labels[n]>>
  OBVIOUS
<1>4. \A j \in 1..Count(g) : Kinds!From(up, j) = IF j = id THEN n ELSE j
  <2> SUFFICES ASSUME NEW j \in 1..Count(g)
               PROVE  Kinds!From(up, j) = IF j = id THEN n ELSE j
    OBVIOUS
  <2>1. j \in Nat /\ j # n
    BY <1>1, <1>2
  <2>2. CASE j = id
    <3>1. j \in DOMAIN up /\ up[j] = <<n, flat.labels[n]>>
      BY <2>1, <2>2, <1>3
    <3>2. QED
      BY <2>2, <3>1 DEF Kinds!From
  <2>3. CASE j # id
    BY <2>3, <1>3 DEF Kinds!From
  <2>4. QED
    BY <2>2, <2>3
<1>5. \A i, j \in 1..n : flat.vectors[i] = flat.vectors[j] => i = j
  <2>1. \A i \in 1..n : job[flat.vectors[i]].id = i
    BY JobFacts
  <2>2. QED
    BY <2>1
<1>6. \A i \in 1..Count(g) : /\ (IF i = id THEN n ELSE i) \in 1..n
                             /\ (IF i = id THEN n ELSE i) # id
  BY <1>1, <1>2
<1>7. \A i \in 1..Count(g) : flat.vectors[IF i = id THEN n ELSE i] # flat.vectors[id]
  BY <1>1, <1>5, <1>6
<1>8. DOMAIN up \subseteq 1..Count(g)
  BY <1>1, <1>2, <1>3
<1>9. \A i \in DOMAIN up : up[i] = <<Kinds!From(up, i), flat.labels[Kinds!From(up, i)]>>
  <2> SUFFICES ASSUME NEW i \in DOMAIN up
               PROVE  up[i] = <<Kinds!From(up, i), flat.labels[Kinds!From(up, i)]>>
    OBVIOUS
  <2>1. i = id /\ up[i] = <<n, flat.labels[n]>>
    BY <1>3
  <2>2. Kinds!From(up, i) = n
    BY <2>1, <1>4, <1>8
  <2>3. QED
    BY <2>1, <2>2
<1>10. \A i, j \in 1..Count(g) : Kinds!From(up, i) = Kinds!From(up, j) => i = j
  <2>1. \A i, j \in 1..Count(g) : i # n /\ j # n
    BY <1>1, <1>2
  <2>2. QED
    BY <2>1, <1>4
<1>11. \A x \in 1..n : flat.vectors[x] # flat.vectors[id] =>
          \E i \in 1..Count(g) : Kinds!From(up, i) = x
  <2> SUFFICES ASSUME NEW x \in 1..n, x # id
               PROVE  \E i \in 1..Count(g) : Kinds!From(up, i) = x
    OBVIOUS
  <2>1. CASE x = n
    <3>1. id \in 1..Count(g)
      BY <2>1, <1>1, <1>2
    <3>2. QED
      BY <2>1, <3>1, <1>4
  <2>2. CASE x # n
    <3>1. x \in 1..Count(g)
      BY <2>2, <1>1, <1>2
    <3>2. QED
      BY <3>1, <1>4
  <2>3. QED
    BY <2>1, <2>2
<1> HIDE DEF n
<1>12. QED
  BY <1>2, <1>4, <1>6, <1>7, <1>8, <1>9, <1>10, <1>11 DEF Compacts, n

\* A list without one of its elements, which it has once.
LEMMA RemoveAtRange ==
  ASSUME NEW s \in Seq(Adds), IsInjective(s), NEW p \in 1..Len(s)
  PROVE  /\ RemoveAt(s, p) \in Seq(Adds) /\ Len(RemoveAt(s, p)) = Len(s) - 1
         /\ Range(RemoveAt(s, p)) = Range(s) \ {s[p]} /\ IsInjective(RemoveAt(s, p))
<1>0. PICK t : t = RemoveAt(s, p)
  OBVIOUS
<1>1. Len(s) \in Nat /\ DOMAIN s = 1..Len(s) /\ s \in [1..Len(s) -> Adds]
  BY LenProperties
<1>2. \A x \in Adds : x \in Nat \ {0}
  BY BoundsAssumption DEF Adds
<1>3. s \in Seq(Nat \ {0})
  <2>1. s \in [1..Len(s) -> Nat \ {0}]
    BY <1>1, <1>2
  <2>2. QED
    BY <2>1, <1>1, SeqDef
<1>4. PICK T : T = Range(s) \ {s[p]}
  OBVIOUS
<1>5. Kinds!ListsOnce(s, (1..Len(s)) \ {p}, T)
  <2>1. \A q, r \in 1..Len(s) : s[q] = s[r] => q = r
    BY <1>1 DEF IsInjective
  <2>2. \A q \in (1..Len(s)) \ {p} : s[q] \in T
    BY <2>1, <1>1, <1>4 DEF Range
  <2>3. \A x \in T : \E q \in (1..Len(s)) \ {p} : s[q] = x
    BY <1>1, <1>4 DEF Range
  <2>4. (1..Len(s)) \ {p} \subseteq 1..Len(s)
    OBVIOUS
  <2>5. QED
    BY <2>1, <2>2, <2>3, <2>4 DEF Kinds!ListsOnce
<1>6. t = Kinds!RemoveAt(s, p)
  BY <1>0, Zenon DEF RemoveAt, Kinds!RemoveAt
<1>7. t \in Seq(Nat \ {0}) /\ Len(t) = Len(s) - 1 /\ Kinds!ListsOnce(t, 1..(Len(s) - 1), T)
  BY <1>3, <1>5, <1>6, Kinds!RemoveAtLists
<1>8. Range(t) = T /\ IsInjective(t)
  BY <1>7, ListsOnceRange
<1>9. t \in Seq(Adds)
  <2>1. T \subseteq Adds
    BY <1>1, <1>4 DEF Range
  <2>2. DOMAIN t = 1..Len(t) /\ Len(t) \in Nat /\ t \in [1..Len(t) -> Nat \ {0}]
    BY <1>7, LenProperties
  <2>3. \A i \in 1..Len(t) : t[i] \in Adds
    BY <2>1, <2>2, <1>8 DEF Range
  <2>4. t \in [1..Len(t) -> Adds]
    BY <2>2, <2>3
  <2>5. QED
    BY <2>2, <2>4, SeqDef
<1>10. QED
  BY <1>0, <1>4, <1>7, <1>8, <1>9

\* The job is found in its list by its id.
LEMMA FoundById ==
  ASSUME TieredInv, NEW a0 \in Adds, ValidJob(a0), NEW s, s = labelToInsertJobs[job[a0].label]
  PROVE  LET p == SelectInSeq(s, LAMBDA a : job[a].id = job[a0].id)
         IN  p \in 1..Len(s) /\ s[p] = a0
<1> DEFINE I == {i \in 1..Len(s) : job[s[i]].id = job[a0].id}
           p == SelectInSeq(s, LAMBDA a : job[a].id = job[a0].id)
<1>1. job[a0].label \in Labels /\ a0 \in Range(s) /\ s \in Seq(Adds)
  BY JobFacts DEF J
<1>2. Len(s) \in Nat /\ DOMAIN s = 1..Len(s)
  BY <1>1, LenProperties
<1>3. \A i \in 1..Len(s) : s[i] \in Adds /\ ValidJob(s[i])
  BY <1>1, <1>2, JobFacts DEF Range
<1>4. \A i \in 1..Len(s) : job[s[i]].id = job[a0].id => s[i] = a0
  BY <1>3, JobFacts
<1>5. PICK q \in 1..Len(s) : s[q] = a0
  BY <1>1, <1>2 DEF Range
<1>6. I # {} /\ I \subseteq Nat
  BY <1>2, <1>5
<1>7. IsInjective(s)
  BY <1>1 DEF TieredInv, JobsMatchFlat
<1>8. \A x \in I : x = q
  BY <1>2, <1>4, <1>5, <1>7 DEF IsInjective
<1>9. p = IF I = {} THEN 0 ELSE Min(I)
  BY DEF SelectInSeq
<1>10. q \in I
  BY <1>5
<1> HIDE DEF I, p
<1>11. Min(I) = q
  <2>1. \A y \in I : q <= y
    BY <1>2, <1>8
  <2>2. QED
    BY <2>1, <1>8, <1>10 DEF Min
<1>12. QED
  BY <1>5, <1>6, <1>9, <1>11 DEF p

\* What the other jobs are made of.
LEMMA RemovedJobsType ==
  ASSUME TieredInv, NEW R, NEW up, Removes(R, up)
  PROVE  \A b \in Adds \ R : job'[b] \in {NoJob} \cup J
<1> SUFFICES ASSUME NEW b \in Adds \ R
             PROVE  job'[b] \in {NoJob} \cup J
  OBVIOUS
<1>1. CASE ValidJob(b)
  BY <1>1, FollowingJob
<1>2. CASE ~ValidJob(b)
  BY <1>2, JobFacts DEF Removes
<1>3. QED
  BY <1>1, <1>2

\* What a worker removes when its job is still valid: the vector and its job,
\* while the job of the vector that moves gets the freed id.
LEMMA RemoveIngestedFacts ==
  ASSUME TieredInv, NEW w \in Workers, NEW a0 \in Adds, a0 = task[w], ValidJob(a0),
         RemoveIngested(w)
  PROVE  /\ \E up : Removes({a0}, up)
         /\ flat' \in FlatOf(Adds) /\ FlatLookupIsInverse'
         /\ Count(flat)' = Count(flat) - 1
         /\ job' \in [Adds -> {NoJob} \cup J] /\ job'[a0] = NoJob
         /\ UNCHANGED <<invalidJobs, currInvalidJobId>>
<1> DEFINE l  == job[a0].label
           id == job[a0].id
           n  == Count(flat)
           s  == labelToInsertJobs[l]
           p  == SelectInSeq(s, LAMBDA a : job[a].id = id)
           lists == [labelToInsertJobs EXCEPT ![l] = RemoveAt(@, p)]
           up == [k \in {id} \ {n} |-> <<n, flat.labels[n]>>]
<1>1. /\ l \in Labels /\ id \in 1..n /\ flat.vectors[id] = a0 /\ flat.labels[id] = l
      /\ a0 \in Range(s) /\ s \in Seq(Adds) /\ labelToInsertJobs \in [Labels -> Seq(Adds)]
  BY JobFacts DEF J
<1>2. /\ labelToInsertJobs' = lists
      /\ flat' = DeleteVectorById(flat, l, id)
      /\ job' = [Renamed(job, lists, up) EXCEPT ![a0] = NoJob]
      /\ UNCHANGED <<invalidJobs, currInvalidJobId>>
  BY DEF RemoveIngested
<1>3. Kinds!FlatOK(Adds, flat') /\ Kinds!Removed(flat, flat', id)
  <2>1. Kinds!FlatOK(Adds, flat) /\ IsMulti \in BOOLEAN
    BY BufferOK, IsMultiAssumption
  <2> HIDE DEF l, id, n
  <2>2. flat' = Kinds!DeleteVectorById(flat, l, id)
    BY <1>2, Zenon DEF DeleteVectorById, Kinds!DeleteVectorById, IsLabelExists,
       Kinds!IsLabelExists, RemoveVector, Kinds!RemoveVector, ReplaceIdOfLabel,
       Kinds!ReplaceIdOfLabel, SwapLastInto, Kinds!SwapLastInto, Count, Kinds!Count,
       SelectInSeq, Kinds!SelectInSeq, SelectLastInSubSeq, Kinds!SelectLastInSubSeq,
       RemoveAt, Kinds!RemoveAt, DeleteSingle, Kinds!DeleteSingle, Min, Kinds!Min, Max, Kinds!Max
  <2>3. Count(flat) = Kinds!Count(flat)
    BY DEF Count, Kinds!Count
  <2>4. CASE IsMulti
    <3>1. l \in Labels /\ id \in 1..Kinds!Count(flat) /\ flat.labels[id] = l
      BY <1>1, <2>3 DEF n
    <3>2. QED
      BY <2>1, <2>2, <2>4, <3>1, Kinds!DeleteByIdDeletes
  <2>5. CASE ~IsMulti
    <3>1. id \in Kinds!Holding(flat, l)
      BY <1>1, <2>3 DEF Kinds!Holding, n
    <3>2. IsLabelExists(flat, l)
      BY <1>1, LabelsInBuffer DEF n
    <3>3. Kinds!IsLabelExists(flat, l)
      BY <3>2 DEF IsLabelExists, Kinds!IsLabelExists
    <3>4. flat' = Kinds!DeleteSingle(flat, l).flat
      BY <2>2, <2>5, <3>3 DEF Kinds!DeleteVectorById
    <3>5. /\ Kinds!Deleted(Adds, flat, l, Kinds!DeleteSingle(flat, l))
          /\ Kinds!Removed(flat, Kinds!DeleteSingle(flat, l).flat, id)
      BY <1>1, <2>1, <2>5, <3>1, <3>3, Kinds!DeleteSingleDeletes
    <3>6. QED
      BY <3>4, <3>5 DEF Kinds!Deleted
  <2>6. QED
    BY <2>4, <2>5
<1>4. flat' \in FlatOf(Adds) /\ FlatLookupIsInverse'
  BY <1>3, BufferStaysOK
<1>5. Count(flat)' = n - 1
  BY <1>3 DEF Kinds!Removed, Kinds!Count, Count
<1>6. Compacts(flat, flat', {a0}, up)
  BY <1>1, <1>3, RemovalCompacts
<1>7. p \in 1..Len(s) /\ s[p] = a0
  BY FoundById
<1> HIDE DEF p
<1>8. \A k \in Labels : IsInjective(labelToInsertJobs[k])
  BY DEF TieredInv, JobsMatchFlat
<1>9. /\ RemoveAt(s, p) \in Seq(Adds) /\ Len(RemoveAt(s, p)) = Len(s) - 1
      /\ Range(RemoveAt(s, p)) = Range(s) \ {a0} /\ IsInjective(RemoveAt(s, p))
  BY <1>1, <1>7, <1>8, RemoveAtRange
<1>10. lists \in [Labels -> Seq(Adds)]
  BY <1>1, <1>9
<1>11. \A k \in Labels : /\ Range(lists[k]) = Range(labelToInsertJobs[k]) \ {a0}
                         /\ IsInjective(lists[k])
                         /\ ~IsMulti => Len(lists[k]) <= 1
  <2> SUFFICES ASSUME NEW k \in Labels
               PROVE  /\ Range(lists[k]) = Range(labelToInsertJobs[k]) \ {a0}
                      /\ IsInjective(lists[k])
                      /\ ~IsMulti => Len(lists[k]) <= 1
    OBVIOUS
  <2>1. ~IsMulti => Len(labelToInsertJobs[k]) <= 1
    BY DEF TieredInv, JobListsShort
  <2>2. CASE k = l
    <3>1. lists[k] = RemoveAt(s, p)
      BY <2>2, <1>1
    <3>2. Len(s) \in Nat
      BY <1>1, LenProperties
    <3> HIDE DEF lists, s, l
    <3>3. QED
      BY <2>1, <2>2, <3>1, <3>2, <1>9 DEF s
  <2>3. CASE k # l
    <3>1. lists[k] = labelToInsertJobs[k]
      BY <2>3, <1>1
    <3>2. a0 \notin Range(labelToInsertJobs[k])
      BY <2>3, JobFacts
    <3> HIDE DEF lists
    <3>3. QED
      BY <2>1, <3>1, <3>2, <1>8
  <2>4. QED
    BY <2>2, <2>3
<1> HIDE DEF lists, up, s
<1>12. /\ \A b \in Adds \ {a0} :
             /\ ~ValidJob(b) => Renamed(job, lists, up)[b] = job[b]
             /\ ValidJob(b) => Follows(Renamed(job, lists, up), b, flat', up)
  BY <1>6, <1>11, RenamedFollow
<1>13. \A b \in Adds : job'[b] = IF b = a0 THEN NoJob ELSE Renamed(job, lists, up)[b]
  <2>1. Renamed(job, lists, up) = [b \in Adds |-> Renamed(job, lists, up)[b]]
    BY DEF Renamed
  <2>2. QED
    BY <2>1, <1>2
<1>14. DOMAIN job' = Adds /\ job' = [b \in Adds |-> job'[b]]
  BY <1>2 DEF Renamed
<1>15. ~ValidJob(a0)'
  BY <1>13 DEF ValidJob, HasJob
<1>16. \A b \in Adds \ {a0} : /\ ~ValidJob(b) => job'[b] = job[b]
                              /\ ValidJob(b) => Follows(job', b, flat', up)
  BY <1>12, <1>13 DEF Follows
<1>17. Removes({a0}, up)
  BY <1>2, <1>6, <1>10, <1>11, <1>15, <1>16 DEF Removes
<1>18. job' \in [Adds -> {NoJob} \cup J]
  BY <1>13, <1>14, <1>16, <1>17, RemovedJobsType
<1>19. QED
  BY <1>2, <1>4, <1>5, <1>13, <1>17, <1>18

\* A label that is not in an exact lookup is not in the buffer.
LEMMA LabelsInBufferNext ==
  ASSUME flat' \in FlatOf(Adds), FlatLookupIsInverse', NEW l \in Labels
  PROVE  IsLabelExists(flat, l)' <=> \E i \in 1..Count(flat)' : flat'.labels[i] = l
<1>1. PICK s \in Seq(Nat \ {0}) : s = flat'.ids[l]
  BY DEF FlatOf
<1>2. Range(s) = {i \in 1..Count(flat)' : flat'.labels[i] = l}
  BY <1>1 DEF FlatLookupIsInverse
<1>3. s # <<>> <=> Range(s) # {}
  <2>1. Len(s) \in Nat /\ DOMAIN s = 1..Len(s) /\ (s = <<>> <=> Len(s) = 0)
    BY LenProperties, EmptySeq
  <2>2. Len(s) # 0 => 1 \in DOMAIN s
    BY <2>1
  <2>3. Range(s) # {} <=> \E i : i \in DOMAIN s
    BY DEF Range
  <2>4. Len(s) = 0 => ~ \E i : i \in DOMAIN s
    BY <2>1
  <2>5. QED
    BY <2>1, <2>2, <2>3, <2>4
<1>4. QED
  BY <1>1, <1>2, <1>3 DEF IsLabelExists

\* A removal brings no label into the buffer.
LEMMA GoneStaysGone ==
  ASSUME TieredInv, flat' \in FlatOf(Adds), FlatLookupIsInverse', NEW R, OthersStay(R),
         NEW l \in Labels, ~IsLabelExists(flat, l)
  PROVE  ~IsLabelExists(flat, l)'
<1>1. \A i \in 1..Count(flat) : flat.labels[i] # l
  BY LabelsInBuffer
<1>2. \A i \in 1..Count(flat)' : flat'.labels[i] # l
  BY <1>1 DEF OthersStay
<1>3. QED
  BY <1>2, LabelsInBufferNext

\* A worker ends a job: whether it is still valid or became invalid while the
\* vector was being indexed, nobody else's job or vector is lost.
LEMMA FinishJobInv ==
  ASSUME TieredInv, NEW w \in Workers, FinishJob(w)
  PROVE  TieredInv'
<1>1. /\ pc[w] = "finish" /\ flatReaders = {} /\ JobDone(w)
      /\ UNCHANGED <<element, lookup, queue, locks, writeMode, op, blob, adds, queries>>
  BY DEF FinishJob, FlatLockable
<1>2. PICK a0 \in Adds : a0 = task[w] /\ HasJob(a0)
  BY <1>1 DEF TieredInv, JobsOwned, TypeOK, ControlType
<1>3. CASE ~job[a0].isValid
  <2>1. /\ EraseInvalid(job[task[w]].id)
        /\ job' = [job EXCEPT ![task[w]] = NoJob]
        /\ UNCHANGED <<flat, labelToInsertJobs, currInvalidJobId>>
    BY <1>2, <1>3 DEF FinishJob
  <2>2. QED
    BY <2>1, <1>1, <1>2, <1>3, ForgetInvalidJob DEF tiers
<1>4. CASE job[a0].isValid
  <2>1. ValidJob(a0) /\ RemoveIngested(w)
    BY <1>2, <1>4 DEF FinishJob, ValidJob
  <2>2. PICK up : Removes({a0}, up)
    BY <1>2, <2>1, RemoveIngestedFacts
  <2>3. /\ flat' \in FlatOf(Adds) /\ FlatLookupIsInverse'
        /\ Count(flat)' = Count(flat) - 1
        /\ job' \in [Adds -> {NoJob} \cup J] /\ job'[a0] = NoJob
    BY <1>2, <2>1, RemoveIngestedFacts
  <2>4. labelToInsertJobs' \in [Labels -> Seq(Adds)]
    BY <2>2 DEF Removes
  <2>5. ~HasJob(a0)' /\ ~ValidJob(a0)'
    BY <2>3 DEF HasJob, ValidJob
  <2>6. /\ JobsMatchFlat' /\ JobListsShort' /\ OthersStay({a0})
        /\ \A b \in Adds \ {a0} :
             /\ HasJob(b) <=> HasJob(b)'
             /\ HasJob(b) => /\ job'[b].label = job[b].label
                             /\ job'[b].isValid = job[b].isValid
                             /\ ~job[b].isValid => job'[b] = job[b]
    <3>1. JobsMatchFlat' /\ JobListsShort' /\ OthersStay({a0}) /\ OtherJobsStay({a0})
      BY <2>2, RemovalFollowed
    <3>2. QED
      BY <3>1 DEF OtherJobsStay
  <2>7. /\ JobsOwned'
        /\ pc' \in [Threads -> WorkerPc \cup MainPc] /\ pc'[w] = "idle"
        /\ \A s \in Threads : s # w => pc'[s] = pc[s]
        /\ pc'[MainThread] = pc[MainThread]
        /\ task' \in [Workers -> Adds \cup {NoJob}]
        /\ \A v \in Workers : v # w => task'[v] = task[v] /\ task[v] # a0
        /\ Submitting => op.add # a0
        /\ Submitting <=> Submitting'
    BY <1>1, <1>2, <2>3, <2>6, JobDoneOwned
  <2>8. /\ UNCHANGED <<invalidJobs, currInvalidJobId, element, lookup, queue, flatReaders,
                       mainReaders, mainWriter, dataGuard, writeMode, op, blob, adds, query,
                       promised, gone>>
    BY <1>1, <2>1 DEF RemoveIngested, locks, queries
  <2>9. /\ \A s \in Threads : Storing(s) <=> Storing(s)'
        /\ \A s \in Threads : pc[s] = "index" <=> pc'[s] = "index"
        /\ \A v \in Workers : pc[v] \in {"store", "store_x", "index"} => v # w
    BY <1>1, <2>7 DEF Storing
  <2>10. TypeOK'
    <3>1. TiersType'
      BY <2>3, <2>8 DEF TieredInv, TypeOK, TiersType, FlatOf
    <3>2. JobsType'
      BY <2>3, <2>4, <2>8, JobFacts DEF TieredInv, TypeOK, JobsType, J
    <3>3. ControlType'
      BY <2>7, <2>8 DEF TieredInv, TypeOK, ControlType, WorkerPc, Threads
    <3>4. QED
      BY <3>1, <3>2, <3>3, <2>8 DEF TieredInv, TypeOK, LocksType, QueriesType
  <2>11. CallConsistent'
    BY <2>7, <2>8 DEF TieredInv, CallConsistent, Busy
  <2>12. NewIsFresh'
    <3>1. \A b \in Adds : Fresh(b) => Fresh(b)'
      BY <1>2, <2>6, <2>8 DEF Fresh, HasJob
    <3>2. op.kind = "add" => op.add \in Adds
      BY DEF TieredInv, CallConsistent
    <3>3. pc[MainThread] = "index" => job'[op.add] = NoJob
      BY <3>2, <2>6, <1>2 DEF TieredInv, NewIsFresh, CallConsistent, AddOnly, HasJob
    <3>4. QED
      BY <3>1, <3>2, <3>3, <2>7, <2>8 DEF TieredInv, NewIsFresh
  <2>13. NotStoredYet'
    <3> SUFFICES ASSUME NEW b \in Adds, HasJob(b)', element[b] # NoElement
                 PROVE  \E v \in Workers : task'[v] = b /\ pc'[v] \in {"index", "finish"}
      BY <2>8 DEF NotStoredYet
    <3>1. b # a0 /\ HasJob(b)
      BY <2>5, <2>6
    <3>2. PICK v \in Workers : task[v] = b /\ pc[v] \in {"index", "finish"}
      BY <3>1 DEF TieredInv, NotStoredYet
    <3>3. v # w
      BY <3>1, <3>2, <1>2
    <3>4. QED
      BY <3>2, <3>3, <2>7 DEF Threads
  <2>14. LocksHeld'
    BY <2>8, <2>9 DEF TieredInv, LocksHeld, Threads
  <2>15. CopyIsCurrent'
    <3>1. ASSUME NEW v \in Workers, pc'[v] \in {"store", "store_x"}
          PROVE  FALSE
      <4>1. Storing(v)
        BY <3>1, <2>9 DEF Storing, Threads
      <4>2. QED
        BY <4>1, <1>1 DEF TieredInv, LocksHeld
    <3>2. ASSUME NEW s \in Threads, pc'[s] = "index"
          PROVE  (element[AddOf(s)] # NoElement /\ element[AddOf(s)].inProcess)'
      <4>1. s # w /\ pc[s] = "index"
        BY <3>2, <2>7
      <4>2. AddOf(s)' = AddOf(s)
        BY <4>1, <2>7, <2>8 DEF AddOf, Threads
      <4>3. QED
        BY <4>1, <4>2, <2>8 DEF TieredInv, CopyIsCurrent
    <3>3. QED
      BY <3>1, <3>2 DEF CopyIsCurrent
  <2>16. LookupMatchesElements'
    BY <2>8 DEF TieredInv, LookupMatchesElements, Live
  <2>17. BufferedNotInHNSW'
    <3> SUFFICES ASSUME ~IsMulti, NEW i \in 1..Count(flat)', lookup[flat'.labels[i]] # <<>>
                 PROVE  \/ /\ lookup[flat'.labels[i]] = <<flat'.vectors[i]>>
                           /\ \E v \in Workers : /\ task'[v] = flat'.vectors[i]
                                                 /\ pc'[v] \in {"index", "finish"}
                        \/ /\ pc'[MainThread] = "add_del_hnsw" /\ op.label = flat'.labels[i]
                           /\ flat'.vectors[i] = op.add
      BY <2>8 DEF BufferedNotInHNSW
    <3>1. PICK j \in 1..Count(flat) :
             /\ flat.labels[i]' = flat.labels[j] /\ flat.vectors[i]' = flat.vectors[j]
             /\ flat.vectors[j] # a0
      BY <2>6 DEF OthersStay
    <3>2. CASE /\ lookup[flat.labels[j]] = <<flat.vectors[j]>>
               /\ \E v \in Workers : task[v] = flat.vectors[j] /\ pc[v] \in {"index", "finish"}
      <4>1. PICK v \in Workers : task[v] = flat.vectors[j] /\ pc[v] \in {"index", "finish"}
        BY <3>2
      <4>2. v # w
        BY <4>1, <3>1, <1>2
      <4>3. task'[v] = flat'.vectors[i] /\ pc'[v] \in {"index", "finish"}
        BY <4>1, <4>2, <3>1, <2>7 DEF Threads
      <4>4. QED
        BY <4>3, <3>1, <3>2
    <3>3. CASE /\ pc[MainThread] = "add_del_hnsw" /\ op.label = flat.labels[j]
               /\ flat.vectors[j] = op.add
      BY <3>1, <3>3, <2>7
    <3>4. QED
      BY <3>1, <3>2, <3>3 DEF TieredInv, BufferedNotInHNSW
  <2>18. LabelCleared'
    <3>1. pc[MainThread] \in {"del_hnsw", "gc", "recheck", "add_inplace", "store", "store_x"}
            => op.label \in Labels
      BY DEF TieredInv, CallConsistent, AddOnly, Busy
    <3>2. op.label \in Labels /\ ~IsLabelExists(flat, op.label)
            => ~IsLabelExists(flat, op.label)'
      <4>1. \A l \in Labels : ~IsLabelExists(flat, l) => ~IsLabelExists(flat, l)'
        BY <2>3, <2>6, GoneStaysGone
      <4>2. QED
        BY <2>8, <4>1
    <3>3. QED
      BY <3>1, <3>2, <2>7, <2>8 DEF TieredInv, LabelCleared, ClearsLabel
  <2>19. InvalidJobsTracked'
    <3>1. \A b \in Adds : HasJob(b)' /\ ~job'[b].isValid <=> HasJob(b) /\ ~job[b].isValid
      BY <1>2, <1>4, <2>5, <2>6
    <3>2. \A b \in Adds : HasJob(b) /\ ~job[b].isValid => job'[b] = job[b]
      BY <1>4, <2>6
    <3>3. \A i \in DOMAIN invalidJobs : invalidJobs[i] \in Adds
      BY DEF TieredInv, TypeOK, JobsType
    <3>4. QED
      BY <3>1, <3>2, <3>3, <2>8 DEF TieredInv, InvalidJobsTracked
  <2>20. (InvalidIdsOld /\ FlatWithinLimit /\ RoomInFlat)'
    <3>1. Count(flat) \in Nat /\ FlatLimit \in Nat
      BY BoundsAssumption, CountType DEF TieredInv, TypeOK, TiersType, FlatOf
    <3>2. QED
      BY <3>1, <2>3, <2>7, <2>8 DEF TieredInv, InvalidIdsOld, FlatWithinLimit, RoomInFlat
  <2>21. QED
    BY <2>3, <2>6, <2>7, <2>10, <2>11, <2>12, <2>13, <2>14, <2>15, <2>16, <2>17, <2>18, <2>19, <2>20
    DEF TieredInv
<1>5. QED
  BY <1>2, <1>3, <1>4 DEF TieredInv, TypeOK, JobsType, HasJob


-----------------------------------------------------------------------------
(* deleteVector on the buffer.                                              *)

\* What setAndSaveInvalidJob does to the lookup of invalid jobs, job by job.
SavedInvalid(js) ==
  /\ currInvalidJobId' = currInvalidJobId + Len(js)
  /\ DOMAIN invalidJobs' =
       DOMAIN invalidJobs \cup {currInvalidJobId + p - 1 : p \in 1..Len(js)}
  /\ \A p \in 1..Len(js) : invalidJobs'[currInvalidJobId + p - 1] = js[p]
  /\ \A i \in DOMAIN invalidJobs : invalidJobs'[i] = invalidJobs[i]

\* The jobs of js are invalid and known by their invalid ids.
NowInvalid(js) ==
  \A p \in 1..Len(js) :
    /\ job'[js[p]] # NoJob /\ ~job'[js[p]].isValid
    /\ job'[js[p]].id = currInvalidJobId + p - 1

\* In a list without repetitions a job is found at its position.
LEMMA PositionFound ==
  ASSUME NEW s \in Seq(Adds), IsInjective(s), NEW q \in 1..Len(s), NEW a, a = s[q]
  PROVE  InvalidId(s, a) = currInvalidJobId + q - 1
<1> DEFINE I == {i \in 1..Len(s) : s[i] = a}
<1>1. DOMAIN s = 1..Len(s) /\ Len(s) \in Nat
  BY LenProperties
<1>2. q \in I /\ \A x \in I : x = q
  BY <1>1 DEF IsInjective
<1>3. SelectInSeq(s, LAMBDA b : b = a) = IF I = {} THEN 0 ELSE Min(I)
  BY DEF SelectInSeq
<1> HIDE DEF I
<1>4. Min(I) = q
  <2>1. \A y \in I : q <= y
    BY <1>1, <1>2
  <2>2. QED
    BY <2>1, <1>2 DEF Min
<1>5. SelectInSeq(s, LAMBDA b : b = a) = q
  BY <1>2, <1>3, <1>4
<1>6. QED
  BY <1>5 DEF InvalidId

\* Making the jobs of a list invalid gives them the next invalid ids in turn.
LEMMA InvalidatesJobs ==
  ASSUME TieredInv, NEW js \in Seq(Adds), IsInjective(js), SaveInvalid(js)
  PROVE  /\ SavedInvalid(js)
         /\ \A b \in Adds \ Range(js) : Invalidated(js)[b] = job[b]
         /\ \A p \in 1..Len(js) :
              Invalidated(js)[js[p]] = [label |-> job[js[p]].label,
                                        id |-> currInvalidJobId + p - 1, isValid |-> FALSE]
<1> DEFINE c == currInvalidJobId
           D == DOMAIN invalidJobs \cup {InvalidId(js, a) : a \in Range(js)}
<1>1. /\ c \in Nat /\ DOMAIN invalidJobs \subseteq Nat
      /\ \A i \in DOMAIN invalidJobs : i < c
  BY DEF TieredInv, TypeOK, JobsType, InvalidIdsOld
<1>2. DOMAIN js = 1..Len(js) /\ Len(js) \in Nat /\ \A p \in 1..Len(js) : js[p] \in Adds
  BY LenProperties, ElementOfSeq
<1>3. \A p \in 1..Len(js) : InvalidId(js, js[p]) = c + p - 1
  BY PositionFound
<1>4. Range(js) = {js[p] : p \in 1..Len(js)}
  BY <1>2 DEF Range
<1>5. D = DOMAIN invalidJobs \cup {c + p - 1 : p \in 1..Len(js)}
  BY <1>3, <1>4
<1>6. /\ invalidJobs' = [i \in D |-> IF i < c THEN invalidJobs[i] ELSE js[i - c + 1]]
      /\ currInvalidJobId' = c + Len(js)
  BY DEF SaveInvalid
<1>7. SavedInvalid(js)
  <2> HIDE DEF D
  <2>1. DOMAIN invalidJobs' = D
    BY <1>6
  <2>2. \A p \in 1..Len(js) : invalidJobs'[c + p - 1] = js[p]
    <3> SUFFICES ASSUME NEW p \in 1..Len(js)
                 PROVE  invalidJobs'[c + p - 1] = js[p]
      OBVIOUS
    <3>1. ~(c + p - 1 < c) /\ (c + p - 1) - c + 1 = p /\ c + p - 1 \in D
      BY <1>1, <1>2, <1>5
    <3>2. QED
      BY <3>1, <1>6
  <2>3. \A i \in DOMAIN invalidJobs : invalidJobs'[i] = invalidJobs[i]
    BY <1>1, <1>5, <1>6
  <2>4. QED
    BY <2>1, <2>2, <2>3, <1>5, <1>6 DEF SavedInvalid
<1>8. \A b \in Adds \ Range(js) : Invalidated(js)[b] = job[b]
  BY DEF Invalidated
<1>9. \A p \in 1..Len(js) :
         Invalidated(js)[js[p]] = [label |-> job[js[p]].label, id |-> c + p - 1,
                                   isValid |-> FALSE]
  <2> SUFFICES ASSUME NEW p \in 1..Len(js)
               PROVE  Invalidated(js)[js[p]] = [label |-> job[js[p]].label, id |-> c + p - 1,
                                                isValid |-> FALSE]
    OBVIOUS
  <2>1. js[p] \in Range(js) /\ js[p] \in Adds
    BY <1>2, <1>4
  <2>2. Invalidated(js)[js[p]] = [label |-> job[js[p]].label, id |-> InvalidId(js, js[p]),
                                  isValid |-> FALSE]
    BY <2>1 DEF Invalidated
  <2>3. QED
    BY <2>2, <1>3
<1>10. QED
  BY <1>7, <1>8, <1>9

\* The lookup of invalid jobs stays exact when jobs become invalid.
LEMMA InvalidatedTracked ==
  ASSUME TieredInv, NEW js \in Seq(Adds), \A a \in Range(js) : ValidJob(a),
         SavedInvalid(js), NowInvalid(js),
         \A b \in Adds \ Range(js) :
            /\ HasJob(b)' /\ ~job'[b].isValid <=> HasJob(b) /\ ~job[b].isValid
            /\ HasJob(b) /\ ~job[b].isValid => job'[b].id = job[b].id
  PROVE  /\ InvalidJobsTracked' /\ InvalidIdsOld'
         /\ DOMAIN invalidJobs' \subseteq Nat /\ currInvalidJobId' \in Nat
         /\ \A i \in DOMAIN invalidJobs' : invalidJobs'[i] \in Adds
<1> DEFINE c == currInvalidJobId
<1>0. DOMAIN js = 1..Len(js) /\ Len(js) \in Nat /\ \A p \in 1..Len(js) : js[p] \in Adds
  BY LenProperties, ElementOfSeq
<1>1. c \in Nat /\ DOMAIN invalidJobs \subseteq Nat
      /\ invalidJobs \in [DOMAIN invalidJobs -> Adds]
  BY DEF TieredInv, TypeOK, JobsType
<1>2. \A i \in DOMAIN invalidJobs :
         /\ i < c /\ invalidJobs[i] \in Adds /\ HasJob(invalidJobs[i])
         /\ ~job[invalidJobs[i]].isValid /\ job[invalidJobs[i]].id = i
         /\ invalidJobs[i] \notin Range(js)
  BY <1>1 DEF TieredInv, InvalidIdsOld, InvalidJobsTracked, ValidJob
<1>3. \A i \in DOMAIN invalidJobs' :
         \/ i \in DOMAIN invalidJobs /\ invalidJobs'[i] = invalidJobs[i]
         \/ \E p \in 1..Len(js) : i = c + p - 1 /\ invalidJobs'[i] = js[p]
  BY DEF SavedInvalid
<1>4. InvalidIdsOld'
  BY <1>0, <1>1, <1>2, <1>3 DEF SavedInvalid, InvalidIdsOld
<1>5. DOMAIN invalidJobs' \subseteq Nat /\ currInvalidJobId' \in Nat
  BY <1>0, <1>1, <1>3 DEF SavedInvalid
<1>6. \A i \in DOMAIN invalidJobs' : invalidJobs'[i] \in Adds
  BY <1>0, <1>2, <1>3
<1>7. (\A a \in Adds : HasJob(a) /\ ~job[a].isValid =>
         job[a].id \in DOMAIN invalidJobs /\ invalidJobs[job[a].id] = a)'
  <2> SUFFICES ASSUME NEW a \in Adds, HasJob(a)', ~job'[a].isValid
               PROVE  job'[a].id \in DOMAIN invalidJobs' /\ invalidJobs'[job'[a].id] = a
    OBVIOUS
  <2>1. CASE a \in Range(js)
    <3>1. PICK p \in 1..Len(js) : js[p] = a
      BY <2>1, <1>0 DEF Range
    <3>2. job'[a].id = c + p - 1
      BY <3>1 DEF NowInvalid
    <3>3. QED
      BY <3>1, <3>2 DEF SavedInvalid
  <2>2. CASE a \notin Range(js)
    <3>1. HasJob(a) /\ ~job[a].isValid /\ job'[a].id = job[a].id
      BY <2>2
    <3>2. job[a].id \in DOMAIN invalidJobs /\ invalidJobs[job[a].id] = a
      BY <3>1 DEF TieredInv, InvalidJobsTracked
    <3>3. QED
      BY <3>1, <3>2 DEF SavedInvalid
  <2>3. QED
    BY <2>1, <2>2
<1>8. (\A i \in DOMAIN invalidJobs :
         LET a == invalidJobs[i] IN HasJob(a) /\ ~job[a].isValid /\ job[a].id = i)'
  <2> SUFFICES ASSUME NEW i \in DOMAIN invalidJobs'
               PROVE  (LET a == invalidJobs[i]
                       IN  HasJob(a) /\ ~job[a].isValid /\ job[a].id = i)'
    OBVIOUS
  <2>1. CASE i \in DOMAIN invalidJobs /\ invalidJobs'[i] = invalidJobs[i]
    <3>1. PICK a \in Adds \ Range(js) : a = invalidJobs[i]
      BY <2>1, <1>2
    <3>2. QED
      BY <2>1, <3>1, <1>2
  <2>2. CASE \E p \in 1..Len(js) : i = c + p - 1 /\ invalidJobs'[i] = js[p]
    <3>1. PICK p \in 1..Len(js) : i = c + p - 1 /\ invalidJobs'[i] = js[p]
      BY <2>2
    <3>2. PICK a : a = js[p]
      OBVIOUS
    <3>3. HasJob(a)' /\ ~job'[a].isValid /\ job'[a].id = i
      BY <3>1, <3>2 DEF NowInvalid, HasJob
    <3>4. QED
      BY <3>1, <3>2, <3>3 DEF HasJob
  <2>3. QED
    BY <2>1, <2>2, <1>3
<1>9. QED
  BY <1>4, <1>5, <1>6, <1>7, <1>8 DEF InvalidJobsTracked

\* The jobs of a label are those of the vectors that carry it.
LEMMA JobsOfLabel ==
  ASSUME TieredInv, NEW l \in Labels
  PROVE  /\ \A i \in 1..Count(flat) :
              flat.vectors[i] \in Range(labelToInsertJobs[l]) <=> flat.labels[i] = l
         /\ \A k \in Labels : k # l =>
              Range(labelToInsertJobs[k]) \cap Range(labelToInsertJobs[l]) = {}
<1>1. \A i \in 1..Count(flat) :
         flat.vectors[i] \in Range(labelToInsertJobs[l]) => flat.labels[i] = l
  BY JobFacts
<1>2. \A i \in 1..Count(flat) :
         flat.labels[i] = l => flat.vectors[i] \in Range(labelToInsertJobs[l])
  BY JobFacts
<1>3. \A k \in Labels : k # l => Range(labelToInsertJobs[k]) \cap Range(labelToInsertJobs[l]) = {}
  BY JobFacts
<1>4. QED
  BY <1>1, <1>2, <1>3

\* What deleteVector leaves of the buffer.
LEMMA DeletionCompacts ==
  ASSUME TieredInv, NEW l \in Labels, NEW r, r = DeleteVectorAndGetUpdatedIds(flat, l),
         flat' = r.flat
  PROVE  /\ Compacts(flat, flat', Range(labelToInsertJobs[l]), r.updated)
         /\ flat' \in FlatOf(Adds) /\ FlatLookupIsInverse' /\ Count(flat)' \in 0..Count(flat)
         /\ ~IsLabelExists(flat, l)'
<1>1. Kinds!FlatOK(Adds, flat) /\ IsMulti \in BOOLEAN
  BY BufferOK, IsMultiAssumption
<1>2. r = Kinds!DeleteVectorAndGetUpdatedIds(flat, l)
  BY Zenon DEF DeleteVectorAndGetUpdatedIds, Kinds!DeleteVectorAndGetUpdatedIds,
     IsLabelExists, Kinds!IsLabelExists, RemoveVector, Kinds!RemoveVector, ReplaceIdOfLabel,
     Kinds!ReplaceIdOfLabel, SwapLastInto, Kinds!SwapLastInto, Count, Kinds!Count,
     SelectLastInSubSeq, Kinds!SelectLastInSubSeq, NoUpdates, Kinds!NoUpdates,
     DeleteSingle, Kinds!DeleteSingle, DeleteMulti, Kinds!DeleteMulti, DeleteRounds,
     Kinds!DeleteRounds, DeleteRound, Kinds!DeleteRound, Max, Kinds!Max
<1>3. Kinds!Deleted(Adds, flat, l, r)
  BY <1>1, <1>2, Kinds!DeletionDeletes
<1>4. /\ Kinds!FlatOK(Adds, flat') /\ Kinds!Follows(flat, l, flat', r.updated)
      /\ Count(flat') \in 0..Count(flat)
      /\ \A i \in 1..Count(flat') : flat'.labels[i] # l
  BY <1>3 DEF Kinds!Deleted, Kinds!Holding, Kinds!Count, Count
<1>5. flat' \in FlatOf(Adds) /\ FlatLookupIsInverse'
  BY <1>4, BufferStaysOK
<1>6. ~IsLabelExists(flat, l)'
  BY <1>4, <1>5, LabelsInBufferNext DEF Count
<1> DEFINE R == Range(labelToInsertJobs[l])
           up == r.updated
<1>7. \A i \in 1..Count(flat) : flat.vectors[i] \in R <=> flat.labels[i] = l
  BY JobsOfLabel
<1> HIDE DEF R, up
<1>8. /\ DOMAIN up \subseteq 1..Count(flat')
      /\ \A i \in DOMAIN up : up[i] = <<Kinds!From(up, i), flat.labels[Kinds!From(up, i)]>>
      /\ \A i \in 1..Count(flat') : /\ Kinds!From(up, i) \in 1..Count(flat)
                                    /\ flat'.labels[i] = flat.labels[Kinds!From(up, i)]
                                    /\ flat'.vectors[i] = flat.vectors[Kinds!From(up, i)]
      /\ \A i, j \in 1..Count(flat') : Kinds!From(up, i) = Kinds!From(up, j) => i = j
      /\ \A x \in 1..Count(flat) : flat.labels[x] # l =>
           \E j \in 1..Count(flat') : Kinds!From(up, j) = x
  BY <1>4, Zenon DEF Kinds!Follows, Kinds!Count, Count, up
<1>9. Compacts(flat, flat', R, up)
  BY <1>4, <1>7, <1>8 DEF Compacts
<1>10. QED
  BY <1>4, <1>5, <1>6, <1>9 DEF R, up, Count
\* What setAndSaveInvalidJob makes of a job.
LEMMA InvalidJobType ==
  ASSUME TieredInv, NEW js \in Seq(Adds), NEW p \in 1..Len(js), NEW a \in Adds, ValidJob(a)
  PROVE  [label |-> job[a].label, id |-> currInvalidJobId + p - 1, isValid |-> FALSE] \in J
<1>1. job[a].label \in Labels
  BY JobFacts DEF J
<1>2. currInvalidJobId \in Nat /\ Len(js) \in Nat
  BY LenProperties DEF TieredInv, TypeOK, JobsType
<1>3. currInvalidJobId + p - 1 \in Nat
  BY <1>2
<1>4. QED
  BY <1>1, <1>3 DEF J

\* What deleteVector does to a buffered label: its jobs become invalid and leave
\* the label's list, its vectors leave the buffer.
LEMMA DeleteFromFlatFacts ==
  ASSUME TieredInv, pc[MainThread] = "del_flat_x",
         NEW l \in Labels, l = op.label, IsLabelExists(flat, l), DeleteFromFlat,
         NEW js, js = labelToInsertJobs[l]
  PROVE  /\ js \in Seq(Adds) /\ \A a \in Range(js) : a \in Adds /\ ValidJob(a)
         /\ \E up : Removes(Range(js), up)
         /\ flat' \in FlatOf(Adds) /\ FlatLookupIsInverse' /\ Count(flat)' \in 0..Count(flat)
         /\ ~IsLabelExists(flat, l)'
         /\ SavedInvalid(js) /\ NowInvalid(js) /\ Counted(Len(js))
         /\ job' \in [Adds -> {NoJob} \cup J]
<1> DEFINE r     == DeleteVectorAndGetUpdatedIds(flat, l)
           lists == [labelToInsertJobs EXCEPT ![l] = <<>>]
           R     == Range(js)
           up    == r.updated
<1>1. /\ flat' = r.flat
      /\ job' = Renamed(Invalidated(js), lists, up)
      /\ SaveInvalid(js)
      /\ labelToInsertJobs' = lists
      /\ Counted(Len(js))
  BY DEF DeleteFromFlat
<1>2. /\ labelToInsertJobs \in [Labels -> Seq(Adds)] /\ js \in Seq(Adds)
      /\ \A a \in R : a \in Adds /\ ValidJob(a)
  BY JobFacts
<1>3. \A k \in Labels : IsInjective(labelToInsertJobs[k])
  BY DEF TieredInv, JobsMatchFlat
<1>4. /\ SavedInvalid(js)
      /\ \A b \in Adds \ R : Invalidated(js)[b] = job[b]
      /\ \A p \in 1..Len(js) :
           Invalidated(js)[js[p]] = [label |-> job[js[p]].label,
                                     id |-> currInvalidJobId + p - 1, isValid |-> FALSE]
  BY <1>1, <1>2, <1>3, InvalidatesJobs
<1>5. /\ Compacts(flat, flat', R, up)
      /\ flat' \in FlatOf(Adds) /\ FlatLookupIsInverse' /\ Count(flat)' \in 0..Count(flat)
      /\ ~IsLabelExists(flat, l)'
  BY <1>1, DeletionCompacts
<1>6. \A k \in Labels : /\ Range(lists[k]) = Range(labelToInsertJobs[k]) \ R
                        /\ IsInjective(lists[k])
                        /\ ~IsMulti => Len(lists[k]) <= 1
  <2> SUFFICES ASSUME NEW k \in Labels
               PROVE  /\ Range(lists[k]) = Range(labelToInsertJobs[k]) \ R
                      /\ IsInjective(lists[k])
                      /\ ~IsMulti => Len(lists[k]) <= 1
    OBVIOUS
  <2>1. CASE k = l
    <3>1. lists[k] = <<>>
      BY <2>1, <1>2
    <3>2. Range(<<>>) = {} /\ IsInjective(<<>>) /\ Len(<<>>) <= 1
      BY DEF Range, IsInjective
    <3>3. Range(labelToInsertJobs[k]) \ R = {}
      BY <2>1
    <3>4. QED
      BY <3>1, <3>2, <3>3
  <2>2. CASE k # l
    <3>1. lists[k] = labelToInsertJobs[k]
      BY <2>2, <1>2
    <3>2. Range(labelToInsertJobs[k]) \cap R = {}
      BY <2>2, JobsOfLabel
    <3>3. ~IsMulti => Len(labelToInsertJobs[k]) <= 1
      BY DEF TieredInv, JobListsShort
    <3> HIDE DEF lists, R
    <3>4. QED
      BY <3>1, <3>2, <3>3, <1>3
  <2>3. QED
    BY <2>1, <2>2
<1>7. lists \in [Labels -> Seq(Adds)]
  BY <1>2
<1> HIDE DEF r, lists, up
<1>8. /\ \A b \in Adds \ R :
           /\ ~ValidJob(b) => Renamed(Invalidated(js), lists, up)[b] = job[b]
           /\ ValidJob(b) => Follows(Renamed(Invalidated(js), lists, up), b, flat', up)
      /\ \A b \in Adds : b \in R =>
           Renamed(Invalidated(js), lists, up)[b] = Invalidated(js)[b]
  <2> HIDE DEF R
  <2>1. QED
    BY <1>4, <1>5, <1>6, RenamedFollow
<1>9. NowInvalid(js)
  <2> SUFFICES ASSUME NEW p \in 1..Len(js), NEW a, a = js[p]
               PROVE  /\ job'[a] # NoJob /\ ~job'[a].isValid
                      /\ job'[a].id = currInvalidJobId + p - 1
    BY DEF NowInvalid
  <2>1. a \in R /\ a \in Adds
    BY <1>2, LenProperties DEF Range
  <2>2. job'[a] = [label |-> job[a].label, id |-> currInvalidJobId + p - 1, isValid |-> FALSE]
    BY <2>1, <1>1, <1>4, <1>8
  <2>3. job'[a] \in J
    BY <2>1, <2>2, <1>2, InvalidJobType
  <2>4. job'[a] # NoJob
    BY <2>3, AbsentAssumption DEF J
  <2>5. QED
    BY <2>2, <2>4
<1>10. \A b \in R : b \in Adds => ~ValidJob(b)' /\ job'[b] \in J
  <2> SUFFICES ASSUME NEW b \in Adds, b \in R
               PROVE  ~ValidJob(b)' /\ job'[b] \in J
    OBVIOUS
  <2>1. PICK p \in 1..Len(js) : js[p] = b
    BY <1>2, LenProperties DEF Range
  <2>2. ~ValidJob(b)'
    BY <2>1, <1>9 DEF NowInvalid, ValidJob
  <2>3. job'[b] = [label |-> job[b].label, id |-> currInvalidJobId + p - 1, isValid |-> FALSE]
    BY <2>1, <1>1, <1>4, <1>8
  <2>4. job'[b] \in J
    BY <2>1, <2>3, <1>2, InvalidJobType
  <2>5. QED
    BY <2>2, <2>4
<1>11. Removes(R, up)
  BY <1>1, <1>5, <1>6, <1>7, <1>8, <1>10 DEF Removes, Follows
<1>12. job' \in [Adds -> {NoJob} \cup J]
  <2>1. job' = [b \in Adds |-> job'[b]]
    BY <1>1 DEF Renamed
  <2>2. \A b \in Adds : job'[b] \in {NoJob} \cup J
    BY <1>10, <1>11, RemovedJobsType
  <2> HIDE DEF R
  <2>3. QED
    BY <2>1, <2>2
<1>13. QED
  BY <1>1, <1>2, <1>4, <1>5, <1>9, <1>11, <1>12

\* deleteVector takes the exclusive flat lock: the label is still there, or a
\* worker has moved it to HNSW between the two locks.
LEMMA DeleteFromFlatInv ==
  ASSUME TieredInv, DeleteFromFlat
  PROVE  TieredInv'
<1>1. /\ pc[MainThread] = "del_flat_x" /\ flatReaders = {} /\ Goto(MainThread, "del_hnsw")
      /\ UNCHANGED <<element, lookup, queue, locks, writeMode, task, blob, adds, queries>>
  BY DEF DeleteFromFlat, FlatLockable
<1>2. /\ pc' \in [Threads -> WorkerPc \cup MainPc] /\ pc'[MainThread] = "del_hnsw"
      /\ \A w \in Workers : pc'[w] = pc[w]
  BY <1>1, GotoFacts, ThreadsAssumption DEF TieredInv, TypeOK, Threads, MainPc
<1>3. PICK l \in Labels : l = op.label
  BY <1>1 DEF TieredInv, CallConsistent, Busy
<1>4. CASE ~IsLabelExists(flat, l)
  <2>1. UNCHANGED <<tiers, jobs, queue, locks, writeMode, op, task, blob, adds, queries>>
    BY <1>1, <1>3, <1>4 DEF DeleteFromFlat, tiers
  <2>2. TypeOK'
    BY <2>1, <1>2 DEF TieredInv, TypeOK, TiersType, JobsType, LocksType, ControlType,
                      QueriesType, tiers, jobs, locks, queries, MainPc
  <2>3. (FlatLookupIsInverse /\ CallConsistent /\ JobsMatchFlat /\ JobListsShort)'
    BY <2>1, <1>1, <1>2 DEF TieredInv, tiers, jobs, FlatLookupIsInverse, IsLabelExists, Count,
                CallConsistent, AddOnly, Busy, JobsMatchFlat, ValidJob, HasJob, JobListsShort
  <2>4. (JobsOwned /\ NewIsFresh /\ NotStoredYet)'
    BY <2>1, <1>1, <1>2 DEF TieredInv, tiers, jobs, JobsOwned, Submitting, HasJob,
                      NewIsFresh, BeforeStored, Fresh, NotStoredYet
  <2>5. (LocksHeld /\ CopyIsCurrent)'
    BY <2>1, <1>1, <1>2 DEF TieredInv, tiers, jobs, locks, Threads, LocksHeld, Storing,
                      CopyIsCurrent, ValidJob, HasJob, AddOf
  <2>6. (LookupMatchesElements /\ BufferedNotInHNSW /\ LabelCleared)'
    <3>1. LookupMatchesElements'
      BY <2>1 DEF TieredInv, tiers, LookupMatchesElements, Live
    <3>2. BufferedNotInHNSW'
      <4>1. pc[MainThread] # "add_del_hnsw"
        BY <1>1
      <4>2. QED
        BY <4>1, <2>1, <1>2 DEF TieredInv, tiers, BufferedNotInHNSW, Count
    <3>3. LabelCleared'
      BY <2>1, <1>2, <1>3, <1>4 DEF tiers, LabelCleared, ClearsLabel, IsLabelExists
    <3>4. QED
      BY <3>1, <3>2, <3>3
  <2>7. (InvalidJobsTracked /\ InvalidIdsOld /\ FlatWithinLimit /\ RoomInFlat)'
    BY <2>1, <1>2 DEF TieredInv, tiers, jobs, InvalidJobsTracked, HasJob,
                      InvalidIdsOld, FlatWithinLimit, RoomInFlat, Count
  <2>8. QED
    BY <2>2, <2>3, <2>4, <2>5, <2>6, <2>7 DEF TieredInv
<1>5. CASE IsLabelExists(flat, l)
  <2>0. PICK js : js = labelToInsertJobs[l]
    OBVIOUS
  <2> DEFINE R == Range(js)
  <2>1. /\ js \in Seq(Adds) /\ \A a \in R : a \in Adds /\ ValidJob(a)
        /\ \E up : Removes(R, up)
        /\ flat' \in FlatOf(Adds) /\ FlatLookupIsInverse' /\ Count(flat)' \in 0..Count(flat)
        /\ ~IsLabelExists(flat, l)'
        /\ SavedInvalid(js) /\ NowInvalid(js) /\ Counted(Len(js))
        /\ job' \in [Adds -> {NoJob} \cup J]
    BY <2>0, <1>1, <1>3, <1>5, DeleteFromFlatFacts
  <2>2. Len(js) \in Nat /\ DOMAIN js = 1..Len(js)
    BY <2>1, LenProperties
  <2>3. /\ JobsMatchFlat' /\ JobListsShort' /\ labelToInsertJobs' \in [Labels -> Seq(Adds)]
        /\ OthersStay(R) /\ OtherJobsStay(R)
    <3>1. PICK up : Removes(R, up)
      BY <2>1
    <3>2. QED
      BY <3>1, RemovalFollowed DEF Removes
  <2>4. \A b \in Adds : HasJob(b) <=> HasJob(b)'
    <3>1. \A b \in Adds \ R : HasJob(b) <=> HasJob(b)'
      BY <2>3 DEF OtherJobsStay
    <3>2. ASSUME NEW b \in Adds, b \in R
          PROVE  HasJob(b) /\ HasJob(b)'
      <4>1. PICK p \in 1..Len(js) : js[p] = b
        BY <3>2, <2>2 DEF Range
      <4>2. QED
        BY <3>2, <4>1, <2>1 DEF NowInvalid, ValidJob, HasJob
    <3>3. QED
      BY <3>1, <3>2
  <2>5. /\ op' \in [kind : {"none", "add", "delete"}, label : Labels \cup {0},
                    add : 0..MaxAdds, ret : Int, before : SUBSET Adds]
        /\ op'.kind = op.kind /\ op'.label = op.label /\ op'.add = op.add
    <3>1. PICK o : o = op
      OBVIOUS
    <3>2. PICK n \in Int : op' = [o EXCEPT !.ret = n]
      <4>1. op.ret \in Int /\ op.ret - Len(js) \in Int /\ op.ret + Len(js) \in Int
        BY <2>2 DEF TieredInv, TypeOK, ControlType
      <4>2. QED
        BY <4>1, <3>1, <2>1 DEF Counted
    <3>3. QED
      BY <3>1, <3>2 DEF TieredInv, TypeOK, ControlType
  <2>5a. /\ InvalidJobsTracked' /\ InvalidIdsOld'
         /\ DOMAIN invalidJobs' \subseteq Nat /\ currInvalidJobId' \in Nat
         /\ \A i \in DOMAIN invalidJobs' : invalidJobs'[i] \in Adds
    <3>1. \A b \in Adds \ R :
            /\ HasJob(b)' /\ ~job'[b].isValid <=> HasJob(b) /\ ~job[b].isValid
            /\ HasJob(b) /\ ~job[b].isValid => job'[b].id = job[b].id
      BY <2>3 DEF OtherJobsStay
    <3>2. QED
      BY <3>1, <2>1, InvalidatedTracked
  <2>6. TypeOK'
    <3>1. TiersType'
      BY <2>1, <1>1 DEF TieredInv, TypeOK, TiersType, FlatOf
    <3>2. JobsType'
      <4>1. invalidJobs' \in [DOMAIN invalidJobs' -> Adds]
        BY <2>5a, <1>3, <1>5 DEF DeleteFromFlat, SaveInvalid
      <4>2. QED
        BY <4>1, <2>1, <2>3, <2>5a, <1>1 DEF TieredInv, TypeOK, JobsType, J
    <3>3. ControlType'
      BY <2>5, <1>1, <1>2 DEF TieredInv, TypeOK, ControlType, MainPc
    <3>4. QED
      BY <3>1, <3>2, <3>3, <1>1 DEF TieredInv, TypeOK, LocksType, QueriesType, locks, queries
  <2>7. CallConsistent'
    BY <2>5, <1>1, <1>2 DEF TieredInv, CallConsistent, AddOnly, Busy
  <2>8. JobsOwned'
    <3>1. task \in [Workers -> Adds \cup {NoJob}] /\ queue \subseteq Adds
      BY DEF TieredInv, TypeOK, JobsType, ControlType
    <3>2. ~Submitting /\ ~Submitting'
      BY <1>1, <1>2 DEF Submitting
    <3>3. QED
      BY <3>1, <3>2, <2>4, <1>1, <1>2 DEF TieredInv, JobsOwned
  <2>9. NewIsFresh'
    <3>1. \A b \in Adds : Fresh(b) => Fresh(b)'
      BY <2>4, <1>1 DEF Fresh, HasJob
    <3>2. op.kind = "add" => op.add \in Adds
      BY DEF TieredInv, CallConsistent
    <3>3. QED
      BY <3>1, <3>2, <2>5, <1>1, <1>2 DEF TieredInv, NewIsFresh, BeforeStored
  <2>10. NotStoredYet'
    BY <2>4, <1>1, <1>2 DEF TieredInv, NotStoredYet
  <2>11. LocksHeld'
    BY <1>1, <1>2 DEF TieredInv, LocksHeld, Threads, locks, Storing
  <2>12. CopyIsCurrent'
    <3>1. ASSUME NEW w \in Workers, pc'[w] \in {"store", "store_x"}
          PROVE  FALSE
      BY <3>1, <1>1, <1>2 DEF TieredInv, LocksHeld, Storing
    <3>2. ASSUME NEW t \in Threads, pc'[t] = "index"
          PROVE  (element[AddOf(t)] # NoElement /\ element[AddOf(t)].inProcess)'
      BY <3>2, <1>1, <1>2 DEF TieredInv, CopyIsCurrent, AddOf, Threads
    <3>3. QED
      BY <3>1, <3>2 DEF CopyIsCurrent
  <2>13. LookupMatchesElements'
    BY <1>1 DEF TieredInv, LookupMatchesElements, Live
  <2>14. BufferedNotInHNSW'
    <3> SUFFICES ASSUME ~IsMulti, NEW i \in 1..Count(flat)', lookup[flat'.labels[i]] # <<>>
                 PROVE  /\ lookup[flat'.labels[i]] = <<flat'.vectors[i]>>
                        /\ \E v \in Workers : /\ task[v] = flat'.vectors[i]
                                              /\ pc'[v] \in {"index", "finish"}
      BY <1>1 DEF BufferedNotInHNSW
    <3>1. PICK j \in 1..Count(flat) :
             flat.labels[i]' = flat.labels[j] /\ flat.vectors[i]' = flat.vectors[j]
      BY <2>3 DEF OthersStay
    <3>2. /\ lookup[flat.labels[j]] = <<flat.vectors[j]>>
          /\ \E v \in Workers : task[v] = flat.vectors[j] /\ pc[v] \in {"index", "finish"}
      BY <3>1, <1>1 DEF TieredInv, BufferedNotInHNSW
    <3>3. QED
      BY <3>1, <3>2, <1>2
  <2>15. LabelCleared'
    <3>1. ~IsLabelExists(flat', op'.label)
      BY <2>1, <2>5, <1>3 DEF IsLabelExists
    <3>2. QED
      BY <3>1, <1>2 DEF LabelCleared
  <2>17. (FlatWithinLimit /\ RoomInFlat)'
    <3>1. Count(flat) \in Nat /\ FlatLimit \in Nat
      BY BoundsAssumption, CountType DEF TieredInv, TypeOK, TiersType, FlatOf
    <3>2. QED
      BY <3>1, <2>1, <1>2 DEF TieredInv, FlatWithinLimit, RoomInFlat
  <2>18. QED
    BY <2>1, <2>3, <2>6, <2>7, <2>8, <2>9, <2>10, <2>11, <2>12, <2>13, <2>14, <2>15, <2>5a, <2>17
    DEF TieredInv
<1>6. QED
  BY <1>4, <1>5


-----------------------------------------------------------------------------
(* addVector on the buffer.                                                 *)

\* A step that stores vector a under label l at position id of the buffer and
\* changes no other position.
StoresAt(l, a, id) ==
  /\ id \in 1..Count(flat)' /\ Count(flat) <= Count(flat)'
  /\ flat' \in FlatOf(Adds) /\ FlatLookupIsInverse'
  /\ flat'.labels[id] = l /\ flat'.vectors[id] = a
  /\ \A i \in 1..Count(flat)' : i # id =>
       /\ i \in 1..Count(flat)
       /\ flat'.labels[i] = flat.labels[i] /\ flat'.vectors[i] = flat.vectors[i]

\* A step that creates a's job for label l in the place of the one with that id.
CreatesJob(l, a, id) ==
  /\ job' \in [Adds -> {NoJob} \cup J]
  /\ ValidJob(a)' /\ job'[a].label = l /\ job'[a].id = id
  /\ labelToInsertJobs' \in [Labels -> Seq(Adds)]
  /\ \A k \in Labels :
       /\ IsInjective(labelToInsertJobs'[k])
       /\ ~IsMulti => Len(labelToInsertJobs'[k]) <= 1
       /\ \A b \in Adds : b \in Range(labelToInsertJobs'[k]) <=>
            (b = a /\ k = l) \/ (b \in Range(labelToInsertJobs[k]) /\ job[b].id # id)
  /\ \A b \in Adds : b # a =>
       /\ HasJob(b) <=> HasJob(b)'
       /\ ValidJob(b)' <=> ValidJob(b) /\ job[b].id # id
       /\ ValidJob(b)' => job'[b] = job[b]

\* After such steps jobs and vectors are still in step.
LEMMA AddFollowed ==
  ASSUME TieredInv, NEW l \in Labels, NEW a \in Adds, NEW id \in Nat, job[a] = NoJob,
         StoresAt(l, a, id), CreatesJob(l, a, id)
  PROVE  JobsMatchFlat' /\ JobListsShort'
<1>1. ~ValidJob(a)
  BY DEF ValidJob, HasJob
<1>2. Count(flat) \in Nat /\ Count(flat)' \in Nat
  <2>1. PICK g \in FlatOf(Adds) : g = flat'
    BY DEF StoresAt
  <2>2. QED
    BY <2>1, CountType, JobFacts DEF Count
<1>3. JobListsShort'
  BY DEF CreatesJob, JobListsShort
<1>4. (\A i \in 1..Count(flat) : LET b == flat.vectors[i] IN
          ValidJob(b) /\ job[b].id = i /\ job[b].label = flat.labels[i])'
  <2> SUFFICES ASSUME NEW i \in 1..Count(flat)'
               PROVE  (LET b == flat.vectors[i] IN
                        ValidJob(b) /\ job[b].id = i /\ job[b].label = flat.labels[i])'
    OBVIOUS
  <2>1. CASE i = id
    BY <2>1 DEF StoresAt, CreatesJob
  <2>2. CASE i # id
    <3>1. /\ i \in 1..Count(flat)
          /\ flat'.labels[i] = flat.labels[i] /\ flat'.vectors[i] = flat.vectors[i]
      BY <2>2 DEF StoresAt
    <3>2. PICK b \in Adds : b = flat.vectors[i]
      BY <3>1, JobFacts
    <3>3. ValidJob(b) /\ job[b].id = i /\ job[b].label = flat.labels[i]
      BY <3>1, <3>2, JobFacts
    <3>4. ValidJob(b)' /\ job'[b] = job[b]
      BY <2>2, <3>3, <1>1 DEF CreatesJob
    <3>5. QED
      BY <3>1, <3>2, <3>3, <3>4
  <2>3. QED
    BY <2>1, <2>2
<1>5. \A b \in Adds : ValidJob(b)' =>
         /\ job'[b].id \in 1..Count(flat)' /\ flat'.vectors[job'[b].id] = b
         /\ b \in Range(labelToInsertJobs'[job'[b].label])
  <2> SUFFICES ASSUME NEW b \in Adds, ValidJob(b)'
               PROVE  /\ job'[b].id \in 1..Count(flat)' /\ flat'.vectors[job'[b].id] = b
                      /\ b \in Range(labelToInsertJobs'[job'[b].label])
    OBVIOUS
  <2>1. CASE b = a
    BY <2>1 DEF StoresAt, CreatesJob
  <2>2. CASE b # a
    <3>1. ValidJob(b) /\ job[b].id # id /\ job'[b] = job[b]
      BY <2>2 DEF CreatesJob
    <3>2. PICK j \in 1..Count(flat) :
             /\ job[b].id = j /\ flat.vectors[j] = b /\ job[b].label \in Labels
             /\ b \in Range(labelToInsertJobs[job[b].label])
      BY <3>1, JobFacts DEF J
    <3>3. j \in 1..Count(flat)' /\ j # id
      BY <3>1, <3>2, <1>2 DEF StoresAt
    <3>4. flat'.vectors[j] = b
      BY <3>2, <3>3 DEF StoresAt
    <3>5. b \in Range(labelToInsertJobs'[job[b].label])
      BY <3>1, <3>2 DEF CreatesJob
    <3>6. QED
      BY <3>1, <3>2, <3>3, <3>4, <3>5
  <2>3. QED
    BY <2>1, <2>2
<1>6. \A k \in Labels : \A b \in Range(labelToInsertJobs'[k]) :
         ValidJob(b)' /\ job'[b].label = k
  <2> SUFFICES ASSUME NEW k \in Labels, NEW b \in Range(labelToInsertJobs'[k])
               PROVE  ValidJob(b)' /\ job'[b].label = k
    OBVIOUS
  <2>1. b \in Adds
    <3>1. PICK s \in Seq(Adds) : s = labelToInsertJobs'[k]
      BY DEF CreatesJob
    <3>2. QED
      BY <3>1, ElementOfSeq, LenProperties DEF Range
  <2>2. (b = a /\ k = l) \/ (b \in Range(labelToInsertJobs[k]) /\ job[b].id # id)
    BY <2>1 DEF CreatesJob
  <2>3. CASE b = a /\ k = l
    BY <2>3 DEF CreatesJob
  <2>4. CASE b \in Range(labelToInsertJobs[k]) /\ job[b].id # id
    <3>1. ValidJob(b) /\ job[b].label = k
      BY <2>4, JobFacts
    <3>2. b # a
      BY <3>1, <1>1
    <3>3. ValidJob(b)' /\ job'[b] = job[b]
      BY <2>1, <2>4, <3>1, <3>2 DEF CreatesJob
    <3>4. QED
      BY <3>1, <3>3
  <2>5. QED
    BY <2>2, <2>3, <2>4
<1>7. \A k \in Labels : IsInjective(labelToInsertJobs'[k])
  BY DEF CreatesJob
<1>8. JobsMatchFlat'
  BY <1>4, <1>5, <1>6, <1>7 DEF JobsMatchFlat
<1>9. QED
  BY <1>3, <1>8

\* The new job of a vector.
LEMMA NewJobType ==
  ASSUME NEW l \in Labels, NEW id \in Nat
  PROVE  /\ NewJob(l, id) \in J /\ NewJob(l, id).label = l /\ NewJob(l, id).id = id
         /\ NewJob(l, id).isValid /\ NewJob(l, id) # NoJob
<1>1. /\ NewJob(l, id) \in J /\ NewJob(l, id).label = l /\ NewJob(l, id).id = id
      /\ NewJob(l, id).isValid
  BY DEF NewJob, J
<1>2. NewJob(l, id) # NoJob
  BY <1>1, AbsentAssumption DEF J
<1>3. QED
  BY <1>1, <1>2

\* The buffered label of a single-value index has one vector and one job.
LEMMA BufferedLabel ==
  ASSUME TieredInv, ~IsMulti, NEW l \in Labels, IsLabelExists(flat, l)
  PROVE  \E id \in 1..Count(flat), a0 \in Adds :
           /\ flat.ids[l] = <<id>> /\ flat.labels[id] = l /\ flat.vectors[id] = a0
           /\ labelToInsertJobs[l] = <<a0>>
           /\ ValidJob(a0) /\ job[a0].id = id /\ job[a0].label = l
<1>1. PICK id \in 1..Count(flat) : flat.labels[id] = l
  BY LabelsInBuffer
<1>2. flat.ids[l] = <<id>>
  BY <1>1, OneId
<1>3. PICK a0 \in Adds : a0 = flat.vectors[id]
  BY JobFacts
<1>4. ValidJob(a0) /\ job[a0].id = id /\ job[a0].label = l
  BY <1>1, <1>3, JobFacts
<1>5. PICK s \in Seq(Adds) : s = labelToInsertJobs[l]
  BY JobFacts
<1>6. a0 \in Range(s) /\ Len(s) <= 1
  BY <1>4, <1>5, JobFacts DEF TieredInv, JobListsShort
<1>7. Len(s) \in Nat /\ DOMAIN s = 1..Len(s)
  BY LenProperties
<1>8. PICK p \in 1..Len(s) : s[p] = a0
  BY <1>6, <1>7 DEF Range
<1>9. Len(s) = 1 /\ s[1] = a0
  BY <1>6, <1>7, <1>8
<1>10. s = <<a0>>
  BY <1>9
<1>11. QED
  BY <1>1, <1>2, <1>3, <1>4, <1>5, <1>10

\* The buffered label is overwritten in its place, its old job becomes invalid.
LEMMA OverwriteFacts ==
  ASSUME TieredInv, ~IsMulti, NEW l \in Labels, l = op.label, NEW a \in Adds, a = op.add,
         job[a] = NoJob, IsLabelExists(flat, l), OverwriteInFlat
  PROVE  /\ \E id \in Nat : StoresAt(l, a, id) /\ CreatesJob(l, a, id)
         /\ Count(flat)' = Count(flat)
         /\ DOMAIN invalidJobs' \subseteq Nat /\ currInvalidJobId' \in Nat
         /\ invalidJobs' \in [DOMAIN invalidJobs' -> Adds]
         /\ InvalidJobsTracked' /\ InvalidIdsOld'
<1> DEFINE n == Count(flat)
<1>1. /\ job \in [Adds -> {NoJob} \cup J] /\ n \in Nat
      /\ labelToInsertJobs \in [Labels -> Seq(Adds)]
  BY JobFacts
<1>2. PICK id \in 1..n, a0 \in Adds :
         /\ flat.ids[l] = <<id>> /\ flat.labels[id] = l /\ flat.vectors[id] = a0
         /\ labelToInsertJobs[l] = <<a0>>
         /\ ValidJob(a0) /\ job[a0].id = id /\ job[a0].label = l
  BY BufferedLabel
<1>3. a0 # a
  BY <1>2 DEF ValidJob, HasJob
<1>4. PICK js \in Seq(Adds) : js = <<a0>>
  <2>1. <<a0>> \in Seq(Adds)
    OBVIOUS
  <2>2. QED
    BY <2>1
<1>5. /\ Len(js) = 1 /\ js[1] = a0 /\ Range(js) = {a0} /\ IsInjective(js)
      /\ \A b \in Range(js) : ValidJob(b)
  <2>1. Range(<<a0>>) = {a0} /\ IsInjective(<<a0>>)
    BY DEF Range, IsInjective
  <2>2. QED
    BY <2>1, <1>2, <1>4
<1>6. /\ flat' = UpdateElement(flat, id, a)
      /\ job' = [Invalidated(js) EXCEPT ![a] = NewJob(l, id)]
      /\ SaveInvalid(js)
      /\ labelToInsertJobs' = [labelToInsertJobs EXCEPT ![l] = <<a>>]
  <2>1. <<labelToInsertJobs[l][1]>> = js /\ flat.ids[l][1] = id
    BY <1>2, <1>4
  <2>2. QED
    BY <2>1 DEF OverwriteInFlat
<1>7. /\ SavedInvalid(js)
      /\ \A b \in Adds \ {a0} : Invalidated(js)[b] = job[b]
      /\ Invalidated(js)[a0] = [label |-> job[a0].label, id |-> currInvalidJobId + 1 - 1,
                                isValid |-> FALSE]
  BY <1>5, <1>6, InvalidatesJobs
<1>8. Invalidated(js)[a0] \in J
  <2>1. PICK p \in 1..Len(js) : p = 1
    BY <1>5
  <2>2. [label |-> job[a0].label, id |-> currInvalidJobId + p - 1, isValid |-> FALSE] \in J
    BY <1>2, InvalidJobType
  <2>3. QED
    BY <2>1, <2>2, <1>7
<1>9. /\ job'[a] = NewJob(l, id) /\ job'[a0] = Invalidated(js)[a0]
      /\ \A b \in Adds \ {a, a0} : job'[b] = job[b]
      /\ job' = [b \in Adds |-> job'[b]]
  <2>1. Invalidated(js) = [b \in Adds |-> Invalidated(js)[b]]
    BY DEF Invalidated
  <2>2. QED
    BY <2>1, <1>3, <1>6, <1>7
<1>10. /\ NewJob(l, id) \in J /\ NewJob(l, id).label = l /\ NewJob(l, id).id = id
       /\ NewJob(l, id).isValid /\ NewJob(l, id) # NoJob
  <2>1. id \in Nat
    OBVIOUS
  <2>2. QED
    BY <2>1, NewJobType
<1>11. job' \in [Adds -> {NoJob} \cup J]
  <2>1. \A b \in Adds : job'[b] \in {NoJob} \cup J
    BY <1>1, <1>8, <1>9, <1>10
  <2>2. QED
    BY <2>1, <1>9
<1>12. /\ ValidJob(a)' /\ job'[a0] # NoJob /\ ~job'[a0].isValid
       /\ job'[a0].id = currInvalidJobId + 1 - 1
  <2>1. job'[a0] # NoJob
    BY <1>8, <1>9, AbsentAssumption DEF J
  <2>2. QED
    BY <2>1, <1>7, <1>9, <1>10 DEF ValidJob, HasJob
<1>13. StoresAt(l, a, id) /\ Count(flat)' = n
  <2> DEFINE g == UpdateElement(flat, id, a)
  <2>1. g = Kinds!UpdateElement(flat, id, a)
    BY DEF UpdateElement, Kinds!UpdateElement
  <2>2. Kinds!FlatOK(Adds, flat) /\ id \in 1..Kinds!Count(flat)
    BY BufferOK, <1>2 DEF Kinds!Count, Count
  <2>3. /\ Kinds!FlatOK(Adds, g)
        /\ g.labels = flat.labels /\ Kinds!Count(g) = Kinds!Count(flat)
        /\ g.vectors[id] = a
        /\ \A i \in 1..Kinds!Count(flat) : i # id => g.vectors[i] = flat.vectors[i]
    BY <2>1, <2>2, Kinds!OverwriteChanges
  <2> HIDE DEF g
  <2>4. flat' = g
    BY <1>6 DEF g
  <2>5. flat' \in FlatOf(Adds) /\ FlatLookupIsInverse'
    BY <2>3, <2>4, BufferStaysOK
  <2>6. Count(flat)' = n
    BY <2>3, <2>4 DEF Count
  <2>7. QED
    BY <2>3, <2>4, <2>5, <2>6, <1>1, <1>2 DEF StoresAt, Kinds!Count, Count
<1>14. \A b \in Adds : b # a =>
          /\ HasJob(b) <=> HasJob(b)'
          /\ ValidJob(b)' <=> ValidJob(b) /\ job[b].id # id
          /\ ValidJob(b)' => job'[b] = job[b]
  <2> SUFFICES ASSUME NEW b \in Adds, b # a
               PROVE  /\ HasJob(b) <=> HasJob(b)'
                      /\ ValidJob(b)' <=> ValidJob(b) /\ job[b].id # id
                      /\ ValidJob(b)' => job'[b] = job[b]
    OBVIOUS
  <2>1. CASE b = a0
    BY <2>1, <1>2, <1>12 DEF ValidJob, HasJob
  <2>2. CASE b # a0
    <3>1. job'[b] = job[b]
      BY <2>2, <1>9
    <3>2. ValidJob(b) => job[b].id # id
      BY <2>2, <1>2, JobFacts
    <3>3. QED
      BY <3>1, <3>2 DEF ValidJob, HasJob
  <2>3. QED
    BY <2>1, <2>2
<1>15. \A k \in Labels :
         /\ labelToInsertJobs'[k] \in Seq(Adds)
         /\ IsInjective(labelToInsertJobs'[k])
         /\ ~IsMulti => Len(labelToInsertJobs'[k]) <= 1
         /\ \A b \in Adds : b \in Range(labelToInsertJobs'[k]) <=>
              (b = a /\ k = l) \/ (b \in Range(labelToInsertJobs[k]) /\ job[b].id # id)
  <2> SUFFICES ASSUME NEW k \in Labels
               PROVE  /\ labelToInsertJobs'[k] \in Seq(Adds)
                      /\ IsInjective(labelToInsertJobs'[k])
                      /\ ~IsMulti => Len(labelToInsertJobs'[k]) <= 1
                      /\ \A b \in Adds : b \in Range(labelToInsertJobs'[k]) <=>
                           (b = a /\ k = l) \/ (b \in Range(labelToInsertJobs[k]) /\ job[b].id # id)
    OBVIOUS
  <2>1. CASE k = l
    <3>1. labelToInsertJobs'[k] = <<a>>
      BY <2>1, <1>1, <1>6
    <3>2. Range(<<a>>) = {a} /\ IsInjective(<<a>>) /\ <<a>> \in Seq(Adds) /\ Len(<<a>>) <= 1
      BY DEF Range, IsInjective
    <3>3. Range(labelToInsertJobs[k]) = {a0}
      BY <2>1, <1>2, <1>4, <1>5
    <3>4. QED
      BY <2>1, <3>1, <3>2, <3>3, <1>2
  <2>2. CASE k # l
    <3>1. labelToInsertJobs'[k] = labelToInsertJobs[k]
      BY <2>2, <1>1, <1>6
    <3>2. \A b \in Range(labelToInsertJobs[k]) : job[b].id # id
      BY <2>2, <1>2, JobFacts
    <3>3. IsInjective(labelToInsertJobs[k]) /\ (~IsMulti => Len(labelToInsertJobs[k]) <= 1)
      BY DEF TieredInv, JobsMatchFlat, JobListsShort
    <3>4. QED
      BY <2>2, <3>1, <3>2, <3>3, <1>1
  <2>3. QED
    BY <2>1, <2>2
<1>16. labelToInsertJobs' \in [Labels -> Seq(Adds)]
  BY <1>1, <1>6
<1>17. CreatesJob(l, a, id)
  BY <1>9, <1>10, <1>11, <1>12, <1>14, <1>15, <1>16 DEF CreatesJob
<1>18. /\ InvalidJobsTracked' /\ InvalidIdsOld'
       /\ DOMAIN invalidJobs' \subseteq Nat /\ currInvalidJobId' \in Nat
       /\ \A i \in DOMAIN invalidJobs' : invalidJobs'[i] \in Adds
  <2>1. \A b \in Adds \ Range(js) :
          /\ HasJob(b)' /\ ~job'[b].isValid <=> HasJob(b) /\ ~job[b].isValid
          /\ HasJob(b) /\ ~job[b].isValid => job'[b].id = job[b].id
    <3> SUFFICES ASSUME NEW b \in Adds, b # a0
                 PROVE  /\ HasJob(b)' /\ ~job'[b].isValid <=> HasJob(b) /\ ~job[b].isValid
                        /\ HasJob(b) /\ ~job[b].isValid => job'[b].id = job[b].id
      BY <1>5
    <3>1. CASE b = a
      BY <3>1, <1>12 DEF ValidJob, HasJob
    <3>2. CASE b # a
      BY <3>2, <1>9 DEF HasJob
    <3>3. QED
      BY <3>1, <3>2
  <2>2. NowInvalid(js)
    BY <1>5, <1>12 DEF NowInvalid
  <2>3. QED
    BY <2>1, <2>2, <1>5, <1>7, InvalidatedTracked
<1>19. invalidJobs' \in [DOMAIN invalidJobs' -> Adds]
  BY <1>6, <1>18 DEF SaveInvalid
<1>20. QED
  BY <1>13, <1>17, <1>18, <1>19

\* The vector of a label that is not buffered, or of a multi-value index, goes
\* to the end of the buffer.
LEMMA AppendFacts ==
  ASSUME TieredInv, NEW l \in Labels, l = op.label, NEW a \in Adds, a = op.add,
         job[a] = NoJob, IsMulti \/ ~IsLabelExists(flat, l), AppendToFlat
  PROVE  /\ \E id \in Nat : StoresAt(l, a, id) /\ CreatesJob(l, a, id)
         /\ Count(flat)' = Count(flat) + 1
         /\ UNCHANGED <<invalidJobs, currInvalidJobId>>
         /\ InvalidJobsTracked' /\ InvalidIdsOld'
<1> DEFINE n  == Count(flat)
           id == n + 1
           s  == labelToInsertJobs[l]
<1>1. /\ job \in [Adds -> {NoJob} \cup J] /\ n \in Nat /\ id \in Nat
      /\ labelToInsertJobs \in [Labels -> Seq(Adds)] /\ s \in Seq(Adds)
  BY JobFacts
<1>2. /\ flat' = AppendVector(flat, l, a)
      /\ job' = [job EXCEPT ![a] = NewJob(l, id)]
      /\ labelToInsertJobs' = [labelToInsertJobs EXCEPT ![l] = Append(s, a)]
      /\ UNCHANGED <<invalidJobs, currInvalidJobId>>
  BY <1>1 DEF AppendToFlat
<1>3. /\ NewJob(l, id) \in J /\ NewJob(l, id).label = l /\ NewJob(l, id).id = id
      /\ NewJob(l, id).isValid /\ NewJob(l, id) # NoJob
  BY <1>1, NewJobType
<1>4. /\ job'[a] = NewJob(l, id) /\ \A b \in Adds \ {a} : job'[b] = job[b]
      /\ job' \in [Adds -> {NoJob} \cup J]
  BY <1>1, <1>2, <1>3
<1>5. ValidJob(a)' /\ ~ValidJob(a)
  BY <1>3, <1>4 DEF ValidJob, HasJob
<1>6. StoresAt(l, a, id) /\ Count(flat)' = n + 1
  <2>1. Kinds!FlatOK(Adds, flat) /\ IsMulti \in BOOLEAN
    BY BufferOK, IsMultiAssumption
  <2>2. IsMulti \/ ~Kinds!IsLabelExists(flat, l)
    BY DEF IsLabelExists, Kinds!IsLabelExists
  <2>3. flat' = Kinds!AppendVector(flat, l, a)
    BY <1>2, Zenon DEF AppendVector, Kinds!AppendVector, Count, Kinds!Count
  <2>4. Kinds!FlatOK(Adds, flat') /\ Kinds!Appended(flat, flat', l, a)
    BY <2>1, <2>2, <2>3, Kinds!AppendAdds
  <2>5. flat' \in FlatOf(Adds) /\ FlatLookupIsInverse'
    BY <2>4, BufferStaysOK
  <2>6. /\ Count(flat') = n + 1
        /\ flat'.labels[n + 1] = l /\ flat'.vectors[n + 1] = a
        /\ \A i \in 1..n : flat'.labels[i] = flat.labels[i] /\ flat'.vectors[i] = flat.vectors[i]
    BY <2>4 DEF Kinds!Appended, Kinds!Count, Count
  <2>7. Count(flat)' = n + 1
    BY <2>6 DEF Count
  <2>8. \A i \in 1..(n + 1) : i # id => i \in 1..n
    BY <1>1
  <2>9. id \in 1..(n + 1) /\ n <= n + 1
    BY <1>1
  <2> HIDE DEF n, id
  <2>10. QED
    BY <2>5, <2>6, <2>7, <2>8, <2>9 DEF StoresAt, n, id
<1>7. \A b \in Adds : ValidJob(b) => job[b].id # id
  <2>1. \A b \in Adds : ValidJob(b) => job[b].id \in 1..n
    BY JobFacts
  <2>2. QED
    BY <2>1, <1>1
<1>8. \A b \in Adds : b # a =>
         /\ HasJob(b) <=> HasJob(b)'
         /\ ValidJob(b)' <=> ValidJob(b) /\ job[b].id # id
         /\ ValidJob(b)' => job'[b] = job[b]
  BY <1>4, <1>7 DEF ValidJob, HasJob
<1>9. /\ Append(s, a) \in Seq(Adds) /\ Range(Append(s, a)) = Range(s) \cup {a}
      /\ IsInjective(Append(s, a)) /\ (~IsMulti => Len(Append(s, a)) <= 1)
  <2>1. IsInjective(s)
    BY DEF TieredInv, JobsMatchFlat
  <2>2. a \notin Range(s)
    BY <1>5, JobFacts
  <2>3. ~IsMulti => s = <<>>
    <3> SUFFICES ASSUME ~IsMulti, s # <<>>
                 PROVE  FALSE
      OBVIOUS
    <3>1. Len(s) \in Nat /\ Len(s) # 0 /\ DOMAIN s = 1..Len(s)
      BY <1>1, EmptySeq, LenProperties
    <3>2. s[1] \in Range(s)
      BY <3>1 DEF Range
    <3>3. PICK b \in Adds : ValidJob(b) /\ job[b].label = l
      BY <3>2, JobFacts
    <3>4. job[b].id \in 1..n /\ flat.labels[job[b].id] = l
      BY <3>3, JobFacts
    <3>5. QED
      BY <3>4, LabelsInBuffer
  <2>4. s \in Seq(Adds)
    BY <1>1
  <2> HIDE DEF s
  <2>5. /\ Grown(s, a) \in Seq(Adds) /\ Grown(s, a) = Append(s, a)
        /\ Range(Grown(s, a)) = Range(s) \cup {a} /\ IsInjective(Grown(s, a))
        /\ ~IsMulti => Len(Grown(s, a)) <= 1
    BY <2>1, <2>2, <2>3, <2>4, ListGrows
  <2>6. QED
    BY <2>5
<1>10. \A k \in Labels :
         /\ IsInjective(labelToInsertJobs'[k])
         /\ ~IsMulti => Len(labelToInsertJobs'[k]) <= 1
         /\ \A b \in Adds : b \in Range(labelToInsertJobs'[k]) <=>
              (b = a /\ k = l) \/ (b \in Range(labelToInsertJobs[k]) /\ job[b].id # id)
  <2> SUFFICES ASSUME NEW k \in Labels
               PROVE  /\ IsInjective(labelToInsertJobs'[k])
                      /\ ~IsMulti => Len(labelToInsertJobs'[k]) <= 1
                      /\ \A b \in Adds : b \in Range(labelToInsertJobs'[k]) <=>
                           (b = a /\ k = l) \/ (b \in Range(labelToInsertJobs[k]) /\ job[b].id # id)
    OBVIOUS
  <2>1. \A b \in Range(labelToInsertJobs[k]) : b \in Adds /\ job[b].id # id
    BY <1>7, JobFacts
  <2>2. CASE k = l
    <3>1. labelToInsertJobs'[k] = Append(s, a)
      BY <2>2, <1>1, <1>2
    <3> HIDE DEF id
    <3>2. QED
      BY <2>1, <2>2, <3>1, <1>9
  <2>3. CASE k # l
    <3>1. labelToInsertJobs'[k] = labelToInsertJobs[k]
      BY <2>3, <1>1, <1>2
    <3>2. IsInjective(labelToInsertJobs[k]) /\ (~IsMulti => Len(labelToInsertJobs[k]) <= 1)
      BY DEF TieredInv, JobsMatchFlat, JobListsShort
    <3> HIDE DEF id
    <3>3. QED
      BY <2>1, <2>3, <3>1, <3>2
  <2>4. QED
    BY <2>2, <2>3
<1>11. labelToInsertJobs' \in [Labels -> Seq(Adds)]
  BY <1>1, <1>2, <1>9
<1>12. CreatesJob(l, a, id)
  <2> HIDE DEF id
  <2>1. QED
    BY <1>3, <1>4, <1>5, <1>8, <1>10, <1>11 DEF CreatesJob
<1>13. InvalidJobsTracked' /\ InvalidIdsOld'
  <2>1. \A b \in Adds : HasJob(b)' /\ ~job'[b].isValid <=> HasJob(b) /\ ~job[b].isValid
    BY <1>4, <1>5 DEF ValidJob, HasJob
  <2>2. \A b \in Adds : HasJob(b) /\ ~job[b].isValid => job'[b] = job[b]
    BY <1>4 DEF HasJob
  <2>3. \A i \in DOMAIN invalidJobs : invalidJobs[i] \in Adds
    BY DEF TieredInv, TypeOK, JobsType
  <2>4. QED
    BY <2>1, <2>2, <2>3, <1>2 DEF TieredInv, InvalidJobsTracked, InvalidIdsOld
<1>14. QED
  BY <1>1, <1>2, <1>6, <1>12, <1>13

\* addVector stores its vector and its job, which it has not submitted yet.
LEMMA AddToFlatInv ==
  ASSUME TieredInv, AddToFlat
  PROVE  TieredInv'
<1>1. /\ pc[MainThread] = "add_flat" /\ flatReaders = {}
      /\ \E next \in {"gc_add", "submit", "add_del_hnsw"} : Goto(MainThread, next)
      /\ op.kind = "add" /\ op.add = adds
      /\ UNCHANGED <<element, lookup, queue, locks, writeMode, task, blob, adds, queries>>
  BY DEF AddToFlat, FlatLockable, TieredInv, CallConsistent, AddOnly
<1>2. PICK l \in Labels : l = op.label
  BY <1>1 DEF TieredInv, CallConsistent
<1>3. PICK a \in Adds : a = op.add /\ job[a] = NoJob /\ element[a] = NoElement
  BY <1>1 DEF TieredInv, CallConsistent, NewIsFresh, BeforeStored, Fresh
<1>4. /\ pc' \in [Threads -> WorkerPc \cup MainPc] /\ pc'[MainThread] \in {"gc_add", "submit", "add_del_hnsw"}
      /\ ~IsMulti => pc'[MainThread] = "add_del_hnsw"
      /\ \A w \in Workers : pc'[w] = pc[w]
  <2>1. PICK next \in {"gc_add", "submit", "add_del_hnsw"} :
           Goto(MainThread, next) /\ (~IsMulti => next = "add_del_hnsw")
    BY DEF AddToFlat
  <2>2. QED
    BY <2>1, GotoFacts, ThreadsAssumption DEF TieredInv, TypeOK, Threads, MainPc
<1>5. /\ \E id \in Nat : StoresAt(l, a, id) /\ CreatesJob(l, a, id)
      /\ DOMAIN invalidJobs' \subseteq Nat /\ currInvalidJobId' \in Nat
      /\ invalidJobs' \in [DOMAIN invalidJobs' -> Adds]
      /\ InvalidJobsTracked' /\ InvalidIdsOld'
      /\ Count(flat)' <= FlatLimit
      /\ op' = op \/ op' = [op EXCEPT !.ret = 0]
  <2>1. Count(flat) \in Nat /\ FlatLimit \in Nat /\ Count(flat) < FlatLimit
    BY <1>1, BoundsAssumption, JobFacts DEF TieredInv, RoomInFlat
  <2>2. CASE ~IsMulti /\ IsLabelExists(flat, l)
    <3>1. OverwriteInFlat
      BY <1>2, <2>2 DEF AddToFlat
    <3>2. op' = [op EXCEPT !.ret = 0]
      BY <3>1 DEF OverwriteInFlat
    <3>3. QED
      BY <3>1, <3>2, <2>1, <2>2, <1>2, <1>3, OverwriteFacts
  <2>3. CASE IsMulti \/ ~IsLabelExists(flat, l)
    <3>1. AppendToFlat
      BY <1>2, <2>3 DEF AddToFlat
    <3>2. op' = op
      BY <3>1 DEF AppendToFlat
    <3>3. /\ \E id \in Nat : StoresAt(l, a, id) /\ CreatesJob(l, a, id)
          /\ Count(flat)' = Count(flat) + 1
          /\ UNCHANGED <<invalidJobs, currInvalidJobId>>
          /\ InvalidJobsTracked' /\ InvalidIdsOld'
      BY <3>1, <2>3, <1>2, <1>3, AppendFacts
    <3>4. Count(flat)' <= FlatLimit
      BY <3>3, <2>1
    <3>5. QED
      BY <3>2, <3>3, <3>4 DEF TieredInv, TypeOK, JobsType
  <2>4. QED
    BY <2>2, <2>3
<1>6. PICK id \in Nat : StoresAt(l, a, id) /\ CreatesJob(l, a, id)
  BY <1>5
<1>7. /\ op' \in [kind : {"none", "add", "delete"}, label : Labels \cup {0},
                  add : 0..MaxAdds, ret : Int, before : SUBSET Adds]
      /\ op'.kind = op.kind /\ op'.label = op.label /\ op'.add = op.add
  BY <1>5 DEF TieredInv, TypeOK, ControlType
<1>8. JobsMatchFlat' /\ JobListsShort' /\ labelToInsertJobs' \in [Labels -> Seq(Adds)]
  <2>1. JobsMatchFlat' /\ JobListsShort'
    BY <1>3, <1>6, AddFollowed
  <2>2. QED
    BY <1>6, <2>1 DEF CreatesJob
<1>9. HasJob(a)' /\ \A b \in Adds : b # a => (HasJob(b) <=> HasJob(b)')
  BY <1>6 DEF CreatesJob, ValidJob
<1>10. TypeOK'
  <2>1. TiersType'
    BY <1>1, <1>6 DEF TieredInv, TypeOK, TiersType, FlatOf, StoresAt
  <2>2. JobsType'
    BY <1>1, <1>5, <1>6, <1>8 DEF TieredInv, TypeOK, JobsType, CreatesJob, J
  <2>3. ControlType'
    BY <1>1, <1>4, <1>7 DEF TieredInv, TypeOK, ControlType, MainPc
  <2>4. QED
    BY <2>1, <2>2, <2>3, <1>1 DEF TieredInv, TypeOK, LocksType, QueriesType, locks, queries
<1>11. FlatLookupIsInverse' /\ CallConsistent'
  BY <1>1, <1>4, <1>6, <1>7 DEF StoresAt, TieredInv, CallConsistent, Busy
<1>12. JobsOwned'
  <2>1. task \in [Workers -> Adds \cup {NoJob}] /\ queue \subseteq Adds
    BY DEF TieredInv, TypeOK, JobsType, ControlType
  <2>2. a \notin queue /\ \A w \in Workers : task[w] # a
    BY <1>3, AbsentAssumption DEF TieredInv, JobsOwned, HasJob
  <2>3. ~Submitting /\ Submitting'
    BY <1>1, <1>4 DEF Submitting
  <2>4. (\A w \in Workers : pc[w] = "idle" <=> task[w] = NoJob)'
    BY <1>1, <1>4 DEF TieredInv, JobsOwned
  <2>5. (\A w \in Workers : task[w] # NoJob => HasJob(task[w]) /\ task[w] \notin queue)'
    BY <2>1, <2>2, <1>1, <1>9 DEF TieredInv, JobsOwned
  <2>6. (\A v, w \in Workers : task[v] = task[w] /\ task[w] # NoJob => v = w)'
    BY <1>1 DEF TieredInv, JobsOwned
  <2>7. (\A b \in queue : HasJob(b))'
    BY <2>1, <2>2, <1>1, <1>9 DEF TieredInv, JobsOwned
  <2>8. (Submitting => /\ HasJob(op.add) /\ op.add \notin queue
                       /\ \A w \in Workers : task[w] # op.add)'
    BY <2>2, <1>1, <1>3, <1>7, <1>9
  <2>9. (\A b \in Adds : HasJob(b) => \/ b \in queue \/ \E w \in Workers : task[w] = b
                                      \/ Submitting /\ op.add = b)'
    BY <2>3, <1>1, <1>3, <1>7, <1>9 DEF TieredInv, JobsOwned
  <2>10. QED
    BY <2>4, <2>5, <2>6, <2>7, <2>8, <2>9 DEF JobsOwned
<1>13. NewIsFresh'
  <2>1. adds \in Nat /\ \A b \in Adds : b > adds => b # a
    BY <1>1, <1>3, BoundsAssumption DEF TieredInv, TypeOK, ControlType, Adds
  <2>2. (\A b \in Adds : b > adds => Fresh(b))'
    BY <2>1, <1>1, <1>9 DEF TieredInv, NewIsFresh, Fresh, HasJob
  <2>3. QED
    BY <2>2, <1>4 DEF NewIsFresh, BeforeStored
<1>14. NotStoredYet'
  BY <1>1, <1>3, <1>4, <1>9 DEF TieredInv, NotStoredYet
<1>15. LocksHeld'
  BY <1>1, <1>4 DEF TieredInv, LocksHeld, Threads, locks, Storing
<1>16. CopyIsCurrent'
  <2>1. ASSUME NEW w \in Workers, pc'[w] \in {"store", "store_x"}
        PROVE  FALSE
    BY <2>1, <1>1, <1>4 DEF TieredInv, LocksHeld, Storing
  <2>2. ASSUME NEW t \in Threads, pc'[t] = "index"
        PROVE  (element[AddOf(t)] # NoElement /\ element[AddOf(t)].inProcess)'
    BY <2>2, <1>1, <1>4 DEF TieredInv, CopyIsCurrent, AddOf, Threads
  <2>3. QED
    BY <2>1, <2>2 DEF CopyIsCurrent
<1>17. LookupMatchesElements'
  BY <1>1 DEF TieredInv, LookupMatchesElements, Live
<1>18. BufferedNotInHNSW'
  <2> SUFFICES ASSUME ~IsMulti, NEW i \in 1..Count(flat)', lookup[flat'.labels[i]] # <<>>
               PROVE  \/ /\ lookup[flat'.labels[i]] = <<flat'.vectors[i]>>
                         /\ \E w \in Workers : /\ task[w] = flat'.vectors[i]
                                               /\ pc'[w] \in {"index", "finish"}
                      \/ op'.label = flat'.labels[i] /\ flat'.vectors[i] = op'.add
    BY <1>1, <1>4 DEF BufferedNotInHNSW
  <2>1. CASE i = id
    BY <2>1, <1>2, <1>3, <1>6, <1>7 DEF StoresAt
  <2>2. CASE i # id
    <3>1. /\ i \in 1..Count(flat)
          /\ flat'.labels[i] = flat.labels[i] /\ flat'.vectors[i] = flat.vectors[i]
      BY <2>2, <1>6 DEF StoresAt
    <3>2. /\ lookup[flat.labels[i]] = <<flat.vectors[i]>>
          /\ \E w \in Workers : task[w] = flat.vectors[i] /\ pc[w] \in {"index", "finish"}
      BY <3>1, <1>1 DEF TieredInv, BufferedNotInHNSW
    <3>3. QED
      BY <3>1, <3>2, <1>4
  <2>3. QED
    BY <2>1, <2>2
<1>19. LabelCleared' /\ RoomInFlat' /\ FlatWithinLimit'
  BY <1>4, <1>5 DEF LabelCleared, RoomInFlat, FlatWithinLimit
<1>20. QED
  BY <1>5, <1>8, <1>10, <1>11, <1>12, <1>13, <1>14, <1>15, <1>16, <1>17, <1>18, <1>19
  DEF TieredInv

-----------------------------------------------------------------------------
(* The theorems.                                                            *)

\* TieredInv is inductive: no step of any thread breaks it.
LEMMA StepInv == ASSUME TieredInv, [Next]_vars PROVE TieredInv'
<1>1. CASE Call
  BY <1>1, SetWriteModeInv, StartAddInv, StartDeleteInv DEF Call
<1>2. CASE DeleteStep
  BY <1>2, DeleteCheckFlatInv, DeleteFromFlatInv, DeleteFromHNSWInv,
     DeleteFromHNSWInplaceInv, ExecuteReadySwapJobsInv DEF DeleteStep
<1>3. CASE AddStep
  BY <1>3, AddInplaceInv, RecheckFlatLimitInv, AddToFlatInv, AddDeletesOldFromHNSWInv,
     SubmitInsertJobInv DEF AddStep
<1>4. ASSUME NEW t \in Threads, InsertStep(t)
      PROVE  TieredInv'
  BY <1>4, StoreInv, FindFullInv, IndexVectorInv DEF InsertStep
<1>5. ASSUME NEW w \in Workers, WorkerStep(w)
      PROVE  TieredInv'
  BY <1>4, <1>5, DropInvalidJobInv, CopyBlobInv, FinishJobInv DEF WorkerStep, Threads
<1>6. ASSUME NEW w \in Workers, NEW a \in Adds, TakeJob(w, a)
      PROVE  TieredInv'
  BY <1>6, TakeJobInv
<1>7. ASSUME NEW r \in Readers, QueryStart(r) \/ QueryStep(r)
      PROVE  TieredInv'
  BY <1>7, QueryInv
<1>8. CASE UNCHANGED vars
  <2>1. UNCHANGED <<tiers, jobs, queue, locks, writeMode, pc, op, task, blob, adds,
                    query, promised, gone>>
    BY <1>8 DEF vars, control, queries
  <2>2. TypeOK'
    BY <2>1 DEF TieredInv, TypeOK, TiersType, JobsType, LocksType, ControlType, QueriesType,
                tiers, jobs, locks
  <2>3. (FlatLookupIsInverse /\ CallConsistent /\ JobsMatchFlat /\ JobListsShort)'
    BY <2>1 DEF TieredInv, tiers, jobs, FlatLookupIsInverse, IsLabelExists, Count,
                CallConsistent, Busy, JobsMatchFlat, ValidJob, HasJob, JobListsShort
  <2>4. (JobsOwned /\ NewIsFresh /\ NotStoredYet)'
    BY <2>1 DEF TieredInv, tiers, jobs, JobsOwned, Submitting, HasJob, NewIsFresh, Fresh,
                NotStoredYet
  <2>5. (LocksHeld /\ CopyIsCurrent)'
    BY <2>1 DEF TieredInv, tiers, jobs, locks, LocksHeld, Storing, CopyIsCurrent, ValidJob,
                HasJob, AddOf
  <2>6. (LookupMatchesElements /\ BufferedNotInHNSW /\ LabelCleared)'
    BY <2>1 DEF TieredInv, tiers, LookupMatchesElements, Live, BufferedNotInHNSW,
                LabelCleared, ClearsLabel, Count, IsLabelExists
  <2>7. (InvalidJobsTracked /\ InvalidIdsOld /\ FlatWithinLimit /\ RoomInFlat)'
    BY <2>1 DEF TieredInv, tiers, jobs, InvalidJobsTracked, HasJob, InvalidIdsOld,
                FlatWithinLimit, RoomInFlat, Count
  <2>8. QED
    BY <2>2, <2>3, <2>4, <2>5, <2>6, <2>7 DEF TieredInv
<1>9. QED
  BY <1>1, <1>2, <1>3, <1>4, <1>5, <1>6, <1>7, <1>8 DEF Next, MainStep, Threads

\* The inductive invariant holds in every state, of either kind of index.
THEOREM TieredInvHolds == Spec => []TieredInv
<1>1. Init => TieredInv
  BY InitInv
<1>2. TieredInv /\ [Next]_vars => TieredInv'
  BY StepInv
<1>3. QED
  BY <1>1, <1>2, PTL DEF Spec

\* Every variable keeps its type.
THEOREM TypeCorrect == Spec => []TypeOK
<1>1. TieredInv => TypeOK
  BY DEF TieredInv
<1>2. QED
  BY <1>1, TieredInvHolds, PTL

\* Whatever swaps, overwrites and deletions do to the buffer, an insert job's
\* id leads to the vector that the job was created for.
THEOREM JobsAlwaysMatchFlat == Spec => []JobsMatchFlat
<1>1. TieredInv => JobsMatchFlat
  BY DEF TieredInv
<1>2. QED
  BY <1>1, TieredInvHolds, PTL

\* Invalid jobs are never lost and never freed while somebody holds them.
THEOREM InvalidJobsAlwaysTracked == Spec => []InvalidJobsTracked
<1>1. TieredInv => InvalidJobsTracked
  BY DEF TieredInv
<1>2. QED
  BY <1>1, TieredInvHolds, PTL

\* A worker never stores a value that was overwritten, deleted or moved since
\* it was copied, and what it indexes stays in HNSW while it does.
THEOREM CopyAlwaysCurrent == Spec => []CopyIsCurrent
<1>1. TieredInv => CopyIsCurrent
  BY DEF TieredInv
<1>2. QED
  BY <1>1, TieredInvHolds, PTL

\* HNSW's lookup is exact, and in a single-value index never holds two elements
\* of a label.
THEOREM LookupAlwaysMatches == Spec => []LookupMatchesElements
<1>1. TieredInv => LookupMatchesElements
  BY DEF TieredInv
<1>2. QED
  BY <1>1, TieredInvHolds, PTL

\* The flat buffer never exceeds its limit although addVector checks the size
\* without its lock.
THEOREM FlatAlwaysWithinLimit == Spec => []FlatWithinLimit
<1>1. TieredInv => FlatWithinLimit
  BY DEF TieredInv
<1>2. QED
  BY <1>1, TieredInvHolds, PTL

\* A job is in the hands of exactly one of the submitting call, the queue and
\* the workers from its creation to its deletion.
THEOREM JobsAlwaysHeldOnce == Spec => []JobsHeldOnce
<1>1. TieredInv => JobsHeldOnce
  <2> SUFFICES ASSUME TieredInv, NEW a \in Adds
               PROVE  LET holders == {w \in Workers : task[w] = a}
                              \cup {q \in {"queue"} : a \in queue}
                              \cup {q \in {"main"} : op.add = a /\
                                     pc[MainThread] \in {"add_del_hnsw", "gc_add", "submit"}}
                      IN  Cardinality(holders) = IF HasJob(a) THEN 1 ELSE 0
    BY DEF JobsHeldOnce
  <2> DEFINE byWorkers == {w \in Workers : task[w] = a}
             byQueue   == {q \in {"queue"} : a \in queue}
             byMain    == {q \in {"main"} : op.add = a /\ Submitting}
             holders   == byWorkers \cup byQueue \cup byMain
  <2>1. a # NoJob
    BY AbsentAssumption
  <2>2. CASE ~HasJob(a)
    <3>1. holders = {}
      BY <2>1, <2>2 DEF TieredInv, JobsOwned
    <3>2. QED
      BY <2>2, <3>1, FS_EmptySet DEF Submitting
  <2>3. CASE HasJob(a)
    <3>1. CASE a \in queue
      <4>1. holders = {"queue"}
        BY <2>1, <3>1 DEF TieredInv, JobsOwned
      <4>2. QED
        BY <2>3, <4>1, FS_Singleton DEF Submitting
    <3>2. CASE \E w \in Workers : task[w] = a
      <4>1. PICK w \in Workers : task[w] = a
        BY <3>2
      <4>2. byWorkers = {w} /\ byQueue = {} /\ byMain = {}
        BY <2>1, <4>1 DEF TieredInv, JobsOwned
      <4>3. holders = {w}
        BY <4>2
      <4>4. QED
        BY <2>3, <4>3, FS_Singleton DEF Submitting
    <3>3. CASE Submitting /\ op.add = a
      <4>1. holders = {"main"}
        BY <2>1, <3>3 DEF TieredInv, JobsOwned
      <4>2. QED
        BY <2>3, <4>1, FS_Singleton DEF Submitting
    <3>4. QED
      BY <2>3, <3>1, <3>2, <3>3 DEF TieredInv, JobsOwned
  <2>4. QED
    BY <2>2, <2>3
<1>2. QED
  BY <1>1, TieredInvHolds, PTL

=============================================================================
