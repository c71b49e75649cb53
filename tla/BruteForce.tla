----------------------------- MODULE BruteForce -----------------------------
(***************************************************************************)
(* The brute-force index (BruteForceIndex and its Single and Multi         *)
(* variants) as a state machine: id allocation, swap-with-last removal,    *)
(* the label lookup, the block-wise capacity of its metadata with the      *)
(* assertions guarding it, and the form (preprocessed or not) in which a   *)
(* blob reaches the raw data container.                                    *)
(***************************************************************************)
EXTENDS FlatKinds

CONSTANTS
  Vectors,      \* the vectors that addVector is called with
  BlockSize     \* elements per block

ASSUME BlockSizeAssumption == BlockSize \in Nat \ {0}

VARIABLES
  flat,         \* the index itself, see FlatIndex
  capacity,     \* indexCapacity(), the size of idToLabelMapping
  assertsHold,  \* FALSE once an assert of the code has failed
  updated       \* the map last returned by deleteVectorAndGetUpdatedIds

vars == <<multi, flat, capacity, assertsHold, updated>>

-----------------------------------------------------------------------------
(* Capacity.  Both operators return the new capacity and whether every     *)
(* assert on the way held.                                                 *)

\* growByBlock, called by appendVector when the metadata is full.
Grow(cap, count) ==
  IF count >= cap
  THEN [cap |-> cap + BlockSize, ok |-> cap = count /\ cap % BlockSize = 0]
  ELSE [cap |-> cap, ok |-> TRUE]

\* Mutant: the empty index is not treated apart.
ShrinkNeverEmpty(cap, count) ==
  IF count % BlockSize = 0 /\ cap >= count + 2 * BlockSize
  THEN [cap |-> cap - BlockSize, ok |-> count + 2 * BlockSize = cap]
  ELSE [cap |-> cap, ok |-> TRUE]

\* shrinkByBlock, called by removeVector when count reaches a multiple of the
\* block size: one empty block is kept, unless the index is empty.
Shrink(cap, count) ==
  IF count % BlockSize # 0 THEN [cap |-> cap, ok |-> TRUE]
  ELSE LET full == cap >= BlockSize /\ cap % BlockSize = 0
       IN IF count = 0 THEN [cap |-> 0, ok |-> full]
          ELSE IF cap >= count + 2 * BlockSize
          THEN [cap |-> cap - BlockSize, ok |-> full /\ count + 2 * BlockSize = cap]
          ELSE [cap |-> cap, ok |-> full]

\* n removals in a row, from count down.
ShrinkTimes(cap, count, n) ==
  LET after[i \in 0..n] ==
        IF i = 0 THEN [cap |-> cap, ok |-> TRUE]
        ELSE LET before == after[i - 1]
                 r      == Shrink(before.cap, count - i)
             IN  [cap |-> r.cap, ok |-> before.ok /\ r.ok]
  IN  after[n]

-----------------------------------------------------------------------------
Processed(v) == [vec |-> v, processed |-> TRUE]
Raw(v)       == [vec |-> v, processed |-> FALSE]

Present == {flat.vectors[i].vec : i \in 1..Count(flat)}

Init ==
  /\ multi \in BOOLEAN
  /\ flat = EmptyFlat
  /\ capacity = 0
  /\ assertsHold = TRUE
  /\ updated = NoUpdates

\* appendVector: grow if needed, preprocess, store under the next id.
Append1(l, v) ==
  LET g == Grow(capacity, Count(flat))
  IN  /\ flat' = AppendVector(flat, l, Processed(v))
      /\ capacity' = g.cap
      /\ assertsHold' = (assertsHold /\ g.ok)

\* BruteForceIndex_Single::addVector stores an overwriting blob as it came.
Overwrite(l, v) ==
  /\ flat' = UpdateElement(flat, flat.ids[l][1], Raw(v))
  /\ UNCHANGED <<capacity, assertsHold>>

AddVector(l, v) ==
  /\ v \notin Present
  /\ \/ (multi \/ ~IsLabelExists(flat, l)) /\ Append1(l, v)
     \/ ~multi /\ IsLabelExists(flat, l) /\ Overwrite(l, v)
  /\ updated' = NoUpdates
  /\ UNCHANGED multi

\* The metadata after the removals that lead to f, whose asserts are held.
ShrinkAfter(f, held) ==
  LET s == ShrinkTimes(capacity, Count(flat), Count(flat) - Count(f))
  IN  /\ capacity' = s.cap
      /\ assertsHold' = (assertsHold /\ s.ok /\ held)

DeleteVector(l) ==
  /\ flat' = DeleteVectorAndGetUpdatedIds(flat, l).flat
  /\ ShrinkAfter(flat', DeletionAsserts(flat, l))
  /\ updated' = NoUpdates
  /\ UNCHANGED multi

DeleteAndGetUpdatedIds(l) ==
  LET r == DeleteVectorAndGetUpdatedIds(flat, l)
  IN  /\ flat' = r.flat
      /\ ShrinkAfter(r.flat, DeletionAsserts(flat, l))
      /\ updated' = r.updated
      /\ UNCHANGED multi

\* The tiered index passes an id that the label has.
DeleteById(l, id) ==
  /\ flat.labels[id] = l
  /\ flat' = DeleteVectorById(flat, l, id)
  /\ ShrinkAfter(flat', DeletionByIdAsserts(flat, l, id))
  /\ updated' = NoUpdates
  /\ UNCHANGED multi

Next ==
  \E l \in Labels :
    \/ \E v \in Vectors : AddVector(l, v)
    \/ DeleteVector(l)
    \/ DeleteAndGetUpdatedIds(l)
    \/ \E id \in 1..Count(flat) : DeleteById(l, id)

Spec == Init /\ [][Next]_vars

-----------------------------------------------------------------------------
(* Properties *)

\* The variables range over what the code declares them to hold.
TypeOK ==
  /\ multi \in BOOLEAN
  /\ flat.labels \in Seq(Labels)
  /\ flat.vectors \in Seq([vec : Vectors, processed : BOOLEAN])
  /\ Len(flat.labels) = Len(flat.vectors)
  /\ flat.ids \in [Labels -> Seq(Nat \ {0})]
  /\ capacity \in Nat
  /\ assertsHold \in BOOLEAN
  /\ \A id \in DOMAIN updated : updated[id] \in Nat \X Labels

\* The label lookup is the inverse of idToLabelMapping: a label lists exactly
\* the ids that carry it, each once, and in a single-value index at most one.
LookupIsInverse ==
  \A l \in Labels :
    /\ Range(flat.ids[l]) = {i \in 1..Count(flat) : flat.labels[i] = l}
    /\ IsInjective(flat.ids[l])
    /\ ~multi => Len(flat.ids[l]) <= 1

\* No call sequence makes an assert of growByBlock, shrinkByBlock (on counts
\* and capacities), removeVector, replaceIdOfLabel or deleteVectorById fail.
AssertsHold == assertsHold

\* Ids never outgrow the metadata, and at most one block and a remainder is
\* kept beyond the elements (the hysteresis that shrinkByBlock implements).
CapacityFits ==
  /\ Count(flat) <= capacity
  /\ capacity < Count(flat) + 2 * BlockSize
  /\ Count(flat) = 0 => capacity = 0

\* The map returned by deleteVectorAndGetUpdatedIds tells, for every id, which
\* vector is there now: the one whose original id the map gives, or the same.
\* The tiered index relies on it to rename its pending jobs.
UpdatedIdsStep(l) ==
  DeleteAndGetUpdatedIds(l) =>
    /\ DOMAIN updated' \subseteq 1..Count(flat')
    /\ \A id \in 1..Count(flat') :
         LET from == IF id \in DOMAIN updated' THEN updated'[id]
                     ELSE <<id, flat.labels[id]>>
         IN  /\ flat'.vectors[id] = flat.vectors[from[1]]
             /\ flat'.labels[id] = from[2]
             /\ flat.labels[from[1]] = from[2]

UpdatedIdsAreExact == [][\A l \in Labels : UpdatedIdsStep(l)]_vars

\* Each call does what a store of vectors under labels promises: what is held
\* under the other labels stays, a vector replaces (single) or joins (multi) what
\* its label has, and what is not deleted is still there, after any swaps.
content == [l \in Labels |-> {flat.vectors[i].vec : i \in Range(flat.ids[l])}]

SingleStore == INSTANCE VectorStore WITH IsMulti <- FALSE
MultiStore  == INSTANCE VectorStore WITH IsMulti <- TRUE

StepsOfStore ==
  [][content' # content => IF multi THEN MultiStore!Next ELSE SingleStore!Next]_vars

\* "In the tiered index, we assume that the blobs are processed by the flat
\* buffer before being transferred to the HNSW index" (hnsw_tiered.h): every
\* blob in the raw data container went through preprocessForStorage.
StoredBlobsAreProcessed ==
  \A i \in 1..Count(flat) : flat.vectors[i].processed

=============================================================================
