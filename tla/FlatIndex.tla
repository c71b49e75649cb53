------------------------------ MODULE FlatIndex ------------------------------
(***************************************************************************)
(* The bookkeeping of the brute-force ("flat") index, as operators on a    *)
(* value, so that the stand-alone index (BruteForce) and the tiered index, *)
(* whose write buffer is a flat index (TieredHNSW), use the same code.     *)
(*                                                                         *)
(* A flat index is a record                                                *)
(*    labels   idToLabelMapping, the label of every internal id            *)
(*    vectors  the raw data container, the blob of every internal id       *)
(*    ids      the label-to-id(s) lookup; <<>> where it has no entry       *)
(* Internal id i of the source is position i + 1 of labels and vectors.    *)
(* IsMulti tells BruteForceIndex_Multi from BruteForceIndex_Single.        *)
(***************************************************************************)
EXTENDS Naturals, Sequences, SequencesExt

CONSTANTS Labels, IsMulti

EmptyFlat == [labels |-> <<>>, vectors |-> <<>>, ids |-> [l \in Labels |-> <<>>]]

Count(f) == Len(f.labels)

IsLabelExists(f, l) == f.ids[l] # <<>>

\* The new vector gets the next id, and its label a further entry.
AppendVector(f, l, v) ==
  [labels  |-> Append(f.labels, l),
   vectors |-> Append(f.vectors, v),
   ids     |-> [f.ids EXCEPT ![l] = Append(@, Count(f) + 1)]]

UpdateElement(f, id, v) == [f EXCEPT !.vectors[id] = v]

\* Mutant: the list is searched from its beginning, and a single-value lookup
\* keeps the old id.
ReplaceIdOfLabelFirst(ids, l, newId, oldId) ==
  IF IsMulti THEN [ids EXCEPT ![l][SelectInSeq(ids[l], LAMBDA id : id = oldId)] = newId]
  ELSE ids

\* In multi the LAST occurrence of the old id is replaced: while a label is
\* being deleted the head of its list holds ids that are already gone.
ReplaceIdOfLabel(ids, l, newId, oldId) ==
  IF IsMulti
  THEN LET i == SelectLastInSubSeq(ids[l], 1, Len(ids[l]), LAMBDA id : id = oldId)
       IN  [ids EXCEPT ![l][i] = newId]
  ELSE [ids EXCEPT ![l] = <<newId>>]

\* s without its last element, which moves into position id.
SwapLastInto(s, id) ==
  [i \in 1..(Len(s) - 1) |-> IF i = id THEN s[Len(s)] ELSE s[i]]

\* Mutant: the blob of the last vector is not moved into the freed position.
RemoveVectorKeepData(f, id) ==
  [labels  |-> SwapLastInto(f.labels, id),
   vectors |-> Front(f.vectors),
   ids     |-> IF id = Count(f) THEN f.ids
               ELSE ReplaceIdOfLabel(f.ids, f.labels[Count(f)], id, Count(f))]

\* Mutant: the last element is not taken out of the raw data container.
RemoveVectorKeepLast(f, id) ==
  [labels  |-> SwapLastInto(f.labels, id),
   vectors |-> [f.vectors EXCEPT ![id] = f.vectors[Count(f)]],
   ids     |-> IF id = Count(f) THEN f.ids
               ELSE ReplaceIdOfLabel(f.ids, f.labels[Count(f)], id, Count(f))]

RemoveVector(f, id) ==
  [labels  |-> SwapLastInto(f.labels, id),
   vectors |-> SwapLastInto(f.vectors, id),
   ids     |-> IF id = Count(f) THEN f.ids
               ELSE ReplaceIdOfLabel(f.ids, f.labels[Count(f)], id, Count(f))]

\* The asserts of removeVector, and of the replaceIdOfLabel it calls unless id
\* is the last one: its single-value form looks the label up with at().
RemovalAsserts(f, id) ==
  LET last == Count(f)
      s    == f.ids[f.labels[last]]
  IN  id # last => id < last /\ s # <<>> /\ (IsMulti => last \in Range(s))

-----------------------------------------------------------------------------
(* Deleting a label.  Each operator returns the new index and the map from *)
(* an id to <<original id, label>> of the vector that has moved into it.   *)

NoUpdates == [id \in {} |-> <<>>]

\* Mutant: the swap is not reported.
DeleteSingleSilent(f, l) ==
  [flat    |-> RemoveVector([f EXCEPT !.ids[l] = <<>>], f.ids[l][1]),
   updated |-> NoUpdates]

DeleteSingle(f, l) ==
  LET id   == f.ids[l][1]
      last == Count(f)
  IN  [flat    |-> RemoveVector([f EXCEPT !.ids[l] = <<>>], id),
       updated |-> [i \in {id} \ {last} |-> <<last, f.labels[last]>>]]

\* Mutant: a vector that is moved a second time is reported under the id it
\* had in between.
DeleteRoundNoChain(st, l, i) ==
  LET f    == st.flat
      id   == f.ids[l][i]
      last == Count(f)
      kept == DOMAIN st.updated \ {id, last}
  IN  [flat    |-> RemoveVector(f, id),
       updated |-> IF id = last THEN [j \in kept |-> st.updated[j]]
                   ELSE [j \in kept \cup {id} |->
                            IF j = id THEN <<last, f.labels[last]>> ELSE st.updated[j]]]

\* One round of the loop over the ids of a multi-value label: remove the id
\* that is at position i of the list NOW, then record what moved into it.
DeleteRound(st, l, i) ==
  LET f    == st.flat
      id   == f.ids[l][i]
      last == Count(f)
      from == IF last \in DOMAIN st.updated THEN st.updated[last]
              ELSE <<last, f.labels[last]>>
      kept == DOMAIN st.updated \ {id}
  IN  [flat    |-> RemoveVector(f, id),
       updated |-> IF id = last THEN [j \in kept |-> st.updated[j]]
                   ELSE [j \in (kept \ {last}) \cup {id} |->
                            IF j = id THEN from ELSE st.updated[j]]]

\* The state of that loop after each round.
DeleteRounds(f, l) ==
  LET after[i \in 0..Len(f.ids[l])] ==
        IF i = 0 THEN [flat |-> f, updated |-> NoUpdates] ELSE DeleteRound(after[i - 1], l, i)
  IN  after

DeleteMulti(f, l) == [DeleteRounds(f, l)[Len(f.ids[l])] EXCEPT !.flat.ids[l] = <<>>]

DeleteVectorAndGetUpdatedIds(f, l) ==
  IF ~IsLabelExists(f, l) THEN [flat |-> f, updated |-> NoUpdates]
  ELSE IF IsMulti THEN DeleteMulti(f, l) ELSE DeleteSingle(f, l)

\* Single ignores the id; multi removes the first matching position of the
\* list as it was before the removal renamed an id in it.
DeleteVectorById(f, l, id) ==
  IF ~IsLabelExists(f, l) THEN f
  ELSE IF IsMulti
  THEN LET i == SelectInSeq(f.ids[l], LAMBDA x : x = id)
           g == RemoveVector(f, id)
       IN  [g EXCEPT !.ids[l] = RemoveAt(@, i)]
  ELSE DeleteSingle(f, l).flat

-----------------------------------------------------------------------------
(* The asserts on the way of a deletion, each removal's in the state it is  *)
(* made in: the lookup of a single-value index has lost the label by then,  *)
(* the one of a multi-value index has been through the rounds before.       *)

DeletionAsserts(f, l) ==
  IF IsMulti
  THEN \A i \in DOMAIN f.ids[l] :
         LET g == DeleteRounds(f, l)[i - 1].flat IN RemovalAsserts(g, g.ids[l][i])
  ELSE IsLabelExists(f, l) => RemovalAsserts([f EXCEPT !.ids[l] = <<>>], f.ids[l][1])

\* deleteVectorById of a multi-value index expects the id in the label's list.
DeletionByIdAsserts(f, l, id) ==
  IF IsMulti THEN IsLabelExists(f, l) => id \in Range(f.ids[l]) /\ RemovalAsserts(f, id)
  ELSE DeletionAsserts(f, l)

=============================================================================
