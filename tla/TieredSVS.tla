----------------------------- MODULE TieredSVS ------------------------------
(***************************************************************************)
(* The tiered SVS index: a flat buffer in front of an SVS index.  The main *)
(* thread adds to the buffer and deletes from both; an update job copies   *)
(* the buffer, adds the copy to SVS, and afterwards replays a journal of   *)
(* what happened to the buffer meanwhile to find what it may take out.     *)
(*                                                                         *)
(* A step is a critical section: the part of a call that holds one of      *)
(* flatIndexGuard and mainIndexGuard.  The SVS library is a map from       *)
(* labels to vectors.  A vector is the number of its label's additions, so *)
(* that a later one is told from an earlier one.                           *)
(***************************************************************************)
EXTENDS FlatKinds, Integers

CONSTANTS
  TrainingTriggerThreshold,  \* size of the buffer that starts an empty SVS index
  UpdateTriggerThreshold,    \* size of the buffer that is moved to SVS
  MaxCalls                   \* bounds the calls that add a vector or delete a label

ASSUME TieredSVSAssumption ==
  /\ TrainingTriggerThreshold \in Nat \ {0} /\ UpdateTriggerThreshold \in Nat \ {0}
  /\ MaxCalls \in Nat

VARIABLES
  mode,      \* the write mode
  flat,      \* frontendIndex, see FlatIndex
  svs,       \* backendIndex: the vectors of each label
  journal,   \* [swaps |-> swaps_journal, deleted |-> deleted_labels_journal]
  queue,     \* the job queue: how many update and GC jobs it holds
  scheduled, \* indexUpdateScheduled and indexGCScheduled
  update,    \* the update that holds updateJobMutex
  main,      \* what the main thread does
  added,     \* how often each label was added
  expected,  \* the vectors a label should have, were each call done at once
  exposed,   \* labels last written in place over an older vector that an update moves
  calls

vars == <<multi, mode, flat, svs, journal, queue, scheduled, update, main,
          added, expected, exposed, calls>>

\* SKIP_LABEL, which no vector has as its label.
Skip == "skip"

ASSUME SkipAssumption == Skip \notin Labels

Idle == [pc |-> "idle"]
NoJournal == [swaps |-> <<>>, deleted |-> {}]
SVSIsEmpty == \A l \in Labels : svs[l] = {}

Init ==
  /\ multi \in BOOLEAN
  /\ mode \in {"async", "inplace"}
  /\ flat = EmptyFlat
  /\ svs = [l \in Labels |-> {}]
  /\ journal = NoJournal
  /\ queue = [update |-> 0, gc |-> 0]
  /\ scheduled = [update |-> FALSE, gc |-> FALSE]
  /\ update = Idle
  /\ main = Idle
  /\ added = [l \in Labels |-> 0]
  /\ expected = [l \in Labels |-> {}]
  /\ exposed = {}
  /\ calls = 0

-----------------------------------------------------------------------------
(* addVector and deleteVector, seen from their callers.                    *)

StartAdd(l) ==
  /\ main = Idle /\ calls < MaxCalls
  /\ calls' = calls + 1
  /\ added' = [added EXCEPT ![l] = @ + 1]
  /\ expected' = [expected EXCEPT ![l] = IF multi THEN @ \cup {added'[l]} ELSE {added'[l]}]
  /\ main' = [pc |-> IF mode = "inplace" THEN "add_inplace"
                     ELSE IF multi THEN "add_flat" ELSE "add_check_svs", label |-> l]
  /\ UNCHANGED <<multi, mode, flat, svs, journal, queue, scheduled, update, exposed>>

StartDelete(l) ==
  /\ main = Idle /\ calls < MaxCalls
  /\ calls' = calls + 1
  /\ expected' = [expected EXCEPT ![l] = {}]
  /\ main' = [pc |-> "delete_check_flat", label |-> l]
  /\ UNCHANGED <<multi, mode, flat, svs, journal, queue, scheduled, update, added, exposed>>

Goto(pc) == main' = IF pc = "idle" THEN Idle ELSE [pc |-> pc, label |-> main.label]

-----------------------------------------------------------------------------
(* Writing asynchronously.                                                 *)

\* Single value only: under the shared main lock, is the label in SVS?
AddCheckSVS ==
  /\ main.pc = "add_check_svs"
  /\ Goto(IF svs[main.label] # {} THEN "add_delete_svs" ELSE "add_flat")
  /\ UNCHANGED <<multi, mode, flat, svs, journal, queue, scheduled, update, added, expected, exposed, calls>>

\* Under the exclusive main lock; the label may be gone by now.
AddDeletesOldFromSVS ==
  /\ main.pc = "add_delete_svs"
  /\ svs' = [svs EXCEPT ![main.label] = {}]
  /\ Goto("add_flat")
  /\ UNCHANGED <<multi, mode, flat, journal, queue, scheduled, update, added, expected, exposed, calls>>

\* addVector of the flat index: a single-value index overwrites.
WithVector(f, l) ==
  IF ~multi /\ IsLabelExists(f, l) THEN UpdateElement(f, f.ids[l][1], added[l])
  ELSE AppendVector(f, l, added[l])

\* An overwritten vector must neither be removed from the buffer nor stay in SVS.
JournalOverwrite(l) ==
  IF multi \/ ~IsLabelExists(flat, l) THEN journal
  ELSE [swaps   |-> Append(journal.swaps, <<Skip, flat.ids[l][1], flat.ids[l][1]>>),
        deleted |-> journal.deleted \cup {l}]

AddToFlat ==
  /\ main.pc = "add_flat"
  /\ flat' = WithVector(flat, main.label)
  /\ journal' = JournalOverwrite(main.label)
  /\ main' = [pc |-> "add_threshold", size |-> Count(flat')]
  /\ exposed' = exposed \ {main.label}
  /\ UNCHANGED <<multi, mode, svs, queue, scheduled, update, added, expected, calls>>

\* Under the shared main lock: which threshold holds?
AddCheckThreshold ==
  /\ main.pc = "add_threshold"
  /\ main' = IF main.size >= (IF SVSIsEmpty THEN TrainingTriggerThreshold
                                            ELSE UpdateTriggerThreshold)
             THEN [pc |-> "schedule"] ELSE Idle
  /\ UNCHANGED <<multi, mode, flat, svs, journal, queue, scheduled, update, added, expected, exposed, calls>>

\* scheduleSVSIndexUpdate: an atomic test-and-set, then the job is submitted.
ScheduleUpdate ==
  /\ main.pc = "schedule"
  /\ scheduled' = [scheduled EXCEPT !.update = TRUE]
  /\ queue' = IF scheduled.update THEN queue ELSE [queue EXCEPT !.update = @ + 1]
  /\ main' = Idle
  /\ UNCHANGED <<multi, mode, flat, svs, journal, update, added, expected, exposed, calls>>

-----------------------------------------------------------------------------
(* Deletion, the same in both modes.                                       *)

DeleteCheckFlat ==
  /\ main.pc = "delete_check_flat"
  /\ Goto(IF IsLabelExists(flat, main.label) THEN "delete_flat" ELSE "delete_check_svs")
  /\ UNCHANGED <<multi, mode, flat, svs, journal, queue, scheduled, update, added, expected, exposed, calls>>

\* The ids of a label, which are all different, in descending order.
Descending(ids) ==
  CHOOSE s \in [DOMAIN ids -> Range(ids)] :
    Range(s) = Range(ids) /\ \A j, k \in DOMAIN ids : j < k => s[j] > s[k]

\* One record per deleted id: where the vector that is there now came from.
SwapRecords(ids, updated) ==
  LET Record(id) == IF id \in DOMAIN updated
                    THEN <<updated[id][2], updated[id][1], id>> ELSE <<Skip, id, id>>
  IN  [k \in DOMAIN ids |-> Record(Descending(ids)[k])]

\* deleteAndRecordSwaps_Unsafe, under the exclusive flat lock.  The update job may
\* have moved the label to SVS since the check; it is journaled all the same.
DeleteAndRecordSwaps ==
  LET d == DeleteVectorAndGetUpdatedIds(flat, main.label) IN
  /\ main.pc = "delete_flat"
  /\ flat' = d.flat
  /\ journal' = [swaps   |-> journal.swaps \o SwapRecords(flat.ids[main.label], d.updated),
                 deleted |-> journal.deleted \cup {main.label}]
  /\ Goto("delete_check_svs")
  /\ UNCHANGED <<multi, mode, svs, queue, scheduled, update, added, expected, exposed, calls>>

DeleteCheckSVS ==
  /\ main.pc = "delete_check_svs"
  /\ Goto(IF svs[main.label] # {} THEN "delete_svs" ELSE "idle")
  /\ exposed' = IF svs[main.label] # {} THEN exposed ELSE exposed \ {main.label}
  /\ UNCHANGED <<multi, mode, flat, svs, journal, queue, scheduled, update, added, expected, calls>>

DeleteFromSVS ==
  /\ main.pc = "delete_svs"
  /\ svs' = [svs EXCEPT ![main.label] = {}]
  /\ exposed' = exposed \ {main.label}
  /\ main' = Idle
  /\ UNCHANGED <<multi, mode, flat, journal, queue, scheduled, update, added, expected, calls>>

-----------------------------------------------------------------------------
(* Writing in place.                                                       *)

\* The vectors under label l of a buffer or of the copy of one.
VectorsOf(f, l) == {f.vectors[i] : i \in {i \in DOMAIN f.labels : f.labels[i] = l}}

FlatVectors(l) == VectorsOf(flat, l)

\* The update has copied the buffer and not cleaned it up yet.
CopyPhases == {"prepare", "set_impl", "add_vectors", "clean"}
HasCopy == update.pc \in CopyPhases

Copied(l) == VectorsOf(update, l)

\* The buffer holds a vector of label l, and the update under way will remove it.
WillBeRemoved(l) ==
  /\ HasCopy /\ FlatVectors(l) # {}
  /\ l \in exposed \/ FlatVectors(l) \subseteq Copied(l)

\* Of a single-value index, label l was written in place; "over": over an older vector
\* that an update will remove from the buffer or move on top of the new one.
Expose(l, over) == exposed' = IF ~multi /\ over THEN exposed \cup {l} ELSE exposed \ {l}

\* While SVS is empty vectors are buffered, which nothing journals, not even when one
\* is overwritten that an update has copied; the shared main lock is held, so SVS
\* stays empty.  At the training threshold the main thread runs the update itself.
AddInplaceToFlat ==
  /\ main.pc = "add_inplace" /\ SVSIsEmpty
  /\ flat' = WithVector(flat, main.label)
  /\ Expose(main.label, WillBeRemoved(main.label))
  /\ main' = IF Count(flat') >= TrainingTriggerThreshold THEN [pc |-> "update"] ELSE Idle
  /\ UNCHANGED <<multi, mode, svs, journal, queue, scheduled, update, added, expected, calls>>

AddInplaceFindsSVS ==
  /\ main.pc = "add_inplace" /\ ~SVSIsEmpty
  /\ Goto("add_svs")
  /\ UNCHANGED <<multi, mode, flat, svs, journal, queue, scheduled, update, added, expected, exposed, calls>>

\* updateJobMutex is free.
NoUpdateRuns == update.pc = "idle"

\* A single-value SVS index deletes the old vector before it adds the new one.  Nobody
\* looks whether the buffer has the label.
AddInplaceToSVS ==
  /\ main.pc = "add_svs" /\ NoUpdateRuns
  /\ svs' = [svs EXCEPT ![main.label] = IF multi THEN @ \cup {added[main.label]}
                                                 ELSE {added[main.label]}]
  /\ Expose(main.label, FlatVectors(main.label) # {})
  /\ main' = Idle
  /\ UNCHANGED <<multi, mode, flat, journal, queue, scheduled, update, added, expected, calls>>

\* The mode is set by the main thread, between any two calls.
SetWriteMode ==
  /\ main = Idle
  /\ mode' = IF mode = "async" THEN "inplace" ELSE "async"
  /\ UNCHANGED <<multi, flat, svs, journal, queue, scheduled, update, main, added, expected, exposed, calls>>

-----------------------------------------------------------------------------
(* The update (updateSVSIndexWrapper, updateSVSIndex), run by a job or by  *)
(* the main thread.                                                        *)

\* The main thread runs the update of its own call, or the queue gives the job away.
RunBy(byMain) ==
  IF byMain THEN main.pc = "update" /\ main' = [pc |-> "updating"] /\ UNCHANGED queue
  ELSE queue.update > 0 /\ queue' = [queue EXCEPT !.update = @ - 1] /\ UNCHANGED main

\* Mutant: the flag that an update is scheduled stays set.
StartUpdateKeepFlag ==
  \E byMain \in BOOLEAN :
  /\ update = Idle
  /\ RunBy(byMain)
  /\ update' = [pc |-> "copy", byMain |-> byMain]
  /\ UNCHANGED <<multi, mode, flat, svs, journal, scheduled, added, expected, exposed, calls>>

\* The mutex is taken and the flag cleared before the buffer is read, so that a
\* vector that comes too late schedules another update.
StartUpdate ==
  \E byMain \in BOOLEAN :
  /\ update = Idle
  /\ RunBy(byMain)
  /\ scheduled' = [scheduled EXCEPT !.update = FALSE]
  /\ update' = [pc |-> "copy", byMain |-> byMain]
  /\ UNCHANGED <<multi, mode, flat, svs, journal, added, expected, exposed, calls>>

\* Mutant: the journal of the last update is kept.
CopyBufferKeepJournal ==
  /\ update.pc = "copy"
  /\ update' = [pc |-> IF Count(flat) = 0 THEN "clean" ELSE "prepare",
                byMain |-> update.byMain, labels |-> flat.labels, vectors |-> flat.vectors]
  /\ UNCHANGED <<multi, mode, flat, svs, journal, queue, scheduled, main, added, expected, exposed, calls>>

\* Under the shared flat lock.
CopyBuffer ==
  /\ update.pc = "copy"
  /\ update' = [pc |-> IF Count(flat) = 0 THEN "clean" ELSE "prepare",
                byMain |-> update.byMain, labels |-> flat.labels, vectors |-> flat.vectors]
  /\ journal' = NoJournal
  /\ UNCHANGED <<multi, mode, flat, svs, queue, scheduled, main, added, expected, exposed, calls>>

\* Under the shared main lock: an empty SVS index is built aside (createImpl).
PrepareSVS ==
  /\ update.pc = "prepare"
  /\ update' = [update EXCEPT !.pc = IF SVSIsEmpty THEN "set_impl" ELSE "add_vectors"]
  /\ UNCHANGED <<multi, mode, flat, svs, journal, queue, scheduled, main, added, expected, exposed, calls>>

\* Under the exclusive main lock, which was given up in between.
SetImpl ==
  /\ update.pc = "set_impl"
  /\ svs' = [l \in Labels |-> Copied(l)]
  /\ update' = [update EXCEPT !.pc = "clean"]
  /\ UNCHANGED <<multi, mode, flat, journal, queue, scheduled, main, added, expected, exposed, calls>>

\* Mutant: a single-value index keeps an older vector of the label.
AddVectorsKeepOld ==
  /\ update.pc = "add_vectors"
  /\ svs' = [l \in Labels |-> IF svs[l] = {} \/ multi THEN svs[l] \cup Copied(l) ELSE svs[l]]
  /\ update' = [update EXCEPT !.pc = "clean"]
  /\ UNCHANGED <<multi, mode, flat, journal, queue, scheduled, main, added, expected, exposed, calls>>

AddVectors ==
  /\ update.pc = "add_vectors"
  /\ svs' = [l \in Labels |-> IF multi THEN svs[l] \cup Copied(l)
                              ELSE IF Copied(l) = {} THEN svs[l] ELSE Copied(l)]
  /\ update' = [update EXCEPT !.pc = "clean"]
  /\ UNCHANGED <<multi, mode, flat, journal, queue, scheduled, main, added, expected, exposed, calls>>

\* Mutant: a vector that was added meanwhile and moved to a copied place is not skipped.
ApplySwapLate(labels, r) ==
  IF r[2] = r[3] \/ r[2] > Len(labels) THEN labels
  ELSE [labels EXCEPT ![r[3]] = labels[r[2]], ![r[2]] = Skip]

\* One record <<label, oldId, newId>>.
ApplySwap(labels, r) ==
  IF r[2] = r[3] \/ r[2] > Len(labels)
  THEN IF r[3] <= Len(labels) THEN [labels EXCEPT ![r[3]] = Skip] ELSE labels
  ELSE [labels EXCEPT ![r[3]] = labels[r[2]], ![r[2]] = Skip]

\* The labels after each of the records.
AppliedSwaps(labels, swaps) ==
  LET after[k \in 0..Len(swaps)] ==
        IF k = 0 THEN labels ELSE ApplySwap(after[k - 1], swaps[k])
  IN  after

ApplySwapsToLabelsArray(labels, swaps) == AppliedSwaps(labels, swaps)[Len(swaps)]

\* A round of the clean-up: the vector id leaves the buffer, unless it is skipped.
RemoveMoved(f, labels, id) ==
  IF labels[id] = Skip THEN f ELSE DeleteVectorById(f, labels[id], id)

\* The buffer after each round, from the highest id down.
RemovalRounds(f, labels) ==
  LET after[k \in 0..Len(labels)] ==
        IF k = 0 THEN f ELSE RemoveMoved(after[k - 1], labels, Len(labels) + 1 - k)
  IN  after

\* Under the exclusive flat lock: what is left of the copy leaves the buffer.
CleanUp ==
  LET labels == ApplySwapsToLabelsArray(update.labels, journal.swaps) IN
  /\ update.pc = "clean"
  /\ flat' = RemovalRounds(flat, labels)[Len(labels)]
  /\ update' = [pc |-> "delete", byMain |-> update.byMain, labels |-> journal.deleted]
  /\ journal' = [journal EXCEPT !.deleted = {}]
  /\ UNCHANGED <<multi, mode, svs, queue, scheduled, main, added, expected, exposed, calls>>

\* Mutant: labels deleted during the update stay in SVS.
FinishUpdateKeepDeleted ==
  /\ update.pc = "delete"
  /\ update' = Idle
  /\ main' = IF update.byMain THEN Idle ELSE main
  /\ UNCHANGED <<multi, mode, flat, svs, journal, queue, scheduled, added, expected, exposed, calls>>

\* Under the exclusive main lock; then the mutex is released.
DeleteRemovedMeanwhile ==
  /\ update.pc = "delete"
  /\ svs' = [l \in Labels |-> IF l \in update.labels THEN {} ELSE svs[l]]
  /\ update' = Idle
  /\ main' = IF update.byMain THEN Idle ELSE main
  /\ UNCHANGED <<multi, mode, flat, journal, queue, scheduled, added, expected, exposed, calls>>

-----------------------------------------------------------------------------
(* Garbage collection consolidates SVS, which changes no vector.           *)

RunGC ==
  /\ main = Idle /\ mode = "async" /\ ~scheduled.gc
  /\ scheduled' = [scheduled EXCEPT !.gc = TRUE]
  /\ queue' = [queue EXCEPT !.gc = @ + 1]
  /\ UNCHANGED <<multi, mode, flat, svs, journal, update, main, added, expected, exposed, calls>>

SVSIndexGC ==
  /\ queue.gc > 0
  /\ queue' = [queue EXCEPT !.gc = @ - 1]
  /\ scheduled' = [scheduled EXCEPT !.gc = FALSE]
  /\ UNCHANGED <<multi, mode, flat, svs, journal, update, main, added, expected, exposed, calls>>

-----------------------------------------------------------------------------
AddStep == \/ AddCheckSVS \/ AddDeletesOldFromSVS \/ AddToFlat \/ AddCheckThreshold
           \/ ScheduleUpdate \/ AddInplaceToFlat \/ AddInplaceFindsSVS \/ AddInplaceToSVS
DeleteStep == DeleteCheckFlat \/ DeleteAndRecordSwaps \/ DeleteCheckSVS \/ DeleteFromSVS
UpdateStep == \/ StartUpdate \/ CopyBuffer \/ PrepareSVS \/ SetImpl \/ AddVectors
              \/ CleanUp \/ DeleteRemovedMeanwhile

Next ==
  \/ \E l \in Labels : StartAdd(l) \/ StartDelete(l)
  \/ AddStep \/ DeleteStep \/ SetWriteMode
  \/ UpdateStep
  \/ RunGC \/ SVSIndexGC

Spec == Init /\ [][Next]_vars

-----------------------------------------------------------------------------
(* Properties.                                                             *)

\* What a query finds under a label: topKQuery and rangeQuery merge both tiers.
Contents(l) == FlatVectors(l) \cup svs[l]

\* While no call is under way every vector that was added, and neither deleted nor
\* overwritten since, is in the buffer or in SVS, in both write modes and across their
\* switches: no update loses it, whatever it has copied, added, and not cleaned up yet
\* (svs_tiered.h:672-760).  Only where a single-value label was written in place over
\* an older vector that an update moves can the newer one be lost (see README).
NothingIsLost ==
  main = Idle => \A l \in Labels \ exposed : expected[l] \subseteq Contents(l)

\* Once neither a call nor an update is under way, a label that was deleted is in no
\* tier: it does not come back though it was copied when it was deleted
\* (svs_tiered.h:748-760).  What is buffered is never stale, and what SVS has of a label
\* is stale only in a single-value index that has its newer vector in the buffer.
DeletedStayDeleted ==
  main = Idle /\ update = Idle =>
    \A l \in Labels :
      /\ expected[l] = {} => Contents(l) = {}
      /\ l \notin exposed =>
           /\ FlatVectors(l) \subseteq expected[l]
           /\ svs[l] \subseteq expected[l] \/ (~multi /\ FlatVectors(l) # {})

\* "there is the risk of labels duplication in both indices which can lead to wrong
\* results of topK queries" (svs_tiered.h:943-945): once neither a call nor an update is
\* under way, no label of a single-value index is in both tiers.  It fails: addVector
\* looks in SVS before it takes the lock of the buffer, and an update may move the old
\* vector from the buffer to SVS in between (svs_tiered.h:860-874).
NoLabelInBothTiers ==
  ~multi /\ main = Idle /\ update = Idle =>
    \A l \in Labels \ exposed : FlatVectors(l) = {} \/ svs[l] = {}

\* When the update takes the lock for its clean-up the journal leads it to exactly
\* those positions of the buffer that still hold what it has copied, or, unjournaled,
\* what was written in place over that: no vector that came later or was overwritten
\* asynchronously is removed (svs_tiered.h:641-669, 731-744).
JournalIsExact ==
  update.pc = "clean" =>
    LET labels == ApplySwapsToLabelsArray(update.labels, journal.swaps)
        Kept == {i \in DOMAIN labels : labels[i] # Skip}
        OnCopy(i) == flat.vectors[i] \in Copied(flat.labels[i]) \/ flat.labels[i] \in exposed
    IN  /\ \A i \in Kept : i <= Count(flat) /\ flat.labels[i] = labels[i] /\ OnCopy(i)
        /\ \A i \in 1..Count(flat) : OnCopy(i) => i \in Kept

\* A buffer that has reached both thresholds is never left alone: an update is
\* scheduled or under way, because the flag is cleared before the buffer is copied
\* (svs_tiered.h:570-574, 884).
FullBufferHasUpdate ==
  main = Idle /\ Count(flat) >= TrainingTriggerThreshold
              /\ Count(flat) >= UpdateTriggerThreshold
    => queue.update > 0 \/ update # Idle

=============================================================================
