---------------------------- MODULE TieredSVSInv ----------------------------
(***************************************************************************)
(* The inductive invariant of the tiered SVS index, single- or multi-      *)
(* value: what has to be known of every state for one step to preserve the *)
(* invariants of TieredSVS.  TLC checks it, TieredSVS_proofs proves it.    *)
(***************************************************************************)
EXTENDS TieredSVS

Numbers == Nat \ {0}

\* The program points of addVector before its vector is in a tier, and those of
\* deleteVector before and after the label has left the buffer.
AddPoints == {"add_check_svs", "add_delete_svs", "add_flat", "add_inplace", "add_svs"}
DeletePoints == {"delete_check_flat", "delete_flat"}
DeleteSVSPoints == {"delete_check_svs", "delete_svs"}

-----------------------------------------------------------------------------
(* The variables by themselves.                                             *)

MainType ==
  {Idle} \cup [pc : AddPoints \cup DeletePoints \cup DeleteSVSPoints, label : Labels]
         \cup [pc : {"add_threshold"}, size : Nat]
         \cup [pc : {"schedule", "update", "updating"}]

UpdateType ==
  {Idle} \cup [pc : {"copy"}, byMain : BOOLEAN]
         \cup [pc : CopyPhases, byMain : BOOLEAN, labels : Seq(Labels), vectors : Seq(Numbers)]
         \cup [pc : {"delete"}, byMain : BOOLEAN, labels : SUBSET Labels]

SwapRecord == (Labels \cup {Skip}) \X Numbers \X Numbers

VariablesInv ==
  /\ multi \in BOOLEAN /\ mode \in {"async", "inplace"}
  /\ svs \in [Labels -> SUBSET Numbers] /\ expected \in [Labels -> SUBSET Numbers]
  /\ added \in [Labels -> Nat] /\ calls \in Nat /\ exposed \subseteq Labels
  /\ journal \in [swaps : Seq(SwapRecord), deleted : SUBSET Labels]
  /\ queue \in [update : Nat, gc : Nat] /\ scheduled \in [update : BOOLEAN, gc : BOOLEAN]
  /\ main \in MainType /\ update \in UpdateType
  /\ HasCopy => Len(update.labels) = Len(update.vectors)

\* The lookup of the buffer lists the ids of each label, each once.
BufferOK(f) ==
  /\ f \in [labels : Seq(Labels), vectors : Seq(Numbers), ids : [Labels -> Seq(Numbers)]]
  /\ Len(f.labels) = Len(f.vectors)
  /\ \A l \in Labels :
       /\ Range(f.ids[l]) = {i \in 1..Count(f) : f.labels[i] = l}
       /\ IsInjective(f.ids[l])
       /\ ~multi => Len(f.ids[l]) <= 1

\* Who runs the update, and which kind of index an addition looks for its label in.
MainInv ==
  /\ update # Idle => (update.byMain <=> main.pc = "updating")
  /\ main.pc = "updating" => update # Idle
  /\ main.pc \in {"add_check_svs", "add_delete_svs"} => ~ multi

-----------------------------------------------------------------------------
(* The journal.                                                             *)

\* The labels L lead to exactly those positions of the buffer f that hold what the
\* update is to remove, which is C[l] for label l.
Tracks(L, f, C) ==
  LET OnCopy(i) == f.vectors[i] \in C[f.labels[i]]
  IN  /\ L \in Seq(Labels \cup {Skip})
      /\ \A i \in 1..Len(L) :
           L[i] = IF i <= Count(f) /\ OnCopy(i) THEN f.labels[i] ELSE Skip
      /\ \A i \in 1..Count(f) : OnCopy(i) => i <= Len(L)

\* What was copied, and what was written over it in place.
Copies == [l \in Labels |-> Copied(l) \cup IF l \in exposed THEN FlatVectors(l) ELSE {}]

JournalInv ==
  HasCopy => Tracks(ApplySwapsToLabelsArray(update.labels, journal.swaps), flat, Copies)

-----------------------------------------------------------------------------
(* What is known of one label.                                              *)

\* Labels whose removal from SVS waits for the end of the update.
ToDelete == CASE HasCopy -> journal.deleted
              [] update.pc = "delete" -> update.labels
              [] OTHER -> {}

Call(l) ==
  CASE main.pc \in AddPoints /\ main.label = l -> "add"
    [] main.pc \in DeletePoints /\ main.label = l -> "delete"
    [] main.pc \in DeleteSVSPoints /\ main.label = l -> "delete_svs"
    [] OTHER -> "none"

Kind == IF multi THEN "multi" ELSE "single"
CopyOf(l) == IF HasCopy THEN Copied(l) ELSE {}
Fate(l) == IF l \in ToDelete THEN "dropped" ELSE "kept"
Newest(l) == IF l \in exposed THEN "exposed" ELSE "safe"

\* A label with its vectors in both tiers and in the copy of the buffer.
View(l) ==
  [kind |-> Kind, call |-> Call(l), phase |-> update.pc, added |-> added[l],
   expected |-> expected[l], buffer |-> FlatVectors(l), svs |-> svs[l],
   copy |-> CopyOf(l), fate |-> Fate(l), newest |-> Newest(l)]

\* A vector is older than the one that is being added under its label.
NumbersOK(q) ==
  /\ \A v \in q.buffer \cup q.copy : v <= q.added /\ (q.call = "add" => v < q.added)
  /\ q.call = "add" => q.added \in q.expected
  /\ q.kind = "single" => q.expected \subseteq {q.added}
  /\ q.call \in {"delete", "delete_svs"} => q.expected = {}

\* What the label should have by now.
Arrived(q) == IF q.call = "add" THEN q.expected \ {q.added} ELSE q.expected

\* Nothing is lost on the way: what was copied is still in the buffer unless the label
\* is in the journal; what the update will delete from SVS is newly in the buffer, and
\* what it will remove from the buffer is in SVS.
NothingLost(q) ==
  /\ q.copy \subseteq q.buffer \/ q.fate = "dropped"
  /\ Arrived(q) \subseteq IF q.kind = "single" /\ q.buffer # {} THEN q.buffer
                         ELSE q.buffer \cup q.svs
  /\ q.fate = "dropped" => Arrived(q) \subseteq q.buffer \ q.copy
  /\ q.phase = "clean" => Arrived(q) \cap q.copy \subseteq q.svs

\* Nothing else is there, except what a call or an update is about to remove or what
\* the buffer hides.
NothingElse(q) ==
  /\ q.call = "none" \/ (q.call = "add" /\ q.kind = "multi") => q.buffer \subseteq q.expected
  /\ q.call = "delete_svs" => q.buffer = {}
  /\ \/ q.svs \subseteq q.expected
     \/ q.kind = "single" /\ (q.buffer # {} \/ q.call = "add")
     \/ q.call \in {"delete", "delete_svs"} \/ q.fate = "dropped"
  /\ q.phase = "clean" /\ q.kind = "single" /\ q.copy # {} /\ q.fate = "kept" =>
       q.svs \subseteq q.copy

\* What is left to say of a label whose newest vector an update may have removed.
ExposedOK(q) ==
  /\ q.kind = "single"
  /\ q.call = "none" => q.expected # {}
  /\ q.call = "delete_svs" => q.buffer = {}
  /\ q.copy # {} => q.buffer # {} \/ q.fate = "dropped"

LabelOK(q) ==
  /\ NumbersOK(q)
  /\ IF q.newest = "exposed" THEN ExposedOK(q) ELSE NothingLost(q) /\ NothingElse(q)

LabelsInv == \A l \in Labels : LabelOK(View(l))

-----------------------------------------------------------------------------
(* Building SVS, and scheduling.                                            *)

\* An SVS index that is built aside replaces an empty one.
BuildInv == update.pc = "set_impl" => SVSIsEmpty

\* The update will remove every vector of the buffer.
AllCopied == \A l \in Labels : FlatVectors(l) \subseteq Copies[l]

\* An update is queued, or the main thread is about to queue or to run one.
UpdateComes ==
  \/ queue.update > 0
  \/ main.pc \in {"schedule", "update"}
  \/ main.pc = "add_threshold" /\ main.size >= TrainingTriggerThreshold
                               /\ main.size >= UpdateTriggerThreshold

Full == Count(flat) >= TrainingTriggerThreshold /\ Count(flat) >= UpdateTriggerThreshold

SchedulingInv ==
  /\ scheduled.update => queue.update > 0
  /\ Full =>
       /\ update.pc \in {"idle", "delete"} => UpdateComes
       /\ HasCopy => AllCopied \/ UpdateComes

\* The inductive invariant.
SVSInv ==
  /\ VariablesInv /\ BufferOK(flat) /\ MainInv /\ JournalInv
  /\ LabelsInv /\ BuildInv /\ SchedulingInv

=============================================================================
