----------------------------- MODULE VectorStore -----------------------------
(***************************************************************************)
(* What every index promises its caller, whatever it does inside: a store  *)
(* of vectors under labels.  A vector is identified by the addVector call  *)
(* that brought it.  In a single-value index a new vector under a label    *)
(* takes the place of the old one, in a multi-value index it joins the     *)
(* others; deleteVector removes all that is stored under the label.        *)
(***************************************************************************)
CONSTANTS Labels, Vectors, IsMulti

VARIABLE content

Stored == UNION {content[l] : l \in Labels}

TypeOK == content \in [Labels -> SUBSET Vectors]

Init == content = [l \in Labels |-> {}]

Add(l, v) ==
  /\ v \notin Stored
  /\ content' = [content EXCEPT ![l] = IF IsMulti THEN @ \cup {v} ELSE {v}]

Delete(l) == content' = [content EXCEPT ![l] = {}]

\* Single removal out of a multi-value label (deleteVectorById).
DeleteOne(l, v) ==
  /\ v \in content[l]
  /\ content' = [content EXCEPT ![l] = @ \ {v}]

Next == \E l \in Labels :
          \/ \E v \in Vectors : Add(l, v) \/ DeleteOne(l, v)
          \/ Delete(l)

Spec == Init /\ [][Next]_content
=============================================================================
