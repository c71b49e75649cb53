--------------------------- MODULE MCHNSWDeletion ---------------------------
(* Three indexed elements and one more to insert; the labels of single- and *)
(* of multi-value indexes.                                                  *)
EXTENDS HNSWDeletionInv, TLC

MCSingleLabels == [v \in Vecs |-> v]
MCSharedLabels == [v \in Vecs |-> IF v = 3 THEN 1 ELSE v]

Symmetry == Permutations(Workers)
=============================================================================
