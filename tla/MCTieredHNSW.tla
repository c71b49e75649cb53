---------------------------- MODULE MCTieredHNSW ----------------------------
(* Symmetry of the tiered HNSW index: workers are interchangeable, and so   *)
(* are labels and readers.  Used by the runs without liveness properties.   *)
EXTENDS TieredHNSWInv, TLC

Symmetry == Permutations(Workers) \cup Permutations(Labels) \cup Permutations(Readers)
=============================================================================
