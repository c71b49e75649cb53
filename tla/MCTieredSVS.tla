---------------------------- MODULE MCTieredSVS -----------------------------
(* Labels of the tiered SVS index; they are interchangeable.               *)
EXTENDS TieredSVSInv, TLC

CONSTANTS a, b, c

MCLabels == {a, b, c}

LabelSymmetry == Permutations(MCLabels)
=============================================================================
