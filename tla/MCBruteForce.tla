---------------------------- MODULE MCBruteForce ----------------------------
(* Model values for the stand-alone brute-force index; the vectors are      *)
(* interchangeable, since the index only moves and compares them.           *)
EXTENDS BruteForce, TLC

CONSTANTS v1, v2, v3, v4, v5

MCVectors == {v1, v2, v3, v4, v5}

VectorSymmetry == Permutations(MCVectors)
=============================================================================
