--------------------------- MODULE MCFailureHolds ---------------------------
(* Small instance: three keys for two places, holds 2, 4, 7.               *)
EXTENDS FailureHolds, TLC

Symmetry == Permutations(Key)
=============================================================================
