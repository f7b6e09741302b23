------------------------- MODULE MCDirectRefinement -------------------------
(* Instances of DirectRefinement for TLC.                                   *)
EXTENDS DirectRefinement, TLC

CONSTANTS w1, w2

TwoWindows == {w1, w2}

(* Window keys are interchangeable.                                         *)
WindowSymmetry == Permutations(Windows)
=============================================================================
