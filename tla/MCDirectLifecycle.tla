-------------------------- MODULE MCDirectLifecycle --------------------------
(* Instances of DirectLifecycle for TLC.                                    *)
EXTENDS DirectLifecycle, TLC

CONSTANTS w1, w2

OneWindow == {w1}
TwoWindows == {w1, w2}

(* Window keys are interchangeable in the safety runs.                      *)
WindowSymmetry == Permutations(Windows)
=============================================================================
