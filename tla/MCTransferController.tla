------------------------ MODULE MCTransferController ------------------------
(* Instances of TransferController for TLC.                                 *)
EXTENDS TransferController, TLC

CONSTANTS w1, w2

OneWindow == {w1}
TwoWindows == {w1, w2}

(* The windows are alike.                                                   *)
WindowSymmetry == Permutations(Windows)
=============================================================================
