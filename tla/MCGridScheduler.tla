--------------------------- MODULE MCGridScheduler ---------------------------
(* Instances of GridScheduler for TLC.                                      *)
EXTENDS GridScheduler

CONSTANTS owner, q1

TwoPeers == {owner, q1}
\* A receiver has nothing yet, or is a second source of the file.
AllOrNothing == {{}, {1, 2}}
=============================================================================
