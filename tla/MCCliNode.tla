----------------------------- MODULE MCCliNode -----------------------------
(* A joining process dials its owner, and another peer first when it was     *)
(* told of one; either may connect to it meanwhile.                          *)
EXTENDS CliNode
============================================================================
