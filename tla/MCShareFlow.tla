----------------------------- MODULE MCShareFlow -----------------------------
(* Instances of ShareFlow for TLC.                                          *)
EXTENDS ShareFlow

Codes == 0..MaxAttempts
=============================================================================
