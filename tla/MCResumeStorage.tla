--------------------------- MODULE MCResumeStorage ---------------------------
(* Instances of ResumeStorage for TLC.                                      *)
EXTENDS ResumeStorage
=============================================================================
