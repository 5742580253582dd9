--------------------------- MODULE MCModelRuntime ---------------------------
(* Instances of ModelRuntime for TLC.                                      *)
EXTENDS ModelRuntime
=============================================================================
