--------------------------- MODULE MCDevInstance ----------------------------
(* Instances of DevInstance for TLC.                                       *)
EXTENDS DevInstance
=============================================================================
