----------------------------- MODULE MCLoadgen ------------------------------
(* Instances of Loadgen for TLC.                                           *)
EXTENDS Loadgen
=============================================================================
