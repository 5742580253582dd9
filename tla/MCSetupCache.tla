---------------------------- MODULE MCSetupCache ----------------------------
(* Instances of SetupCache for TLC.                                        *)
EXTENDS SetupCache
=============================================================================
