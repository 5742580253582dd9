---------------------------- MODULE MCProofStore ----------------------------
(* Instances of ProofStore for TLC: interchangeable requests and writers.  *)
EXTENDS ProofStore, TLC

Symmetry == Permutations(Request) \cup Permutations(Writer)
=============================================================================
