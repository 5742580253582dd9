------------------------- MODULE MCProofJobManifest -------------------------
(* Instances of ProofJobManifest for TLC: interchangeable jobs, claimers.  *)
EXTENDS ProofJobManifest, TLC

Symmetry == Permutations(Job) \cup Permutations(Claimer)
=============================================================================
