---------------------------- MODULE MCBenchCase -----------------------------
(* Instances of BenchCase for TLC.  Every request is sampled: the cases    *)
(* run with proof_mode every_request.                                      *)
EXTENDS BenchCase, TLC

\* Requests are interchangeable, and so are pool threads.
Symmetry == Permutations(Request) \cup Permutations(Thread)
=============================================================================
