--------------------------- MODULE BackendRouting ---------------------------
(***************************************************************************)
(* Which backend a proof is made on, as ZkLoraAdapter decides it and its   *)
(* record keeps it, and the confidence that bench/phase4b_bounded_peft.py  *)
(* has in the records of a case.                                           *)
(***************************************************************************)
EXTENDS Naturals

CONSTANTS
  Intent,  \* prover_backend
  Policy   \* gpu_routing_policy

ASSUME RoutingAssumption == Intent \in {"cpu", "gpu"} /\ Policy \in {"fallback", "strict"}

\* A BackendRoutingDecision, and what artifact_refs keep of it.
Decision == [effective : {"cpu", "gpu"}, supported : BOOLEAN, fallback : BOOLEAN]

OnCpu    == [effective |-> "cpu", supported |-> TRUE,  fallback |-> FALSE]
OnGpu    == [effective |-> "gpu", supported |-> TRUE,  fallback |-> FALSE]
FellBack == [effective |-> "cpu", supported |-> FALSE, fallback |-> TRUE]

\* What _resolve_backend_routing_decision returns for a runner and an ezkl.prove
\* that take the keyword "backend" or not; {} when it raises.
Resolve(runner_supports, ezkl_supports) ==
  CASE Intent = "cpu"                                    -> {OnCpu}
    [] Intent = "gpu" /\ runner_supports /\ ezkl_supports -> {OnGpu}
    [] OTHER                                             -> {FellBack : p \in {Policy} \ {"strict"}}

\* The decisions a proof may be made with.  They are taken anew for every proof:
\* ezkl is imported, and CUDA looked for, each time.
Routings == UNION {Resolve(runner, ezkl) : runner, ezkl \in BOOLEAN}

\* Mutant of Confidence: one good record speaks for all.
ConfidenceOfOne(decisions) ==
  IF Intent = "cpu" THEN "n/a" ELSE IF OnGpu \in decisions THEN "high" ELSE "low"

\* _summarize_backend_trust, of the decisions in the records of a case.  It looks
\* at the effective backend of the last record only; any of them may be the last.
Confidence(decisions) ==
  CASE Intent = "cpu" -> "n/a"
    [] /\ Intent = "gpu"
       /\ \E d \in decisions : d.effective = "gpu"
       /\ \A d \in decisions : d.supported /\ ~d.fallback -> "high"
    [] OTHER -> "low"
=============================================================================
