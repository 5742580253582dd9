----------------------------- MODULE ProofStatus -----------------------------
(***************************************************************************)
(* The vocabulary of proof statuses and the transition guard of            *)
(* mvp_server/proof/proof_store.py, shared by every module that keeps a    *)
(* status per request.                                                     *)
(***************************************************************************)

\* A request with no record: ProofStore._records.get(request_id) is None.
Absent == "absent"

\* The statuses a ProofRecord can carry: the keys of _ALLOWED_TRANSITIONS.
Status == {"queued", "pending", "ready", "failed", "not_sampled", "dropped_overload"}

\* The statuses get_proof answers with 202; every other one is terminal.
Active == {"queued", "pending"}

Terminal == Status \ Active

\* The statuses _check_transition accepts for a request it has not seen.
InitialStatus == {"queued", "not_sampled", "dropped_overload"}

\* _ALLOWED_TRANSITIONS.
AllowedTransitions ==
  [queued           |-> {"pending"},
   pending          |-> {"ready", "failed"},
   ready            |-> {"ready"},
   failed           |-> {"failed"},
   not_sampled      |-> {"not_sampled"},
   dropped_overload |-> {"dropped_overload"}]

\* TRUE iff ProofStore._check_transition returns; FALSE iff it raises ValueError.
CheckTransition(previous, new) ==
  IF previous = Absent
  THEN new \in InitialStatus
  ELSE new \in AllowedTransitions[previous]

-----------------------------------------------------------------------------
(* For properties: b is a, or a status a request in status a may come to. *)
Advances(a, b) ==
  \/ b = a
  \/ a = Absent    /\ b \in Status
  \/ a = "queued"  /\ b \in {"pending", "ready", "failed"}
  \/ a = "pending" /\ b \in {"ready", "failed"}
=============================================================================
