----------------------------- MODULE ProofState -----------------------------
(***************************************************************************)
(* The proof store and the proof job manifest as their callers in one      *)
(* process see them: a store call runs under the store's lock, so it is    *)
(* one step here (ProofStore has the steps inside), and the manifest is a  *)
(* sequence of jobs with a sequence of claims (ProofJobManifest has the    *)
(* steps of claim_next).                                                   *)
(***************************************************************************)
EXTENDS ProofStatus, Sequences, Naturals

CONSTANTS
  Request,   \* request ids
  None,      \* no request
  MayFail    \* whether writing a file may raise (disk full, ...)

ASSUME StateAssumption ==
  /\ None \notin Request
  /\ MayFail \in BOOLEAN

VARIABLES
  status,    \* the status of each record in memory
  durable,   \* the statuses in the store file
  rows,      \* the jobs in the manifest file
  claims,    \* the request ids in the claims file
  torn       \* some line of the manifest is cut short

storeVars == <<status, durable>>
manifestVars == <<rows, claims, torn>>

Ids(s) == {s[i] : i \in 1..Len(s)}

-----------------------------------------------------------------------------
(* A call of set_status or set_terminal ends in one of three ways.         *)

\* Mutant of Set: the transition is not checked.
SetUnchecked(r, s) ==
  /\ status' = [status EXCEPT ![r] = s]
  /\ durable' = status'

\* The status is set and persisted.
Set(r, s) ==
  /\ CheckTransition(status[r], s)
  /\ status' = [status EXCEPT ![r] = s]
  /\ durable' = status'

\* The status is set and _persist raises.
SetNotPersisted(r, s) ==
  /\ MayFail
  /\ CheckTransition(status[r], s)
  /\ status' = [status EXCEPT ![r] = s]
  /\ UNCHANGED durable

\* _check_transition raises.
SetRejected(r, s) ==
  /\ ~CheckTransition(status[r], s)
  /\ UNCHANGED storeVars

SetRaises(r, s) == SetNotPersisted(r, s) \/ SetRejected(r, s)

\* annotate_timestamps changes no status, but persists all of them.
Annotate == status' = status /\ durable' = status

AnnotateRaises == MayFail /\ UNCHANGED storeVars

-----------------------------------------------------------------------------
\* append_job.
Enqueue(r) ==
  /\ rows' = Append(rows, r)
  /\ UNCHANGED <<claims, torn>>

\* append_job raises, with nothing or part of the line written.
EnqueueRaises ==
  /\ MayFail
  /\ torn' \in {torn, TRUE}
  /\ UNCHANGED <<rows, claims>>

\* The jobs that claim_next finds unclaimed, and the one it takes: the oldest.
Unclaimed == {i \in 1..Len(rows) : rows[i] \notin Ids(claims)}

\* Mutant of Oldest: the newest job.
Newest == rows[CHOOSE i \in Unclaimed : \A k \in Unclaimed : i >= k]

Oldest == rows[CHOOSE i \in Unclaimed : \A k \in Unclaimed : i <= k]
=============================================================================
