----------------------------- MODULE StatusStore -----------------------------
(***************************************************************************)
(* What the proof store promises its callers, whatever locks, temporary    *)
(* files, failed writes and crashes lie behind it: a request follows the   *)
(* transitions of _ALLOWED_TRANSITIONS, one request and one transition at  *)
(* a time; the file receives the statuses of all requests at once or not   *)
(* at all; and a crash takes memory back to what the file holds.           *)
(***************************************************************************)
EXTENDS ProofStatus

CONSTANT Request

VARIABLES
  status,  \* the statuses the process goes by
  durable  \* the statuses that a restart would find

vars == <<status, durable>>

Init ==
  /\ status = [r \in Request |-> Absent]
  /\ durable = status

\* A transition, which may or may not reach the file at once.
Move(r, s) ==
  /\ CheckTransition(status[r], s)
  /\ status' = [status EXCEPT ![r] = s]
  /\ durable' \in {durable, status'}

Publish == durable' = status /\ UNCHANGED status

Lose == status' = durable /\ UNCHANGED durable

Next ==
  \/ \E r \in Request, s \in Status : Move(r, s)
  \/ Publish
  \/ Lose

Spec == Init /\ [][Next]_vars

-----------------------------------------------------------------------------
(* Consequences, proved in LoadgenProofs of every behaviour of this store.  *)

StoreTypeOK ==
  /\ status \in [Request -> Status \cup {Absent}]
  /\ durable \in [Request -> Status \cup {Absent}]

\* The file is never ahead: the status it holds is the one in memory, or one
\* that the request has gone through.
NotAhead == \A r \in Request : Advances(durable[r], status[r])

\* What is on disk only moves forward; a terminal status stays.
OnlyForward == [][\A r \in Request : Advances(durable[r], durable'[r])]_vars
=============================================================================
