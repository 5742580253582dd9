--------------------------- MODULE WorkerProcess ----------------------------
(***************************************************************************)
(* The worker process, main() of mvp_server/proof/prover_worker.py: run    *)
(* over the jobs that a server left queued in the artifacts directory, and *)
(* run again after a crash, an error or an interrupt, from what the files  *)
(* hold.                                                                   *)
(***************************************************************************)
EXTENDS ProverWorker

CONSTANTS
  Backlog,     \* the jobs in the manifest, in order
  MaxJobs,     \* --max-jobs
  MaxRestarts  \* bound on the number of restarts

ASSUME ProcessAssumption ==
  /\ Backlog \in Seq(Request)
  /\ \A i, k \in 1..Len(Backlog) : Backlog[i] = Backlog[k] => i = k
  /\ MaxJobs \in Nat
  /\ MaxRestarts \in Nat

VARIABLE restarts

vars == <<storeVars, manifestVars, workerVars, max_jobs, restarts>>

Init ==
  /\ rows = Backlog
  /\ claims = <<>>
  /\ torn = FALSE
  /\ status = [r \in Request |-> IF r \in Ids(Backlog) THEN "queued" ELSE Absent]
  /\ durable = status
  /\ main = "start" /\ WorkerInit
  /\ max_jobs = MaxJobs
  /\ restarts = 0

\* Mutant of Restart: the claims file is started anew.
RestartForgetsClaims ==
  /\ restarts < MaxRestarts
  /\ restarts' = restarts + 1
  /\ status' = durable
  /\ WorkerReset
  /\ claims' = <<>>
  /\ UNCHANGED <<durable, rows, torn, max_jobs>>

\* The process has ended, or dies at any point, and is started again:
\* ProofStore._load reads the store file, the manifest is where it was.
Restart ==
  /\ restarts < MaxRestarts
  /\ restarts' = restarts + 1
  /\ status' = durable
  /\ WorkerReset
  /\ UNCHANGED <<durable, manifestVars, max_jobs>>

Next == (WorkerStep /\ UNCHANGED restarts) \/ Restart

Spec == Init /\ [][Next]_vars

\* Threads are scheduled and every proof attempt ends, with a result or an
\* exception.  Nothing obliges anybody to interrupt or to restart the worker.
FairSpec ==
  /\ Spec
  /\ WF_vars(Dispatch /\ UNCHANGED <<max_jobs, restarts>>)
  /\ \A t \in Thread : WF_vars(ThreadStep(t) /\ UNCHANGED <<max_jobs, restarts>>)

-----------------------------------------------------------------------------
(* Properties.                                                             *)

\* Once run has stopped claiming it ends, through interrupts, failed proofs and
\* a full queue, unless the process is started anew or a pool thread has died.
RunEndsOrThreadDies ==
  (main = "sentinels") ~> (main \in {"end", "start"} \/ Dead # {})

\* A job whose terminal status reached the file is never proved again, in this
\* run or after a restart.
NeverProvedAgain ==
  [][\A r \in Request : durable[r] \in Terminal => durable'[r] = durable[r] /\ Places(r)' \subseteq Places(r)]_vars
=============================================================================
