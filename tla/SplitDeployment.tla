--------------------------- MODULE SplitDeployment ---------------------------
(***************************************************************************)
(* The two terminals of mvp_server/README.md: the server in one process,   *)
(* main() of mvp_server/proof/prover_worker.py in another, on one          *)
(* artifacts directory.  They share the manifest, the claims and the store *)
(* file, but each has a ProofStore of its own: it reads the file once, in  *)
(* __init__, and from then on writes it whole from its own records, so the *)
(* last rename wins.                                                       *)
(***************************************************************************)
EXTENDS Naturals, Sequences, FiniteSets

CONSTANTS
  Request, None, MayFail, MaySkip,      \* of the server
  Thread, SlotsPerThread, MayInterrupt, \* of the worker
  MaxStarts                             \* bound on the starts of the worker

VARIABLES
  serverStatus, \* the statuses in the server's store
  workerStatus, \* the statuses in the worker's store
  durable, rows, claims, torn,
  post, hint,
  max_jobs, main, job, claimed, sentinels, failure, work_queue, unfinished,
  pool, work, processed,
  starts        \* how often the worker was started

Server == INSTANCE PostInfer WITH status <- serverStatus
Worker == INSTANCE ProverWorker WITH status <- workerStatus

runVars == <<main, job, claimed, sentinels, failure, work_queue, unfinished, pool, work,
             processed>>
fileVars == <<durable, rows, claims, torn>>
vars == <<serverStatus, workerStatus, fileVars, post, hint, max_jobs, runVars, starts>>

Init ==
  /\ serverStatus = [r \in Request |-> "absent"]
  /\ workerStatus = serverStatus
  /\ durable = serverStatus
  /\ rows = <<>>
  /\ claims = <<>>
  /\ torn = FALSE
  /\ Server!PostInit
  /\ main = "off" /\ Worker!WorkerInit
  /\ max_jobs = 0
  /\ starts = 0

Post(r) ==
  /\ Server!PostStep(r)
  /\ UNCHANGED <<workerStatus, max_jobs, runVars, starts>>

\* The worker is started, or again after it has ended: its store is what the
\* file holds now.
StartWorker ==
  /\ main \in {"off", "end"}
  /\ starts < MaxStarts
  /\ starts' = starts + 1
  /\ workerStatus' = durable
  /\ Worker!WorkerReset
  /\ UNCHANGED <<serverStatus, fileVars, post, hint, max_jobs>>

Work(step) == step /\ UNCHANGED <<serverStatus, post, hint, max_jobs, starts>>

Next ==
  \/ \E r \in Request : Post(r)
  \/ StartWorker
  \/ Work(Worker!WorkerStep)

Spec == Init /\ [][Next]_vars

\* Requests are handled, the worker is started, its threads are scheduled.
FairSpec ==
  /\ Spec
  /\ \A r \in Request : WF_vars(Post(r))
  /\ WF_vars(StartWorker)
  /\ WF_vars(Work(Worker!Dispatch))
  /\ \A t \in Thread : WF_vars(Work(Worker!ThreadStep(t)))

-----------------------------------------------------------------------------
(* Properties.                                                             *)

\* plans/phase-2-server-design-summary.md:10: the worker process "updates shared
\* proof status"; mvp_server/README.md polls the server until it is terminal.  So
\* what the worker has brought to an end comes to an end for the server's clients.
StatusReachesServer ==
  \A r \in Request :
    (post[r] = "answered" /\ hint[r] = "queued" /\ workerStatus[r] \in {"ready", "failed"})
      ~> (serverStatus[r] \in Server!Terminal)
=============================================================================
