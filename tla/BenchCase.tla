----------------------------- MODULE BenchCase ------------------------------
(***************************************************************************)
(* One case of bench/phase4b_bounded_peft.py.  run_case_bounded starts a   *)
(* child process that runs run_case_direct: producer threads post every    *)
(* request of the case, then the worker's run is called with the number of *)
(* requests that were answered, on the same store and manifest.  The       *)
(* parent waits with a timeout; it either takes the child's result or      *)
(* terminates it and counts the statuses in the store file.                *)
(***************************************************************************)
EXTENDS PostInfer, ProverWorker, BackendRouting

ASSUME CaseAssumption == IsFiniteSet(Request)

VARIABLES
  routing,  \* the routing decision in the record of a request that is ready, or None
  child,    \* "running", "exited" or "killed"
  outcome,  \* what the child has put on the queue for the parent
  result    \* the summary of the case

caseVars == <<child, outcome, result>>
serveVars == <<storeVars, manifestVars, postVars, workerVars, max_jobs, routing>>
vars == <<serveVars, caseVars>>

NoResult == [status |-> "none", enqueued |-> 0, processed |-> 0, ready |-> 0, failed |-> 0,
             trust |-> Confidence({})]

Answered == {r \in Request : post[r] = "answered"}

Init ==
  /\ status = [r \in Request |-> Absent]
  /\ durable = status
  /\ rows = <<>>
  /\ claims = <<>>
  /\ torn = FALSE
  /\ PostInit
  /\ main = "off" /\ WorkerInit
  /\ max_jobs = 0
  /\ routing = [r \in Request |-> None]
  /\ child = "running"
  /\ outcome = NoResult
  /\ result = NoResult

-----------------------------------------------------------------------------
(* run_case_direct, in the child.                                          *)

\* A request of the case is posted by one of the producers.
Produce(r) ==
  /\ child = "running"
  /\ PostStep(r)
  /\ UNCHANGED <<workerVars, max_jobs, routing, caseVars>>

\* The producers have been joined: worker.run(max_jobs=enqueued_requests).
StartRun ==
  /\ child = "running"
  /\ main = "off"
  /\ \A r \in Request : Posted(r)
  /\ main' = "start"
  /\ max_jobs' = Cardinality(Answered)
  /\ UNCHANGED <<job, claimed, sentinels, failure, queueVars, poolVars,
                 storeVars, manifestVars, postVars, routing, caseVars>>

\* set_terminal "ready" keeps the decision the proof was made with.
KeepRouting ==
  IF \E r \in Request : status[r] # "ready" /\ status'[r] = "ready"
  THEN \E d \in Routings :
         routing' = [r \in Request |-> IF status[r] # "ready" /\ status'[r] = "ready"
                                      THEN d ELSE routing[r]]
  ELSE UNCHANGED routing

Work == child = "running" /\ WorkerStep /\ KeepRouting /\ UNCHANGED <<postVars, caseVars>>

\* The decisions in the records that are ready.
Routed(statuses, requests) == {routing[r] : r \in {q \in requests : statuses[q] = "ready"}}

Counted(statuses, requests, s) == Cardinality({r \in requests : statuses[r] = s})

\* _classify_completed_case.
Classify(enqueued, ready, failed) ==
  IF ready # enqueued /\ failed = enqueued /\ enqueued > 0 THEN "failed_fast" ELSE "completed"

\* The result that run_case_direct makes of the records of the answered requests.
CaseResult ==
  LET enqueued == Cardinality(Answered)
      ready    == Counted(status, Answered, "ready")
      failed   == Counted(status, Answered, "failed")
  IN [status |-> Classify(enqueued, ready, failed), enqueued |-> enqueued,
      processed |-> processed, ready |-> ready, failed |-> failed,
      trust |-> Confidence(Routed(status, Answered))]

\* run has returned; the child puts its result and exits.
ChildReturns ==
  /\ child = "running"
  /\ main = "end" /\ ~failure
  /\ outcome' = CaseResult
  /\ child' = "exited"
  /\ UNCHANGED <<result, serveVars>>

\* run has raised: the child puts an error and exits, or just dies of the interrupt.
ChildRaises ==
  /\ child = "running"
  /\ main = "end" /\ failure
  /\ child' = "exited"
  /\ UNCHANGED <<outcome, result, serveVars>>

-----------------------------------------------------------------------------
(* run_case_bounded, in the parent.                                        *)

\* Mutant of PartialResult: what is pending counts as processed.
PartialCountsPending ==
  LET Durable(s) == Counted(durable, Request, s) IN
  [status |-> "timed_out",
   enqueued |-> Durable("ready") + Durable("failed") + Durable("pending") + Durable("queued"),
   processed |-> Durable("ready") + Durable("failed") + Durable("pending"),
   ready |-> Durable("ready") + Durable("pending"), failed |-> Durable("failed"),
   trust |-> Confidence(Routed(durable, Request))]

\* _load_partial_status, and the result that is made of it.
PartialResult ==
  LET Durable(s) == Counted(durable, Request, s) IN
  [status |-> "timed_out",
   enqueued |-> Durable("ready") + Durable("failed") + Durable("pending") + Durable("queued"),
   processed |-> Durable("ready") + Durable("failed"),
   ready |-> Durable("ready"), failed |-> Durable("failed"),
   trust |-> Confidence(Routed(durable, Request))]

\* The child is still alive after timeout_sec: it is terminated.
Timeout ==
  /\ result = NoResult
  /\ child = "running"
  /\ child' = "killed"
  /\ result' = PartialResult
  /\ UNCHANGED <<outcome, serveVars>>

\* The result made for a child that left none.
FailedFast ==
  [status |-> "failed_fast", enqueued |-> 0, processed |-> 0, ready |-> 0,
   failed |-> Cardinality(Request), trust |-> Confidence({})]

\* The child has ended by itself, with a result on the queue or without.
Collect ==
  /\ result = NoResult
  /\ child = "exited"
  /\ result' = IF outcome # NoResult THEN outcome ELSE FailedFast
  /\ UNCHANGED <<child, outcome, serveVars>>

Next ==
  \/ \E r \in Request : Produce(r)
  \/ StartRun \/ Work \/ ChildReturns \/ ChildRaises
  \/ Timeout \/ Collect

Spec == Init /\ [][Next]_vars

-----------------------------------------------------------------------------
(* Properties.                                                             *)

CaseTypeOK ==
  /\ PostTypeOK /\ WorkerTypeOK
  /\ child \in {"running", "exited", "killed"}
  /\ {outcome, result} \subseteq
       [status : {"none", "completed", "failed_fast", "timed_out"},
        enqueued : Nat, processed : Nat, ready : Nat, failed : Nat,
        trust : {"n/a", "high", "low"}]
  /\ routing \in [Request -> Decision \cup {None}]

\* The jobs are taken in the order in which they were appended, each once,
\* whichever requests fail on the way into the manifest.
Handoff == INSTANCE JobHandoff WITH Job <- Request, sent <- rows, taken <- claims

PipelineHandoff == Handoff!Spec

\* A case never reports more proofs than there are: the summary of a child that
\* was killed counts what had reached the file, which memory is never behind.
NoProofInvented ==
  result.ready <= Counted(status, Request, "ready")

\* bench/README.md:405: `completed` says that all requests of the case have
\* reached a terminal state.  That is so when post_infer answered them all; and a
\* case that answered none, whose run has no limit, is never completed.
CompletedMeansDone ==
  result.status = "completed" =>
    Answered # {} /\ (Answered = Request => \A r \in Request : status[r] \in Terminal)

\* A request whose post_infer raised is not counted (phase4b_bounded_peft.py:410),
\* though its job may be in the manifest, and run takes one job for each request
\* that is.  So a completed case may leave answered requests without a terminal
\* status, but no more of them than there are such jobs to take their turns.
LeftAreTurnsTaken ==
  result.status = "completed" =>
    Cardinality({r \in Answered : status[r] \notin Terminal}) <= Cardinality(Ids(rows) \ Answered)

\* bench/README.md:322: confidence in a GPU case means that not one of the proofs
\* it counts fell back, also when the summary is made of what a killed child left.
TrustIsEarned ==
  LET counted == IF result.status = "timed_out" THEN durable ELSE [r \in Answered |-> status[r]]
  IN result.trust = "high" =>
       /\ \E r \in DOMAIN counted : counted[r] = "ready"
       /\ \A r \in DOMAIN counted : counted[r] = "ready" => routing[r] = OnGpu
=============================================================================
