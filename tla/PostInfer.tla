----------------------------- MODULE PostInfer ------------------------------
(***************************************************************************)
(* MVPServer.post_infer (mvp_server/api/server.py) from the sampling       *)
(* decision to the receipt.  Each request is handled by a thread of its    *)
(* own.  A rejected payload and a failed inference change nothing that is  *)
(* modelled here, and are left out.                                        *)
(***************************************************************************)
EXTENDS ProofState

CONSTANT MaySkip  \* whether SamplingPolicy.should_sample may be false; with the
                  \* proof mode every_request it never is

ASSUME SkipAssumption == MaySkip \in BOOLEAN

VARIABLES
  post,   \* where each request is in post_infer
  hint    \* proof_status_hint

postVars == <<post, hint>>

PostInit ==
  /\ post = [r \in Request |-> "idle"]
  /\ hint = [r \in Request |-> "not_sampled"]

Step(r, from, to) == post[r] = from /\ post' = [post EXCEPT ![r] = to]

\* The inference is done and the sampling decision is taken.
Accept(r) ==
  /\ \/ Step(r, "idle", "witness")
     \/ MaySkip /\ Step(r, "idle", "unsampled")
  /\ UNCHANGED <<hint, storeVars, manifestVars>>

\* WitnessLogger.persist.
PersistWitness(r) ==
  /\ \/ Step(r, "witness", "append")
     \/ MayFail /\ Step(r, "witness", "drop")
  /\ UNCHANGED <<hint, storeVars, manifestVars>>

\* Mutant of AppendJob: what append_job raises is ignored.
AppendJobQuietly(r) ==
  /\ Step(r, "append", "queue") /\ (Enqueue(r) \/ EnqueueRaises)
  /\ UNCHANGED <<hint, storeVars>>

AppendJob(r) ==
  /\ \/ Step(r, "append", "queue") /\ Enqueue(r)
     \/ Step(r, "append", "drop")  /\ EnqueueRaises
  /\ UNCHANGED <<hint, storeVars>>

\* Mutant of SetQueued: the hint runs ahead to the next status.
SetQueuedHintPending(r) ==
  /\ hint' = [hint EXCEPT ![r] = "pending"]
  /\ \/ Step(r, "queue", "annotate") /\ Set(r, "queued")
     \/ Step(r, "queue", "drop")     /\ SetRaises(r, "queued")
  /\ UNCHANGED manifestVars

SetQueued(r) ==
  /\ hint' = [hint EXCEPT ![r] = "queued"]
  /\ \/ Step(r, "queue", "annotate") /\ Set(r, "queued")
     \/ Step(r, "queue", "drop")     /\ SetRaises(r, "queued")
  /\ UNCHANGED manifestVars

AnnotateQueued(r) ==
  /\ \/ Step(r, "annotate", "gauges") /\ Annotate
     \/ Step(r, "annotate", "drop")   /\ AnnotateRaises
  /\ UNCHANGED <<hint, manifestVars>>

\* The except branch; what it raises leaves post_infer.
SetDropped(r) ==
  /\ hint' = [hint EXCEPT ![r] = "dropped_overload"]
  /\ \/ Step(r, "drop", "annotate_last") /\ Set(r, "dropped_overload")
     \/ Step(r, "drop", "raised")        /\ SetRaises(r, "dropped_overload")
  /\ UNCHANGED manifestVars

SetNotSampled(r) ==
  /\ \/ Step(r, "unsampled", "annotate_last") /\ Set(r, "not_sampled")
     \/ Step(r, "unsampled", "raised")        /\ SetRaises(r, "not_sampled")
  /\ UNCHANGED <<hint, manifestVars>>

AnnotateLast(r) ==
  /\ \/ Step(r, "annotate_last", "gauges") /\ Annotate
     \/ Step(r, "annotate_last", "raised") /\ AnnotateRaises
  /\ UNCHANGED <<hint, manifestVars>>

\* total_count and unclaimed_count parse the whole manifest; then the receipt.
SetGauges(r) ==
  /\ Step(r, "gauges", IF torn THEN "raised" ELSE "answered")
  /\ UNCHANGED <<hint, storeVars, manifestVars>>

PostStep(r) ==
  \/ Accept(r) \/ PersistWitness(r) \/ AppendJob(r) \/ SetQueued(r) \/ AnnotateQueued(r)
  \/ SetDropped(r) \/ SetNotSampled(r) \/ AnnotateLast(r) \/ SetGauges(r)

Posted(r) == post[r] \in {"answered", "raised"}

-----------------------------------------------------------------------------
(* Properties of any composition with post_infer.                          *)

PostTypeOK ==
  /\ status \in [Request -> Status \cup {Absent}]
  /\ durable \in [Request -> Status \cup {Absent}]
  /\ rows \in Seq(Request)
  /\ claims \in Seq(Request)
  /\ torn \in BOOLEAN
  /\ post \in [Request -> {"idle", "witness", "append", "queue", "annotate", "drop",
                           "unsampled", "annotate_last", "gauges", "answered", "raised"}]
  /\ hint \in [Request -> InitialStatus]

\* A receipt that says queued is backed by a job in the manifest, once.
QueuedHasJob ==
  \A r \in Request : post[r] = "answered" /\ hint[r] = "queued" =>
    \E i \in 1..Len(rows) : \A k \in 1..Len(rows) : rows[k] = r <=> k = i

\* When post_infer raises for a request that has no job, its status is a terminal
\* one all the same: nobody waits for a proof that is not coming.
UnenqueuedIsTerminal ==
  \A r \in Request : post[r] = "raised" /\ r \notin Ids(rows) =>
    status[r] \in {"dropped_overload", "not_sampled"}
=============================================================================
