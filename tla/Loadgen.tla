------------------------------ MODULE Loadgen -------------------------------
(***************************************************************************)
(* run_single_point (bench/loadgen_prefill_synth.py): load threads call    *)
(* post_infer while a worker thread calls ProverWorker.run_once on the     *)
(* same store and manifest.  Then the main thread stops the load, stops    *)
(* the worker, joins each with a timeout, and drains the manifest with     *)
(* run_once itself, whether or not the worker thread has ended by then.    *)
(* All threads but the main one are daemons: when the process exits, they  *)
(* end where they are, in the middle of a proof perhaps.                   *)
(*                                                                         *)
(* claim_next is two steps, since the two callers of run_once may race in  *)
(* it: what the files hold is read, and the claim is appended.  A timeout  *)
(* may expire at any time, and the deadline of the drain too.  The store   *)
(* and its file are those of this run of the program: nothing reads them   *)
(* after its exit.                                                         *)
(***************************************************************************)
EXTENDS PostInfer

CONSTANTS
  Loop,      \* the worker thread
  Main,      \* the main thread
  MayStop    \* whether the measurement ends

ASSUME LoadgenAssumption == Loop # Main /\ MayStop \in BOOLEAN

Caller == {Loop, Main}

VARIABLES
  phase,     \* where the main thread is: "load", "stopping", "drain", "over" or "exited"
  once,      \* where each caller is in run_once
  work       \* the job that each caller has in hand

onceVars == <<once, work>>
vars == <<storeVars, manifestVars, postVars, phase, once, work>>

Init ==
  /\ status = [r \in Request |-> Absent]
  /\ durable = status
  /\ rows = <<>>
  /\ claims = <<>>
  /\ torn = FALSE
  /\ PostInit
  /\ phase = "load"
  /\ once = [c \in Caller |-> "idle"]
  /\ work = [c \in Caller |-> None]

\* A load thread posts; when it has been told to stop it begins no new request.
Load(r) ==
  /\ phase # "exited"
  /\ PostStep(r)
  /\ post[r] = "idle" => phase = "load"
  /\ UNCHANGED <<phase, onceVars>>

-----------------------------------------------------------------------------
(* run_once.                                                               *)

Goto(c, from, to) == once[c] = from /\ once' = [once EXCEPT ![c] = to]

\* The worker thread's loop condition, and the main thread's.
MayCall(c) ==
  \/ c = Loop /\ phase \in {"load", "stopping"}
  \/ c = Main /\ phase = "drain"

\* claim_next reads the claims and the jobs and finds the oldest one unclaimed.
FindJob(c) ==
  /\ MayCall(c)
  /\ ~torn
  /\ Unclaimed # {}
  /\ Goto(c, "idle", "claim")
  /\ work' = [work EXCEPT ![c] = Oldest]
  /\ UNCHANGED <<phase, storeVars, manifestVars, postVars>>

\* claim_next raises, and so does run_once: the thread ends.
FindJobRaises(c) ==
  /\ MayCall(c)
  /\ torn
  /\ Goto(c, "idle", "raised")
  /\ UNCHANGED <<phase, work, storeVars, manifestVars, postVars>>

ClaimJob(c) ==
  /\ \/ Goto(c, "claim", "mark") /\ claims' = Append(claims, work[c]) /\ UNCHANGED <<torn, work>>
     \/ /\ MayFail
        /\ Goto(c, "claim", "raised")
        /\ torn' \in {torn, TRUE}
        /\ work' = [work EXCEPT ![c] = None]
        /\ UNCHANGED claims
  /\ UNCHANGED <<phase, rows, storeVars, postVars>>

\* set_status "pending"; what it raises ends the thread.
MarkPending(c) ==
  /\ \/ Goto(c, "mark", "prove") /\ Set(work[c], "pending") /\ UNCHANGED work
     \/ /\ Goto(c, "mark", "raised")
        /\ SetRaises(work[c], "pending")
        /\ work' = [work EXCEPT ![c] = None]
  /\ UNCHANGED <<phase, manifestVars, postVars>>

Prove(c) ==
  /\ Goto(c, "prove", "ready") \/ Goto(c, "prove", "failed")
  /\ UNCHANGED <<phase, work, storeVars, manifestVars, postVars>>

SetReady(c) ==
  /\ \/ /\ Goto(c, "ready", "idle")
        /\ Set(work[c], "ready")
        /\ work' = [work EXCEPT ![c] = None]
     \/ Goto(c, "ready", "failed") /\ SetRaises(work[c], "ready") /\ UNCHANGED work
  /\ UNCHANGED <<phase, manifestVars, postVars>>

\* Mutant of SetFailed: an error leaves the job as it is.
SetFailedForgets(c) ==
  /\ Goto(c, "failed", "idle")
  /\ work' = [work EXCEPT ![c] = None]
  /\ UNCHANGED <<phase, storeVars, manifestVars, postVars>>

\* The except branch; run_once has no guard around it.
SetFailed(c) ==
  /\ \/ Goto(c, "failed", "idle")   /\ Set(work[c], "failed")
     \/ Goto(c, "failed", "raised") /\ SetRaises(work[c], "failed")
  /\ work' = [work EXCEPT ![c] = None]
  /\ UNCHANGED <<phase, manifestVars, postVars>>

RunOnce(c) ==
  /\ phase # "exited"
  /\ \/ FindJob(c) \/ FindJobRaises(c) \/ ClaimJob(c) \/ MarkPending(c) \/ Prove(c)
     \/ SetReady(c) \/ SetFailed(c)

-----------------------------------------------------------------------------
(* The main thread.                                                        *)

\* stop_load is set, and each load thread joined for two seconds at most.
StopLoad ==
  /\ MayStop
  /\ phase = "load"
  /\ phase' = "stopping"
  /\ UNCHANGED <<onceVars, storeVars, manifestVars, postVars>>

\* stop_workers is set, and the worker thread joined for one second at most.
StopWorker ==
  /\ phase = "stopping"
  /\ phase' = "drain"
  /\ UNCHANGED <<onceVars, storeVars, manifestVars, postVars>>

\* The deadline is over, nothing is unclaimed, or run_once has raised.
EndDrain ==
  /\ phase = "drain"
  /\ once[Main] \in {"idle", "raised"}
  /\ phase' = "over"
  /\ UNCHANGED <<onceVars, storeVars, manifestVars, postVars>>

\* run_single_point has returned, or raised; the main thread goes on with the
\* next point of the matrix or, after the last one, leaves main.
Exit ==
  /\ phase = "over"
  /\ phase' = "exited"
  /\ UNCHANGED <<onceVars, storeVars, manifestVars, postVars>>

Next ==
  \/ \E r \in Request : Load(r)
  \/ \E c \in Caller : RunOnce(c)
  \/ StopLoad \/ StopWorker \/ EndDrain \/ Exit

Spec == Init /\ [][Next]_vars

\* As long as the process lives the load threads go on posting, threads are
\* scheduled and proof attempts end; it need not live long enough for any of it.
FairSpec ==
  /\ Spec
  /\ \A r \in Request : WF_vars(Load(r))
  /\ \A c \in Caller : WF_vars(RunOnce(c))

-----------------------------------------------------------------------------
(* Properties.                                                             *)

Proving == {"prove", "ready", "failed"}

\* However the threads race and fail, what happens to the statuses is what one
\* store promises: one transition at a time, and the file never ahead.
Contract == INSTANCE StatusStore

StoreContract == Contract!Spec

\* The two callers may claim the same job, yet they never prove the same one:
\* the second set_status "pending" is rejected.
ProvedOnce ==
  once[Loop] \in Proving /\ once[Main] \in Proving => work[Loop] # work[Main]

\* A request that a caller is proving is pending, whatever the other one did.
ProvingIsPending ==
  \A c \in Caller : once[c] \in {"prove", "ready"} => status[work[c]] = "pending"

\* A request that the drain has begun to prove gets a proof or an error, even when
\* writes fail, since the deadline is looked at between two jobs only.  One that
\* the worker thread has begun gets it too, though the main thread stops the load
\* and the worker and drains meanwhile, unless the process exits first.
ProvingFinishes ==
  \A c \in Caller, r \in Request :
    (once[c] = "prove" /\ work[c] = r)
      ~> (status[r] \in {"ready", "failed"} \/ (c = Loop /\ phase = "exited"))

\* plans/mvp-server-architecture-rfc.md:265: sampled jobs that are successfully
\* enqueued go queued -> pending -> ready|failed.
EnqueuedFinishes ==
  \A r \in Request : (post[r] = "answered" /\ hint[r] = "queued")
                       ~> (status[r] \in {"ready", "failed"})
=============================================================================
