---------------------------- MODULE ProverWorker ----------------------------
(***************************************************************************)
(* ProverWorker.run (mvp_server/proof/prover_worker.py): a dispatcher that *)
(* claims jobs, marks them pending and puts them on a bounded queue.Queue, *)
(* and a pool of threads that take them from it, prove them and write the  *)
(* terminal status.  queue.Queue is modelled by its items and by the count *)
(* of unfinished tasks that join waits for.                                *)
(*                                                                         *)
(* Proving may always fail: adapter.prove then raises.  When MayFail is    *)
(* TRUE every write of the store may raise too.  KeyboardInterrupt reaches *)
(* the dispatcher before its finally block, when MayInterrupt is TRUE.     *)
(***************************************************************************)
EXTENDS ProofState, FiniteSets

CONSTANTS
  Thread,          \* the pool: proof_worker_threads of them
  SlotsPerThread,  \* the factor of the queue's maxsize; 4 in the code
  MayInterrupt     \* whether the dispatcher may be interrupted

ASSUME WorkerAssumption ==
  /\ IsFiniteSet(Thread) /\ Thread # {}
  /\ SlotsPerThread \in Nat \ {0}
  /\ MayInterrupt \in BOOLEAN

VARIABLES
  max_jobs,    \* the argument of run; 0 means unlimited
  main,        \* where the dispatcher is in run
  job,         \* the job in the dispatcher's hand
  claimed,     \* jobs claimed and marked by this call of run
  sentinels,   \* sentinels still to be put
  failure,     \* an exception is on its way out of run
  work_queue,  \* the items of work_queue
  unfinished,  \* its count of unfinished tasks
  pool,        \* where each pool thread is in worker_loop
  work,        \* the job of each pool thread
  processed    \* jobs counted as processed

dispatchVars == <<main, job, claimed, sentinels, failure>>
queueVars == <<work_queue, unfinished>>
poolVars == <<pool, work, processed>>
workerVars == <<dispatchVars, queueVars, poolVars>>  \* of one call of run

MaxSize == SlotsPerThread * Cardinality(Thread)

\* What run starts from, wherever the dispatcher is.
WorkerInit ==
  /\ job = None
  /\ claimed = 0
  /\ sentinels = 0
  /\ failure = FALSE
  /\ work_queue = <<>>
  /\ unfinished = 0
  /\ pool = [t \in Thread |-> "unstarted"]
  /\ work = [t \in Thread |-> None]
  /\ processed = 0

\* A process that starts over, with nothing of the last call of run.
WorkerReset ==
  /\ main' = "start"
  /\ job' = None
  /\ claimed' = 0
  /\ sentinels' = 0
  /\ failure' = FALSE
  /\ work_queue' = <<>>
  /\ unfinished' = 0
  /\ pool' = [t \in Thread |-> "unstarted"]
  /\ work' = [t \in Thread |-> None]
  /\ processed' = 0

-----------------------------------------------------------------------------
(* The dispatcher.                                                         *)

Put(item) ==
  /\ Len(work_queue) < MaxSize
  /\ work_queue' = Append(work_queue, item)
  /\ unfinished' = unfinished + 1

\* An adapter is made for each thread, and the thread is started.
StartPool ==
  /\ main = "start"
  /\ main' = "poll"
  /\ pool' = [t \in Thread |-> "get"]
  /\ UNCHANGED <<job, claimed, sentinels, failure, queueVars, work, processed,
                 storeVars, manifestVars>>

\* An adapter cannot be made: run raises, and the threads started so far stay.
StartPoolFails ==
  /\ MayFail
  /\ main = "start"
  /\ main' = "end"
  /\ failure' = TRUE
  /\ \E S \in SUBSET Thread :
       /\ S # Thread
       /\ pool' = [t \in Thread |-> IF t \in S THEN "get" ELSE "unstarted"]
  /\ UNCHANGED <<job, claimed, sentinels, queueVars, work, processed,
                 storeVars, manifestVars>>

\* The finally block, entered with or without an exception.
Finally(raising) ==
  /\ main' = "sentinels"
  /\ sentinels' = Cardinality(Thread)
  /\ failure' = raising

\* Mutant of EnoughClaimed: off by one.
EnoughClaimedEarly ==
  /\ main = "poll"
  /\ max_jobs > 0 /\ claimed + 1 >= max_jobs
  /\ Finally(FALSE)
  /\ UNCHANGED <<job, claimed, queueVars, poolVars, storeVars, manifestVars>>

EnoughClaimed ==
  /\ main = "poll"
  /\ max_jobs > 0 /\ claimed >= max_jobs
  /\ Finally(FALSE)
  /\ UNCHANGED <<job, claimed, queueVars, poolVars, storeVars, manifestVars>>

\* claim_next returns a job.  While it returns None the dispatcher sleeps.
Claim ==
  /\ main = "poll"
  /\ ~(max_jobs > 0 /\ claimed >= max_jobs)
  /\ ~torn
  /\ Unclaimed # {}
  /\ job' = Oldest
  /\ claims' = Append(claims, Oldest)
  /\ main' = "mark"
  /\ UNCHANGED <<claimed, sentinels, failure, queueVars, poolVars, storeVars, rows, torn>>

\* claim_next raises: it cannot parse the manifest or cannot append the claim.
ClaimRaises ==
  /\ main = "poll"
  /\ ~(max_jobs > 0 /\ claimed >= max_jobs)
  /\ \/ torn /\ UNCHANGED torn
     \/ MayFail /\ Unclaimed # {} /\ torn' \in {torn, TRUE}
  /\ Finally(TRUE)
  /\ UNCHANGED <<job, claimed, queueVars, poolVars, storeVars, rows, claims>>

\* Mutant of MarkPending: the job goes to the pool without being marked.
MarkNothing ==
  /\ main = "mark"
  /\ main' = "put"
  /\ claimed' = claimed + 1
  /\ UNCHANGED <<job, sentinels, failure, queueVars, poolVars, storeVars, manifestVars>>

\* set_status "pending"; a rejected or failed call ends run with the job claimed.
MarkPending ==
  /\ main = "mark"
  /\ \/ /\ Set(job, "pending")
        /\ main' = "put"
        /\ claimed' = claimed + 1
        /\ UNCHANGED <<job, sentinels, failure>>
     \/ /\ SetRaises(job, "pending")
        /\ Finally(TRUE)
        /\ job' = None
        /\ UNCHANGED claimed
  /\ UNCHANGED <<queueVars, poolVars, manifestVars>>

\* Mutant of PutJob: the job is put once more when the queue has room.
PutJobTwice ==
  /\ main = "put"
  /\ Len(work_queue) + 2 <= MaxSize
  /\ work_queue' = work_queue \o <<job, job>>
  /\ unfinished' = unfinished + 2
  /\ main' = "poll"
  /\ job' = None
  /\ UNCHANGED <<claimed, sentinels, failure, poolVars, storeVars, manifestVars>>

\* work_queue.put, which blocks while the queue is full.
PutJob ==
  /\ main = "put"
  /\ Put(job)
  /\ main' = "poll"
  /\ job' = None
  /\ UNCHANGED <<claimed, sentinels, failure, poolVars, storeVars, manifestVars>>

\* KeyboardInterrupt, between two steps of the loop or in a blocking one.
Interrupt ==
  /\ MayInterrupt
  /\ main \in {"poll", "mark", "put"}
  /\ Finally(TRUE)
  /\ job' = None
  /\ UNCHANGED <<claimed, queueVars, poolVars, storeVars, manifestVars>>

PutSentinel ==
  /\ main = "sentinels"
  /\ IF sentinels > 0
     THEN Put(None) /\ sentinels' = sentinels - 1 /\ UNCHANGED main
     ELSE main' = "join" /\ UNCHANGED <<sentinels, queueVars>>
  /\ UNCHANGED <<job, claimed, failure, poolVars, storeVars, manifestVars>>

\* Mutant of Join: run does not wait for the queue.
JoinWithoutWaiting ==
  /\ main = "join"
  /\ main' = "end"
  /\ UNCHANGED <<job, claimed, sentinels, failure, queueVars, poolVars,
                 storeVars, manifestVars>>

\* work_queue.join, then a join with a timeout of each thread: run is over.
Join ==
  /\ main = "join"
  /\ unfinished = 0
  /\ main' = "end"
  /\ UNCHANGED <<job, claimed, sentinels, failure, queueVars, poolVars,
                 storeVars, manifestVars>>

Dispatch ==
  \/ StartPool \/ StartPoolFails \/ EnoughClaimed \/ Claim \/ ClaimRaises \/ MarkPending
  \/ PutJob \/ PutSentinel \/ Join

-----------------------------------------------------------------------------
(* The pool threads.                                                       *)

Goto(t, from, to) == pool[t] = from /\ pool' = [pool EXCEPT ![t] = to]

\* work_queue.get: a job, or a sentinel that ends the loop.
Get(t) ==
  /\ work_queue # <<>>
  /\ work_queue' = Tail(work_queue)
  /\ IF Head(work_queue) = None
     THEN /\ Goto(t, "get", "exited")
          /\ unfinished' = unfinished - 1
          /\ UNCHANGED work
     ELSE /\ Goto(t, "get", "prove")
          /\ work' = [work EXCEPT ![t] = Head(work_queue)]
          /\ UNCHANGED unfinished
  /\ UNCHANGED <<processed, dispatchVars, storeVars, manifestVars>>

\* Mutant of Prove: what adapter.prove raises is caught nowhere.
ProveEscapes(t) ==
  /\ \/ Goto(t, "prove", "ready") /\ UNCHANGED <<work, unfinished>>
     \/ /\ Goto(t, "prove", "dead")
        /\ work' = [work EXCEPT ![t] = None]
        /\ unfinished' = unfinished - 1
  /\ UNCHANGED <<work_queue, processed, dispatchVars, storeVars, manifestVars>>

\* adapter.prove returns a result, or raises.
Prove(t) ==
  /\ Goto(t, "prove", "ready") \/ Goto(t, "prove", "failed")
  /\ UNCHANGED <<work, processed, dispatchVars, queueVars, storeVars, manifestVars>>

\* set_terminal "ready"; what it raises is caught in _process_claimed_job.
SetReady(t) ==
  /\ \/ Goto(t, "ready", "count")  /\ Set(work[t], "ready")
     \/ Goto(t, "ready", "failed") /\ SetRaises(work[t], "ready")
  /\ UNCHANGED <<work, processed, dispatchVars, queueVars, manifestVars>>

\* set_terminal "failed" in the except branch; what it raises reaches the guard.
SetFailed(t) ==
  /\ \/ Goto(t, "failed", "count") /\ Set(work[t], "failed")
     \/ Goto(t, "failed", "guard") /\ SetRaises(work[t], "failed")
  /\ UNCHANGED <<work, processed, dispatchVars, queueVars, manifestVars>>

\* The guard of worker_loop tries once more; what it raises kills the thread,
\* after task_done in the finally block.
Guard(t) ==
  /\ \/ /\ Goto(t, "guard", "count")
        /\ Set(work[t], "failed")
        /\ UNCHANGED <<work, unfinished>>
     \/ /\ Goto(t, "guard", "dead")
        /\ SetRaises(work[t], "failed")
        /\ work' = [work EXCEPT ![t] = None]
        /\ unfinished' = unfinished - 1
  /\ UNCHANGED <<work_queue, processed, dispatchVars, manifestVars>>

\* Mutant of Count: the task is not marked done.
CountWithoutTaskDone(t) ==
  /\ Goto(t, "count", "get")
  /\ processed' = processed + 1
  /\ work' = [work EXCEPT ![t] = None]
  /\ UNCHANGED <<dispatchVars, queueVars, storeVars, manifestVars>>

\* processed += 1, then task_done.
Count(t) ==
  /\ Goto(t, "count", "get")
  /\ processed' = processed + 1
  /\ work' = [work EXCEPT ![t] = None]
  /\ unfinished' = unfinished - 1
  /\ UNCHANGED <<work_queue, dispatchVars, storeVars, manifestVars>>

ThreadStep(t) ==
  Get(t) \/ Prove(t) \/ SetReady(t) \/ SetFailed(t) \/ Guard(t) \/ Count(t)

WorkerStep == (Dispatch \/ Interrupt \/ \E t \in Thread : ThreadStep(t)) /\ UNCHANGED max_jobs

-----------------------------------------------------------------------------
(* Properties of any composition with run.                                 *)

WorkerTypeOK ==
  /\ max_jobs \in Nat
  /\ main \in {"off", "start", "poll", "mark", "put", "sentinels", "join", "end"}
  /\ job \in Request \cup {None}
  /\ claimed \in Nat
  /\ sentinels \in 0..Cardinality(Thread)
  /\ failure \in BOOLEAN
  /\ work_queue \in Seq(Request \cup {None})
  /\ unfinished \in Nat
  /\ pool \in [Thread -> {"unstarted", "get", "prove", "ready", "failed", "guard", "count",
                          "dead", "exited"}]
  /\ work \in [Thread -> Request \cup {None}]
  /\ processed \in Nat

Busy == {t \in Thread : work[t] # None}
Dead == {t \in Thread : pool[t] = "dead"}

\* Everywhere a claimed job may be: in hand, on the queue, with a thread.
Places(r) ==
  {<<"main", i>> : i \in {i \in {0} : job = r}}
    \cup {<<"queue", i>> : i \in {i \in 1..Len(work_queue) : work_queue[i] = r}}
    \cup {<<"pool", t>> : t \in {t \in Thread : work[t] = r}}

\* A job is in one place at a time: no two threads ever prove the same one.
OnePlace == \A r \in Request : Cardinality(Places(r)) <= 1

\* What join waits for: the count of unfinished tasks is that of the items on
\* the queue and of the threads at work, through every way a thread may fail.
UnfinishedIsWork == unfinished = Len(work_queue) + Cardinality(Busy)

\* A job that is queued for the pool or being proved is pending for clients.
InFlightIsPending ==
  /\ \A i \in 1..Len(work_queue) : work_queue[i] # None => status[work_queue[i]] = "pending"
  /\ \A t \in Thread : pool[t] \in {"prove", "ready"} => status[work[t]] = "pending"

\* The claimed jobs that no thread will bring to a terminal status any more.
Lost == {r \in Ids(claims) : status[r] \notin Terminal /\ Places(r) = {}}

\* When run returns no claimed job is left; when it raises, at most the one
\* that was in the dispatcher's hand is.
AtMostOneLost == Cardinality(Lost) <= IF failure THEN 1 ELSE 0

\* What run returns is the number of jobs it claimed: no thread has died, each
\* has taken its own sentinel, and nothing is left on the queue.
ReturnsProcessed ==
  main = "end" /\ ~failure =>
    /\ processed = claimed
    /\ work_queue = <<>>
    /\ \A t \in Thread : pool[t] = "exited"

\* prover_worker.py:154: once no more jobs are claimed, run ends; the guard
\* keeps threads alive so that queue.join() cannot deadlock.
RunEnds == (main = "sentinels") ~> (main = "end")
=============================================================================
