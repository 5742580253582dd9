--------------------------- MODULE BenchCaseProofs ---------------------------
(***************************************************************************)
(* A benchmark case proved for any requests, pool, failures and moment of  *)
(* the timeout: the manifest hands the jobs over in order, receipts tell   *)
(* the truth about them, run accounts for every job it claims, and the     *)
(* summary claims no more than was proved.                                 *)
(***************************************************************************)
EXTENDS BenchCase, FiniteSetTheorems, TLAPS

PostState == {"idle", "witness", "append", "queue", "annotate", "drop", "unsampled",
              "annotate_last", "gauges", "answered", "raised"}
PoolState == {"unstarted", "get", "prove", "ready", "failed", "guard", "count", "dead", "exited"}

TypeInv ==
  /\ status \in [Request -> Status \cup {Absent}]
  /\ durable \in [Request -> Status \cup {Absent}]
  /\ rows \in Seq(Request)
  /\ claims \in Seq(Request)
  /\ post \in [Request -> PostState]
  /\ hint \in [Request -> InitialStatus]
  /\ work_queue \in Seq(Request \cup {None})
  /\ pool \in [Thread -> PoolState]
  /\ work \in [Thread -> Request \cup {None}]
  /\ main = "mark" => job \in Request
  /\ \A t \in Thread : pool[t] \in {"prove", "ready", "failed", "guard"} => work[t] \in Request

\* The claims are the first jobs, and each job is there once.
InOrder ==
  /\ \A i, k \in 1..Len(rows) : rows[i] = rows[k] => i = k
  /\ Len(claims) <= Len(rows)
  /\ \A i \in 1..Len(claims) : claims[i] = rows[i]

\* The worker only has jobs from the manifest.
Enlisted ==
  /\ job \in Ids(rows) \cup {None}
  /\ \A i \in 1..Len(work_queue) : work_queue[i] \in Ids(rows) \cup {None}
  /\ \A t \in Thread : work[t] \in Ids(rows) \cup {None}

\* How far a request is in post_infer says whether it has a job; as long as it has
\* none, post_infer alone has set its status.
PostOf(r) ==
  /\ post[r] \in {"idle", "witness", "append", "unsampled"} => r \notin Ids(rows)
  /\ post[r] \in {"queue", "annotate"} => r \in Ids(rows)
  /\ hint[r] = "queued" => r \in Ids(rows)
  /\ r \notin Ids(rows) =>
       IF post[r] \in {"idle", "witness", "append", "drop", "unsampled"}
       THEN status[r] = Absent
       ELSE status[r] \in {"dropped_overload", "not_sampled"}

PostInv == \A r \in Request : PostOf(r)

\* The file is never ahead, and a record that is ready has a routing decision.
ReadyInv ==
  \A r \in Request :
    /\ durable[r] = "ready" => status[r] = "ready"
    /\ status[r] = "ready" => routing[r] \in Routings

\* While the child runs there is no summary; what there is later is made of what
\* the child has left, and that does not change any more.
SummaryInv ==
  /\ child = "running" => outcome = NoResult /\ result = NoResult
  /\ outcome = NoResult \/ (outcome = CaseResult /\ main = "end" /\ ~failure)
  /\ result \in {NoResult, PartialResult, FailedFast, outcome}

Core == TypeInv /\ InOrder /\ Enlisted /\ PostInv /\ ReadyInv /\ SummaryInv

-----------------------------------------------------------------------------
(* Sequences.                                                              *)

LEMMA AppendFacts ==
  ASSUME NEW S, NEW s \in Seq(S), NEW e \in S
  PROVE  /\ Append(s, e) \in Seq(S)
         /\ Len(Append(s, e)) = Len(s) + 1
         /\ Append(s, e)[Len(s) + 1] = e
         /\ \A i \in 1..Len(s) : Append(s, e)[i] = s[i]
         /\ \A i \in 1..Len(Append(s, e)) : i \in 1..Len(s) \/ i = Len(s) + 1
         /\ Ids(Append(s, e)) = Ids(s) \cup {e}
<1>1. /\ Append(s, e) \in Seq(S)
      /\ Len(Append(s, e)) = Len(s) + 1
      /\ Append(s, e)[Len(s) + 1] = e
      /\ \A i \in 1..Len(s) : Append(s, e)[i] = s[i]
  OBVIOUS
<1>2. 1..(Len(s) + 1) = 1..Len(s) \cup {Len(s) + 1}
  OBVIOUS
<1> QED
  BY <1>1, <1>2 DEF Ids

LEMMA TailFacts ==
  ASSUME NEW S, NEW s \in Seq(S), s # <<>>
  PROVE  /\ Tail(s) \in Seq(S) /\ Head(s) \in S
         /\ Head(s) = s[1] /\ 1 \in 1..Len(s)
         /\ \A i \in 1..Len(Tail(s)) : Tail(s)[i] = s[i + 1] /\ i + 1 \in 1..Len(s)
OBVIOUS

\* claim_next takes the job that follows the claims.
LEMMA OldestIsNext ==
  ASSUME rows \in Seq(Request), claims \in Seq(Request), InOrder, Unclaimed # {}
  PROVE  Len(claims) < Len(rows) /\ Oldest = rows[Len(claims) + 1]
<1> DEFINE n == Len(claims)
<1>1. n \in Nat /\ Len(rows) \in Nat /\ n <= Len(rows)
  BY DEF InOrder
<1>2. \A i \in 1..Len(rows) : rows[i] \in Ids(claims) <=> i <= n
  <2>1. \A i \in 1..Len(rows) : i <= n => rows[i] \in Ids(claims)
    BY <1>1 DEF InOrder, Ids
  <2>2. ASSUME NEW i \in 1..Len(rows), rows[i] \in Ids(claims) PROVE i <= n
    <3>1. PICK k \in 1..n : rows[i] = claims[k]
      BY <2>2 DEF Ids
    <3>2. k \in 1..Len(rows) /\ rows[i] = rows[k]
      BY <1>1, <3>1 DEF InOrder
    <3> QED
      BY <1>1, <3>2 DEF InOrder
  <2> QED
    BY <2>1, <2>2
<1>3. Unclaimed = (n + 1)..Len(rows)
  BY <1>1, <1>2 DEF Unclaimed
<1>4. n < Len(rows)
  BY <1>1, <1>3
<1>5. (CHOOSE i \in Unclaimed : \A k \in Unclaimed : i <= k) = n + 1
  BY <1>1, <1>3, <1>4
<1> QED
  BY <1>4, <1>5 DEF Oldest

-----------------------------------------------------------------------------
(* Statuses.                                                               *)

Call(r, s) == Set(r, s) \/ SetRaises(r, s)

NotAhead == \A r \in Request : durable[r] = "ready" => status[r] = "ready"

LEMMA CallEffect ==
  ASSUME status \in [Request -> Status \cup {Absent}], durable \in [Request -> Status \cup {Absent}],
         NotAhead, NEW r \in Request, NEW s \in Status, Call(r, s)
  PROVE  /\ status' \in [Request -> Status \cup {Absent}]
         /\ durable' \in [Request -> Status \cup {Absent}]
         /\ \A q \in Request : q # r => status'[q] = status[q]
         /\ status'[r] \in {status[r], s}
         /\ status[r] = Absent /\ s \in InitialStatus => status'[r] = s
         /\ \A q \in Request : durable'[q] = "ready" => status'[q] = "ready"
<1>1. CASE /\ ~CheckTransition(status[r], s) /\ UNCHANGED <<status, durable>>
  BY <1>1 DEF NotAhead, CheckTransition
<1>2. CASE /\ CheckTransition(status[r], s) /\ status' = [status EXCEPT ![r] = s]
           /\ durable' \in {durable, status'}
  <2>1. status[r] = "ready" => s = "ready"
    BY <1>2 DEF CheckTransition, AllowedTransitions, Absent
  <2> QED
    BY <1>2, <2>1 DEF NotAhead
<1> QED
  BY <1>1, <1>2 DEF Call, Set, SetRaises, SetNotPersisted, SetRejected, storeVars

-----------------------------------------------------------------------------
(* A step of post_infer.                                                   *)

LEMMA PostEffect ==
  ASSUME Core, NEW r \in Request, PostStep(r)
  PROVE  /\ post' \in [Request -> PostState] /\ hint' \in [Request -> InitialStatus]
         /\ \A q \in Request : q # r => post'[q] = post[q] /\ hint'[q] = hint[q]
         /\ claims' = claims
         /\ rows' = rows \/ (r \notin Ids(rows) /\ rows' = Append(rows, r))
         /\ \/ UNCHANGED <<status, durable>>
            \/ status' = status /\ durable' = status
            \/ \E s \in InitialStatus : Call(r, s)
         /\ PostOf(r)'
<1>0. /\ status \in [Request -> Status \cup {Absent}] /\ durable \in [Request -> Status \cup {Absent}]
      /\ post \in [Request -> PostState] /\ hint \in [Request -> InitialStatus]
      /\ rows \in Seq(Request) /\ PostOf(r) /\ NotAhead
  BY DEF Core, TypeInv, PostInv, ReadyInv, NotAhead
<1>1. CASE \/ Accept(r) \/ PersistWitness(r) \/ SetGauges(r)
           \/ AnnotateQueued(r) \/ AnnotateLast(r)
  <2>1. /\ post' \in [Request -> PostState] /\ UNCHANGED <<hint, rows, claims, status>>
        /\ \A q \in Request : q # r => post'[q] = post[q]
        /\ UNCHANGED <<status, durable>> \/ (status' = status /\ durable' = status)
    BY <1>0, <1>1
    DEF Accept, PersistWitness, SetGauges, AnnotateQueued, AnnotateLast, Step, Annotate,
        AnnotateRaises, PostState, storeVars, manifestVars
  <2>2. PostOf(r)'
    BY <1>0, <1>1, <2>1
    DEF Accept, PersistWitness, SetGauges, AnnotateQueued, AnnotateLast, Step, PostOf, Ids
  <2> QED
    BY <1>0, <2>1, <2>2
<1>2. CASE AppendJob(r)
  <2>1. /\ post' \in [Request -> PostState] /\ UNCHANGED <<hint, claims, status, durable>>
        /\ \A q \in Request : q # r => post'[q] = post[q]
        /\ post[r] = "append"
        /\ \/ post'[r] = "queue" /\ rows' = Append(rows, r)
           \/ post'[r] = "drop" /\ rows' = rows
    BY <1>0, <1>2 DEF AppendJob, Step, Enqueue, EnqueueRaises, PostState, storeVars
  <2>2. r \notin Ids(rows) /\ status[r] = Absent
    BY <1>0, <2>1 DEF PostOf
  <2>3. CASE post'[r] = "queue" /\ rows' = Append(rows, r)
    <3>1. r \in Ids(rows')
      BY <1>0, <2>3, AppendFacts
    <3> QED
      BY <1>0, <2>1, <2>2, <2>3, <3>1 DEF PostOf
  <2>4. CASE post'[r] = "drop" /\ rows' = rows
    <3>1. Ids(rows') = Ids(rows)
      BY <2>4
    <3> QED
      BY <1>0, <2>1, <2>2, <2>4, <3>1 DEF PostOf
  <2> QED
    BY <2>1, <2>3, <2>4
<1>3. CASE SetQueued(r) \/ SetDropped(r) \/ SetNotSampled(r)
  <2>1. PICK s \in InitialStatus :
          /\ Call(r, s)
          /\ \/ /\ s = "queued" /\ post[r] = "queue" /\ post'[r] \in {"annotate", "drop"}
                /\ hint' = [hint EXCEPT ![r] = "queued"]
             \/ /\ s = "dropped_overload" /\ post[r] = "drop"
                /\ post'[r] \in {"annotate_last", "raised"}
                /\ hint' = [hint EXCEPT ![r] = "dropped_overload"]
             \/ /\ s = "not_sampled" /\ post[r] = "unsampled"
                /\ post'[r] \in {"annotate_last", "raised"} /\ hint' = hint
    BY <1>0, <1>3 DEF SetQueued, SetDropped, SetNotSampled, Step, Call, InitialStatus
  <2>2. /\ post' \in [Request -> PostState] /\ hint' \in [Request -> InitialStatus]
        /\ \A q \in Request : q # r => post'[q] = post[q] /\ hint'[q] = hint[q]
        /\ UNCHANGED <<rows, claims>>
    BY <1>0, <1>3
    DEF SetQueued, SetDropped, SetNotSampled, Step, PostState, InitialStatus, manifestVars
  <2>3. status[r] = Absent => status'[r] = s
    BY <1>0, <2>1, CallEffect DEF InitialStatus, Status
  <2>4. Ids(rows') = Ids(rows)
    BY <2>2
  <2>5. PostOf(r)'
    BY <1>0, <2>1, <2>3, <2>4 DEF PostOf
  <2> QED
    BY <2>1, <2>2, <2>5
<1> QED
  BY <1>1, <1>2, <1>3 DEF PostStep

LEMMA ProduceStep ==
  ASSUME Core, NEW r \in Request, Produce(r)
  PROVE  Core'
<1>0. /\ status \in [Request -> Status \cup {Absent}] /\ durable \in [Request -> Status \cup {Absent}]
      /\ rows \in Seq(Request) /\ claims \in Seq(Request) /\ NotAhead
  BY DEF Core, TypeInv, ReadyInv, NotAhead
<1>1. /\ post' \in [Request -> PostState] /\ hint' \in [Request -> InitialStatus]
      /\ \A q \in Request : q # r => post'[q] = post[q] /\ hint'[q] = hint[q]
      /\ claims' = claims
      /\ rows' = rows \/ (r \notin Ids(rows) /\ rows' = Append(rows, r))
      /\ \/ UNCHANGED <<status, durable>>
         \/ status' = status /\ durable' = status
         \/ \E s \in InitialStatus : Call(r, s)
      /\ PostOf(r)'
  BY PostEffect DEF Produce
<1>2. /\ child = "running" /\ UNCHANGED <<child, outcome, result, routing>>
      /\ UNCHANGED <<main, job, work_queue, pool, work>>
  BY DEF Produce, workerVars, dispatchVars, queueVars, poolVars, caseVars
<1>3. /\ status' \in [Request -> Status \cup {Absent}]
      /\ durable' \in [Request -> Status \cup {Absent}]
      /\ \A q \in Request : q # r => status'[q] = status[q]
      /\ status'[r] = "ready" => status[r] = "ready"
      /\ \A q \in Request : durable'[q] = "ready" => status'[q] = "ready"
  <2>1. ASSUME NEW s \in InitialStatus, Call(r, s) PROVE <1>3!:
    BY <1>0, <2>1, CallEffect DEF InitialStatus, Status
  <2> QED
    BY <1>0, <1>1, <2>1 DEF NotAhead
<1>4. /\ rows' \in Seq(Request) /\ Ids(rows) \subseteq Ids(rows')
      /\ \A q \in Request : q # r => (q \in Ids(rows') <=> q \in Ids(rows))
      /\ Len(rows) <= Len(rows') /\ \A i \in 1..Len(rows) : rows'[i] = rows[i]
      /\ \A i, k \in 1..Len(rows') : rows'[i] = rows'[k] => i = k
  <2>1. CASE rows' = rows
    <3>1. Len(rows) \in Nat
      BY <1>0
    <3> QED
      BY <1>0, <2>1, <3>1 DEF Core, InOrder
  <2>2. CASE r \notin Ids(rows) /\ rows' = Append(rows, r)
    <3>1. /\ rows' \in Seq(Request) /\ Len(rows') = Len(rows) + 1 /\ rows'[Len(rows) + 1] = r
          /\ \A i \in 1..Len(rows) : rows'[i] = rows[i] /\ rows[i] # r
          /\ \A i \in 1..Len(rows') : i \in 1..Len(rows) \/ i = Len(rows) + 1
          /\ Ids(rows') = Ids(rows) \cup {r} /\ Len(rows) \in Nat
      BY <1>0, <2>2, AppendFacts DEF Ids
    <3> QED
      BY <3>1 DEF Core, InOrder
  <2> QED
    BY <1>1, <2>1, <2>2
<1>5. TypeInv'
  BY <1>1, <1>2, <1>3, <1>4 DEF Core, TypeInv
<1>6. InOrder'
  <2>1. Len(claims) \in Nat /\ Len(rows) \in Nat /\ Len(rows') \in Nat
    BY <1>0, <1>4
  <2> QED
    BY <1>1, <1>4, <2>1 DEF Core, InOrder
<1>7. Enlisted'
  BY <1>2, <1>4 DEF Core, Enlisted
<1>8. PostInv'
  <2>1. \A q \in Request : q # r => PostOf(q)'
    BY <1>1, <1>3, <1>4 DEF Core, PostInv, PostOf
  <2> QED
    BY <1>1, <2>1 DEF PostInv
<1>9. ReadyInv'
  BY <1>2, <1>3 DEF Core, ReadyInv
<1>10. SummaryInv'
  BY <1>2 DEF Core, SummaryInv
<1> QED
  BY <1>5, <1>6, <1>7, <1>8, <1>9, <1>10 DEF Core

-----------------------------------------------------------------------------
(* A step of run.                                                          *)

\* What a step of run may change, and in which ways.
RunEffect ==
  /\ claims' = claims \/ (Unclaimed # {} /\ claims' = Append(claims, Oldest))
  /\ \/ UNCHANGED <<status, durable>>
     \/ \E r \in Request, s \in {"pending", "ready", "failed"} : r \in Ids(rows) /\ Call(r, s)
  /\ work_queue' \in Seq(Request \cup {None})
  /\ pool' \in [Thread -> PoolState]
  /\ work' \in [Thread -> Request \cup {None}]
  /\ main' = "mark" => job' \in Request
  /\ \A t \in Thread : pool'[t] \in {"prove", "ready", "failed", "guard"} => work'[t] \in Request
  /\ job' \in Ids(rows) \cup {None}
  /\ \A i \in 1..Len(work_queue') : work_queue'[i] \in Ids(rows) \cup {None}
  /\ \A t \in Thread : work'[t] \in Ids(rows) \cup {None}
  /\ rows' = rows

LEMMA DispatchEffect ==
  ASSUME Core, Dispatch \/ Interrupt
  PROVE  RunEffect
<1>0. /\ rows \in Seq(Request) /\ claims \in Seq(Request)
      /\ work_queue \in Seq(Request \cup {None}) /\ pool \in [Thread -> PoolState]
      /\ work \in [Thread -> Request \cup {None}] /\ InOrder /\ Enlisted
      /\ \A t \in Thread : pool[t] \in {"prove", "ready", "failed", "guard"} => work[t] \in Request
      /\ main = "mark" => job \in Request
  BY DEF Core, TypeInv
<1>1. /\ None \notin Request /\ Ids(rows) \subseteq Request
  BY <1>0, StateAssumption DEF Ids
<1>2. CASE StartPool \/ StartPoolFails
  <2>1. /\ pool' \in [Thread -> PoolState] /\ \A t \in Thread : pool'[t] \in {"get", "unstarted"}
        /\ main' \in {"poll", "end"}
    BY <1>2 DEF StartPool, StartPoolFails, PoolState
  <2> QED
    BY <1>0, <1>2, <2>1
    DEF RunEffect, Enlisted, StartPool, StartPoolFails, queueVars, storeVars, manifestVars
<1>3. CASE EnoughClaimed \/ Join \/ Interrupt
  BY <1>0, <1>3
  DEF RunEffect, Enlisted, EnoughClaimed, Join, Interrupt, Finally, queueVars, poolVars, storeVars,
      manifestVars
<1>4. CASE ClaimRaises
  <2>1. /\ UNCHANGED <<job, work_queue, pool, work, status, durable, rows, claims>>
        /\ main' = "sentinels"
    BY <1>4 DEF ClaimRaises, Finally, queueVars, poolVars, storeVars
  <2> QED
    BY <1>0, <2>1 DEF RunEffect, Enlisted
<1>5. CASE Claim
  <2>1. Oldest \in Ids(rows)
    <3>1. Len(claims) < Len(rows) /\ Oldest = rows[Len(claims) + 1]
      BY <1>0, <1>5, OldestIsNext DEF Claim
    <3>2. Len(claims) + 1 \in 1..Len(rows)
      BY <1>0, <3>1
    <3> QED
      BY <3>1, <3>2 DEF Ids
  <2>2. /\ UNCHANGED <<work_queue, pool, work, status, durable, rows>> /\ job' = Oldest
        /\ Unclaimed # {} /\ claims' = Append(claims, Oldest)
    BY <1>5 DEF Claim, queueVars, poolVars, storeVars
  <2> QED
    BY <1>0, <1>1, <2>1, <2>2 DEF RunEffect, Enlisted
<1>6. CASE MarkPending
  <2>1. job \in Ids(rows) /\ job \in Request /\ Call(job, "pending")
    BY <1>0, <1>1, <1>6 DEF MarkPending, Enlisted, Call
  <2>2. /\ UNCHANGED <<work_queue, pool, work, rows, claims>>
        /\ job' \in {job, None} /\ main' # "mark"
    BY <1>6 DEF MarkPending, Finally, queueVars, poolVars, manifestVars
  <2> QED
    BY <1>0, <2>1, <2>2 DEF RunEffect, Enlisted
<1>7. CASE PutJob \/ PutSentinel
  <2>1. /\ UNCHANGED <<pool, work, rows, claims, status, durable>> /\ main' # "mark"
        /\ job' \in {job, None}
        /\ work_queue' = work_queue \/ \E x \in {job, None} : work_queue' = Append(work_queue, x)
    BY <1>7 DEF PutJob, PutSentinel, Put, queueVars, poolVars, storeVars, manifestVars
  <2>2. /\ work_queue' \in Seq(Request \cup {None})
        /\ \A i \in 1..Len(work_queue') : work_queue'[i] \in Ids(rows) \cup {None}
    <3>1. CASE work_queue' = work_queue
      BY <1>0, <3>1 DEF Enlisted
    <3>2. ASSUME NEW x \in {job, None}, work_queue' = Append(work_queue, x)
          PROVE  <2>2!:
      <4>1. x \in Ids(rows) \cup {None} /\ x \in Request \cup {None}
        BY <1>0, <1>1 DEF Enlisted
      <4>2. /\ work_queue' \in Seq(Request \cup {None})
            /\ work_queue'[Len(work_queue) + 1] = x
            /\ \A i \in 1..Len(work_queue) : work_queue'[i] = work_queue[i]
            /\ \A i \in 1..Len(work_queue') : i \in 1..Len(work_queue) \/ i = Len(work_queue) + 1
        BY <1>0, <3>2, <4>1, AppendFacts
      <4> QED
        BY <1>0, <4>1, <4>2 DEF Enlisted
    <3> QED
      BY <2>1, <3>1, <3>2
  <2> QED
    BY <1>0, <2>1, <2>2 DEF RunEffect, Enlisted
<1> QED
  BY <1>2, <1>3, <1>4, <1>5, <1>6, <1>7 DEF Dispatch

LEMMA PoolEffect ==
  ASSUME Core, NEW t \in Thread, ThreadStep(t)
  PROVE  RunEffect
<1>0. /\ rows \in Seq(Request)
      /\ work_queue \in Seq(Request \cup {None}) /\ pool \in [Thread -> PoolState]
      /\ work \in [Thread -> Request \cup {None}] /\ Enlisted
      /\ \A u \in Thread : pool[u] \in {"prove", "ready", "failed", "guard"} => work[u] \in Request
      /\ main = "mark" => job \in Request
  BY DEF Core, TypeInv
<1>1. None \notin Request /\ Ids(rows) \subseteq Request
  BY <1>0, StateAssumption DEF Ids
<1>2. CASE Get(t)
  <2>1. /\ work_queue # <<>> /\ work_queue' = Tail(work_queue) /\ pool[t] = "get"
        /\ UNCHANGED <<main, job, status, durable, rows, claims>>
    BY <1>2 DEF Get, Goto, dispatchVars, storeVars, manifestVars
  <2>2. /\ Head(work_queue) = work_queue[1] /\ 1 \in 1..Len(work_queue)
        /\ work_queue' \in Seq(Request \cup {None})
        /\ \A i \in 1..Len(work_queue') :
             work_queue'[i] = work_queue[i + 1] /\ i + 1 \in 1..Len(work_queue)
    BY <1>0, <2>1, TailFacts
  <2>3. Head(work_queue) \in Ids(rows) \cup {None}
    BY <1>0, <2>2 DEF Enlisted
  <2>4. /\ pool' \in [Thread -> PoolState] /\ work' \in [Thread -> Request \cup {None}]
        /\ \A u \in Thread : u # t => pool'[u] = pool[u] /\ work'[u] = work[u]
        /\ \/ pool'[t] = "exited" /\ work'[t] = work[t]
           \/ pool'[t] = "prove" /\ work'[t] \in Request /\ work'[t] \in Ids(rows)
    <3>1. CASE Head(work_queue) = None
      BY <1>0, <1>2, <3>1 DEF Get, Goto, PoolState
    <3>2. CASE Head(work_queue) # None
      <4>1. Head(work_queue) \in Ids(rows) /\ Head(work_queue) \in Request
        BY <1>1, <2>3, <3>2
      <4> QED
        BY <1>0, <1>2, <3>2, <4>1 DEF Get, Goto, PoolState
    <3> QED
      BY <3>1, <3>2
  <2>5. \A i \in 1..Len(work_queue') : work_queue'[i] \in Ids(rows) \cup {None}
    BY <1>0, <2>2 DEF Enlisted
  <2> QED
    BY <1>0, <2>1, <2>2, <2>4, <2>5 DEF RunEffect, Enlisted
<1>3. CASE Prove(t) \/ SetReady(t) \/ SetFailed(t) \/ Guard(t) \/ Count(t)
  <2>1. /\ UNCHANGED <<main, job, work_queue, rows, claims>>
        /\ work' = work \/ work' = [work EXCEPT ![t] = None]
        /\ \E p \in {"ready", "failed", "guard", "count", "dead", "get"} :
             /\ pool' = [pool EXCEPT ![t] = p]
             /\ p \in {"ready", "failed", "guard"} =>
                  work' = work /\ pool[t] \in {"prove", "ready", "failed", "guard"}
        /\ \/ UNCHANGED <<status, durable>>
           \/ /\ pool[t] \in {"prove", "ready", "failed", "guard"}
              /\ Call(work[t], "ready") \/ Call(work[t], "failed")
    <3>1. CASE Prove(t)
      BY <3>1 DEF Prove, Goto, dispatchVars, queueVars, storeVars, manifestVars
    <3>2. CASE SetReady(t)
      BY <3>2 DEF SetReady, Goto, Call, dispatchVars, queueVars, manifestVars
    <3>3. CASE SetFailed(t)
      BY <3>3 DEF SetFailed, Goto, Call, dispatchVars, queueVars, manifestVars
    <3>4. CASE Guard(t)
      BY <3>4 DEF Guard, Goto, Call, dispatchVars, queueVars, manifestVars
    <3>5. CASE Count(t)
      BY <3>5 DEF Count, Goto, dispatchVars, storeVars, manifestVars
    <3> QED
      BY <1>3, <3>1, <3>2, <3>3, <3>4, <3>5
  <2>2. /\ pool' \in [Thread -> PoolState] /\ work' \in [Thread -> Request \cup {None}]
        /\ \A u \in Thread : work'[u] \in {work[u], None}
        /\ \A u \in Thread : pool'[u] \in {"prove", "ready", "failed", "guard"} => work'[u] \in Request
    BY <1>0, <2>1 DEF PoolState
  <2>3. pool[t] \in {"prove", "ready", "failed", "guard"} => work[t] \in Ids(rows)
    BY <1>0, <1>1 DEF Enlisted
  <2> QED
    BY <1>0, <1>1, <2>1, <2>2, <2>3 DEF RunEffect, Enlisted
<1> QED
  BY <1>2, <1>3 DEF ThreadStep

LEMMA WorkStep ==
  ASSUME Core, Work
  PROVE  Core'
<1>0. /\ status \in [Request -> Status \cup {Absent}] /\ durable \in [Request -> Status \cup {Absent}]
      /\ rows \in Seq(Request) /\ claims \in Seq(Request) /\ NotAhead /\ InOrder
  BY DEF Core, TypeInv, ReadyInv, NotAhead
<1>1. RunEffect
  BY DispatchEffect, PoolEffect DEF Work, WorkerStep
<1>2. /\ child = "running" /\ KeepRouting
      /\ UNCHANGED <<child, outcome, result, post, hint>>
  BY DEF Work, postVars, caseVars
<1>3. /\ status' \in [Request -> Status \cup {Absent}]
      /\ durable' \in [Request -> Status \cup {Absent}]
      /\ \A q \in Request : q \notin Ids(rows) => status'[q] = status[q]
      /\ \A q \in Request : durable'[q] = "ready" => status'[q] = "ready"
  <2>1. ASSUME NEW r \in Request, NEW s \in {"pending", "ready", "failed"},
               r \in Ids(rows), Call(r, s)
        PROVE  <1>3!:
    BY <1>0, <2>1, CallEffect DEF Status
  <2>2. CASE UNCHANGED <<status, durable>>
    BY <1>0, <2>2 DEF NotAhead
  <2> QED
    BY <1>1, <2>1, <2>2 DEF RunEffect
<1>4. /\ claims' \in Seq(Request) /\ Len(claims') <= Len(rows)
      /\ \A i \in 1..Len(claims') : claims'[i] = rows[i]
  <2>1. CASE claims' = claims
    BY <1>0, <2>1 DEF InOrder
  <2>2. CASE Unclaimed # {} /\ claims' = Append(claims, Oldest)
    <3>1. Len(claims) < Len(rows) /\ Oldest = rows[Len(claims) + 1]
      BY <1>0, <2>2, OldestIsNext
    <3>2. Oldest \in Request
      BY <1>0, <3>1
    <3>3. /\ claims' \in Seq(Request) /\ Len(claims') = Len(claims) + 1
          /\ claims'[Len(claims) + 1] = Oldest
          /\ \A i \in 1..Len(claims) : claims'[i] = claims[i]
          /\ \A i \in 1..Len(claims') : i \in 1..Len(claims) \/ i = Len(claims) + 1
      BY <1>0, <2>2, <3>2, AppendFacts
    <3> QED
      BY <1>0, <3>1, <3>3 DEF InOrder
  <2> QED
    BY <1>1, <2>1, <2>2 DEF RunEffect
<1>5. TypeInv'
  BY <1>1, <1>2, <1>3, <1>4 DEF Core, TypeInv, RunEffect
<1>6. InOrder'
  BY <1>0, <1>1, <1>4 DEF InOrder, RunEffect
<1>7. Enlisted'
  <2>1. Ids(rows') = Ids(rows)
    BY <1>1 DEF RunEffect
  <2> QED
    BY <1>1, <2>1 DEF Enlisted, RunEffect
<1>8. PostInv'
  <2>1. Ids(rows') = Ids(rows)
    BY <1>1 DEF RunEffect
  <2> QED
    BY <1>2, <1>3, <2>1 DEF Core, PostInv, PostOf
<1>9. ReadyInv'
  <2>1. ASSUME NEW r \in Request, status'[r] = "ready" PROVE routing'[r] \in Routings
    <3>1. status[r] = "ready" => routing[r] \in Routings
      BY DEF Core, ReadyInv
    <3> QED
      BY <1>2, <2>1, <3>1 DEF KeepRouting
  <2> QED
    BY <1>3, <2>1 DEF ReadyInv
<1>10. SummaryInv'
  BY <1>2 DEF Core, SummaryInv
<1> QED
  BY <1>5, <1>6, <1>7, <1>8, <1>9, <1>10 DEF Core

-----------------------------------------------------------------------------
(* The whole case.                                                         *)

\* Steps that leave what the server and the worker keep as it is.
LEMMA Framed ==
  ASSUME Core,
         UNCHANGED <<storeVars, rows, claims, postVars, job, work_queue, pool, work, routing>>,
         main' = main \/ main' # "mark"
  PROVE  TypeInv' /\ InOrder' /\ Enlisted' /\ PostInv' /\ ReadyInv'
<1>1. TypeInv'
  BY DEF Core, TypeInv, storeVars, postVars
<1>2. InOrder' /\ Enlisted'
  BY DEF Core, InOrder, Enlisted, Ids
<1>3. PostInv' /\ ReadyInv'
  BY DEF Core, PostInv, PostOf, ReadyInv, Ids, storeVars, postVars
<1> QED
  BY <1>1, <1>2, <1>3

LEMMA SummaryFrozen ==
  ASSUME UNCHANGED <<status, durable, post, routing, processed>>
  PROVE  CaseResult' = CaseResult /\ PartialResult' = PartialResult
BY DEF CaseResult, PartialResult, Answered, Counted, Routed

LEMMA InitCore == Init => Core
<1> SUFFICES ASSUME Init PROVE Core
  OBVIOUS
<1>1. TypeInv
  BY DEF Init, PostInit, WorkerInit, TypeInv, PostState, PoolState, InitialStatus
<1>2. Ids(rows) = {} /\ Len(rows) = 0 /\ Len(claims) = 0
  BY DEF Init, Ids
<1>3. InOrder /\ Enlisted
  BY <1>2 DEF Init, WorkerInit, InOrder, Enlisted
<1>4. PostInv /\ ReadyInv
  BY <1>2 DEF Init, PostInit, PostInv, PostOf, ReadyInv, Absent
<1>5. SummaryInv
  BY DEF Init, SummaryInv
<1> QED
  BY <1>1, <1>3, <1>4, <1>5 DEF Core

LEMMA StepCore == Core /\ [Next]_vars => Core'
<1> SUFFICES ASSUME Core, [Next]_vars PROVE Core'
  OBVIOUS
<1>0. SummaryInv
  BY DEF Core
<1>1. CASE StartRun
  <2>1. /\ UNCHANGED <<storeVars, rows, claims, postVars, job, work_queue, pool, work, routing>>
        /\ UNCHANGED <<child, outcome, result>> /\ child = "running" /\ main' # "mark"
    BY <1>1 DEF StartRun, queueVars, poolVars, manifestVars, caseVars
  <2>2. SummaryInv'
    BY <1>0, <2>1 DEF SummaryInv
  <2> QED
    BY <2>1, <2>2, Framed DEF Core
<1>2. CASE UNCHANGED serveVars
  <2>1. /\ UNCHANGED <<storeVars, rows, claims, postVars, job, work_queue, pool, work, routing>>
        /\ UNCHANGED <<status, durable, post, processed, main, failure>>
    BY <1>2
    DEF serveVars, storeVars, manifestVars, postVars, workerVars, dispatchVars, queueVars, poolVars
  <2>2. CaseResult' = CaseResult /\ PartialResult' = PartialResult
    BY <2>1, SummaryFrozen
  <2>3. CASE ChildReturns
    BY <1>0, <2>1, <2>2, <2>3, Framed DEF ChildReturns, SummaryInv, Core
  <2>4. CASE ChildRaises
    BY <1>0, <2>1, <2>2, <2>4, Framed DEF ChildRaises, SummaryInv, Core
  <2>5. CASE Timeout
    BY <1>0, <2>1, <2>2, <2>5, Framed DEF Timeout, SummaryInv, Core
  <2>6. CASE Collect
    BY <1>0, <2>1, <2>2, <2>6, Framed DEF Collect, SummaryInv, Core
  <2>7. CASE UNCHANGED caseVars
    BY <1>0, <2>1, <2>2, <2>7, Framed DEF caseVars, SummaryInv, Core
  <2>8. ChildReturns \/ ChildRaises \/ Timeout \/ Collect \/ UNCHANGED caseVars
        \/ Work \/ \E r \in Request : Produce(r)
    BY <1>1 DEF Next, vars, StartRun, caseVars
  <2> QED
    BY <2>3, <2>4, <2>5, <2>6, <2>7, <2>8, WorkStep, ProduceStep
<1>3. CASE ChildReturns \/ ChildRaises \/ Timeout \/ Collect \/ UNCHANGED vars
  BY <1>2, <1>3 DEF ChildReturns, ChildRaises, Timeout, Collect, vars
<1> QED
  BY <1>1, <1>3, WorkStep, ProduceStep DEF Next
-----------------------------------------------------------------------------
(* The worker, counted.  It only runs once every request has been posted.  *)

\* Where a thread has a job.
AtWork == {"prove", "ready", "failed", "guard", "count"}

\* Types.
DispatchInv ==
  /\ main \in {"off", "start", "poll", "mark", "put", "sentinels", "join", "end"}
  /\ job \in Request \cup {None}
  /\ claimed \in Nat
  /\ sentinels \in 0..Cardinality(Thread)
  /\ failure \in BOOLEAN
  /\ processed \in Nat

\* Where dispatcher and threads are says what they hold.
CtlInv ==
  /\ job # None <=> main \in {"mark", "put"}
  /\ \A t \in Thread : work[t] # None <=> pool[t] \in AtWork
  /\ main \in {"off", "start"} =>
       /\ work_queue = <<>> /\ claims = <<>> /\ claimed = 0 /\ processed = 0
       /\ \A t \in Thread : pool[t] = "unstarted"
  /\ main \notin {"sentinels", "join", "end"} => ~failure

\* While run does well it keeps track of its claims, and it ends with enough of them.
ClaimedInv ==
  ~failure =>
    /\ Len(claims) = claimed + (IF main = "mark" THEN 1 ELSE 0)
    /\ main \in {"sentinels", "join", "end"} => max_jobs > 0 /\ claimed >= max_jobs

\* The sentinels on the queue, and the threads that have taken one.
Stops == {i \in 1..Len(work_queue) : work_queue[i] = None}
Exited == {t \in Thread : pool[t] = "exited"}

\* Each sentinel ends one thread.
StopsInv ==
  /\ main \notin {"sentinels", "join", "end"} => Cardinality(Stops) + Cardinality(Exited) = 0
  /\ main \in {"sentinels", "join"} =>
       Cardinality(Stops) + Cardinality(Exited) = Cardinality(Thread) - sentinels
  /\ main = "join" => sentinels = 0
  /\ main = "end" /\ ~failure => work_queue = <<>> /\ Busy = {} /\ \A t \in Thread : pool[t] = "exited"

\* Each job is counted once, wherever it is.
JobsInv ==
  ~failure =>
    claimed + Cardinality(Stops) =
      processed + Cardinality(Dead) + Cardinality(Busy) + Len(work_queue)
        + (IF main = "put" THEN 1 ELSE 0)

Begun(r) == status[r] \in {"pending"} \cup Terminal

\* A job that has been marked is pending or done; it is done when its thread puts
\* it down, and lost only when run fails with it in hand.
LostInv ==
  /\ main = "put" => Begun(job)
  /\ \A i \in 1..Len(work_queue) : work_queue[i] # None => Begun(work_queue[i])
  /\ \A t \in Thread : work[t] # None => Begun(work[t])
  /\ \A t \in Thread : pool[t] = "count" => status[work[t]] \in Terminal
  /\ ~failure => Lost = {}
  /\ \A a, b \in Lost : a = b

Counting ==
  DispatchInv /\ CtlInv /\ ClaimedInv /\ UnfinishedIsWork /\ StopsInv /\ JobsInv /\ LostInv

\* run is called for all that was answered.
PostedInv ==
  /\ max_jobs \in Nat
  /\ main # "off" => (\A r \in Request : Posted(r)) /\ max_jobs = Cardinality(Answered)

IInv == Core /\ Counting /\ PostedInv


-----------------------------------------------------------------------------
(* Counts.                                                                 *)

LEMMA Basics == None \notin Request /\ IsFiniteSet(Thread) /\ Cardinality(Thread) \in Nat
BY StateAssumption, WorkerAssumption, FS_CardinalityType

LEMMA FiniteBelow ==
  ASSUME NEW n \in Nat, NEW S \in SUBSET (1..n)
  PROVE  IsFiniteSet(S) /\ Cardinality(S) \in Nat
<1>1. IsFiniteSet(1..n)
  BY FS_Interval
<1> QED
  BY <1>1, FS_Subset, FS_CardinalityType

LEMMA CountTypes ==
  ASSUME work_queue \in Seq(Request \cup {None})
  PROVE  /\ IsFiniteSet(Busy) /\ IsFiniteSet(Dead) /\ IsFiniteSet(Exited) /\ IsFiniteSet(Stops)
         /\ Cardinality(Busy) \in Nat /\ Cardinality(Dead) \in Nat
         /\ Cardinality(Exited) \in Nat /\ Cardinality(Stops) \in Nat
         /\ Len(work_queue) \in Nat
<1>1. Busy \subseteq Thread /\ Dead \subseteq Thread /\ Exited \subseteq Thread
  BY DEF Busy, Dead, Exited
<1>2. Stops \subseteq 1..Len(work_queue) /\ IsFiniteSet(1..Len(work_queue)) /\ Len(work_queue) \in Nat
  BY FS_Interval DEF Stops
<1> QED
  BY <1>1, <1>2, Basics, FS_Subset, FS_CardinalityType

\* A set of threads that are in one state gains or loses a thread with its move.
LEMMA OneMore ==
  ASSUME NEW S, NEW T, IsFiniteSet(S), NEW t, t \notin S, T = S \cup {t}
  PROVE  Cardinality(T) = Cardinality(S) + 1
BY FS_AddElement

LEMMA OneFewer ==
  ASSUME NEW S, NEW T, IsFiniteSet(S), NEW t \in S, T = S \ {t}
  PROVE  Cardinality(T) = Cardinality(S) - 1 /\ Cardinality(S) \in Nat \ {0}
BY FS_RemoveElement, FS_EmptySet, FS_CardinalityType

\* The queue gets a job or a sentinel.
LEMMA PutCounts ==
  ASSUME work_queue \in Seq(Request \cup {None}), NEW item \in Request \cup {None},
         work_queue' = Append(work_queue, item)
  PROVE  /\ Len(work_queue') = Len(work_queue) + 1
         /\ Cardinality(Stops') = Cardinality(Stops) + (IF item = None THEN 1 ELSE 0)
<1> DEFINE n == Len(work_queue)
<1>1. /\ n \in Nat /\ Len(work_queue') = n + 1 /\ work_queue'[n + 1] = item
      /\ \A i \in 1..n : work_queue'[i] = work_queue[i]
      /\ 1..(n + 1) = 1..n \cup {n + 1} /\ n + 1 \notin 1..n
  BY AppendFacts
<1>2. CASE item = None
  <2>1. Stops' = Stops \cup {n + 1} /\ n + 1 \notin Stops
    BY <1>1, <1>2 DEF Stops
  <2> QED
    BY <1>1, <1>2, <2>1, OneMore, CountTypes
<1>3. CASE item # None
  <2>1. Stops' = Stops
    BY <1>1, <1>3 DEF Stops
  <2> QED
    BY <1>1, <1>3, <2>1, CountTypes
<1> QED
  BY <1>2, <1>3

\* A thread takes the first item.
LEMMA GetCounts ==
  ASSUME work_queue \in Seq(Request \cup {None}), work_queue # <<>>,
         work_queue' = Tail(work_queue)
  PROVE  /\ Len(work_queue') = Len(work_queue) - 1 /\ Len(work_queue) > 0
         /\ Cardinality(Stops) = Cardinality(Stops') + (IF Head(work_queue) = None THEN 1 ELSE 0)
<1> DEFINE n == Len(work_queue)
           m == n - 1
           Later == {i \in 2..n : work_queue[i] = None}
           shift == [i \in Stops' |-> i + 1]
<1>1. /\ n \in Nat /\ n > 0 /\ m \in Nat /\ Len(work_queue') = m
      /\ \A i \in 1..m : work_queue'[i] = work_queue[i + 1] /\ i + 1 \in 2..n
      /\ Head(work_queue) = work_queue[1]
      /\ 1..n = {1} \cup 2..n /\ 1 \notin 2..n
  OBVIOUS
<1>2. shift \in Bijection(Stops', Later)
  <2>1. \A i \in Stops' : i \in 1..m /\ i + 1 \in Later
    BY <1>1 DEF Stops
  <2>2. shift \in [Stops' -> Later]
    BY <2>1
  <2>3. \A i, k \in Stops' : shift[i] = shift[k] => i = k
    BY <1>1, <2>1
  <2>4. \A k \in Later : \E i \in Stops' : shift[i] = k
    <3> SUFFICES ASSUME NEW k \in Later PROVE \E i \in Stops' : shift[i] = k
      OBVIOUS
    <3>1. k - 1 \in 1..m /\ (k - 1) + 1 = k
      BY <1>1
    <3>2. work_queue'[k - 1] = None
      BY <1>1, <3>1
    <3>3. k - 1 \in Stops'
      BY <1>1, <3>1, <3>2 DEF Stops
    <3> QED
      BY <3>1, <3>3
  <2> QED
    BY <2>2, <2>3, <2>4 DEF Bijection, Injection, Surjection, IsInjective
<1>3. IsFiniteSet(Later) /\ IsFiniteSet(Stops')
  <2>1. Later \subseteq 1..n /\ Stops' \subseteq 1..m
    BY <1>1 DEF Stops
  <2>2. n \in Int /\ m \in Int /\ 1 \in Int
    BY <1>1
  <2>3. IsFiniteSet(1..n) /\ IsFiniteSet(1..m)
    BY <2>2, FS_Interval
  <2> QED
    BY <2>1, <2>3, FS_Subset
<1> HIDE DEF shift, Later
<1>4. Cardinality(Stops') = Cardinality(Later)
  BY <1>2, <1>3, FS_Bijection DEF ExistsBijection
<1>5. CASE work_queue[1] = None
  <2>1. Stops = Later \cup {1} /\ 1 \notin Later
    BY <1>1, <1>5 DEF Stops, Later
  <2> QED
    BY <1>1, <1>3, <1>4, <1>5, <2>1, OneMore
<1>6. CASE work_queue[1] # None
  <2>1. Stops = Later
    BY <1>1, <1>6 DEF Stops, Later
  <2> QED
    BY <1>1, <1>3, <1>4, <1>6, <2>1, FS_CardinalityType
<1> QED
  BY <1>5, <1>6

-----------------------------------------------------------------------------
(* Jobs that have begun, and jobs that are lost.                           *)

\* A store call of the worker leaves what is done, and finishes what has begun,
\* even when it raises.
LEMMA CallFinishes ==
  ASSUME status \in [Request -> Status \cup {Absent}],
         NEW r \in Request, NEW s \in {"pending", "ready", "failed"}, Call(r, s)
  PROVE  /\ \A q \in Request : status[q] \in Terminal => status'[q] \in Terminal
         /\ \A q \in Request : Begun(q) => status'[q] \in {"pending"} \cup Terminal
         /\ s # "pending" /\ Begun(r) => status'[r] \in Terminal
<1>1. CASE ~CheckTransition(status[r], s) /\ UNCHANGED status
  BY <1>1 DEF Begun, CheckTransition, AllowedTransitions, Terminal, Active, Status, Absent
<1>2. CASE CheckTransition(status[r], s) /\ status' = [status EXCEPT ![r] = s]
  <2>1. \A q \in Request : q # r => status'[q] = status[q]
    BY <1>2
  <2>2. status'[r] = s
    BY <1>2
  <2>3. status[r] \in Terminal => s = status[r]
    BY <1>2 DEF CheckTransition, AllowedTransitions, Terminal, Active, Status, Absent
  <2>4. s \in {"pending"} \cup Terminal /\ (s # "pending" => s \in Terminal)
    BY DEF Terminal, Active, Status
  <2> QED
    BY <2>1, <2>2, <2>3, <2>4 DEF Begun
<1> QED
  BY <1>1, <1>2 DEF Call, Set, SetRaises, SetNotPersisted, SetRejected, storeVars

Placed(r) ==
  \/ job = r
  \/ \E i \in 1..Len(work_queue) : work_queue[i] = r
  \/ \E t \in Thread : work[t] = r

LEMMA PlacedIs ==
  ASSUME NEW r
  PROVE  /\ Places(r) = {} <=> ~Placed(r)
         /\ Places(r)' = {} <=> ~Placed(r)'
BY DEF Places, Placed

LEMMA LostShrinks ==
  ASSUME claims \in Seq(Request), claims' = claims,
         \A q \in Request : status[q] \in Terminal => status'[q] \in Terminal,
         NEW J,
         \A q \in Request : Placed(q) => Placed(q)' \/ status'[q] \in Terminal \/ q \in J
  PROVE  Lost' \subseteq Lost \cup J
<1>1. Ids(claims) \subseteq Request /\ Ids(claims') = Ids(claims)
  BY DEF Ids
<1> QED
  BY <1>1, PlacedIs DEF Lost

\* Steps that leave queue and pool alone.
LEMMA Still ==
  ASSUME UNCHANGED <<work_queue, pool, work>>
  PROVE  /\ Stops' = Stops /\ Exited' = Exited /\ Busy' = Busy /\ Dead' = Dead
         /\ Cardinality(Stops') = Cardinality(Stops) /\ Cardinality(Exited') = Cardinality(Exited)
         /\ Cardinality(Busy') = Cardinality(Busy) /\ Cardinality(Dead') = Cardinality(Dead)
         /\ Len(work_queue') = Len(work_queue)
BY DEF Stops, Exited, Busy, Dead

LEMMA LostStill ==
  ASSUME UNCHANGED <<status, claims, work_queue, pool, work, job>>
  PROVE  Lost' = Lost
BY DEF Lost, Places, Ids

-----------------------------------------------------------------------------
(* The dispatcher.                                                         *)

LEMMA Known ==
  ASSUME IInv
  PROVE  /\ status \in [Request -> Status \cup {Absent}]
         /\ rows \in Seq(Request) /\ claims \in Seq(Request)
         /\ work_queue \in Seq(Request \cup {None})
         /\ pool \in [Thread -> PoolState] /\ work \in [Thread -> Request \cup {None}]
         /\ DispatchInv /\ CtlInv /\ ClaimedInv /\ UnfinishedIsWork /\ StopsInv /\ JobsInv /\ LostInv
BY DEF IInv, Core, TypeInv, Counting

LEMMA Numbers ==
  ASSUME IInv
  PROVE  /\ claimed \in Nat /\ processed \in Nat /\ sentinels \in Nat /\ Cardinality(Thread) \in Nat
         /\ Cardinality(Busy) \in Nat /\ Cardinality(Dead) \in Nat
         /\ Cardinality(Exited) \in Nat /\ Cardinality(Stops) \in Nat /\ Len(work_queue) \in Nat
         /\ StopsInv /\ JobsInv /\ UnfinishedIsWork
<1>1. claimed \in Nat /\ processed \in Nat /\ sentinels \in Nat
  BY Known, Basics DEF DispatchInv
<1> QED
  BY <1>1, Known, CountTypes, Basics

InHand == IF main = "put" THEN 1 ELSE 0

\* The balance of the jobs when a thread takes an item, or puts its job down.
LEMMA Balanced ==
  ASSUME IInv, ~failure
  PROVE  /\ claimed + Cardinality(Stops) =
              processed + Cardinality(Dead) + (Cardinality(Busy) + 1) + (Len(work_queue) - 1) + InHand
         /\ claimed + (Cardinality(Stops) - 1) =
              processed + Cardinality(Dead) + Cardinality(Busy) + (Len(work_queue) - 1) + InHand
         /\ claimed + Cardinality(Stops) =
              (processed + 1) + Cardinality(Dead) + (Cardinality(Busy) - 1) + Len(work_queue) + InHand
         /\ claimed + Cardinality(Stops) =
              processed + (Cardinality(Dead) + 1) + (Cardinality(Busy) - 1) + Len(work_queue) + InHand
<1> DEFINE c == claimed
           s == Cardinality(Stops)
           p == processed
           d == Cardinality(Dead)
           b == Cardinality(Busy)
           l == Len(work_queue)
           x == InHand
<1>1. /\ c \in Nat /\ s \in Nat /\ p \in Nat /\ d \in Nat /\ b \in Nat /\ l \in Nat
      /\ x \in Nat
  BY Numbers DEF InHand
<1>2. c + s = p + d + b + l + x
  BY Numbers DEF JobsInv, InHand
<1> HIDE DEF c, s, p, d, b, l, x
<1>3. /\ c + s = p + d + (b + 1) + (l - 1) + x
      /\ c + (s - 1) = p + d + b + (l - 1) + x
      /\ c + s = (p + 1) + d + (b - 1) + l + x
      /\ c + s = p + (d + 1) + (b - 1) + l + x
  BY <1>1, <1>2
<1> QED
  BY <1>3 DEF c, s, p, d, b, l, x

\* A step that only moves the dispatcher on, to a place where it has the same in
\* hand.
LEMMA MovesOn ==
  ASSUME IInv,
         UNCHANGED <<status, claims, work_queue, unfinished, pool, work, job, processed, claimed>>,
         failure' = failure \/ failure' = TRUE,
         main' = "put" => main = "put"
  PROVE  UnfinishedIsWork' /\ LostInv'
<1>1. UnfinishedIsWork'
  BY Known, Still DEF UnfinishedIsWork
<1>2. LostInv'
  <2>1. Lost' = Lost
    BY LostStill
  <2> QED
    BY <2>1, Known DEF LostInv, Begun, DispatchInv
<1> QED
  BY <1>1, <1>2

LEMMA EnoughCounted == ASSUME IInv, EnoughClaimed, UNCHANGED max_jobs PROVE Counting'
<1>1. /\ main = "poll" /\ main' = "sentinels" /\ sentinels' = Cardinality(Thread)
      /\ failure' = FALSE /\ max_jobs > 0 /\ claimed >= max_jobs
      /\ UNCHANGED <<status, claims, work_queue, unfinished, pool, work, job, processed, claimed>>
  BY DEF EnoughClaimed, Finally, queueVars, poolVars, storeVars, manifestVars
<1>2. failure = FALSE
  BY <1>1, Known DEF CtlInv, DispatchInv
<1>3. DispatchInv'
  <2>1. failure' \in BOOLEAN
    BY <1>1
  <2> QED
    BY <1>1, <2>1, Known, Basics DEF DispatchInv
<1>4. CtlInv' /\ ClaimedInv'
  BY <1>1, <1>2, Known DEF CtlInv, ClaimedInv
<1>5. StopsInv' /\ JobsInv'
  BY <1>1, <1>2, Known, Still, CountTypes, Basics DEF StopsInv, JobsInv
<1> QED
  BY <1>1, <1>2, <1>3, <1>4, <1>5, MovesOn DEF Counting

LEMMA RaisesCounted == ASSUME IInv, ClaimRaises, UNCHANGED max_jobs PROVE Counting'
<1>1. /\ main = "poll" /\ main' = "sentinels" /\ sentinels' = Cardinality(Thread)
      /\ failure' = TRUE
      /\ UNCHANGED <<status, claims, work_queue, unfinished, pool, work, job, processed, claimed>>
  BY DEF ClaimRaises, Finally, queueVars, poolVars, storeVars
<1>2. DispatchInv'
  BY <1>1, Known, Basics DEF DispatchInv
<1>3. CtlInv' /\ ClaimedInv' /\ JobsInv'
  BY <1>1, Known DEF CtlInv, ClaimedInv, JobsInv
<1>4. StopsInv'
  BY <1>1, Known, Still, CountTypes, Basics DEF StopsInv
<1> QED
  BY <1>1, <1>2, <1>3, <1>4, MovesOn DEF Counting

\* When join returns, the queue is empty and nobody is at work; so every sentinel
\* has been taken, each by a thread of its own.
LEMMA JoinCounted == ASSUME IInv, Join, UNCHANGED max_jobs PROVE Counting'
<1>1. /\ main = "join" /\ main' = "end" /\ unfinished = 0 /\ UNCHANGED <<sentinels, failure>>
      /\ UNCHANGED <<status, claims, work_queue, unfinished, pool, work, job, processed, claimed>>
  BY DEF Join, queueVars, poolVars, storeVars, manifestVars
<1>2. DispatchInv' /\ CtlInv' /\ ClaimedInv'
  BY <1>1, Known DEF DispatchInv, CtlInv, ClaimedInv
<1>3. JobsInv'
  BY <1>1, Known, Still DEF JobsInv
<1>4. StopsInv'
  <2>1. Len(work_queue) = 0 /\ Cardinality(Busy) = 0
    BY <1>1, Known, CountTypes DEF UnfinishedIsWork
  <2>2. work_queue = <<>> /\ Busy = {} /\ Stops = {}
    BY <2>1, Known, CountTypes, FS_EmptySet DEF Stops
  <2>3. Cardinality(Exited) = Cardinality(Thread)
    BY <1>1, <2>2, Known, CountTypes, Basics, FS_EmptySet DEF StopsInv
  <2>4. Exited = Thread
    <3>1. Exited \subseteq Thread
      BY DEF Exited
    <3> QED
      BY <2>3, <3>1, Basics, FS_Subset
  <2>5. \A t \in Thread : pool[t] = "exited"
    BY <2>4 DEF Exited
  <2> QED
    BY <1>1, <2>2, <2>5, Still DEF StopsInv
<1> QED
  BY <1>1, <1>2, <1>3, <1>4, MovesOn DEF Counting

LEMMA LastStopCounted ==
  ASSUME IInv, PutSentinel, ~(sentinels > 0), UNCHANGED max_jobs PROVE Counting'
<1>1. /\ main = "sentinels" /\ main' = "join" /\ UNCHANGED <<sentinels, failure>>
      /\ UNCHANGED <<status, claims, work_queue, unfinished, pool, work, job, processed, claimed>>
  BY DEF PutSentinel, queueVars, poolVars, storeVars, manifestVars
<1>2. sentinels = 0
  BY Known, Basics DEF DispatchInv
<1>3. DispatchInv' /\ CtlInv' /\ ClaimedInv'
  BY <1>1, Known DEF DispatchInv, CtlInv, ClaimedInv
<1>4. StopsInv' /\ JobsInv'
  BY <1>1, <1>2, Known, Still DEF StopsInv, JobsInv
<1> QED
  BY <1>1, <1>3, <1>4, MovesOn DEF Counting

LEMMA StartCounted ==
  ASSUME IInv, StartPool \/ StartPoolFails, UNCHANGED max_jobs
  PROVE  Counting'
<1>1. /\ main = "start" /\ main' \in {"poll", "end"}
      /\ main' = "end" => failure' = TRUE
      /\ main' = "poll" => failure' = failure
      /\ \A t \in Thread : pool'[t] \in {"get", "unstarted"}
      /\ UNCHANGED <<status, claims, work_queue, unfinished, work, job, processed, claimed, sentinels>>
  BY DEF StartPool, StartPoolFails, queueVars, storeVars, manifestVars
<1>2. /\ work_queue = <<>> /\ claims = <<>> /\ claimed = 0 /\ processed = 0 /\ job = None
      /\ \A t \in Thread : work[t] = None
      /\ failure \in BOOLEAN /\ failure = FALSE
  BY <1>1, Known DEF CtlInv, DispatchInv, AtWork
<1>3. /\ Busy = {} /\ Stops = {} /\ Busy' = {} /\ Dead' = {} /\ Exited' = {} /\ Stops' = {}
      /\ Lost' = {}
  BY <1>1, <1>2 DEF Busy, Dead, Exited, Stops, Lost, Ids
<1>4. DispatchInv'
  <2>1. failure' \in BOOLEAN
    BY <1>1, <1>2
  <2> QED
    BY <1>1, <2>1, Known DEF DispatchInv
<1>5. CtlInv' /\ ClaimedInv'
  BY <1>1, <1>2, Known DEF CtlInv, ClaimedInv, AtWork
<1>6. UnfinishedIsWork' /\ StopsInv' /\ JobsInv'
  BY <1>1, <1>2, <1>3, Known, FS_EmptySet DEF UnfinishedIsWork, StopsInv, JobsInv
<1>7. LostInv'
  BY <1>1, <1>2, <1>3 DEF LostInv
<1> QED
  BY <1>4, <1>5, <1>6, <1>7 DEF Counting

LEMMA ClaimCounted == ASSUME IInv, Claim, UNCHANGED max_jobs PROVE Counting'
<1>1. /\ main = "poll" /\ main' = "mark" /\ job' = Oldest /\ claims' = Append(claims, Oldest)
      /\ Unclaimed # {}
      /\ UNCHANGED <<status, work_queue, unfinished, pool, work, processed, claimed, sentinels, failure>>
  BY DEF Claim, queueVars, poolVars, storeVars
<1>2. Oldest \in Request /\ job = None
  <2>1. Len(claims) < Len(rows) /\ Oldest = rows[Len(claims) + 1]
    BY <1>1, Known, OldestIsNext DEF IInv, Core
  <2> QED
    BY <1>1, <2>1, Known DEF CtlInv
<1>3. Len(claims') = Len(claims) + 1 /\ Ids(claims') = Ids(claims) \cup {Oldest}
  BY <1>1, <1>2, Known, AppendFacts
<1>4. DispatchInv' /\ CtlInv'
  BY <1>1, <1>2, Known, Basics DEF DispatchInv, CtlInv
<1>5. ClaimedInv'
  BY <1>1, <1>3, Known DEF ClaimedInv, DispatchInv
<1>6. UnfinishedIsWork' /\ StopsInv' /\ JobsInv'
  BY <1>1, Known, Still DEF UnfinishedIsWork, StopsInv, JobsInv
<1>7. LostInv'
  <2>1. Lost' \subseteq Lost
    <3>1. ASSUME NEW q \in Lost' PROVE q \in Lost
      <4>1. q \in Ids(claims') /\ status[q] \notin Terminal /\ ~Placed(q)'
        BY <1>1, <3>1, PlacedIs DEF Lost
      <4>2. q \in Ids(claims) /\ q \in Request
        BY <1>1, <1>3, <4>1, Known DEF Placed, Ids
      <4>3. ~Placed(q)
        BY <1>1, <1>2, <4>1, <4>2, Basics DEF Placed
      <4> QED
        BY <4>1, <4>2, <4>3, PlacedIs DEF Lost
    <3> QED
      BY <3>1
  <2> QED
    BY <1>1, <2>1, Known DEF LostInv, Begun
<1> QED
  BY <1>4, <1>5, <1>6, <1>7 DEF Counting

LEMMA MarkCounted == ASSUME IInv, MarkPending, UNCHANGED max_jobs PROVE Counting'
<1>1. /\ main = "mark" /\ Call(job, "pending")
      /\ UNCHANGED <<work_queue, unfinished, pool, work, processed, claims>>
      /\ \/ /\ status'[job] = "pending" /\ main' = "put" /\ claimed' = claimed + 1
            /\ UNCHANGED <<job, sentinels, failure>>
         \/ /\ main' = "sentinels" /\ sentinels' = Cardinality(Thread) /\ failure' = TRUE
            /\ job' = None /\ claimed' = claimed
  <2>1. job \in Request /\ main = "mark"
    BY Known, Basics DEF CtlInv, DispatchInv, MarkPending
  <2> QED
    BY <2>1, Known DEF MarkPending, Finally, Call, Set, queueVars, poolVars, manifestVars
<1>2. job \in Request /\ failure = FALSE
  BY <1>1, Known, Basics DEF CtlInv, DispatchInv
<1>3. /\ \A q \in Request : status[q] \in Terminal => status'[q] \in Terminal
      /\ \A q \in Request : Begun(q) => status'[q] \in {"pending"} \cup Terminal
  BY <1>1, <1>2, Known, CallFinishes
<1>4. DispatchInv'
  <2>1. failure' \in BOOLEAN
    BY <1>1, <1>2
  <2> QED
    BY <1>1, <1>2, <2>1, Known, Basics DEF DispatchInv
<1>5. CtlInv' /\ ClaimedInv'
  BY <1>1, <1>2, Known, Basics DEF CtlInv, ClaimedInv, DispatchInv
<1>6. UnfinishedIsWork' /\ StopsInv'
  BY <1>1, <1>2, Known, Still, CountTypes, Basics DEF UnfinishedIsWork, StopsInv
<1>7. JobsInv'
  BY <1>1, <1>2, Known, Still, CountTypes DEF JobsInv, DispatchInv
<1>8. LostInv'
  <2>1. \A i \in 1..Len(work_queue) : work_queue[i] \in Request \cup {None}
    BY Known
  <2>2. /\ main' = "put" => Begun(job)'
        /\ \A i \in 1..Len(work_queue') : work_queue'[i] # None => Begun(work_queue[i])'
        /\ \A t \in Thread : work'[t] # None => Begun(work[t])'
        /\ \A t \in Thread : pool'[t] = "count" => status'[work'[t]] \in Terminal
    BY <1>1, <1>3, <2>1, Known DEF LostInv, Begun, CtlInv, AtWork
  <2>3. Lost = {}
    BY <1>2, Known DEF LostInv
  <2>4. CASE job' = job /\ failure' = failure
    <3>1. Lost' \subseteq Lost \cup {}
      BY <1>1, <1>3, <2>4, Known, LostShrinks DEF Placed
    <3> QED
      BY <1>1, <2>2, <2>3, <3>1 DEF LostInv
  <2>5. CASE failure' = TRUE
    <3>1. Lost' \subseteq Lost \cup {job}
      BY <1>1, <1>3, Known, LostShrinks DEF Placed
    <3> QED
      BY <1>1, <2>2, <2>3, <2>5, <3>1 DEF LostInv
  <2> QED
    BY <1>1, <2>4, <2>5
<1> QED
  BY <1>4, <1>5, <1>6, <1>7, <1>8 DEF Counting

LEMMA InterruptCounted == ASSUME IInv, Interrupt, UNCHANGED max_jobs PROVE Counting'
<1>1. /\ main \in {"poll", "mark", "put"}
      /\ main' = "sentinels" /\ sentinels' = Cardinality(Thread) /\ failure' = TRUE /\ job' = None
      /\ UNCHANGED <<status, work_queue, unfinished, pool, work, processed, claims, claimed>>
  BY DEF Interrupt, Finally, queueVars, poolVars, storeVars, manifestVars
<1>2. DispatchInv'
  BY <1>1, Known, Basics DEF DispatchInv
<1>3. CtlInv' /\ ClaimedInv' /\ JobsInv'
  BY <1>1, Known DEF CtlInv, ClaimedInv, JobsInv
<1>4. UnfinishedIsWork' /\ StopsInv'
  BY <1>1, Known, Still, CountTypes, Basics DEF UnfinishedIsWork, StopsInv
<1>5. LostInv'
  <2>1. Lost = {}
    BY <1>1, Known DEF LostInv, CtlInv
  <2>2. Lost' \subseteq Lost \cup {job}
    BY <1>1, Known, LostShrinks DEF Placed
  <2> QED
    BY <1>1, <2>1, <2>2, Known DEF LostInv, Begun
<1> QED
  BY <1>2, <1>3, <1>4, <1>5 DEF Counting

LEMMA PutCounted == ASSUME IInv, PutJob, UNCHANGED max_jobs PROVE Counting'
<1>1. /\ main = "put" /\ main' = "poll" /\ job' = None
      /\ work_queue' = Append(work_queue, job) /\ unfinished' = unfinished + 1
      /\ UNCHANGED <<status, pool, work, processed, claims, claimed, sentinels, failure>>
  BY DEF PutJob, Put, poolVars, storeVars, manifestVars
<1>2. job \in Request /\ job # None
  BY <1>1, Known, Basics DEF CtlInv, DispatchInv
<1>3. /\ Len(work_queue') = Len(work_queue) + 1 /\ Cardinality(Stops') = Cardinality(Stops)
      /\ Cardinality(Stops) \in Nat
  BY <1>1, <1>2, Known, PutCounts, CountTypes
<1>4. Busy' = Busy /\ Dead' = Dead /\ Exited' = Exited
  BY <1>1 DEF Busy, Dead, Exited
<1>5. DispatchInv' /\ CtlInv' /\ ClaimedInv'
  BY <1>1, Known DEF DispatchInv, CtlInv, ClaimedInv
<1>6. UnfinishedIsWork' /\ StopsInv' /\ JobsInv'
  <2>1. UnfinishedIsWork'
    BY <1>1, <1>3, <1>4, Known, CountTypes DEF UnfinishedIsWork
  <2>2. StopsInv'
    BY <1>1, <1>3, <1>4, Known DEF StopsInv
  <2>3. JobsInv'
    <3>1. main = "put" /\ main' # "put" /\ UNCHANGED <<claimed, processed, failure>>
      BY <1>1
    <3> QED
      BY <1>3, <1>4, <3>1, Numbers, SMTT(60) DEF JobsInv
  <2> QED
    BY <2>1, <2>2, <2>3
<1>7. LostInv'
  <2>1. /\ work_queue'[Len(work_queue) + 1] = job
        /\ \A i \in 1..Len(work_queue) : work_queue'[i] = work_queue[i] /\ i \in 1..Len(work_queue')
        /\ \A i \in 1..Len(work_queue') : i \in 1..Len(work_queue) \/ i = Len(work_queue) + 1
        /\ Len(work_queue) + 1 \in 1..Len(work_queue')
    BY <1>1, <1>2, <1>3, Known, AppendFacts
  <2>2. \A i \in 1..Len(work_queue') : work_queue'[i] # None => Begun(work_queue[i])'
    BY <1>1, <2>1, Known DEF LostInv, Begun
  <2>3. Lost' \subseteq Lost \cup {}
    <3>1. \A q \in Request : Placed(q) => Placed(q)'
      BY <1>1, <2>1 DEF Placed
    <3> QED
      BY <1>1, <3>1, Known, LostShrinks
  <2> QED
    BY <1>1, <2>2, <2>3, Known DEF LostInv, Begun
<1> QED
  BY <1>5, <1>6, <1>7 DEF Counting

LEMMA StopCounted ==
  ASSUME IInv, PutSentinel, sentinels > 0, UNCHANGED max_jobs
  PROVE  Counting'
<1>1. /\ main = "sentinels" /\ main' = main /\ sentinels' = sentinels - 1
      /\ work_queue' = Append(work_queue, None) /\ unfinished' = unfinished + 1
      /\ UNCHANGED <<status, pool, work, processed, claims, claimed, job, failure>>
  BY DEF PutSentinel, Put, poolVars, storeVars, manifestVars
<1>2. /\ Len(work_queue') = Len(work_queue) + 1 /\ Cardinality(Stops') = Cardinality(Stops) + 1
      /\ Cardinality(Stops) \in Nat
  BY <1>1, Known, PutCounts, CountTypes
<1>3. Busy' = Busy /\ Dead' = Dead /\ Exited' = Exited
  BY <1>1 DEF Busy, Dead, Exited
<1>4. DispatchInv'
  BY <1>1, Known, Basics DEF DispatchInv
<1>5. CtlInv' /\ ClaimedInv'
  BY <1>1, Known DEF CtlInv, ClaimedInv
<1>6. UnfinishedIsWork' /\ StopsInv' /\ JobsInv'
  <2>1. UnfinishedIsWork'
    BY <1>1, <1>2, <1>3, Known, CountTypes DEF UnfinishedIsWork
  <2>2. main = "sentinels" /\ main' = main /\ UNCHANGED <<claimed, processed, failure>>
        /\ sentinels' = sentinels - 1
    BY <1>1
  <2>3. StopsInv'
    BY <1>2, <1>3, <2>2, Numbers, SMTT(60) DEF StopsInv
  <2>4. JobsInv'
    BY <1>2, <1>3, <2>2, Numbers, SMTT(60) DEF JobsInv
  <2> QED
    BY <2>1, <2>3, <2>4
<1>7. LostInv'
  <2>1. /\ work_queue'[Len(work_queue) + 1] = None
        /\ \A i \in 1..Len(work_queue) : work_queue'[i] = work_queue[i] /\ i \in 1..Len(work_queue')
        /\ \A i \in 1..Len(work_queue') : i \in 1..Len(work_queue) \/ i = Len(work_queue) + 1
    BY <1>1, <1>2, Known, AppendFacts
  <2>2. \A i \in 1..Len(work_queue') : work_queue'[i] # None => Begun(work_queue[i])'
    BY <1>1, <2>1, Known DEF LostInv, Begun
  <2>3. Lost' \subseteq Lost \cup {}
    <3>1. \A q \in Request : Placed(q) => Placed(q)'
      BY <1>1, <2>1 DEF Placed
    <3> QED
      BY <1>1, <3>1, Known, LostShrinks
  <2> QED
    BY <1>1, <2>2, <2>3, Known DEF LostInv, Begun
<1> QED
  BY <1>4, <1>5, <1>6, <1>7 DEF Counting

-----------------------------------------------------------------------------
(* The pool.                                                               *)

\* A sentinel ends the thread that takes it.
LEMMA StopTaken ==
  ASSUME IInv, NEW t \in Thread, Get(t), Head(work_queue) = None, UNCHANGED max_jobs
  PROVE  Counting'
<1>1. /\ work_queue # <<>> /\ work_queue' = Tail(work_queue) /\ unfinished' = unfinished - 1
      /\ pool[t] = "get" /\ pool' = [pool EXCEPT ![t] = "exited"] /\ work' = work
      /\ UNCHANGED <<status, main, job, claims, claimed, sentinels, failure, processed>>
  BY DEF Get, Goto, dispatchVars, storeVars, manifestVars
<1>2. /\ Len(work_queue') = Len(work_queue) - 1 /\ Len(work_queue) > 0
      /\ Cardinality(Stops) = Cardinality(Stops') + 1 /\ Cardinality(Stops) \in Nat
      /\ Cardinality(Stops') \in Nat /\ Len(work_queue) \in Nat
  <2>1. Stops' \subseteq 1..Len(work_queue') /\ Len(work_queue') \in Nat
    BY <1>1, Known DEF Stops
  <2>2. Cardinality(Stops') \in Nat
    BY <2>1, FiniteBelow
  <2> QED
    BY <1>1, <2>2, Known, GetCounts, CountTypes
<1>3. Busy' = Busy /\ Dead' = Dead /\ Cardinality(Exited') = Cardinality(Exited) + 1
  <2>1. Busy' = Busy /\ Dead' = Dead /\ Exited' = Exited \cup {t} /\ t \notin Exited
    BY <1>1, Known DEF Busy, Dead, Exited
  <2> QED
    BY <2>1, Known, OneMore, CountTypes
<1>4. DispatchInv' /\ CtlInv' /\ ClaimedInv'
  <2>1. main \notin {"off", "start"}
    BY <1>1, Known DEF CtlInv
  <2>2. \A u \in Thread : work'[u] # None <=> pool'[u] \in AtWork
    BY <1>1, Known DEF CtlInv, AtWork
  <2> QED
    BY <1>1, <2>1, <2>2, Known DEF DispatchInv, CtlInv, ClaimedInv
<1>5. UnfinishedIsWork'
  BY <1>1, <1>2, <1>3, Known, CountTypes DEF UnfinishedIsWork
<1>6. StopsInv'
  <2>1. Cardinality(Stops') + Cardinality(Exited') = Cardinality(Stops) + Cardinality(Exited)
    BY <1>2, <1>3, Numbers
  <2>2. ~(main = "end" /\ ~failure)
    BY <1>1, Known DEF StopsInv
  <2> QED
    BY <1>1, <2>1, <2>2, Known DEF StopsInv
<1>7. JobsInv'
  <2>1. UNCHANGED <<main, claimed, processed, failure>>
    BY <1>1
  <2> QED
    BY <1>2, <1>3, <2>1, Balanced DEF JobsInv, InHand
<1>8. LostInv'
  <2>1. /\ Head(work_queue) = work_queue[1]
        /\ \A i \in 1..Len(work_queue') :
             work_queue'[i] = work_queue[i + 1] /\ i + 1 \in 1..Len(work_queue)
        /\ \A i \in 1..Len(work_queue) : i = 1 \/ (i - 1 \in 1..Len(work_queue') /\ (i - 1) + 1 = i)
    BY <1>1, <1>2, Known, TailFacts
  <2>2. \A i \in 1..Len(work_queue') : work_queue'[i] # None => Begun(work_queue[i])'
    BY <1>1, <2>1, Known DEF LostInv, Begun
  <2>3. \A q \in Request : Placed(q) => Placed(q)'
    BY <1>1, <2>1, Basics DEF Placed
  <2>4. Lost' \subseteq Lost \cup {}
    BY <1>1, <2>3, Known, LostShrinks
  <2>5. \A u \in Thread : pool'[u] = "count" => status'[work'[u]] \in Terminal
    BY <1>1, Known DEF LostInv
  <2> QED
    BY <1>1, <2>2, <2>4, <2>5, Known DEF LostInv, Begun
<1> QED
  BY <1>4, <1>5, <1>6, <1>7, <1>8 DEF Counting

LEMMA JobTaken ==
  ASSUME IInv, NEW t \in Thread, Get(t), Head(work_queue) # None, UNCHANGED max_jobs
  PROVE  Counting'
<1> DEFINE h == Head(work_queue)
<1>1. /\ work_queue # <<>> /\ work_queue' = Tail(work_queue) /\ unfinished' = unfinished
      /\ pool[t] = "get" /\ pool' = [pool EXCEPT ![t] = "prove"] /\ work' = [work EXCEPT ![t] = h]
      /\ UNCHANGED <<status, main, job, claims, claimed, sentinels, failure, processed>>
  BY DEF Get, Goto, dispatchVars, storeVars, manifestVars
<1>2. /\ Len(work_queue') = Len(work_queue) - 1 /\ Len(work_queue) > 0
      /\ Cardinality(Stops) = Cardinality(Stops') /\ Len(work_queue) \in Nat
  <2>1. Cardinality(Stops) = Cardinality(Stops') + 0
    BY <1>1, Known, GetCounts
  <2>2. Stops' \subseteq 1..Len(work_queue') /\ Len(work_queue') \in Nat
    BY <1>1, Known DEF Stops
  <2>3. Cardinality(Stops') \in Nat
    BY <2>2, FiniteBelow
  <2> QED
    BY <1>1, <2>1, <2>3, Known, GetCounts, CountTypes
<1>3. Cardinality(Busy') = Cardinality(Busy) + 1 /\ Dead' = Dead /\ Exited' = Exited
  <2>1. work[t] = None
    BY <1>1, Known DEF CtlInv, AtWork
  <2>2. Busy' = Busy \cup {t} /\ t \notin Busy /\ Dead' = Dead /\ Exited' = Exited
    BY <1>1, <2>1, Known DEF Busy, Dead, Exited
  <2> QED
    BY <2>2, Known, OneMore, CountTypes
<1>4. DispatchInv' /\ CtlInv' /\ ClaimedInv'
  <2>1. main \notin {"off", "start"}
    BY <1>1, Known DEF CtlInv
  <2>2. \A u \in Thread : work'[u] # None <=> pool'[u] \in AtWork
    BY <1>1, Known DEF CtlInv, AtWork
  <2> QED
    BY <1>1, <2>1, <2>2, Known DEF DispatchInv, CtlInv, ClaimedInv
<1>5. UnfinishedIsWork'
  BY <1>1, <1>2, <1>3, Known, CountTypes DEF UnfinishedIsWork
<1>6. StopsInv'
  <2>1. ~(main = "end" /\ ~failure)
    BY <1>1, Known DEF StopsInv
  <2> QED
    BY <1>1, <1>2, <1>3, <2>1, Known DEF StopsInv
<1>7. JobsInv'
  <2>1. UNCHANGED <<main, claimed, processed, failure>>
    BY <1>1
  <2> QED
    BY <1>2, <1>3, <2>1, Balanced DEF JobsInv, InHand
<1>8. LostInv'
  <2>1. /\ h = work_queue[1] /\ 1 \in 1..Len(work_queue)
        /\ \A i \in 1..Len(work_queue') :
             work_queue'[i] = work_queue[i + 1] /\ i + 1 \in 1..Len(work_queue)
        /\ \A i \in 1..Len(work_queue) : i = 1 \/ (i - 1 \in 1..Len(work_queue') /\ (i - 1) + 1 = i)
    BY <1>1, <1>2, Known, TailFacts
  <2>2. \A i \in 1..Len(work_queue') : work_queue'[i] # None => Begun(work_queue[i])'
    BY <1>1, <2>1, Known DEF LostInv, Begun
  <2>3. \A u \in Thread : work'[u] # None => Begun(work[u])'
    BY <1>1, <2>1, Known DEF LostInv, Begun
  <2>4. \A q \in Request : Placed(q) => Placed(q)'
    <3>1. work'[t] = h /\ \A u \in Thread : u # t => work'[u] = work[u]
      BY <1>1, Known
    <3>2. work[t] = None
      BY <1>1, Known DEF CtlInv, AtWork
    <3> SUFFICES ASSUME NEW q \in Request, Placed(q) PROVE Placed(q)'
      OBVIOUS
    <3>3. CASE job = q
      BY <1>1, <3>3 DEF Placed
    <3>4. ASSUME NEW i \in 1..Len(work_queue), work_queue[i] = q PROVE Placed(q)'
      BY <1>1, <2>1, <3>1, <3>4 DEF Placed
    <3>5. ASSUME NEW u \in Thread, work[u] = q PROVE Placed(q)'
      BY <3>1, <3>2, <3>5, Basics DEF Placed
    <3> QED
      BY <3>3, <3>4, <3>5 DEF Placed
  <2>5. Lost' \subseteq Lost \cup {}
    BY <1>1, <2>4, Known, LostShrinks
  <2>6. \A u \in Thread : pool'[u] = "count" => status'[work'[u]] \in Terminal
    BY <1>1, Known DEF LostInv
  <2> QED
    BY <1>1, <2>2, <2>3, <2>5, <2>6, Known DEF LostInv, Begun
<1> QED
  BY <1>4, <1>5, <1>6, <1>7, <1>8 DEF Counting

\* What a thread that is at work does to the status of its job.
Serves(t) ==
  \/ status' = status
  \/ pool[t] \in {"ready", "failed", "guard"} /\ (Call(work[t], "ready") \/ Call(work[t], "failed"))

LEMMA ServesWell ==
  ASSUME IInv, NEW t \in Thread, pool[t] \in AtWork, Serves(t)
  PROVE  /\ work[t] \in Request
         /\ \A q \in Request : status[q] \in Terminal => status'[q] \in Terminal
         /\ \A q \in Request : Begun(q) => Begun(q)'
         /\ status' # status => status'[work[t]] \in Terminal
<1>1. work[t] \in Request /\ Begun(work[t])
  BY Known DEF CtlInv, LostInv
<1>2. CASE status' = status
  BY <1>1, <1>2 DEF Begun
<1>3. ASSUME NEW s \in {"ready", "failed"}, Call(work[t], s)
      PROVE  /\ \A q \in Request : status[q] \in Terminal => status'[q] \in Terminal
             /\ \A q \in Request : Begun(q) => status'[q] \in {"pending"} \cup Terminal
             /\ status'[work[t]] \in Terminal
  <2>1. s \in {"pending", "ready", "failed"} /\ s # "pending"
    BY <1>3
  <2> QED
    BY <1>1, <1>3, <2>1, Known, CallFinishes
<1> QED
  BY <1>1, <1>2, <1>3 DEF Serves, Begun

\* A thread goes on with the job it has.
LEMMA GoesOn ==
  ASSUME IInv, NEW t \in Thread, NEW p \in AtWork, pool[t] \in AtWork, Serves(t),
         pool' = [pool EXCEPT ![t] = p], p = "count" => status'[work[t]] \in Terminal,
         UNCHANGED <<work_queue, unfinished, work, processed, main, job, claims, claimed,
                     sentinels, failure, max_jobs>>
  PROVE  Counting'
<1>1. Busy' = Busy /\ Stops' = Stops /\ Dead' = Dead /\ Exited' = Exited
  BY Known DEF Busy, Stops, Dead, Exited, AtWork
<1>2. DispatchInv' /\ CtlInv' /\ ClaimedInv'
  <2>1. main \notin {"off", "start"}
    BY Known DEF CtlInv, AtWork
  <2>2. \A u \in Thread : work'[u] # None <=> pool'[u] \in AtWork
    BY Known DEF CtlInv
  <2> QED
    BY <2>1, <2>2, Known DEF DispatchInv, CtlInv, ClaimedInv
<1>3. UnfinishedIsWork' /\ JobsInv'
  BY <1>1, Known DEF UnfinishedIsWork, JobsInv
<1>4. StopsInv'
  <2>1. ~(main = "end" /\ ~failure)
    BY Known DEF StopsInv, AtWork
  <2> QED
    BY <1>1, <2>1, Known DEF StopsInv
<1>5. LostInv'
  <2>1. /\ work[t] \in Request
        /\ \A q \in Request : status[q] \in Terminal => status'[q] \in Terminal
        /\ \A q \in Request : Begun(q) => Begun(q)'
    BY ServesWell
  <2>2. Lost' \subseteq Lost \cup {}
    BY <2>1, Known, LostShrinks DEF Placed
  <2>3. /\ main' = "put" => Begun(job)'
        /\ \A i \in 1..Len(work_queue') : work_queue'[i] # None => Begun(work_queue[i])'
        /\ \A u \in Thread : work'[u] # None => Begun(work[u])'
    <3>1. main = "put" => job \in Request
      BY Known DEF CtlInv, DispatchInv
    <3>2. \A i \in 1..Len(work_queue) : work_queue[i] \in Request \cup {None}
      BY Known
    <3> QED
      BY <2>1, <3>1, <3>2, Known DEF LostInv, Begun
  <2>4. \A u \in Thread : pool'[u] = "count" => status'[work'[u]] \in Terminal
    <3> SUFFICES ASSUME NEW u \in Thread, pool'[u] = "count" PROVE status'[work[u]] \in Terminal
      OBVIOUS
    <3>1. CASE u = t
      BY <3>1, Known
    <3>2. CASE u # t
      <4>1. pool[u] = "count" /\ work[u] \in Request
        BY <3>2, Known DEF CtlInv, AtWork
      <4> QED
        BY <2>1, <4>1, Known DEF LostInv
    <3> QED
      BY <3>1, <3>2
  <2> QED
    BY <2>2, <2>3, <2>4, Known DEF LostInv
<1> QED
  BY <1>2, <1>3, <1>4, <1>5 DEF Counting

\* A thread puts down its job, which is done: it counts it, or dies.
LEMMA PutsDown ==
  ASSUME IInv, NEW t \in Thread, pool[t] \in AtWork, Serves(t), status'[work[t]] \in Terminal,
         work' = [work EXCEPT ![t] = None], unfinished' = unfinished - 1,
         \/ pool' = [pool EXCEPT ![t] = "get"] /\ processed' = processed + 1
         \/ pool' = [pool EXCEPT ![t] = "dead"] /\ processed' = processed,
         UNCHANGED <<work_queue, main, job, claims, claimed, sentinels, failure, max_jobs>>
  PROVE  Counting'
<1>1. Stops' = Stops /\ Exited' = Exited
  BY Known DEF Stops, Exited, AtWork
<1>2. t \in Busy /\ Busy' = Busy \ {t}
  BY Known DEF Busy, CtlInv
<1>3. Cardinality(Busy') = Cardinality(Busy) - 1
  BY <1>2, Known, CountTypes, OneFewer
<1>4. \/ pool'[t] = "get" /\ processed' = processed + 1 /\ Cardinality(Dead') = Cardinality(Dead)
      \/ pool'[t] = "dead" /\ processed' = processed /\ Cardinality(Dead') = Cardinality(Dead) + 1
  <2>1. CASE pool' = [pool EXCEPT ![t] = "get"] /\ processed' = processed + 1
    <3>1. Dead' = Dead /\ pool'[t] = "get"
      BY <2>1, Known DEF Dead, AtWork
    <3> QED
      BY <2>1, <3>1
  <2>2. CASE pool' = [pool EXCEPT ![t] = "dead"] /\ processed' = processed
    <3>1. Dead' = Dead \cup {t} /\ t \notin Dead /\ pool'[t] = "dead"
      BY <2>2, Known DEF Dead, AtWork
    <3> QED
      BY <2>2, <3>1, Known, CountTypes, OneMore
  <2> QED
    BY <2>1, <2>2
<1>5. DispatchInv' /\ CtlInv' /\ ClaimedInv'
  <2>1. main \notin {"off", "start"}
    BY Known DEF CtlInv, AtWork
  <2>2. \A u \in Thread : work'[u] # None <=> pool'[u] \in AtWork
    BY <1>4, Known DEF CtlInv, AtWork
  <2>3. processed' \in Nat
    BY <1>4, Numbers
  <2> QED
    BY <2>1, <2>2, <2>3, Known DEF DispatchInv, CtlInv, ClaimedInv
<1>6. UnfinishedIsWork'
  BY <1>3, Numbers DEF UnfinishedIsWork
<1>7. JobsInv'
  BY <1>1, <1>3, <1>4, Balanced DEF JobsInv, InHand
<1>8. StopsInv'
  <2>1. ~(main = "end" /\ ~failure)
    BY Known DEF StopsInv, AtWork
  <2> QED
    BY <1>1, <2>1, Known DEF StopsInv
<1>9. LostInv'
  <2>1. /\ work[t] \in Request
        /\ \A q \in Request : status[q] \in Terminal => status'[q] \in Terminal
        /\ \A q \in Request : Begun(q) => Begun(q)'
    BY ServesWell
  <2>2. Lost' \subseteq Lost \cup {}
    <3>1. \A q \in Request : Placed(q) => Placed(q)' \/ status'[q] \in Terminal
      <4>1. \A u \in Thread : u # t => work'[u] = work[u]
        BY Known
      <4> QED
        BY <4>1 DEF Placed
    <3> QED
      BY <2>1, <3>1, Known, LostShrinks
  <2>3. /\ main' = "put" => Begun(job)'
        /\ \A i \in 1..Len(work_queue') : work_queue'[i] # None => Begun(work_queue[i])'
        /\ \A u \in Thread : work'[u] # None => Begun(work[u])'
    <3>1. main = "put" => job \in Request
      BY Known DEF CtlInv, DispatchInv
    <3>2. \A i \in 1..Len(work_queue) : work_queue[i] \in Request \cup {None}
      BY Known
    <3>3. \A u \in Thread : work'[u] # None => work'[u] = work[u] /\ work[u] \in Request
      BY Known
    <3> QED
      BY <2>1, <3>1, <3>2, <3>3, Known DEF LostInv, Begun
  <2>4. \A u \in Thread : pool'[u] = "count" => status'[work'[u]] \in Terminal
    <3> SUFFICES ASSUME NEW u \in Thread, pool'[u] = "count" PROVE status'[work'[u]] \in Terminal
      OBVIOUS
    <3>1. u # t
      BY <1>4
    <3>2. pool[u] = "count" /\ work'[u] = work[u] /\ work[u] \in Request
      BY <1>4, <3>1, Known DEF CtlInv, AtWork
    <3> QED
      BY <2>1, <3>2, Known DEF LostInv
  <2> QED
    BY <2>2, <2>3, <2>4, Known DEF LostInv
<1> QED
  BY <1>5, <1>6, <1>7, <1>8, <1>9 DEF Counting

LEMMA PoolCounted ==
  ASSUME IInv, NEW t \in Thread, ThreadStep(t), UNCHANGED max_jobs
  PROVE  Counting'
<1>1. CASE Get(t)
  BY <1>1, StopTaken, JobTaken
<1>2. CASE Prove(t)
  <2>1. PICK p \in {"ready", "failed"} : pool[t] = "prove" /\ pool' = [pool EXCEPT ![t] = p]
    BY <1>2 DEF Prove, Goto
  <2>2. UNCHANGED <<work_queue, unfinished, work, processed, main, job, claims, claimed,
                    sentinels, failure, status>>
    BY <1>2 DEF Prove, dispatchVars, queueVars, storeVars, manifestVars
  <2> QED
    BY <2>1, <2>2, GoesOn DEF AtWork, Serves
<1>3. CASE SetReady(t) \/ SetFailed(t)
  <2>1. UNCHANGED <<work_queue, unfinished, work, processed, main, job, claims, claimed,
                    sentinels, failure>>
    BY <1>3 DEF SetReady, SetFailed, dispatchVars, queueVars, manifestVars
  <2>2. work[t] \in Request /\ pool[t] \in {"ready", "failed"}
    <3>1. pool[t] \in {"ready", "failed"}
      BY <1>3 DEF SetReady, SetFailed, Goto
    <3> QED
      BY <3>1, Known DEF CtlInv, AtWork
  <2>3. PICK p \in {"count", "failed", "guard"} :
          /\ pool' = [pool EXCEPT ![t] = p]
          /\ p = "count" => Set(work[t], "ready") \/ Set(work[t], "failed")
          /\ Call(work[t], "ready") \/ Call(work[t], "failed")
    BY <1>3 DEF SetReady, SetFailed, Goto, Call
  <2>4. p = "count" => status'[work[t]] \in Terminal
    BY <2>2, <2>3, Known DEF Set, Terminal, Active, Status
  <2> QED
    BY <2>1, <2>2, <2>3, <2>4, GoesOn DEF AtWork, Serves
<1>4. CASE Guard(t)
  <2>1. /\ pool[t] = "guard" /\ Call(work[t], "failed")
        /\ UNCHANGED <<work_queue, processed, main, job, claims, claimed, sentinels, failure>>
    BY <1>4 DEF Guard, Goto, Call, dispatchVars, manifestVars
  <2>2. work[t] \in Request /\ Begun(work[t]) /\ pool[t] \in AtWork /\ Serves(t)
    BY <2>1, Known DEF CtlInv, LostInv, AtWork, Serves
  <2>3. status'[work[t]] \in Terminal
    BY <2>1, <2>2, Known, CallFinishes
  <2>4. \/ pool' = [pool EXCEPT ![t] = "count"] /\ UNCHANGED <<work, unfinished>>
        \/ /\ pool' = [pool EXCEPT ![t] = "dead"]
           /\ work' = [work EXCEPT ![t] = None] /\ unfinished' = unfinished - 1
    BY <1>4 DEF Guard, Goto
  <2> QED
    BY <2>1, <2>2, <2>3, <2>4, GoesOn, PutsDown DEF AtWork
<1>5. CASE Count(t)
  <2>1. /\ pool[t] = "count" /\ pool' = [pool EXCEPT ![t] = "get"] /\ processed' = processed + 1
        /\ work' = [work EXCEPT ![t] = None] /\ unfinished' = unfinished - 1
        /\ UNCHANGED <<work_queue, main, job, claims, claimed, sentinels, failure, status>>
    BY <1>5 DEF Count, Goto, dispatchVars, storeVars, manifestVars
  <2>2. pool[t] \in AtWork /\ Serves(t) /\ status'[work[t]] \in Terminal
    BY <2>1, Known DEF LostInv, AtWork, Serves
  <2> QED
    BY <2>1, <2>2, PutsDown
<1> QED
  BY <1>1, <1>2, <1>3, <1>4, <1>5 DEF ThreadStep

-----------------------------------------------------------------------------
(* The whole case, counted.                                                *)

LEMMA WorkCounted == ASSUME IInv, Work PROVE Counting' /\ PostedInv'
<1>1. Counting'
  <2>1. UNCHANGED max_jobs
    BY DEF Work, WorkerStep
  <2>2. CASE Dispatch \/ Interrupt
    BY <2>1, <2>2, StartCounted, EnoughCounted, ClaimCounted, RaisesCounted, MarkCounted, PutCounted,
       StopCounted, LastStopCounted, JoinCounted, InterruptCounted
    DEF Dispatch
  <2>3. ASSUME NEW t \in Thread, ThreadStep(t) PROVE Counting'
    BY <2>1, <2>3, PoolCounted
  <2> QED
    BY <2>2, <2>3 DEF Work, WorkerStep
<1>2. PostedInv'
  <2>1. UNCHANGED <<post, max_jobs>>
    BY DEF Work, WorkerStep, postVars
  <2>2. main # "off"
    <3>1. CASE Dispatch \/ Interrupt
      BY <3>1 DEF Dispatch, Interrupt, StartPool, StartPoolFails, EnoughClaimed, Claim, ClaimRaises,
                  MarkPending, PutJob, PutSentinel, Join
    <3>2. ASSUME NEW t \in Thread, ThreadStep(t) PROVE main # "off"
      <4>1. pool[t] # "unstarted"
        BY <3>2
        DEF ThreadStep, Get, Prove, SetReady, SetFailed, Guard, Count, Goto
      <4> QED
        BY <4>1, Known DEF CtlInv
    <3> QED
      BY <3>1, <3>2 DEF Work, WorkerStep
  <2>3. Answered' = Answered /\ \A r \in Request : Posted(r) => Posted(r)'
    BY <2>1 DEF Answered, Posted
  <2> QED
    BY <2>1, <2>2, <2>3 DEF IInv, PostedInv
<1> QED
  BY <1>1, <1>2

\* While requests are posted the worker has not been started.
LEMMA ProduceCounted ==
  ASSUME IInv, NEW r \in Request, Produce(r)
  PROVE  Counting' /\ PostedInv'
<1>1. /\ claims' = claims
      /\ UNCHANGED <<main, job, claimed, sentinels, failure, work_queue, unfinished, pool, work,
                     processed, max_jobs>>
  BY PostEffect DEF Produce, IInv, workerVars, dispatchVars, queueVars, poolVars
<1>2. main = "off"
  <2>1. ~Posted(r)
    BY DEF Produce, PostStep, Accept, PersistWitness, AppendJob, SetQueued, AnnotateQueued,
           SetDropped, SetNotSampled, AnnotateLast, SetGauges, Step, Posted
  <2> QED
    BY <2>1 DEF IInv, PostedInv
<1>3. /\ work_queue = <<>> /\ claims = <<>>
      /\ \A t \in Thread : pool[t] = "unstarted" /\ work[t] = None
  BY <1>2, Known DEF CtlInv, AtWork
<1>4. DispatchInv' /\ CtlInv' /\ ClaimedInv'
  BY <1>1, Known DEF DispatchInv, CtlInv, ClaimedInv
<1>5. UnfinishedIsWork' /\ StopsInv' /\ JobsInv'
  BY <1>1, Known, Still DEF UnfinishedIsWork, StopsInv, JobsInv
<1>6. LostInv'
  <2>1. Lost' = {}
    BY <1>1, <1>3 DEF Lost, Ids
  <2> QED
    BY <1>1, <1>2, <1>3, <2>1 DEF LostInv
<1>7. PostedInv'
  BY <1>1, <1>2 DEF IInv, PostedInv
<1> QED
  BY <1>4, <1>5, <1>6, <1>7 DEF Counting

LEMMA StartRunCounted == ASSUME IInv, StartRun PROVE Counting' /\ PostedInv'
<1>1. /\ main = "off" /\ main' = "start" /\ max_jobs' = Cardinality(Answered)
      /\ \A r \in Request : Posted(r)
      /\ UNCHANGED <<job, claimed, sentinels, failure, work_queue, unfinished, pool, work,
                     processed, claims, status, post>>
  BY DEF StartRun, queueVars, poolVars, storeVars, manifestVars, postVars
<1>2. DispatchInv' /\ CtlInv'
  BY <1>1, Known DEF DispatchInv, CtlInv
<1>3. ClaimedInv'
  BY <1>1, Known DEF ClaimedInv
<1>4. StopsInv' /\ JobsInv'
  BY <1>1, Known, Still DEF StopsInv, JobsInv
<1>5. UnfinishedIsWork' /\ LostInv'
  BY <1>1, MovesOn
<1>6. PostedInv'
  <2>1. Answered' = Answered /\ \A r \in Request : Posted(r)'
    BY <1>1 DEF Answered, Posted
  <2>2. Cardinality(Answered) \in Nat
    BY CaseAssumption, FS_Subset, FS_CardinalityType DEF Answered
  <2> QED
    BY <1>1, <2>1, <2>2 DEF PostedInv
<1> QED
  BY <1>2, <1>3, <1>4, <1>5, <1>6 DEF Counting

\* The end of the child and what the parent does leave the run as it is.
LEMMA StillCounted == ASSUME IInv, UNCHANGED serveVars PROVE Counting' /\ PostedInv'
<1>1. UNCHANGED <<main, job, claimed, sentinels, failure, work_queue, unfinished, pool, work,
                  processed, claims, status, post, max_jobs>>
  BY DEF serveVars, storeVars, manifestVars, postVars, workerVars, dispatchVars, queueVars, poolVars
<1>2. DispatchInv' /\ CtlInv' /\ ClaimedInv'
  BY <1>1, Known DEF DispatchInv, CtlInv, ClaimedInv
<1>3. StopsInv' /\ JobsInv'
  BY <1>1, Known, Still DEF StopsInv, JobsInv
<1>4. UnfinishedIsWork' /\ LostInv'
  BY <1>1, MovesOn
<1>5. PostedInv'
  <2>1. Answered' = Answered /\ \A r \in Request : Posted(r) => Posted(r)'
    BY <1>1 DEF Answered, Posted
  <2> QED
    BY <1>1, <2>1 DEF IInv, PostedInv
<1> QED
  BY <1>2, <1>3, <1>4, <1>5 DEF Counting

LEMMA InitInv == Init => IInv
<1> SUFFICES ASSUME Init PROVE IInv
  OBVIOUS
<1>1. /\ main = "off" /\ job = None /\ claimed = 0 /\ sentinels = 0 /\ failure = FALSE
      /\ work_queue = <<>> /\ unfinished = 0 /\ processed = 0 /\ claims = <<>> /\ max_jobs = 0
      /\ \A t \in Thread : pool[t] = "unstarted" /\ work[t] = None
  BY DEF Init, WorkerInit
<1>2. Busy = {} /\ Dead = {} /\ Exited = {} /\ Stops = {} /\ Lost = {} /\ Len(work_queue) = 0
      /\ Len(claims) = 0
  BY <1>1 DEF Busy, Dead, Exited, Stops, Lost, Ids
<1>3. DispatchInv
  <2>1. failure \in BOOLEAN
    BY <1>1
  <2> QED
    BY <1>1, <2>1, Basics DEF DispatchInv
<1>4. CtlInv /\ ClaimedInv
  BY <1>1, <1>2 DEF CtlInv, ClaimedInv, AtWork
<1>5. UnfinishedIsWork /\ StopsInv /\ JobsInv
  BY <1>1, <1>2, FS_EmptySet DEF UnfinishedIsWork, StopsInv, JobsInv
<1>6. LostInv /\ PostedInv
  BY <1>1, <1>2 DEF LostInv, PostedInv
<1> QED
  BY <1>3, <1>4, <1>5, <1>6, InitCore DEF IInv, Counting

LEMMA StepInv == IInv /\ [Next]_vars => IInv'
<1> SUFFICES ASSUME IInv, [Next]_vars PROVE IInv'
  OBVIOUS
<1>1. Core'
  BY StepCore DEF IInv
<1>2. CASE ChildReturns \/ ChildRaises \/ Timeout \/ Collect \/ UNCHANGED vars
  BY <1>1, <1>2, StillCounted DEF ChildReturns, ChildRaises, Timeout, Collect, vars, IInv
<1> QED
  BY <1>1, <1>2, WorkCounted, ProduceCounted, StartRunCounted DEF Next, IInv

-----------------------------------------------------------------------------
(* Theorems.                                                               *)

\* The inductive invariant of the case.
THEOREM Invariance == Spec => []IInv
BY InitInv, StepInv, PTL DEF Spec

\* A receipt that says queued has its job in the manifest, once (server.py:144).
THEOREM QueuedBacked == Spec => []QueuedHasJob
<1>1. IInv => QueuedHasJob
  <2> SUFFICES ASSUME IInv, NEW r \in Request, hint[r] = "queued"
               PROVE  \E i \in 1..Len(rows) : \A k \in 1..Len(rows) : rows[k] = r <=> k = i
    BY DEF QueuedHasJob
  <2>1. PICK i \in 1..Len(rows) : rows[i] = r
    BY DEF IInv, Core, PostInv, PostOf, Ids
  <2> QED
    BY <2>1 DEF IInv, Core, InOrder
<1> QED
  BY <1>1, Invariance, PTL

\* A request that post_infer gave up on without a job has a terminal status.
THEOREM UnenqueuedEnds == Spec => []UnenqueuedIsTerminal
<1>1. IInv => UnenqueuedIsTerminal
  BY DEF IInv, Core, PostInv, PostOf, UnenqueuedIsTerminal
<1> QED
  BY <1>1, Invariance, PTL

\* Jobs that go in by post_infer and out by run are handed over once and in order,
\* whatever fails between: the case implements JobHandoff.
THEOREM Implementation == Spec => PipelineHandoff
<1>1. Init => Handoff!Init
  BY DEF Init, Handoff!Init
<1>2. IInv /\ [Next]_vars => [Handoff!Next]_<<rows, claims>>
  <2> SUFFICES ASSUME IInv, [Next]_vars PROVE Handoff!Next \/ UNCHANGED <<rows, claims>>
    OBVIOUS
  <2>1. ASSUME NEW r \in Request, Produce(r) PROVE Handoff!Next \/ UNCHANGED <<rows, claims>>
    <3>1. /\ claims' = claims
          /\ rows' = rows \/ (r \notin Ids(rows) /\ rows' = Append(rows, r))
      BY <2>1, PostEffect DEF Produce, IInv
    <3> QED
      BY <3>1 DEF Handoff!Next, Handoff!Put, Ids
  <2>2. CASE Work
    <3>1. RunEffect
      BY <2>2, DispatchEffect, PoolEffect DEF Work, WorkerStep, IInv
    <3>2. Unclaimed # {} => Len(claims) < Len(rows) /\ Oldest = rows[Len(claims) + 1]
      BY OldestIsNext DEF IInv, Core, TypeInv
    <3> QED
      BY <3>1, <3>2 DEF RunEffect, Handoff!Next, Handoff!Take
  <2>3. CASE StartRun \/ ChildReturns \/ ChildRaises \/ Timeout \/ Collect \/ UNCHANGED vars
    BY <2>3
    DEF StartRun, ChildReturns, ChildRaises, Timeout, Collect, vars, serveVars, manifestVars
  <2> QED
    BY <2>1, <2>2, <2>3 DEF Next
<1> QED
  BY <1>1, <1>2, Invariance, PTL DEF Spec, PipelineHandoff, Handoff!Spec

\* No summary counts more proofs than the records show (phase4b_bounded_peft.py:567).
THEOREM CountedAreProved == Spec => []NoProofInvented
<1>1. IInv => NoProofInvented
  <2> SUFFICES ASSUME IInv PROVE result.ready <= Counted(status, Request, "ready")
    BY DEF NoProofInvented
  <2> DEFINE All == {r \in Request : status[r] = "ready"}
             Own == {r \in Answered : status[r] = "ready"}
             Kept == {r \in Request : durable[r] = "ready"}
  <2>1. IsFiniteSet(All)
    BY CaseAssumption, FS_Subset
  <2>2. Own \subseteq All /\ Kept \subseteq All
    BY DEF IInv, Core, ReadyInv, Answered
  <2>3. /\ Cardinality(All) \in Nat /\ Cardinality(Own) <= Cardinality(All)
        /\ Cardinality(Kept) <= Cardinality(All)
    BY <2>1, <2>2, FS_CardinalityType, FS_Subset
  <2>4. result.ready \in {0, Cardinality(Own), Cardinality(Kept)}
    BY DEF IInv, Core, SummaryInv, NoResult, FailedFast, CaseResult, PartialResult, Counted
  <2> QED
    BY <2>3, <2>4 DEF Counted
<1> QED
  BY <1>1, Invariance, PTL

\* Confidence in a case is earned by every proof it counts (bench/README.md:322).
THEOREM TrustEarned == Spec => []TrustIsEarned
<1>1. ASSUME NEW D \in SUBSET Routings, Confidence(D) = "high"
      PROVE  D # {} /\ \A d \in D : d = OnGpu
  BY <1>1, RoutingAssumption DEF Confidence, Routings, Resolve, OnGpu, OnCpu, FellBack
<1>2. IInv => TrustIsEarned
  <2> SUFFICES ASSUME IInv PROVE TrustIsEarned
    OBVIOUS
  <2>1. CASE result = PartialResult
    <3>1. result.status = "timed_out" /\ result.trust = Confidence(Routed(durable, Request))
      BY <2>1 DEF PartialResult
    <3>2. Routed(durable, Request) \in SUBSET Routings /\ DOMAIN durable = Request
      BY DEF IInv, Core, TypeInv, ReadyInv, Routed
    <3> QED
      BY <1>1, <3>1, <3>2 DEF TrustIsEarned, Routed
  <2>2. CASE result = CaseResult
    <3>1. result.status # "timed_out" /\ result.trust = Confidence(Routed(status, Answered))
      BY <2>2 DEF CaseResult, Classify
    <3>2. Routed(status, Answered) \in SUBSET Routings
      BY DEF IInv, Core, ReadyInv, Routed, Answered
    <3> QED
      BY <1>1, <3>1, <3>2 DEF TrustIsEarned, Routed
  <2>3. CASE result \in {NoResult, FailedFast}
    <3>1. result.status # "timed_out" /\ result.trust = Confidence({})
      BY <2>3 DEF NoResult, FailedFast
    <3>2. result.trust # "high"
      BY <1>1, <3>1
    <3> QED
      BY <3>2 DEF TrustIsEarned
  <2> QED
    BY <2>1, <2>2, <2>3 DEF IInv, Core, SummaryInv
<1> QED
  BY <1>2, Invariance, PTL
\* When run returns, it has processed what it claimed and every thread has ended
\* (prover_worker.py:201).
THEOREM AllProcessed == Spec => []ReturnsProcessed
<1>1. IInv => ReturnsProcessed
  <2> SUFFICES ASSUME IInv, main = "end", ~failure
               PROVE  /\ processed = claimed
                      /\ work_queue = <<>> /\ \A t \in Thread : pool[t] = "exited"
    BY DEF ReturnsProcessed
  <2>1. work_queue = <<>> /\ Busy = {} /\ \A t \in Thread : pool[t] = "exited"
    BY Known DEF StopsInv
  <2>2. Busy = {} /\ Dead = {} /\ Stops = {} /\ Len(work_queue) = 0
    BY <2>1 DEF Dead, Stops
  <2>3. processed = claimed
    BY <2>2, Numbers, FS_EmptySet DEF JobsInv
  <2> QED
    BY <2>1, <2>3
<1> QED
  BY <1>1, Invariance, PTL

\* A run that does well loses no claimed job, one that fails at most the one in its
\* hand (prover_worker.py:180).
THEOREM LostAtMostOne == Spec => []AtMostOneLost
<1>1. IInv => AtMostOneLost
  <2> SUFFICES ASSUME IInv PROVE AtMostOneLost
    OBVIOUS
  <2>1. CASE Lost = {}
    BY <2>1, FS_EmptySet DEF AtMostOneLost
  <2>2. ASSUME NEW r \in Lost PROVE AtMostOneLost
    <3>1. failure /\ Lost = {r}
      BY <2>2, Known DEF LostInv
    <3> QED
      BY <3>1, FS_Singleton DEF AtMostOneLost
  <2> QED
    BY <2>1, <2>2
<1> QED
  BY <1>1, Invariance, PTL

\* The claims are distinct jobs.
LEMMA ClaimsDistinct ==
  ASSUME IInv
  PROVE  Ids(claims) \subseteq Request /\ Cardinality(Ids(claims)) = Len(claims)
<1> DEFINE n == Len(claims)
           at == [i \in 1..n |-> claims[i]]
<1>1. n \in Nat /\ Len(rows) \in Nat /\ n <= Len(rows) /\ \A i \in 1..n : claims[i] = rows[i]
  BY Known DEF IInv, Core, InOrder
<1>2. \A i, k \in 1..n : claims[i] = claims[k] => i = k
  <2>1. \A i \in 1..n : i \in 1..Len(rows)
    BY <1>1
  <2> QED
    BY <1>1, <2>1 DEF IInv, Core, InOrder
<1>3. at \in Bijection(1..n, Ids(claims))
  BY <1>2 DEF Ids, Bijection, Injection, Surjection, IsInjective
<1>4. Cardinality(Ids(claims)) = n
  BY <1>1, <1>3, FS_CountingElements DEF ExistsBijection
<1>5. \A i \in 1..n : claims[i] \in Request
  BY Known
<1>6. Ids(claims) \subseteq Request
  BY <1>5 DEF Ids
<1> QED
  BY <1>4, <1>6

\* When run has returned, what it has claimed has a terminal status.
LEMMA ClaimedIsTerminal ==
  ASSUME IInv, main = "end", ~failure, NEW r \in Ids(claims)
  PROVE  status[r] \in Terminal
<1>1. r \in Request
  BY ClaimsDistinct
<1>2. job = None /\ work_queue = <<>> /\ Busy = {}
  BY Known DEF CtlInv, StopsInv
<1>3. ~Placed(r)
  BY <1>1, <1>2, Basics DEF Placed, Busy
<1>4. r \notin Lost
  BY Known DEF LostInv
<1> QED
  BY <1>1, <1>3, <1>4, PlacedIs DEF Lost

\* A completed case in which every request was answered left none of them without
\* a terminal status (bench/README.md:405).
THEOREM CompletedIsDone == Spec => []CompletedMeansDone
<1>1. IInv => CompletedMeansDone
  <2> SUFFICES ASSUME IInv, result.status = "completed"
               PROVE  /\ Answered # {}
                      /\ Answered = Request => \A r \in Request : status[r] \in Terminal
    BY DEF CompletedMeansDone
  <2>1. main = "end" /\ ~failure
    <3>1. result # NoResult /\ result # PartialResult /\ result # FailedFast
      BY DEF NoResult, PartialResult, FailedFast
    <3> QED
      BY <3>1 DEF IInv, Core, SummaryInv
  <2>2. max_jobs > 0 /\ Len(claims) >= max_jobs /\ max_jobs = Cardinality(Answered)
    <3>1. max_jobs > 0 /\ claimed >= max_jobs /\ Len(claims) = claimed + 0
      BY <2>1, Known DEF ClaimedInv
    <3> QED
      BY <2>1, <3>1, Numbers DEF IInv, PostedInv
  <2>3. Answered # {}
    BY <2>2, FS_EmptySet
  <2>4. ASSUME Answered = Request, NEW r \in Request PROVE status[r] \in Terminal
    <3>1. Ids(claims) = Request
      <4>1. /\ Cardinality(Ids(claims)) <= Cardinality(Request)
            /\ Cardinality(Request) \in Nat /\ Cardinality(Ids(claims)) \in Nat
        BY CaseAssumption, ClaimsDistinct, FS_Subset, FS_CardinalityType
      <4>2. Cardinality(Ids(claims)) = Cardinality(Request)
        BY <2>2, <2>4, <4>1, ClaimsDistinct
      <4> QED
        BY <4>2, CaseAssumption, ClaimsDistinct, FS_Subset
    <3> QED
      BY <2>1, <2>4, <3>1, ClaimedIsTerminal
  <2> QED
    BY <2>3, <2>4
<1> QED
  BY <1>1, Invariance, PTL

\* A completed case leaves no more answered requests without a terminal status
\* than jobs of requests that were not answered have taken turns from them
\* (phase4b_bounded_peft.py:410), for any requests, pool and failures.
THEOREM LeftAreCounted == Spec => []LeftAreTurnsTaken
<1>1. IInv => LeftAreTurnsTaken
  <2> DEFINE A == Answered
             C == Ids(claims)
             Left == {r \in Answered : status[r] \notin Terminal}
             Others == Ids(rows) \ Answered
  <2> SUFFICES ASSUME IInv, result.status = "completed"
               PROVE  Cardinality(Left) <= Cardinality(Others)
    BY DEF LeftAreTurnsTaken
  <2>1. main = "end" /\ ~failure
    <3>1. result # NoResult /\ result # PartialResult /\ result # FailedFast
      BY DEF NoResult, PartialResult, FailedFast
    <3> QED
      BY <3>1 DEF IInv, Core, SummaryInv
  <2>2. Cardinality(C) >= Cardinality(A)
    <3>1. max_jobs > 0 /\ claimed >= max_jobs /\ Len(claims) = claimed + 0
      BY <2>1, Known DEF ClaimedInv
    <3>2. Len(claims) >= max_jobs /\ max_jobs = Cardinality(Answered)
      BY <2>1, <3>1, Numbers DEF IInv, PostedInv
    <3> QED
      BY <3>2, ClaimsDistinct
  <2>3. Left \subseteq A \ C
    BY <2>1, ClaimedIsTerminal
  <2>4. C \ A \subseteq Others
    <3>1. /\ Len(claims) \in Nat /\ Len(rows) \in Nat /\ Len(claims) <= Len(rows)
          /\ \A i \in 1..Len(claims) : claims[i] = rows[i]
      BY Known DEF IInv, Core, InOrder
    <3>2. Ids(claims) \subseteq Ids(rows)
      BY <3>1 DEF Ids
    <3> QED
      BY <3>2
  <2>5. A \in SUBSET Request /\ C \in SUBSET Request /\ Others \in SUBSET Request
    <3>1. Ids(rows) \subseteq Request
      BY Known DEF Ids
    <3> QED
      BY <3>1, ClaimsDistinct DEF Answered
  <2> HIDE DEF A, C, Left, Others
  <2>6. IsFiniteSet(A) /\ IsFiniteSet(C) /\ IsFiniteSet(Others)
    BY <2>5, CaseAssumption, FS_Subset
  <2>7. /\ Cardinality(A) \in Nat /\ Cardinality(C) \in Nat
        /\ Cardinality(A \cap C) \in Nat
    BY <2>6, FS_CardinalityType, FS_Intersection
  <2>8. /\ IsFiniteSet(A \ C) /\ Cardinality(A \ C) = Cardinality(A) - Cardinality(A \cap C)
        /\ IsFiniteSet(C \ A) /\ Cardinality(C \ A) = Cardinality(C) - Cardinality(C \cap A)
    BY <2>6, FS_Difference
  <2>9. Cardinality(Left) <= Cardinality(A \ C)
    BY <2>3, <2>8, FS_Subset
  <2>10. Cardinality(C \ A) <= Cardinality(Others)
    BY <2>4, <2>6, FS_Subset
  <2>11. /\ Cardinality(Left) \in Nat /\ Cardinality(Others) \in Nat
         /\ Cardinality(C \ A) \in Nat /\ Cardinality(A \ C) \in Nat
    BY <2>3, <2>6, <2>8, FS_CardinalityType, FS_Subset
  <2>12. C \cap A = A \cap C
    OBVIOUS
  <2>13. Cardinality(A \ C) <= Cardinality(C \ A)
    <3>1. Cardinality(C \cap A) = Cardinality(A \cap C)
      BY <2>12
    <3> QED
      BY <2>2, <2>7, <2>8, <3>1
  <2> QED
    BY <2>9, <2>10, <2>11, <2>13
<1> QED
  BY <1>1, Invariance, PTL

-----------------------------------------------------------------------------
(* Types.                                                                  *)

Summary ==
  [status : {"none", "completed", "failed_fast", "timed_out"},
   enqueued : Nat, processed : Nat, ready : Nat, failed : Nat, trust : {"n/a", "high", "low"}]

Shapes ==
  /\ torn \in BOOLEAN
  /\ routing \in [Request -> Decision \cup {None}]
  /\ child \in {"running", "exited", "killed"}
  /\ outcome \in Summary /\ result \in Summary

LEMMA SummaryTypes ==
  ASSUME IInv
  PROVE  NoResult \in Summary /\ CaseResult \in Summary /\ PartialResult \in Summary
         /\ FailedFast \in Summary
<1>1. ASSUME NEW S PROVE Confidence(S) \in {"n/a", "high", "low"}
  BY RoutingAssumption DEF Confidence
<1>2. ASSUME NEW f, NEW s, NEW R \in SUBSET Request PROVE Counted(f, R, s) \in Nat
  <2>1. IsFiniteSet({r \in R : f[r] = s})
    BY CaseAssumption, FS_Subset
  <2> QED
    BY <2>1, FS_CardinalityType DEF Counted
<1>3. IsFiniteSet(Answered) /\ Answered \in SUBSET Request
  BY CaseAssumption, FS_Subset DEF Answered
<1>4. Cardinality(Answered) \in Nat /\ Cardinality(Request) \in Nat
  BY <1>3, CaseAssumption, FS_CardinalityType
<1>5. NoResult \in Summary /\ FailedFast \in Summary
  BY <1>1, <1>4 DEF NoResult, FailedFast, Summary
<1>6. CaseResult \in Summary
  <2>1. \A e, x, f : Classify(e, x, f) \in {"completed", "failed_fast"}
    BY DEF Classify
  <2> QED
    BY <1>1, <1>2, <1>3, <1>4, <2>1, Numbers DEF CaseResult, Summary
<1>7. PartialResult \in Summary
  <2> DEFINE D(s) == Counted(durable, Request, s)
  <2>1. D("ready") \in Nat /\ D("failed") \in Nat /\ D("pending") \in Nat /\ D("queued") \in Nat
    BY <1>2
  <2> HIDE DEF D
  <2>2. D("ready") + D("failed") + D("pending") + D("queued") \in Nat
        /\ D("ready") + D("failed") \in Nat
    BY <2>1
  <2>3. PartialResult =
          [status |-> "timed_out",
           enqueued |-> D("ready") + D("failed") + D("pending") + D("queued"),
           processed |-> D("ready") + D("failed"), ready |-> D("ready"), failed |-> D("failed"),
           trust |-> Confidence(Routed(durable, Request))]
    BY DEF PartialResult, D
  <2> QED
    BY <1>1, <2>1, <2>2, <2>3 DEF Summary
<1> QED
  BY <1>5, <1>6, <1>7

LEMMA ShapesStep == ASSUME IInv, Shapes, [Next]_vars PROVE Shapes'
<1>1. torn' \in BOOLEAN /\ routing' \in [Request -> Decision \cup {None}]
  <2>1. CASE Work
    <3>1. torn' \in BOOLEAN
      <4>1. CASE Dispatch \/ Interrupt
        BY <4>1
        DEF Shapes, Dispatch, Interrupt, StartPool, StartPoolFails, EnoughClaimed, Claim,
            ClaimRaises, MarkPending, PutJob, PutSentinel, Join, manifestVars
      <4>2. ASSUME NEW t \in Thread, ThreadStep(t) PROVE torn' \in BOOLEAN
        BY <4>2
        DEF Shapes, ThreadStep, Get, Prove, SetReady, SetFailed, Guard, Count, manifestVars
      <4> QED
        BY <2>1, <4>1, <4>2 DEF Work, WorkerStep
    <3>2. Routings \subseteq Decision
      <4>1. \A runner, ezkl \in BOOLEAN : Resolve(runner, ezkl) \subseteq {OnCpu, OnGpu, FellBack}
        BY RoutingAssumption DEF Resolve
      <4>2. OnCpu \in Decision /\ OnGpu \in Decision /\ FellBack \in Decision
        BY DEF OnCpu, OnGpu, FellBack, Decision
      <4> QED
        BY <4>1, <4>2 DEF Routings
    <3>3. routing' \in [Request -> Decision \cup {None}]
      BY <2>1, <3>2 DEF Shapes, Work, KeepRouting
    <3> QED
      BY <3>1, <3>3
  <2>2. ASSUME NEW r \in Request, Produce(r) PROVE <1>1!:
    BY <2>2
    DEF Shapes, Produce, PostStep, Accept, PersistWitness, AppendJob, SetQueued, AnnotateQueued,
        SetDropped, SetNotSampled, AnnotateLast, SetGauges, Enqueue, EnqueueRaises, manifestVars
  <2>3. CASE StartRun \/ UNCHANGED serveVars
    BY <2>3 DEF Shapes, StartRun, serveVars, manifestVars
  <2> QED
    BY <2>1, <2>2, <2>3 DEF Next, vars, ChildReturns, ChildRaises, Timeout, Collect
<1>2. child' \in {"running", "exited", "killed"} /\ outcome' \in Summary /\ result' \in Summary
  BY SummaryTypes
  DEF Shapes, Next, vars, Produce, StartRun, Work, ChildReturns, ChildRaises, Timeout, Collect,
      caseVars
<1> QED
  BY <1>1, <1>2 DEF Shapes

\* Type correctness of the case, with the server and the worker in it.
THEOREM TypeCorrect == Spec => []CaseTypeOK
<1>1. Init => Shapes
  <2> SUFFICES ASSUME Init PROVE Shapes
    OBVIOUS
  <2>1. NoResult \in Summary
    BY InitInv, SummaryTypes
  <2> QED
    BY <2>1 DEF Init, Shapes
<1>2. IInv /\ Shapes /\ [Next]_vars => Shapes'
  BY ShapesStep
<1>3. IInv /\ Shapes => CaseTypeOK
  <2> SUFFICES ASSUME IInv, Shapes PROVE CaseTypeOK
    OBVIOUS
  <2>1. PostTypeOK
    BY DEF IInv, Core, TypeInv, Shapes, PostTypeOK, PostState
  <2>2. WorkerTypeOK
    <3>1. max_jobs \in Nat /\ DispatchInv
      BY Known DEF IInv, PostedInv
    <3>2. unfinished \in Nat
      BY Numbers DEF UnfinishedIsWork
    <3> QED
      BY <3>1, <3>2, Known DEF WorkerTypeOK, DispatchInv, PoolState
  <2> QED
    BY <2>1, <2>2 DEF CaseTypeOK, Shapes, Summary
<1> QED
  BY <1>1, <1>2, <1>3, Invariance, PTL DEF Spec
-----------------------------------------------------------------------------
(* The store under the server and the worker.                              *)

Contract == INSTANCE StatusStore

\* A store call, whether it returns or raises, is a transition of the contract or
\* nothing.
LEMMA CallIsMove ==
  ASSUME NEW r \in Request, NEW s \in Status, Call(r, s)
  PROVE  Contract!Next \/ UNCHANGED <<status, durable>>
<1>1. Contract!CheckTransition(status[r], s) <=> CheckTransition(status[r], s)
  BY DEF CheckTransition, AllowedTransitions, InitialStatus, Absent, Contract!CheckTransition,
     Contract!AllowedTransitions, Contract!InitialStatus, Contract!Absent
<1>2. Contract!Move(r, s) \/ UNCHANGED <<status, durable>>
  BY <1>1 DEF Call, Set, SetRaises, SetNotPersisted, SetRejected, storeVars, Contract!Move
<1> QED
  BY <1>2 DEF Contract!Next, Contract!Status, Status

\* Seen from the statuses, the producers' threads and the worker's pool do nothing
\* that StatusStore would not, however their calls interleave and fail.
THEOREM CaseKeepsContract == Spec => Contract!Spec
<1>1. Init => Contract!Init
  BY DEF Init, Contract!Init, Contract!Absent, Absent
<1>2. IInv /\ [Next]_vars => [Contract!Next]_(Contract!vars)
  <2> SUFFICES ASSUME IInv, [Next]_vars
               PROVE  Contract!Next \/ UNCHANGED <<status, durable>>
    BY DEF Contract!vars
  <2>1. ASSUME NEW r \in Request, Produce(r)
        PROVE  Contract!Next \/ UNCHANGED <<status, durable>>
    <3>1. CASE status' = status /\ durable' = status
      BY <3>1 DEF Contract!Next, Contract!Publish
    <3>2. CASE \E s \in InitialStatus : Call(r, s)
      BY <3>2, CallIsMove DEF InitialStatus, Status
    <3> QED
      BY <2>1, <3>1, <3>2, PostEffect DEF Produce, IInv
  <2>2. CASE Work
    <3>1. RunEffect
      BY <2>2, DispatchEffect, PoolEffect DEF Work, WorkerStep, IInv
    <3> QED
      BY <3>1, CallIsMove DEF RunEffect, Status
  <2>3. CASE UNCHANGED storeVars
    BY <2>3 DEF storeVars
  <2> QED
    BY <2>1, <2>2, <2>3
    DEF Next, vars, serveVars, StartRun, ChildReturns, ChildRaises, Timeout, Collect
<1> QED
  BY <1>1, <1>2, Invariance, PTL DEF Spec, Contract!Spec

-----------------------------------------------------------------------------
(* run does not wait in vain: the part of `run ends' that is about states. *)

\* The sentinels are the last items on the queue, each is taken after all jobs, and
\* a run that has begun has started all its threads.
QueueInv ==
  /\ main \in {"poll", "mark", "put", "sentinels", "join"} =>
       \A t \in Thread : pool[t] # "unstarted"
  /\ \A i, k \in 1..Len(work_queue) : i < k /\ work_queue[i] = None => work_queue[k] = None
  /\ Exited # {} => \A i \in 1..Len(work_queue) : work_queue[i] = None

\* What the dispatcher blocks on is there: room on the queue, or all tasks done.
DispatcherGoes ==
  \/ main = "put" /\ Len(work_queue) < MaxSize
  \/ main = "sentinels" /\ (sentinels = 0 \/ Len(work_queue) < MaxSize)
  \/ main = "join" /\ unfinished = 0

\* Some thread has a job, or waits for an item that is there.
PoolGoes ==
  \E t \in Thread : pool[t] \in AtWork \/ (pool[t] = "get" /\ work_queue # <<>>)

\* Dispatcher and threads never all wait for each other, unless a thread has died.
NobodyWaitsInVain ==
  main \in {"put", "sentinels", "join"} /\ Dead = {} => DispatcherGoes \/ PoolGoes

\* The items keep their order when one is put, and when one is taken.
LEMMA QueuePut ==
  ASSUME IInv, QueueInv, NEW item \in Request \cup {None},
         work_queue' = Append(work_queue, item), pool' = pool,
         item # None => Stops = {} /\ Exited = {},
         main \in {"put", "sentinels"}
  PROVE  QueueInv'
<1> DEFINE n == Len(work_queue)
<1>1. /\ n \in Nat /\ Len(work_queue') = n + 1 /\ work_queue'[n + 1] = item
      /\ \A i \in 1..n : work_queue'[i] = work_queue[i]
      /\ \A i \in 1..Len(work_queue') : i \in 1..n \/ i = n + 1
  BY Known, AppendFacts
<1>2. \A i \in 1..n : item # None => work_queue[i] # None
  BY DEF Stops
<1>3. Exited' = Exited
  BY DEF Exited
<1>4. \A i, k \in 1..Len(work_queue') : i < k /\ work_queue'[i] = None => work_queue'[k] = None
  BY <1>1, <1>2 DEF QueueInv
<1>5. Exited' # {} => \A i \in 1..Len(work_queue') : work_queue'[i] = None
  BY <1>1, <1>2, <1>3 DEF QueueInv
<1> QED
  BY <1>4, <1>5 DEF QueueInv

LEMMA QueueGet ==
  ASSUME IInv, QueueInv, NEW t \in Thread, Get(t)
  PROVE  QueueInv'
<1>1. /\ work_queue # <<>> /\ main' = main /\ pool[t] = "get"
      /\ pool' = [pool EXCEPT ![t] = IF Head(work_queue) = None THEN "exited" ELSE "prove"]
  BY DEF Get, Goto, dispatchVars
<1>2. /\ Head(work_queue) = work_queue[1] /\ 1 \in 1..Len(work_queue) /\ Len(work_queue) \in Nat
      /\ \A i \in 1..Len(work_queue') :
           work_queue'[i] = work_queue[i + 1] /\ i + 1 \in 1..Len(work_queue) /\ 1 < i + 1
  BY <1>1, Known, TailFacts DEF Get
<1>3. Head(work_queue) # None => Exited' = Exited
  BY <1>1, Known DEF Exited
<1>4. \A i, k \in 1..Len(work_queue') : i < k /\ work_queue'[i] = None => work_queue'[k] = None
  <2> SUFFICES ASSUME NEW i \in 1..Len(work_queue'), NEW k \in 1..Len(work_queue'), i < k,
                      work_queue'[i] = None
               PROVE  work_queue'[k] = None
    OBVIOUS
  <2>1. i + 1 < k + 1
    OBVIOUS
  <2> QED
    BY <1>2, <2>1 DEF QueueInv
<1>5. Exited' # {} => \A i \in 1..Len(work_queue') : work_queue'[i] = None
  BY <1>2, <1>3 DEF QueueInv
<1>6. main' \in {"poll", "mark", "put", "sentinels", "join"} =>
        \A u \in Thread : pool'[u] # "unstarted"
  BY <1>1, Known DEF QueueInv
<1> QED
  BY <1>4, <1>5, <1>6 DEF QueueInv

LEMMA QueueStill ==
  ASSUME QueueInv, work_queue' = work_queue, Exited' = Exited,
         main' \in {"poll", "mark", "put", "sentinels", "join"} =>
           \A t \in Thread : pool'[t] # "unstarted"
  PROVE  QueueInv'
BY DEF QueueInv

LEMMA QueueDispatch == ASSUME IInv, QueueInv, Dispatch \/ Interrupt PROVE QueueInv'
<1>1. CASE StartPool \/ StartPoolFails
  <2>1. /\ work_queue' = work_queue /\ main = "start"
        /\ \/ main' = "poll" /\ pool' = [t \in Thread |-> "get"]
           \/ main' = "end"
        /\ \A t \in Thread : pool'[t] # "exited"
    BY <1>1 DEF StartPool, StartPoolFails, queueVars
  <2>2. Exited = {} /\ Exited' = {}
    BY <2>1, Known DEF CtlInv, Exited
  <2> QED
    BY <2>1, <2>2, QueueStill
<1>2. CASE EnoughClaimed \/ Claim \/ ClaimRaises \/ MarkPending \/ Interrupt \/ Join
  <2>1. /\ UNCHANGED <<work_queue, pool>>
        /\ main \in {"poll", "mark", "put"} \/ main' = "end"
    BY <1>2
    DEF EnoughClaimed, Claim, ClaimRaises, MarkPending, Interrupt, Join, queueVars, poolVars
  <2> QED
    BY <2>1, QueueStill DEF Exited, QueueInv
<1>3. CASE PutJob
  <2>1. /\ main = "put" /\ main' = "poll" /\ work_queue' = Append(work_queue, job) /\ pool' = pool
    BY <1>3 DEF PutJob, Put, poolVars
  <2>2. Stops = {} /\ Exited = {}
    <3>1. Cardinality(Stops) = 0 /\ Cardinality(Exited) = 0
      BY <2>1, Numbers DEF StopsInv
    <3> QED
      BY <3>1, Known, CountTypes, FS_EmptySet
  <2>3. job \in Request \cup {None}
    BY Known DEF DispatchInv
  <2> QED
    BY <2>1, <2>2, <2>3, QueuePut
<1>4. CASE PutSentinel
  <2>1. CASE sentinels > 0
    <3>1. /\ main = "sentinels" /\ main' = main /\ work_queue' = Append(work_queue, None)
          /\ pool' = pool
      BY <1>4, <2>1 DEF PutSentinel, Put, poolVars
    <3> QED
      BY <3>1, QueuePut
  <2>2. CASE ~(sentinels > 0)
    <3>1. main = "sentinels" /\ UNCHANGED <<work_queue, pool>>
      BY <1>4, <2>2 DEF PutSentinel, queueVars, poolVars
    <3> QED
      BY <3>1, QueueStill DEF Exited, QueueInv
  <2> QED
    BY <2>1, <2>2
<1> QED
  BY <1>1, <1>2, <1>3, <1>4 DEF Dispatch

LEMMA QueueStep == IInv /\ QueueInv /\ [Next]_vars => QueueInv'
<1> SUFFICES ASSUME IInv, QueueInv, [Next]_vars PROVE QueueInv'
  OBVIOUS
<1>1. CASE Work
  <2>1. ASSUME NEW t \in Thread, ThreadStep(t) PROVE QueueInv'
    <3>1. CASE Prove(t) \/ SetReady(t) \/ SetFailed(t) \/ Guard(t) \/ Count(t)
      <4>1. /\ UNCHANGED <<main, work_queue>>
            /\ pool[t] # "exited"
            /\ \E p \in {"ready", "failed", "guard", "count", "dead", "get"} :
                 pool' = [pool EXCEPT ![t] = p]
        BY <3>1
        DEF Prove, SetReady, SetFailed, Guard, Count, Goto, dispatchVars, queueVars
      <4>2. Exited' = Exited
        BY <4>1, Known DEF Exited
      <4>3. \A u \in Thread : pool[u] # "unstarted" => pool'[u] # "unstarted"
        BY <4>1, Known
      <4> QED
        BY <4>1, <4>2, <4>3, QueueStill DEF QueueInv
    <3> QED
      BY <2>1, <3>1, QueueGet DEF ThreadStep
  <2> QED
    BY <1>1, <2>1, QueueDispatch DEF Work, WorkerStep
<1>2. CASE UNCHANGED <<work_queue, pool>> /\ (main' = main \/ main' = "start")
  BY <1>2, QueueStill DEF Exited, QueueInv
<1> QED
  BY <1>1, <1>2
  DEF Next, Produce, StartRun, ChildReturns, ChildRaises, Timeout, Collect, vars, serveVars,
      workerVars, dispatchVars, queueVars, poolVars

\* prover_worker.py:154 says queue.join() cannot deadlock: unless a thread has died,
\* run is never stuck, neither in put, which a full queue blocks, nor in join.  If no
\* thread has a job, and none waits where there is an item, then the queue is empty,
\* or all threads have taken a sentinel, and with them all that was on the queue.
THEOREM NoDeadlock == Spec => []NobodyWaitsInVain
<1>1. Init => QueueInv
  BY DEF Init, WorkerInit, QueueInv, Exited
<1>2. IInv /\ QueueInv => NobodyWaitsInVain
  <2> SUFFICES ASSUME IInv, QueueInv, main \in {"put", "sentinels", "join"}, Dead = {}, ~PoolGoes
               PROVE  DispatcherGoes
    BY DEF NobodyWaitsInVain
  <2>1. Busy = {}
    BY Known DEF Busy, PoolGoes, CtlInv
  <2>2. CASE work_queue = <<>>
    <3>1. unfinished = 0
      BY <2>1, <2>2, Numbers, FS_EmptySet DEF UnfinishedIsWork
    <3>2. Len(work_queue) < MaxSize
      <4>1. Cardinality(Thread) # 0 /\ SlotsPerThread \in Nat \ {0}
        BY WorkerAssumption, FS_EmptySet
      <4> QED
        BY <2>2, <4>1, Basics, SMTT(60) DEF MaxSize
    <3> QED
      BY <3>1, <3>2 DEF DispatcherGoes
  <2>3. CASE work_queue # <<>>
    <3>1. \A t \in Thread : pool[t] \in {"dead", "exited"}
      BY <2>3, Known DEF PoolGoes, QueueInv, PoolState, AtWork
    <3>2. Exited = Thread
      BY <3>1 DEF Exited, Dead
    <3>3. Cardinality(Exited) = Cardinality(Thread) /\ Cardinality(Thread) # 0
      BY <3>2, WorkerAssumption, FS_EmptySet
    <3>4. 1 \in Stops
      <4>1. 1 \in 1..Len(work_queue)
        BY <2>3, Known, TailFacts
      <4> QED
        BY <3>2, <4>1, WorkerAssumption DEF QueueInv, Stops
    <3>5. Cardinality(Stops) # 0
      BY <3>4, Known, CountTypes, FS_EmptySet
    <3> QED
      BY <3>3, <3>5, Numbers DEF StopsInv
  <2> QED
    BY <2>2, <2>3
<1> QED
  BY <1>1, <1>2, QueueStep, Invariance, PTL DEF Spec

-----------------------------------------------------------------------------
(* run does not go on for ever: each of its steps leaves less to do.       *)

\* How many steps a thread is away from having nothing to do.
Level ==
  [unstarted |-> 0, dead |-> 0, exited |-> 0, get |-> 1, count |-> 2, guard |-> 3, failed |-> 4,
   ready |-> 5, prove |-> 6]

Chores == {c \in Thread \X (1..6) : c[2] <= Level[pool[c[1]]]}

\* The steps left to the dispatcher at a place in run, with those that each item it
\* will put costs the pool.
Errands(at, stops) ==
  LET poll == 7 * Cardinality(Thread) + 3 IN
  [off |-> 0, start |-> poll + Cardinality(Thread) + 1, poll |-> poll, mark |-> poll + 8,
   put |-> poll + 7, sentinels |-> 7 * stops + 2, join |-> 1, end |-> 0][at]

\* All there is left to do: jobs to be claimed, errands, items to be taken, chores.
Effort ==
  9 * (Len(rows) - Len(claims)) + Errands(main, sentinels) + 6 * Len(work_queue) + Cardinality(Chores)

\* Once run is called each step of it leaves less to do, and nothing else adds to it.
WindsDown ==
  [][main # "off" => IF Work THEN Effort' < Effort ELSE Effort' = Effort]_vars

LEMMA LevelType == \A p \in PoolState : Level[p] \in 0..6
BY DEF Level, PoolState

LEMMA ChoresFinite ==
  ASSUME pool \in [Thread -> PoolState]
  PROVE  IsFiniteSet(Chores) /\ Cardinality(Chores) \in Nat
<1>1. IsFiniteSet(1..6)
  <2>1. 1 \in Int /\ 6 \in Int
    OBVIOUS
  <2> QED
    BY <2>1, FS_Interval
<1>2. IsFiniteSet(Thread \X (1..6))
  BY <1>1, Basics, FS_Product
<1>3. Chores \in SUBSET (Thread \X (1..6))
  BY DEF Chores
<1> QED
  BY <1>2, <1>3, FS_Subset, FS_CardinalityType

\* A thread that goes down a level has less to do.
LEMMA ChoreDone ==
  ASSUME pool \in [Thread -> PoolState], NEW t \in Thread, NEW p \in PoolState,
         pool' = [pool EXCEPT ![t] = p], Level[p] < Level[pool[t]]
  PROVE  Cardinality(Chores') < Cardinality(Chores) /\ Cardinality(Chores') \in Nat
<1>1. /\ pool' \in [Thread -> PoolState] /\ pool'[t] = p
      /\ \A u \in Thread : u # t => pool'[u] = pool[u]
  OBVIOUS
<1>2. Level[p] \in 0..6 /\ Level[pool[t]] \in 0..6
  BY LevelType
<1>3. Chores' \subseteq Chores
  <2> SUFFICES ASSUME NEW c \in Chores' PROVE c \in Chores
    OBVIOUS
  <2>1. c \in Thread \X (1..6) /\ c[2] <= Level[pool'[c[1]]]
    BY DEF Chores
  <2>2. CASE c[1] = t
    <3>1. c[2] \in 1..6 /\ c[2] <= Level[p]
      BY <1>1, <2>1, <2>2
    <3>2. c[2] <= Level[pool[t]]
      BY <1>2, <3>1
    <3> QED
      BY <2>1, <2>2, <3>2 DEF Chores
  <2>3. CASE c[1] # t
    BY <1>1, <2>1, <2>3 DEF Chores
  <2> QED
    BY <2>2, <2>3
<1>4. <<t, Level[pool[t]]>> \in Chores /\ <<t, Level[pool[t]]>> \notin Chores'
  <2>1. Level[pool[t]] \in 1..6 /\ ~(Level[pool[t]] <= Level[p])
    BY <1>2
  <2> QED
    BY <1>1, <2>1 DEF Chores
<1>5. IsFiniteSet(Chores) /\ Cardinality(Chores) \in Nat
  BY ChoresFinite
<1>6. /\ IsFiniteSet(Chores') /\ Cardinality(Chores') <= Cardinality(Chores)
      /\ Cardinality(Chores) # Cardinality(Chores')
  BY <1>3, <1>4, <1>5, FS_Subset
<1>7. Cardinality(Chores') \in Nat
  BY <1>6, FS_CardinalityType
<1> QED
  BY <1>5, <1>6, <1>7

\* A thread that takes a job has five steps more.
LEMMA ChoreTaken ==
  ASSUME pool \in [Thread -> PoolState], NEW t \in Thread, pool[t] = "get",
         pool' = [pool EXCEPT ![t] = "prove"]
  PROVE  Cardinality(Chores') <= Cardinality(Chores) + 5 /\ Cardinality(Chores') \in Nat
<1> DEFINE More == {t} \X (2..6)
<1>1. Chores' = Chores \cup More
  <2>1. Level["get"] = 1 /\ Level["prove"] = 6
    BY DEF Level
  <2>2. ASSUME NEW c \in Thread \X (1..6) PROVE c \in Chores' <=> c \in Chores \/ c \in More
    <3>1. CASE c[1] = t
      BY <2>1, <3>1 DEF Chores
    <3>2. CASE c[1] # t
      BY <3>2 DEF Chores
    <3> QED
      BY <3>1, <3>2
  <2>3. Chores' \subseteq Thread \X (1..6) /\ Chores \cup More \subseteq Thread \X (1..6)
    BY DEF Chores
  <2> QED
    BY <2>2, <2>3
<1>2. IsFiniteSet(More) /\ Cardinality(More) = 5
  <2>1. IsFiniteSet(2..6) /\ Cardinality(2..6) = 5
    <3>1. 2 \in Int /\ 6 \in Int
      OBVIOUS
    <3>2. IsFiniteSet(2..6) /\ Cardinality(2..6) = IF 2 > 6 THEN 0 ELSE 6 - 2 + 1
      BY <3>1, FS_Interval
    <3> QED
      BY <3>2
  <2>2. IsFiniteSet({t}) /\ Cardinality({t}) = 1
    BY FS_Singleton
  <2>3. IsFiniteSet(More) /\ Cardinality(More) = Cardinality({t}) * Cardinality(2..6)
    BY <2>1, <2>2, FS_Product
  <2> QED
    BY <2>1, <2>2, <2>3
<1>3. IsFiniteSet(Chores) /\ Cardinality(Chores) \in Nat
  BY ChoresFinite
<1>4. /\ IsFiniteSet(Chores')
      /\ Cardinality(Chores') = Cardinality(Chores) + Cardinality(More) - Cardinality(Chores \cap More)
  BY <1>1, <1>2, <1>3, FS_Union
<1>5. Cardinality(Chores \cap More) \in Nat /\ Cardinality(Chores') \in Nat
  <2>1. IsFiniteSet(Chores \cap More)
    BY <1>2, FS_Subset
  <2> QED
    BY <1>4, <2>1, FS_CardinalityType
<1> QED
  BY <1>2, <1>3, <1>4, <1>5

\* Threads that are started have one step each to their sentinel.
LEMMA ChoresStart ==
  ASSUME \A t \in Thread : pool[t] = "unstarted" /\ pool'[t] \in {"get", "unstarted"}
  PROVE  /\ Cardinality(Chores) = 0
         /\ Cardinality(Chores') <= Cardinality(Thread) /\ Cardinality(Chores') \in Nat
<1>1. Level["unstarted"] = 0 /\ Level["get"] = 1
  BY DEF Level
<1>2. Cardinality(Chores) = 0
  <2>1. Chores = {}
    BY <1>1 DEF Chores
  <2> QED
    BY <2>1, FS_EmptySet
<1>3. Chores' \subseteq Thread \X {1}
  <2>1. ASSUME NEW c \in Chores' PROVE c \in Thread \X {1}
    <3>1. c \in Thread \X (1..6) /\ c[2] <= 1
      BY <1>1 DEF Chores
    <3>2. c[2] = 1
      BY <3>1
    <3> QED
      BY <3>1, <3>2
  <2> QED
    BY <2>1
<1>4. IsFiniteSet(Thread \X {1}) /\ Cardinality(Thread \X {1}) = Cardinality(Thread)
  <2>1. IsFiniteSet({1}) /\ Cardinality({1}) = 1
    BY FS_Singleton
  <2>2. /\ IsFiniteSet(Thread \X {1})
        /\ Cardinality(Thread \X {1}) = Cardinality(Thread) * Cardinality({1})
    BY <2>1, Basics, FS_Product
  <2> QED
    BY <2>1, <2>2, Basics
<1>5. IsFiniteSet(Chores') /\ Cardinality(Chores') <= Cardinality(Thread)
  BY <1>3, <1>4, FS_Subset
<1> QED
  BY <1>2, <1>5, FS_CardinalityType

LEMMA ErrandsAre ==
  ASSUME NEW s \in Nat
  PROVE  /\ Errands("off", s) = 0
         /\ Errands("start", s) = 8 * Cardinality(Thread) + 4
         /\ Errands("poll", s) = 7 * Cardinality(Thread) + 3
         /\ Errands("mark", s) = 7 * Cardinality(Thread) + 11
         /\ Errands("put", s) = 7 * Cardinality(Thread) + 10
         /\ Errands("sentinels", s) = 7 * s + 2
         /\ Errands("join", s) = 1 /\ Errands("end", s) = 0
<1> DEFINE T == Cardinality(Thread)
           p == 7 * T + 3
           table == [off |-> 0, start |-> p + T + 1, poll |-> p, mark |-> p + 8, put |-> p + 7,
                     sentinels |-> 7 * s + 2, join |-> 1, end |-> 0]
<1>1. \A at : Errands(at, s) = table[at]
  BY DEF Errands
<1>2. T \in Nat
  BY Basics
<1> HIDE DEF T
<1>3. p + T + 1 = 8 * T + 4 /\ p + 8 = 7 * T + 11 /\ p + 7 = 7 * T + 10
  BY <1>2
<1> HIDE DEF p
<1>4. /\ table["off"] = 0 /\ table["start"] = p + T + 1 /\ table["poll"] = p
      /\ table["mark"] = p + 8 /\ table["put"] = p + 7 /\ table["sentinels"] = 7 * s + 2
      /\ table["join"] = 1 /\ table["end"] = 0
  OBVIOUS
<1> HIDE DEF table
<1> QED
  BY <1>1, <1>3, <1>4 DEF T, p

\* What the terms of Effort are.
LEMMA EffortTypes ==
  ASSUME IInv
  PROVE  /\ Len(rows) - Len(claims) \in Nat /\ Len(rows) \in Nat /\ Len(claims) \in Nat
         /\ Errands(main, sentinels) \in Nat
         /\ Len(work_queue) \in Nat /\ Cardinality(Chores) \in Nat
         /\ Effort \in Nat
<1>1. Len(rows) - Len(claims) \in Nat /\ Len(rows) \in Nat /\ Len(claims) \in Nat
  <2>1. Len(rows) \in Nat /\ Len(claims) \in Nat /\ Len(claims) <= Len(rows)
    BY Known DEF IInv, Core, InOrder
  <2> QED
    BY <2>1
<1>2. Errands(main, sentinels) \in Nat
  <2>1. /\ main \in {"off", "start", "poll", "mark", "put", "sentinels", "join", "end"}
        /\ sentinels \in Nat /\ Cardinality(Thread) \in Nat
    BY Known, Numbers DEF DispatchInv
  <2> QED
    BY <2>1, ErrandsAre
<1>3. Len(work_queue) \in Nat /\ Cardinality(Chores) \in Nat
  BY Known, ChoresFinite
<1> QED
  BY <1>1, <1>2, <1>3 DEF Effort

\* The sums that the steps come down to.
LEMMA Less ==
  ASSUME NEW j \in Nat, NEW i \in Nat, NEW e \in Nat, NEW h \in Nat, NEW f \in Nat, NEW g \in Nat
  PROVE  /\ f < e => j + f + i + h < j + e + i + h
         /\ g < h => j + e + i + g < j + e + i + h
         /\ g <= h + 5 => j + e + (i - 6) + g < j + e + i + h
         /\ \A t \in Nat : e = 8 * t + 4 /\ f \in {7 * t + 3, 0} /\ h = 0 /\ g <= t =>
              j + f + i + g < j + e + i + h
OBVIOUS

\* The dispatcher has fewer errands, by more than what it puts on the queue costs.
LEMMA DispatchLess == ASSUME IInv, Dispatch \/ Interrupt PROVE Effort' < Effort
<1> DEFINE T == Cardinality(Thread)
           jobs == 9 * (Len(rows) - Len(claims))
           items == 6 * Len(work_queue)
           e == Errands(main, sentinels)
           h == Cardinality(Chores)
<1>1. T \in Nat /\ sentinels \in Nat /\ jobs \in Nat /\ items \in Nat /\ h \in Nat /\ e \in Nat
  BY Numbers, EffortTypes
<1>2. Effort = jobs + e + items + h /\ Effort' = jobs' + e' + items' + h'
  BY DEF Effort
<1>3. pool' = pool => h' = h
  BY DEF Chores
<1>4. UNCHANGED <<rows, claims>> => jobs' = jobs
  OBVIOUS
<1>5. work_queue' = work_queue => items' = items
  OBVIOUS
<1> USE <1>1, <1>2
<1>6. CASE StartPool \/ StartPoolFails
  <2>1. /\ main = "start" /\ main' \in {"poll", "end"} /\ sentinels' = sentinels
        /\ UNCHANGED <<rows, claims, work_queue>>
        /\ \A t \in Thread : pool'[t] \in {"get", "unstarted"}
    BY <1>6 DEF StartPool, StartPoolFails, queueVars, manifestVars
  <2>2. h = 0 /\ h' <= T /\ h' \in Nat
    <3>1. \A t \in Thread : pool[t] = "unstarted"
      BY <2>1, Known DEF CtlInv
    <3> QED
      BY <2>1, <3>1, ChoresStart
  <2>3. e = 8 * T + 4 /\ e' \in {7 * T + 3, 0}
    BY <2>1, ErrandsAre
  <2>4. jobs' = jobs /\ items' = items
    BY <1>4, <1>5, <2>1
  <2> HIDE DEF T, jobs, items, e, h
  <2>5. e' \in Nat
    BY <2>3
  <2>6. jobs + e' + items + h' < jobs + e + items + h
    BY <2>2, <2>3, <2>5, Less
  <2> QED
    BY <1>2, <2>4, <2>6
<1>7. CASE EnoughClaimed \/ ClaimRaises \/ MarkPending \/ Interrupt \/ Join
  <2>1. /\ UNCHANGED <<rows, claims, work_queue, pool>>
        /\ \/ /\ main \in {"poll", "mark", "put"} /\ main' = "sentinels" /\ sentinels' = T
           \/ main = "mark" /\ main' = "put" /\ sentinels' = sentinels
           \/ main = "join" /\ main' = "end" /\ sentinels' = sentinels
    BY <1>7
    DEF EnoughClaimed, ClaimRaises, MarkPending, Interrupt, Join, Finally, queueVars, poolVars,
        manifestVars
  <2>2. jobs' = jobs /\ items' = items /\ h' = h
    BY <1>3, <1>4, <1>5, <2>1
  <2>3. e' \in Nat /\ e' < e
    <3>1. CASE main \in {"poll", "mark", "put"} /\ main' = "sentinels" /\ sentinels' = T
      <4>1. e \in {7 * T + 3, 7 * T + 11, 7 * T + 10}
        BY <3>1, ErrandsAre
      <4>2. e' = 7 * T + 2
        BY <3>1, ErrandsAre
      <4> HIDE DEF T, e
      <4> QED
        BY <4>1, <4>2
    <3>2. CASE sentinels' = sentinels /\ main = "mark" /\ main' = "put"
      <4>1. e = 7 * T + 11 /\ e' = 7 * T + 10
        BY <3>2, ErrandsAre
      <4> HIDE DEF T, e
      <4> QED
        BY <4>1
    <3>3. CASE sentinels' = sentinels /\ main = "join" /\ main' = "end"
      <4>1. e = 1 /\ e' = 0
        BY <3>3, ErrandsAre
      <4> HIDE DEF T, e
      <4> QED
        BY <4>1
    <3> QED
      BY <2>1, <3>1, <3>2, <3>3
  <2> HIDE DEF T, jobs, items, e, h
  <2>4. jobs + e' + items + h < jobs + e + items + h
    BY <2>3, Less
  <2> QED
    BY <1>2, <2>2, <2>4
<1>8. CASE Claim
  <2>1. /\ main = "poll" /\ main' = "mark" /\ UNCHANGED <<rows, work_queue, pool, sentinels>>
        /\ claims' = Append(claims, Oldest) /\ Unclaimed # {}
    BY <1>8 DEF Claim, queueVars, poolVars
  <2>2. jobs' = jobs - 9
    <3>1. Oldest \in Request
      <4>1. Len(claims) < Len(rows) /\ Oldest = rows[Len(claims) + 1]
        BY <2>1, Known, OldestIsNext DEF IInv, Core
      <4> QED
        BY <4>1, Known
    <3>2. Len(claims') = Len(claims) + 1 /\ Len(rows') = Len(rows)
      BY <2>1, <3>1, Known, AppendFacts
    <3> QED
      BY <3>2, EffortTypes
  <2>3. items' = items /\ h' = h
    BY <1>3, <1>5, <2>1
  <2>4. e' = e + 8
    <3>1. e = 7 * T + 3 /\ e' = 7 * T + 11
      BY <2>1, ErrandsAre
    <3> HIDE DEF T, e
    <3> QED
      BY <3>1
  <2> HIDE DEF T, jobs, items, e, h
  <2>5. jobs' + e' + items' + h' < jobs + e + items + h
    BY <2>2, <2>3, <2>4
  <2> QED
    BY <1>2, <2>5
<1>9. CASE main = "sentinels" /\ ~(sentinels > 0) /\ PutSentinel
  <2>1. main' = "join" /\ UNCHANGED <<rows, claims, work_queue, pool, sentinels>>
    BY <1>9 DEF PutSentinel, queueVars, poolVars, manifestVars
  <2>2. jobs' = jobs /\ items' = items /\ h' = h
    BY <1>3, <1>4, <1>5, <2>1
  <2>3. e = 7 * sentinels + 2 /\ e' = 1
    BY <1>9, <2>1, ErrandsAre
  <2> HIDE DEF T, jobs, items, e, h
  <2>5. jobs' + e' + items' + h' < jobs + e + items + h
    BY <2>2, <2>3
  <2> QED
    BY <1>2, <2>5
<1>10. CASE PutJob \/ (PutSentinel /\ sentinels > 0)
  <2>1. /\ UNCHANGED <<rows, claims, pool>>
        /\ \/ /\ main = "put" /\ main' = "poll" /\ sentinels' = sentinels
              /\ work_queue' = Append(work_queue, job)
           \/ /\ main = "sentinels" /\ main' = main /\ sentinels' = sentinels - 1
              /\ sentinels > 0 /\ work_queue' = Append(work_queue, None)
    BY <1>10 DEF PutJob, PutSentinel, Put, poolVars, manifestVars
  <2>2. items' = items + 6
    <3>1. job \in Request \cup {None}
      BY Known DEF DispatchInv
    <3>2. Len(work_queue') = Len(work_queue) + 1 /\ Len(work_queue) \in Nat
      BY <2>1, <3>1, Known, AppendFacts
    <3> QED
      BY <3>2
  <2>3. e' = e - 7
    <3>1. CASE main = "put" /\ main' = "poll" /\ sentinels' = sentinels
      <4>1. e = 7 * T + 10 /\ e' = 7 * T + 3
        BY <3>1, ErrandsAre
      <4> HIDE DEF T, e
      <4> QED
        BY <4>1
    <3>2. CASE main = "sentinels" /\ main' = main /\ sentinels' = sentinels - 1 /\ sentinels > 0
      <4>1. sentinels' \in Nat
        BY <3>2
      <4>2. e = 7 * sentinels + 2 /\ e' = 7 * sentinels' + 2
        BY <3>2, <4>1, ErrandsAre
      <4> HIDE DEF T, e
      <4> QED
        BY <3>2, <4>1, <4>2
    <3> QED
      BY <2>1, <3>1, <3>2
  <2>4. jobs' = jobs /\ h' = h
    BY <1>3, <1>4, <2>1
  <2> HIDE DEF T, jobs, items, e, h
  <2>5. jobs' + e' + items' + h' < jobs + e + items + h
    BY <2>2, <2>3, <2>4
  <2> QED
    BY <1>2, <2>5
<1> QED
  BY <1>6, <1>7, <1>8, <1>9, <1>10 DEF Dispatch, PutSentinel

LEMMA PoolLess ==
  ASSUME IInv, NEW t \in Thread, ThreadStep(t)
  PROVE  Effort' < Effort
<1> DEFINE jobs == 9 * (Len(rows) - Len(claims))
           items == 6 * Len(work_queue)
           e == Errands(main, sentinels)
           h == Cardinality(Chores)
<1>1. jobs \in Nat /\ items \in Nat /\ e \in Nat /\ h \in Nat
  BY EffortTypes
<1>2. Effort = jobs + e + items + h /\ Effort' = jobs' + e' + items' + h'
  BY DEF Effort
<1>3. jobs' = jobs /\ e' = e
  BY DEF ThreadStep, Get, Prove, SetReady, SetFailed, Guard, Count, dispatchVars, manifestVars
<1>4. CASE Get(t)
  <2>1. pool[t] = "get" /\ work_queue # <<>> /\ work_queue' = Tail(work_queue)
    BY <1>4 DEF Get, Goto
  <2>2. items' = items - 6
    <3>1. Len(work_queue') = Len(work_queue) - 1 /\ Len(work_queue) \in Nat
      BY <2>1, Known, GetCounts
    <3> QED
      BY <3>1
  <2>3. h' <= h + 5 /\ h' \in Nat
    <3>1. CASE Head(work_queue) = None
      <4>1. pool' = [pool EXCEPT ![t] = "exited"] /\ Level["exited"] < Level[pool[t]]
        BY <1>4, <2>1, <3>1 DEF Get, Goto, Level
      <4>2. h' < h /\ h' \in Nat
        BY <4>1, Known, ChoreDone DEF PoolState
      <4> QED
        BY <1>1, <4>2
    <3>2. CASE Head(work_queue) # None
      <4>1. pool' = [pool EXCEPT ![t] = "prove"]
        BY <1>4, <3>2 DEF Get, Goto
      <4> QED
        BY <2>1, <4>1, Known, ChoreTaken
    <3> QED
      BY <3>1, <3>2
  <2> HIDE DEF jobs, items, e, h
  <2>4. jobs + e + (items - 6) + h' < jobs + e + items + h
    BY <1>1, <2>3, Less
  <2> QED
    BY <1>2, <1>3, <2>2, <2>4
<1>5. CASE Prove(t) \/ SetReady(t) \/ SetFailed(t) \/ Guard(t) \/ Count(t)
  <2>1. work_queue' = work_queue
    BY <1>5 DEF Prove, SetReady, SetFailed, Guard, Count, queueVars
  <2>2. PICK p \in PoolState : pool' = [pool EXCEPT ![t] = p] /\ Level[p] < Level[pool[t]]
    BY <1>5 DEF Prove, SetReady, SetFailed, Guard, Count, Goto, PoolState, Level
  <2>3. h' < h /\ h' \in Nat
    BY <2>2, Known, ChoreDone
  <2>4. items' = items
    BY <2>1
  <2> HIDE DEF jobs, items, e, h
  <2>5. jobs + e + items + h' < jobs + e + items + h
    BY <1>1, <2>3, Less
  <2> QED
    BY <1>2, <1>3, <2>4, <2>5
<1> QED
  BY <1>4, <1>5 DEF ThreadStep

\* Every step of run takes it nearer to its end, and the effort is a natural number: a
\* run takes finitely many steps, whatever fails and whoever is scheduled.  With
\* NoDeadlock this is what `run ends' rests on, but for the fairness of its threads.
THEOREM RunWindsDown == Spec => [](Effort \in Nat) /\ WindsDown
<1>1. IInv => Effort \in Nat
  BY EffortTypes
<1>2. IInv /\ [Next]_vars
        => [main # "off" => IF Work THEN Effort' < Effort ELSE Effort' = Effort]_vars
  <2> SUFFICES ASSUME IInv, Next, main # "off"
               PROVE  IF Work THEN Effort' < Effort ELSE Effort' = Effort
    OBVIOUS
  <2>1. CASE Work
    BY <2>1, DispatchLess, PoolLess DEF Work, WorkerStep
  <2>2. CASE ~Work
    <3>1. \A r \in Request : ~Produce(r)
      <4> SUFFICES ASSUME NEW r \in Request, Produce(r) PROVE FALSE
        OBVIOUS
      <4>1. post[r] \in {"answered", "raised"}
        BY DEF IInv, PostedInv, Posted
      <4> QED
        BY <4>1
        DEF Produce, PostStep, Accept, PersistWitness, AppendJob, SetQueued, AnnotateQueued,
            SetDropped, SetNotSampled, AnnotateLast, SetGauges, Step
    <3>2. UNCHANGED serveVars
      BY <2>2, <3>1 DEF Next, StartRun, ChildReturns, ChildRaises, Timeout, Collect
    <3>3. UNCHANGED <<rows, claims, main, work_queue, pool, sentinels>>
      BY <3>2 DEF serveVars, manifestVars, workerVars, dispatchVars, queueVars, poolVars
    <3> QED
      BY <2>2, <3>3 DEF Effort, Chores
  <2> QED
    BY <2>1, <2>2
<1> QED
  BY <1>1, <1>2, Invariance, PTL DEF Spec, WindsDown
=============================================================================
