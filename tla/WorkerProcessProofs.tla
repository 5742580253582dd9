------------------------- MODULE WorkerProcessProofs -------------------------
(***************************************************************************)
(* The worker process proved for any pool, any backlog and any failures.   *)
(* A claimed job is in one place only, and its status says so; what join   *)
(* waits for is what is left to do; a job that has been finished in the    *)
(* file never comes back to the worker, in this run or in a later one.     *)
(***************************************************************************)
EXTENDS WorkerProcess, FiniteSetTheorems, TLAPS

States == {"unstarted", "get", "prove", "ready", "failed", "guard", "count", "dead", "exited"}
AtWork == {"prove", "ready", "failed", "guard", "count"}
InHand == {"mark", "put"}

TypeInv ==
  /\ status \in [Request -> Status \cup {Absent}]
  /\ durable \in [Request -> Status \cup {Absent}]
  /\ rows \in Seq(Request)
  /\ claims \in Seq(Request)
  /\ job \in Request \cup {None}
  /\ work_queue \in Seq(Request \cup {None})
  /\ unfinished \in Nat
  /\ pool \in [Thread -> States]
  /\ work \in [Thread -> Request \cup {None}]

\* A job is in hand, or at work, exactly where the code says that it is.
Occupied ==
  /\ job # None <=> main \in InHand
  /\ \A t \in Thread : work[t] # None <=> pool[t] \in AtWork
  /\ main = "start" => \A t \in Thread : pool[t] = "unstarted"

\* The jobs that the worker has, wherever they are, are claimed ones.
Has == {job} \cup {work_queue[i] : i \in 1..Len(work_queue)} \cup {work[t] : t \in Thread}

HasClaimed == Has \subseteq Ids(claims) \cup {None}

\* No job is in two places.
Apart ==
  /\ \A i, k \in 1..Len(work_queue) :
       work_queue[i] # None /\ work_queue[i] = work_queue[k] => i = k
  /\ \A t, u \in Thread : work[t] # None /\ work[t] = work[u] => t = u
  /\ \A i \in 1..Len(work_queue) : work_queue[i] # None => work_queue[i] # job
  /\ \A t \in Thread : work[t] # None => work[t] # job
  /\ \A t \in Thread, i \in 1..Len(work_queue) : work[t] # None => work[t] # work_queue[i]

\* A job is pending from its mark until it is asked for a terminal status.
Pending ==
  /\ main = "put" => status[job] = "pending"
  /\ InFlightIsPending

\* Nobody has touched a job that is not claimed, and the file is never ahead.
Untouched ==
  /\ \A i \in 1..Len(rows) :
       rows[i] \notin Ids(claims) => status[rows[i]] = "queued" /\ durable[rows[i]] = "queued"
  /\ main = "mark" => status[job] = "queued"
  /\ \A r \in Request : durable[r] \in Terminal => status[r] = durable[r]

IInv == TypeInv /\ Occupied /\ HasClaimed /\ Apart /\ Pending /\ Untouched /\ UnfinishedIsWork

-----------------------------------------------------------------------------
(* Sequences and the set of busy threads.                                  *)

LEMMA AppendFacts ==
  ASSUME NEW S, NEW s \in Seq(S), NEW e \in S
  PROVE  /\ Append(s, e) \in Seq(S)
         /\ Len(Append(s, e)) = Len(s) + 1
         /\ Append(s, e)[Len(s) + 1] = e
         /\ \A i \in 1..Len(s) : Append(s, e)[i] = s[i]
         /\ Ids(Append(s, e)) = Ids(s) \cup {e}
<1>1. /\ Append(s, e) \in Seq(S)
      /\ Len(Append(s, e)) = Len(s) + 1
      /\ Append(s, e)[Len(s) + 1] = e
      /\ \A i \in 1..Len(s) : Append(s, e)[i] = s[i]
  OBVIOUS
<1>2. 1..(Len(s) + 1) = 1..Len(s) \cup {Len(s) + 1}
  OBVIOUS
<1> QED
  BY <1>1, <1>2 DEF Ids

LEMMA TailFacts ==
  ASSUME NEW S, NEW s \in Seq(S), s # <<>>
  PROVE  /\ Tail(s) \in Seq(S) /\ Head(s) \in S
         /\ Len(s) \in Nat \ {0} /\ Len(Tail(s)) = Len(s) - 1
         /\ Head(s) = s[1]
         /\ \A i \in 1..Len(Tail(s)) : Tail(s)[i] = s[i + 1] /\ i + 1 \in 2..Len(s)
OBVIOUS

\* The jobs are told apart from None, and the pool is finite.
LEMMA Basics == None \notin Request /\ IsFiniteSet(Thread) /\ Cardinality(Thread) \in Nat
BY StateAssumption, WorkerAssumption, FS_CardinalityType

LEMMA BusyFinite == IsFiniteSet(Busy) /\ Cardinality(Busy) \in Nat
BY Basics, FS_Subset, FS_CardinalityType DEF Busy

\* A thread that is free takes a job.
LEMMA BusyMore ==
  ASSUME work \in [Thread -> Request \cup {None}], NEW t \in Thread, work[t] = None,
         NEW r \in Request, work' = [work EXCEPT ![t] = r]
  PROVE  Cardinality(Busy') = Cardinality(Busy) + 1
<1>1. Busy' = Busy \cup {t} /\ t \notin Busy
  BY Basics DEF Busy
<1> QED
  BY <1>1, BusyFinite, FS_AddElement

\* A busy thread lets go of its job.
LEMMA BusyFewer ==
  ASSUME work \in [Thread -> Request \cup {None}], NEW t \in Thread, work[t] # None,
         work' = [work EXCEPT ![t] = None]
  PROVE  Cardinality(Busy') = Cardinality(Busy) - 1 /\ Cardinality(Busy) \in Nat \ {0}
<1>1. Busy' = Busy \ {t} /\ t \in Busy
  BY DEF Busy
<1> QED
  BY <1>1, BusyFinite, FS_RemoveElement, FS_EmptySet

\* What Oldest hands out is one of the jobs, and nobody has claimed it.
LEMMA OldestIsUnclaimed ==
  ASSUME rows \in Seq(Request), Unclaimed # {}
  PROVE  /\ Oldest \in Request /\ Oldest \notin Ids(claims)
         /\ \E i \in 1..Len(rows) : Oldest = rows[i]
<1> DEFINE R == OpToRel(<, Nat)
<1>1. R = {ss \in Nat \X Nat : ss[1] < ss[2]}
  BY DEF OpToRel
<1>2. IsWellFoundedOn(R, Nat)
  BY NatLessThanWellFounded
<1> HIDE DEF R
<1>3. \A i, k \in Nat : k < i => <<k, i>> \in R
  BY <1>1
<1>4. Unclaimed \subseteq Nat /\ Unclaimed \subseteq 1..Len(rows)
  BY DEF Unclaimed
<1>5. PICK i \in Unclaimed : \A k \in Unclaimed : ~ (<<k, i>> \in R)
  BY <1>2, <1>4, WFMin
<1>6. \A k \in Unclaimed : ~(k < i)
  BY <1>3, <1>4, <1>5, ZenonT(20)
<1>7. \A k \in Unclaimed : i <= k
  BY <1>4, <1>6
<1>8. (CHOOSE j \in Unclaimed : \A k \in Unclaimed : j <= k) \in Unclaimed
  BY <1>7
<1>9. PICK j \in Unclaimed : Oldest = rows[j]
  BY <1>8 DEF Oldest
<1> QED
  BY <1>4, <1>9 DEF Unclaimed

-----------------------------------------------------------------------------
(* What a call of the store does to the statuses.                          *)

Call(r, s) == Set(r, s) \/ SetRaises(r, s)

LEMMA CallEffect ==
  ASSUME status \in [Request -> Status \cup {Absent}], durable \in [Request -> Status \cup {Absent}],
         \A q \in Request : durable[q] \in Terminal => status[q] = durable[q],
         NEW r \in Request, NEW s \in Status, Call(r, s)
  PROVE  /\ status' \in [Request -> Status \cup {Absent}]
         /\ durable' \in [Request -> Status \cup {Absent}]
         /\ \A q \in Request : q # r => status'[q] = status[q] /\ durable'[q] \in {durable[q], status[q]}
         /\ \A q \in Request : durable'[q] \in Terminal => status'[q] = durable'[q]
         /\ \A q \in Request : durable[q] \in Terminal => durable'[q] = durable[q]
<1>1. CASE UNCHANGED <<status, durable>>
  BY <1>1
<1>2. CASE /\ CheckTransition(status[r], s) /\ status' = [status EXCEPT ![r] = s]
           /\ durable' \in {durable, status'}
  <2>1. status[r] \in Terminal => s = status[r]
    BY <1>2 DEF CheckTransition, AllowedTransitions, Terminal, Active, Status, Absent
  <2> QED
    BY <1>2, <2>1
<1> QED
  BY <1>1, <1>2 DEF Call, Set, SetRaises, SetNotPersisted, SetRejected, storeVars

-----------------------------------------------------------------------------
(* Steps that leave every job and every status where it is.                *)

LEMMA Quiet ==
  ASSUME IInv,
         UNCHANGED <<status, durable, rows, claims, job, work_queue, unfinished, work>>,
         (main' = main /\ main # "start") \/ (main \notin InHand /\ main' \notin InHand \cup {"start"}),
         pool' \in [Thread -> States],
         \A t \in Thread : pool'[t] \in AtWork <=> pool[t] \in AtWork,
         \A t \in Thread : pool'[t] \in {"prove", "ready"} => pool[t] \in {"prove", "ready"}
  PROVE  IInv'
<1>1. TypeInv' /\ Apart'
  BY DEF IInv, TypeInv, Apart
<1>2. HasClaimed' /\ UnfinishedIsWork'
  <2>1. Has' = Has /\ Busy' = Busy /\ Ids(claims') = Ids(claims)
    BY DEF Has, Busy
  <2> QED
    BY <2>1 DEF IInv, HasClaimed, UnfinishedIsWork
<1>3. Occupied'
  BY DEF IInv, Occupied, InHand
<1>4. Pending' /\ Untouched'
  BY DEF IInv, Pending, InFlightIsPending, Untouched, Ids, InHand
<1> QED
  BY <1>1, <1>2, <1>3, <1>4 DEF IInv

LEMMA QuietSteps ==
  ASSUME IInv,
         \/ StartPool \/ StartPoolFails \/ EnoughClaimed \/ ClaimRaises \/ Join
         \/ PutSentinel /\ ~(sentinels > 0)
         \/ \E t \in Thread : Prove(t)
         \/ UNCHANGED vars
  PROVE  IInv'
<1>0. pool \in [Thread -> States] /\ work \in [Thread -> Request \cup {None}]
  BY DEF IInv, TypeInv
<1>1. CASE StartPool \/ StartPoolFails
  <2>1. \A t \in Thread : pool[t] \notin AtWork
    BY <1>1 DEF StartPool, StartPoolFails, IInv, Occupied, AtWork
  <2>2. pool' \in [Thread -> States] /\ \A t \in Thread : pool'[t] \in {"get", "unstarted"}
    BY <1>1 DEF StartPool, StartPoolFails, States
  <2>3. /\ UNCHANGED <<status, durable, rows, claims, job, work_queue, unfinished, work>>
        /\ main = "start" /\ main' \in {"poll", "end"}
    BY <1>1 DEF StartPool, StartPoolFails, queueVars, storeVars, manifestVars
  <2> QED
    BY <2>1, <2>2, <2>3, Quiet DEF InHand, AtWork
<1>2. CASE EnoughClaimed \/ ClaimRaises \/ Join \/ (PutSentinel /\ ~(sentinels > 0))
  <2>1. /\ UNCHANGED <<status, durable, rows, claims, job, work_queue, unfinished, work, pool>>
        /\ main \in {"poll", "join", "sentinels"} /\ main' \in {"sentinels", "join", "end"}
    <3>1. CASE EnoughClaimed
      BY <3>1 DEF EnoughClaimed, Finally, queueVars, poolVars, storeVars, manifestVars
    <3>2. CASE ClaimRaises
      BY <3>2 DEF ClaimRaises, Finally, queueVars, poolVars, storeVars
    <3>3. CASE Join
      BY <3>3 DEF Join, queueVars, poolVars, storeVars, manifestVars
    <3>4. CASE PutSentinel /\ ~(sentinels > 0)
      BY <3>4 DEF PutSentinel, queueVars, poolVars, storeVars, manifestVars
    <3> QED
      BY <1>2, <3>1, <3>2, <3>3, <3>4
  <2> QED
    BY <1>0, <2>1, Quiet DEF InHand
<1>3. ASSUME NEW t \in Thread, Prove(t) PROVE IInv'
  <2>1. /\ pool[t] = "prove" /\ pool' \in [Thread -> States]
        /\ pool'[t] \in {"ready", "failed"} /\ \A u \in Thread : u # t => pool'[u] = pool[u]
    BY <1>0, <1>3 DEF Prove, Goto, States
  <2>2. UNCHANGED <<status, durable, rows, claims, main, job, work_queue, unfinished, work>>
    BY <1>3 DEF Prove, dispatchVars, queueVars, storeVars, manifestVars
  <2>3. main # "start"
    BY <2>1 DEF IInv, Occupied
  <2> QED
    BY <2>1, <2>2, <2>3, Quiet DEF AtWork
<1>4. CASE UNCHANGED vars
  <2>1. UNCHANGED <<status, durable, rows, claims, main, job, work_queue, unfinished, pool, work>>
    BY <1>4 DEF vars, storeVars, manifestVars, workerVars, dispatchVars, queueVars, poolVars
  <2>2. CASE main # "start"
    BY <1>0, <2>1, <2>2, Quiet
  <2>3. CASE main = "start"
    BY <2>1
    DEF IInv, TypeInv, Occupied, HasClaimed, Has, Apart, Pending, InFlightIsPending, Untouched,
        UnfinishedIsWork, Busy
  <2> QED
    BY <2>2, <2>3
<1> QED
  BY <1>1, <1>2, <1>3, <1>4

-----------------------------------------------------------------------------
(* The dispatcher's hand: claimed, marked, put on the queue, or given up.  *)

\* A job that nobody has claimed is nowhere in the worker, and queued.
LEMMA ClaimStep ==
  ASSUME IInv, Claim
  PROVE  IInv'
<1>0. /\ rows \in Seq(Request) /\ claims \in Seq(Request)
      /\ pool \in [Thread -> States] /\ work \in [Thread -> Request \cup {None}]
      /\ work_queue \in Seq(Request \cup {None})
  BY DEF IInv, TypeInv
<1>1. /\ main = "poll" /\ main' = "mark" /\ job' = Oldest /\ claims' = Append(claims, Oldest)
      /\ UNCHANGED <<status, durable, rows, work_queue, unfinished, pool, work>>
  BY DEF Claim, storeVars, queueVars, poolVars
<1>2. /\ Oldest \in Request /\ Oldest \notin Ids(claims)
      /\ \E i \in 1..Len(rows) : Oldest = rows[i]
  BY <1>0, OldestIsUnclaimed DEF Claim
<1>3. claims' \in Seq(Request) /\ Ids(claims') = Ids(claims) \cup {Oldest}
  BY <1>0, <1>1, <1>2, AppendFacts
<1>4. job = None /\ job' # None /\ job' \notin Has
  BY <1>1, <1>2, Basics DEF IInv, Occupied, InHand, HasClaimed
<1>5. TypeInv'
  BY <1>1, <1>2, <1>3 DEF IInv, TypeInv
<1>6. Occupied'
  BY <1>1, <1>4 DEF IInv, Occupied, InHand
<1>7. HasClaimed'
  <2>1. Has' \subseteq Has \cup {Oldest}
    BY <1>1 DEF Has
  <2> QED
    BY <1>3, <2>1 DEF IInv, HasClaimed
<1>8. Apart'
  <2>1. /\ \A i \in 1..Len(work_queue) : work_queue[i] # job'
        /\ \A t \in Thread : work[t] # job'
    BY <1>4 DEF Has
  <2> QED
    BY <1>1, <2>1 DEF IInv, Apart
<1>9. Pending'
  BY <1>1 DEF IInv, Pending, InFlightIsPending
<1>10. Untouched'
  BY <1>1, <1>2, <1>3 DEF IInv, Untouched
<1>11. UnfinishedIsWork'
  BY <1>1 DEF IInv, UnfinishedIsWork, Busy
<1> QED
  BY <1>5, <1>6, <1>7, <1>8, <1>9, <1>10, <1>11 DEF IInv

\* The dispatcher lets go of a job: after a rejected mark, or interrupted.
LEMMA GiveUp ==
  ASSUME IInv, main' = "sentinels", job' = None,
         UNCHANGED <<rows, claims, work_queue, unfinished, pool, work>>,
         \/ UNCHANGED <<status, durable>>
         \/ main = "mark" /\ Call(job, "pending")
  PROVE  IInv'
<1>0. /\ status \in [Request -> Status \cup {Absent}]
      /\ durable \in [Request -> Status \cup {Absent}]
      /\ rows \in Seq(Request)
      /\ work \in [Thread -> Request \cup {None}]
      /\ work_queue \in Seq(Request \cup {None})
  BY DEF IInv, TypeInv
<1>1. main = "mark" => job \in Request /\ job \in Ids(claims)
  BY DEF IInv, TypeInv, Occupied, InHand, HasClaimed, Has
<1>2. /\ status' \in [Request -> Status \cup {Absent}]
      /\ durable' \in [Request -> Status \cup {Absent}]
      /\ \A q \in Request : q # job => status'[q] = status[q] /\ durable'[q] \in {durable[q], status[q]}
      /\ \A q \in Request : durable'[q] \in Terminal => status'[q] = durable'[q]
  <2>1. \A q \in Request : durable[q] \in Terminal => status[q] = durable[q]
    BY DEF IInv, Untouched
  <2>2. "pending" \in Status
    BY DEF Status
  <2> QED
    BY <1>0, <1>1, <2>1, <2>2, CallEffect
<1>3. TypeInv' /\ Apart'
  BY <1>2, Basics DEF IInv, TypeInv, Apart
<1>4. Occupied'
  BY DEF IInv, Occupied, InHand
<1>5. HasClaimed' /\ UnfinishedIsWork'
  <2>1. Has' \subseteq Has \cup {None} /\ Busy' = Busy
    BY DEF Has, Busy
  <2> QED
    BY <2>1 DEF IInv, HasClaimed, UnfinishedIsWork
<1>6. Pending'
  <2>1. /\ \A i \in 1..Len(work_queue) : work_queue[i] # None => work_queue[i] # job
        /\ \A t \in Thread : work[t] # None => work[t] # job
        /\ \A t \in Thread : pool[t] \in {"prove", "ready"} => work[t] # None
    BY DEF IInv, Apart, Occupied, AtWork
  <2> QED
    BY <1>0, <1>2, <2>1 DEF IInv, Pending, InFlightIsPending
<1>7. Untouched'
  <2>1. CASE UNCHANGED <<status, durable>>
    BY <2>1 DEF IInv, Untouched, Ids
  <2>2. CASE main = "mark"
    BY <1>0, <1>1, <1>2, <2>2 DEF IInv, Untouched
  <2> QED
    BY <2>1, <2>2
<1> QED
  BY <1>3, <1>4, <1>5, <1>6, <1>7 DEF IInv

\* A marked job is pending, and still in hand.
LEMMA MarkStep ==
  ASSUME IInv, main = "mark", main' = "put", Set(job, "pending"),
         UNCHANGED <<rows, claims, job, work_queue, unfinished, pool, work>>
  PROVE  IInv'
<1>0. /\ status \in [Request -> Status \cup {Absent}]
      /\ durable \in [Request -> Status \cup {Absent}]
      /\ rows \in Seq(Request)
      /\ work \in [Thread -> Request \cup {None}]
      /\ work_queue \in Seq(Request \cup {None})
      /\ job \in Request /\ job \in Ids(claims)
  BY DEF IInv, TypeInv, Occupied, InHand, HasClaimed, Has
<1>1. /\ status' = [status EXCEPT ![job] = "pending"] /\ durable' = status'
      /\ status'[job] = "pending"
  BY <1>0 DEF Set
<1>2. /\ status' \in [Request -> Status \cup {Absent}]
      /\ \A q \in Request : q # job => status'[q] = status[q]
  BY <1>0, <1>1 DEF Status
<1>3. TypeInv' /\ Apart'
  BY <1>1, <1>2 DEF IInv, TypeInv, Apart
<1>4. Occupied'
  BY DEF IInv, Occupied, InHand
<1>5. HasClaimed' /\ UnfinishedIsWork'
  <2>1. Has' = Has /\ Busy' = Busy
    BY DEF Has, Busy
  <2> QED
    BY <2>1 DEF IInv, HasClaimed, UnfinishedIsWork
<1>6. Pending'
  BY <1>0, <1>1, <1>2 DEF IInv, Pending, InFlightIsPending
<1>7. Untouched'
  BY <1>0, <1>1, <1>2 DEF IInv, Untouched
<1> QED
  BY <1>3, <1>4, <1>5, <1>6, <1>7 DEF IInv

\* The queue gets one item more: the job in hand, or a sentinel.
LEMMA PutStep ==
  ASSUME IInv,
         \/ main = "put" /\ Put(job)
         \/ main = "sentinels" /\ Put(None),
         job' = None, main' # "start", main' \notin InHand,
         UNCHANGED <<status, durable, rows, claims, pool, work>>
  PROVE  IInv'
<1> DEFINE item == IF main = "put" THEN job ELSE None
<1>0. /\ work_queue \in Seq(Request \cup {None}) /\ unfinished \in Nat
      /\ work \in [Thread -> Request \cup {None}]
      /\ item \in Request \cup {None} /\ item \in Ids(claims) \cup {None}
  BY DEF IInv, TypeInv, HasClaimed, Has
<1> DEFINE n == Len(work_queue)
<1>1. /\ work_queue' = Append(work_queue, item) /\ unfinished' = unfinished + 1
      /\ work_queue' \in Seq(Request \cup {None})
      /\ Len(work_queue') = n + 1 /\ n \in Nat
      /\ work_queue'[n + 1] = item
      /\ \A i \in 1..n : work_queue'[i] = work_queue[i]
  BY <1>0, AppendFacts DEF Put
<1>2. \A i \in 1..(n + 1) : i \in 1..n \/ i = n + 1
  BY <1>1
<1>3. TypeInv' /\ Occupied'
  BY <1>1 DEF IInv, TypeInv, Occupied
<1>4. HasClaimed'
  <2>1. Has' \subseteq Has \cup {item, None}
    BY <1>1, <1>2 DEF Has
  <2> QED
    BY <1>0, <2>1 DEF IInv, HasClaimed
<1>5. Apart'
  <2>1. item # None => /\ \A i \in 1..n : work_queue[i] # item
                       /\ \A t \in Thread : work[t] # item
    BY DEF IInv, Apart
  <2>2. \A i, k \in 1..Len(work_queue') :
          work_queue'[i] # None /\ work_queue'[i] = work_queue'[k] => i = k
    BY <1>1, <1>2, <2>1 DEF IInv, Apart
  <2>3. \A t \in Thread, i \in 1..Len(work_queue') : work[t] # None => work[t] # work_queue'[i]
    BY <1>1, <1>2, <2>1 DEF IInv, Apart
  <2> QED
    BY <2>2, <2>3 DEF IInv, Apart
<1>6. Pending'
  <2>1. item # None => status[item] = "pending"
    BY DEF IInv, Pending
  <2> QED
    BY <1>1, <1>2, <2>1 DEF IInv, Pending, InFlightIsPending, InHand
<1>7. Untouched'
  BY DEF IInv, Untouched, Ids, InHand
<1>8. UnfinishedIsWork'
  <2>1. Busy' = Busy
    BY DEF Busy
  <2> QED
    BY <1>0, <1>1, <2>1, BusyFinite DEF IInv, UnfinishedIsWork
<1> QED
  BY <1>3, <1>4, <1>5, <1>6, <1>7, <1>8 DEF IInv

-----------------------------------------------------------------------------
(* The pool.                                                               *)

\* What a thread takes from the queue is with the thread from then on.
LEMMA GetStep ==
  ASSUME IInv, NEW t \in Thread, Get(t)
  PROVE  IInv'
<1>0. /\ work_queue \in Seq(Request \cup {None}) /\ unfinished \in Nat
      /\ work \in [Thread -> Request \cup {None}] /\ pool \in [Thread -> States]
  BY DEF IInv, TypeInv
<1> DEFINE item == Head(work_queue)
<1>1. /\ work_queue # <<>> /\ work_queue' = Tail(work_queue)
      /\ work_queue' \in Seq(Request \cup {None}) /\ item \in Request \cup {None}
      /\ Len(work_queue) \in Nat \ {0} /\ Len(work_queue') = Len(work_queue) - 1
      /\ item = work_queue[1] /\ 1 \in 1..Len(work_queue)
      /\ \A i \in 1..Len(work_queue') :
           work_queue'[i] = work_queue[i + 1] /\ i + 1 \in 2..Len(work_queue)
  BY <1>0, TailFacts DEF Get
<1>2. /\ pool[t] = "get" /\ work[t] = None /\ main # "start"
      /\ UNCHANGED <<status, durable, rows, claims, main, job>>
      /\ \A u \in Thread : u # t => pool'[u] = pool[u] /\ work'[u] = work[u]
      /\ pool' \in [Thread -> States] /\ work' \in [Thread -> Request \cup {None}]
      /\ work'[t] = item
      /\ item = None => pool'[t] = "exited" /\ work' = work /\ unfinished' = unfinished - 1
      /\ item # None => /\ pool'[t] = "prove" /\ work' = [work EXCEPT ![t] = item]
                        /\ unfinished' = unfinished
  <2>1. pool[t] = "get" /\ work[t] = None /\ main # "start"
    BY DEF Get, Goto, IInv, Occupied, AtWork
  <2>2. UNCHANGED <<status, durable, rows, claims, main, job>>
    BY DEF Get, dispatchVars, storeVars, manifestVars
  <2>3. CASE item = None
    BY <1>0, <1>1, <2>1, <2>2, <2>3 DEF Get, Goto, States
  <2>4. CASE item # None
    BY <1>0, <1>1, <2>1, <2>2, <2>4 DEF Get, Goto, States
  <2> QED
    BY <2>3, <2>4
<1>3. /\ \A i \in 1..Len(work_queue') : work_queue'[i] # None => work_queue'[i] # item
      /\ item # None => item # job /\ status[item] = "pending"
                          /\ \A u \in Thread : work[u] # item
  BY <1>1 DEF IInv, Apart, Pending, InFlightIsPending
<1>4. UnfinishedIsWork' /\ unfinished' \in Nat
  <2>1. CASE item = None
    <3>1. Busy' = Busy
      BY <1>2, <2>1 DEF Busy
    <3> QED
      BY <1>0, <1>1, <1>2, <2>1, <3>1, BusyFinite DEF IInv, UnfinishedIsWork
  <2>2. CASE item # None
    <3>1. Cardinality(Busy') = Cardinality(Busy) + 1
      BY <1>0, <1>1, <1>2, <2>2, BusyMore
    <3> QED
      BY <1>0, <1>1, <1>2, <2>2, <3>1, BusyFinite DEF IInv, UnfinishedIsWork
  <2> QED
    BY <2>1, <2>2
<1>5. TypeInv'
  BY <1>1, <1>2, <1>4 DEF IInv, TypeInv
<1>6. Occupied'
  BY <1>2 DEF IInv, Occupied, AtWork
<1>7. HasClaimed'
  <2>1. Has' \subseteq Has
    BY <1>1, <1>2 DEF Has
  <2> QED
    BY <1>2, <2>1 DEF IInv, HasClaimed
<1>8. Apart'
  <2>1. \A i, k \in 1..Len(work_queue') :
          work_queue'[i] # None /\ work_queue'[i] = work_queue'[k] => i = k
    BY <1>1 DEF IInv, Apart
  <2>2. \A u, v \in Thread : work'[u] # None /\ work'[u] = work'[v] => u = v
    BY <1>2, <1>3 DEF IInv, Apart
  <2>3. \A i \in 1..Len(work_queue') : work_queue'[i] # None => work_queue'[i] # job
    BY <1>1 DEF IInv, Apart
  <2>4. \A u \in Thread : work'[u] # None => work'[u] # job
    BY <1>2, <1>3 DEF IInv, Apart
  <2>5. \A u \in Thread, i \in 1..Len(work_queue') : work'[u] # None => work'[u] # work_queue'[i]
    BY <1>1, <1>2, <1>3 DEF IInv, Apart
  <2> QED
    BY <1>2, <2>1, <2>2, <2>3, <2>4, <2>5 DEF Apart
<1>9. Pending'
  BY <1>1, <1>2, <1>3 DEF IInv, Pending, InFlightIsPending
<1>10. Untouched'
  BY <1>2 DEF IInv, Untouched, Ids
<1> QED
  BY <1>4, <1>5, <1>6, <1>7, <1>8, <1>9, <1>10 DEF IInv

\* A terminal status, asked for by the thread that has the job, or none any more;
\* then the thread goes on to the next job, keeps this one, or dies.
LEMMA EndStep ==
  ASSUME IInv, NEW t \in Thread, NEW p \in {"failed", "guard", "count", "get", "dead"},
         pool[t] \in {"ready", "failed", "guard", "count"}, pool' = [pool EXCEPT ![t] = p],
         UNCHANGED <<main, job, rows, claims, work_queue>>,
         \/ UNCHANGED <<status, durable>>
         \/ \E s \in {"ready", "failed"} : Call(work[t], s),
         \/ p \in AtWork /\ UNCHANGED <<work, unfinished>>
         \/ p \notin AtWork /\ work' = [work EXCEPT ![t] = None] /\ unfinished' = unfinished - 1
  PROVE  IInv'
<1>0. /\ status \in [Request -> Status \cup {Absent}]
      /\ durable \in [Request -> Status \cup {Absent}]
      /\ rows \in Seq(Request) /\ unfinished \in Nat
      /\ work \in [Thread -> Request \cup {None}] /\ pool \in [Thread -> States]
      /\ work_queue \in Seq(Request \cup {None})
  BY DEF IInv, TypeInv
<1>1. work[t] \in Request /\ work[t] \in Ids(claims) /\ main # "start" /\ work[t] # None
  BY <1>0 DEF IInv, Occupied, AtWork, HasClaimed, Has
<1>2. /\ status' \in [Request -> Status \cup {Absent}]
      /\ durable' \in [Request -> Status \cup {Absent}]
      /\ \A q \in Request : q # work[t] => status'[q] = status[q] /\ durable'[q] \in {durable[q], status[q]}
      /\ \A q \in Request : durable'[q] \in Terminal => status'[q] = durable'[q]
  <2>1. \A q \in Request : durable[q] \in Terminal => status[q] = durable[q]
    BY DEF IInv, Untouched
  <2>2. "ready" \in Status /\ "failed" \in Status
    BY DEF Status
  <2> QED
    BY <1>0, <1>1, <2>1, <2>2, CallEffect
<1>3. /\ pool' \in [Thread -> States] /\ work' \in [Thread -> Request \cup {None}]
      /\ pool'[t] = p /\ \A u \in Thread : u # t => pool'[u] = pool[u] /\ work'[u] = work[u]
      /\ p \in AtWork => work'[t] = work[t]
      /\ p \notin AtWork => work'[t] = None
  BY <1>0 DEF States
<1>4. UnfinishedIsWork' /\ unfinished' \in Nat
  <2>1. CASE p \in AtWork
    <3>1. Busy' = Busy
      BY <2>1 DEF Busy
    <3> QED
      BY <1>0, <2>1, <3>1 DEF IInv, UnfinishedIsWork
  <2>2. CASE p \notin AtWork
    <3>1. Cardinality(Busy') = Cardinality(Busy) - 1 /\ Cardinality(Busy) \in Nat \ {0}
      BY <1>0, <1>1, <2>2, BusyFewer
    <3>2. Len(work_queue) \in Nat /\ unfinished = Len(work_queue) + Cardinality(Busy)
      BY <1>0 DEF IInv, UnfinishedIsWork
    <3>3. unfinished' = Len(work_queue') + Cardinality(Busy') /\ unfinished' \in Nat
      BY <2>2, <3>1, <3>2
    <3> QED
      BY <3>3 DEF UnfinishedIsWork
  <2> QED
    BY <2>1, <2>2
<1>5. TypeInv'
  BY <1>2, <1>3, <1>4 DEF IInv, TypeInv
<1>6. Occupied'
  BY <1>1, <1>3 DEF IInv, Occupied
<1>7. HasClaimed'
  <2>1. Has' \subseteq Has \cup {None}
    BY <1>3 DEF Has
  <2> QED
    BY <2>1 DEF IInv, HasClaimed
<1>8. Apart'
  <2>1. \A u \in Thread : work'[u] # None => work'[u] = work[u]
    BY <1>3
  <2> QED
    BY <2>1 DEF IInv, Apart
<1>9. Pending'
  <2>1. /\ \A i \in 1..Len(work_queue) : work_queue[i] # None => work_queue[i] # work[t]
        /\ job # work[t]
        /\ \A u \in Thread : u # t => work[u] # work[t]
        /\ \A u \in Thread : pool[u] \in {"prove", "ready"} => work[u] # None
    BY <1>1 DEF IInv, Apart, Occupied, AtWork
  <2>2. main = "put" => job \in Request
    BY DEF IInv, TypeInv, Occupied, InHand
  <2>3. /\ \A i \in 1..Len(work_queue) : work_queue[i] # None => status'[work_queue[i]] = "pending"
        /\ main = "put" => status'[job] = "pending"
    BY <1>0, <1>2, <2>1, <2>2 DEF IInv, Pending, InFlightIsPending
  <2>4. \A u \in Thread : pool'[u] \in {"prove", "ready"} => u # t /\ status'[work'[u]] = "pending"
    BY <1>0, <1>2, <1>3, <2>1 DEF IInv, Pending, InFlightIsPending
  <2> QED
    BY <2>3, <2>4 DEF Pending, InFlightIsPending
<1>10. Untouched'
  <2>1. main = "mark" => job \in Request /\ job # work[t]
    BY <1>1 DEF IInv, TypeInv, Occupied, InHand, Apart
  <2>2. \A i \in 1..Len(rows) : rows[i] \in Request /\ (rows[i] \notin Ids(claims) => rows[i] # work[t])
    BY <1>0, <1>1
  <2> QED
    BY <1>2, <2>1, <2>2 DEF IInv, Untouched
<1> QED
  BY <1>4, <1>5, <1>6, <1>7, <1>8, <1>9, <1>10 DEF IInv

LEMMA EndSteps ==
  ASSUME IInv, NEW t \in Thread, SetReady(t) \/ SetFailed(t) \/ Guard(t) \/ Count(t)
  PROVE  IInv'
<1>1. UNCHANGED <<main, job, rows, claims, work_queue>>
  BY DEF SetReady, SetFailed, Guard, Count, dispatchVars, queueVars, manifestVars
<1>2. CASE SetReady(t) \/ SetFailed(t)
  <2>1. \E p \in {"failed", "guard", "count"} : pool' = [pool EXCEPT ![t] = p]
    BY <1>2 DEF SetReady, SetFailed, Goto
  <2>2. /\ pool[t] \in {"ready", "failed"} /\ \E s \in {"ready", "failed"} : Call(work[t], s)
        /\ UNCHANGED <<work, unfinished>>
    BY <1>2 DEF SetReady, SetFailed, Goto, Call, queueVars
  <2> QED
    BY <1>1, <2>1, <2>2, EndStep DEF AtWork
<1>3. CASE Guard(t) \/ Count(t)
  <2>1. CASE Guard(t) /\ Goto(t, "guard", "count") /\ UNCHANGED <<work, unfinished>>
    <3>1. Call(work[t], "failed") \/ UNCHANGED <<status, durable>>
      BY <2>1 DEF Guard, Call
    <3> QED
      BY <1>1, <2>1, <3>1, EndStep DEF Goto, AtWork
  <2>2. CASE /\ Guard(t) /\ Goto(t, "guard", "dead")
             /\ work' = [work EXCEPT ![t] = None] /\ unfinished' = unfinished - 1
    <3>1. Call(work[t], "failed") \/ UNCHANGED <<status, durable>>
      BY <2>2 DEF Guard, Call
    <3> QED
      BY <1>1, <2>2, <3>1, EndStep DEF Goto, AtWork
  <2>3. CASE Count(t)
    BY <1>1, <2>3, EndStep DEF Count, Goto, storeVars, AtWork
  <2> QED
    BY <1>3, <2>1, <2>2, <2>3 DEF Guard
<1> QED
  BY <1>2, <1>3

-----------------------------------------------------------------------------
(* The whole process.                                                      *)

\* At the start, and when the process starts over, the worker has nothing.
LEMMA Empty ==
  ASSUME main = "start", WorkerInit,
         status \in [Request -> Status \cup {Absent}], durable = status,
         rows \in Seq(Request), claims \in Seq(Request),
         \A i \in 1..Len(rows) : rows[i] \notin Ids(claims) => status[rows[i]] = "queued"
  PROVE  IInv
<1>1. Has = {None} \/ Has = {None} \cup {}
  BY WorkerAssumption DEF WorkerInit, Has
<1>2. Busy = {} /\ Len(work_queue) = 0 /\ Cardinality(Busy) = 0
  BY FS_EmptySet DEF WorkerInit, Busy
<1>3. TypeInv
  BY DEF WorkerInit, TypeInv, States
<1>4. Occupied /\ Apart
  BY <1>2, Basics DEF WorkerInit, Occupied, Apart, InHand, AtWork
<1>5. Pending /\ Untouched
  BY <1>2 DEF WorkerInit, Pending, InFlightIsPending, Untouched
<1> QED
  BY <1>1, <1>2, <1>3, <1>4, <1>5 DEF IInv, HasClaimed, UnfinishedIsWork, WorkerInit

LEMMA InitInv == Init => IInv
<1> SUFFICES ASSUME Init PROVE IInv
  OBVIOUS
<1>1. rows \in Seq(Request) /\ claims \in Seq(Request) /\ rows = Backlog
  BY ProcessAssumption DEF Init
<1>2. status \in [Request -> Status \cup {Absent}]
  BY DEF Init, Status
<1>3. \A i \in 1..Len(rows) : rows[i] \in Request /\ rows[i] \in Ids(Backlog)
  BY <1>1 DEF Ids
<1> QED
  BY <1>1, <1>2, <1>3, Empty DEF Init

LEMMA RestartStep ==
  ASSUME IInv, Restart
  PROVE  IInv'
<1>0. /\ durable \in [Request -> Status \cup {Absent}]
      /\ rows \in Seq(Request) /\ claims \in Seq(Request)
      /\ \A i \in 1..Len(rows) : rows[i] \notin Ids(claims) => durable[rows[i]] = "queued"
  BY DEF IInv, TypeInv, Untouched
<1>1. /\ main' = "start" /\ status' = durable /\ UNCHANGED <<durable, rows, claims>>
      /\ job' = None /\ work_queue' = <<>> /\ unfinished' = 0
      /\ pool' = [t \in Thread |-> "unstarted"] /\ work' = [t \in Thread |-> None]
  BY DEF Restart, WorkerReset, manifestVars
<1>2. Has' \subseteq {None}
  BY <1>1 DEF Has
<1>3. Busy' = {} /\ Len(work_queue') = 0 /\ Cardinality(Busy') = 0
  BY <1>1, FS_EmptySet DEF Busy
<1>4. TypeInv' /\ Occupied' /\ Apart'
  BY <1>0, <1>1, <1>3, Basics DEF TypeInv, States, Occupied, Apart, InHand, AtWork
<1>5. Pending' /\ Untouched'
  BY <1>0, <1>1, <1>3 DEF Pending, InFlightIsPending, Untouched
<1>6. HasClaimed' /\ UnfinishedIsWork'
  BY <1>1, <1>2, <1>3 DEF HasClaimed, UnfinishedIsWork
<1> QED
  BY <1>4, <1>5, <1>6 DEF IInv

LEMMA StepInv == IInv /\ [Next]_vars => IInv'
<1> SUFFICES ASSUME IInv, [Next]_vars PROVE IInv'
  OBVIOUS
<1>1. CASE MarkPending
  <2>1. UNCHANGED <<rows, claims, work_queue, unfinished, pool, work>>
    BY <1>1 DEF MarkPending, queueVars, poolVars, manifestVars
  <2>2. CASE Set(job, "pending") /\ main' = "put" /\ job' = job
    BY <1>1, <2>1, <2>2, MarkStep DEF MarkPending
  <2>3. CASE SetRaises(job, "pending") /\ main' = "sentinels" /\ job' = None
    BY <1>1, <2>1, <2>3, GiveUp DEF MarkPending, Call
  <2> QED
    BY <1>1, <2>2, <2>3 DEF MarkPending, Finally
<1>2. CASE Interrupt
  BY <1>2, GiveUp DEF Interrupt, Finally, queueVars, poolVars, storeVars, manifestVars
<1>3. CASE PutJob
  <2>1. /\ main = "put" /\ main' = "poll" /\ job' = None /\ Put(job)
        /\ UNCHANGED <<status, durable, rows, claims, pool, work>>
    BY <1>3 DEF PutJob, poolVars, storeVars, manifestVars
  <2>2. main' # "start" /\ main' \notin InHand
    BY <2>1 DEF InHand
  <2> QED
    BY <2>1, <2>2, PutStep
<1>4. CASE PutSentinel /\ sentinels > 0
  <2>1. UNCHANGED <<status, durable, rows, claims, pool, work, main, job>> /\ main = "sentinels"
    BY <1>4 DEF PutSentinel, poolVars, storeVars, manifestVars
  <2>2. Put(None) /\ job = None
    BY <1>4, <2>1 DEF PutSentinel, IInv, Occupied, InHand
  <2>3. main' # "start" /\ main' \notin InHand /\ job' = None
    BY <2>1, <2>2 DEF InHand
  <2> QED
    BY <2>1, <2>2, <2>3, PutStep
<1>5. CASE Restart
  BY <1>5, RestartStep
<1> QED
  BY <1>1, <1>2, <1>3, <1>4, <1>5, ClaimStep, GetStep, EndSteps, QuietSteps
  DEF Next, WorkerStep, Dispatch, ThreadStep

\* The inductive invariant: where jobs may be, and what their statuses say there.
THEOREM Invariance == Spec => []IInv
BY InitInv, StepInv, PTL DEF Spec

\* join (prover_worker.py:200) waits for the items on the queue and the threads at
\* work, and for nothing else, whichever way the threads fail.
THEOREM JoinCounts == Spec => []UnfinishedIsWork
<1>1. IInv => UnfinishedIsWork
  BY DEF IInv
<1> QED
  BY <1>1, Invariance, PTL

\* What is queued for the pool, or being proved, is pending for clients.
THEOREM InFlight == Spec => []InFlightIsPending
<1>1. IInv => InFlightIsPending
  BY DEF IInv, Pending
<1> QED
  BY <1>1, Invariance, PTL

\* Each job is in one place: in hand, on the queue or with one thread.
THEOREM SinglePlace == Spec => []OnePlace
<1>1. IInv => OnePlace
  <2> SUFFICES ASSUME IInv, NEW r \in Request PROVE Cardinality(Places(r)) <= 1
    BY DEF OnePlace
  <2>1. r # None
    BY Basics
  <2>2. \A x, y \in Places(r) : x = y
    BY <2>1 DEF IInv, Apart, Places
  <2>3. CASE Places(r) = {}
    BY <2>3, FS_EmptySet
  <2>4. CASE Places(r) # {}
    <3>1. PICK x : Places(r) = {x}
      BY <2>2, <2>4
    <3>2. Cardinality(Places(r)) = 1
      BY <3>1, FS_Singleton
    <3> QED
      BY <3>2
  <2> QED
    BY <2>3, <2>4
<1> QED
  BY <1>1, Invariance, PTL

\* What has been finished in the file is left, if at all, with a thread that has
\* not put it down yet.
LEMMA FinishedIsPutDown ==
  /\ IInv => \A r \in Request : durable[r] \in Terminal =>
       job # r /\ \A i \in 1..Len(work_queue) : work_queue[i] # r
  /\ IInv' => \A r \in Request : durable'[r] \in Terminal =>
       job' # r /\ \A i \in 1..Len(work_queue') : work_queue'[i] # r
<1>1. \A r \in Request : r # None
  BY Basics
<1>2. "pending" \notin Terminal /\ "queued" \notin Terminal
  BY DEF Terminal, Active
<1>3. IInv => \A r \in Request : durable[r] \in Terminal =>
        job # r /\ \A i \in 1..Len(work_queue) : work_queue[i] # r
  BY <1>1, <1>2 DEF IInv, Occupied, InHand, Pending, InFlightIsPending, Untouched
<1>4. IInv' => \A r \in Request : durable'[r] \in Terminal =>
        job' # r /\ \A i \in 1..Len(work_queue') : work_queue'[i] # r
  BY <1>1, <1>2 DEF IInv, Occupied, InHand, Pending, InFlightIsPending, Untouched
<1> QED
  BY <1>3, <1>4

\* No thread begins with a job that has been finished in the file.
LEMMA FinishedNotTaken ==
  ASSUME IInv, Next, NEW r \in Request, durable[r] \in Terminal
  PROVE  \A t \in Thread : work'[t] = r => work[t] = r
<1>0. work \in [Thread -> Request \cup {None}] /\ r # None
  BY Basics DEF IInv, TypeInv
<1>1. ASSUME NEW u \in Thread, Get(u) PROVE \A t \in Thread : work'[t] = r => work[t] = r
  <2>1. Head(work_queue) # r
    <3>1. work_queue # <<>> /\ work_queue \in Seq(Request \cup {None})
      BY <1>1 DEF Get, IInv, TypeInv
    <3>2. Head(work_queue) = work_queue[1] /\ 1 \in 1..Len(work_queue)
      BY <3>1, TailFacts
    <3> QED
      BY <3>2, FinishedIsPutDown
  <2> QED
    BY <1>0, <1>1, <2>1 DEF Get
<1>2. CASE Restart
  BY <1>0, <1>2 DEF Restart, WorkerReset
<1>3. CASE Dispatch \/ Interrupt
  BY <1>3 DEF Dispatch, StartPool, StartPoolFails, EnoughClaimed, Claim, ClaimRaises, MarkPending,
     PutJob, PutSentinel, Join, Interrupt, poolVars
<1>4. ASSUME NEW u \in Thread,
             Prove(u) \/ SetReady(u) \/ SetFailed(u) \/ Guard(u) \/ Count(u)
      PROVE  \A t \in Thread : work'[t] = r => work[t] = r
  <2>1. work' = work \/ work' = [work EXCEPT ![u] = None]
    BY <1>4 DEF Prove, SetReady, SetFailed, Guard, Count
  <2> QED
    BY <1>0, <2>1
<1> QED
  BY <1>1, <1>2, <1>3, <1>4 DEF Next, WorkerStep, ThreadStep

\* A step makes one call of the store, or a restart reads the file, or the statuses
\* are left alone.
LEMMA StatusEffect ==
  ASSUME IInv, Next
  PROVE  \/ \E q \in Request, s \in {"pending", "ready", "failed"} : Call(q, s)
         \/ UNCHANGED <<status, durable>>
         \/ status' = durable /\ durable' = durable
<1>1. CASE MarkPending
  <2>1. job \in Request /\ Call(job, "pending")
    BY <1>1 DEF MarkPending, Call, IInv, TypeInv, Occupied, InHand
  <2> QED
    BY <2>1
<1>2. ASSUME NEW t \in Thread, SetReady(t) \/ SetFailed(t) \/ Guard(t)
      PROVE  \E q \in Request, s \in {"ready", "failed"} : Call(q, s)
  <2>1. work[t] \in Request
    BY <1>2 DEF SetReady, SetFailed, Guard, Goto, IInv, TypeInv, Occupied, AtWork
  <2>2. Call(work[t], "ready") \/ Call(work[t], "failed")
    BY <1>2 DEF SetReady, SetFailed, Guard, Call
  <2> QED
    BY <2>1, <2>2
<1>3. ASSUME NEW t \in Thread, Get(t) \/ Prove(t) \/ Count(t)
      PROVE  UNCHANGED <<status, durable>>
  BY <1>3 DEF Get, Prove, Count, storeVars
<1>4. CASE \/ StartPool \/ StartPoolFails \/ EnoughClaimed \/ Claim \/ ClaimRaises
           \/ PutJob \/ PutSentinel \/ Join \/ Interrupt \/ Restart
  BY <1>4 DEF StartPool, StartPoolFails, EnoughClaimed, Claim, ClaimRaises, PutJob, PutSentinel,
     Join, Interrupt, Restart, storeVars
<1> QED
  BY <1>1, <1>2, <1>3, <1>4 DEF Next, WorkerStep, Dispatch, ThreadStep

\* A terminal status in the file stays.
LEMMA FinishedStays ==
  ASSUME IInv, Next, NEW r \in Request, durable[r] \in Terminal
  PROVE  durable'[r] = durable[r]
<1>0. /\ status \in [Request -> Status \cup {Absent}]
      /\ durable \in [Request -> Status \cup {Absent}]
      /\ \A q \in Request : durable[q] \in Terminal => status[q] = durable[q]
      /\ {"pending", "ready", "failed"} \subseteq Status
  BY DEF IInv, TypeInv, Untouched, Status
<1>1. ASSUME NEW q \in Request, NEW s \in {"pending", "ready", "failed"}, Call(q, s)
      PROVE  durable'[r] = durable[r]
  BY <1>0, <1>1, CallEffect
<1> QED
  BY <1>1, StatusEffect

\* A job whose terminal status has reached the file comes back to no place of the
\* worker, through claims, restarts and failures, and keeps that status.
THEOREM FinishedForGood == Spec => NeverProvedAgain
<1>1. IInv /\ IInv' /\ [Next]_vars =>
        [\A r \in Request : durable[r] \in Terminal =>
           durable'[r] = durable[r] /\ Places(r)' \subseteq Places(r)]_vars
  <2> SUFFICES ASSUME IInv, IInv', Next, NEW r \in Request, durable[r] \in Terminal
               PROVE  durable'[r] = durable[r] /\ Places(r)' \subseteq Places(r)
    OBVIOUS
  <2>1. durable'[r] = durable[r] /\ \A t \in Thread : work'[t] = r => work[t] = r
    BY FinishedStays, FinishedNotTaken
  <2>2. job' # r /\ \A i \in 1..Len(work_queue') : work_queue'[i] # r
    BY <2>1, FinishedIsPutDown
  <2>3. Places(r)' \subseteq {<<"pool", t>> : t \in {t \in Thread : work'[t] = r}}
    BY <2>2 DEF Places
  <2>4. {<<"pool", t>> : t \in {t \in Thread : work'[t] = r}} \subseteq Places(r)
    BY <2>1 DEF Places
  <2> QED
    BY <2>1, <2>3, <2>4
<1> QED
  BY <1>1, StepInv, Invariance, PTL DEF Spec, NeverProvedAgain

-----------------------------------------------------------------------------
(* The claims and the statuses, through every restart.                     *)

\* The claims are the first jobs, and each job is there once.
InOrder ==
  /\ \A i, k \in 1..Len(rows) : rows[i] = rows[k] => i = k
  /\ Len(claims) <= Len(rows)
  /\ \A i \in 1..Len(claims) : claims[i] = rows[i]

\* claim_next takes the job that follows the claims.
LEMMA OldestIsNext ==
  ASSUME rows \in Seq(Request), claims \in Seq(Request), InOrder, Unclaimed # {}
  PROVE  Len(claims) < Len(rows) /\ Oldest = rows[Len(claims) + 1]
<1> DEFINE n == Len(claims)
<1>1. n \in Nat /\ Len(rows) \in Nat /\ n <= Len(rows)
  BY DEF InOrder
<1>2. \A i \in 1..Len(rows) : rows[i] \in Ids(claims) <=> i <= n
  <2>1. \A i \in 1..Len(rows) : i <= n => rows[i] \in Ids(claims)
    BY <1>1 DEF InOrder, Ids
  <2>2. ASSUME NEW i \in 1..Len(rows), rows[i] \in Ids(claims) PROVE i <= n
    <3>1. PICK k \in 1..n : rows[i] = claims[k]
      BY <2>2 DEF Ids
    <3>2. k \in 1..Len(rows) /\ rows[i] = rows[k]
      BY <1>1, <3>1 DEF InOrder
    <3> QED
      BY <1>1, <3>2 DEF InOrder
  <2> QED
    BY <2>1, <2>2
<1>3. Unclaimed = (n + 1)..Len(rows)
  BY <1>1, <1>2 DEF Unclaimed
<1>4. n < Len(rows)
  BY <1>1, <1>3
<1>5. (CHOOSE i \in Unclaimed : \A k \in Unclaimed : i <= k) = n + 1
  BY <1>1, <1>3, <1>4
<1> QED
  BY <1>4, <1>5 DEF Oldest

Handoff == INSTANCE JobHandoff WITH Job <- Request, sent <- rows, taken <- claims

\* The manifest never changes under the worker; a claim is the next job.
LEMMA ClaimIsNext ==
  ASSUME IInv, InOrder, [Next]_vars
  PROVE  rows' = rows /\ (Handoff!Take \/ claims' = claims)
<1>1. CASE Claim
  <2>1. Len(claims) < Len(rows) /\ Oldest = rows[Len(claims) + 1]
    BY <1>1, OldestIsNext DEF Claim, IInv, TypeInv
  <2> QED
    BY <1>1, <2>1 DEF Claim, Handoff!Take
<1>2. CASE \/ StartPool \/ StartPoolFails \/ EnoughClaimed \/ ClaimRaises \/ MarkPending
           \/ PutJob \/ PutSentinel \/ Join \/ Interrupt \/ Restart
  BY <1>2 DEF StartPool, StartPoolFails, EnoughClaimed, ClaimRaises, MarkPending, PutJob,
     PutSentinel, Join, Interrupt, Restart, manifestVars
<1>3. ASSUME NEW t \in Thread, ThreadStep(t) PROVE UNCHANGED <<rows, claims>>
  BY <1>3 DEF ThreadStep, Get, Prove, SetReady, SetFailed, Guard, Count, manifestVars
<1>4. CASE UNCHANGED vars
  BY <1>4 DEF vars, manifestVars
<1> QED
  BY <1>1, <1>2, <1>3, <1>4 DEF Next, WorkerStep, Dispatch

LEMMA InOrderStep == IInv /\ InOrder /\ [Next]_vars => InOrder'
<1> SUFFICES ASSUME IInv, InOrder, [Next]_vars PROVE InOrder'
  OBVIOUS
<1>0. rows \in Seq(Request) /\ claims \in Seq(Request) /\ rows' = rows
  BY ClaimIsNext DEF IInv, TypeInv
<1>1. CASE claims' = claims
  BY <1>0, <1>1 DEF InOrder
<1>2. CASE Handoff!Take
  <2>1. Len(claims) < Len(rows) /\ claims' = Append(claims, rows[Len(claims) + 1])
    BY <1>2 DEF Handoff!Take
  <2>2. rows[Len(claims) + 1] \in Request
    BY <1>0, <2>1
  <2>3. /\ Len(claims') = Len(claims) + 1
        /\ claims'[Len(claims) + 1] = rows[Len(claims) + 1]
        /\ \A i \in 1..Len(claims) : claims'[i] = claims[i]
    BY <1>0, <2>1, <2>2, AppendFacts
  <2>4. Len(claims) \in Nat /\ Len(claims') <= Len(rows')
    BY <1>0, <2>1, <2>3
  <2>5. \A i \in 1..Len(claims') : claims'[i] = rows'[i]
    BY <1>0, <2>3, <2>4 DEF InOrder
  <2> QED
    BY <1>0, <2>4, <2>5 DEF InOrder
<1> QED
  BY <1>1, <1>2, ClaimIsNext

\* Over all the calls of run that crashes, errors and interrupts make necessary, no
\* job of the backlog is claimed twice or before an older one: every step is one of
\* JobHandoff's.
THEOREM ClaimsGoOn == Spec => []InOrder /\ [][Handoff!Next]_<<rows, claims>>
<1>1. Init => InOrder
  BY ProcessAssumption DEF Init, InOrder
<1>2. IInv /\ InOrder /\ [Next]_vars => [Handoff!Next]_<<rows, claims>>
  BY ClaimIsNext DEF Handoff!Next
<1> QED
  BY <1>1, <1>2, InOrderStep, Invariance, PTL DEF Spec

Contract == INSTANCE StatusStore

\* Seen from the statuses, the worker, its failures and its restarts do nothing
\* that StatusStore would not; a restart is where memory goes back to the file.
THEOREM WorkerKeepsContract == Spec => [][Contract!Next]_(Contract!vars)
<1>1. ASSUME NEW r \in Request, NEW s \in {"pending", "ready", "failed"}, Call(r, s)
      PROVE  Contract!Next \/ UNCHANGED <<status, durable>>
  <2>1. Contract!CheckTransition(status[r], s) <=> CheckTransition(status[r], s)
    BY DEF CheckTransition, AllowedTransitions, InitialStatus, Absent, Contract!CheckTransition,
       Contract!AllowedTransitions, Contract!InitialStatus, Contract!Absent
  <2>2. Contract!Move(r, s) \/ UNCHANGED <<status, durable>>
    BY <1>1, <2>1 DEF Call, Set, SetRaises, SetNotPersisted, SetRejected, storeVars, Contract!Move
  <2> QED
    BY <2>2 DEF Contract!Next, Contract!Status
<1>2. IInv /\ [Next]_vars => [Contract!Next]_(Contract!vars)
  <2> SUFFICES ASSUME IInv, [Next]_vars
               PROVE  Contract!Next \/ UNCHANGED <<status, durable>>
    BY DEF Contract!vars
  <2>1. CASE Next
    BY <1>1, <2>1, StatusEffect DEF Contract!Next, Contract!Lose
  <2>2. CASE UNCHANGED vars
    BY <2>2 DEF vars, storeVars
  <2> QED
    BY <2>1, <2>2
<1> QED
  BY <1>2, Invariance, PTL DEF Spec
=============================================================================
