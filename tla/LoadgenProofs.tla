---------------------------- MODULE LoadgenProofs ----------------------------
(***************************************************************************)
(* Loadgen proved for any requests and for files that may fail: the two    *)
(* callers of run_once share a claims file that does not keep them apart,  *)
(* and the transition check of the store is what does.  The last parts say *)
(* what StatusStore, the contract that is kept here, gives to any program, *)
(* and why a proof that was begun comes to its end if the process lives.   *)
(***************************************************************************)
EXTENDS Loadgen, WellFoundedInduction, TLAPS

TypeInv ==
  /\ status \in [Request -> Status \cup {Absent}]
  /\ rows \in Seq(Request)
  /\ once \in [Caller -> {"idle", "claim", "mark", "prove", "ready", "failed", "raised"}]
  /\ work \in [Caller -> Request \cup {None}]
  /\ \A c \in Caller : once[c] \notin {"idle", "raised"} => work[c] \in Request

\* What a caller has begun to prove is past "queued", and pending as long as the
\* caller has not asked for a terminal status.
BegunIsPastQueued ==
  \A c \in Caller : once[c] \in Proving => status[work[c]] \in {"pending", "ready", "failed"}

Apart ==
  \A c, d \in Caller : c # d /\ once[c] \in Proving /\ once[d] \in Proving => work[c] # work[d]

IInv == TypeInv /\ BegunIsPastQueued /\ Apart /\ ProvingIsPending

-----------------------------------------------------------------------------
LEMMA LeastNatural ==
  ASSUME NEW T \in SUBSET Nat, T # {}
  PROVE  \E i \in T : \A k \in T : i <= k
<1> DEFINE R == OpToRel(<, Nat)
<1>1. \E i \in T : \A k \in T : ~ (<<k, i>> \in R)
  <2> HIDE DEF R
  <2>1. IsWellFoundedOn(R, Nat)
    BY NatLessThanWellFounded DEF R
  <2> QED
    BY <2>1, WFMin
<1>2. R = {ss \in Nat \X Nat : ss[1] < ss[2]}
  BY DEF OpToRel
<1>3. \A i, k \in Nat : k < i => <<k, i>> \in R
  <2> HIDE DEF R
  <2> QED
    BY <1>2
<1>4. PICK i \in T : \A k \in T : ~ (<<k, i>> \in R)
  BY <1>1
<1>5. \A k \in T : ~(k < i)
  BY <1>3, <1>4, ZenonT(20)
<1>6. \A k \in T : i <= k
  BY <1>5
<1> QED
  BY <1>6

\* claim_next takes one of the jobs.
LEMMA OldestIsRequest ==
  ASSUME rows \in Seq(Request), Unclaimed # {}
  PROVE  Oldest \in Request
<1>1. Unclaimed \in SUBSET Nat /\ Unclaimed \subseteq 1..Len(rows)
  BY DEF Unclaimed
<1>2. \E i \in Unclaimed : \A k \in Unclaimed : i <= k
  BY <1>1, LeastNatural
<1>3. (CHOOSE i \in Unclaimed : \A k \in Unclaimed : i <= k) \in 1..Len(rows)
  BY <1>1, <1>2
<1> QED
  BY <1>3 DEF Oldest

LEMMA CallersDiffer == Caller = {Loop, Main} /\ Loop # Main
BY LoadgenAssumption DEF Caller

\* What a store call may do: nothing, or one transition of one request.
Called(r, s) ==
  \/ UNCHANGED status
  \/ CheckTransition(status[r], s) /\ status' = [status EXCEPT ![r] = s]

LEMMA Calls ==
  ASSUME NEW r, NEW s
  PROVE  (Set(r, s) => Called(r, s)) /\ (SetRaises(r, s) => Called(r, s))
BY DEF Set, SetRaises, SetNotPersisted, SetRejected, storeVars, Called

\* The requests that are past "queued" stay as post_infer finds them.
LEMMA PostCalls ==
  ASSUME NEW r \in Request, PostStep(r)
  PROVE  UNCHANGED status \/ \E s \in InitialStatus : Called(r, s)
BY Calls DEF PostStep, Accept, PersistWitness, AppendJob, SetQueued, AnnotateQueued, SetDropped,
   SetNotSampled, AnnotateLast, SetGauges, Annotate, AnnotateRaises, storeVars, InitialStatus

LEMMA PostRows ==
  ASSUME NEW r \in Request, PostStep(r), rows \in Seq(Request)
  PROVE  rows' \in Seq(Request)
<1>1. rows' = rows \/ rows' = Append(rows, r)
  BY DEF PostStep, Accept, PersistWitness, AppendJob, SetQueued, AnnotateQueued, SetDropped,
     SetNotSampled, AnnotateLast, SetGauges, manifestVars, Enqueue, EnqueueRaises
<1> QED
  BY <1>1

-----------------------------------------------------------------------------
LEMMA InitInv == Init => IInv
BY DEF Init, IInv, TypeInv, BegunIsPastQueued, Apart, ProvingIsPending, Proving

\* A post changes no request that a caller has begun to prove.
LEMMA LoadStep ==
  ASSUME IInv, NEW r \in Request, Load(r)
  PROVE  IInv'
<1>0. /\ status \in [Request -> Status \cup {Absent}] /\ rows \in Seq(Request)
      /\ once \in [Caller -> {"idle", "claim", "mark", "prove", "ready", "failed", "raised"}]
      /\ work \in [Caller -> Request \cup {None}]
      /\ \A c \in Caller : once[c] \notin {"idle", "raised"} => work[c] \in Request
  BY DEF IInv, TypeInv
<1>1. PostStep(r) /\ once' = once /\ work' = work
  BY DEF Load, onceVars
<1>2. rows' \in Seq(Request)
  BY <1>0, <1>1, PostRows
<1>3. /\ status' \in [Request -> Status \cup {Absent}]
      /\ \A q \in Request : status[q] \in {"pending", "ready", "failed"} => status'[q] = status[q]
  BY <1>0, <1>1, PostCalls DEF Called, CheckTransition, AllowedTransitions, InitialStatus,
     Status, Absent
<1>4. TypeInv'
  BY <1>0, <1>1, <1>2, <1>3 DEF TypeInv
<1> QED
  BY <1>0, <1>1, <1>3, <1>4 DEF IInv, BegunIsPastQueued, Apart, ProvingIsPending, Proving

\* Finding and claiming a job touches no status, and begins no proof.
LEMMA ClaimStep ==
  ASSUME IInv, NEW c \in Caller, FindJob(c) \/ FindJobRaises(c) \/ ClaimJob(c)
  PROVE  IInv'
<1>0. /\ status \in [Request -> Status \cup {Absent}] /\ rows \in Seq(Request)
      /\ once \in [Caller -> {"idle", "claim", "mark", "prove", "ready", "failed", "raised"}]
      /\ work \in [Caller -> Request \cup {None}]
      /\ \A d \in Caller : once[d] \notin {"idle", "raised"} => work[d] \in Request
  BY DEF IInv, TypeInv
<1>1. /\ status' = status /\ rows' = rows
      /\ \E p \in {"claim", "mark", "raised"}, w \in Request \cup {None} :
           /\ once' = [once EXCEPT ![c] = p] /\ work' = [work EXCEPT ![c] = w]
           /\ p = "raised" \/ w \in Request
  <2>1. CASE FindJob(c)
    BY <1>0, <2>1, OldestIsRequest DEF FindJob, Goto, storeVars, manifestVars
  <2>2. CASE FindJobRaises(c)
    BY <1>0, <2>2 DEF FindJobRaises, Goto, storeVars, manifestVars
  <2>3. CASE ClaimJob(c)
    BY <1>0, <2>3 DEF ClaimJob, Goto, storeVars
  <2> QED
    BY <2>1, <2>2, <2>3
<1>2. PICK p \in {"claim", "mark", "raised"}, w \in Request \cup {None} :
        /\ once' = [once EXCEPT ![c] = p] /\ work' = [work EXCEPT ![c] = w]
        /\ p = "raised" \/ w \in Request
  BY <1>1
<1>3. /\ once'[c] = p /\ work'[c] = w
      /\ \A d \in Caller : d # c => once'[d] = once[d] /\ work'[d] = work[d]
  BY <1>0, <1>2
<1>4. TypeInv'
  BY <1>0, <1>1, <1>2, <1>3 DEF TypeInv
<1> QED
  BY <1>1, <1>3, <1>4 DEF IInv, BegunIsPastQueued, Apart, ProvingIsPending, Proving

\* The store accepts "pending" only of a request that is queued, so of one that
\* no other caller has begun to prove.
LEMMA MarkStep ==
  ASSUME IInv, NEW c \in Caller, MarkPending(c)
  PROVE  IInv'
<1>0. /\ status \in [Request -> Status \cup {Absent}] /\ rows \in Seq(Request)
      /\ once \in [Caller -> {"idle", "claim", "mark", "prove", "ready", "failed", "raised"}]
      /\ work \in [Caller -> Request \cup {None}]
      /\ \A d \in Caller : once[d] \notin {"idle", "raised"} => work[d] \in Request
  BY DEF IInv, TypeInv
<1>1. once[c] = "mark" /\ rows' = rows /\ work[c] \in Request
  BY <1>0 DEF MarkPending, Goto, manifestVars
<1>2. /\ status' \in [Request -> Status \cup {Absent}]
      /\ \A q \in Request : status[q] \in {"pending", "ready", "failed"} => status'[q] = status[q]
  <2>1. Called(work[c], "pending")
    BY Calls DEF MarkPending
  <2> QED
    BY <1>0, <1>1, <2>1 DEF Called, CheckTransition, AllowedTransitions, InitialStatus,
       Status, Absent
<1>3. CASE Set(work[c], "pending") /\ Goto(c, "mark", "prove") /\ work' = work
  <2>1. /\ status[work[c]] = "queued" /\ status'[work[c]] = "pending"
        /\ once'[c] = "prove" /\ \A d \in Caller : d # c => once'[d] = once[d]
    BY <1>0, <1>1, <1>3 DEF Set, Goto, CheckTransition, AllowedTransitions, InitialStatus,
       Status, Absent
  <2>2. \A d \in Caller : once[d] \in Proving => work[d] # work[c]
    BY <2>1 DEF IInv, BegunIsPastQueued
  <2>3. TypeInv'
    BY <1>0, <1>1, <1>2, <1>3, <2>1 DEF TypeInv, Goto
  <2>4. \A d \in Caller : once'[d] \in Proving => d = c \/ once[d] \in Proving
    BY <2>1
  <2>5. BegunIsPastQueued'
    BY <1>0, <1>2, <1>3, <2>1, <2>4 DEF IInv, BegunIsPastQueued, Proving
  <2>6. Apart'
    BY <1>3, <2>2, <2>4 DEF IInv, Apart
  <2>7. ProvingIsPending'
    BY <1>0, <1>2, <1>3, <2>1 DEF IInv, ProvingIsPending
  <2> QED
    BY <2>3, <2>5, <2>6, <2>7 DEF IInv
<1>4. CASE Goto(c, "mark", "raised") /\ work' = [work EXCEPT ![c] = None]
  <2>1. /\ once'[c] = "raised"
        /\ \A d \in Caller : d # c => once'[d] = once[d] /\ work'[d] = work[d]
    BY <1>0, <1>4 DEF Goto
  <2>2. TypeInv'
    BY <1>0, <1>1, <1>2, <1>4, <2>1 DEF TypeInv, Goto
  <2> QED
    BY <1>0, <1>2, <2>1, <2>2 DEF IInv, BegunIsPastQueued, Apart, ProvingIsPending, Proving
<1> QED
  BY <1>3, <1>4 DEF MarkPending

\* A proof attempt and its terminal status concern the job of this caller only.
LEMMA ProveStep ==
  ASSUME IInv, NEW c \in Caller, Prove(c) \/ SetReady(c) \/ SetFailed(c)
  PROVE  IInv'
<1>0. /\ status \in [Request -> Status \cup {Absent}] /\ rows \in Seq(Request)
      /\ once \in [Caller -> {"idle", "claim", "mark", "prove", "ready", "failed", "raised"}]
      /\ work \in [Caller -> Request \cup {None}]
      /\ \A d \in Caller : once[d] \notin {"idle", "raised"} => work[d] \in Request
  BY DEF IInv, TypeInv
<1>1. once[c] \in Proving /\ rows' = rows /\ work[c] \in Request
  BY <1>0 DEF Prove, SetReady, SetFailed, Goto, Proving, manifestVars
<1>2. /\ \A d \in Caller : d # c => once'[d] = once[d] /\ work'[d] = work[d]
      /\ once' \in [Caller -> {"idle", "claim", "mark", "prove", "ready", "failed", "raised"}]
      /\ work' \in [Caller -> Request \cup {None}]
      /\ \/ once'[c] \in {"idle", "raised"}
         \/ once'[c] = "failed" /\ work'[c] = work[c]
         \/ once'[c] = "ready" /\ work'[c] = work[c] /\ once[c] = "prove" /\ status' = status
  BY <1>0 DEF Prove, SetReady, SetFailed, Goto, storeVars
<1>3. UNCHANGED status \/ \E s \in {"ready", "failed"} : Called(work[c], s)
  BY Calls DEF Prove, SetReady, SetFailed, storeVars
<1>4. /\ status' \in [Request -> Status \cup {Absent}]
      /\ \A q \in Request : q # work[c] => status'[q] = status[q]
      /\ status'[work[c]] \in {"pending", "ready", "failed"}
  <2>1. status[work[c]] \in {"pending", "ready", "failed"}
    BY <1>1 DEF IInv, BegunIsPastQueued
  <2> QED
    BY <1>0, <1>1, <1>3, <2>1 DEF Called, CheckTransition, AllowedTransitions, Status, Absent
<1>5. \A d \in Caller : d # c /\ once[d] \in Proving => work[d] # work[c]
  BY <1>1 DEF IInv, Apart
<1>6. TypeInv'
  BY <1>0, <1>1, <1>2, <1>4 DEF TypeInv
<1> QED
  BY <1>0, <1>1, <1>2, <1>4, <1>5, <1>6
  DEF IInv, BegunIsPastQueued, Apart, ProvingIsPending, Proving

LEMMA StepInv == IInv /\ [Next]_vars => IInv'
<1> SUFFICES ASSUME IInv, [Next]_vars PROVE IInv'
  OBVIOUS
<1>1. CASE UNCHANGED vars
  BY <1>1 DEF vars, storeVars, manifestVars, onceVars, IInv, TypeInv, BegunIsPastQueued, Apart,
     ProvingIsPending
<1>2. CASE StopLoad \/ StopWorker \/ EndDrain \/ Exit
  BY <1>2 DEF StopLoad, StopWorker, EndDrain, Exit, storeVars, manifestVars, onceVars, IInv, TypeInv,
     BegunIsPastQueued, Apart, ProvingIsPending
<1> QED
  BY <1>1, <1>2, LoadStep, ClaimStep, MarkStep, ProveStep DEF Next, RunOnce

\* The inductive invariant behind the two theorems on run_once.
THEOREM Invariance == Spec => []IInv
BY InitInv, StepInv, PTL DEF Spec

\* The worker thread and the drain of the main thread never prove the same
\* request, however often they are handed the same job.
THEOREM OneProver == Spec => []ProvedOnce
<1>1. IInv => ProvedOnce
  BY CallersDiffer DEF IInv, Apart, ProvedOnce
<1> QED
  BY <1>1, Invariance, PTL

\* What is being proved is pending for clients until its caller says otherwise.
THEOREM PendingWhileProving == Spec => []ProvingIsPending
<1>1. IInv => ProvingIsPending
  BY DEF IInv
<1> QED
  BY <1>1, Invariance, PTL

\* Seen from the statuses, load threads, worker thread and drain do nothing that
\* StatusStore would not: rejected, failed and racing calls included.
THEOREM KeepsContract == Spec => StoreContract
<1>1. Init => Contract!Init
  BY DEF Init, Contract!Init, Contract!Absent, Absent
<1>2. IInv /\ [Next]_vars => [Contract!Next]_(Contract!vars)
  <2> SUFFICES ASSUME IInv, [Next]_vars
               PROVE  Contract!Next \/ (status' = status /\ durable' = durable)
    BY DEF Contract!vars
  <2>1. ASSUME NEW r \in Request, NEW s \in Status, Set(r, s) \/ SetRaises(r, s)
        PROVE  Contract!Next \/ (status' = status /\ durable' = durable)
    <3>1. Contract!CheckTransition(status[r], s) <=> CheckTransition(status[r], s)
      BY DEF CheckTransition, AllowedTransitions, InitialStatus, Absent, Contract!CheckTransition,
         Contract!AllowedTransitions, Contract!InitialStatus, Contract!Absent
    <3>2. Contract!Move(r, s) \/ (status' = status /\ durable' = durable)
      BY <2>1, <3>1 DEF Set, SetRaises, SetNotPersisted, SetRejected, storeVars, Contract!Move
    <3> QED
      BY <3>2 DEF Contract!Next, Contract!Status, Status
  <2>2. ASSUME NEW r \in Request, Load(r)
        PROVE  Contract!Next \/ (status' = status /\ durable' = durable)
    <3>1. CASE Annotate
      BY <3>1 DEF Annotate, Contract!Next, Contract!Publish
    <3>2. CASE UNCHANGED storeVars
      BY <3>2 DEF storeVars
    <3>3. CASE \E s \in InitialStatus : Set(r, s) \/ SetRaises(r, s)
      BY <2>1, <3>3 DEF InitialStatus, Status
    <3> QED
      BY <2>2, <3>1, <3>2, <3>3 DEF Load, PostStep, Accept, PersistWitness, AppendJob, SetQueued,
         AnnotateQueued, SetDropped, SetNotSampled, AnnotateLast, SetGauges, AnnotateRaises,
         InitialStatus
  <2>3. ASSUME NEW c \in Caller, RunOnce(c)
        PROVE  Contract!Next \/ (status' = status /\ durable' = durable)
    <3>1. CASE UNCHANGED storeVars
      BY <3>1 DEF storeVars
    <3>2. CASE MarkPending(c) \/ SetReady(c) \/ SetFailed(c)
      <4>1. work[c] \in Request
        BY <3>2 DEF IInv, TypeInv, MarkPending, SetReady, SetFailed, Goto
      <4> QED
        BY <2>1, <3>2, <4>1 DEF MarkPending, SetReady, SetFailed, Status
    <3> QED
      BY <2>3, <3>1, <3>2 DEF RunOnce, FindJob, FindJobRaises, ClaimJob, Prove
  <2>4. CASE StopLoad \/ StopWorker \/ EndDrain \/ Exit \/ UNCHANGED vars
    BY <2>4 DEF StopLoad, StopWorker, EndDrain, Exit, vars, storeVars
  <2> QED
    BY <2>2, <2>3, <2>4 DEF Next
<1> QED
  BY <1>1, <1>2, Invariance, PTL DEF Spec, StoreContract, Contract!Spec

-----------------------------------------------------------------------------
(* What follows from the contract alone, of whatever implements it.        *)

\* The transition table stays within what may come later, and so do two moves.
LEMMA MoveAdvances ==
  ASSUME NEW a \in Contract!Status \cup {Contract!Absent},
         NEW b \in Contract!Status \cup {Contract!Absent}, NEW c \in Contract!Status,
         Contract!Advances(a, b), Contract!CheckTransition(b, c)
  PROVE  Contract!Advances(a, c)
BY DEF Contract!CheckTransition, Contract!AllowedTransitions, Contract!Advances, Contract!Status,
   Contract!Absent, Contract!InitialStatus

ContractInv == Contract!StoreTypeOK /\ Contract!NotAhead

LEMMA ContractInit == Contract!Init => ContractInv
BY DEF Contract!Init, ContractInv, Contract!StoreTypeOK, Contract!NotAhead, Contract!Advances

LEMMA ContractStep == ContractInv /\ [Contract!Next]_(Contract!vars) => ContractInv'
<1> SUFFICES ASSUME ContractInv, [Contract!Next]_(Contract!vars) PROVE ContractInv'
  OBVIOUS
<1> USE DEF ContractInv, Contract!StoreTypeOK, Contract!NotAhead
<1>1. ASSUME NEW r \in Request, NEW s \in Contract!Status, Contract!Move(r, s)
      PROVE  ContractInv'
  <2>1. Contract!Advances(durable[r], s)
    BY <1>1, MoveAdvances DEF Contract!Move
  <2> QED
    BY <1>1, <2>1 DEF Contract!Move, Contract!Advances
<1>2. CASE Contract!Publish
  BY <1>2 DEF Contract!Publish, Contract!Advances
<1>3. CASE Contract!Lose
  BY <1>3 DEF Contract!Lose, Contract!Advances
<1>4. CASE UNCHANGED Contract!vars
  BY <1>4 DEF Contract!vars
<1> QED
  BY <1>1, <1>2, <1>3, <1>4 DEF Contract!Next

\* A restart never finds a status the request had not come to
\* (proof_store.py: memory is changed first and persisted second).
THEOREM FileNotAhead == Contract!Spec => []Contract!NotAhead
<1>1. ContractInv => Contract!NotAhead
  BY DEF ContractInv
<1> QED
  BY <1>1, ContractInit, ContractStep, PTL DEF Contract!Spec

\* Through any failures and crashes the file only moves forward; a terminal
\* status that has reached it stays.
THEOREM FileOnlyForward == Contract!Spec => Contract!OnlyForward
<1>1. ContractInv /\ [Contract!Next]_(Contract!vars)
        => [\A r \in Request : Contract!Advances(durable[r], durable'[r])]_(Contract!vars)
  <2> SUFFICES ASSUME ContractInv, Contract!Next, NEW r \in Request
               PROVE  Contract!Advances(durable[r], durable'[r])
    OBVIOUS
  <2>1. ASSUME NEW q \in Request, NEW s \in Contract!Status, Contract!Move(q, s)
        PROVE  Contract!Advances(durable[r], durable'[r])
    <3>1. Contract!Advances(durable[q], s)
      BY <2>1, MoveAdvances
      DEF Contract!Move, ContractInv, Contract!StoreTypeOK, Contract!NotAhead
    <3> QED
      BY <2>1, <3>1
      DEF Contract!Move, ContractInv, Contract!StoreTypeOK, Contract!NotAhead, Contract!Advances
  <2>2. CASE Contract!Publish
    BY <2>2 DEF Contract!Publish, ContractInv, Contract!NotAhead
  <2>3. CASE Contract!Lose
    BY <2>3 DEF Contract!Lose, Contract!Advances
  <2> QED
    BY <2>1, <2>2, <2>3 DEF Contract!Next
<1> QED
  BY <1>1, ContractInit, ContractStep, PTL DEF Contract!Spec, Contract!OnlyForward

\* The measurement inherits both: whatever the load threads, the worker thread and
\* the drain do at once, a status that a restart would find is one the request has
\* come to, and it only moves forward.
THEOREM LoadKeepsFile == Spec => []Contract!NotAhead /\ Contract!OnlyForward
BY KeepsContract, FileNotAhead, FileOnlyForward DEF StoreContract

-----------------------------------------------------------------------------
(* A proof that is begun ends: the part of it that is about steps.         *)

\* What a caller with a proof at hand needs for its next step is there: the store
\* takes the terminal status, or has it already.  Only the worker thread may find
\* that the process is gone, and never the drain.
NextIsOpen ==
  \A c \in Caller : once[c] \in Proving =>
    \/ c = Loop /\ phase = "exited"
    \/ /\ phase # "exited"
       /\ once[c] = "ready" => CheckTransition(status[work[c]], "ready")
       /\ once[c] = "failed" =>
            \/ CheckTransition(status[work[c]], "failed")
            \/ status[work[c]] \in {"ready", "failed"}

StepsLeft == [prove |-> 3, ready |-> 2, failed |-> 1]

\* Until a request that a caller has begun to prove has its terminal status, the
\* caller does not let go of it; each of the caller's steps brings that status
\* nearer, and nobody else's puts it off.
ProofGoesOn ==
  [][\A c \in Caller :
       once[c] \in Proving /\ status'[work[c]] \notin {"ready", "failed"} =>
         /\ once'[c] \in Proving /\ work'[c] = work[c]
         /\ IF RunOnce(c) THEN StepsLeft[once'[c]] < StepsLeft[once[c]] ELSE once'[c] = once[c]]_vars

\* The main thread is in run_once during the drain only.
DrainIsMain == once[Main] \notin {"idle", "raised"} => phase = "drain"

\* The steps of one caller leave the other where it is.
LEMMA OthersStay ==
  ASSUME IInv, NEW c \in Caller, NEW d \in Caller, RunOnce(d), c # d
  PROVE  once'[c] = once[c] /\ work'[c] = work[c]
<1>0. /\ once \in [Caller -> {"idle", "claim", "mark", "prove", "ready", "failed", "raised"}]
      /\ work \in [Caller -> Request \cup {None}]
  BY DEF IInv, TypeInv
<1>1. CASE FindJob(d) \/ FindJobRaises(d) \/ ClaimJob(d)
  BY <1>0, <1>1 DEF FindJob, FindJobRaises, ClaimJob, Goto
<1>2. CASE MarkPending(d) \/ Prove(d)
  BY <1>0, <1>2 DEF MarkPending, Prove, Goto
<1>3. CASE SetReady(d) \/ SetFailed(d)
  BY <1>0, <1>3 DEF SetReady, SetFailed, Goto
<1> QED
  BY <1>1, <1>2, <1>3 DEF RunOnce

\* What a caller does with a request that it is proving.
LEMMA CallerNearer ==
  ASSUME IInv, NEW c \in Caller, RunOnce(c), once[c] \in Proving,
         status'[work[c]] \notin {"ready", "failed"}
  PROVE  /\ once'[c] \in Proving /\ work'[c] = work[c]
         /\ StepsLeft[once'[c]] < StepsLeft[once[c]]
<1>0. /\ status \in [Request -> Status \cup {Absent}]
      /\ once \in [Caller -> {"idle", "claim", "mark", "prove", "ready", "failed", "raised"}]
      /\ work \in [Caller -> Request \cup {None}]
      /\ work[c] \in Request
      /\ status[work[c]] \in {"pending", "ready", "failed"}
  BY DEF IInv, TypeInv, BegunIsPastQueued, Proving
<1>1. CASE Prove(c)
  BY <1>0, <1>1 DEF Prove, Goto, Proving, StepsLeft
<1>2. CASE SetReady(c)
  <2>1. CASE Set(work[c], "ready")
    BY <1>0, <2>1 DEF Set
  <2>2. CASE Goto(c, "ready", "failed") /\ work' = work
    BY <1>0, <2>2 DEF Goto, Proving, StepsLeft
  <2> QED
    BY <1>2, <2>1, <2>2 DEF SetReady
<1>3. CASE SetFailed(c)
  <2>1. Set(work[c], "failed") \/ SetRaises(work[c], "failed")
    BY <1>3 DEF SetFailed
  <2>2. status'[work[c]] \in {"ready", "failed"}
    BY <1>0, <2>1 DEF Set, SetRaises, SetNotPersisted, SetRejected, storeVars, CheckTransition,
       AllowedTransitions, Absent
  <2> QED
    BY <2>2
<1>4. ~(FindJob(c) \/ FindJobRaises(c) \/ ClaimJob(c) \/ MarkPending(c))
  BY DEF FindJob, FindJobRaises, ClaimJob, MarkPending, Goto, Proving
<1> QED
  BY <1>1, <1>2, <1>3, <1>4 DEF RunOnce

\* The drain ends between two jobs, and the process after it.
LEMMA DrainStep == IInv /\ DrainIsMain /\ [Next]_vars => DrainIsMain'
<1> SUFFICES ASSUME IInv, DrainIsMain, [Next]_vars PROVE DrainIsMain'
  OBVIOUS
<1>0. Main \in Caller /\ Loop # Main
  BY CallersDiffer
<1>1. CASE RunOnce(Main)
  <2>1. phase' = phase
    BY <1>1 DEF RunOnce, FindJob, FindJobRaises, ClaimJob, MarkPending, Prove, SetReady, SetFailed
  <2>2. once[Main] \in {"idle", "raised"} => phase = "drain" \/ once'[Main] \in {"idle", "raised"}
    BY <1>0, <1>1
    DEF RunOnce, FindJob, FindJobRaises, ClaimJob, MarkPending, Prove, SetReady, SetFailed, Goto,
        MayCall
  <2> QED
    BY <2>1, <2>2 DEF DrainIsMain
<1>2. CASE RunOnce(Loop)
  <2>1. phase' = phase
    BY <1>2 DEF RunOnce, FindJob, FindJobRaises, ClaimJob, MarkPending, Prove, SetReady, SetFailed
  <2>2. once'[Main] = once[Main]
    BY <1>0, <1>2, OthersStay, CallersDiffer
  <2> QED
    BY <2>1, <2>2 DEF DrainIsMain
<1>3. CASE EndDrain
  BY <1>3 DEF EndDrain, DrainIsMain, onceVars
<1>4. CASE StopLoad \/ StopWorker \/ Exit \/ UNCHANGED vars
  BY <1>4 DEF StopLoad, StopWorker, Exit, DrainIsMain, onceVars, vars
<1>5. CASE \E r \in Request : Load(r)
  BY <1>5 DEF Load, DrainIsMain, onceVars
<1> QED
  BY <1>1, <1>2, <1>3, <1>4, <1>5, CallersDiffer DEF Next

\* Failed writes and the end of the measurement do not keep a caller from bringing
\* what it has begun to prove to a terminal status, in three steps at most, each
\* of which it can take: the drain whatever happens, the worker thread as long as
\* the process lives.
THEOREM ProofEnds == Spec => []NextIsOpen /\ ProofGoesOn
<1>1. IInv /\ [Next]_vars =>
        [\A c \in Caller :
           once[c] \in Proving /\ status'[work[c]] \notin {"ready", "failed"} =>
             /\ once'[c] \in Proving /\ work'[c] = work[c]
             /\ IF RunOnce(c) THEN StepsLeft[once'[c]] < StepsLeft[once[c]]
                              ELSE once'[c] = once[c]]_vars
  <2> SUFFICES ASSUME IInv, Next, NEW c \in Caller, once[c] \in Proving,
                      status'[work[c]] \notin {"ready", "failed"}
               PROVE  /\ once'[c] \in Proving /\ work'[c] = work[c]
                      /\ IF RunOnce(c) THEN StepsLeft[once'[c]] < StepsLeft[once[c]]
                                       ELSE once'[c] = once[c]
    OBVIOUS
  <2>1. CASE RunOnce(c)
    BY <2>1, CallerNearer
  <2>2. CASE ~RunOnce(c)
    <3>1. once'[c] = once[c] /\ work'[c] = work[c]
      BY <2>2, OthersStay DEF Next, Load, StopLoad, StopWorker, EndDrain, Exit, onceVars
    <3> QED
      BY <2>2, <3>1
  <2> QED
    BY <2>1, <2>2
<1>2. IInv /\ DrainIsMain => NextIsOpen
  <2> SUFFICES ASSUME IInv, DrainIsMain, NEW c \in Caller, once[c] \in Proving,
                      ~(c = Loop /\ phase = "exited")
               PROVE  /\ phase # "exited"
                      /\ once[c] = "ready" => CheckTransition(status[work[c]], "ready")
                      /\ once[c] = "failed" =>
                           \/ CheckTransition(status[work[c]], "failed")
                           \/ status[work[c]] \in {"ready", "failed"}
    BY DEF NextIsOpen
  <2>1. phase # "exited"
    BY CallersDiffer DEF DrainIsMain, Proving
  <2>2. once[c] = "ready" => status[work[c]] = "pending"
    BY DEF IInv, ProvingIsPending
  <2>3. status[work[c]] \in {"pending", "ready", "failed"}
    BY DEF IInv, BegunIsPastQueued
  <2>4. CheckTransition("pending", "ready") /\ CheckTransition("pending", "failed")
    BY DEF CheckTransition, AllowedTransitions, Absent
  <2> QED
    BY <2>1, <2>2, <2>3, <2>4
<1>3. Init => DrainIsMain
  BY CallersDiffer DEF Init, DrainIsMain
<1> QED
  BY <1>1, <1>2, <1>3, Invariance, DrainStep, PTL DEF Spec, ProofGoesOn
=============================================================================
