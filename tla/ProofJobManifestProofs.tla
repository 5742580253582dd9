----------------------- MODULE ProofJobManifestProofs -----------------------
(***************************************************************************)
(* No job is passed over and none is handed to one claimer twice, for any  *)
(* jobs and claimers, with or without crashes and failures.                *)
(*                                                                         *)
(* A claimer decides on what it read some time ago.  What saves it is that *)
(* claims only accumulate (SeenIsClaimed): every row before the one it     *)
(* found is claimed by the time it appends its own claim (Found), so the   *)
(* claimed rows stay a prefix even when another claimer was faster.        *)
(***************************************************************************)
EXTENDS ProofJobManifest, FiniteSetTheorems, FunctionTheorems, SequenceTheorems, TLAPS

Distinct == \A i, k \in 1..Len(rows) : rows[i] = rows[k] => i = k

SeenIsClaimed == \A c \in Claimer : seen[c] \subseteq Ids(claims)

\* Between the two reads and the claim a claimer has seen all it was handed.
HandedIsSeen ==
  \A c \in Claimer :
    /\ Ids(handed[c]) \subseteq Ids(claims)
    /\ pc[c] \in {"rows", "claim"} => Ids(handed[c]) \subseteq seen[c]

\* The row a claimer is about to claim: all rows before it are claimed.
Found ==
  \A c \in Claimer : pc[c] = "claim" =>
    /\ row[c] \notin seen[c]
    /\ \E i \in 1..Len(rows) : row[c] = rows[i] /\ \A k \in 1..(i - 1) : rows[k] \in seen[c]

\* The row a claimer is about to hand over: claimed, and new to its caller.
Claimed ==
  \A c \in Claimer : pc[c] = "return" => row[c] \in Ids(claims) /\ row[c] \notin Ids(handed[c])

\* The inductive invariant.
IInv ==
  /\ TypeOK
  /\ Distinct
  /\ SeenIsClaimed
  /\ HandedIsSeen
  /\ Found
  /\ Claimed
  /\ NoneSkipped
  /\ OncePerClaimer

-----------------------------------------------------------------------------
(* Facts about sequences.                                                  *)

\* Appending adds one element to what a sequence holds.
LEMMA IdsAppend ==
  ASSUME NEW S, NEW s \in Seq(S), NEW e \in S
  PROVE  Ids(Append(s, e)) = Ids(s) \cup {e}
<1>1. /\ Len(Append(s, e)) = Len(s) + 1
      /\ Append(s, e)[Len(s) + 1] = e
      /\ \A i \in 1..Len(s) : Append(s, e)[i] = s[i]
  OBVIOUS
<1>2. 1..(Len(s) + 1) = 1..Len(s) \cup {Len(s) + 1}
  OBVIOUS
<1> QED
  BY <1>1, <1>2 DEF Ids

\* A sequence without repetition that gets a new element has none either.
LEMMA DistinctAppend ==
  ASSUME NEW S, NEW s \in Seq(S), NEW e \in S, e \notin Ids(s),
         \A i, k \in 1..Len(s) : s[i] = s[k] => i = k
  PROVE  LET t == Append(s, e)
         IN  \A i, k \in 1..Len(t) : t[i] = t[k] => i = k
BY DEF Ids

-----------------------------------------------------------------------------
\* At first there is no job, no claim, and nobody has read anything.
LEMMA InitInv == Init => IInv
<1> SUFFICES ASSUME Init PROVE IInv
  OBVIOUS
<1>1. rows = <<>> /\ claims = <<>> /\ Ids(<<>>) = {}
  BY DEF Init, Ids
<1>2. TypeOK
  BY DEF Init, TypeOK
<1>3. NoneSkipped
  BY <1>1 DEF NoneSkipped, IsPrefix
<1> QED
  BY <1>1, <1>2, <1>3
     DEF Init, IInv, Distinct, SeenIsClaimed, HandedIsSeen, Found, Claimed, OncePerClaimer

\* A new job goes to the end: the rows before it keep their places.
LEMMA AppendJobStep ==
  ASSUME IInv, NEW j \in Job, AppendJob(j)
  PROVE  IInv'
<1>0. rows \in Seq(Job)
  BY DEF IInv, TypeOK
<1>1. /\ rows' = Append(rows, j) /\ rows' \in Seq(Job)
      /\ Len(rows') = Len(rows) + 1
      /\ \A i \in 1..Len(rows) : rows'[i] = rows[i]
  BY <1>0 DEF AppendJob
<1>2. /\ claims' = claims /\ torn' = torn /\ pc' = pc /\ seen' = seen
      /\ row' = row /\ handed' = handed
  BY DEF AppendJob, claimVars
<1>3. Distinct'
  <2>1. \A i, k \in 1..Len(rows) : rows[i] = rows[k] => i = k
    BY DEF IInv, Distinct
  <2>2. j \notin Ids(rows)
    BY DEF AppendJob
  <2> QED
    BY <1>0, <1>1, <2>1, <2>2, DistinctAppend DEF Distinct
<1>4. SeenIsClaimed' /\ HandedIsSeen' /\ Claimed' /\ OncePerClaimer'
  <2>1. SeenIsClaimed /\ HandedIsSeen /\ Claimed /\ OncePerClaimer
    BY DEF IInv
  <2> QED
    BY <1>2, <2>1 DEF SeenIsClaimed, HandedIsSeen, Claimed, OncePerClaimer
<1>5. Found'
  <2> SUFFICES ASSUME NEW c \in Claimer, pc[c] = "claim"
               PROVE  /\ row[c] \notin seen[c]
                      /\ \E i \in 1..Len(rows') :
                        row[c] = rows'[i] /\ \A k \in 1..(i - 1) : rows'[k] \in seen[c]
    BY <1>2 DEF Found
  <2>1. PICK i \in 1..Len(rows) :
          row[c] = rows[i] /\ \A k \in 1..(i - 1) : rows[k] \in seen[c]
    BY DEF IInv, Found
  <2>2. i \in 1..Len(rows') /\ \A k \in 1..(i - 1) : k \in 1..Len(rows)
    BY <1>0, <1>1
  <2>3. row[c] = rows'[i] /\ \A k \in 1..(i - 1) : rows'[k] \in seen[c]
    BY <1>1, <2>1, <2>2
  <2>4. row[c] \notin seen[c]
    BY DEF IInv, Found
  <2> QED
    BY <2>2, <2>3, <2>4
<1>6. NoneSkipped'
  <2>1. PICK n \in 0..Len(rows) : Ids(claims) = {rows[i] : i \in 1..n}
    BY DEF IInv, NoneSkipped, IsPrefix
  <2>2. n \in 0..Len(rows') /\ \A i \in 1..n : rows'[i] = rows[i]
    BY <1>0, <1>1
  <2>3. {rows'[i] : i \in 1..n} = {rows[i] : i \in 1..n}
    BY <2>2
  <2>4. Ids(claims') = {rows'[i] : i \in 1..n}
    BY <1>2, <2>1, <2>3
  <2> QED
    BY <2>2, <2>4 DEF NoneSkipped, IsPrefix
<1>7. TypeOK'
  BY <1>1, <1>2 DEF IInv, TypeOK
<1> QED
  BY <1>3, <1>4, <1>5, <1>6, <1>7 DEF IInv

\* Steps that leave both files alone, but for a line cut short.
LEMMA ReadStep ==
  ASSUME IInv, NEW c \in Claimer,
         ReadClaims(c) \/ ReadRows(c) \/ NothingToClaim(c) \/ ReadRaises(c)
           \/ AppendClaimFails(c) \/ Crash(c) \/ Restart(c)
  PROVE  IInv'
<1>1. rows' = rows /\ claims' = claims /\ handed' = handed
  BY DEF ReadClaims, ReadRows, NothingToClaim, ReadRaises, AppendClaimFails, Crash, Restart, Stop
<1>2. Distinct' /\ NoneSkipped' /\ OncePerClaimer'
  BY <1>1 DEF IInv, Distinct, NoneSkipped, IsPrefix, OncePerClaimer
<1>3. /\ pc \in [Claimer -> {"idle", "rows", "claim", "return", "down"}]
      /\ seen \in [Claimer -> SUBSET Job] /\ row \in [Claimer -> Job \cup {NoJob}]
      /\ torn \in SUBSET {"manifest", "claims"} /\ rows \in Seq(Job) /\ claims \in Seq(Job)
      /\ handed \in [Claimer -> Seq(Job)]
  BY DEF IInv, TypeOK
<1>4. Ids(claims) \subseteq Job
  BY <1>3 DEF Ids
<1>5. SeenIsClaimed /\ HandedIsSeen /\ Found /\ Claimed
  BY DEF IInv
<1>6. CASE ReadClaims(c)
  <2>1. /\ pc' = [pc EXCEPT ![c] = "rows"] /\ seen' = [seen EXCEPT ![c] = Ids(claims)]
        /\ row' = row /\ torn' = torn
    BY <1>6 DEF ReadClaims
  <2>2. TypeOK'
    BY <1>1, <1>3, <1>4, <2>1 DEF TypeOK
  <2>3. SeenIsClaimed' /\ HandedIsSeen' /\ Found' /\ Claimed'
    BY <1>1, <1>3, <1>5, <2>1 DEF SeenIsClaimed, HandedIsSeen, Found, Claimed
  <2> QED
    BY <1>2, <2>2, <2>3 DEF IInv
<1>7. CASE ReadRows(c)
  <2>1. PICK i \in 1..Len(rows) :
          /\ rows[i] \notin seen[c]
          /\ \A k \in 1..(i - 1) : rows[k] \in seen[c]
          /\ row' = [row EXCEPT ![c] = rows[i]]
    BY <1>7 DEF ReadRows
  <2>2. pc' = [pc EXCEPT ![c] = "claim"] /\ seen' = seen /\ torn' = torn /\ pc[c] = "rows"
    BY <1>7 DEF ReadRows
  <2>3. rows[i] \in Job
    BY <1>3, <2>1
  <2>4. TypeOK'
    BY <1>1, <1>3, <2>1, <2>2, <2>3 DEF TypeOK
  <2>5. SeenIsClaimed' /\ HandedIsSeen' /\ Claimed'
    BY <1>1, <1>3, <1>5, <2>1, <2>2 DEF SeenIsClaimed, HandedIsSeen, Claimed
  <2>6. Found'
    BY <1>1, <1>3, <1>5, <2>1, <2>2 DEF Found
  <2> QED
    BY <1>2, <2>4, <2>5, <2>6 DEF IInv
<1>8. CASE NothingToClaim(c) \/ Restart(c)
  <2>1. /\ pc' = [pc EXCEPT ![c] = "idle"] /\ row' = row /\ torn' = torn
        /\ seen' = seen \/ seen' = [seen EXCEPT ![c] = {}]
    BY <1>8 DEF NothingToClaim, Restart
  <2>2. TypeOK'
    BY <1>1, <1>3, <2>1 DEF TypeOK
  <2>3. SeenIsClaimed' /\ HandedIsSeen' /\ Found' /\ Claimed'
    BY <1>1, <1>3, <1>5, <2>1 DEF SeenIsClaimed, HandedIsSeen, Found, Claimed
  <2> QED
    BY <1>2, <2>2, <2>3 DEF IInv
<1>9. CASE ReadRaises(c) \/ AppendClaimFails(c) \/ Crash(c)
  <2>1. /\ pc' = [pc EXCEPT ![c] = "down"] /\ seen' = [seen EXCEPT ![c] = {}]
        /\ row' = [row EXCEPT ![c] = NoJob]
        /\ torn' = torn \/ torn' = torn \cup {"claims"}
    BY <1>9 DEF ReadRaises, AppendClaimFails, Crash, Stop
  <2>2. TypeOK'
    BY <1>1, <1>3, <2>1 DEF TypeOK
  <2>3. SeenIsClaimed' /\ HandedIsSeen' /\ Found' /\ Claimed'
    BY <1>1, <1>3, <1>5, <2>1 DEF SeenIsClaimed, HandedIsSeen, Found, Claimed
  <2> QED
    BY <1>2, <2>2, <2>3 DEF IInv
<1> QED
  BY <1>6, <1>7, <1>8, <1>9

\* The claim of the row that was found, however long ago.
LEMMA AppendClaimStep ==
  ASSUME IInv, NEW c \in Claimer, AppendClaim(c)
  PROVE  IInv'
<1>0. /\ pc \in [Claimer -> {"idle", "rows", "claim", "return", "down"}]
      /\ rows \in Seq(Job) /\ claims \in Seq(Job)
  BY DEF IInv, TypeOK
<1>1. /\ pc[c] = "claim" /\ pc' = [pc EXCEPT ![c] = "return"]
      /\ claims' = Append(claims, row[c])
      /\ rows' = rows /\ torn' = torn /\ seen' = seen /\ row' = row /\ handed' = handed
  BY DEF AppendClaim
<1>2. PICK i \in 1..Len(rows) :
        row[c] = rows[i] /\ \A k \in 1..(i - 1) : rows[k] \in seen[c]
  BY <1>1 DEF IInv, Found
<1>3. row[c] \in Job
  BY <1>0, <1>2
<1>4. claims' \in Seq(Job) /\ Ids(claims') = Ids(claims) \cup {row[c]}
  BY <1>0, <1>1, <1>3, IdsAppend
<1>5. TypeOK' /\ Distinct' /\ OncePerClaimer'
  BY <1>0, <1>1, <1>4 DEF IInv, TypeOK, Distinct, OncePerClaimer
<1>6. row[c] \notin Ids(handed[c])
  BY <1>1 DEF IInv, Found, HandedIsSeen
<1>7. SeenIsClaimed' /\ HandedIsSeen' /\ Found' /\ Claimed'
  BY <1>0, <1>1, <1>4, <1>6 DEF IInv, SeenIsClaimed, HandedIsSeen, Found, Claimed
<1>8. NoneSkipped'
  <2>1. PICK n \in 0..Len(rows) : Ids(claims) = {rows[k] : k \in 1..n}
    BY DEF IInv, NoneSkipped, IsPrefix
  <2>2. CASE i <= n
    <3>1. row[c] \in {rows[k] : k \in 1..n}
      BY <1>0, <1>2, <2>2
    <3>2. Ids(claims') = {rows'[k] : k \in 1..n}
      BY <1>1, <1>4, <2>1, <3>1
    <3> QED
      BY <1>1, <2>1, <3>2 DEF NoneSkipped, IsPrefix
  <2>3. CASE i = n + 1
    <3>1. 1..(n + 1) = 1..n \cup {n + 1}
      BY <2>1
    <3>2. {rows[k] : k \in 1..(n + 1)} = {rows[k] : k \in 1..n} \cup {rows[n + 1]}
      BY <3>1
    <3>3. Ids(claims') = {rows'[k] : k \in 1..(n + 1)}
      BY <1>1, <1>2, <1>4, <2>1, <2>3, <3>2
    <3>4. n + 1 \in 0..Len(rows')
      BY <1>0, <1>1, <1>2, <2>1, <2>3
    <3> QED
      BY <3>3, <3>4 DEF NoneSkipped, IsPrefix
  <2>4. CASE i > n + 1
    <3>1. n + 1 \in 1..(i - 1) /\ n + 1 \in 1..Len(rows)
      BY <1>0, <1>2, <2>1, <2>4
    <3>2. rows[n + 1] \in Ids(claims)
      BY <1>2, <3>1 DEF IInv, SeenIsClaimed
    <3>3. PICK k \in 1..n : rows[n + 1] = rows[k]
      BY <2>1, <3>2
    <3>4. k \in 1..Len(rows) /\ k # n + 1
      BY <1>0, <2>1
    <3> QED
      BY <3>1, <3>3, <3>4 DEF IInv, Distinct
  <2> QED
    BY <1>0, <1>2, <2>1, <2>2, <2>3, <2>4
<1> QED
  BY <1>5, <1>7, <1>8 DEF IInv

\* The job goes to the caller, who has not been handed it before.
LEMMA ReturnStep ==
  ASSUME IInv, NEW c \in Claimer, Return(c)
  PROVE  IInv'
<1>0. /\ pc \in [Claimer -> {"idle", "rows", "claim", "return", "down"}]
      /\ seen \in [Claimer -> SUBSET Job] /\ row \in [Claimer -> Job \cup {NoJob}]
      /\ claims \in Seq(Job) /\ handed \in [Claimer -> Seq(Job)]
  BY DEF IInv, TypeOK
<1>1. /\ pc[c] = "return" /\ pc' = [pc EXCEPT ![c] = "idle"]
      /\ handed' = [handed EXCEPT ![c] = Append(handed[c], row[c])]
      /\ seen' = [seen EXCEPT ![c] = {}] /\ row' = [row EXCEPT ![c] = NoJob]
      /\ rows' = rows /\ claims' = claims /\ torn' = torn
  BY DEF Return
<1>2. row[c] \in Ids(claims) /\ row[c] \notin Ids(handed[c])
  BY <1>1 DEF IInv, Claimed
<1>3. row[c] \in Job
  BY <1>0, <1>2 DEF Ids
<1>4. handed[c] \in Seq(Job) /\ handed'[c] = Append(handed[c], row[c])
  BY <1>0, <1>1
<1>5. /\ Ids(handed'[c]) = Ids(handed[c]) \cup {row[c]}
      /\ \A x \in Claimer : x # c => handed'[x] = handed[x]
  BY <1>0, <1>1, <1>3, <1>4, IdsAppend
<1>6. TypeOK'
  <2>1. handed' \in [Claimer -> Seq(Job)]
    BY <1>0, <1>1, <1>3
  <2> QED
    BY <1>0, <1>1, <2>1 DEF IInv, TypeOK
<1>7. OncePerClaimer'
  <2>1. \A i, k \in 1..Len(handed[c]) : handed[c][i] = handed[c][k] => i = k
    BY DEF IInv, OncePerClaimer
  <2>2. \A i, k \in 1..Len(handed'[c]) : handed'[c][i] = handed'[c][k] => i = k
    BY <1>2, <1>3, <1>4, <2>1, DistinctAppend
  <2> QED
    BY <1>5, <2>2 DEF IInv, OncePerClaimer
<1>8. SeenIsClaimed' /\ HandedIsSeen' /\ Found' /\ Claimed'
  BY <1>0, <1>1, <1>2, <1>5 DEF IInv, SeenIsClaimed, HandedIsSeen, Found, Claimed
<1> QED
  BY <1>1, <1>6, <1>7, <1>8 DEF IInv, Distinct, NoneSkipped, IsPrefix

\* IInv is an invariant of ProofJobManifest.
LEMMA StepInv == IInv /\ [Next]_vars => IInv'
<1> SUFFICES ASSUME IInv, [Next]_vars PROVE IInv'
  OBVIOUS
<1>1. CASE UNCHANGED vars \/ AppendJobFails
  <2>1. /\ rows' = rows /\ claims' = claims /\ pc' = pc /\ seen' = seen
        /\ row' = row /\ handed' = handed
        /\ torn' = torn \/ torn' = torn \cup {"manifest"}
    BY <1>1 DEF AppendJobFails, claimVars, vars
  <2>2. TypeOK'
    BY <2>1 DEF IInv, TypeOK
  <2>3. Distinct' /\ SeenIsClaimed' /\ HandedIsSeen'
    BY <2>1 DEF IInv, Distinct, SeenIsClaimed, HandedIsSeen
  <2>4. Found' /\ Claimed'
    BY <2>1 DEF IInv, Found, Claimed
  <2>5. NoneSkipped' /\ OncePerClaimer'
    BY <2>1 DEF IInv, NoneSkipped, IsPrefix, OncePerClaimer
  <2> QED
    BY <2>2, <2>3, <2>4, <2>5 DEF IInv
<1>2. ASSUME NEW j \in Job, AppendJob(j) PROVE IInv'
  BY <1>2, AppendJobStep
<1>3. ASSUME NEW c \in Claimer, ClaimStep(c) \/ Crash(c) \/ Restart(c) PROVE IInv'
  BY <1>3, ReadStep, AppendClaimStep, ReturnStep DEF ClaimStep
<1> QED
  BY <1>1, <1>2, <1>3 DEF Next

THEOREM Invariance == Spec => []IInv
BY InitInv, StepInv, PTL DEF Spec

\* Type correctness of ProofJobManifest.
THEOREM TypeCorrect == Spec => []TypeOK
<1>1. IInv => TypeOK
  BY DEF IInv
<1> QED
  BY <1>1, Invariance, PTL

\* The claimed jobs are the oldest ones: racing claimers, crashes and failures
\* never make claim_next pass over a job.
THEOREM NothingSkipped == Spec => []NoneSkipped
<1>1. IInv => NoneSkipped
  BY DEF IInv
<1> QED
  BY <1>1, Invariance, PTL

\* claim_next never hands a job to one claimer twice.
THEOREM HandedOnce == Spec => []OncePerClaimer
<1>1. IInv => OncePerClaimer
  BY DEF IInv
<1> QED
  BY <1>1, Invariance, PTL

-----------------------------------------------------------------------------
(* The manifest hands its jobs over as JobHandoff says.                    *)

\* The claims without the repetitions that racing claimers leave: as many of the
\* oldest jobs as there are jobs with a claim.
Taken == SubSeq(rows, 1, Cardinality(Ids(claims)))

Handoff == INSTANCE JobHandoff WITH sent <- rows, taken <- Taken

\* The jobs with a claim are those.
LEMMA TakenIs ==
  ASSUME IInv, NEW n \in 0..Len(rows), Ids(claims) = {rows[i] : i \in 1..n}
  PROVE  Cardinality(Ids(claims)) = n /\ IsFiniteSet(Ids(claims))
<1>0. rows \in Seq(Job) /\ n \in Nat /\ n <= Len(rows)
  BY DEF IInv, TypeOK
<1> DEFINE f == [i \in 1..n |-> rows[i]]
<1>1. f \in Bijection(1..n, Ids(claims))
  <2>1. \A i, k \in 1..n : f[i] = f[k] => i = k
    <3>1. \A i \in 1..n : i \in 1..Len(rows)
      BY <1>0
    <3> QED
      BY <3>1 DEF IInv, Distinct
  <2>2. f \in [1..n -> Ids(claims)] /\ \A x \in Ids(claims) : \E i \in 1..n : f[i] = x
    OBVIOUS
  <2> QED
    BY <2>1, <2>2, Fun_IsBij
<1>2. ExistsBijection(1..n, Ids(claims))
  BY <1>1 DEF ExistsBijection
<1>3. IsFiniteSet(1..n) /\ Cardinality(1..n) = n
  <2>1. 1 \in Int /\ n \in Int
    BY <1>0
  <2>2. IsFiniteSet(1..n) /\ Cardinality(1..n) = IF 1 > n THEN 0 ELSE n - 1 + 1
    BY <2>1, FS_Interval
  <2> QED
    BY <1>0, <2>2
<1> QED
  BY <1>2, <1>3, FS_Bijection

\* Taken lists the claimed jobs, each once, in the order of the manifest.
LEMMA TakenLooks ==
  ASSUME IInv
  PROVE  /\ rows \in Seq(Job) /\ Taken \in Seq(Job)
         /\ Cardinality(Ids(claims)) \in 0..Len(rows)
         /\ Len(Taken) = Cardinality(Ids(claims))
         /\ Ids(claims) = {rows[i] : i \in 1..Cardinality(Ids(claims))}
         /\ Ids(Taken) = Ids(claims)
         /\ IsFiniteSet(Ids(claims))
<1>0. rows \in Seq(Job)
  BY DEF IInv, TypeOK
<1>1. PICK n \in 0..Len(rows) : Ids(claims) = {rows[i] : i \in 1..n}
  BY DEF IInv, NoneSkipped, IsPrefix
<1>2. Cardinality(Ids(claims)) = n /\ IsFiniteSet(Ids(claims))
  BY <1>1, TakenIs
<1>3. /\ Taken \in Seq(Job) /\ Len(Taken) = n
      /\ \A i \in 1..n : Taken[i] = rows[i]
  <2>1. \A i \in 1..n : rows[i] \in Job
    BY <1>0
  <2> QED
    BY <1>0, <1>2, <2>1, SubSeqProperties DEF Taken
<1>4. Ids(Taken) = Ids(claims)
  BY <1>1, <1>3 DEF Ids
<1> QED
  BY <1>0, <1>1, <1>2, <1>3, <1>4

\* A longer prefix of a sequence has the next element at its end.
LEMMA PrefixGrows ==
  ASSUME NEW S, NEW s \in Seq(S), NEW n \in Nat, n < Len(s)
  PROVE  SubSeq(s, 1, n + 1) = Append(SubSeq(s, 1, n), s[n + 1])
<1>1. /\ SubSeq(s, 1, n) \in Seq(S) /\ Len(SubSeq(s, 1, n)) = n
      /\ \A i \in 1..n : SubSeq(s, 1, n)[i] = s[i]
  BY SubSeqProperties
<1>2. /\ SubSeq(s, 1, n + 1) \in Seq(S) /\ Len(SubSeq(s, 1, n + 1)) = n + 1
      /\ \A i \in 1..(n + 1) : SubSeq(s, 1, n + 1)[i] = s[i]
  BY SubSeqProperties
<1>3. s[n + 1] \in S
  OBVIOUS
<1> QED
  BY <1>1, <1>2, <1>3

\* A prefix of a sequence does not depend on what comes after it.
LEMMA PrefixStays ==
  ASSUME NEW S, NEW s \in Seq(S), NEW e \in S, NEW n \in 0..Len(s)
  PROVE  SubSeq(Append(s, e), 1, n) = SubSeq(s, 1, n)
<1>1. /\ SubSeq(s, 1, n) \in Seq(S) /\ Len(SubSeq(s, 1, n)) = n
      /\ \A i \in 1..n : SubSeq(s, 1, n)[i] = s[i]
  BY SubSeqProperties
<1>2. /\ SubSeq(Append(s, e), 1, n) \in Seq(S) /\ Len(SubSeq(Append(s, e), 1, n)) = n
      /\ \A i \in 1..n : SubSeq(Append(s, e), 1, n)[i] = Append(s, e)[i]
  BY SubSeqProperties
<1> QED
  BY <1>1, <1>2

\* A new job is not taken yet.
LEMMA TakenKept ==
  ASSUME IInv, NEW j \in Job, AppendJob(j)
  PROVE  Taken' = Taken
<1> DEFINE n == Cardinality(Ids(claims))
<1>1. rows \in Seq(Job) /\ n \in 0..Len(rows)
  BY TakenLooks
<1>2. Taken' = SubSeq(Append(rows, j), 1, n)
  BY DEF AppendJob, Taken
<1> QED
  BY <1>1, <1>2, PrefixStays DEF Taken

\* A claim takes the next job, or repeats the claim of another claimer.
LEMMA TakenGrows ==
  ASSUME IInv, NEW c \in Claimer, AppendClaim(c)
  PROVE  \/ row[c] \in Ids(claims) /\ Taken' = Taken
         \/ /\ row[c] \notin Ids(claims) /\ Len(Taken) < Len(rows)
            /\ Taken' = Append(Taken, rows[Len(Taken) + 1])
<1> DEFINE n == Cardinality(Ids(claims))
<1>0. /\ rows \in Seq(Job) /\ n \in 0..Len(rows) /\ Len(Taken) = n
      /\ Ids(claims) = {rows[i] : i \in 1..n} /\ IsFiniteSet(Ids(claims))
  BY TakenLooks
<1>1. rows' = rows /\ claims' = Append(claims, row[c])
  BY DEF AppendClaim
<1>2. \E i \in 1..Len(rows) : row[c] = rows[i]
  BY DEF AppendClaim, IInv, Found
<1>3. claims \in Seq(Job) /\ row[c] \in Job
  BY <1>0, <1>2 DEF IInv, TypeOK
<1>4. Ids(claims') = Ids(claims) \cup {row[c]}
  BY <1>1, <1>3, IdsAppend
<1>5. Cardinality(Ids(claims')) = IF row[c] \in Ids(claims) THEN n ELSE n + 1
  BY <1>0, <1>4, FS_AddElement
<1>6. CASE row[c] \in Ids(claims)
  BY <1>1, <1>5, <1>6 DEF Taken
<1>7. CASE row[c] \notin Ids(claims)
  <2>1. Taken' = SubSeq(rows, 1, n + 1)
    BY <1>1, <1>5, <1>7 DEF Taken
  <2>2. n < Len(rows)
    BY <1>0, <1>2, <1>7
  <2>3. n \in Nat
    BY <1>0
  <2>4. SubSeq(rows, 1, n + 1) = Append(SubSeq(rows, 1, n), rows[n + 1])
    <3> HIDE DEF n
    <3> QED
      BY <1>0, <2>2, <2>3, PrefixGrows
  <2>5. Taken' = Append(Taken, rows[n + 1])
    BY <2>1, <2>4 DEF Taken
  <2> QED
    BY <1>0, <1>7, <2>2, <2>5
<1> QED
  BY <1>6, <1>7

\* A step puts a job, takes the next one, or is one that JobHandoff does not see.
LEMMA HandoffStep ==
  ASSUME IInv, [Next]_vars
  PROVE  [Handoff!Next]_<<rows, Taken>>
<1>1. ASSUME NEW j \in Job, AppendJob(j) PROVE Handoff!Put(j)
  BY <1>1, TakenKept DEF AppendJob, Handoff!Put, Ids
<1>2. ASSUME NEW c \in Claimer, AppendClaim(c)
      PROVE  Handoff!Take \/ UNCHANGED <<rows, Taken>>
  <2>1. rows' = rows
    BY <1>2 DEF AppendClaim
  <2> QED
    BY <1>2, <2>1, TakenGrows DEF Handoff!Take
<1>3. ASSUME rows' = rows, claims' = claims PROVE UNCHANGED <<rows, Taken>>
  BY <1>3 DEF Taken
<1>4. CASE UNCHANGED vars \/ AppendJobFails
  BY <1>3, <1>4 DEF vars, AppendJobFails
<1>5. ASSUME NEW c \in Claimer, ClaimStep(c) \/ Crash(c) \/ Restart(c), ~AppendClaim(c)
      PROVE  UNCHANGED <<rows, Taken>>
  BY <1>3, <1>5
     DEF ClaimStep, ReadClaims, ReadRows, NothingToClaim, Return, ReadRaises, AppendClaimFails,
         Crash, Restart, Stop
<1> QED
  BY <1>1, <1>2, <1>4, <1>5 DEF Next, Handoff!Next

\* With the repetitions left out, the manifest is a queue: however many claimers
\* race, die and start again, the jobs are claimed one at a time in the order in
\* which they were appended (JobHandoff, with Taken for the jobs taken).
THEOREM Implementation == Spec => [](Ids(Taken) = Ids(claims)) /\ Handoff!Spec
<1>1. Init => Handoff!Init
  <2> SUFFICES ASSUME Init PROVE Handoff!Init
    OBVIOUS
  <2>1. rows = <<>> /\ claims = <<>>
    BY DEF Init
  <2>2. IInv
    BY InitInv
  <2>3. Len(Taken) = 0 /\ Taken \in Seq(Job)
    BY <2>1, <2>2, TakenLooks
  <2> QED
    BY <2>1, <2>3 DEF Handoff!Init
<1>2. IInv => Ids(Taken) = Ids(claims)
  BY TakenLooks
<1>3. IInv /\ [Next]_vars => [Handoff!Next]_<<rows, Taken>>
  BY HandoffStep
<1> QED
  BY <1>1, <1>2, <1>3, Invariance, PTL DEF Spec, Handoff!Spec

-----------------------------------------------------------------------------
(* A single claimer: claim_next as one step.                               *)

\* What the only claimer has read is all there is, and it claims the next job.
AloneInv(c) ==
  /\ claims = Taken
  /\ pc[c] \in {"rows", "claim"} => seen[c] = Ids(claims)

\* The oldest job that is not claimed follows the claims.
LEMMA FoundIsNext ==
  ASSUME IInv, NEW c \in Claimer, AloneInv(c), pc[c] = "claim"
  PROVE  Len(claims) < Len(rows) /\ row[c] = rows[Len(claims) + 1]
<1> DEFINE n == Len(claims)
<1>1. /\ rows \in Seq(Job) /\ n \in 0..Len(rows)
      /\ Ids(claims) = {rows[i] : i \in 1..n}
  BY TakenLooks DEF AloneInv
<1>2. seen[c] = Ids(claims)
  BY DEF AloneInv
<1>3. PICK i \in 1..Len(rows) :
        row[c] = rows[i] /\ \A k \in 1..(i - 1) : rows[k] \in seen[c]
  BY DEF IInv, Found
<1>4. row[c] \notin Ids(claims)
  BY <1>2 DEF IInv, Found
<1> HIDE DEF n
<1>5. ~(i <= n)
  BY <1>1, <1>3, <1>4
<1>6. ~(n + 1 < i)
  <2> SUFFICES ASSUME n + 1 < i PROVE FALSE
    OBVIOUS
  <2>1. n + 1 \in 1..(i - 1) /\ n + 1 \in 1..Len(rows)
    BY <1>1, <1>3
  <2>2. rows[n + 1] \in Ids(claims)
    BY <1>2, <1>3, <2>1
  <2>3. PICK k \in 1..n : rows[n + 1] = rows[k]
    BY <1>1, <2>2
  <2>4. k \in 1..Len(rows) /\ k # n + 1
    BY <1>1, <2>3
  <2> QED
    BY <2>1, <2>3, <2>4 DEF IInv, Distinct
<1>7. i = n + 1
  BY <1>1, <1>5, <1>6
<1> QED
  BY <1>1, <1>3, <1>7 DEF n

\* Nobody else writes a claim between the reads of the only claimer and its own.
LEMMA AloneStep ==
  ASSUME IInv, NEW c, Claimer = {c}, AloneInv(c), [Next]_vars
  PROVE  AloneInv(c)'
<1>0. /\ c \in Claimer /\ \A x \in Claimer : x = c
      /\ pc \in [Claimer -> {"idle", "rows", "claim", "return", "down"}]
      /\ seen \in [Claimer -> SUBSET Job]
  BY DEF IInv, TypeOK
<1>1. CASE AppendClaim(c)
  <2>1. /\ pc[c] = "claim" /\ pc' = [pc EXCEPT ![c] = "return"]
        /\ claims' = Append(claims, row[c])
    BY <1>1 DEF AppendClaim
  <2>2. row[c] = rows[Len(Taken) + 1] /\ row[c] \notin Ids(claims)
    BY <1>0, <2>1, FoundIsNext DEF AloneInv, IInv, Found
  <2>3. claims' = Taken'
    BY <1>0, <1>1, <2>1, <2>2, TakenGrows DEF AloneInv
  <2> QED
    BY <1>0, <2>1, <2>3 DEF AloneInv
<1>2. ASSUME NEW j \in Job, AppendJob(j) PROVE AloneInv(c)'
  <2>1. UNCHANGED <<claims, pc, seen, Taken>>
    BY <1>2, TakenKept DEF AppendJob, claimVars
  <2> QED
    BY <2>1 DEF AloneInv
<1>3. ASSUME rows' = rows, claims' = claims,
             pc'[c] \in {"rows", "claim"} => seen'[c] = Ids(claims)
      PROVE  AloneInv(c)'
  BY <1>3 DEF AloneInv, Taken
<1>4. CASE UNCHANGED vars \/ AppendJobFails
  BY <1>3, <1>4 DEF vars, AppendJobFails, claimVars, AloneInv
<1>5. CASE ReadClaims(c)
  BY <1>0, <1>3, <1>5 DEF ReadClaims
<1>6. CASE ReadRows(c)
  BY <1>0, <1>3, <1>6 DEF ReadRows, AloneInv
<1>7. CASE NothingToClaim(c) \/ Return(c) \/ Restart(c)
  BY <1>0, <1>3, <1>7 DEF NothingToClaim, Return, Restart
<1>8. CASE ReadRaises(c) \/ AppendClaimFails(c) \/ Crash(c)
  BY <1>0, <1>3, <1>8 DEF ReadRaises, AppendClaimFails, Crash, Stop
<1> QED
  BY <1>0, <1>1, <1>2, <1>4, <1>5, <1>6, <1>7, <1>8 DEF Next, ClaimStep

\* A single claimer never repeats a claim, through its crashes and restarts too: the
\* claims file is the list of the taken jobs, and claim_next is JobHandoff's Take.
\* This is why ProofState may have claim_next in one step.
THEOREM OneClaimerNoRepetition ==
  ASSUME NEW c, Claimer = {c}
  PROVE  Spec => [](claims = Taken)
<1>1. Init => AloneInv(c)
  <2> SUFFICES ASSUME Init PROVE AloneInv(c)
    OBVIOUS
  <2>1. Len(Taken) = Cardinality(Ids(claims)) /\ Taken \in Seq(Job) /\ Len(Taken) <= Len(rows)
    BY InitInv, TakenLooks
  <2>2. claims = <<>> /\ Taken = <<>> /\ pc[c] = "idle"
    BY <2>1 DEF Init
  <2> QED
    BY <2>2 DEF AloneInv
<1>2. IInv /\ AloneInv(c) /\ [Next]_vars => AloneInv(c)'
  BY AloneStep
<1>3. AloneInv(c) => claims = Taken
  BY DEF AloneInv
<1> QED
  BY <1>1, <1>2, <1>3, Invariance, PTL DEF Spec
=============================================================================
