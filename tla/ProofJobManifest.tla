-------------------------- MODULE ProofJobManifest --------------------------
(***************************************************************************)
(* mvp_server/proof/proof_job_manifest.py: an append-only file of jobs and *)
(* an append-only file of claims.  post_infer appends a job; a worker      *)
(* polls claim_next, which reads the claims, reads the jobs, appends a     *)
(* claim for the first job it did not see claimed and returns the job.     *)
(* Nothing locks the two files: another claimer, or an append, may come    *)
(* between any two of those steps.                                         *)
(*                                                                         *)
(* An append is one write, at the close of the file.  When MayFail is TRUE *)
(* it may raise, with nothing written or with a line cut short; every      *)
(* later read of that file then raises JSONDecodeError, since json.loads   *)
(* rejects the line (one cut just before its newline, as soon as the next  *)
(* line is glued to it; that delay is left out).  When MayCrash is TRUE a  *)
(* claimer may die at any step and start again.                            *)
(***************************************************************************)
EXTENDS Sequences, Naturals

CONSTANTS
  Job,       \* request ids; a uuid is appended at most once
  NoJob,
  Claimer,   \* processes or threads that poll claim_next
  MayFail, MayCrash

ASSUME ConstantAssumption ==
  /\ NoJob \notin Job
  /\ MayFail \in BOOLEAN
  /\ MayCrash \in BOOLEAN

VARIABLES
  rows,    \* the jobs in the manifest file
  claims,  \* the request ids in the claims file
  torn,    \* the files that have a line json.loads rejects
  pc,      \* where each claimer is in claim_next
  seen,    \* what each claimer read in the claims file
  row,     \* the job each claimer found
  handed   \* the jobs that claim_next has returned to each claimer

vars == <<rows, claims, torn, pc, seen, row, handed>>
claimVars == <<pc, seen, row, handed>>

Ids(s) == {s[i] : i \in 1..Len(s)}

-----------------------------------------------------------------------------
Init ==
  /\ rows = <<>>
  /\ claims = <<>>
  /\ torn = {}
  /\ pc = [c \in Claimer |-> "idle"]
  /\ seen = [c \in Claimer |-> {}]
  /\ row = [c \in Claimer |-> NoJob]
  /\ handed = [c \in Claimer |-> <<>>]

AppendJob(j) ==
  /\ j \notin Ids(rows)
  /\ rows' = Append(rows, j)
  /\ UNCHANGED <<claims, torn, claimVars>>

\* append raises in post_infer: the job is dropped, part of its line may remain.
AppendJobFails ==
  /\ MayFail
  /\ torn' = torn \cup {"manifest"}
  /\ UNCHANGED <<rows, claims, claimVars>>

\* claim_next starts with iter_claimed_ids.
ReadClaims(c) ==
  /\ pc[c] = "idle"
  /\ "claims" \notin torn
  /\ pc' = [pc EXCEPT ![c] = "rows"]
  /\ seen' = [seen EXCEPT ![c] = Ids(claims)]
  /\ UNCHANGED <<rows, claims, torn, row, handed>>

\* Mutant of ReadRows: the newest unclaimed row is taken.
ReadRowsNewestFirst(c) ==
  /\ pc[c] = "rows"
  /\ "manifest" \notin torn
  /\ \E i \in 1..Len(rows) :
       /\ rows[i] \notin seen[c]
       /\ \A k \in (i + 1)..Len(rows) : rows[k] \in seen[c]
       /\ row' = [row EXCEPT ![c] = rows[i]]
  /\ pc' = [pc EXCEPT ![c] = "claim"]
  /\ UNCHANGED <<rows, claims, torn, seen, handed>>

\* iter_records, up to the first row that is not among the claims read.
ReadRows(c) ==
  /\ pc[c] = "rows"
  /\ "manifest" \notin torn
  /\ \E i \in 1..Len(rows) :
       /\ rows[i] \notin seen[c]
       /\ \A k \in 1..(i - 1) : rows[k] \in seen[c]
       /\ row' = [row EXCEPT ![c] = rows[i]]
  /\ pc' = [pc EXCEPT ![c] = "claim"]
  /\ UNCHANGED <<rows, claims, torn, seen, handed>>

\* Every row was among the claims: claim_next returns None.
NothingToClaim(c) ==
  /\ pc[c] = "rows"
  /\ "manifest" \notin torn
  /\ Ids(rows) \subseteq seen[c]
  /\ pc' = [pc EXCEPT ![c] = "idle"]
  /\ seen' = [seen EXCEPT ![c] = {}]
  /\ UNCHANGED <<rows, claims, torn, row, handed>>

\* Mutant of AppendClaim: the claim is not written.
AppendClaimForgets(c) ==
  /\ pc[c] = "claim"
  /\ pc' = [pc EXCEPT ![c] = "return"]
  /\ UNCHANGED <<rows, claims, torn, seen, row, handed>>

\* The claim of the row that was found, whoever else has claimed it meanwhile.
AppendClaim(c) ==
  /\ pc[c] = "claim"
  /\ claims' = Append(claims, row[c])
  /\ pc' = [pc EXCEPT ![c] = "return"]
  /\ UNCHANGED <<rows, torn, seen, row, handed>>

\* claim_next hands the job to its caller.
Return(c) ==
  /\ pc[c] = "return"
  /\ handed' = [handed EXCEPT ![c] = Append(@, row[c])]
  /\ pc' = [pc EXCEPT ![c] = "idle"]
  /\ seen' = [seen EXCEPT ![c] = {}]
  /\ row' = [row EXCEPT ![c] = NoJob]
  /\ UNCHANGED <<rows, claims, torn>>

\* claim_next is cut off: the claimer forgets what it read, the files remain.
Stop(c) ==
  /\ pc' = [pc EXCEPT ![c] = "down"]
  /\ seen' = [seen EXCEPT ![c] = {}]
  /\ row' = [row EXCEPT ![c] = NoJob]
  /\ UNCHANGED <<rows, claims, handed>>

\* A line cut short makes the read raise, and the worker's run ends.
ReadRaises(c) ==
  /\ \/ pc[c] = "idle" /\ "claims" \in torn
     \/ pc[c] = "rows" /\ "manifest" \in torn
  /\ Stop(c)
  /\ UNCHANGED torn

\* The append of the claim raises, with nothing or part of its line written.
AppendClaimFails(c) ==
  /\ MayFail
  /\ pc[c] = "claim"
  /\ torn' \in {torn, torn \cup {"claims"}}
  /\ Stop(c)

Crash(c) ==
  /\ MayCrash
  /\ pc[c] # "down"
  /\ Stop(c)
  /\ UNCHANGED torn

Restart(c) ==
  /\ pc[c] = "down"
  /\ pc' = [pc EXCEPT ![c] = "idle"]
  /\ UNCHANGED <<rows, claims, torn, seen, row, handed>>

ClaimStep(c) ==
  \/ ReadClaims(c) \/ ReadRows(c) \/ NothingToClaim(c) \/ AppendClaim(c) \/ Return(c)
  \/ ReadRaises(c) \/ AppendClaimFails(c)

Next ==
  \/ \E j \in Job : AppendJob(j)
  \/ AppendJobFails
  \/ \E c \in Claimer : ClaimStep(c) \/ Crash(c) \/ Restart(c)

Spec == Init /\ [][Next]_vars

-----------------------------------------------------------------------------
(* Properties.                                                             *)

TypeOK ==
  /\ rows \in Seq(Job)
  /\ claims \in Seq(Job)
  /\ torn \in SUBSET {"manifest", "claims"}
  /\ pc \in [Claimer -> {"idle", "rows", "claim", "return", "down"}]
  /\ seen \in [Claimer -> SUBSET Job]
  /\ row \in [Claimer -> Job \cup {NoJob}]
  /\ handed \in [Claimer -> Seq(Job)]

\* The first jobs of the manifest, up to some length.
IsPrefix(S) == \E n \in 0..Len(rows) : S = {rows[i] : i \in 1..n}

\* However many claimers race, and whatever crashes: the claimed jobs are the
\* oldest ones, none is passed over (claim_next takes the first unclaimed).
NoneSkipped == IsPrefix(Ids(claims))

\* A job may be handed to two racing claimers, but never to one claimer
\* twice, even if that claimer crashes and starts again between the two calls.
OncePerClaimer ==
  \A c \in Claimer : \A i, k \in 1..Len(handed[c]) :
    handed[c][i] = handed[c][k] => i = k

=============================================================================
