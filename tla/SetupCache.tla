----------------------------- MODULE SetupCache -----------------------------
(***************************************************************************)
(* ZkLoraAdapter.prove (mvp_server/proof/zklora_adapter.py) with a setup   *)
(* cache: the threads of one process prove for one module, so they share   *)
(* one setup directory and the lock that _setup_lock_for_dir keeps for it. *)
(* The directory outlives the process; the next one finds it as it is.     *)
(*                                                                         *)
(* A miss empties the directory, lets the prove runner make the setup      *)
(* artifacts anew and writes the metadata last, all under the lock.  A hit *)
(* releases the lock and proves with the artifacts that are there.         *)
(*                                                                         *)
(* The prove runner (zklora's generate_proofs) is not part of this         *)
(* repository.  It is modelled by what the adapter relies on: it makes the *)
(* setup artifacts that are missing, leaves the others alone, and returns, *)
(* with or without a proof, or raises.  An artifact stands for the build   *)
(* that made it.  The directory is named by the fingerprint, so metadata   *)
(* that can be parsed always matches it.                                   *)
(***************************************************************************)
EXTENDS Naturals, FiniteSets

CONSTANTS
  Prover,    \* threads that call prove
  Artifact,  \* the required setup artifacts
  None,      \* no thread
  MayFail,   \* whether an access to the directory may raise
  MaxBuilds  \* bound on the number of builds

ASSUME CacheAssumption ==
  /\ IsFiniteSet(Prover) /\ None \notin Prover
  /\ Artifact # {}
  /\ MayFail \in BOOLEAN
  /\ MaxBuilds \in Nat

VARIABLES
  lock,   \* the thread that holds the directory's lock, or None
  pc,     \* where each thread is in prove
  dir,    \* the artifacts in the directory, by the build that made each
  meta,   \* setup_cache_meta.json: "missing", "torn" or "whole"
  build,  \* the number of builds so far
  used    \* the artifacts each thread's proof was made with

fileVars == <<dir, meta, build>>
vars == <<lock, pc, fileVars, used>>

\* An artifact is the number of the build that made it, missing or cut short.
Missing == 0
Torn    == MaxBuilds + 1
Content == Missing..Torn

NoFiles == [a \in Artifact |-> Missing]

Init ==
  /\ lock = None
  /\ pc = [t \in Prover |-> "idle"]
  /\ dir = NoFiles
  /\ meta = "missing"
  /\ build = 0
  /\ used = [t \in Prover |-> NoFiles]

Goto(t, from, to) == pc[t] = from /\ pc' = [pc EXCEPT ![t] = to]

Release == lock' = None

HasRequiredArtifacts == \A a \in Artifact : dir[a] # Missing

\* _is_setup_cache_hit.  Metadata that cannot be parsed counts as none.
IsHit == HasRequiredArtifacts /\ meta = "whole"

-----------------------------------------------------------------------------
\* prove begins: witness, module and export are done, the directory is made.
\* The bound leaves every thread that has begun room for a build.
Start(t) ==
  /\ build + Cardinality({p \in Prover : pc[p] # "idle"}) < MaxBuilds
  /\ Goto(t, "idle", "lock")
  /\ UNCHANGED <<lock, fileVars, used>>

\* Mutant of Acquire: the lock is not waited for.
AcquireAtOnce(t) ==
  /\ Goto(t, "lock", "check")
  /\ lock' = t
  /\ UNCHANGED <<fileVars, used>>

Acquire(t) ==
  /\ lock = None
  /\ Goto(t, "lock", "check")
  /\ lock' = t
  /\ UNCHANGED <<fileVars, used>>

\* A hit: the lock is released before the proof is made.
CheckHit(t) ==
  /\ IsHit
  /\ Goto(t, "check", "prove")
  /\ Release
  /\ UNCHANGED <<fileVars, used>>

\* Mutant of CheckMiss: every call rebuilds.
CheckMissAlways(t) ==
  /\ Goto(t, "check", "unlink")
  /\ UNCHANGED <<lock, fileVars, used>>

CheckMiss(t) ==
  /\ ~IsHit
  /\ Goto(t, "check", "unlink")
  /\ UNCHANGED <<lock, fileVars, used>>

\* The check raises.  It is made outside the try block: the lock stays taken.
CheckRaises(t) ==
  /\ MayFail
  /\ Goto(t, "check", "idle")
  /\ UNCHANGED <<lock, fileVars, used>>

\* _invalidate_setup_cache: the artifacts go first,
UnlinkArtifact(t, a) ==
  /\ pc[t] = "unlink"
  /\ dir[a] # Missing
  /\ dir' = [dir EXCEPT ![a] = Missing]
  /\ UNCHANGED <<lock, pc, meta, build, used>>

\* Mutant of UnlinkMeta: the new metadata is written before the build.
UnlinkMetaWritesNew(t) ==
  /\ dir = NoFiles
  /\ Goto(t, "unlink", "build")
  /\ meta' = "whole"
  /\ build' = build + 1
  /\ UNCHANGED <<lock, dir, used>>

\* then the metadata, and the runner begins a build.
UnlinkMeta(t) ==
  /\ dir = NoFiles
  /\ Goto(t, "unlink", "build")
  /\ meta' = "missing"
  /\ build' = build + 1
  /\ UNCHANGED <<lock, dir, used>>

\* The runner makes an artifact.
WriteArtifact(t, a) ==
  /\ pc[t] = "build"
  /\ dir[a] = Missing
  /\ dir' = [dir EXCEPT ![a] = build]
  /\ UNCHANGED <<lock, pc, meta, build, used>>

\* Mutant of BuildRaises: there is no finally block.
BuildRaisesLocked(t) ==
  /\ Goto(t, "build", "idle")
  /\ UNCHANGED <<lock, fileVars, used>>

\* The runner raises, perhaps in the middle of an artifact; the finally block
\* releases the lock.
BuildRaises(t) ==
  /\ Goto(t, "build", "idle")
  /\ \/ UNCHANGED dir
     \/ \E a \in Artifact : dir[a] = Missing /\ dir' = [dir EXCEPT ![a] = Torn]
  /\ Release
  /\ UNCHANGED <<meta, build, used>>

\* _persist_setup_cache_meta refuses a directory that is not complete.
BuildIncomplete(t) ==
  /\ ~HasRequiredArtifacts
  /\ Goto(t, "build", "idle")
  /\ Release
  /\ UNCHANGED <<fileVars, used>>

\* The runner has returned; opening the metadata file truncates it.
PersistOpen(t) ==
  /\ HasRequiredArtifacts
  /\ Goto(t, "build", "dump")
  /\ used' = [used EXCEPT ![t] = dir]
  /\ meta' = "torn"
  /\ UNCHANGED <<lock, dir, build>>

\* json.dump, and the lock is released.  Only then does a runner that returned
\* None or no proof make prove raise.
PersistDump(t) ==
  /\ Goto(t, "dump", "collect") \/ Goto(t, "dump", "idle")
  /\ meta' = "whole"
  /\ Release
  /\ used' = [used EXCEPT ![t] = IF pc'[t] = "idle" THEN NoFiles ELSE @]
  /\ UNCHANGED <<dir, build>>

\* Unlinking or writing a file raises; the finally block releases the lock.
AccessRaises(t) ==
  /\ MayFail
  /\ Goto(t, "unlink", "idle") \/ Goto(t, "dump", "idle")
  /\ Release
  /\ used' = [used EXCEPT ![t] = NoFiles]
  /\ UNCHANGED fileVars

\* After a hit the runner proves without the lock, or raises.
ProveHit(t) ==
  /\ \/ Goto(t, "prove", "collect") /\ used' = [used EXCEPT ![t] = dir]
     \/ Goto(t, "prove", "idle")    /\ UNCHANGED used
  /\ UNCHANGED <<lock, fileVars>>

\* _collect_proof_refs, without the lock: proof and verification artifact.
Collect(t) ==
  /\ Goto(t, "collect", "idle")
  /\ used' = [used EXCEPT ![t] = NoFiles]
  /\ UNCHANGED <<lock, fileVars>>

\* The process is killed, as a benchmark case is at its timeout, perhaps in the
\* middle of an artifact.  The next process starts on the same directory.
Crash ==
  /\ \E t \in Prover : pc[t] # "idle"
  /\ pc' = [t \in Prover |-> "idle"]
  /\ \/ UNCHANGED dir
     \/ \E t \in Prover, a \in Artifact :
          /\ pc[t] = "build" /\ dir[a] = Missing
          /\ dir' = [dir EXCEPT ![a] = Torn]
  /\ Release
  /\ used' = [t \in Prover |-> NoFiles]
  /\ UNCHANGED <<meta, build>>

ProverStep(t) ==
  \/ Acquire(t) \/ CheckHit(t) \/ CheckMiss(t) \/ CheckRaises(t)
  \/ \E a \in Artifact : UnlinkArtifact(t, a) \/ WriteArtifact(t, a)
  \/ UnlinkMeta(t) \/ BuildRaises(t) \/ BuildIncomplete(t)
  \/ PersistOpen(t) \/ PersistDump(t) \/ AccessRaises(t) \/ ProveHit(t) \/ Collect(t)

Next == Crash \/ \E t \in Prover : Start(t) \/ ProverStep(t)

Spec == Init /\ [][Next]_vars

\* Threads are scheduled, and a run of the runner ends.  Nothing obliges
\* anybody to ask for a proof, or to start a new process.
FairSpec == Spec /\ \A t \in Prover : WF_vars(ProverStep(t))

-----------------------------------------------------------------------------
(* Properties.                                                             *)

\* The artifacts are all there, and all of one build.
Whole == \E b \in 1..build : \A a \in Artifact : dir[a] = b

\* Whatever was killed or raised before: what the check takes for a hit is a
\* complete set of artifacts of one build.
HitIsWhole == IsHit => Whole

\* A thread proves and collects its references without the lock, yet nobody
\* touches the directory meanwhile: the settings or the verification key that
\* goes into artifact_refs is of the build that the proof was made with.
RefsMatchProof ==
  \A t \in Prover :
    /\ pc[t] = "prove" => Whole
    /\ pc[t] = "collect" => Whole /\ used[t] = dir

\* bench/README.md, Cached Setup Mode: once there, a cache entry is reused and
\* never rebuilt, through failed proofs, errors and new processes.
NeverRebuilt == [][IsHit => IsHit' /\ dir' = dir]_vars

\* Once the check for a hit is over the lock is released, whatever raises: only
\* an error of the check itself can take it for good.
LockReleased ==
  (lock # None /\ pc[lock] \in {"unlink", "build", "dump"}) ~> (lock = None)
=============================================================================
