-------------------------- MODULE SetupCacheProofs --------------------------
(***************************************************************************)
(* A cache entry is whole and stays as it is, for any threads, artifacts   *)
(* and number of builds.                                                   *)
(*                                                                         *)
(* Whoever is between the check and the metadata is alone there            *)
(* (Exclusive).  It deletes only what is no entry (UnlinksNoHit), builds   *)
(* where there is no metadata and no artifact of another build (Building), *)
(* and writes metadata to a complete build (Dumping).  So an entry, once   *)
(* there, is touched by nobody (HitsStay), and the threads that prove      *)
(* without the lock may rely on it.                                        *)
(***************************************************************************)
EXTENDS SetupCache, FiniteSetTheorems, TLAPS

\* The types the argument needs.
Typed ==
  /\ pc \in [Prover -> {"idle", "lock", "check", "unlink", "build", "dump", "prove", "collect"}]
  /\ dir \in [Artifact -> Nat]
  /\ meta \in {"missing", "torn", "whole"}
  /\ build \in Nat
  /\ used \in [Prover -> [Artifact -> Nat]]

Exclusive ==
  \A t \in Prover : pc[t] \in {"check", "unlink", "build", "dump"} => lock = t

UnlinksNoHit == \A t \in Prover : pc[t] = "unlink" => ~IsHit

Building ==
  \A t \in Prover : pc[t] = "build" =>
    /\ build > 0 /\ meta = "missing"
    /\ \A a \in Artifact : dir[a] \in {Missing, build}

Dumping ==
  \A t \in Prover : pc[t] = "dump" =>
    /\ build > 0 /\ meta = "torn"
    /\ \A a \in Artifact : dir[a] = build
    /\ used[t] = dir

\* A thread that proves or collects without the lock does so on an entry.
OnHit ==
  \A t \in Prover :
    /\ pc[t] = "prove" => IsHit
    /\ pc[t] = "collect" => IsHit /\ used[t] = dir

\* The inductive invariant.
IInv ==
  /\ Typed
  /\ Exclusive
  /\ UnlinksNoHit
  /\ Building
  /\ Dumping
  /\ OnHit
  /\ HitIsWhole

-----------------------------------------------------------------------------
\* An entry is defined by the directory and the metadata alone.
LEMMA SameFiles ==
  ASSUME dir' = dir, meta' = meta, build' = build
  PROVE  IsHit' = IsHit /\ Whole' = Whole
BY DEF IsHit, HasRequiredArtifacts, Whole

\* The cache starts empty.
LEMMA InitInv == Init => IInv
<1> SUFFICES ASSUME Init PROVE IInv
  OBVIOUS
<1>1. NoFiles \in [Artifact -> Nat]
  BY DEF NoFiles, Missing
<1>2. Typed
  BY <1>1 DEF Init, Typed
<1>3. ~IsHit
  BY DEF Init, IsHit
<1> QED
  BY <1>2, <1>3
     DEF Init, IInv, Exclusive, UnlinksNoHit, Building, Dumping, OnHit, HitIsWhole

\* Steps that touch no file: a thread gets the lock, checks, proves or ends.
LEMMA QuietStep ==
  ASSUME IInv, NEW t \in Prover,
         Start(t) \/ Acquire(t) \/ CheckHit(t) \/ CheckMiss(t) \/ CheckRaises(t)
           \/ BuildIncomplete(t) \/ AccessRaises(t) \/ ProveHit(t) \/ Collect(t)
  PROVE  IInv'
<1>1. dir' = dir /\ meta' = meta /\ build' = build
  BY DEF Start, Acquire, CheckHit, CheckMiss, CheckRaises, BuildIncomplete, AccessRaises,
         ProveHit, Collect, fileVars
<1>2. IsHit' = IsHit /\ Whole' = Whole
  BY <1>1, SameFiles
<1>3. NoFiles \in [Artifact -> Nat]
  BY DEF NoFiles, Missing
<1> USE CacheAssumption, <1>1, <1>2, <1>3
    DEF Goto, Release, IInv, Typed, Exclusive, UnlinksNoHit, Building, Dumping, OnHit,
        HitIsWhole, Missing
<1>4. CASE Start(t) \/ Acquire(t)
  BY <1>4 DEF Start, Acquire
<1>5. CASE CheckHit(t)
  BY <1>5 DEF CheckHit
<1>6. CASE CheckMiss(t) \/ CheckRaises(t)
  BY <1>6 DEF CheckMiss, CheckRaises
<1>7. CASE BuildIncomplete(t)
  BY <1>7 DEF BuildIncomplete
<1>8. CASE AccessRaises(t)
  BY <1>8 DEF AccessRaises
<1>9. CASE ProveHit(t)
  BY <1>9 DEF ProveHit
<1>10. CASE Collect(t)
  BY <1>10 DEF Collect
<1> QED
  BY <1>4, <1>5, <1>6, <1>7, <1>8, <1>9, <1>10

\* Emptying the directory: it was no entry, and is none.
LEMMA UnlinkStep ==
  ASSUME IInv, NEW t \in Prover,
         UnlinkMeta(t) \/ \E a \in Artifact : UnlinkArtifact(t, a)
  PROVE  IInv'
<1> USE CacheAssumption
    DEF Goto, IInv, Typed, Exclusive, UnlinksNoHit, Building, Dumping, OnHit, HitIsWhole
<1>1. CASE UnlinkMeta(t)
  <2>1. ~IsHit /\ ~IsHit'
    BY <1>1 DEF UnlinkMeta, IsHit
  <2>2. \A a \in Artifact : dir'[a] = Missing
    BY <1>1 DEF UnlinkMeta, NoFiles
  <2> QED
    BY <1>1, <2>1, <2>2 DEF UnlinkMeta
<1>2. ASSUME NEW a \in Artifact, UnlinkArtifact(t, a) PROVE IInv'
  <2>1. dir' = [dir EXCEPT ![a] = Missing] /\ dir' \in [Artifact -> Nat]
    BY <1>2 DEF UnlinkArtifact, Missing
  <2>2. ~IsHit /\ ~IsHit'
    BY <1>2, <2>1 DEF UnlinkArtifact, IsHit, HasRequiredArtifacts
  <2> QED
    BY <1>2, <2>1, <2>2 DEF UnlinkArtifact
<1> QED
  BY <1>1, <1>2

\* Building: there is no metadata, and nobody but the builder is past the check.
LEMMA BuildStep ==
  ASSUME IInv, NEW t \in Prover,
         BuildRaises(t) \/ \E a \in Artifact : WriteArtifact(t, a)
  PROVE  IInv'
<1>1. pc[t] = "build" /\ meta = "missing" /\ meta' = meta /\ build' = build
  BY DEF BuildRaises, WriteArtifact, Goto, IInv, Building
<1>2. ~IsHit /\ ~IsHit'
  BY <1>1 DEF IsHit
<1>3. Torn \in Nat /\ Missing \in Nat /\ build \in Nat
  BY <1>1, CacheAssumption DEF IInv, Typed, Torn, Missing
<1> USE CacheAssumption, <1>1, <1>2, <1>3
    DEF Goto, Release, IInv, Typed, Exclusive, UnlinksNoHit, Building, Dumping, OnHit, HitIsWhole
<1>4. CASE BuildRaises(t)
  BY <1>4 DEF BuildRaises
<1>5. ASSUME NEW a \in Artifact, WriteArtifact(t, a) PROVE IInv'
  BY <1>5 DEF WriteArtifact
<1> QED
  BY <1>4, <1>5

\* The metadata goes to a complete build, which becomes an entry.
LEMMA PersistStep ==
  ASSUME IInv, NEW t \in Prover, PersistOpen(t) \/ PersistDump(t)
  PROVE  IInv'
<1> USE CacheAssumption
    DEF Goto, Release, IInv, Typed, Exclusive, UnlinksNoHit, Building, Dumping, OnHit, HitIsWhole
<1>1. CASE PersistOpen(t)
  <2>1. ~IsHit /\ ~IsHit'
    BY <1>1 DEF PersistOpen, IsHit
  <2>2. \A a \in Artifact : dir[a] = build
    BY <1>1 DEF PersistOpen, HasRequiredArtifacts
  <2> QED
    BY <1>1, <2>1, <2>2 DEF PersistOpen
<1>2. CASE PersistDump(t)
  <2>1. pc[t] = "dump" /\ dir' = dir /\ build' = build /\ meta' = "whole"
    BY <1>2 DEF PersistDump
  <2>2. build > 0 /\ \A a \in Artifact : dir[a] = build
    BY <2>1
  <2>3. Whole' /\ IsHit'
    BY <2>1, <2>2 DEF Whole, IsHit, HasRequiredArtifacts, Missing
  <2>4. NoFiles \in [Artifact -> Nat]
    BY DEF NoFiles, Missing
  <2>5. used' \in [Prover -> [Artifact -> Nat]] /\ (pc'[t] = "collect" => used'[t] = dir')
    BY <1>2, <2>1, <2>4 DEF PersistDump
  <2> QED
    BY <1>2, <2>1, <2>3, <2>5 DEF PersistDump
<1> QED
  BY <1>1, <1>2

\* A kill leaves an entry alone, or a directory without metadata.
LEMMA CrashStep ==
  ASSUME IInv, Crash
  PROVE  IInv'
<1>1. Torn \in Nat /\ NoFiles \in [Artifact -> Nat]
  BY CacheAssumption DEF Torn, NoFiles, Missing
<1>2. Typed'
  BY <1>1 DEF Crash, IInv, Typed
<1>3. HitIsWhole'
  <2>1. CASE UNCHANGED dir
    BY <2>1, SameFiles DEF Crash, IInv, HitIsWhole
  <2>2. CASE \E t \in Prover : pc[t] = "build"
    BY <2>2 DEF Crash, IInv, Building, HitIsWhole, IsHit
  <2> QED
    BY <2>1, <2>2 DEF Crash
<1> QED
  BY <1>2, <1>3 DEF Crash, IInv, Exclusive, UnlinksNoHit, Building, Dumping, OnHit

\* IInv is an invariant of SetupCache.
LEMMA StepInv == IInv /\ [Next]_vars => IInv'
<1> SUFFICES ASSUME IInv, [Next]_vars PROVE IInv'
  OBVIOUS
<1>1. CASE UNCHANGED vars
  <2>1. IsHit' = IsHit /\ Whole' = Whole
    BY <1>1, SameFiles DEF vars, fileVars
  <2> QED
    BY <1>1, <2>1 DEF vars, fileVars, IInv, Typed, Exclusive, UnlinksNoHit, Building, Dumping,
                      OnHit, HitIsWhole
<1>2. CASE Crash
  BY <1>2, CrashStep
<1>3. ASSUME NEW t \in Prover, Start(t) \/ ProverStep(t) PROVE IInv'
  BY <1>3, QuietStep, UnlinkStep, BuildStep, PersistStep DEF ProverStep
<1> QED
  BY <1>1, <1>2, <1>3 DEF Next

THEOREM Invariance == Spec => []IInv
BY InitInv, StepInv, PTL DEF Spec

\* What the check takes for a hit is a complete set of artifacts of one build,
\* whatever was killed or raised before (zklora_adapter.py, _is_setup_cache_hit).
THEOREM HitsAreWhole == Spec => []HitIsWhole
<1>1. IInv => HitIsWhole
  BY DEF IInv
<1> QED
  BY <1>1, Invariance, PTL

\* A thread proves and collects without the lock on artifacts of one build,
\* and its references are of the build that its proof was made with.
THEOREM RefsAreOfProof == Spec => []RefsMatchProof
<1>1. IInv => RefsMatchProof
  BY DEF IInv, OnHit, HitIsWhole, RefsMatchProof
<1> QED
  BY <1>1, Invariance, PTL

\* An entry that is there is never deleted, rewritten or built again.
THEOREM HitsStay == Spec => NeverRebuilt
<1>1. IInv /\ [Next]_vars => [IsHit => IsHit' /\ dir' = dir]_vars
  <2> SUFFICES ASSUME IInv, Next, IsHit PROVE IsHit' /\ dir' = dir
    BY DEF vars
  <2>1. dir' = dir /\ meta' = meta /\ build' = build => IsHit' /\ dir' = dir
    BY SameFiles
  <2>2. \A t \in Prover : pc[t] \notin {"unlink", "build", "dump"}
    BY DEF IInv, UnlinksNoHit, Building, Dumping, IsHit
  <2>3. dir' = dir /\ meta' = meta /\ build' = build
    BY <2>2 DEF Next, Crash, ProverStep, Start, Acquire, CheckHit, CheckMiss, CheckRaises,
                UnlinkArtifact, UnlinkMeta, WriteArtifact, BuildRaises, BuildIncomplete,
                PersistOpen, PersistDump, AccessRaises, ProveHit, Collect, Goto, fileVars
  <2> QED
    BY <2>1, <2>3
<1> QED
  BY <1>1, Invariance, PTL DEF Spec, NeverRebuilt

-----------------------------------------------------------------------------
(* The lock is released: the part of it that is about states and steps.    *)

\* A thread that has the lock is in one of these places, unless it has lost it.
UnderLock == {"check", "unlink", "build", "dump"}
Lost == lock # None /\ pc[lock] \notin UnderLock

\* The lock belongs to a thread; a lost one to a thread that has left prove, or has
\* come back and waits for itself.
Owned ==
  /\ lock \in Prover \cup {None}
  /\ Lost => pc[lock] \in {"idle", "lock"}

LEMMA OwnedStep == IInv /\ Owned /\ [Next]_vars => Owned'
<1> SUFFICES ASSUME IInv, Owned, [Next]_vars PROVE Owned'
  OBVIOUS
<1> USE CacheAssumption DEF Owned, Lost, UnderLock, Goto, Release, IInv, Typed, Exclusive
<1>1. CASE UNCHANGED vars \/ Crash
  BY <1>1 DEF vars, Crash
<1>2. ASSUME NEW t \in Prover, Start(t) \/ Acquire(t) PROVE Owned'
  BY <1>2 DEF Start, Acquire
<1>3. ASSUME NEW t \in Prover, CheckHit(t) \/ CheckMiss(t) \/ CheckRaises(t) PROVE Owned'
  BY <1>3 DEF CheckHit, CheckMiss, CheckRaises
<1>4. ASSUME NEW t \in Prover, NEW a \in Artifact, UnlinkArtifact(t, a) \/ WriteArtifact(t, a)
      PROVE  Owned'
  BY <1>4 DEF UnlinkArtifact, WriteArtifact
<1>5. ASSUME NEW t \in Prover,
             \/ BuildRaises(t) \/ BuildIncomplete(t) \/ PersistDump(t) \/ AccessRaises(t)
      PROVE  Owned'
  BY <1>5 DEF BuildRaises, BuildIncomplete, PersistDump, AccessRaises
<1>6. ASSUME NEW t \in Prover, UnlinkMeta(t) \/ PersistOpen(t) PROVE Owned'
  BY <1>6 DEF UnlinkMeta, PersistOpen
<1>7. ASSUME NEW t \in Prover, ProveHit(t) \/ Collect(t) PROVE Owned'
  BY <1>7 DEF ProveHit, Collect
<1> QED
  BY <1>1, <1>2, <1>3, <1>4, <1>5, <1>6, <1>7 DEF Next, ProverStep

\* The lock is lost in one way only: the check for a hit raises (zklora_adapter.py:485,
\* outside the try block).  It is then lost until the process is killed.
LostByCheck ==
  [][/\ ~Lost /\ Lost' => \E t \in Prover : CheckRaises(t)
     /\ Lost /\ ~Lost' => Crash]_vars

THEOREM LockLostByCheckOnly == Spec => LostByCheck
<1>1. Init => Owned
  BY DEF Init, Owned, Lost
<1>2. IInv /\ Owned /\ [Next]_vars =>
        [/\ ~Lost /\ Lost' => \E t \in Prover : CheckRaises(t)
         /\ Lost /\ ~Lost' => Crash]_vars
  <2> SUFFICES ASSUME IInv, Owned, Next
               PROVE  /\ ~Lost /\ Lost' => \E t \in Prover : CheckRaises(t)
                      /\ Lost /\ ~Lost' => Crash
    OBVIOUS
  <2> USE CacheAssumption DEF Owned, Lost, UnderLock, Goto, Release, IInv, Typed, Exclusive
  <2>1. CASE Crash
    BY <2>1 DEF Crash
  <2>2. ASSUME NEW t \in Prover, CheckRaises(t) PROVE ~(Lost /\ ~Lost')
    BY <2>2 DEF CheckRaises
  <2>3. ASSUME NEW t \in Prover, Start(t) \/ Acquire(t) PROVE Lost' <=> Lost
    BY <2>3 DEF Start, Acquire
  <2>4. ASSUME NEW t \in Prover, CheckHit(t) \/ CheckMiss(t) PROVE Lost' <=> Lost
    BY <2>4 DEF CheckHit, CheckMiss
  <2>5. ASSUME NEW t \in Prover, NEW a \in Artifact, UnlinkArtifact(t, a) \/ WriteArtifact(t, a)
        PROVE  Lost' <=> Lost
    BY <2>5 DEF UnlinkArtifact, WriteArtifact
  <2>6. ASSUME NEW t \in Prover,
               \/ BuildRaises(t) \/ BuildIncomplete(t) \/ PersistDump(t) \/ AccessRaises(t)
        PROVE  Lost' <=> Lost
    BY <2>6 DEF BuildRaises, BuildIncomplete, PersistDump, AccessRaises
  <2>7. ASSUME NEW t \in Prover, UnlinkMeta(t) \/ PersistOpen(t) PROVE Lost' <=> Lost
    BY <2>7 DEF UnlinkMeta, PersistOpen
  <2>8. ASSUME NEW t \in Prover, ProveHit(t) \/ Collect(t) PROVE Lost' <=> Lost
    BY <2>8 DEF ProveHit, Collect
  <2> QED
    BY <2>1, <2>2, <2>3, <2>4, <2>5, <2>6, <2>7, <2>8 DEF Next, ProverStep
<1> QED
  BY <1>1, <1>2, OwnedStep, Invariance, PTL DEF Spec, LostByCheck

\* The most steps the holder has left before it releases the lock: to delete what is
\* there, make every artifact and write the metadata.
Present == {a \in Artifact : dir[a] # Missing}

StepsLeft ==
  [unlink |-> Cardinality(Present) + Cardinality(Artifact) + 3,
   build  |-> Cardinality(Artifact \ Present) + 2,
   dump   |-> 1][pc[lock]]

Held == lock # None /\ pc[lock] \in {"unlink", "build", "dump"}

\* Once the check is over the lock is the holder's until it is released; each step of
\* the holder brings that nearer, and no other thread's puts it off.
ReleaseComesNearer ==
  [][Held =>
       \/ lock' = None
       \/ /\ lock' = lock /\ Held'
          /\ IF ProverStep(lock) THEN StepsLeft' < StepsLeft ELSE StepsLeft' = StepsLeft]_vars

\* A step of the holder that does not release the lock leaves it one step less.
LEMMA HolderNearer ==
  ASSUME IsFiniteSet(Artifact), IInv, Owned, Held, ProverStep(lock), lock' # None
  PROVE  lock' = lock /\ Held' /\ StepsLeft' < StepsLeft
<1> DEFINE n == Cardinality(Artifact)
           t == lock
<1>0. /\ t \in Prover /\ t # None /\ pc[t] \in {"unlink", "build", "dump"}
      /\ pc \in [Prover -> {"idle", "lock", "check", "unlink", "build", "dump", "prove", "collect"}]
      /\ dir \in [Artifact -> Nat]
  BY DEF Owned, Held, IInv, Typed
<1>1. /\ IsFiniteSet(Present) /\ Cardinality(Present) \in Nat
      /\ IsFiniteSet(Artifact \ Present) /\ Cardinality(Artifact \ Present) \in Nat
      /\ n \in Nat
  BY FS_Subset, FS_CardinalityType DEF Present
<1>2. ASSUME NEW a \in Artifact, UnlinkArtifact(t, a)
      PROVE  lock' = lock /\ Held' /\ StepsLeft' < StepsLeft
  <2>1. pc[t] = "unlink" /\ pc' = pc /\ lock' = lock /\ a \in Present /\ Present' = Present \ {a}
    BY <1>0, <1>2 DEF UnlinkArtifact, Present, Missing
  <2>2. Cardinality(Present') = Cardinality(Present) - 1
    BY <1>1, <2>1, FS_RemoveElement
  <2>3. StepsLeft = Cardinality(Present) + n + 3 /\ StepsLeft' = Cardinality(Present') + n + 3
    BY <2>1 DEF StepsLeft
  <2>4. StepsLeft' < StepsLeft
    BY <1>1, <2>2, <2>3
  <2> QED
    BY <1>0, <2>1, <2>4 DEF Held
<1>3. ASSUME NEW a \in Artifact, WriteArtifact(t, a)
      PROVE  lock' = lock /\ Held' /\ StepsLeft' < StepsLeft
  <2>1. /\ pc[t] = "build" /\ pc' = pc /\ lock' = lock /\ a \in Artifact \ Present
        /\ dir' = [dir EXCEPT ![a] = build]
    BY <1>0, <1>3 DEF WriteArtifact, Present
  <2>2. build # Missing
    BY <1>0, <2>1 DEF IInv, Typed, Building, Missing
  <2>3. Artifact \ Present' = (Artifact \ Present) \ {a}
    BY <1>0, <2>1, <2>2 DEF Present
  <2>4. Cardinality(Artifact \ Present') = Cardinality(Artifact \ Present) - 1
    BY <1>1, <2>1, <2>3, FS_RemoveElement
  <2>5. /\ StepsLeft = Cardinality(Artifact \ Present) + 2
        /\ StepsLeft' = Cardinality(Artifact \ Present') + 2
    BY <2>1 DEF StepsLeft
  <2>6. StepsLeft' < StepsLeft
    BY <1>1, <2>4, <2>5
  <2> QED
    BY <1>0, <2>1, <2>6 DEF Held
<1>4. CASE UnlinkMeta(t)
  <2>1. /\ pc[t] = "unlink" /\ pc'[t] = "build" /\ lock' = lock
        /\ \A a \in Artifact : dir[a] = Missing
    BY <1>0, <1>4 DEF UnlinkMeta, Goto, NoFiles
  <2>2. Present = {} /\ Present' = {}
    BY <1>4, <2>1 DEF UnlinkMeta, Present
  <2>3. Cardinality(Present) = 0 /\ Artifact \ Present' = Artifact
    BY <2>2, FS_EmptySet
  <2>4. StepsLeft = n + 3 /\ StepsLeft' = n + 2
    BY <1>1, <2>1, <2>3 DEF StepsLeft
  <2>5. StepsLeft' < StepsLeft
    BY <1>1, <2>4
  <2> QED
    BY <1>0, <2>1, <2>5 DEF Held
<1>5. CASE PersistOpen(t)
  <2>1. pc[t] = "build" /\ pc'[t] = "dump" /\ lock' = lock
    BY <1>0, <1>5 DEF PersistOpen, Goto
  <2>2. StepsLeft = Cardinality(Artifact \ Present) + 2 /\ StepsLeft' = 1
    BY <2>1 DEF StepsLeft
  <2>3. StepsLeft' < StepsLeft
    BY <1>1, <2>2
  <2> QED
    BY <1>0, <2>1, <2>3 DEF Held
<1>6. ~(BuildRaises(t) \/ BuildIncomplete(t) \/ PersistDump(t) \/ AccessRaises(t))
  BY DEF BuildRaises, BuildIncomplete, PersistDump, AccessRaises, Release
<1>7. ~(\/ Acquire(t) \/ CheckHit(t) \/ CheckMiss(t) \/ CheckRaises(t) \/ ProveHit(t)
        \/ Collect(t))
  BY <1>0 DEF Acquire, CheckHit, CheckMiss, CheckRaises, ProveHit, Collect, Goto
<1> QED
  BY <1>2, <1>3, <1>4, <1>5, <1>6, <1>7 DEF ProverStep

\* Without the lock a thread touches neither the lock nor the directory.
LEMMA OthersWait ==
  ASSUME IInv, Owned, Held, NEW t \in Prover, t # lock, Start(t) \/ ProverStep(t)
  PROVE  lock' = lock /\ pc'[lock] = pc[lock] /\ dir' = dir
<1>0. /\ lock \in Prover /\ pc[t] \notin UnderLock
      /\ pc \in [Prover -> {"idle", "lock", "check", "unlink", "build", "dump", "prove", "collect"}]
  BY DEF Owned, Held, IInv, Typed, Exclusive, UnderLock
<1>1. Start(t) \/ ProveHit(t) \/ Collect(t)
  BY <1>0
  DEF Held, UnderLock, ProverStep, Acquire, CheckHit, CheckMiss, CheckRaises, UnlinkArtifact, UnlinkMeta,
      WriteArtifact, BuildRaises, BuildIncomplete, PersistOpen, PersistDump, AccessRaises, Goto
<1> QED
  BY <1>0, <1>1 DEF Start, ProveHit, Collect, Goto, fileVars

\* With finitely many artifacts, the thread that is past the check releases the lock
\* after a bounded number of its own steps, whatever raises in between.
THEOREM HolderGetsOut ==
  ASSUME IsFiniteSet(Artifact)
  PROVE  Spec => [](Held => StepsLeft \in Nat) /\ ReleaseComesNearer
<1>1. Init => Owned
  BY DEF Init, Owned, Lost
<1>2. IInv => (Held => StepsLeft \in Nat)
  <2> SUFFICES ASSUME Held PROVE StepsLeft \in Nat
    OBVIOUS
  <2>1. /\ Cardinality(Present) \in Nat /\ Cardinality(Artifact \ Present) \in Nat
        /\ Cardinality(Artifact) \in Nat
    BY FS_Subset, FS_CardinalityType DEF Present
  <2> QED
    BY <2>1 DEF StepsLeft, Held
<1>3. IInv /\ Owned /\ [Next]_vars =>
        [Held =>
           \/ lock' = None
           \/ /\ lock' = lock /\ Held'
              /\ IF ProverStep(lock) THEN StepsLeft' < StepsLeft ELSE StepsLeft' = StepsLeft]_vars
  <2> SUFFICES ASSUME IInv, Owned, Next, Held, lock' # None
               PROVE  /\ lock' = lock /\ Held'
                      /\ IF ProverStep(lock) THEN StepsLeft' < StepsLeft ELSE StepsLeft' = StepsLeft
    OBVIOUS
  <2>1. CASE ProverStep(lock)
    BY <2>1, HolderNearer
  <2>2. CASE ~ProverStep(lock)
    <3>1. PICK t \in Prover : Start(t) \/ ProverStep(t)
      BY DEF Next, Crash, Release
    <3>2. t # lock
      BY <2>2, <3>1 DEF Start, Goto, Held
    <3>3. lock' = lock /\ pc'[lock] = pc[lock] /\ dir' = dir
      BY <3>1, <3>2, OthersWait
    <3> QED
      BY <2>2, <3>3 DEF Held, StepsLeft, Present
  <2> QED
    BY <2>1, <2>2
<1> QED
  BY <1>1, <1>2, <1>3, OwnedStep, Invariance, PTL DEF Spec, ReleaseComesNearer
=============================================================================
