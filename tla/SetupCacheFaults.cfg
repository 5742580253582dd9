\* Three threads, two artifacts, I/O failures, failed proofs and kills.  When the
\* bound on builds is reached nobody may start any more, hence no deadlock check.
SPECIFICATION FairSpec
CONSTANTS
  Prover = {p1, p2, p3}
  Artifact = {pk, vk}
  None = None
  MayFail = TRUE
  MaxBuilds = 5
INVARIANTS HitIsWhole RefsMatchProof
PROPERTIES NeverRebuilt LockReleased
CHECK_DEADLOCK FALSE
