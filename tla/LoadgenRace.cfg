\* The worker claims a job between its append and its first status.
SPECIFICATION FairSpec
CONSTANTS
  Request = {r1, r2}
  None = None
  MayFail = FALSE
  MaySkip = FALSE
  Loop = Loop
  Main = Main
  MayStop = FALSE
PROPERTY EnqueuedFinishes
CHECK_DEADLOCK FALSE
