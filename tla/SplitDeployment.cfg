\* No failure of any kind: one server, one worker that may be started twice.
SPECIFICATION FairSpec
CONSTANTS
  Request = {r1}
  None = None
  MayFail = FALSE
  MaySkip = FALSE
  Thread = {t1}
  SlotsPerThread = 4
  MayInterrupt = FALSE
  MaxStarts = 2
PROPERTY StatusReachesServer
CHECK_DEADLOCK FALSE
