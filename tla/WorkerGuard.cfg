\* A failed write of the store kills a pool thread, and join never returns.
SPECIFICATION FairSpec
CONSTANTS
  Request = {0, 1, 2}
  None = None
  MayFail = TRUE
  Thread = {t1}
  SlotsPerThread = 1
  MayInterrupt = FALSE
  Backlog <- MCBacklog
  MaxJobs = 1
  MaxRestarts = 0
PROPERTY RunEnds
CHECK_DEADLOCK FALSE
