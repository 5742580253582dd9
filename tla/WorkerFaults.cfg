\* A pool of two, a full queue, I/O failures, interrupts and a restart.
SPECIFICATION FairSpec
CONSTANTS
  Request = {0, 1, 2, 3, 4}
  None = None
  MayFail = TRUE
  Thread = {t1, t2}
  SlotsPerThread = 1
  MayInterrupt = TRUE
  Backlog <- MCBacklog
  MaxJobs = 0
  MaxRestarts = 1
INVARIANTS OnePlace UnfinishedIsWork InFlightIsPending
PROPERTIES NeverProvedAgain RunEndsOrThreadDies
CHECK_DEADLOCK FALSE
