\* Requests, the worker thread and the drain, with I/O failures.
SPECIFICATION FairSpec
CONSTANTS
  Request = {r1, r2}
  None = None
  MayFail = TRUE
  MaySkip = TRUE
  Loop = Loop
  Main = Main
  MayStop = TRUE
INVARIANTS ProvedOnce ProvingIsPending
PROPERTIES StoreContract ProvingFinishes
CHECK_DEADLOCK FALSE
