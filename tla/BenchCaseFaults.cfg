\* A case with write errors, interrupts and a timeout at any moment.
SPECIFICATION Spec
CONSTANTS
  Request = {r1, r2, r3}
  None = None
  MayFail = TRUE
  MaySkip = FALSE
  Thread = {t1, t2}
  SlotsPerThread = 1
  MayInterrupt = TRUE
  Intent = "gpu"
  Policy = "fallback"
SYMMETRY Symmetry
INVARIANTS CaseTypeOK QueuedHasJob UnenqueuedIsTerminal AtMostOneLost ReturnsProcessed
INVARIANTS NoProofInvented CompletedMeansDone LeftAreTurnsTaken TrustIsEarned
PROPERTIES PipelineHandoff
CHECK_DEADLOCK FALSE
