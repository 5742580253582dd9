\* Two writers, a client that polls, failed writes, crashes and restarts.
SPECIFICATION Spec
CONSTANTS
  Request = {r1, r2}
  Writer = {w1, w2}
  Reader = {c1}
  None = None
  MayFail = TRUE
SYMMETRY Symmetry
INVARIANTS TypeOK StoreNeverTorn DurableComplete OkMeansTerminal
PROPERTIES ImplementsStatusStore DurableAdvances ReturnedIsDurable PollsAdvance
