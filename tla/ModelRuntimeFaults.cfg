\* Four requests, any of which may fail anywhere.  When all have come to
\* their end there is nothing left to do, hence no deadlock check.
SPECIFICATION FairSpec
CONSTANTS
  Request = {r1, r2, r3, r4}
  None = None
INVARIANTS TypeOK PacketIsOwn ServedByBothHooks
PROPERTY EveryRequestEnds
CHECK_DEADLOCK FALSE
