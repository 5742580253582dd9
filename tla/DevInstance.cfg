\* Two changes, and one night.  When they are over and everything has been done
\* the machine rests, hence no deadlock check.
SPECIFICATION Spec
CONSTANTS
  MaxWork = 2
  MaxDays = 2
  MaxSnapshots = 2
PROPERTY RestoredWorkIsKept
CHECK_DEADLOCK FALSE
