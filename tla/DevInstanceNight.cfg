\* The first night of a new machine.
SPECIFICATION Spec
CONSTANTS
  MaxWork = 0
  MaxDays = 2
  MaxSnapshots = 0
PROPERTY NightlyShutdown
CHECK_DEADLOCK FALSE
