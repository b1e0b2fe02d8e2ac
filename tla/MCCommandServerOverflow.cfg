SPECIFICATION Spec
CONSTANTS
  QueueSize = 4
  MaxCommands = 6
  MaxPending = 2
INVARIANT NoOverflow
CHECK_DEADLOCK FALSE
