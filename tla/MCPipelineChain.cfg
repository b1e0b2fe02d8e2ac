SPECIFICATION ModelSpec
CONSTANTS
  Last = 3
  DataCnt = 2
  InitialCmds <- MCInitialCmds
  Statuses <- ComponentStatuses
  Mortal <- Immortal
INVARIANTS StopIsLast
PROPERTIES DeliveredInOrder
CHECK_DEADLOCK FALSE
