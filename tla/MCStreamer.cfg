SPECIFICATION StreamerSpec
CONSTANTS
  Last = 2
  DataCnt = 2
  InitialCmds <- Cmds
  Statuses <- FilterStatuses
  Mortal <- Immortal
PROPERTY KilledByExit
CHECK_DEADLOCK FALSE
