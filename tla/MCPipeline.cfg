SPECIFICATION Spec
CONSTANTS
  Last = 2
  DataCnt = 2
  InitialCmds <- MCInitialCmds
  Statuses <- AnyStatus
  Mortal <- Workers
INVARIANTS TypeOK NoCommandOverwritten ProcessInfoExclusive OneOwner NoLeak
  ChildWorksOnOwnBuffer NoRingOverflow CleanShutdown
PROPERTIES ShutdownCompletes BuffersComeBack
CHECK_DEADLOCK FALSE
