SPECIFICATION Spec
CONSTANTS
  QueueSize = 4
  MaxCommands = 4
  MaxPending = 4
INVARIANTS TypeOK ExecutedInOrder PipelineShutDownOnce
PROPERTY ServerEnds
CHECK_DEADLOCK FALSE
