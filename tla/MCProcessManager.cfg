SPECIFICATION Spec
CONSTANTS
  Workers = {1, 2}
  TableSize = 3
  MaxPipelines = 2
  MaxFaults = 1
INVARIANTS TypeOK OwnChildOnly
PROPERTIES SinglePipelineEnds ZombiesReaped
CHECK_DEADLOCK FALSE
