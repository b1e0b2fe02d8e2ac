SPECIFICATION Spec
CONSTANTS
  Lines <- MCLines
  MaxLines = 4
  MaxConn = 2
  BufCap = 3
INVARIANTS EventsPointToConnections
PROPERTIES QuitEnds StopEnds
CHECK_DEADLOCK FALSE
