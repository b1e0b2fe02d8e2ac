SPECIFICATION Spec
CONSTANTS
  c1 = c1
  c2 = c2
  Clients <- MCClients
  Impatient <- MCImpatient
  BufSize = 3
  Lengths <- MCLengths
  LongLengths <- MCLongLengths
  MaxLines = 2
INVARIANTS TypeOK StreamIntact NeverBlocksInRead
PROPERTIES ClientAnswered ServerStops
CHECK_DEADLOCK FALSE
