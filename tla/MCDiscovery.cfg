SPECIFICATION DiscoverySpec
CONSTANTS
  NIf = 2
  Datagrams <- MCDatagrams
  Wanted <- MCWanted
  SocketCap = 2
  MaxAnswers = 3
INVARIANTS EarlyAnswersFound
CHECK_DEADLOCK FALSE
