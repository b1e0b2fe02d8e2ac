SPECIFICATION Spec
CONSTANTS
  c1 = c1
  c2 = c2
  Clients = {c1, c2}
  SizesBefore <- MCSizesBefore
  H = 2
  R = 2
  DATA_CNT = 2
  ObjMin = 1
  EmptyMin = 1
  SocketCap = 2
  MaxImages = 3
  MaxFaults = 1
SYMMETRY ClientsAlike
INVARIANTS FramesAligned
CHECK_DEADLOCK FALSE
