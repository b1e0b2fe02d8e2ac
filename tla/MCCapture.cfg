SPECIFICATION CaptureSpec
CONSTANTS
  Blocks = 2
  MaxFrames = 2
  QueueCap = 2
  Rounds = 2
  MaxLost = 1
  MaxSwaps = 1
INVARIANTS FramesFaithful SavedForward AckMatchesRequest StoppedWhenDone
PROPERTIES CaptureEnds
CHECK_DEADLOCK FALSE
