CONSTANTS
  FrameWords    = 2
  FifoWords     = 7
  TimeoutFrames = 2
SPECIFICATION Spec
INVARIANTS
  PacketIsItsFrame
  StopsOnlyWhenLate
PROPERTIES
  NothingAfterCorrupt
  KeepsStreaming
CHECK_DEADLOCK FALSE
