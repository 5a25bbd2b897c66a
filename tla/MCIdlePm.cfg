SPECIFICATION FairSpec
CONSTANTS
  Pauses <- MCPauses
  Handled <- MCHandled
INVARIANTS
  SleepHasWake
PROPERTIES
  BlinksForever
  M55Parks
