SPECIFICATION BringUpFairSpec
CONSTANTS
  radar_regs <- MCregs
  FIFO_SIZE = 4
  Limits <- MCLimits
  SOFT_RESET_TIMEOUT = 2
  NUM_FRAMES = 2
INVARIANTS
  RunsAsConfigured
  NobodyLeftRunning
PROPERTIES
  ResetReturns
CHECK_DEADLOCK FALSE
