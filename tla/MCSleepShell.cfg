SPECIFICATION FairSpec
CONSTANTS
  HP = HP
  LP = LP
  Modes <- MCModes
  PM_MODE_HP = HP
INVARIANTS
  DeepSleepWakes
  IdleIsShallow
PROPERTIES
  PpcWindowQuiet
  HeartbeatGoesOn
CHECK_DEADLOCK FALSE
