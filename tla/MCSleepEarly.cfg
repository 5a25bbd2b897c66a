SPECIFICATION FairSpec
CONSTANTS
  HP = HP
  LP = LP
  Modes <- MCModes
  PM_MODE_HP = HP
INVARIANTS ModeIsReal
CHECK_DEADLOCK FALSE
