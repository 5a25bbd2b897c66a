SPECIFICATION Spec
CONSTANTS
  DpllMHz = 400
  Hf0Divide <- MCHf0Divide
  CeilingMHz <- MCCeilingMHz
  BootTrim <- MCBootTrim
  MayFail = TRUE
INVARIANTS
  MaskCoversTransition
  ClockFitsRail
PROPERTIES
  CommitIsComplete
