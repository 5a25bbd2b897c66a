CONSTANTS
  DpllMHz    <- MCDpllMHz
  IhoMHz     <- MCIhoMHz
  CeilingMHz <- MCCeilingMHz
  Hf0Divide  <- MCHf0Divide
  MayFail    = TRUE
  RingBytes  = 2
SPECIFICATION Spec
INVARIANTS
  ClockInWindow
  PulseCoversTransient
PROPERTIES
  SwitchIsAtomic
