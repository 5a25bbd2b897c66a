SPECIFICATION HostSpec
CONSTANTS
  SeqSpace = 4
  MaxFrames = 6
  MaxFlight = 3
  MaxFaults = 2
INVARIANTS
  LossIsExact
  LateCostsSpace
CHECK_DEADLOCK FALSE
