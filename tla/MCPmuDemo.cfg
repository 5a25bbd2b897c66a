SPECIFICATION DemoFairSpec
CONSTANTS
  MaxPstates = 10
  DtConfigs <- MCConfigs
  Script <- MCScript
  BadP = 9
  MaxFaults = 1
INVARIANTS
  CleanMeansThere
  OnlyProgrammed
  DemoRecovers
PROPERTIES
  DemoEnds
CHECK_DEADLOCK FALSE
