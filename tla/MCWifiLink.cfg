CONSTANTS
  InitialMs = 5
  MaxMs     = 30
  Troubles  = 4
SPECIFICATION Spec
INVARIANTS
  NeverStranded
  OneAttempt
  BackoffUnshared
  LinkFollowsAddress
  TokenMeansUp
PROPERTIES
  ReconnectsInTheEnd
CHECK_DEADLOCK FALSE
