SPECIFICATION Spec
INVARIANTS
  RunningMeansAlive
PROPERTIES
  ReuseOnlyWhenGone
  SenderEnds
