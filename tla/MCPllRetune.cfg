CONSTANTS
  DpllMHz            = 200
  IhoMHz             = 50
  CeilingMHz         <- MCCeilingMHz
  FinalMHz           <- MCFinalMHz
  IntermediateLpMHz  = 75
  IntermediateUlpMHz = 41
  MayFail            = TRUE
  RingBytes          = 2
SPECIFICATION Spec
INVARIANTS
  ConsoleReadable
PROPERTIES
  RetuneStaysInside
  OutcomeIsKnown
  NoByteAcrossRetune
  CommandReturns
