SPECIFICATION Spec
CONSTANTS
  Target <- MCTarget
  Cycles <- MCCycles
  NoTripLimit <- MCNoTripLimit
  OtherLimit <- MCOtherLimit
INVARIANT ExitZeroMeansCompleted
CHECK_DEADLOCK FALSE
