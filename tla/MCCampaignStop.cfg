SPECIFICATION Spec
CONSTANTS
  Target <- MCTarget
  Cycles <- MCCycles
  NoTripLimit <- MCNoTripLimit
  OtherLimit <- MCOtherLimit
INVARIANT StopIsNotAHalt
CHECK_DEADLOCK FALSE
