SPECIFICATION Spec
CONSTANTS
  Frames <- MCFrames
  ReadFailLimit <- MCReadFailLimit
  StaleAfter <- MCStaleAfter
  DropLimit <- MCDropLimit
  WindowFrames <- MCWindowFrames
  HueMinFrames <- MCHueMinFrames
  Agreement <- MCAgreement
  GreenWindow <- MCGreenWindow
  GreenFrames <- MCGreenFrames
  GreenSpan <- MCGreenSpan
  GateTimeout <- MCGateTimeout
  MaxSleep <- MCMaxSleep
INVARIANTS
  BootAnimationNeverGrants
  NothingCarriedOver
  SteadyGreenIsGranted
PROPERTY GateAnswers
