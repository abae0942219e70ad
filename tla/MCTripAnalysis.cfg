CONSTANTS
  Size = 46
  Pretrigger = 14
  Window = 6
  Wave <- MCWave
  Flows <- MCFlows
  Floor = 1
  Off = 2
  On = 4
  Leak = 2
  Confirm = 2
  PassLimit = 11
  NoTripLimit = 20
  Uncertainty = 2
SPECIFICATION Spec
INVARIANTS
  EnvelopeExact
  MeasuredToAQuarter
  LongBurstHalts
  PassIsEarned
  StuckK3Halts
CHECK_DEADLOCK FALSE
