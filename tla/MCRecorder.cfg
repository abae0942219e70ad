SPECIFICATION Spec
CONSTANTS
  Target <- MCTarget
  Radix <- MCRadix
  FaultSets <- MCFaultSets
INVARIANTS
  ClaimsBacked
  NoDoubleCount
PROPERTY ImplementsDurableLog
