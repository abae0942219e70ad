SPECIFICATION Spec
CONSTANTS
  Target <- MCTarget
  Radix <- MCRadix
  FaultSets <- MCRewriteCrash
INVARIANT ReconcileLosesNothing
