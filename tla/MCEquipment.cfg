SPECIFICATION Spec
CONSTANTS
  Target <- MCTarget
  Interval <- MCInterval
  Threshold <- MCThreshold
  Attempts <- MCAttempts
  Leftovers <- MCLeftovers
INVARIANTS
  WedgedLeftAlone
  CallsOnFullSession
  SessionReleased
  RefreshDue
  FailedAttemptHasNoRow
CHECK_DEADLOCK FALSE
