SPECIFICATION Spec
CONSTANTS
  Target <- MCTarget
  Cycles <- MCCycles
  NoTripLimit <- MCNoTripLimit
  OtherLimit <- MCOtherLimit
INVARIANTS
  CampaignWaitsDeenergized
  ExitDeenergized
  K3OnlyDuringInjection
  InterlockNeverRefuses
  RowsStemFromInjections
  StreaksBounded
  AtMostOneInjectionAfterStop
  ExitCodeOnDisk
PROPERTIES
  RowsWrittenOnceInOrder
  CampaignEnds
CHECK_DEADLOCK FALSE
