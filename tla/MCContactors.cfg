SPECIFICATION SelfTestSpec
CONSTANTS
  Cycles <- MCCycles
  MaxPulses <- MCMaxPulses
  MaxStagger <- MCMaxStagger
INVARIANTS
  WiredInterlock
  SafeOffReportTruthful
  ToolNeverRefused
  DetectorKeepsWindow
PROPERTIES
  NoHotSwitching
  ImplementsInterlock
