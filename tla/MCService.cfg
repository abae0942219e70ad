SPECIFICATION Spec
CONSTANTS
  WatchdogSec <- MCWatchdogSec
  RestartSec <- MCRestartSec
  TimeoutStopSec <- MCTimeoutStopSec
  HttpTimeout <- MCHttpTimeout
  SleepSecs <- MCSleepSecs
INVARIANTS
  SleepOutlivesWatchdog
  StopEndsSleep
  HaltNotForgotten
PROPERTY ReopenedAfterKill
CHECK_DEADLOCK FALSE
