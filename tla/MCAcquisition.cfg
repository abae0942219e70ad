SPECIFICATION Spec
CONSTANTS
  ForceAt <- MCForceAt
  Backstop <- MCBackstop
  AcqTimeout <- MCAcqTimeout
  PollSleep <- MCPollSleep
  MaxCall <- MCMaxCall
INVARIANTS
  K3ClosedBounded
  AnswerTellsTrigger
PROPERTY PollEnds
CHECK_DEADLOCK FALSE
