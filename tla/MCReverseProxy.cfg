CONSTANTS
  Requests = {r1, r2}
  MaxRetries = 2
  MaxCalls = 7
  FailureThreshold = 4
  SuccessThreshold = 2
  Timeout = 1
  WindowSize = 0
  MaxTime = 1
SPECIFICATION FairSpec
INVARIANTS
  StatsBalance
  EveryAttemptReports
  NeverOvercounted
  AmplificationBound
PROPERTIES
  RestWhileOpen
  BreakerContract
  EveryRequestAnswered
CHECK_DEADLOCK FALSE
