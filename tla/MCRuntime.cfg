CONSTANTS
  Connections = {k1, k2}
  NoConn = NoConn
  Tls = TRUE
  MaxConnections = 1
  MaxRequests = 1
SPECIFICATION RuntimeFairSpec
INVARIANTS
  WithinLimit
  DownMeansClosed
  CountedOnce
  StoppedServesNobody
  MetricsGoDown
PROPERTIES
  TimerSparesRequests
  ReadsEnd
  ShutdownDrains
  StopsOnceAsked
CHECK_DEADLOCK FALSE
