CONSTANTS
  Connections = {k1, k2}
  NoConn = NoConn
  Tls = TRUE
  MaxConnections = 1
  MaxRequests = 2
SPECIFICATION Spec
PROPERTY IdleCheckSparesBusy
CHECK_DEADLOCK FALSE
