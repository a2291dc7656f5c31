CONSTANTS
  u1 = u1
  u2 = u2
  NoConn = NoConn
  Users <- TwoUsers
  MaxConnections = 1
  MaxPools = 2
  MaxDials = 2
  MaxIssued = 2
  MaxClosers = 1
SPECIFICATION Spec
INVARIANT ShutdownComplete
CHECK_DEADLOCK FALSE
