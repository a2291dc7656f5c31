CONSTANTS
  Calls = {c1, c2, c3, c4, c5}
  FailureThreshold = 2
  SuccessThreshold = 2
  Timeout = 2
  WindowSize = 1
  MaxTime = 4
SPECIFICATION UnattendedSpec
SYMMETRY CallSymmetry
PROPERTY RecoveryIsEarned
CHECK_DEADLOCK FALSE
