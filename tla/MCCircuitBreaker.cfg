CONSTANTS
  Calls = {c1, c2, c3, c4}
  FailureThreshold = 2
  SuccessThreshold = 2
  Timeout = 2
  WindowSize = 1
  MaxTime = 4
SPECIFICATION Spec
SYMMETRY CallSymmetry
INVARIANTS
  ClosedBelowThreshold
  NoMissedClose
  BarFromOpening
PROPERTIES
  CoolDown
  TripIsEarned
CHECK_DEADLOCK FALSE
