CONSTANTS
  MaxTasks = 1
  MaxDepth = 1
  MaxTime = 2
  Delays = {1}
  Priorities = {2}
  maxMicrotasksPerCycle = 1
SPECIFICATION Spec
PROPERTY ClearIntervalCancels
CHECK_DEADLOCK FALSE
