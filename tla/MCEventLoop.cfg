CONSTANTS
  MaxTasks = 3
  MaxDepth = 3
  MaxTime = 2
  Delays = {0, 1}
  Priorities = {2}
  maxMicrotasksPerCycle = 1
SPECIFICATION Spec
INVARIANT NoTaskTwice
PROPERTIES
  FirstSetFirstRun
  MicrotasksFirst
  ClearedStaysOut
  LoopKeepsFrame
  TaskContract
CHECK_DEADLOCK FALSE
