CONSTANTS
  Queries = {q1, q2}
  NoStatement = NoStatement
  Shutdowns = {d1, d2}
  Statements <- AllStatements
SPECIFICATION FairSpec
INVARIANTS
  OutcomesAddUp
  ControllersFollowExecutions
  CancelledOnce
PROPERTY PendingOnlyWhileExecuting
CHECK_DEADLOCK FALSE
