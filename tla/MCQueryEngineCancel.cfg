CONSTANTS
  Queries = {q1}
  NoStatement = NoStatement
  Shutdowns = {d1}
  Statements <- SomeStatements
SPECIFICATION FairSpec
PROPERTY CancelStopsExecution
CHECK_DEADLOCK FALSE
