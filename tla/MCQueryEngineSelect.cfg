CONSTANTS
  Queries = {q1}
  NoStatement = NoStatement
  Shutdowns = {d1}
  Statements <- ReadmeStatements
SPECIFICATION FairSpec
PROPERTY SelectsArePlanned
CHECK_DEADLOCK FALSE
