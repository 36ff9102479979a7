CONSTANTS
  Text <- MCText
  Threshold = 5
  MaxQueries = 3
  None = None
SPECIFICATION Spec
CHECK_DEADLOCK FALSE
PROPERTIES
  QueryReturns
