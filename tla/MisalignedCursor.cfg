SPECIFICATION Spec
CONSTANTS
  MaxItems = 10
  MaxFields = 1
  FetchCount = 2
  CausalityCap = 2
INVARIANTS ConnectionIsComplete
CHECK_DEADLOCK FALSE
