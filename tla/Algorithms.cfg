SPECIFICATION Spec
CONSTANTS
  MaxItems = 10
  MaxFields = 4
  FetchCount = 2
  CausalityCap = 2
INVARIANTS CursorsLeadToPages AllPagesRead IncrementsAreOnGrid  MyBidsHoldEveryLot
CHECK_DEADLOCK FALSE
