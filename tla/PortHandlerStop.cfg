CONSTANTS
  SubIds = {"a"}
  MaxConns = 2
  MaxSubs = 1
  Events = {"stop"}
SPECIFICATION FairSpec
PROPERTIES StopReturns
CHECK_DEADLOCK FALSE
