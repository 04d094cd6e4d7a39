CONSTANTS
  Order <- MCOrder
  Internals = {"s"}
  Externals = {"e", "f"}
  Configs <- MCConfigs
  MaxStarts = 2
  MaxStops = 2
  MaxCalls = 1
  Events = {"natsFails", "componentFails", "serviceFails", "processExits", "signal", "stopUnsignalled"}
SPECIFICATION FairSpec
INVARIANTS TypeOK SortIsRight UsersGoFirst ClosedOnce
PROPERTIES RestartsAsAsked StopReturns NoSurvivors
CHECK_DEADLOCK FALSE
