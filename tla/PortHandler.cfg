CONSTANTS
  SubIds = {"a", "b"}
  MaxConns = 2
  MaxSubs = 3
  Events = {"stop", "cancel", "resubscribe", "unplug"}
SPECIFICATION FairSpec
INVARIANTS AcknowledgedIsServed NoOrphans
PROPERTIES CancelEnds
CHECK_DEADLOCK FALSE
