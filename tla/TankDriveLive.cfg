CONSTANTS
  Unit = 1
  MaxDelta = 1
  Gain = 1
  Deadband = 0
  Timeout = 1
  Intents <- FullAhead
  Inverted = {"right"}
  Events = {"arm", "cancel", "writeError"}
  NaN = NaN
SPECIFICATION FairSpec
PROPERTIES FailsafeStops LoopReasserts LoopEnds
CHECK_DEADLOCK FALSE
