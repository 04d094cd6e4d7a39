CONSTANTS
  Unit = 4
  MaxDelta = 3
  Gain = 1
  Deadband = 2
  Timeout = 1
  Intents <- FewIntents
  Inverted = {"right"}
  Events = {"close", "cancel"}
  NaN = NaN
SPECIFICATION Spec
INVARIANTS OutputsCoherent NeutralWhenDone
PROPERTIES SlewLimited
CHECK_DEADLOCK FALSE
