\* A required and an optional source, a threshold of one millisecond in two steps,
\* two callers of Close.
SPECIFICATION Spec
CONSTANTS
  Sources = {imu, gps}
  Required = {imu}
  StaleThresholdMs = 1
  Unit = 2
  Callers = {c1, c2}
INVARIANTS StateNotBetterThanFrame OnlyRevivedPanics
PROPERTIES ServiceEnds StateFollows
CHECK_DEADLOCK FALSE
