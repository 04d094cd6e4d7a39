\* Two keys, one subscriber, buffers of two events.
SPECIFICATION Spec
CONSTANTS
  Keys = {k1, k2}
  Subscribers = {s1}
  BufferSize = 2
INVARIANTS ViewAgrees ChannelsClosedOnce
CHECK_DEADLOCK FALSE
PROPERTIES CloseReturns
