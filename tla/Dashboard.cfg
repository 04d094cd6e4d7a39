\* Two upgrades, one client allowed, room for one broadcast.
SPECIFICATION Spec
CONSTANTS
  Clients = {c1, c2}
  MaxClients = 1
  Capacity = 1
  MaxOffline = 1
INVARIANTS NoneLeaks LimitHolds
PROPERTIES HandlersEnd CameraIsFollowed
CHECK_DEADLOCK FALSE
