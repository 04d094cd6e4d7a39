CONSTANTS
  a = a
  s = s
  t = t
  None = None
  Instances = {a}
  Subjects = {s, t}
  Owned <- Alone
  Stale = 2
  TTL = 3
  Faulty = {a}
  MaxWire = 3
SPECIFICATION FairSpec
INVARIANTS LiveIsListed CleanLeave
PROPERTIES DeregisterReturns DepartedExpire
CHECK_DEADLOCK FALSE
