CONSTANTS
  k = k
  l = l
  Nil = Nil
  Keys = {k, l}
  Descriptors = {"healthy", "degraded"}
  Wanted = {"healthy"}
  Found <- MCFound
  Buffer = 2
  MaxNews = 3
SPECIFICATION WatcherFairSpec
INVARIANTS WatcherTypeOK KnownFollows EventsTell
PROPERTIES WatcherStops LeftIsHeard
CHECK_DEADLOCK FALSE
