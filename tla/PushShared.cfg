SPECIFICATION FairSpec
CONSTANTS
  s1 = s1
  s2 = s2
  pl = pl
  k1 = k1
  k2 = k2
  NoSub = NoSub
  Subs = {s1, s2, pl}
  Push = {s1, s2}
  Grouped = {s2}
  Calls = {k1, k2}
  Messages = {"a", "b", "c"}
  Topic <- Backlog
  Matching <- Wanted
  Window = 3
  Capacity = 1
  MaxRestarts = 1
INVARIANTS TypeOK ChannelIsClosedOnce RegisteredIsServed InactiveIsReleased LeaksAreKnown
CHECK_DEADLOCK FALSE
PROPERTIES DeliveryGoesOn CancelledWorkerStops
