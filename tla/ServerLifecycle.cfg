SPECIFICATION FairSpec
CONSTANTS
  Requests = {r1}
  Sockets = {k1}
  Tracing = TRUE
INVARIANTS
  TypeOK
  GracefulStopCutsNobody
  AnnouncedStopIsTrue
PROPERTIES
  StopEnds
CHECK_DEADLOCK FALSE
