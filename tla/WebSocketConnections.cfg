CONSTANTS
  Conns = {c1}
  Topics = {t1}
  NoTopic = NoTopic
  SendCapacity = 2
  MaxRequests = 4
SPECIFICATION FairSpec
INVARIANTS
  TypeOK
  ServiceIsAccountedFor
  TableMatchesConnections
PROPERTIES
  StreamSpec
  ClosedConnectionEnds
  RepliesArrive
CHECK_DEADLOCK FALSE
