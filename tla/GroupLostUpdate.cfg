SPECIFICATION Spec
CONSTANTS
  c1 = c1
  c2 = c2
  c3 = c3
  k1 = k1
  k2 = k2
  heartbeat = heartbeat
  NoConsumer = NoConsumer
  NoGroup = NoGroup
  Consumers = {c1, c2}
  Partitions = 3
  Calls = {k1, k2}
  Requests = {"join"}
  Polite = TRUE
  StreamIsFed = FALSE
  FaultKinds = {}
  MaxCalls = 2
  MaxSilences = 0
  MaxFaults = 0
INVARIANTS RecordListsMembers
CHECK_DEADLOCK FALSE
