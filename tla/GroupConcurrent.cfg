SPECIFICATION Spec
CONSTANTS
  c1 = c1
  c2 = c2
  c3 = c3
  k1 = k1
  k2 = k2
  heartbeat = heartbeat
  NoConsumer = NoConsumer
  NoGroup = NoGroup
  Consumers = {c1, c2}
  Partitions = 3
  Calls = {k1, k2}
  Requests = {"join", "pull", "leave"}
  Polite = FALSE
  StreamIsFed = TRUE
  FaultKinds = {"redis", "topic", "restart"}
  MaxCalls = 3
  MaxSilences = 1
  MaxFaults = 1
INVARIANTS TypeOK RebalanceIsNotLost
PROPERTIES OwnershipSpec
SYMMETRY Symmetry
CHECK_DEADLOCK FALSE
