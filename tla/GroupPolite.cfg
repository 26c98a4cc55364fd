SPECIFICATION FairSpec
CONSTANTS
  c1 = c1
  c2 = c2
  c3 = c3
  k1 = k1
  k2 = k2
  heartbeat = heartbeat
  NoConsumer = NoConsumer
  NoGroup = NoGroup
  Consumers = {c1, c2}
  Partitions = 1
  Calls = {k1, k2}
  Requests = {"join", "pull", "leave"}
  Polite = TRUE
  StreamIsFed = TRUE
  FaultKinds = {}
  MaxCalls = 3
  MaxSilences = 1
  MaxFaults = 0
INVARIANTS MembersAgree
PROPERTIES PartitionsAreTaken
CHECK_DEADLOCK FALSE
