SPECIFICATION FairSpec
CONSTANTS
  m1 = m1
  m2 = m2
  d1 = d1
  d2 = d2
  NoId = NoId
  Ids <- TwoAndTwoIds
  Published <- TwoMessages
  Limit <- MixedLimits
  Handlers = {h1, h2}
  MaxRetries = 1
  EnableDLQ = TRUE
  SweepTopics = {"main", "dlq"}
  MaxRequests = 3
  MaxFaults = 1
INVARIANTS TypeOK PendingIsUnassigned DeadMessageHasLetter LineageIsKept
PROPERTIES LedgerSpec RetriesAreRemembered SweepSparesAcknowledged DeliveredIsTakenBack
CHECK_DEADLOCK FALSE
