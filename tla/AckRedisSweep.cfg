SPECIFICATION FairSpec
CONSTANTS
  m1 = m1
  m2 = m2
  d1 = d1
  d2 = d2
  NoId = NoId
  Ids <- OneAndTwoIds
  Published <- OneMessage
  Limit <- DefaultLimit
  Handlers = {h1, h2}
  MaxRetries = 1
  EnableDLQ = TRUE
  SweepTopics = {}
  MaxRequests = 2
  MaxFaults = 1
PROPERTIES DeliveredIsTakenBack
CHECK_DEADLOCK FALSE
