CONSTANTS
  Conns = {c1}
  Topics = {t1}
  NoTopic = NoTopic
  SendCapacity = 1
  MaxRequests = 1
SPECIFICATION Spec
INVARIANT ShutdownIsGraceful
CHECK_DEADLOCK FALSE
