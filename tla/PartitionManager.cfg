SPECIFICATION PartitionFairSpec
CONSTANTS
  Topics = {t1}
  Consumers = {c1, c2, c3}
  MaxPartitions = 4
  MaxPending = 2
INVARIANTS
  ReadersMatchMap
  SettledIsBalanced
PROPERTIES
  OwnershipSpec
  ConsumerIsServed
