SPECIFICATION Spec
CONSTANTS
  Topics = {t1}
  Consumers = {r1}
  MaxPartitions = 2
  MaxPending = 1
  Calls = {c1, c2}
  PartitionCounts = {1, 2}
  DefaultPartitions = 1
  BatchSizes = {0, 2}
  Configs = {v1}
  NewConfig = v0
  Workers = TRUE
  MaxCalls = 3
  MaxFaults = 1
SYMMETRY Symmetry
INVARIANTS
  TypeOK
  CountIsBacked
  RecordIsCurrent
  CatalogueAgrees
  OnlyARaceRefuses
PROPERTIES
  OnlyStaleCopiesUndo
CHECK_DEADLOCK FALSE
