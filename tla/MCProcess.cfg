SPECIFICATION Spec
CONSTANTS
  p = p
  c = c
  NoShard = NoShard
  Shards = {p, c}
  Parent <- MCParent
  Containers <- MCContainers
  Tables <- MCTables
  MaxConsumers = 2
  MaxBatches = 1
  MaxSignals = 2
  MaxRepeats <- MCRepeats
\* The process exits and is then at its end.
CHECK_DEADLOCK FALSE
INVARIANTS
  TypeOK
  WaitGroupCounts
  LeasesHeldCountsConsumers
  NoCountIsLost
  MonitorOutlivesConsumers
PROPERTIES
  SignalEndsProcess
