SPECIFICATION FairSpec
CONSTANTS
  p1 = p1
  p2 = p2
  Partitions = {p1}
  Processors = {i1, i2}
  Offsets <- MCOffsets
  Log <- OnePartitionLog
  ChannelDepth = 1
  NoMessage = NoMessage
  MaxStops = 1
  MaxCrashes = 1
  MaxRebalances = 1
  MaxCommitFailures = 1
INVARIANTS
  TypeOK
  
  LossNeedsCrash
  FlushLeavesNothing
PROPERTIES
  KeepsCommitContract
  CatchesUp
CHECK_DEADLOCK FALSE
