SPECIFICATION FairSpec
CONSTANTS
  p1 = p1
  p2 = p2
  Partitions = {p1}
  Processors = {i1, i2}
  Offsets <- MCOffsets
  Log <- OnePartitionLog
  ChannelDepth = 1
  NoMessage = NoMessage
  MaxStops = 0
  MaxCrashes = 0
  MaxRebalances = 1
  MaxCommitFailures = 0
PROPERTIES
  NoCommitStall
CHECK_DEADLOCK FALSE
