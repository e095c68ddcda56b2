SPECIFICATION FairSpec
CONSTANTS
  Fingerprints = {f1}
  Callers = {g1, g2}
  TTL = 2
  MaxTime = 5
  MaxCalls = 4
  MaxSweeps = 1
PROPERTIES
  KeepsDedupContract
CHECK_DEADLOCK FALSE
