SPECIFICATION Spec
CONSTANTS
  Fingerprints = {f1}
  Callers = {g1, g2, g3}
  TTL = 2
  MaxTime = 4
  MaxCalls = 4
  MaxSweeps = 1
INVARIANTS
  TypeOK
  DuplicateOfFirst
PROPERTIES
  OneFirst
SYMMETRY CallerSymmetry
CHECK_DEADLOCK FALSE
