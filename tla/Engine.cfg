SPECIFICATION Spec
CONSTANTS
  Fingerprints = {a1, a2, s1}
  Sources = {s1}
  Callers = {g1, g2}
  TTL = 2
  GroupWait = 1
  InhibitTTL = 1
  Staleness = 3
  ReopenWindow = 2
INVARIANTS TypeOK  CalmCloses
  
SYMMETRY EngineSymmetry
