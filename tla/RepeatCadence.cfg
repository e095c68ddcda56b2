SPECIFICATION Spec
CONSTANTS
  Handlers = {h1, h2}
  IntervalSequence <- MCSequence
  IntervalStep = 1
  IntervalMax = 4
  Dwell <- MCDwell
  MaxTime = 5
  MaxResolves = 1
  MaxFailures = 1
  MaxCrashes = 1
INVARIANTS
  TypeOK
  

  
SYMMETRY HandlerSymmetry
CHECK_DEADLOCK FALSE
