SPECIFICATION MCSpec
CONSTANTS
  p1 = p1
  r1 = r1
  r2 = r2
  w1 = w1
  w2 = w2
  u1 = u1
  Admins = {a1}
  Providers = {p1, p2}
  MaxRequests = 4
  Replicas = {r1, r2}
  Workers = {w1, w2}
  Users = {u1}
  Callers = {w1, w2, u1}
  home <- MCHome
  Incidents = {i1}
  MaxIterations = 2
  MaxTasks = 2
  MaxAsks = 1
  MaxCrashes = 1
  MaxLost = 1
INVARIANTS
  TypeOK
  
PROPERTIES
  EditedAlone
  PicksAreExplained
  
CHECK_DEADLOCK FALSE
