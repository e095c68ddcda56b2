SPECIFICATION MCSpec
CONSTANTS
  p1 = p1
  p2 = p2
  q1 = q1
  q2 = q2
  g1 = g1
  c1 = c1
  c2 = c2
  m1 = m1
  m2 = m2
  a1 = a1
  a2 = a2
  k1 = k1
  k2 = k2
  k3 = k3
  k4 = k4
  Paths = {p1, p2}
  Resolves = {"resolved"}
  number <- MCNumber
  Now = 2
  Hooks = {1, 2}
  Names = {n1, n2}
  Skews = {1, 2}
  Editors = {a1, a2}
  Gateways = {w1}
  Deliveries = {d1}
  Arrivals = {k1, k2, k3, k4}
  MaxTime = 4
  MaxKeys = 3
  Policies = {q1, q2}
  Groups = {g1}
  Contacts = {c1, c2}
  Rooms = {"ops"}
  Severities = {"P0", "P1"}
  Books <- MCBooks
  Messages <- MCMessages
  Programs <- MCPrograms
  Payloads <- MCPayloads
  HookMappings <- MCHookMappings
  Bodies <- MCBodies
  Queries <- MCQueries
SYMMETRY MCSymmetry
INVARIANTS
  TypeOK
  VerdictsMatch
  
  PagesExplained
PROPERTIES
  KeysMoveOn
CHECK_DEADLOCK FALSE
