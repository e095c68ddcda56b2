SPECIFICATION Spec
CONSTANTS
  Fingerprints = {a1}
  Sources = {}
  Callers = {g1}
  TTL = 5
  GroupWait = 1
  InhibitTTL = 10
  Staleness = 10
  ReopenWindow = 5
PROPERTIES RecurrenceReopens
