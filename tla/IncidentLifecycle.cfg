SPECIFICATION FairSpec
CONSTANTS
  Workers = {w1, w2}
  Operators = {u1}
  Reaper = Reaper
  Nobody = Nobody
  ReopenWindow = 1
  StalenessTimeout = 1
  CallsUntil = 3
  MaxTime = 5
  MaxCalls = 3
  MaxClicks = 1
  MaxFailures = 1
INVARIANTS
  TypeOK
  OneActive
  AlertsSettled
PROPERTIES
  ResolvedOnce
  ReaperSelectsSilent
  SilentIncidentsClose
CHECK_DEADLOCK FALSE
