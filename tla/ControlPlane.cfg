SPECIFICATION MCSpec
CONSTANTS
  a1 = a1
  r1 = r1
  r2 = r2
  f1 = f1
  f2 = f2
  f3 = f3
  v1 = v1
  v2 = v2
  i1 = i1
  i2 = i2
  Replicas = {r1, r2}
  Servers = {r1, r2}
  Listeners = {r1, r2}
  Channels = {"pipeline_reload", "data_source_event", "incident_event"}
  Browsers = {b1}
  Files = {f1, f2, f3}
  version <- MCVersion
  Operators = {a1, a2}
  MaxSources = 2
  Configs = {"plain", "sasl"}
  needsSecret = {"sasl"}
  Forms <- MCForms
  Tables = {"routes", "silences"}
  Pages = {v1, v2}
  Incidents = {i1, i2}
  watches <- MCWatches
  SendBuffer = 1
INVARIANTS
  TypeOK
  SchemaReady
  CredentialsCarry
  
  

  
  
CHECK_DEADLOCK FALSE
