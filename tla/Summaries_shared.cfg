SPECIFICATION FairSpec
CONSTANTS
  s1 = s1
  s2 = s2
  Client = {s1, s2}
  Route = {"model"}
  Threshold = 1
  Outlives = FALSE
  Request <- MCRequest
  Root = 1
  Logic = "v1"
  ModelRoute = "model"
  MaxRuns = 3
  TtlSeconds = 1
  Malformed = {""}
  Absent = Absent
  GatewayMaxValues = 3
  ScopeMaxValues = 2
  HeaderMaxValues = 4
INVARIANTS
  CacheInScope
  SummariesExact
  OneProbe
PROPERTIES
  ProbeResolves
CHECK_DEADLOCK FALSE
