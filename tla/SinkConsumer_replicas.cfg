SPECIFICATION SinkSpec
CONSTANTS
  a1 = a1
  a2 = a2
  x = x
  k1 = k1
  p0 = p0
  r0 = r0
  w1 = w1
  w2 = w2
  Nothing = Nothing
  Worker = {w1, w2}
  Primary <- MCPrimary
  Retry <- MCRetry
  Event <- MCEvent
  Backlog <- MCBacklog
  Key <- MCKey
  KeyOf <- MCKeyOf
  Invalid <- MCInvalid
  MaxRetries = 1
  RecreateReader = FALSE
  HasShouldRetry = FALSE
  MaxFaults = 1
INVARIANTS
  MarkerMeansApplied
  SettledMeansApplied
  SkipsOnlyUnpublished
  OrderWithoutFailures
PROPERTIES
  GroupRefined
SYMMETRY ReplicaSymmetry
CHECK_DEADLOCK FALSE
