SPECIFICATION SinkSpec
CONSTANTS
  a1 = a1
  a2 = a2
  x = x
  k1 = k1
  p0 = p0
  r0 = r0
  w1 = w1
  w2 = w2
  Nothing = Nothing
  Worker = {w1}
  Primary <- MCPrimary
  Retry <- MCRetry
  Event <- MCEvent
  Backlog <- MCShortBacklog
  Key <- MCKey
  KeyOf <- MCKeyOf
  Invalid <- MCInvalid
  MaxRetries = 1
  RecreateReader = FALSE
  HasShouldRetry = FALSE
  MaxFaults = 1
INVARIANTS
  NoEventLost
CHECK_DEADLOCK FALSE
