SPECIFICATION GroupFairSpec
CONSTANTS
  e1 = e1
  e2 = e2
  p0 = p0
  r0 = r0
  w1 = w1
  w2 = w2
  Worker = {w1, w2}
  Primary <- MCPrimary
  Retry <- MCRetry
  Event <- MCEvent
  Backlog <- MCBacklog
  MaxRetries = 1
  RecreateReader = TRUE
  HasShouldRetry = TRUE
  MaxFaults = 2
INVARIANTS
  GroupTypeOK
  NoEventLost
  DeadLetteredAfterRetries
PROPERTIES
  PromiseSpec
  EventuallyHandled
CHECK_DEADLOCK FALSE
