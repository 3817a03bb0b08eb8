SPECIFICATION FairSpec
CONSTANTS
  c1 = c1
  c2 = c2
  x = x
  i1 = i1
  i2 = i2
  p0 = p0
  p1 = p1
  w1 = w1
  w2 = w2
  None = None
  Worker = {w1, w2}
  CommandId = {i1, i2}
  Partition = {p0, p1}
  Command <- MCCommand
  IdOf <- MCIdOf
  Backlog <- MCBacklog
  Rejected = {}
  Unusable = {x}
  BufferLimit = 1
  MaxFaults = 1
INVARIANTS
  NothingSkipped
  AppliedOnce
  AppliedInOrder
PROPERTIES
  PromiseSpec
  EventuallyHandled
CHECK_DEADLOCK FALSE
