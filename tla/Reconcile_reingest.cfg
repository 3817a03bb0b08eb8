SPECIFICATION Spec
CONSTANTS
  f1 = f1
  a = a
  b = b
  h1 = h1
  h2 = h2
  File = {f1}
  Entity = {a}
  Hash = {h1, h2}
  NoHash = NoHash
  Queue <- MCSmallQueue
  Target = {}
  MaxRepublish = 0
  MaxRetries = 1
  MaxFaults = 0
  MaxPurges = 0
  MaxLosses = 0
INVARIANTS
  ReingestSucceeds
CHECK_DEADLOCK FALSE
