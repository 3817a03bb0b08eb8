SPECIFICATION Spec
CONSTANTS
  f1 = f1
  a = a
  b = b
  h1 = h1
  h2 = h2
  File = {f1}
  Entity = {a, b}
  Hash = {h1, h2}
  NoHash = NoHash
  Queue <- MCQueue
  Target = {}
  MaxRepublish = 0
  MaxRetries = 1
  MaxFaults = 2
  MaxPurges = 0
  MaxLosses = 0
INVARIANTS
  StoreIsLastParse
  ReferencesHold
  EveryRowAccounted
  DeadLetterHarmless
CHECK_DEADLOCK FALSE
