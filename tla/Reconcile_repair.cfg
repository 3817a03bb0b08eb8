SPECIFICATION FairSpec
CONSTANTS
  f1 = f1
  a = a
  b = b
  h1 = h1
  h2 = h2
  File = {f1}
  Entity = {a}
  Hash = {h1, h2}
  NoHash = NoHash
  Queue <- MCOnce
  Target = {"qdrant", "opensearch"}
  MaxRepublish = 1
  MaxRetries = 1
  MaxFaults = 1
  MaxPurges = 1
  MaxLosses = 1
INVARIANTS
  RepairArrives
PROPERTIES
  EventuallyEmbedded
CHECK_DEADLOCK FALSE
