SPECIFICATION Spec
CONSTANTS
  f1 = f1
  a = a
  b = b
  h1 = h1
  h2 = h2
  File = {f1}
  Entity = {a}
  Hash = {h1, h2}
  NoHash = NoHash
  Queue <- MCOnce
  Target = {"neo4j"}
  MaxRepublish = 1
  MaxRetries = 1
  MaxFaults = 0
  MaxPurges = 0
  MaxLosses = 1
INVARIANTS
  RepairArrives
CHECK_DEADLOCK FALSE
