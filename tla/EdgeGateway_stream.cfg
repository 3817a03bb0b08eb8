SPECIFICATION EdgeFairSpec
CONSTANTS
  c1 = c1
  c2 = c2
  c3 = c3
  Call = {c1, c2, c3}
  Node = {1, 2, 3, 4}
  Label <- MCLabel
  NoLabel = NoLabel
  InitialLabel <- MCInitialLabel
  InitialEdge <- MCInitialEdge
  LaterLabel <- MCLaterLabel
  LaterEdge <- MCLaterEdge
  MaxChanges = 1
  Malformed = {""}
  Absent = Absent
  GatewayMaxValues = 3
  ScopeMaxValues = 2
  HeaderMaxValues = 4
  Presents <- MCPresents
  Request <- MCRequest
  MaxPerCaller = 1
  MaxTotal = 2
  Window = 1
INVARIANTS
  SlotsMatchHolders
  EmittedInScope
  CompleteMeansWhole
  StableStreamExact
PROPERTIES
  AdmittedEnds
CHECK_DEADLOCK FALSE
