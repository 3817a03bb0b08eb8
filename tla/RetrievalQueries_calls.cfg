SPECIFICATION Spec
CONSTANTS
  Node = {1, 2, 3, 4, 5}
  Label <- MCLabel
  NoLabel = NoLabel
  InitialLabel <- MCInitialLabel
  LaterLabel <- MCLaterLabel
  MaxChanges = 1
  Relation <- MCRelation
  Domain <- MCDomain
  Point <- MCPoint
  Chunk <- MCChunk
  Matches = {1, 3, 4}
  Caller <- MCCaller
  Query <- MCQuery
  Scale <- MCScale
  RRFK = 60
  Beta <- MCBeta
  SourceHits = 2
  RerankScore = {0, 495593280}
  Tokens <- MCTokens
  Budget <- MCBudget
  Malformed = {""}
  Absent = Absent
  GatewayMaxValues = 3
  ScopeMaxValues = 2
  HeaderMaxValues = 4
INVARIANTS
  AnsweredInScope
  BestAuthorized
  DegradedKeepsGraph
  GraphLegNearest
  PackedBestAtEnds
CHECK_DEADLOCK FALSE
