SPECIFICATION Spec
CONSTANTS
  na = na
  nb = nb
  nc = nc
  nd = nd
  s = s
  t = t
  d1 = d1
  j1 = j1
  j2 = j2
  NoScope = NoScope
  NoData = NoData
  NoScore = NoScore
  Node <- MCNode
  Scope = {s, t}
  Data = {d1}
  Edge <- MCEdge
  ImpactRelType <- MCImpact
  MaxWeight = 1
  MaxGen = 1
  Job = {j1, j2}
  EntryOf <- MCEntryOf
  ScopeOf <- MCScopeOf
  MaxDepth = 2
INVARIANTS
  FreshScores
  OneExecutionPrevails
  DropAttempted
PROPERTIES
  TopologyFenced
  RedeliveryKeepsGeneration
SYMMETRY CallerSymmetry
CHECK_DEADLOCK FALSE
