-------------------------- MODULE GdsImpactProofs --------------------------
(***************************************************************************)
(* Proofs about GraphPartition and GdsImpact for any nodes, scopes,        *)
(* relations, jobs and depth: a generation number stands for one topology  *)
(* of its scope, and a score that retrieval can see was computed from the  *)
(* topology the graph has now.                                             *)
(***************************************************************************)
EXTENDS GdsImpact, TLAPS

LEMMA BumpStep ==
  ASSUME GraphTypeOK, NEW S \in SUBSET Scope, NEW changed \in BOOLEAN,
         BumpPartitions(S, changed)
  PROVE  /\ gen' \in [Scope -> Absent..MaxGen]
         /\ \A s \in Scope : gen'[s] >= gen[s]
         /\ changed => \A s \in S : gen'[s] > gen[s]
         /\ ~changed => \A s \in Scope : gen'[s] = gen[s] \/ gen[s] = Absent
<1>1. \A s \in Scope : gen[s] \in Int /\ gen[s] >= Absent /\ gen[s] <= MaxGen
  BY GraphAssumption DEF GraphTypeOK, GraphAssumption, Absent
<1> QED
  BY <1>1, GraphAssumption DEF BumpPartitions, GraphAssumption, Absent

(* The generation of s moves on, or s keeps its members and its edges. *)
SameTopology(s) ==
  Members(s)' = Members(s) /\ InScopeEdges(s)' = InScopeEdges(s)

Fenced(s) == gen'[s] > gen[s] \/ (gen'[s] = gen[s] /\ SameTopology(s))

LEMMA CodeNodeFenced ==
  ASSUME GraphTypeOK, NEW n \in Node, NEW s \in Scope, NEW d \in Data,
         MergeCodeNode(n, s, d)
  PROVE  GraphTypeOK' /\ \A r \in Scope : Fenced(r)
<1> DEFINE S == {scope[n], s} \ {NoScope}
           changed == scope[n] # s \/ data[n] # d
<1>1. S \in SUBSET Scope /\ changed \in BOOLEAN
  BY DEF GraphTypeOK
<1>2. /\ gen' \in [Scope -> Absent..MaxGen]
      /\ \A r \in Scope : gen'[r] >= gen[r]
      /\ changed => \A r \in S : gen'[r] > gen[r]
  <2>1. BumpPartitions(S, changed)
    BY DEF MergeCodeNode
  <2> HIDE DEF S, changed
  <2> QED
    BY <1>1, <2>1, BumpStep
<1>3. GraphTypeOK'
  BY <1>2 DEF GraphTypeOK, MergeCodeNode
<1>4. ASSUME NEW r \in Scope, ~(changed /\ r \in S)
      PROVE  SameTopology(r)
  <2>1. \A m \in Node : scope'[m] = r <=> scope[m] = r
    BY <1>4, GraphAssumption DEF MergeCodeNode, GraphTypeOK, GraphAssumption
  <2>2. Members(r)' = Members(r)
    BY <2>1 DEF Members
  <2>3. \A e \in Edge : /\ scope'[e[1]] = r <=> scope[e[1]] = r
                        /\ scope'[e[3]] = r <=> scope[e[3]] = r
                        /\ weight'[e] = weight[e]
    BY <2>1, GraphAssumption DEF GraphAssumption, MergeCodeNode
  <2>4. InScopeEdges(r)' = InScopeEdges(r)
    BY <2>3 DEF InScopeEdges
  <2> QED
    BY <2>2, <2>4 DEF SameTopology
<1>5. ASSUME NEW r \in Scope PROVE Fenced(r)
  <2>1. gen[r] \in Int /\ gen'[r] \in Int /\ gen'[r] >= gen[r]
    BY <1>2, GraphAssumption DEF GraphTypeOK, GraphAssumption, Absent
  <2> QED
    BY <1>2, <1>4, <2>1 DEF Fenced
<1> QED
  BY <1>3, <1>5

LEMMA CodeRelationFenced ==
  ASSUME GraphTypeOK, NEW e \in Edge, NEW k \in 1..MaxWeight,
         MergeCodeRelation(e, k)
  PROVE  GraphTypeOK' /\ \A r \in Scope : Fenced(r)
<1> DEFINE S == {scope[e[1]], scope[e[3]]} \ {NoScope}
           changed == weight[e] # k
<1>0. e[1] \in Node /\ e[3] \in Node
  BY GraphAssumption DEF GraphAssumption
<1>1. S \in SUBSET Scope /\ changed \in BOOLEAN
  BY <1>0 DEF GraphTypeOK
<1>2. /\ gen' \in [Scope -> Absent..MaxGen]
      /\ \A r \in Scope : gen'[r] >= gen[r]
      /\ changed => \A r \in S : gen'[r] > gen[r]
  <2>1. BumpPartitions(S, changed)
    BY DEF MergeCodeRelation
  <2> HIDE DEF S, changed
  <2> QED
    BY <1>1, <2>1, BumpStep
<1>3. GraphTypeOK'
  BY <1>2, GraphAssumption DEF GraphTypeOK, MergeCodeRelation, GraphAssumption
<1>4. ASSUME NEW r \in Scope, ~(changed /\ r \in S)
      PROVE  SameTopology(r)
  <2>1. Members(r)' = Members(r)
    BY DEF Members, MergeCodeRelation
  <2>2. ASSUME NEW x \in Edge, scope[x[1]] = r, scope[x[3]] = r
        PROVE  weight'[x] = weight[x]
    <3>1. CASE x = e
      BY <1>4, <2>2, <3>1, GraphAssumption
         DEF MergeCodeRelation, GraphTypeOK, GraphAssumption
    <3>2. CASE x # e
      BY <3>2 DEF MergeCodeRelation, GraphTypeOK
    <3> QED
      BY <3>1, <3>2
  <2>3. UNCHANGED scope
    BY DEF MergeCodeRelation
  <2>4. InScopeEdges(r)' = InScopeEdges(r)
    BY <2>2, <2>3 DEF InScopeEdges
  <2> QED
    BY <2>1, <2>4 DEF SameTopology
<1>5. ASSUME NEW r \in Scope PROVE Fenced(r)
  <2>1. gen[r] \in Int /\ gen'[r] \in Int /\ gen'[r] >= gen[r]
    BY <1>2, GraphAssumption DEF GraphTypeOK, GraphAssumption, Absent
  <2> QED
    BY <1>2, <1>4, <2>1 DEF Fenced
<1> QED
  BY <1>3, <1>5

(* A job creates a partition at most; everything else leaves the graph alone. *)
LEMMA JobLeavesGraph ==
  ASSUME GraphTypeOK, NEW j \in Job, JobStepOf(j)
  PROVE  \/ UNCHANGED graphVars
         \/ /\ step[j] = "start"
            /\ UNCHANGED <<scope, data, weight>>
            /\ gen' = [gen EXCEPT ![ScopeOf[j]] = IF @ = Absent THEN 0 ELSE @]
BY DEF JobStepOf, Capture, DiscoverLevel, EndDiscovery, ProjectReverse,
       ProjectUndirected, Compute, WriteBack, RejectStale, Drop, QueryFails, Crash

LEMMA GraphUnchanged ==
  ASSUME GraphTypeOK, UNCHANGED graphVars
  PROVE  GraphTypeOK' /\ \A r \in Scope : Fenced(r)
BY DEF graphVars, GraphTypeOK, Fenced, SameTopology, Members, InScopeEdges

LEMMA GraphStep ==
  ASSUME GraphTypeOK, [Next]_vars
  PROVE  GraphTypeOK' /\ \A r \in Scope : Fenced(r)
<1>1. CASE SinkGraphWrite
  BY <1>1, CodeNodeFenced, CodeRelationFenced DEF SinkGraphWrite
<1>2. ASSUME NEW j \in Job, JobStepOf(j), ~UNCHANGED graphVars
      PROVE  GraphTypeOK' /\ \A r \in Scope : Fenced(r)
  <2>1. /\ UNCHANGED <<scope, data, weight>>
        /\ gen' = [gen EXCEPT ![ScopeOf[j]] = IF @ = Absent THEN 0 ELSE @]
    BY <1>2, JobLeavesGraph
  <2>2. gen' \in [Scope -> Absent..MaxGen]
    <3>1. gen \in [Scope -> Absent..MaxGen] /\ 0 \in Absent..MaxGen
      BY GraphAssumption DEF GraphTypeOK, GraphAssumption, Absent
    <3> QED
      BY <2>1, <3>1
  <2>3. \A r \in Scope : SameTopology(r)
    BY <2>1 DEF SameTopology, Members, InScopeEdges
  <2>4. \A r \in Scope : gen'[r] = gen[r] \/ gen'[r] > gen[r]
    BY <2>1, GraphAssumption DEF GraphTypeOK, GraphAssumption, Absent
  <2> QED
    BY <2>1, <2>2, <2>3, <2>4 DEF GraphTypeOK, Fenced
<1>3. CASE UNCHANGED graphVars
  BY <1>3, GraphUnchanged
<1> QED
  BY <1>1, <1>2, <1>3 DEF Next, vars

(* ADR-0015 for the whole system, sinks and jobs together: no change of a
   scope's members or impact relations goes without a new generation, and
   generations never go back. *)
THEOREM GenerationFencesTopology == Spec => TopologyFenced
<1>1. Init => GraphTypeOK
  BY GraphAssumption DEF Init, GraphInit, GraphTypeOK, GraphAssumption, Absent
<1>2. GraphTypeOK /\ [Next]_vars => GraphTypeOK'
  BY GraphStep
<1>3. GraphTypeOK /\ [Next]_vars =>
        [\A s \in Scope :
           /\ gen'[s] >= gen[s]
           /\ Members(s)' # Members(s) \/ InScopeEdges(s)' # InScopeEdges(s)
                => gen'[s] > gen[s]]_graphVars
  <2> SUFFICES ASSUME GraphTypeOK, [Next]_vars, NEW s \in Scope
               PROVE  /\ gen'[s] >= gen[s]
                      /\ Members(s)' # Members(s) \/ InScopeEdges(s)' # InScopeEdges(s)
                           => gen'[s] > gen[s]
    OBVIOUS
  <2>1. GraphTypeOK' /\ Fenced(s)
    BY GraphStep
  <2>2. gen[s] \in Int /\ gen'[s] \in Int
    BY <2>1, GraphAssumption DEF GraphTypeOK, GraphAssumption, Absent
  <2> QED
    BY <2>1, <2>2 DEF Fenced, SameTopology
<1> QED
  BY <1>1, <1>2, <1>3, PTL DEF Spec, TopologyFenced

------------------------------------------------------------------------------
(* Types. *)
LEMMA SetShapes ==
  ASSUME TypeOK, NEW j \in Job
  PROVE  /\ Visited(levels[j]) \subseteq Node
         /\ Discovered(j) \subseteq Node
         /\ Subgraph(j) \subseteq Node \X Node
         /\ EntryOf[j] \in Node /\ ScopeOf[j] \in Scope
<1>1. levels[j] \in Seq(SUBSET Node)
  BY DEF TypeOK
<1>2. \A i \in 1..Len(levels[j]) : levels[j][i] \subseteq Node
  BY <1>1
<1> QED
  BY <1>2, JobAssumption DEF Visited, Discovered, Subgraph, JobAssumption

LEMMA TypeInit == Init => TypeOK
<1> SUFFICES ASSUME Init PROVE TypeOK
  OBVIOUS
<1>1. GraphTypeOK
  BY GraphAssumption DEF Init, GraphInit, GraphTypeOK, GraphAssumption, Absent
<1>2. levels \in [Job -> Seq(SUBSET Node)]
  <2>1. \A j \in Job : <<{EntryOf[j]}>> \in Seq(SUBSET Node)
    BY JobAssumption DEF JobAssumption
  <2> QED
    BY <2>1 DEF Init
<1>3. step \in [Job -> JobStep]
  BY DEF Init, JobStep
<1>4. /\ captured \in [Job -> Nat]
      /\ reverse \in [Job -> SUBSET (Node \X Node)]
      /\ undir \in [Job -> SUBSET (Node \X Node)]
      /\ seeded \in [Job -> BOOLEAN]
      /\ known \in [Job -> SUBSET GraphName]
      /\ dropped \in [Job -> SUBSET GraphName]
      /\ crashed \subseteq Job
      /\ catalog \subseteq Job \X GraphName
  BY DEF Init
<1>5. score \in [Node -> Score \cup {NoScore}]
  BY DEF Init
<1> QED
  BY <1>1, <1>2, <1>3, <1>4, <1>5 DEF TypeOK

LEMMA TypeStep == TypeOK /\ [Next]_vars => TypeOK'
<1> SUFFICES ASSUME TypeOK, [Next]_vars PROVE TypeOK'
  OBVIOUS
<1>0. GraphTypeOK'
  BY GraphStep DEF TypeOK
<1>1. CASE UNCHANGED <<jobVars, catalog, score>>
  BY <1>0, <1>1 DEF TypeOK, jobVars
<1>2. ASSUME NEW j \in Job, JobStepOf(j)
      PROVE  TypeOK'
  <2>0. /\ Subgraph(j) \subseteq Node \X Node
        /\ ScopeOf[j] \in Scope /\ EntryOf[j] \in Node
    BY SetShapes
  <2>1. step' \in [Job -> JobStep]
    <3>1. UNCHANGED step \/ \E x \in JobStep : Goto(j, x)
      BY <1>2 DEF JobStepOf, Capture, DiscoverLevel, EndDiscovery, ProjectReverse,
                  ProjectUndirected, Compute, WriteBack, RejectStale, Drop,
                  QueryFails, Crash, JobStep
    <3> QED
      BY <3>1 DEF Goto, TypeOK
  <2>2. CASE Capture(j)
    <3>1. gen'[ScopeOf[j]] \in Nat
      BY <2>0, <2>2, GraphAssumption
         DEF Capture, TypeOK, GraphTypeOK, GraphAssumption, Absent
    <3> QED
      BY <1>0, <2>1, <2>2, <3>1 DEF Capture, TypeOK
  <2>3. CASE DiscoverLevel(j)
    <3>1. \A E, F, V : Dependents(E, F, V) \in SUBSET Node
      BY DEF Dependents
    <3>2. levels' \in [Job -> Seq(SUBSET Node)]
      BY <2>3, <3>1 DEF DiscoverLevel, TypeOK
    <3> QED
      BY <1>0, <2>1, <2>3, <3>2 DEF DiscoverLevel, TypeOK
  <2>4. CASE EndDiscovery(j) \/ RejectStale(j)
    BY <1>0, <2>1, <2>4 DEF EndDiscovery, RejectStale, TypeOK
  <2>5. CASE ProjectReverse(j)
    BY <1>0, <2>0, <2>1, <2>5 DEF ProjectReverse, InCatalog, GraphName, TypeOK
  <2>6. CASE ProjectUndirected(j)
    BY <1>0, <2>0, <2>1, <2>6 DEF ProjectUndirected, InCatalog, GraphName, TypeOK
  <2>7. CASE Compute(j)
    BY <1>0, <2>1, <2>7 DEF Compute, TypeOK
  <2>8. StoreScores(j) => score' \in [Node -> Score \cup {NoScore}]
    <3>1. BasisOf(j) \in Basis
      BY <2>0 DEF BasisOf, Basis, TypeOK
    <3>2. ScoreOf(j) \in Score
      BY <2>0, <3>1 DEF ScoreOf, Score, TypeOK
    <3> QED
      BY <3>2 DEF StoreScores, TypeOK
  <2>9. CASE WriteBack(j)
    BY <1>0, <2>1, <2>8, <2>9 DEF WriteBack, TypeOK
  <2>10. CASE Drop(j)
    BY <1>0, <2>1, <2>10 DEF Drop, TypeOK
  <2>11. CASE QueryFails(j)
    <3>1. catalog' \subseteq Job \X GraphName
      BY <2>11 DEF QueryFails, InCatalog, GraphName, TypeOK
    <3>2. known' \in [Job -> SUBSET GraphName]
      BY <2>11 DEF QueryFails, GraphName, TypeOK
    <3>3. score' \in [Node -> Score \cup {NoScore}]
      BY <2>8, <2>11 DEF QueryFails, TypeOK
    <3>4. UNCHANGED <<captured, levels, reverse, undir, seeded, dropped, crashed>>
      BY <2>11 DEF QueryFails
    <3> QED
      BY <1>0, <2>1, <3>1, <3>2, <3>3, <3>4 DEF TypeOK
  <2>12. CASE Crash(j)
    BY <1>0, <2>1, <2>12 DEF Crash, TypeOK
  <2> QED
    BY <1>2, <2>2, <2>3, <2>4, <2>5, <2>6, <2>7, <2>9, <2>10, <2>11, <2>12 DEF JobStepOf
<1> QED
  BY <1>1, <1>2 DEF Next, vars

THEOREM TypeCorrect == Spec => []TypeOK
BY TypeInit, TypeStep, PTL DEF Spec

------------------------------------------------------------------------------
(* The inductive invariant behind FreshScores. A job knows the topology it has
   read as long as the generation is the one it captured.                     *)
Running == {"discover", "reverse", "undirected", "compute", "write"}

(* The levels start from the entry, and only the last one can be empty. *)
LevelsShape(ls, entry) ==
  /\ Len(ls) >= 1
  /\ ls[1] = {entry}
  /\ \A i \in 1..(Len(ls) - 1) : ls[i] # {}

(* Each level is the dependents, along E, of the level before. *)
Grown(ls, E) ==
  \A i \in 1..(Len(ls) - 1) :
    ls[i + 1] = Dependents(E, ls[i], UNION {ls[k] : k \in 1..i})

Ended(ls) == Len(ls) > MaxDepth \/ Frontier(ls) = {}

(* What a job has read is what the graph holds. *)
ReadsCurrent(j) ==
  /\ Grown(levels[j], InScopeEdges(ScopeOf[j]))
  /\ step[j] \in {"undirected", "compute", "write"} => reverse[j] = Subgraph(j)
  /\ step[j] \in {"compute", "write"} => undir[j] = Subgraph(j)
  /\ step[j] = "write" => seeded[j]

JobInv(j) ==
  /\ LevelsShape(levels[j], EntryOf[j])
  /\ step[j] = "start" => Len(levels[j]) = 1
  /\ step[j] \in Running => captured[j] <= gen[ScopeOf[j]]
  /\ step[j] \in Running \ {"discover"} => Ended(levels[j]) /\ Discovered(j) # {}
  /\ step[j] \in Running /\ captured[j] = gen[ScopeOf[j]] => ReadsCurrent(j)

(* Scores never carry a generation from the future, and those that carry the
   current one have a basis the graph agrees with. *)
ScoreInv(n) ==
  score[n] # NoScore =>
    LET s == score[n].scope
        b == score[n].basis
    IN  /\ s \in Scope /\ score[n].generation \in Nat
        /\ score[n].generation <= gen[s]
        /\ score[n].generation = gen[s] => Coherent(b, InScopeEdges(s)) /\ b.seeded

FenceInv ==
  TypeOK /\ (\A j \in Job : JobInv(j)) /\ (\A n \in Node : ScoreInv(n))

------------------------------------------------------------------------------
(* While the generation of a scope stands, so do its edges. *)
LEMMA Frozen ==
  ASSUME TypeOK, [Next]_vars, NEW s \in Scope
  PROVE  /\ gen[s] \in Int /\ gen'[s] \in Int
         /\ gen'[s] >= gen[s]
         /\ gen'[s] = gen[s] => /\ InScopeEdges(s)' = InScopeEdges(s)
                                /\ Members(s)' = Members(s)
<1>1. GraphTypeOK' /\ Fenced(s)
  BY GraphStep DEF TypeOK
<1>2. gen[s] \in Int /\ gen'[s] \in Int
  BY <1>1, GraphAssumption DEF TypeOK, GraphTypeOK, GraphAssumption, Absent
<1> QED
  BY <1>1, <1>2 DEF Fenced, SameTopology

(* Appending a level that was read from E to levels read from E. *)
LEMMA GrownAppend ==
  ASSUME NEW ls \in Seq(SUBSET Node), Len(ls) >= 1, NEW E, Grown(ls, E)
  PROVE  Grown(Append(ls, Dependents(E, Frontier(ls), Visited(ls))), E)
<1> DEFINE D == Dependents(E, Frontier(ls), Visited(ls))
           ms == Append(ls, D)
<1>1. /\ Len(ls) \in Nat /\ Len(ms) = Len(ls) + 1
      /\ ms[Len(ls) + 1] = D
      /\ \A i \in 1..Len(ls) : ms[i] = ls[i]
  <2>1. D \in SUBSET Node
    BY DEF Dependents
  <2> HIDE DEF D
  <2> QED
    BY <2>1
<1>2. ASSUME NEW i \in 1..(Len(ms) - 1)
      PROVE  ms[i + 1] = Dependents(E, ms[i], UNION {ms[k] : k \in 1..i})
  <2>1. i \in 1..Len(ls) /\ \A k \in 1..i : ms[k] = ls[k]
    BY <1>1, <1>2
  <2>2. UNION {ms[k] : k \in 1..i} = UNION {ls[k] : k \in 1..i} /\ ms[i] = ls[i]
    BY <2>1
  <2>3. CASE i = Len(ls)
    <3>1. ms[i + 1] = Dependents(E, ls[i], UNION {ls[k] : k \in 1..i})
      BY <1>1, <2>3 DEF Frontier, Visited
    <3> QED
      BY <2>2, <3>1
  <2>4. CASE i # Len(ls)
    <3>1. i \in 1..(Len(ls) - 1) /\ ms[i + 1] = ls[i + 1]
      BY <1>1, <2>1, <2>4
    <3> QED
      BY <2>2, <3>1 DEF Grown
  <2> QED
    BY <2>3, <2>4
<1> QED
  BY <1>2 DEF Grown

(* A job that found a dependent found its entry node in the scope. *)
LEMMA EntryInScope ==
  ASSUME TypeOK, NEW j \in Job, LevelsShape(levels[j], EntryOf[j]),
         Discovered(j) # {}, Grown(levels[j], InScopeEdges(ScopeOf[j]))
  PROVE  scope[EntryOf[j]] = ScopeOf[j]
<1> DEFINE ls == levels[j]
<1>1. Len(ls) \in Nat /\ Len(ls) >= 1 /\ ls[1] = {EntryOf[j]}
  BY DEF TypeOK, LevelsShape
<1>0. PICK len : len \in Nat /\ len = Len(ls) /\ len >= 1
  BY <1>1
<1>2. len # 1
  BY <1>0, <1>1 DEF Discovered, Visited
<1>6. \A n \in Nat : n >= 1 /\ n # 1 => 1 \in 1..(n - 1) /\ (n # 2 => 2 \in 1..(n - 1))
  OBVIOUS
<1>7. 1 \in 1..(len - 1) /\ (len # 2 => 2 \in 1..(len - 1))
  BY <1>0, <1>2, <1>6, Zenon
<1>5. ls[2] # {}
  <2>1. CASE len = 2
    BY <1>0, <1>1, <2>1 DEF Discovered, Visited
  <2>2. CASE len # 2
    <3>1. 2 \in 1..(len - 1)
      BY <1>7, <2>2
    <3> QED
      BY <1>0, <3>1 DEF LevelsShape
  <2> QED
    BY <2>1, <2>2
<1>3. ls[2] = Dependents(InScopeEdges(ScopeOf[j]), ls[1], UNION {ls[k] : k \in 1..1})
  <2>0. 1 \in 1..(len - 1)
    BY <1>7
  <2>1. 1 \in 1..(Len(ls) - 1)
    BY <1>0, <2>0
  <2>2. ls[1 + 1] = Dependents(InScopeEdges(ScopeOf[j]), ls[1], UNION {ls[k] : k \in 1..1})
    BY <2>1, Zenon DEF Grown
  <2> QED
    BY <2>2
<1>4. PICK n \in Node : <<n, EntryOf[j]>> \in InScopeEdges(ScopeOf[j])
  BY <1>1, <1>3, <1>5 DEF Dependents
<1> QED
  BY <1>4 DEF InScopeEdges

(* A job whose own state does not change keeps its invariant, because the
   generation it captured, if it still stands, stands for the same edges. *)
LEMMA JobKept ==
  ASSUME TypeOK, [Next]_vars, NEW j \in Job, JobInv(j),
         step'[j] = step[j], captured'[j] = captured[j], levels'[j] = levels[j],
         reverse'[j] = reverse[j], undir'[j] = undir[j], seeded'[j] = seeded[j]
  PROVE  JobInv(j)'
<1>1. ScopeOf[j] \in Scope /\ captured[j] \in Nat
  BY SetShapes DEF TypeOK
<1>2. /\ gen[ScopeOf[j]] \in Int /\ gen'[ScopeOf[j]] \in Int
      /\ gen'[ScopeOf[j]] >= gen[ScopeOf[j]]
      /\ gen'[ScopeOf[j]] = gen[ScopeOf[j]] =>
           InScopeEdges(ScopeOf[j])' = InScopeEdges(ScopeOf[j])
  BY <1>1, Frozen
<1>3. Discovered(j)' = Discovered(j)
  BY DEF Discovered, Visited
<1>4. ASSUME step[j] \in Running, captured[j] = gen'[ScopeOf[j]]
      PROVE  ReadsCurrent(j)'
  <2>1. captured[j] = gen[ScopeOf[j]]
    BY <1>1, <1>2, <1>4 DEF JobInv
  <2>2. ReadsCurrent(j) /\ InScopeEdges(ScopeOf[j])' = InScopeEdges(ScopeOf[j])
    BY <1>2, <1>4, <2>1 DEF JobInv
  <2>3. Subgraph(j)' = Subgraph(j)
    BY <2>2 DEF Subgraph, Visited
  <2> QED
    BY <2>2, <2>3 DEF ReadsCurrent
<1>5. step[j] \in Running => captured[j] <= gen'[ScopeOf[j]]
  BY <1>1, <1>2 DEF JobInv
<1> QED
  BY <1>3, <1>4, <1>5 DEF JobInv

(* The steps of one job leave the others' state alone. *)
LEMMA OtherJobs ==
  ASSUME TypeOK, NEW i \in Job, NEW j \in Job, j # i, JobStepOf(i)
  PROVE  /\ step'[j] = step[j] /\ captured'[j] = captured[j]
         /\ levels'[j] = levels[j] /\ reverse'[j] = reverse[j]
         /\ undir'[j] = undir[j] /\ seeded'[j] = seeded[j]
<1>1. step'[j] = step[j]
  BY DEF TypeOK, Goto, JobStepOf, Capture, DiscoverLevel, EndDiscovery,
         ProjectReverse, ProjectUndirected, Compute, WriteBack, RejectStale, Drop,
         QueryFails, Crash
<1>2. captured'[j] = captured[j] /\ levels'[j] = levels[j]
  BY DEF TypeOK, JobStepOf, Capture, DiscoverLevel, EndDiscovery,
         ProjectReverse, ProjectUndirected, Compute, WriteBack, RejectStale, Drop,
         QueryFails, Crash
<1>3. reverse'[j] = reverse[j] /\ undir'[j] = undir[j] /\ seeded'[j] = seeded[j]
  BY DEF TypeOK, JobStepOf, Capture, DiscoverLevel, EndDiscovery,
         ProjectReverse, ProjectUndirected, Compute, WriteBack, RejectStale, Drop,
         QueryFails, Crash
<1> QED
  BY <1>1, <1>2, <1>3

(* A job that is over has nothing left to keep but its levels. *)
LEMMA JobOver ==
  ASSUME TypeOK, NEW j \in Job, JobInv(j), levels'[j] = levels[j],
         step'[j] \in {"drop", "done"}
  PROVE  JobInv(j)'
BY DEF JobInv, Running

(* Every step of a job keeps its invariant: what it reads from the live graph
   is what the graph holds, and nothing but its own steps makes it read. *)
LEMMA JobMoves ==
  ASSUME TypeOK, NEW j \in Job, JobInv(j), JobStepOf(j)
  PROVE  JobInv(j)'
<1>1. /\ ScopeOf[j] \in Scope /\ captured[j] \in Nat
      /\ levels[j] \in Seq(SUBSET Node) /\ gen[ScopeOf[j]] \in Int
  BY SetShapes, GraphAssumption
     DEF TypeOK, GraphTypeOK, GraphAssumption, Absent
<1>2. CASE Capture(j)
  <2>1. /\ step'[j] = "discover" /\ UNCHANGED levels
        /\ captured'[j] = gen'[ScopeOf[j]]
        /\ gen'[ScopeOf[j]] \in Int
        /\ Len(levels[j]) = 1
    BY <1>1, <1>2 DEF Capture, Goto, TypeOK, GraphTypeOK, JobInv
  <2>2. 1..(Len(levels[j]) - 1) = {}
    BY <2>1
  <2>3. Grown(levels[j], InScopeEdges(ScopeOf[j]))'
    BY <2>1, <2>2 DEF Grown
  <2> QED
    BY <2>1, <2>3 DEF JobInv, ReadsCurrent, Running
<1>3. CASE DiscoverLevel(j)
  <2> DEFINE E == InScopeEdges(ScopeOf[j])
             D == Dependents(E, Frontier(levels[j]), Visited(levels[j]))
  <2>1. /\ step[j] = "discover" /\ UNCHANGED <<graphVars, step, captured>>
        /\ levels'[j] = Append(levels[j], D)
        /\ Frontier(levels[j]) # {}
    BY <1>3 DEF DiscoverLevel, TypeOK
  <2>2. D \in SUBSET Node
    BY DEF Dependents
  <2>3. Grown(levels[j], E) => Grown(Append(levels[j], D), E)
    BY <1>1, GrownAppend DEF JobInv, LevelsShape
  <2>4. InScopeEdges(ScopeOf[j])' = E
    BY <2>1 DEF InScopeEdges, graphVars
  <2>5. LevelsShape(levels[j], EntryOf[j])
    BY DEF JobInv
  <2>6. LevelsShape(Append(levels[j], D), EntryOf[j])
    <3> HIDE DEF D
    <3> DEFINE ls == levels[j]
               ms == Append(ls, D)
    <3>1. /\ Len(ls) \in Nat /\ Len(ls) >= 1 /\ Len(ms) = Len(ls) + 1
          /\ \A i \in 1..Len(ls) : ms[i] = ls[i]
      BY <1>1, <2>2, <2>5 DEF LevelsShape
    <3>2. ms[1] = {EntryOf[j]}
      BY <2>5, <3>1 DEF LevelsShape
    <3>3. \A i \in 1..Len(ls) : ls[i] # {}
      BY <2>1, <2>5, <3>1 DEF LevelsShape, Frontier
    <3> QED
      BY <3>1, <3>2, <3>3 DEF LevelsShape
  <2> HIDE DEF D, E
  <2>7. JobInv(j)' =
          /\ LevelsShape(levels'[j], EntryOf[j])
          /\ step'[j] = "start" => Len(levels'[j]) = 1
          /\ step'[j] \in Running => captured'[j] <= gen'[ScopeOf[j]]
          /\ step'[j] \in Running \ {"discover"} =>
               Ended(levels'[j]) /\ Discovered(j)' # {}
          /\ step'[j] \in Running /\ captured'[j] = gen'[ScopeOf[j]] =>
               ReadsCurrent(j)'
    BY DEF JobInv
  <2>8. captured[j] = gen[ScopeOf[j]] => ReadsCurrent(j)'
    BY <2>1, <2>3, <2>4 DEF JobInv, ReadsCurrent, Running, E
  <2>9. captured[j] <= gen[ScopeOf[j]] /\ UNCHANGED gen
    BY <2>1 DEF JobInv, Running, graphVars
  <2> QED
    BY <2>1, <2>6, <2>7, <2>8, <2>9 DEF Running
<1>4. CASE EndDiscovery(j)
  <2>1. /\ step[j] = "discover"
        /\ step'[j] = IF Discovered(j) = {} THEN "done" ELSE "reverse"
        /\ UNCHANGED <<graphVars, captured, levels>>
    BY <1>4 DEF EndDiscovery, Goto, TypeOK
  <2>2. Ended(levels[j])
    BY <1>4 DEF EndDiscovery, Ended
  <2>3. Discovered(j)' = Discovered(j) /\ InScopeEdges(ScopeOf[j])' = InScopeEdges(ScopeOf[j])
    BY <2>1 DEF Discovered, Visited, InScopeEdges, graphVars
  <2>4. CASE step'[j] = "done"
    BY <2>1, <2>4, JobOver
  <2>5. CASE step'[j] = "reverse" /\ Discovered(j) # {}
    BY <2>1, <2>2, <2>3, <2>5 DEF JobInv, ReadsCurrent, Running, graphVars
  <2> QED
    BY <2>1, <2>4, <2>5
<1>5. ASSUME \/ step[j] = "reverse" /\ step'[j] = "undirected" /\ reverse'[j] = Subgraph(j)
             \/ step[j] = "undirected" /\ step'[j] = "compute"
                /\ UNCHANGED reverse /\ undir'[j] = Subgraph(j),
             UNCHANGED <<graphVars, captured, levels>>
      PROVE  JobInv(j)'
  <2>1. /\ Discovered(j)' = Discovered(j) /\ Subgraph(j)' = Subgraph(j)
        /\ InScopeEdges(ScopeOf[j])' = InScopeEdges(ScopeOf[j])
    BY <1>5 DEF Discovered, Visited, Subgraph, InScopeEdges, graphVars
  <2>2. Ended(levels[j]) /\ Discovered(j) # {} /\ captured[j] <= gen[ScopeOf[j]]
    BY <1>5 DEF JobInv, Running
  <2>3. captured[j] = gen[ScopeOf[j]] => ReadsCurrent(j)'
    BY <1>5, <2>1 DEF JobInv, ReadsCurrent, Running
  <2> QED
    BY <1>5, <2>1, <2>2, <2>3 DEF JobInv, graphVars
<1>6. CASE ProjectReverse(j)
  BY <1>5, <1>6 DEF ProjectReverse, Goto, TypeOK
<1>7. CASE ProjectUndirected(j)
  BY <1>5, <1>7 DEF ProjectUndirected, Goto, TypeOK
<1>8. CASE Compute(j)
  <2>1. /\ step[j] = "compute" /\ step'[j] = "write"
        /\ seeded'[j] = (scope[EntryOf[j]] = ScopeOf[j])
        /\ UNCHANGED <<graphVars, captured, levels, reverse, undir>>
    BY <1>8 DEF Compute, Goto, TypeOK
  <2>2. /\ Discovered(j)' = Discovered(j) /\ Subgraph(j)' = Subgraph(j)
        /\ InScopeEdges(ScopeOf[j])' = InScopeEdges(ScopeOf[j])
    BY <2>1 DEF Discovered, Visited, Subgraph, InScopeEdges, graphVars
  <2>3. /\ LevelsShape(levels[j], EntryOf[j]) /\ Ended(levels[j])
        /\ Discovered(j) # {} /\ captured[j] <= gen[ScopeOf[j]]
    BY <2>1 DEF JobInv, Running
  <2>4. captured[j] = gen[ScopeOf[j]] => ReadsCurrent(j)'
    <3> SUFFICES ASSUME captured[j] = gen[ScopeOf[j]] PROVE ReadsCurrent(j)'
      OBVIOUS
    <3>1. ReadsCurrent(j)
      BY <2>1 DEF JobInv, Running
    <3>2. scope[EntryOf[j]] = ScopeOf[j]
      BY <2>3, <3>1, EntryInScope DEF ReadsCurrent
    <3> QED
      BY <2>1, <2>2, <3>1, <3>2 DEF ReadsCurrent
  <2> QED
    BY <2>1, <2>2, <2>3, <2>4 DEF JobInv, graphVars
<1>9. CASE WriteBack(j) \/ RejectStale(j) \/ Drop(j) \/ QueryFails(j) \/ Crash(j)
  <2>1. step'[j] \in {"drop", "done"} /\ UNCHANGED levels
    BY <1>9 DEF WriteBack, RejectStale, Drop, QueryFails, Crash, Goto, TypeOK
  <2> QED
    BY <2>1, JobOver
<1> QED
  BY <1>2, <1>3, <1>4, <1>6, <1>7, <1>8, <1>9 DEF JobStepOf

(* Only a write-back whose fence held touches a score. *)
LEMMA ScoreWrites ==
  ASSUME TypeOK, [Next]_vars, NEW n \in Node, score'[n] # score[n]
  PROVE  \E j \in Job : /\ step[j] = "write" /\ Fresh(j)
                        /\ UNCHANGED graphVars
                        /\ StoreScores(j)
                        /\ n \in Discovered(j) /\ score'[n] = ScoreOf(j)
<1>1. PICK j \in Job : JobStepOf(j)
  BY DEF Next, vars
<1>2. WriteBack(j) \/ QueryFails(j)
  BY <1>1 DEF JobStepOf, Capture, DiscoverLevel, EndDiscovery, ProjectReverse,
              ProjectUndirected, Compute, RejectStale, Drop, Crash
<1>3. step[j] = "write" /\ Fresh(j) /\ StoreScores(j) /\ UNCHANGED graphVars
  BY <1>2 DEF WriteBack, QueryFails
<1>4. n \in Discovered(j) /\ score'[n] = ScoreOf(j)
  BY <1>3 DEF StoreScores
<1> QED
  BY <1>3, <1>4

(* What a job is about to write agrees with the graph, when the fence holds. *)
LEMMA FenceMeansCoherent ==
  ASSUME TypeOK, NEW j \in Job, JobInv(j), step[j] = "write", Fresh(j)
  PROVE  Coherent(BasisOf(j), InScopeEdges(ScopeOf[j])) /\ seeded[j]
<1>1. /\ LevelsShape(levels[j], EntryOf[j]) /\ Ended(levels[j])
      /\ ReadsCurrent(j)
  BY DEF JobInv, Running, Fresh
<1> DEFINE b == BasisOf(j)
           E == InScopeEdges(ScopeOf[j])
<1>2. /\ b.entry = EntryOf[j] /\ b.levels = levels[j]
      /\ b.reverse = reverse[j] /\ b.undir = undir[j]
  BY DEF BasisOf
<1> HIDE DEF b
<1>3. b.levels[1] = {b.entry}
  BY <1>1, <1>2 DEF LevelsShape
<1>4. Grown(b.levels, E)
  BY <1>1, <1>2 DEF ReadsCurrent
<1>5. Len(b.levels) > MaxDepth \/ Frontier(b.levels) = {}
  BY <1>1, <1>2 DEF Ended
<1>6. LET V == Visited(b.levels)
      IN  b.reverse = E \cap (V \X V) /\ b.undir = E \cap (V \X V)
  BY <1>1, <1>2 DEF ReadsCurrent, Subgraph
<1>7. seeded[j]
  BY <1>1 DEF ReadsCurrent
<1> HIDE DEF E
<1>8. Coherent(b, E)
  BY <1>3, <1>4, <1>5, <1>6, Zenon DEF Coherent, Grown
<1> QED
  BY <1>7, <1>8 DEF b, E

LEMMA ScoreStep ==
  ASSUME TypeOK, [Next]_vars, \A j \in Job : JobInv(j), NEW n \in Node, ScoreInv(n)
  PROVE  ScoreInv(n)'
<1>1. CASE score'[n] = score[n]
  <2> SUFFICES ASSUME score[n] # NoScore PROVE ScoreInv(n)'
    BY <1>1 DEF ScoreInv
  <2>1. PICK s : /\ s = score[n].scope /\ s \in Scope
                 /\ score[n].generation \in Nat
                 /\ score[n].generation <= gen[s]
                 /\ score[n].generation = gen[s] =>
                      Coherent(score[n].basis, InScopeEdges(s)) /\ score[n].basis.seeded
    BY DEF ScoreInv
  <2>2. /\ gen[s] \in Int /\ gen'[s] \in Int /\ gen'[s] >= gen[s]
        /\ gen'[s] = gen[s] => InScopeEdges(s)' = InScopeEdges(s)
    BY <2>1, Frozen
  <2>3. /\ score[n].generation <= gen'[s]
        /\ score[n].generation = gen'[s] =>
             score[n].generation = gen[s] /\ gen'[s] = gen[s]
    BY <2>1, <2>2
  <2>4. score[n].generation = gen'[s] =>
          Coherent(score[n].basis, InScopeEdges(s)') /\ score[n].basis.seeded
    BY <2>1, <2>2, <2>3
  <2>5. s = score'[n].scope
    BY <1>1, <2>1
  <2>6. InScopeEdges(score[n].scope)' = InScopeEdges(s)'
    BY <2>5 DEF InScopeEdges
  <2> QED
    BY <1>1, <2>1, <2>3, <2>4, <2>5, <2>6 DEF ScoreInv
<1>2. CASE score'[n] # score[n]
  <2>1. PICK j \in Job : /\ step[j] = "write" /\ Fresh(j)
                         /\ UNCHANGED graphVars
                         /\ score'[n] = ScoreOf(j)
    BY <1>2, ScoreWrites
  <2>2. Coherent(BasisOf(j), InScopeEdges(ScopeOf[j])) /\ BasisOf(j).seeded
    BY <2>1, FenceMeansCoherent DEF BasisOf
  <2>3. /\ ScopeOf[j] \in Scope /\ captured[j] \in Nat
        /\ captured[j] = gen'[ScopeOf[j]]
    BY <2>1, SetShapes DEF Fresh, TypeOK, graphVars
  <2>4. /\ score'[n].scope = ScopeOf[j] /\ score'[n].generation = captured[j]
        /\ score'[n].basis = BasisOf(j)
    BY <2>1 DEF ScoreOf
  <2>5. InScopeEdges(score[n].scope)' = InScopeEdges(ScopeOf[j])
    BY <2>1, <2>4 DEF InScopeEdges, graphVars
  <2> QED
    BY <2>2, <2>3, <2>4, <2>5 DEF ScoreInv
<1> QED
  BY <1>1, <1>2

LEMMA FenceInit == Init => FenceInv
<1> SUFFICES ASSUME Init PROVE FenceInv
  OBVIOUS
<1>1. \A j \in Job : JobInv(j)
  <2> SUFFICES ASSUME NEW j \in Job PROVE JobInv(j)
    OBVIOUS
  <2>1. levels[j] = <<{EntryOf[j]}>> /\ step[j] = "start"
    BY DEF Init
  <2> QED
    BY <2>1 DEF JobInv, LevelsShape, Running
<1>2. \A n \in Node : ScoreInv(n)
  BY DEF Init, ScoreInv
<1> QED
  BY <1>1, <1>2, TypeInit DEF FenceInv

LEMMA FenceStep == FenceInv /\ [Next]_vars => FenceInv'
<1> SUFFICES ASSUME FenceInv, [Next]_vars PROVE FenceInv'
  OBVIOUS
<1> USE DEF FenceInv
<1>1. ASSUME NEW j \in Job PROVE JobInv(j)'
  <2>1. CASE UNCHANGED jobVars
    BY <2>1, JobKept DEF jobVars
  <2>2. ASSUME NEW i \in Job, JobStepOf(i) PROVE JobInv(j)'
    <3>1. CASE i = j
      BY <2>2, <3>1, JobMoves
    <3>2. CASE i # j
      BY <2>2, <3>2, OtherJobs, JobKept
    <3> QED
      BY <3>1, <3>2
  <2> QED
    BY <2>1, <2>2 DEF Next, vars
<1> QED
  BY <1>1, TypeStep, ScoreStep

(* ADR-0015: the score of a node that retrieval can see was computed from the
   topology its scope has now, however many writers and jobs ran meanwhile and
   wherever the job that wrote it read. *)
THEOREM VisibleScoresAreFresh == Spec => []FreshScores
<1>1. FenceInv => FreshScores
  <2> SUFFICES ASSUME FenceInv, NEW n \in Node, Visible(n)
               PROVE  /\ Coherent(score[n].basis, InScopeEdges(scope[n]))
                      /\ score[n].basis.seeded
    BY DEF FreshScores
  <2> QED
    BY DEF FenceInv, ScoreInv, Visible
<1> QED
  BY <1>1, FenceInit, FenceStep, PTL DEF Spec

(* A score of the current generation was written with all the others of its
   execution, to nodes that are all still in the scope. What has been written
   over one of them since is current too, and was written over this one as
   well if its execution scored it. *)
TogetherInv(n) ==
  score[n] # NoScore /\ score[n].generation = gen[score[n].scope] =>
    \A m \in Targets(score[n].basis) :
      /\ m \in Node
      /\ scope[m] = score[n].scope
      /\ score[m] # NoScore
      /\ score[m].scope = score[n].scope
      /\ score[m].generation = gen[score[n].scope]
      /\ score[m].job # score[n].job => n \notin Targets(score[m].basis)

(* What a job writes is a score of its own, and its targets are what it has
   discovered. *)
LEMMA WrittenScore ==
  ASSUME TypeOK, NEW j \in Job
  PROVE  /\ ScoreOf(j) # NoScore
         /\ ScoreOf(j).job = j
         /\ ScoreOf(j).scope = ScopeOf[j]
         /\ ScoreOf(j).generation = captured[j]
         /\ Targets(ScoreOf(j).basis) = Discovered(j)
<1>1. ScoreOf(j) \in Score
  BY SetShapes DEF ScoreOf, Score, TypeOK, BasisOf, Basis
<1>2. Targets(ScoreOf(j).basis) = Discovered(j)
  BY DEF ScoreOf, BasisOf, Targets, Discovered
<1> QED
  BY <1>1, <1>2, ScoreAssumption DEF ScoreAssumption, ScoreOf

LEMMA TogetherStep ==
  ASSUME FenceInv, [Next]_vars, NEW n \in Node, TogetherInv(n)
  PROVE  TogetherInv(n)'
<1> USE DEF FenceInv
<1> SUFFICES ASSUME score'[n] # NoScore,
                    score'[n].generation = gen'[score'[n].scope],
                    NEW m \in Targets(score'[n].basis)
             PROVE  /\ m \in Node
                    /\ scope'[m] = score'[n].scope
                    /\ score'[m] # NoScore
                    /\ score'[m].scope = score'[n].scope
                    /\ score'[m].generation = gen'[score'[n].scope]
                    /\ score'[m].job # score'[n].job => n \notin Targets(score'[m].basis)
  BY DEF TogetherInv, Targets, Visited
<1>1. CASE score'[n] = score[n]
  <2>1. PICK s : /\ s = score[n].scope /\ s \in Scope
                 /\ score[n].generation \in Nat
                 /\ score[n].generation <= gen[s]
    BY <1>1 DEF ScoreInv
  <2>2. /\ gen'[s] = gen[s] /\ Members(s)' = Members(s)
        /\ score[n].generation = gen[s]
    BY <1>1, <2>1, Frozen
  <2>3. /\ m \in Node /\ scope[m] = s /\ score[m] # NoScore
        /\ score[m].scope = s /\ score[m].generation = gen[s]
        /\ score[m].job # score[n].job => n \notin Targets(score[m].basis)
    BY <1>1, <2>1, <2>2 DEF TogetherInv
  <2>4. scope'[m] = s
    BY <2>2, <2>3 DEF Members
  <2>5. CASE score'[m] = score[m]
    BY <1>1, <2>1, <2>2, <2>3, <2>4, <2>5
  <2>6. CASE score'[m] # score[m]
    <3>1. PICK j \in Job : /\ Fresh(j) /\ UNCHANGED graphVars
                           /\ StoreScores(j)
                           /\ m \in Discovered(j) /\ score'[m] = ScoreOf(j)
      BY <2>3, <2>6, ScoreWrites
    <3>2. ScopeOf[j] = s /\ captured[j] = gen[s]
      BY <2>3, <3>1 DEF Fresh, Members
    <3>3. /\ score'[m] # NoScore /\ score'[m].scope = s
          /\ score'[m].generation = gen'[s]
      BY <2>2, <3>1, <3>2, WrittenScore
    <3>4. n \in Targets(score'[m].basis) => score'[n] = score'[m]
      BY <3>1, WrittenScore DEF StoreScores
    <3> QED
      BY <1>1, <2>1, <2>3, <2>4, <3>3, <3>4
  <2> QED
    BY <2>5, <2>6
<1>2. CASE score'[n] # score[n]
  <2>1. PICK j \in Job : /\ Fresh(j) /\ UNCHANGED graphVars
                         /\ StoreScores(j) /\ score'[n] = ScoreOf(j)
    BY <1>2, ScoreWrites
  <2>2. m \in Discovered(j)
    BY <2>1, WrittenScore
  <2>3. m \in Node /\ scope'[m] = ScopeOf[j] /\ score'[m] = ScoreOf(j)
    BY <2>1, <2>2 DEF Fresh, Members, StoreScores, graphVars
  <2>4. captured[j] = gen'[ScopeOf[j]]
    BY <2>1 DEF Fresh, graphVars
  <2> QED
    BY <2>1, <2>3, <2>4, WrittenScore
<1> QED
  BY <1>1, <1>2

(* Overlapping executions of one scope: one of them prevails on all the nodes
   that both scored, and while a score of an execution is visible, none of its
   targets is without a visible score. *)
THEOREM ExecutionsDoNotMix == Spec => []OneExecutionPrevails
<1> DEFINE Inv == FenceInv /\ \A n \in Node : TogetherInv(n)
<1>1. Init => Inv
  BY FenceInit DEF Init, TogetherInv
<1>2. Inv /\ [Next]_vars => Inv'
  BY FenceStep, TogetherStep
<1>3. Inv => OneExecutionPrevails
  <2> SUFFICES ASSUME Inv, NEW n \in Node, Visible(n),
                      NEW m \in Targets(score[n].basis)
               PROVE  /\ Visible(m)
                      /\ score[m].job # score[n].job => n \notin Targets(score[m].basis)
    BY DEF OneExecutionPrevails
  <2> QED
    BY DEF TogetherInv, Visible
<1> HIDE DEF Inv
<1> QED
  BY <1>1, <1>2, <1>3, PTL DEF Spec

(* ADR-0022 beside ADR-0015: applying an event again moves no generation, in
   the sinks or in the jobs. *)
THEOREM RedeliveryIsQuiet == Spec => RedeliveryKeepsGeneration
<1>1. Init => GraphTypeOK
  BY GraphAssumption DEF Init, GraphInit, GraphTypeOK, GraphAssumption, Absent
<1>2. GraphTypeOK /\ [Next]_vars => GraphTypeOK'
  BY GraphStep
<1>3. GraphTypeOK /\ [Next]_vars =>
        [UNCHANGED <<scope, data, weight>> =>
           \A s \in Scope : gen'[s] = gen[s] \/ gen[s] = Absent]_graphVars
  <2> SUFFICES ASSUME GraphTypeOK, [Next]_vars, UNCHANGED <<scope, data, weight>>,
                      ~UNCHANGED graphVars, NEW s \in Scope
               PROVE  gen'[s] = gen[s] \/ gen[s] = Absent
    OBVIOUS
  <2>1. ASSUME NEW n \in Node, NEW r \in Scope, NEW d \in Data, MergeCodeNode(n, r, d)
        PROVE  gen'[s] = gen[s] \/ gen[s] = Absent
    <3>1. scope[n] = r /\ data[n] = d
      BY <2>1 DEF MergeCodeNode, GraphTypeOK
    <3> QED
      BY <2>1, <3>1 DEF MergeCodeNode, BumpPartitions
  <2>2. ASSUME NEW e \in Edge, NEW k \in 1..MaxWeight, MergeCodeRelation(e, k)
        PROVE  gen'[s] = gen[s] \/ gen[s] = Absent
    <3>1. weight[e] = k
      BY <2>2 DEF MergeCodeRelation, GraphTypeOK
    <3> QED
      BY <2>2, <3>1 DEF MergeCodeRelation, BumpPartitions
  <2>3. ASSUME NEW j \in Job, JobStepOf(j)
        PROVE  gen'[s] = gen[s] \/ gen[s] = Absent
    BY <2>3, JobLeavesGraph DEF graphVars, GraphTypeOK
  <2> QED
    BY <2>1, <2>2, <2>3 DEF Next, SinkGraphWrite, vars, graphVars
<1> QED
  BY <1>1, <1>2, <1>3, PTL DEF Spec, RedeliveryKeepsGeneration

------------------------------------------------------------------------------
(* A job reports no graph before createProjections returns, and reaches the
   end through the deferred drop or without a report.                         *)
DropInv ==
  /\ \A j \in Job : step[j] \in {"start", "discover", "reverse", "undirected"} => known[j] = {}
  /\ DropAttempted

LEMMA DropStep ==
  ASSUME TypeOK, DropInv, NEW j \in Job, JobStepOf(j)
  PROVE  DropInv'
<1> USE DEF TypeOK, DropInv, DropAttempted, Goto
<1>1. CASE Capture(j)
  BY <1>1 DEF Capture
<1>2. CASE DiscoverLevel(j)
  BY <1>2 DEF DiscoverLevel
<1>3. CASE EndDiscovery(j)
  BY <1>3 DEF EndDiscovery
<1>4. CASE ProjectReverse(j)
  BY <1>4 DEF ProjectReverse
<1>5. CASE ProjectUndirected(j)
  BY <1>5 DEF ProjectUndirected
<1>6. CASE Compute(j)
  BY <1>6 DEF Compute
<1>7. CASE WriteBack(j) \/ RejectStale(j)
  BY <1>7 DEF WriteBack, RejectStale
<1>8. CASE Drop(j)
  BY <1>8 DEF Drop
<1>9. CASE QueryFails(j)
  <2>1. /\ UNCHANGED <<dropped, crashed>>
        /\ step' = [step EXCEPT ![j] = step'[j]]
        /\ \/ step[j] \in {"start", "discover"} /\ step'[j] = "done" /\ UNCHANGED known
           \/ /\ step[j] \in {"reverse", "undirected", "compute", "write"}
              /\ step'[j] = "drop"
              /\ UNCHANGED known \/ known' = [known EXCEPT ![j] = {"reverse"}]
    BY <1>9 DEF QueryFails
  <2>2. QED
    BY <2>1
<1>10. CASE Crash(j)
  BY <1>10 DEF Crash
<1>11. QED
  BY <1>1, <1>2, <1>3, <1>4, <1>5, <1>6, <1>7, <1>8, <1>9, <1>10 DEF JobStepOf

(* SPEC-043 section 4: a job that did not die has attempted the drop of every
   graph it was told of, whichever of its queries failed. *)
THEOREM ReportedGraphsAreDropped == Spec => []DropAttempted
<1>1. Init => TypeOK /\ DropInv
  BY TypeInit DEF Init, DropInv, DropAttempted
<1>2. TypeOK /\ DropInv /\ [Next]_vars => TypeOK' /\ DropInv'
  <2> SUFFICES ASSUME TypeOK, DropInv, [Next]_vars PROVE DropInv'
    BY TypeStep
  <2>1. CASE UNCHANGED <<jobVars, catalog, score>>
    BY <2>1 DEF jobVars, DropInv, DropAttempted
  <2>2. CASE ~UNCHANGED <<jobVars, catalog, score>>
    BY <2>2, DropStep DEF Next, vars
  <2>3. QED
    BY <2>1, <2>2
<1>3. QED
  BY <1>1, <1>2, PTL DEF Spec, DropInv
==============================================================================
