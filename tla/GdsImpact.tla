----------------------------- MODULE GdsImpact -----------------------------
(***************************************************************************)
(* tools/gds-impact against a graph that sink-graph keeps changing. A job  *)
(* captures the generation of its partition, discovers the dependents of   *)
(* its entry node level by level, projects the subgraph twice into the GDS *)
(* catalog, runs the algorithms, writes the scores back under the fence    *)
(* and drops the projections. Every query is a transaction of its own.     *)
(*                                                                         *)
(* A score is abstracted to its basis, everything that was read from the   *)
(* live graph to compute it, and to the execution whose run of the         *)
(* algorithms gave the community ids: those of two runs do not compare.    *)
(***************************************************************************)
EXTENDS GraphPartition, Sequences

CONSTANTS
  Job,       \* executions of the tool
  EntryOf,   \* [Job -> Node]: cfg.EntryNodeID
  ScopeOf,   \* [Job -> Scope]: cfg.Scope
  MaxDepth,  \* cfg.MaxDepth
  NoScore    \* a node that was never scored

ASSUME JobAssumption ==
  /\ EntryOf \in [Job -> Node]
  /\ ScopeOf \in [Job -> Scope]
  /\ MaxDepth \in Nat \ {0}

VARIABLES
  step,      \* [Job -> where Run stands]
  captured,  \* [Job -> partitionGeneration]
  levels,    \* [Job -> sequence of sets of nodes]: the entry, then each level
  reverse,   \* [Job -> edges of the REVERSE projection]
  undir,     \* [Job -> edges of the UNDIRECTED projection]
  seeded,    \* [Job -> did PageRank find its seed in the scope?]
  known,     \* [Job -> names in the projection struct, to be dropped]
  dropped,   \* [Job -> names gds.graph.drop was called for]
  crashed,   \* jobs whose process died
  catalog,   \* GDS catalog: <<job, name>>
  score      \* [Node -> impact_* properties, or NoScore]

jobVars == <<step, captured, levels, reverse, undir, seeded, known, dropped, crashed>>
vars == <<graphVars, jobVars, catalog, score>>

GraphName == {"reverse", "undirected"}
JobStep == {"start", "discover", "reverse", "undirected", "compute", "write",
            "drop", "done"}
Basis == [entry : Node, levels : Seq(SUBSET Node), reverse : SUBSET (Node \X Node),
          undir : SUBSET (Node \X Node), seeded : BOOLEAN]
Score == [job : Job, scope : Scope, generation : Nat, basis : Basis]

ASSUME ScoreAssumption == NoScore \notin Score

TypeOK ==
  /\ GraphTypeOK
  /\ step \in [Job -> JobStep]
  /\ captured \in [Job -> Nat]
  /\ levels \in [Job -> Seq(SUBSET Node)]
  /\ reverse \in [Job -> SUBSET (Node \X Node)]
  /\ undir \in [Job -> SUBSET (Node \X Node)]
  /\ seeded \in [Job -> BOOLEAN]
  /\ known \in [Job -> SUBSET GraphName]
  /\ dropped \in [Job -> SUBSET GraphName]
  /\ crashed \subseteq Job
  /\ catalog \subseteq Job \X GraphName
  /\ score \in [Node -> Score \cup {NoScore}]

Init ==
  /\ GraphInit
  /\ step = [j \in Job |-> "start"]
  /\ captured = [j \in Job |-> 0]
  /\ levels = [j \in Job |-> <<{EntryOf[j]}>>]
  /\ reverse = [j \in Job |-> {}]
  /\ undir = [j \in Job |-> {}]
  /\ seeded = [j \in Job |-> FALSE]
  /\ known = [j \in Job |-> {}]
  /\ dropped = [j \in Job |-> {}]
  /\ crashed = {}
  /\ catalog = {}
  /\ score = [n \in Node |-> NoScore]

Goto(j, s) == step' = [step EXCEPT ![j] = s]

------------------------------------------------------------------------------
(* capturePartitionGeneration: MERGE creates the partition at generation 0. *)
Capture(j) ==
  /\ step[j] = "start"
  /\ gen' = [gen EXCEPT ![ScopeOf[j]] = IF @ = Absent THEN 0 ELSE @]
  /\ captured' = [captured EXCEPT ![j] = gen'[ScopeOf[j]]]
  /\ Goto(j, "discover")
  /\ UNCHANGED <<scope, data, weight, levels, reverse, undir, seeded, known,
                 dropped, crashed, catalog, score>>

Frontier(ls) == ls[Len(ls)]
Visited(ls) == UNION {ls[i] : i \in 1..Len(ls)}
Dependents(E, F, V) == {n \in Node \ V : \E f \in F : <<n, f>> \in E}

(* discoverSubgraph, one level: one query on the live graph. *)
DiscoverLevel(j) ==
  /\ step[j] = "discover"
  /\ Frontier(levels[j]) # {}
  /\ Len(levels[j]) <= MaxDepth
  /\ levels' = [levels EXCEPT ![j] =
       Append(@, Dependents(InScopeEdges(ScopeOf[j]), Frontier(@), Visited(@)))]
  /\ UNCHANGED <<graphVars, step, captured, reverse, undir, seeded, known,
                 dropped, crashed, catalog, score>>

Discovered(j) == Visited(levels[j]) \ {EntryOf[j]}

(* Faulty variant: the generation is captured after the discovery. *)
EndDiscoveryThenCapture(j) ==
  /\ step[j] = "discover"
  /\ Frontier(levels[j]) = {} \/ Len(levels[j]) > MaxDepth
  /\ IF Discovered(j) = {} THEN Goto(j, "done") ELSE Goto(j, "reverse")
  /\ captured' = [captured EXCEPT ![j] = gen[ScopeOf[j]]]
  /\ UNCHANGED <<graphVars, levels, reverse, undir, seeded, known, dropped,
                 crashed, catalog, score>>

(* The traversal ends; without dependents Run returns and projects nothing. *)
EndDiscovery(j) ==
  /\ step[j] = "discover"
  /\ Frontier(levels[j]) = {} \/ Len(levels[j]) > MaxDepth
  /\ IF Discovered(j) = {} THEN Goto(j, "done") ELSE Goto(j, "reverse")
  /\ UNCHANGED <<graphVars, captured, levels, reverse, undir, seeded, known,
                 dropped, crashed, catalog, score>>

(* The impact edges among the discovered nodes, as the live graph has them. *)
Subgraph(j) ==
  InScopeEdges(ScopeOf[j]) \cap (Visited(levels[j]) \X Visited(levels[j]))

(* gds.graph.project aggregates over the edges: without any, no graph. *)
InCatalog(j, name, edges) ==
  catalog' = IF edges = {} THEN catalog ELSE catalog \cup {<<j, name>>}

ProjectReverse(j) ==
  /\ step[j] = "reverse"
  /\ reverse' = [reverse EXCEPT ![j] = Subgraph(j)]
  /\ InCatalog(j, "reverse", Subgraph(j))
  /\ Goto(j, "undirected")
  /\ UNCHANGED <<graphVars, captured, levels, undir, seeded, known, dropped,
                 crashed, score>>

ProjectUndirected(j) ==
  /\ step[j] = "undirected"
  /\ undir' = [undir EXCEPT ![j] = Subgraph(j)]
  /\ InCatalog(j, "undirected", Subgraph(j))
  /\ known' = [known EXCEPT ![j] = GraphName]
  /\ Goto(j, "compute")
  /\ UNCHANGED <<graphVars, captured, levels, reverse, seeded, dropped, crashed,
                 score>>

(* PageRank (which looks its seed up in the live graph), betweenness, Leiden. *)
Compute(j) ==
  /\ step[j] = "compute"
  /\ {j} \X GraphName \subseteq catalog
  /\ seeded' = [seeded EXCEPT ![j] = scope[EntryOf[j]] = ScopeOf[j]]
  /\ Goto(j, "write")
  /\ UNCHANGED <<graphVars, captured, levels, reverse, undir, known, dropped,
                 crashed, catalog, score>>

(* Faulty variant: the generation is not compared. *)
FreshMembersOnly(j) == Discovered(j) \subseteq Members(ScopeOf[j])

(* The fence: every target still in the scope, the generation still the
   captured one. *)
Fresh(j) ==
  /\ Discovered(j) \subseteq Members(ScopeOf[j])
  /\ gen[ScopeOf[j]] = captured[j]

BasisOf(j) == [entry |-> EntryOf[j], levels |-> levels[j], reverse |-> reverse[j],
               undir |-> undir[j], seeded |-> seeded[j]]

ScoreOf(j) == [job |-> j, scope |-> ScopeOf[j], generation |-> captured[j],
               basis |-> BasisOf(j)]

(* Faulty variant: where another execution has written at this generation, the
   higher of the two scores stays. *)
StoreHigherScores(j) ==
  \E kept \in SUBSET {n \in Discovered(j) : /\ score[n] # NoScore
                                           /\ score[n].generation = captured[j]} :
    score' = [n \in Node |-> IF n \in Discovered(j) \ kept THEN ScoreOf(j) ELSE score[n]]

(* One query writes all the targets, whatever another execution left there. *)
StoreScores(j) ==
  score' = [n \in Node |-> IF n \in Discovered(j) THEN ScoreOf(j) ELSE score[n]]

WriteBack(j) ==
  /\ step[j] = "write"
  /\ Fresh(j)
  /\ StoreScores(j)
  /\ Goto(j, "drop")
  /\ UNCHANGED <<graphVars, captured, levels, reverse, undir, seeded, known,
                 dropped, crashed, catalog>>

(* ErrStalePartitionGeneration: nothing is written. *)
RejectStale(j) ==
  /\ step[j] = "write"
  /\ ~Fresh(j)
  /\ Goto(j, "drop")
  /\ UNCHANGED <<graphVars, captured, levels, reverse, undir, seeded, known,
                 dropped, crashed, catalog, score>>

(* dropProjections, deferred: for the names the projection struct carries. A
   failed drop is logged. *)
Drop(j) ==
  /\ step[j] = "drop"
  /\ dropped' = [dropped EXCEPT ![j] = known[j]]
  /\ \E F \in SUBSET known[j] : catalog' = catalog \ ({j} \X (known[j] \ F))
  /\ Goto(j, "done")
  /\ UNCHANGED <<graphVars, captured, levels, reverse, undir, seeded, known,
                 crashed, score>>

(* Faulty variant: an error of the algorithms returns before the deferred drop
   is registered. *)
QueryFailsBeforeDefer(j) ==
  /\ step[j] \in {"start", "discover", "compute"}
  /\ Goto(j, "done")
  /\ UNCHANGED <<graphVars, captured, levels, reverse, undir, seeded, known,
                 dropped, crashed, catalog, score>>

(* A query fails. Run returns, through the deferred drop once createProjections
   has been called. A projection or a write-back may have taken effect although
   reading its result failed. *)
QueryFails(j) ==
  /\ \/ /\ step[j] \in {"start", "discover"}
        /\ Goto(j, "done")
        /\ UNCHANGED <<known, catalog, score>>
     \/ /\ step[j] = "reverse"
        /\ InCatalog(j, "reverse", Subgraph(j)) \/ UNCHANGED catalog
        /\ Goto(j, "drop")
        /\ UNCHANGED <<known, score>>
     \/ /\ step[j] = "undirected"
        /\ InCatalog(j, "undirected", Subgraph(j)) \/ UNCHANGED catalog
        /\ known' = [known EXCEPT ![j] = {"reverse"}]
        /\ Goto(j, "drop")
        /\ UNCHANGED score
     \/ /\ step[j] = "compute"
        /\ Goto(j, "drop")
        /\ UNCHANGED <<known, catalog, score>>
     \/ /\ step[j] = "write"
        /\ (Fresh(j) /\ StoreScores(j)) \/ UNCHANGED score
        /\ Goto(j, "drop")
        /\ UNCHANGED <<known, catalog>>
  /\ UNCHANGED <<graphVars, captured, levels, reverse, undir, seeded, dropped,
                 crashed>>

(* The process dies. *)
Crash(j) ==
  /\ step[j] # "done"
  /\ crashed' = crashed \cup {j}
  /\ Goto(j, "done")
  /\ UNCHANGED <<graphVars, captured, levels, reverse, undir, seeded, known,
                 dropped, catalog, score>>

JobStepOf(j) ==
  \/ Capture(j) \/ DiscoverLevel(j) \/ EndDiscovery(j)
  \/ ProjectReverse(j) \/ ProjectUndirected(j) \/ Compute(j)
  \/ WriteBack(j) \/ RejectStale(j) \/ Drop(j)
  \/ QueryFails(j) \/ Crash(j)

Next ==
  \/ SinkGraphWrite /\ UNCHANGED <<jobVars, catalog, score>>
  \/ \E j \in Job : JobStepOf(j)

Spec == Init /\ [][Next]_vars

------------------------------------------------------------------------------
(* What the retrieval engine's impact fetcher returns a score for: a node whose
   score carries its current scope and that scope's current generation. *)
Visible(n) ==
  /\ score[n] # NoScore
  /\ score[n].scope = scope[n]
  /\ score[n].generation = gen[scope[n]]

(* A basis agrees with the edges E: each level is the dependents of the level
   before, and both projections hold the edges among the nodes found. *)
Coherent(b, E) ==
  /\ b.levels[1] = {b.entry}
  /\ \A i \in 1..(Len(b.levels) - 1) :
       b.levels[i + 1] =
         Dependents(E, b.levels[i], UNION {b.levels[k] : k \in 1..i})
  /\ Len(b.levels) > MaxDepth \/ Frontier(b.levels) = {}
  /\ LET V == Visited(b.levels)
     IN  b.reverse = E \cap (V \X V) /\ b.undir = E \cap (V \X V)

(* Retrieval never boosts with a score computed from a graph that has changed
   since, or from reads of two different graphs (ADR-0015). *)
FreshScores ==
  \A n \in Node : Visible(n) =>
    /\ Coherent(score[n].basis, InScopeEdges(scope[n]))
    /\ score[n].basis.seeded

Targets(b) == Visited(b.levels) \ {b.entry}

(* Two executions that overlap at one generation overwrite each other, and then
   one of them prevails on every node that both scored: beside a visible score
   of one, a target of the same execution that another has taken over belongs
   to an execution that did not score this node. None of the targets is left
   without a visible score, so nothing is ever half written. What the code does
   not promise: the nodes that only the earlier one scored keep its community,
   of which they may then be a part. *)
OneExecutionPrevails ==
  \A n \in Node : Visible(n) =>
    \A m \in Targets(score[n].basis) :
      /\ Visible(m)
      /\ score[m].job # score[n].job => n \notin Targets(score[m].basis)

(* SPEC-043 section 4, the part the code keeps: whichever query fails after
   createProjections returned, a drop of every graph it reported is attempted
   before Run returns. A graph created by a query whose answer was lost is not
   reported, and stays in the catalog. *)
DropAttempted ==
  \A j \in Job : step[j] = "done" /\ j \notin crashed => known[j] \subseteq dropped[j]
============================================================================
