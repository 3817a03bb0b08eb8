-------------------------- MODULE RetrievalQueries --------------------------
(***************************************************************************)
(* The unary calls of the retrieval engine, from enforcement to the reply: *)
(* GetNode, ExpandNeighbors, HybridSearch on the full-text index, and      *)
(* HybridSearch on graph and vectors - embedding, vector leg, graph leg,   *)
(* fusion, authoritative re-check, hydration, reranking - and the packing  *)
(* of a reranked reply. Each call to a store is one step; between two of   *)
(* them sink-graph may move a node to another repository or group, which   *)
(* Qdrant and OpenSearch do not learn. Calls share no state: one is enough.*)
(*                                                                         *)
(* Scores are exact: Scale is a common multiple of every denominator. What *)
(* a reply tells of a node is the label under which each part was read.    *)
(***************************************************************************)
EXTENDS AccessScope, Packing

CONSTANTS
  Node, Label, NoLabel,  \* NoLabel: not in the graph, or not enriched yet
  InitialLabel,          \* [Node -> Label or NoLabel]
  LaterLabel,            \* <<node, label>> sink-graph may merge later
  MaxChanges,            \* writes to the graph, bounded
  Relation,              \* [from, type, to]
  Domain,                \* [Node -> its domain]
  Point,                 \* Qdrant points, one per chunk: [id, node, label]
  Chunk,                 \* OpenSearch documents: [id, node, index, label]
  Matches,               \* nodes the full-text index finds
  Caller,                \* security contexts that reach the engine
  Query,                 \* requests
  Scale, RRFK, Beta,     \* Beta is already scaled
  SourceHits,            \* hits of one OpenSearch query
  RerankScore,           \* scaled scores of the reranker
  Tokens, Budget         \* what a fragment costs; the budgets of the packer

ASSUME QueriesAssumption ==
  /\ NoLabel \notin Label
  /\ InitialLabel \in [Node -> Label \cup {NoLabel}]
  /\ LaterLabel \subseteq Node \X Label
  /\ MaxChanges \in Nat
  /\ IsFiniteSet(Node) /\ Matches \subseteq Node
  /\ \A r \in Relation : {r.from, r.to} \subseteq Node
  /\ IsFiniteSet(Point) /\ \A p \in Point : p.node \in Node /\ p.label \in Label
  /\ IsFiniteSet(Chunk)
  /\ \A d \in Chunk : d.node \in Node /\ d.label \in Label /\ d.index \in Nat
  /\ {Scale, RRFK, Beta, SourceHits} \subseteq Nat
  /\ RerankScore \subseteq Nat /\ 0 \in RerankScore
  /\ Tokens.definition \in [Node -> Nat] /\ {Tokens.relation, Tokens.chunk} \subseteq Nat
  /\ \A budget \in Budget : {budget.definitions, budget.relations, budget.fullSource} \subseteq Nat

(* Limits, depths and top_k are unsigned; a node that is not in the graph  *)
(* has no label.                                                           *)
ASSUME QueryAssumption ==
  \A query \in Query :
    /\ query.kind \in {"get", "expand", "fulltext", "hybrid"}
    /\ query.kind # "fulltext" => query.node \in Node
    /\ query.kind = "expand" => {query.depth, query.limit} \subseteq Nat
    /\ query.kind = "fulltext" => {query.graphLimit, query.topK} \subseteq Nat
    /\ query.kind = "hybrid" =>
         {query.maxDepth, query.graphLimit, query.vectorLimit, query.topK} \subseteq Nat

(* Contributions are exact: a leg is no longer than the nodes or the points. *)
ASSUME ScaleAssumption ==
  /\ Scale > 0
  /\ \A rank \in 1 .. Cardinality(Node) \cup 1 .. Cardinality(Point) :
       Scale % (RRFK + rank) = 0

VARIABLES
  label,    \* [Node -> its security label in Neo4j]
  changes,  \* writes to the graph so far
  pc,       \* the next step of the call, or "idle", "replied", "packed"
  sc,       \* its security context
  q,        \* its request
  vector,   \* the vector leg: entries in rank order
  graph,    \* the graph leg
  ranked,   \* the candidates, best first
  checked,  \* history: the nodes in scope when the reply was authorized
  lost,     \* history: the vector leg failed
  reply,    \* what the caller gets
  packed    \* what the packer made of it

graphVars == <<label, changes>>
vars == <<label, changes, pc, sc, q, vector, graph, ranked, checked, lost, reply, packed>>

NoReply == [code |-> "none", nodes |-> <<>>, graphCandidates |-> 0,
            vectorCandidates |-> 0, degraded |-> FALSE]

Init ==
  /\ label = InitialLabel /\ changes = 0
  /\ pc = "idle" /\ sc = NoContext /\ q = <<>>
  /\ vector = <<>> /\ graph = <<>> /\ ranked = <<>>
  /\ checked = {} /\ lost = FALSE
  /\ reply = NoReply /\ packed = <<>>

(* sink-graph merges a node with the labels of its last event. *)
MergeNode ==
  /\ changes < MaxChanges
  /\ \E m \in LaterLabel : label[m[1]] # m[2] /\ label' = [label EXCEPT ![m[1]] = m[2]]
  /\ changes' = changes + 1
  /\ UNCHANGED <<pc, sc, q, vector, graph, ranked, checked, lost, reply, packed>>

-----------------------------------------------------------------------------
(* Queries on Neo4j. *)

Visible(n) == label[n] # NoLabel /\ InScope(label[n], sc)
InNow == {n \in Node : Visible(n)}

Limit(s, n) == SubSeq(s, 1, Min({n, Len(s)}))
Largest(S, n) == kSubset(Min({n, Cardinality(S)}), S)

(* Variable-length patterns match trails: no relation twice. *)
Steps(t, dir, types) ==
  {[at |-> IF r.from = t.at THEN r.to ELSE r.from, path |-> Append(t.path, r)] :
     r \in {x \in Relation : /\ x \notin Range(t.path)
                             /\ types = {} \/ x.type \in types
                             /\ \/ dir # "reverse" /\ x.from = t.at
                                \/ dir # "forward" /\ x.to = t.at}}

Trails(n, depth, dir, types) ==
  LET start == {[at |-> x, path |-> <<>>] : x \in InNow \cap {n}}
      upTo[k \in Nat] ==
        IF k = 0 THEN start
        ELSE upTo[k - 1] \cup {s \in UNION {Steps(t, dir, types) : t \in upTo[k - 1]} :
                                 Visible(s.at)}
  IN upTo[depth] \ start

Default(v, d) == IF v = 0 THEN d ELSE v

(* What a reply says of a node. *)
Entry(n, name) ==
  [node |-> n, name |-> name, hop |-> 0, graphRank |-> 0, vectorRank |-> 0,
   score |-> 0, final |-> 0, impact |-> 0, text |-> <<>>]

Replied(code, nodes) == [NoReply EXCEPT !.code = code, !.nodes = nodes]
Finish(r) == reply' = r /\ pc' = "replied"
FailWith(code) ==
  /\ Finish(Replied(code, <<>>))
  /\ UNCHANGED <<graphVars, sc, q, vector, graph, ranked, checked, lost, packed>>

-----------------------------------------------------------------------------
(* Every call: the interceptors, then the scope check of the handler.      *)
Action == [get |-> "GetNode", expand |-> "ExpandNeighbors",
           fulltext |-> "HybridSearch", hybrid |-> "HybridSearch"]

Receive ==
  /\ pc = "idle"
  /\ \E caller \in Caller, query \in Query :
       /\ sc' = caller
       /\ q' = query
       /\ \E answer \in OpaAnswer(caller, Action[query.kind]) :
            IF Enforce(caller, answer) # "OK"
            THEN Finish(Replied(Enforce(caller, answer), <<>>))
            ELSE IF ~HasScope(caller) THEN Finish(Replied("PermissionDenied", <<>>))
            ELSE IF query.kind = "hybrid" /\ ~query.hasText
                 THEN Finish(Replied("InvalidArgument", <<>>))
            ELSE pc' = query.kind /\ UNCHANGED reply
  /\ UNCHANGED <<graphVars, vector, graph, ranked, checked, lost, packed>>

Answer(r) ==
  /\ Finish(r)
  /\ checked' = InNow
  /\ UNCHANGED <<graphVars, sc, q, vector, graph, ranked, lost, packed>>

GetNode ==
  /\ pc = "get"
  /\ \/ Answer(IF Visible(q.node) THEN Replied("OK", <<Entry(q.node, label[q.node])>>)
               ELSE Replied("NotFound", <<>>))
     \/ FailWith("Internal")

(* LIMIT counts rows, one for each node and list of relation types; the    *)
(* nodes are told apart afterwards.                                        *)
ExpandNeighbors ==
  /\ pc = "expand"
  /\ LET depth == Default(q.depth, 1)
         rows  == {<<t.at, [i \in DOMAIN t.path |-> t.path[i].type]>> :
                     t \in {x \in Trails(q.node, depth, q.direction, q.types) : x.at # q.node}}
     IN \/ \E some \in Largest(rows, Default(q.limit, 100)) :
             \E order \in SetToSeqs({r[1] : r \in some}) :
               Answer(Replied("OK", [i \in DOMAIN order |-> Entry(order[i], label[order[i]])]))
        \/ FailWith("Internal")

(* Without an entry node: the native full-text index, in score order; the  *)
(* repositories asked for only narrow the scope.                           *)
FullText ==
  /\ pc = "fulltext"
  /\ LET found == {n \in Matches : /\ Visible(n)
                                   /\ q.domain \in {"unspecified", Domain[n]}
                                   /\ q.repos = <<>> \/ label[n].repo \in Range(q.repos)}
     IN \/ \E order \in SetToSeqs(found) :
             LET records == Limit(order, Default(q.graphLimit, 200))
                 nodes   == Limit(records, Default(q.topK, 25))
             IN Answer([Replied("OK", [i \in DOMAIN nodes |-> Entry(nodes[i], label[nodes[i]])])
                          EXCEPT !.graphCandidates = Len(records), !.degraded = TRUE])
        \/ FailWith("Internal")

-----------------------------------------------------------------------------
(* HybridSearch with an entry node. The filter takes the first repository  *)
(* asked for; no domain asked for means code.                              *)
Narrow == IF q.repos = <<>> THEN Absent ELSE Head(q.repos)
DomainFilter == IF q.domain = "unspecified" THEN "code" ELSE q.domain

Goto(s) == pc' = s /\ UNCHANGED reply

EmbedQuery ==
  /\ pc = "hybrid"
  /\ \/ Goto("vector") /\ UNCHANGED <<graphVars, sc, q, vector, graph, ranked, checked, lost, packed>>
     \/ FailWith("Internal")

(* Qdrant ranks the points its filter lets through, by similarity; every   *)
(* point carries the domain code. A failure leaves the leg empty.          *)
VectorSearch ==
  /\ pc = "vector"
  /\ LET found == {p \in Point : /\ p.label.tenant = sc.tenant
                                 /\ p.label.repo \in EffectiveRepos(sc, Narrow)
                                 /\ p.label.group \in sc.groups
                                 /\ DomainFilter = "code"}
     IN \/ /\ \E order \in SetToSeqs(found) : vector' = Limit(order, Default(q.vectorLimit, 50))
           /\ lost' = FALSE
        \/ vector' = <<>> /\ lost' = TRUE
  /\ Goto("graph")
  /\ UNCHANGED <<graphVars, sc, q, graph, ranked, checked, packed>>

TraversalTypes == {"CALLS", "IMPLEMENTS", "EXTENDS", "OVERRIDES", "DEPENDS_ON", "IMPORTS"}

(* Mutant: max(length(path)) as the hop.                                   *)
GraphRowsLongest ==
  LET trails == Trails(q.node, q.maxDepth, "reverse", TraversalTypes)
      lengths(n) == {Len(t.path) : t \in {x \in trails : x.at = n}}
  IN {[node |-> n, hop |-> Max(lengths(n))] :
        n \in {x \in Node : /\ lengths(x) # {}
                            /\ Domain[x] = DomainFilter
                            /\ Narrow \in {Absent, label[x].repo}}}

GraphRows ==
  LET trails == Trails(q.node, q.maxDepth, "reverse", TraversalTypes)
      lengths(n) == {Len(t.path) : t \in {x \in trails : x.at = n}}
  IN {[node |-> n, hop |-> Min(lengths(n))] :
        n \in {x \in Node : /\ lengths(x) # {}
                            /\ Domain[x] = DomainFilter
                            /\ Narrow \in {Absent, label[x].repo}}}

InHopOrder(rows) ==
  {s \in SetToSeqs(rows) : \A i, j \in DOMAIN s : i < j => s[i].hop <= s[j].hop}

(* RRFFuse: every occurrence of a node in a leg adds its contribution.     *)
Contribution(rank) == Scale \div (RRFK + rank)
LegScore(leg, n) ==
  LET sum[i \in Nat] ==
        IF i = 0 THEN 0
        ELSE sum[i - 1] + (IF leg[i].node = n THEN Contribution(i) ELSE 0)
  IN sum[Len(leg)]
RRFScore(g, v, n) == LegScore(g, n) + LegScore(v, n)
Ranks(leg, n) == {i \in DOMAIN leg : leg[i].node = n}
FirstRank(ranks) == IF ranks = {} THEN 0 ELSE Min(ranks)

RRFFuse(g, v) ==
  {[Entry(n, IF Ranks(g, n) = {} THEN NoLabel ELSE g[FirstRank(Ranks(g, n))].name)
      EXCEPT !.hop = IF Ranks(g, n) = {} THEN 0 ELSE g[FirstRank(Ranks(g, n))].hop,
             !.graphRank = FirstRank(Ranks(g, n)),
             !.vectorRank = FirstRank(Ranks(v, n)),
             !.score = RRFScore(g, v, n)] :
     n \in {g[i].node : i \in DOMAIN g} \cup {v[i].node : i \in DOMAIN v}}

(* The order of equal scores is that of a map iteration. *)
Proximity(e) == IF e.hop = 0 THEN 0 ELSE Beta \div (1 + e.hop)
ByScore(S) ==
  {s \in SetToSeqs(S) : \A i, j \in DOMAIN s : i < j => s[i].final >= s[j].final}

ApplyTopologicalProximity(fused) ==
  ByScore({[e EXCEPT !.final = e.score + Proximity(e)] : e \in fused})

GraphTraversal ==
  /\ pc = "graph"
  /\ \/ /\ q.maxDepth >= 1
        /\ \E order \in InHopOrder(GraphRows) :
             LET leg == [i \in DOMAIN Limit(order, Default(q.graphLimit, 200)) |->
                           [node |-> order[i].node, hop |-> order[i].hop,
                            name |-> label[order[i].node]]]
             IN /\ leg # <<>> \/ vector # <<>>
                /\ graph' = leg
                /\ ranked' \in ApplyTopologicalProximity(RRFFuse(leg, vector))
        /\ Goto("recheck")
        /\ UNCHANGED <<graphVars, sc, q, vector, checked, lost, packed>>
     \/ FailWith("Internal")

(* The entries whose node the graph still shows, in their order. *)
Subsequences(s, kept) ==
  {[k \in DOMAIN order |-> s[order[k]]] :
     order \in {o \in SetToSeqs(kept) : \A i, j \in DOMAIN o : i < j => o[i] < o[j]}}
Authorized(s) == Subsequences(s, {i \in DOMAIN s : Visible(s[i].node)})

(* Mutants: truncated before the re-check; no re-check at all.             *)
RecheckAfterTruncation ==
  /\ pc = "recheck"
  /\ \/ /\ ranked' \in Authorized(Limit(ranked, Default(q.topK, 25)))
        /\ checked' = InNow
        /\ Goto("names")
        /\ UNCHANGED <<graphVars, sc, q, vector, graph, lost, packed>>
     \/ FailWith("Internal")

NoRecheck ==
  /\ pc = "recheck"
  /\ ranked' = Limit(ranked, Default(q.topK, 25))
  /\ checked' = InNow
  /\ Goto("names")
  /\ UNCHANGED <<graphVars, sc, q, vector, graph, lost, packed>>

(* The authoritative re-check, then the truncation. *)
TopK == Default(q.topK, 25)

RecheckAuthorized ==
  /\ pc = "recheck"
  /\ \/ /\ \E authorized \in Authorized(ranked) : ranked' = Limit(authorized, TopK)
        /\ checked' = InNow
        /\ Goto("names")
        /\ UNCHANGED <<graphVars, sc, q, vector, graph, lost, packed>>
     \/ FailWith("Internal")

(* Names the graph leg did not bring; a node gone from the scope since     *)
(* stays without.                                                          *)
HydrateNames ==
  /\ pc = "names"
  /\ \/ /\ ranked' = [i \in DOMAIN ranked |->
                        IF ranked[i].name = NoLabel /\ Visible(ranked[i].node)
                        THEN [ranked[i] EXCEPT !.name = label[ranked[i].node]] ELSE ranked[i]]
        /\ Goto(IF q.includeText THEN "text" ELSE "rerank")
        /\ UNCHANGED <<graphVars, sc, q, vector, graph, checked, lost, packed>>
     \/ (\E i \in DOMAIN ranked : ranked[i].name = NoLabel) /\ FailWith("Internal")

(* One OpenSearch query for all, of so many hits in no order; each node's  *)
(* chunks are put in the order of their index.                             *)
InIndexOrder(docs) ==
  {s \in SetToSeqs(docs) : \A i, j \in DOMAIN s : i < j => s[i].index <= s[j].index}

HydrateSourceText ==
  /\ pc = "text"
  /\ LET found == {d \in Chunk : /\ InScope(d.label, sc)
                                 /\ \E i \in DOMAIN ranked : ranked[i].node = d.node}
     IN \/ /\ \E hits \in Largest(found, SourceHits) :
              \E text \in [DOMAIN ranked -> UNION {SetToSeqs(docs) : docs \in SUBSET hits}] :
                /\ \A i \in DOMAIN ranked :
                     text[i] \in InIndexOrder({d \in hits : d.node = ranked[i].node})
                /\ ranked' = [i \in DOMAIN ranked |-> [ranked[i] EXCEPT !.text = text[i]]]
           /\ Goto("rerank")
           /\ UNCHANGED <<graphVars, sc, q, vector, graph, checked, lost, packed>>
        \/ ranked # <<>> /\ FailWith("Internal")

(* Mutant: degraded only when neither leg found anything.                  *)
RespondDegradedWhenEmpty(nodes) ==
  LET found == Cardinality({i \in DOMAIN ranked : ranked[i].vectorRank > 0})
  IN Finish([code |-> "OK", nodes |-> nodes,
             graphCandidates |-> Cardinality({i \in DOMAIN ranked : ranked[i].graphRank > 0}),
             vectorCandidates |-> found, degraded |-> found = 0 /\ ranked = <<>>])

(* The counts are taken before reranking; reranked entries replace them.   *)
Respond(nodes) ==
  LET found == Cardinality({i \in DOMAIN ranked : ranked[i].vectorRank > 0})
  IN Finish([code |-> "OK", nodes |-> nodes,
             graphCandidates |-> Cardinality({i \in DOMAIN ranked : ranked[i].graphRank > 0}),
             vectorCandidates |-> found, degraded |-> found = 0])

WithoutRerank ==
  /\ pc = "rerank"
  /\ ~q.rerank \/ ranked = <<>>
  /\ Respond(ranked)
  /\ UNCHANGED <<graphVars, sc, q, vector, graph, ranked, checked, lost, packed>>

(* The reranker scores the texts by index; a text it leaves out scores 0.  *)
CallReranker ==
  /\ pc = "rerank"
  /\ q.rerank /\ ranked # <<>>
  /\ \/ /\ \E score \in [DOMAIN ranked -> RerankScore] :
             ranked' = [i \in DOMAIN ranked |-> [ranked[i] EXCEPT !.final = score[i]]]
        /\ Goto("impact")
        /\ UNCHANGED <<graphVars, sc, q, vector, graph, checked, lost, packed>>
     \/ FailWith("Internal")

(* Impact scores are read for nodes in scope whose score is current; which *)
(* scores those are is GraphPartition's matter. Half of Beta weighs the    *)
(* hop, half the impact.                                                   *)
ReadImpact ==
  /\ pc = "impact"
  /\ \/ /\ \E fresh \in SUBSET {i \in DOMAIN ranked : Visible(ranked[i].node)} :
             LET boosted(i) ==
                   [ranked[i] EXCEPT
                      !.impact = IF i \in fresh THEN 1 ELSE 0,
                      !.final = @ + Proximity(ranked[i]) \div 2
                                  + IF i \in fresh THEN Beta \div 2 ELSE 0]
             IN \E order \in ByScore({boosted(i) : i \in DOMAIN ranked}) :
                  Respond(Limit(order, TopK))
        /\ UNCHANGED <<graphVars, sc, q, vector, graph, ranked, checked, lost, packed>>
     \/ FailWith("Internal")

(* A caller packs a reranked reply. *)
Candidates ==
  [i \in DOMAIN reply.nodes |->
     LET e == reply.nodes[i]
     IN [node |-> e.node, final |-> e.final, hop |-> e.hop, seen |-> e.hop > 0,
         impact |-> e.impact, definition |-> Tokens.definition[e.node],
         relation |-> Tokens.relation, source |-> Tokens.chunk * Len(e.text)]]

PackReply ==
  /\ pc = "replied"
  /\ reply.code = "OK" /\ q.kind = "hybrid" /\ q.rerank
  /\ \E budget \in Budget, sorted \in DedupSortedByScoreDesc(Candidates) :
       packed' = [budget |-> budget, context |-> Pack(sorted, budget)]
  /\ pc' = "packed"
  /\ UNCHANGED <<graphVars, sc, q, vector, graph, ranked, checked, lost, reply>>

Next ==
  \/ MergeNode \/ Receive \/ GetNode \/ ExpandNeighbors \/ FullText
  \/ EmbedQuery \/ VectorSearch \/ GraphTraversal \/ RecheckAuthorized
  \/ HydrateNames \/ HydrateSourceText \/ WithoutRerank \/ CallReranker
  \/ ReadImpact \/ PackReply

Spec == Init /\ [][Next]_vars

-----------------------------------------------------------------------------
OK == reply.code = "OK"
NodesOf(entries) == {entries[i].node : i \in DOMAIN entries}

(* Whatever the call, a node is returned at most once and only when Neo4j  *)
(* had it in the caller's scope as the reply was authorized, after both    *)
(* legs and whatever label Qdrant still holds; its name and every chunk of *)
(* its text were in scope when read, and the chunks are in order.          *)
AnsweredInScope ==
  /\ Cardinality(NodesOf(reply.nodes)) = Len(reply.nodes)
  /\ \A i \in DOMAIN reply.nodes :
       LET e == reply.nodes[i]
       IN /\ e.node \in checked
          /\ e.name # NoLabel => InScope(e.name, sc)
          /\ \A k \in DOMAIN e.text :
               /\ e.text[k].node = e.node /\ InScope(e.text[k].label, sc)
               /\ k > 1 => e.text[k - 1].index <= e.text[k].index

(* a is at least as well placed as b in both legs, and strictly in one. *)
Better(a, b) ==
  LET upTo(leg, n, k) == Cardinality({i \in Ranks(leg, n) : i <= k})
      ahead(leg) == \A k \in DOMAIN leg : upTo(leg, a, k) >= upTo(leg, b, k)
  IN ahead(graph) /\ ahead(vector) /\ a # b

(* A hybrid reply is the top_k best of the authorized candidates, and full: *)
(* a node removed by the re-check gives its place to the next one; and no  *)
(* node, returned or left out, is better placed in both legs than one that *)
(* comes before it.                                                        *)
BestAuthorized ==
  (OK /\ q.kind = "hybrid") =>
    LET candidates == (NodesOf(graph) \cup NodesOf(vector)) \cap checked
        before(a, i) == a \in {reply.nodes[j].node : j \in 1..i}
    IN /\ NodesOf(reply.nodes) \subseteq candidates
       /\ Len(reply.nodes) = Min({TopK, Cardinality(candidates)})
       /\ ~q.rerank => \A i \in DOMAIN reply.nodes : \A a \in candidates :
                         Better(a, reply.nodes[i].node) => before(a, i)

(* When the vector leg fails the caller still gets the graph leg, nearest  *)
(* first, and is told; reranking aside, as if it had asked for it alone.   *)
DegradedKeepsGraph ==
  (OK /\ q.kind = "hybrid" /\ lost) =>
    /\ reply.degraded /\ reply.vectorCandidates = 0
    /\ reply.graphCandidates = Len(reply.nodes)
    /\ ~q.rerank =>
         \E order \in SetToSeqs(NodesOf(graph) \cap checked) :
           /\ \A i \in DOMAIN reply.nodes : reply.nodes[i].node = order[i]
           /\ \A i, j \in DOMAIN order : i < j =>
                \E k, m \in DOMAIN graph : /\ graph[k].node = order[i] /\ graph[m].node = order[j]
                                          /\ graph[k].hop <= graph[m].hop

(* Reference: nodes within k steps against the relations, breadth first.   *)
Within(k) ==
  LET near[i \in 0..k] ==
        IF i = 0 THEN InNow \cap {q.node}
        ELSE {r.from : r \in {x \in Relation : /\ x.type \in TraversalTypes
                                              /\ x.to \in near[i - 1] /\ Visible(x.from)}}
  IN UNION {near[i] : i \in 1..k}

(* The trails of the graph query find each dependant at its distance, and  *)
(* the limit cuts the farthest: while nobody writes the graph, a node of   *)
(* the leg at hop k is within k steps and no fewer, and a node left out is *)
(* no nearer than any of the leg.                                          *)
GraphLegNearest ==
  (pc = "recheck" /\ changes = 0) =>
    LET wanted(k) == {n \in Within(k) : Domain[n] = DomainFilter /\ Narrow \in {Absent, label[n].repo}}
    IN \A i \in DOMAIN graph :
         LET k == graph[i].hop
         IN /\ graph[i].node \in wanted(k) \ wanted(k - 1)
            /\ wanted(k - 1) \subseteq NodesOf(graph)

(* The packed context keeps each section within its budget, but for a best *)
(* definition that is over it alone; it never takes a candidate before a   *)
(* better one that the section is for; and it presents the candidates from *)
(* the two ends towards the middle, the best first, the next last.         *)
BestAtEnds(candidates, budget, c) ==
  LET of(n) == CHOOSE e \in Range(candidates) : e.node = n
      tokens(section, part) == UNION {{n} \X (1..of(n)[part]) : n \in Range(section)}
      within(section, part, quota) == Cardinality(tokens(section, part)) <= quota
      better(b, a) == of(b).final > of(a).final
      greedy(section, nodes) == \A a \in Range(section), b \in nodes :
                                  better(b, a) => b \in Range(section)
      at(i) == of(c.order[i]).final
  IN /\ Range(c.order) = NodesOf(candidates) /\ Len(c.order) = Len(candidates)
     /\ \A i \in DOMAIN c.order :
          LET mirror == Len(c.order) + 1 - i
          IN i < mirror => /\ at(i) >= at(mirror)
                           /\ i + 1 < mirror => at(mirror) >= at(i + 1)
     /\ \/ within(c.definitions, "definition", budget.definitions)
        \/ Cardinality(Range(c.definitions)) = 1
     /\ within(c.relations, "relation", budget.relations)
     /\ within(c.fullSource, "source", budget.fullSource)
     /\ greedy(c.definitions, Range(c.order))
     /\ greedy(c.relations, Range(c.order))
     /\ greedy(c.fullSource, {n \in Range(c.order) : Eligible(of(n), budget)})
     /\ c.order # <<>> => c.definitions # <<>>

PackedBestAtEnds == pc = "packed" => BestAtEnds(Candidates, packed.budget, packed.context)
============================================================================
