------------------------- MODULE MCRetrievalQueries -------------------------
(* An instance of RetrievalQueries for TLC: 2, 3 and 5 depend on 1, 3 through
   2 and 5 both ways; 1 depends on 3 (a cycle) and 4, of another domain, on 2.
   Node 3 has two chunks, the first also as an earlier ingestion left it, and
   may move from repository r1 to r2, which Qdrant and OpenSearch do not learn.
   Scale is the least common multiple of 61..65, the denominators of ranks up
   to 5 with k = 60, and Beta 0.15 of it. *)
EXTENDS RetrievalQueries

L(repo) == [tenant |-> "t", repo |-> repo, group |-> "g"]
MCLabel == {L("r1"), L("r2")}
MCInitialLabel == <<L("r1"), L("r1"), L("r1"), L("r2"), L("r1")>>
MCLaterLabel == {<<3, L("r2")>>}

Rel(from, type, to) == [from |-> from, type |-> type, to |-> to]
MCRelation == {Rel(2, "CALLS", 1), Rel(3, "IMPORTS", 2), Rel(1, "EXTENDS", 3),
               Rel(4, "CALLS", 2), Rel(3, "CONTAINS", 1),
               Rel(5, "CALLS", 1), Rel(5, "IMPORTS", 2)}
MCDomain == <<"code", "code", "code", "doc", "code">>

MCPoint == {[id |-> 1, node |-> 2, label |-> L("r1")],
            [id |-> 2, node |-> 3, label |-> L("r1")],
            [id |-> 3, node |-> 3, label |-> L("r1")],
            [id |-> 4, node |-> 5, label |-> L("r1")]}
MCChunk == {[id |-> 1, node |-> 2, index |-> 0, label |-> L("r1")],
            [id |-> 2, node |-> 3, index |-> 0, label |-> L("r1")],
            [id |-> 3, node |-> 3, index |-> 0, label |-> L("r1")],
            [id |-> 4, node |-> 3, index |-> 1, label |-> L("r2")]}

Alice(repos) == [tenant |-> "t", user |-> "alice", repos |-> repos, groups |-> {"g"}]
MCCaller == {Alice({"r1"}), Alice({"r1", "r2"}), [Alice({"r1"}) EXCEPT !.groups = {}], NoContext}

Get == [kind |-> "get", node |-> 3]
Expand(direction, types) ==
  [kind |-> "expand", node |-> 1, depth |-> 2, limit |-> 2, direction |-> direction, types |-> types]
Hybrid == [kind |-> "hybrid", node |-> 1, hasText |-> TRUE, domain |-> "unspecified",
           repos |-> <<>>, maxDepth |-> 2, graphLimit |-> 2, vectorLimit |-> 0, topK |-> 2,
           includeText |-> FALSE, rerank |-> FALSE]
MCQuery ==
  {Get, Expand("reverse", {}), Expand("both", {"CALLS"}), [Expand("forward", {}) EXCEPT !.depth = 0],
   [kind |-> "fulltext", domain |-> "doc", repos |-> <<>>, graphLimit |-> 0, topK |-> 1],
   [kind |-> "fulltext", domain |-> "unspecified", repos |-> <<"r1", "r2">>, graphLimit |-> 3, topK |-> 2],
   Hybrid, [Hybrid EXCEPT !.hasText = FALSE], [Hybrid EXCEPT !.maxDepth = 0],
   [Hybrid EXCEPT !.maxDepth = 3, !.graphLimit = 0, !.topK = 0],
   [Hybrid EXCEPT !.domain = "doc", !.repos = <<"r2", "r1">>],
   [Hybrid EXCEPT !.node = 2, !.repos = <<"r1", "r2">>, !.topK = 1],
   [Hybrid EXCEPT !.graphLimit = 0, !.topK = 3, !.includeText = TRUE, !.rerank = TRUE]}

MCScale == 495593280
MCBeta == 74338992
MCTokens == [definition |-> <<3, 2, 4, 1, 3>>, relation |-> 2, chunk |-> 3]
MCBudget ==
  {[definitions |-> d, relations |-> 4, fullSource |-> 8 - d, topK |-> 1, threshold |-> 0] :
     d \in {2, 6}}
============================================================================
