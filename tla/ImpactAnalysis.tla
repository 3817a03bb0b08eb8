--------------------------- MODULE ImpactAnalysis --------------------------
(***************************************************************************)
(* The streaming call ImpactAnalysis of the retrieval engine: enforcement, *)
(* then a breadth-first walk of the relations against their direction, one *)
(* Neo4j query per level, an event per node and a progress event per       *)
(* level, until the frontier is empty, max_depth is reached or max_nodes   *)
(* nodes were sent. sink-graph writes the graph while a walk goes on.      *)
(*                                                                         *)
(* The caller opens a call and reads its events; here it may also go away. *)
(***************************************************************************)
EXTENDS Integers, AccessScope

CONSTANTS
  Call,          \* concurrent calls
  Node,          \* node ids; the queries order rows by id
  Label,         \* security labels [tenant, repo, group]
  NoLabel,       \* the node is not in the graph
  InitialLabel,  \* [Node -> Label or NoLabel]
  InitialEdge,   \* relations <<dependant, dependency>>
  LaterLabel,    \* <<node, label>> sink-graph may merge later
  LaterEdge,     \* relations sink-graph may add later
  MaxChanges     \* writes to the graph, bounded

ASSUME ImpactAssumption ==
  /\ Node \subseteq Nat
  /\ NoLabel \notin Label
  /\ InitialLabel \in [Node -> Label \cup {NoLabel}]
  /\ LaterLabel \subseteq Node \X Label
  /\ InitialEdge \cup LaterEdge \subseteq Node \X Node
  /\ MaxChanges \in Nat

VARIABLES
  label,    \* [Node -> its security label]
  edge,     \* relations <<dependant, dependency>>
  changes,  \* writes to the graph so far
  st,       \* [Call -> "idle", "opened", "level", "rows", "done" or "failed"]
  walk,     \* [Call -> the local variables of runBFS]
  sent,     \* [Call -> events sent]
  opened    \* history: [Call -> changes when the walk started]

graphVars == <<label, edge, changes>>
callVars  == <<st, walk, sent, opened>>
impactVars == <<label, edge, changes, st, walk, sent, opened>>

NoWalk == [sc |-> NoContext, depth |-> 0, maxDepth |-> 0, maxNodes |-> 0,
           narrow |-> Absent, entry |-> 0, visited |-> {}, frontier |-> {},
           rows |-> {}, next |-> {}, explored |-> 0]

ImpactInit ==
  /\ label = InitialLabel
  /\ edge = InitialEdge
  /\ changes = 0
  /\ st = [c \in Call |-> "idle"]
  /\ walk = [c \in Call |-> NoWalk]
  /\ sent = [c \in Call |-> <<>>]
  /\ opened = [c \in Call |-> 0]

Running(c) == st[c] \in {"opened", "level", "rows"}

-----------------------------------------------------------------------------
(* sink-graph, as far as the queries see it: a node is merged with the     *)
(* labels of its last event, a relation is merged, nothing is removed.     *)

MergeNode(n, l) ==
  /\ label[n] # l
  /\ label' = [label EXCEPT ![n] = l]
  /\ UNCHANGED edge

MergeRelation(a, b) ==
  /\ <<a, b>> \notin edge
  /\ NoLabel \notin {label[a], label[b]}
  /\ edge' = edge \cup {<<a, b>>}
  /\ UNCHANGED label

GraphWrite ==
  /\ changes < MaxChanges
  /\ changes' = changes + 1
  /\ \/ \E m \in LaterLabel : MergeNode(m[1], m[2])
     \/ \E r \in LaterEdge : MergeRelation(r[1], r[2])
  /\ UNCHANGED callVars

-----------------------------------------------------------------------------
Goto(c, s) == st' = [st EXCEPT ![c] = s]

Forget(c) == walk' = [walk EXCEPT ![c] = NoWalk]

Fail(c) ==
  /\ Goto(c, "failed")
  /\ Forget(c)
  /\ opened' = [opened EXCEPT ![c] = 0]
  /\ UNCHANGED sent

(* The interceptors, then the checks of the handler, in one step: nothing  *)
(* they read changes. A max_depth of 0 means the default.                  *)
DefaultMaxDepth == 4

Open(c, sc, req) ==
  /\ Goto(c, "opened")
  /\ walk' = [walk EXCEPT ![c] =
       [NoWalk EXCEPT !.sc = sc, !.narrow = req.narrow, !.entry = req.entry,
          !.maxNodes = req.maxNodes,
          !.maxDepth = IF req.maxDepth = 0 THEN DefaultMaxDepth ELSE req.maxDepth]]
  /\ UNCHANGED <<sent, opened>>

Accepts(c, answer) ==
  /\ Enforce(walk[c].sc, answer) = "OK"
  /\ HasScope(walk[c].sc)
  /\ walk[c].maxNodes > 0

Handle(c) ==
  /\ st[c] = "opened"
  /\ \E answer \in OpaAnswer(walk[c].sc, "ImpactAnalysis") :
       IF Accepts(c, answer)
       THEN /\ Goto(c, "level")
            /\ walk' = [walk EXCEPT ![c].depth = 1,
                                    ![c].visited = {walk[c].entry},
                                    ![c].frontier = {walk[c].entry}]
            /\ opened' = [opened EXCEPT ![c] = changes]
            /\ UNCHANGED sent
       ELSE Fail(c)
  /\ UNCHANGED graphVars

(* Mutant: only the node it starts from is checked against the scope.      *)
LevelRowsUnscoped(w) ==
  LET visible(n) == label[n] # NoLabel /\ InScope(label[n], w.sc)
      wanted(n)  == w.narrow = Absent \/ label[n].repo = w.narrow
  IN {[node |-> d, label |-> label[d]] :
        d \in {d \in Node \ w.visited :
                 label[d] # NoLabel /\ wanted(d)
                 /\ \E n \in w.frontier : visible(n) /\ <<d, n>> \in edge}}

(* Mutant: the relations are followed in their direction.                  *)
LevelRowsForward(w) ==
  LET visible(n) == label[n] # NoLabel /\ InScope(label[n], w.sc)
      wanted(n)  == w.narrow = Absent \/ label[n].repo = w.narrow
  IN {[node |-> d, label |-> label[d]] :
        d \in {d \in Node \ w.visited :
                 visible(d) /\ wanted(d)
                 /\ \E n \in w.frontier : visible(n) /\ <<n, d>> \in edge}}

(* levelCypher: dependants of the frontier not visited yet, both ends in   *)
(* scope; the repository of the request applies to the dependant, so the   *)
(* walk does not pass through what it filters out.                         *)
LevelRows(w) ==
  LET visible(n) == label[n] # NoLabel /\ InScope(label[n], w.sc)
      wanted(n)  == w.narrow = Absent \/ label[n].repo = w.narrow
  IN {[node |-> d, label |-> label[d]] :
        d \in {d \in Node \ w.visited :
                 visible(d) /\ wanted(d)
                 /\ \E n \in w.frontier : visible(n) /\ <<d, n>> \in edge}}

FetchLevel(c) ==
  /\ st[c] = "level"
  /\ \/ /\ Goto(c, "rows")
        /\ walk' = [walk EXCEPT ![c].rows = LevelRows(walk[c]), ![c].next = {}]
        /\ UNCHANGED <<sent, opened>>
     \/ Fail(c)
  /\ UNCHANGED graphVars

FirstRow(r, rows) == \A q \in rows : r.node <= q.node

SendEvent(c, e) == sent' = [sent EXCEPT ![c] = Append(@, e)]

(* Mutant: one node more than max_nodes.                                   *)
EmitNodeOneMore(c) ==
  LET w == walk[c]
  IN /\ st[c] = "rows"
     /\ w.explored <= w.maxNodes
     /\ \E r \in w.rows :
          /\ FirstRow(r, w.rows)
          /\ walk' = [walk EXCEPT ![c].rows = @ \ {r},
                                  ![c].visited = @ \cup {r.node},
                                  ![c].next = @ \cup {r.node},
                                  ![c].explored = @ + 1]
          /\ SendEvent(c, [kind |-> "node", node |-> r.node, hop |-> w.depth, label |-> r.label])
     /\ UNCHANGED <<st, opened, graphVars>>

(* A row below the cap is sent and joins the next frontier. *)
EmitNode(c) ==
  LET w == walk[c]
  IN /\ st[c] = "rows"
     /\ w.explored < w.maxNodes
     /\ \E r \in w.rows :
          /\ FirstRow(r, w.rows)
          /\ walk' = [walk EXCEPT ![c].rows = @ \ {r},
                                  ![c].visited = @ \cup {r.node},
                                  ![c].next = @ \cup {r.node},
                                  ![c].explored = @ + 1]
          /\ SendEvent(c, [kind |-> "node", node |-> r.node, hop |-> w.depth, label |-> r.label])
     /\ UNCHANGED <<st, opened, graphVars>>

(* The level is over: no row left, or one beyond the cap. Progress is sent *)
(* either way; then the walk goes on, or ends at the cap, at max_depth or  *)
(* on an empty frontier.                                                   *)
EmitProgress(c) ==
  LET w         == walk[c]
      truncated == w.rows # {}
  IN /\ st[c] = "rows"
     /\ truncated => w.explored >= w.maxNodes
     /\ SendEvent(c, [kind |-> "progress", explored |-> w.explored,
                      found |-> Cardinality(w.next), depth |-> w.depth,
                      truncated |-> truncated])
     /\ walk' = [walk EXCEPT ![c].frontier = w.next, ![c].rows = {}, ![c].next = {},
                             ![c].depth = @ + 1]
     /\ Goto(c, IF truncated \/ w.next = {} \/ w.depth = w.maxDepth THEN "done" ELSE "level")
     /\ UNCHANGED <<opened, graphVars>>

(* The context of the call is cancelled or past its deadline: the query or *)
(* the send under way returns an error.                                    *)
Cancelled(c) ==
  /\ Running(c)
  /\ Fail(c)
  /\ UNCHANGED graphVars
============================================================================
