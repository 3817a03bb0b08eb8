--------------------------- MODULE GraphPartition --------------------------
(***************************************************************************)
(* The Neo4j graph as sink-graph writes it: CodeNodes that belong to a     *)
(* security scope (tenant, repo, ACL group), typed relations with an       *)
(* absolute weight, and one GDSPartition node per scope whose generation   *)
(* counts the changes of the scope's topology (ADR-0015).                  *)
(*                                                                         *)
(* A MERGE is one transaction that locks its nodes by id before it reads   *)
(* their scopes, so it is one step. A node without a scope is a            *)
(* placeholder created by a relation that arrived before its endpoint, or  *)
(* does not exist; no reader tells these apart.                            *)
(***************************************************************************)
EXTENDS Integers

CONSTANTS
  Node,           \* CodeNode ids
  Scope,          \* security scopes
  NoScope,        \* a placeholder's scope
  Data,           \* what else a CodeNode holds: name, ast_hash, path, label
  NoData,         \* a placeholder's data
  Edge,           \* possible relations: <<from, rel_type, to>>
  ImpactRelType,  \* relation types that carry impact
  MaxWeight,      \* bound: occurrences of a relation
  MaxGen          \* bound: generations of a partition

ASSUME GraphAssumption ==
  /\ NoScope \notin Scope
  /\ NoData \notin Data
  /\ \A e \in Edge : e = <<e[1], e[2], e[3]>> /\ e[1] \in Node /\ e[3] \in Node
  /\ MaxWeight \in Nat
  /\ MaxGen \in Nat \ {0}

VARIABLES
  scope,   \* [Node -> Scope or NoScope]
  data,    \* [Node -> Data or NoData]
  weight,  \* [Edge -> 0..MaxWeight]; 0: no such relation
  gen      \* [Scope -> generation], Absent while there is no GDSPartition

graphVars == <<scope, data, weight, gen>>

Absent == -1

GraphTypeOK ==
  /\ scope \in [Node -> Scope \cup {NoScope}]
  /\ data \in [Node -> Data \cup {NoData}]
  /\ weight \in [Edge -> 0..MaxWeight]
  /\ gen \in [Scope -> Absent..MaxGen]

(* Any graph from before ADR-0015: no partition has a generation yet. *)
GraphInit ==
  /\ scope \in [Node -> Scope \cup {NoScope}]
  /\ data \in [Node -> Data \cup {NoData}]
  /\ \A n \in Node : data[n] = NoData <=> scope[n] = NoScope
  /\ weight \in [Edge -> 0..MaxWeight]
  /\ gen = [s \in Scope |-> Absent]

(* Faulty variant: every event counts as a change. *)
BumpAlways(S, changed) ==
  /\ \A s \in S : gen[s] < MaxGen
  /\ gen' = [s \in Scope |->
              IF s \notin S THEN gen[s]
              ELSE IF gen[s] = Absent THEN 1 ELSE gen[s] + 1]

(* MERGE (p:GDSPartition) for each of the scopes S: created at generation 1,
   incremented only when the mutation changes something. *)
BumpPartitions(S, changed) ==
  /\ \A s \in S : changed => gen[s] < MaxGen
  /\ gen' = [s \in Scope |->
              IF s \notin S THEN gen[s]
              ELSE IF gen[s] = Absent THEN 1
              ELSE IF changed THEN gen[s] + 1 ELSE gen[s]]

(* Faulty variant: the scope the node leaves is not bumped. *)
MergeCodeNodeNewScopeOnly(n, s, d) ==
  /\ BumpPartitions({s}, scope[n] # s \/ data[n] # d)
  /\ scope' = [scope EXCEPT ![n] = s]
  /\ data' = [data EXCEPT ![n] = d]
  /\ UNCHANGED weight

(* A CodeNode event: the node may move from one scope to another, and then
   both partitions change. *)
MergeCodeNode(n, s, d) ==
  /\ BumpPartitions({scope[n], s} \ {NoScope}, scope[n] # s \/ data[n] # d)
  /\ scope' = [scope EXCEPT ![n] = s]
  /\ data' = [data EXCEPT ![n] = d]
  /\ UNCHANGED weight

(* A CodeRelation event: an absolute weight, so that applying it twice is
   harmless; the partitions of both endpoints change. *)
MergeCodeRelation(e, k) ==
  /\ BumpPartitions({scope[e[1]], scope[e[3]]} \ {NoScope}, weight[e] # k)
  /\ weight' = [weight EXCEPT ![e] = k]
  /\ UNCHANGED <<scope, data>>

SinkGraphWrite ==
  \/ \E n \in Node, s \in Scope, d \in Data : MergeCodeNode(n, s, d)
  \/ \E e \in Edge, k \in 1..MaxWeight : MergeCodeRelation(e, k)

------------------------------------------------------------------------------
Members(s) == {n \in Node : scope[n] = s}

(* What impact analysis sees of a scope: the impact relations both ends of
   which belong to it. *)
InScopeEdges(s) ==
  {<<e[1], e[3]>> : e \in {x \in Edge : /\ weight[x] > 0
                                        /\ x[2] \in ImpactRelType
                                        /\ scope[x[1]] = s
                                        /\ scope[x[3]] = s}}

(* A change of what a scope contains always starts a new generation of its
   partition, and no generation number is ever used twice. *)
TopologyFenced ==
  [][\A s \in Scope :
       /\ gen'[s] >= gen[s]
       /\ Members(s)' # Members(s) \/ InScopeEdges(s)' # InScopeEdges(s)
            => gen'[s] > gen[s]]_graphVars

(* A redelivered event, whose marker was lost but whose write was not, leaves
   every generation alone: it does not throw computed scores away (ADR-0022). *)
RedeliveryKeepsGeneration ==
  [][UNCHANGED <<scope, data, weight>> =>
       \A s \in Scope : gen'[s] = gen[s] \/ gen[s] = Absent]_graphVars
============================================================================
