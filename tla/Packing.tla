------------------------------ MODULE Packing ------------------------------
(***************************************************************************)
(* The context packer of the retrieval engine: reranked candidates, best   *)
(* first, are cut to a token budget, section by section, and laid out with *)
(* the best at the two ends. A candidate is a record with its node, final  *)
(* score, hop (0 when the graph leg did not see it), impact score and the  *)
(* tokens its three fragments cost.                                        *)
(***************************************************************************)
EXTENDS Naturals, Sequences, SequencesExt, FiniteSetsExt

(* A stable sort by score, then the first occurrence of each node: the set *)
(* of the one sequence that results.                                       *)
DedupSortedByScoreDesc(ranked) ==
  LET before(i, j) == \/ ranked[i].final > ranked[j].final
                      \/ ranked[i].final = ranked[j].final /\ i < j
      first == {i \in DOMAIN ranked :
                  ~\E j \in DOMAIN ranked : ranked[j].node = ranked[i].node /\ before(j, i)}
  IN {[k \in DOMAIN order |-> ranked[order[k]]] : order \in
        {o \in SetToSeqs(first) : \A i, j \in DOMAIN o : i < j => before(o[i], o[j])}}

(* Mutant: presented from the best to the worst.                           *)
PlainOrder(sorted) == [i \in DOMAIN sorted |-> sorted[i].node]

(* First, last, second, last but one, ...: the best at the ends. *)
UOrder(sorted) ==
  LET n == Len(sorted)
      from(p) == IF 2 * p <= n + 1 THEN 2 * p - 1 ELSE 2 * (n + 1 - p)
  IN [p \in 1..n |-> sorted[from(p)].node]

(* What the fragments at the positions S cost. Sections are positions.     *)
Cost(sorted, S, part) ==
  LET used[i \in Nat] ==
        IF i = 0 THEN 0 ELSE used[i - 1] + (IF i \in S THEN sorted[i][part] ELSE 0)
  IN used[Len(sorted)]

(* As many of S as fit the quota: a section stops at the first fragment    *)
(* that does not fit, and never skips it for a smaller one.                *)
Fitting(sorted, S, part, quota) ==
  {i \in S : \A j \in S : j <= i => Cost(sorted, S \cap 1..j, part) <= quota}

(* Definitions hold the best candidate even when it alone is over quota. *)
PackDefinitions(sorted, budget) ==
  LET fitting == Fitting(sorted, DOMAIN sorted, "definition", budget.definitions)
  IN IF fitting = {} THEN {1} \cap DOMAIN sorted ELSE fitting

PackRelations(sorted, budget) ==
  Fitting(sorted, DOMAIN sorted, "relation", budget.relations)

(* Full source, for targets and candidates of high impact. The cap is      *)
(* looked at after each candidate, eligible or not.                        *)
Eligible(r, budget) == (r.seen /\ r.hop = 0) \/ r.impact > budget.threshold

PackFullSource(sorted, budget) ==
  LET eligible == {i \in DOMAIN sorted : Eligible(sorted[i], budget)}
      scanned == {i \in eligible :
                    \A j \in 1..(i - 1) : Cardinality(eligible \cap 1..j) < budget.topK}
  IN Fitting(sorted, scanned, "source", budget.fullSource)

(* Each section is presented in the order of the whole: as the order with  *)
(* the nodes of the section only, each at its place.                       *)
ReorderByU(sorted, section, order) ==
  LET chosen(p) == \E i \in section : sorted[i].node = order[p]
  IN [p \in {x \in DOMAIN order : chosen(x)} |-> order[p]]

Pack(sorted, budget) ==
  LET order       == UOrder(sorted)
      definitions == PackDefinitions(sorted, budget)
      relations   == PackRelations(sorted, budget)
      fullSource  == PackFullSource(sorted, budget)
  IN [order       |-> order,
      definitions |-> ReorderByU(sorted, definitions, order),
      relations   |-> ReorderByU(sorted, relations, order),
      fullSource  |-> ReorderByU(sorted, fullSource, order),
      totalTokens |-> Cost(sorted, definitions, "definition")
                      + Cost(sorted, relations, "relation")
                      + Cost(sorted, fullSource, "source")]
============================================================================
