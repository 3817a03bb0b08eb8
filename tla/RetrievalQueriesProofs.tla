------------------------ MODULE RetrievalQueriesProofs -----------------------
(***************************************************************************)
(* Proofs about RetrievalQueries, for every graph, index and caller, every *)
(* request and every write to the graph between two steps of a call:       *)
(*                                                                         *)
(*   AnswersStayInScope  => []AnsweredInScope. Inductive: CallInv, the     *)
(*     types of the state in each phase, and AnswerInv, what the candidates *)
(*     and the reply tell is in scope, and from the re-check on their nodes *)
(*     were in scope as it was made.                                       *)
(*   BestAreAnswered     => []BestAuthorized, and                          *)
(*   DegradedIsGraphLeg  => []DegradedKeepsGraph. Inductive besides:       *)
(*     LegsInv, each leg in order and no longer than what it ranks, and    *)
(*     RankInv, the candidates are the fused legs, from the re-check on    *)
(*     the first top_k of them in scope. BetterScores is the heart: a node *)
(*     met no later in both legs, and earlier in one, has the better score. *)
(*   GraphLegsAreNearest => []GraphLegNearest. LeastIsTrail: a shortest    *)
(*     walk to a node repeats no relation, so the trails of the query find *)
(*     every node at its distance.                                         *)
(*   ContextsAreBestAtEnds => []PackedBestAtEnds. PackIs, about the packer *)
(*     alone: a section is the candidates up to the first that does not    *)
(*     fit (FittingIs), its cost the number of its tokens (TokensAre), and *)
(*     the order maps the ends inwards (UOrderIs).                         *)
(*                                                                         *)
(* Recursive functions (sums of scores and costs, trails, breadth first)   *)
(* are reasoned about by induction on a set of naturals (NatSetInduction). *)
(***************************************************************************)
EXTENDS RetrievalQueries, FiniteSetTheorems, WellFoundedInduction, TLAPS

-----------------------------------------------------------------------------
(* Sequences of distinct entries.                                          *)

(* s has n elements and lists S, each element once. *)
Lists(s, n, S) ==
  /\ n \in Nat /\ DOMAIN s = 1 .. n /\ s \in Seq(S) /\ Len(s) = n
  /\ \A i, j \in 1 .. n : s[i] = s[j] => i = j
  /\ \A x \in S : \E i \in 1 .. n : s[i] = x

LEMMA OrdersList ==
  ASSUME NEW S, IsFiniteSet(S), NEW s \in SetToSeqs(S)
  PROVE  Lists(s, Cardinality(S), S)
<1> DEFINE n == Cardinality(S)
<1>1. n \in Nat
  BY FS_CardinalityType
<1>2. s \in [1 .. n -> S] /\ \A i, j \in 1 .. n : i # j => s[i] # s[j]
  BY DEF SetToSeqs
<1> HIDE DEF n
<1>3. s \in Injection(1 .. n, S)
  BY <1>2 DEF Injection, IsInjective
<1>4. IsFiniteSet(1 .. n) /\ Cardinality(1 .. n) = n
  BY <1>1, FS_Interval
<1>5. s \in Surjection(1 .. n, S)
  BY <1>3, <1>4, FS_Injection DEF n
<1>6. \A x \in S : \E i \in 1 .. n : s[i] = x
  BY <1>5 DEF Surjection
<1>7. s \in Seq(S) /\ Len(s) = n /\ DOMAIN s = 1 .. n
  BY <1>1, <1>2
<1>8. Lists(s, n, S)
  BY <1>1, <1>2, <1>6, <1>7 DEF Lists
<1> QED
  BY <1>8 DEF n

(* A sequence of n entries about n different nodes. *)
Distinct(s, n) ==
  /\ n \in Nat /\ DOMAIN s = 1 .. n /\ Len(s) = n
  /\ \A i, j \in 1 .. n : s[i].node = s[j].node => i = j

LEMMA DistinctCount ==
  ASSUME NEW s, NEW n, Distinct(s, n)
  PROVE  IsFiniteSet(NodesOf(s)) /\ Cardinality(NodesOf(s)) = n
<1> DEFINE f == [i \in 1 .. n |-> s[i].node]
<1>1. f \in Bijection(1 .. n, NodesOf(s))
  <2>1. f \in [1 .. n -> NodesOf(s)]
    BY DEF Distinct, NodesOf
  <2>2. IsInjective(f)
    BY DEF Distinct, IsInjective
  <2>3. \A x \in NodesOf(s) : \E i \in 1 .. n : f[i] = x
    BY DEF Distinct, NodesOf
  <2> HIDE DEF f
  <2> QED
    BY <2>1, <2>2, <2>3 DEF Bijection, Injection, Surjection
<1> HIDE DEF f
<1>2. n \in Nat /\ ExistsBijection(1 .. n, NodesOf(s))
  BY <1>1 DEF ExistsBijection, Distinct
<1> QED
  BY <1>2, FS_NatBijection, FS_CountingElements

LEMMA SmallerIs ==
  ASSUME NEW a \in Nat, NEW b \in Nat
  PROVE  Min({a, b}) = IF a < b THEN a ELSE b
BY DEF Min

LEMMA LimitIs ==
  ASSUME NEW S, NEW s \in Seq(S), NEW n \in Nat
  PROVE  LET m == IF n < Len(s) THEN n ELSE Len(s)
         IN /\ m \in 0 .. Len(s) /\ m <= n
            /\ Limit(s, n) \in Seq(S) /\ Len(Limit(s, n)) = m
            /\ DOMAIN Limit(s, n) = 1 .. m
            /\ \A i \in 1 .. m : Limit(s, n)[i] = s[i]
<1>1. Len(s) \in Nat /\ Min({n, Len(s)}) = IF n < Len(s) THEN n ELSE Len(s)
  BY SmallerIs
<1> DEFINE m == IF n < Len(s) THEN n ELSE Len(s)
<1>a. Len(s) \in Nat
  OBVIOUS
<1>b. Limit(s, n) = SubSeq(s, 1, m)
  BY <1>1, Zenon DEF Limit
<1>c. m \in 0 .. Len(s) /\ m <= n
  BY <1>a
<1>2. Limit(s, n) = SubSeq(s, 1, m) /\ m \in 0 .. Len(s) /\ m <= n
  BY <1>b, <1>c
<1> HIDE DEF m
<1>3. /\ SubSeq(s, 1, m) \in Seq(S) /\ Len(SubSeq(s, 1, m)) = m
      /\ \A i \in 1 .. m : SubSeq(s, 1, m)[i] = s[i]
  BY <1>2
<1>4. DOMAIN SubSeq(s, 1, m) = 1 .. m
  BY <1>2, <1>3
<1> QED
  BY <1>2, <1>3, <1>4 DEF m

-----------------------------------------------------------------------------
(* Induction over the naturals with a set in place of a predicate, and the *)
(* recursive functions it justifies.                                       *)

LEMMA NatSetInduction ==
  ASSUME NEW S, 0 \in S, \A n \in Nat : n \in S => n + 1 \in S
  PROVE  \A n \in Nat : n \in S
<1> DEFINE T == Nat \ S
           less == {p \in Nat \X Nat : p[1] < p[2]}
<1>1. IsWellFoundedOn(less, Nat)
  BY NatLessThanWellFounded DEF OpToRel
<1>2. SUFFICES ASSUME T # {} PROVE FALSE
  OBVIOUS
<1>3. PICK x \in T : \A y \in T : ~ (<<y, x>> \in less)
  <2> HIDE DEF less
  <2>1. T \subseteq Nat
    OBVIOUS
  <2> HIDE DEF T
  <2> QED
    BY <1>1, <1>2, <2>1, WFMin
<1>4. x # 0 /\ x - 1 \in Nat /\ (x - 1) + 1 = x
  OBVIOUS
<1>5. x - 1 \in S
  <2>1. <<x - 1, x>> \in less
    BY <1>3, <1>4
  <2> HIDE DEF less
  <2> QED
    BY <1>3, <1>4, <2>1
<1>6. (x - 1) + 1 \in S
  BY <1>4, <1>5
<1> QED
  BY <1>3, <1>4, <1>6

(* A function that starts at base and advances by step. *)
Iterates(f, base, step) ==
  /\ f[0] = base
  /\ \A n \in Nat : f[n + 1] = step[f[n]]

LEMMA IterationExists ==
  ASSUME NEW X, NEW base \in X, NEW step \in [X -> X]
  PROVE  \E f \in [Nat -> X] : Iterates(f, base, step)
<1> DEFINE Upto(g, n) == /\ g \in [0 .. n -> X] /\ g[0] = base
                         /\ \A i \in 0 .. n : i < n => g[i + 1] = step[g[i]]
<1>1. \A n \in Nat : \E g : Upto(g, n)
  <2> DEFINE S == {n \in Nat : \E g : Upto(g, n)}
  <2>1. 0 \in S
    <3>1. Upto([i \in 0 .. 0 |-> base], 0)
      OBVIOUS
    <3> QED
      BY <3>1
  <2>2. ASSUME NEW n \in Nat, n \in S PROVE n + 1 \in S
    <3>1. PICK g : Upto(g, n)
      BY <2>2
    <3> DEFINE h == [i \in 0 .. n + 1 |-> IF i = n + 1 THEN step[g[n]] ELSE g[i]]
    <3>2. g[n] \in X /\ step[g[n]] \in X
      BY <3>1
    <3>3. \A i \in 0 .. n + 1 : i # n + 1 => i \in 0 .. n
      OBVIOUS
    <3>4. h \in [0 .. n + 1 -> X]
      BY <3>1, <3>2, <3>3
    <3>5. h[0] = base
      BY <3>1
    <3>6. ASSUME NEW i \in 0 .. n + 1, i < n + 1 PROVE h[i + 1] = step[h[i]]
      <4>1. i \in 0 .. n /\ h[i] = g[i] /\ i + 1 \in 0 .. n + 1
        BY <3>6
      <4>2. CASE i = n
        BY <4>1, <4>2
      <4>3. CASE i # n
        <5>1. i < n /\ i + 1 # n + 1
          BY <4>1, <4>3
        <5>2. h[i + 1] = g[i + 1]
          BY <4>1, <5>1
        <5> QED
          BY <3>1, <4>1, <5>1, <5>2
      <4> QED
        BY <4>2, <4>3
    <3> HIDE DEF h
    <3>7. Upto(h, n + 1)
      BY <3>4, <3>5, <3>6
    <3> HIDE DEF Upto
    <3> QED
      BY <3>7
  <2> HIDE DEF S, Upto
  <2>3. \A n \in Nat : n \in S
    BY <2>1, <2>2, NatSetInduction
  <2> QED
    BY <2>3 DEF S
<1>2. ASSUME NEW n \in Nat, NEW g, Upto(g, n), NEW h, Upto(h, n + 1)
      PROVE  \A i \in 0 .. n : g[i] = h[i]
  <2> DEFINE S == {i \in Nat : i \in 0 .. n => g[i] = h[i]}
  <2>1. 0 \in S
    BY <1>2
  <2>2. ASSUME NEW i \in Nat, i \in S PROVE i + 1 \in S
    <3>1. SUFFICES ASSUME i + 1 \in 0 .. n PROVE g[i + 1] = h[i + 1]
      OBVIOUS
    <3>2. i \in 0 .. n /\ i < n /\ i \in 0 .. n + 1 /\ i < n + 1
      BY <3>1
    <3> QED
      BY <1>2, <2>2, <3>2
  <2> HIDE DEF S
  <2>3. \A i \in Nat : i \in S
    BY <2>1, <2>2, NatSetInduction
  <2> QED
    BY <2>3 DEF S
<1> DEFINE G(n) == CHOOSE g : Upto(g, n)
           f == [n \in Nat |-> G(n)[n]]
<1>3. \A n \in Nat : Upto(G(n), n)
  <2> HIDE DEF Upto
  <2> QED
    BY <1>1
<1> HIDE DEF G
<1>4. f \in [Nat -> X]
  <2>1. \A n \in Nat : G(n)[n] \in X
    BY <1>3
  <2> QED
    BY <2>1
<1>5. f[0] = base
  BY <1>3
<1>6. ASSUME NEW n \in Nat PROVE f[n + 1] = step[f[n]]
  <2>1. Upto(G(n), n) /\ Upto(G(n + 1), n + 1)
    BY <1>3
  <2>2. G(n)[n] = G(n + 1)[n]
    <3> HIDE DEF Upto
    <3>1. n \in 0 .. n
      OBVIOUS
    <3> QED
      BY <1>2, <2>1, <3>1
  <2>3. G(n + 1)[n + 1] = step[G(n + 1)[n]]
    BY <2>1
  <2> QED
    BY <2>2, <2>3
<1> QED
  BY <1>4, <1>5, <1>6 DEF Iterates

-----------------------------------------------------------------------------
(* The trails of a query, unfolded once: a step from a set of trails adds  *)
(* their visible extensions.                                               *)

Trail == [at : Node, path : Seq(Relation)]
StartTrails(n) == {[at |-> x, path |-> <<>>] : x \in InNow \cap {n}}
Extended(S, dir, types) ==
  S \cup {s \in UNION {Steps(t, dir, types) : t \in S} : Visible(s.at)}

LEMMA StepsAreTrails ==
  ASSUME NEW t \in Trail, NEW dir, NEW types, NEW s \in Steps(t, dir, types)
  PROVE  /\ s \in Trail
         /\ \E r \in Relation :
              /\ r \notin Range(t.path) /\ (types = {} \/ r.type \in types)
              /\ s.path = Append(t.path, r)
              /\ \/ dir # "reverse" /\ r.from = t.at
                 \/ dir # "forward" /\ r.to = t.at
              /\ s.at = IF r.from = t.at THEN r.to ELSE r.from
<1>1. PICK r \in Relation :
        /\ r \notin Range(t.path) /\ (types = {} \/ r.type \in types)
        /\ \/ dir # "reverse" /\ r.from = t.at
           \/ dir # "forward" /\ r.to = t.at
        /\ s = [at |-> IF r.from = t.at THEN r.to ELSE r.from, path |-> Append(t.path, r)]
  BY DEF Steps
<1>2. r.from \in Node /\ r.to \in Node /\ t.path \in Seq(Relation)
  BY QueriesAssumption DEF Trail
<1>3. s.path = Append(t.path, r) /\ s.at = IF r.from = t.at THEN r.to ELSE r.from
  BY <1>1
<1>4. Append(t.path, r) \in Seq(Relation)
  BY <1>2
<1> QED
  BY <1>1, <1>2, <1>3, <1>4 DEF Trail

TrailsBy(f, n, dir, types) ==
  /\ f \in [Nat -> SUBSET Trail]
  /\ f[0] = StartTrails(n)
  /\ \A k \in Nat : f[k + 1] = Extended(f[k], dir, types)
  /\ \A depth \in Nat : Trails(n, depth, dir, types) = f[depth] \ f[0]

LEMMA TrailsAre ==
  ASSUME NEW n, NEW dir, NEW types
  PROVE  \E f : TrailsBy(f, n, dir, types)
<1> DEFINE base == StartTrails(n)
           step == [S \in SUBSET Trail |-> Extended(S, dir, types)]
           Body(f) == [k \in Nat |-> IF k = 0 THEN StartTrails(n)
                         ELSE Extended(f[k - 1], dir, types)]
           upTo == CHOOSE f : f = Body(f)
<1>1. base \in SUBSET Trail
  <2>1. <<>> \in Seq(Relation)
    OBVIOUS
  <2> QED
    <3>1. \A x \in Node : [at |-> x, path |-> <<>>] \in Trail
      BY <2>1 DEF Trail
    <3> QED
      BY <3>1 DEF StartTrails, InNow
<1>2. step \in [SUBSET Trail -> SUBSET Trail]
  <2>1. ASSUME NEW S \in SUBSET Trail PROVE Extended(S, dir, types) \in SUBSET Trail
    <3>1. \A t \in S : Steps(t, dir, types) \subseteq Trail
      BY StepsAreTrails
    <3> QED
      BY <3>1 DEF Extended
  <2> QED
    BY <2>1
<1>3. PICK f \in [Nat -> SUBSET Trail] : Iterates(f, base, step)
  <2> HIDE DEF base, step
  <2> QED
    BY <1>1, <1>2, IterationExists
<1>4. f = Body(f)
  <2>1. ASSUME NEW i \in Nat PROVE f[i] = Body(f)[i]
    <3>1. CASE i = 0
      BY <1>3, <3>1 DEF Iterates
    <3>2. CASE i # 0
      <4>1. i - 1 \in Nat /\ (i - 1) + 1 = i
        BY <3>2
      <4>2. f[i] = step[f[i - 1]] /\ f[i - 1] \in SUBSET Trail
        BY <1>3, <4>1 DEF Iterates
      <4> QED
        BY <3>2, <4>1, <4>2
    <3> QED
      BY <3>1, <3>2
  <2> QED
    BY <1>3, <2>1
<1>5. upTo = Body(upTo)
  <2> HIDE DEF Body
  <2> QED
    BY <1>4
<1> HIDE DEF upTo
<1>6. \A depth : Trails(n, depth, dir, types) = upTo[depth] \ StartTrails(n)
  BY DEF Trails, upTo, StartTrails, Extended
<1>7. upTo[0] = StartTrails(n) /\ \A k \in Nat : upTo[k + 1] = Extended(upTo[k], dir, types)
  <2>1. \A i \in Nat : upTo[i] = Body(upTo)[i]
    BY <1>5
  <2>2. upTo[0] = StartTrails(n)
    BY <2>1
  <2>3. ASSUME NEW k \in Nat PROVE upTo[k + 1] = Extended(upTo[k], dir, types)
    <3>1. k + 1 \in Nat /\ k + 1 # 0 /\ (k + 1) - 1 = k
      OBVIOUS
    <3> QED
      BY <2>1, <3>1
  <2> QED
    BY <2>2, <2>3
<1>8. DOMAIN upTo = Nat /\ upTo = [k \in Nat |-> upTo[k]]
  BY <1>5
<1>9. \A k \in Nat : upTo[k] \in SUBSET Trail
  <2> DEFINE S == {k \in Nat : upTo[k] \in SUBSET Trail}
  <2>1. 0 \in S
    BY <1>1, <1>7
  <2>2. \A k \in Nat : k \in S => k + 1 \in S
    <3>1. \A s \in SUBSET Trail : Extended(s, dir, types) \in SUBSET Trail
      BY <1>2
    <3> QED
      BY <1>7, <3>1
  <2> HIDE DEF S
  <2>3. \A k \in Nat : k \in S
    BY <2>1, <2>2, NatSetInduction
  <2> QED
    BY <2>3 DEF S
<1> DEFINE g == [k \in Nat |-> upTo[k]]
<1>10. g \in [Nat -> SUBSET Trail]
  BY <1>9
<1>11. g[0] = StartTrails(n) /\ \A k \in Nat : g[k + 1] = Extended(g[k], dir, types)
  BY <1>7
<1>12. \A depth \in Nat : Trails(n, depth, dir, types) = g[depth] \ g[0]
  BY <1>6, <1>7
<1> HIDE DEF g
<1> QED
  BY <1>10, <1>11, <1>12 DEF TrailsBy

(* Every trail ends at a visible node. *)
LEMMA TrailsVisible ==
  ASSUME NEW n, NEW dir, NEW types, NEW depth \in Nat,
         NEW t \in Trails(n, depth, dir, types)
  PROVE  t \in Trail /\ t.at \in InNow
<1>1. PICK f : TrailsBy(f, n, dir, types)
  BY TrailsAre
<1> DEFINE S == {k \in Nat : \A s \in f[k] : s.at \in InNow}
<1>2. 0 \in S
  BY <1>1 DEF TrailsBy, StartTrails
<1>3. ASSUME NEW k \in Nat, k \in S PROVE k + 1 \in S
  <2>1. f[k] \subseteq Trail /\ f[k + 1] \subseteq Trail
    BY <1>1 DEF TrailsBy
  <2>2. ASSUME NEW s \in f[k + 1] PROVE s.at \in InNow
    <3>1. s \in f[k] \/ Visible(s.at)
      BY <1>1 DEF TrailsBy, Extended
    <3>2. s.at \in Node
      BY <2>1 DEF Trail
    <3> QED
      BY <1>3, <3>1, <3>2 DEF InNow
  <2> QED
    BY <2>2
<1> HIDE DEF S
<1>4. \A k \in Nat : k \in S
  BY <1>2, <1>3, NatSetInduction
<1>5. t \in f[depth] /\ f[depth] \subseteq Trail
  BY <1>1 DEF TrailsBy
<1> QED
  BY <1>4, <1>5 DEF S

-----------------------------------------------------------------------------
(* Types.                                                                  *)

Name == Label \cup {NoLabel}
EntryType ==
  [node : Node, name : Name, hop : Nat, graphRank : Nat, vectorRank : Nat,
   score : Nat, final : Nat, impact : Nat, text : Seq(Chunk)]
LegEntry == [node : Node, hop : Nat, name : Name]

LEMMA MinIs ==
  ASSUME NEW S, S # {}, S \subseteq Nat
  PROVE  Min(S) \in S /\ \A y \in S : Min(S) <= y
<1>1. \E x \in S : \A y \in S : x <= y
  <2> DEFINE T == {k \in Nat : \A y \in S : k <= y}
  <2>1. SUFFICES ASSUME \A x \in S : \E y \in S : ~ (x <= y) PROVE FALSE
    OBVIOUS
  <2>2. 0 \in T
    OBVIOUS
  <2>3. ASSUME NEW k \in Nat, k \in T PROVE k + 1 \in T
    <3>1. k \notin S
      BY <2>1, <2>3
    <3>2. \A y \in S : k <= y /\ y # k
      BY <2>3, <3>1
    <3> QED
      BY <3>2
  <2> HIDE DEF T
  <2>4. \A k \in Nat : k \in T
    BY <2>2, <2>3, NatSetInduction
  <2>5. PICK y \in S : TRUE
    OBVIOUS
  <2>6. y \in Nat /\ y + 1 \in T
    BY <2>4
  <2> QED
    BY <2>6 DEF T
<1> QED
  BY <1>1 DEF Min

LEMMA EntryTyped ==
  ASSUME NEW n \in Node, NEW name \in Name
  PROVE  Entry(n, name) \in EntryType
<1>1. <<>> \in Seq(Chunk)
  OBVIOUS
<1> QED
  BY <1>1 DEF Entry, EntryType

LEMMA ContributionNat ==
  ASSUME NEW k \in Nat, k # 0
  PROVE  Contribution(k) \in Nat
BY QueriesAssumption DEF Contribution

(* f is the running sum of the terms. *)
SumsUp(f, term) ==
  /\ f \in [Nat -> Nat] /\ f[0] = 0
  /\ \A k \in Nat : f[k + 1] = f[k] + term[k + 1]
SumBody(f, term) == [i \in Nat |-> IF i = 0 THEN 0 ELSE f[i - 1] + term[i]]

LEMMA SumExists ==
  ASSUME NEW term \in [Nat -> Nat]
  PROVE  \E f : f = SumBody(f, term)
<1> DEFINE X == Nat \X Nat
           step == [p \in X |-> <<p[1] + 1, p[2] + term[p[1] + 1]>>]
<1>2. <<0, 0>> \in X /\ step \in [X -> X]
  OBVIOUS
<1>3. PICK g \in [Nat -> X] : Iterates(g, <<0, 0>>, step)
  <2> HIDE DEF X, step
  <2> QED
    BY <1>2, IterationExists
<1>a. \A p \in X : step[p][1] = p[1] + 1 /\ step[p][2] = p[2] + term[p[1] + 1]
  OBVIOUS
<1>b. ASSUME NEW k \in Nat
      PROVE  /\ g[k] \in X /\ g[k + 1][1] = g[k][1] + 1
             /\ g[k + 1][2] = g[k][2] + term[g[k][1] + 1]
  <2>1. g[k] \in X /\ g[k + 1] = step[g[k]]
    BY <1>3 DEF Iterates
  <2> HIDE DEF X, step
  <2> QED
    BY <1>a, <2>1
<1>4. \A k \in Nat : g[k][1] = k
  <2> DEFINE S == {k \in Nat : g[k][1] = k}
  <2>1. 0 \in S
    BY <1>3 DEF Iterates
  <2>2. ASSUME NEW k \in Nat, k \in S PROVE k + 1 \in S
    <3>1. g[k][1] = k /\ g[k + 1][1] = g[k][1] + 1
      BY <1>b, <2>2, Zenon
    <3>2. g[k + 1][1] = k + 1
      BY <3>1, Zenon
    <3>3. k + 1 \in Nat
      OBVIOUS
    <3> QED
      BY <3>2, <3>3, Zenon
  <2> HIDE DEF S
  <2>3. \A k \in Nat : k \in S
    BY <2>1, <2>2, NatSetInduction
  <2> QED
    BY <2>3 DEF S
<1> DEFINE h == [k \in Nat |-> g[k][2]]
<1>5. h = SumBody(h, term)
  <2>1. ASSUME NEW i \in Nat PROVE h[i] = SumBody(h, term)[i]
    <3>1. CASE i = 0
      BY <1>3, <3>1 DEF Iterates, SumBody
    <3>2. CASE i # 0
      <4>1. i - 1 \in Nat /\ (i - 1) + 1 = i
        BY <3>2
      <4>3. g[i][2] = g[i - 1][2] + term[g[i - 1][1] + 1]
        BY <1>b, <4>1
      <4> QED
        BY <1>4, <3>2, <4>1, <4>3 DEF SumBody
    <3> QED
      BY <3>1, <3>2
  <2> QED
    BY <2>1 DEF SumBody
<1> QED
  BY <1>5

LEMMA SumIs ==
  ASSUME NEW term \in [Nat -> Nat], NEW f, f = SumBody(f, term)
  PROVE  SumsUp(f, term)
<1>1. f[0] = 0 /\ \A k \in Nat : f[k + 1] = f[k] + term[k + 1]
  <2>1. \A i \in Nat : f[i] = SumBody(f, term)[i]
    OBVIOUS
  <2>2. f[0] = 0
    BY <2>1 DEF SumBody
  <2>3. ASSUME NEW k \in Nat PROVE f[k + 1] = f[k] + term[k + 1]
    <3>1. k + 1 \in Nat /\ k + 1 # 0 /\ (k + 1) - 1 = k
      OBVIOUS
    <3> QED
      BY <2>1, <3>1 DEF SumBody
  <2> QED
    BY <2>2, <2>3
<1>2. \A k \in Nat : f[k] \in Nat
  <2> DEFINE S == {k \in Nat : f[k] \in Nat}
  <2>1. 0 \in S
    BY <1>1
  <2>2. ASSUME NEW k \in Nat, k \in S PROVE k + 1 \in S
    <3>1. f[k] \in Nat /\ f[k + 1] = f[k] + term[k + 1] /\ term[k + 1] \in Nat
      BY <1>1, <2>2
    <3> QED
      BY <3>1
  <2> HIDE DEF S
  <2>3. \A k \in Nat : k \in S
    BY <2>1, <2>2, NatSetInduction
  <2> QED
    BY <2>3 DEF S
<1>3. f \in [Nat -> Nat]
  <2>1. DOMAIN f = Nat /\ f = [i \in Nat |-> f[i]]
    BY DEF SumBody
  <2> QED
    BY <1>2, <2>1
<1> QED
  BY <1>1, <1>3 DEF SumsUp

(* The sums of the contributions of a node, and of its occurrences.        *)
SumBy(f, leg, n) ==
  /\ f \in [Nat -> Nat] /\ f[0] = 0
  /\ \A k \in Nat : f[k + 1] = f[k] + (IF leg[k + 1].node = n THEN Contribution(k + 1) ELSE 0)
  /\ LegScore(leg, n) = f[Len(leg)]

LEMMA LegScoreIs ==
  ASSUME NEW leg, NEW n, Len(leg) \in Nat
  PROVE  \E f : SumBy(f, leg, n)
<1> DEFINE add(k) == IF leg[k].node = n THEN Contribution(k) ELSE 0
           term == [k \in Nat |-> IF k = 0 THEN 0 ELSE add(k)]
           Body(f) == [i \in Nat |-> IF i = 0 THEN 0 ELSE f[i - 1] + add(i)]
           sum == CHOOSE f : f = Body(f)
<1>1. term \in [Nat -> Nat]
  BY ContributionNat
<1>2. \A f : SumBody(f, term) = Body(f)
  BY DEF SumBody
<1> HIDE DEF Body
<1>3. \E f : f = Body(f)
  BY <1>1, <1>2, SumExists
<1>4. sum = SumBody(sum, term)
  BY <1>2, <1>3
<1> HIDE DEF sum
<1>5. SumsUp(sum, term)
  BY <1>1, <1>4, SumIs
<1>6. \A k \in Nat : term[k + 1] = add(k + 1)
  OBVIOUS
<1>7. LegScore(leg, n) = sum[Len(leg)]
  BY DEF LegScore, sum, Body
<1> HIDE DEF term
<1> QED
  BY <1>5, <1>6, <1>7 DEF SumsUp, SumBy

LEMMA ScoreNat ==
  ASSUME NEW leg, NEW n, Len(leg) \in Nat
  PROVE  LegScore(leg, n) \in Nat
<1>1. PICK f : SumBy(f, leg, n)
  BY LegScoreIs
<1> QED
  BY <1>1 DEF SumBy

LEMMA ProximityNat ==
  ASSUME NEW e, e.hop \in Nat
  PROVE  Proximity(e) \in Nat
BY QueriesAssumption DEF Proximity

(* One entry of the fusion. *)
Candidate(g, v, n) ==
  [Entry(n, IF Ranks(g, n) = {} THEN NoLabel ELSE g[FirstRank(Ranks(g, n))].name)
      EXCEPT !.hop = IF Ranks(g, n) = {} THEN 0 ELSE g[FirstRank(Ranks(g, n))].hop,
             !.graphRank = FirstRank(Ranks(g, n)),
             !.vectorRank = FirstRank(Ranks(v, n)),
             !.score = RRFScore(g, v, n)]

LEMMA FirstRankIs ==
  ASSUME NEW S, NEW leg \in Seq(S), NEW n
  PROVE  /\ FirstRank(Ranks(leg, n)) \in 0 .. Len(leg)
         /\ n \notin NodesOf(leg) => FirstRank(Ranks(leg, n)) = 0 /\ Ranks(leg, n) = {}
         /\ n \in NodesOf(leg) =>
              /\ Ranks(leg, n) # {}
              /\ FirstRank(Ranks(leg, n)) \in 1 .. Len(leg)
              /\ leg[FirstRank(Ranks(leg, n))].node = n
              /\ \A k \in 1 .. Len(leg) : leg[k].node = n => FirstRank(Ranks(leg, n)) <= k
<1>1. DOMAIN leg = 1 .. Len(leg) /\ Len(leg) \in Nat
  OBVIOUS
<1>2. Ranks(leg, n) = {i \in 1 .. Len(leg) : leg[i].node = n}
  BY <1>1 DEF Ranks
<1>3. n \in NodesOf(leg) <=> Ranks(leg, n) # {}
  BY <1>1 DEF NodesOf, Ranks
<1>4. CASE Ranks(leg, n) = {}
  BY <1>1, <1>3, <1>4 DEF FirstRank
<1>5. CASE Ranks(leg, n) # {}
  <2>1. /\ Min(Ranks(leg, n)) \in Ranks(leg, n)
        /\ \A y \in Ranks(leg, n) : Min(Ranks(leg, n)) <= y
    <3>1. Ranks(leg, n) \subseteq Nat
      BY <1>2
    <3> QED
      BY <1>5, <3>1, MinIs, Zenon
  <2>2. FirstRank(Ranks(leg, n)) = Min(Ranks(leg, n))
    BY <1>5 DEF FirstRank
  <2> DEFINE m == FirstRank(Ranks(leg, n))
  <2>3. m \in 1 .. Len(leg) /\ leg[m].node = n
    BY <1>2, <2>1, <2>2
  <2>4. \A k \in 1 .. Len(leg) : leg[k].node = n => m <= k
    BY <1>2, <2>1, <2>2
  <2>5. m \in 0 .. Len(leg)
    BY <1>1, <2>3
  <2> HIDE DEF m
  <2>6. n \in NodesOf(leg)
    BY <1>3, <1>5
  <2> QED
    BY <1>5, <2>3, <2>4, <2>5, <2>6 DEF m
<1> QED
  BY <1>4, <1>5

LEMMA CandidateIs ==
  ASSUME NEW g \in Seq(LegEntry), NEW v \in Seq(Point), NEW n \in Node
  PROVE  LET c == Candidate(g, v, n)
             first == FirstRank(Ranks(g, n))
         IN /\ c \in EntryType
            /\ c.node = n /\ c.text = <<>> /\ c.final = 0
            /\ c.name = IF n \in NodesOf(g) THEN g[first].name ELSE NoLabel
            /\ c.hop = IF n \in NodesOf(g) THEN g[first].hop ELSE 0
            /\ c.graphRank = first /\ c.vectorRank = FirstRank(Ranks(v, n))
            /\ c.score = RRFScore(g, v, n)
<1> DEFINE first == FirstRank(Ranks(g, n))
           name == IF n \in NodesOf(g) THEN g[first].name ELSE NoLabel
           hop == IF n \in NodesOf(g) THEN g[first].hop ELSE 0
           last == FirstRank(Ranks(v, n))
           score == RRFScore(g, v, n)
<1>1. first \in Nat /\ last \in Nat /\ (n \in NodesOf(g) => first \in 1 .. Len(g))
  BY FirstRankIs
<1>2. n \in NodesOf(g) <=> Ranks(g, n) # {}
  BY FirstRankIs
<1>3. n \in NodesOf(g) => g[first] \in LegEntry
  BY <1>1
<1>4. name \in Name /\ hop \in Nat
  BY <1>3 DEF LegEntry, Name
<1>5. score \in Nat
  BY ScoreNat DEF RRFScore
<1>6. Candidate(g, v, n) =
        [Entry(n, name) EXCEPT !.hop = hop, !.graphRank = first, !.vectorRank = last,
                               !.score = score]
  BY <1>2, Zenon DEF Candidate
<1>7. Entry(n, name) \in EntryType
  BY <1>4, EntryTyped
<1>8. /\ Entry(n, name).node = n /\ Entry(n, name).name = name
      /\ Entry(n, name).final = 0 /\ Entry(n, name).text = <<>>
  BY DEF Entry
<1> HIDE DEF first, name, hop, last, score
<1>9. /\ Candidate(g, v, n) \in EntryType
      /\ Candidate(g, v, n).node = n /\ Candidate(g, v, n).text = <<>>
      /\ Candidate(g, v, n).final = 0
      /\ Candidate(g, v, n).name = name /\ Candidate(g, v, n).hop = hop
      /\ Candidate(g, v, n).graphRank = first /\ Candidate(g, v, n).vectorRank = last
      /\ Candidate(g, v, n).score = score
  BY <1>1, <1>4, <1>5, <1>6, <1>7, <1>8 DEF EntryType
<1> QED
  BY <1>9 DEF first, name, hop, last, score

-----------------------------------------------------------------------------
(* Lists of entries: each node once, and what they tell of it in scope.    *)

LEMMA ImageFinite ==
  ASSUME NEW D, IsFiniteSet(D), NEW f, DOMAIN f = D
  PROVE  IsFiniteSet({f[d] : d \in D})
<1> DEFINE T == {f[d] : d \in D}
           g == [d \in D |-> f[d]]
<1>1. g \in Surjection(D, T)
  BY DEF Surjection
<1> HIDE DEF g, T
<1>2. IsFiniteSet(T)
  BY <1>1, FS_Surjection
<1> QED
  BY <1>2 DEF T

(* What a reply tells of a node is in scope, its text in order. *)
Tells(e, scope) ==
  /\ e.name # NoLabel => InScope(e.name, scope)
  /\ \A k \in DOMAIN e.text :
       /\ e.text[k].node = e.node /\ InScope(e.text[k].label, scope)
       /\ k > 1 => e.text[k - 1].index <= e.text[k].index

EntryList(s) == s \in Seq(EntryType) /\ Distinct(s, Len(s))
AllTell(s, scope) == \A i \in DOMAIN s : Tells(s[i], scope)

LEMMA NoEntries ==
  ASSUME NEW scope
  PROVE  EntryList(<<>>) /\ AllTell(<<>>, scope) /\ NodesOf(<<>>) = {}
BY DEF EntryList, AllTell, Distinct, NodesOf

LEMMA OneEntry ==
  ASSUME NEW e \in EntryType, NEW scope, Tells(e, scope)
  PROVE  EntryList(<<e>>) /\ AllTell(<<e>>, scope) /\ NodesOf(<<e>>) = {e.node}
<1>1. <<e>> \in Seq(EntryType) /\ Len(<<e>>) = 1 /\ DOMAIN <<e>> = 1 .. 1 /\ <<e>>[1] = e
  OBVIOUS
<1> QED
  BY <1>1 DEF EntryList, AllTell, Distinct, NodesOf

(* A list without some of its entries. *)
Picks(t, s, o) ==
  /\ t \in Seq(EntryType) /\ Len(t) \in Nat /\ DOMAIN t = 1 .. Len(t)
  /\ o \in [1 .. Len(t) -> 1 .. Len(s)]
  /\ \A i, j \in 1 .. Len(t) : i < j => o[i] < o[j]
  /\ \A i \in 1 .. Len(t) : t[i] = s[o[i]]

LEMMA PicksList ==
  ASSUME NEW s, EntryList(s), NEW t, NEW o, Picks(t, s, o)
  PROVE  /\ EntryList(t) /\ NodesOf(t) \subseteq NodesOf(s)
         /\ \A scope : AllTell(s, scope) => AllTell(t, scope)
<1>0. Len(s) \in Nat /\ DOMAIN s = 1 .. Len(s)
  BY DEF EntryList
<1>1. \A i \in 1 .. Len(t) : o[i] \in 1 .. Len(s) /\ t[i] = s[o[i]]
  BY DEF Picks
<1>2. ASSUME NEW i \in 1 .. Len(t), NEW j \in 1 .. Len(t), t[i].node = t[j].node
      PROVE  i = j
  <2>1. s[o[i]].node = s[o[j]].node /\ o[i] \in 1 .. Len(s) /\ o[j] \in 1 .. Len(s)
    BY <1>1, <1>2
  <2>2. o[i] = o[j]
    BY <2>1 DEF EntryList, Distinct
  <2>3. i \in Nat /\ j \in Nat /\ o[i] \in Nat /\ ~ (i < j) /\ ~ (j < i)
    BY <1>0, <2>1, <2>2 DEF Picks
  <2> QED
    BY <2>3
<1>3. EntryList(t)
  BY <1>2 DEF EntryList, Distinct, Picks
<1>4. NodesOf(t) \subseteq NodesOf(s)
  <2>1. DOMAIN t = 1 .. Len(t)
    BY DEF Picks
  <2> QED
    BY <1>0, <1>1, <2>1 DEF NodesOf
<1>5. ASSUME NEW scope, AllTell(s, scope) PROVE AllTell(t, scope)
  <2>1. DOMAIN t = 1 .. Len(t)
    BY DEF Picks
  <2> QED
    BY <1>0, <1>1, <1>5, <2>1 DEF AllTell
<1> QED
  BY <1>3, <1>4, <1>5

LEMMA LimitPicks ==
  ASSUME NEW s \in Seq(EntryType), NEW n \in Nat
  PROVE  /\ Picks(Limit(s, n), s, [i \in 1 .. Len(Limit(s, n)) |-> i])
         /\ Len(Limit(s, n)) = (IF n < Len(s) THEN n ELSE Len(s))
<1> DEFINE m == IF n < Len(s) THEN n ELSE Len(s)
           t == Limit(s, n)
<1>1. /\ m \in 0 .. Len(s) /\ t \in Seq(EntryType) /\ Len(t) = m
      /\ DOMAIN t = 1 .. m /\ \A i \in 1 .. m : t[i] = s[i]
  BY LimitIs
<1>2. Len(s) \in Nat
  OBVIOUS
<1> HIDE DEF t, m
<1>3. Picks(t, s, [i \in 1 .. Len(t) |-> i])
  BY <1>1, <1>2 DEF Picks
<1> QED
  BY <1>1, <1>3 DEF m, t

(* The authorized entries, in their order: the nodes in scope. *)
LEMMA AuthorizedPicks ==
  ASSUME NEW s \in Seq(EntryType), NEW t \in Authorized(s)
  PROVE  /\ \E o : Picks(t, s, o)
         /\ NodesOf(t) = {n \in NodesOf(s) : Visible(n)}
<1> DEFINE kept == {i \in DOMAIN s : Visible(s[i].node)}
<1>1. Len(s) \in Nat /\ DOMAIN s = 1 .. Len(s)
  OBVIOUS
<1>2. PICK o \in SetToSeqs(kept) :
        /\ \A i, j \in DOMAIN o : i < j => o[i] < o[j]
        /\ t = [k \in DOMAIN o |-> s[o[k]]]
  BY DEF Authorized, Subsequences
<1>3. IsFiniteSet(kept)
  <2>1. kept \subseteq 1 .. Len(s) /\ IsFiniteSet(1 .. Len(s))
    BY <1>1, FS_Interval
  <2> HIDE DEF kept
  <2> QED
    BY <2>1, FS_Subset
<1> DEFINE m == Cardinality(kept)
<1>4. Lists(o, m, kept)
  BY <1>3, OrdersList
<1>5. \A i \in kept : i \in 1 .. Len(s) /\ s[i] \in EntryType /\ Visible(s[i].node)
  BY <1>1
<1>6. \A i \in 1 .. Len(s) : Visible(s[i].node) => i \in kept
  BY <1>1
<1> HIDE DEF kept, m
<1>7. m \in Nat /\ DOMAIN o = 1 .. m /\ \A i \in 1 .. m : o[i] \in kept
  BY <1>4 DEF Lists
<1>8. DOMAIN t = 1 .. m /\ \A i \in 1 .. m : t[i] = s[o[i]] /\ t[i] \in EntryType
  BY <1>2, <1>5, <1>7
<1>9. t \in Seq(EntryType) /\ Len(t) = m
  <2>1. t \in [1 .. m -> EntryType]
    BY <1>2, <1>7, <1>8
  <2> QED
    BY <1>7, <2>1
<1>10. Picks(t, s, o)
  <2>1. o \in [1 .. m -> 1 .. Len(s)]
    <3>1. o \in [1 .. m -> kept]
      BY <1>4, <1>7 DEF Lists
    <3>2. \A i \in 1 .. m : o[i] \in 1 .. Len(s)
      BY <1>5, <1>7
    <3> QED
      BY <3>1, <3>2
  <2> QED
    BY <1>2, <1>7, <1>8, <1>9, <2>1 DEF Picks
<1>11. NodesOf(t) = {n \in NodesOf(s) : Visible(n)}
  <2>1. ASSUME NEW n \in NodesOf(s), Visible(n) PROVE n \in NodesOf(t)
    <3>1. PICK i \in 1 .. Len(s) : s[i].node = n
      BY <1>1 DEF NodesOf
    <3>2. i \in kept
      BY <1>6, <2>1, <3>1
    <3>3. PICK k \in 1 .. m : o[k] = i
      BY <1>4, <3>2 DEF Lists
    <3> QED
      BY <1>8, <3>1, <3>3 DEF NodesOf
  <2>2. ASSUME NEW n \in NodesOf(t) PROVE n \in NodesOf(s) /\ Visible(n)
    <3>1. PICK k \in 1 .. m : t[k].node = n
      BY <1>8 DEF NodesOf
    <3>2. o[k] \in kept /\ t[k] = s[o[k]]
      BY <1>7, <1>8
    <3> QED
      BY <1>1, <1>5, <3>1, <3>2 DEF NodesOf
  <2> QED
    BY <2>1, <2>2
<1> QED
  BY <1>10, <1>11

(* A finite set of entries about different nodes, in an order. *)
LEMMA ListingIs ==
  ASSUME NEW S, IsFiniteSet(S), S \subseteq EntryType,
         \A e, f \in S : e.node = f.node => e = f,
         NEW s \in SetToSeqs(S)
  PROVE  /\ EntryList(s) /\ NodesOf(s) = {e.node : e \in S}
         /\ \A i \in 1 .. Len(s) : s[i] \in S
<1> DEFINE n == Cardinality(S)
<1>1. Lists(s, n, S)
  BY OrdersList
<1> HIDE DEF n
<1>2. n \in Nat /\ DOMAIN s = 1 .. n /\ Len(s) = n /\ \A i \in 1 .. n : s[i] \in S
  BY <1>1 DEF Lists
<1>3. s \in Seq(EntryType)
  <2>1. s \in [1 .. n -> S]
    BY <1>1, <1>2 DEF Lists
  <2>2. s \in [1 .. n -> EntryType]
    BY <1>2, <2>1
  <2> QED
    BY <1>2, <2>2
<1>4. \A i, j \in 1 .. n : s[i].node = s[j].node => i = j
  BY <1>1, <1>2 DEF Lists
<1>5. NodesOf(s) = {e.node : e \in S}
  BY <1>1, <1>2 DEF NodesOf, Lists
<1> QED
  BY <1>2, <1>3, <1>4, <1>5 DEF EntryList, Distinct

-----------------------------------------------------------------------------
(* The fused ranking.                                                      *)

Final(g, v, n) ==
  [Candidate(g, v, n) EXCEPT
     !.final = Candidate(g, v, n).score + Proximity(Candidate(g, v, n))]

LEMMA FinalIs ==
  ASSUME NEW g \in Seq(LegEntry), NEW v \in Seq(Point), NEW n \in Node
  PROVE  /\ Final(g, v, n) \in EntryType
         /\ Final(g, v, n).node = n /\ Final(g, v, n).text = <<>>
         /\ Final(g, v, n).name = Candidate(g, v, n).name
         /\ Final(g, v, n).hop = Candidate(g, v, n).hop
         /\ Final(g, v, n).graphRank = Candidate(g, v, n).graphRank
         /\ Final(g, v, n).vectorRank = Candidate(g, v, n).vectorRank
         /\ Final(g, v, n).score = Candidate(g, v, n).score
         /\ Final(g, v, n).final = Candidate(g, v, n).score + Proximity(Candidate(g, v, n))
<1> DEFINE c == Candidate(g, v, n)
           p == Proximity(c)
<1>1. c \in EntryType /\ c.node = n /\ c.text = <<>>
  BY CandidateIs
<1> HIDE DEF c
<1>2. c.hop \in Nat /\ c.score \in Nat
  BY <1>1 DEF EntryType
<1>3. p \in Nat
  BY <1>2, ProximityNat
<1> HIDE DEF p
<1>4. Final(g, v, n) = [c EXCEPT !.final = c.score + p]
  BY DEF Final, c, p
<1>5. c.score + p \in Nat
  BY <1>2, <1>3
<1>6. /\ [c EXCEPT !.final = c.score + p] \in EntryType
      /\ [c EXCEPT !.final = c.score + p].node = c.node
      /\ [c EXCEPT !.final = c.score + p].text = c.text
      /\ [c EXCEPT !.final = c.score + p].name = c.name
      /\ [c EXCEPT !.final = c.score + p].hop = c.hop
      /\ [c EXCEPT !.final = c.score + p].graphRank = c.graphRank
      /\ [c EXCEPT !.final = c.score + p].vectorRank = c.vectorRank
      /\ [c EXCEPT !.final = c.score + p].score = c.score
      /\ [c EXCEPT !.final = c.score + p].final = c.score + p
  BY <1>1, <1>5 DEF EntryType
<1> QED
  BY <1>1, <1>4, <1>6 DEF c, p

(* s ranks the nodes of the two legs. *)
Found(g, v) == NodesOf(g) \cup NodesOf(v)
Ranking(s, g, v) ==
  /\ EntryList(s)
  /\ NodesOf(s) = Found(g, v)
  /\ \A i \in 1 .. Len(s) : s[i].node \in Node /\ s[i] = Final(g, v, s[i].node)
  /\ \A i, j \in 1 .. Len(s) : i < j => s[i].final >= s[j].final

LEMMA FoundIs ==
  ASSUME NEW g \in Seq(LegEntry), NEW v \in Seq(Point)
  PROVE  /\ Found(g, v) \subseteq Node /\ IsFiniteSet(Found(g, v))
         /\ Found(g, v) = {g[i].node : i \in DOMAIN g} \cup {v[i].node : i \in DOMAIN v}
<1>1. \A i \in DOMAIN g : g[i].node \in Node
  <2>1. \A i \in DOMAIN g : g[i] \in LegEntry
    OBVIOUS
  <2> QED
    BY <2>1 DEF LegEntry
<1>2. \A i \in DOMAIN v : v[i].node \in Node
  <2>1. \A i \in DOMAIN v : v[i] \in Point
    OBVIOUS
  <2> QED
    BY <2>1, QueriesAssumption
<1>3. Found(g, v) \subseteq Node
  BY <1>1, <1>2 DEF Found, NodesOf
<1>4. IsFiniteSet(Node)
  BY QueriesAssumption
<1>5. IsFiniteSet(Found(g, v))
  BY <1>3, <1>4, FS_Subset
<1>6. Found(g, v) = {g[i].node : i \in DOMAIN g} \cup {v[i].node : i \in DOMAIN v}
  BY Zenon DEF Found, NodesOf
<1> QED
  BY <1>3, <1>5, <1>6, Zenon

LEMMA RankingIs ==
  ASSUME NEW g \in Seq(LegEntry), NEW v \in Seq(Point),
         NEW s \in ApplyTopologicalProximity(RRFFuse(g, v))
  PROVE  Ranking(s, g, v)
<1> DEFINE F == {Final(g, v, n) : n \in Found(g, v)}
           f == [n \in Found(g, v) |-> Final(g, v, n)]
<1>1. F = {[e EXCEPT !.final = e.score + Proximity(e)] : e \in RRFFuse(g, v)}
  <2>1. RRFFuse(g, v) = {Candidate(g, v, n) : n \in Found(g, v)}
    BY FoundIs DEF RRFFuse, Candidate
  <2> QED
    BY <2>1 DEF Final
<1>2. \A n \in Found(g, v) : Final(g, v, n) \in EntryType /\ Final(g, v, n).node = n
  BY FoundIs, FinalIs
<1>3. IsFiniteSet(F)
  <2>1. IsFiniteSet(Found(g, v)) /\ DOMAIN f = Found(g, v)
    BY FoundIs
  <2>2. F = {f[n] : n \in Found(g, v)}
    OBVIOUS
  <2> HIDE DEF f, F
  <2> QED
    BY <2>1, <2>2, ImageFinite
<1>4. s \in SetToSeqs(F) /\ \A i, j \in DOMAIN s : i < j => s[i].final >= s[j].final
  BY <1>1 DEF ApplyTopologicalProximity, ByScore
<1>5. F \subseteq EntryType /\ \A a, b \in F : a.node = b.node => a = b
  BY <1>2
<1>6. \A e \in F : e.node \in Found(g, v) /\ e = Final(g, v, e.node)
  BY <1>2
<1>7. {e.node : e \in F} = Found(g, v)
  BY <1>2
<1> HIDE DEF F
<1>8. /\ EntryList(s) /\ NodesOf(s) = {e.node : e \in F}
      /\ \A i \in 1 .. Len(s) : s[i] \in F
  BY <1>3, <1>4, <1>5, ListingIs
<1>9. DOMAIN s = 1 .. Len(s)
  BY <1>8 DEF EntryList
<1>10. \A i \in 1 .. Len(s) : s[i].node \in Node /\ s[i] = Final(g, v, s[i].node)
  BY <1>6, <1>8, FoundIs
<1> QED
  BY <1>4, <1>7, <1>8, <1>9, <1>10 DEF Ranking

-----------------------------------------------------------------------------
(* The graph leg: one row for each node the query reached.                 *)

RowType == [node : Node, hop : Nat]

LEMMA RowsAre ==
  ASSUME q \in Query, q.kind = "hybrid"
  PROVE  /\ GraphRows \subseteq RowType /\ IsFiniteSet(GraphRows)
         /\ \A r \in GraphRows : r.node \in InNow
         /\ \A r, t \in GraphRows : r.node = t.node => r = t
<1> DEFINE trails == Trails(q.node, q.maxDepth, "reverse", TraversalTypes)
           lengths(n) == {Len(t.path) : t \in {x \in trails : x.at = n}}
           reached == {x \in Node : /\ lengths(x) # {} /\ Domain[x] = DomainFilter
                                    /\ Narrow \in {Absent, label[x].repo}}
           f == [n \in reached |-> [node |-> n, hop |-> Min(lengths(n))]]
<1>1. GraphRows = {[node |-> n, hop |-> Min(lengths(n))] : n \in reached}
  BY DEF GraphRows
<1>2. q.maxDepth \in Nat
  BY QueryAssumption
<1>3. \A t \in trails : t \in Trail /\ t.at \in InNow
  BY <1>2, TrailsVisible
<1>4. ASSUME NEW n \in Node PROVE lengths(n) \subseteq Nat
  <2>1. \A t \in trails : Len(t.path) \in Nat
    BY <1>3 DEF Trail
  <2> HIDE DEF trails
  <2> QED
    BY <2>1
<1>5. \A n \in reached : n \in InNow /\ Min(lengths(n)) \in Nat
  <2>1. ASSUME NEW n \in reached PROVE n \in InNow /\ Min(lengths(n)) \in Nat
    <3>1. PICK t \in trails : t.at = n
      BY <2>1
    <3>2. n \in InNow
      BY <1>3, <3>1
    <3>3. lengths(n) # {} /\ lengths(n) \subseteq Nat
      BY <1>4, <2>1
    <3> HIDE DEF lengths
    <3> QED
      BY <3>2, <3>3, MinIs
  <2> QED
    BY <2>1
<1>6. reached \subseteq Node
  OBVIOUS
<1> HIDE DEF lengths, trails, reached
<1>7. IsFiniteSet(reached)
  <2>1. IsFiniteSet(Node)
    BY QueriesAssumption
  <2> QED
    BY <1>6, <2>1, FS_Subset
<1>8. IsFiniteSet(GraphRows)
  <2>1. GraphRows = {f[n] : n \in reached} /\ DOMAIN f = reached
    BY <1>1
  <2> HIDE DEF f
  <2> QED
    BY <1>7, <2>1, ImageFinite
<1>9. GraphRows \subseteq RowType
  BY <1>1, <1>5, <1>6 DEF RowType
<1>10. \A r \in GraphRows : r.node \in InNow
  BY <1>1, <1>5
<1>11. \A r, t \in GraphRows : r.node = t.node => r = t
  BY <1>1
<1> QED
  BY <1>8, <1>9, <1>10, <1>11

GraphLeg(order, n) ==
  [i \in DOMAIN Limit(order, n) |->
     [node |-> order[i].node, hop |-> order[i].hop, name |-> label[order[i].node]]]

(* Its nodes are the first of the rows, and named by labels in scope. *)
LEMMA GraphLegIs ==
  ASSUME label \in [Node -> Name], q \in Query, q.kind = "hybrid",
         NEW order \in InHopOrder(GraphRows), NEW n \in Nat
  PROVE  LET g == GraphLeg(order, n)
         IN /\ Lists(order, Cardinality(GraphRows), GraphRows)
            /\ Len(g) = IF n < Len(order) THEN n ELSE Len(order)
            /\ g \in Seq(LegEntry) /\ Distinct(g, Len(g))
            /\ \A i \in 1 .. Len(g) :
                 /\ g[i].node = order[i].node /\ g[i].hop = order[i].hop
                 /\ g[i].name = label[g[i].node] /\ g[i].node \in InNow
<1> DEFINE rows == GraphRows
           c == Cardinality(rows)
           m == IF n < Len(order) THEN n ELSE Len(order)
           g == GraphLeg(order, n)
<1>1. /\ rows \subseteq RowType /\ IsFiniteSet(rows)
      /\ \A r \in rows : r.node \in InNow
      /\ \A r, t \in rows : r.node = t.node => r = t
  BY RowsAre
<1>2. order \in SetToSeqs(rows)
  BY DEF InHopOrder
<1> HIDE DEF rows
<1>3. Lists(order, c, rows)
  BY <1>1, <1>2, OrdersList
<1> HIDE DEF c
<1>4. c \in Nat /\ DOMAIN order = 1 .. c /\ Len(order) = c /\ order \in Seq(rows)
  BY <1>3 DEF Lists
<1>5. m \in 0 .. Len(order) /\ DOMAIN Limit(order, n) = 1 .. m
  BY <1>4, LimitIs
<1>6. m \in Nat /\ m <= c /\ \A i \in 1 .. m : i \in 1 .. c
  BY <1>4, <1>5
<1> HIDE DEF m
<1>7. \A i \in 1 .. c : order[i] \in rows
  BY <1>3, <1>4 DEF Lists
<1>8. g = [i \in 1 .. m |->
             [node |-> order[i].node, hop |-> order[i].hop, name |-> label[order[i].node]]]
  BY <1>5 DEF GraphLeg
<1>9. ASSUME NEW i \in 1 .. m
      PROVE  /\ g[i].node = order[i].node /\ g[i].hop = order[i].hop
             /\ g[i].name = label[g[i].node] /\ g[i].node \in InNow /\ g[i] \in LegEntry
  <2>1. order[i] \in RowType /\ order[i].node \in InNow
    BY <1>1, <1>6, <1>7
  <2>2. order[i].node \in Node /\ order[i].hop \in Nat /\ label[order[i].node] \in Name
    BY <2>1 DEF RowType
  <2>3. g[i] = [node |-> order[i].node, hop |-> order[i].hop, name |-> label[order[i].node]]
    BY <1>8
  <2> QED
    BY <2>1, <2>2, <2>3 DEF LegEntry
<1>10. g \in Seq(LegEntry) /\ Len(g) = m
  <2>1. g \in [1 .. m -> LegEntry]
    BY <1>8, <1>9
  <2> HIDE DEF g
  <2> QED
    BY <1>6, <2>1
<1>11. Distinct(g, m)
  <2>1. ASSUME NEW i \in 1 .. m, NEW j \in 1 .. m, g[i].node = g[j].node PROVE i = j
    <3>1. order[i].node = order[j].node /\ i \in 1 .. c /\ j \in 1 .. c
      BY <1>6, <1>9, <2>1
    <3>2. order[i] = order[j]
      BY <1>1, <1>7, <3>1
    <3> QED
      BY <1>3, <3>1, <3>2 DEF Lists
  <2>2. DOMAIN g = 1 .. m
    BY <1>8
  <2> HIDE DEF g
  <2> QED
    BY <1>6, <1>10, <2>1, <2>2 DEF Distinct
<1> HIDE DEF g
<1> QED
  BY <1>3, <1>9, <1>10, <1>11 DEF g, m, c, rows

-----------------------------------------------------------------------------
(* The phases of a call, and the types of its state.                       *)

RankedPhase == {"recheck", "names", "text", "rerank", "impact"}
HybridPhase == {"hybrid", "vector", "graph"} \cup RankedPhase
EndPhase == {"replied", "packed"}
Phase == {"idle", "get", "expand", "fulltext"} \cup HybridPhase \cup EndPhase

CallInv ==
  /\ label \in [Node -> Name]
  /\ pc \in Phase
  /\ pc # "idle" => q \in Query
  /\ pc \in {"get", "expand", "fulltext"} => q.kind = pc
  /\ pc \in HybridPhase => q.kind = "hybrid"
  /\ pc \notin EndPhase => reply = NoReply
  /\ vector \in Seq(Point) /\ graph \in Seq(LegEntry)
  /\ ranked \in Seq(EntryType)

(* What the candidates and the reply tell is in the scope of the caller,   *)
(* and after the re-check their nodes were in scope as it was made.        *)
AnswerInv ==
  /\ pc \in RankedPhase => EntryList(ranked) /\ AllTell(ranked, sc)
  /\ pc \in RankedPhase \ {"recheck"} => NodesOf(ranked) \subseteq checked
  /\ EntryList(reply.nodes) /\ AllTell(reply.nodes, sc) /\ NodesOf(reply.nodes) \subseteq checked

LEMMA RepliedIs ==
  ASSUME NEW code, NEW nodes
  PROVE  Replied(code, nodes).nodes = nodes /\ Replied(code, nodes).code = code
BY DEF Replied, NoReply

LEMMA CallInitially == Init => CallInv /\ AnswerInv
<1> SUFFICES ASSUME Init PROVE CallInv /\ AnswerInv
  OBVIOUS
<1>1. label \in [Node -> Name]
  BY QueriesAssumption DEF Init, Name
<1>2. \A S : <<>> \in Seq(S)
  OBVIOUS
<1>3. CallInv
  BY <1>1, <1>2 DEF Init, CallInv, Phase, HybridPhase, EndPhase, RankedPhase
<1>4. reply.nodes = <<>>
  BY DEF Init, NoReply
<1>5. AnswerInv
  BY <1>4, NoEntries DEF Init, AnswerInv, RankedPhase
<1> QED
  BY <1>3, <1>5

LEMMA NoReplyNodes == NoReply.nodes = <<>>
BY DEF NoReply

(* A step that answers the call. *)
LEMMA ReplyKeeps ==
  ASSUME CallInv, pc # "idle", pc' \in EndPhase,
         UNCHANGED <<label, sc, q, vector, graph, ranked>>,
         EntryList(reply'.nodes), AllTell(reply'.nodes, sc),
         NodesOf(reply'.nodes) \subseteq checked'
  PROVE  CallInv' /\ AnswerInv'
<1>1. CallInv'
  BY DEF CallInv, Phase, HybridPhase, EndPhase, RankedPhase
<1>2. AnswerInv'
  <2>1. pc' \notin RankedPhase
    BY DEF EndPhase, RankedPhase
  <2>2. EntryList(reply.nodes)' /\ AllTell(reply.nodes, sc)' /\ (NodesOf(reply.nodes) \subseteq checked)'
    BY DEF EntryList, AllTell, NodesOf
  <2> QED
    BY <2>1, <2>2 DEF AnswerInv
<1> QED
  BY <1>1, <1>2

LEMMA FailKeeps ==
  ASSUME CallInv, pc # "idle", NEW code, FailWith(code)
  PROVE  CallInv' /\ AnswerInv'
<1>1. /\ reply'.nodes = <<>> /\ pc' = "replied" /\ UNCHANGED <<label, sc, q, vector, graph, ranked>>
  BY RepliedIs DEF FailWith, Finish, graphVars
<1>2. EntryList(reply'.nodes) /\ AllTell(reply'.nodes, sc) /\ NodesOf(reply'.nodes) \subseteq checked'
  BY <1>1, NoEntries
<1> QED
  BY <1>1, <1>2, ReplyKeeps DEF EndPhase

LEMMA AnswerKeeps ==
  ASSUME CallInv, pc # "idle", NEW r, Answer(r),
         EntryList(r.nodes), AllTell(r.nodes, sc), NodesOf(r.nodes) \subseteq InNow
  PROVE  CallInv' /\ AnswerInv'
<1>1. /\ reply' = r /\ pc' = "replied" /\ checked' = InNow
      /\ UNCHANGED <<label, sc, q, vector, graph, ranked>>
  BY DEF Answer, Finish, graphVars
<1> QED
  BY <1>1, ReplyKeeps DEF EndPhase

(* A step that leaves candidates. *)
LEMMA RankKeeps ==
  ASSUME CallInv, AnswerInv, pc \in HybridPhase, pc' \in RankedPhase, reply' = reply,
         UNCHANGED <<label, sc, q, vector>>, graph' \in Seq(LegEntry),
         EntryList(ranked'), AllTell(ranked', sc),
         pc' # "recheck" => NodesOf(ranked') \subseteq checked'
  PROVE  CallInv' /\ AnswerInv'
<1>1. CallInv'
  <2>1. ranked' \in Seq(EntryType)
    BY DEF EntryList
  <2>2. pc \notin EndPhase /\ pc' \notin EndPhase /\ pc # "idle" /\ pc' \in Phase /\ pc' \in HybridPhase
        /\ pc' \notin {"get", "expand", "fulltext"}
    BY DEF Phase, HybridPhase, EndPhase, RankedPhase
  <2> QED
    BY <2>1, <2>2 DEF CallInv
<1>2. AnswerInv'
  <2>1. EntryList(ranked)' /\ AllTell(ranked, sc)'
        /\ (pc' # "recheck" => (NodesOf(ranked) \subseteq checked)')
    BY DEF EntryList, AllTell, NodesOf
  <2>2. reply = NoReply
    BY DEF CallInv, HybridPhase, EndPhase, RankedPhase
  <2>3. EntryList(reply'.nodes) /\ AllTell(reply'.nodes, sc) /\ NodesOf(reply'.nodes) = {}
    BY <2>2, NoReplyNodes, NoEntries
  <2>4. EntryList(reply.nodes)' /\ AllTell(reply.nodes, sc)' /\ (NodesOf(reply.nodes) \subseteq checked)'
    BY <2>3 DEF EntryList, AllTell, NodesOf
  <2> QED
    BY <2>1, <2>4 DEF AnswerInv
<1> QED
  BY <1>1, <1>2

(* A step before there are candidates. *)
LEMMA EarlyKeeps ==
  ASSUME CallInv, pc \in {"idle", "hybrid", "vector"},
         pc' \in {"get", "expand", "fulltext", "hybrid", "vector", "graph"}, reply' = reply,
         label' = label, q' \in Query, q'.kind = IF pc' \in HybridPhase THEN "hybrid" ELSE pc',
         vector' \in Seq(Point), UNCHANGED <<graph, ranked>>
  PROVE  CallInv' /\ AnswerInv'
<1>1. CallInv'
  BY DEF CallInv, Phase, HybridPhase, EndPhase, RankedPhase
<1>2. AnswerInv'
  <2>1. reply' = NoReply /\ pc' \notin RankedPhase
    BY DEF CallInv, EndPhase, RankedPhase
  <2>2. EntryList(reply'.nodes) /\ AllTell(reply'.nodes, sc') /\ NodesOf(reply'.nodes) = {}
    BY <2>1, NoReplyNodes, NoEntries
  <2>3. EntryList(reply.nodes)' /\ AllTell(reply.nodes, sc)' /\ (NodesOf(reply.nodes) \subseteq checked)'
    BY <2>2 DEF EntryList, AllTell, NodesOf
  <2> QED
    BY <2>1, <2>3 DEF AnswerInv
<1> QED
  BY <1>1, <1>2

-----------------------------------------------------------------------------
(* The calls answered in one step.                                         *)

LEMMA VisibleTells ==
  ASSUME label \in [Node -> Name], NEW n \in InNow
  PROVE  LET e == Entry(n, label[n])
         IN e \in EntryType /\ e.node = n /\ Tells(e, sc)
<1> DEFINE e == Entry(n, label[n])
<1>1. n \in Node /\ InScope(label[n], sc) /\ label[n] \in Name
  BY DEF InNow, Visible
<1>2. e \in EntryType
  BY <1>1, EntryTyped
<1>3. e.node = n /\ e.name = label[n] /\ e.text = <<>>
  BY DEF Entry
<1>4. Tells(e, sc)
  BY <1>1, <1>3 DEF Tells
<1> QED
  BY <1>2, <1>3, <1>4

Named(s) == [i \in DOMAIN s |-> Entry(s[i], label[s[i]])]
LEMMA NamedIs ==
  ASSUME label \in [Node -> Name], NEW s \in Seq(InNow),
         \A i, j \in 1 .. Len(s) : s[i] = s[j] => i = j
  PROVE  EntryList(Named(s)) /\ AllTell(Named(s), sc) /\ NodesOf(Named(s)) \subseteq InNow
<1>1. Len(s) \in Nat /\ DOMAIN s = 1 .. Len(s) /\ \A i \in 1 .. Len(s) : s[i] \in InNow
  OBVIOUS
<1> DEFINE t == Named(s)
<1>2. t = [i \in 1 .. Len(s) |-> Entry(s[i], label[s[i]])]
  BY <1>1 DEF Named
<1>3. \A i \in 1 .. Len(s) : t[i] \in EntryType /\ t[i].node = s[i] /\ Tells(t[i], sc)
  BY <1>1, <1>2, VisibleTells
<1>4. t \in [1 .. Len(s) -> EntryType]
  BY <1>2, <1>3
<1> HIDE DEF t
<1>5. t \in Seq(EntryType) /\ Len(t) = Len(s) /\ DOMAIN t = 1 .. Len(s)
  BY <1>1, <1>4
<1>6. \A i, j \in 1 .. Len(t) : t[i].node = t[j].node => i = j
  BY <1>3, <1>5
<1>7. EntryList(t) /\ AllTell(t, sc) /\ NodesOf(t) \subseteq InNow
  BY <1>1, <1>3, <1>5, <1>6 DEF EntryList, Distinct, AllTell, NodesOf
<1> QED
  BY <1>7 DEF t

LEMMA OrderOf ==
  ASSUME NEW S \in SUBSET InNow, NEW s \in SetToSeqs(S)
  PROVE  s \in Seq(InNow) /\ \A i, j \in 1 .. Len(s) : s[i] = s[j] => i = j
<1>1. S \subseteq Node /\ IsFiniteSet(Node)
  BY QueriesAssumption DEF InNow
<1>2. IsFiniteSet(S)
  BY <1>1, FS_Subset
<1> DEFINE n == Cardinality(S)
<1>3. Lists(s, n, S)
  BY <1>2, OrdersList
<1> HIDE DEF n
<1> QED
  BY <1>3 DEF Lists

LEMMA LimitOf ==
  ASSUME NEW s \in Seq(InNow), \A i, j \in 1 .. Len(s) : s[i] = s[j] => i = j, NEW n \in Nat
  PROVE  /\ Limit(s, n) \in Seq(InNow)
         /\ \A i, j \in 1 .. Len(Limit(s, n)) : Limit(s, n)[i] = Limit(s, n)[j] => i = j
<1> DEFINE m == IF n < Len(s) THEN n ELSE Len(s)
<1>1. /\ m \in 0 .. Len(s) /\ Limit(s, n) \in Seq(InNow) /\ Len(Limit(s, n)) = m
      /\ \A i \in 1 .. m : Limit(s, n)[i] = s[i]
  BY LimitIs
<1>2. Len(s) \in Nat
  OBVIOUS
<1> HIDE DEF m
<1> QED
  BY <1>1, <1>2

LEMMA DefaultNat ==
  ASSUME NEW v \in Nat, NEW d \in Nat
  PROVE  Default(v, d) \in Nat
BY DEF Default

LEMMA GetKeeps ==
  ASSUME CallInv, AnswerInv, GetNode
  PROVE  CallInv' /\ AnswerInv'
<1>1. pc # "idle" /\ q \in Query /\ q.kind = "get" /\ label \in [Node -> Name]
  BY DEF GetNode, CallInv
<1>2. q.node \in Node
  BY <1>1, QueryAssumption
<1>3. CASE FailWith("Internal")
  BY <1>1, <1>3, FailKeeps
<1>4. CASE Answer(IF Visible(q.node) THEN Replied("OK", <<Entry(q.node, label[q.node])>>)
                  ELSE Replied("NotFound", <<>>))
  <2>1. CASE Visible(q.node)
    <3>1. q.node \in InNow
      BY <1>2, <2>1 DEF InNow
    <3> DEFINE e == Entry(q.node, label[q.node])
               r == Replied("OK", <<e>>)
    <3>2. e \in EntryType /\ e.node = q.node /\ Tells(e, sc)
      BY <1>1, <3>1, VisibleTells
    <3>3. Answer(r)
      BY <1>4, <2>1
    <3>4. r.nodes = <<e>>
      BY RepliedIs
    <3> HIDE DEF e, r
    <3>5. EntryList(<<e>>) /\ AllTell(<<e>>, sc) /\ NodesOf(<<e>>) = {e.node}
      BY <3>2, OneEntry
    <3>6. EntryList(r.nodes) /\ AllTell(r.nodes, sc) /\ NodesOf(r.nodes) \subseteq InNow
      BY <3>1, <3>2, <3>4, <3>5
    <3> QED
      BY <1>1, <3>3, <3>6, AnswerKeeps
  <2>2. CASE ~ Visible(q.node)
    <3> DEFINE r == Replied("NotFound", <<>>)
    <3>1. Answer(r)
      BY <1>4, <2>2
    <3>2. r.nodes = <<>>
      BY RepliedIs
    <3> HIDE DEF r
    <3>3. EntryList(r.nodes) /\ AllTell(r.nodes, sc) /\ NodesOf(r.nodes) \subseteq InNow
      BY <3>2, NoEntries
    <3> QED
      BY <1>1, <3>1, <3>3, AnswerKeeps
  <2> QED
    BY <2>1, <2>2
<1> QED
  BY <1>3, <1>4 DEF GetNode

LEMMA ExpandKeeps ==
  ASSUME CallInv, AnswerInv, ExpandNeighbors
  PROVE  CallInv' /\ AnswerInv'
<1>1. pc # "idle" /\ q \in Query /\ q.kind = "expand" /\ label \in [Node -> Name]
  BY DEF ExpandNeighbors, CallInv
<1> DEFINE depth == Default(q.depth, 1)
           reached == {x \in Trails(q.node, depth, q.direction, q.types) : x.at # q.node}
           rows == {<<t.at, [i \in DOMAIN t.path |-> t.path[i].type]>> : t \in reached}
<1>2. depth \in Nat
  BY <1>1, QueryAssumption, DefaultNat
<1>3. CASE FailWith("Internal")
  BY <1>1, <1>3, FailKeeps
<1>4. CASE \E some \in Largest(rows, Default(q.limit, 100)) :
             \E order \in SetToSeqs({r[1] : r \in some}) :
               Answer(Replied("OK", [i \in DOMAIN order |-> Entry(order[i], label[order[i]])]))
  <2>a. PICK some \in Largest(rows, Default(q.limit, 100)) :
             \E order \in SetToSeqs({r[1] : r \in some}) :
               Answer(Replied("OK", [i \in DOMAIN order |-> Entry(order[i], label[order[i]])]))
    BY <1>4
  <2>b. PICK order \in SetToSeqs({r[1] : r \in some}) :
          Answer(Replied("OK", [i \in DOMAIN order |-> Entry(order[i], label[order[i]])]))
    BY <2>a
  <2>1. Answer(Replied("OK", Named(order)))
    BY <2>b DEF Named
  <2>2. some \subseteq rows
    BY <2>a DEF Largest, kSubset
  <2>3. \A t \in reached : t.at \in InNow
    BY <1>2, TrailsVisible
  <2>4. {r[1] : r \in some} \subseteq InNow
    <3> HIDE DEF reached
    <3>1. \A r \in rows : r[1] \in InNow
      BY <2>3
    <3> HIDE DEF rows
    <3> QED
      BY <2>2, <3>1
  <2>5. order \in Seq(InNow) /\ \A i, j \in 1 .. Len(order) : order[i] = order[j] => i = j
    BY <2>4, <2>b, OrderOf
  <2>6. EntryList(Named(order)) /\ AllTell(Named(order), sc) /\ NodesOf(Named(order)) \subseteq InNow
    BY <1>1, <2>5, NamedIs
  <2> DEFINE r == Replied("OK", Named(order))
  <2>7. r.nodes = Named(order) /\ Answer(r)
    BY <2>1, RepliedIs
  <2> HIDE DEF r
  <2> QED
    BY <1>1, <2>6, <2>7, AnswerKeeps
<1>5. FailWith("Internal")
      \/ \E some \in Largest(rows, Default(q.limit, 100)) :
            \E order \in SetToSeqs({r[1] : r \in some}) :
              Answer(Replied("OK", [i \in DOMAIN order |-> Entry(order[i], label[order[i]])]))
  BY Zenon DEF ExpandNeighbors
<1> QED
  BY <1>3, <1>4, <1>5

LEMMA FullTextKeeps ==
  ASSUME CallInv, AnswerInv, FullText
  PROVE  CallInv' /\ AnswerInv'
<1>1. pc # "idle" /\ q \in Query /\ q.kind = "fulltext" /\ label \in [Node -> Name]
  BY DEF FullText, CallInv
<1>2. Default(q.graphLimit, 200) \in Nat /\ Default(q.topK, 25) \in Nat
  BY <1>1, QueryAssumption, DefaultNat
<1> DEFINE found == {n \in Matches : /\ Visible(n)
                                     /\ q.domain \in {"unspecified", Domain[n]}
                                     /\ q.repos = <<>> \/ label[n].repo \in Range(q.repos)}
           records(order) == Limit(order, Default(q.graphLimit, 200))
           nodes(order) == Limit(records(order), Default(q.topK, 25))
           answer(order) == [Replied("OK", Named(nodes(order)))
                               EXCEPT !.graphCandidates = Len(records(order)), !.degraded = TRUE]
<1>3. CASE FailWith("Internal")
  BY <1>1, <1>3, FailKeeps
<1>4. CASE \E order \in SetToSeqs(found) : Answer(answer(order))
  <2>1. PICK order \in SetToSeqs(found) : Answer(answer(order))
    BY <1>4
  <2>2. found \subseteq InNow
    BY QueriesAssumption DEF InNow
  <2> HIDE DEF found
  <2>3. order \in Seq(InNow) /\ \A i, j \in 1 .. Len(order) : order[i] = order[j] => i = j
    BY <2>1, <2>2, OrderOf
  <2> DEFINE s == nodes(order)
             u == records(order)
             r == answer(order)
  <2>4. u \in Seq(InNow) /\ \A i, j \in 1 .. Len(u) : u[i] = u[j] => i = j
    BY <1>2, <2>3, LimitOf
  <2>5. s \in Seq(InNow) /\ \A i, j \in 1 .. Len(s) : s[i] = s[j] => i = j
    <3> HIDE DEF records
    <3> QED
      BY <1>2, <2>4, LimitOf
  <2> HIDE DEF nodes, records
  <2>6. EntryList(Named(s)) /\ AllTell(Named(s), sc) /\ NodesOf(Named(s)) \subseteq InNow
    BY <1>1, <2>5, NamedIs
  <2>7. r.nodes = Named(s)
    BY DEF Replied, NoReply
  <2>8. Answer(r)
    BY <2>1
  <2> HIDE DEF r
  <2> QED
    BY <1>1, <2>6, <2>7, <2>8, AnswerKeeps
<1> QED
  BY <1>3, <1>4 DEF FullText, Named

-----------------------------------------------------------------------------
(* The steps of the hybrid search.                                         *)

LEMMA ReceiveKeeps ==
  ASSUME CallInv, AnswerInv, Receive
  PROVE  CallInv' /\ AnswerInv'
<1>a. PICK caller \in Caller :
        \E query \in Query :
          /\ sc' = caller /\ q' = query
          /\ \E answer \in OpaAnswer(caller, Action[query.kind]) :
               IF Enforce(caller, answer) # "OK"
               THEN Finish(Replied(Enforce(caller, answer), <<>>))
               ELSE IF ~HasScope(caller) THEN Finish(Replied("PermissionDenied", <<>>))
               ELSE IF query.kind = "hybrid" /\ ~query.hasText
                    THEN Finish(Replied("InvalidArgument", <<>>))
               ELSE pc' = query.kind /\ UNCHANGED reply
  BY DEF Receive
<1>1. PICK query \in Query :
        /\ sc' = caller /\ q' = query
        /\ \E answer \in OpaAnswer(caller, Action[query.kind]) :
             IF Enforce(caller, answer) # "OK"
             THEN Finish(Replied(Enforce(caller, answer), <<>>))
             ELSE IF ~HasScope(caller) THEN Finish(Replied("PermissionDenied", <<>>))
             ELSE IF query.kind = "hybrid" /\ ~query.hasText
                  THEN Finish(Replied("InvalidArgument", <<>>))
             ELSE pc' = query.kind /\ UNCHANGED reply
  BY <1>a
<1>2. pc = "idle" /\ UNCHANGED <<label, vector, graph, ranked, checked>>
  BY DEF Receive, graphVars
<1>3. \/ \E code : Finish(Replied(code, <<>>))
      \/ pc' = query.kind /\ reply' = reply
  BY <1>1
<1>4. CASE \E code : Finish(Replied(code, <<>>))
  <2>1. pc' = "replied" /\ reply'.nodes = <<>>
    BY <1>4, RepliedIs DEF Finish
  <2>2. CallInv'
    BY <1>1, <1>2, <2>1 DEF CallInv, Phase, HybridPhase, EndPhase, RankedPhase
  <2>3. EntryList(reply'.nodes) /\ AllTell(reply'.nodes, sc') /\ NodesOf(reply'.nodes) = {}
    BY <2>1, NoEntries
  <2>4. EntryList(reply.nodes)' /\ AllTell(reply.nodes, sc)' /\ (NodesOf(reply.nodes) \subseteq checked)'
    BY <2>3 DEF EntryList, AllTell, NodesOf
  <2>5. AnswerInv'
    BY <2>1, <2>4 DEF AnswerInv, RankedPhase
  <2> QED
    BY <2>2, <2>5
<1>5. CASE pc' = query.kind /\ reply' = reply
  <2>1. query.kind \in {"get", "expand", "fulltext", "hybrid"} /\ q' \in Query /\ q'.kind = pc'
    BY <1>1, <1>5, QueryAssumption
  <2>2. /\ pc' \in {"get", "expand", "fulltext", "hybrid", "vector", "graph"}
        /\ q'.kind = IF pc' \in HybridPhase THEN "hybrid" ELSE pc'
    BY <1>5, <2>1 DEF HybridPhase, RankedPhase
  <2>3. vector' \in Seq(Point)
    BY <1>2 DEF CallInv
  <2> QED
    BY <1>2, <1>5, <2>1, <2>2, <2>3, EarlyKeeps
<1> QED
  BY <1>3, <1>4, <1>5

LEMMA EmbedKeeps ==
  ASSUME CallInv, AnswerInv, EmbedQuery
  PROVE  CallInv' /\ AnswerInv'
<1>1. pc = "hybrid" /\ q \in Query /\ q.kind = "hybrid" /\ vector \in Seq(Point)
  BY DEF EmbedQuery, CallInv, HybridPhase
<1>2. CASE FailWith("Internal")
  BY <1>1, <1>2, FailKeeps
<1>3. CASE /\ Goto("vector")
           /\ UNCHANGED <<graphVars, sc, q, vector, graph, ranked, checked, lost, packed>>
  <2>1. pc' = "vector" /\ reply' = reply /\ UNCHANGED <<label, q, vector, graph, ranked>>
    BY <1>3 DEF Goto, graphVars
  <2>2. q' \in Query /\ vector' \in Seq(Point) /\ q'.kind = IF pc' \in HybridPhase THEN "hybrid" ELSE pc'
    BY <1>1, <2>1 DEF HybridPhase
  <2> QED
    BY <1>1, <2>1, <2>2, EarlyKeeps
<1> QED
  BY <1>2, <1>3 DEF EmbedQuery

LEMMA VectorKeeps ==
  ASSUME CallInv, AnswerInv, VectorSearch
  PROVE  CallInv' /\ AnswerInv'
<1>1. pc = "vector" /\ q \in Query /\ q.kind = "hybrid"
  BY DEF VectorSearch, CallInv, HybridPhase
<1>2. Default(q.vectorLimit, 50) \in Nat
  BY <1>1, QueryAssumption, DefaultNat
<1> DEFINE found == {p \in Point : /\ p.label.tenant = sc.tenant
                                   /\ p.label.repo \in EffectiveRepos(sc, Narrow)
                                   /\ p.label.group \in sc.groups
                                   /\ DomainFilter = "code"}
<1>3. pc' = "graph" /\ reply' = reply /\ UNCHANGED <<label, q, graph, ranked>>
  BY DEF VectorSearch, Goto, graphVars
<1>4. \/ vector' = <<>>
      \/ \E order \in SetToSeqs(found) : vector' = Limit(order, Default(q.vectorLimit, 50))
  BY DEF VectorSearch
<1>5. vector' \in Seq(Point)
  <2>1. <<>> \in Seq(Point)
    OBVIOUS
  <2>2. ASSUME NEW order \in SetToSeqs(found) PROVE Limit(order, Default(q.vectorLimit, 50)) \in Seq(Point)
    <3>1. found \subseteq Point /\ IsFiniteSet(Point)
      BY QueriesAssumption
    <3> HIDE DEF found
    <3>2. IsFiniteSet(found)
      BY <3>1, FS_Subset
    <3>3. Lists(order, Cardinality(found), found)
      BY <3>2, OrdersList
    <3>4. order \in Seq(Point)
      BY <3>1, <3>3 DEF Lists
    <3> QED
      BY <1>2, <3>4, LimitIs
  <2> HIDE DEF found
  <2> QED
    BY <1>4, <2>1, <2>2
<1>6. q' \in Query /\ q'.kind = IF pc' \in HybridPhase THEN "hybrid" ELSE pc'
  BY <1>1, <1>3 DEF HybridPhase
<1> QED
  BY <1>1, <1>3, <1>5, <1>6, EarlyKeeps

(* A candidate's name is the one the graph leg read. *)
LEMMA RankingTells ==
  ASSUME NEW g \in Seq(LegEntry), NEW v \in Seq(Point), NEW s, Ranking(s, g, v),
         NEW scope, \A i \in 1 .. Len(g) : InScope(g[i].name, scope)
  PROVE  AllTell(s, scope)
<1>1. DOMAIN s = 1 .. Len(s)
  BY DEF Ranking, EntryList
<1>2. ASSUME NEW i \in 1 .. Len(s) PROVE Tells(s[i], scope)
  <2> DEFINE n == s[i].node
  <2>1. n \in Node /\ s[i] = Final(g, v, n)
    BY DEF Ranking
  <2> HIDE DEF n
  <2>2. s[i].text = <<>> /\ s[i].name = Candidate(g, v, n).name
    BY <2>1, FinalIs
  <2>3. s[i].name = IF n \in NodesOf(g) THEN g[FirstRank(Ranks(g, n))].name ELSE NoLabel
    BY <2>1, <2>2, CandidateIs
  <2>4. n \in NodesOf(g) => FirstRank(Ranks(g, n)) \in 1 .. Len(g)
    BY FirstRankIs
  <2>5. s[i].name # NoLabel => InScope(s[i].name, scope)
    BY <2>3, <2>4
  <2> QED
    BY <2>2, <2>5 DEF Tells
<1> QED
  BY <1>1, <1>2 DEF AllTell

(* What the traversal leaves: the leg of some order of the rows, and the   *)
(* ranking of the two legs.                                                *)
LEMMA TraversalIs ==
  ASSUME CallInv, GraphTraversal, ~ FailWith("Internal")
  PROVE  /\ pc = "graph" /\ pc' = "recheck" /\ reply' = reply /\ q.maxDepth >= 1
         /\ UNCHANGED <<label, changes, sc, q, vector, checked, lost, packed>>
         /\ q \in Query /\ q.kind = "hybrid" /\ label \in [Node -> Name]
         /\ vector \in Seq(Point)
         /\ graph' \in Seq(LegEntry) /\ Distinct(graph', Len(graph'))
         /\ \E order \in InHopOrder(GraphRows) : graph' = GraphLeg(order, Default(q.graphLimit, 200))
         /\ ranked' \in ApplyTopologicalProximity(RRFFuse(graph', vector))
         /\ Ranking(ranked', graph', vector)
<1>1. PICK order \in InHopOrder(GraphRows) :
        LET leg == GraphLeg(order, Default(q.graphLimit, 200))
        IN graph' = leg /\ ranked' \in ApplyTopologicalProximity(RRFFuse(leg, vector))
  BY DEF GraphTraversal, GraphLeg
<1>2. /\ pc = "graph" /\ pc' = "recheck" /\ reply' = reply /\ q.maxDepth >= 1
      /\ UNCHANGED <<label, changes, sc, q, vector, checked, lost, packed>>
  BY DEF GraphTraversal, Goto, graphVars
<1>3. q \in Query /\ q.kind = "hybrid" /\ label \in [Node -> Name] /\ vector \in Seq(Point)
  BY <1>2 DEF CallInv, HybridPhase
<1>4. Default(q.graphLimit, 200) \in Nat
  BY <1>3, QueryAssumption, DefaultNat
<1>5. graph' \in Seq(LegEntry) /\ Distinct(graph', Len(graph'))
  BY <1>1, <1>3, <1>4, GraphLegIs
<1>6. ranked' \in ApplyTopologicalProximity(RRFFuse(graph', vector))
  BY <1>1
<1>7. Ranking(ranked', graph', vector)
  BY <1>3, <1>5, <1>6, RankingIs
<1> QED
  BY <1>1, <1>2, <1>3, <1>5, <1>6, <1>7

LEMMA TraversalKeeps ==
  ASSUME CallInv, AnswerInv, GraphTraversal
  PROVE  CallInv' /\ AnswerInv'
<1>1. CASE FailWith("Internal")
  BY <1>1, FailKeeps DEF GraphTraversal
<1>2. CASE ~ FailWith("Internal")
  <2>1. /\ pc = "graph" /\ pc' = "recheck" /\ reply' = reply
        /\ UNCHANGED <<label, sc, q, vector>>
        /\ q \in Query /\ q.kind = "hybrid" /\ label \in [Node -> Name]
        /\ vector \in Seq(Point) /\ graph' \in Seq(LegEntry)
        /\ Ranking(ranked', graph', vector)
    BY <1>2, TraversalIs
  <2>2. PICK order \in InHopOrder(GraphRows) : graph' = GraphLeg(order, Default(q.graphLimit, 200))
    BY <1>2, TraversalIs
  <2>3. Default(q.graphLimit, 200) \in Nat
    BY <2>1, QueryAssumption, DefaultNat
  <2>4. \A i \in 1 .. Len(graph') : graph'[i].name = label[graph'[i].node] /\ graph'[i].node \in InNow
    BY <2>1, <2>2, <2>3, GraphLegIs
  <2>5. \A i \in 1 .. Len(graph') : InScope(graph'[i].name, sc)
    BY <2>4 DEF InNow, Visible
  <2>6. AllTell(ranked', sc)
    BY <2>1, <2>5, RankingTells
  <2>7. EntryList(ranked')
    BY <2>1 DEF Ranking
  <2> QED
    BY <2>1, <2>6, <2>7, RankKeeps DEF HybridPhase, RankedPhase
<1> QED
  BY <1>1, <1>2

LEMMA SameNodes ==
  ASSUME NEW s, EntryList(s), NEW t, t = [i \in DOMAIN s |-> t[i]],
         \A i \in 1 .. Len(s) : t[i] \in EntryType /\ t[i].node = s[i].node
  PROVE  EntryList(t) /\ NodesOf(t) = NodesOf(s) /\ Len(t) = Len(s) /\ DOMAIN t = 1 .. Len(s)
<1>1. Len(s) \in Nat /\ DOMAIN s = 1 .. Len(s)
  BY DEF EntryList
<1>2. t \in [1 .. Len(s) -> EntryType]
  BY <1>1
<1>3. t \in Seq(EntryType) /\ Len(t) = Len(s) /\ DOMAIN t = 1 .. Len(s)
  BY <1>1, <1>2
<1>4. \A i, j \in 1 .. Len(t) : t[i].node = t[j].node => i = j
  BY <1>3 DEF EntryList, Distinct
<1>5. EntryList(t)
  BY <1>1, <1>3, <1>4 DEF EntryList, Distinct
<1>6. NodesOf(t) = NodesOf(s)
  BY <1>1, <1>3 DEF NodesOf
<1> QED
  BY <1>3, <1>5, <1>6

LEMMA TopKNat ==
  ASSUME CallInv, pc \in HybridPhase
  PROVE  q \in Query /\ q.kind = "hybrid" /\ TopK \in Nat
<1>1. q \in Query /\ q.kind = "hybrid"
  BY DEF CallInv, HybridPhase, RankedPhase
<1> QED
  BY <1>1, QueryAssumption, DefaultNat DEF TopK

(* The re-check keeps a subsequence: the best of the visible candidates.   *)
LEMMA RecheckIs ==
  ASSUME CallInv, EntryList(ranked), RecheckAuthorized, ~ FailWith("Internal")
  PROVE  /\ pc = "recheck" /\ pc' = "names" /\ reply' = reply /\ checked' = InNow
         /\ UNCHANGED <<label, changes, sc, q, vector, graph, lost, packed>>
         /\ \E authorized \in Authorized(ranked) : ranked' = Limit(authorized, TopK)
         /\ EntryList(ranked') /\ NodesOf(ranked') \subseteq NodesOf(ranked) \cap InNow
         /\ \A scope : AllTell(ranked, scope) => AllTell(ranked', scope)
<1>1. PICK authorized \in Authorized(ranked) : ranked' = Limit(authorized, TopK)
  BY DEF RecheckAuthorized
<1>2. /\ pc = "recheck" /\ pc' = "names" /\ reply' = reply /\ checked' = InNow
      /\ UNCHANGED <<label, changes, sc, q, vector, graph, lost, packed>>
  BY DEF RecheckAuthorized, Goto, graphVars
<1>3. TopK \in Nat
  BY <1>2, TopKNat DEF HybridPhase, RankedPhase
<1>4. ranked \in Seq(EntryType)
  BY DEF EntryList
<1>5. PICK o : Picks(authorized, ranked, o)
  BY <1>4, AuthorizedPicks
<1>6. NodesOf(authorized) = {n \in NodesOf(ranked) : Visible(n)}
  BY <1>4, AuthorizedPicks
<1>7. authorized \in Seq(EntryType)
  BY <1>5 DEF Picks
<1>8. EntryList(authorized) /\ \A scope : AllTell(ranked, scope) => AllTell(authorized, scope)
  BY <1>5, PicksList
<1>9. Picks(ranked', authorized, [i \in 1 .. Len(ranked') |-> i])
  BY <1>1, <1>3, <1>7, LimitPicks
<1>10. /\ EntryList(ranked') /\ NodesOf(ranked') \subseteq NodesOf(authorized)
       /\ \A scope : AllTell(authorized, scope) => AllTell(ranked', scope)
  BY <1>8, <1>9, PicksList
<1>11. NodesOf(ranked) \subseteq Node
  <2>1. \A i \in DOMAIN ranked : ranked[i] \in EntryType
    BY <1>4
  <2> QED
    BY <2>1 DEF NodesOf, EntryType
<1>12. NodesOf(ranked') \subseteq NodesOf(ranked) \cap InNow
  BY <1>6, <1>10, <1>11 DEF InNow
<1> QED
  BY <1>1, <1>2, <1>8, <1>10, <1>12

LEMMA RecheckKeeps ==
  ASSUME CallInv, AnswerInv, RecheckAuthorized
  PROVE  CallInv' /\ AnswerInv'
<1>0. pc = "recheck" /\ EntryList(ranked) /\ AllTell(ranked, sc)
  BY DEF RecheckAuthorized, AnswerInv, RankedPhase
<1>1. CASE FailWith("Internal")
  BY <1>0, <1>1, FailKeeps
<1>2. CASE ~ FailWith("Internal")
  <2>1. /\ pc' = "names" /\ reply' = reply /\ checked' = InNow
        /\ UNCHANGED <<label, sc, q, vector, graph>>
        /\ EntryList(ranked') /\ NodesOf(ranked') \subseteq InNow /\ AllTell(ranked', sc)
    BY <1>0, <1>2, RecheckIs
  <2>2. graph' \in Seq(LegEntry)
    BY <2>1 DEF CallInv
  <2> QED
    BY <1>0, <2>1, <2>2, RankKeeps DEF HybridPhase, RankedPhase
<1> QED
  BY <1>1, <1>2

(* The later phases work on a list of authorized candidates.               *)
LEMMA LaterRanked ==
  ASSUME CallInv, AnswerInv, pc \in {"names", "text", "rerank", "impact"}
  PROVE  /\ pc # "idle" /\ pc \in HybridPhase /\ graph \in Seq(LegEntry)
         /\ EntryList(ranked) /\ AllTell(ranked, sc) /\ NodesOf(ranked) \subseteq checked
         /\ Len(ranked) \in Nat /\ DOMAIN ranked = 1 .. Len(ranked)
         /\ \A i \in 1 .. Len(ranked) : ranked[i] \in EntryType /\ Tells(ranked[i], sc)
<1>1. pc # "idle" /\ pc \in HybridPhase /\ pc \in RankedPhase \ {"recheck"}
  BY DEF HybridPhase, RankedPhase
<1>2. /\ graph \in Seq(LegEntry)
      /\ EntryList(ranked) /\ AllTell(ranked, sc) /\ NodesOf(ranked) \subseteq checked
  BY <1>1 DEF CallInv, AnswerInv
<1>3. ranked \in Seq(EntryType)
  BY <1>2 DEF EntryList
<1>4. Len(ranked) \in Nat /\ DOMAIN ranked = 1 .. Len(ranked)
      /\ \A i \in 1 .. Len(ranked) : ranked[i] \in EntryType
  BY <1>3
<1> QED
  BY <1>1, <1>2, <1>4 DEF AllTell

Hydrated(e) == IF e.name = NoLabel /\ Visible(e.node)
               THEN [e EXCEPT !.name = label[e.node]] ELSE e

LEMMA HydratedIs ==
  ASSUME label \in [Node -> Name], NEW e \in EntryType, Tells(e, sc)
  PROVE  LET h == Hydrated(e)
         IN /\ h \in EntryType /\ h.node = e.node /\ Tells(h, sc)
            /\ h.final = e.final /\ h.graphRank = e.graphRank /\ h.vectorRank = e.vectorRank
            /\ h.hop = e.hop
<1>1. e.node \in Node /\ label[e.node] \in Name
  BY DEF EntryType
<1>2. CASE e.name = NoLabel /\ Visible(e.node)
  <2> DEFINE h == [e EXCEPT !.name = label[e.node]]
  <2>1. /\ h \in EntryType /\ h.node = e.node /\ h.text = e.text /\ h.name = label[e.node]
        /\ h.final = e.final /\ h.graphRank = e.graphRank /\ h.vectorRank = e.vectorRank
        /\ h.hop = e.hop
    BY <1>1 DEF EntryType
  <2> HIDE DEF h
  <2>2. InScope(label[e.node], sc)
    BY <1>2 DEF Visible
  <2>3. Tells(h, sc)
    BY <2>1, <2>2 DEF Tells
  <2>4. Hydrated(e) = h
    BY <1>2 DEF Hydrated, h
  <2> QED
    BY <2>1, <2>3, <2>4
<1>3. CASE ~ (e.name = NoLabel /\ Visible(e.node))
  BY <1>3 DEF Hydrated
<1> QED
  BY <1>2, <1>3

LEMMA NamesKeeps ==
  ASSUME CallInv, AnswerInv, HydrateNames
  PROVE  CallInv' /\ AnswerInv'
<1>1. pc = "names"
  BY DEF HydrateNames
<1>2. /\ pc # "idle" /\ pc \in HybridPhase /\ graph \in Seq(LegEntry)
      /\ EntryList(ranked) /\ AllTell(ranked, sc) /\ NodesOf(ranked) \subseteq checked
      /\ Len(ranked) \in Nat /\ DOMAIN ranked = 1 .. Len(ranked)
      /\ \A i \in 1 .. Len(ranked) : ranked[i] \in EntryType /\ Tells(ranked[i], sc)
  BY <1>1, LaterRanked
<1>3. CASE FailWith("Internal")
  BY <1>2, <1>3, FailKeeps
<1>4. CASE ~ FailWith("Internal")
  <2>1. ranked' = [i \in DOMAIN ranked |-> Hydrated(ranked[i])]
    BY <1>4 DEF HydrateNames, Hydrated
  <2>2. /\ pc' \in {"text", "rerank"} /\ reply' = reply
        /\ UNCHANGED <<label, sc, q, vector, graph, checked>>
    BY <1>4 DEF HydrateNames, Goto, graphVars
  <2>3. label \in [Node -> Name]
    BY DEF CallInv
  <2>4. \A i \in 1 .. Len(ranked) :
          ranked'[i] \in EntryType /\ ranked'[i].node = ranked[i].node /\ Tells(ranked'[i], sc)
    BY <1>2, <2>1, <2>3, HydratedIs
  <2>5. ranked' = [i \in DOMAIN ranked |-> ranked'[i]]
    BY <2>1
  <2>6. /\ EntryList(ranked') /\ NodesOf(ranked') = NodesOf(ranked)
        /\ DOMAIN ranked' = 1 .. Len(ranked)
    BY <1>2, <2>4, <2>5, SameNodes
  <2>7. AllTell(ranked', sc)
    BY <2>4, <2>6 DEF AllTell
  <2>8. graph' \in Seq(LegEntry) /\ pc' \in RankedPhase /\ NodesOf(ranked') \subseteq checked'
    BY <1>2, <2>2, <2>6 DEF RankedPhase
  <2> QED
    BY <1>2, <2>2, <2>6, <2>7, <2>8, RankKeeps
<1> QED
  BY <1>3, <1>4

TextOf(s, hits, n) ==
  /\ s \in Seq(Chunk)
  /\ \A k \in DOMAIN s : /\ s[k] \in hits /\ s[k].node = n
                         /\ k > 1 => s[k - 1].index <= s[k].index

LEMMA TextIs ==
  ASSUME NEW hits \in SUBSET Chunk, NEW n,
         NEW s \in InIndexOrder({d \in hits : d.node = n})
  PROVE  TextOf(s, hits, n)
<1> DEFINE docs == {d \in hits : d.node = n}
           c == Cardinality(docs)
<1>1. docs \subseteq Chunk /\ IsFiniteSet(Chunk)
  BY QueriesAssumption
<1>2. s \in SetToSeqs(docs) /\ \A i, j \in DOMAIN s : i < j => s[i].index <= s[j].index
  BY DEF InIndexOrder
<1>3. \A d \in docs : d \in hits /\ d \in Chunk /\ d.node = n
  OBVIOUS
<1> HIDE DEF docs
<1>4. Lists(s, c, docs)
  BY <1>1, <1>2, FS_Subset, OrdersList
<1> HIDE DEF c
<1>5. c \in Nat /\ DOMAIN s = 1 .. c /\ s \in Seq(docs) /\ \A k \in 1 .. c : s[k] \in docs
  BY <1>4 DEF Lists
<1>6. \A k \in 1 .. c : s[k] \in hits /\ s[k].node = n
  BY <1>3, <1>5
<1>7. ASSUME NEW k \in 1 .. c, k > 1 PROVE s[k - 1].index <= s[k].index
  <2>1. k - 1 \in 1 .. c /\ k - 1 < k
    BY <1>5, <1>7
  <2> QED
    BY <1>2, <1>5, <2>1
<1>8. s \in Seq(Chunk)
  BY <1>3, <1>5
<1> QED
  BY <1>5, <1>6, <1>7, <1>8 DEF TextOf

LEMMA TextKeeps ==
  ASSUME CallInv, AnswerInv, HydrateSourceText
  PROVE  CallInv' /\ AnswerInv'
<1>1. pc = "text"
  BY DEF HydrateSourceText
<1>2. /\ pc # "idle" /\ pc \in HybridPhase /\ graph \in Seq(LegEntry)
      /\ EntryList(ranked) /\ AllTell(ranked, sc) /\ NodesOf(ranked) \subseteq checked
      /\ Len(ranked) \in Nat /\ DOMAIN ranked = 1 .. Len(ranked)
      /\ \A i \in 1 .. Len(ranked) : ranked[i] \in EntryType /\ Tells(ranked[i], sc)
  BY <1>1, LaterRanked
<1>3. CASE FailWith("Internal")
  BY <1>2, <1>3, FailKeeps
<1>4. CASE ~ FailWith("Internal")
  <2> DEFINE found == {d \in Chunk : /\ InScope(d.label, sc)
                                     /\ \E i \in DOMAIN ranked : ranked[i].node = d.node}
  <2>a. PICK hits \in Largest(found, SourceHits) :
          \E text \in [DOMAIN ranked -> UNION {SetToSeqs(docs) : docs \in SUBSET hits}] :
            /\ \A i \in DOMAIN ranked :
                 text[i] \in InIndexOrder({d \in hits : d.node = ranked[i].node})
            /\ ranked' = [i \in DOMAIN ranked |-> [ranked[i] EXCEPT !.text = text[i]]]
    BY <1>4 DEF HydrateSourceText
  <2>1. PICK text \in [DOMAIN ranked -> UNION {SetToSeqs(docs) : docs \in SUBSET hits}] :
          /\ \A i \in DOMAIN ranked :
               text[i] \in InIndexOrder({d \in hits : d.node = ranked[i].node})
          /\ ranked' = [i \in DOMAIN ranked |-> [ranked[i] EXCEPT !.text = text[i]]]
    BY <2>a
  <2>2. /\ pc' = "rerank" /\ reply' = reply
        /\ UNCHANGED <<label, sc, q, vector, graph, checked>>
    BY <1>4 DEF HydrateSourceText, Goto, graphVars
  <2>3. hits \subseteq found
    BY <2>a DEF Largest, kSubset
  <2>4. hits \subseteq Chunk /\ \A d \in hits : InScope(d.label, sc)
    BY <2>3
  <2> HIDE DEF found
  <2>5. ASSUME NEW i \in 1 .. Len(ranked)
        PROVE  /\ ranked'[i] \in EntryType /\ ranked'[i].node = ranked[i].node
               /\ Tells(ranked'[i], sc)
    <3> DEFINE e == ranked[i]
               x == text[i]
               h == [e EXCEPT !.text = x]
    <3>1. x \in InIndexOrder({d \in hits : d.node = e.node})
      BY <1>2, <2>1
    <3>2. ranked'[i] = h /\ e \in EntryType /\ Tells(e, sc)
      BY <1>2, <2>1
    <3> HIDE DEF e, x
    <3>b. TextOf(x, hits, e.node)
      BY <2>4, <3>1, TextIs
    <3>3. /\ x \in Seq(Chunk)
          /\ \A k \in DOMAIN x : /\ x[k] \in hits /\ x[k].node = e.node
                                 /\ k > 1 => x[k - 1].index <= x[k].index
      BY <3>b, Zenon DEF TextOf
    <3>a. x \in Seq(Chunk) /\ e \in EntryType
      BY <3>2, <3>3
    <3>4. h \in EntryType /\ h.node = e.node /\ h.name = e.name /\ h.text = x
      BY <3>a DEF EntryType
    <3> HIDE DEF h
    <3>5. h.name # NoLabel => InScope(h.name, sc)
      BY <3>2, <3>4 DEF Tells
    <3>6. \A k \in DOMAIN h.text : InScope(h.text[k].label, sc)
      <4>1. \A k \in DOMAIN x : x[k] \in hits
        BY <3>3
      <4> QED
        BY <2>4, <3>4, <4>1, Zenon
    <3>7. Tells(h, sc)
      BY <3>3, <3>4, <3>5, <3>6, Zenon DEF Tells
    <3> QED
      BY <3>2, <3>4, <3>7 DEF e
  <2>6. ranked' = [i \in DOMAIN ranked |-> ranked'[i]]
    BY <2>1
  <2>7. /\ EntryList(ranked') /\ NodesOf(ranked') = NodesOf(ranked)
        /\ DOMAIN ranked' = 1 .. Len(ranked)
    BY <1>2, <2>5, <2>6, SameNodes
  <2>8. AllTell(ranked', sc)
    BY <2>5, <2>7 DEF AllTell
  <2>9. graph' \in Seq(LegEntry) /\ pc' \in RankedPhase /\ NodesOf(ranked') \subseteq checked'
    BY <1>2, <2>2, <2>7 DEF RankedPhase
  <2> QED
    BY <1>2, <2>2, <2>7, <2>8, <2>9, RankKeeps
<1> QED
  BY <1>3, <1>4

-----------------------------------------------------------------------------
(* The end of the hybrid search.                                           *)

LEMMA RespondIs ==
  ASSUME NEW nodes, Respond(nodes)
  PROVE  /\ pc' = "replied" /\ reply'.nodes = nodes /\ reply'.code = "OK"
         /\ reply'.graphCandidates = Cardinality({i \in DOMAIN ranked : ranked[i].graphRank > 0})
         /\ reply'.vectorCandidates = Cardinality({i \in DOMAIN ranked : ranked[i].vectorRank > 0})
         /\ reply'.degraded = (Cardinality({i \in DOMAIN ranked : ranked[i].vectorRank > 0}) = 0)
BY DEF Respond, Finish

LEMMA WithoutRerankKeeps ==
  ASSUME CallInv, AnswerInv, WithoutRerank
  PROVE  CallInv' /\ AnswerInv'
<1>1. pc = "rerank" /\ Respond(ranked) /\ UNCHANGED <<label, sc, q, vector, graph, ranked, checked>>
  BY DEF WithoutRerank, graphVars
<1>2. /\ pc # "idle"
      /\ EntryList(ranked) /\ AllTell(ranked, sc) /\ NodesOf(ranked) \subseteq checked
  BY <1>1, LaterRanked
<1>3. pc' = "replied" /\ reply'.nodes = ranked
  BY <1>1, RespondIs
<1>4. EntryList(reply'.nodes) /\ AllTell(reply'.nodes, sc) /\ NodesOf(reply'.nodes) \subseteq checked'
  BY <1>1, <1>2, <1>3
<1> QED
  BY <1>1, <1>2, <1>3, <1>4, ReplyKeeps DEF EndPhase

LEMMA RerankKeeps ==
  ASSUME CallInv, AnswerInv, CallReranker
  PROVE  CallInv' /\ AnswerInv'
<1>1. pc = "rerank"
  BY DEF CallReranker
<1>2. /\ pc # "idle" /\ pc \in HybridPhase /\ graph \in Seq(LegEntry)
      /\ EntryList(ranked) /\ AllTell(ranked, sc) /\ NodesOf(ranked) \subseteq checked
      /\ Len(ranked) \in Nat /\ DOMAIN ranked = 1 .. Len(ranked)
      /\ \A i \in 1 .. Len(ranked) : ranked[i] \in EntryType /\ Tells(ranked[i], sc)
  BY <1>1, LaterRanked
<1>3. CASE FailWith("Internal")
  BY <1>2, <1>3, FailKeeps
<1>4. CASE ~ FailWith("Internal")
  <2>1. PICK score \in [DOMAIN ranked -> RerankScore] :
          ranked' = [i \in DOMAIN ranked |-> [ranked[i] EXCEPT !.final = score[i]]]
    BY <1>4 DEF CallReranker
  <2>2. /\ pc' = "impact" /\ reply' = reply
        /\ UNCHANGED <<label, sc, q, vector, graph, checked>>
    BY <1>4 DEF CallReranker, Goto, graphVars
  <2>3. ASSUME NEW i \in 1 .. Len(ranked)
        PROVE  /\ ranked'[i] \in EntryType /\ ranked'[i].node = ranked[i].node
               /\ Tells(ranked'[i], sc)
    <3> DEFINE e == ranked[i]
               x == score[i]
               h == [e EXCEPT !.final = x]
    <3>1. x \in Nat
      BY <1>2, <2>1, QueriesAssumption
    <3>2. ranked'[i] = h /\ e \in EntryType /\ Tells(e, sc)
      BY <1>2, <2>1
    <3> HIDE DEF e, x
    <3>3. h \in EntryType /\ h.node = e.node /\ h.name = e.name /\ h.text = e.text
      BY <3>1, <3>2 DEF EntryType
    <3> HIDE DEF h
    <3>4. Tells(h, sc)
      BY <3>2, <3>3 DEF Tells
    <3> QED
      BY <3>2, <3>3, <3>4 DEF e
  <2>4. ranked' = [i \in DOMAIN ranked |-> ranked'[i]]
    BY <2>1
  <2>5. /\ EntryList(ranked') /\ NodesOf(ranked') = NodesOf(ranked)
        /\ DOMAIN ranked' = 1 .. Len(ranked)
    BY <1>2, <2>3, <2>4, SameNodes
  <2>6. AllTell(ranked', sc)
    BY <2>3, <2>5 DEF AllTell
  <2>7. graph' \in Seq(LegEntry) /\ pc' \in RankedPhase /\ NodesOf(ranked') \subseteq checked'
    BY <1>2, <2>2, <2>5 DEF RankedPhase
  <2> QED
    BY <1>2, <2>2, <2>5, <2>6, <2>7, RankKeeps
<1> QED
  BY <1>3, <1>4

Boosted(i, fresh) ==
  [ranked[i] EXCEPT
     !.impact = IF i \in fresh THEN 1 ELSE 0,
     !.final = @ + Proximity(ranked[i]) \div 2 + IF i \in fresh THEN Beta \div 2 ELSE 0]

LEMMA BoostedIs ==
  ASSUME NEW i, ranked[i] \in EntryType, Tells(ranked[i], sc), NEW fresh
  PROVE  /\ Boosted(i, fresh) \in EntryType /\ Boosted(i, fresh).node = ranked[i].node
         /\ Tells(Boosted(i, fresh), sc)
<1> DEFINE e == ranked[i]
           impact == IF i \in fresh THEN 1 ELSE 0
           final == e.final + Proximity(e) \div 2 + IF i \in fresh THEN Beta \div 2 ELSE 0
           h == [e EXCEPT !.impact = impact, !.final = final]
<1>1. e \in EntryType /\ Tells(e, sc)
  OBVIOUS
<1>2. Boosted(i, fresh) = h
  BY DEF Boosted
<1> HIDE DEF e
<1>3. e.hop \in Nat /\ e.final \in Nat
  BY <1>1 DEF EntryType
<1>4. Proximity(e) \in Nat
  BY <1>3, ProximityNat
<1>5. Proximity(e) \div 2 \in Nat /\ Beta \div 2 \in Nat
  BY <1>4, QueriesAssumption
<1>6. impact \in Nat /\ final \in Nat
  BY <1>3, <1>5
<1> HIDE DEF impact, final
<1>7. h \in EntryType /\ h.node = e.node /\ h.name = e.name /\ h.text = e.text
  BY <1>1, <1>6 DEF EntryType
<1> HIDE DEF h
<1>8. Tells(h, sc)
  BY <1>1, <1>7 DEF Tells
<1> QED
  BY <1>2, <1>7, <1>8 DEF e

LEMMA ImpactIs ==
  ASSUME CallInv, AnswerInv, ReadImpact, ~ FailWith("Internal")
  PROVE  /\ pc = "impact" /\ UNCHANGED <<label, changes, sc, q, vector, graph, ranked, checked, lost, packed>>
         /\ \E order : /\ Respond(Limit(order, TopK)) /\ EntryList(order)
                       /\ AllTell(order, sc) /\ NodesOf(order) = NodesOf(ranked)
<1>1. pc = "impact" /\ UNCHANGED <<label, changes, sc, q, vector, graph, ranked, checked, lost, packed>>
  BY DEF ReadImpact, graphVars
<1>2. /\ EntryList(ranked) /\ Len(ranked) \in Nat /\ DOMAIN ranked = 1 .. Len(ranked)
      /\ \A i \in 1 .. Len(ranked) : ranked[i] \in EntryType /\ Tells(ranked[i], sc)
  BY <1>1, LaterRanked
<1>3. PICK fresh \in SUBSET {i \in DOMAIN ranked : Visible(ranked[i].node)} :
        \E order \in ByScore({Boosted(i, fresh) : i \in DOMAIN ranked}) :
          Respond(Limit(order, TopK))
  BY DEF ReadImpact, Boosted
<1> DEFINE S == {Boosted(i, fresh) : i \in DOMAIN ranked}
           f == [i \in DOMAIN ranked |-> Boosted(i, fresh)]
<1>4. PICK order \in ByScore(S) : Respond(Limit(order, TopK))
  BY <1>3
<1>5. \A i \in 1 .. Len(ranked) :
        f[i] \in EntryType /\ f[i].node = ranked[i].node /\ Tells(f[i], sc)
  BY <1>2, BoostedIs
<1>6. S = {f[i] : i \in 1 .. Len(ranked)}
  BY <1>2
<1>7. IsFiniteSet(S)
  <2>1. IsFiniteSet(1 .. Len(ranked)) /\ DOMAIN f = 1 .. Len(ranked)
    BY <1>2, FS_Interval
  <2> HIDE DEF f, S
  <2> QED
    BY <1>6, <2>1, ImageFinite
<1>8. order \in SetToSeqs(S)
  BY <1>4 DEF ByScore
<1> HIDE DEF f, S
<1>9. /\ S \subseteq EntryType /\ \A e \in S : Tells(e, sc)
      /\ {e.node : e \in S} = NodesOf(ranked)
  BY <1>2, <1>5, <1>6 DEF NodesOf
<1>10. \A a, b \in S : a.node = b.node => a = b
  <2>1. ASSUME NEW i \in 1 .. Len(ranked), NEW j \in 1 .. Len(ranked), f[i].node = f[j].node
        PROVE  f[i] = f[j]
    <3>1. ranked[i].node = ranked[j].node
      BY <1>5, <2>1
    <3> QED
      BY <1>2, <3>1 DEF EntryList, Distinct
  <2> QED
    BY <1>6, <2>1
<1>11. /\ EntryList(order) /\ NodesOf(order) = {e.node : e \in S}
       /\ \A i \in 1 .. Len(order) : order[i] \in S
  BY <1>7, <1>8, <1>9, <1>10, ListingIs
<1>12. AllTell(order, sc)
  <2>1. DOMAIN order = 1 .. Len(order)
    BY <1>11 DEF EntryList
  <2> QED
    BY <1>9, <1>11, <2>1 DEF AllTell
<1> QED
  BY <1>1, <1>4, <1>9, <1>11, <1>12

LEMMA ImpactKeeps ==
  ASSUME CallInv, AnswerInv, ReadImpact
  PROVE  CallInv' /\ AnswerInv'
<1>1. pc = "impact"
  BY DEF ReadImpact
<1>2. pc # "idle" /\ pc \in HybridPhase /\ NodesOf(ranked) \subseteq checked
  BY <1>1, LaterRanked
<1>3. CASE FailWith("Internal")
  BY <1>2, <1>3, FailKeeps
<1>4. CASE ~ FailWith("Internal")
  <2>1. UNCHANGED <<label, sc, q, vector, graph, ranked, checked>>
    BY <1>4, ImpactIs
  <2>2. PICK order : /\ Respond(Limit(order, TopK)) /\ EntryList(order)
                     /\ AllTell(order, sc) /\ NodesOf(order) = NodesOf(ranked)
    BY <1>4, ImpactIs
  <2>3. TopK \in Nat /\ order \in Seq(EntryType)
    BY <1>2, <2>2, TopKNat DEF EntryList
  <2> DEFINE best == Limit(order, TopK)
  <2>4. Picks(best, order, [i \in 1 .. Len(best) |-> i])
    BY <2>3, LimitPicks
  <2> HIDE DEF best
  <2>5. EntryList(best) /\ AllTell(best, sc) /\ NodesOf(best) \subseteq checked
    BY <1>2, <2>2, <2>4, PicksList
  <2>6. pc' = "replied" /\ reply'.nodes = best
    BY <2>2, RespondIs DEF best
  <2>7. EntryList(reply'.nodes) /\ AllTell(reply'.nodes, sc) /\ NodesOf(reply'.nodes) \subseteq checked'
    BY <2>1, <2>5, <2>6
  <2> QED
    BY <1>2, <2>1, <2>6, <2>7, ReplyKeeps DEF EndPhase
<1> QED
  BY <1>3, <1>4

LEMMA PackKeeps ==
  ASSUME CallInv, AnswerInv, PackReply
  PROVE  CallInv' /\ AnswerInv'
<1>1. /\ pc = "replied" /\ pc' = "packed" /\ reply' = reply
      /\ UNCHANGED <<label, sc, q, vector, graph, ranked, checked>>
  BY DEF PackReply, graphVars
<1>2. EntryList(reply'.nodes) /\ AllTell(reply'.nodes, sc) /\ NodesOf(reply'.nodes) \subseteq checked'
  BY <1>1 DEF AnswerInv
<1> QED
  BY <1>1, <1>2, ReplyKeeps DEF EndPhase

LEMMA MergeIs ==
  ASSUME label \in [Node -> Name], MergeNode
  PROVE  /\ label' \in [Node -> Name] /\ changes' = changes + 1
         /\ UNCHANGED <<pc, sc, q, vector, graph, ranked, checked, lost, reply, packed>>
<1>1. PICK m \in LaterLabel : label' = [label EXCEPT ![m[1]] = m[2]]
  BY DEF MergeNode
<1>2. m[1] \in Node /\ m[2] \in Name
  BY QueriesAssumption DEF Name
<1>3. label' \in [Node -> Name]
  BY <1>1, <1>2
<1> QED
  BY <1>3 DEF MergeNode

LEMMA StutterKeeps ==
  ASSUME CallInv, AnswerInv, label' \in [Node -> Name],
         UNCHANGED <<pc, sc, q, vector, graph, ranked, checked, lost, reply, packed>>
  PROVE  CallInv' /\ AnswerInv'
<1>1. CallInv'
  BY DEF CallInv
<1>2. AnswerInv'
  BY DEF AnswerInv, EntryList, AllTell, NodesOf
<1> QED
  BY <1>1, <1>2

LEMMA CallStep ==
  ASSUME CallInv, AnswerInv, [Next]_vars
  PROVE  CallInv' /\ AnswerInv'
<1>0. label \in [Node -> Name]
  BY DEF CallInv
<1>1. CASE MergeNode
  BY <1>0, <1>1, MergeIs, StutterKeeps
<1>2. CASE Receive
  BY <1>2, ReceiveKeeps
<1>3. CASE GetNode
  BY <1>3, GetKeeps
<1>4. CASE ExpandNeighbors
  BY <1>4, ExpandKeeps
<1>5. CASE FullText
  BY <1>5, FullTextKeeps
<1>6. CASE EmbedQuery
  BY <1>6, EmbedKeeps
<1>7. CASE VectorSearch
  BY <1>7, VectorKeeps
<1>8. CASE GraphTraversal
  BY <1>8, TraversalKeeps
<1>9. CASE RecheckAuthorized
  BY <1>9, RecheckKeeps
<1>10. CASE HydrateNames
  BY <1>10, NamesKeeps
<1>11. CASE HydrateSourceText
  BY <1>11, TextKeeps
<1>12. CASE WithoutRerank
  BY <1>12, WithoutRerankKeeps
<1>13. CASE CallReranker
  BY <1>13, RerankKeeps
<1>14. CASE ReadImpact
  BY <1>14, ImpactKeeps
<1>15. CASE PackReply
  BY <1>15, PackKeeps
<1>16. CASE UNCHANGED vars
  BY <1>0, <1>16, StutterKeeps DEF vars
<1> QED
  BY <1>1, <1>2, <1>3, <1>4, <1>5, <1>6, <1>7, <1>8, <1>9, <1>10, <1>11, <1>12, <1>13,
     <1>14, <1>15, <1>16 DEF Next

LEMMA AnswerFollows ==
  ASSUME AnswerInv
  PROVE  AnsweredInScope
<1> DEFINE s == reply.nodes
<1>1. EntryList(s) /\ AllTell(s, sc) /\ NodesOf(s) \subseteq checked
  BY DEF AnswerInv
<1> HIDE DEF s
<1>2. Distinct(s, Len(s)) /\ DOMAIN s = 1 .. Len(s)
  BY <1>1 DEF EntryList
<1>3. Cardinality(NodesOf(s)) = Len(s)
  BY <1>2, DistinctCount
<1>4. \A i \in DOMAIN s : s[i].node \in checked /\ Tells(s[i], sc)
  BY <1>1 DEF AllTell, NodesOf
<1> QED
  BY <1>3, <1>4 DEF AnsweredInScope, Tells, s

(* Whatever the call, the graph and the writes to it between its steps, a  *)
(* reply names only nodes Neo4j showed the caller as it was authorized,    *)
(* and tells of them only what was in scope when it was read.              *)
THEOREM AnswersStayInScope == Spec => []AnsweredInScope
<1>1. Init => CallInv /\ AnswerInv
  BY CallInitially
<1>2. CallInv /\ AnswerInv /\ [Next]_vars => CallInv' /\ AnswerInv'
  BY CallStep
<1> QED
  BY <1>1, <1>2, AnswerFollows, PTL DEF Spec

-----------------------------------------------------------------------------
(* Reciprocal ranks. A rank earlier contributes more, so a node that never *)
(* falls behind another one along a leg scores no less in it, and more     *)
(* once the other one is found.                                            *)

LEMMA TimesMore ==
  ASSUME NEW x \in Nat, NEW y \in Nat, NEW d \in Nat, x >= y + 1
  PROVE  x * d >= y * d + d
OBVIOUS

LEMMA TimesNext ==
  ASSUME NEW y \in Nat, NEW d \in Nat
  PROVE  y * (d + 1) = y * d + y
OBVIOUS

LEMMA ExactDivision ==
  ASSUME NEW s \in Nat, NEW m \in Nat, m > 0, s % m = 0
  PROVE  s = (s \div m) * m /\ s \div m \in Nat
OBVIOUS

LEMMA DivisionLess ==
  ASSUME NEW s \in Nat, NEW m \in Nat, m > 0, s > 0, s % m = 0, s % (m + 1) = 0
  PROVE  s \div (m + 1) < s \div m
<1>1. s = (s \div m) * m /\ s \div m \in Nat
  BY ExactDivision
<1>2. s = (s \div (m + 1)) * (m + 1) /\ s \div (m + 1) \in Nat
  BY ExactDivision
<1> DEFINE x == s \div m
           y == s \div (m + 1)
<1> HIDE DEF x, y
<1>3. s = x * m /\ s = y * (m + 1) /\ x \in Nat /\ y \in Nat
  BY <1>1, <1>2 DEF x, y
<1>4. y < x
  BY <1>3
<1> QED
  BY <1>4 DEF x, y

LEMMA DivisionMonotone ==
  ASSUME NEW s \in Nat, NEW m \in Nat, NEW n \in Nat, m > 0, m <= n
  PROVE  s \div n <= s \div m
OBVIOUS

(* Contributions fall strictly along a leg of up to limit entries. *)
Falls(limit) ==
  \A k \in Nat : k > 0 /\ k + 1 <= limit => Contribution(k + 1) < Contribution(k)

LEMMA ContributionsFall ==
  ASSUME NEW limit \in {Cardinality(Node), Cardinality(Point)}
  PROVE  Falls(limit)
<1>1. limit \in Nat
  BY QueriesAssumption, FS_CardinalityType
<1>2. Scale \in Nat /\ RRFK \in Nat /\ Scale > 0
  BY QueriesAssumption, ScaleAssumption
<1>3. \A rank \in 1 .. limit : Scale % (RRFK + rank) = 0
  BY ScaleAssumption
<1>4. ASSUME NEW k \in Nat, k > 0, k + 1 <= limit
      PROVE  Contribution(k + 1) < Contribution(k)
  <2> DEFINE m == RRFK + k
  <2>1. m \in Nat /\ m > 0 /\ m + 1 = RRFK + (k + 1)
    BY <1>2, <1>4
  <2>2. k \in 1 .. limit /\ k + 1 \in 1 .. limit
    BY <1>1, <1>4
  <2>3. Scale % m = 0
    BY <1>3, <2>2
  <2>4. Scale % (RRFK + (k + 1)) = 0
    BY <1>3, <2>2
  <2> HIDE DEF m
  <2>5. Scale \div (m + 1) < Scale \div m
    BY <1>2, <2>1, <2>3, <2>4, DivisionLess
  <2> QED
    BY <2>1, <2>5 DEF Contribution, m
<1> QED
  BY <1>4 DEF Falls

(* How often a node occurs among the first k entries of a leg. *)
UpTo(leg, n, k) == Cardinality({i \in Ranks(leg, n) : i <= k})

Counts(leg, n) ==
  /\ UpTo(leg, n, 0) = 0
  /\ \A k \in Nat : UpTo(leg, n, k) \in Nat
  /\ \A k \in Nat : k + 1 <= Len(leg) =>
       UpTo(leg, n, k + 1) = UpTo(leg, n, k) + (IF leg[k + 1].node = n THEN 1 ELSE 0)

LEMMA UpToIs ==
  ASSUME NEW S, NEW leg \in Seq(S), NEW n
  PROVE  Counts(leg, n)
<1> DEFINE A(k) == {i \in Ranks(leg, n) : i <= k}
<1>0. Len(leg) \in Nat /\ Ranks(leg, n) = {i \in 1 .. Len(leg) : leg[i].node = n}
  BY DEF Ranks
<1>1. ASSUME NEW k \in Nat PROVE IsFiniteSet(A(k)) /\ Cardinality(A(k)) \in Nat
  <2>1. A(k) \subseteq 1 .. Len(leg) /\ IsFiniteSet(1 .. Len(leg))
    BY <1>0, FS_Interval
  <2> HIDE DEF A
  <2>2. IsFiniteSet(A(k))
    BY <2>1, FS_Subset
  <2> QED
    BY <2>2, FS_CardinalityType
<1>2. UpTo(leg, n, 0) = 0
  <2>1. A(0) = {}
    BY <1>0
  <2> QED
    BY <2>1, FS_EmptySet DEF UpTo
<1>3. ASSUME NEW k \in Nat, k + 1 <= Len(leg)
      PROVE  UpTo(leg, n, k + 1) = UpTo(leg, n, k) + (IF leg[k + 1].node = n THEN 1 ELSE 0)
  <2>1. CASE leg[k + 1].node = n
    <3>1. A(k + 1) = A(k) \cup {k + 1} /\ k + 1 \notin A(k)
      BY <1>0, <1>3, <2>1
    <3> HIDE DEF A
    <3>2. Cardinality(A(k + 1)) = Cardinality(A(k)) + 1
      BY <1>1, <3>1, FS_AddElement
    <3> QED
      BY <2>1, <3>2 DEF UpTo, A
  <2>2. CASE leg[k + 1].node # n
    <3>1. A(k + 1) = A(k)
      BY <1>0, <1>3, <2>2
    <3>2. Cardinality(A(k)) \in Nat
      BY <1>1
    <3>3. UpTo(leg, n, k) = Cardinality(A(k)) /\ UpTo(leg, n, k + 1) = Cardinality(A(k + 1))
      BY DEF UpTo
    <3> HIDE DEF A
    <3> QED
      BY <2>2, <3>1, <3>2, <3>3
  <2> QED
    BY <2>1, <2>2
<1>4. \A k \in Nat : UpTo(leg, n, k) \in Nat
  BY <1>1 DEF UpTo
<1> QED
  BY <1>2, <1>3, <1>4 DEF Counts

LEMMA LeadKept ==
  ASSUME NEW s \in Nat, NEW t \in Nat, NEW d \in Nat, NEW c \in Nat, NEW c1 \in Nat,
         c1 < c \/ d = 0, NEW m \in {0, 1}, s >= t + c * d + m
  PROVE  /\ s + c1 >= t + c1 * (d + 1) + m
         /\ s >= t + c1 * d + m
         /\ d > 0 => s >= (t + c1) + c1 * (d - 1) + 1
<1>1. s >= t + c1 * d + m /\ (d > 0 => s >= t + c1 * d + d + m)
  <2>1. CASE d = 0
    <3>1. c * d = 0 /\ c1 * d = 0
      BY <2>1
    <3> QED
      BY <2>1, <3>1
  <2>2. CASE c1 < c
    <3>1. c * d >= c1 * d + d /\ c * d \in Nat /\ c1 * d \in Nat
      BY <2>2, TimesMore
    <3> QED
      BY <3>1
  <2> QED
    BY <2>1, <2>2
<1>2. c1 * (d + 1) = c1 * d + c1 /\ c1 * d \in Nat
  BY TimesNext
<1>3. d > 0 => c1 * d = c1 * (d - 1) + c1 /\ c1 * (d - 1) \in Nat
  <2>1. SUFFICES ASSUME d > 0 PROVE c1 * d = c1 * (d - 1) + c1 /\ c1 * (d - 1) \in Nat
    OBVIOUS
  <2>2. d - 1 \in Nat /\ (d - 1) + 1 = d
    BY <2>1
  <2> QED
    BY <2>2, TimesNext
<1> DEFINE p == c1 * d
           r == c1 * (d + 1)
           u == c1 * (d - 1)
<1>4. /\ s >= t + p + m /\ (d > 0 => s >= t + p + d + m) /\ r = p + c1 /\ p \in Nat
      /\ (d > 0 => p = u + c1 /\ u \in Nat)
  BY <1>1, <1>2, <1>3
<1> HIDE DEF p, r, u
<1>5. /\ s + c1 >= t + r + m /\ s >= t + p + m
      /\ d > 0 => s >= (t + c1) + u + 1
  BY <1>4
<1> QED
  BY <1>5 DEF p, r, u

(* Two sums of falling terms, over the places ia and ib; A and B count     *)
(* the places up to k.                                                     *)
CountOver(f, at, n) ==
  /\ f \in [Nat -> Nat] /\ f[0] = 0
  /\ \A k \in Nat : k + 1 <= n => f[k + 1] = f[k] + (IF k + 1 \in at THEN 1 ELSE 0)
SumOver(f, at, w, n) ==
  /\ f \in [Nat -> Nat] /\ f[0] = 0
  /\ \A k \in Nat : k + 1 <= n => f[k + 1] = f[k] + (IF k + 1 \in at THEN w[k + 1] ELSE 0)
FallingTerms(w, n) ==
  w \in [Nat -> Nat] /\ \A k \in Nat : k > 0 /\ k + 1 <= n => w[k + 1] < w[k]

LEMMA SumsLead ==
  ASSUME NEW n \in Nat, NEW fa, NEW fb, NEW A, NEW B, NEW c, NEW ia, NEW ib,
         ia \cap ib = {}, CountOver(A, ia, n), CountOver(B, ib, n),
         FallingTerms(c, n), SumOver(fa, ia, c, n), SumOver(fb, ib, c, n),
         \A k \in 1 .. n : A[k] >= B[k]
  PROVE  fa[n] >= fb[n] /\ (B[n] > 0 => fa[n] > fb[n])
<1> DEFINE m(k) == IF B[k] > 0 THEN 1 ELSE 0
           T == {k \in Nat : k <= n => /\ A[k] >= B[k]
                                       /\ fa[k] >= fb[k] + c[k] * (A[k] - B[k]) + m(k)}
<1> USE DEF CountOver, SumOver, FallingTerms
<1>0. /\ fa \in [Nat -> Nat] /\ fb \in [Nat -> Nat] /\ A \in [Nat -> Nat]
      /\ B \in [Nat -> Nat] /\ c \in [Nat -> Nat]
  OBVIOUS
<1>1. 0 \in T
  <2>1. c[0] * 0 = 0 /\ A[0] - B[0] = 0
    OBVIOUS
  <2> QED
    BY <2>1
<1>2. ASSUME NEW k \in Nat, k \in T PROVE k + 1 \in T
  <2>1. SUFFICES ASSUME k + 1 <= n PROVE k + 1 \in T
    OBVIOUS
  <2> DEFINE s == fa[k]
             t == fb[k]
             d == A[k] - B[k]
             c0 == c[k]
             c1 == c[k + 1]
             e == m(k)
  <2>2. s \in Nat /\ t \in Nat /\ d \in Nat /\ c0 \in Nat /\ c1 \in Nat /\ e \in {0, 1}
        /\ s >= t + c0 * d + e /\ k + 1 \in 1 .. n
    BY <1>2, <2>1
  <2>3. c1 < c0 \/ d = 0
    BY <2>1
  <2>4. A[k] \in Nat /\ B[k] \in Nat /\ A[k + 1] \in Nat /\ B[k + 1] \in Nat
        /\ A[k + 1] >= B[k + 1]
    BY <2>2
  <2> DEFINE x == IF k + 1 \in ia THEN 1 ELSE 0
             y == IF k + 1 \in ib THEN 1 ELSE 0
  <2>5. A[k + 1] = A[k] + x /\ B[k + 1] = B[k] + y
    BY <2>1
  <2>6. fa[k + 1] = s + (IF x = 1 THEN c1 ELSE 0) /\ fb[k + 1] = t + (IF y = 1 THEN c1 ELSE 0)
    BY <2>1
  <2>7. <<x, y>> \in {<<0, 0>>, <<0, 1>>, <<1, 0>>}
    OBVIOUS
  <2>8. A[k + 1] - B[k + 1] = d + x - y
    BY <2>4, <2>5
  <2>9. e = IF B[k] > 0 THEN 1 ELSE 0
    OBVIOUS
  <2> HIDE DEF s, t, d, c0, c1, e, x, y
  <2>10. /\ s + c1 >= t + c1 * (d + 1) + e
         /\ s >= t + c1 * d + e
         /\ d > 0 => s >= (t + c1) + c1 * (d - 1) + 1
    BY <2>2, <2>3, LeadKept
  <2>11. fa[k + 1] >= fb[k + 1] + c1 * (A[k + 1] - B[k + 1]) + (IF B[k + 1] > 0 THEN 1 ELSE 0)
    <3>1. CASE x = 1 /\ y = 0
      <4>1. fa[k + 1] = s + c1 /\ fb[k + 1] = t /\ B[k + 1] = B[k] /\ A[k + 1] - B[k + 1] = d + 1
        BY <2>2, <2>4, <2>5, <2>6, <2>8, <3>1
      <4> QED
        BY <2>9, <2>10, <4>1
    <3>2. CASE x = 0 /\ y = 1
      <4>1. fa[k + 1] = s /\ fb[k + 1] = t + c1 /\ A[k + 1] - B[k + 1] = d - 1 /\ B[k + 1] > 0
        BY <2>2, <2>4, <2>5, <2>6, <2>8, <3>2
      <4>2. d > 0
        BY <2>2, <2>4, <4>1
      <4> QED
        BY <2>10, <4>1, <4>2
    <3>3. CASE x = 0 /\ y = 0
      <4>1. fa[k + 1] = s /\ fb[k + 1] = t /\ B[k + 1] = B[k] /\ A[k + 1] - B[k + 1] = d
        BY <2>2, <2>4, <2>5, <2>6, <2>8, <3>3
      <4> QED
        BY <2>9, <2>10, <4>1
    <3> QED
      BY <2>7, <3>1, <3>2, <3>3
  <2> QED
    BY <2>4, <2>11 DEF c1
<1> HIDE DEF T
<1>3. n \in T
  BY <1>1, <1>2, NatSetInduction
<1> DEFINE p == c[n] * (A[n] - B[n])
<1>4. A[n] >= B[n] /\ fa[n] >= fb[n] + p + m(n)
  BY <1>3 DEF T
<1>5. p \in Nat
  <2>1. A[n] - B[n] \in Nat /\ c[n] \in Nat
    BY <1>4
  <2> QED
    BY <2>1
<1> HIDE DEF p
<1> QED
  BY <1>4, <1>5

LEMMA CountedUpTo ==
  ASSUME NEW S, NEW leg \in Seq(S), NEW x
  PROVE  CountOver([k \in Nat |-> UpTo(leg, x, k)], {k \in Nat : leg[k].node = x}, Len(leg))
<1> DEFINE u(k) == UpTo(leg, x, k)
           f == [k \in Nat |-> u(k)]
           at == {k \in Nat : leg[k].node = x}
<1>0. Counts(leg, x)
  BY UpToIs
<1>1. /\ u(0) = 0 /\ \A k \in Nat : u(k) \in Nat
      /\ \A k \in Nat : k + 1 <= Len(leg) =>
           u(k + 1) = u(k) + (IF leg[k + 1].node = x THEN 1 ELSE 0)
  BY <1>0, Zenon DEF Counts
<1> HIDE DEF u
<1>2. \A k \in Nat : (k + 1 \in at) = (leg[k + 1].node = x)
  OBVIOUS
<1>3. f \in [Nat -> Nat] /\ f[0] = 0 /\ \A k \in Nat : f[k] = u(k) /\ f[k + 1] = u(k + 1)
  BY <1>1
<1> HIDE DEF f, at
<1>4. ASSUME NEW k \in Nat, k + 1 <= Len(leg)
      PROVE  f[k + 1] = f[k] + (IF k + 1 \in at THEN 1 ELSE 0)
  <2>1. u(k + 1) = u(k) + (IF leg[k + 1].node = x THEN 1 ELSE 0)
    BY <1>1, <1>4
  <2> QED
    BY <1>2, <1>3, <2>1
<1>5. CountOver(f, at, Len(leg))
  BY <1>3, <1>4 DEF CountOver
<1> QED
  BY <1>5 DEF f, at, u

LEMMA LegDominates ==
  ASSUME NEW S, NEW leg \in Seq(S), Falls(Len(leg)), NEW a, NEW b, a # b,
         \A k \in 1 .. Len(leg) : UpTo(leg, a, k) >= UpTo(leg, b, k)
  PROVE  /\ LegScore(leg, a) >= LegScore(leg, b)
         /\ b \in NodesOf(leg) => LegScore(leg, a) > LegScore(leg, b)
<1> DEFINE n == Len(leg)
           c == [k \in Nat |-> IF k = 0 THEN 0 ELSE Contribution(k)]
           A == [k \in Nat |-> UpTo(leg, a, k)]
           B == [k \in Nat |-> UpTo(leg, b, k)]
           ia == {k \in Nat : leg[k].node = a}
           ib == {k \in Nat : leg[k].node = b}
<1>0. n \in Nat /\ DOMAIN leg = 1 .. n
  OBVIOUS
<1>1. PICK fa : SumBy(fa, leg, a)
  BY <1>0, LegScoreIs
<1>2. PICK fb : SumBy(fb, leg, b)
  BY <1>0, LegScoreIs
<1>3. c \in [Nat -> Nat]
  BY ContributionNat
<1>4. \A k \in Nat : c[k + 1] = Contribution(k + 1)
  <2>1. \A k \in Nat : k + 1 \in Nat /\ k + 1 # 0
    OBVIOUS
  <2> QED
    BY <2>1
<1>5. \A k \in Nat : k > 0 /\ k + 1 <= n => c[k + 1] < c[k]
  <2>1. \A k \in Nat : k > 0 => c[k] = Contribution(k)
    OBVIOUS
  <2> HIDE DEF c
  <2> QED
    BY <1>4, <2>1 DEF Falls
<1>6. CountOver(A, ia, n)
  BY CountedUpTo, Zenon
<1>7. CountOver(B, ib, n)
  BY CountedUpTo, Zenon
<1>8. SumOver(fa, ia, c, n) /\ LegScore(leg, a) = fa[n]
  <2>1. \A k \in Nat : (k + 1 \in ia) = (leg[k + 1].node = a)
    OBVIOUS
  <2> HIDE DEF ia, c
  <2> QED
    BY <1>1, <1>4, <2>1 DEF SumBy, SumOver
<1>9. SumOver(fb, ib, c, n) /\ LegScore(leg, b) = fb[n]
  <2>1. \A k \in Nat : (k + 1 \in ib) = (leg[k + 1].node = b)
    OBVIOUS
  <2> HIDE DEF ib, c
  <2> QED
    BY <1>2, <1>4, <2>1 DEF SumBy, SumOver
<1>10. \A k \in 1 .. n : A[k] >= B[k]
  BY <1>0
<1>11. ia \cap ib = {}
  OBVIOUS
<1>12. b \in NodesOf(leg) => B[n] > 0
  <2>1. SUFFICES ASSUME b \in NodesOf(leg) PROVE B[n] > 0
    OBVIOUS
  <2>2. PICK i \in 1 .. n : leg[i].node = b
    BY <1>0, <2>1 DEF NodesOf
  <2> DEFINE R == {j \in Ranks(leg, b) : j <= n}
  <2>3. i \in R
    BY <1>0, <2>2 DEF Ranks
  <2>4. IsFiniteSet(R)
    <3>1. R \subseteq 1 .. n /\ IsFiniteSet(1 .. n)
      BY <1>0, FS_Interval DEF Ranks
    <3> HIDE DEF R
    <3> QED
      BY <3>1, FS_Subset
  <2>5. B[n] = Cardinality(R)
    BY <1>0 DEF UpTo
  <2> HIDE DEF R, B
  <2>6. Cardinality(R) # 0 /\ Cardinality(R) \in Nat
    BY <2>3, <2>4, FS_EmptySet, FS_CardinalityType
  <2> QED
    BY <2>5, <2>6
<1>a. FallingTerms(c, n)
  <2> HIDE DEF c
  <2> QED
    BY <1>3, <1>5 DEF FallingTerms
<1> HIDE DEF n, c, A, B, ia, ib
<1>13. fa[n] >= fb[n] /\ (B[n] > 0 => fa[n] > fb[n])
  BY <1>0, <1>a, <1>6, <1>7, <1>8, <1>9, <1>10, <1>11, SumsLead
<1> QED
  BY <1>8, <1>9, <1>12, <1>13

-----------------------------------------------------------------------------
(* The legs, and why a node better placed in both has the better score.    *)

GoodLegs(g, v) ==
  /\ g \in Seq(LegEntry) /\ v \in Seq(Point)
  /\ Distinct(g, Len(g)) /\ Len(v) <= Cardinality(Point)
  /\ \A i \in 1 .. Len(g) : g[i].hop >= 1
  /\ \A i, j \in 1 .. Len(g) : i < j => g[i].hop <= g[j].hop

LEMMA LegsFall ==
  ASSUME NEW g, NEW v, GoodLegs(g, v)
  PROVE  Falls(Len(g)) /\ Falls(Len(v))
<1>1. Len(g) \in Nat /\ Len(v) \in Nat /\ g \in Seq(LegEntry)
  BY DEF GoodLegs
<1>2. Cardinality(NodesOf(g)) = Len(g)
  BY DistinctCount DEF GoodLegs
<1>3. NodesOf(g) \subseteq Node
  <2>1. \A i \in DOMAIN g : g[i] \in LegEntry
    BY <1>1
  <2> QED
    BY <2>1 DEF NodesOf, LegEntry
<1>4. Len(g) <= Cardinality(Node)
  BY <1>2, <1>3, FS_Subset, QueriesAssumption
<1>5. Falls(Cardinality(Node)) /\ Falls(Cardinality(Point))
  BY ContributionsFall
<1>6. Cardinality(Node) \in Nat /\ Cardinality(Point) \in Nat
  BY QueriesAssumption, FS_CardinalityType
<1>7. ASSUME NEW m \in Nat, NEW n \in Nat, m <= n, Falls(n) PROVE Falls(m)
  BY <1>7 DEF Falls
<1>8. Len(v) <= Cardinality(Point)
  BY DEF GoodLegs
<1>9. Falls(Len(g))
  BY <1>1, <1>4, <1>5, <1>6, <1>7
<1>10. Falls(Len(v))
  BY <1>1, <1>5, <1>6, <1>7, <1>8
<1> QED
  BY <1>9, <1>10

AheadIn(leg, a, b) == \A k \in DOMAIN leg : UpTo(leg, a, k) >= UpTo(leg, b, k)

LEMMA BetterIs ==
  ASSUME NEW a, NEW b
  PROVE  Better(a, b) <=> AheadIn(graph, a, b) /\ AheadIn(vector, a, b) /\ a # b
BY DEF Better, AheadIn, UpTo

(* Whoever is ahead is met no later. *)
LEMMA AheadIsEarlier ==
  ASSUME NEW S, NEW leg \in Seq(S), NEW a, NEW b, AheadIn(leg, a, b), b \in NodesOf(leg)
  PROVE  a \in NodesOf(leg) /\ FirstRank(Ranks(leg, a)) <= FirstRank(Ranks(leg, b))
<1> DEFINE r == FirstRank(Ranks(leg, b))
           R(x) == {i \in Ranks(leg, x) : i <= r}
<1>0. Len(leg) \in Nat /\ DOMAIN leg = 1 .. Len(leg)
  OBVIOUS
<1>1. r \in 1 .. Len(leg) /\ leg[r].node = b
  BY FirstRankIs
<1> HIDE DEF r
<1>2. \A x : IsFiniteSet(R(x)) /\ Cardinality(R(x)) = UpTo(leg, x, r) /\ Cardinality(R(x)) \in Nat
  <2>1. ASSUME NEW x PROVE IsFiniteSet(R(x))
    <3>1. R(x) \subseteq 1 .. Len(leg) /\ IsFiniteSet(1 .. Len(leg))
      BY <1>0, FS_Interval DEF Ranks
    <3> HIDE DEF R
    <3> QED
      BY <3>1, FS_Subset
  <2>2. \A x : Cardinality(R(x)) = UpTo(leg, x, r)
    BY DEF UpTo
  <2> HIDE DEF R
  <2> QED
    BY <2>1, <2>2, FS_CardinalityType
<1>3. r \in R(b)
  BY <1>0, <1>1 DEF Ranks
<1>4. UpTo(leg, a, r) >= UpTo(leg, b, r)
  BY <1>0, <1>1 DEF AheadIn
<1>5. R(a) # {}
  <2> HIDE DEF R
  <2>1. Cardinality(R(b)) # 0
    BY <1>2, <1>3, FS_EmptySet
  <2>2. Cardinality(R(a)) # 0
    <3>1. Cardinality(R(a)) >= Cardinality(R(b)) /\ Cardinality(R(a)) \in Nat /\ Cardinality(R(b)) \in Nat
      BY <1>2, <1>4
    <3> QED
      BY <2>1, <3>1
  <2> QED
    BY <2>2, FS_EmptySet
<1>6. PICK i \in R(a) : TRUE
  BY <1>5
<1>7. i \in 1 .. Len(leg) /\ leg[i].node = a /\ i <= r
  BY <1>0, <1>6 DEF Ranks
<1>8. a \in NodesOf(leg)
  BY <1>0, <1>7 DEF NodesOf
<1>9. FirstRank(Ranks(leg, a)) \in 1 .. Len(leg) /\ FirstRank(Ranks(leg, a)) <= i
  BY <1>7, <1>8, FirstRankIs
<1>10. FirstRank(Ranks(leg, a)) <= r
  BY <1>1, <1>7, <1>9
<1> QED
  BY <1>8, <1>10 DEF r

LEMMA BetterScores ==
  ASSUME NEW g, NEW v, GoodLegs(g, v), NEW a \in Node, NEW b \in Node,
         b \in Found(g, v), AheadIn(g, a, b), AheadIn(v, a, b), a # b
  PROVE  Final(g, v, a).final > Final(g, v, b).final
<1>0. g \in Seq(LegEntry) /\ v \in Seq(Point) /\ Falls(Len(g)) /\ Falls(Len(v))
  BY LegsFall DEF GoodLegs
<1> DEFINE ca == Candidate(g, v, a)
           cb == Candidate(g, v, b)
           ra == FirstRank(Ranks(g, a))
           rb == FirstRank(Ranks(g, b))
<1>1. /\ LegScore(g, a) >= LegScore(g, b)
      /\ b \in NodesOf(g) => LegScore(g, a) > LegScore(g, b)
  <2>1. DOMAIN g = 1 .. Len(g)
    BY <1>0
  <2>2. \A k \in 1 .. Len(g) : UpTo(g, a, k) >= UpTo(g, b, k)
    BY <2>1 DEF AheadIn
  <2> QED
    BY <1>0, <2>2, LegDominates
<1>2. /\ LegScore(v, a) >= LegScore(v, b)
      /\ b \in NodesOf(v) => LegScore(v, a) > LegScore(v, b)
  <2>1. DOMAIN v = 1 .. Len(v)
    BY <1>0
  <2>2. \A k \in 1 .. Len(v) : UpTo(v, a, k) >= UpTo(v, b, k)
    BY <2>1 DEF AheadIn
  <2> QED
    BY <1>0, <2>2, LegDominates
<1>3. /\ LegScore(g, a) \in Nat /\ LegScore(g, b) \in Nat
      /\ LegScore(v, a) \in Nat /\ LegScore(v, b) \in Nat
  BY <1>0, ScoreNat
<1>4. RRFScore(g, v, a) > RRFScore(g, v, b) /\ RRFScore(g, v, a) \in Nat /\ RRFScore(g, v, b) \in Nat
  <2>1. b \in NodesOf(g) \/ b \in NodesOf(v)
    BY DEF Found
  <2> QED
    BY <1>1, <1>2, <1>3, <2>1 DEF RRFScore
<1>5. /\ ca.hop = IF a \in NodesOf(g) THEN g[ra].hop ELSE 0
      /\ cb.hop = IF b \in NodesOf(g) THEN g[rb].hop ELSE 0
      /\ ca.score = RRFScore(g, v, a) /\ cb.score = RRFScore(g, v, b)
      /\ ca \in EntryType /\ cb \in EntryType
  BY <1>0, CandidateIs
<1>6. Final(g, v, a).final = ca.score + Proximity(ca) /\ Final(g, v, b).final = cb.score + Proximity(cb)
  BY <1>0, FinalIs
<1> HIDE DEF ca, cb
<1>7. ca.hop \in Nat /\ cb.hop \in Nat
  BY <1>5 DEF EntryType
<1>8. Proximity(ca) \in Nat /\ Proximity(cb) \in Nat
  BY <1>7, ProximityNat
<1>9. Proximity(ca) >= Proximity(cb)
  <2>1. CASE b \in NodesOf(g)
    <3>1. a \in NodesOf(g) /\ ra <= rb
      BY <1>0, <2>1, AheadIsEarlier
    <3>2. ra \in 1 .. Len(g) /\ rb \in 1 .. Len(g)
      BY <1>0, <2>1, <3>1, FirstRankIs
    <3> HIDE DEF ra, rb
    <3>3. g[ra].hop <= g[rb].hop /\ g[ra].hop >= 1 /\ g[rb].hop >= 1
      <4>1. g[ra].hop \in Nat /\ g[rb].hop \in Nat
        <5>1. g[ra] \in LegEntry /\ g[rb] \in LegEntry
          BY <1>0, <3>2
        <5> QED
          BY <5>1 DEF LegEntry
      <4>2. ra = rb \/ ra < rb
        BY <1>0, <3>1, <3>2
      <4> QED
        BY <3>2, <4>1, <4>2 DEF GoodLegs
    <3>4. ca.hop >= 1 /\ cb.hop >= 1 /\ ca.hop <= cb.hop
      BY <1>5, <2>1, <3>1, <3>3
    <3> DEFINE h == 1 + ca.hop
               k == 1 + cb.hop
    <3>5. h \in Nat /\ k \in Nat /\ h > 0 /\ h <= k
      BY <1>7, <3>4
    <3> HIDE DEF h, k
    <3>a. Beta \in Nat
      BY QueriesAssumption
    <3>6. Beta \div k <= Beta \div h
      BY <3>a, <3>5, DivisionMonotone
    <3>7. Proximity(ca) = Beta \div h /\ Proximity(cb) = Beta \div k
      BY <1>7, <3>4 DEF Proximity, h, k
    <3> QED
      BY <1>8, <3>6, <3>7
  <2>2. CASE b \notin NodesOf(g)
    <3>1. Proximity(cb) = 0
      BY <1>5, <2>2 DEF Proximity
    <3> QED
      BY <1>8, <3>1
  <2> QED
    BY <2>1, <2>2
<1> QED
  BY <1>4, <1>5, <1>6, <1>8, <1>9

-----------------------------------------------------------------------------
(* The candidates of a hybrid search in every phase.                       *)

LegsInv == GoodLegs(graph, vector) /\ (lost => vector = <<>>)

(* w: the authorized nodes, best first; s: the first k of them. *)
InOrder(w, g, v) ==
  \A i, j \in DOMAIN w : i < j => Final(g, v, w[i]).final >= Final(g, v, w[j]).final
FirstOf(s, w, g, v, k) ==
  /\ Len(s) = (IF k < Len(w) THEN k ELSE Len(w))
  /\ \A i \in 1 .. Len(s) : /\ s[i].node = w[i]
                            /\ s[i].graphRank = FirstRank(Ranks(g, w[i]))
                            /\ s[i].vectorRank = FirstRank(Ranks(v, w[i]))
BestFirst(s, g, v, nodes, k) ==
  \E w \in SetToSeqs(Found(g, v) \cap nodes) : InOrder(w, g, v) /\ FirstOf(s, w, g, v, k)

LaterPhase == {"names", "text", "rerank", "impact"}
Answered == pc \in EndPhase /\ OK /\ q.kind = "hybrid"

RankInv ==
  /\ pc = "recheck" => Ranking(ranked, graph, vector)
  /\ pc = "impact" => q.rerank
  /\ pc \in LaterPhase \/ Answered => BestFirst(ranked, graph, vector, checked, TopK)
  /\ Answered =>
       /\ EntryList(ranked) /\ NodesOf(reply.nodes) = NodesOf(ranked) /\ Len(reply.nodes) = Len(ranked)
       /\ ~q.rerank => reply.nodes = ranked
       /\ reply.graphCandidates = Cardinality({i \in DOMAIN ranked : ranked[i].graphRank > 0})
       /\ reply.vectorCandidates = Cardinality({i \in DOMAIN ranked : ranked[i].vectorRank > 0})
       /\ reply.degraded = (reply.vectorCandidates = 0)

-----------------------------------------------------------------------------
(* The legs through a call.                                                *)

LEMMA TrailsHaveLength ==
  ASSUME NEW n, NEW dir, NEW types, NEW depth \in Nat,
         NEW t \in Trails(n, depth, dir, types)
  PROVE  Len(t.path) \in Nat /\ Len(t.path) >= 1
<1>1. PICK f : TrailsBy(f, n, dir, types)
  BY TrailsAre
<1> DEFINE S == {k \in Nat : \A s \in f[k] : s \in f[0] \/ Len(s.path) >= 1}
<1>2. 0 \in S
  OBVIOUS
<1>3. ASSUME NEW k \in Nat, k \in S PROVE k + 1 \in S
  <2>1. f[k] \subseteq Trail /\ f[k + 1] = Extended(f[k], dir, types)
    BY <1>1 DEF TrailsBy
  <2>2. ASSUME NEW s \in f[k + 1], s \notin f[k] PROVE Len(s.path) >= 1
    <3>1. PICK x \in f[k] : s \in Steps(x, dir, types)
      BY <2>1, <2>2 DEF Extended
    <3>2. x \in Trail /\ \E r \in Relation : s.path = Append(x.path, r)
      BY <2>1, <3>1, StepsAreTrails
    <3>3. PICK r \in Relation : s.path = Append(x.path, r)
      BY <3>2
    <3>4. x.path \in Seq(Relation)
      BY <3>2 DEF Trail
    <3>5. Len(s.path) = Len(x.path) + 1 /\ Len(x.path) \in Nat
      BY <3>3, <3>4
    <3> QED
      BY <3>5
  <2> QED
    BY <1>3, <2>2
<1> HIDE DEF S
<1>4. \A k \in Nat : k \in S
  BY <1>2, <1>3, NatSetInduction
<1>5. t \in f[depth] /\ t \notin f[0]
  BY <1>1 DEF TrailsBy
<1>6. t.path \in Seq(Relation)
  BY TrailsVisible DEF Trail
<1> QED
  BY <1>4, <1>5, <1>6 DEF S

LEMMA RowsAreFar ==
  ASSUME q \in Query, q.kind = "hybrid", NEW r \in GraphRows
  PROVE  r.hop >= 1
<1> DEFINE trails == Trails(q.node, q.maxDepth, "reverse", TraversalTypes)
           lengths(n) == {Len(t.path) : t \in {x \in trails : x.at = n}}
<1>1. PICK n \in Node : lengths(n) # {} /\ r = [node |-> n, hop |-> Min(lengths(n))]
  BY DEF GraphRows
<1>2. q.maxDepth \in Nat
  BY QueryAssumption
<1>3. \A t \in trails : Len(t.path) \in Nat /\ Len(t.path) >= 1
  BY <1>2, TrailsHaveLength
<1> HIDE DEF trails
<1>4. \A k \in lengths(n) : k \in Nat /\ k >= 1
  BY <1>3
<1> HIDE DEF lengths
<1>5. Min(lengths(n)) \in lengths(n)
  BY <1>1, <1>4, MinIs
<1> QED
  BY <1>1, <1>4, <1>5

LEMMA LegsInitially == Init => LegsInv
<1> SUFFICES ASSUME Init PROVE LegsInv
  OBVIOUS
<1>1. graph = <<>> /\ vector = <<>> /\ lost = FALSE
  BY DEF Init
<1>2. Cardinality(Point) \in Nat
  BY QueriesAssumption, FS_CardinalityType
<1>3. \A S : <<>> \in Seq(S)
  OBVIOUS
<1>4. Len(<<>>) = 0 /\ DOMAIN <<>> = 1 .. 0 /\ 1 .. 0 = {}
  OBVIOUS
<1> QED
  BY <1>1, <1>2, <1>3, <1>4 DEF LegsInv, GoodLegs, Distinct

LEMMA VectorKeepsLegs ==
  ASSUME CallInv, LegsInv, VectorSearch
  PROVE  LegsInv'
<1>1. pc = "vector" /\ q \in Query /\ q.kind = "hybrid"
  BY DEF VectorSearch, CallInv, HybridPhase
<1>2. Default(q.vectorLimit, 50) \in Nat
  BY <1>1, QueryAssumption, DefaultNat
<1> DEFINE found == {p \in Point : /\ p.label.tenant = sc.tenant
                                   /\ p.label.repo \in EffectiveRepos(sc, Narrow)
                                   /\ p.label.group \in sc.groups
                                   /\ DomainFilter = "code"}
           N == Cardinality(Point)
<1>3. /\ UNCHANGED graph
      /\ \/ vector' = <<>>
         \/ /\ \E order \in SetToSeqs(found) : vector' = Limit(order, Default(q.vectorLimit, 50))
            /\ lost' = FALSE
  BY DEF VectorSearch
<1>4. N \in Nat /\ IsFiniteSet(Point)
  BY QueriesAssumption, FS_CardinalityType
<1>5. ASSUME NEW order \in SetToSeqs(found), NEW v, v = Limit(order, Default(q.vectorLimit, 50))
      PROVE  v \in Seq(Point) /\ Len(v) <= N
  <2>1. found \subseteq Point
    OBVIOUS
  <2> HIDE DEF found
  <2>2. IsFiniteSet(found) /\ Cardinality(found) <= N /\ Cardinality(found) \in Nat
    BY <1>4, <2>1, FS_Subset, FS_CardinalityType
  <2>3. Lists(order, Cardinality(found), found)
    BY <1>5, <2>2, OrdersList
  <2>4. order \in Seq(Point) /\ Len(order) = Cardinality(found)
    BY <2>1, <2>3 DEF Lists
  <2> DEFINE n == Default(q.vectorLimit, 50)
             m == IF n < Len(order) THEN n ELSE Len(order)
  <2>5. n \in Nat
    BY <1>2
  <2> HIDE DEF n
  <2>6. m \in 0 .. Len(order) /\ Limit(order, n) \in Seq(Point) /\ Len(Limit(order, n)) = m
    BY <2>4, <2>5, LimitIs
  <2>7. m <= Cardinality(found)
    BY <2>2, <2>4, <2>6
  <2> HIDE DEF m
  <2> QED
    BY <1>4, <1>5, <2>2, <2>4, <2>6, <2>7 DEF n
<1>6. <<>> \in Seq(Point) /\ Len(<<>>) <= N
  BY <1>4
<1>7. vector' \in Seq(Point) /\ Len(vector') <= N
  <2> HIDE DEF found, N
  <2> QED
    BY <1>3, <1>5, <1>6
<1>8. lost' => vector' = <<>>
  BY <1>3
<1> QED
  BY <1>3, <1>7, <1>8 DEF LegsInv, GoodLegs

LEMMA TraversalKeepsLegs ==
  ASSUME CallInv, LegsInv, GraphTraversal
  PROVE  LegsInv'
<1>1. CASE FailWith("Internal")
  BY <1>1 DEF FailWith, LegsInv
<1>2. CASE ~ FailWith("Internal")
  <2>1. /\ UNCHANGED <<vector, lost>> /\ q \in Query /\ q.kind = "hybrid"
        /\ label \in [Node -> Name] /\ vector \in Seq(Point)
        /\ graph' \in Seq(LegEntry) /\ Distinct(graph', Len(graph'))
    BY <1>2, TraversalIs
  <2>2. PICK order \in InHopOrder(GraphRows) : graph' = GraphLeg(order, Default(q.graphLimit, 200))
    BY <1>2, TraversalIs
  <2>3. Default(q.graphLimit, 200) \in Nat
    BY <2>1, QueryAssumption, DefaultNat
  <2> DEFINE n == Default(q.graphLimit, 200)
             g == GraphLeg(order, n)
             c == Cardinality(GraphRows)
  <2>4. /\ Lists(order, c, GraphRows)
        /\ Len(g) = IF n < Len(order) THEN n ELSE Len(order)
        /\ \A i \in 1 .. Len(g) : g[i].hop = order[i].hop
    BY <2>1, <2>3, GraphLegIs
  <2> HIDE DEF n, g, c
  <2>5. graph' = g
    BY <2>2 DEF g, n
  <2>6. c \in Nat /\ Len(order) = c /\ DOMAIN order = 1 .. c /\ \A i \in 1 .. c : order[i] \in GraphRows
    BY <2>4 DEF Lists
  <2>7. Len(g) \in Nat /\ \A i \in 1 .. Len(g) : i \in 1 .. c
    BY <2>3, <2>4, <2>6 DEF n
  <2>8. \A i \in 1 .. Len(g) : g[i].hop >= 1
    <3>1. \A r \in GraphRows : r.hop >= 1
      BY <2>1, RowsAreFar
    <3> QED
      BY <2>4, <2>6, <2>7, <3>1
  <2>9. \A i, j \in 1 .. Len(g) : i < j => g[i].hop <= g[j].hop
    <3>1. \A i, j \in 1 .. c : i < j => order[i].hop <= order[j].hop
      BY <2>2, <2>6 DEF InHopOrder
    <3> QED
      BY <2>4, <2>7, <3>1
  <2>10. GoodLegs(g, vector)
    BY <2>1, <2>5, <2>8, <2>9 DEF LegsInv, GoodLegs
  <2> QED
    BY <2>1, <2>5, <2>10 DEF LegsInv
<1> QED
  BY <1>1, <1>2

LEMMA LegsUntouched ==
  ASSUME [Next]_vars, ~ VectorSearch, ~ GraphTraversal
  PROVE  UNCHANGED <<vector, graph, lost>>
<1>1. CASE MergeNode
  BY <1>1 DEF MergeNode
<1>2. CASE Receive
  BY <1>2 DEF Receive
<1>3. CASE GetNode
  BY <1>3 DEF GetNode, Answer, FailWith
<1>4. CASE ExpandNeighbors
  BY <1>4 DEF ExpandNeighbors, Answer, FailWith
<1>5. CASE FullText
  BY <1>5 DEF FullText, Answer, FailWith
<1>6. CASE EmbedQuery
  BY <1>6 DEF EmbedQuery, FailWith
<1>7. CASE RecheckAuthorized
  BY <1>7 DEF RecheckAuthorized, FailWith
<1>8. CASE HydrateNames
  BY <1>8 DEF HydrateNames, FailWith
<1>9. CASE HydrateSourceText
  BY <1>9 DEF HydrateSourceText, FailWith
<1>10. CASE WithoutRerank
  BY <1>10 DEF WithoutRerank
<1>11. CASE CallReranker
  BY <1>11 DEF CallReranker, FailWith
<1>12. CASE ReadImpact
  BY <1>12 DEF ReadImpact, FailWith
<1>13. CASE PackReply
  BY <1>13 DEF PackReply
<1>14. CASE UNCHANGED vars
  BY <1>14 DEF vars
<1> QED
  BY <1>1, <1>2, <1>3, <1>4, <1>5, <1>6, <1>7, <1>8, <1>9, <1>10, <1>11, <1>12, <1>13,
     <1>14 DEF Next

LEMMA LegsStep ==
  ASSUME CallInv, LegsInv, [Next]_vars
  PROVE  LegsInv'
<1>1. CASE VectorSearch
  BY <1>1, VectorKeepsLegs
<1>2. CASE GraphTraversal
  BY <1>2, TraversalKeepsLegs
<1>3. CASE ~ VectorSearch /\ ~ GraphTraversal
  BY <1>3, LegsUntouched DEF LegsInv
<1> QED
  BY <1>1, <1>2, <1>3

-----------------------------------------------------------------------------
(* The candidates through a call.                                          *)

LEMMA RankQuiet ==
  ASSUME pc' \notin RankedPhase, ~ Answered'
  PROVE  RankInv'
BY DEF RankInv, RankedPhase, LaterPhase

LEMMA FailRanks ==
  ASSUME FailWith("Internal")
  PROVE  RankInv'
<1>1. pc' = "replied" /\ reply'.code = "Internal"
  BY RepliedIs DEF FailWith, Finish
<1>2. pc' \notin RankedPhase /\ ~ Answered'
  BY <1>1 DEF RankedPhase, Answered, OK
<1> QED
  BY <1>2, RankQuiet

LEMMA AnswerRanks ==
  ASSUME NEW r, Answer(r), q.kind # "hybrid"
  PROVE  RankInv'
<1>1. pc' = "replied" /\ q' = q
  BY DEF Answer, Finish
<1>2. pc' \notin RankedPhase /\ ~ Answered'
  BY <1>1 DEF RankedPhase, Answered
<1> QED
  BY <1>2, RankQuiet

LEMMA EarlyRanks ==
  ASSUME pc' \in {"get", "expand", "fulltext", "hybrid", "vector", "graph"}
  PROVE  RankInv'
<1>1. pc' \notin RankedPhase /\ ~ Answered'
  BY DEF RankedPhase, Answered, EndPhase
<1> QED
  BY <1>1, RankQuiet

LEMMA ReceiveRanks ==
  ASSUME Receive
  PROVE  RankInv'
<1>1. \E query \in Query, caller \in Caller :
        \/ \E code : code # "OK" /\ Finish(Replied(code, <<>>))
        \/ pc' = query.kind
  <2>a. PICK caller \in Caller :
          \E query \in Query :
            \E answer \in OpaAnswer(caller, Action[query.kind]) :
               IF Enforce(caller, answer) # "OK"
               THEN Finish(Replied(Enforce(caller, answer), <<>>))
               ELSE IF ~HasScope(caller) THEN Finish(Replied("PermissionDenied", <<>>))
               ELSE IF query.kind = "hybrid" /\ ~query.hasText
                    THEN Finish(Replied("InvalidArgument", <<>>))
               ELSE pc' = query.kind /\ UNCHANGED reply
    BY DEF Receive
  <2>b. PICK query \in Query :
          \E answer \in OpaAnswer(caller, Action[query.kind]) :
             IF Enforce(caller, answer) # "OK"
             THEN Finish(Replied(Enforce(caller, answer), <<>>))
             ELSE IF ~HasScope(caller) THEN Finish(Replied("PermissionDenied", <<>>))
             ELSE IF query.kind = "hybrid" /\ ~query.hasText
                  THEN Finish(Replied("InvalidArgument", <<>>))
             ELSE pc' = query.kind /\ UNCHANGED reply
    BY <2>a
  <2>1. \/ \E code : code # "OK" /\ Finish(Replied(code, <<>>))
        \/ pc' = query.kind
    BY <2>b
  <2> QED
    BY <2>1
<1>2. CASE \E code : code # "OK" /\ Finish(Replied(code, <<>>))
  <2>1. pc' = "replied" /\ reply'.code # "OK"
    BY <1>2, RepliedIs DEF Finish
  <2>2. pc' \notin RankedPhase /\ ~ Answered'
    BY <2>1 DEF RankedPhase, Answered, OK
  <2> QED
    BY <2>2, RankQuiet
<1>3. CASE \E query \in Query : pc' = query.kind
  <2>1. pc' \in {"get", "expand", "fulltext", "hybrid"}
    BY <1>3, QueryAssumption
  <2> QED
    BY <2>1, EarlyRanks
<1> QED
  BY <1>1, <1>2, <1>3

LEMMA TraversalRanks ==
  ASSUME CallInv, GraphTraversal
  PROVE  RankInv'
<1>1. CASE FailWith("Internal")
  BY <1>1, FailRanks
<1>2. CASE ~ FailWith("Internal")
  <2>1. pc' = "recheck" /\ vector' = vector /\ Ranking(ranked', graph', vector)
    BY <1>2, TraversalIs
  <2>2. Ranking(ranked', graph', vector')
    BY <2>1
  <2>3. pc' \notin LaterPhase /\ pc' # "impact" /\ ~ Answered'
    BY <2>1 DEF LaterPhase, Answered, EndPhase
  <2> QED
    BY <2>2, <2>3 DEF RankInv
<1> QED
  BY <1>1, <1>2

(* The nodes of the authorized entries are the candidates in scope, best   *)
(* first.                                                                  *)
LEMMA AuthorizedBest ==
  ASSUME NEW g, NEW v, GoodLegs(g, v), NEW s, Ranking(s, g, v), NEW t \in Authorized(s),
         NEW k \in Nat
  PROVE  BestFirst(Limit(t, k), g, v, InNow, k)
<1> DEFINE N == Found(g, v) \cap InNow
           w == [i \in 1 .. Len(t) |-> t[i].node]
           u == Limit(t, k)
<1>0. g \in Seq(LegEntry) /\ v \in Seq(Point)
  BY DEF GoodLegs
<1>1. EntryList(s) /\ s \in Seq(EntryType) /\ Len(s) \in Nat /\ DOMAIN s = 1 .. Len(s)
  BY DEF Ranking, EntryList
<1>2. PICK o : Picks(t, s, o)
  BY <1>1, AuthorizedPicks
<1>3. EntryList(t) /\ t \in Seq(EntryType) /\ Len(t) \in Nat /\ DOMAIN t = 1 .. Len(t)
  <2>1. EntryList(t)
    BY <1>1, <1>2, PicksList
  <2> QED
    BY <2>1 DEF EntryList
<1>4. NodesOf(t) = N
  <2>1. NodesOf(t) = {n \in NodesOf(s) : Visible(n)}
    BY <1>1, AuthorizedPicks
  <2>2. NodesOf(s) = Found(g, v) /\ Found(g, v) \subseteq Node
    BY <1>0, FoundIs DEF Ranking
  <2> QED
    BY <2>1, <2>2 DEF InNow
<1> HIDE DEF N
<1>5. Cardinality(N) = Len(t)
  BY <1>3, <1>4, DistinctCount DEF EntryList
<1>6. w \in SetToSeqs(N)
  <2>1. \A i \in 1 .. Len(t) : w[i] \in N
    BY <1>3, <1>4 DEF NodesOf
  <2>2. \A i, j \in 1 .. Len(t) : i # j => w[i] # w[j]
    BY <1>3 DEF EntryList, Distinct
  <2>3. w \in [1 .. Len(t) -> N]
    BY <2>1
  <2> HIDE DEF w
  <2> QED
    BY <1>5, <2>2, <2>3 DEF SetToSeqs
<1>7. \A i \in 1 .. Len(t) : /\ o[i] \in 1 .. Len(s) /\ t[i] = s[o[i]] /\ w[i] = t[i].node
                             /\ t[i] = Final(g, v, w[i]) /\ w[i] \in Node
  <2>1. \A i \in 1 .. Len(t) : o[i] \in 1 .. Len(s) /\ t[i] = s[o[i]] /\ w[i] = t[i].node
    BY <1>2 DEF Picks
  <2>2. \A i \in 1 .. Len(s) : s[i].node \in Node /\ s[i] = Final(g, v, s[i].node)
    BY DEF Ranking
  <2> HIDE DEF w
  <2> QED
    BY <2>1, <2>2
<1>8. DOMAIN w = 1 .. Len(t) /\ Len(w) = Len(t)
  <2>1. w \in Seq(N)
    BY <1>5, <1>6, <1>3 DEF SetToSeqs
  <2>2. DOMAIN w = 1 .. Len(t)
    OBVIOUS
  <2> HIDE DEF w
  <2> QED
    BY <1>3, <2>1, <2>2
<1> HIDE DEF w
<1>9. InOrder(w, g, v)
  <2>1. ASSUME NEW i \in 1 .. Len(t), NEW j \in 1 .. Len(t), i < j
        PROVE  Final(g, v, w[i]).final >= Final(g, v, w[j]).final
    <3>1. o[i] < o[j] /\ o[i] \in 1 .. Len(s) /\ o[j] \in 1 .. Len(s)
      BY <1>2, <1>7, <2>1 DEF Picks
    <3>2. s[o[i]].final >= s[o[j]].final
      BY <3>1 DEF Ranking
    <3>3. t[i] = s[o[i]] /\ t[j] = s[o[j]] /\ t[i] = Final(g, v, w[i]) /\ t[j] = Final(g, v, w[j])
      BY <1>7
    <3> QED
      BY <3>2, <3>3
  <2> QED
    BY <1>8, <2>1 DEF InOrder
<1>10. /\ Len(u) = (IF k < Len(t) THEN k ELSE Len(t))
       /\ \A i \in 1 .. Len(u) : i \in 1 .. Len(t) /\ u[i] = t[i]
  <2>1. Picks(u, t, [i \in 1 .. Len(u) |-> i]) /\ Len(u) = (IF k < Len(t) THEN k ELSE Len(t))
    BY <1>3, LimitPicks
  <2> HIDE DEF u
  <2> QED
    BY <1>3, <2>1 DEF Picks
<1> HIDE DEF u
<1>11. FirstOf(u, w, g, v, k)
  <2>1. ASSUME NEW i \in 1 .. Len(u)
        PROVE  /\ u[i].node = w[i]
               /\ u[i].graphRank = FirstRank(Ranks(g, w[i]))
               /\ u[i].vectorRank = FirstRank(Ranks(v, w[i]))
    <3>1. u[i] = Final(g, v, w[i]) /\ w[i] \in Node /\ u[i].node = w[i]
      BY <1>7, <1>10
    <3>2. /\ u[i].graphRank = Candidate(g, v, w[i]).graphRank
          /\ u[i].vectorRank = Candidate(g, v, w[i]).vectorRank
      BY <1>0, <3>1, FinalIs
    <3> QED
      BY <1>0, <3>1, <3>2, CandidateIs
  <2> QED
    BY <1>8, <1>10, <2>1 DEF FirstOf
<1> QED
  BY <1>6, <1>9, <1>11 DEF BestFirst, u, N

LEMMA RecheckRanks ==
  ASSUME CallInv, LegsInv, RankInv, RecheckAuthorized
  PROVE  RankInv'
<1>1. CASE FailWith("Internal")
  BY <1>1, FailRanks
<1>2. CASE ~ FailWith("Internal")
  <2>0. pc = "recheck" /\ Ranking(ranked, graph, vector)
    BY DEF RecheckAuthorized, RankInv
  <2>1. EntryList(ranked)
    BY <2>0 DEF Ranking
  <2>2. /\ pc' = "names" /\ checked' = InNow /\ UNCHANGED <<q, vector, graph>>
        /\ \E authorized \in Authorized(ranked) : ranked' = Limit(authorized, TopK)
    BY <1>2, <2>1, RecheckIs
  <2>3. TopK \in Nat
    BY <2>0, TopKNat DEF HybridPhase, RankedPhase
  <2>4. GoodLegs(graph, vector)
    BY DEF LegsInv
  <2>5. BestFirst(ranked', graph, vector, InNow, TopK)
    BY <2>0, <2>2, <2>3, <2>4, AuthorizedBest
  <2>6. BestFirst(ranked, graph, vector, checked, TopK)'
    BY <2>2, <2>5 DEF TopK
  <2>7. pc' # "recheck" /\ pc' # "impact" /\ ~ Answered'
    BY <2>2 DEF Answered, EndPhase
  <2> QED
    BY <2>6, <2>7 DEF RankInv
<1> QED
  BY <1>1, <1>2

(* Steps that keep the candidates, whatever else they write in them.       *)
LEMMA BestKept ==
  ASSUME NEW s, NEW t, NEW g, NEW v, NEW nodes, NEW k, BestFirst(s, g, v, nodes, k),
         Len(t) = Len(s),
         \A i \in 1 .. Len(s) : /\ t[i].node = s[i].node /\ t[i].graphRank = s[i].graphRank
                                /\ t[i].vectorRank = s[i].vectorRank
  PROVE  BestFirst(t, g, v, nodes, k)
<1>1. PICK w \in SetToSeqs(Found(g, v) \cap nodes) : InOrder(w, g, v) /\ FirstOf(s, w, g, v, k)
  BY DEF BestFirst
<1>2. FirstOf(t, w, g, v, k)
  BY <1>1 DEF FirstOf
<1> QED
  BY <1>1, <1>2 DEF BestFirst

LEMMA LaterRanks ==
  ASSUME RankInv, pc \in LaterPhase, pc' \in LaterPhase, pc' = "impact" => q.rerank,
         UNCHANGED <<q, vector, graph, checked>>, Len(ranked') = Len(ranked),
         \A i \in 1 .. Len(ranked) : /\ ranked'[i].node = ranked[i].node
                                     /\ ranked'[i].graphRank = ranked[i].graphRank
                                     /\ ranked'[i].vectorRank = ranked[i].vectorRank
  PROVE  RankInv'
<1>1. BestFirst(ranked, graph, vector, checked, TopK)
  BY DEF RankInv
<1>2. BestFirst(ranked', graph, vector, checked, TopK)
  BY <1>1, BestKept
<1>3. BestFirst(ranked, graph, vector, checked, TopK)'
  BY <1>2 DEF TopK
<1>4. pc' # "recheck" /\ ~ Answered'
  BY DEF LaterPhase, Answered, EndPhase
<1> QED
  BY <1>3, <1>4 DEF RankInv

LEMMA NamesRanks ==
  ASSUME CallInv, AnswerInv, RankInv, HydrateNames
  PROVE  RankInv'
<1>1. pc = "names"
  BY DEF HydrateNames
<1>2. /\ Len(ranked) \in Nat /\ DOMAIN ranked = 1 .. Len(ranked)
      /\ \A i \in 1 .. Len(ranked) : ranked[i] \in EntryType /\ Tells(ranked[i], sc)
      /\ EntryList(ranked)
  BY <1>1, LaterRanked
<1>3. CASE FailWith("Internal")
  BY <1>3, FailRanks
<1>4. CASE ~ FailWith("Internal")
  <2>1. ranked' = [i \in DOMAIN ranked |-> Hydrated(ranked[i])]
    BY <1>4 DEF HydrateNames, Hydrated
  <2>2. pc' \in {"text", "rerank"} /\ UNCHANGED <<q, vector, graph, checked>>
    BY <1>4 DEF HydrateNames, Goto
  <2>3. label \in [Node -> Name]
    BY DEF CallInv
  <2>4. \A i \in 1 .. Len(ranked) :
          /\ ranked'[i] \in EntryType /\ ranked'[i].node = ranked[i].node
          /\ ranked'[i].graphRank = ranked[i].graphRank
          /\ ranked'[i].vectorRank = ranked[i].vectorRank
    BY <1>2, <2>1, <2>3, HydratedIs
  <2>5. ranked' = [i \in DOMAIN ranked |-> ranked'[i]]
    BY <2>1
  <2>6. Len(ranked') = Len(ranked)
    BY <1>2, <2>4, <2>5, SameNodes
  <2>7. pc \in LaterPhase /\ pc' \in LaterPhase /\ pc' # "impact"
    BY <1>1, <2>2 DEF LaterPhase
  <2> QED
    BY <2>2, <2>4, <2>6, <2>7, LaterRanks
<1> QED
  BY <1>3, <1>4

LEMMA TextRanks ==
  ASSUME CallInv, AnswerInv, RankInv, HydrateSourceText
  PROVE  RankInv'
<1>1. pc = "text"
  BY DEF HydrateSourceText
<1>2. /\ Len(ranked) \in Nat /\ DOMAIN ranked = 1 .. Len(ranked)
      /\ \A i \in 1 .. Len(ranked) : ranked[i] \in EntryType
  BY <1>1, LaterRanked
<1>3. CASE FailWith("Internal")
  BY <1>3, FailRanks
<1>4. CASE ~ FailWith("Internal")
  <2>1. \E text : ranked' = [i \in DOMAIN ranked |-> [ranked[i] EXCEPT !.text = text[i]]]
    BY <1>4 DEF HydrateSourceText
  <2>2. PICK text : ranked' = [i \in DOMAIN ranked |-> [ranked[i] EXCEPT !.text = text[i]]]
    BY <2>1
  <2>3. pc' = "rerank" /\ UNCHANGED <<q, vector, graph, checked>>
    BY <1>4 DEF HydrateSourceText, Goto
  <2>4. ASSUME NEW i \in 1 .. Len(ranked)
        PROVE  /\ ranked'[i].node = ranked[i].node
               /\ ranked'[i].graphRank = ranked[i].graphRank
               /\ ranked'[i].vectorRank = ranked[i].vectorRank
    <3>1. ranked'[i] = [ranked[i] EXCEPT !.text = text[i]] /\ ranked[i] \in EntryType
      BY <1>2, <2>2
    <3> QED
      BY <3>1 DEF EntryType
  <2>5. ranked' \in Seq(EntryType)
    BY TextKeeps DEF CallInv
  <2>6. Len(ranked') = Len(ranked)
    <3>1. DOMAIN ranked' = 1 .. Len(ranked) /\ DOMAIN ranked' = 1 .. Len(ranked') /\ Len(ranked') \in Nat
      BY <1>2, <2>2, <2>5
    <3> QED
      BY <1>2, <3>1
  <2>7. pc \in LaterPhase /\ pc' \in LaterPhase /\ pc' # "impact"
    BY <1>1, <2>3 DEF LaterPhase
  <2> QED
    BY <2>3, <2>4, <2>6, <2>7, LaterRanks
<1> QED
  BY <1>3, <1>4

LEMMA RerankerRanks ==
  ASSUME CallInv, AnswerInv, RankInv, CallReranker
  PROVE  RankInv'
<1>1. pc = "rerank" /\ q.rerank
  BY DEF CallReranker
<1>2. /\ Len(ranked) \in Nat /\ DOMAIN ranked = 1 .. Len(ranked)
      /\ \A i \in 1 .. Len(ranked) : ranked[i] \in EntryType
  BY <1>1, LaterRanked
<1>3. CASE FailWith("Internal")
  BY <1>3, FailRanks
<1>4. CASE ~ FailWith("Internal")
  <2>1. \E score : ranked' = [i \in DOMAIN ranked |-> [ranked[i] EXCEPT !.final = score[i]]]
    BY <1>4 DEF CallReranker
  <2>2. PICK score : ranked' = [i \in DOMAIN ranked |-> [ranked[i] EXCEPT !.final = score[i]]]
    BY <2>1
  <2>3. pc' = "impact" /\ UNCHANGED <<q, vector, graph, checked>>
    BY <1>4 DEF CallReranker, Goto
  <2>4. ASSUME NEW i \in 1 .. Len(ranked)
        PROVE  /\ ranked'[i].node = ranked[i].node
               /\ ranked'[i].graphRank = ranked[i].graphRank
               /\ ranked'[i].vectorRank = ranked[i].vectorRank
    <3>1. ranked'[i] = [ranked[i] EXCEPT !.final = score[i]] /\ ranked[i] \in EntryType
      BY <1>2, <2>2
    <3> QED
      BY <3>1 DEF EntryType
  <2>5. ranked' \in Seq(EntryType)
    BY RerankKeeps DEF CallInv
  <2>6. Len(ranked') = Len(ranked)
    <3>1. DOMAIN ranked' = 1 .. Len(ranked) /\ DOMAIN ranked' = 1 .. Len(ranked') /\ Len(ranked') \in Nat
      BY <1>2, <2>2, <2>5
    <3> QED
      BY <1>2, <3>1
  <2>7. pc \in LaterPhase /\ pc' \in LaterPhase
    BY <1>1, <2>3 DEF LaterPhase
  <2> QED
    BY <1>1, <2>3, <2>4, <2>6, <2>7, LaterRanks
<1> QED
  BY <1>3, <1>4

(* The candidates are no more than top_k. *)
LEMMA BestIsShort ==
  ASSUME NEW s, NEW g \in Seq(LegEntry), NEW v \in Seq(Point), NEW nodes, NEW k \in Nat,
         BestFirst(s, g, v, nodes, k)
  PROVE  /\ Len(s) = (IF k < Cardinality(Found(g, v) \cap nodes)
                      THEN k ELSE Cardinality(Found(g, v) \cap nodes))
         /\ Len(s) <= k
<1> DEFINE N == Found(g, v) \cap nodes
<1>1. PICK w \in SetToSeqs(N) : FirstOf(s, w, g, v, k)
  BY DEF BestFirst
<1>2. IsFiniteSet(N)
  BY FoundIs, FS_Subset
<1> HIDE DEF N
<1>3. Lists(w, Cardinality(N), N) /\ Cardinality(N) \in Nat
  BY <1>1, <1>2, OrdersList, FS_CardinalityType
<1>4. Len(w) = Cardinality(N)
  BY <1>3 DEF Lists
<1> QED
  BY <1>1, <1>3, <1>4 DEF FirstOf, N

(* The step that responds. *)
LEMMA RespondRanks ==
  ASSUME RankInv, pc \in LaterPhase, NEW nodes, Respond(nodes),
         UNCHANGED <<q, vector, graph, ranked, checked>>,
         EntryList(ranked), NodesOf(nodes) = NodesOf(ranked), Len(nodes) = Len(ranked),
         ~ q.rerank => nodes = ranked
  PROVE  RankInv'
<1>1. /\ pc' = "replied" /\ reply'.nodes = nodes
      /\ reply'.graphCandidates = Cardinality({i \in DOMAIN ranked : ranked[i].graphRank > 0})
      /\ reply'.vectorCandidates = Cardinality({i \in DOMAIN ranked : ranked[i].vectorRank > 0})
      /\ reply'.degraded = (Cardinality({i \in DOMAIN ranked : ranked[i].vectorRank > 0}) = 0)
  BY RespondIs
<1>2. BestFirst(ranked, graph, vector, checked, TopK)
  BY DEF RankInv
<1>3. BestFirst(ranked, graph, vector, checked, TopK)'
  BY <1>2 DEF TopK
<1>4. pc' # "recheck" /\ pc' # "impact"
  BY <1>1
<1>5. /\ EntryList(ranked)' /\ (NodesOf(reply.nodes) = NodesOf(ranked))'
      /\ (Len(reply.nodes) = Len(ranked))' /\ (~q.rerank => reply.nodes = ranked)'
  <2>1. EntryList(ranked)'
    BY DEF EntryList
  <2>2. (NodesOf(reply.nodes) = NodesOf(ranked))'
    BY <1>1
  <2> QED
    BY <1>1, <2>1, <2>2
<1>6. /\ (reply.graphCandidates = Cardinality({i \in DOMAIN ranked : ranked[i].graphRank > 0}))'
      /\ (reply.vectorCandidates = Cardinality({i \in DOMAIN ranked : ranked[i].vectorRank > 0}))'
      /\ (reply.degraded = (reply.vectorCandidates = 0))'
  BY <1>1
<1> QED
  BY <1>3, <1>4, <1>5, <1>6 DEF RankInv

LEMMA WithoutRanks ==
  ASSUME CallInv, AnswerInv, RankInv, WithoutRerank
  PROVE  RankInv'
<1>1. pc = "rerank" /\ Respond(ranked) /\ UNCHANGED <<q, vector, graph, ranked, checked>>
  BY DEF WithoutRerank
<1>2. EntryList(ranked) /\ pc \in LaterPhase
  BY <1>1, LaterRanked DEF LaterPhase
<1> QED
  BY <1>1, <1>2, RespondRanks

LEMMA ImpactRanks ==
  ASSUME CallInv, AnswerInv, RankInv, ReadImpact
  PROVE  RankInv'
<1>1. pc = "impact" /\ q.rerank
  BY DEF ReadImpact, RankInv
<1>2. pc \in HybridPhase /\ EntryList(ranked) /\ pc \in LaterPhase /\ Len(ranked) \in Nat
  BY <1>1, LaterRanked DEF LaterPhase
<1>3. CASE FailWith("Internal")
  BY <1>3, FailRanks
<1>4. CASE ~ FailWith("Internal")
  <2>1. UNCHANGED <<q, vector, graph, ranked, checked>>
    BY <1>4, ImpactIs
  <2>2. PICK order : /\ Respond(Limit(order, TopK)) /\ EntryList(order)
                     /\ NodesOf(order) = NodesOf(ranked)
    BY <1>4, ImpactIs
  <2>3. TopK \in Nat /\ order \in Seq(EntryType)
    BY <1>2, <2>2, TopKNat DEF EntryList
  <2>4. Len(order) = Len(ranked)
    BY <1>2, <2>2, DistinctCount DEF EntryList
  <2>5. Len(ranked) <= TopK
    <3>1. BestFirst(ranked, graph, vector, checked, TopK)
      BY <1>2 DEF RankInv
    <3>2. graph \in Seq(LegEntry) /\ vector \in Seq(Point)
      BY DEF CallInv
    <3> QED
      BY <2>3, <3>1, <3>2, BestIsShort
  <2> DEFINE best == Limit(order, TopK)
  <2>6. Picks(best, order, [i \in 1 .. Len(best) |-> i]) /\ Len(best) = Len(order)
    <3>1. Len(best) = IF TopK < Len(order) THEN TopK ELSE Len(order)
      BY <2>3, LimitPicks
    <3>2. Picks(best, order, [i \in 1 .. Len(best) |-> i])
      BY <2>3, LimitPicks
    <3> HIDE DEF best
    <3> QED
      BY <1>2, <2>3, <2>4, <2>5, <3>1, <3>2
  <2> HIDE DEF best
  <2>7. NodesOf(best) = NodesOf(order)
    <3>1. \A i \in 1 .. Len(best) : best[i] = order[i]
      BY <2>6 DEF Picks
    <3>2. DOMAIN best = 1 .. Len(best) /\ DOMAIN order = 1 .. Len(order)
      BY <2>3, <2>6 DEF Picks
    <3> QED
      BY <2>6, <3>1, <3>2 DEF NodesOf
  <2>8. Respond(best) /\ NodesOf(best) = NodesOf(ranked) /\ Len(best) = Len(ranked)
    BY <2>2, <2>4, <2>6, <2>7 DEF best
  <2> QED
    BY <1>1, <1>2, <2>1, <2>8, RespondRanks
<1> QED
  BY <1>3, <1>4

(* Steps of the graph, of the packer, and none. *)
LEMMA QuietRanks ==
  ASSUME RankInv, UNCHANGED <<q, vector, graph, ranked, checked, reply>>,
         \/ pc' = pc
         \/ pc = "replied" /\ pc' = "packed"
  PROVE  RankInv'
<1>1. /\ Ranking(ranked, graph, vector)' = Ranking(ranked, graph, vector)
      /\ BestFirst(ranked, graph, vector, checked, TopK)' = BestFirst(ranked, graph, vector, checked, TopK)
      /\ EntryList(ranked)' = EntryList(ranked)
      /\ NodesOf(reply.nodes)' = NodesOf(reply.nodes) /\ NodesOf(ranked)' = NodesOf(ranked)
  <2>1. TopK' = TopK
    BY DEF TopK
  <2>2. Ranking(ranked, graph, vector)' = Ranking(ranked, graph, vector)
    OBVIOUS
  <2>3. BestFirst(ranked, graph, vector, checked, TopK)' = BestFirst(ranked, graph, vector, checked, TopK)
    BY <2>1
  <2>4. EntryList(ranked)' = EntryList(ranked)
    OBVIOUS
  <2>5. NodesOf(reply.nodes)' = NodesOf(reply.nodes) /\ NodesOf(ranked)' = NodesOf(ranked)
    OBVIOUS
  <2> QED
    BY <2>2, <2>3, <2>4, <2>5
<1>2. Answered' = Answered /\ (pc' \in LaterPhase) = (pc \in LaterPhase)
      /\ (pc' = "recheck" => pc = "recheck") /\ (pc' = "impact" => pc = "impact")
  BY DEF Answered, OK, LaterPhase, EndPhase
<1>3. /\ pc' = "recheck" => Ranking(ranked, graph, vector)'
      /\ pc' = "impact" => q'.rerank
      /\ (pc' \in LaterPhase \/ Answered') => BestFirst(ranked, graph, vector, checked, TopK)'
  BY <1>1, <1>2 DEF RankInv
<1>4. Answered' =>
       /\ EntryList(ranked)' /\ NodesOf(reply.nodes)' = NodesOf(ranked)'
       /\ Len(reply'.nodes) = Len(ranked') /\ (~q'.rerank => reply'.nodes = ranked')
       /\ reply'.graphCandidates = Cardinality({i \in DOMAIN ranked' : ranked'[i].graphRank > 0})
       /\ reply'.vectorCandidates = Cardinality({i \in DOMAIN ranked' : ranked'[i].vectorRank > 0})
       /\ reply'.degraded = (reply'.vectorCandidates = 0)
  <2>1. SUFFICES ASSUME Answered
        PROVE  /\ EntryList(ranked) /\ NodesOf(reply.nodes) = NodesOf(ranked)
               /\ Len(reply.nodes) = Len(ranked) /\ (~q.rerank => reply.nodes = ranked)
               /\ reply.graphCandidates = Cardinality({i \in DOMAIN ranked : ranked[i].graphRank > 0})
               /\ reply.vectorCandidates = Cardinality({i \in DOMAIN ranked : ranked[i].vectorRank > 0})
               /\ reply.degraded = (reply.vectorCandidates = 0)
    BY <1>1, <1>2
  <2> QED
    BY <2>1 DEF RankInv
<1> QED
  BY <1>3, <1>4 DEF RankInv

LEMMA RankStep ==
  ASSUME CallInv, AnswerInv, LegsInv, RankInv, [Next]_vars
  PROVE  RankInv'
<1>1. CASE MergeNode
  BY <1>1, QuietRanks DEF MergeNode
<1>2. CASE Receive
  BY <1>2, ReceiveRanks
<1>3. CASE GetNode \/ ExpandNeighbors \/ FullText
  <2>1. pc \in {"get", "expand", "fulltext"}
    BY <1>3 DEF GetNode, ExpandNeighbors, FullText
  <2>2. q.kind # "hybrid"
    BY <2>1 DEF CallInv
  <2>3. CASE FailWith("Internal")
    BY <2>3, FailRanks
  <2>4. CASE ~ FailWith("Internal")
    <3>1. \E r : Answer(r)
      <4>1. CASE GetNode
        BY <2>4, <4>1 DEF GetNode
      <4>2. CASE ExpandNeighbors
        BY <2>4, <4>2 DEF ExpandNeighbors
      <4>3. CASE FullText
        BY <2>4, <4>3 DEF FullText
      <4> QED
        BY <1>3, <4>1, <4>2, <4>3
    <3> QED
      BY <2>2, <3>1, AnswerRanks
  <2> QED
    BY <2>3, <2>4
<1>6. CASE EmbedQuery
  <2>1. FailWith("Internal") \/ pc' = "vector"
    BY <1>6 DEF EmbedQuery, Goto
  <2> QED
    BY <2>1, FailRanks, EarlyRanks
<1>7. CASE VectorSearch
  <2>1. pc' = "graph"
    BY <1>7 DEF VectorSearch, Goto
  <2> QED
    BY <2>1, EarlyRanks
<1>8. CASE GraphTraversal
  BY <1>8, TraversalRanks
<1>9. CASE RecheckAuthorized
  BY <1>9, RecheckRanks
<1>10. CASE HydrateNames
  BY <1>10, NamesRanks
<1>11. CASE HydrateSourceText
  BY <1>11, TextRanks
<1>12. CASE WithoutRerank
  BY <1>12, WithoutRanks
<1>13. CASE CallReranker
  BY <1>13, RerankerRanks
<1>14. CASE ReadImpact
  BY <1>14, ImpactRanks
<1>15. CASE PackReply
  BY <1>15, QuietRanks DEF PackReply
<1>16. CASE UNCHANGED vars
  BY <1>16, QuietRanks DEF vars
<1> QED
  BY <1>1, <1>2, <1>3, <1>6, <1>7, <1>8, <1>9, <1>10, <1>11, <1>12, <1>13,
     <1>14, <1>15, <1>16 DEF Next

LEMMA RankInitially == Init => RankInv
<1> SUFFICES ASSUME Init PROVE RankInv
  OBVIOUS
<1>1. pc = "idle"
  BY DEF Init
<1> QED
  BY <1>1 DEF RankInv, LaterPhase, Answered, EndPhase

-----------------------------------------------------------------------------
(* What the candidates say of a hybrid reply.                              *)

LEMMA AnsweredIs ==
  ASSUME CallInv, OK, q.kind = "hybrid"
  PROVE  /\ Answered /\ TopK \in Nat
         /\ graph \in Seq(LegEntry) /\ vector \in Seq(Point)
<1>1. pc \in EndPhase
  BY DEF CallInv, OK, NoReply
<1>2. q \in Query
  BY <1>1 DEF CallInv, EndPhase
<1>3. q.topK \in Nat
  BY <1>2, QueryAssumption
<1>4. TopK \in Nat
  BY <1>3, DefaultNat DEF TopK
<1> QED
  BY <1>1, <1>4 DEF Answered, CallInv

(* The authorized candidates, best first. *)
Ordered(w) ==
  LET N == Found(graph, vector) \cap checked
  IN /\ N \subseteq Node /\ Cardinality(N) \in Nat /\ Lists(w, Cardinality(N), N)
     /\ w \in SetToSeqs(N) /\ InOrder(w, graph, vector)
     /\ FirstOf(ranked, w, graph, vector, TopK)

LEMMA OrderedExists ==
  ASSUME CallInv, RankInv, OK, q.kind = "hybrid"
  PROVE  \E w : Ordered(w)
<1> DEFINE N == Found(graph, vector) \cap checked
<1>1. Answered /\ TopK \in Nat /\ graph \in Seq(LegEntry) /\ vector \in Seq(Point)
  BY AnsweredIs
<1>2. BestFirst(ranked, graph, vector, checked, TopK)
  BY <1>1 DEF RankInv
<1>3. PICK w \in SetToSeqs(N) : InOrder(w, graph, vector) /\ FirstOf(ranked, w, graph, vector, TopK)
  BY <1>2 DEF BestFirst
<1>4. N \subseteq Node /\ IsFiniteSet(N)
  BY <1>1, FoundIs, FS_Subset
<1>5. Lists(w, Cardinality(N), N) /\ Cardinality(N) \in Nat
  BY <1>3, <1>4, OrdersList, FS_CardinalityType
<1>6. Ordered(w)
  BY <1>3, <1>4, <1>5 DEF Ordered
<1> QED
  BY <1>6

LEMMA BestFollows ==
  ASSUME CallInv, LegsInv, RankInv
  PROVE  BestAuthorized
<1> SUFFICES ASSUME OK, q.kind = "hybrid" PROVE BestAuthorized
  BY DEF BestAuthorized
<1> DEFINE N == Found(graph, vector) \cap checked
           before(a, i) == a \in {reply.nodes[j].node : j \in 1 .. i}
<1>1. Answered /\ TopK \in Nat /\ graph \in Seq(LegEntry) /\ vector \in Seq(Point)
  BY AnsweredIs
<1>2. /\ EntryList(ranked) /\ NodesOf(reply.nodes) = NodesOf(ranked)
      /\ Len(reply.nodes) = Len(ranked) /\ (~q.rerank => reply.nodes = ranked)
      /\ BestFirst(ranked, graph, vector, checked, TopK)
  BY <1>1 DEF RankInv
<1>3. Len(ranked) \in Nat /\ DOMAIN ranked = 1 .. Len(ranked)
  BY <1>2 DEF EntryList
<1>4. PICK w : Ordered(w)
  BY OrderedExists
<1>5. /\ N \subseteq Node /\ Cardinality(N) \in Nat /\ Lists(w, Cardinality(N), N)
      /\ InOrder(w, graph, vector) /\ FirstOf(ranked, w, graph, vector, TopK)
  BY <1>4 DEF Ordered
<1>a. N \subseteq Found(graph, vector)
  OBVIOUS
<1>b. GoodLegs(graph, vector)
  BY DEF LegsInv
<1> HIDE DEF N
<1>6. DOMAIN w = 1 .. Cardinality(N) /\ Len(w) = Cardinality(N)
      /\ \A i \in 1 .. Cardinality(N) : w[i] \in N
  <2>1. DOMAIN w = 1 .. Cardinality(N) /\ Len(w) = Cardinality(N) /\ w \in Seq(N)
    BY <1>5 DEF Lists
  <2> QED
    BY <2>1
<1>7. Len(ranked) <= Cardinality(N) /\ \A i \in 1 .. Len(ranked) : ranked[i].node = w[i]
  BY <1>1, <1>5, <1>6 DEF FirstOf
<1>8. NodesOf(ranked) \subseteq N
  <2>1. \A i \in 1 .. Len(ranked) : i \in 1 .. Cardinality(N)
    BY <1>3, <1>5, <1>7
  <2> QED
    BY <1>3, <1>6, <1>7, <2>1 DEF NodesOf
<1>9. Len(reply.nodes) = Min({TopK, Cardinality(N)})
  <2>1. Len(ranked) = IF TopK < Cardinality(N) THEN TopK ELSE Cardinality(N)
    BY <1>1, <1>2, BestIsShort DEF N
  <2> QED
    BY <1>1, <1>2, <1>5, <2>1, SmallerIs
<1>10. ASSUME ~q.rerank, NEW i \in DOMAIN reply.nodes, NEW a \in N,
              Better(a, reply.nodes[i].node)
       PROVE  before(a, i)
  <2>1. reply.nodes = ranked /\ i \in 1 .. Len(ranked)
    BY <1>2, <1>3, <1>10
  <2> DEFINE b == w[i]
  <2>2. i \in 1 .. Cardinality(N) /\ reply.nodes[i].node = b /\ b \in N
    BY <1>3, <1>5, <1>6, <1>7, <2>1
  <2>3. AheadIn(graph, a, b) /\ AheadIn(vector, a, b) /\ a # b
    BY <1>10, <2>2, BetterIs
  <2>4. a \in Node /\ b \in Node /\ b \in Found(graph, vector)
    BY <1>5, <1>a, <2>2
  <2> HIDE DEF b
  <2>5. Final(graph, vector, a).final > Final(graph, vector, b).final
    BY <1>b, <2>3, <2>4, BetterScores
  <2>6. Final(graph, vector, a).final \in Nat /\ Final(graph, vector, b).final \in Nat
    <3>1. Final(graph, vector, a) \in EntryType /\ Final(graph, vector, b) \in EntryType
      BY <1>1, <2>4, FinalIs
    <3> QED
      BY <3>1 DEF EntryType
  <2>7. PICK j \in 1 .. Cardinality(N) : w[j] = a
    BY <1>5 DEF Lists
  <2>8. ~ (i < j)
    <3>1. i < j => Final(graph, vector, w[i]).final >= Final(graph, vector, w[j]).final
      BY <1>5, <1>6, <2>2, <2>7 DEF InOrder
    <3> QED
      BY <2>5, <2>6, <2>7, <3>1 DEF b
  <2>9. j # i
    BY <2>3, <2>7 DEF b
  <2>10. j \in 1 .. i /\ j \in 1 .. Len(ranked)
    BY <1>3, <1>5, <2>1, <2>2, <2>7, <2>8, <2>9
  <2>11. reply.nodes[j].node = a
    BY <1>7, <2>1, <2>7, <2>10
  <2> QED
    BY <2>10, <2>11
<1>11. N = (NodesOf(graph) \cup NodesOf(vector)) \cap checked
  BY DEF N, Found
<1> HIDE DEF before
<1>12. ~q.rerank => \A i \in DOMAIN reply.nodes : \A a \in N :
                     Better(a, reply.nodes[i].node) => before(a, i)
  BY <1>10
<1> QED
  BY <1>2, <1>8, <1>9, <1>11, <1>12 DEF BestAuthorized, before

(* A leg names a node once: the node is met at its rank and nowhere else.  *)
LEMMA OnceIn ==
  ASSUME NEW g \in Seq(LegEntry), Distinct(g, Len(g)), NEW x \in NodesOf(g), NEW k \in Nat
  PROVE  LET r == FirstRank(Ranks(g, x))
         IN /\ r \in 1 .. Len(g) /\ g[r].node = x
            /\ UpTo(g, x, k) = IF r <= k THEN 1 ELSE 0
<1> DEFINE r == FirstRank(Ranks(g, x))
<1>0. Len(g) \in Nat /\ DOMAIN g = 1 .. Len(g)
  OBVIOUS
<1>1. r \in 1 .. Len(g) /\ g[r].node = x
  BY FirstRankIs
<1> HIDE DEF r
<1>2. Ranks(g, x) = {r}
  BY <1>0, <1>1 DEF Ranks, Distinct
<1>3. {i \in Ranks(g, x) : i <= k} = IF r <= k THEN {r} ELSE {}
  BY <1>2
<1>4. Cardinality({r}) = 1 /\ Cardinality({}) = 0
  BY FS_Singleton, FS_EmptySet
<1>5. UpTo(g, x, k) = IF r <= k THEN 1 ELSE 0
  BY <1>3, <1>4 DEF UpTo
<1> QED
  BY <1>1, <1>5 DEF r

(* Without the vector leg the graph leg alone decides, the nearest first.  *)
LEMMA AloneIsNearest ==
  ASSUME CallInv, LegsInv, vector = <<>>, NEW w, InOrder(w, graph, vector),
         NEW i \in DOMAIN w, NEW j \in DOMAIN w, i < j, w[i] # w[j],
         w[i] \in NodesOf(graph), w[j] \in NodesOf(graph), w[i] \in Node, w[j] \in Node
  PROVE  \E k, m \in DOMAIN graph : /\ graph[k].node = w[i] /\ graph[m].node = w[j]
                                    /\ graph[k].hop <= graph[m].hop
<1> DEFINE a == w[i]
           b == w[j]
           k == FirstRank(Ranks(graph, a))
           m == FirstRank(Ranks(graph, b))
<1>0. /\ GoodLegs(graph, vector) /\ graph \in Seq(LegEntry) /\ vector \in Seq(Point)
      /\ Distinct(graph, Len(graph)) /\ Len(graph) \in Nat /\ DOMAIN graph = 1 .. Len(graph)
  BY DEF LegsInv, GoodLegs
<1>1. /\ k \in 1 .. Len(graph) /\ graph[k].node = a
      /\ \A n \in Nat : UpTo(graph, a, n) = IF k <= n THEN 1 ELSE 0
  BY <1>0, OnceIn
<1>2. /\ m \in 1 .. Len(graph) /\ graph[m].node = b
      /\ \A n \in Nat : UpTo(graph, b, n) = IF m <= n THEN 1 ELSE 0
  BY <1>0, OnceIn
<1>3. Final(graph, vector, a).final >= Final(graph, vector, b).final
  BY DEF InOrder
<1>4. Final(graph, vector, a).final \in Nat /\ Final(graph, vector, b).final \in Nat
  <2>1. Final(graph, vector, a) \in EntryType /\ Final(graph, vector, b) \in EntryType
    BY <1>0, FinalIs
  <2> QED
    BY <2>1 DEF EntryType
<1>a. a # b /\ a \in Node /\ b \in Node /\ a \in NodesOf(graph)
  OBVIOUS
<1> HIDE DEF k, m, a, b
<1>5. ASSUME m < k PROVE FALSE
  <2>1. AheadIn(graph, b, a)
    <3>1. ASSUME NEW n \in 1 .. Len(graph) PROVE UpTo(graph, b, n) >= UpTo(graph, a, n)
      <4>1. n \in Nat
        BY <1>0
      <4> QED
        BY <1>1, <1>2, <1>5, <4>1
    <3> QED
      BY <1>0, <3>1 DEF AheadIn
  <2>2. AheadIn(vector, b, a)
    BY DEF AheadIn
  <2>3. a \in Found(graph, vector)
    BY <1>a DEF Found
  <2>4. Final(graph, vector, b).final > Final(graph, vector, a).final
    BY <1>0, <1>a, <2>1, <2>2, <2>3, BetterScores
  <2> QED
    BY <1>3, <1>4, <2>4
<1>6. graph[k].hop \in Nat /\ graph[m].hop \in Nat
  <2>1. graph[k] \in LegEntry /\ graph[m] \in LegEntry
    BY <1>0, <1>1, <1>2
  <2> QED
    BY <2>1 DEF LegEntry
<1>7. graph[k].hop <= graph[m].hop
  <2>1. k = m \/ k < m
    BY <1>0, <1>1, <1>2, <1>5
  <2> QED
    BY <1>0, <1>1, <1>2, <1>6, <2>1 DEF GoodLegs
<1> QED
  BY <1>0, <1>1, <1>2, <1>7 DEF a, b

LEMMA DegradedFollows ==
  ASSUME CallInv, LegsInv, RankInv
  PROVE  DegradedKeepsGraph
<1> SUFFICES ASSUME OK, q.kind = "hybrid", lost PROVE DegradedKeepsGraph
  BY DEF DegradedKeepsGraph
<1> DEFINE N == Found(graph, vector) \cap checked
<1>1. Answered /\ TopK \in Nat /\ graph \in Seq(LegEntry) /\ vector = <<>>
  BY AnsweredIs DEF LegsInv
<1>2. /\ EntryList(ranked) /\ Len(reply.nodes) = Len(ranked) /\ (~q.rerank => reply.nodes = ranked)
      /\ reply.graphCandidates = Cardinality({i \in DOMAIN ranked : ranked[i].graphRank > 0})
      /\ reply.vectorCandidates = Cardinality({i \in DOMAIN ranked : ranked[i].vectorRank > 0})
      /\ reply.degraded = (reply.vectorCandidates = 0)
  BY <1>1 DEF RankInv
<1>3. Len(ranked) \in Nat /\ DOMAIN ranked = 1 .. Len(ranked)
  BY <1>2 DEF EntryList
<1>4. PICK w : Ordered(w)
  BY OrderedExists
<1>5. /\ N \subseteq Node /\ Cardinality(N) \in Nat /\ Lists(w, Cardinality(N), N)
      /\ w \in SetToSeqs(N) /\ InOrder(w, graph, vector)
      /\ FirstOf(ranked, w, graph, vector, TopK)
  BY <1>4 DEF Ordered
<1>6. N = NodesOf(graph) \cap checked
  <2>1. NodesOf(vector) = {}
    BY <1>1 DEF NodesOf
  <2> QED
    BY <2>1 DEF Found
<1> HIDE DEF N
<1>7. /\ DOMAIN w = 1 .. Cardinality(N) /\ Len(w) = Cardinality(N)
      /\ \A i \in 1 .. Cardinality(N) : w[i] \in N
      /\ \A i, j \in 1 .. Cardinality(N) : w[i] = w[j] => i = j
  <2>1. /\ DOMAIN w = 1 .. Cardinality(N) /\ Len(w) = Cardinality(N) /\ w \in Seq(N)
        /\ \A i, j \in 1 .. Cardinality(N) : w[i] = w[j] => i = j
    BY <1>5 DEF Lists
  <2> QED
    BY <2>1
<1>8. /\ Len(ranked) <= Cardinality(N)
      /\ \A i \in 1 .. Len(ranked) :
           /\ ranked[i].node = w[i]
           /\ ranked[i].graphRank = FirstRank(Ranks(graph, w[i]))
           /\ ranked[i].vectorRank = FirstRank(Ranks(vector, w[i]))
  BY <1>1, <1>5, <1>7 DEF FirstOf
<1>9. ASSUME NEW i \in 1 .. Len(ranked)
      PROVE  ranked[i].graphRank > 0 /\ ranked[i].vectorRank = 0
  <2>1. i \in 1 .. Cardinality(N)
    BY <1>3, <1>5, <1>8
  <2>2. w[i] \in NodesOf(graph)
    BY <1>6, <1>7, <2>1
  <2>3. FirstRank(Ranks(graph, w[i])) \in 1 .. Len(graph)
    BY <1>1, <2>2, FirstRankIs
  <2>4. Ranks(vector, w[i]) = {}
    BY <1>1 DEF Ranks
  <2>5. FirstRank(Ranks(vector, w[i])) = 0
    BY <2>4 DEF FirstRank
  <2>6. Len(graph) \in Nat
    BY <1>1
  <2> QED
    BY <1>8, <2>3, <2>5, <2>6
<1>10. reply.degraded /\ reply.vectorCandidates = 0
  <2>1. {i \in DOMAIN ranked : ranked[i].vectorRank > 0} = {}
    BY <1>3, <1>9
  <2> QED
    BY <1>2, <2>1, FS_EmptySet
<1>11. reply.graphCandidates = Len(reply.nodes)
  <2>1. {i \in DOMAIN ranked : ranked[i].graphRank > 0} = 1 .. Len(ranked)
    BY <1>3, <1>9
  <2>2. ASSUME NEW n \in Nat PROVE Cardinality(1 .. n) = n
    <3>1. Cardinality(1 .. n) = IF 1 > n THEN 0 ELSE n - 1 + 1
      BY FS_Interval
    <3> QED
      BY <3>1
  <2> QED
    BY <1>2, <1>3, <2>1, <2>2
<1>12. ASSUME ~q.rerank
       PROVE  \A i \in DOMAIN reply.nodes : reply.nodes[i].node = w[i]
  BY <1>2, <1>3, <1>8, <1>12
<1>13. ASSUME NEW i \in DOMAIN w, NEW j \in DOMAIN w, i < j
       PROVE  \E k, m \in DOMAIN graph : /\ graph[k].node = w[i] /\ graph[m].node = w[j]
                                         /\ graph[k].hop <= graph[m].hop
  <2>1. i \in 1 .. Cardinality(N) /\ j \in 1 .. Cardinality(N) /\ i # j
    BY <1>5, <1>7, <1>13
  <2>2. w[i] # w[j] /\ w[i] \in N /\ w[j] \in N
    BY <1>7, <2>1
  <2>3. w[i] \in NodesOf(graph) /\ w[j] \in NodesOf(graph) /\ w[i] \in Node /\ w[j] \in Node
    BY <1>5, <1>6, <2>2
  <2> QED
    BY <1>1, <1>5, <1>13, <2>2, <2>3, AloneIsNearest
<1>14. ~q.rerank =>
         \E order \in SetToSeqs(NodesOf(graph) \cap checked) :
           /\ \A i \in DOMAIN reply.nodes : reply.nodes[i].node = order[i]
           /\ \A i, j \in DOMAIN order : i < j =>
                \E k, m \in DOMAIN graph : /\ graph[k].node = order[i] /\ graph[m].node = order[j]
                                          /\ graph[k].hop <= graph[m].hop
  <2> SUFFICES ASSUME ~q.rerank
               PROVE  \E order \in SetToSeqs(NodesOf(graph) \cap checked) :
                 /\ \A i \in DOMAIN reply.nodes : reply.nodes[i].node = order[i]
                 /\ \A i, j \in DOMAIN order : i < j =>
                      \E k, m \in DOMAIN graph : /\ graph[k].node = order[i] /\ graph[m].node = order[j]
                                                /\ graph[k].hop <= graph[m].hop
    OBVIOUS
  <2>1. w \in SetToSeqs(NodesOf(graph) \cap checked)
    BY <1>5, <1>6
  <2> WITNESS w \in SetToSeqs(NodesOf(graph) \cap checked)
  <2>2. \A i \in DOMAIN reply.nodes : reply.nodes[i].node = w[i]
    BY <1>12
  <2>3. \A i, j \in DOMAIN w : i < j =>
          \E k, m \in DOMAIN graph : /\ graph[k].node = w[i] /\ graph[m].node = w[j]
                                    /\ graph[k].hop <= graph[m].hop
    BY <1>13
  <2> QED
    BY <2>2, <2>3
<1> QED
  BY <1>10, <1>11, <1>14 DEF DegradedKeepsGraph

(* A hybrid reply holds the top_k best of the authorized candidates, with  *)
(* nobody better placed in both legs behind or left out, for every pair of *)
(* legs, every scale that keeps the contributions exact, every top_k.      *)
THEOREM BestAreAnswered == Spec => []BestAuthorized
<1>1. Init => CallInv /\ AnswerInv /\ LegsInv /\ RankInv
  BY CallInitially, LegsInitially, RankInitially
<1>2. CallInv /\ AnswerInv /\ LegsInv /\ RankInv /\ [Next]_vars
      => CallInv' /\ AnswerInv' /\ LegsInv' /\ RankInv'
  BY CallStep, LegsStep, RankStep
<1>3. CallInv /\ LegsInv /\ RankInv => BestAuthorized
  BY BestFollows
<1> QED
  BY <1>1, <1>2, <1>3, PTL DEF Spec

(* When the vector leg fails, the reply is the graph leg, nearest first,   *)
(* says so, and counts no vector candidate.                                *)
THEOREM DegradedIsGraphLeg == Spec => []DegradedKeepsGraph
<1>1. Init => CallInv /\ AnswerInv /\ LegsInv /\ RankInv
  BY CallInitially, LegsInitially, RankInitially
<1>2. CallInv /\ AnswerInv /\ LegsInv /\ RankInv /\ [Next]_vars
      => CallInv' /\ AnswerInv' /\ LegsInv' /\ RankInv'
  BY CallStep, LegsStep, RankStep
<1>3. CallInv /\ LegsInv /\ RankInv => DegradedKeepsGraph
  BY DegradedFollows
<1> QED
  BY <1>1, <1>2, <1>3, PTL DEF Spec

-----------------------------------------------------------------------------
(* Breadth first, and the trails of the graph query.                       *)

Around(S) ==
  {r.from : r \in {x \in Relation : /\ x.type \in TraversalTypes
                                    /\ x.to \in S /\ Visible(x.from)}}
NearBy(near) ==
  /\ near \in [Nat -> SUBSET InNow]
  /\ near[0] = InNow \cap {q.node}
  /\ \A k \in Nat : near[k + 1] = Around(near[k])
  /\ \A k \in Nat : Within(k) = UNION {near[i] : i \in 1 .. k}

LEMMA NearAre == \E near : NearBy(near)
<1> DEFINE base == InNow \cap {q.node}
           step == [S \in SUBSET InNow |-> Around(S)]
           Body(f, k) == [i \in 0 .. k |-> IF i = 0 THEN base ELSE Around(f[i - 1])]
           nearTo(k) == CHOOSE f : f = Body(f, k)
<1>1. base \in SUBSET InNow /\ step \in [SUBSET InNow -> SUBSET InNow]
  <2>1. \A S : Around(S) \subseteq InNow
    BY QueriesAssumption DEF Around, InNow
  <2> QED
    BY <2>1
<1>2. PICK near \in [Nat -> SUBSET InNow] : Iterates(near, base, step)
  <2> HIDE DEF base, step
  <2> QED
    BY <1>1, IterationExists
<1>3. near[0] = base /\ \A k \in Nat : near[k + 1] = Around(near[k])
  BY <1>2 DEF Iterates
<1> HIDE DEF base, step
<1>4. ASSUME NEW k \in Nat
      PROVE  \A i \in 0 .. k : nearTo(k)[i] = near[i]
  <2> DEFINE g == [i \in 0 .. k |-> near[i]]
  <2>1. g = Body(g, k)
    <3>1. ASSUME NEW i \in 0 .. k PROVE g[i] = Body(g, k)[i]
      <4>1. CASE i = 0
        BY <1>3, <4>1
      <4>2. CASE i # 0
        <5>1. i - 1 \in Nat /\ (i - 1) + 1 = i /\ i - 1 \in 0 .. k
          BY <4>2
        <5>2. near[i] = Around(near[i - 1])
          BY <1>3, <5>1
        <5> QED
          BY <4>2, <5>1, <5>2
      <4> QED
        BY <4>1, <4>2
    <3> QED
      BY <3>1
  <2> HIDE DEF Body, g
  <2>2. nearTo(k) = Body(nearTo(k), k)
    BY <2>1
  <2> HIDE DEF nearTo
  <2> DEFINE S == {i \in Nat : i \in 0 .. k => nearTo(k)[i] = near[i]}
  <2>3. 0 \in S
    <3>1. nearTo(k)[0] = base
      BY <2>2 DEF Body
    <3> QED
      BY <1>3, <3>1
  <2>4. ASSUME NEW i \in Nat, i \in S PROVE i + 1 \in S
    <3>1. SUFFICES ASSUME i + 1 \in 0 .. k PROVE nearTo(k)[i + 1] = near[i + 1]
      OBVIOUS
    <3>2. i \in 0 .. k /\ i + 1 # 0 /\ (i + 1) - 1 = i
      BY <3>1
    <3>3. Body(nearTo(k), k)[i + 1] = Around(nearTo(k)[i])
      BY <3>1, <3>2 DEF Body
    <3>4. nearTo(k)[i + 1] = Around(nearTo(k)[i])
      BY <2>2, <3>3
    <3> QED
      BY <1>3, <2>4, <3>2, <3>4
  <2> HIDE DEF S
  <2>5. \A i \in Nat : i \in S
    BY <2>3, <2>4, NatSetInduction
  <2> QED
    BY <2>5 DEF S
<1>5. \A k : Within(k) = UNION {nearTo(k)[i] : i \in 1 .. k}
  BY DEF Within, Around, base
<1> HIDE DEF nearTo
<1>6. ASSUME NEW k \in Nat PROVE Within(k) = UNION {near[i] : i \in 1 .. k}
  <2>1. \A i \in 1 .. k : nearTo(k)[i] = near[i]
    BY <1>4
  <2>2. {nearTo(k)[i] : i \in 1 .. k} = {near[i] : i \in 1 .. k}
    BY <2>1
  <2> QED
    BY <1>5, <2>2
<1>7. NearBy(near)
  BY <1>2, <1>3, <1>6 DEF NearBy, base
<1> QED
  BY <1>7

Backwards(f) == TrailsBy(f, q.node, "reverse", TraversalTypes)

(* A trail follows relations backwards. *)
LEMMA ReverseStep ==
  ASSUME NEW t \in Trail, NEW s \in Steps(t, "reverse", TraversalTypes)
  PROVE  /\ s \in Trail
         /\ \E r \in Relation : /\ r.type \in TraversalTypes /\ r.to = t.at /\ s.at = r.from
                                /\ r \notin Range(t.path) /\ s.path = Append(t.path, r)
<1>1. PICK r \in Relation :
        /\ r \notin Range(t.path) /\ (TraversalTypes = {} \/ r.type \in TraversalTypes)
        /\ s.path = Append(t.path, r)
        /\ \/ "reverse" # "reverse" /\ r.from = t.at
           \/ "reverse" # "forward" /\ r.to = t.at
        /\ s.at = IF r.from = t.at THEN r.to ELSE r.from
  BY StepsAreTrails
<1>2. s \in Trail
  BY StepsAreTrails
<1>3. TraversalTypes # {}
  BY DEF TraversalTypes
<1> QED
  BY <1>1, <1>2, <1>3

LEMMA StepIsTaken ==
  ASSUME NEW t, NEW r \in Relation, r.type \in TraversalTypes, r.to = t.at, r \notin Range(t.path)
  PROVE  [at |-> r.from, path |-> Append(t.path, r)] \in Steps(t, "reverse", TraversalTypes)
<1>1. r.from = IF r.from = t.at THEN r.to ELSE r.from
  OBVIOUS
<1>2. r \in {x \in Relation : /\ x \notin Range(t.path)
                              /\ TraversalTypes = {} \/ x.type \in TraversalTypes
                              /\ \/ "reverse" # "reverse" /\ x.from = t.at
                                 \/ "reverse" # "forward" /\ x.to = t.at}
  OBVIOUS
<1> QED
  BY <1>1, <1>2 DEF Steps

LEMMA TrailsGrow ==
  ASSUME NEW f, Backwards(f), NEW j \in Nat, NEW k \in Nat, j <= k
  PROVE  f[j] \subseteq f[k]
<1> DEFINE S == {n \in Nat : f[j] \subseteq f[j + n]}
<1>1. 0 \in S
  OBVIOUS
<1>2. ASSUME NEW n \in Nat, n \in S PROVE n + 1 \in S
  <2>1. f[(j + n) + 1] = Extended(f[j + n], "reverse", TraversalTypes) /\ j + (n + 1) = (j + n) + 1
    BY DEF Backwards, TrailsBy
  <2> QED
    BY <1>2, <2>1 DEF Extended
<1> HIDE DEF S
<1>3. \A n \in Nat : n \in S
  BY <1>1, <1>2, NatSetInduction
<1>4. k - j \in Nat /\ j + (k - j) = k
  OBVIOUS
<1> QED
  BY <1>3, <1>4 DEF S

(* A trail of length l ends l steps away. *)
LEMMA TrailsAreNear ==
  ASSUME NEW f, Backwards(f), NEW near, NearBy(near), NEW k \in Nat, NEW t \in f[k]
  PROVE  /\ t \in Trail /\ Len(t.path) \in 0 .. k /\ t.at \in near[Len(t.path)]
         /\ t \in f[0] => Len(t.path) = 0
<1> DEFINE S == {n \in Nat : \A s \in f[n] : Len(s.path) \in 0 .. n /\ s.at \in near[Len(s.path)]}
<1>0. /\ \A n \in Nat : f[n] \subseteq Trail
      /\ f[0] = StartTrails(q.node)
      /\ \A n \in Nat : f[n + 1] = Extended(f[n], "reverse", TraversalTypes)
  BY DEF Backwards, TrailsBy
<1>a. \A s \in f[0] : Len(s.path) = 0 /\ s.at \in InNow \cap {q.node}
  BY <1>0 DEF StartTrails
<1>1. 0 \in S
  <2>1. near[0] = InNow \cap {q.node}
    BY DEF NearBy
  <2>2. ASSUME NEW s \in f[0] PROVE Len(s.path) \in 0 .. 0 /\ s.at \in near[Len(s.path)]
    BY <1>a, <2>1
  <2> QED
    BY <2>2
<1>2. ASSUME NEW n \in Nat, n \in S PROVE n + 1 \in S
  <2>1. ASSUME NEW s \in f[n + 1]
        PROVE  Len(s.path) \in 0 .. n + 1 /\ s.at \in near[Len(s.path)]
    <3>1. CASE s \in f[n]
      <4>1. Len(s.path) \in 0 .. n /\ s.at \in near[Len(s.path)]
        BY <1>2, <3>1
      <4> QED
        BY <4>1
    <3>2. CASE s \notin f[n]
      <4>1. PICK x \in f[n] : s \in Steps(x, "reverse", TraversalTypes) /\ Visible(s.at)
        BY <1>0, <3>2 DEF Extended
      <4>2. x \in Trail /\ Len(x.path) \in 0 .. n /\ x.at \in near[Len(x.path)]
        BY <1>0, <1>2, <4>1
      <4>3. PICK r \in Relation : /\ r.type \in TraversalTypes /\ r.to = x.at /\ s.at = r.from
                                  /\ s.path = Append(x.path, r)
        BY <4>1, <4>2, ReverseStep
      <4>4. x.path \in Seq(Relation)
        BY <4>2 DEF Trail
      <4>5. Len(s.path) = Len(x.path) + 1
        BY <4>3, <4>4
      <4>6. s.at \in Around(near[Len(x.path)])
        BY <4>1, <4>2, <4>3 DEF Around
      <4>7. near[Len(x.path) + 1] = Around(near[Len(x.path)])
        BY <4>2 DEF NearBy
      <4> QED
        BY <4>2, <4>5, <4>6, <4>7
    <3> QED
      BY <3>1, <3>2
  <2> QED
    BY <2>1
<1> HIDE DEF S
<1>3. \A n \in Nat : n \in S
  BY <1>1, <1>2, NatSetInduction
<1> QED
  BY <1>0, <1>3, <1>a DEF S

(* x is k steps away, and no nearer: the query's node is 0 steps away. *)
First(near, x, k) == x \in near[k] /\ \A i \in 0 .. k - 1 : x \notin near[i]

(* A trail to a node k steps away, along relations to nearer nodes. *)
Reaches(f, near, x, k) ==
  \E t \in f[k] : /\ t.at = x /\ Len(t.path) = k
                  /\ \A p \in 1 .. k : \E i \in 0 .. k - 1 : t.path[p].to \in near[i]

LEMMA OneStepFarther ==
  ASSUME NEW f, Backwards(f), NEW near, NearBy(near), NEW k \in Nat, NEW x, x \in near[k + 1],
         \A i \in 1 .. k : x \notin near[i],
         \A y : First(near, y, k) => Reaches(f, near, y, k)
  PROVE  Reaches(f, near, x, k + 1)
<1>0. /\ \A n \in Nat : f[n] \subseteq Trail
      /\ \A n \in Nat : f[n + 1] = Extended(f[n], "reverse", TraversalTypes)
      /\ \A n \in Nat : near[n + 1] = Around(near[n])
  BY DEF Backwards, TrailsBy, NearBy
<1>1. PICK r \in Relation : /\ r.type \in TraversalTypes /\ r.to \in near[k]
                            /\ Visible(r.from) /\ r.from = x
  BY <1>0 DEF Around
<1>2. First(near, r.to, k)
  <2>1. ASSUME NEW i \in 0 .. k - 1, r.to \in near[i] PROVE FALSE
    <3>1. i \in Nat /\ i + 1 \in 1 .. k
      OBVIOUS
    <3>2. x \in near[i + 1]
      BY <1>0, <1>1, <2>1, <3>1 DEF Around
    <3> QED
      BY <3>1, <3>2
  <2> QED
    BY <1>1, <2>1 DEF First
<1>3. PICK t \in f[k] : /\ t.at = r.to /\ Len(t.path) = k
                        /\ \A p \in 1 .. k : \E i \in 0 .. k - 1 : t.path[p].to \in near[i]
  BY <1>2 DEF Reaches
<1>4. t.path \in Seq(Relation) /\ DOMAIN t.path = 1 .. k
  <2>1. t \in Trail
    BY <1>0, <1>3
  <2>2. t.path \in Seq(Relation)
    BY <2>1 DEF Trail
  <2> QED
    BY <1>3, <2>2
<1>5. r \notin Range(t.path)
  <2>1. ASSUME NEW p \in 1 .. k, t.path[p] = r PROVE FALSE
    <3>1. PICK i \in 0 .. k - 1 : r.to \in near[i]
      BY <1>3, <2>1
    <3> QED
      BY <1>2, <3>1 DEF First
  <2> QED
    BY <1>4, <2>1 DEF Range
<1> DEFINE s == [at |-> r.from, path |-> Append(t.path, r)]
<1>6. s \in f[k + 1]
  <2>1. s \in Steps(t, "reverse", TraversalTypes)
    BY <1>1, <1>3, <1>5, StepIsTaken
  <2>2. Visible(s.at)
    BY <1>1
  <2> HIDE DEF s
  <2> QED
    BY <1>0, <1>3, <2>1, <2>2 DEF Extended
<1>7. Len(s.path) = k + 1 /\ \A p \in 1 .. k + 1 : s.path[p] = IF p = k + 1 THEN r ELSE t.path[p]
  BY <1>3, <1>4
<1>8. s.at = x
  BY <1>1
<1> HIDE DEF s
<1>9. ASSUME NEW p \in 1 .. k + 1
      PROVE  \E i \in 0 .. (k + 1) - 1 : s.path[p].to \in near[i]
  <2>1. CASE p = k + 1
    <3>1. k \in 0 .. (k + 1) - 1 /\ s.path[p].to \in near[k]
      BY <1>1, <1>7, <2>1
    <3> QED
      BY <3>1
  <2>2. CASE p # k + 1
    <3>1. p \in 1 .. k /\ s.path[p] = t.path[p]
      BY <1>7, <2>2
    <3>2. PICK i \in 0 .. k - 1 : t.path[p].to \in near[i]
      BY <1>3, <3>1
    <3>3. i \in 0 .. (k + 1) - 1
      OBVIOUS
    <3> QED
      BY <3>1, <3>2, <3>3
  <2> QED
    BY <2>1, <2>2
<1> QED
  BY <1>6, <1>7, <1>8, <1>9 DEF Reaches

LEMMA FirstIsReached ==
  ASSUME NEW f, Backwards(f), NEW near, NearBy(near), NEW k \in Nat
  PROVE  \A x : First(near, x, k) => Reaches(f, near, x, k)
<1> DEFINE S == {n \in Nat : \A x \in InNow : First(near, x, n) => Reaches(f, near, x, n)}
<1>0. \A n \in Nat : near[n] \subseteq InNow
  BY DEF NearBy
<1>1. 0 \in S
  <2>1. ASSUME NEW x \in near[0] PROVE Reaches(f, near, x, 0)
    <3> DEFINE t == [at |-> x, path |-> <<>>]
    <3>1. t \in f[0] /\ t.at = x /\ Len(t.path) = 0
      BY DEF Backwards, TrailsBy, StartTrails, NearBy
    <3> HIDE DEF t
    <3>2. 1 .. 0 = {}
      OBVIOUS
    <3> QED
      BY <3>1, <3>2 DEF Reaches
  <2> QED
    BY <2>1 DEF First
<1>2. ASSUME NEW n \in Nat, n \in S PROVE n + 1 \in S
  <2>1. \A y : First(near, y, n) => Reaches(f, near, y, n)
    BY <1>0, <1>2 DEF First
  <2>2. ASSUME NEW x \in InNow, First(near, x, n + 1) PROVE Reaches(f, near, x, n + 1)
    <3>1. x \in near[n + 1] /\ \A i \in 1 .. n : x \notin near[i]
      BY <2>2 DEF First
    <3> QED
      BY <2>1, <3>1, OneStepFarther
  <2> QED
    BY <2>2
<1> HIDE DEF S
<1>3. \A n \in Nat : n \in S
  BY <1>1, <1>2, NatSetInduction
<1> QED
  BY <1>0, <1>3 DEF S, First

(* The least number of steps, one at least, is the length of a trail. *)
LEMMA LeastIsTrail ==
  ASSUME NEW f, Backwards(f), NEW near, NearBy(near), NEW k \in Nat, k >= 1, NEW x, x \in near[k]
  PROVE  \E j \in 1 .. k : \E t \in f[j] : t.at = x /\ Len(t.path) = j
<1> DEFINE J == {j \in 1 .. k : x \in near[j]}
<1>1. J # {} /\ J \subseteq Nat
  OBVIOUS
<1>2. Min(J) \in J /\ \A y \in J : Min(J) <= y
  <2> HIDE DEF J
  <2> QED
    BY <1>1, MinIs
<1> DEFINE j == Min(J)
<1>3. j \in 1 .. k /\ x \in near[j] /\ \A i \in 1 .. j - 1 : x \notin near[i]
  <2>1. j \in 1 .. k /\ x \in near[j]
    BY <1>2
  <2>2. ASSUME NEW i \in 1 .. j - 1, x \in near[i] PROVE FALSE
    <3>1. i \in J /\ i < j
      BY <2>1, <2>2
    <3> QED
      BY <1>2, <2>1, <3>1
  <2> QED
    BY <2>1, <2>2
<1> HIDE DEF j
<1> DEFINE m == j - 1
<1>4. m \in Nat /\ m + 1 = j
  BY <1>3
<1> HIDE DEF m
<1>5. \A i \in 1 .. m : x \notin near[i]
  BY <1>3 DEF m
<1>6. Reaches(f, near, x, m + 1)
  BY <1>3, <1>4, <1>5, FirstIsReached, OneStepFarther
<1>7. PICK t \in f[j] : t.at = x /\ Len(t.path) = j
  BY <1>4, <1>6 DEF Reaches
<1> QED
  BY <1>3, <1>7

Asked(n) == Domain[n] = DomainFilter /\ Narrow \in {Absent, label[n].repo}
Wanted(k) == {n \in Within(k) : Asked(n)}

LEMMA RowsAreNearest ==
  ASSUME q \in Query, q.kind = "hybrid", NEW near, NearBy(near)
  PROVE  /\ \A r \in GraphRows : /\ r.hop \in 1 .. q.maxDepth /\ r.node \in near[r.hop]
                                 /\ \A i \in 1 .. r.hop - 1 : r.node \notin near[i]
                                 /\ Asked(r.node)
         /\ \A k \in 1 .. q.maxDepth : \A n \in near[k] :
              Asked(n) => \E r \in GraphRows : r.node = n /\ r.hop <= k
<1> DEFINE trails == Trails(q.node, q.maxDepth, "reverse", TraversalTypes)
           lengths(n) == {Len(t.path) : t \in {x \in trails : x.at = n}}
<1>0. GraphRows = {[node |-> n, hop |-> Min(lengths(n))] :
                     n \in {x \in Node : lengths(x) # {} /\ Asked(x)}}
  BY DEF GraphRows, Asked
<1>1. PICK f : Backwards(f)
  BY TrailsAre DEF Backwards
<1>2. q.maxDepth \in Nat
  BY QueryAssumption
<1>3. trails = f[q.maxDepth] \ f[0]
  BY <1>1, <1>2 DEF Backwards, TrailsBy
<1>4. \A t \in trails : /\ Len(t.path) \in 1 .. q.maxDepth /\ t.at \in near[Len(t.path)]
  <2>1. ASSUME NEW t \in trails
        PROVE  Len(t.path) \in 1 .. q.maxDepth /\ t.at \in near[Len(t.path)]
    <3>1. Len(t.path) \in 0 .. q.maxDepth /\ t.at \in near[Len(t.path)]
      BY <1>1, <1>2, <1>3, TrailsAreNear
    <3>2. Len(t.path) >= 1
      BY <1>2, TrailsHaveLength
    <3> QED
      BY <1>2, <3>1, <3>2
  <2> QED
    BY <2>1
<1>5. ASSUME NEW k \in 1 .. q.maxDepth, NEW n \in near[k]
      PROVE  \E j \in 1 .. k : j \in lengths(n)
  <2>1. PICK j \in 1 .. k : \E t \in f[j] : t.at = n /\ Len(t.path) = j
    BY <1>1, <1>5, LeastIsTrail
  <2>2. PICK t \in f[j] : t.at = n /\ Len(t.path) = j
    BY <2>1
  <2>3. j \in Nat /\ j <= q.maxDepth /\ j # 0
    BY <1>2
  <2>4. t \in f[q.maxDepth]
    BY <1>1, <1>2, <2>2, <2>3, TrailsGrow
  <2>5. t \notin f[0]
    <3>1. t \in f[0] => Len(t.path) = 0
      BY <1>1, <2>2, <2>3, TrailsAreNear
    <3> QED
      BY <2>2, <2>3, <3>1
  <2>6. t \in trails
    BY <1>3, <2>4, <2>5
  <2> HIDE DEF trails
  <2>7. j \in lengths(n)
    BY <2>2, <2>6
  <2> QED
    BY <2>7
<1> HIDE DEF trails
<1>6. \A n : \A k \in lengths(n) : k \in 1 .. q.maxDepth /\ n \in near[k]
  BY <1>4
<1> HIDE DEF lengths
<1>7. ASSUME NEW n, lengths(n) # {}
      PROVE  Min(lengths(n)) \in lengths(n) /\ \A y \in lengths(n) : Min(lengths(n)) <= y
  <2>1. lengths(n) \subseteq Nat
    BY <1>2, <1>6
  <2> QED
    BY <1>7, <2>1, MinIs
<1>8. ASSUME NEW r \in GraphRows
      PROVE  /\ r.hop \in 1 .. q.maxDepth /\ r.node \in near[r.hop]
             /\ \A i \in 1 .. r.hop - 1 : r.node \notin near[i]
             /\ Asked(r.node)
  <2>1. PICK n \in Node : lengths(n) # {} /\ Asked(n) /\ r = [node |-> n, hop |-> Min(lengths(n))]
    BY <1>0
  <2>2. r.node = n /\ r.hop \in lengths(n) /\ \A y \in lengths(n) : r.hop <= y
    BY <1>7, <2>1
  <2>3. r.hop \in 1 .. q.maxDepth /\ r.node \in near[r.hop]
    BY <1>6, <2>2
  <2>4. ASSUME NEW i \in 1 .. r.hop - 1, r.node \in near[i] PROVE FALSE
    <3>1. i \in 1 .. q.maxDepth /\ i < r.hop
      BY <1>2, <2>3
    <3>2. PICK j \in 1 .. i : j \in lengths(n)
      BY <1>5, <2>2, <2>4, <3>1
    <3>3. r.hop <= j
      BY <2>2, <3>2
    <3> QED
      BY <1>2, <2>3, <3>1, <3>2, <3>3
  <2> QED
    BY <2>1, <2>2, <2>3, <2>4
<1>9. ASSUME NEW k \in 1 .. q.maxDepth, NEW n \in near[k], Asked(n)
      PROVE  \E r \in GraphRows : r.node = n /\ r.hop <= k
  <2>1. PICK j \in 1 .. k : j \in lengths(n)
    BY <1>5
  <2>2. n \in Node
    <3>1. k \in Nat
      BY <1>2
    <3>2. near[k] \subseteq InNow
      BY <3>1 DEF NearBy
    <3> QED
      BY <3>2 DEF InNow
  <2> DEFINE r == [node |-> n, hop |-> Min(lengths(n))]
  <2>3. r \in GraphRows
    BY <1>0, <1>9, <2>1, <2>2
  <2>4. r.node = n /\ r.hop <= j /\ r.hop \in lengths(n)
    BY <1>7, <2>1
  <2>5. r.hop \in 1 .. q.maxDepth
    BY <1>6, <2>4
  <2> HIDE DEF r
  <2>6. r.hop <= k
    BY <1>2, <2>4, <2>5
  <2> QED
    BY <2>3, <2>4, <2>6
<1> QED
  BY <1>8, <1>9

(* A leg is nearest: what GraphLegNearest says of it, in the present graph. *)
Nearest(g) ==
  \A i \in DOMAIN g : /\ g[i].node \in Wanted(g[i].hop) \ Wanted(g[i].hop - 1)
                      /\ Wanted(g[i].hop - 1) \subseteq NodesOf(g)

LEMMA LegIsNearest ==
  ASSUME label \in [Node -> Name], q \in Query, q.kind = "hybrid",
         NEW order \in InHopOrder(GraphRows), NEW n \in Nat
  PROVE  Nearest(GraphLeg(order, n))
<1> DEFINE g == GraphLeg(order, n)
<1>1. /\ Lists(order, Cardinality(GraphRows), GraphRows)
      /\ Len(g) = (IF n < Len(order) THEN n ELSE Len(order))
      /\ g \in Seq(LegEntry)
      /\ \A i \in 1 .. Len(g) : g[i].node = order[i].node /\ g[i].hop = order[i].hop
  BY GraphLegIs
<1> HIDE DEF g
<1>2. PICK near : NearBy(near)
  BY NearAre
<1>3. /\ \A r \in GraphRows : /\ r.hop \in 1 .. q.maxDepth /\ r.node \in near[r.hop]
                              /\ \A i \in 1 .. r.hop - 1 : r.node \notin near[i]
                              /\ Asked(r.node)
      /\ \A k \in 1 .. q.maxDepth : \A m \in near[k] :
           Asked(m) => \E r \in GraphRows : r.node = m /\ r.hop <= k
  BY <1>2, RowsAreNearest
<1>4. /\ Len(order) \in Nat /\ DOMAIN order = 1 .. Len(order)
      /\ \A i \in 1 .. Len(order) : order[i] \in GraphRows
      /\ \A r \in GraphRows : \E i \in 1 .. Len(order) : order[i] = r
      /\ Len(g) \in Nat /\ DOMAIN g = 1 .. Len(g) /\ Len(g) <= Len(order)
  <2>1. /\ Len(order) \in Nat /\ DOMAIN order = 1 .. Len(order) /\ order \in Seq(GraphRows)
        /\ \A r \in GraphRows : \E i \in 1 .. Len(order) : order[i] = r
    BY <1>1 DEF Lists
  <2> QED
    BY <1>1, <2>1
<1>5. \A i, j \in 1 .. Len(order) : i < j => order[i].hop <= order[j].hop
  BY <1>4 DEF InHopOrder
<1>6. q.maxDepth \in Nat /\ \A k \in Nat : Within(k) = UNION {near[i] : i \in 1 .. k}
  BY <1>2, QueryAssumption DEF NearBy
<1>7. ASSUME NEW i \in 1 .. Len(g)
      PROVE  /\ g[i].node \in Wanted(g[i].hop) \ Wanted(g[i].hop - 1)
             /\ Wanted(g[i].hop - 1) \subseteq NodesOf(g)
  <2> DEFINE k == g[i].hop
             x == g[i].node
  <2>1. i \in 1 .. Len(order) /\ k = order[i].hop /\ x = order[i].node /\ order[i] \in GraphRows
    BY <1>1, <1>4
  <2>2. /\ k \in 1 .. q.maxDepth /\ x \in near[k] /\ Asked(x)
        /\ \A j \in 1 .. k - 1 : x \notin near[j]
    BY <1>3, <2>1
  <2> HIDE DEF k, x
  <2>3. k \in Nat /\ k - 1 \in Nat
    BY <1>6, <2>2
  <2>4. /\ Within(k) = UNION {near[j] : j \in 1 .. k}
        /\ Within(k - 1) = UNION {near[j] : j \in 1 .. k - 1}
    BY <1>6, <2>3
  <2>5. x \in Wanted(k)
    <3>1. k \in 1 .. k
      BY <2>2, <2>3
    <3> QED
      BY <2>2, <2>4, <3>1 DEF Wanted
  <2>6. x \notin Wanted(k - 1)
    BY <2>2, <2>4 DEF Wanted
  <2>7. ASSUME NEW m \in Wanted(k - 1) PROVE m \in NodesOf(g)
    <3>1. PICK j \in 1 .. k - 1 : m \in near[j]
      BY <2>4 DEF Wanted
    <3>2. j \in 1 .. q.maxDepth /\ j < k
      BY <1>6, <2>2, <2>3
    <3>3. PICK r \in GraphRows : r.node = m /\ r.hop <= j
      BY <1>3, <3>1, <3>2 DEF Wanted
    <3>4. PICK p \in 1 .. Len(order) : order[p] = r
      BY <1>4
    <3>5. r.hop \in 1 .. q.maxDepth
      BY <1>3
    <3>6. r.hop < k
      BY <1>6, <2>3, <3>2, <3>3, <3>5
    <3>7. p < i
      <4>1. ~ (i < p)
        <5>1. i < p => k <= r.hop
          BY <1>5, <2>1, <3>4
        <5> QED
          BY <1>6, <2>3, <3>5, <3>6, <5>1
      <4>2. p # i
        BY <1>6, <2>1, <2>3, <3>4, <3>5, <3>6
      <4> QED
        BY <1>4, <2>1, <4>1, <4>2
    <3>8. p \in 1 .. Len(g)
      BY <1>4, <3>7
    <3>9. g[p].node = m
      BY <1>1, <3>3, <3>4, <3>8
    <3> QED
      BY <1>4, <3>8, <3>9 DEF NodesOf
  <2> QED
    BY <2>5, <2>6, <2>7 DEF k, x
<1>8. Nearest(g)
  BY <1>4, <1>7 DEF Nearest
<1> QED
  BY <1>8 DEF g

(* The same with the state it depends on as parameters. *)
NearestFor(lab, scope, query, g) ==
  LET seen == {n \in Node : lab[n] # NoLabel /\ InScope(lab[n], scope)}
      within(k) ==
        LET near[i \in 0 .. k] ==
              IF i = 0 THEN seen \cap {query.node}
              ELSE {r.from : r \in {x \in Relation : /\ x.type \in TraversalTypes
                                                     /\ x.to \in near[i - 1]
                                                     /\ lab[x.from] # NoLabel
                                                     /\ InScope(lab[x.from], scope)}}
        IN UNION {near[i] : i \in 1 .. k}
      wanted(k) ==
        {n \in within(k) :
           /\ Domain[n] = IF query.domain = "unspecified" THEN "code" ELSE query.domain
           /\ (IF query.repos = <<>> THEN Absent ELSE Head(query.repos)) \in {Absent, lab[n].repo}}
  IN \A i \in DOMAIN g : /\ g[i].node \in wanted(g[i].hop) \ wanted(g[i].hop - 1)
                         /\ wanted(g[i].hop - 1) \subseteq NodesOf(g)

LEMMA NearestForIs ==
  ASSUME NEW g
  PROVE  Nearest(g) = NearestFor(label, sc, q, g)
BY DEF Nearest, NearestFor, Wanted, Asked, Within, InNow, Visible, Narrow, DomainFilter

LEMMA LegNearestIs ==
  /\ GraphLegNearest = (pc = "recheck" /\ changes = 0 => NearestFor(label, sc, q, graph))
  /\ GraphLegNearest' = (pc' = "recheck" /\ changes' = 0 => NearestFor(label', sc', q', graph'))
BY DEF GraphLegNearest, NearestFor, Within, InNow, Visible, Narrow, DomainFilter

NearInv == changes \in Nat /\ GraphLegNearest

LEMMA TraversalNear ==
  ASSUME CallInv, NearInv, GraphTraversal
  PROVE  GraphLegNearest'
<1>1. CASE FailWith("Internal")
  BY <1>1, LegNearestIs DEF FailWith, Finish
<1>2. CASE ~ FailWith("Internal")
  <2>1. /\ UNCHANGED <<label, sc, q>> /\ q \in Query /\ q.kind = "hybrid" /\ label \in [Node -> Name]
    BY <1>2, TraversalIs
  <2>2. PICK order \in InHopOrder(GraphRows) : graph' = GraphLeg(order, Default(q.graphLimit, 200))
    BY <1>2, TraversalIs
  <2>3. Default(q.graphLimit, 200) \in Nat
    BY <2>1, QueryAssumption, DefaultNat
  <2>4. Nearest(graph')
    BY <2>1, <2>2, <2>3, LegIsNearest
  <2>5. NearestFor(label, sc, q, graph')
    BY <2>4, NearestForIs
  <2>6. NearestFor(label', sc', q', graph')
    BY <2>1, <2>5
  <2> QED
    BY <2>6, LegNearestIs
<1> QED
  BY <1>1, <1>2

(* Nothing else leaves the candidates of a traversal to be checked.        *)
LEMMA RecheckAgain ==
  ASSUME CallInv, [Next]_vars, ~ GraphTraversal, pc' = "recheck"
  PROVE  MergeNode \/ UNCHANGED vars
<1>1. ~ Receive
  <2>1. SUFFICES ASSUME Receive PROVE FALSE
    OBVIOUS
  <2>2. pc' = "replied" \/ \E query \in Query : pc' = query.kind
    BY <2>1 DEF Receive, Finish
  <2> QED
    BY <2>2, QueryAssumption
<1>2. ~ GetNode /\ ~ ExpandNeighbors /\ ~ FullText
  BY DEF GetNode, ExpandNeighbors, FullText, Answer, FailWith, Finish
<1>3. ~ EmbedQuery /\ ~ VectorSearch
  BY DEF EmbedQuery, VectorSearch, FailWith, Finish, Goto
<1>4. ~ RecheckAuthorized /\ ~ HydrateNames /\ ~ HydrateSourceText
  BY DEF RecheckAuthorized, HydrateNames, HydrateSourceText, FailWith, Finish, Goto
<1>5. ~ WithoutRerank /\ ~ CallReranker /\ ~ ReadImpact /\ ~ PackReply
  BY DEF WithoutRerank, CallReranker, ReadImpact, PackReply, Respond, FailWith, Finish, Goto
<1> QED
  BY <1>1, <1>2, <1>3, <1>4, <1>5 DEF Next

LEMMA ChangesStep ==
  ASSUME NearInv, [Next]_vars
  PROVE  changes' = changes \/ MergeNode
BY DEF Next, vars, graphVars, MergeNode, Receive, GetNode, ExpandNeighbors, FullText, EmbedQuery,
       VectorSearch, GraphTraversal, RecheckAuthorized, HydrateNames, HydrateSourceText,
       WithoutRerank, CallReranker, ReadImpact, PackReply, Answer, FailWith

LEMMA NearStep ==
  ASSUME CallInv, NearInv, [Next]_vars
  PROVE  NearInv'
<1>1. changes' \in Nat
  BY ChangesStep DEF NearInv, MergeNode
<1>2. CASE GraphTraversal
  BY <1>1, <1>2, TraversalNear DEF NearInv
<1>3. CASE ~ GraphTraversal
  <2>1. CASE pc' # "recheck"
    BY <1>1, <2>1, LegNearestIs DEF NearInv
  <2>2. CASE pc' = "recheck" /\ MergeNode
    <3>1. changes' # 0
      BY <2>2 DEF MergeNode, NearInv
    <3> QED
      BY <1>1, <3>1, LegNearestIs DEF NearInv
  <2>3. CASE pc' = "recheck" /\ UNCHANGED vars
    <3>1. UNCHANGED <<pc, changes, label, sc, q, graph>>
      BY <2>3 DEF vars
    <3>2. pc = "recheck" /\ changes = 0 => NearestFor(label, sc, q, graph)
      BY LegNearestIs DEF NearInv
    <3>3. pc' = "recheck" /\ changes' = 0 => NearestFor(label', sc', q', graph')
      BY <3>1, <3>2
    <3>4. GraphLegNearest'
      BY <3>3, LegNearestIs
    <3> QED
      BY <1>1, <3>4 DEF NearInv
  <2> QED
    BY <1>3, <2>1, <2>2, <2>3, RecheckAgain
<1> QED
  BY <1>2, <1>3

(* While nobody writes the graph, the graph leg holds the dependants at    *)
(* their least distance, and its limit cuts the farthest, for every graph  *)
(* and depth: the trails of the query lose nothing to a breadth-first one. *)
THEOREM GraphLegsAreNearest == Spec => []GraphLegNearest
<1>1. Init => CallInv /\ AnswerInv /\ NearInv
  <2>1. Init => changes \in Nat /\ pc = "idle"
    BY DEF Init
  <2> QED
    BY <2>1, CallInitially DEF NearInv, GraphLegNearest
<1>2. CallInv /\ AnswerInv /\ NearInv /\ [Next]_vars => CallInv' /\ AnswerInv' /\ NearInv'
  BY CallStep, NearStep
<1>3. NearInv => GraphLegNearest
  BY DEF NearInv
<1> QED
  BY <1>1, <1>2, <1>3, PTL DEF Spec

-----------------------------------------------------------------------------
(* The packer.                                                             *)

Part == {"definition", "relation", "source"}

(* n candidates about n different nodes, with their scores and costs. *)
Fragments(s, n) ==
  /\ Distinct(s, n)
  /\ \A i \in 1 .. n : s[i].final \in Nat /\ \A part \in Part : s[i][part] \in Nat

Descending(s, n) == \A i, j \in 1 .. n : i < j => s[i].final >= s[j].final

(* Sorted are the same candidates, best first. *)
LEMMA SortedIs ==
  ASSUME NEW r, NEW n, Fragments(r, n), NEW s \in DedupSortedByScoreDesc(r)
  PROVE  /\ Fragments(s, n) /\ Descending(s, n)
         /\ Range(s) = Range(r)
<1> DEFINE before(i, j) == \/ r[i].final > r[j].final
                           \/ r[i].final = r[j].final /\ i < j
           first == {i \in DOMAIN r :
                       ~\E j \in DOMAIN r : r[j].node = r[i].node /\ before(j, i)}
<1>1. /\ n \in Nat /\ DOMAIN r = 1 .. n
      /\ \A i, j \in 1 .. n : r[i].node = r[j].node => i = j
      /\ \A i \in 1 .. n : r[i].final \in Nat /\ \A part \in Part : r[i][part] \in Nat
  BY DEF Fragments, Distinct
<1>2. \A i \in 1 .. n : ~ before(i, i)
  BY <1>1
<1>3. first = 1 .. n
  BY <1>1, <1>2
<1>4. PICK o \in SetToSeqs(first) : /\ \A i, j \in DOMAIN o : i < j => before(o[i], o[j])
                                    /\ s = [k \in DOMAIN o |-> r[o[k]]]
  BY DEF DedupSortedByScoreDesc
<1> HIDE DEF first
<1>5. Lists(o, n, 1 .. n)
  <2>1. IsFiniteSet(1 .. n) /\ Cardinality(1 .. n) = n
    BY <1>1, FS_Interval
  <2> QED
    BY <1>3, <1>4, <2>1, OrdersList
<1>6. /\ DOMAIN o = 1 .. n /\ \A i \in 1 .. n : o[i] \in 1 .. n
      /\ \A i, j \in 1 .. n : o[i] = o[j] => i = j
      /\ \A x \in 1 .. n : \E i \in 1 .. n : o[i] = x
  BY <1>5 DEF Lists
<1>7. s = [k \in 1 .. n |-> r[o[k]]]
  BY <1>4, <1>6
<1>8. DOMAIN s = 1 .. n /\ Len(s) = n /\ \A i \in 1 .. n : s[i] = r[o[i]]
  BY <1>1, <1>7
<1>9. Fragments(s, n)
  <2>1. ASSUME NEW i \in 1 .. n, NEW j \in 1 .. n, s[i].node = s[j].node PROVE i = j
    <3>1. r[o[i]].node = r[o[j]].node /\ o[i] \in 1 .. n /\ o[j] \in 1 .. n
      BY <1>6, <1>8, <2>1, Zenon
    <3>2. o[i] = o[j]
      BY <1>1, <3>1, Zenon
    <3> QED
      BY <1>6, <3>2, Zenon
  <2>2. ASSUME NEW i \in 1 .. n
        PROVE  s[i].final \in Nat /\ \A part \in Part : s[i][part] \in Nat
    <3>1. s[i] = r[o[i]] /\ o[i] \in 1 .. n
      BY <1>6, <1>8, Zenon
    <3> QED
      BY <1>1, <3>1, Zenon
  <2> QED
    BY <1>1, <1>8, <2>1, <2>2 DEF Fragments, Distinct
<1>10. Descending(s, n)
  <2>1. ASSUME NEW i \in 1 .. n, NEW j \in 1 .. n, i < j PROVE s[i].final >= s[j].final
    <3>1. before(o[i], o[j])
      BY <1>4, <1>6, <2>1
    <3>2. r[o[i]].final \in Nat /\ r[o[j]].final \in Nat
      BY <1>1, <1>6
    <3> QED
      BY <1>8, <3>1, <3>2
  <2> QED
    BY <2>1 DEF Descending
<1>11. Range(s) = Range(r)
  BY <1>1, <1>6, <1>8 DEF Range
<1> QED
  BY <1>9, <1>10, <1>11

(* The best at the ends. *)
LEMMA UOrderIs ==
  ASSUME NEW s, NEW n, Fragments(s, n)
  PROVE  LET from(p) == IF 2 * p <= n + 1 THEN 2 * p - 1 ELSE 2 * (n + 1 - p)
         IN /\ UOrder(s) = [p \in 1 .. n |-> s[from(p)].node]
            /\ DOMAIN UOrder(s) = 1 .. n /\ Len(UOrder(s)) = n
            /\ \A p \in 1 .. n : from(p) \in 1 .. n /\ UOrder(s)[p] = s[from(p)].node
            /\ \A i \in 1 .. n : \E p \in 1 .. n : from(p) = i
            /\ \A p \in 1 .. n : p < n + 1 - p =>
                 /\ from(p) < from(n + 1 - p)
                 /\ p + 1 < n + 1 - p => from(n + 1 - p) < from(p + 1)
            /\ Range(UOrder(s)) = NodesOf(s)
<1> DEFINE from(p) == IF 2 * p <= n + 1 THEN 2 * p - 1 ELSE 2 * (n + 1 - p)
           o == [p \in 1 .. n |-> s[from(p)].node]
<1>1. n \in Nat /\ DOMAIN s = 1 .. n /\ Len(s) = n
  BY DEF Fragments, Distinct
<1>2. UOrder(s) = o
  BY <1>1 DEF UOrder
<1>3. \A p \in 1 .. n : from(p) \in 1 .. n
  BY <1>1
<1>4. ASSUME NEW i \in 1 .. n PROVE \E p \in 1 .. n : from(p) = i
  <2>1. PICK k \in Nat : i = 2 * k \/ i = 2 * k + 1
    <3>1. i = 2 * (i \div 2) \/ i = 2 * (i \div 2) + 1
      OBVIOUS
    <3>2. i \div 2 \in Nat
      OBVIOUS
    <3> QED
      BY <3>1, <3>2
  <2>2. CASE i = 2 * k
    <3>1. n + 1 - k \in 1 .. n /\ from(n + 1 - k) = i
      BY <1>1, <2>2
    <3> QED
      BY <3>1
  <2>3. CASE i = 2 * k + 1
    <3>1. k + 1 \in 1 .. n /\ from(k + 1) = i
      BY <1>1, <2>3
    <3> QED
      BY <3>1
  <2> QED
    BY <2>1, <2>2, <2>3
<1>5. ASSUME NEW p \in 1 .. n, p < n + 1 - p
      PROVE  /\ from(p) < from(n + 1 - p)
             /\ p + 1 < n + 1 - p => from(n + 1 - p) < from(p + 1)
  BY <1>1, <1>5
<1>6. Len(o) = n /\ DOMAIN o = 1 .. n /\ \A p \in 1 .. n : o[p] = s[from(p)].node
  BY <1>1
<1> HIDE DEF from
<1>7. Range(o) = NodesOf(s)
  BY <1>1, <1>3, <1>4, <1>6 DEF Range, NodesOf
<1> HIDE DEF o
<1>8. /\ DOMAIN UOrder(s) = 1 .. n /\ Len(UOrder(s)) = n /\ Range(UOrder(s)) = NodesOf(s)
      /\ \A p \in 1 .. n : UOrder(s)[p] = s[from(p)].node
  BY <1>2, <1>6, <1>7
<1> QED
  BY <1>2, <1>3, <1>4, <1>5, <1>8 DEF from, o

(* What the fragments at the positions S cost. *)
Costs(s, S, part) == [i \in Nat |-> IF i \in S THEN s[i][part] ELSE 0]

LEMMA CostIs ==
  ASSUME NEW s, NEW n, Fragments(s, n), NEW S \in SUBSET (1 .. n), NEW part \in Part
  PROVE  \E f : SumsUp(f, Costs(s, S, part)) /\ Cost(s, S, part) = f[n]
<1> DEFINE term == Costs(s, S, part)
           Body(f) == [i \in Nat |-> IF i = 0 THEN 0
                                     ELSE f[i - 1] + (IF i \in S THEN s[i][part] ELSE 0)]
           used == CHOOSE f : f = Body(f)
<1>0. Len(s) = n
  BY DEF Fragments, Distinct
<1>1. term \in [Nat -> Nat]
  BY DEF Fragments, Costs
<1>2. \A f : SumBody(f, term) = Body(f)
  BY DEF SumBody, Costs
<1> HIDE DEF Body
<1>3. \E f : f = Body(f)
  BY <1>1, <1>2, SumExists
<1>4. used = SumBody(used, term)
  BY <1>2, <1>3
<1>5. Cost(s, S, part) = used[n]
  BY <1>0 DEF Cost, Body
<1> HIDE DEF used
<1>6. SumsUp(used, term)
  BY <1>1, <1>4, SumIs
<1> QED
  BY <1>5, <1>6

TokensOf(s, S, part) == UNION {{s[i].node} \X (1 .. s[i][part]) : i \in S}

(* A cost is the number of tokens. *)
LEMMA TokensAre ==
  ASSUME NEW s, NEW n, Fragments(s, n), NEW S \in SUBSET (1 .. n), NEW part \in Part
  PROVE  Cardinality(TokensOf(s, S, part)) = Cost(s, S, part)
<1> DEFINE upTo(k) == TokensOf(s, S \cap 1 .. k, part)
           own(k) == {s[k].node} \X (1 .. s[k][part])
<1>1. /\ n \in Nat
      /\ \A i, j \in 1 .. n : s[i].node = s[j].node => i = j
      /\ \A i \in 1 .. n : s[i][part] \in Nat
  BY DEF Fragments, Distinct
<1>2. PICK f : SumsUp(f, Costs(s, S, part)) /\ Cost(s, S, part) = f[n]
  BY CostIs
<1>3. \A k \in 1 .. n : IsFiniteSet(own(k)) /\ Cardinality(own(k)) = s[k][part]
  <2> TAKE k \in 1 .. n
  <2>1. IsFiniteSet({s[k].node}) /\ Cardinality({s[k].node}) = 1
    BY FS_Singleton
  <2>2. IsFiniteSet(1 .. s[k][part]) /\ Cardinality(1 .. s[k][part]) = s[k][part]
    <3> DEFINE many == s[k][part]
    <3>1. many \in Nat
      BY <1>1
    <3> HIDE DEF many
    <3>2. IsFiniteSet(1 .. many) /\ Cardinality(1 .. many) = many
      BY <3>1, FS_Interval
    <3> QED
      BY <3>2 DEF many
  <2>3. IsFiniteSet(own(k)) /\ Cardinality(own(k)) = 1 * s[k][part]
    BY <2>1, <2>2, FS_Product
  <2> QED
    BY <1>1, <2>3
<1> DEFINE Done == {k \in Nat : k <= n => IsFiniteSet(upTo(k)) /\ Cardinality(upTo(k)) = f[k]}
<1>4. 0 \in Done
  <2>1. upTo(0) = {}
    BY DEF TokensOf
  <2> QED
    BY <1>2, <2>1, FS_EmptySet DEF SumsUp
<1>5. ASSUME NEW k \in Nat, k \in Done PROVE k + 1 \in Done
  <2> SUFFICES ASSUME k + 1 <= n
               PROVE  IsFiniteSet(upTo(k + 1)) /\ Cardinality(upTo(k + 1)) = f[k + 1]
    OBVIOUS
  <2>1. k + 1 \in 1 .. n /\ IsFiniteSet(upTo(k)) /\ Cardinality(upTo(k)) = f[k]
    BY <1>1, <1>5
  <2>2. f[k] \in Nat /\ f[k + 1] = f[k] + (IF k + 1 \in S THEN s[k + 1][part] ELSE 0)
    <3>1. f \in [Nat -> Nat] /\ f[k + 1] = f[k] + Costs(s, S, part)[k + 1]
      BY <1>2 DEF SumsUp
    <3>2. k + 1 \in Nat
      OBVIOUS
    <3> QED
      BY <3>1, <3>2 DEF Costs
  <2>3. CASE k + 1 \notin S
    <3>1. S \cap 1 .. k + 1 = S \cap 1 .. k
      BY <2>3
    <3> QED
      BY <2>1, <2>2, <2>3, <3>1
  <2>4. CASE k + 1 \in S
    <3>1. S \cap 1 .. k + 1 = (S \cap 1 .. k) \cup {k + 1}
      BY <2>4
    <3>2. upTo(k + 1) = upTo(k) \cup own(k + 1)
      BY <3>1 DEF TokensOf
    <3>3. upTo(k) \cap own(k + 1) = {}
      <4> SUFFICES ASSUME NEW t \in upTo(k), t \in own(k + 1) PROVE FALSE
        OBVIOUS
      <4>1. PICK i \in S \cap 1 .. k : t \in {s[i].node} \X (1 .. s[i][part])
        BY DEF TokensOf
      <4>2. t[1] = s[i].node /\ t[1] = s[k + 1].node
        BY <4>1
      <4>3. i \in 1 .. n /\ i # k + 1
        BY <4>1
      <4> QED
        BY <1>1, <2>1, <4>2, <4>3
    <3> HIDE DEF upTo, own
    <3>4. /\ IsFiniteSet(upTo(k) \cup own(k + 1))
          /\ Cardinality(upTo(k) \cup own(k + 1))
             = Cardinality(upTo(k)) + Cardinality(own(k + 1)) - Cardinality({})
      BY <1>3, <2>1, <3>3, FS_Union
    <3>5. s[k + 1][part] \in Nat /\ Cardinality({}) = 0 /\ Cardinality(own(k + 1)) = s[k + 1][part]
      BY <1>1, <1>3, <2>1, FS_EmptySet
    <3>6. f[k + 1] = f[k] + s[k + 1][part]
      BY <2>2, <2>4
    <3> DEFINE own_ == s[k + 1][part]
    <3> HIDE DEF own_
    <3>7. own_ \in Nat /\ Cardinality(own(k + 1)) = own_ /\ f[k + 1] = f[k] + own_
      BY <3>5, <3>6 DEF own_
    <3>8. Cardinality(upTo(k) \cup own(k + 1)) = f[k + 1]
      BY <2>1, <2>2, <3>4, <3>5, <3>7
    <3> QED
      BY <3>2, <3>4, <3>8
  <2> QED
    BY <2>3, <2>4
<1>6. n \in Done
  <2> HIDE DEF Done
  <2>1. \A k \in Nat : k \in Done
    BY <1>4, <1>5, NatSetInduction
  <2> QED
    BY <1>1, <2>1
<1>7. S \cap 1 .. n = S
  OBVIOUS
<1> QED
  BY <1>1, <1>2, <1>6, <1>7

(* A section stops at the first fragment that does not fit. *)
LEMMA FittingIs ==
  ASSUME NEW s, NEW n, Fragments(s, n), NEW S \in SUBSET (1 .. n), NEW part \in Part,
         NEW quota \in Nat
  PROVE  LET F == Fitting(s, S, part, quota)
         IN /\ F \subseteq S
            /\ \A i \in F, j \in S : j <= i => j \in F
            /\ Cost(s, F, part) <= quota
<1> DEFINE F == Fitting(s, S, part, quota)
<1>1. /\ F \subseteq S
      /\ \A i \in F, j \in S : j <= i => j \in F /\ Cost(s, S \cap 1 .. j, part) <= quota
  BY DEF Fitting
<1>2. n \in Nat
  BY DEF Fragments, Distinct
<1> HIDE DEF F
<1>3. CASE F = {}
  <2>1. Cardinality(TokensOf(s, {}, part)) = Cost(s, {}, part)
    BY TokensAre
  <2>2. TokensOf(s, {}, part) = {}
    BY DEF TokensOf
  <2>3. Cost(s, F, part) = 0
    BY <1>3, <2>1, <2>2, FS_EmptySet
  <2>4. Cost(s, F, part) <= quota
    BY <2>3
  <2> QED
    BY <1>1, <2>4 DEF F
<1>4. CASE F # {}
  <2> DEFINE left == {n - i : i \in F}
  <2>1. left # {} /\ left \subseteq Nat
    <3>1. \A i \in F : i \in 1 .. n
      BY <1>1
    <3>2. \A i \in F : n - i \in Nat
      BY <1>2, <3>1
    <3>3. \E i \in F : TRUE
      BY <1>4
    <3> QED
      BY <3>2, <3>3
  <2>2. PICK m \in F : \A i \in F : i <= m
    <3>1. Min(left) \in left /\ \A y \in left : Min(left) <= y
      <4> HIDE DEF left
      <4> QED
        BY <2>1, MinIs
    <3>2. PICK m \in F : Min(left) = n - m
      BY <3>1
    <3>3. ASSUME NEW i \in F PROVE i <= m
      <4>1. n - i \in left
        OBVIOUS
      <4>2. n - m <= n - i
        BY <3>1, <3>2, <4>1
      <4>3. i \in Nat /\ m \in Nat
        BY <1>1
      <4> QED
        BY <1>2, <4>2, <4>3
    <3>4. \A i \in F : i <= m
      BY <3>3
    <3> QED
      BY <3>4
  <2>3. m \in S /\ m <= m
    BY <1>1, <2>2
  <2>4. F = S \cap 1 .. m
    <3>1. \A i \in F : i \in S /\ i \in 1 .. n /\ i <= m
      BY <1>1, <2>2
    <3>2. \A j \in S : j <= m => j \in F
      BY <1>1, <2>2
    <3>3. m \in Nat
      BY <3>1
    <3>4. F \subseteq S \cap 1 .. m
      BY <1>2, <3>1, <3>3
    <3>5. S \cap 1 .. m \subseteq F
      BY <3>2, <3>3
    <3> QED
      BY <3>4, <3>5
  <2>5. Cost(s, S \cap 1 .. m, part) <= quota
    BY <1>1, <2>2, <2>3
  <2> QED
    BY <1>1, <2>4, <2>5 DEF F
<1> QED
  BY <1>3, <1>4

NodesAt(s, S) == {s[i].node : i \in S}

(* A section presents the fragments at its positions, and no others. *)
LEMMA SectionIs ==
  ASSUME NEW s, NEW n, Fragments(s, n), NEW S \in SUBSET (1 .. n)
  PROVE  LET section == ReorderByU(s, S, UOrder(s))
         IN /\ Range(section) = NodesAt(s, S)
            /\ S # {} => section # <<>>
<1> DEFINE order == UOrder(s)
           places == {x \in DOMAIN order : \E i \in S : s[i].node = order[x]}
           section == ReorderByU(s, S, order)
<1>1. Range(order) = NodesOf(s) /\ DOMAIN s = 1 .. n
  BY UOrderIs DEF Fragments, Distinct
<1> HIDE DEF order
<1>2. DOMAIN section = places /\ \A p \in places : section[p] = order[p]
  BY DEF ReorderByU
<1> HIDE DEF section
<1>3. ASSUME NEW i \in S PROVE \E p \in places : order[p] = s[i].node
  <2>1. s[i].node \in Range(order)
    BY <1>1 DEF NodesOf
  <2>2. PICK p \in DOMAIN order : order[p] = s[i].node
    BY <2>1 DEF Range
  <2> QED
    BY <2>2
<1>4. \A p \in places : \E i \in S : order[p] = s[i].node
  OBVIOUS
<1> HIDE DEF places
<1>5. Range(section) = NodesAt(s, S)
  BY <1>2, <1>3, <1>4 DEF Range, NodesAt
<1>6. ASSUME S # {} PROVE section # <<>>
  <2>1. places # {}
    BY <1>3, <1>6
  <2>2. DOMAIN section # {}
    BY <1>2, <2>1
  <2>3. DOMAIN <<>> = {}
    OBVIOUS
  <2> QED
    BY <2>2, <2>3
<1> QED
  BY <1>5, <1>6 DEF section, order

(* The candidate of a node. *)
CandidateOf(r, x) == CHOOSE e \in Range(r) : e.node = x

LEMMA CandidateOfIs ==
  ASSUME NEW r, NEW s, NEW n, Fragments(s, n), Range(s) = Range(r), NEW i \in 1 .. n
  PROVE  CandidateOf(r, s[i].node) = s[i]
<1>1. /\ DOMAIN s = 1 .. n
      /\ \A j, k \in 1 .. n : s[j].node = s[k].node => j = k
  BY DEF Fragments, Distinct
<1>2. s[i] \in Range(r)
  BY <1>1 DEF Range
<1>3. \A e \in Range(r) : e.node = s[i].node => e = s[i]
  BY <1>1 DEF Range
<1> QED
  BY <1>2, <1>3 DEF CandidateOf

LEMMA SectionTokens ==
  ASSUME NEW r, NEW s, NEW n, Fragments(s, n), Range(s) = Range(r), NEW S \in SUBSET (1 .. n),
         NEW part \in Part, NEW section, Range(section) = NodesAt(s, S)
  PROVE  Cardinality(UNION {{x} \X (1 .. CandidateOf(r, x)[part]) : x \in Range(section)})
         = Cost(s, S, part)
<1> DEFINE of(x) == CandidateOf(r, x)
<1>1. \A i \in S : of(s[i].node) = s[i]
  BY CandidateOfIs
<1> HIDE DEF of
<1>2. UNION {{x} \X (1 .. of(x)[part]) : x \in Range(section)} = TokensOf(s, S, part)
  BY <1>1 DEF NodesAt, TokensOf
<1>3. Cardinality(TokensOf(s, S, part)) = Cost(s, S, part)
  BY TokensAre
<1> QED
  BY <1>2, <1>3 DEF of

(* A better candidate is earlier, so a section that has every earlier one  *)
(* of those it is for has every better one.                                *)
LEMMA SectionGreedy ==
  ASSUME NEW r, NEW s, NEW n, Fragments(s, n), Descending(s, n), Range(s) = Range(r),
         NEW S \in SUBSET (1 .. n), NEW For \in SUBSET (1 .. n),
         \A i \in S, j \in For : j < i => j \in S,
         NEW a \in NodesAt(s, S), NEW b \in NodesAt(s, For),
         CandidateOf(r, b).final > CandidateOf(r, a).final
  PROVE  b \in NodesAt(s, S)
<1>1. PICK i \in S : a = s[i].node
  BY DEF NodesAt
<1>2. PICK j \in For : b = s[j].node
  BY DEF NodesAt
<1>3. CandidateOf(r, a) = s[i] /\ CandidateOf(r, b) = s[j]
  BY <1>1, <1>2, CandidateOfIs
<1>4. s[j].final > s[i].final /\ s[i].final \in Nat /\ s[j].final \in Nat
  BY <1>3 DEF Fragments
<1>5. i < j => s[i].final >= s[j].final
  BY DEF Descending
<1>6. i \in Nat /\ j \in Nat /\ i # j /\ ~ (i < j)
  BY <1>4, <1>5
<1>7. j \in S
  BY <1>6
<1> QED
  BY <1>2, <1>7 DEF NodesAt

Quotas(budget) == {budget.definitions, budget.relations, budget.fullSource} \subseteq Nat

(* Every position earlier than one of S, of those S is for, is in S. *)
EarlierIn(S, For) == \A i \in S, j \in For : j < i => j \in S

LEMMA DefinitionsIs ==
  ASSUME NEW s, NEW n, Fragments(s, n), NEW budget, Quotas(budget)
  PROVE  LET S == PackDefinitions(s, budget)
         IN /\ S \subseteq 1 .. n /\ EarlierIn(S, 1 .. n)
            /\ Cost(s, S, "definition") <= budget.definitions \/ (n > 0 /\ S = {1})
            /\ n > 0 => S # {}
<1> DEFINE F == Fitting(s, DOMAIN s, "definition", budget.definitions)
           S == PackDefinitions(s, budget)
<1>1. DOMAIN s = 1 .. n /\ n \in Nat /\ budget.definitions \in Nat /\ "definition" \in Part
  BY DEF Fragments, Distinct, Quotas, Part
<1>2. /\ F \subseteq 1 .. n /\ \A i \in F, j \in 1 .. n : j <= i => j \in F
      /\ Cost(s, F, "definition") <= budget.definitions
  BY <1>1, FittingIs
<1>3. S = IF F = {} THEN {1} \cap 1 .. n ELSE F
  BY <1>1 DEF PackDefinitions
<1> HIDE DEF F, S
<1>4. CASE F # {}
  <2>1. S = F
    BY <1>3, <1>4
  <2>2. EarlierIn(S, 1 .. n)
    BY <1>2, <2>1 DEF EarlierIn
  <2> QED
    BY <1>2, <1>4, <2>1, <2>2 DEF S
<1>5. CASE F = {} /\ n = 0
  <2>1. S = F
    BY <1>3, <1>5
  <2> QED
    BY <1>2, <1>5, <2>1 DEF S, EarlierIn
<1>6. CASE F = {} /\ n # 0
  <2>1. S = {1} /\ S \subseteq 1 .. n /\ n > 0
    BY <1>1, <1>3, <1>6
  <2>2. EarlierIn(S, 1 .. n)
    BY <1>1, <2>1 DEF EarlierIn
  <2> QED
    BY <2>1, <2>2 DEF S
<1> QED
  BY <1>4, <1>5, <1>6

LEMMA RelationsIs ==
  ASSUME NEW s, NEW n, Fragments(s, n), NEW budget, Quotas(budget)
  PROVE  LET S == PackRelations(s, budget)
         IN /\ S \subseteq 1 .. n /\ EarlierIn(S, 1 .. n)
            /\ Cost(s, S, "relation") <= budget.relations
<1> DEFINE F == Fitting(s, DOMAIN s, "relation", budget.relations)
<1>1. DOMAIN s = 1 .. n /\ budget.relations \in Nat /\ "relation" \in Part
  BY DEF Fragments, Distinct, Quotas, Part
<1>2. /\ F \subseteq 1 .. n /\ \A i \in F, j \in 1 .. n : j <= i => j \in F
      /\ Cost(s, F, "relation") <= budget.relations
  BY <1>1, FittingIs
<1> HIDE DEF F
<1>3. EarlierIn(F, 1 .. n)
  BY <1>2 DEF EarlierIn
<1> QED
  BY <1>2, <1>3 DEF PackRelations, F

(* The cap of the scan only cuts the worst of the eligible. *)
LEMMA FullSourceIs ==
  ASSUME NEW s, NEW n, Fragments(s, n), NEW budget, Quotas(budget)
  PROVE  LET S == PackFullSource(s, budget)
             eligible == {i \in 1 .. n : Eligible(s[i], budget)}
         IN /\ S \subseteq 1 .. n /\ EarlierIn(S, eligible)
            /\ Cost(s, S, "source") <= budget.fullSource
<1> DEFINE eligible == {i \in 1 .. n : Eligible(s[i], budget)}
           capped(i) == \A j \in 1 .. (i - 1) : Cardinality(eligible \cap 1 .. j) < budget.topK
           scanned == {i \in eligible : capped(i)}
           F == Fitting(s, scanned, "source", budget.fullSource)
<1>1. DOMAIN s = 1 .. n /\ n \in Nat /\ budget.fullSource \in Nat /\ "source" \in Part
  BY DEF Fragments, Distinct, Quotas, Part
<1>2. PackFullSource(s, budget) = F
  BY <1>1 DEF PackFullSource
<1>3. scanned \subseteq 1 .. n
  OBVIOUS
<1>4. ASSUME NEW i \in scanned, NEW j \in eligible, j < i PROVE j \in scanned
  <2>1. i \in Nat /\ j \in Nat /\ capped(i)
    BY <1>1
  <2>2. 1 .. (j - 1) \subseteq 1 .. (i - 1)
    BY <1>4, <2>1
  <2> HIDE DEF eligible
  <2>3. capped(j)
    BY <2>1, <2>2
  <2> QED
    BY <2>3
<1> HIDE DEF scanned
<1>5. /\ F \subseteq scanned /\ \A i \in F, j \in scanned : j <= i => j \in F
      /\ Cost(s, F, "source") <= budget.fullSource
  BY <1>1, <1>3, FittingIs
<1> HIDE DEF F
<1>6. EarlierIn(F, eligible)
  <2> SUFFICES ASSUME NEW i \in F, NEW j \in eligible, j < i PROVE j \in F
    BY DEF EarlierIn
  <2>1. i \in scanned /\ j \in scanned
    BY <1>4, <1>5
  <2>2. j <= i
    BY <1>1, <1>3, <2>1
  <2> QED
    BY <1>5, <2>1, <2>2
<1> QED
  BY <1>2, <1>3, <1>5, <1>6

LEMMA PackIs ==
  ASSUME NEW r, NEW n, Fragments(r, n), NEW s \in DedupSortedByScoreDesc(r),
         NEW budget, Quotas(budget)
  PROVE  BestAtEnds(r, budget, Pack(s, budget))
<1> DEFINE c == Pack(s, budget)
           of(x) == CandidateOf(r, x)
           defs == PackDefinitions(s, budget)
           rels == PackRelations(s, budget)
           full == PackFullSource(s, budget)
           eligible == {i \in 1 .. n : Eligible(s[i], budget)}
           tokens(section, part) == UNION {{x} \X (1 .. of(x)[part]) : x \in Range(section)}
           greedy(section, nodes) == \A a \in Range(section), b \in nodes :
                                       of(b).final > of(a).final => b \in Range(section)
<1>1. Fragments(s, n) /\ Descending(s, n) /\ Range(s) = Range(r)
  BY SortedIs
<1>2. n \in Nat /\ Len(r) = n /\ Len(s) = n /\ DOMAIN s = 1 .. n /\ DOMAIN r = 1 .. n
  BY <1>1 DEF Fragments, Distinct
<1>3. NodesOf(s) = NodesOf(r)
  <2>1. NodesOf(s) = {e.node : e \in Range(s)}
    BY DEF NodesOf, Range
  <2>2. NodesOf(r) = {e.node : e \in Range(r)}
    BY DEF NodesOf, Range
  <2> QED
    BY <1>1, <2>1, <2>2
<1>4. NodesAt(s, 1 .. n) = NodesOf(s)
  BY <1>2 DEF NodesAt, NodesOf
<1>5. /\ c.order = UOrder(s)
      /\ c.definitions = ReorderByU(s, defs, UOrder(s))
      /\ c.relations = ReorderByU(s, rels, UOrder(s))
      /\ c.fullSource = ReorderByU(s, full, UOrder(s))
  BY DEF Pack
<1> HIDE DEF c
<1>6. Range(c.order) = NodesOf(r) /\ Len(c.order) = n /\ DOMAIN c.order = 1 .. n
  BY <1>1, <1>3, <1>5, UOrderIs
<1>7. /\ defs \subseteq 1 .. n /\ EarlierIn(defs, 1 .. n)
      /\ Cost(s, defs, "definition") <= budget.definitions \/ (n > 0 /\ defs = {1})
      /\ n > 0 => defs # {}
  BY <1>1, DefinitionsIs
<1>8. /\ rels \subseteq 1 .. n /\ EarlierIn(rels, 1 .. n)
      /\ Cost(s, rels, "relation") <= budget.relations
  BY <1>1, RelationsIs
<1>9. /\ full \subseteq 1 .. n /\ EarlierIn(full, eligible)
      /\ Cost(s, full, "source") <= budget.fullSource
  BY <1>1, FullSourceIs
<1> HIDE DEF defs, rels, full
<1>10. Range(c.definitions) = NodesAt(s, defs) /\ (defs # {} => c.definitions # <<>>)
  BY <1>1, <1>5, <1>7, SectionIs
<1>11. Range(c.relations) = NodesAt(s, rels) /\ Range(c.fullSource) = NodesAt(s, full)
  BY <1>1, <1>5, <1>8, <1>9, SectionIs
<1>12. \/ Cardinality(tokens(c.definitions, "definition")) <= budget.definitions
       \/ Cardinality(Range(c.definitions)) = 1
  <2>1. CASE Cost(s, defs, "definition") <= budget.definitions
    <3>1. Cardinality(tokens(c.definitions, "definition")) = Cost(s, defs, "definition")
      <4>1. "definition" \in Part
        BY DEF Part
      <4> QED
        BY <1>1, <1>7, <1>10, <4>1, SectionTokens
    <3> QED
      BY <2>1, <3>1
  <2>2. CASE defs = {1}
    <3>1. Range(c.definitions) = {s[1].node}
      BY <1>10, <2>2 DEF NodesAt
    <3> QED
      BY <3>1, FS_Singleton
  <2> QED
    BY <1>7, <2>1, <2>2
<1>13. Cardinality(tokens(c.relations, "relation")) <= budget.relations
  <2>1. Cardinality(tokens(c.relations, "relation")) = Cost(s, rels, "relation")
    <3>1. "relation" \in Part
      BY DEF Part
    <3> QED
      BY <1>1, <1>8, <1>11, <3>1, SectionTokens
  <2> QED
    BY <1>8, <2>1
<1>14. Cardinality(tokens(c.fullSource, "source")) <= budget.fullSource
  <2>1. Cardinality(tokens(c.fullSource, "source")) = Cost(s, full, "source")
    <3>1. "source" \in Part
      BY DEF Part
    <3> QED
      BY <1>1, <1>9, <1>11, <3>1, SectionTokens
  <2> QED
    BY <1>9, <2>1
<1>15. greedy(c.definitions, Range(c.order))
  BY <1>1, <1>3, <1>4, <1>6, <1>7, <1>10, SectionGreedy DEF EarlierIn
<1>16. greedy(c.relations, Range(c.order))
  BY <1>1, <1>3, <1>4, <1>6, <1>8, <1>11, SectionGreedy DEF EarlierIn
<1>17. greedy(c.fullSource, {x \in Range(c.order) : Eligible(of(x), budget)})
  <2>1. \A x \in Range(c.order) : Eligible(of(x), budget) => x \in NodesAt(s, eligible)
    <3> SUFFICES ASSUME NEW i \in 1 .. n, Eligible(of(s[i].node), budget)
                 PROVE  s[i].node \in NodesAt(s, eligible)
      BY <1>3, <1>4, <1>6 DEF NodesAt
    <3>1. of(s[i].node) = s[i]
      BY <1>1, CandidateOfIs
    <3> QED
      BY <3>1 DEF NodesAt
  <2>2. eligible \subseteq 1 .. n
    OBVIOUS
  <2> HIDE DEF eligible
  <2> QED
    BY <1>1, <1>9, <1>11, <2>1, <2>2, SectionGreedy DEF EarlierIn
<1>18. ASSUME NEW i \in DOMAIN c.order, i < Len(c.order) + 1 - i
       PROVE  LET mirror == Len(c.order) + 1 - i
                  at(k) == of(c.order[k]).final
              IN /\ at(i) >= at(mirror)
                 /\ i + 1 < mirror => at(mirror) >= at(i + 1)
  <2> DEFINE from(p) == IF 2 * p <= n + 1 THEN 2 * p - 1 ELSE 2 * (n + 1 - p)
             mirror == n + 1 - i
  <2>1. /\ \A p \in 1 .. n : from(p) \in 1 .. n /\ c.order[p] = s[from(p)].node
        /\ \A p \in 1 .. n : p < n + 1 - p =>
             /\ from(p) < from(n + 1 - p)
             /\ p + 1 < n + 1 - p => from(n + 1 - p) < from(p + 1)
    BY <1>1, <1>5, UOrderIs
  <2> HIDE DEF from
  <2>2. \A p \in 1 .. n : of(c.order[p]) = s[from(p)]
    BY <1>1, <2>1, CandidateOfIs
  <2>3. i \in 1 .. n /\ mirror \in 1 .. n /\ i < mirror
    BY <1>2, <1>6, <1>18
  <2>4. s[from(i)].final >= s[from(mirror)].final
    BY <1>1, <2>1, <2>3 DEF Descending
  <2>5. ASSUME i + 1 < mirror PROVE s[from(mirror)].final >= s[from(i + 1)].final
    <3>1. i + 1 \in 1 .. n
      BY <1>2, <2>3, <2>5
    <3> QED
      BY <1>1, <2>1, <2>3, <2>5, <3>1 DEF Descending
  <2>6. i + 1 < mirror => i + 1 \in 1 .. n
    BY <1>2, <2>3
  <2> QED
    BY <1>6, <2>2, <2>3, <2>4, <2>5, <2>6
<1>19. c.order # <<>> => c.definitions # <<>>
  <2>1. CASE n > 0
    BY <1>7, <1>10, <2>1
  <2>2. CASE n = 0
    <3>1. c.order = <<>>
      BY <1>1, <1>5, <2>2, UOrderIs
    <3> QED
      BY <3>1
  <2> QED
    BY <1>2, <2>1, <2>2
<1> HIDE DEF tokens, greedy
<1> QED
  BY <1>2, <1>6, <1>12, <1>13, <1>14, <1>15, <1>16, <1>17, <1>18, <1>19
     DEF BestAtEnds, CandidateOf, tokens, greedy, c

(* What the packer sees of an entry. *)
Fragment(e) ==
  [node |-> e.node, final |-> e.final, hop |-> e.hop, seen |-> e.hop > 0,
   impact |-> e.impact, definition |-> Tokens.definition[e.node],
   relation |-> Tokens.relation, source |-> Tokens.chunk * Len(e.text)]

LEMMA FragmentIs ==
  ASSUME NEW e
  PROVE  LET f == Fragment(e)
         IN /\ f.node = e.node /\ f.final = e.final
            /\ f["definition"] = Tokens.definition[e.node] /\ f["relation"] = Tokens.relation
            /\ f["source"] = Tokens.chunk * Len(e.text)
<1> DEFINE size == Tokens.chunk * Len(e.text)
           seen == e.hop > 0
           def == Tokens.definition[e.node]
           f == [node |-> e.node, final |-> e.final, hop |-> e.hop, seen |-> seen,
                 impact |-> e.impact, definition |-> def,
                 relation |-> Tokens.relation, source |-> size]
<1>1. Fragment(e) = f
  BY DEF Fragment
<1> HIDE DEF size, seen, def
<1>2. /\ f.node = e.node /\ f.final = e.final /\ f["definition"] = def
      /\ f["relation"] = Tokens.relation /\ f["source"] = size
  OBVIOUS
<1> HIDE DEF f
<1> QED
  BY <1>1, <1>2 DEF size, def

LEMMA CandidatesAre ==
  ASSUME AnswerInv
  PROVE  Fragments(Candidates, Len(reply.nodes))
<1> DEFINE s == reply.nodes
           n == Len(s)
           c == Candidates
<1>1. s \in Seq(EntryType) /\ Distinct(s, n)
  BY DEF AnswerInv, EntryList
<1>2. n \in Nat /\ DOMAIN s = 1 .. n /\ \A i, j \in 1 .. n : s[i].node = s[j].node => i = j
  BY <1>1 DEF Distinct
<1>3. \A i \in 1 .. n : c[i] = Fragment(s[i])
  BY <1>2 DEF Candidates, Fragment
<1>4. DOMAIN c = 1 .. n /\ Len(c) = n
  BY <1>2 DEF Candidates
<1> HIDE DEF s, n, c
<1>5. ASSUME NEW i \in 1 .. n
      PROVE  c[i].final \in Nat /\ \A part \in Part : c[i][part] \in Nat
  <2>1. s[i] \in EntryType
    BY <1>1, <1>2
  <2>2. s[i].node \in Node /\ s[i].final \in Nat /\ s[i].text \in Seq(Chunk)
    BY <2>1 DEF EntryType
  <2>3. Len(s[i].text) \in Nat
    BY <2>2
  <2>4. Tokens.definition[s[i].node] \in Nat /\ Tokens.relation \in Nat /\ Tokens.chunk \in Nat
    BY <2>2, QueriesAssumption
  <2>5. Tokens.chunk * Len(s[i].text) \in Nat
    <3>1. \A a, b \in Nat : a * b \in Nat
      OBVIOUS
    <3> QED
      BY <2>3, <2>4, <3>1, Zenon
  <2>6. /\ c[i].final = s[i].final /\ c[i]["definition"] = Tokens.definition[s[i].node]
        /\ c[i]["relation"] = Tokens.relation /\ c[i]["source"] = Tokens.chunk * Len(s[i].text)
    BY <1>3, FragmentIs
  <2>7. \A part \in Part : part \in {"definition", "relation", "source"}
    BY DEF Part
  <2> QED
    BY <2>2, <2>4, <2>5, <2>6, <2>7
<1>6. \A i, j \in 1 .. n : c[i].node = c[j].node => i = j
  <2>1. \A i \in 1 .. n : c[i].node = s[i].node
    BY <1>3, FragmentIs
  <2> QED
    BY <1>2, <2>1
<1>7. Distinct(c, n)
  BY <1>2, <1>4, <1>6 DEF Distinct
<1>8. Fragments(c, n)
  BY <1>5, <1>7 DEF Fragments
<1> QED
  BY <1>8 DEF s, n, c

LEMMA PackPacks ==
  ASSUME AnswerInv, PackReply
  PROVE  PackedBestAtEnds'
<1>1. PICK budget \in Budget, s \in DedupSortedByScoreDesc(Candidates) :
        packed' = [budget |-> budget, context |-> Pack(s, budget)]
  BY DEF PackReply
<1>2. Fragments(Candidates, Len(reply.nodes)) /\ Quotas(budget)
  BY CandidatesAre, QueriesAssumption DEF Quotas
<1>3. BestAtEnds(Candidates, budget, Pack(s, budget))
  BY <1>2, PackIs
<1>4. packed'.budget = budget /\ packed'.context = Pack(s, budget)
  BY <1>1
<1>5. Candidates' = Candidates
  BY DEF PackReply, Candidates
<1> QED
  BY <1>3, <1>4, <1>5 DEF PackedBestAtEnds

LEMMA PackedOnly ==
  ASSUME CallInv, [Next]_vars, pc' = "packed"
  PROVE  PackReply \/ UNCHANGED <<pc, reply, packed>>
<1>1. CASE MergeNode
  BY <1>1 DEF MergeNode
<1>2. CASE Receive
  <2>1. PICK query \in Query : pc' \in {"replied", query.kind}
    BY <1>2 DEF Receive, Finish
  <2>2. query.kind # "packed"
    BY QueryAssumption
  <2> QED
    BY <2>1, <2>2
<1>3. CASE GetNode \/ ExpandNeighbors \/ FullText
  BY <1>3 DEF GetNode, ExpandNeighbors, FullText, Answer, FailWith, Finish
<1>4. CASE EmbedQuery \/ VectorSearch \/ GraphTraversal \/ RecheckAuthorized
  BY <1>4 DEF EmbedQuery, VectorSearch, GraphTraversal, RecheckAuthorized, FailWith, Finish, Goto
<1>5. CASE HydrateNames \/ HydrateSourceText \/ WithoutRerank
  BY <1>5 DEF HydrateNames, HydrateSourceText, WithoutRerank, Respond, FailWith, Finish, Goto
<1>6. CASE CallReranker \/ ReadImpact
  BY <1>6 DEF CallReranker, ReadImpact, Respond, FailWith, Finish, Goto
<1>7. CASE UNCHANGED vars
  BY <1>7 DEF vars
<1> QED
  BY <1>1, <1>2, <1>3, <1>4, <1>5, <1>6, <1>7 DEF Next

LEMMA PackedStep ==
  ASSUME CallInv, AnswerInv, PackedBestAtEnds, [Next]_vars
  PROVE  PackedBestAtEnds'
<1> SUFFICES ASSUME pc' = "packed" PROVE PackedBestAtEnds'
  BY DEF PackedBestAtEnds
<1>1. CASE PackReply
  BY <1>1, PackPacks
<1>2. CASE UNCHANGED <<pc, reply, packed>>
  <2>1. Candidates' = Candidates
    BY <1>2 DEF Candidates
  <2> QED
    BY <1>2, <2>1 DEF PackedBestAtEnds
<1> QED
  BY <1>1, <1>2, PackedOnly

(* Whatever candidates a reply brings, whatever they cost and whatever the *)
(* budget, the packed context keeps each section within it, takes the best *)
(* first and presents them from the two ends towards the middle.           *)
THEOREM ContextsAreBestAtEnds == Spec => []PackedBestAtEnds
<1> DEFINE Inv == CallInv /\ AnswerInv /\ PackedBestAtEnds
<1>1. Init => Inv
  BY CallInitially DEF Init, PackedBestAtEnds
<1>2. Inv /\ [Next]_vars => Inv'
  BY CallStep, PackedStep
<1> QED
  BY <1>1, <1>2, PTL DEF Spec
=============================================================================
