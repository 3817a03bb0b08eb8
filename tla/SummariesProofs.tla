-------------------------- MODULE SummariesProofs --------------------------
(***************************************************************************)
(* Proofs about the summarizers, the semantic cache they share and the     *)
(* gateway they reach their model through, for any clients, requests,      *)
(* hierarchies, routes and threshold: a half-open circuit lets one request *)
(* through at a time, no partition of the cache holds what was outside its *)
(* scope, and every summary was made from exactly what its reader may read.*)
(***************************************************************************)
EXTENDS Summaries, FiniteSetTheorems, WellFoundedInduction, TLAPS

-----------------------------------------------------------------------------
(* The circuit breakers. OneProbe is not inductive as it stands: that the  *)
(* probe flag is only ever up on a cooled circuit must be known too, since *)
(* Cool would otherwise inherit a flag from before the circuit opened.     *)
ProbeOfCooled == \A k \in Route : probe[k] => opened[k] = "cooled"

BreakerInv == GatewayTypeOK /\ OneProbe /\ ProbeOfCooled

(* In the initial state every circuit is closed and no request in flight. *)
LEMMA BreakerInit == GatewayInit => BreakerInv
BY GatewayAssumption
   DEF GatewayInit, BreakerInv, GatewayTypeOK, OneProbe, ProbeOfCooled, Status, InFlight

(* The type invariant is preserved by every step of the gateway. *)
LEMMA TypeStep ==
  ASSUME GatewayTypeOK, [GatewayNext]_gatewayVars
  PROVE  GatewayTypeOK'
<1> USE GatewayAssumption DEF GatewayTypeOK, Status
<1>1. ASSUME NEW c \in Client, NEW k \in Route, Ask(c, k)
      PROVE  GatewayTypeOK'
  <2>1. CASE RejectBody(c) \/ RefuseCircuitOpen(c, k)
    BY <2>1 DEF RejectBody, RefuseCircuitOpen, Reply, breakerVars
  <2>2. CASE SendUpstream(c, k)
    <3>1. probe' \in [Route -> BOOLEAN]
      BY <2>2, Zenon DEF SendUpstream
    <3>2. QED
      BY <2>2, <3>1 DEF SendUpstream
  <2>3. QED
    BY <1>1, <2>1, <2>2 DEF Ask
<1>2. ASSUME NEW c \in Client, UpstreamFails(c) \/ CopyEnds(c) \/ CopyBreaks(c)
      PROVE  GatewayTypeOK'
  <2>1. key[c] \in Route
    OBVIOUS
  <2>2. CASE Failure(key[c]) /\ UNCHANGED key /\ \E a : Reply(c, a)
    BY <2>1, <2>2 DEF Failure, Reply
  <2>3. CASE Success(key[c]) /\ UNCHANGED key /\ \E a : Reply(c, a)
    BY <2>1, <2>3 DEF Success, Reply
  <2>4. QED
    BY <1>2, <2>2, <2>3 DEF UpstreamFails, CopyEnds, CopyBreaks
<1>3. ASSUME NEW c \in Client, UpstreamResponds(c) \/ TakeAnswer(c)
      PROVE  GatewayTypeOK'
  BY <1>3 DEF UpstreamResponds, TakeAnswer, breakerVars
<1>4. ASSUME NEW k \in Route, Cool(k)
      PROVE  GatewayTypeOK'
  BY <1>4 DEF Cool, requestVars
<1>5. CASE UNCHANGED gatewayVars
  BY <1>5 DEF gatewayVars
<1>6. QED
  BY <1>1, <1>2, <1>3, <1>4, <1>5 DEF GatewayNext, Progress

(* What a request in flight does to its own route is all that a report to  *)
(* the breaker can disturb: the other routes keep their requests and their *)
(* breaker.                                                                *)
LEMMA ReportStep ==
  ASSUME BreakerInv, NEW c \in Client, phase[c] # "idle", NEW a, Reply(c, a),
         UNCHANGED key, Failure(key[c]) \/ Success(key[c])
  PROVE  OneProbe' /\ ProbeOfCooled'
<1> USE GatewayAssumption DEF BreakerInv
<1>1. key[c] \in Route /\ c \in InFlight(key[c])
  BY DEF GatewayTypeOK, InFlight
<1>2. \A k \in Route : InFlight(k)' = InFlight(k) \ {c}
  BY DEF InFlight, Reply, GatewayTypeOK
<1>3. SUFFICES ASSUME NEW k \in Route
               PROVE  /\ opened'[k] = "closed" => failures'[k] < Threshold
                      /\ (opened'[k] = "cooled" /\ ~Outlives) =>
                           /\ \A x, y \in InFlight(k)' : x = y
                           /\ InFlight(k)' # {} => probe'[k]
                      /\ probe'[k] => opened'[k] = "cooled"
  BY DEF OneProbe, ProbeOfCooled
<1>4. CASE k # key[c]
  <2>1. failures'[k] = failures[k] /\ opened'[k] = opened[k] /\ probe'[k] = probe[k]
    BY <1>1, <1>4 DEF Failure, Success, GatewayTypeOK
  <2>2. InFlight(k)' = InFlight(k)
    BY <1>2, <1>4 DEF InFlight
  <2>3. QED
    BY <2>1, <2>2 DEF OneProbe, ProbeOfCooled
<1>5. CASE k = key[c]
  <2>1. CASE Success(k)
    BY <2>1 DEF Success, GatewayTypeOK
  <2>2. CASE Failure(k)
    <3>1. failures[k] \in Nat /\ Threshold \in Nat /\ failures'[k] = failures[k] + 1
      BY <2>2 DEF Failure, GatewayTypeOK
    <3>2. probe'[k] = FALSE
      BY <2>2 DEF Failure, GatewayTypeOK
    <3>3. opened'[k] = "closed" => failures'[k] < Threshold
      BY <2>2, <3>1 DEF Failure, GatewayTypeOK
    <3>4. opened'[k] = "cooled" => Outlives
      <4>1. SUFFICES ASSUME opened'[k] = "cooled", ~Outlives
                     PROVE  FALSE
        OBVIOUS
      <4>2. opened[k] = "cooled" /\ ~probe[k]
        BY <2>2, <4>1 DEF Failure, GatewayTypeOK
      <4>3. QED
        BY <1>1, <1>5, <4>1, <4>2 DEF OneProbe
    <3>5. QED
      BY <3>2, <3>3, <3>4
  <2>3. QED
    BY <1>5, <2>1, <2>2
<1>6. QED
  BY <1>4, <1>5

(* A request is sent: on a cooled circuit it is the only one, and raises   *)
(* the flag.                                                               *)
LEMMA SendStep ==
  ASSUME BreakerInv, NEW c \in Client, NEW r \in Route, SendUpstream(c, r)
  PROVE  OneProbe' /\ ProbeOfCooled'
<1> USE GatewayAssumption DEF BreakerInv
<1>1. \A k \in Route : InFlight(k)' = IF k = r THEN InFlight(k) \cup {c} ELSE InFlight(k)
  BY DEF InFlight, SendUpstream, Asking, GatewayTypeOK
<1>2. \A k \in Route : probe'[k] = IF k = r THEN opened[k] = "cooled" ELSE probe[k]
  BY DEF SendUpstream, GatewayTypeOK
<1>3. opened' = opened /\ failures' = failures
  BY DEF SendUpstream
<1>4. opened[r] = "cooled" /\ ~Outlives => InFlight(r) = {}
  BY DEF SendUpstream, Allows, OneProbe
<1>5. QED
  BY <1>1, <1>2, <1>3, <1>4 DEF OneProbe, ProbeOfCooled

(* Nothing else touches a breaker or the requests in flight, but for the   *)
(* cooling of an open circuit.                                             *)
LEMMA QuietStep ==
  ASSUME BreakerInv, UNCHANGED breakerVars, \A k \in Route : InFlight(k)' = InFlight(k)
  PROVE  OneProbe' /\ ProbeOfCooled'
BY DEF BreakerInv, OneProbe, ProbeOfCooled, breakerVars

LEMMA BreakerStep ==
  ASSUME BreakerInv, [GatewayNext]_gatewayVars
  PROVE  BreakerInv'
<1>1. GatewayTypeOK'
  BY TypeStep DEF BreakerInv
<1>2. ASSUME NEW c \in Client, NEW k \in Route, Ask(c, k)
      PROVE  OneProbe' /\ ProbeOfCooled'
  <2>1. CASE SendUpstream(c, k)
    BY <2>1, SendStep
  <2>2. CASE RejectBody(c) \/ RefuseCircuitOpen(c, k)
    <3>1. UNCHANGED breakerVars /\ \A r \in Route : InFlight(r)' = InFlight(r)
      BY <2>2 DEF RejectBody, RefuseCircuitOpen, Reply, Asking, InFlight, BreakerInv,
                  GatewayTypeOK
    <3>2. QED
      BY <3>1, QuietStep
  <2>3. QED
    BY <1>2, <2>1, <2>2 DEF Ask
<1>3. ASSUME NEW c \in Client, UpstreamFails(c) \/ CopyEnds(c) \/ CopyBreaks(c)
      PROVE  OneProbe' /\ ProbeOfCooled'
  <2>1. PICK a : Reply(c, a)
    BY <1>3 DEF UpstreamFails, CopyEnds, CopyBreaks
  <2>2. /\ phase[c] # "idle"
        /\ UNCHANGED key
        /\ Failure(key[c]) \/ Success(key[c])
    BY <1>3 DEF UpstreamFails, CopyEnds, CopyBreaks
  <2>3. QED
    BY <2>1, <2>2, ReportStep
<1>4. ASSUME NEW c \in Client, UpstreamResponds(c) \/ TakeAnswer(c)
      PROVE  OneProbe' /\ ProbeOfCooled'
  <2>1. UNCHANGED breakerVars /\ \A r \in Route : InFlight(r)' = InFlight(r)
    BY <1>4 DEF UpstreamResponds, TakeAnswer, InFlight, BreakerInv, GatewayTypeOK
  <2>2. QED
    BY <2>1, QuietStep
<1>5. ASSUME NEW k \in Route, Cool(k)
      PROVE  OneProbe' /\ ProbeOfCooled'
  <2>1. ~probe[k] /\ (~Outlives => InFlight(k) = {})
    BY <1>5, GatewayAssumption DEF Cool, BreakerInv, ProbeOfCooled
  <2>2. \A r \in Route : InFlight(r)' = InFlight(r) /\ probe'[r] = probe[r]
                         /\ failures'[r] = failures[r]
    BY <1>5 DEF Cool, requestVars, InFlight
  <2>3. \A r \in Route : opened'[r] = IF r = k THEN "cooled" ELSE opened[r]
    BY <1>5 DEF Cool, BreakerInv, GatewayTypeOK
  <2>4. OneProbe'
    BY <2>1, <2>2, <2>3 DEF BreakerInv, OneProbe
  <2>5. ProbeOfCooled'
    BY <2>1, <2>2, <2>3 DEF BreakerInv, ProbeOfCooled
  <2>6. QED
    BY <2>4, <2>5
<1>6. ASSUME UNCHANGED gatewayVars
      PROVE  OneProbe' /\ ProbeOfCooled'
  <2>1. UNCHANGED breakerVars /\ \A r \in Route : InFlight(r)' = InFlight(r)
    BY <1>6 DEF gatewayVars, breakerVars, InFlight
  <2>2. QED
    BY <2>1, QuietStep
<1>7. QED
  BY <1>1, <1>2, <1>3, <1>4, <1>5, <1>6 DEF BreakerInv, GatewayNext, Progress

(* Half-open means one request: whichever clients ask, and whatever their  *)
(* upstreams answer, a cooled circuit lets one request through at a time   *)
(* (ServeHTTP, allow, failure, success), as long as requests do not        *)
(* outlive OpenDuration.                                                   *)
THEOREM HalfOpenIsOneRequest == GatewaySpec => []OneProbe
<1>1. GatewayInit => BreakerInv
  BY BreakerInit
<1>2. BreakerInv /\ [GatewayNext]_gatewayVars => BreakerInv'
  BY BreakerStep
<1>3. BreakerInv => OneProbe
  BY DEF BreakerInv
<1>4. QED
  BY <1>1, <1>2, <1>3, PTL DEF GatewaySpec

(* To the gateway the summarizers are clients like any other.              *)
LEMMA SummarizersAreClients == [Next]_vars => [GatewayNext]_gatewayVars
<1> SUFFICES ASSUME [Next]_vars PROVE [GatewayNext]_gatewayVars
  OBVIOUS
<1>1. ASSUME NEW s \in Client, AskModel(s)
      PROVE  GatewayNext
  BY <1>1, BoundsAssumption DEF AskModel, GatewayNext
<1>2. ASSUME NEW s \in Client, GatewayWorks(s) \/ Generated(s)
      PROVE  GatewayNext
  BY <1>2 DEF GatewayWorks, Generated, GatewayNext
<1>3. ASSUME NEW s \in Client, Start(s) \/ PassOver(s) \/ LookUp(s) \/ Store(s)
      PROVE  UNCHANGED gatewayVars
  BY <1>3 DEF Start, PassOver, LookUp, Store
<1>4. CASE CircuitCools
  BY <1>4 DEF CircuitCools, GatewayNext
<1>5. CASE CacheExpires \/ UNCHANGED vars
  BY <1>5 DEF CacheExpires, vars, gatewayVars
<1> QED
  BY <1>1, <1>2, <1>3, <1>4, <1>5 DEF Next

(* So what the breakers promise any clients they promise the summarizers:  *)
(* summarizing implements the specification of the gateway.                *)
THEOREM SummariesUseTheGateway == Spec => GatewaySpec /\ []OneProbe
<1>1. Init => GatewayInit
  BY DEF Init
<1>2. Spec => GatewaySpec
  BY <1>1, SummarizersAreClients, PTL DEF Spec, GatewaySpec
<1> QED
  BY <1>2, HalfOpenIsOneRequest, PTL

-----------------------------------------------------------------------------
(* Repeating a step: what Reach computes.                                  *)

LEMMA NatSetInduction ==
  ASSUME NEW S, 0 \in S, \A n \in Nat : n \in S => n + 1 \in S
  PROVE  \A n \in Nat : n \in S
<1> DEFINE T == Nat \ S
           less == {p \in Nat \X Nat : p[1] < p[2]}
<1>1. IsWellFoundedOn(less, Nat)
  BY NatLessThanWellFounded DEF OpToRel
<1>2. SUFFICES ASSUME T # {} PROVE FALSE
  OBVIOUS
<1>3. PICK x \in T : \A y \in T : ~ (<<y, x>> \in less)
  <2> HIDE DEF less
  <2>1. T \subseteq Nat
    OBVIOUS
  <2> HIDE DEF T
  <2> QED
    BY <1>1, <1>2, <2>1, WFMin
<1>4. x # 0 /\ x - 1 \in Nat /\ (x - 1) + 1 = x
  OBVIOUS
<1>5. x - 1 \in S
  <2>1. <<x - 1, x>> \in less
    BY <1>3, <1>4
  <2> HIDE DEF less
  <2> QED
    BY <1>3, <1>4, <2>1
<1>6. (x - 1) + 1 \in S
  BY <1>4, <1>5
<1> QED
  BY <1>3, <1>4, <1>6

(* Repeated(f, N, base, step): f is the recursive function of Reach. *)
Repeated(f, N, base, step) ==
  f = [k \in 0 .. N |-> IF k = 0 THEN base ELSE step[f[k - 1]]]

LEMMA RepetitionExists ==
  ASSUME NEW X, NEW base \in X, NEW step \in [X -> X], NEW N \in Nat
  PROVE  \E f \in [0 .. N -> X] : Repeated(f, N, base, step)
<1> DEFINE S == {n \in Nat : \E f \in [0 .. n -> X] : Repeated(f, n, base, step)}
<1>1. 0 \in S
  <2> DEFINE f == [k \in 0 .. 0 |-> base]
  <2>1. f \in [0 .. 0 -> X] /\ Repeated(f, 0, base, step)
    BY DEF Repeated
  <2> QED
    BY <2>1
<1>2. ASSUME NEW n \in Nat, n \in S PROVE n + 1 \in S
  <2>1. PICK g \in [0 .. n -> X] : Repeated(g, n, base, step)
    BY <1>2
  <2> DEFINE f == [k \in 0 .. n + 1 |-> IF k = n + 1 THEN step[g[n]] ELSE g[k]]
  <2>2. g[n] \in X /\ step[g[n]] \in X
    OBVIOUS
  <2>3. \A k \in 0 .. n + 1 : k # n + 1 => k \in 0 .. n
    OBVIOUS
  <2>4. f \in [0 .. n + 1 -> X]
    BY <2>2, <2>3
  <2>5. ASSUME NEW k \in 0 .. n + 1
        PROVE  f[k] = IF k = 0 THEN base ELSE step[f[k - 1]]
    <3>1. \A i \in 0 .. n : g[i] = IF i = 0 THEN base ELSE step[g[i - 1]]
      BY <2>1 DEF Repeated
    <3>2. CASE k = n + 1
      <4>1. k # 0 /\ k - 1 = n /\ n \in 0 .. n + 1 /\ n # n + 1
        BY <3>2
      <4> QED
        BY <3>2, <4>1
    <3>3. CASE k # n + 1
      <4>1. k \in 0 .. n /\ f[k] = g[k]
        BY <2>3, <3>3
      <4>2. CASE k = 0
        BY <3>1, <4>1, <4>2
      <4>3. CASE k # 0
        <5>1. k - 1 \in 0 .. n + 1 /\ k - 1 # n + 1
          BY <4>1, <4>3
        <5>2. f[k - 1] = g[k - 1]
          BY <5>1
        <5> QED
          BY <3>1, <4>1, <4>3, <5>2
      <4> QED
        BY <4>2, <4>3
    <3> QED
      BY <3>2, <3>3
  <2>6. Repeated(f, n + 1, base, step)
    <3>1. f = [k \in 0 .. n + 1 |-> f[k]]
      OBVIOUS
    <3> HIDE DEF f
    <3> QED
      BY <2>4, <2>5, <3>1 DEF Repeated
  <2> HIDE DEF f
  <2> QED
    BY <2>4, <2>6
<1> HIDE DEF S
<1>3. N \in S
  BY <1>1, <1>2, NatSetInduction
<1> QED
  BY <1>3 DEF S

Below(h, R) == UNION {Range(h[m].children) : m \in R}

(* Reach starts at n and adds, again and again, what is below in S. *)
Grows(f, N, h, n, S) ==
  /\ N \in Nat
  /\ f \in [0 .. N -> SUBSET S]
  /\ f[0] = {n} \cap S
  /\ \A k \in 1 .. N : f[k] = f[k - 1] \cup (S \cap Below(h, f[k - 1]))
  /\ Reach(h, n, S) = f[N]

LEMMA ReachIs ==
  ASSUME NEW h, NEW n, NEW S, IsFiniteSet(S)
  PROVE  \E f : Grows(f, Cardinality(S), h, n, S)
<1> DEFINE N == Cardinality(S)
           base == {n} \cap S
           step == [R \in SUBSET S |-> R \cup (S \cap Below(h, R))]
           Body(f) == [k \in 0 .. N |-> IF k = 0 THEN {n} \cap S
                         ELSE f[k - 1] \cup
                              (S \cap UNION {Range(h[m].children) : m \in f[k - 1]})]
           at == CHOOSE f : f = Body(f)
<1>1. N \in Nat
  BY FS_CardinalityType
<1>2. base \in SUBSET S /\ step \in [SUBSET S -> SUBSET S]
  OBVIOUS
<1> HIDE DEF N
<1>3. PICK f \in [0 .. N -> SUBSET S] : Repeated(f, N, base, step)
  <2> HIDE DEF base, step
  <2> QED
    BY <1>1, <1>2, RepetitionExists
<1>4. \A k \in 0 .. N : f[k] = IF k = 0 THEN base ELSE step[f[k - 1]]
  BY <1>3 DEF Repeated
<1>5. \A k \in 1 .. N : k \in 0 .. N /\ k # 0 /\ k - 1 \in 0 .. N
  BY <1>1
<1>6. \A k \in 1 .. N : f[k] = f[k - 1] \cup (S \cap Below(h, f[k - 1]))
  BY <1>4, <1>5
<1>7. f[0] = base
  <2>1. 0 \in 0 .. N
    BY <1>1
  <2> HIDE DEF step, base
  <2> QED
    BY <1>4, <2>1
<1>8. f = Body(f)
  <2>1. ASSUME NEW k \in 0 .. N PROVE f[k] = Body(f)[k]
    <3>1. CASE k = 0
      BY <1>7, <3>1
    <3>2. CASE k # 0
      <4>1. k \in 1 .. N
        BY <1>1, <3>2
      <4> QED
        BY <1>6, <3>2, <4>1 DEF Below
    <3> QED
      BY <3>1, <3>2
  <2> QED
    BY <2>1
<1>9. at = Body(at)
  <2> HIDE DEF Body
  <2> QED
    BY <1>8
<1>10. Reach(h, n, S) = at[N]
  BY DEF Reach, N
<1> HIDE DEF at
<1>11. \A k \in 0 .. N : at[k] = Body(at)[k]
  BY <1>9
<1>12. at[0] = base /\ \A k \in 1 .. N : at[k] = at[k - 1] \cup (S \cap Below(h, at[k - 1]))
  <2>1. 0 \in 0 .. N
    BY <1>1
  <2>2. at[0] = base
    BY <1>11, <2>1
  <2>3. ASSUME NEW k \in 1 .. N
        PROVE  at[k] = at[k - 1] \cup (S \cap Below(h, at[k - 1]))
    <3>1. k \in 0 .. N /\ k # 0
      BY <1>5
    <3>2. at[k] = Body(at)[k]
      BY <1>11, <3>1
    <3> QED
      BY <3>1, <3>2 DEF Below
  <2> QED
    BY <2>2, <2>3
<1>13. \A k \in 0 .. N : at[k] \in SUBSET S
  <2> DEFINE T == {k \in Nat : k \in 0 .. N => at[k] \in SUBSET S}
  <2>1. 0 \in T
    BY <1>12
  <2>2. ASSUME NEW k \in Nat, k \in T PROVE k + 1 \in T
    <3>1. SUFFICES ASSUME k + 1 \in 0 .. N PROVE at[k + 1] \in SUBSET S
      OBVIOUS
    <3>2. k \in 0 .. N /\ k + 1 \in 1 .. N /\ (k + 1) - 1 = k
      BY <1>1, <3>1
    <3> QED
      BY <1>12, <2>2, <3>2
  <2> HIDE DEF T
  <2>3. \A k \in Nat : k \in T
    BY <2>1, <2>2, NatSetInduction
  <2> QED
    BY <1>1, <2>3 DEF T
<1>14. at \in [0 .. N -> SUBSET S]
  BY <1>9, <1>13
<1>15. Grows(at, N, h, n, S)
  BY <1>1, <1>10, <1>12, <1>14 DEF Grows
<1> QED
  BY <1>15 DEF N

LEMMA ReachInside ==
  ASSUME NEW h, NEW n, NEW S, IsFiniteSet(S)
  PROVE  Reach(h, n, S) \subseteq S
<1>1. PICK f : Grows(f, Cardinality(S), h, n, S)
  BY ReachIs
<1> QED
  BY <1>1 DEF Grows

(* A set that holds n, if S does, and that nothing in S leads out of holds *)
(* all there is to reach.                                                  *)
LEMMA ReachClosed ==
  ASSUME NEW h, NEW n, NEW S, IsFiniteSet(S), NEW G, n \in S => n \in G, S \cap Below(h, G) \subseteq G
  PROVE  Reach(h, n, S) \subseteq G
<1> DEFINE N == Cardinality(S)
<1>0. PICK f : Grows(f, N, h, n, S)
  BY ReachIs
<1>1. /\ f \in [0 .. N -> SUBSET S] /\ N \in Nat
      /\ f[0] = {n} \cap S
      /\ \A k \in 1 .. N : f[k] = f[k - 1] \cup (S \cap Below(h, f[k - 1]))
      /\ Reach(h, n, S) = f[N]
  BY <1>0 DEF Grows
<1> HIDE DEF N
<1> DEFINE T == {k \in Nat : k \in 0 .. N => f[k] \subseteq G}
<1>2. 0 \in T
  BY <1>1
<1>3. ASSUME NEW k \in Nat, k \in T PROVE k + 1 \in T
  <2>1. SUFFICES ASSUME k + 1 \in 0 .. N PROVE f[k + 1] \subseteq G
    OBVIOUS
  <2>2. k \in 0 .. N /\ k + 1 \in 1 .. N /\ (k + 1) - 1 = k
    BY <1>1, <2>1
  <2>3. f[k] \subseteq G
    BY <1>3, <2>2
  <2>4. Below(h, f[k]) \subseteq Below(h, G)
    BY <2>3 DEF Below
  <2> QED
    BY <1>1, <2>2, <2>3, <2>4
<1> HIDE DEF T
<1>4. N \in T
  BY <1>1, <1>2, <1>3, NatSetInduction
<1> QED
  BY <1>1, <1>4 DEF T

-----------------------------------------------------------------------------
(* What a reader is summarized for is what it sees. *)

(* Everything seen is authorized, what is done was seen, a complete node   *)
(* has all its children complete, and every source in a text is in scope.  *)
ReaderInv(r) ==
  /\ IsFiniteSet(DOMAIN r.h)
  /\ r.pc # "idle" => HasScope(r.sc)
  /\ r.view \subseteq DOMAIN r.h
  /\ \A n \in r.view : Authorized(r.sc, r.h, n)
  /\ DOMAIN r.done \subseteq r.view
  /\ \A n \in DOMAIN r.done :
       /\ r.done[n].complete => Complete(r, n)
       /\ \A x \in r.done[n].text : InScope(x.label, r.sc)
  /\ \A x \in r.text : InScope(x.label, r.sc)
  /\ r.pc \in {"generate", "wait", "put"} => Head(r.todo) \in r.view

RunShape(r) ==
  r \in [pc : {r.pc}, sc : {r.sc}, h : {r.h}, view : {r.view}, todo : {r.todo},
         done : {r.done}, text : {r.text}]

RunsInv ==
  /\ run = [s \in Client |-> run[s]]
  /\ \A s \in Client : RunShape(run[s]) /\ ReaderInv(run[s])

LEMMA NoRunKeeps == RunShape(NoRun) /\ ReaderInv(NoRun)
<1>1. DOMAIN NoRun.h = {} /\ DOMAIN NoRun.done = {} /\ IsFiniteSet({})
  BY FS_EmptySet DEF NoRun
<1>2. NoRun.pc = "idle" /\ NoRun.view = {} /\ NoRun.text = {} /\ RunShape(NoRun)
  BY DEF NoRun, RunShape
<1> QED
  BY <1>1, <1>2 DEF ReaderInv

(* One reader's step keeps the others as they are. *)
LEMMA OneReader ==
  ASSUME RunsInv, NEW s \in Client, NEW v, run' = [run EXCEPT ![s] = v],
         RunShape(v), ReaderInv(v)
  PROVE  RunsInv'
<1>1. run' = [t \in Client |-> IF t = s THEN v ELSE run[t]]
  BY DEF RunsInv
<1>2. \A t \in Client : run'[t] = IF t = s THEN v ELSE run[t]
  BY <1>1
<1> QED
  BY <1>1, <1>2 DEF RunsInv

(* A complete node and all below it are seen. *)
LEMMA CompleteIsSeen ==
  ASSUME NEW r, ReaderInv(r), NEW n \in r.view, Complete(r, n)
  PROVE  Reach(r.h, n, DOMAIN r.h) \subseteq r.view
<1> DEFINE G == {n} \cup {m \in DOMAIN r.done : r.done[m].complete}
<1>1. \A m \in G : Complete(r, m)
  BY DEF ReaderInv
<1>2. Below(r.h, G) \subseteq G
  BY <1>1 DEF Below, Complete
<1>3. n \in G /\ G \subseteq r.view /\ IsFiniteSet(DOMAIN r.h)
  BY DEF ReaderInv
<1> HIDE DEF G
<1>4. Reach(r.h, n, DOMAIN r.h) \subseteq G
  BY <1>2, <1>3, ReachClosed
<1> QED
  BY <1>3, <1>4

(* So the model is given nothing outside the reader's scope. *)
LEMMA ModelInputInScope ==
  ASSUME NEW r, ReaderInv(r), NEW n \in r.view, NEW x \in ModelInput(r, n)
  PROVE  InScope(x.label, r.sc)
<1>1. CASE Complete(r, n) /\ x \in Source(r.h, n)
  <2>1. PICK m \in Reach(r.h, n, DOMAIN r.h) : x.label = r.h[m].label
    BY <1>1 DEF Source
  <2>2. m \in r.view
    BY <1>1, <2>1, CompleteIsSeen
  <2> QED
    BY <2>1, <2>2 DEF ReaderInv, Authorized
<1>2. CASE \E c \in Visible(r, n) : x \in r.done[c].text
  <2>1. PICK c \in Visible(r, n) : x \in r.done[c].text
    BY <1>2
  <2>2. c \in DOMAIN r.done
    BY <2>1 DEF Visible
  <2> QED
    BY <2>1, <2>2 DEF ReaderInv
<1> QED
  BY <1>1, <1>2 DEF ModelInput

(* A node is done: the record that stands for it joins the others.         *)
LEMMA DoneGives ==
  ASSUME RunsInv, NEW s \in Client, NEW text, Done(s, text)
  PROVE  LET r == run[s]
             n == Head(r.todo)
         IN \E v : /\ run' = [run EXCEPT ![s] = v] /\ RunShape(v)
                   /\ v.sc = r.sc /\ v.h = r.h /\ v.view = r.view
                   /\ v.pc = IF Len(r.todo) = 1 THEN "returned" ELSE "get"
                   /\ v.todo = Tail(r.todo) /\ v.text = {}
                   /\ DOMAIN v.done = DOMAIN r.done \cup {n}
                   /\ \A m \in DOMAIN r.done : m # n => v.done[m] = r.done[m]
                   /\ v.done[n] = [hash |-> EffectiveHash(r, n), complete |-> Complete(r, n),
                                   text |-> text]
<1> DEFINE r == run[s]
           n == Head(r.todo)
           node == [hash |-> EffectiveHash(r, n), complete |-> Complete(r, n), text |-> text]
           d == [m \in DOMAIN r.done \cup {n} |-> IF m = n THEN node ELSE r.done[m]]
           p == IF Len(r.todo) = 1 THEN "returned" ELSE "get"
           v == [r EXCEPT !.done = d, !.todo = Tail(@), !.text = {}, !.pc = p]
<1>1. RunShape(r) /\ run = [t \in Client |-> run[t]]
  BY DEF RunsInv
<1>2. run' = [run EXCEPT ![s] = v]
  <2> HIDE DEF node, p
  <2>1. run' = [run EXCEPT ![s].done = [m \in DOMAIN @ \cup {n} |-> IF m = n THEN node ELSE @[m]],
                           ![s].todo = Tail(@), ![s].text = {}, ![s].pc = p]
    BY Zenon DEF Done, Current, node, p
  <2> QED
    BY <1>1, <2>1
<1>3. /\ DOMAIN d = DOMAIN r.done \cup {n} /\ d[n] = node
      /\ \A m \in DOMAIN r.done : m # n => d[m] = r.done[m]
  OBVIOUS
<1>4. /\ v.pc = p /\ v.sc = r.sc /\ v.h = r.h /\ v.view = r.view /\ v.done = d /\ v.text = {}
      /\ v.todo = Tail(r.todo) /\ RunShape(v)
  <2> HIDE DEF d, node, p
  <2> QED
    BY <1>1 DEF RunShape
<1> HIDE DEF v, d
<1>5. /\ run' = [run EXCEPT ![s] = v] /\ RunShape(v)
      /\ v.sc = r.sc /\ v.h = r.h /\ v.view = r.view /\ v.pc = p
      /\ v.todo = Tail(r.todo) /\ v.text = {}
      /\ DOMAIN v.done = DOMAIN r.done \cup {n}
      /\ \A m \in DOMAIN r.done : m # n => v.done[m] = r.done[m]
      /\ v.done[n] = node
  BY <1>2, <1>3, <1>4
<1> QED
  BY <1>5

(* Its record tells whether it is complete. *)
LEMMA DoneKeeps ==
  ASSUME RunsInv, NEW s \in Client, run[s].pc # "idle", Head(run[s].todo) \in run[s].view,
         NEW text, \A x \in text : InScope(x.label, run[s].sc), Done(s, text)
  PROVE  RunsInv'
<1> DEFINE r == run[s]
           n == Head(r.todo)
           node == [hash |-> EffectiveHash(r, n), complete |-> Complete(r, n), text |-> text]
<1>1. RunShape(r) /\ ReaderInv(r)
  BY DEF RunsInv
<1>2. PICK v : /\ run' = [run EXCEPT ![s] = v] /\ RunShape(v)
               /\ v.sc = r.sc /\ v.h = r.h /\ v.view = r.view /\ v.text = {}
               /\ v.pc = IF Len(r.todo) = 1 THEN "returned" ELSE "get"
               /\ DOMAIN v.done = DOMAIN r.done \cup {n}
               /\ \A m \in DOMAIN r.done : m # n => v.done[m] = r.done[m]
               /\ v.done[n] = node
  BY DoneGives
<1>3. v.pc \in {"returned", "get"}
  BY <1>2
<1>4. v.done[n].complete = Complete(r, n) /\ v.done[n].text = text
  BY <1>2
<1> HIDE DEF node
<1>5. \A m \in DOMAIN r.done : r.done[m].complete => v.done[m].complete
  BY <1>1, <1>2, <1>4 DEF ReaderInv
<1>6. ASSUME NEW m, Complete(r, m) PROVE Complete(v, m)
  BY <1>2, <1>5, <1>6 DEF Complete
<1>7. \A m \in DOMAIN v.done : v.done[m].complete => Complete(r, m)
  BY <1>1, <1>2, <1>4 DEF ReaderInv
<1>8. \A m \in DOMAIN v.done : \A x \in v.done[m].text : InScope(x.label, r.sc)
  BY <1>1, <1>2, <1>4 DEF ReaderInv
<1>9. ReaderInv(v)
  BY <1>1, <1>2, <1>3, <1>6, <1>7, <1>8 DEF ReaderInv
<1> QED
  BY <1>2, <1>9, OneReader

(* A step that only moves on, or passes a node over. *)
LEMMA MovesOn ==
  ASSUME RunsInv, NEW s \in Client, run[s].pc # "idle",
         NEW v, run' = [run EXCEPT ![s] = v], RunShape(v),
         v.sc = run[s].sc /\ v.h = run[s].h /\ v.view = run[s].view /\ v.done = run[s].done,
         \A x \in v.text : InScope(x.label, run[s].sc),
         v.pc \in {"generate", "wait", "put"} => Head(v.todo) \in v.view
  PROVE  RunsInv'
<1>1. ReaderInv(run[s])
  BY DEF RunsInv
<1>2. \A m : Complete(v, m) = Complete(run[s], m)
  BY DEF Complete
<1>3. ReaderInv(v)
  BY <1>1, <1>2 DEF ReaderInv
<1> QED
  BY <1>3, OneReader

LEMMA FailKeeps ==
  ASSUME RunsInv, NEW s \in Client, Fail(s)
  PROVE  RunsInv'
BY NoRunKeeps, OneReader DEF Fail

(* What summarize begins with. *)
Begun(sc, h, order) ==
  [NoRun EXCEPT !.pc = "get", !.sc = sc, !.h = h, !.view = Projection(sc, h), !.todo = order]

LEMMA StartKeeps ==
  ASSUME RunsInv, NEW s \in Client, Start(s)
  PROVE  RunsInv'
<1>1. PICK q \in Request[s] :
        IF ~HasScope(q.sc) \/ ~Valid(q.h) \/ ~Authorized(q.sc, q.h, Root) THEN Fail(s)
        ELSE \E order \in Postorders(q.h) :
               run' = [run EXCEPT ![s] = Begun(q.sc, q.h, order)]
  BY DEF Start, Begun
<1>2. CASE Fail(s)
  BY <1>2, FailKeeps
<1>3. CASE ~Fail(s)
  <2>0. PICK order \in Postorders(q.h) : run' = [run EXCEPT ![s] = Begun(q.sc, q.h, order)]
    BY <1>1, <1>3
  <2> DEFINE v == Begun(q.sc, q.h, order)
  <2>1. run' = [run EXCEPT ![s] = v] /\ HasScope(q.sc)
    BY <1>1, <1>3, <2>0
  <2>2. IsFiniteSet(DOMAIN q.h)
    <3>1. q \in UNION Range(Request)
      BY <1>1, RequestAssumption DEF Range
    <3> QED
      BY <3>1, RequestAssumption
  <2>3. Projection(q.sc, q.h) \subseteq {n \in DOMAIN q.h : Authorized(q.sc, q.h, n)}
    <3> DEFINE A == {n \in DOMAIN q.h : Authorized(q.sc, q.h, n)}
    <3>1. IsFiniteSet(A)
      BY <2>2, FS_Subset
    <3> HIDE DEF A
    <3>2. Reach(q.h, Root, A) \subseteq A
      BY <3>1, ReachInside
    <3> QED
      BY <3>2 DEF Projection, A
  <2>4. /\ v.pc = "get" /\ v.sc = q.sc /\ v.h = q.h /\ v.view = Projection(q.sc, q.h)
        /\ DOMAIN v.done = {} /\ v.text = {} /\ RunShape(v)
    <3>1. RunShape(NoRun) /\ DOMAIN NoRun.done = {} /\ NoRun.text = {}
      BY DEF NoRun, RunShape
    <3>2. /\ v.pc = "get" /\ v.sc = q.sc /\ v.h = q.h /\ v.view = Projection(q.sc, q.h)
          /\ v.done = NoRun.done /\ v.text = NoRun.text /\ RunShape(v)
      BY <3>1 DEF RunShape, Begun
    <3> QED
      BY <3>1, <3>2
  <2> HIDE DEF v
  <2>5. ReaderInv(v)
    BY <2>1, <2>2, <2>3, <2>4 DEF ReaderInv
  <2> QED
    BY <2>1, <2>4, <2>5, OneReader
<1> QED
  BY <1>2, <1>3

LEMMA PassOverKeeps ==
  ASSUME RunsInv, NEW s \in Client, PassOver(s)
  PROVE  RunsInv'
<1> DEFINE r == run[s]
           v == [r EXCEPT !.todo = Tail(@)]
<1>1. RunShape(r) /\ ReaderInv(r) /\ run = [t \in Client |-> run[t]]
  BY DEF RunsInv
<1>2. run' = [run EXCEPT ![s] = v] /\ r.pc = "get"
  BY <1>1 DEF PassOver
<1>3. /\ v.sc = r.sc /\ v.h = r.h /\ v.view = r.view /\ v.done = r.done
      /\ v.pc = r.pc /\ v.text = r.text /\ RunShape(v)
  BY <1>1 DEF RunShape
<1>4. \A x \in v.text : InScope(x.label, r.sc)
  BY <1>1, <1>3 DEF ReaderInv
<1> HIDE DEF v
<1> QED
  BY <1>2, <1>3, <1>4, MovesOn

LEMMA InScopeOfFingerprint ==
  ASSUME NEW sc, HasScope(sc), NEW x
  PROVE  LET scope == Fingerprint(sc)
         IN InScope(x.label, sc) <=>
              x.label.tenant = scope[1] /\ x.label.repo \in scope[2] /\ x.label.group \in scope[3]
BY DEF Fingerprint, InScope

(* A hit is in the scope of the key, which is the reader's. *)
LEMMA LookUpKeeps ==
  ASSUME RunsInv, CacheInScope, NEW s \in Client, LookUp(s)
  PROVE  RunsInv'
<1> DEFINE r == run[s]
           key0 == KeyFor(r, Head(r.todo))
<1>1. RunShape(r) /\ ReaderInv(r) /\ run = [t \in Client |-> run[t]]
  BY DEF RunsInv
<1>2. r.pc = "get" /\ Head(r.todo) \in r.view
  BY DEF LookUp, Current
<1>3. PICK found \in Get(r.sc, key0) :
        CASE found.code = "error" -> Fail(s)
          [] found.code = "hit"   -> Done(s, found.value)
          [] found.code = "miss"  -> run' = [run EXCEPT ![s].pc = "generate"]
  BY DEF LookUp, Current
<1> HIDE DEF key0
<1>4. \/ found = [code |-> "error"] \/ found = [code |-> "miss"]
      \/ AuthorizeKey(r.sc, key0) /\ key0 \in DOMAIN redis
         /\ found = [code |-> "hit", value |-> redis[key0]]
  BY <1>3 DEF Get
<1>5. CASE found = [code |-> "error"]
  BY <1>3, <1>5, FailKeeps
<1>6. CASE found = [code |-> "miss"]
  <2> DEFINE v == [r EXCEPT !.pc = "generate"]
  <2>1. run' = [run EXCEPT ![s] = v]
    BY <1>1, <1>3, <1>6
  <2>2. /\ v.sc = r.sc /\ v.h = r.h /\ v.view = r.view /\ v.done = r.done
        /\ v.todo = r.todo /\ v.text = r.text /\ RunShape(v)
    BY <1>1 DEF RunShape
  <2>3. \A x \in v.text : InScope(x.label, r.sc)
    BY <1>1, <2>2 DEF ReaderInv
  <2> HIDE DEF v
  <2> QED
    BY <1>2, <2>1, <2>2, <2>3, MovesOn
<1>7. CASE /\ AuthorizeKey(r.sc, key0) /\ key0 \in DOMAIN redis
           /\ found = [code |-> "hit", value |-> redis[key0]]
  <2>1. Done(s, redis[key0])
    BY <1>3, <1>7
  <2>2. HasScope(r.sc) /\ key0.acl_scope = Fingerprint(r.sc)
    BY <1>7 DEF AuthorizeKey
  <2>3. \A x \in redis[key0] : InScope(x.label, r.sc)
    BY <1>7, <2>2, InScopeOfFingerprint DEF CacheInScope
  <2> QED
    BY <1>2, <2>1, <2>3, DoneKeeps
<1> QED
  BY <1>4, <1>5, <1>6, <1>7

LEMMA AskKeeps ==
  ASSUME RunsInv, NEW s \in Client, AskModel(s)
  PROVE  RunsInv'
<1> DEFINE r == run[s]
           v == [r EXCEPT !.pc = "wait"]
<1>1. RunShape(r) /\ ReaderInv(r) /\ run = [t \in Client |-> run[t]]
  BY DEF RunsInv
<1>2. run' = [run EXCEPT ![s] = v] /\ r.pc = "generate"
  BY <1>1 DEF AskModel
<1>3. /\ v.sc = r.sc /\ v.h = r.h /\ v.view = r.view /\ v.done = r.done
      /\ v.todo = r.todo /\ v.text = r.text /\ RunShape(v)
  BY <1>1 DEF RunShape
<1>4. (\A x \in v.text : InScope(x.label, r.sc)) /\ Head(r.todo) \in r.view
  BY <1>1, <1>2, <1>3 DEF ReaderInv
<1> HIDE DEF v
<1> QED
  BY <1>2, <1>3, <1>4, MovesOn

LEMMA GeneratedKeeps ==
  ASSUME RunsInv, NEW s \in Client, Generated(s)
  PROVE  RunsInv'
<1> DEFINE r == run[s]
           n == Head(r.todo)
           v == [r EXCEPT !.pc = "put", !.text = ModelInput(r, n)]
<1>1. RunShape(r) /\ ReaderInv(r) /\ run = [t \in Client |-> run[t]] /\ r.pc = "wait"
  BY DEF RunsInv, Generated
<1>2. CASE Fail(s)
  BY <1>2, FailKeeps
<1>3. CASE ~Fail(s)
  <2> HIDE DEF n
  <2>0. run' = [run EXCEPT ![s].pc = "put", ![s].text = ModelInput(r, n)]
    BY <1>3 DEF Generated, Current, n
  <2>1. run' = [run EXCEPT ![s] = v]
    BY <1>1, <2>0
  <2>2. /\ v.sc = r.sc /\ v.h = r.h /\ v.view = r.view /\ v.done = r.done
        /\ v.todo = r.todo /\ v.text = ModelInput(r, n) /\ RunShape(v)
    BY <1>1 DEF RunShape
  <2>3. n \in r.view
    BY <1>1 DEF ReaderInv, n
  <2>4. \A x \in v.text : InScope(x.label, r.sc)
    BY <1>1, <2>2, <2>3, ModelInputInScope
  <2> HIDE DEF v
  <2> QED
    BY <1>1, <2>1, <2>2, <2>3, <2>4, MovesOn DEF n
<1> QED
  BY <1>2, <1>3

LEMMA StoreKeeps ==
  ASSUME RunsInv, CacheInScope, NEW s \in Client, Store(s)
  PROVE  RunsInv' /\ CacheInScope'
<1> DEFINE r == run[s]
           key0 == KeyFor(r, Head(r.todo))
<1>1. ReaderInv(r) /\ r.pc = "put" /\ Head(r.todo) \in r.view
      /\ \A x \in r.text : InScope(x.label, r.sc)
  BY DEF RunsInv, ReaderInv, Store
<1>2. PICK result \in {"ok", "error"} :
        /\ Put(r.sc, key0, r.text, result)
        /\ IF result = "ok" THEN Done(s, r.text) ELSE Fail(s)
  BY DEF Store, Current
<1>3. RunsInv'
  BY <1>1, <1>2, DoneKeeps, FailKeeps
<1> HIDE DEF key0
<1>4. CASE UNCHANGED redis
  BY <1>3, <1>4 DEF CacheInScope
<1>5. CASE /\ AuthorizeKey(r.sc, key0)
           /\ redis' = [k \in DOMAIN redis \cup {key0} |-> IF k = key0 THEN r.text ELSE redis[k]]
  <2>1. HasScope(r.sc) /\ key0.acl_scope = Fingerprint(r.sc)
    BY <1>5 DEF AuthorizeKey
  <2>2. \A x \in r.text : LET scope == key0.acl_scope
          IN x.label.tenant = scope[1] /\ x.label.repo \in scope[2] /\ x.label.group \in scope[3]
    BY <1>1, <2>1, InScopeOfFingerprint
  <2> QED
    BY <1>3, <1>5, <2>2 DEF CacheInScope
<1> QED
  BY <1>2, <1>3, <1>4, <1>5 DEF Put

LEMMA ReaderStep ==
  ASSUME RunsInv, CacheInScope, [Next]_vars
  PROVE  RunsInv' /\ CacheInScope'
<1>1. ASSUME NEW s \in Client, Start(s) \/ PassOver(s) \/ LookUp(s) \/ AskModel(s) \/ Generated(s)
      PROVE  RunsInv' /\ CacheInScope'
  <2>1. RunsInv'
    BY <1>1, StartKeeps, PassOverKeeps, LookUpKeeps, AskKeeps, GeneratedKeeps
  <2>2. UNCHANGED redis
    BY <1>1 DEF Start, PassOver, LookUp, AskModel, Generated
  <2> QED
    BY <2>1, <2>2 DEF CacheInScope
<1>2. ASSUME NEW s \in Client, GatewayWorks(s)
      PROVE  RunsInv' /\ CacheInScope'
  BY <1>2 DEF GatewayWorks, summaryVars, RunsInv, CacheInScope
<1>3. ASSUME CacheExpires
      PROVE  RunsInv' /\ CacheInScope'
  BY <1>3 DEF CacheExpires, Expire, summaryVars, RunsInv, CacheInScope
<1>4. ASSUME CircuitCools \/ UNCHANGED vars
      PROVE  RunsInv' /\ CacheInScope'
  BY <1>4 DEF CircuitCools, vars, summaryVars, RunsInv, CacheInScope
<1> QED
  BY <1>1, <1>2, <1>3, <1>4, StoreKeeps DEF Next

(* Whoever summarizes what, in whatever order and version, what is stored  *)
(* under a scope was in that scope when the model read it.                 *)
THEOREM CacheStaysInScope == Spec => []CacheInScope
<1>1. Init => RunsInv /\ CacheInScope
  <2>1. Init => DOMAIN redis = {}
    BY DEF Init, CacheInit
  <2>2. Init => RunsInv
    BY NoRunKeeps DEF Init, RunsInv
  <2> QED
    BY <2>1, <2>2 DEF CacheInScope
<1>2. RunsInv /\ CacheInScope /\ [Next]_vars => RunsInv' /\ CacheInScope'
  BY ReaderStep
<1> QED
  BY <1>1, <1>2, PTL DEF Spec

-----------------------------------------------------------------------------
(* What can be reached.                                                    *)

(* After as many rounds as S has elements nothing is added any more.       *)
LEMMA ReachFixed ==
  ASSUME NEW h, NEW n, NEW S, IsFiniteSet(S)
  PROVE  S \cap Below(h, Reach(h, n, S)) \subseteq Reach(h, n, S)
<1> DEFINE N == Cardinality(S)
           Closed(R) == S \cap Below(h, R) \subseteq R
<1>0. PICK f : Grows(f, N, h, n, S)
  BY ReachIs
<1>1. /\ f \in [0 .. N -> SUBSET S] /\ N \in Nat
      /\ \A k \in 1 .. N : f[k] = f[k - 1] \cup (S \cap Below(h, f[k - 1]))
      /\ Reach(h, n, S) = f[N]
  BY <1>0 DEF Grows
<1>2. \A R \in SUBSET S : /\ IsFiniteSet(R) /\ Cardinality(R) \in Nat
                          /\ Cardinality(R) <= N /\ (Cardinality(R) = N => R = S)
  BY FS_Subset, FS_CardinalityType
<1> HIDE DEF N
<1> DEFINE T == {k \in Nat : k \in 0 .. N => Closed(f[k]) \/ Cardinality(f[k]) >= k}
<1>3. 0 \in T
  BY <1>1, <1>2
<1>4. ASSUME NEW k \in Nat, k \in T PROVE k + 1 \in T
  <2>1. SUFFICES ASSUME k + 1 \in 0 .. N
                 PROVE  Closed(f[k + 1]) \/ Cardinality(f[k + 1]) >= k + 1
    OBVIOUS
  <2>2. k \in 0 .. N /\ k + 1 \in 1 .. N /\ (k + 1) - 1 = k
    BY <1>1, <2>1
  <2>3. f[k + 1] = f[k] \cup (S \cap Below(h, f[k]))
    BY <1>1, <2>2
  <2>4. CASE Closed(f[k])
    <3>1. f[k + 1] = f[k]
      BY <2>3, <2>4
    <3> QED
      BY <2>4, <3>1
  <2>5. CASE ~Closed(f[k])
    <3>1. f[k] \in SUBSET S /\ f[k + 1] \in SUBSET S /\ f[k] \subseteq f[k + 1] /\ f[k] # f[k + 1]
      BY <1>1, <2>1, <2>2, <2>3, <2>5
    <3>2. Cardinality(f[k]) <= Cardinality(f[k + 1]) /\ Cardinality(f[k]) # Cardinality(f[k + 1])
      BY <1>2, <3>1, FS_Subset
    <3>3. Cardinality(f[k]) >= k
      BY <1>4, <2>2, <2>5
    <3> QED
      BY <1>2, <3>1, <3>2, <3>3
  <2> QED
    BY <2>4, <2>5
<1> HIDE DEF T
<1>5. N \in T
  BY <1>1, <1>3, <1>4, NatSetInduction
<1>6. Closed(f[N]) \/ f[N] = S
  <2>1. Closed(f[N]) \/ Cardinality(f[N]) >= N
    BY <1>1, <1>5 DEF T
  <2>2. f[N] \in SUBSET S
    BY <1>1
  <2> QED
    BY <1>1, <1>2, <2>1, <2>2
<1> QED
  BY <1>1, <1>6

LEMMA ReachHas ==
  ASSUME NEW h, NEW S, IsFiniteSet(S), NEW n \in S
  PROVE  n \in Reach(h, n, S)
<1> DEFINE N == Cardinality(S)
<1>0. PICK f : Grows(f, N, h, n, S)
  BY ReachIs
<1>1. /\ N \in Nat /\ f[0] = {n} \cap S /\ Reach(h, n, S) = f[N]
      /\ \A k \in 1 .. N : f[k] = f[k - 1] \cup (S \cap Below(h, f[k - 1]))
  BY <1>0 DEF Grows
<1> HIDE DEF N
<1> DEFINE T == {k \in Nat : k \in 0 .. N => n \in f[k]}
<1>2. 0 \in T
  BY <1>1
<1>3. ASSUME NEW k \in Nat, k \in T PROVE k + 1 \in T
  <2>1. SUFFICES ASSUME k + 1 \in 0 .. N PROVE n \in f[k + 1]
    OBVIOUS
  <2>2. k \in 0 .. N /\ k + 1 \in 1 .. N /\ (k + 1) - 1 = k
    BY <1>1, <2>1
  <2> QED
    BY <1>1, <1>3, <2>2
<1> HIDE DEF T
<1>4. N \in T
  BY <1>1, <1>2, <1>3, NatSetInduction
<1> QED
  BY <1>1, <1>4 DEF T

(* What is reached from what is reached is reached, in a larger set too.   *)
LEMMA ReachFrom ==
  ASSUME NEW h, NEW n, NEW S, IsFiniteSet(S), NEW m \in Reach(h, n, S), NEW T \in SUBSET S
  PROVE  Reach(h, m, T) \subseteq Reach(h, n, S)
<1>1. IsFiniteSet(T) /\ T \cap Below(h, Reach(h, n, S)) \subseteq Reach(h, n, S)
  BY ReachFixed, FS_Subset
<1> QED
  BY <1>1, ReachClosed

LEMMA ReachMonotone ==
  ASSUME NEW h, NEW n, NEW S, IsFiniteSet(S), NEW T \in SUBSET S
  PROVE  Reach(h, n, T) \subseteq Reach(h, n, S)
<1>1. IsFiniteSet(T) /\ T \cap Below(h, Reach(h, n, S)) \subseteq Reach(h, n, S)
  BY ReachFixed, FS_Subset
<1>2. n \in T => n \in Reach(h, n, S)
  BY ReachHas
<1> QED
  BY <1>1, <1>2, ReachClosed

(* A node reaches itself and what its children reach.                      *)
LEMMA ReachThrough ==
  ASSUME NEW h, NEW S, IsFiniteSet(S), NEW n \in S
  PROVE  Reach(h, n, S) = {n} \cup UNION {Reach(h, c, S) : c \in Range(h[n].children) \cap S}
<1> DEFINE G == {n} \cup UNION {Reach(h, c, S) : c \in Range(h[n].children) \cap S}
<1>1. ASSUME NEW m \in G, NEW x \in Range(h[m].children), x \in S
      PROVE  x \in G
  <2>1. CASE m = n
    <3>1. x \in Reach(h, x, S)
      BY <1>1, ReachHas
    <3> QED
      BY <1>1, <2>1, <3>1
  <2>2. CASE m # n
    <3>1. PICK c \in Range(h[n].children) \cap S : m \in Reach(h, c, S)
      BY <2>2
    <3>2. x \in Reach(h, c, S)
      <4>1. S \cap Below(h, Reach(h, c, S)) \subseteq Reach(h, c, S)
        BY ReachFixed
      <4> QED
        BY <1>1, <3>1, <4>1 DEF Below
    <3> QED
      BY <3>1, <3>2
  <2> QED
    BY <2>1, <2>2
<1>2. S \cap Below(h, G) \subseteq G
  <2> HIDE DEF G
  <2> QED
    BY <1>1 DEF Below
<1>3. Reach(h, n, S) \subseteq G
  <2>1. n \in G
    OBVIOUS
  <2> HIDE DEF G
  <2> QED
    BY <1>2, <2>1, ReachClosed
<1>4. n \in Reach(h, n, S)
  BY ReachHas
<1>5. ASSUME NEW c \in Range(h[n].children) \cap S PROVE Reach(h, c, S) \subseteq Reach(h, n, S)
  <2>1. S \cap Below(h, Reach(h, n, S)) \subseteq Reach(h, n, S)
    BY ReachFixed
  <2>2. c \in Reach(h, n, S)
    BY <1>4, <2>1 DEF Below
  <2> QED
    BY <2>2, ReachFrom
<1> QED
  BY <1>3, <1>4, <1>5

-----------------------------------------------------------------------------
(* What a reader may read of a hierarchy.                                  *)

Versions == {q.h : q \in UNION Range(Request)}

(* A hierarchy that passed the checks of summarize, for a reader who may   *)
(* read its root.                                                          *)
Given(sc, h) == h \in Versions /\ Valid(h) /\ Authorized(sc, h, Root)

Whole(sc, h, n) == Reach(h, n, DOMAIN h) \subseteq Projection(sc, h)
Children(h, n) == Range(h[n].children)

LEMMA GivenFacts ==
  ASSUME NEW sc, NEW h, Given(sc, h)
  PROVE  /\ IsFiniteSet(DOMAIN h) /\ IsFiniteSet(Projection(sc, h))
         /\ Projection(sc, h) \in SUBSET DOMAIN h
         /\ Root \in Projection(sc, h)
         /\ Projection(sc, h) \subseteq Reach(h, Root, DOMAIN h)
         /\ \A n \in Reach(h, Root, DOMAIN h) : \A c \in Children(h, n) :
              /\ c \in DOMAIN h /\ h[c].level \in Nat /\ h[n].level \in Nat
              /\ h[c].level < h[n].level
<1> DEFINE A == {n \in DOMAIN h : Authorized(sc, h, n)}
<1>1. PICK q \in UNION Range(Request) : h = q.h
  BY DEF Given, Versions
<1>2. IsFiniteSet(DOMAIN h) /\ \A n \in DOMAIN h : h[n].level \in Nat
  BY <1>1, RequestAssumption
<1>3. IsFiniteSet(A) /\ A \in SUBSET DOMAIN h /\ Root \in A
  BY <1>2, FS_Subset DEF Given, Valid
<1>4. Projection(sc, h) = Reach(h, Root, A)
  BY DEF Projection
<1> HIDE DEF A
<1>5. Reach(h, Root, A) \subseteq A /\ Root \in Reach(h, Root, A)
      /\ Reach(h, Root, A) \subseteq Reach(h, Root, DOMAIN h)
  BY <1>2, <1>3, ReachInside, ReachHas, ReachMonotone
<1>6. IsFiniteSet(Projection(sc, h))
  BY <1>3, <1>4, <1>5, FS_Subset
<1>7. Reach(h, Root, DOMAIN h) \subseteq DOMAIN h
  BY <1>2, ReachInside
<1>8. \A n \in Reach(h, Root, DOMAIN h) : \A c \in Children(h, n) :
        c \in DOMAIN h /\ h[c].level < h[n].level
  BY DEF Given, Valid, Children
<1> QED
  BY <1>2, <1>3, <1>4, <1>5, <1>6, <1>7, <1>8

(* A node may be read whole when its children may.                         *)
LEMMA WholeThrough ==
  ASSUME NEW sc, NEW h, Given(sc, h), NEW n \in Projection(sc, h)
  PROVE  /\ Whole(sc, h, n) <=>
              \A c \in Children(h, n) : c \in Projection(sc, h) /\ Whole(sc, h, c)
         /\ \A c \in Children(h, n) : Reach(h, c, DOMAIN h) \subseteq Reach(h, n, DOMAIN h)
<1>1. /\ IsFiniteSet(DOMAIN h) /\ n \in DOMAIN h /\ Children(h, n) \subseteq DOMAIN h
  BY GivenFacts
<1>2. Reach(h, n, DOMAIN h) =
        {n} \cup UNION {Reach(h, c, DOMAIN h) : c \in Children(h, n) \cap DOMAIN h}
  BY <1>1, ReachThrough DEF Children
<1>3. \A c \in Children(h, n) : c \in Reach(h, c, DOMAIN h)
  BY <1>1, ReachHas
<1> QED
  BY <1>1, <1>2, <1>3 DEF Whole

LEMMA ReadableIs ==
  ASSUME NEW sc, NEW h, NEW n
  PROVE  Readable(sc, h, n) =
           UNION {Reach(h, m, DOMAIN h) : m \in {x \in Reach(h, n, Projection(sc, h)) : Whole(sc, h, x)}}
BY DEF Readable, Whole

LEMMA ReadableInside ==
  ASSUME NEW sc, NEW h, Given(sc, h), NEW n \in Projection(sc, h)
  PROVE  Readable(sc, h, n) \subseteq Reach(h, n, DOMAIN h)
<1>1. IsFiniteSet(DOMAIN h) /\ Projection(sc, h) \in SUBSET DOMAIN h
  BY GivenFacts
<1>2. Reach(h, n, Projection(sc, h)) \subseteq Reach(h, n, DOMAIN h)
  BY <1>1, ReachMonotone
<1>3. \A m \in Reach(h, n, DOMAIN h) : Reach(h, m, DOMAIN h) \subseteq Reach(h, n, DOMAIN h)
  BY <1>1, ReachFrom
<1> QED
  BY <1>2, <1>3, ReadableIs

LEMMA ReadableWhole ==
  ASSUME NEW sc, NEW h, Given(sc, h), NEW n \in Projection(sc, h), Whole(sc, h, n)
  PROVE  Readable(sc, h, n) = Reach(h, n, DOMAIN h)
<1>1. n \in Reach(h, n, Projection(sc, h))
  BY GivenFacts, ReachHas
<1> QED
  BY <1>1, ReadableInside, ReadableIs

LEMMA ReadableParts ==
  ASSUME NEW sc, NEW h, Given(sc, h), NEW n \in Projection(sc, h), ~Whole(sc, h, n)
  PROVE  Readable(sc, h, n) =
           UNION {Readable(sc, h, c) : c \in Children(h, n) \cap Projection(sc, h)}
<1> DEFINE P == Projection(sc, h)
           Wholes(m) == {x \in Reach(h, m, P) : Whole(sc, h, x)}
<1>1. Reach(h, n, P) = {n} \cup UNION {Reach(h, c, P) : c \in Children(h, n) \cap P}
  BY GivenFacts, ReachThrough DEF Children
<1>2. Wholes(n) = UNION {Wholes(c) : c \in Children(h, n) \cap P}
  BY <1>1
<1>3. \A m : Readable(sc, h, m) = UNION {Reach(h, x, DOMAIN h) : x \in Wholes(m)}
  BY ReadableIs
<1> HIDE DEF Wholes
<1> QED
  BY <1>2, <1>3

-----------------------------------------------------------------------------
(* The hash under which a summary is kept tells what it may be made of.    *)

(* A node that is done, after those of its children that the reader sees.  *)
Finished(r, n) ==
  /\ Children(r.h, n) \cap r.view \subseteq DOMAIN r.done
  /\ r.done[n].complete <=> Complete(r, n)
  /\ r.done[n].hash = EffectiveHash(r, n)

Climbs(r) ==
  /\ Given(r.sc, r.h) /\ r.view = Projection(r.sc, r.h)
  /\ DOMAIN r.done \subseteq r.view
  /\ \A n \in DOMAIN r.done : Finished(r, n)

ViewOf(r, c) == <<c, IF c \in DOMAIN r.done THEN <<r.done[c].hash>> ELSE <<>>>>

LEMMA EffectiveHashIs ==
  ASSUME NEW r, NEW n
  PROVE  /\ EffectiveHash(r, n).ast = r.h[n].hash
         /\ Complete(r, n) => DOMAIN EffectiveHash(r, n).view = {}
         /\ ~Complete(r, n) =>
              /\ DOMAIN EffectiveHash(r, n).view = DOMAIN r.h[n].children
              /\ \A i \in DOMAIN r.h[n].children :
                   EffectiveHash(r, n).view[i] = ViewOf(r, r.h[n].children[i])
<1> DEFINE v == [i \in DOMAIN r.h[n].children |-> ViewOf(r, r.h[n].children[i])]
<1>1. EffectiveHash(r, n) = [ast |-> r.h[n].hash, view |-> IF Complete(r, n) THEN <<>> ELSE v]
  BY DEF EffectiveHash, ViewOf
<1>2. DOMAIN v = DOMAIN r.h[n].children
      /\ \A i \in DOMAIN r.h[n].children : v[i] = ViewOf(r, r.h[n].children[i])
  OBVIOUS
<1> HIDE DEF v
<1> QED
  BY <1>1, <1>2

LEMMA CompleteIfChildren ==
  ASSUME NEW r, Climbs(r), NEW n \in r.view, Children(r.h, n) \cap r.view \subseteq DOMAIN r.done,
         \A c \in Children(r.h, n) \cap DOMAIN r.done : r.done[c].complete <=> Whole(r.sc, r.h, c)
  PROVE  Complete(r, n) <=> Whole(r.sc, r.h, n)
BY WholeThrough DEF Climbs, Complete, Children

(* Complete is what may be read whole. *)
LEMMA DoneIsWhole ==
  ASSUME NEW r, Climbs(r)
  PROVE  \A n \in DOMAIN r.done : r.done[n].complete <=> Whole(r.sc, r.h, n)
<1> DEFINE Right(n) == r.done[n].complete <=> Whole(r.sc, r.h, n)
           T == {k \in Nat : \A n \in DOMAIN r.done : r.h[n].level < k => Right(n)}
<1>1. \A n \in DOMAIN r.done : /\ n \in r.view /\ Finished(r, n)
                               /\ r.h[n].level \in Nat
                               /\ \A c \in Children(r.h, n) :
                                    r.h[c].level \in Nat /\ r.h[c].level < r.h[n].level
  <2>1. ASSUME NEW n \in DOMAIN r.done PROVE r.h[n].level \in Nat
    <3>1. r.h \in Versions /\ n \in DOMAIN r.h
      BY GivenFacts DEF Climbs, Given
    <3> QED
      BY <3>1, RequestAssumption DEF Versions
  <2> QED
    BY <2>1, GivenFacts DEF Climbs
<1>2. 0 \in T
  BY <1>1
<1>3. ASSUME NEW k \in Nat, k \in T PROVE k + 1 \in T
  <2>1. SUFFICES ASSUME NEW n \in DOMAIN r.done, r.h[n].level < k + 1 PROVE Right(n)
    OBVIOUS
  <2>2. \A c \in Children(r.h, n) \cap DOMAIN r.done : Right(c)
    <3>1. \A c \in Children(r.h, n) : r.h[c].level < k
      BY <1>1, <2>1
    <3> QED
      BY <1>3, <3>1
  <2>3. Complete(r, n) <=> Whole(r.sc, r.h, n)
    BY <1>1, <2>2, CompleteIfChildren DEF Finished
  <2> QED
    BY <1>1, <2>3 DEF Finished
<1> HIDE DEF T
<1>4. \A k \in Nat : k \in T
  BY <1>2, <1>3, NatSetInduction
<1>5. ASSUME NEW n \in DOMAIN r.done PROVE Right(n)
  <2>1. r.h[n].level + 1 \in T /\ r.h[n].level < r.h[n].level + 1
    BY <1>1, <1>4
  <2> QED
    BY <2>1 DEF T
<1> QED
  BY <1>5

LEMMA DoneHash ==
  ASSUME NEW r, Climbs(r), NEW n \in DOMAIN r.done
  PROVE  /\ r.done[n].complete <=> Complete(r, n)
         /\ r.done[n].hash.ast = r.h[n].hash
         /\ r.done[n].complete => DOMAIN r.done[n].hash.view = {}
         /\ ~r.done[n].complete =>
              /\ DOMAIN r.done[n].hash.view = DOMAIN r.h[n].children
              /\ \A i \in DOMAIN r.h[n].children :
                   r.done[n].hash.view[i] = ViewOf(r, r.h[n].children[i])
<1>1. r.done[n].hash = EffectiveHash(r, n)
  BY DEF Climbs, Finished
<1>2. r.done[n].complete <=> Complete(r, n)
  BY DEF Climbs, Finished
<1> DEFINE e == EffectiveHash(r, n)
<1>3. /\ e.ast = r.h[n].hash
      /\ Complete(r, n) => DOMAIN e.view = {}
      /\ ~Complete(r, n) => /\ DOMAIN e.view = DOMAIN r.h[n].children
                            /\ \A i \in DOMAIN r.h[n].children :
                                 e.view[i] = ViewOf(r, r.h[n].children[i])
  BY EffectiveHashIs
<1> HIDE DEF e
<1>4. r.done[n].hash = e
  BY <1>1 DEF e
<1> QED
  BY <1>2, <1>3, <1>4

MayRead(r, n) == Hashes(r.h, Readable(r.sc, r.h, n))

LEMMA SameWhole ==
  ASSUME NEW r, Climbs(r), NEW n \in DOMAIN r.done, r.done[n].complete,
         NEW q, Climbs(q), NEW m \in DOMAIN q.done, q.done[m].complete,
         r.done[n].hash = q.done[m].hash
  PROVE  MayRead(r, n) = MayRead(q, m)
<1>1. Readable(r.sc, r.h, n) = Reach(r.h, n, DOMAIN r.h) /\ n \in DOMAIN r.h
  BY DoneIsWhole, ReadableWhole, GivenFacts DEF Climbs
<1>2. Readable(q.sc, q.h, m) = Reach(q.h, m, DOMAIN q.h) /\ m \in DOMAIN q.h
  BY DoneIsWhole, ReadableWhole, GivenFacts DEF Climbs
<1>3. r.h[n].hash = q.h[m].hash
  BY DoneHash
<1>4. /\ r.h \in Versions /\ Valid(r.h) /\ q.h \in Versions /\ Valid(q.h)
  BY DEF Climbs, Given
<1>5. Hashes(r.h, Reach(r.h, n, DOMAIN r.h)) = Hashes(q.h, Reach(q.h, m, DOMAIN q.h))
  BY <1>1, <1>2, <1>3, <1>4, MerkleAssumption DEF Versions
<1> QED
  BY <1>1, <1>2, <1>5 DEF MayRead

(* Two restricted views of one hash have the same children, and the same   *)
(* of them are seen, under the same hashes.                                *)
LEMMA SameChildren ==
  ASSUME NEW r, Climbs(r), NEW n \in DOMAIN r.done, ~r.done[n].complete,
         NEW q, Climbs(q), NEW m \in DOMAIN q.done, ~q.done[m].complete,
         r.done[n].hash = q.done[m].hash
  PROVE  /\ Children(r.h, n) \cap r.view = Children(q.h, m) \cap q.view
         /\ \A c \in Children(r.h, n) \cap r.view :
              /\ c \in DOMAIN r.done /\ c \in DOMAIN q.done
              /\ r.done[c].hash = q.done[c].hash
<1> DEFINE a == r.h[n].children
           b == q.h[m].children
<1>1. /\ DOMAIN r.done[n].hash.view = DOMAIN a
      /\ \A i \in DOMAIN a : r.done[n].hash.view[i] = ViewOf(r, a[i])
      /\ DOMAIN q.done[m].hash.view = DOMAIN b
      /\ \A i \in DOMAIN b : q.done[m].hash.view[i] = ViewOf(q, b[i])
  BY DoneHash
<1>2. DOMAIN a = DOMAIN b /\ \A i \in DOMAIN a : ViewOf(r, a[i]) = ViewOf(q, b[i])
  BY <1>1
<1>3. \A i \in DOMAIN a : /\ a[i] = b[i]
                          /\ a[i] \in DOMAIN r.done <=> a[i] \in DOMAIN q.done
                          /\ a[i] \in DOMAIN r.done => r.done[a[i]].hash = q.done[a[i]].hash
  BY <1>2 DEF ViewOf
<1>4. Children(r.h, n) = {a[i] : i \in DOMAIN a} /\ Children(q.h, m) = {b[i] : i \in DOMAIN b}
  BY DEF Children, Range
<1>5. Children(r.h, n) = Children(q.h, m)
  BY <1>2, <1>3, <1>4
<1>6. /\ Children(r.h, n) \cap r.view = Children(r.h, n) \cap DOMAIN r.done
      /\ Children(q.h, m) \cap q.view = Children(q.h, m) \cap DOMAIN q.done
  BY DEF Climbs, Finished
<1>7. \A c \in Children(r.h, n) : /\ c \in DOMAIN r.done <=> c \in DOMAIN q.done
                                  /\ c \in DOMAIN r.done => r.done[c].hash = q.done[c].hash
  BY <1>3, <1>4
<1>8. Children(r.h, n) \cap DOMAIN r.done = Children(q.h, m) \cap DOMAIN q.done
  BY <1>5, <1>7
<1>9. \A c \in Children(r.h, n) \cap DOMAIN r.done :
        c \in DOMAIN q.done /\ r.done[c].hash = q.done[c].hash
  BY <1>7
<1> HIDE DEF a, b
<1> QED
  BY <1>6, <1>8, <1>9, Zenon

LEMMA SameCompleteness ==
  ASSUME NEW r, Climbs(r), NEW n \in DOMAIN r.done, r.done[n].complete,
         NEW q, Climbs(q), NEW m \in DOMAIN q.done, r.done[n].hash = q.done[m].hash
  PROVE  q.done[m].complete
<1>1. SUFFICES ASSUME ~q.done[m].complete PROVE FALSE
  OBVIOUS
<1> DEFINE b == q.h[m].children
<1>3. DOMAIN b = {}
  BY <1>1, DoneHash
<1>4. Complete(q, m)
  BY <1>3 DEF Complete, Range
<1> QED
  BY <1>1, <1>4, DoneHash

(* Two summaries kept under one hash are made of the same sources. *)
LEMMA HashTells ==
  ASSUME NEW r, Climbs(r), NEW n \in DOMAIN r.done, NEW q, Climbs(q), NEW m \in DOMAIN q.done,
         r.done[n].hash = q.done[m].hash
  PROVE  MayRead(r, n) = MayRead(q, m)
<1> DEFINE Same(x, y) == r.done[x].hash = q.done[y].hash => MayRead(r, x) = MayRead(q, y)
           T == {k \in Nat : \A x \in DOMAIN r.done : \A y \in DOMAIN q.done :
                   r.h[x].level < k => Same(x, y)}
<1>1. \A x \in DOMAIN r.done : /\ r.h[x].level \in Nat
                               /\ \A c \in Children(r.h, x) :
                                    r.h[c].level \in Nat /\ r.h[c].level < r.h[x].level
  <2>1. ASSUME NEW x \in DOMAIN r.done PROVE r.h[x].level \in Nat
    <3>1. r.h \in Versions /\ x \in DOMAIN r.h
      BY GivenFacts DEF Climbs, Given
    <3> QED
      BY <3>1, RequestAssumption DEF Versions
  <2> QED
    BY <2>1, GivenFacts DEF Climbs
<1>2. 0 \in T
  BY <1>1
<1>3. ASSUME NEW k \in Nat, k \in T PROVE k + 1 \in T
  <2>1. SUFFICES ASSUME NEW x \in DOMAIN r.done, NEW y \in DOMAIN q.done, r.h[x].level < k + 1,
                        r.done[x].hash = q.done[y].hash
                 PROVE  MayRead(r, x) = MayRead(q, y)
    OBVIOUS
  <2>2. r.done[x].complete <=> q.done[y].complete
    BY <2>1, SameCompleteness DEF Climbs, Finished
  <2>3. CASE r.done[x].complete
    BY <2>1, <2>2, <2>3, SameWhole
  <2>4. CASE ~r.done[x].complete
    <3> DEFINE K == Children(r.h, x) \cap r.view
    <3>1. /\ K = Children(q.h, y) \cap q.view
          /\ \A c \in K : /\ c \in DOMAIN r.done /\ c \in DOMAIN q.done
                          /\ r.done[c].hash = q.done[c].hash
      BY <2>1, <2>2, <2>4, SameChildren
    <3>2. \A c \in K : MayRead(r, c) = MayRead(q, c)
      <4>1. \A c \in K : r.h[c].level < k
        BY <1>1, <2>1
      <4> QED
        BY <1>3, <3>1, <4>1
    <3>3. /\ Readable(r.sc, r.h, x) = UNION {Readable(r.sc, r.h, c) : c \in K}
          /\ Readable(q.sc, q.h, y) = UNION {Readable(q.sc, q.h, c) : c \in K}
      BY <2>1, <2>2, <2>4, <3>1, DoneIsWhole, ReadableParts DEF Climbs
    <3> HIDE DEF K
    <3>4. /\ MayRead(r, x) = UNION {MayRead(r, c) : c \in K}
          /\ MayRead(q, y) = UNION {MayRead(q, c) : c \in K}
      BY <3>3 DEF MayRead, Hashes
    <3> QED
      BY <3>2, <3>4
  <2> QED
    BY <2>3, <2>4
<1> HIDE DEF T
<1>4. \A k \in Nat : k \in T
  BY <1>2, <1>3, NatSetInduction
<1>5. r.h[n].level + 1 \in T /\ r.h[n].level < r.h[n].level + 1
  BY <1>1, <1>4
<1> QED
  BY <1>5 DEF T

-----------------------------------------------------------------------------
(* One reader: what is done, what is ahead.                                *)

(* What is still to do is each node once, after its children, to the root. *)
Ahead(r) ==
  /\ r.todo \in Seq(DOMAIN r.h)
  /\ r.view \subseteq DOMAIN r.done \cup {r.todo[i] : i \in 1 .. Len(r.todo)}
  /\ \A i \in 1 .. Len(r.todo) : r.todo[i] \notin DOMAIN r.done
  /\ \A i, j \in 1 .. Len(r.todo) : r.todo[i] = r.todo[j] => i = j
  /\ \A i \in 1 .. Len(r.todo) : \A c \in Children(r.h, r.todo[i]) \cap r.view :
       c \in DOMAIN r.done \/ \E j \in 1 .. Len(r.todo) : j < i /\ c = r.todo[j]
  /\ r.todo # <<>> => r.todo[Len(r.todo)] = Root

Sources(text) == {x.hash : x \in text}
TellsExactly(r) == \A n \in DOMAIN r.done : Sources(r.done[n].text) = MayRead(r, n)

ExactInv(r) ==
  r.pc # "idle" =>
    /\ Climbs(r) /\ TellsExactly(r) /\ Ahead(r)
    /\ r.pc = "returned" <=> r.todo = <<>>
    /\ r.pc = "put" => Sources(r.text) = MayRead(r, Head(r.todo))

LEMMA TailFacts ==
  ASSUME NEW X, NEW s \in Seq(X), s # <<>>
  PROVE  /\ Head(s) = s[1] /\ 1 \in 1 .. Len(s) /\ Len(s) \in Nat
         /\ Tail(s) \in Seq(X) /\ Len(Tail(s)) = Len(s) - 1
         /\ \A i \in 1 .. Len(s) - 1 : Tail(s)[i] = s[i + 1] /\ i + 1 \in 1 .. Len(s)
         /\ \A i \in 1 .. Len(s) : i # 1 => i - 1 \in 1 .. Len(s) - 1 /\ Tail(s)[i - 1] = s[i]
         /\ s[1] \in X /\ (Tail(s) = <<>> <=> Len(s) = 1)
<1>1. /\ Head(s) = s[1] /\ 1 \in 1 .. Len(s) /\ Len(s) \in Nat /\ s[1] \in X
      /\ Tail(s) \in Seq(X) /\ Len(Tail(s)) = Len(s) - 1
      /\ \A i \in 1 .. Len(s) - 1 : Tail(s)[i] = s[i + 1] /\ i + 1 \in 1 .. Len(s)
      /\ \A i \in 1 .. Len(s) : i # 1 => i - 1 \in 1 .. Len(s) - 1 /\ Tail(s)[i - 1] = s[i]
  OBVIOUS
<1>2. \A t \in Seq(X) : t = <<>> <=> Len(t) = 0
  OBVIOUS
<1> QED
  BY <1>1, <1>2

LEMMA AheadNext ==
  ASSUME NEW r, Ahead(r), r.todo # <<>>,
         NEW v, v.h = r.h, v.view = r.view, v.todo = Tail(r.todo),
         \/ Head(r.todo) \notin r.view /\ DOMAIN v.done = DOMAIN r.done
         \/ DOMAIN v.done = DOMAIN r.done \cup {Head(r.todo)}
  PROVE  Ahead(v)
<1> DEFINE s == r.todo
           t == Tail(r.todo)
           n == Len(s)
           D == DOMAIN v.done
<1>1. /\ s \in Seq(DOMAIN r.h)
      /\ r.view \subseteq DOMAIN r.done \cup {s[i] : i \in 1 .. n}
      /\ \A i \in 1 .. n : s[i] \notin DOMAIN r.done
      /\ \A i, j \in 1 .. n : s[i] = s[j] => i = j
      /\ \A i \in 1 .. n : \A c \in Children(r.h, s[i]) \cap r.view :
           c \in DOMAIN r.done \/ \E j \in 1 .. n : j < i /\ c = s[j]
      /\ s # <<>> => s[n] = Root
  BY DEF Ahead
<1>2. /\ Head(s) = s[1] /\ 1 \in 1 .. n /\ n \in Nat
      /\ t \in Seq(DOMAIN r.h) /\ Len(t) = n - 1
      /\ \A i \in 1 .. n - 1 : t[i] = s[i + 1] /\ i + 1 \in 1 .. n
      /\ \A i \in 1 .. n : i # 1 => i - 1 \in 1 .. n - 1 /\ t[i - 1] = s[i]
  BY <1>1, TailFacts
<1>3. /\ DOMAIN r.done \subseteq D /\ D \subseteq DOMAIN r.done \cup {s[1]}
      /\ s[1] \in r.view => s[1] \in D
  BY <1>2
<1> HIDE DEF s, t, n, D
<1>4. ASSUME NEW c \in r.view PROVE c \in D \/ \E j \in 1 .. n - 1 : c = t[j]
  <2>1. CASE c \in DOMAIN r.done
    BY <1>3, <2>1
  <2>2. CASE c \notin DOMAIN r.done
    <3>1. PICK i \in 1 .. n : c = s[i]
      BY <1>1, <2>2
    <3>2. CASE i = 1
      BY <1>3, <3>1, <3>2
    <3>3. CASE i # 1
      BY <1>2, <3>1, <3>3
    <3> QED
      BY <3>2, <3>3
  <2> QED
    BY <2>1, <2>2
<1>5. \A i \in 1 .. n - 1 : t[i] \notin D
  <2>1. ASSUME NEW i \in 1 .. n - 1 PROVE t[i] \notin D
    <3>1. t[i] = s[i + 1] /\ i + 1 \in 1 .. n /\ i + 1 # 1
      BY <1>2
    <3>2. s[i + 1] # s[1]
      BY <1>1, <1>2, <3>1
    <3> QED
      BY <1>1, <1>3, <3>1, <3>2
  <2> QED
    BY <2>1
<1>6. \A i, j \in 1 .. n - 1 : t[i] = t[j] => i = j
  <2>1. ASSUME NEW i \in 1 .. n - 1, NEW j \in 1 .. n - 1, t[i] = t[j] PROVE i = j
    <3>1. s[i + 1] = s[j + 1] /\ i + 1 \in 1 .. n /\ j + 1 \in 1 .. n
      BY <1>2, <2>1
    <3>2. i + 1 = j + 1
      BY <1>1, <3>1
    <3> QED
      BY <3>2
  <2> QED
    BY <2>1
<1>7. ASSUME NEW i \in 1 .. n - 1, NEW c \in Children(r.h, t[i]) \cap r.view
      PROVE  c \in D \/ \E j \in 1 .. n - 1 : j < i /\ c = t[j]
  <2>1. t[i] = s[i + 1] /\ i + 1 \in 1 .. n
    BY <1>2
  <2>2. c \in DOMAIN r.done \/ \E j \in 1 .. n : j < i + 1 /\ c = s[j]
    BY <1>1, <1>7, <2>1
  <2>3. CASE c \in DOMAIN r.done \/ c = s[1]
    BY <1>3, <1>7, <2>3
  <2>4. CASE \E j \in 1 .. n : j # 1 /\ j < i + 1 /\ c = s[j]
    <3>1. PICK j \in 1 .. n : j # 1 /\ j < i + 1 /\ c = s[j]
      BY <2>4
    <3>2. j - 1 \in 1 .. n - 1 /\ t[j - 1] = c /\ j - 1 < i
      BY <1>2, <3>1
    <3> QED
      BY <3>2
  <2> QED
    BY <2>2, <2>3, <2>4
<1>8. t # <<>> => t[n - 1] = Root
  <2>1. SUFFICES ASSUME t # <<>> PROVE t[n - 1] = Root
    OBVIOUS
  <2>2. n - 1 \in 1 .. n - 1
    BY <1>2, <2>1
  <2>3. s # <<>>
    BY DEF s
  <2> QED
    BY <1>1, <1>2, <2>2, <2>3
<1>9. Len(t) = n - 1
  BY <1>2
<1>10. t \in Seq(DOMAIN v.h)
  BY <1>2
<1>11. v.view \subseteq D \cup {t[i] : i \in 1 .. Len(t)}
  BY <1>4, <1>9
<1>12. \A i \in 1 .. Len(t) : \A c \in Children(v.h, t[i]) \cap v.view :
         c \in D \/ \E j \in 1 .. Len(t) : j < i /\ c = t[j]
  BY <1>7, <1>9
<1>13. /\ \A i \in 1 .. Len(t) : t[i] \notin D
       /\ \A i, j \in 1 .. Len(t) : t[i] = t[j] => i = j
       /\ t # <<>> => t[Len(t)] = Root
  BY <1>5, <1>6, <1>8, <1>9
<1>14. v.todo = t /\ DOMAIN v.done = D
  BY DEF t, D
<1>15. v.todo \in Seq(DOMAIN v.h)
  BY <1>10, <1>14
<1>16. v.view \subseteq DOMAIN v.done \cup {v.todo[i] : i \in 1 .. Len(v.todo)}
  BY <1>11, <1>14
<1>17. \A i \in 1 .. Len(v.todo) : \A c \in Children(v.h, v.todo[i]) \cap v.view :
         c \in DOMAIN v.done \/ \E j \in 1 .. Len(v.todo) : j < i /\ c = v.todo[j]
  <2>1. SUFFICES ASSUME NEW i \in 1 .. Len(v.todo), NEW c \in Children(v.h, v.todo[i]) \cap v.view
                 PROVE  c \in DOMAIN v.done \/ \E j \in 1 .. Len(v.todo) : j < i /\ c = v.todo[j]
    OBVIOUS
  <2>2. i \in 1 .. Len(t) /\ c \in Children(v.h, t[i]) \cap v.view
    BY <1>14
  <2> QED
    BY <1>12, <1>14, <2>2
<1>18. /\ \A i \in 1 .. Len(v.todo) : v.todo[i] \notin DOMAIN v.done
       /\ \A i, j \in 1 .. Len(v.todo) : v.todo[i] = v.todo[j] => i = j
       /\ v.todo # <<>> => v.todo[Len(v.todo)] = Root
  BY <1>13, <1>14
<1> QED
  BY <1>15, <1>16, <1>17, <1>18, Zenon DEF Ahead

(* A node that is no child of m changes nothing for m when it is done. *)
LEMMA OthersKept ==
  ASSUME NEW r, NEW v, NEW n, NEW m, n \notin Children(r.h, m),
         v.h = r.h, DOMAIN v.done = DOMAIN r.done \cup {n},
         \A c \in DOMAIN r.done : c # n => v.done[c] = r.done[c]
  PROVE  /\ Complete(v, m) <=> Complete(r, m)
         /\ EffectiveHash(v, m) = EffectiveHash(r, m)
<1> DEFINE k == r.h[m].children
<1>1. \A c \in Children(r.h, m) : /\ c \in DOMAIN v.done <=> c \in DOMAIN r.done
                                  /\ c \in DOMAIN r.done => v.done[c] = r.done[c]
  OBVIOUS
<1>2. Complete(v, m) <=> Complete(r, m)
  BY <1>1 DEF Complete, Children
<1>3. \A i \in DOMAIN k : k[i] \in Children(r.h, m)
  BY DEF Children, Range
<1>4. \A i \in DOMAIN k : ViewOf(v, k[i]) = ViewOf(r, k[i])
  BY <1>1, <1>3 DEF ViewOf
<1>5. [i \in DOMAIN k |-> ViewOf(v, k[i])] = [i \in DOMAIN k |-> ViewOf(r, k[i])]
  BY <1>4
<1>6. /\ EffectiveHash(v, m) = [ast |-> r.h[m].hash,
           view |-> IF Complete(v, m) THEN <<>> ELSE [i \in DOMAIN k |-> ViewOf(v, k[i])]]
      /\ EffectiveHash(r, m) = [ast |-> r.h[m].hash,
           view |-> IF Complete(r, m) THEN <<>> ELSE [i \in DOMAIN k |-> ViewOf(r, k[i])]]
  BY DEF EffectiveHash, ViewOf
<1> QED
  BY <1>2, <1>5, <1>6

(* The next node is done. *)
LEMMA ClimbsOn ==
  ASSUME NEW r, Climbs(r), Ahead(r), r.todo # <<>>, Head(r.todo) \in r.view,
         NEW v, v.sc = r.sc, v.h = r.h, v.view = r.view,
         DOMAIN v.done = DOMAIN r.done \cup {Head(r.todo)},
         \A m \in DOMAIN r.done : v.done[m] = r.done[m],
         v.done[Head(r.todo)].complete <=> Complete(r, Head(r.todo)),
         v.done[Head(r.todo)].hash = EffectiveHash(r, Head(r.todo))
  PROVE  Climbs(v)
<1> DEFINE n == Head(r.todo)
<1>1. n = r.todo[1] /\ 1 \in 1 .. Len(r.todo) /\ Len(r.todo) \in Nat
  BY TailFacts DEF Ahead
<1>2. n \notin DOMAIN r.done /\ Children(r.h, n) \cap r.view \subseteq DOMAIN r.done
  BY <1>1 DEF Ahead
<1>3. n \notin Children(r.h, n)
  BY GivenFacts DEF Climbs
<1>0. /\ v.done[n].complete <=> Complete(r, n)
      /\ v.done[n].hash = EffectiveHash(r, n)
      /\ n \in r.view
      /\ DOMAIN v.done = DOMAIN r.done \cup {n}
  OBVIOUS
<1> HIDE DEF n
<1>00. \A c \in DOMAIN r.done : c # n => v.done[c] = r.done[c]
  OBVIOUS
<1>4. Finished(v, n)
  BY <1>0, <1>00, <1>2, <1>3, OthersKept DEF Finished
<1>5. ASSUME NEW m \in DOMAIN r.done PROVE Finished(v, m)
  <2>1. Finished(r, m) /\ m # n
    BY <1>2 DEF Climbs
  <2>2. n \notin Children(r.h, m)
    BY <1>0, <1>2, <2>1 DEF Finished
  <2>3. /\ Complete(v, m) <=> Complete(r, m)
        /\ EffectiveHash(v, m) = EffectiveHash(r, m)
    BY <1>0, <1>00, <2>2, OthersKept
  <2> QED
    BY <1>0, <2>1, <2>3 DEF Finished
<1> QED
  BY <1>0, <1>4, <1>5 DEF Climbs

(* The first of a reader's nodes to do: its children are done.             *)
LEMMA HeadFacts ==
  ASSUME NEW r, Ahead(r), r.todo # <<>>
  PROVE  /\ Head(r.todo) \in DOMAIN r.h /\ Head(r.todo) \notin DOMAIN r.done
         /\ Children(r.h, Head(r.todo)) \cap r.view \subseteq DOMAIN r.done
         /\ Len(r.todo) \in Nat /\ (Tail(r.todo) = <<>> <=> Len(r.todo) = 1)
         /\ Head(r.todo) # Root => Tail(r.todo) # <<>>
<1> DEFINE t == r.todo
<1>1. t \in Seq(DOMAIN r.h) /\ t # <<>>
  BY DEF Ahead
<1>2. /\ Head(t) = t[1] /\ 1 \in 1 .. Len(t) /\ Len(t) \in Nat
      /\ Tail(t) \in Seq(DOMAIN r.h) /\ Len(Tail(t)) = Len(t) - 1
      /\ t[1] \in DOMAIN r.h /\ (Tail(t) = <<>> <=> Len(t) = 1)
  <2> HIDE DEF t
  <2> QED
    BY <1>1, TailFacts
<1>3. (Tail(t) = <<>> <=> Len(t) = 1) /\ Head(t) \in DOMAIN r.h
  BY <1>2
<1>4. t[Len(t)] = Root
  BY <1>1 DEF Ahead
<1>0. /\ \A i \in 1 .. Len(t) : t[i] \notin DOMAIN r.done
      /\ \A i \in 1 .. Len(t) : \A c \in Children(r.h, t[i]) \cap r.view :
           c \in DOMAIN r.done \/ \E j \in 1 .. Len(t) : j < i /\ c = t[j]
  BY DEF Ahead
<1> HIDE DEF t
<1>5. t[1] \notin DOMAIN r.done
  BY <1>0, <1>2
<1>6. Children(r.h, t[1]) \cap r.view \subseteq DOMAIN r.done
  BY <1>0, <1>2
<1>7. Head(t) # Root => Tail(t) # <<>>
  BY <1>2, <1>3, <1>4
<1> QED
  BY <1>2, <1>3, <1>5, <1>6, <1>7 DEF t

(* What the model is given is what the reader may read. *)
LEMMA ModelInputExact ==
  ASSUME NEW r, Climbs(r), Ahead(r), TellsExactly(r), r.todo # <<>>, Head(r.todo) \in r.view
  PROVE  Sources(ModelInput(r, Head(r.todo))) = MayRead(r, Head(r.todo))
<1> DEFINE n == Head(r.todo)
           K == Children(r.h, n) \cap DOMAIN r.done
           B == UNION {r.done[c].text : c \in K}
<1>1. n \in r.view /\ Children(r.h, n) \cap r.view \subseteq DOMAIN r.done
  BY HeadFacts
<1> HIDE DEF n
<1>2. Given(r.sc, r.h) /\ r.view = Projection(r.sc, r.h) /\ K = Children(r.h, n) \cap r.view
  BY <1>1 DEF Climbs
<1>3. Complete(r, n) <=> Whole(r.sc, r.h, n)
  BY <1>1, DoneIsWhole, CompleteIfChildren
<1>4. Sources(B) = UNION {MayRead(r, c) : c \in K}
  <2>1. \A c \in K : Sources(r.done[c].text) = MayRead(r, c)
    BY DEF TellsExactly
  <2>2. Sources(B) = UNION {Sources(r.done[c].text) : c \in K}
    BY DEF Sources
  <2> HIDE DEF B, K
  <2> QED
    BY <2>1, <2>2
<1>5. ModelInput(r, n) = (IF Complete(r, n) THEN Source(r.h, n) ELSE {}) \cup B
  BY DEF ModelInput, Visible, Children
<1>6. CASE Complete(r, n)
  <2>1. MayRead(r, n) = Hashes(r.h, Reach(r.h, n, DOMAIN r.h))
    BY <1>1, <1>2, <1>3, <1>6, ReadableWhole DEF MayRead
  <2>2. Sources(Source(r.h, n)) = Hashes(r.h, Reach(r.h, n, DOMAIN r.h))
    <3> DEFINE R == Reach(r.h, n, DOMAIN r.h)
               S == Source(r.h, n)
    <3>1. S = {[hash |-> r.h[m].hash, label |-> r.h[m].label] : m \in R}
      BY DEF Source
    <3> HIDE DEF R, S
    <3>2. \A x \in S : \E m \in R : x.hash = r.h[m].hash
      BY <3>1
    <3>3. \A m \in R : \E x \in S : x.hash = r.h[m].hash
      <4>1. ASSUME NEW m \in R PROVE \E x \in S : x.hash = r.h[m].hash
        <5>1. [hash |-> r.h[m].hash, label |-> r.h[m].label] \in S
          BY <3>1
        <5> QED
          BY <5>1
      <4> QED
        BY <4>1
    <3>4. Sources(S) = Hashes(r.h, R)
      BY <3>2, <3>3 DEF Sources, Hashes
    <3> QED
      BY <3>4 DEF R, S
  <2>3. ASSUME NEW c \in K PROVE MayRead(r, c) \subseteq MayRead(r, n)
    <3>1. Readable(r.sc, r.h, c) \subseteq Reach(r.h, c, DOMAIN r.h)
      BY <1>2, ReadableInside
    <3>2. Reach(r.h, c, DOMAIN r.h) \subseteq Reach(r.h, n, DOMAIN r.h)
      BY <1>1, <1>2, WholeThrough
    <3> QED
      BY <2>1, <3>1, <3>2 DEF MayRead, Hashes
  <2>4. Sources(ModelInput(r, n)) = Sources(Source(r.h, n)) \cup Sources(B)
    BY <1>5, <1>6 DEF Sources
  <2> HIDE DEF B, K
  <2> QED
    BY <1>4, <2>1, <2>2, <2>3, <2>4 DEF n
<1>7. CASE ~Complete(r, n)
  <2>1. Readable(r.sc, r.h, n) = UNION {Readable(r.sc, r.h, c) : c \in K}
    BY <1>1, <1>2, <1>3, <1>7, ReadableParts
  <2> HIDE DEF B, K
  <2>2. MayRead(r, n) = UNION {MayRead(r, c) : c \in K}
    BY <2>1 DEF MayRead, Hashes
  <2> QED
    BY <1>4, <1>5, <1>7, <2>2 DEF n
<1> QED
  BY <1>6, <1>7

(* What is kept under a hash is what the reader of some node with that     *)
(* hash may read.                                                          *)
Told(hash, text) ==
  \E q : /\ Climbs(q)
         /\ \E m \in DOMAIN q.done : q.done[m].hash = hash /\ Sources(text) = MayRead(q, m)

(* The hash of the next node is one of them. *)
LEMMA NextTold ==
  ASSUME NEW r, Climbs(r), Ahead(r), r.todo # <<>>, Head(r.todo) \in r.view
  PROVE  \A text : Told(EffectiveHash(r, Head(r.todo)), text) <=>
                     Sources(text) = MayRead(r, Head(r.todo))
<1> DEFINE n == Head(r.todo)
           node == [hash |-> EffectiveHash(r, n), complete |-> Complete(r, n)]
           d == [m \in DOMAIN r.done \cup {n} |-> IF m = n THEN node ELSE r.done[m]]
           v == [sc |-> r.sc, h |-> r.h, view |-> r.view, done |-> d]
<1>1. n \notin DOMAIN r.done
  BY HeadFacts
<1>2. /\ node.hash = EffectiveHash(r, n)
      /\ node.complete <=> Complete(r, n)
      /\ DOMAIN d = DOMAIN r.done \cup {n} /\ d[n] = node
      /\ \A m \in DOMAIN r.done : d[m] = r.done[m]
      /\ v.sc = r.sc /\ v.h = r.h /\ v.view = r.view /\ v.done = d
  <2> HIDE DEF n
  <2> QED
    BY <1>1
<1> HIDE DEF v, d, node
<1>3. Climbs(v)
  <2>1. /\ DOMAIN v.done = DOMAIN r.done \cup {Head(r.todo)}
        /\ \A m \in DOMAIN r.done : v.done[m] = r.done[m]
        /\ v.done[Head(r.todo)].complete <=> Complete(r, Head(r.todo))
        /\ v.done[Head(r.todo)].hash = EffectiveHash(r, Head(r.todo))
    BY <1>2
  <2> QED
    BY <1>2, <2>1, ClimbsOn
<1> HIDE DEF n
<1>4. /\ n \in DOMAIN v.done /\ v.done[n].hash = EffectiveHash(r, n)
      /\ MayRead(v, n) = MayRead(r, n)
  BY <1>2 DEF MayRead
<1>5. ASSUME NEW text, Told(EffectiveHash(r, n), text) PROVE Sources(text) = MayRead(r, n)
  <2>1. PICK q : Climbs(q) /\ \E m \in DOMAIN q.done :
          q.done[m].hash = EffectiveHash(r, n) /\ Sources(text) = MayRead(q, m)
    BY <1>5 DEF Told
  <2>2. PICK m \in DOMAIN q.done : q.done[m].hash = EffectiveHash(r, n) /\ Sources(text) = MayRead(q, m)
    BY <2>1
  <2>3. MayRead(v, n) = MayRead(q, m)
    BY <1>3, <1>4, <2>1, <2>2, HashTells
  <2> QED
    BY <1>4, <2>2, <2>3
<1>6. ASSUME NEW text, Sources(text) = MayRead(r, n) PROVE Told(EffectiveHash(r, n), text)
  BY <1>3, <1>4, <1>6 DEF Told
<1> QED
  BY <1>5, <1>6 DEF n

(* The order summarize starts with: all that is below the root, once each. *)
LEMMA OrderFacts ==
  ASSUME NEW h, IsFiniteSet(DOMAIN h), Root \in DOMAIN h, NEW order \in Postorders(h)
  PROVE  LET R == Reach(h, Root, DOMAIN h)
             N == Cardinality(R)
         IN /\ N \in Nat \ {0} /\ order \in [1 .. N -> R] /\ R \subseteq DOMAIN h
            /\ R = {order[i] : i \in 1 .. N}
            /\ \A i, j \in 1 .. N : order[i] = order[j] => i = j
            /\ \A i, j \in 1 .. N : order[j] \in Children(h, order[i]) => j < i
<1> DEFINE R == Reach(h, Root, DOMAIN h)
           N == Cardinality(R)
<1>1. R \subseteq DOMAIN h /\ Root \in R
  BY ReachInside, ReachHas
<1>2. /\ order \in SetToSeqs(R)
      /\ \A i, j \in DOMAIN order : order[j] \in Children(h, order[i]) => j < i
  BY DEF Postorders, Children
<1> HIDE DEF R
<1>3. IsFiniteSet(R) /\ N \in Nat /\ N # 0
  BY <1>1, FS_Subset, FS_CardinalityType, FS_EmptySet
<1> HIDE DEF N
<1>4. order \in [1 .. N -> R] /\ \A i, j \in 1 .. N : order[i] = order[j] => i = j
  BY <1>2 DEF SetToSeqs, N
<1>5. order \in Injection(1 .. N, R)
  BY <1>4 DEF Injection, IsInjective
<1>6. Cardinality(1 .. N) = N
  BY <1>3, FS_Interval
<1>7. order \in Surjection(1 .. N, R)
  BY <1>3, <1>5, <1>6, FS_Injection DEF N
<1>8. R = {order[i] : i \in 1 .. N}
  BY <1>4, <1>7 DEF Surjection
<1>9. DOMAIN order = 1 .. N
  BY <1>4
<1>10. \A i, j \in 1 .. N : order[j] \in Children(h, order[i]) => j < i
  BY <1>2, <1>9
<1> QED
  BY <1>1, <1>3, <1>4, <1>8, <1>10 DEF N, R

(* The root comes last: nothing else is reached without it. *)
LEMMA LastIsRoot ==
  ASSUME NEW h, IsFiniteSet(DOMAIN h), Root \in DOMAIN h, NEW order \in Postorders(h)
  PROVE  order[Cardinality(Reach(h, Root, DOMAIN h))] = Root
<1> DEFINE S == DOMAIN h
           R == Reach(h, Root, S)
           N == Cardinality(R)
           m == order[N]
           G == R \ {m}
<1>1. /\ N \in Nat \ {0} /\ order \in [1 .. N -> R] /\ R \subseteq S
      /\ R = {order[i] : i \in 1 .. N}
      /\ \A i, j \in 1 .. N : order[i] = order[j] => i = j
      /\ \A i, j \in 1 .. N : order[j] \in Children(h, order[i]) => j < i
  BY OrderFacts
<1>2. Root \in R /\ S \cap Below(h, R) \subseteq R
  BY ReachHas, ReachFixed
<1> HIDE DEF N, R
<1>3. SUFFICES ASSUME Root # m PROVE FALSE
  BY DEF N, R
<1>4. ASSUME NEW g \in G, NEW x \in S, x \in Children(h, g) PROVE x \in G
  <2>1. g \in R /\ x \in R
    BY <1>2, <1>4 DEF Below, Children
  <2>2. PICK i \in 1 .. N, j \in 1 .. N : order[i] = g /\ order[j] = x
    BY <1>1, <2>1
  <2>3. j < i /\ N \in 1 .. N
    BY <1>1, <1>4, <2>2
  <2>4. order[j] # order[N]
    BY <1>1, <2>2, <2>3
  <2> QED
    BY <2>1, <2>2, <2>4
<1>5. S \cap Below(h, G) \subseteq G
  <2> HIDE DEF G
  <2> QED
    BY <1>4 DEF Below, Children
<1>6. Root \in G
  BY <1>2, <1>3
<1>7. R \subseteq G
  <2> HIDE DEF G
  <2> QED
    BY <1>5, <1>6, ReachClosed DEF R
<1>8. m \in R
  BY <1>1
<1> QED
  BY <1>7, <1>8

LEMMA BegunExact ==
  ASSUME NEW sc, NEW h, Given(sc, h), NEW order \in Postorders(h)
  PROVE  ExactInv(Begun(sc, h, order))
<1> DEFINE v == Begun(sc, h, order)
           R == Reach(h, Root, DOMAIN h)
           N == Cardinality(R)
<1>1. /\ v.pc = "get" /\ v.sc = sc /\ v.h = h /\ v.view = Projection(sc, h)
      /\ v.todo = order /\ v.done = <<>>
  BY DEF Begun, NoRun
<1>2. IsFiniteSet(DOMAIN h) /\ Root \in DOMAIN h /\ Projection(sc, h) \subseteq R
  BY GivenFacts
<1>3. /\ N \in Nat \ {0} /\ order \in [1 .. N -> R] /\ R \subseteq DOMAIN h
      /\ R = {order[i] : i \in 1 .. N}
      /\ \A i, j \in 1 .. N : order[i] = order[j] => i = j
      /\ \A i, j \in 1 .. N : order[j] \in Children(h, order[i]) => j < i
  BY <1>2, OrderFacts
<1>4. order[N] = Root
  BY <1>2, LastIsRoot
<1> HIDE DEF v, R, N
<1>5. order \in Seq(DOMAIN h) /\ Len(order) = N /\ order # <<>>
  <2>1. order \in [1 .. N -> DOMAIN h]
    BY <1>3
  <2>2. order \in Seq(DOMAIN h) /\ Len(order) = N
    BY <1>3, <2>1
  <2> QED
    BY <1>3, <2>2
<1>6. DOMAIN v.done = {}
  BY <1>1
<1>7. \A i \in 1 .. N : \A c \in Children(h, order[i]) \cap Projection(sc, h) :
        \E j \in 1 .. N : j < i /\ c = order[j]
  BY <1>2, <1>3
<1>8. Ahead(v)
  <2>1. v.view \subseteq DOMAIN v.done \cup {v.todo[i] : i \in 1 .. Len(v.todo)}
    BY <1>1, <1>2, <1>3, <1>5
  <2>2. \A i \in 1 .. Len(v.todo) : \A c \in Children(v.h, v.todo[i]) \cap v.view :
          c \in DOMAIN v.done \/ \E j \in 1 .. Len(v.todo) : j < i /\ c = v.todo[j]
    BY <1>1, <1>5, <1>7
  <2>3. /\ v.todo \in Seq(DOMAIN v.h)
        /\ \A i \in 1 .. Len(v.todo) : v.todo[i] \notin DOMAIN v.done
        /\ \A i, j \in 1 .. Len(v.todo) : v.todo[i] = v.todo[j] => i = j
        /\ v.todo # <<>> => v.todo[Len(v.todo)] = Root
    BY <1>1, <1>3, <1>4, <1>5, <1>6
  <2> QED
    BY <2>1, <2>2, <2>3 DEF Ahead
<1>9. Climbs(v) /\ TellsExactly(v)
  BY <1>1, <1>6 DEF Climbs, TellsExactly
<1>10. v.todo # <<>>
  BY <1>1, <1>5
<1> QED
  BY <1>1, <1>8, <1>9, <1>10 DEF ExactInv, v

-----------------------------------------------------------------------------
(* Every summary, made or found, covers exactly what its reader may read.  *)

ExactRuns == \A s \in Client : ExactInv(run[s])
CacheTells == \A k \in DOMAIN redis : Told(k.ast_hash, redis[k])

LEMMA OneExact ==
  ASSUME RunsInv, ExactRuns, NEW s \in Client, NEW v, run' = [run EXCEPT ![s] = v], ExactInv(v)
  PROVE  ExactRuns'
<1>1. run' = [t \in Client |-> IF t = s THEN v ELSE run[t]]
  BY DEF RunsInv
<1>2. \A t \in Client : run'[t] = IF t = s THEN v ELSE run[t]
  BY <1>1
<1>3. ASSUME NEW t \in Client PROVE ExactInv(run'[t])
  <2>1. CASE t = s
    BY <1>2, <2>1
  <2>2. CASE t # s
    <3>1. run'[t] = run[t]
      BY <1>2, <2>2
    <3> QED
      BY <3>1 DEF ExactRuns
  <2> QED
    BY <2>1, <2>2
<1> QED
  BY <1>3 DEF ExactRuns

LEMMA NoRunExact == ExactInv(NoRun)
BY DEF ExactInv, NoRun

LEMMA FailExact ==
  ASSUME RunsInv, ExactRuns, NEW s \in Client, Fail(s)
  PROVE  ExactRuns'
BY NoRunExact, OneExact DEF Fail

(* A step on the way to the summary of the same node.                      *)
LEMMA SameNodeExact ==
  ASSUME NEW r, ExactInv(r), r.pc \notin {"idle", "returned"},
         NEW v, v.sc = r.sc, v.h = r.h, v.view = r.view, v.done = r.done, v.todo = r.todo,
         v.pc \notin {"idle", "returned"},
         v.pc = "put" => Sources(v.text) = MayRead(r, Head(r.todo))
  PROVE  ExactInv(v)
<1>1. Climbs(r) /\ TellsExactly(r) /\ Ahead(r) /\ r.todo # <<>>
  BY DEF ExactInv
<1>2. \A n : /\ Complete(v, n) <=> Complete(r, n)
             /\ EffectiveHash(v, n) = EffectiveHash(r, n)
             /\ MayRead(v, n) = MayRead(r, n)
  BY DEF Complete, EffectiveHash, MayRead
<1>3. Climbs(v) /\ TellsExactly(v)
  BY <1>1, <1>2 DEF Climbs, Finished, TellsExactly
<1>4. Ahead(v)
  BY <1>1 DEF Ahead
<1> QED
  BY <1>1, <1>2, <1>3, <1>4 DEF ExactInv

(* A node is passed over: it is not the root, which the reader sees. *)
LEMMA PassedExact ==
  ASSUME NEW r, ExactInv(r), r.pc = "get", Head(r.todo) \notin r.view,
         NEW v, v.sc = r.sc, v.h = r.h, v.view = r.view, v.done = r.done,
         v.todo = Tail(r.todo), v.pc = "get"
  PROVE  ExactInv(v)
<1>1. Climbs(r) /\ TellsExactly(r) /\ Ahead(r) /\ r.todo # <<>>
  BY DEF ExactInv
<1>2. \A n : /\ Complete(v, n) <=> Complete(r, n)
             /\ EffectiveHash(v, n) = EffectiveHash(r, n)
             /\ MayRead(v, n) = MayRead(r, n)
  BY DEF Complete, EffectiveHash, MayRead
<1>3. Climbs(v) /\ TellsExactly(v)
  BY <1>1, <1>2 DEF Climbs, Finished, TellsExactly
<1>4. Ahead(v)
  BY <1>1, AheadNext
<1>5. v.todo # <<>>
  <2>1. Root \in r.view
    BY <1>1, GivenFacts DEF Climbs
  <2> QED
    BY <1>1, <2>1, HeadFacts
<1> QED
  BY <1>3, <1>4, <1>5 DEF ExactInv

(* A node is done with a summary of what the reader may read. *)
LEMMA DoneExact ==
  ASSUME RunsInv, ExactRuns, NEW s \in Client, run[s].pc \notin {"idle", "returned"},
         Head(run[s].todo) \in run[s].view,
         NEW text, Sources(text) = MayRead(run[s], Head(run[s].todo)), Done(s, text)
  PROVE  ExactRuns'
<1> DEFINE r == run[s]
           n == Head(r.todo)
<1>1. PICK v : /\ run' = [run EXCEPT ![s] = v] /\ RunShape(v)
               /\ v.sc = r.sc /\ v.h = r.h /\ v.view = r.view
               /\ v.pc = IF Len(r.todo) = 1 THEN "returned" ELSE "get"
               /\ v.todo = Tail(r.todo)
               /\ DOMAIN v.done = DOMAIN r.done \cup {n}
               /\ \A m \in DOMAIN r.done : m # n => v.done[m] = r.done[m]
               /\ v.done[n] = [hash |-> EffectiveHash(r, n), complete |-> Complete(r, n),
                               text |-> text]
  BY DoneGives
<1>2. /\ v.done[n].hash = EffectiveHash(r, n) /\ v.done[n].text = text
      /\ v.done[n].complete <=> Complete(r, n)
  BY <1>1
<1>3. Climbs(r) /\ TellsExactly(r) /\ Ahead(r) /\ r.todo # <<>>
  BY DEF ExactRuns, ExactInv
<1>4. n \notin DOMAIN r.done /\ (v.todo = <<>> <=> Len(r.todo) = 1)
  BY <1>1, <1>3, HeadFacts
<1>5. \A m \in DOMAIN r.done : v.done[m] = r.done[m]
  BY <1>1, <1>4
<1>6. Climbs(v)
  BY <1>1, <1>2, <1>3, <1>5, ClimbsOn
<1>7. Ahead(v)
  BY <1>1, <1>3, AheadNext
<1> HIDE DEF n
<1>8. TellsExactly(v)
  <2>1. \A m : MayRead(v, m) = MayRead(r, m)
    BY <1>1 DEF MayRead
  <2>2. Sources(text) = MayRead(r, n)
    BY DEF n
  <2> QED
    BY <1>1, <1>2, <1>3, <1>5, <2>1, <2>2 DEF TellsExactly
<1>9. v.pc \in {"returned", "get"} /\ (v.pc = "returned" <=> v.todo = <<>>)
  BY <1>1, <1>4
<1>10. ExactInv(v)
  BY <1>6, <1>7, <1>8, <1>9 DEF ExactInv
<1> QED
  BY <1>1, <1>10, OneExact

LEMMA StartExact ==
  ASSUME RunsInv, ExactRuns, NEW s \in Client, Start(s)
  PROVE  ExactRuns'
<1>1. PICK q \in Request[s] :
        IF ~HasScope(q.sc) \/ ~Valid(q.h) \/ ~Authorized(q.sc, q.h, Root) THEN Fail(s)
        ELSE \E order \in Postorders(q.h) :
               run' = [run EXCEPT ![s] = Begun(q.sc, q.h, order)]
  BY DEF Start, Begun
<1>2. CASE Fail(s)
  BY <1>2, FailExact
<1>3. CASE ~Fail(s)
  <2>1. PICK order \in Postorders(q.h) : run' = [run EXCEPT ![s] = Begun(q.sc, q.h, order)]
    BY <1>1, <1>3
  <2>2. Given(q.sc, q.h)
    <3>1. q \in UNION Range(Request)
      BY <1>1, RequestAssumption DEF Range
    <3> QED
      BY <1>1, <1>3, <3>1 DEF Given, Versions
  <2> QED
    BY <2>1, <2>2, BegunExact, OneExact
<1> QED
  BY <1>2, <1>3

LEMMA PassOverExact ==
  ASSUME RunsInv, ExactRuns, NEW s \in Client, PassOver(s)
  PROVE  ExactRuns'
<1> DEFINE r == run[s]
           v == [r EXCEPT !.todo = Tail(@)]
<1>1. RunShape(r) /\ ExactInv(r) /\ run = [t \in Client |-> run[t]]
  BY DEF RunsInv, ExactRuns
<1>2. run' = [run EXCEPT ![s] = v] /\ r.pc = "get" /\ Head(r.todo) \notin r.view
  BY <1>1 DEF PassOver, Current
<1>3. /\ v.sc = r.sc /\ v.h = r.h /\ v.view = r.view /\ v.done = r.done
      /\ v.todo = Tail(r.todo) /\ v.pc = r.pc
  BY <1>1 DEF RunShape
<1> HIDE DEF v
<1>4. ExactInv(v)
  BY <1>1, <1>2, <1>3, PassedExact
<1> QED
  BY <1>2, <1>4, OneExact

(* A hit was told under the hash of the node: it is what this reader may   *)
(* read.                                                                   *)
LEMMA LookUpExact ==
  ASSUME RunsInv, ExactRuns, CacheTells, NEW s \in Client, LookUp(s)
  PROVE  ExactRuns'
<1> DEFINE r == run[s]
           key0 == KeyFor(r, Head(r.todo))
<1>1. RunShape(r) /\ ExactInv(r) /\ run = [t \in Client |-> run[t]]
  BY DEF RunsInv, ExactRuns
<1>2. r.pc = "get" /\ Head(r.todo) \in r.view
  BY DEF LookUp, Current
<1>3. PICK found \in Get(r.sc, key0) :
        CASE found.code = "error" -> Fail(s)
          [] found.code = "hit"   -> Done(s, found.value)
          [] found.code = "miss"  -> run' = [run EXCEPT ![s].pc = "generate"]
  BY DEF LookUp, Current
<1>4. key0.ast_hash = EffectiveHash(r, Head(r.todo))
  BY DEF KeyFor, CacheKey
<1> HIDE DEF key0
<1>5. \/ found = [code |-> "error"] \/ found = [code |-> "miss"]
      \/ key0 \in DOMAIN redis /\ found = [code |-> "hit", value |-> redis[key0]]
  BY <1>3 DEF Get
<1>6. CASE found = [code |-> "error"]
  BY <1>3, <1>6, FailExact
<1>7. CASE found = [code |-> "miss"]
  <2> DEFINE v == [r EXCEPT !.pc = "generate"]
  <2>1. run' = [run EXCEPT ![s] = v]
    BY <1>1, <1>3, <1>7
  <2>2. /\ v.sc = r.sc /\ v.h = r.h /\ v.view = r.view /\ v.done = r.done
        /\ v.todo = r.todo /\ v.pc = "generate"
    BY <1>1 DEF RunShape
  <2> HIDE DEF v
  <2>3. ExactInv(v)
    BY <1>1, <1>2, <2>2, SameNodeExact
  <2> QED
    BY <2>1, <2>3, OneExact
<1>8. CASE key0 \in DOMAIN redis /\ found = [code |-> "hit", value |-> redis[key0]]
  <2>1. Done(s, redis[key0])
    BY <1>3, <1>8
  <2>2. Told(EffectiveHash(r, Head(r.todo)), redis[key0])
    BY <1>4, <1>8 DEF CacheTells
  <2>3. Climbs(r) /\ Ahead(r) /\ r.todo # <<>>
    BY <1>1, <1>2 DEF ExactInv
  <2>4. Sources(redis[key0]) = MayRead(r, Head(r.todo))
    BY <1>2, <2>2, <2>3, NextTold
  <2> QED
    BY <1>2, <2>1, <2>4, DoneExact
<1> QED
  BY <1>5, <1>6, <1>7, <1>8

LEMMA AskExact ==
  ASSUME RunsInv, ExactRuns, NEW s \in Client, AskModel(s)
  PROVE  ExactRuns'
<1> DEFINE r == run[s]
           v == [r EXCEPT !.pc = "wait"]
<1>1. RunShape(r) /\ ExactInv(r) /\ run = [t \in Client |-> run[t]]
  BY DEF RunsInv, ExactRuns
<1>2. run' = [run EXCEPT ![s] = v] /\ r.pc = "generate"
  BY <1>1 DEF AskModel
<1>3. /\ v.sc = r.sc /\ v.h = r.h /\ v.view = r.view /\ v.done = r.done
      /\ v.todo = r.todo /\ v.pc = "wait"
  BY <1>1 DEF RunShape
<1> HIDE DEF v
<1>4. ExactInv(v)
  BY <1>1, <1>2, <1>3, SameNodeExact
<1> QED
  BY <1>2, <1>4, OneExact

LEMMA GeneratedExact ==
  ASSUME RunsInv, ExactRuns, NEW s \in Client, Generated(s)
  PROVE  ExactRuns'
<1> DEFINE r == run[s]
           n == Head(r.todo)
           v == [r EXCEPT !.pc = "put", !.text = ModelInput(r, n)]
<1>1. RunShape(r) /\ ReaderInv(r) /\ ExactInv(r) /\ run = [t \in Client |-> run[t]] /\ r.pc = "wait"
  BY DEF RunsInv, ExactRuns, Generated
<1>2. CASE Fail(s)
  BY <1>2, FailExact
<1>3. CASE ~Fail(s)
  <2>1. n \in r.view
    BY <1>1 DEF ReaderInv
  <2>2. Sources(ModelInput(r, n)) = MayRead(r, n)
    BY <1>1, <2>1, ModelInputExact DEF ExactInv
  <2> HIDE DEF n
  <2>3. run' = [run EXCEPT ![s].pc = "put", ![s].text = ModelInput(r, n)]
    BY <1>3 DEF Generated, Current, n
  <2>4. run' = [run EXCEPT ![s] = v]
    BY <1>1, <2>3
  <2>5. /\ v.sc = r.sc /\ v.h = r.h /\ v.view = r.view /\ v.done = r.done
        /\ v.todo = r.todo /\ v.text = ModelInput(r, n) /\ v.pc = "put"
    BY <1>1 DEF RunShape
  <2> HIDE DEF v
  <2>6. ExactInv(v)
    BY <1>1, <2>2, <2>5, SameNodeExact DEF n
  <2> QED
    BY <2>4, <2>6, OneExact
<1> QED
  BY <1>2, <1>3

(* What is stored is told under the hash of the node, even when the answer *)
(* to Put is an error.                                                     *)
LEMMA StoreExact ==
  ASSUME RunsInv, ExactRuns, CacheTells, NEW s \in Client, Store(s)
  PROVE  ExactRuns' /\ CacheTells'
<1> DEFINE r == run[s]
           key0 == KeyFor(r, Head(r.todo))
<1>1. ReaderInv(r) /\ ExactInv(r) /\ r.pc = "put" /\ Head(r.todo) \in r.view
  BY DEF RunsInv, ReaderInv, ExactRuns, Store
<1>2. PICK result \in {"ok", "error"} :
        /\ Put(r.sc, key0, r.text, result)
        /\ IF result = "ok" THEN Done(s, r.text) ELSE Fail(s)
  BY DEF Store, Current
<1>3. Sources(r.text) = MayRead(r, Head(r.todo)) /\ Climbs(r) /\ Ahead(r) /\ r.todo # <<>>
  BY <1>1 DEF ExactInv
<1>4. ExactRuns'
  BY <1>1, <1>2, <1>3, DoneExact, FailExact
<1>5. key0.ast_hash = EffectiveHash(r, Head(r.todo))
  BY DEF KeyFor, CacheKey
<1> HIDE DEF key0
<1>6. Told(key0.ast_hash, r.text)
  BY <1>1, <1>3, <1>5, NextTold
<1>7. CASE UNCHANGED redis
  BY <1>4, <1>7 DEF CacheTells
<1>8. CASE redis' = [k \in DOMAIN redis \cup {key0} |-> IF k = key0 THEN r.text ELSE redis[k]]
  BY <1>4, <1>6, <1>8 DEF CacheTells
<1> QED
  BY <1>2, <1>7, <1>8 DEF Put

LEMMA ExactStep ==
  ASSUME RunsInv, ExactRuns, CacheTells, [Next]_vars
  PROVE  ExactRuns' /\ CacheTells'
<1>1. ASSUME NEW s \in Client, Start(s) \/ PassOver(s) \/ LookUp(s) \/ AskModel(s) \/ Generated(s)
      PROVE  ExactRuns' /\ CacheTells'
  <2>1. ExactRuns'
    BY <1>1, StartExact, PassOverExact, LookUpExact, AskExact, GeneratedExact
  <2>2. UNCHANGED redis
    BY <1>1 DEF Start, PassOver, LookUp, AskModel, Generated
  <2> QED
    BY <2>1, <2>2 DEF CacheTells
<1>2. ASSUME NEW s \in Client, GatewayWorks(s)
      PROVE  ExactRuns' /\ CacheTells'
  BY <1>2 DEF GatewayWorks, summaryVars, ExactRuns, CacheTells
<1>3. ASSUME CacheExpires
      PROVE  ExactRuns' /\ CacheTells'
  BY <1>3 DEF CacheExpires, Expire, summaryVars, ExactRuns, CacheTells
<1>4. ASSUME CircuitCools \/ UNCHANGED vars
      PROVE  ExactRuns' /\ CacheTells'
  BY <1>4 DEF CircuitCools, vars, summaryVars, ExactRuns, CacheTells
<1> QED
  BY <1>1, <1>2, <1>3, <1>4, StoreExact DEF Next

(* At the end all that is seen is done, and each of it exactly.            *)
LEMMA ExactAtEnd ==
  ASSUME NEW r, ExactInv(r), r.pc = "returned"
  PROVE  /\ DOMAIN r.done = Projection(r.sc, r.h)
         /\ \A n \in DOMAIN r.done :
              {x.hash : x \in r.done[n].text} = Hashes(r.h, Readable(r.sc, r.h, n))
<1>1. Climbs(r) /\ TellsExactly(r) /\ Ahead(r) /\ r.todo = <<>>
  BY DEF ExactInv
<1>2. Len(r.todo) = 0
  BY <1>1
<1>3. r.view \subseteq DOMAIN r.done
  BY <1>1, <1>2 DEF Ahead
<1> QED
  BY <1>1, <1>3 DEF Climbs, TellsExactly, Sources, MayRead

(* However many readers, versions and runs share the cache, and whatever   *)
(* expires or fails, a returned result covers exactly what its reader      *)
(* sees, each summary made from exactly what the reader may read of it.    *)
THEOREM SummariesAreExact == Spec => []SummariesExact
<1> DEFINE Inv == RunsInv /\ CacheInScope /\ ExactRuns /\ CacheTells
<1>1. Init => Inv
  <2>1. Init => DOMAIN redis = {}
    BY DEF Init, CacheInit
  <2>2. Init => RunsInv /\ ExactRuns
    BY NoRunKeeps, NoRunExact DEF Init, RunsInv, ExactRuns
  <2> QED
    BY <2>1, <2>2 DEF CacheInScope, CacheTells
<1>2. Inv /\ [Next]_vars => Inv'
  BY ReaderStep, ExactStep
<1>3. Inv => SummariesExact
  BY ExactAtEnd DEF ExactRuns, SummariesExact
<1> QED
  BY <1>1, <1>2, <1>3, PTL DEF Spec
=============================================================================
