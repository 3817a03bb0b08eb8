------------------------- MODULE EdgeGatewayProofs -------------------------
(***************************************************************************)
(* Proofs about EdgeGateway for any requests, tokens, limits, graphs and   *)
(* writes to them: the admission counters are exact, no event tells a      *)
(* client of a node outside what its verified token grants, and a stream   *)
(* that completes is whole and, on a graph nobody writes, exact.           *)
(***************************************************************************)
EXTENDS EdgeGateway, FiniteSetTheorems, WellFoundedInduction, TLAPS

Credentials == {NoCredential} \cup UNION Range(Presents)
Contexts == {NoContext} \cup {SecurityContext(k.claims) : k \in UNION Range(Presents)}
Holders == {c \in Call : Holding(c)}
HoldersOf(k) == {c \in Holders : KeyOf(c) = k}

(* The part of the state the admission gate depends on. *)
GateTypeInv ==
  /\ phase \in [Call -> Phase]
  /\ cred \in [Call -> Credentials]
  /\ context \in [Call -> Contexts]
  /\ activeByCaller \in [Key -> Nat]

(* Past authorize a request carries the context of a credential that was   *)
(* verified.                                                               *)
ContextInv ==
  \A c \in Call : phase[c] \notin {"idle", "closed"} =>
    /\ cred[c] \in UNION Range(Presents)
    /\ cred[c].header = "bearer" /\ cred[c].verifies
    /\ context[c] = SecurityContext(cred[c].claims)

GateInv == GateTypeInv /\ ContextInv

LEMMA GateInitially == EdgeInit => GateInv
BY DEF EdgeInit, GateInv, GateTypeInv, ContextInv, Phase, Credentials, Contexts

(* A credential that passes authenticate was verified. *)
LEMMA AuthenticatedIsVerified ==
  ASSUME NEW k, Authenticate(k).ok
  PROVE  /\ k.header = "bearer" /\ k.verifies
         /\ Authenticate(k).sc = SecurityContext(k.claims)
BY DEF Authenticate, Refused, BearerToken

LEMMA PresentedCredential ==
  ASSUME NEW c \in Call, NEW k \in Presents[c]
  PROVE  k \in UNION Range(Presents)
BY EdgeAssumption DEF Range

LEMMA HolderHasKey ==
  ASSUME GateInv, NEW c \in Call, phase[c] \notin {"idle", "closed"}
  PROVE  KeyOf(c) \in Key
BY DEF GateInv, ContextInv, KeyOf, Key

LEMMA ReturnKeepsGateInv ==
  ASSUME GateInv, NEW c \in Call, NEW how, Return(c, how),
         activeByCaller' \in [Key -> Nat]
  PROVE  GateInv'
<1>1. /\ phase' = [phase EXCEPT ![c] = "closed"]
      /\ context' = [context EXCEPT ![c] = NoContext]
      /\ cred' = [cred EXCEPT ![c] = NoCredential] \/ cred' = cred
  BY DEF Return, Enter
<1>2. GateTypeInv'
  BY <1>1 DEF GateInv, GateTypeInv, Phase, Credentials, Contexts
<1>3. ContextInv'
  BY <1>1 DEF GateInv, GateTypeInv, ContextInv
<1>4. QED
  BY <1>2, <1>3 DEF GateInv

(* Where a request only moves on past authorize, nothing else changes. *)
LEMMA MoveKeepsGateInv ==
  ASSUME GateInv, NEW c \in Call, phase[c] \notin {"idle", "closed"},
         NEW p \in Phase, Enter(c, p), UNCHANGED <<cred, context>>,
         activeByCaller' \in [Key -> Nat]
  PROVE  GateInv'
<1>1. GateTypeInv'
  BY DEF GateInv, GateTypeInv, Enter
<1>2. ContextInv'
  BY DEF GateInv, GateTypeInv, ContextInv, Enter
<1>3. QED
  BY <1>1, <1>2 DEF GateInv

-----------------------------------------------------------------------------
(* The counters.                                                           *)

(* Neither a holder nor its key changes: the counters may stay. *)
LEMMA SameHolders ==
  ASSUME SlotsMatchHolders, UNCHANGED gateVars,
         \A c \in Call : Holding(c)' = Holding(c) /\ (Holding(c) => KeyOf(c)' = KeyOf(c))
  PROVE  SlotsMatchHolders'
<1>1. Holders' = Holders /\ \A k \in Key : HoldersOf(k)' = HoldersOf(k)
  BY DEF Holders, HoldersOf
<1>2. QED
  BY <1>1 DEF SlotsMatchHolders, Holders, HoldersOf, gateVars

LEMMA FiniteHolders == IsFiniteSet(Holders) /\ \A k : IsFiniteSet(HoldersOf(k))
<1>1. Holders \in SUBSET Call
  BY DEF Holders
<1>2. IsFiniteSet(Holders)
  BY <1>1, EdgeAssumption, FS_Subset
<1>3. ASSUME NEW k PROVE IsFiniteSet(HoldersOf(k))
  <2>1. HoldersOf(k) \in SUBSET Holders
    BY DEF HoldersOf
  <2>2. QED
    BY <2>1, <1>2, FS_Subset
<1>4. QED
  BY <1>2, <1>3

(* A request that takes a slot is a new holder, with its key. *)
LEMMA AdmitCounts ==
  ASSUME GateInv, SlotsMatchHolders, NEW c \in Call, Admit(c)
  PROVE  SlotsMatchHolders' /\ activeByCaller' \in [Key -> Nat]
<1>0. KeyOf(c) \in Key
  BY HolderHasKey DEF Admit
<1>1. /\ \A d \in Call : Holding(d)' <=> Holding(d) \/ d = c
      /\ ~Holding(c)
      /\ \A d \in Call : KeyOf(d)' = KeyOf(d)
  BY DEF Admit, Enter, Holding, KeyOf, GateInv, GateTypeInv
<1>2. Holders' = Holders \cup {c} /\ c \notin Holders
  BY <1>1 DEF Holders
<1>3. \A k \in Key :
        /\ HoldersOf(k)' = IF k = KeyOf(c) THEN HoldersOf(k) \cup {c} ELSE HoldersOf(k)
        /\ c \notin HoldersOf(k)
  BY <1>1, <1>2 DEF HoldersOf, Holders
<1>4. /\ Cardinality(Holders') = Cardinality(Holders) + 1
      /\ \A k \in Key : Cardinality(HoldersOf(k)') =
                          IF k = KeyOf(c) THEN Cardinality(HoldersOf(k)) + 1
                          ELSE Cardinality(HoldersOf(k))
  <2>1. Cardinality(Holders \cup {c}) = Cardinality(Holders) + 1
    BY <1>2, FiniteHolders, FS_AddElement
  <2>2. ASSUME NEW k \in Key
        PROVE  Cardinality(HoldersOf(k) \cup {c}) = Cardinality(HoldersOf(k)) + 1
    BY <1>3, FiniteHolders, FS_AddElement
  <2>3. QED
    BY <2>1, <2>2, <1>2, <1>3
<1>5. /\ activeTotal = Cardinality(Holders)
      /\ \A k \in Key : /\ activeByCaller[k] = Cardinality(HoldersOf(k))
                        /\ activeByCaller[k] <= MaxPerCaller
  BY DEF SlotsMatchHolders, Holders, HoldersOf
<1>6. /\ activeTotal' = activeTotal + 1 /\ activeTotal < MaxTotal
      /\ activeByCaller' = [activeByCaller EXCEPT ![KeyOf(c)] = @ + 1]
      /\ activeByCaller[KeyOf(c)] < MaxPerCaller
  BY DEF Admit, Acquire
<1>7. activeByCaller \in [Key -> Nat]
  BY DEF GateInv, GateTypeInv
<1>8. activeByCaller' \in [Key -> Nat]
  BY <1>6, <1>7, <1>0
<1>9. activeTotal' = Cardinality(Holders') /\ activeTotal' <= MaxTotal
  <2>1. Cardinality(Holders) \in Nat
    BY FiniteHolders, FS_CardinalityType
  <2>2. QED
    BY <2>1, <1>4, <1>5, <1>6, EdgeAssumption
<1>10. ASSUME NEW k \in Key
       PROVE  activeByCaller'[k] = Cardinality(HoldersOf(k)') /\ activeByCaller'[k] <= MaxPerCaller
  <2>1. activeByCaller'[k] = IF k = KeyOf(c) THEN activeByCaller[k] + 1 ELSE activeByCaller[k]
    BY <1>6, <1>7
  <2>2. activeByCaller[k] \in Nat
    BY <1>7
  <2>3. activeByCaller'[k] = Cardinality(HoldersOf(k)')
    BY <2>1, <1>4, <1>5
  <2>4. QED
    BY <2>1, <2>2, <2>3, <1>5, <1>6, EdgeAssumption
<1>11. QED
  BY <1>8, <1>9, <1>10 DEF SlotsMatchHolders, Holders, HoldersOf

(* A request that returns with its slot is a holder no more. *)
LEMMA ReleaseCounts ==
  ASSUME GateInv, SlotsMatchHolders, NEW c \in Call, Holding(c),
         NEW how, Return(c, how), Release(c)
  PROVE  SlotsMatchHolders' /\ activeByCaller' \in [Key -> Nat]
<1>0. KeyOf(c) \in Key
  BY HolderHasKey DEF Holding
<1>1. /\ \A d \in Call : Holding(d)' <=> Holding(d) /\ d # c
      /\ \A d \in Call \ {c} : KeyOf(d)' = KeyOf(d)
  BY DEF Return, Enter, Holding, KeyOf, GateInv, GateTypeInv
<1>2. Holders' = Holders \ {c} /\ c \in Holders
  BY <1>1 DEF Holders
<1>3. /\ \A k \in Key : HoldersOf(k)' = HoldersOf(k) \ {c}
      /\ \A k \in Key : c \in HoldersOf(k) <=> k = KeyOf(c)
  BY <1>1, <1>2 DEF HoldersOf, Holders
<1>4. /\ Cardinality(Holders') = Cardinality(Holders) - 1
      /\ \A k \in Key : Cardinality(HoldersOf(k)') =
                          IF k = KeyOf(c) THEN Cardinality(HoldersOf(k)) - 1
                          ELSE Cardinality(HoldersOf(k))
  BY <1>2, <1>3, FiniteHolders, FS_RemoveElement
<1>5. /\ activeTotal = Cardinality(Holders) /\ activeTotal <= MaxTotal
      /\ \A k \in Key : /\ activeByCaller[k] = Cardinality(HoldersOf(k))
                        /\ activeByCaller[k] <= MaxPerCaller
  BY DEF SlotsMatchHolders, Holders, HoldersOf
<1>6. /\ activeTotal' = activeTotal - 1
      /\ activeByCaller' = [activeByCaller EXCEPT ![KeyOf(c)] = @ - 1]
  BY DEF Release
<1>7. activeByCaller \in [Key -> Nat]
  BY DEF GateInv, GateTypeInv
<1>8. \A k \in Key : HoldersOf(k)' \in SUBSET HoldersOf(k) /\ IsFiniteSet(HoldersOf(k)')
  BY <1>3, FiniteHolders, FS_RemoveElement
<1>9. activeTotal' = Cardinality(Holders') /\ activeTotal' <= MaxTotal
  <2>1. Cardinality(Holders) \in Nat
    BY FiniteHolders, FS_CardinalityType
  <2>2. QED
    BY <2>1, <1>4, <1>5, <1>6, EdgeAssumption
<1>10. ASSUME NEW k \in Key
       PROVE  /\ activeByCaller'[k] = Cardinality(HoldersOf(k)')
              /\ activeByCaller'[k] <= MaxPerCaller
              /\ activeByCaller'[k] \in Nat
  <2>0. activeByCaller'[k] = IF k = KeyOf(c) THEN activeByCaller[k] - 1 ELSE activeByCaller[k]
    BY <1>6, <1>7
  <2>1. activeByCaller'[k] = Cardinality(HoldersOf(k)')
    BY <2>0, <1>4, <1>5
  <2>2. Cardinality(HoldersOf(k)') \in Nat
    BY <1>8, FS_CardinalityType
  <2>3. QED
    BY <2>0, <2>1, <2>2, <1>5, <1>7, EdgeAssumption
<1>11. activeByCaller' \in [Key -> Nat]
  BY <1>6, <1>7, <1>10
<1>12. QED
  BY <1>9, <1>10, <1>11 DEF SlotsMatchHolders, Holders, HoldersOf

LEMMA NoHolderInitially == EdgeInit => SlotsMatchHolders
<1> SUFFICES ASSUME EdgeInit PROVE SlotsMatchHolders
  OBVIOUS
<1>1. Holders = {}
  BY DEF EdgeInit, Holders, Holding
<1>2. \A k \in Key : HoldersOf(k) = {}
  BY <1>1 DEF HoldersOf
<1>3. Cardinality(Holders) = 0 /\ \A k \in Key : Cardinality(HoldersOf(k)) = 0
  BY <1>1, <1>2, FS_EmptySet
<1>4. activeTotal = 0 /\ \A k \in Key : activeByCaller[k] = 0
  BY DEF EdgeInit
<1>5. QED
  BY <1>3, <1>4, EdgeAssumption DEF SlotsMatchHolders, Holders, HoldersOf

(* A request turned away before it is admitted had no slot. *)
LEMMA RefuseStep ==
  ASSUME GateInv, SlotsMatchHolders, NEW c \in Call, ~Holding(c), Refuse(c)
  PROVE  GateInv' /\ SlotsMatchHolders'
<1>1. GateInv'
  BY ReturnKeepsGateInv DEF Refuse, gateVars, GateInv, GateTypeInv
<1>2. \A d \in Call : Holding(d)' = Holding(d) /\ (Holding(d) => KeyOf(d)' = KeyOf(d))
  BY DEF Refuse, Return, Enter, Holding, KeyOf, GateInv, GateTypeInv
<1>3. QED
  BY <1>1, <1>2, SameHolders DEF Refuse

LEMMA ReleaseStep ==
  ASSUME GateInv, SlotsMatchHolders, NEW c \in Call, Holding(c),
         GiveUp(c) \/ \E how : End(c, how)
  PROVE  GateInv' /\ SlotsMatchHolders'
<1>1. PICK how : Return(c, how) /\ Release(c)
  BY DEF GiveUp, End
<1>2. SlotsMatchHolders' /\ activeByCaller' \in [Key -> Nat]
  BY <1>1, ReleaseCounts
<1>3. QED
  BY <1>1, <1>2, ReturnKeepsGateInv

LEMMA AuthorizeStep ==
  ASSUME GateInv, SlotsMatchHolders, NEW c \in Call, Authorize(c)
  PROVE  GateInv' /\ SlotsMatchHolders'
<1>0. ~Holding(c)
  BY DEF Authorize, Holding
<1>1. CASE Refuse(c)
  BY <1>0, <1>1, RefuseStep
<1>2. CASE ~Refuse(c)
  <2>1. PICK k \in Presents[c] :
          /\ Authenticate(k).ok
          /\ Enter(c, "authorized")
          /\ cred' = [cred EXCEPT ![c] = k]
          /\ context' = [context EXCEPT ![c] = Authenticate(k).sc]
          /\ UNCHANGED gateVars
    BY <1>2 DEF Authorize
  <2>2. /\ k \in UNION Range(Presents)
        /\ k.header = "bearer" /\ k.verifies
        /\ Authenticate(k).sc = SecurityContext(k.claims)
    BY <2>1, PresentedCredential, AuthenticatedIsVerified
  <2>3. GateTypeInv'
    BY <2>1, <2>2 DEF GateInv, GateTypeInv, Enter, Phase, Credentials, Contexts, gateVars
  <2>4. ContextInv'
    BY <2>1, <2>2 DEF GateInv, GateTypeInv, ContextInv, Enter
  <2>5. \A d \in Call : Holding(d)' = Holding(d) /\ (Holding(d) => KeyOf(d)' = KeyOf(d))
    BY <1>0, <2>1 DEF Enter, Holding, KeyOf, GateInv, GateTypeInv
  <2>6. QED
    BY <2>1, <2>3, <2>4, <2>5, SameHolders DEF GateInv
<1>3. QED
  BY <1>1, <1>2

(* A holder that stays one leaves the gate alone. *)
LEMMA HolderMoves ==
  ASSUME GateInv, SlotsMatchHolders, NEW c \in Call, Holding(c),
         NEW p \in {"calling", "streaming"}, Enter(c, p),
         UNCHANGED <<cred, context, gateVars>>
  PROVE  GateInv' /\ SlotsMatchHolders'
<1>1. GateInv'
  BY MoveKeepsGateInv DEF Holding, Phase, gateVars, GateInv, GateTypeInv
<1>2. \A d \in Call : Holding(d)' = Holding(d) /\ (Holding(d) => KeyOf(d)' = KeyOf(d))
  BY DEF Enter, Holding, KeyOf, GateInv, GateTypeInv
<1>3. QED
  BY <1>1, <1>2, SameHolders

LEMMA AdmissionIdle ==
  ASSUME GateInv, SlotsMatchHolders, UNCHANGED <<phase, cred, context, gateVars>>
  PROVE  GateInv' /\ SlotsMatchHolders'
<1>1. \A d \in Call : Holding(d)' = Holding(d) /\ KeyOf(d)' = KeyOf(d)
  BY DEF Holding, KeyOf
<1>2. GateInv'
  BY DEF GateInv, GateTypeInv, ContextInv, gateVars
<1>3. QED
  BY <1>1, <1>2, SameHolders

LEMMA HandlerKeepsGate ==
  ASSUME GateInv, SlotsMatchHolders, NEW c \in Call, HandlerStep(c)
  PROVE  GateInv' /\ SlotsMatchHolders'
<1>1. CASE \/ RejectBody(c) \/ BodyTooLate(c) \/ StreamUnavailable(c) \/ FirstError(c)
           \/ WriteFails(c) \/ Complete(c) \/ StreamError(c)
  BY <1>1, ReleaseStep DEF RejectBody, BodyTooLate, StreamUnavailable, FirstError,
     WriteFails, Complete, StreamError, Holding
<1>2. CASE OpenStream(c)
  BY <1>2, HolderMoves DEF OpenStream, Holding
<1>3. CASE CopyEvent(c)
  BY <1>3, HolderMoves DEF CopyEvent, Holding
<1>4. QED
  BY <1>1, <1>2, <1>3 DEF HandlerStep

LEMMA GateStep ==
  ASSUME GateInv, SlotsMatchHolders, [EdgeNext]_vars
  PROVE  GateInv' /\ SlotsMatchHolders'
<1>1. ASSUME NEW c \in Call, AuthorizeUnavailable(c) \/ RejectHeaders(c) \/ RefuseStream(c)
      PROVE  GateInv' /\ SlotsMatchHolders'
  BY <1>1, RefuseStep DEF AuthorizeUnavailable, RejectHeaders, RefuseStream, Holding
<1>2. ASSUME NEW c \in Call, Authorize(c)
      PROVE  GateInv' /\ SlotsMatchHolders'
  BY <1>2, AuthorizeStep
<1>3. ASSUME NEW c \in Call, Admit(c)
      PROVE  GateInv' /\ SlotsMatchHolders'
  <2>1. SlotsMatchHolders' /\ activeByCaller' \in [Key -> Nat]
    BY <1>3, AdmitCounts
  <2>2. GateInv'
    BY <1>3, <2>1, MoveKeepsGateInv DEF Admit, Phase
  <2>3. QED
    BY <2>1, <2>2
<1>4. ASSUME NEW c \in Call, HandlerStep(c)
      PROVE  GateInv' /\ SlotsMatchHolders'
  BY <1>4, HandlerKeepsGate
<1>5. ASSUME NEW c \in Call, ServerStep(c) \/ ContextEnds(c)
      PROVE  GateInv' /\ SlotsMatchHolders'
  BY <1>5, AdmissionIdle DEF ServerStep, CancelCall, ContextEnds, edgeVars, gateVars
<1>6. ASSUME (GraphWrite /\ UNCHANGED edgeVars) \/ UNCHANGED vars
      PROVE  GateInv' /\ SlotsMatchHolders'
  BY <1>6, AdmissionIdle DEF vars, edgeVars, gateVars
<1>7. QED
  BY <1>1, <1>2, <1>3, <1>4, <1>5, <1>6 DEF EdgeNext

(* The counters of sseAdmission are exact and within their limits, for any *)
(* requests, callers and limits: every path out of the handler gives its   *)
(* slot back once.                                                         *)
THEOREM SlotsAreExact == EdgeSpec => []SlotsMatchHolders
<1>1. EdgeInit => GateInv /\ SlotsMatchHolders
  BY GateInitially, NoHolderInitially
<1>2. GateInv /\ SlotsMatchHolders /\ [EdgeNext]_vars => GateInv' /\ SlotsMatchHolders'
  BY GateStep
<1>3. QED
  BY <1>1, <1>2, PTL DEF EdgeSpec

-----------------------------------------------------------------------------
(* From the token to the events.                                           *)

Narrows == {Absent} \cup {r.narrow : r \in UNION Range(Request)}
Row == [node : Node, label : Label]
Walk == [sc : Contexts, depth : Nat, maxDepth : Nat, maxNodes : Int, narrow : Narrows,
         entry : Nat, visited : SUBSET Nat, frontier : SUBSET Nat, rows : SUBSET Row,
         next : SUBSET Nat, explored : Nat]
NodeEvent == [kind : {"node"}, node : Node, hop : Nat, label : Label]
ProgressEvent == [kind : {"progress"}, explored : Nat,
                  found : {Cardinality(S) : S \in SUBSET Nat}, depth : Nat,
                  truncated : BOOLEAN]
Event == NodeEvent \cup ProgressEvent

WalkTypeInv ==
  /\ label \in [Node -> Label \cup {NoLabel}]
  /\ st \in [Call -> {"idle", "opened", "level", "rows", "done", "failed"}]
  /\ walk \in [Call -> Walk]
  /\ sent \in [Call -> Seq(Event)]
  /\ read \in [Call -> Nat]

(* The credential of the request grants the label, and the request wants it. *)
Granted(c, l) ==
  /\ cred[c].header = "bearer" /\ cred[c].verifies
  /\ InScope(l, SecurityContext(cred[c].claims))
  /\ walk[c].narrow \in {Absent, l.repo}

(* A walk works under the context of its request, its rows are in scope,   *)
(* and what was sent was granted.                                          *)
CallInv(c) ==
  /\ phase[c] \in {"idle", "authorized", "reading"} => st[c] = "idle" /\ sent[c] = <<>>
  /\ (phase[c] \in {"calling", "streaming"} /\ Running(c)) => walk[c].sc = context[c]
  /\ read[c] <= Len(sent[c])
  /\ \A r \in walk[c].rows :
       InScope(r.label, walk[c].sc) /\ walk[c].narrow \in {Absent, r.label.repo}
  /\ \A i \in 1..Len(sent[c]) : sent[c][i].kind = "node" => Granted(c, sent[c][i].label)

ScopeInv == GateInv /\ WalkTypeInv /\ \A c \in Call : CallInv(c)

Untouched(d) ==
  /\ phase'[d] = phase[d] /\ cred'[d] = cred[d] /\ context'[d] = context[d]
  /\ st'[d] = st[d] /\ walk'[d] = walk[d] /\ sent'[d] = sent[d] /\ read'[d] = read[d]

LEMMA UntouchedKeeps ==
  ASSUME NEW d \in Call, CallInv(d), Untouched(d)
  PROVE  CallInv(d)'
BY DEF CallInv, Untouched, Running, Granted

LEMMA NoWalkIsWalk == NoWalk \in Walk
BY DEF NoWalk, Walk, Contexts, Narrows

LEMMA ScopeInitially == EdgeInit => ScopeInv
<1> SUFFICES ASSUME EdgeInit PROVE ScopeInv
  OBVIOUS
<1>1. GateInv
  BY GateInitially
<1>2. WalkTypeInv
  BY NoWalkIsWalk, ImpactAssumption DEF EdgeInit, ImpactInit, WalkTypeInv
<1>3. ASSUME NEW c \in Call PROVE CallInv(c)
  <2>1. /\ phase[c] = "idle" /\ st[c] = "idle" /\ sent[c] = <<>> /\ read[c] = 0
        /\ walk[c] = NoWalk
    BY DEF EdgeInit, ImpactInit
  <2>2. NoWalk.rows = {}
    BY DEF NoWalk
  <2>3. QED
    BY <2>1, <2>2 DEF CallInv, Running
<1>4. QED
  BY <1>1, <1>2, <1>3 DEF ScopeInv

(* A call that fails forgets its walk; what it sent stays granted. *)
LEMMA FailKeeps ==
  ASSUME ScopeInv, NEW c \in Call, Running(c), Fail(c),
         UNCHANGED <<label, phase, cred, context, read>>
  PROVE  WalkTypeInv' /\ \A d \in Call : CallInv(d)'
<1>1. /\ st' = [st EXCEPT ![c] = "failed"] /\ walk' = [walk EXCEPT ![c] = NoWalk]
      /\ sent' = sent
  BY DEF Fail, Goto, Forget
<1>2. WalkTypeInv'
  BY <1>1, NoWalkIsWalk DEF ScopeInv, WalkTypeInv
<1>3. \A d \in Call \ {c} : Untouched(d)
  BY <1>1 DEF Untouched, ScopeInv, WalkTypeInv
<1>4. st'[c] = "failed" /\ walk'[c] = NoWalk
  BY <1>1 DEF ScopeInv, WalkTypeInv
<1>5. phase[c] \notin {"idle", "authorized", "reading"}
  BY DEF ScopeInv, CallInv, Running
<1>6. NoWalk.rows = {} /\ NoWalk.narrow = Absent
  BY DEF NoWalk
<1>7. CallInv(c)'
  BY <1>1, <1>4, <1>5, <1>6 DEF ScopeInv, CallInv, Granted, Running
<1>8. QED
  BY <1>2, <1>3, <1>7, UntouchedKeeps DEF ScopeInv

(* A request that ends keeps what was granted or forgets what was sent. *)
LEMMA ReturnKeeps ==
  ASSUME ScopeInv, NEW c \in Call, NEW how, Return(c, how)
  PROVE  WalkTypeInv' /\ \A d \in Call : CallInv(d)'
<1>1. /\ phase' = [phase EXCEPT ![c] = "closed"] /\ st' = st /\ label' = label
      /\ context' = [context EXCEPT ![c] = NoContext]
  BY DEF Return, Enter, graphVars
<1>2. CASE how = "complete"
  <2>1. UNCHANGED <<cred, read, sent, walk>>
    BY <1>2 DEF Return
  <2>2. \A d \in Call \ {c} : Untouched(d)
    BY <1>1, <2>1 DEF Untouched, ScopeInv, GateInv, GateTypeInv
  <2>3. phase'[c] = "closed"
    BY <1>1 DEF ScopeInv, GateInv, GateTypeInv
  <2>4. CallInv(c)'
    BY <2>1, <2>3 DEF ScopeInv, CallInv, Granted
  <2>5. WalkTypeInv'
    BY <1>1, <2>1 DEF ScopeInv, WalkTypeInv
  <2>6. QED
    BY <2>2, <2>4, <2>5, UntouchedKeeps DEF ScopeInv
<1>3. CASE how # "complete"
  <2>1. /\ cred' = [cred EXCEPT ![c] = NoCredential] /\ read' = [read EXCEPT ![c] = 0]
        /\ sent' = [sent EXCEPT ![c] = <<>>]
        /\ walk' = walk \/ walk' = [walk EXCEPT ![c] = NoWalk]
    BY <1>3 DEF Return, Forget
  <2>2. WalkTypeInv'
    <3>1. sent' \in [Call -> Seq(Event)]
      BY <2>1 DEF ScopeInv, WalkTypeInv
    <3>2. walk' \in [Call -> Walk]
      BY <2>1, NoWalkIsWalk DEF ScopeInv, WalkTypeInv
    <3>3. read' \in [Call -> Nat]
      BY <2>1 DEF ScopeInv, WalkTypeInv
    <3>4. QED
      BY <1>1, <3>1, <3>2, <3>3 DEF ScopeInv, WalkTypeInv
  <2>3. \A d \in Call \ {c} : Untouched(d)
    BY <1>1, <2>1 DEF Untouched, ScopeInv, WalkTypeInv, GateInv, GateTypeInv
  <2>4. /\ phase'[c] = "closed" /\ sent'[c] = <<>> /\ read'[c] = 0
        /\ walk'[c] = walk[c] \/ walk'[c] = NoWalk
    BY <1>1, <2>1 DEF ScopeInv, WalkTypeInv, GateInv, GateTypeInv
  <2>5. NoWalk.rows = {}
    BY DEF NoWalk
  <2>6. CallInv(c)'
    BY <2>4, <2>5 DEF ScopeInv, CallInv
  <2>7. QED
    BY <2>2, <2>3, <2>6, UntouchedKeeps DEF ScopeInv
<1>4. QED
  BY <1>2, <1>3

(* The call is opened under the context of the request. *)
LEMMA OpenKeeps ==
  ASSUME ScopeInv, NEW c \in Call, OpenStream(c)
  PROVE  WalkTypeInv' /\ \A d \in Call : CallInv(d)'
<1>1. PICK req \in Request[c] : Open(c, context[c], req)
  BY DEF OpenStream
<1>2. /\ req.narrow \in Narrows /\ req.entry \in Nat
      /\ req.maxNodes \in Int /\ req.maxDepth \in Nat
  <2>1. req \in UNION Range(Request)
    BY EdgeAssumption DEF Range
  <2>2. QED
    BY <2>1, EdgeAssumption, ImpactAssumption DEF Narrows
<1>3. DEFINE w == [NoWalk EXCEPT !.sc = context[c], !.narrow = req.narrow,
                     !.entry = req.entry, !.maxNodes = req.maxNodes,
                     !.maxDepth = IF req.maxDepth = 0 THEN DefaultMaxDepth ELSE req.maxDepth]
<1>4. /\ w \in Walk /\ w.sc = context[c] /\ w.rows = {}
  <2>1. context[c] \in Contexts
    BY DEF ScopeInv, GateInv, GateTypeInv
  <2>2. QED
    BY <1>2, <2>1 DEF Walk, NoWalk, DefaultMaxDepth
<1>5. /\ st' = [st EXCEPT ![c] = "opened"] /\ walk' = [walk EXCEPT ![c] = w]
      /\ sent' = sent /\ phase' = [phase EXCEPT ![c] = "calling"]
      /\ UNCHANGED <<label, cred, context, read>>
  BY <1>1 DEF Open, Goto, OpenStream, Enter, graphVars
<1> HIDE DEF w
<1>6. WalkTypeInv'
  BY <1>4, <1>5 DEF ScopeInv, WalkTypeInv
<1>7. \A d \in Call \ {c} : Untouched(d)
  BY <1>5 DEF Untouched, ScopeInv, WalkTypeInv, GateInv, GateTypeInv
<1>8. /\ phase'[c] = "calling" /\ walk'[c] = w
  BY <1>5 DEF ScopeInv, WalkTypeInv, GateInv, GateTypeInv
<1>9. sent[c] = <<>>
  BY DEF ScopeInv, CallInv, OpenStream
<1>10. CallInv(c)'
  BY <1>4, <1>5, <1>8, <1>9 DEF ScopeInv, CallInv
<1>11. QED
  BY <1>6, <1>7, <1>10, UntouchedKeeps DEF ScopeInv

LEMMA HandleKeeps ==
  ASSUME ScopeInv, NEW c \in Call, Handle(c), UNCHANGED edgeVars
  PROVE  WalkTypeInv' /\ \A d \in Call : CallInv(d)'
<1>1. CASE Fail(c)
  BY <1>1, FailKeeps DEF Handle, Running, edgeVars, graphVars
<1>2. CASE ~Fail(c)
  <2>1. /\ st' = [st EXCEPT ![c] = "level"] /\ sent' = sent
        /\ walk' = [walk EXCEPT ![c].depth = 1, ![c].visited = {walk[c].entry},
                                ![c].frontier = {walk[c].entry}]
        /\ UNCHANGED <<label, phase, cred, context, read>>
    BY <1>2 DEF Handle, Goto, edgeVars, graphVars
  <2>2. walk[c] \in Walk
    BY DEF ScopeInv, WalkTypeInv
  <2>3. /\ walk' = [walk EXCEPT ![c] = walk'[c]]
        /\ walk'[c] \in Walk
        /\ walk'[c].sc = walk[c].sc /\ walk'[c].narrow = walk[c].narrow
        /\ walk'[c].rows = walk[c].rows
    BY <2>1, <2>2 DEF ScopeInv, WalkTypeInv, Walk
  <2>4. WalkTypeInv'
    BY <2>1, <2>3 DEF ScopeInv, WalkTypeInv
  <2>5. \A d \in Call \ {c} : Untouched(d)
    BY <2>1, <2>3 DEF Untouched, ScopeInv, WalkTypeInv
  <2>6. st[c] = "opened" /\ st'[c] = "level"
    BY <2>1 DEF Handle, ScopeInv, WalkTypeInv
  <2>7. CallInv(c)'
    BY <2>1, <2>3, <2>6 DEF ScopeInv, CallInv, Running, Granted
  <2>8. QED
    BY <2>4, <2>5, <2>7, UntouchedKeeps DEF ScopeInv
<1>3. QED
  BY <1>1, <1>2

(* The rows of a level are in scope when they are read. *)
LEMMA LevelRowsInScope ==
  ASSUME label \in [Node -> Label \cup {NoLabel}], NEW w
  PROVE  /\ LevelRows(w) \subseteq Row
         /\ \A r \in LevelRows(w) :
              InScope(r.label, w.sc) /\ w.narrow \in {Absent, r.label.repo}
<1> SUFFICES ASSUME NEW r \in LevelRows(w)
             PROVE  /\ r \in Row /\ InScope(r.label, w.sc)
                    /\ w.narrow \in {Absent, r.label.repo}
  OBVIOUS
<1>1. PICK d \in Node : /\ r = [node |-> d, label |-> label[d]]
                        /\ label[d] # NoLabel /\ InScope(label[d], w.sc)
                        /\ w.narrow = Absent \/ label[d].repo = w.narrow
  BY DEF LevelRows
<1>2. QED
  BY <1>1 DEF Row

LEMMA FetchKeeps ==
  ASSUME ScopeInv, NEW c \in Call, FetchLevel(c), UNCHANGED edgeVars
  PROVE  WalkTypeInv' /\ \A d \in Call : CallInv(d)'
<1>1. CASE Fail(c)
  BY <1>1, FailKeeps DEF FetchLevel, Running, edgeVars, graphVars
<1>2. CASE ~Fail(c)
  <2>1. /\ st' = [st EXCEPT ![c] = "rows"] /\ sent' = sent
        /\ walk' = [walk EXCEPT ![c].rows = LevelRows(walk[c]), ![c].next = {}]
        /\ UNCHANGED <<label, phase, cred, context, read>>
    BY <1>2 DEF FetchLevel, Goto, edgeVars, graphVars
  <2>2. walk[c] \in Walk
    BY DEF ScopeInv, WalkTypeInv
  <2>3. /\ LevelRows(walk[c]) \subseteq Row
        /\ \A r \in LevelRows(walk[c]) :
             InScope(r.label, walk[c].sc) /\ walk[c].narrow \in {Absent, r.label.repo}
    BY LevelRowsInScope DEF ScopeInv, WalkTypeInv
  <2>4. /\ walk' = [walk EXCEPT ![c] = walk'[c]]
        /\ walk'[c] \in Walk
        /\ walk'[c].sc = walk[c].sc /\ walk'[c].narrow = walk[c].narrow
        /\ walk'[c].rows = LevelRows(walk[c])
    BY <2>1, <2>2, <2>3 DEF ScopeInv, WalkTypeInv, Walk
  <2>5. WalkTypeInv'
    BY <2>1, <2>4 DEF ScopeInv, WalkTypeInv
  <2>6. \A d \in Call \ {c} : Untouched(d)
    BY <2>1, <2>4 DEF Untouched, ScopeInv, WalkTypeInv
  <2>7. st[c] = "level" /\ st'[c] = "rows"
    BY <2>1 DEF FetchLevel, ScopeInv, WalkTypeInv
  <2>8. CallInv(c)'
    BY <2>1, <2>3, <2>4, <2>7 DEF ScopeInv, CallInv, Running, Granted
  <2>9. QED
    BY <2>5, <2>6, <2>8, UntouchedKeeps DEF ScopeInv
<1>3. QED
  BY <1>1, <1>2

(* The event of a row was granted because the row is in scope. *)
LEMMA EmitKeeps ==
  ASSUME ScopeInv, NEW c \in Call, phase[c] # "closed", EmitNode(c), UNCHANGED edgeVars
  PROVE  WalkTypeInv' /\ \A d \in Call : CallInv(d)'
<1>1. PICK r \in walk[c].rows :
        /\ walk' = [walk EXCEPT ![c].rows = @ \ {r}, ![c].visited = @ \cup {r.node},
                                ![c].next = @ \cup {r.node}, ![c].explored = @ + 1]
        /\ sent' = [sent EXCEPT ![c] = Append(@, [kind |-> "node", node |-> r.node,
                                                  hop |-> walk[c].depth, label |-> r.label])]
  BY DEF EmitNode, SendEvent
<1>2. st[c] = "rows" /\ UNCHANGED <<label, st, phase, cred, context, read>>
  BY DEF EmitNode, edgeVars, graphVars
<1>3. walk[c] \in Walk /\ sent[c] \in Seq(Event) /\ r \in Row /\ read[c] \in Nat
  BY DEF ScopeInv, WalkTypeInv, Walk
<1>4. r.node \in Nat
  BY <1>3, ImpactAssumption DEF Row
<1>5. /\ walk' = [walk EXCEPT ![c] = walk'[c]]
      /\ walk'[c] \in Walk
      /\ walk'[c].sc = walk[c].sc /\ walk'[c].narrow = walk[c].narrow
      /\ walk'[c].rows = walk[c].rows \ {r}
  <2>1. /\ walk' = [walk EXCEPT ![c] = walk'[c]]
        /\ walk'[c] = [walk[c] EXCEPT !.rows = @ \ {r}, !.visited = @ \cup {r.node},
                                      !.next = @ \cup {r.node}, !.explored = @ + 1]
    BY <1>1 DEF ScopeInv, WalkTypeInv
  <2>2. /\ walk[c].rows \ {r} \in SUBSET Row /\ walk[c].visited \cup {r.node} \in SUBSET Nat
        /\ walk[c].next \cup {r.node} \in SUBSET Nat /\ walk[c].explored + 1 \in Nat
    BY <1>3, <1>4 DEF Walk
  <2>3. QED
    BY <2>1, <2>2, <1>3 DEF Walk
<1>6. DEFINE e == [kind |-> "node", node |-> r.node, hop |-> walk[c].depth, label |-> r.label]
<1>7. e \in Event
  BY <1>3 DEF Event, NodeEvent, Row, Walk
<1>8. sent'[c] = Append(sent[c], e) /\ e.label = r.label
  BY <1>1 DEF ScopeInv, WalkTypeInv
<1>9. /\ sent'[c] \in Seq(Event)
      /\ Len(sent'[c]) = Len(sent[c]) + 1
      /\ \A i \in 1..Len(sent[c]) : sent'[c][i] = sent[c][i]
      /\ sent'[c][Len(sent[c]) + 1] = e
  BY <1>3, <1>7, <1>8
<1> HIDE DEF e
<1>10. WalkTypeInv'
  <2>1. sent' \in [Call -> Seq(Event)]
    BY <1>1, <1>8, <1>9 DEF ScopeInv, WalkTypeInv
  <2>2. QED
    BY <2>1, <1>2, <1>5 DEF ScopeInv, WalkTypeInv
<1>11. \A d \in Call \ {c} : Untouched(d)
  BY <1>1, <1>2, <1>5 DEF Untouched, ScopeInv, WalkTypeInv
<1>12. /\ phase[c] \in {"calling", "streaming"} /\ walk[c].sc = context[c]
       /\ context[c] = SecurityContext(cred[c].claims)
       /\ cred[c].header = "bearer" /\ cred[c].verifies
  <2>1. phase[c] \in {"calling", "streaming"}
    BY <1>2 DEF ScopeInv, CallInv, GateInv, GateTypeInv, Phase
  <2>2. QED
    BY <2>1, <1>2 DEF ScopeInv, CallInv, GateInv, ContextInv, Running
<1>13. Granted(c, r.label)
  BY <1>12 DEF Granted, ScopeInv, CallInv
<1>14. \A i \in 1..Len(sent'[c]) : sent'[c][i].kind = "node" => Granted(c, sent'[c][i].label)
  <2>1. \A i \in 1..Len(sent[c]) : sent[c][i].kind = "node" => Granted(c, sent[c][i].label)
    BY DEF ScopeInv, CallInv
  <2>2. Len(sent[c]) \in Nat
    BY <1>3
  <2>3. QED
    BY <2>1, <2>2, <1>8, <1>9, <1>13
<1>15. (\A i \in 1..Len(sent[c]) : sent[c][i].kind = "node" => Granted(c, sent[c][i].label))'
  BY <1>14, <1>2, <1>5 DEF Granted
<1>16. CallInv(c)'
  <2>1. read'[c] <= Len(sent'[c])
    BY <1>2, <1>3, <1>9 DEF ScopeInv, CallInv
  <2>2. \A q \in walk'[c].rows :
          InScope(q.label, walk'[c].sc) /\ walk'[c].narrow \in {Absent, q.label.repo}
    BY <1>5 DEF ScopeInv, CallInv
  <2>3. /\ phase'[c] \notin {"idle", "authorized", "reading"}
        /\ walk'[c].sc = context'[c]
    BY <1>2, <1>5, <1>12
  <2>4. QED
    BY <2>1, <2>2, <2>3, <1>15 DEF CallInv
<1>17. QED
  BY <1>10, <1>11, <1>16, UntouchedKeeps DEF ScopeInv

LEMMA ProgressKeeps ==
  ASSUME ScopeInv, NEW c \in Call, phase[c] # "closed", EmitProgress(c), UNCHANGED edgeVars
  PROVE  WalkTypeInv' /\ \A d \in Call : CallInv(d)'
<1>0. DEFINE e == [kind |-> "progress", explored |-> walk[c].explored,
                   found |-> Cardinality(walk[c].next), depth |-> walk[c].depth,
                   truncated |-> walk[c].rows # {}]
             s == IF walk[c].rows # {} \/ walk[c].next = {} \/ walk[c].depth = walk[c].maxDepth
                  THEN "done" ELSE "level"
<1>1. /\ walk' = [walk EXCEPT ![c].frontier = walk[c].next, ![c].rows = {}, ![c].next = {},
                              ![c].depth = @ + 1]
      /\ sent' = [sent EXCEPT ![c] = Append(@, e)]
      /\ st' = [st EXCEPT ![c] = s]
  BY DEF EmitProgress, SendEvent, Goto
<1>2. st[c] = "rows" /\ UNCHANGED <<label, phase, cred, context, read>>
  BY DEF EmitProgress, edgeVars, graphVars
<1>3. walk[c] \in Walk /\ sent[c] \in Seq(Event) /\ read[c] \in Nat
  BY DEF ScopeInv, WalkTypeInv
<1>4. e \in Event /\ e.kind # "node"
  BY <1>3 DEF Event, ProgressEvent, Walk
<1>5. /\ walk' = [walk EXCEPT ![c] = walk'[c]]
      /\ walk'[c] \in Walk
      /\ walk'[c].sc = walk[c].sc /\ walk'[c].narrow = walk[c].narrow
      /\ walk'[c].rows = {}
  <2>1. /\ walk' = [walk EXCEPT ![c] = walk'[c]]
        /\ walk'[c] = [walk[c] EXCEPT !.frontier = walk[c].next, !.rows = {}, !.next = {},
                                      !.depth = @ + 1]
    BY <1>1 DEF ScopeInv, WalkTypeInv
  <2>2. walk[c].next \in SUBSET Nat /\ walk[c].depth + 1 \in Nat
    BY <1>3 DEF Walk
  <2>3. QED
    BY <2>1, <2>2, <1>3 DEF Walk
<1>6. s \in {"done", "level"}
  OBVIOUS
<1> HIDE DEF e, s
<1>7. sent'[c] = Append(sent[c], e) /\ st'[c] = s
  BY <1>1 DEF ScopeInv, WalkTypeInv
<1>8. /\ sent'[c] \in Seq(Event)
      /\ Len(sent'[c]) = Len(sent[c]) + 1
      /\ \A i \in 1..Len(sent[c]) : sent'[c][i] = sent[c][i]
      /\ sent'[c][Len(sent[c]) + 1] = e
      /\ Len(sent[c]) \in Nat
  BY <1>3, <1>4, <1>7
<1>9. WalkTypeInv'
  <2>1. sent' \in [Call -> Seq(Event)]
    BY <1>1, <1>7, <1>8 DEF ScopeInv, WalkTypeInv
  <2>2. QED
    BY <2>1, <1>1, <1>2, <1>5, <1>6 DEF ScopeInv, WalkTypeInv
<1>10. \A d \in Call \ {c} : Untouched(d)
  BY <1>1, <1>2, <1>5 DEF Untouched, ScopeInv, WalkTypeInv
<1>11. phase[c] \in {"calling", "streaming"} /\ walk[c].sc = context[c]
  <2>1. phase[c] \in {"calling", "streaming"}
    BY <1>2 DEF ScopeInv, CallInv, GateInv, GateTypeInv, Phase
  <2>2. QED
    BY <2>1, <1>2 DEF ScopeInv, CallInv, Running
<1>12. CallInv(c)'
  <2>1. \A i \in 1..Len(sent[c]) : sent[c][i].kind = "node" => Granted(c, sent[c][i].label)
    BY DEF ScopeInv, CallInv
  <2>2. \A i \in 1..Len(sent'[c]) : sent'[c][i].kind = "node" => Granted(c, sent'[c][i].label)
    BY <2>1, <1>4, <1>8
  <2>3. (\A i \in 1..Len(sent[c]) : sent[c][i].kind = "node" => Granted(c, sent[c][i].label))'
    BY <2>2, <1>2, <1>5 DEF Granted
  <2>4. read'[c] <= Len(sent'[c])
    BY <1>2, <1>3, <1>8 DEF ScopeInv, CallInv
  <2>5. phase'[c] \notin {"idle", "authorized", "reading"} /\ walk'[c].sc = context'[c]
    BY <1>2, <1>5, <1>11
  <2>6. QED
    BY <2>3, <2>4, <2>5, <1>5 DEF CallInv
<1>13. QED
  BY <1>9, <1>10, <1>12, UntouchedKeeps DEF ScopeInv

LEMMA ServerKeeps ==
  ASSUME ScopeInv, NEW c \in Call, ServerStep(c)
  PROVE  WalkTypeInv' /\ \A d \in Call : CallInv(d)'
<1>1. CASE CancelCall(c)
  BY <1>1, FailKeeps DEF CancelCall, Cancelled, edgeVars, graphVars
<1>2. CASE ~CancelCall(c)
  BY <1>2, HandleKeeps, FetchKeeps, EmitKeeps, ProgressKeeps DEF ServerStep
<1>3. QED
  BY <1>1, <1>2

(* A step of the gateway that leaves the call alone: the walk, what it     *)
(* sent and the credential stay; the client reads no further than it sent. *)
LEMMA GatewayKeeps ==
  ASSUME ScopeInv, NEW c \in Call, UNCHANGED <<label, st, walk, sent, cred, context>>,
         \/ (phase[c] = "authorized" /\ Enter(c, "reading") /\ UNCHANGED read)
         \/ CopyEvent(c)
         \/ UNCHANGED <<phase, read>>
  PROVE  WalkTypeInv' /\ \A d \in Call : CallInv(d)'
<1>1. CASE phase[c] = "authorized" /\ Enter(c, "reading") /\ UNCHANGED read
  <2>1. phase' = [phase EXCEPT ![c] = "reading"]
    BY <1>1 DEF Enter
  <2>2. WalkTypeInv'
    BY <1>1 DEF ScopeInv, WalkTypeInv
  <2>3. \A d \in Call \ {c} : Untouched(d)
    BY <1>1, <2>1 DEF Untouched, ScopeInv, GateInv, GateTypeInv
  <2>4. phase'[c] = "reading"
    BY <2>1 DEF ScopeInv, GateInv, GateTypeInv
  <2>5. CallInv(c)'
    BY <1>1, <2>4 DEF ScopeInv, CallInv, Granted
  <2>6. QED
    BY <2>2, <2>3, <2>5, UntouchedKeeps DEF ScopeInv
<1>2. CASE CopyEvent(c)
  <2>1. /\ phase' = [phase EXCEPT ![c] = "streaming"] /\ read' = [read EXCEPT ![c] = @ + 1]
        /\ phase[c] \in {"calling", "streaming"} /\ read[c] < Len(sent[c])
    BY <1>2 DEF CopyEvent, Enter, Unread
  <2>2. WalkTypeInv'
    BY <2>1 DEF ScopeInv, WalkTypeInv
  <2>3. \A d \in Call \ {c} : Untouched(d)
    BY <2>1 DEF Untouched, ScopeInv, GateInv, GateTypeInv, WalkTypeInv
  <2>4. phase'[c] = "streaming" /\ read'[c] = read[c] + 1
    BY <2>1 DEF ScopeInv, GateInv, GateTypeInv, WalkTypeInv
  <2>5. read'[c] <= Len(sent'[c])
    <3>1. read[c] \in Nat /\ Len(sent[c]) \in Nat
      BY DEF ScopeInv, WalkTypeInv
    <3>2. QED
      BY <3>1, <2>1, <2>4
  <2>6. CallInv(c)'
    BY <2>1, <2>4, <2>5 DEF ScopeInv, CallInv, Granted, Running
  <2>7. QED
    BY <2>2, <2>3, <2>6, UntouchedKeeps DEF ScopeInv
<1>3. CASE UNCHANGED <<phase, read>>
  <2>1. \A d \in Call : Untouched(d)
    BY <1>3 DEF Untouched
  <2>2. QED
    BY <1>3, <2>1, UntouchedKeeps DEF ScopeInv, WalkTypeInv
<1>4. QED
  BY <1>1, <1>2, <1>3

LEMMA AuthorizeKeeps ==
  ASSUME ScopeInv, NEW c \in Call, Authorize(c)
  PROVE  WalkTypeInv' /\ \A d \in Call : CallInv(d)'
<1>1. CASE Refuse(c)
  BY <1>1, ReturnKeeps DEF Refuse
<1>2. CASE ~Refuse(c)
  <2>1. PICK k : /\ phase' = [phase EXCEPT ![c] = "authorized"]
                 /\ cred' = [cred EXCEPT ![c] = k]
                 /\ context' = [context EXCEPT ![c] = Authenticate(k).sc]
                 /\ UNCHANGED <<read, impactVars>>
    BY <1>2 DEF Authorize, Enter
  <2>2. WalkTypeInv'
    BY <2>1 DEF ScopeInv, WalkTypeInv, impactVars
  <2>3. \A d \in Call \ {c} : Untouched(d)
    BY <2>1 DEF Untouched, ScopeInv, GateInv, GateTypeInv, impactVars
  <2>4. phase[c] = "idle" /\ phase'[c] = "authorized"
    BY <2>1 DEF Authorize, ScopeInv, GateInv, GateTypeInv
  <2>5. CallInv(c)'
    BY <2>1, <2>4 DEF ScopeInv, CallInv, impactVars
  <2>6. QED
    BY <2>2, <2>3, <2>5, UntouchedKeeps DEF ScopeInv
<1>3. QED
  BY <1>1, <1>2

LEMMA GraphWriteKeeps ==
  ASSUME ScopeInv, GraphWrite, UNCHANGED edgeVars
  PROVE  WalkTypeInv' /\ \A d \in Call : CallInv(d)'
<1>1. UNCHANGED <<st, walk, sent, read, phase, cred, context>>
  BY DEF GraphWrite, callVars, edgeVars
<1>2. label' \in [Node -> Label \cup {NoLabel}]
  BY ImpactAssumption DEF GraphWrite, MergeNode, MergeRelation, ScopeInv, WalkTypeInv
<1>3. \A d \in Call : Untouched(d)
  BY <1>1 DEF Untouched
<1>4. QED
  BY <1>1, <1>2, <1>3, UntouchedKeeps DEF ScopeInv, WalkTypeInv

LEMMA ScopeStep ==
  ASSUME ScopeInv, SlotsMatchHolders, [EdgeNext]_vars
  PROVE  ScopeInv'
<1>0. GateInv'
  BY GateStep DEF ScopeInv
<1> SUFFICES WalkTypeInv' /\ \A d \in Call : CallInv(d)'
  BY <1>0 DEF ScopeInv
<1>1. ASSUME NEW c \in Call,
             \/ AuthorizeUnavailable(c) \/ RejectHeaders(c) \/ RefuseStream(c)
             \/ RejectBody(c) \/ BodyTooLate(c) \/ StreamUnavailable(c) \/ FirstError(c)
             \/ WriteFails(c) \/ Complete(c) \/ StreamError(c)
      PROVE  WalkTypeInv' /\ \A d \in Call : CallInv(d)'
  <2>1. \E how : Return(c, how)
    BY <1>1 DEF AuthorizeUnavailable, RejectHeaders, RefuseStream, RejectBody, BodyTooLate,
       StreamUnavailable, FirstError, WriteFails, Complete, StreamError, Refuse, GiveUp, End
  <2>2. QED
    BY <2>1, ReturnKeeps
<1>2. ASSUME NEW c \in Call, Authorize(c)
      PROVE  WalkTypeInv' /\ \A d \in Call : CallInv(d)'
  BY <1>2, AuthorizeKeeps
<1>3. ASSUME NEW c \in Call, Admit(c) \/ CopyEvent(c) \/ ContextEnds(c)
      PROVE  WalkTypeInv' /\ \A d \in Call : CallInv(d)'
  BY <1>3, GatewayKeeps DEF Admit, CopyEvent, ContextEnds, impactVars
<1>4. ASSUME NEW c \in Call, OpenStream(c)
      PROVE  WalkTypeInv' /\ \A d \in Call : CallInv(d)'
  BY <1>4, OpenKeeps
<1>5. ASSUME NEW c \in Call, ServerStep(c)
      PROVE  WalkTypeInv' /\ \A d \in Call : CallInv(d)'
  BY <1>5, ServerKeeps
<1>6. ASSUME UNCHANGED vars
      PROVE  WalkTypeInv' /\ \A d \in Call : CallInv(d)'
  <2>1. UNCHANGED <<label, st, walk, sent, cred, context, phase, read>>
    BY <1>6 DEF vars, impactVars, edgeVars
  <2>2. \A d \in Call : Untouched(d)
    BY <2>1 DEF Untouched
  <2>3. QED
    BY <2>1, <2>2, UntouchedKeeps DEF ScopeInv, WalkTypeInv
<1>7. QED
  BY <1>1, <1>2, <1>3, <1>4, <1>5, <1>6, GraphWriteKeeps DEF EdgeNext, HandlerStep

LEMMA GrantedIsInScope == ScopeInv => EmittedInScope
<1> SUFFICES ASSUME ScopeInv, NEW c \in Call, NEW i \in 1..read[c], sent[c][i].kind = "node"
             PROVE  /\ cred[c].header = "bearer" /\ cred[c].verifies
                    /\ sent[c][i].label.tenant = cred[c].claims.tenant
                    /\ sent[c][i].label.repo \in Range(cred[c].claims.repos)
                    /\ sent[c][i].label.group \in Range(cred[c].claims.groups)
                    /\ walk[c].narrow \in {Absent, sent[c][i].label.repo}
  BY DEF EmittedInScope
<1>1. i \in 1..Len(sent[c])
  BY DEF ScopeInv, WalkTypeInv, CallInv
<1>2. Granted(c, sent[c][i].label)
  BY <1>1 DEF ScopeInv, CallInv
<1>3. QED
  BY <1>2 DEF Granted, InScope, SecurityContext

(* From the token to the events of the stream no hop widens what a caller  *)
(* may see, for any tokens, requests, graphs and writes to them.           *)
THEOREM NothingOutsideTheToken == EdgeSpec => []EmittedInScope
<1>1. EdgeInit => ScopeInv /\ SlotsMatchHolders
  BY ScopeInitially, NoHolderInitially
<1>2. ScopeInv /\ SlotsMatchHolders /\ [EdgeNext]_vars => ScopeInv' /\ SlotsMatchHolders'
  BY ScopeStep, GateStep DEF ScopeInv
<1>3. QED
  BY <1>1, <1>2, GrantedIsInScope, PTL DEF EdgeSpec

-----------------------------------------------------------------------------
(* Induction over the naturals with a set in place of a predicate, and the *)
(* recursive functions it justifies.                                       *)

LEMMA NatSetInduction ==
  ASSUME NEW S, 0 \in S, \A n \in Nat : n \in S => n + 1 \in S
  PROVE  \A n \in Nat : n \in S
<1> DEFINE T == Nat \ S
           less == {p \in Nat \X Nat : p[1] < p[2]}
<1>1. IsWellFoundedOn(less, Nat)
  BY NatLessThanWellFounded DEF OpToRel
<1>2. SUFFICES ASSUME T # {} PROVE FALSE
  OBVIOUS
<1>3. PICK x \in T : \A y \in T : ~ (<<y, x>> \in less)
  <2> HIDE DEF less
  <2>1. T \subseteq Nat
    OBVIOUS
  <2> HIDE DEF T
  <2> QED
    BY <1>1, <1>2, <2>1, WFMin
<1>4. x # 0 /\ x - 1 \in Nat /\ (x - 1) + 1 = x
  OBVIOUS
<1>5. x - 1 \in S
  <2>1. <<x - 1, x>> \in less
    BY <1>3, <1>4
  <2> HIDE DEF less
  <2> QED
    BY <1>3, <1>4, <2>1
<1>6. (x - 1) + 1 \in S
  BY <1>4, <1>5
<1> QED
  BY <1>3, <1>4, <1>6

(* A function that starts at base and advances by step. *)
Iterates(f, base, step) ==
  /\ f[0] = base
  /\ \A n \in Nat : f[n + 1] = step[f[n]]

LEMMA IterationExists ==
  ASSUME NEW X, NEW base \in X, NEW step \in [X -> X]
  PROVE  \E f \in [Nat -> X] : Iterates(f, base, step)
<1> DEFINE Upto(g, n) == /\ g \in [0 .. n -> X] /\ g[0] = base
                         /\ \A i \in 0 .. n : i < n => g[i + 1] = step[g[i]]
<1>1. \A n \in Nat : \E g : Upto(g, n)
  <2> DEFINE S == {n \in Nat : \E g : Upto(g, n)}
  <2>1. 0 \in S
    <3>1. Upto([i \in 0 .. 0 |-> base], 0)
      OBVIOUS
    <3> QED
      BY <3>1
  <2>2. ASSUME NEW n \in Nat, n \in S PROVE n + 1 \in S
    <3>1. PICK g : Upto(g, n)
      BY <2>2
    <3> DEFINE h == [i \in 0 .. n + 1 |-> IF i = n + 1 THEN step[g[n]] ELSE g[i]]
    <3>2. g[n] \in X /\ step[g[n]] \in X
      BY <3>1
    <3>3. \A i \in 0 .. n + 1 : i # n + 1 => i \in 0 .. n
      OBVIOUS
    <3>4. h \in [0 .. n + 1 -> X]
      BY <3>1, <3>2, <3>3
    <3>5. h[0] = base
      BY <3>1
    <3>6. ASSUME NEW i \in 0 .. n + 1, i < n + 1 PROVE h[i + 1] = step[h[i]]
      <4>1. i \in 0 .. n /\ h[i] = g[i] /\ i + 1 \in 0 .. n + 1
        BY <3>6
      <4>2. CASE i = n
        BY <4>1, <4>2
      <4>3. CASE i # n
        <5>1. i < n /\ i + 1 # n + 1
          BY <4>1, <4>3
        <5>2. h[i + 1] = g[i + 1]
          BY <4>1, <5>1
        <5> QED
          BY <3>1, <4>1, <5>1, <5>2
      <4> QED
        BY <4>2, <4>3
    <3> HIDE DEF h
    <3>7. Upto(h, n + 1)
      BY <3>4, <3>5, <3>6
    <3> HIDE DEF Upto
    <3> QED
      BY <3>7
  <2> HIDE DEF S, Upto
  <2>3. \A n \in Nat : n \in S
    BY <2>1, <2>2, NatSetInduction
  <2> QED
    BY <2>3 DEF S
<1>2. ASSUME NEW n \in Nat, NEW g, Upto(g, n), NEW h, Upto(h, n + 1)
      PROVE  \A i \in 0 .. n : g[i] = h[i]
  <2> DEFINE S == {i \in Nat : i \in 0 .. n => g[i] = h[i]}
  <2>1. 0 \in S
    BY <1>2
  <2>2. ASSUME NEW i \in Nat, i \in S PROVE i + 1 \in S
    <3>1. SUFFICES ASSUME i + 1 \in 0 .. n PROVE g[i + 1] = h[i + 1]
      OBVIOUS
    <3>2. i \in 0 .. n /\ i < n /\ i \in 0 .. n + 1 /\ i < n + 1
      BY <3>1
    <3> QED
      BY <1>2, <2>2, <3>2
  <2> HIDE DEF S
  <2>3. \A i \in Nat : i \in S
    BY <2>1, <2>2, NatSetInduction
  <2> QED
    BY <2>3 DEF S
<1> DEFINE G(n) == CHOOSE g : Upto(g, n)
           f == [n \in Nat |-> G(n)[n]]
<1>3. \A n \in Nat : Upto(G(n), n)
  <2> HIDE DEF Upto
  <2> QED
    BY <1>1
<1> HIDE DEF G
<1>4. f \in [Nat -> X]
  <2>1. \A n \in Nat : G(n)[n] \in X
    BY <1>3
  <2> QED
    BY <2>1
<1>5. f[0] = base
  BY <1>3
<1>6. ASSUME NEW n \in Nat PROVE f[n + 1] = step[f[n]]
  <2>1. Upto(G(n), n) /\ Upto(G(n + 1), n + 1)
    BY <1>3
  <2>2. G(n)[n] = G(n + 1)[n]
    <3> HIDE DEF Upto
    <3>1. n \in 0 .. n
      OBVIOUS
    <3> QED
      BY <1>2, <2>1, <3>1
  <2>3. G(n + 1)[n + 1] = step[G(n + 1)[n]]
    BY <2>1
  <2> QED
    BY <2>2, <2>3
<1> QED
  BY <1>4, <1>5, <1>6 DEF Iterates

(* The reference for the walk, unfolded once. *)
LEMMA WithinIs ==
  ASSUME NEW lab, NEW rel, NEW query
  PROVE  /\ Within(lab, rel, query, 0) = {n \in Node : n = query.entry /\ Seen(lab, query, n)}
         /\ \A k \in Nat :
              /\ Within(lab, rel, query, k) \subseteq Node
              /\ Within(lab, rel, query, k + 1) =
                   Within(lab, rel, query, k)
                   \cup Dependants(lab, rel, query, Within(lab, rel, query, k))
<1> DEFINE base == {n \in Node : n = query.entry /\ Seen(lab, query, n)}
           step == [S \in SUBSET Node |-> S \cup Dependants(lab, rel, query, S)]
           Body(f) == [i \in Nat |-> IF i = 0 THEN base
                         ELSE f[i - 1] \cup Dependants(lab, rel, query, f[i - 1])]
           far == CHOOSE f : f = Body(f)
<1>1. base \in SUBSET Node /\ step \in [SUBSET Node -> SUBSET Node]
  BY DEF Dependants
<1>2. PICK f \in [Nat -> SUBSET Node] : Iterates(f, base, step)
  <2> HIDE DEF base, step
  <2> QED
    BY <1>1, IterationExists
<1>3. f = Body(f)
  <2>1. ASSUME NEW i \in Nat PROVE f[i] = Body(f)[i]
    <3>1. CASE i = 0
      BY <1>2, <3>1 DEF Iterates
    <3>2. CASE i # 0
      <4>1. i - 1 \in Nat /\ (i - 1) + 1 = i
        BY <3>2
      <4>2. f[i] = step[f[i - 1]] /\ f[i - 1] \in SUBSET Node
        BY <1>2, <4>1 DEF Iterates
      <4> QED
        BY <3>2, <4>1, <4>2
    <3> QED
      BY <3>1, <3>2
  <2> QED
    BY <1>2, <2>1
<1>4. far = Body(far)
  <2> HIDE DEF Body
  <2> QED
    BY <1>3
<1> HIDE DEF far
<1>5. \A k : Within(lab, rel, query, k) = far[k]
  BY DEF Within, far
<1>6. far[0] = base /\ \A k \in Nat :
        far[k + 1] = far[k] \cup Dependants(lab, rel, query, far[k])
  <2>1. \A i \in Nat : far[i] = Body(far)[i]
    BY <1>4
  <2>2. far[0] = base
    BY <2>1
  <2>3. ASSUME NEW k \in Nat
        PROVE  far[k + 1] = far[k] \cup Dependants(lab, rel, query, far[k])
    <3>1. k + 1 \in Nat /\ k + 1 # 0 /\ (k + 1) - 1 = k
      OBVIOUS
    <3> QED
      BY <2>1, <3>1
  <2> QED
    BY <2>2, <2>3
<1>7. \A k \in Nat : far[k] \subseteq Node
  <2> DEFINE S == {k \in Nat : far[k] \subseteq Node}
  <2>1. 0 \in S
    BY <1>1, <1>6
  <2>2. \A k \in Nat : k \in S => k + 1 \in S
    BY <1>6 DEF Dependants
  <2> HIDE DEF S
  <2>3. \A k \in Nat : k \in S
    BY <2>1, <2>2, NatSetInduction
  <2> QED
    BY <2>3 DEF S
<1> QED
  BY <1>5, <1>6, <1>7

-----------------------------------------------------------------------------
(* Facts about the reference for the walk.                                 *)

LEMMA WithinNext ==
  ASSUME NEW lab, NEW rel, NEW query, NEW k \in Nat
  PROVE  Within(lab, rel, query, k + 1) =
           Within(lab, rel, query, k)
           \cup Dependants(lab, rel, query, Within(lab, rel, query, k))
<1> DEFINE P(i) == /\ Within(lab, rel, query, i) \subseteq Node
                   /\ Within(lab, rel, query, i + 1) =
                        Within(lab, rel, query, i)
                        \cup Dependants(lab, rel, query, Within(lab, rel, query, i))
<1>1. \A i \in Nat : P(i)
  BY WithinIs, Zenon
<1>2. P(k)
  BY <1>1, Zenon
<1> QED
  BY <1>2, Zenon

LEMMA WithinSeen ==
  ASSUME NEW lab, NEW rel, NEW query, NEW k \in Nat
  PROVE  \A n \in Within(lab, rel, query, k) : n \in Node /\ Seen(lab, query, n)
<1> DEFINE S == {i \in Nat : \A n \in Within(lab, rel, query, i) : Seen(lab, query, n)}
<1>1. 0 \in S
  BY WithinIs
<1>2. \A i \in Nat : i \in S => i + 1 \in S
  BY WithinIs DEF Dependants
<1> HIDE DEF S
<1>3. \A i \in Nat : i \in S
  BY <1>1, <1>2, NatSetInduction
<1> QED
  BY <1>3, WithinIs DEF S

LEMMA WithinGrows ==
  ASSUME NEW lab, NEW rel, NEW query, NEW i \in Nat, NEW j \in Nat, i <= j
  PROVE  Within(lab, rel, query, i) \subseteq Within(lab, rel, query, j)
<1> DEFINE F(k) == Within(lab, rel, query, k)
           S == {k \in Nat : i <= k => F(i) \subseteq F(k)}
<1>0. \A k \in Nat : Within(lab, rel, query, k + 1) =
        Within(lab, rel, query, k) \cup Dependants(lab, rel, query, Within(lab, rel, query, k))
  BY WithinNext
<1>1. 0 \in S
  OBVIOUS
<1>2. ASSUME NEW k \in Nat, k \in S PROVE k + 1 \in S
  <2>1. F(k) \subseteq F(k + 1)
    BY <1>0
  <2>2. i <= k + 1 => i <= k \/ i = k + 1
    OBVIOUS
  <2> QED
    BY <1>2, <2>1, <2>2
<1> HIDE DEF S
<1>3. \A k \in Nat : k \in S
  BY <1>1, <1>2, NatSetInduction
<1> QED
  BY <1>3 DEF S

(* The entry is in reach, if it is visible, from the start. *)
LEMMA WithinEntry ==
  ASSUME NEW lab, NEW rel, NEW query, NEW k \in Nat, query.entry \in Node,
         Seen(lab, query, query.entry)
  PROVE  query.entry \in Within(lab, rel, query, k)
<1>1. query.entry \in Within(lab, rel, query, 0)
  BY WithinIs
<1> QED
  BY <1>1, WithinGrows

(* A step that adds nothing is the last one that could. *)
LEMMA WithinStops ==
  ASSUME NEW lab, NEW rel, NEW query, NEW i \in Nat,
         Within(lab, rel, query, i + 1) = Within(lab, rel, query, i)
  PROVE  \A k \in Nat : i <= k => Within(lab, rel, query, k) = Within(lab, rel, query, i)
<1> DEFINE F(k) == Within(lab, rel, query, k)
           S == {k \in Nat : i <= k => F(k) = F(i)}
<1>0. \A k \in Nat : Within(lab, rel, query, k + 1) =
        Within(lab, rel, query, k) \cup Dependants(lab, rel, query, Within(lab, rel, query, k))
  BY WithinNext
<1>1. 0 \in S
  OBVIOUS
<1>2. ASSUME NEW k \in Nat, k \in S PROVE k + 1 \in S
  <2>1. /\ F(k + 1) = F(k) \cup Dependants(lab, rel, query, F(k))
        /\ F(i + 1) = F(i) \cup Dependants(lab, rel, query, F(i))
    BY <1>0
  <2>2. i <= k + 1 => i <= k \/ i = k + 1
    OBVIOUS
  <2> HIDE DEF F
  <2>3. F(i + 1) = F(i)
    BY DEF F
  <2>4. i <= k => F(k + 1) = F(i)
    BY <1>2, <2>1, <2>3
  <2> QED
    BY <2>2, <2>4
<1> HIDE DEF S
<1>3. \A k \in Nat : k \in S
  BY <1>1, <1>2, NatSetInduction
<1> QED
  BY <1>3 DEF S

-----------------------------------------------------------------------------
(* What one event more changes in what a stream tells.                     *)

LEMMA NodeAppended ==
  ASSUME NEW s \in Seq(Event), NEW e \in NodeEvent
  PROVE  LET t == Append(s, e)
         IN  /\ NodeEvents(t) = NodeEvents(s) \cup {Len(s) + 1}
             /\ Len(s) + 1 \notin NodeEvents(s)
             /\ \A i \in NodeEvents(s) : t[i] = s[i]
             /\ t[Len(s) + 1] = e
             /\ \A k : Told(t, k) = Told(s, k) \cup (IF e.hop <= k THEN {e.node} ELSE {})
<1> DEFINE t == Append(s, e)
<1>1. /\ Len(s) \in Nat /\ DOMAIN s = 1 .. Len(s) /\ DOMAIN t = 1 .. Len(s) + 1
      /\ \A i \in 1 .. Len(s) : t[i] = s[i]
      /\ t[Len(s) + 1] = e
  OBVIOUS
<1>2. e.kind = "node"
  BY DEF NodeEvent
<1> HIDE DEF t
<1>3. NodeEvents(t) = NodeEvents(s) \cup {Len(s) + 1}
  BY <1>1, <1>2 DEF NodeEvents
<1>4. Len(s) + 1 \notin NodeEvents(s) /\ \A i \in NodeEvents(s) : t[i] = s[i]
  BY <1>1 DEF NodeEvents
<1>5. ASSUME NEW k
      PROVE  Told(t, k) = Told(s, k) \cup (IF e.hop <= k THEN {e.node} ELSE {})
  BY <1>1, <1>3, <1>4 DEF Told
<1> QED
  BY <1>1, <1>3, <1>4, <1>5 DEF t

LEMMA ProgressAppended ==
  ASSUME NEW s \in Seq(Event), NEW e \in ProgressEvent
  PROVE  LET t == Append(s, e)
         IN  /\ NodeEvents(t) = NodeEvents(s)
             /\ \A i \in NodeEvents(s) : t[i] = s[i]
             /\ Len(t) = Len(s) + 1 /\ Len(t) \in Nat /\ LastOf(t) = e
             /\ \A k : Told(t, k) = Told(s, k)
<1> DEFINE t == Append(s, e)
<1>1. /\ Len(s) \in Nat /\ DOMAIN s = 1 .. Len(s) /\ DOMAIN t = 1 .. Len(s) + 1
      /\ \A i \in 1 .. Len(s) : t[i] = s[i]
      /\ t[Len(s) + 1] = e /\ Len(t) = Len(s) + 1
  OBVIOUS
<1>2. e.kind # "node"
  BY DEF ProgressEvent
<1> HIDE DEF t
<1>3. NodeEvents(t) = NodeEvents(s) /\ \A i \in NodeEvents(s) : t[i] = s[i]
  BY <1>1, <1>2 DEF NodeEvents
<1>4. \A k : Told(t, k) = Told(s, k)
  BY <1>3 DEF Told
<1>5. Len(t) \in Nat /\ LastOf(t) = e
  BY <1>1 DEF LastOf
<1> QED
  BY <1>1, <1>3, <1>4, <1>5, Zenon DEF t

LEMMA NodeEventsFinite ==
  ASSUME NEW s \in Seq(Event)
  PROVE  IsFiniteSet(NodeEvents(s)) /\ Cardinality(NodeEvents(s)) \in Nat
<1>1. NodeEvents(s) \in SUBSET (1 .. Len(s)) /\ IsFiniteSet(1 .. Len(s))
  BY FS_Interval DEF NodeEvents
<1> QED
  BY <1>1, FS_Subset, FS_CardinalityType

-----------------------------------------------------------------------------
(* The walk of a stream somebody reads.                                    *)

NodesOf(rows) == {r.node : r \in rows}
NodesTold(s) == {s[i].node : i \in NodeEvents(s)}

(* It counts and remembers what it sent: no node twice, at most max_nodes. *)
Counted(w, s) ==
  /\ \A i, j \in NodeEvents(s) : s[i].node = s[j].node => i = j
  /\ w.explored = Cardinality(NodeEvents(s)) /\ w.explored <= w.maxNodes
  /\ w.visited = {w.entry} \cup NodesTold(s)
  /\ w.entry \notin NodesTold(s)
  /\ \A r \in w.rows : r.node \notin w.visited
  /\ \A r, q \in w.rows : r.node = q.node => r = q

SaysWhy(w, s) ==
  LET last == LastOf(s)
  IN  /\ last.kind = "progress" /\ last.explored = w.explored
      /\ last.truncated \/ last.found = 0 \/ last.depth = w.maxDepth

Whole(w, s, state) ==
  /\ state \in {"opened", "level", "rows"} => w.entry \in Node /\ w.maxDepth \in Nat \ {0}
  /\ state = "opened" => s = <<>> /\ w.rows = {} /\ w.explored = 0
  /\ state \in {"level", "rows", "done"} => Counted(w, s)
  /\ state = "done" => SaysWhy(w, s)

(* On a graph nobody writes it is a breadth-first search. Between levels,  *)
(* what it visited is what is within reach, and the nodes whose dependants *)
(* may be missing are the frontier.                                        *)
Reach(lab, rel, w, k) == Within(lab, rel, Query(w), k)

TellsBelow(lab, rel, w, s) ==
  /\ w.depth \in 1 .. w.maxDepth
  /\ \A k \in 1 .. w.depth - 1 : Told(s, k) = Reach(lab, rel, w, k) \ {w.entry}

LevelExact(lab, rel, w, s) ==
  /\ TellsBelow(lab, rel, w, s)
  /\ w.visited = Reach(lab, rel, w, w.depth - 1) \cup {w.entry}
  /\ w.frontier \subseteq w.visited
  /\ Dependants(lab, rel, Query(w), Reach(lab, rel, w, w.depth - 1) \ w.frontier)
       \subseteq Reach(lab, rel, w, w.depth - 1)
  /\ \A k \in Nat : w.depth - 1 <= k => Told(s, k) = w.visited \ {w.entry}

(* Within a level, the rows left and the nodes sent are the next ones. *)
RowsExact(lab, rel, w, s) ==
  /\ TellsBelow(lab, rel, w, s)
  /\ w.visited = Reach(lab, rel, w, w.depth - 1) \cup {w.entry} \cup w.next
  /\ w.next \cup NodesOf(w.rows) =
       Reach(lab, rel, w, w.depth) \ (Reach(lab, rel, w, w.depth - 1) \cup {w.entry})
  /\ \A k \in Nat : w.depth <= k => Told(s, k) = w.visited \ {w.entry}

DoneExact(lab, rel, w, s) ==
  LET full(k) == Reach(lab, rel, w, k) \ {w.entry}
      last == LastOf(s)
  IN  \A k \in 1 .. w.maxDepth :
        /\ Told(s, k) \subseteq full(k)
        /\ (~last.truncated \/ k < last.depth) => Told(s, k) = full(k)
        /\ last.truncated => Told(s, k) # full(w.maxDepth)

Exact(lab, rel, w, s, state) ==
  /\ state = "level" => LevelExact(lab, rel, w, s)
  /\ state = "rows" => RowsExact(lab, rel, w, s)
  /\ state = "done" => DoneExact(lab, rel, w, s)

LEMMA SameQuery ==
  ASSUME NEW v, NEW w, v.sc = w.sc, v.narrow = w.narrow, v.entry = w.entry
  PROVE  Query(v) = Query(w)
BY DEF Query

(* The rows of a level are the nodes one step farther. *)
LEMMA LevelRowsAreNext ==
  ASSUME NEW w \in Walk, w.entry \in Node, NEW s, LevelExact(label, edge, w, s)
  PROVE  NodesOf(LevelRows(w)) =
           Reach(label, edge, w, w.depth)
             \ (Reach(label, edge, w, w.depth - 1) \cup {w.entry})
<1> DEFINE F(k) == Reach(label, edge, w, k)
           D == w.depth
           seen(n) == Seen(label, Query(w), n)
           wanted(n) == w.narrow \in {Absent, label[n].repo}
<1>1. D \in Nat /\ D - 1 \in Nat /\ (D - 1) + 1 = D
  BY DEF LevelExact, TellsBelow, Walk
<1>2. /\ F(D) = F(D - 1) \cup Dependants(label, edge, Query(w), F(D - 1))
      /\ F(D - 1) \subseteq Node /\ \A n \in F(D - 1) : seen(n)
  <2>1. \A k \in Nat :
          /\ Within(label, edge, Query(w), k) \subseteq Node
          /\ Within(label, edge, Query(w), k + 1) =
               Within(label, edge, Query(w), k)
               \cup Dependants(label, edge, Query(w), Within(label, edge, Query(w), k))
          /\ \A n \in Within(label, edge, Query(w), k) : Seen(label, Query(w), n)
    <3>1. ASSUME NEW k \in Nat
          PROVE  /\ Within(label, edge, Query(w), k) \subseteq Node
                 /\ Within(label, edge, Query(w), k + 1) =
                      Within(label, edge, Query(w), k)
                      \cup Dependants(label, edge, Query(w), Within(label, edge, Query(w), k))
      <4>1. Within(label, edge, Query(w), k) \subseteq Node
        BY WithinIs
      <4> QED
        BY <4>1, WithinNext
    <3>2. ASSUME NEW k \in Nat
          PROVE  \A n \in Within(label, edge, Query(w), k) : Seen(label, Query(w), n)
      BY WithinSeen
    <3> QED
      BY <3>1, <3>2
  <2> HIDE DEF D
  <2> QED
    BY <1>1, <2>1 DEF Reach
<1>3. Query(w).entry = w.entry /\ Query(w).narrow = w.narrow /\ Query(w).sc = w.sc
  BY DEF Query
<1>4. seen(w.entry) => w.entry \in F(D - 1)
  BY <1>1, <1>3, WithinEntry DEF Reach
<1>5. NodesOf(LevelRows(w)) =
        {d \in Node \ w.visited : /\ seen(d) /\ wanted(d)
                                  /\ \E n \in w.frontier : seen(n) /\ <<d, n>> \in edge}
  <2>1. \A n : seen(n) <=> label[n] # NoLabel /\ InScope(label[n], w.sc)
    BY <1>3 DEF Seen
  <2>2. \A n : wanted(n) <=> w.narrow = Absent \/ label[n].repo = w.narrow
    OBVIOUS
  <2> DEFINE V == {d \in Node \ w.visited :
                     /\ label[d] # NoLabel /\ InScope(label[d], w.sc)
                     /\ w.narrow = Absent \/ label[d].repo = w.narrow
                     /\ \E n \in w.frontier :
                          /\ label[n] # NoLabel /\ InScope(label[n], w.sc)
                          /\ <<d, n>> \in edge}
  <2>3. LevelRows(w) = {[node |-> d, label |-> label[d]] : d \in V}
    BY DEF LevelRows
  <2>4. V = {d \in Node \ w.visited : /\ seen(d) /\ wanted(d)
                                      /\ \E n \in w.frontier : seen(n) /\ <<d, n>> \in edge}
    <3> HIDE DEF seen, wanted
    <3> QED
      BY <2>1, <2>2
  <2> HIDE DEF V, seen, wanted
  <2>5. NodesOf(LevelRows(w)) = V
    <3>1. ASSUME NEW d \in V PROVE d \in NodesOf(LevelRows(w))
      <4>1. [node |-> d, label |-> label[d]] \in LevelRows(w)
        BY <2>3
      <4> QED
        BY <4>1 DEF NodesOf
    <3>2. ASSUME NEW d \in NodesOf(LevelRows(w)) PROVE d \in V
      <4>1. PICK r \in LevelRows(w) : d = r.node
        BY DEF NodesOf
      <4> QED
        BY <2>3, <4>1
    <3> QED
      BY <3>1, <3>2
  <2> QED
    BY <2>4, <2>5
<1>6. \A S, d : d \in Dependants(label, edge, Query(w), S) <=>
                  /\ d \in Node /\ seen(d) /\ wanted(d)
                  /\ \E n \in S : <<d, n>> \in edge
  BY <1>3 DEF Dependants
<1>7. /\ w.visited = F(D - 1) \cup {w.entry} /\ w.frontier \subseteq w.visited
      /\ Dependants(label, edge, Query(w), F(D - 1) \ w.frontier) \subseteq F(D - 1)
  BY DEF LevelExact
<1> HIDE DEF F, D, seen, wanted
<1>8. ASSUME NEW d \in NodesOf(LevelRows(w))
      PROVE  d \in F(D) \ (F(D - 1) \cup {w.entry})
  <2>1. PICK n \in w.frontier : seen(n) /\ <<d, n>> \in edge
    BY <1>5
  <2>2. n \in F(D - 1)
    BY <1>4, <1>7, <2>1
  <2> QED
    BY <1>2, <1>5, <1>6, <1>7, <2>1, <2>2
<1>9. ASSUME NEW d \in F(D) \ (F(D - 1) \cup {w.entry})
      PROVE  d \in NodesOf(LevelRows(w))
  <2>1. d \in Dependants(label, edge, Query(w), F(D - 1))
    BY <1>2
  <2>2. PICK n \in F(D - 1) : <<d, n>> \in edge
    BY <1>6, <2>1
  <2>3. n \in w.frontier
    BY <1>6, <1>7, <2>1, <2>2
  <2> QED
    BY <1>2, <1>5, <1>6, <1>7, <2>1, <2>2, <2>3
<1> QED
  BY <1>8, <1>9 DEF F, D

-----------------------------------------------------------------------------
(* Each step of a walk keeps it whole, and exact on a graph nobody writes. *)

(* The walk begins: nothing told, the entry alone visited. *)
LEMMA WalkBegins ==
  ASSUME NEW w \in Walk, NEW s, Whole(w, s, "opened"), w.maxNodes > 0
  PROVE  LET v == [w EXCEPT !.depth = 1, !.visited = {w.entry}, !.frontier = {w.entry}]
         IN  Whole(v, s, "level") /\ LevelExact(label, edge, v, s)
<1> DEFINE v == [w EXCEPT !.depth = 1, !.visited = {w.entry}, !.frontier = {w.entry}]
           R(k) == Reach(label, edge, v, k)
<1>1. /\ v.depth = 1 /\ v.visited = {w.entry} /\ v.frontier = {w.entry}
      /\ v.maxDepth = w.maxDepth /\ v.maxNodes = w.maxNodes /\ v.entry = w.entry
      /\ v.rows = {} /\ v.explored = 0 /\ w.maxNodes \in Int
  BY DEF Walk, Whole
<1>2. s = <<>> /\ w.entry \in Node /\ w.maxDepth \in Nat \ {0}
  BY DEF Whole
<1>3. NodeEvents(s) = {} /\ NodesTold(s) = {} /\ \A k : Told(s, k) = {}
  BY <1>2 DEF NodeEvents, NodesTold, Told
<1>4. Cardinality(NodeEvents(s)) = 0
  BY <1>3, FS_EmptySet
<1> HIDE DEF v
<1>5. Whole(v, s, "level")
  BY <1>1, <1>2, <1>3, <1>4 DEF Whole, Counted
<1>6. R(0) \subseteq {w.entry}
  <2>1. R(0) = {n \in Node : n = Query(v).entry /\ Seen(label, Query(v), n)}
    BY WithinIs DEF Reach
  <2> QED
    BY <1>1, <2>1 DEF Query
<1>7. Dependants(label, edge, Query(v), {}) = {}
  BY DEF Dependants
<1>8. LevelExact(label, edge, v, s)
  <2>1. R(0) \ v.frontier = {} /\ v.depth - 1 = 0
    BY <1>1, <1>6
  <2>2. TellsBelow(label, edge, v, s)
    BY <1>1, <1>2 DEF TellsBelow
  <2> QED
    BY <1>1, <1>3, <1>6, <1>7, <2>1, <2>2 DEF LevelExact
<1> QED
  BY <1>5, <1>8 DEF v

(* The rows of the level are read. *)
LEMMA LevelRead ==
  ASSUME NEW w \in Walk, NEW s, Whole(w, s, "level")
  PROVE  LET v == [w EXCEPT !.rows = LevelRows(w), !.next = {}]
         IN  /\ Whole(v, s, "rows")
             /\ LevelExact(label, edge, w, s) => RowsExact(label, edge, v, s)
<1> DEFINE v == [w EXCEPT !.rows = LevelRows(w), !.next = {}]
<1>1. /\ v.depth = w.depth /\ v.visited = w.visited /\ v.maxDepth = w.maxDepth
      /\ v.maxNodes = w.maxNodes /\ v.entry = w.entry /\ v.explored = w.explored
      /\ v.rows = LevelRows(w) /\ v.next = {} /\ v.sc = w.sc /\ v.narrow = w.narrow
  BY DEF Walk
<1>2. Query(v) = Query(w)
  BY <1>1, SameQuery
<1>3. \A r \in LevelRows(w) : r.node \notin w.visited /\ r.label = label[r.node]
                              /\ r = [node |-> r.node, label |-> label[r.node]]
  BY DEF LevelRows
<1>4. \A r, q \in LevelRows(w) : r.node = q.node => r = q
  BY <1>3
<1> HIDE DEF v
<1>5. Whole(v, s, "rows")
  BY <1>1, <1>3, <1>4 DEF Whole, Counted
<1>6. ASSUME LevelExact(label, edge, w, s) PROVE RowsExact(label, edge, v, s)
  <2>1. w.entry \in Node
    BY DEF Whole
  <2>2. NodesOf(v.rows) = Reach(label, edge, w, w.depth)
                            \ (Reach(label, edge, w, w.depth - 1) \cup {w.entry})
    BY <1>1, <1>6, <2>1, LevelRowsAreNext
  <2>3. \A k : Reach(label, edge, v, k) = Reach(label, edge, w, k)
    BY <1>2 DEF Reach
  <2>4. w.depth \in Nat
    BY DEF Walk
  <2>5. \A k \in Nat : w.depth <= k => w.depth - 1 <= k
    BY <2>4
  <2> QED
    BY <1>1, <1>6, <2>2, <2>3, <2>5 DEF LevelExact, RowsExact, TellsBelow
<1> QED
  BY <1>5, <1>6 DEF v

(* A row is sent. *)
LEMMA RowSent ==
  ASSUME NEW w \in Walk, NEW s \in Seq(Event), Whole(w, s, "rows"),
         NEW r \in w.rows, w.explored < w.maxNodes
  PROVE  LET v == [w EXCEPT !.rows = @ \ {r}, !.visited = @ \cup {r.node},
                            !.next = @ \cup {r.node}, !.explored = @ + 1]
             t == Append(s, [kind |-> "node", node |-> r.node, hop |-> w.depth,
                             label |-> r.label])
         IN  /\ Whole(v, t, "rows")
             /\ RowsExact(label, edge, w, s) => RowsExact(label, edge, v, t)
<1> DEFINE v == [w EXCEPT !.rows = @ \ {r}, !.visited = @ \cup {r.node},
                          !.next = @ \cup {r.node}, !.explored = @ + 1]
           e == [kind |-> "node", node |-> r.node, hop |-> w.depth, label |-> r.label]
           t == Append(s, e)
           n == Len(s) + 1
<1>1. /\ v.depth = w.depth /\ v.maxDepth = w.maxDepth /\ v.maxNodes = w.maxNodes
      /\ v.entry = w.entry /\ v.sc = w.sc /\ v.narrow = w.narrow
      /\ v.rows = w.rows \ {r} /\ v.visited = w.visited \cup {r.node}
      /\ v.next = w.next \cup {r.node} /\ v.explored = w.explored + 1
  BY DEF Walk
<1>2. /\ w.depth \in Nat /\ w.explored \in Nat /\ w.maxNodes \in Int /\ r \in Row
  BY DEF Walk
<1>3. e \in NodeEvent /\ e.node = r.node /\ e.hop = w.depth
  BY <1>2 DEF NodeEvent, Row
<1> HIDE DEF v, e
<1>4. /\ NodeEvents(t) = NodeEvents(s) \cup {n}
      /\ n \notin NodeEvents(s)
      /\ \A i \in NodeEvents(s) : t[i] = s[i]
      /\ t[n] = e
      /\ \A k : Told(t, k) = Told(s, k) \cup (IF e.hop <= k THEN {e.node} ELSE {})
  BY <1>3, NodeAppended
<1> HIDE DEF t, n
<1>5. /\ Counted(w, s) /\ r.node \notin w.visited /\ w.entry # r.node
      /\ w.entry \in Node /\ w.maxDepth \in Nat \ {0}
  BY DEF Whole, Counted
<1>6. NodesTold(t) = NodesTold(s) \cup {r.node}
  BY <1>3, <1>4 DEF NodesTold
<1>7. Cardinality(NodeEvents(t)) = Cardinality(NodeEvents(s)) + 1
  BY <1>4, NodeEventsFinite, FS_AddElement
<1>8. Whole(v, t, "rows")
  <2>1. \A i \in NodeEvents(s) : s[i].node # r.node
    BY <1>5 DEF Counted, NodesTold
  <2>2. \A i, j \in NodeEvents(t) : t[i].node = t[j].node => i = j
    BY <1>3, <1>4, <1>5, <2>1 DEF Counted
  <2>3. v.explored = Cardinality(NodeEvents(t)) /\ v.explored <= v.maxNodes
    BY <1>1, <1>2, <1>5, <1>7 DEF Counted
  <2>4. v.visited = {v.entry} \cup NodesTold(t) /\ v.entry \notin NodesTold(t)
    BY <1>1, <1>5, <1>6 DEF Counted
  <2>5. /\ \A q \in v.rows : q.node \notin v.visited
        /\ \A p, q \in v.rows : p.node = q.node => p = q
    BY <1>1, <1>5 DEF Counted
  <2>6. Counted(v, t)
    BY <2>2, <2>3, <2>4, <2>5 DEF Counted
  <2> QED
    BY <1>1, <1>5, <2>6 DEF Whole
<1>9. ASSUME RowsExact(label, edge, w, s) PROVE RowsExact(label, edge, v, t)
  <2>1. \A k : Reach(label, edge, v, k) = Reach(label, edge, w, k)
    BY <1>1, SameQuery DEF Reach
  <2>2. \A k \in Nat : w.depth <= k => Told(t, k) = v.visited \ {v.entry}
    <3>1. \A k \in Nat : w.depth <= k => Told(t, k) = Told(s, k) \cup {r.node}
      BY <1>3, <1>4
    <3> QED
      BY <1>1, <1>5, <1>9, <3>1 DEF RowsExact
  <2>3. \A k \in 1 .. w.depth - 1 : Told(t, k) = Told(s, k)
    <3>1. ASSUME NEW k \in 1 .. w.depth - 1 PROVE ~ (e.hop <= k)
      BY <1>2, <1>3
    <3> QED
      BY <1>4, <3>1
  <2>4. v.next \cup NodesOf(v.rows) = w.next \cup NodesOf(w.rows)
    BY <1>1 DEF NodesOf
  <2>5. TellsBelow(label, edge, v, t)
    BY <1>1, <1>9, <2>1, <2>3 DEF RowsExact, TellsBelow
  <2>6. v.visited = Reach(label, edge, v, v.depth - 1) \cup {v.entry} \cup v.next
    BY <1>1, <1>9, <2>1 DEF RowsExact
  <2> QED
    BY <1>1, <1>9, <2>1, <2>2, <2>4, <2>5, <2>6 DEF RowsExact
<1> QED
  BY <1>8, <1>9 DEF v, t, e

(* A node one step farther than what is all visited is in reach, and one   *)
(* that is not beyond what is visited adds nothing to it.                  *)
LEMMA ReachNext ==
  ASSUME NEW w \in Walk, NEW s, w.entry \in Node, RowsExact(label, edge, w, s)
  PROVE  LET R(k) == Reach(label, edge, w, k)
         IN  /\ w.depth \in Nat /\ w.depth - 1 \in Nat
             /\ R(w.depth - 1) \subseteq R(w.depth)
             /\ w.entry \in R(w.depth) => w.entry \in R(w.depth - 1)
             /\ R(w.depth) = R(w.depth - 1) \cup Dependants(label, edge, Query(w), R(w.depth - 1))
<1> DEFINE D == w.depth
<1>1. D \in Nat /\ D - 1 \in Nat /\ (D - 1) + 1 = D /\ D - 1 <= D
  BY DEF RowsExact, TellsBelow, Walk
<1> HIDE DEF D
<1>2. Reach(label, edge, w, D) =
        Reach(label, edge, w, D - 1)
        \cup Dependants(label, edge, Query(w), Reach(label, edge, w, D - 1))
  <2>1. Within(label, edge, Query(w), (D - 1) + 1) =
          Within(label, edge, Query(w), D - 1)
          \cup Dependants(label, edge, Query(w), Within(label, edge, Query(w), D - 1))
    BY <1>1, WithinNext
  <2> QED
    BY <1>1, <2>1 DEF Reach
<1>3. ASSUME w.entry \in Reach(label, edge, w, D) PROVE w.entry \in Reach(label, edge, w, D - 1)
  <2>1. Query(w).entry = w.entry
    BY DEF Query
  <2>2. Seen(label, Query(w), w.entry)
    BY <1>1, <1>3, WithinSeen DEF Reach
  <2> QED
    BY <1>1, <2>1, <2>2, WithinEntry DEF Reach
<1> QED
  BY <1>1, <1>2, <1>3 DEF D

(* The level is over and the walk goes on. *)
LEMMA NextLevelExact ==
  ASSUME NEW w \in Walk, NEW s, NEW v \in Walk, NEW t, w.entry \in Node,
         RowsExact(label, edge, w, s), w.rows = {}, w.depth # w.maxDepth,
         v.depth = w.depth + 1, v.frontier = w.next, v.visited = w.visited,
         v.maxDepth = w.maxDepth, v.entry = w.entry, Query(v) = Query(w),
         \A k : Told(t, k) = Told(s, k)
  PROVE  LevelExact(label, edge, v, t)
<1> DEFINE R(k) == Reach(label, edge, w, k)
           D == w.depth
<1>1. /\ D \in Nat /\ D - 1 \in Nat /\ R(D - 1) \subseteq R(D)
      /\ w.entry \in R(D) => w.entry \in R(D - 1)
      /\ R(D) = R(D - 1) \cup Dependants(label, edge, Query(w), R(D - 1))
  BY ReachNext, Zenon
<1>2. /\ w.visited = R(D - 1) \cup {w.entry} \cup w.next
      /\ w.next = R(D) \ (R(D - 1) \cup {w.entry})
      /\ \A k \in Nat : D <= k => Told(s, k) = w.visited \ {w.entry}
  BY DEF RowsExact, NodesOf
<1>3. \A k : Reach(label, edge, v, k) = R(k)
  BY DEF Reach
<1>4. D \in 1 .. w.maxDepth /\ \A k \in 1 .. D - 1 : Told(s, k) = R(k) \ {w.entry}
  BY DEF RowsExact, TellsBelow
<1>5. v.depth - 1 = D /\ v.depth \in 1 .. v.maxDepth
  BY <1>1, <1>4 DEF Walk
<1> HIDE DEF D, R
<1>6. w.visited = R(D) \cup {w.entry}
  BY <1>1, <1>2
<1>7. TellsBelow(label, edge, v, t)
  <2>1. ASSUME NEW k \in 1 .. D PROVE Told(t, k) = R(k) \ {w.entry}
    <3>1. CASE k = D
      BY <1>1, <1>2, <1>6, <3>1
    <3>2. CASE k # D
      <4>1. k \in 1 .. D - 1
        BY <1>1, <3>2
      <4> QED
        BY <1>4, <4>1
    <3> QED
      BY <3>1, <3>2
  <2> QED
    BY <1>3, <1>5, <2>1 DEF TellsBelow
<1>8. R(D) \ w.next = R(D - 1)
  BY <1>1, <1>2
<1>9. Dependants(label, edge, Query(v), R(D) \ w.next) \subseteq R(D)
  BY <1>1, <1>8
<1> QED
  BY <1>1, <1>2, <1>3, <1>5, <1>6, <1>7, <1>9 DEF LevelExact

(* The level is over and so is the walk: cut at the cap, nothing farther,  *)
(* or as far as asked.                                                     *)
LEMMA DoneIsExact ==
  ASSUME NEW w \in Walk, NEW s, NEW v, NEW t, w.entry \in Node,
         RowsExact(label, edge, w, s),
         w.rows # {} \/ w.next = {} \/ w.depth = w.maxDepth,
         \A q \in w.rows : q.node \notin w.visited,
         v.maxDepth = w.maxDepth, v.entry = w.entry, Query(v) = Query(w),
         \A k : Told(t, k) = Told(s, k),
         LastOf(t).depth = w.depth, LastOf(t).truncated = (w.rows # {})
  PROVE  DoneExact(label, edge, v, t)
<1> DEFINE R(k) == Reach(label, edge, w, k)
           D == w.depth
           M == w.maxDepth
<1>1. /\ D \in Nat /\ D - 1 \in Nat /\ R(D - 1) \subseteq R(D)
      /\ w.entry \in R(D) => w.entry \in R(D - 1)
      /\ R(D) = R(D - 1) \cup Dependants(label, edge, Query(w), R(D - 1))
  BY ReachNext, Zenon
<1>2. /\ w.visited = R(D - 1) \cup {w.entry} \cup w.next
      /\ w.next \cup NodesOf(w.rows) = R(D) \ (R(D - 1) \cup {w.entry})
      /\ \A k \in Nat : D <= k => Told(s, k) = w.visited \ {w.entry}
  BY DEF RowsExact
<1>3. \A k : Reach(label, edge, v, k) = R(k)
  BY DEF Reach
<1>4. /\ D \in 1 .. M /\ M \in Nat
      /\ \A k \in 1 .. D - 1 : Told(s, k) = R(k) \ {w.entry}
  BY DEF RowsExact, TellsBelow, Walk
<1>5. \A i, j \in Nat : i <= j => R(i) \subseteq R(j)
  BY WithinGrows DEF Reach
<1>6. ASSUME w.rows = {}, w.next = {}, NEW k \in Nat, D <= k PROVE R(k) = R(D - 1)
  <2>1. R(D) = R(D - 1)
    BY <1>1, <1>2, <1>6 DEF NodesOf
  <2>2. (D - 1) + 1 = D /\ D - 1 <= k
    BY <1>1, <1>6
  <2>3. Within(label, edge, Query(w), (D - 1) + 1) = Within(label, edge, Query(w), D - 1)
    BY <2>1, <2>2 DEF Reach
  <2>4. Within(label, edge, Query(w), k) = Within(label, edge, Query(w), D - 1)
    BY <1>1, <2>2, <2>3, WithinStops
  <2> QED
    BY <2>4 DEF Reach
<1> HIDE DEF D, M, R
<1>7. ASSUME NEW k \in 1 .. M
      PROVE  /\ Told(s, k) \subseteq R(k) \ {w.entry}
             /\ (w.rows = {} \/ k < D) => Told(s, k) = R(k) \ {w.entry}
             /\ w.rows # {} => Told(s, k) # R(M) \ {w.entry}
  <2>1. Told(s, k) \subseteq w.visited /\ Told(s, k) \subseteq R(k) \ {w.entry}
    <3>1. CASE k < D
      <4>1. k \in 1 .. D - 1 /\ k <= D - 1 /\ k \in Nat
        BY <1>1, <3>1
      <4> QED
        BY <1>1, <1>2, <1>4, <1>5, <4>1
    <3>2. CASE ~ (k < D)
      <4>1. D <= k /\ k \in Nat
        BY <1>1, <3>2
      <4>2. R(D) \subseteq R(k)
        BY <1>1, <1>5, <4>1
      <4> QED
        BY <1>1, <1>2, <4>1, <4>2
    <3> QED
      BY <3>1, <3>2
  <2>2. ASSUME k < D PROVE Told(s, k) = R(k) \ {w.entry}
    <3>1. k \in 1 .. D - 1
      BY <1>1, <2>2
    <3> QED
      BY <1>4, <3>1
  <2>3. ASSUME w.rows = {}, ~ (k < D) PROVE Told(s, k) = R(k) \ {w.entry}
    <3>1. D <= k /\ k \in Nat /\ k <= M
      BY <1>1, <1>4, <2>3
    <3>2. Told(s, k) = w.visited \ {w.entry} /\ NodesOf(w.rows) = {}
      BY <1>2, <2>3, <3>1 DEF NodesOf
    <3>3. CASE w.next = {}
      BY <1>2, <1>6, <2>3, <3>1, <3>2, <3>3
    <3>4. CASE w.next # {}
      <4>1. k = D
        BY <1>1, <1>4, <2>3, <3>1, <3>4 DEF D, M
      <4> QED
        BY <1>1, <1>2, <3>2, <4>1
    <3> QED
      BY <3>3, <3>4
  <2>4. ASSUME w.rows # {} PROVE Told(s, k) # R(M) \ {w.entry}
    <3>1. PICK q \in w.rows : q.node \notin w.visited
      BY <2>4
    <3>2. q.node \in R(D) /\ q.node # w.entry
      BY <1>2, <3>1 DEF NodesOf
    <3>3. R(D) \subseteq R(M)
      BY <1>1, <1>4, <1>5
    <3> QED
      BY <2>1, <3>1, <3>2, <3>3
  <2> QED
    BY <2>1, <2>2, <2>3, <2>4
<1>8. ASSUME NEW k \in 1 .. v.maxDepth
      PROVE  /\ Told(t, k) \subseteq Reach(label, edge, v, k) \ {v.entry}
             /\ (~LastOf(t).truncated \/ k < LastOf(t).depth) =>
                  Told(t, k) = Reach(label, edge, v, k) \ {v.entry}
             /\ LastOf(t).truncated => Told(t, k) # Reach(label, edge, v, v.maxDepth) \ {v.entry}
  <2>1. /\ Told(t, k) = Told(s, k) /\ v.entry = w.entry /\ v.maxDepth = M
        /\ LastOf(t).depth = D /\ LastOf(t).truncated <=> w.rows # {}
    BY DEF D, M
  <2>2. k \in 1 .. M
    BY <2>1
  <2>3. Reach(label, edge, v, k) = R(k) /\ Reach(label, edge, v, v.maxDepth) = R(M)
    BY <1>3, <2>1
  <2>4. /\ Told(s, k) \subseteq R(k) \ {w.entry}
        /\ (w.rows = {} \/ k < D) => Told(s, k) = R(k) \ {w.entry}
        /\ w.rows # {} => Told(s, k) # R(M) \ {w.entry}
    BY <1>7, <2>2
  <2> QED
    BY <2>1, <2>3, <2>4
<1> QED
  BY <1>8 DEF DoneExact

(* Progress is sent: the walk goes on or ends. *)
LEMMA LevelOver ==
  ASSUME NEW w \in Walk, NEW s \in Seq(Event), Whole(w, s, "rows")
  PROVE  LET v == [w EXCEPT !.frontier = w.next, !.rows = {}, !.next = {}, !.depth = @ + 1]
             t == Append(s, [kind |-> "progress", explored |-> w.explored,
                             found |-> Cardinality(w.next), depth |-> w.depth,
                             truncated |-> w.rows # {}])
             state == IF w.rows # {} \/ w.next = {} \/ w.depth = w.maxDepth
                      THEN "done" ELSE "level"
         IN  /\ Whole(v, t, state)
             /\ RowsExact(label, edge, w, s) => Exact(label, edge, v, t, state)
<1> DEFINE v == [w EXCEPT !.frontier = w.next, !.rows = {}, !.next = {}, !.depth = @ + 1]
           e == [kind |-> "progress", explored |-> w.explored, found |-> Cardinality(w.next),
                 depth |-> w.depth, truncated |-> w.rows # {}]
           t == Append(s, e)
           ends == w.rows # {} \/ w.next = {} \/ w.depth = w.maxDepth
           state == IF ends THEN "done" ELSE "level"
<1>1. /\ v.depth = w.depth + 1 /\ v.maxDepth = w.maxDepth /\ v.maxNodes = w.maxNodes
      /\ v.entry = w.entry /\ v.sc = w.sc /\ v.narrow = w.narrow
      /\ v.rows = {} /\ v.visited = w.visited /\ v.frontier = w.next
      /\ v.next = {} /\ v.explored = w.explored
  BY DEF Walk
<1>w. v \in Walk
  <2>1. w.depth \in Nat /\ w.next \in SUBSET Nat /\ {} \in SUBSET Row /\ {} \in SUBSET Nat
    BY DEF Walk
  <2>2. w.depth + 1 \in Nat
    BY <2>1
  <2> HIDE DEF e, t, ends, state
  <2> QED
    BY <2>1, <2>2 DEF Walk
<1>2. e \in ProgressEvent
  <2>1. w.next \in SUBSET Nat /\ w.explored \in Nat /\ w.depth \in Nat
    BY DEF Walk
  <2>2. Cardinality(w.next) \in {Cardinality(S) : S \in SUBSET Nat}
    BY <2>1
  <2> QED
    BY <2>1, <2>2 DEF ProgressEvent
<1>3. /\ e.kind = "progress" /\ e.explored = w.explored /\ e.found = Cardinality(w.next)
      /\ e.depth = w.depth /\ e.truncated = (w.rows # {})
  OBVIOUS
<1> HIDE DEF v, e
<1>4. /\ NodeEvents(t) = NodeEvents(s)
      /\ \A i \in NodeEvents(s) : t[i] = s[i]
      /\ LastOf(t) = e
      /\ \A k : Told(t, k) = Told(s, k)
  BY <1>2, ProgressAppended
<1> HIDE DEF t
<1>5. Counted(w, s) /\ w.entry \in Node /\ w.maxDepth \in Nat \ {0}
  BY DEF Whole
<1>6. NodesTold(t) = NodesTold(s)
  BY <1>4 DEF NodesTold
<1>7. Counted(v, t)
  BY <1>1, <1>4, <1>5, <1>6 DEF Counted
<1>8. ends => SaysWhy(v, t)
  <2>1. w.next = {} => Cardinality(w.next) = 0
    BY FS_EmptySet
  <2> QED
    BY <1>1, <1>3, <1>4, <2>1 DEF SaysWhy
<1>9. Whole(v, t, state)
  BY <1>1, <1>5, <1>7, <1>8 DEF Whole
<1>10. ASSUME RowsExact(label, edge, w, s) PROVE Exact(label, edge, v, t, state)
  <2>1. Query(v) = Query(w)
    BY <1>1, SameQuery
  <2>2. CASE ends
    <3>1. LastOf(t).depth = w.depth /\ LastOf(t).truncated = (w.rows # {})
      BY <1>3, <1>4
    <3>2. \A q \in w.rows : q.node \notin w.visited
      BY <1>5 DEF Counted
    <3>3. DoneExact(label, edge, v, t)
      BY <1>1, <1>4, <1>5, <1>10, <2>1, <2>2, <3>1, <3>2, DoneIsExact
    <3> QED
      BY <2>2, <3>3 DEF Exact
  <2>3. CASE ~ends
    <3>1. LevelExact(label, edge, v, t)
      BY <1>1, <1>w, <1>4, <1>5, <1>10, <2>1, <2>3, NextLevelExact
    <3> QED
      BY <2>3, <3>1 DEF Exact
  <2> QED
    BY <2>2, <2>3
<1> QED
  BY <1>9, <1>10 DEF v, t, e

-----------------------------------------------------------------------------
(* The streams somebody reads, or has read to their end.                   *)
Live(c) == phase[c] \in {"calling", "streaming"} \/ ending[c] = "complete"

StreamTypeInv ==
  /\ ending \in [Call -> {"open", "refused", "complete", "broken"}]
  /\ opened \in [Call -> Nat]
  /\ changes \in Nat

(* Such a stream is whole as far as it went, and exact as long as the      *)
(* graph is the one its walk began on.                                     *)
StreamInv(c) ==
  /\ ending[c] = "complete" => /\ phase[c] = "closed" /\ st[c] = "done"
                               /\ read[c] = Len(sent[c])
  /\ Live(c) => Whole(walk[c], sent[c], st[c])
  /\ opened[c] <= changes
  /\ (Live(c) /\ opened[c] = changes) => Exact(label, edge, walk[c], sent[c], st[c])

StreamsInv == StreamTypeInv /\ \A c \in Call : StreamInv(c)

LEMMA StreamsInitially == EdgeInit => StreamsInv
<1> SUFFICES ASSUME EdgeInit PROVE StreamsInv
  OBVIOUS
<1>1. /\ ending = [c \in Call |-> "open"] /\ opened = [c \in Call |-> 0] /\ changes = 0
      /\ phase = [c \in Call |-> "idle"]
  BY DEF EdgeInit, ImpactInit
<1>2. StreamTypeInv
  BY <1>1 DEF StreamTypeInv
<1>3. ASSUME NEW c \in Call PROVE StreamInv(c)
  BY <1>1 DEF StreamInv, Live
<1> QED
  BY <1>2, <1>3 DEF StreamsInv

Still(d) == Untouched(d) /\ opened'[d] = opened[d] /\ ending'[d] = ending[d]

LEMMA StillKeeps ==
  ASSUME NEW d \in Call, StreamInv(d), Still(d), UNCHANGED graphVars
  PROVE  StreamInv(d)'
BY DEF StreamInv, Still, Untouched, Live, graphVars

(* A call that runs while its request is not over is being read. *)
LEMMA RunningIsLive ==
  ASSUME ScopeInv, StreamsInv, NEW c \in Call, Running(c)
  PROVE  /\ ending[c] # "complete"
         /\ phase[c] # "closed" => phase[c] \in {"calling", "streaming"} /\ Live(c)
BY DEF ScopeInv, GateInv, GateTypeInv, Phase, CallInv, StreamsInv, StreamInv, Running, Live

(* The engine's side of a call: what it must show of the call itself. *)
LEMMA CallStep ==
  ASSUME ScopeInv, StreamsInv, NEW c \in Call, ending[c] # "complete",
         UNCHANGED edgeVars, UNCHANGED graphVars,
         \A d \in Call \ {c} : st'[d] = st[d] /\ walk'[d] = walk[d] /\ sent'[d] = sent[d],
         \/ UNCHANGED opened
         \/ opened' = [opened EXCEPT ![c] = changes]
         \/ opened' = [opened EXCEPT ![c] = 0],
         Live(c) => Whole(walk'[c], sent'[c], st'[c]),
         (Live(c) /\ opened'[c] = changes) =>
            Exact(label, edge, walk'[c], sent'[c], st'[c])
  PROVE  StreamsInv'
<1>1. UNCHANGED <<phase, cred, context, read, ending, label, edge, changes>>
  BY DEF edgeVars, graphVars
<1>2. StreamTypeInv'
  BY <1>1 DEF StreamsInv, StreamTypeInv
<1>3. ASSUME NEW d \in Call \ {c} PROVE StreamInv(d)'
  <2>1. opened'[d] = opened[d]
    BY DEF StreamsInv, StreamTypeInv
  <2> QED
    BY <1>1, <2>1, StillKeeps DEF Still, Untouched, StreamsInv
<1>4. StreamInv(c)'
  <2>1. opened'[c] <= changes
    BY DEF StreamsInv, StreamTypeInv, StreamInv
  <2>2. Live(c)' = Live(c)
    BY <1>1 DEF Live
  <2> QED
    BY <1>1, <2>1, <2>2 DEF StreamInv
<1> QED
  BY <1>2, <1>3, <1>4 DEF StreamsInv

LEMMA FailStream ==
  ASSUME ScopeInv, StreamsInv, NEW c \in Call, Running(c), Fail(c),
         UNCHANGED edgeVars, UNCHANGED graphVars
  PROVE  StreamsInv'
<1>1. /\ st' = [st EXCEPT ![c] = "failed"] /\ walk' = [walk EXCEPT ![c] = NoWalk]
      /\ sent' = sent /\ opened' = [opened EXCEPT ![c] = 0]
  BY DEF Fail, Goto, Forget
<1>2. st'[c] = "failed"
      /\ \A d \in Call \ {c} : st'[d] = st[d] /\ walk'[d] = walk[d] /\ sent'[d] = sent[d]
  BY <1>1 DEF ScopeInv, WalkTypeInv
<1>3. Whole(walk'[c], sent'[c], st'[c]) /\ Exact(label, edge, walk'[c], sent'[c], st'[c])
  BY <1>2 DEF Whole, Exact
<1> QED
  BY <1>1, <1>2, <1>3, RunningIsLive, CallStep

LEMMA HandleStream ==
  ASSUME ScopeInv, StreamsInv, NEW c \in Call, phase[c] # "closed", Handle(c),
         UNCHANGED edgeVars
  PROVE  StreamsInv'
<1>1. CASE Fail(c)
  BY <1>1, FailStream DEF Handle, Running
<1>2. CASE ~Fail(c)
  <2> DEFINE v == [walk[c] EXCEPT !.depth = 1, !.visited = {walk[c].entry},
                                  !.frontier = {walk[c].entry}]
  <2>1. /\ st' = [st EXCEPT ![c] = "level"] /\ sent' = sent
        /\ walk' = [walk EXCEPT ![c].depth = 1, ![c].visited = {walk[c].entry},
                                ![c].frontier = {walk[c].entry}]
        /\ opened' = [opened EXCEPT ![c] = changes]
        /\ walk[c].maxNodes > 0 /\ st[c] = "opened" /\ UNCHANGED graphVars
    BY <1>2 DEF Handle, Goto, Accepts
  <2>2. walk \in [Call -> Walk] /\ st'[c] = "level" /\ sent'[c] = sent[c]
        /\ \A d \in Call \ {c} : st'[d] = st[d] /\ walk'[d] = walk[d] /\ sent'[d] = sent[d]
    BY <2>1 DEF ScopeInv, WalkTypeInv
  <2>3. walk'[c] = v
    BY <2>1, <2>2
  <2>4. ending[c] # "complete" /\ Live(c)
    BY <2>1, RunningIsLive DEF Running
  <2>5. Whole(walk[c], sent[c], "opened")
    BY <2>1, <2>4 DEF StreamsInv, StreamInv
  <2>6. Whole(v, sent[c], "level") /\ LevelExact(label, edge, v, sent[c])
    BY <2>1, <2>2, <2>5, WalkBegins
  <2> HIDE DEF v
  <2>7. Exact(label, edge, v, sent[c], "level")
    BY <2>6 DEF Exact
  <2> QED
    BY <2>1, <2>2, <2>3, <2>4, <2>6, <2>7, CallStep
<1> QED
  BY <1>1, <1>2

LEMMA FetchStream ==
  ASSUME ScopeInv, StreamsInv, NEW c \in Call, phase[c] # "closed", FetchLevel(c),
         UNCHANGED edgeVars
  PROVE  StreamsInv'
<1>1. CASE Fail(c)
  BY <1>1, FailStream DEF FetchLevel, Running
<1>2. CASE ~Fail(c)
  <2> DEFINE v == [walk[c] EXCEPT !.rows = LevelRows(walk[c]), !.next = {}]
  <2>1. /\ st' = [st EXCEPT ![c] = "rows"] /\ sent' = sent
        /\ walk' = [walk EXCEPT ![c].rows = LevelRows(walk[c]), ![c].next = {}]
        /\ UNCHANGED opened /\ st[c] = "level" /\ UNCHANGED graphVars
    BY <1>2 DEF FetchLevel, Goto
  <2>2. walk \in [Call -> Walk] /\ st'[c] = "rows" /\ sent'[c] = sent[c]
        /\ \A d \in Call \ {c} : st'[d] = st[d] /\ walk'[d] = walk[d] /\ sent'[d] = sent[d]
    BY <2>1 DEF ScopeInv, WalkTypeInv
  <2>3. walk'[c] = v
    BY <2>1, <2>2
  <2>4. ending[c] # "complete" /\ Live(c)
    BY <2>1, RunningIsLive DEF Running
  <2>5. Whole(walk[c], sent[c], "level")
        /\ (opened[c] = changes => LevelExact(label, edge, walk[c], sent[c]))
    BY <2>1, <2>4 DEF StreamsInv, StreamInv, Exact
  <2>6. /\ Whole(v, sent[c], "rows")
        /\ LevelExact(label, edge, walk[c], sent[c]) => RowsExact(label, edge, v, sent[c])
    BY <2>2, <2>5, LevelRead
  <2> HIDE DEF v
  <2>7. opened[c] = changes => Exact(label, edge, v, sent[c], "rows")
    BY <2>5, <2>6 DEF Exact
  <2> QED
    BY <2>1, <2>2, <2>3, <2>4, <2>6, <2>7, CallStep
<1> QED
  BY <1>1, <1>2

LEMMA EmitStream ==
  ASSUME ScopeInv, StreamsInv, NEW c \in Call, phase[c] # "closed", EmitNode(c),
         UNCHANGED edgeVars
  PROVE  StreamsInv'
<1> DEFINE w == walk[c]
<1>1. PICK r \in w.rows :
        /\ walk' = [walk EXCEPT ![c].rows = @ \ {r}, ![c].visited = @ \cup {r.node},
                                ![c].next = @ \cup {r.node}, ![c].explored = @ + 1]
        /\ sent' = [sent EXCEPT ![c] = Append(@, [kind |-> "node", node |-> r.node,
                                                  hop |-> w.depth, label |-> r.label])]
  BY DEF EmitNode, SendEvent
<1> DEFINE v == [w EXCEPT !.rows = @ \ {r}, !.visited = @ \cup {r.node},
                          !.next = @ \cup {r.node}, !.explored = @ + 1]
           t == Append(sent[c], [kind |-> "node", node |-> r.node, hop |-> w.depth,
                                 label |-> r.label])
<1>2. UNCHANGED <<st, opened>> /\ UNCHANGED graphVars /\ st[c] = "rows"
      /\ w.explored < w.maxNodes
  BY DEF EmitNode
<1>3. walk \in [Call -> Walk] /\ sent \in [Call -> Seq(Event)]
  BY DEF ScopeInv, WalkTypeInv
<1>4. /\ walk'[c] = v /\ sent'[c] = t
      /\ \A d \in Call \ {c} : st'[d] = st[d] /\ walk'[d] = walk[d] /\ sent'[d] = sent[d]
  BY <1>1, <1>2, <1>3
<1>5. ending[c] # "complete" /\ Live(c)
  BY <1>2, RunningIsLive DEF Running
<1>6. Whole(w, sent[c], "rows")
      /\ (opened[c] = changes => RowsExact(label, edge, w, sent[c]))
  BY <1>2, <1>5 DEF StreamsInv, StreamInv, Exact
<1>7. Whole(v, t, "rows")
      /\ (RowsExact(label, edge, w, sent[c]) => RowsExact(label, edge, v, t))
  <2>1. w \in Walk /\ sent[c] \in Seq(Event) /\ r \in w.rows
    BY <1>1, <1>3
  <2> HIDE DEF w
  <2> QED
    BY <1>2, <1>6, <2>1, RowSent
<1> HIDE DEF v, t
<1>8. opened[c] = changes => Exact(label, edge, v, t, "rows")
  BY <1>6, <1>7 DEF Exact
<1> QED
  BY <1>2, <1>4, <1>5, <1>7, <1>8, CallStep

LEMMA ProgressStream ==
  ASSUME ScopeInv, StreamsInv, NEW c \in Call, phase[c] # "closed", EmitProgress(c),
         UNCHANGED edgeVars
  PROVE  StreamsInv'
<1> DEFINE w == walk[c]
           v == [w EXCEPT !.frontier = w.next, !.rows = {}, !.next = {}, !.depth = @ + 1]
           t == Append(sent[c], [kind |-> "progress", explored |-> w.explored,
                                 found |-> Cardinality(w.next), depth |-> w.depth,
                                 truncated |-> w.rows # {}])
           state == IF w.rows # {} \/ w.next = {} \/ w.depth = w.maxDepth
                    THEN "done" ELSE "level"
<1>1. /\ walk' = [walk EXCEPT ![c].frontier = w.next, ![c].rows = {}, ![c].next = {},
                              ![c].depth = @ + 1]
      /\ sent' = [sent EXCEPT ![c] = Append(@, [kind |-> "progress", explored |-> w.explored,
                                 found |-> Cardinality(w.next), depth |-> w.depth,
                                 truncated |-> w.rows # {}])]
      /\ st' = [st EXCEPT ![c] = state]
      /\ UNCHANGED opened /\ UNCHANGED graphVars /\ st[c] = "rows"
  BY DEF EmitProgress, SendEvent, Goto
<1>2. /\ walk \in [Call -> Walk] /\ sent \in [Call -> Seq(Event)]
      /\ c \in DOMAIN st
  BY DEF ScopeInv, WalkTypeInv
<1>3. /\ walk'[c] = v /\ sent'[c] = t /\ st'[c] = state
      /\ \A d \in Call \ {c} : st'[d] = st[d] /\ walk'[d] = walk[d] /\ sent'[d] = sent[d]
  <2> HIDE DEF state
  <2>1. st \in [Call -> {"idle", "opened", "level", "rows", "done", "failed"}]
    BY DEF ScopeInv, WalkTypeInv
  <2> QED
    BY <1>1, <1>2, <2>1
<1>4. ending[c] # "complete" /\ Live(c)
  BY <1>1, RunningIsLive DEF Running
<1>5. Whole(w, sent[c], "rows")
      /\ (opened[c] = changes => RowsExact(label, edge, w, sent[c]))
  BY <1>1, <1>4 DEF StreamsInv, StreamInv, Exact
<1>6. /\ Whole(v, t, state)
      /\ RowsExact(label, edge, w, sent[c]) => Exact(label, edge, v, t, state)
  <2>1. w \in Walk /\ sent[c] \in Seq(Event)
    BY <1>2
  <2> HIDE DEF w
  <2> QED
    BY <1>5, <2>1, LevelOver
<1> HIDE DEF v, t, state
<1> QED
  BY <1>1, <1>3, <1>4, <1>5, <1>6, CallStep

LEMMA ServerStream ==
  ASSUME ScopeInv, StreamsInv, NEW c \in Call, ServerStep(c)
  PROVE  StreamsInv'
<1>1. CASE CancelCall(c)
  <2>1. Running(c) /\ Fail(c) /\ UNCHANGED edgeVars /\ UNCHANGED graphVars
    BY <1>1 DEF CancelCall, Cancelled
  <2> QED
    BY <2>1, FailStream
<1>2. CASE ~CancelCall(c)
  BY <1>2, HandleStream, FetchStream, EmitStream, ProgressStream DEF ServerStep
<1> QED
  BY <1>1, <1>2

-----------------------------------------------------------------------------
(* The handler's side: it opens the call, reads its events, and ends.      *)

LEMMA OpenStreams ==
  ASSUME ScopeInv, StreamsInv, NEW c \in Call, OpenStream(c)
  PROVE  StreamsInv'
<1>1. PICK req \in Request[c] : Open(c, context[c], req)
  BY DEF OpenStream
<1>2. req.entry \in Node /\ req.maxDepth \in Nat
  <2>1. req \in UNION Range(Request)
    BY EdgeAssumption DEF Range
  <2> QED
    BY <2>1, EdgeAssumption
<1> DEFINE v == [NoWalk EXCEPT !.sc = context[c], !.narrow = req.narrow, !.entry = req.entry,
                   !.maxNodes = req.maxNodes,
                   !.maxDepth = IF req.maxDepth = 0 THEN DefaultMaxDepth ELSE req.maxDepth]
<1>3. /\ st' = [st EXCEPT ![c] = "opened"] /\ UNCHANGED <<sent, opened, read, ending, cred, context>>
      /\ walk' = [walk EXCEPT ![c] = v] /\ phase' = [phase EXCEPT ![c] = "calling"]
      /\ UNCHANGED graphVars /\ phase[c] = "reading"
  BY <1>1 DEF OpenStream, Open, Goto, Enter
<1>4. /\ v.rows = {} /\ v.explored = 0 /\ v.entry \in Node /\ v.maxDepth \in Nat \ {0}
  BY <1>2 DEF NoWalk, DefaultMaxDepth
<1> HIDE DEF v
<1>5. /\ st'[c] = "opened" /\ walk'[c] = v /\ phase'[c] = "calling" /\ sent[c] = <<>>
      /\ \A d \in Call \ {c} : st'[d] = st[d] /\ walk'[d] = walk[d] /\ phase'[d] = phase[d]
  BY <1>3 DEF ScopeInv, GateInv, GateTypeInv, WalkTypeInv, CallInv
<1>6. Whole(v, sent[c], "opened") /\ Exact(label, edge, v, sent[c], "opened")
  BY <1>4, <1>5 DEF Whole, Exact
<1>7. \A d \in Call \ {c} : StreamInv(d)'
  BY <1>3, <1>5, StillKeeps DEF Still, Untouched, StreamsInv
<1>8. StreamInv(c)'
  <2>1. ending[c] # "complete" /\ opened[c] <= changes
    BY <1>3 DEF StreamsInv, StreamInv
  <2> QED
    BY <1>3, <1>5, <1>6, <2>1 DEF StreamInv, graphVars
<1>9. StreamTypeInv'
  BY <1>3 DEF StreamsInv, StreamTypeInv, graphVars
<1> QED
  BY <1>7, <1>8, <1>9 DEF StreamsInv

(* A request refused or broken off claims nothing. *)
LEMMA BreakStream ==
  ASSUME ScopeInv, StreamsInv, NEW c \in Call, NEW how \in {"refused", "broken"}, Return(c, how)
  PROVE  StreamsInv'
<1>1. /\ phase' = [phase EXCEPT ![c] = "closed"] /\ ending' = [ending EXCEPT ![c] = how]
      /\ context' = [context EXCEPT ![c] = NoContext]
      /\ cred' = [cred EXCEPT ![c] = NoCredential] /\ read' = [read EXCEPT ![c] = 0]
      /\ sent' = [sent EXCEPT ![c] = <<>>] /\ opened' = [opened EXCEPT ![c] = 0]
      /\ walk' = walk \/ walk' = [walk EXCEPT ![c] = NoWalk]
      /\ st' = st /\ UNCHANGED graphVars
  BY DEF Return, Enter, Forget
<1>2. StreamTypeInv'
  BY <1>1 DEF StreamsInv, StreamTypeInv, graphVars
<1>3. ASSUME NEW d \in Call \ {c} PROVE StreamInv(d)'
  <2>1. Untouched(d)
    BY <1>1 DEF Untouched, ScopeInv, WalkTypeInv, GateInv, GateTypeInv
  <2>2. opened'[d] = opened[d] /\ ending'[d] = ending[d]
    BY <1>1 DEF StreamsInv, StreamTypeInv
  <2> QED
    BY <1>1, <2>1, <2>2, StillKeeps DEF Still, StreamsInv
<1>4. StreamInv(c)'
  <2>1. phase'[c] = "closed" /\ ending'[c] = how /\ opened'[c] = 0
    BY <1>1 DEF ScopeInv, GateInv, GateTypeInv, StreamsInv, StreamTypeInv
  <2>2. ~Live(c)' /\ ending'[c] # "complete"
    BY <2>1 DEF Live
  <2>3. opened'[c] <= changes'
    BY <1>1, <2>1 DEF StreamsInv, StreamTypeInv, graphVars
  <2> QED
    BY <2>2, <2>3 DEF StreamInv
<1> QED
  BY <1>2, <1>3, <1>4 DEF StreamsInv

(* The end of the call is seen only once all it sent was copied. *)
LEMMA CompleteStream ==
  ASSUME ScopeInv, StreamsInv, NEW c \in Call, Complete(c)
  PROVE  StreamsInv'
<1>1. /\ phase' = [phase EXCEPT ![c] = "closed"] /\ ending' = [ending EXCEPT ![c] = "complete"]
      /\ context' = [context EXCEPT ![c] = NoContext]
      /\ UNCHANGED <<cred, read, sent, walk, opened, st>> /\ UNCHANGED graphVars
  BY DEF Complete, End, Return, Enter
<1>2. phase[c] \in {"calling", "streaming"} /\ st[c] = "done" /\ ~Unread(c)
  BY DEF Complete, RecvEof
<1>3. StreamTypeInv'
  BY <1>1 DEF StreamsInv, StreamTypeInv, graphVars
<1>4. ASSUME NEW d \in Call \ {c} PROVE StreamInv(d)'
  <2>1. Untouched(d)
    BY <1>1 DEF Untouched, ScopeInv, WalkTypeInv, GateInv, GateTypeInv
  <2>2. opened'[d] = opened[d] /\ ending'[d] = ending[d]
    BY <1>1 DEF StreamsInv, StreamTypeInv
  <2> QED
    BY <1>1, <2>1, <2>2, StillKeeps DEF Still, StreamsInv
<1>5. StreamInv(c)'
  <2>1. phase'[c] = "closed" /\ ending'[c] = "complete"
    BY <1>1 DEF ScopeInv, GateInv, GateTypeInv, StreamsInv, StreamTypeInv
  <2>2. read[c] = Len(sent[c])
    <3>1. read[c] \in Nat /\ Len(sent[c]) \in Nat /\ read[c] <= Len(sent[c])
      BY DEF ScopeInv, WalkTypeInv, CallInv
    <3> QED
      BY <1>2, <3>1 DEF Unread
  <2>3. Live(c)
    BY <1>2 DEF Live
  <2> QED
    BY <1>1, <1>2, <2>1, <2>2, <2>3 DEF StreamInv, StreamsInv, graphVars
<1> QED
  BY <1>3, <1>4, <1>5 DEF StreamsInv

(* The steps that leave the calls alone: a request moves on before its     *)
(* call is opened, an event is copied, a context ends.                     *)
LEMMA MoveStreams ==
  ASSUME ScopeInv, StreamsInv, UNCHANGED <<label, edge, changes, st, walk, sent, opened, ending>>,
         NEW c \in Call, phase[c] # "closed",
         \A d \in Call \ {c} : phase'[d] = phase[d] /\ read'[d] = read[d],
         \/ phase'[c] = phase[c]
         \/ phase'[c] \in {"authorized", "reading"}
         \/ phase[c] \in {"calling", "streaming"}
  PROVE  StreamsInv'
<1>1. StreamTypeInv'
  BY DEF StreamsInv, StreamTypeInv
<1>2. ending[c] # "complete"
  BY DEF StreamsInv, StreamInv
<1>3. ASSUME NEW d \in Call PROVE (Live(d)' => Live(d)) /\ (ending[d] = "complete" => d # c)
  BY <1>2 DEF Live
<1>4. ASSUME NEW d \in Call PROVE StreamInv(d)'
  BY <1>2, <1>3, <1>4 DEF StreamInv, StreamsInv
<1> QED
  BY <1>1, <1>4 DEF StreamsInv

LEMMA GraphStreams ==
  ASSUME ScopeInv, StreamsInv, GraphWrite, UNCHANGED edgeVars
  PROVE  StreamsInv'
<1>1. /\ changes' = changes + 1 /\ UNCHANGED <<st, walk, sent, opened>>
      /\ UNCHANGED <<phase, read, ending>>
  BY DEF GraphWrite, callVars, edgeVars
<1>2. StreamTypeInv'
  BY <1>1 DEF StreamsInv, StreamTypeInv
<1>3. ASSUME NEW c \in Call PROVE StreamInv(c)'
  <2>1. opened[c] \in Nat /\ changes \in Nat /\ opened[c] <= changes
    BY DEF StreamsInv, StreamTypeInv, StreamInv
  <2>2. opened'[c] <= changes' /\ opened'[c] # changes'
    BY <1>1, <2>1
  <2>3. Live(c)' = Live(c)
    BY <1>1 DEF Live
  <2> QED
    BY <1>1, <2>2, <2>3 DEF StreamInv, StreamsInv
<1> QED
  BY <1>2, <1>3 DEF StreamsInv

LEMMA StreamsStep ==
  ASSUME ScopeInv, StreamsInv, [EdgeNext]_vars
  PROVE  StreamsInv'
<1>1. ASSUME NEW c \in Call,
             \/ AuthorizeUnavailable(c) \/ RejectHeaders(c) \/ RefuseStream(c)
             \/ RejectBody(c) \/ BodyTooLate(c) \/ StreamUnavailable(c) \/ FirstError(c)
             \/ WriteFails(c) \/ StreamError(c)
      PROVE  StreamsInv'
  <2>1. \E how \in {"refused", "broken"} : Return(c, how)
    BY <1>1 DEF AuthorizeUnavailable, RejectHeaders, RefuseStream, RejectBody, BodyTooLate,
       StreamUnavailable, FirstError, WriteFails, StreamError, Refuse, GiveUp, End
  <2> QED
    BY <2>1, BreakStream
<1>2. ASSUME NEW c \in Call, Authorize(c) PROVE StreamsInv'
  <2>1. CASE Refuse(c)
    BY <2>1, BreakStream DEF Refuse
  <2>2. CASE ~Refuse(c)
    <3>1. /\ phase[c] = "idle" /\ phase' = [phase EXCEPT ![c] = "authorized"]
          /\ UNCHANGED <<read, ending>> /\ UNCHANGED impactVars
      BY <1>2, <2>2 DEF Authorize, Enter
    <3>2. phase'[c] = "authorized" /\ \A d \in Call \ {c} : phase'[d] = phase[d]
      BY <3>1 DEF ScopeInv, GateInv, GateTypeInv
    <3> QED
      BY <3>1, <3>2, MoveStreams DEF impactVars
  <2> QED
    BY <2>1, <2>2
<1>3. ASSUME NEW c \in Call, Admit(c) \/ CopyEvent(c) \/ ContextEnds(c) PROVE StreamsInv'
  <2>1. UNCHANGED impactVars /\ UNCHANGED ending /\ phase[c] # "closed"
    BY <1>3 DEF Admit, CopyEvent, ContextEnds, Holding
  <2>2. \A d \in Call \ {c} : phase'[d] = phase[d] /\ read'[d] = read[d]
    BY <1>3 DEF Admit, CopyEvent, ContextEnds, Enter, ScopeInv, GateInv, GateTypeInv, WalkTypeInv
  <2>3. \/ phase'[c] = phase[c]
        \/ phase'[c] \in {"authorized", "reading"}
        \/ phase[c] \in {"calling", "streaming"}
    BY <1>3 DEF Admit, CopyEvent, ContextEnds, Enter, ScopeInv, GateInv, GateTypeInv
  <2> QED
    BY <2>1, <2>2, <2>3, MoveStreams DEF impactVars
<1>4. ASSUME UNCHANGED vars PROVE StreamsInv'
  <2>1. UNCHANGED graphVars /\ UNCHANGED <<opened, ending, changes>>
        /\ \A d \in Call : Still(d)
    BY <1>4 DEF vars, impactVars, edgeVars, graphVars, Still, Untouched
  <2> QED
    BY <2>1, StillKeeps DEF StreamsInv, StreamTypeInv
<1> QED
  BY <1>1, <1>2, <1>3, <1>4, OpenStreams, CompleteStream, ServerStream, GraphStreams
  DEF EdgeNext, HandlerStep

LEMMA StreamsHold == EdgeSpec => [](ScopeInv /\ StreamsInv)
<1>1. EdgeInit => ScopeInv /\ SlotsMatchHolders /\ StreamsInv
  BY ScopeInitially, NoHolderInitially, StreamsInitially
<1>2. ScopeInv /\ SlotsMatchHolders /\ StreamsInv /\ [EdgeNext]_vars
        => ScopeInv' /\ SlotsMatchHolders' /\ StreamsInv'
  BY ScopeStep, GateStep, StreamsStep DEF ScopeInv
<1> QED
  BY <1>1, <1>2, PTL DEF EdgeSpec

(* A stream that ends without an error event is whole, whatever else the   *)
(* gateway serves and whoever writes the graph.                            *)
THEOREM CompleteIsWhole == EdgeSpec => []CompleteMeansWhole
<1>1. StreamsInv => CompleteMeansWhole
  <2> SUFFICES ASSUME StreamsInv, NEW c \in Call, ending[c] = "complete"
               PROVE  /\ read[c] = Len(sent[c])
                      /\ \A i, j \in NodeEvents(sent[c]) :
                           sent[c][i].node = sent[c][j].node => i = j
                      /\ LastOf(sent[c]).kind = "progress"
                      /\ LastOf(sent[c]).explored = Cardinality(NodeEvents(sent[c]))
                      /\ Cardinality(NodeEvents(sent[c])) <= walk[c].maxNodes
                      /\ \/ LastOf(sent[c]).truncated \/ LastOf(sent[c]).found = 0
                         \/ LastOf(sent[c]).depth = walk[c].maxDepth
    BY DEF CompleteMeansWhole
  <2>1. Whole(walk[c], sent[c], "done") /\ read[c] = Len(sent[c])
    BY DEF StreamsInv, StreamInv, Live
  <2> QED
    BY <2>1 DEF Whole, Counted, SaysWhy
<1> QED
  BY <1>1, StreamsHold, PTL

(* And if nobody wrote the graph since its walk began, it tells exactly    *)
(* the nodes in reach, each at its distance.                               *)
THEOREM StableIsExact == EdgeSpec => []StableStreamExact
<1>1. StreamsInv => StableStreamExact
  <2> SUFFICES ASSUME StreamsInv, NEW c \in Call, ending[c] = "complete", opened[c] = changes,
                      NEW k \in 1 .. walk[c].maxDepth
               PROVE  LET full(j) == Within(label, edge, Query(walk[c]), j) \ {walk[c].entry}
                          last == LastOf(sent[c])
                      IN  /\ Told(sent[c], k) \subseteq full(k)
                          /\ (~last.truncated \/ k < last.depth) => Told(sent[c], k) = full(k)
                          /\ last.truncated => Told(sent[c], k) # full(walk[c].maxDepth)
    BY DEF StableStreamExact
  <2>1. Exact(label, edge, walk[c], sent[c], "done")
    BY DEF StreamsInv, StreamInv, Live
  <2>2. DoneExact(label, edge, walk[c], sent[c])
    BY <2>1 DEF Exact
  <2> QED
    BY <2>2 DEF DoneExact, Reach
<1> QED
  BY <1>1, StreamsHold, PTL
=============================================================================
