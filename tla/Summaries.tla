----------------------------- MODULE Summaries -----------------------------
(***************************************************************************)
(* RAPTOR summaries: a hierarchy of code nodes is summarized bottom up for *)
(* one reader, each node from the semantic cache or else by the model from *)
(* the node's source and its children's summaries; what the reader may not *)
(* see takes no part. Several summarizers share the cache; each works on   *)
(* the hierarchy its caller gave it, which another may know in an older or *)
(* newer version.                                                          *)
(*                                                                         *)
(* The code leaves the port of the model open (SummaryModel); here it is   *)
(* the LLM gateway, through which the platform reaches its models.         *)
(*                                                                         *)
(* A source is the set of its node and of all the nodes it encloses; a     *)
(* summary is the set of the nodes whose source it was made from.          *)
(***************************************************************************)
EXTENDS SemanticCache, LlmGateway, SequencesExt

CONSTANTS
  Request,     \* [Client -> what it may be asked: [sc, h], h a version of the
               \* hierarchy: [id -> [hash, level, children, label]]]
  Root,        \* id of the node to summarize
  Logic,       \* the fingerprint of the summarizer's logic
  ModelRoute,  \* the route of the model
  MaxRuns      \* summaries asked for, bounded

ASSUME BoundsAssumption == MaxRuns \in Nat /\ ModelRoute \in Route

ASSUME RequestAssumption ==
  /\ DOMAIN Request = Client
  /\ \A q \in UNION Range(Request) :
       IsFiniteSet(DOMAIN q.h) /\ \A n \in DOMAIN q.h : q.h[n].level \in Nat

VARIABLES
  runs,   \* summaries asked for
  run     \* [Client -> the local variables of summarize]

summaryVars == <<runs, run>>
vars == <<redis, failures, opened, probe, phase, key, status, answer, runs, run>>

NoRun == [pc |-> "idle", sc |-> NoContext, h |-> <<>>, view |-> {}, todo |-> <<>>,
          done |-> <<>>, text |-> {}]

Init ==
  /\ CacheInit
  /\ GatewayInit
  /\ runs = 0
  /\ run = [s \in Client |-> NoRun]

-----------------------------------------------------------------------------
(* The hierarchy. Reach: the nodes below n by paths in S.                  *)

Reach(h, n, S) ==
  LET grow(R) == R \cup (S \cap UNION {Range(h[m].children) : m \in R})
      at[k \in 0..Cardinality(S)] == IF k = 0 THEN {n} \cap S ELSE grow(at[k - 1])
  IN at[Cardinality(S)]

Valid(h) ==
  /\ Root \in DOMAIN h
  /\ \A n \in Reach(h, Root, DOMAIN h) : \A c \in Range(h[n].children) :
       c \in DOMAIN h /\ h[c].level < h[n].level

(* Hashes are Merkle hashes: one hash stands for one source, children and  *)
(* all (merkle_hash of the ingestion).                                     *)
Hashes(h, N) == {h[m].hash : m \in N}

ASSUME MerkleAssumption ==
  \A h, g \in {x \in {q.h : q \in UNION Range(Request)} : Valid(x)} : \A n \in DOMAIN h, m \in DOMAIN g :
    h[n].hash = g[m].hash =>
      Hashes(h, Reach(h, n, DOMAIN h)) = Hashes(g, Reach(g, m, DOMAIN g))

(* The orders with each node after its children, and once; the one of the  *)
(* depth-first visit is among them.                                        *)
Postorders(h) ==
  {order \in SetToSeqs(Reach(h, Root, DOMAIN h)) :
     \A i, j \in DOMAIN order : order[j] \in Range(h[order[i]].children) => j < i}

Authorized(sc, h, n) ==
  /\ \A v \in {h[n].label.tenant, h[n].label.repo, h[n].label.group} : ValidValue(v)
  /\ InScope(h[n].label, sc)

(* The nodes the reader sees: those with an authorized path from the root. *)
Projection(sc, h) == Reach(h, Root, {n \in DOMAIN h : Authorized(sc, h, n)})

Visible(r, n) == Range(r.h[n].children) \cap DOMAIN r.done

(* A node is complete when all its children are visible and complete.      *)
Complete(r, n) ==
  \A c \in Range(r.h[n].children) : c \in DOMAIN r.done /\ r.done[c].complete

(* Mutant: the key of a restricted view is that of the whole node.         *)
EffectiveHashOfNode(r, n) == [ast |-> r.h[n].hash, view |-> <<>>]

(* The hash of a complete node is its own; that of a restricted view also  *)
(* tells which children are hidden and how the others are seen.            *)
EffectiveHash(r, n) ==
  LET view(c) == <<c, IF c \in DOMAIN r.done THEN <<r.done[c].hash>> ELSE <<>>>>
      children == r.h[n].children
  IN [ast |-> r.h[n].hash,
      view |-> IF Complete(r, n) THEN <<>> ELSE [i \in DOMAIN children |-> view(children[i])]]

KeyFor(r, n) == CacheKey("", EffectiveHash(r, n), Logic, Fingerprint(r.sc))

(* What the model is given: a source only when all of it may be seen.      *)
Source(h, n) == {[hash |-> h[m].hash, label |-> h[m].label] : m \in Reach(h, n, DOMAIN h)}

(* Mutant: the source of a restricted node is not blanked.                 *)
ModelInputUnblanked(r, n) ==
  Source(r.h, n) \cup UNION {r.done[c].text : c \in Visible(r, n)}

ModelInput(r, n) ==
  (IF Complete(r, n) THEN Source(r.h, n) ELSE {})
    \cup UNION {r.done[c].text : c \in Visible(r, n)}

-----------------------------------------------------------------------------
(* summarize. *)

Current(s) == Head(run[s].todo)
Fail(s) == run' = [run EXCEPT ![s] = NoRun]

Start(s) ==
  /\ run[s].pc \in {"idle", "returned"}
  /\ runs < MaxRuns
  /\ runs' = runs + 1
  /\ \E q \in Request[s] :
       IF ~HasScope(q.sc) \/ ~Valid(q.h) \/ ~Authorized(q.sc, q.h, Root) THEN Fail(s)
       ELSE \E order \in Postorders(q.h) :
              run' = [run EXCEPT ![s] =
                [NoRun EXCEPT !.pc = "get", !.sc = q.sc, !.h = q.h,
                   !.view = Projection(q.sc, q.h), !.todo = order]]
  /\ UNCHANGED <<redis, gatewayVars>>

(* The summary of the current node is known: on to the next one.           *)
Done(s, text) ==
  LET r == run[s]
      n == Current(s)
      node == [hash |-> EffectiveHash(r, n), complete |-> Complete(r, n), text |-> text]
  IN run' = [run EXCEPT ![s].done = [m \in DOMAIN @ \cup {n} |-> IF m = n THEN node ELSE @[m]],
                        ![s].todo = Tail(@),
                        ![s].text = {},
                        ![s].pc = IF Len(r.todo) = 1 THEN "returned" ELSE "get"]

(* What the reader does not see is passed over. *)
PassOver(s) ==
  /\ run[s].pc = "get"
  /\ Current(s) \notin run[s].view
  /\ run' = [run EXCEPT ![s].todo = Tail(@)]
  /\ UNCHANGED <<redis, gatewayVars, runs>>

LookUp(s) ==
  /\ run[s].pc = "get"
  /\ Current(s) \in run[s].view
  /\ \E found \in Get(run[s].sc, KeyFor(run[s], Current(s))) :
       CASE found.code = "error" -> Fail(s)
         [] found.code = "hit"   -> Done(s, found.value)
         [] found.code = "miss"  -> run' = [run EXCEPT ![s].pc = "generate"]
  /\ UNCHANGED <<redis, gatewayVars, runs>>

AskModel(s) ==
  /\ run[s].pc = "generate"
  /\ Ask(s, ModelRoute)
  /\ run' = [run EXCEPT ![s].pc = "wait"]
  /\ UNCHANGED <<redis, runs>>

GatewayWorks(s) == Progress(s) /\ UNCHANGED <<redis, summaryVars>>

(* Anything but a whole successful response, or a blank summary, fails.    *)
Generated(s) ==
  /\ run[s].pc = "wait"
  /\ TakeAnswer(s)
  /\ \/ /\ answer[s] = "2xx"
        /\ run' = [run EXCEPT ![s].pc = "put", ![s].text = ModelInput(run[s], Current(s))]
     \/ Fail(s)
  /\ UNCHANGED <<redis, runs>>

Store(s) ==
  /\ run[s].pc = "put"
  /\ \E result \in {"ok", "error"} :
       /\ Put(run[s].sc, KeyFor(run[s], Current(s)), run[s].text, result)
       /\ IF result = "ok" THEN Done(s, run[s].text) ELSE Fail(s)
  /\ UNCHANGED <<gatewayVars, runs>>

CacheExpires == Expire /\ UNCHANGED <<gatewayVars, summaryVars>>
CircuitCools == (\E k \in Route : Cool(k)) /\ UNCHANGED <<redis, summaryVars>>

Next ==
  \/ \E s \in Client :
       \/ Start(s) \/ PassOver(s) \/ LookUp(s) \/ AskModel(s)
       \/ GatewayWorks(s) \/ Generated(s) \/ Store(s)
  \/ CacheExpires \/ CircuitCools

Spec == Init /\ [][Next]_vars
FairSpec == Spec /\ \A s \in Client : WF_vars(GatewayWorks(s))

-----------------------------------------------------------------------------
(* Reference: the visible nodes below n all of whose source may be seen,   *)
(* and what they enclose.                                                  *)
Readable(sc, h, n) ==
  LET seen == Projection(sc, h)
      whole(m) == Reach(h, m, DOMAIN h) \subseteq seen
  IN UNION {Reach(h, m, DOMAIN h) : m \in {x \in Reach(h, n, seen) : whole(x)}}

(* A returned result covers exactly the nodes its reader sees, and each    *)
(* summary was made from exactly what its reader may read of the hierarchy *)
(* given, however many readers, versions and runs filled the cache before  *)
(* it: a hit is never stale and never another view's summary.              *)
SummariesExact ==
  \A s \in Client : run[s].pc = "returned" =>
    LET r == run[s]
    IN /\ DOMAIN r.done = Projection(r.sc, r.h)
       /\ \A n \in DOMAIN r.done :
            {x.hash : x \in r.done[n].text} = Hashes(r.h, Readable(r.sc, r.h, n))

(* Nothing is stored in the partition of a scope that was outside it when  *)
(* the model read it.                                                      *)
CacheInScope ==
  \A k \in DOMAIN redis : \A x \in redis[k] :
    LET scope == k.acl_scope
    IN x.label.tenant = scope[1] /\ x.label.repo \in scope[2] /\ x.label.group \in scope[3]

(* A half-open circuit never stays so because its probe got lost: the      *)
(* outcome of the probe, whatever it is, closes the circuit or opens it.   *)
ProbeResolves == \A k \in Route : probe[k] ~> ~probe[k]
============================================================================
