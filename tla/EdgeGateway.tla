---------------------------- MODULE EdgeGateway ----------------------------
(***************************************************************************)
(* The gateway's helper behind Envoy: authorize answers Envoy's external   *)
(* authorization check, and the stream endpoint admits a request, reads    *)
(* its body, opens the ImpactAnalysis call and copies its events to the    *)
(* client until the call ends, the client leaves or the deadline passes.   *)
(*                                                                         *)
(* The deadline is one instant, set by authorize and carried in a header;  *)
(* over[c] says that it passed or that the client left.                    *)
(* A request is a member of Call, the name its upstream call has too.      *)
(***************************************************************************)
EXTENDS ImpactAnalysis

CONSTANTS
  Presents,      \* [Call -> the credentials it may present]
  Request,       \* [Call -> the well-formed bodies it may carry]
  MaxPerCaller,  \* MaxConcurrentSSEPerCaller
  MaxTotal,      \* MaxConcurrentSSE
  Window         \* events in flight from the engine to the gateway

ASSUME EdgeAssumption ==
  /\ MaxPerCaller \in Nat \ {0}
  /\ MaxTotal \in Nat
  /\ MaxPerCaller <= MaxTotal
  /\ Window \in Nat \ {0}
  /\ IsFiniteSet(Call)
  /\ DOMAIN Presents = Call /\ DOMAIN Request = Call
  /\ \A r \in UNION Range(Request) :
       r.entry \in Node /\ r.maxDepth \in Nat /\ r.maxNodes \in Int

VARIABLES
  phase,          \* [Call -> where the request is]
  cred,           \* [Call -> the credential it presented]
  context,        \* [Call -> the context in the header Envoy forwards]
  over,           \* [Call -> the request's context is done]
  activeTotal,    \* sseAdmission
  activeByCaller, \* sseAdmission: [rate-limit key -> active streams]
  read,           \* [Call -> events copied to the client]
  ending          \* [Call -> "open", or how the response ended: "refused" with
                  \* an error status, "complete", or "broken" off]

edgeVars == <<phase, cred, context, over, activeTotal, activeByCaller,
              read, ending>>
gateVars == <<activeTotal, activeByCaller>>
vars == <<impactVars, edgeVars>>

Key == {RateLimitKey(SecurityContext(k.claims)) : k \in UNION Range(Presents)}

Phase == {"idle", "authorized", "reading", "calling", "streaming", "closed"}
NoCredential == [header |-> "none"]
Holding(c) == phase[c] \in {"reading", "calling", "streaming"}
KeyOf(c) == RateLimitKey(context[c])

EdgeInit ==
  /\ ImpactInit
  /\ phase = [c \in Call |-> "idle"]
  /\ cred = [c \in Call |-> NoCredential]
  /\ context = [c \in Call |-> NoContext]
  /\ over = [c \in Call |-> FALSE]
  /\ activeTotal = 0
  /\ activeByCaller = [k \in Key |-> 0]
  /\ read = [c \in Call |-> 0]
  /\ ending = [c \in Call |-> "open"]

Enter(c, p) == phase' = [phase EXCEPT ![c] = p]

Acquire(c) ==
  /\ activeTotal' = activeTotal + 1
  /\ activeByCaller' = [activeByCaller EXCEPT ![KeyOf(c)] = @ + 1]

Release(c) ==
  /\ activeTotal' = activeTotal - 1
  /\ activeByCaller' = [activeByCaller EXCEPT ![KeyOf(c)] = @ - 1]

(* The handler returns: its context is cancelled and its locals are gone.  *)
(* What the client was sent is kept only for a complete stream.            *)
Return(c, how) ==
  /\ Enter(c, "closed")
  /\ ending' = [ending EXCEPT ![c] = how]
  /\ context' = [context EXCEPT ![c] = NoContext]
  /\ over' = [over EXCEPT ![c] = FALSE]
  /\ IF how = "complete" THEN UNCHANGED <<cred, read, sent, walk, opened>>
     ELSE /\ cred' = [cred EXCEPT ![c] = NoCredential]
          /\ read' = [read EXCEPT ![c] = 0]
          /\ sent' = [sent EXCEPT ![c] = <<>>]
          /\ opened' = [opened EXCEPT ![c] = 0]
          /\ IF Running(c) THEN UNCHANGED walk ELSE Forget(c)
  /\ UNCHANGED <<st, graphVars>>

(* Mutant: an error path returns before the release is deferred.           *)
GiveUpKeepingSlot(c) == Return(c, "refused") /\ UNCHANGED gateVars

(* An error status, which names its cause, without a slot or giving it     *)
(* back; the end of a stream of events.                                    *)
Refuse(c) == Return(c, "refused") /\ UNCHANGED gateVars
GiveUp(c) == Return(c, "refused") /\ Release(c)
End(c, how) == Return(c, how) /\ Release(c)

-----------------------------------------------------------------------------
(* authorize. Random identifiers and the span may be unavailable: 503.     *)

AuthorizeUnavailable(c) == phase[c] = "idle" /\ Refuse(c)

Authorize(c) ==
  /\ phase[c] = "idle"
  /\ \E k \in Presents[c] :
       LET result == Authenticate(k)
       IN IF ~result.ok THEN Refuse(c)
          ELSE IF ~ValidSecurityContext(result.sc) THEN Refuse(c)
          ELSE /\ Enter(c, "authorized")
               /\ cred' = [cred EXCEPT ![c] = k]
               /\ context' = [context EXCEPT ![c] = result.sc]
               /\ UNCHANGED <<over, gateVars, read, ending, impactVars>>

(* sse. A request that did not come through Envoy, or not as a POST, has   *)
(* no usable headers.                                                      *)
RejectHeaders(c) == phase[c] = "authorized" /\ Refuse(c)

RefuseStream(c) ==
  /\ phase[c] = "authorized"
  /\ \/ activeTotal >= MaxTotal
     \/ activeByCaller[KeyOf(c)] >= MaxPerCaller
  /\ Refuse(c)

Admit(c) ==
  /\ phase[c] = "authorized"
  /\ activeTotal < MaxTotal
  /\ activeByCaller[KeyOf(c)] < MaxPerCaller
  /\ Enter(c, "reading")
  /\ Acquire(c)
  /\ UNCHANGED <<cred, context, over, read, ending, impactVars>>

(* The body arrives in its own time: the read does not know the deadline.  *)
RejectBody(c) == phase[c] = "reading" /\ GiveUp(c)

BodyTooLate(c) == phase[c] = "reading" /\ over[c] /\ GiveUp(c)

OpenStream(c) ==
  /\ phase[c] = "reading"
  /\ ~over[c]
  /\ \E req \in Request[c] : Open(c, context[c], req)
  /\ Enter(c, "calling")
  /\ UNCHANGED <<cred, context, over, gateVars, read, ending, graphVars>>

StreamUnavailable(c) == phase[c] = "reading" /\ ~over[c] /\ GiveUp(c)

-----------------------------------------------------------------------------
(* stream.Recv: the next event, the end of the call, or an error - of the  *)
(* call, or of its context at any time once that is done.                  *)

Unread(c)    == read[c] < Len(sent[c])
RecvEof(c)   == ~Unread(c) /\ st[c] = "done"
RecvError(c) == (~Unread(c) /\ st[c] = "failed") \/ over[c]

(* Before the first event an error is a status, chosen by writeGRPCError.  *)
FirstError(c) == phase[c] = "calling" /\ RecvError(c) /\ GiveUp(c)

CopyEvent(c) ==
  /\ phase[c] \in {"calling", "streaming"}
  /\ Unread(c)
  /\ Enter(c, "streaming")
  /\ read' = [read EXCEPT ![c] = @ + 1]
  /\ UNCHANGED <<cred, context, over, gateVars, ending, impactVars>>

(* A write to a client that left fails, now or at a later event. *)
WriteFails(c) ==
  /\ phase[c] \in {"calling", "streaming"}
  /\ Unread(c)
  /\ over[c]
  /\ End(c, "broken")

Complete(c) ==
  /\ phase[c] \in {"calling", "streaming"}
  /\ RecvEof(c)
  /\ End(c, "complete")

(* An error once events were sent: the response breaks off, with an error  *)
(* event unless it was the client who left before the deadline.            *)
StreamError(c) ==
  /\ phase[c] = "streaming"
  /\ RecvError(c)
  /\ End(c, "broken")

(* The deadline passes, or the client leaves. Before admission nothing     *)
(* looks at it.                                                            *)
ContextEnds(c) ==
  /\ Holding(c)
  /\ ~over[c]
  /\ over' = [over EXCEPT ![c] = TRUE]
  /\ UNCHANGED <<phase, cred, context, gateVars, read, ending, impactVars>>

(* Mutant: the handler returns without cancelling the call.                *)
CancelCallAtDeadline(c) ==
  /\ over[c]
  /\ Cancelled(c)
  /\ UNCHANGED edgeVars

(* The server side of the call sees its context done; once the handler has *)
(* returned, a query or a send of the walk can only fail.                  *)
CancelCall(c) ==
  /\ over[c] \/ phase[c] = "closed"
  /\ Cancelled(c)
  /\ UNCHANGED edgeVars

(* The goroutine of the handler, and that of the call in the engine. *)
HandlerStep(c) ==
  \/ RejectBody(c) \/ BodyTooLate(c) \/ OpenStream(c) \/ StreamUnavailable(c)
  \/ FirstError(c) \/ CopyEvent(c) \/ WriteFails(c) \/ Complete(c) \/ StreamError(c)

(* A send waits for room in the stream's flow-control window. *)
ServerStep(c) ==
  \/ CancelCall(c)
  \/ /\ phase[c] # "closed"
     /\ \/ Handle(c) \/ FetchLevel(c)
        \/ Len(sent[c]) - read[c] < Window /\ (EmitNode(c) \/ EmitProgress(c))
     /\ UNCHANGED edgeVars

EdgeNext ==
  \/ \E c \in Call :
       \/ AuthorizeUnavailable(c) \/ Authorize(c) \/ RejectHeaders(c)
       \/ RefuseStream(c) \/ Admit(c)
       \/ HandlerStep(c) \/ ServerStep(c)
       \/ ContextEnds(c)
  \/ GraphWrite /\ UNCHANGED edgeVars

EdgeSpec == EdgeInit /\ [][EdgeNext]_vars
EdgeFairSpec ==
  EdgeSpec /\ \A c \in Call : WF_vars(HandlerStep(c)) /\ WF_vars(ServerStep(c))

-----------------------------------------------------------------------------
(* The counters of the admission gate are the requests that hold a slot,   *)
(* in total and by caller, and never above the limits: no path out of the  *)
(* handler keeps a slot or gives one back twice.                           *)
SlotsMatchHolders ==
  LET holders == {c \in Call : Holding(c)}
  IN /\ activeTotal = Cardinality(holders)
     /\ activeTotal <= MaxTotal
     /\ \A k \in Key :
          /\ activeByCaller[k] = Cardinality({c \in holders : KeyOf(c) = k})
          /\ activeByCaller[k] <= MaxPerCaller

(* The events of a stream that name a node, by their places, and the nodes *)
(* named at k hops or nearer.                                              *)
NodeEvents(s) == {i \in DOMAIN s : s[i].kind = "node"}
Told(s, k) == {s[i].node : i \in {j \in NodeEvents(s) : s[j].hop <= k}}
LastOf(s) == s[Len(s)]

(* Every node a client is told of was, when its level was read, labelled   *)
(* with the tenant, a repository and a group of the verified token, and in *)
(* the repository the request asked for: from the token to the query, no   *)
(* hop of the request widens its authority.                                *)
EmittedInScope ==
  \A c \in Call : \A i \in 1..read[c] : sent[c][i].kind = "node" =>
    LET l == sent[c][i].label
        k == cred[c]
    IN /\ k.header = "bearer" /\ k.verifies
       /\ l.tenant = k.claims.tenant
       /\ l.repo \in Range(k.claims.repos)
       /\ l.group \in Range(k.claims.groups)
       /\ walk[c].narrow \in {Absent, l.repo}

(* A stream that ends without an error event is whole: the walk ended by   *)
(* itself, every event it sent was copied, no node twice, at most          *)
(* max_nodes, and its last progress says why it ended: cut at the cap, an  *)
(* empty level, or the depth asked for.                                    *)
CompleteMeansWhole ==
  \A c \in Call : ending[c] = "complete" =>
    LET nodes == NodeEvents(sent[c])
        last  == LastOf(sent[c])
    IN /\ read[c] = Len(sent[c])
       /\ \A i, j \in nodes : sent[c][i].node = sent[c][j].node => i = j
       /\ last.kind = "progress"
       /\ last.explored = Cardinality(nodes)
       /\ Cardinality(nodes) <= walk[c].maxNodes
       /\ last.truncated \/ last.found = 0 \/ last.depth = walk[c].maxDepth

(* Reference for a walk on a graph (labels, relations): the nodes that     *)
(* depend on the entry in k steps or fewer through nodes in scope and      *)
(* wanted.                                                                 *)
Seen(lab, query, n) == lab[n] # NoLabel /\ InScope(lab[n], query.sc)
Dependants(lab, rel, query, S) ==
  {d \in Node : /\ Seen(lab, query, d) /\ query.narrow \in {Absent, lab[d].repo}
                /\ \E n \in S : <<d, n>> \in rel}
Within(lab, rel, query, k) ==
  LET far[i \in Nat] ==
        IF i = 0 THEN {n \in Node : n = query.entry /\ Seen(lab, query, n)}
        ELSE far[i - 1] \cup Dependants(lab, rel, query, far[i - 1])
  IN far[k]
Query(w) == [sc |-> w.sc, narrow |-> w.narrow, entry |-> w.entry]

(* When nobody wrote the graph since the walk began, a completed stream is *)
(* exact: each node at its shortest distance, all of them up to the depth  *)
(* asked for, or, when it says truncated, none farther while nearer ones   *)
(* are missing.                                                            *)
StableStreamExact ==
  \A c \in Call : (ending[c] = "complete" /\ opened[c] = changes) =>
    LET at(k) == Told(sent[c], k)
        full(k) == Within(label, edge, Query(walk[c]), k) \ {walk[c].entry}
        last == LastOf(sent[c])
    IN \A k \in 1..walk[c].maxDepth :
         /\ at(k) \subseteq full(k)
         /\ (~last.truncated \/ k < last.depth) => at(k) = full(k)
         /\ last.truncated => at(k) # full(walk[c].maxDepth)

(* A slot taken is given back and no walk is left running behind it: with  *)
(* the body bounded by Envoy's request timeout, every admitted request     *)
(* ends at both ends, whoever leaves or stalls.                            *)
AdmittedEnds ==
  \A c \in Call : (Holding(c) \/ Running(c)) ~> (phase[c] = "closed" /\ ~Running(c))
============================================================================
