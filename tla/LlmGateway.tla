----------------------------- MODULE LlmGateway -----------------------------
(***************************************************************************)
(* The reverse proxy in front of the language models: each route has a     *)
(* circuit breaker, and a request asks it before it is sent upstream and   *)
(* reports to it once its response was copied or failed.                   *)
(*                                                                         *)
(* Time is what the breaker tells apart: an open circuit has cooled for    *)
(* OpenDuration or not. A request lives for Timeout at most, half of       *)
(* OpenDuration by default, so that no request sent before a circuit       *)
(* opened is still there when it has cooled - unless it is configured      *)
(* otherwise, or a client does not read its response (Outlives).           *)
(***************************************************************************)
EXTENDS Naturals, FiniteSets

CONSTANTS
  Client,     \* callers, one request at a time each
  Route,      \* breaker keys: the aliases and "__default__"
  Threshold,  \* FailureThreshold
  Outlives    \* a request may outlive OpenDuration

ASSUME GatewayAssumption ==
  /\ IsFiniteSet(Client)
  /\ Threshold \in Nat \ {0}
  /\ Outlives \in BOOLEAN

VARIABLES
  failures,  \* breaker: [Route -> failures since the last success]
  opened,    \* breaker: [Route -> "closed", "open", or "cooled" for long enough]
  probe,     \* breaker: [Route -> a half-open probe is out]
  phase,     \* [Client -> "idle", "upstream" or "copying"]
  key,       \* [Client -> the route of its request]
  status,    \* [Client -> status of the upstream's response]
  answer     \* [Client -> what the handler returned, "none" until then]

breakerVars == <<failures, opened, probe>>
requestVars == <<phase, key, status, answer>>
gatewayVars == <<failures, opened, probe, phase, key, status, answer>>

Status == {"2xx", "4xx", "5xx"}

GatewayInit ==
  /\ failures = [k \in Route |-> 0]
  /\ opened = [k \in Route |-> "closed"]
  /\ probe = [k \in Route |-> FALSE]
  /\ phase = [c \in Client |-> "idle"]
  /\ key \in [Client -> Route]
  /\ status = [c \in Client |-> "2xx"]
  /\ answer = [c \in Client |-> "none"]

InFlight(k) == {c \in Client : phase[c] # "idle" /\ key[c] = k}

-----------------------------------------------------------------------------
(* The breaker. Each operation holds its lock. *)

(* Mutant: a cooled circuit is half-open for everyone.                     *)
AllowsOnceCooled(k) == opened[k] # "open"

Allows(k) == opened[k] = "closed" \/ (opened[k] = "cooled" /\ ~probe[k])

(* A failure takes the probe flag down, whichever request reports it. *)
Failure(k) ==
  /\ failures' = [failures EXCEPT ![k] = @ + 1]
  /\ probe' = [probe EXCEPT ![k] = FALSE]
  /\ opened' = IF probe[k] \/ (failures[k] + 1 >= Threshold /\ opened[k] = "closed")
               THEN [opened EXCEPT ![k] = "open"] ELSE opened

Success(k) ==
  /\ failures' = [failures EXCEPT ![k] = 0]
  /\ probe' = [probe EXCEPT ![k] = FALSE]
  /\ opened' = [opened EXCEPT ![k] = "closed"]

Cool(k) ==
  /\ opened[k] = "open"
  /\ Outlives \/ InFlight(k) = {}
  /\ opened' = [opened EXCEPT ![k] = "cooled"]
  /\ UNCHANGED <<failures, probe, requestVars>>

-----------------------------------------------------------------------------
(* ServeHTTP. *)

Asking(c) == phase[c] = "idle" /\ answer[c] = "none"

Reply(c, a) ==
  /\ phase' = [phase EXCEPT ![c] = "idle"]
  /\ answer' = [answer EXCEPT ![c] = a]
  /\ status' = [status EXCEPT ![c] = "2xx"]

(* A body over the limit, malformed or for an unknown model, or a circuit  *)
(* that does not allow the request: nothing is sent upstream.              *)
RejectBody(c) ==
  /\ Asking(c)
  /\ Reply(c, "4xx")
  /\ UNCHANGED <<breakerVars, key>>

RefuseCircuitOpen(c, k) ==
  /\ Asking(c)
  /\ ~Allows(k)
  /\ Reply(c, "refused")
  /\ UNCHANGED <<breakerVars, key>>

SendUpstream(c, k) ==
  /\ Asking(c)
  /\ Allows(k)
  /\ phase' = [phase EXCEPT ![c] = "upstream"]
  /\ key' = [key EXCEPT ![c] = k]
  /\ probe' = [probe EXCEPT ![k] = opened[k] = "cooled"]
  /\ UNCHANGED <<failures, opened, status, answer>>

(* Mutant: a request that got no response is not reported to the breaker.  *)
UpstreamFailsUnreported(c) ==
  /\ phase[c] = "upstream"
  /\ Reply(c, "failed")
  /\ UNCHANGED <<breakerVars, key>>

(* No response: the upstream cannot be reached or is too late, or the      *)
(* client left.                                                            *)
UpstreamFails(c) ==
  /\ phase[c] = "upstream"
  /\ Failure(key[c])
  /\ Reply(c, "failed")
  /\ UNCHANGED key

UpstreamResponds(c) ==
  /\ phase[c] = "upstream"
  /\ phase' = [phase EXCEPT ![c] = "copying"]
  /\ \E s \in Status : status' = [status EXCEPT ![c] = s]
  /\ UNCHANGED <<breakerVars, key, answer>>

(* The body was copied to its end: a client error is a success of the      *)
(* upstream.                                                               *)
CopyEnds(c) ==
  /\ phase[c] = "copying"
  /\ IF status[c] = "5xx" THEN Failure(key[c]) ELSE Success(key[c])
  /\ Reply(c, status[c])
  /\ UNCHANGED key

(* The body breaks off. The status was sent: the client sees it, and less  *)
(* of the body.                                                            *)
CopyBreaks(c) ==
  /\ phase[c] = "copying"
  /\ Failure(key[c])
  /\ Reply(c, "cut")
  /\ UNCHANGED key

Ask(c, k) == RejectBody(c) \/ RefuseCircuitOpen(c, k) \/ SendUpstream(c, k)
Progress(c) == UpstreamFails(c) \/ UpstreamResponds(c) \/ CopyEnds(c) \/ CopyBreaks(c)

(* The client takes the answer, and may ask again. *)
TakeAnswer(c) ==
  /\ answer[c] # "none"
  /\ answer' = [answer EXCEPT ![c] = "none"]
  /\ UNCHANGED <<breakerVars, phase, key, status>>

GatewayNext ==
  \/ \E c \in Client : (\E k \in Route : Ask(c, k)) \/ Progress(c) \/ TakeAnswer(c)
  \/ \E k \in Route : Cool(k)

GatewaySpec == GatewayInit /\ [][GatewayNext]_gatewayVars

-----------------------------------------------------------------------------
GatewayTypeOK ==
  /\ failures \in [Route -> Nat]
  /\ opened \in [Route -> {"closed", "open", "cooled"}]
  /\ probe \in [Route -> BOOLEAN]
  /\ phase \in [Client -> {"idle", "upstream", "copying"}]
  /\ key \in [Client -> Route]
  /\ status \in [Client -> Status]

(* An upstream that failed is tried again by one request at a time         *)
(* (SPEC-049: one half-open probe): from the cooling of a circuit to the   *)
(* outcome of a probe, at most one request is in flight on the route, and  *)
(* the flag that says so is up; a closed circuit never has the failures    *)
(* that open it.                                                           *)
OneProbe ==
  \A k \in Route :
    /\ opened[k] = "closed" => failures[k] < Threshold
    /\ (opened[k] = "cooled" /\ ~Outlives) =>
         /\ \A c, d \in InFlight(k) : c = d
         /\ InFlight(k) # {} => probe[k]
============================================================================
