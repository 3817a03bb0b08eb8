---------------------------- MODULE AccessScope ----------------------------
(***************************************************************************)
(* Where the authority of a request comes from: the gateway turns a        *)
(* verified token into a SecurityContext (authn), the gateway's stream     *)
(* endpoint and every service re-validate it, the policy enforcement point *)
(* asks OPA, and the datastore queries use the Scope derived from it       *)
(* (accessscope, securityfilter). All functions are pure; the components   *)
(* that call them add the state.                                           *)
(*                                                                         *)
(* A name is valid or Malformed (empty, padded, too long, not UTF-8, with  *)
(* control characters: the same test is written three times in the code).  *)
(* A claim list is a sequence, which may hold a name twice, or Absent.     *)
(***************************************************************************)
EXTENDS Naturals, Sequences, FiniteSets, Functions

CONSTANTS
  Malformed,         \* names no component accepts
  Absent,            \* a claim the token does not carry
  GatewayMaxValues,  \* maxScopeValues of the gateway
  ScopeMaxValues,    \* maxValues of accessscope
  HeaderMaxValues    \* values that fit in the security context header

ASSUME ScopeAssumption ==
  /\ GatewayMaxValues \in Nat
  /\ ScopeMaxValues \in Nat
  /\ HeaderMaxValues \in Nat

ValidValue(v) == v \notin Malformed

-----------------------------------------------------------------------------
(* authn: a credential is what the Authorization header carries, whether   *)
(* the issuer's keys verify it, and its claims.                            *)

Refused(code) == [ok |-> FALSE, code |-> code]

BearerToken(header) ==
  CASE header = "oversized" -> "invalid_token"
    [] header = "bearer"    -> ""
    [] OTHER                -> "missing_token"

ValidScope(values) ==
  /\ values # Absent
  /\ Len(values) <= GatewayMaxValues
  /\ \A v \in Range(values) : ValidValue(v)

ValidateClaims(c) ==
  /\ c.sub # Absent /\ ValidValue(c.sub)
  /\ c.typ = "Bearer"
  /\ c.tenant # Absent /\ ValidValue(c.tenant)
  /\ ValidScope(c.repos)
  /\ ValidScope(c.groups)

(* canonicalScope sorts and removes duplicates: a set. *)
SecurityContext(c) ==
  [tenant |-> c.tenant, user |-> c.sub,
   repos |-> Range(c.repos), groups |-> Range(c.groups)]

FitsHeader(sc) == Cardinality(sc.repos) + Cardinality(sc.groups) <= HeaderMaxValues

Authenticate(cred) ==
  IF BearerToken(cred.header) # "" THEN Refused(BearerToken(cred.header))
  ELSE IF ~cred.verifies THEN Refused("invalid_token")
  ELSE IF ~ValidateClaims(cred.claims) \/ ~FitsHeader(SecurityContext(cred.claims))
       THEN Refused("invalid_claims")
  ELSE [ok |-> TRUE, sc |-> SecurityContext(cred.claims)]

-----------------------------------------------------------------------------
(* edge: the endpoint behind Envoy accepts only the context authorize      *)
(* produced, and checks it again.                                          *)

ValidSecurityContext(sc) ==
  /\ ValidValue(sc.tenant)
  /\ ValidValue(sc.user)
  /\ \A values \in {sc.repos, sc.groups} :
       Cardinality(values) <= GatewayMaxValues /\ \A v \in values : ValidValue(v)

(* Two tokens of one user of one tenant share one rate-limit key. *)
RateLimitKey(sc) == <<sc.tenant, sc.user>>

-----------------------------------------------------------------------------
(* authz: the enforcement point. NoContext stands for missing or malformed *)
(* metadata, which secctx passes on as an absent context.                  *)

NoContext == [tenant |-> "", user |-> "", repos |-> {}, groups |-> {}]

(* The OPA document: a data action needs a tenant, a user, repositories    *)
(* and groups, the health action no repositories and no groups.            *)
Policy(sc, action) ==
  LET deny(reason) == [kind |-> "decision", allow |-> FALSE, reason |-> reason]
  IN CASE sc.tenant = ""                             -> deny("missing_tenant")
       [] sc.user = ""                               -> deny("missing_user")
       [] action # "Health" /\ sc.repos \ {""} = {}  -> deny("empty_repo_scope")
       [] action # "Health" /\ sc.groups \ {""} = {} -> deny("empty_acl_scope")
       [] OTHER -> [kind |-> "decision", allow |-> TRUE, reason |-> "allow"]

(* What OPA may answer: its policy's decision, nothing usable, or an allow *)
(* whose reason says otherwise.                                            *)
OpaAnswer(sc, action) ==
  {Policy(sc, action),
   [kind |-> "error", allow |-> FALSE, reason |-> ""],
   [kind |-> "decision", allow |-> TRUE, reason |-> "policy_denied"]}

KnownReasons == {"allow", "unknown_action", "missing_tenant", "missing_user",
                 "empty_repo_scope", "empty_acl_scope", "policy_denied"}
NormalizeReason(reason) == IF reason \in KnownReasons THEN reason ELSE "policy_denied"

(* What the client makes of OPA's answer: an answer that is no decision    *)
(* (transport error, status, size, schema) or that contradicts itself is   *)
(* an error, never a decision.                                             *)
Decide(answer) ==
  LET reason == NormalizeReason(answer.reason)
  IN CASE answer.kind = "error"                  -> "error"
       [] answer.allow /\ reason # "allow"       -> "error"
       [] answer.allow                           -> "allow"
       [] OTHER                                  -> "deny"

(* The interceptor in front of every handler. *)
Enforce(sc, answer) ==
  CASE sc = NoContext             -> "Unauthenticated"
    [] Decide(answer) = "error"   -> "Unavailable"
    [] Decide(answer) = "deny"    -> "PermissionDenied"
    [] OTHER                      -> "OK"

-----------------------------------------------------------------------------
(* accessscope and securityfilter: the scope of the datastore queries. It  *)
(* is stricter than the gateway: no empty list, half the values.           *)

Normalizes(values) ==
  /\ values # {}
  /\ Cardinality(values) <= ScopeMaxValues
  /\ \A v \in values : ValidValue(v)

HasScope(sc) ==
  /\ sc # NoContext
  /\ ValidValue(sc.tenant)
  /\ ValidValue(sc.user)
  /\ Normalizes(sc.repos)
  /\ Normalizes(sc.groups)

(* The predicate every query carries: Neo4jParams, OpenSearchFilter. *)
InScope(label, sc) ==
  /\ label.tenant = sc.tenant
  /\ label.repo \in sc.repos
  /\ label.group \in sc.groups

(* EffectiveRepos: a request may only narrow the scope; a repository       *)
(* outside it leaves nothing (the impossible match of QdrantFilter).       *)
EffectiveRepos(sc, requested) ==
  IF requested = Absent THEN sc.repos ELSE sc.repos \cap {requested}

(* The cache partition of a scope, shared by every user with the same      *)
(* permissions; an invalid scope has none.                                 *)
Fingerprint(sc) == IF HasScope(sc) THEN <<sc.tenant, sc.repos, sc.groups>> ELSE <<>>
============================================================================
