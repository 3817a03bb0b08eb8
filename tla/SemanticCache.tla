--------------------------- MODULE SemanticCache ---------------------------
(***************************************************************************)
(* The semantic cache: a server in front of Redis whose keys name what was *)
(* summarized, the logic that did it, and the scope it was done for. A     *)
(* caller reads and writes the partition of its own scope only.            *)
(***************************************************************************)
EXTENDS AccessScope, TLC

CONSTANT TtlSeconds   \* of every value; 0: no expiry
ASSUME TtlAssumption == TtlSeconds \in Nat

VARIABLE redis        \* stored keys to values

CacheInit == redis = <<>>

(* redisKey digests length-prefixed fields: distinct keys stay distinct. *)
CacheKey(entity, hash, logic, scope) ==
  [entity_id |-> entity, ast_hash |-> hash, logic_fingerprint |-> logic, acl_scope |-> scope]

(* The interceptor, then the server: the scope in the key must be that of  *)
(* the caller, recomputed.                                                 *)
AuthorizeKey(sc, key) ==
  /\ Enforce(sc, Policy(sc, "Get")) = "OK"
  /\ HasScope(sc)
  /\ key.acl_scope = Fingerprint(sc)

(* What Get may answer: a miss is an answer, a failure of Redis an error.  *)
Get(sc, key) ==
  {[code |-> "error"]} \cup
  IF ~AuthorizeKey(sc, key) THEN {}
  ELSE IF key \in DOMAIN redis THEN {[code |-> "hit", value |-> redis[key]]}
  ELSE {[code |-> "miss"]}

(* What Put may answer. Its write may have happened although the answer is *)
(* an error.                                                               *)
Put(sc, key, value, answer) ==
  \/ /\ AuthorizeKey(sc, key)
     /\ redis' = [k \in DOMAIN redis \cup {key} |-> IF k = key THEN value ELSE redis[k]]
  \/ answer = "error" /\ UNCHANGED redis

Expire ==
  /\ TtlSeconds > 0
  /\ \E key \in DOMAIN redis :
       redis' = [k \in DOMAIN redis \ {key} |-> redis[k]]
============================================================================
