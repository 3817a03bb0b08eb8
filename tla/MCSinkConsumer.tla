--------------------------- MODULE MCSinkConsumer --------------------------
(* Instances of SinkConsumer for TLC: aggregate k1 is published as a1, then
   as a2; x is an event the labels disqualify. *)
EXTENDS SinkConsumer, TLC

CONSTANTS a1, a2, x, k1, p0, r0, w1, w2

MCEvent   == {a1, a2, x}
MCPrimary == {p0}
MCRetry   == {r0}
MCKey     == {k1}
MCKeyOf   == [e \in MCEvent |-> k1]
MCInvalid == {x}
MCBacklog == [p \in MCPrimary |-> <<a1, x, a2>>]
MCShortBacklog == [p \in MCPrimary |-> <<a1, a2>>]

(* Replicas differ in nothing but their name. *)
ReplicaSymmetry == Permutations(Worker)
============================================================================
