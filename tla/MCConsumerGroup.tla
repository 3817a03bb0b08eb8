-------------------------- MODULE MCConsumerGroup --------------------------
(* Instances of ConsumerGroup for TLC: one primary and one retry partition,
   two events in the backlog. *)
EXTENDS ConsumerGroup

CONSTANTS e1, e2, p0, r0, w1, w2

MCEvent   == {e1, e2}
MCPrimary == {p0}
MCRetry   == {r0}
MCBacklog == [p \in MCPrimary |-> <<e1, e2>>]
============================================================================
