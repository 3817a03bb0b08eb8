--------------------------- MODULE MCEdgeGateway ---------------------------
(* Instances of EdgeGateway for TLC: nodes 3 and 4 depend on 2, and 2 on 1;
   node 3 is of another group, 4 of another repository; node 2 may move to it
   and node 3 may come to depend on 1. alice's walk meets max_nodes on its
   second level, bob's max_depth on its first; the third request is refused by
   the engine: alice with more repositories than a scope holds, or carol
   without a group. *)
EXTENDS EdgeGateway, TLC

CONSTANTS c1, c2, c3

L(repo, group) == [tenant |-> "t", repo |-> repo, group |-> group]
MCLabel == {L("r1", "g"), L("r1", "h"), L("r2", "g")}
MCInitialLabel ==
  1 :> L("r1", "g") @@ 2 :> L("r1", "g") @@ 3 :> L("r1", "h") @@ 4 :> L("r2", "g")
MCInitialEdge == {<<2, 1>>, <<3, 2>>, <<4, 2>>}
MCLaterLabel == {<<2, L("r2", "g")>>}
MCLaterEdge == {<<3, 1>>}

Bearer(user, repos, groups) ==
  [header |-> "bearer", verifies |-> TRUE,
   claims |-> [sub |-> user, typ |-> "Bearer", tenant |-> "t", repos |-> repos, groups |-> groups]]
Alice == Bearer("alice", <<"r2", "r1", "r2">>, <<"g", "h">>)
AliceWide == Bearer("alice", <<"r1", "r2", "r3">>, <<"g">>)
Bob == Bearer("bob", <<"r1", "r2">>, <<"g">>)
Carol == [Bearer("carol", <<"r1">>, <<>>) EXCEPT !.claims.tenant = "u"]
Forged == [Bob EXCEPT !.verifies = FALSE]
MCPresents == c1 :> {Alice} @@ c2 :> {Bob, Forged} @@ c3 :> {AliceWide, Carol}

CutAtTwo == [entry |-> 1, maxDepth |-> 0, maxNodes |-> 2, narrow |-> Absent]
InOneRepo == [entry |-> 1, maxDepth |-> 1, maxNodes |-> 2, narrow |-> "r1"]
MCRequest == c1 :> {CutAtTwo} @@ c2 :> {InOneRepo} @@ c3 :> {CutAtTwo}
============================================================================
