---------------------------- MODULE MCSummaries ----------------------------
(* An instance of Summaries for TLC: module 1 contains class 2 and method 3,
   which class 2 contains too. In other versions class 2 is moved to another
   repository, method 3 is edited, or the levels are wrong. *)
EXTENDS Summaries

CONSTANTS s1, s2

L(repo) == [tenant |-> "t", repo |-> repo, group |-> "g"]
N(hash, level, children, repo) ==
  [hash |-> hash, level |-> level, children |-> children, label |-> L(repo)]

Before == <<N("M", 2, <<2, 3>>, "r1"), N("A", 1, <<3>>, "r1"), N("m", 0, <<>>, "r1")>>
Moved == [Before EXCEPT ![2].label = L("r2")]
Edited == <<N("M'", 2, <<2, 3>>, "r1"), N("A'", 1, <<3>>, "r1"), N("m'", 0, <<>>, "r1")>>
Cyclic == [Before EXCEPT ![3].children = <<1>>]

Alice(repos) == [tenant |-> "t", user |-> "alice", repos |-> repos, groups |-> {"g"}]
Of(repos, h) == [sc |-> Alice(repos), h |-> h]
NoGroup == [Of({"r1"}, Before) EXCEPT !.sc.groups = {}]
MCRequest ==
  s1 :> {Of({"r1"}, Before), Of({"r1"}, Moved), NoGroup, Of({"r1"}, Cyclic)} @@
  s2 :> {Of({"r1", "r2"}, Moved), Of({"r1"}, Edited)}
============================================================================
