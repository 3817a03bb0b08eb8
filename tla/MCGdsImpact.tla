---------------------------- MODULE MCGdsImpact ----------------------------
(* An instance of GdsImpact for TLC: nb calls na, nc and nd call nb, and jobs
   start from na and from nb, so that both score nc and nd. *)
EXTENDS GdsImpact, TLC

CONSTANTS na, nb, nc, nd, s, t, d1, j1, j2

MCNode    == {na, nb, nc, nd}
MCEdge    == {<<nb, "CALLS", na>>, <<nc, "CALLS", nb>>, <<nd, "CALLS", nb>>}
MCImpact  == {"CALLS"}
MCEntryOf == (j1 :> na) @@ (j2 :> nb)
MCScopeOf == (j1 :> s) @@ (j2 :> s)

(* The two callers of nb differ in nothing but their name. *)
CallerSymmetry == Permutations({nc, nd})
============================================================================
