---------------------------- MODULE MCReconcile ----------------------------
(* Instances of CanonicalStore and Reconcile for TLC: one file of one or two
   entities and its successive versions. *)
EXTENDS Reconcile, TLC

CONSTANTS f1, a, b, h1, h2

Version1 == [ast |-> (a :> h1 @@ b :> h1), chunks |-> {<<a, 1>>, <<a, 2>>}]
Version2 == [ast |-> (a :> h2), chunks |-> {<<a, 1>>}]
Small1   == [ast |-> (a :> h1), chunks |-> {<<a, 1>>}]
Small2   == [ast |-> (a :> h2), chunks |-> {<<a, 1>>}]

MCQueue      == [f \in {f1} |-> <<Version1, Version2>>]
MCSmallQueue == [f \in {f1} |-> <<Small1, Small2>>]
MCOnce       == [f \in {f1} |-> <<Small1>>]
============================================================================
