------------------------- MODULE MCIngestionRuntime ------------------------
(* An instance of IngestionRuntime for TLC: the first partition holds c1 again
   after c2; the command of the second, x, has no usable source and reuses the
   id of c1. *)
EXTENDS IngestionRuntime

CONSTANTS c1, c2, x, i1, i2, p0, p1, w1, w2

MCCommand == {c1, c2, x}
MCIdOf == [c \in MCCommand |-> IF c = c2 THEN i2 ELSE i1]
MCBacklog == [p \in {p0, p1} |-> IF p = p0 THEN <<c1, c2, c1>> ELSE <<x>>]
============================================================================
