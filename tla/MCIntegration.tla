--------------------------- MODULE MCIntegration ---------------------------
(* Integration for TLC: instances and operations as model values.          *)
EXTENDS Integration, TLC
CONSTANTS i1, o1, o2
OneOp == o1 :> i1
TwoOps == (o1 :> i1) @@ (o2 :> i1)
OpSymmetry == Permutations({o1, o2})
=============================================================================
