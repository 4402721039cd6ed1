------------------------------ MODULE MCServer ------------------------------
(* Server for TLC.  The sockets are interchangeable.                       *)
EXTENDS Server, TLC

CONSTANTS c1, c2

OneConn == {c1}
TwoConns == {c1, c2}

ConnSymmetry == Permutations(TwoConns)
=============================================================================
