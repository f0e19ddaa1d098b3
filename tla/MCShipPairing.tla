--------------------------- MODULE MCShipPairing ---------------------------
(* An instance of the evaluator for TLC: three requests with the node's     *)
(* secret s1, one of them on another curve.                                 *)
EXTENDS ShipPairing

CONSTANTS d1, d2, d3, s1, s2, c1, c2

MadeWithSecret == [d \in Digests |-> s1]
OnCurve == [d \in Digests |-> IF d = d3 THEN c2 ELSE c1]
=============================================================================
