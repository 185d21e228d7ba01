--------------------------- MODULE MCCanvasSession ---------------------------
(* CanvasSession for TLC: requests and field values are interchangeable.   *)
EXTENDS CanvasSession, TLC

Symmetry == Permutations(Requests) \union Permutations(Values)
=============================================================================
