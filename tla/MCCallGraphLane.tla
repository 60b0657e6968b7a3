--------------------------- MODULE MCCallGraphLane ---------------------------
(* Callers of one call graph over packages whose sources exceed the cap.   *)
EXTENDS CallGraphLane, TLC

CONSTANTS c1, c2, e1, e2, v1, v2

TheKeys == [c \in Caller |-> "callgraph"]
TheSizes == e1 :> 2 @@ e2 :> 2

=============================================================================
