--------------------------- MODULE MCTurnCapture ---------------------------
(* Two linked worktrees w and x of one repository with common directory c. *)
EXTENDS TurnCapture

CONSTANTS t1, t2, t3, w, x, c

BothInW == [t \in Turns |-> w]
InWAndX == [t \in Turns |-> IF t = t1 THEN w ELSE x]
CommonDir == [t \in Turns |-> {c}]
Leases == {{w}, {w, c}, {x, c}}
=============================================================================
