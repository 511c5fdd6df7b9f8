--------------------------- MODULE MCGuardedUndo ---------------------------
(* Two turns: the older one changed pathA, the newer one pathA and pathB. *)
EXTENDS GuardedUndo

CONSTANTS pathA, pathB

TwoTurns == <<<<pathA>>, <<pathA, pathB>>>>
=============================================================================
