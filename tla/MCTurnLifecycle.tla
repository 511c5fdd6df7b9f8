-------------------------- MODULE MCTurnLifecycle --------------------------
(* TurnLifecycle over interchangeable turns and bindings.                  *)
EXTENDS TurnLifecycle, TLC

TurnSymmetry == Permutations(Turns)
Symmetry == TurnSymmetry \cup Permutations(Bindings)
=============================================================================
