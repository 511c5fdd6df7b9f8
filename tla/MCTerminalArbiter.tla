-------------------------- MODULE MCTerminalArbiter --------------------------
(* Model values and symmetry for TLC. *)
EXTENDS TerminalArbiter, TLC

Symmetry == Permutations(Keys) \cup Permutations(Callers)
=============================================================================
