---------------------------- MODULE MCTurnQueue ----------------------------
(* TurnQueue with a small set of prompts and clients.  A client asks for   *)
(* permutations (what the composer sends) or, in AnyOrders, for any short  *)
(* list (what the HTTP endpoint accepts).                                  *)
EXTENDS TurnQueue, TLC

Permuted == {s \in UNION {[1..n -> Prompts] : n \in 0..Cardinality(Prompts)} : NoRepeats(s)}
AnyOrders == UNION {[1..n -> Prompts] : n \in 0..Cardinality(Prompts) + 1}

(* Keep is the filter of the Sequences module, on every list a run uses.   *)
ASSUME KeepIsSelectSeq ==
    \A s \in AnyOrders, S \in SUBSET Prompts : Keep(s, S) = SelectSeq(s, LAMBDA x : x \in S)

Symmetry == Permutations(Prompts) \cup Permutations(Clients) \cup Permutations(Dispatchers)
=============================================================================
