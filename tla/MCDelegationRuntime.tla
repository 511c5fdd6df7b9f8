------------------------ MODULE MCDelegationRuntime ------------------------
(* One delegation and one task of the same parent, both editing its checkout;
   and, for the editors, two delegations asked for at once. *)
EXTENDS DelegationRuntime

CONSTANTS d1, d2, t1
=============================================================================
