----------------------------- MODULE TurnOutcome -----------------------------
(***************************************************************************)
(* What ending a turn promises, without arbiter, tombstones or retries:    *)
(* every turn gets at most one outcome, for ever, and whoever is told an   *)
(* outcome is told that one.  A caller may also be told nothing useful     *)
(* (an error), at any time.                                                *)
(***************************************************************************)
CONSTANTS Turns, Clients, Outcomes, Failures, Unknown

VARIABLES
    outcome,   \* Turns -> the outcome decided for the turn, or Unknown
    told       \* Clients -> <<turn, what the client was told>>, or Unknown

ovars == <<outcome, told>>

OInit ==
    /\ outcome = [t \in Turns |-> Unknown]
    /\ told = [c \in Clients |-> Unknown]

\* A turn without an outcome gets one.
Decide(t, o) ==
    /\ outcome[t] = Unknown
    /\ outcome' = [outcome EXCEPT ![t] = o]
    /\ UNCHANGED told

\* A client hears the outcome of a decided turn.
Tell(c, t) ==
    /\ outcome[t] # Unknown
    /\ told' = [told EXCEPT ![c] = <<t, outcome[t]>>]
    /\ UNCHANGED outcome

\* A client hears that its request failed.
Fail(c, t, f) ==
    /\ told' = [told EXCEPT ![c] = <<t, f>>]
    /\ UNCHANGED outcome

\* A client is done with its answer.
Forget(c) ==
    /\ told' = [told EXCEPT ![c] = Unknown]
    /\ UNCHANGED outcome

\* The process dies: every client is gone, and every turn that was still open
\* may be aborted on the way up.
Reboot ==
    /\ told' = [c \in Clients |-> Unknown]
    /\ \/ UNCHANGED outcome
       \/ outcome' = [t \in Turns |-> IF outcome[t] = Unknown THEN "Aborted" ELSE outcome[t]]

ONext ==
    \/ \E t \in Turns, o \in Outcomes : Decide(t, o)
    \/ \E c \in Clients, t \in Turns : Tell(c, t)
    \/ \E c \in Clients, t \in Turns, f \in Failures : Fail(c, t, f)
    \/ \E c \in Clients : Forget(c)
    \/ Reboot

OSpec == OInit /\ [][ONext]_ovars
=============================================================================
