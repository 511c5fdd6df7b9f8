------------------------- MODULE DelegationRuntime -------------------------
(***************************************************************************)
(* Delegated work of one parent session (delegation_runtime.rs).  A        *)
(* delegation is a child conversation that answers once; a task is a child *)
(* conversation that stays open and reports its turns.  Both are rows of   *)
(* dcc_delegations.  The row is settled by whoever comes first: the hook   *)
(* spawned when a turn of the child ends, the watchdog, the launcher whose *)
(* background send failed, or a cancellation.  They exclude each other     *)
(* with the process-wide FINALIZING set; a result goes to a waiting tool   *)
(* call or back to the parent as a turn.                                   *)
(*                                                                         *)
(* Every read and every write of the database is a step of its own: each   *)
(* is one critical section of the connection's mutex between two awaits.   *)
(***************************************************************************)
EXTENDS Integers, FiniteSets

CONSTANTS
    Delegations,    \* children of kind Delegation
    Tasks,          \* children of kind Task
    Editors,        \* the children that edit the parent's checkout
    Hooks,          \* runtime threads that run the spawned terminal hooks
    Watchdog,       \* the single watchdog task
    MaxTurns,       \* bound: turns of one child conversation
    MaxRows,        \* bound: rows the parent's agent asks for
    MaxActive,      \* MAX_ACTIVE_AGENT_DELEGATIONS_PER_PARENT
    MaxWaits,       \* MAX_CONCURRENT_WAITS
    MaxRestarts,    \* bound: restarts of the process
    None

Children == Delegations \cup Tasks
\* Whoever can be inside a finalization: the hooks, the watchdog and, for
\* each child, the background task that sends its first turn.
Workers == Hooks \cup {Watchdog} \cup Children

ASSUME ChildrenAssumption ==
    /\ Delegations \cap Tasks = {}
    /\ Editors \subseteq Children
    /\ Watchdog \notin Hooks \cup Children
    /\ Hooks \cap Children = {}
    /\ IsFiniteSet(Children)
ASSUME BoundsAssumption ==
    /\ MaxTurns \in Nat \ {0}
    /\ MaxRows \in Nat \ {0}
    /\ MaxActive \in Nat \ {0}
    /\ MaxWaits \in Nat \ {0}
    /\ MaxRestarts \in Nat

VARIABLES
    status,      \* the row's status; "none" is no row
    turns,       \* how many turns the child's history has
    open,        \* the history's last turn has no terminal row
    outcome,     \* how a delegation's last ended turn ended; a task's report
                 \* of a turn that was interrupted differs in wording only
    waking,      \* the turns the parent waits for: the brief and messages
    mail,        \* a message of the parent is on its way to the task
    reported,    \* reported_turn_id of the row, 0 for none
    age,         \* since started_at: 0, start grace over (1), timed out (2)
    finalizing,  \* FINALIZING
    slot,        \* WAITS: None, or what the waiter's slot holds
    waiter,      \* what the waiting tool call is about to return
    launch,      \* how far run_delegation is
    hooks,       \* spawned hooks that have not run yet
    job,         \* what each worker is doing
    pass,        \* rows of the watchdog's pass still to visit, with their age
    person,      \* a guarded cancellation: idle, cancelling, cancelled
    dismissal,   \* a dismissal or expiry that has read a Draft row
    delivered,   \* history: how often each result reached the parent
    silenced,    \* history: a cancellation ended the row while it ran
    restarts

rows == <<status, reported, age>>
history == <<turns, open, outcome, waking, mail>>
waits == <<slot, waiter>>
people == <<person, dismissal>>
past == <<delivered, silenced>>
vars == <<rows, history, waits, people, past, finalizing, launch, hooks, job,
          pass, restarts>>

Terminal == {"completed", "failed", "cancelled"}
Job(pc, c, n) == [pc |-> pc, c |-> c, n |-> n]
Idle == Job("idle", None, 0)
Locals == {"acquire", "acquireFail", "decide", "complete", "completing",
           "fail", "failing", "announce", "report", "deliver", "quiesce"}
Unclaimed == [claimed |-> None]
Claims == {[claimed |-> n] : n \in 0..MaxTurns}
Polling == [pc |-> "polling", n |-> None]
Returning == {[pc |-> "returning", n |-> n] : n \in {None} \cup 0..MaxTurns}

ASSUME NoneAssumption ==
    None \notin Int \cup Children \cup Claims \cup Returning \cup {Unclaimed, Polling}

\* What a result is counted under: a delegation has one, a task one a turn.
ResultOf(c) == IF c \in Tasks THEN turns[c] ELSE 0

Init ==
    /\ status = [c \in Children |-> "none"]
    /\ turns = [c \in Children |-> 0]
    /\ open = [c \in Children |-> FALSE]
    /\ outcome = [c \in Delegations |-> "none"]
    /\ waking = [c \in Children |-> {}]
    /\ mail = [c \in Children |-> FALSE]
    /\ reported = [c \in Children |-> 0]
    /\ age = [c \in Children |-> 0]
    /\ finalizing = {}
    /\ slot = [c \in Children |-> None]
    /\ waiter = [c \in Children |-> None]
    /\ launch = [c \in Children |-> "idle"]
    /\ hooks = [c \in Children |-> 0]
    /\ job = [w \in Workers |-> Idle]
    /\ pass = [c \in Children |-> None]
    /\ person = [c \in Children |-> "idle"]
    /\ dismissal = [c \in Children |-> FALSE]
    /\ delivered = [c \in Children |-> [n \in 0..MaxTurns |-> 0]]
    /\ silenced = [c \in Children |-> FALSE]
    /\ restarts = 0

-----------------------------------------------------------------------------
(* Launching: run_delegation and start_task_proposal *)

\* child_editing_the_checkout: the row says running; an open task only
\* counts while a turn of it runs.
EditingTheCheckout(d) ==
    /\ d \in Editors
    /\ status[d] = "running"
    /\ d \in Tasks => open[d]

CheckoutFree(c) ==
    c \in Editors => \A d \in Children \ {c} : ~EditingTheCheckout(d)

\* The bound on the children that were asked for.
MoreRows ==
    Cardinality({d \in Children : status[d] # "none" \/ launch[d] # "idle"})
      < MaxRows

\* propose_task: the card waits as a Draft row.
Propose(c) ==
    /\ MoreRows
    /\ c \in Tasks
    /\ status[c] = "none"
    /\ status' = [status EXCEPT ![c] = "draft"]
    /\ UNCHANGED <<reported, age, history, waits, people, past, finalizing,
                   launch, hooks, job, pass, restarts>>

\* The tool call dcc_delegate: the limits and the checkout are checked and
\* nothing is reserved.
LaunchDelegation(c) ==
    /\ MoreRows
    /\ c \in Delegations
    /\ launch[c] = "idle"
    /\ status[c] = "none"
    /\ Cardinality({d \in Delegations : status[d] \in {"draft", "running"}})
         < MaxActive
    /\ CheckoutFree(c)
    /\ launch' = [launch EXCEPT ![c] = "creating"]
    /\ UNCHANGED <<rows, history, waits, people, past, finalizing, hooks, job,
                   pass, restarts>>

\* The person's Start: the guard is held until the row is running.
StartProposal(c) ==
    /\ c \in Tasks
    /\ launch[c] = "idle"
    /\ c \notin finalizing
    /\ status[c] = "draft"
    /\ CheckoutFree(c)
    /\ finalizing' = finalizing \cup {c}
    /\ launch' = [launch EXCEPT ![c] = "reading"]
    /\ UNCHANGED <<rows, history, waits, people, past, hooks, job, pass,
                   restarts>>

\* run_delegation returns (next is what is left of it to do): dropping
\* start_task_proposal's guard is part of returning.
LaunchReturns(c, next) ==
    /\ launch' = [launch EXCEPT ![c] = next]
    /\ finalizing' = IF c \in Tasks THEN finalizing \ {c} ELSE finalizing

\* No workspace, no provider, no child thread: nothing was recorded.
LaunchFails(c) ==
    /\ launch[c] \in {"reading", "creating"}
    /\ LaunchReturns(c, "idle")
    /\ UNCHANGED <<rows, history, waits, people, past, hooks, job, pass,
                   restarts>>

\* create_delegation_with_state reads the proposal again.
CreateRead(c) ==
    /\ launch[c] = "reading"
    /\ IF status[c] = "draft"
         THEN launch' = [launch EXCEPT ![c] = "creating"]
              /\ UNCHANGED finalizing
         ELSE LaunchReturns(c, "idle")
    /\ UNCHANGED <<rows, history, waits, people, past, hooks, job, pass,
                   restarts>>

\* It saves the whole row as a Draft, whatever became of the proposal since.
CreateSave(c) ==
    /\ launch[c] = "creating"
    /\ status' = [status EXCEPT ![c] = "draft"]
    /\ launch' = [launch EXCEPT ![c] = "created"]
    /\ UNCHANGED <<reported, age, history, waits, people, past, finalizing,
                   hooks, job, pass, restarts>>

\* start_delegation_with_state; a terminal row ends the launch, and failing
\* a terminal row changes nothing.
StartRead(c) ==
    /\ launch[c] = "created"
    /\ IF status[c] \in Terminal
         THEN LaunchReturns(c, "done")
         ELSE launch' = [launch EXCEPT ![c] = "starting"]
              /\ UNCHANGED finalizing
    /\ UNCHANGED <<rows, history, waits, people, past, hooks, job, pass,
                   restarts>>

StartWrite(c) ==
    /\ launch[c] = "starting"
    /\ status' = [status EXCEPT ![c] = "running"]
    /\ launch' = [launch EXCEPT ![c] = "started"]
    /\ UNCHANGED <<reported, age, history, waits, people, past, finalizing,
                   hooks, job, pass, restarts>>

\* The parent's DelegationStarted event is appended, and the child's turn is
\* left to a background task.
LaunchAnnounced(c) ==
    /\ launch[c] = "started"
    /\ LaunchReturns(c, "sending")
    /\ UNCHANGED <<rows, history, waits, people, past, hooks, job, pass,
                   restarts>>

\* start_delegation_with_state fails: the target is no longer valid, or the
\* event cannot be appended although the row is running.  The launch then
\* calls fail_delegation_with_state, which reads the row ...
StartFails(c) ==
    /\ launch[c] \in {"starting", "started"}
    /\ IF status[c] \in Terminal
         THEN LaunchReturns(c, "done")
         ELSE launch' = [launch EXCEPT ![c] = "failing"]
              /\ UNCHANGED finalizing
    /\ UNCHANGED <<rows, history, waits, people, past, hooks, job, pass,
                   restarts>>

\* ... and writes it later.  The error goes to the launch's caller, not to
\* the parent's thread.
StartFailsWrite(c) ==
    /\ launch[c] = "failing"
    /\ status' = [status EXCEPT ![c] = "failed"]
    /\ LaunchReturns(c, "done")
    /\ UNCHANGED <<reported, age, history, waits, people, past, hooks, job,
                   pass, restarts>>

\* A turn of the child's conversation starts.  The background send holds the
\* child's provider transition until it returns.
TurnStarts(c) ==
    /\ launch[c] # "sent"
    /\ ~open[c]
    /\ turns[c] < MaxTurns
    /\ turns' = [turns EXCEPT ![c] = @ + 1]
    /\ open' = [open EXCEPT ![c] = TRUE]

\* The background send records the child's turn with the brief.
SendStarts(c) ==
    /\ launch[c] = "sending"
    /\ TurnStarts(c)
    /\ waking' = [waking EXCEPT ![c] = @ \cup {turns[c] + 1}]
    /\ launch' = [launch EXCEPT ![c] = "sent"]
    /\ UNCHANGED <<outcome, mail, rows, waits, people, past, finalizing, hooks,
                   job, pass, restarts>>

\* The provider takes the brief.
SendReturns(c) ==
    /\ launch[c] = "sent"
    /\ launch' = [launch EXCEPT ![c] = "done"]
    /\ UNCHANGED <<rows, history, waits, people, past, finalizing, hooks, job,
                   pass, restarts>>

-----------------------------------------------------------------------------
(* The child's conversation *)

\* The person types in the child's thread.
PersonTurn(c) ==
    /\ status[c] = "running"
    /\ TurnStarts(c)
    /\ UNCHANGED <<outcome, waking, mail, rows, waits, people, past,
                   finalizing, launch, hooks, job, pass, restarts>>

\* message_task: checked against the row it reads; the message then waits
\* for the child's open turn, if any, to end.
MessageTask(c) ==
    /\ c \in Tasks
    /\ status[c] = "running"
    /\ CheckoutFree(c)
    /\ turns[c] < MaxTurns
    /\ ~mail[c]
    /\ mail' = [mail EXCEPT ![c] = TRUE]
    /\ UNCHANGED <<turns, open, outcome, waking, rows, waits, people, past,
                   finalizing, launch, hooks, job, pass, restarts>>

MessageStarts(c) ==
    /\ mail[c]
    /\ TurnStarts(c)
    /\ waking' = [waking EXCEPT ![c] = @ \cup {turns[c] + 1}]
    /\ mail' = [mail EXCEPT ![c] = FALSE]
    /\ UNCHANGED <<outcome, rows, waits, people, past, finalizing, launch,
                   hooks, job, pass, restarts>>

\* The terminal row of the open turn is inserted, and the terminal path
\* spawns the hook.
EndTurn(c, how) ==
    /\ open[c]
    /\ open' = [open EXCEPT ![c] = FALSE]
    /\ outcome' = [d \in Delegations |-> IF d = c THEN how ELSE outcome[d]]
    /\ hooks' = [hooks EXCEPT ![c] = @ + 1]
    /\ UNCHANGED <<turns, waking, mail>>

\* The background send fails, before it recorded the turn or after: then
\* send_turn_with_state aborts the turn, which may be over or refuse to be
\* aborted, before it returns.  fail_and_hand_back follows.
SendFails(c) ==
    /\ \/ launch[c] \in {"sending", "sent"} /\ UNCHANGED <<history, hooks>>
       \/ launch[c] = "sent" /\ EndTurn(c, "aborted")
    /\ launch' = [launch EXCEPT ![c] = "done"]
    /\ job' = [job EXCEPT ![c] = Job("acquireFail", c, 0)]
    /\ UNCHANGED <<rows, waits, people, past, finalizing, pass, restarts>>

TurnEnds(c) ==
    /\ \E how \in {"completed", "aborted"} : EndTurn(c, how)
    /\ UNCHANGED <<rows, waits, people, past, finalizing, launch, job, pass,
                   restarts>>

-----------------------------------------------------------------------------
(* Settling: on_session_turn_terminal, finalize_running_delegation,
   report_task_turn and fail_and_hand_back *)

Step(w, pc) == job' = [job EXCEPT ![w] = Job(pc, job[w].c, job[w].n)]

\* The function returns; FinalizeGuard's Drop removes the id.
Leave(w) ==
    /\ job' = [job EXCEPT ![w] = Idle]
    /\ finalizing' = finalizing \ {job[w].c}

HookRuns(w, c) ==
    /\ w \in Hooks
    /\ job[w] = Idle
    /\ hooks[c] > 0
    /\ hooks' = [hooks EXCEPT ![c] = @ - 1]
    /\ IF status[c] = "running"
         THEN job' = [job EXCEPT ![w] = Job("acquire", c, 0)]
         ELSE UNCHANGED job
    /\ UNCHANGED <<rows, history, waits, people, past, finalizing, launch,
                   pass, restarts>>

\* Variant: the row read before the guard is trusted under it.
AcquireTrustsFirstRead(w) ==
    /\ job[w].pc \in {"acquire", "acquireFail"}
    /\ IF job[w].c \in finalizing
         THEN job' = [job EXCEPT ![w] = Idle] /\ UNCHANGED finalizing
         ELSE /\ finalizing' = finalizing \cup {job[w].c}
              /\ Step(w, IF job[w].pc = "acquire" THEN "decide" ELSE "fail")
    /\ UNCHANGED <<rows, history, waits, people, past, launch, hooks, pass,
                   restarts>>

\* FinalizeGuard::acquire gives up when somebody holds the id; under the
\* guard the row is read again.
Acquire(w) ==
    /\ job[w].pc \in {"acquire", "acquireFail"}
    /\ IF job[w].c \in finalizing \/ status[job[w].c] # "running"
         THEN job' = [job EXCEPT ![w] = Idle] /\ UNCHANGED finalizing
         ELSE /\ finalizing' = finalizing \cup {job[w].c}
              /\ Step(w, IF job[w].pc = "acquire" THEN "decide" ELSE "fail")
    /\ UNCHANGED <<rows, history, waits, people, past, launch, hooks, pass,
                   restarts>>

\* child_outcome, and for a task last_ended_turn against reported_turn_id.
Decide(w) ==
    LET c == job[w].c IN
    /\ job[w].pc = "decide"
    /\ IF open[c] \/ turns[c] = 0 \/ (c \in Tasks /\ reported[c] = turns[c])
         THEN Leave(w)
         ELSE /\ job' = [job EXCEPT ![w] =
                    Job(IF c \in Tasks THEN "report"
                        ELSE IF outcome[c] = "completed" THEN "complete" ELSE "fail",
                        c, ResultOf(c))]
              /\ UNCHANGED finalizing
    /\ UNCHANGED <<rows, history, waits, people, past, launch, hooks, pass,
                   restarts>>

\* complete_ and fail_delegation_with_state read the row once more and give
\* a terminal one back as it is.
SettleRead(w) ==
    /\ job[w].pc \in {"complete", "fail"}
    /\ Step(w, IF status[job[w].c] \in Terminal THEN "deliver"
               ELSE IF job[w].pc = "complete" THEN "completing" ELSE "failing")
    /\ UNCHANGED <<rows, history, waits, people, past, finalizing, launch,
                   hooks, pass, restarts>>

SettleWrite(w) ==
    /\ job[w].pc \in {"completing", "failing"}
    /\ status' = [status EXCEPT ![job[w].c] =
                    IF job[w].pc = "completing" THEN "completed" ELSE "failed"]
    /\ Step(w, "announce")
    /\ UNCHANGED <<reported, age, history, waits, people, past, finalizing,
                   launch, hooks, pass, restarts>>

\* The parent's event is appended and the result delivered, or the append
\* fails and the result stays in the row.
Announce(w) ==
    /\ job[w].pc = "announce"
    /\ \/ Step(w, "deliver") /\ UNCHANGED finalizing
       \/ Leave(w)
    /\ UNCHANGED <<rows, history, waits, people, past, launch, hooks, pass,
                   restarts>>

\* report_task_turn saves the whole row it read, status included.
Report(w) ==
    LET c == job[w].c IN
    /\ job[w].pc = "report"
    /\ status' = [status EXCEPT ![c] = "running"]
    /\ reported' = [reported EXCEPT ![c] = job[w].n]
    /\ IF job[w].n \in waking[c]
         THEN Step(w, "deliver") /\ UNCHANGED finalizing
         ELSE Leave(w)
    /\ UNCHANGED <<age, history, waits, people, past, launch, hooks, pass,
                   restarts>>

\* deliver_result: into the waiter's slot, or handed over to
\* hand_back_to_parent.  A hand-over is one step: whether the parent gets the
\* text as a steer, as a turn or from its queue, to which hand_back_to_parent
\* falls back when the steer or the send returns an error, is inside it.
Deliver(w) ==
    LET c == job[w].c
        n == job[w].n IN
    /\ job[w].pc = "deliver"
    /\ IF slot[c] # None
         THEN slot' = [slot EXCEPT ![c] = [claimed |-> n]]
              /\ UNCHANGED delivered
         ELSE delivered' = [delivered EXCEPT ![c][n] = @ + 1]
              /\ UNCHANGED slot
    /\ Leave(w)
    /\ UNCHANGED <<waiter, silenced, rows, history, people, launch, hooks,
                   pass, restarts>>

-----------------------------------------------------------------------------
(* The watchdog: reconcile_running_delegations *)

\* Time since started_at passes.
Tick(c) ==
    /\ status[c] = "running"
    /\ age[c] < (IF c \in Tasks THEN 1 ELSE 2)
    /\ age' = [age EXCEPT ![c] = @ + 1]
    /\ UNCHANGED <<status, reported, history, waits, people, past, finalizing,
                   launch, hooks, job, pass, restarts>>

\* The running rows are listed and the time is read.
PassStarts ==
    /\ job[Watchdog] = Idle
    /\ \A c \in Children : pass[c] = None
    /\ pass' = [c \in Children |-> IF status[c] = "running" THEN age[c] ELSE None]
    /\ UNCHANGED <<rows, history, waits, people, past, finalizing, launch,
                   hooks, job, restarts>>

\* Variant: a child whose turn ended is left to the hook.
VisitLeavesEnded(c) ==
    /\ job[Watchdog] = Idle
    /\ pass[c] # None
    /\ pass' = [pass EXCEPT ![c] = None]
    /\ job' = [job EXCEPT ![Watchdog] =
         CASE open[c] /\ pass[c] = 2 -> Job("quiesce", c, 0)
           [] ~open[c] /\ turns[c] = 0 /\ reported[c] = 0 /\ pass[c] > 0 ->
                Job("acquireFail", c, 0)
           [] OTHER -> Idle]
    /\ UNCHANGED <<rows, history, waits, people, past, finalizing, launch,
                   hooks, restarts>>

Visit(c) ==
    /\ job[Watchdog] = Idle
    /\ pass[c] # None
    /\ pass' = [pass EXCEPT ![c] = None]
    /\ job' = [job EXCEPT ![Watchdog] =
         CASE open[c] /\ pass[c] = 2 -> Job("quiesce", c, 0)
           [] ~open[c] /\ turns[c] > 0 -> Job("acquire", c, 0)
           [] ~open[c] /\ turns[c] = 0 /\ reported[c] = 0 /\ pass[c] > 0 ->
                Job("acquireFail", c, 0)
           [] OTHER -> Idle]
    /\ UNCHANGED <<rows, history, waits, people, past, finalizing, launch,
                   hooks, restarts>>

\* quiesce_turn_for_abort of the timed-out turn: the abort's hook settles
\* the row, or nothing is left to abort.
Quiesce ==
    /\ job[Watchdog].pc = "quiesce"
    /\ \/ EndTurn(job[Watchdog].c, "aborted")
       \/ ~open[job[Watchdog].c] /\ UNCHANGED <<history, hooks>>
    /\ job' = [job EXCEPT ![Watchdog] = Idle]
    /\ UNCHANGED <<rows, waits, people, past, finalizing, launch, pass,
                   restarts>>

\* The abort fails: the watchdog fails the row itself.
QuiesceFails ==
    /\ job[Watchdog].pc = "quiesce"
    /\ Step(Watchdog, "acquireFail")
    /\ UNCHANGED <<rows, history, waits, people, past, finalizing, launch,
                   hooks, pass, restarts>>

-----------------------------------------------------------------------------
(* The waiting tool call: wait_for_delegation and WaitGuard *)

WaitRegister(c) ==
    /\ status[c] # "none"
    /\ slot[c] = None
    /\ Cardinality({d \in Children : slot[d] # None}) < MaxWaits
    /\ slot' = [slot EXCEPT ![c] = Unclaimed]
    /\ waiter' = [waiter EXCEPT ![c] = Polling]
    /\ UNCHANGED <<rows, history, people, past, finalizing, launch, hooks, job,
                   pass, restarts>>

\* The poll finds a claimed result, or a settled row whose claim grace is
\* over.
WaitPoll(c) ==
    /\ waiter[c] = Polling
    /\ \/ slot[c] # Unclaimed
       \/ status[c] \in {"completed", "failed"}
    /\ waiter' = [waiter EXCEPT ![c] = [pc |-> "returning", n |-> slot[c].claimed]]
    /\ UNCHANGED <<rows, slot, history, people, past, finalizing, launch,
                   hooks, job, pass, restarts>>

\* mark_returned, then the guard's Drop: whatever the slot holds now is gone.
WaitReturn(c) ==
    /\ waiter[c] # None /\ waiter[c].pc = "returning"
    /\ delivered' = IF waiter[c].n = None THEN delivered
                    ELSE [delivered EXCEPT ![c][waiter[c].n] = @ + 1]
    /\ slot' = [slot EXCEPT ![c] = None]
    /\ waiter' = [waiter EXCEPT ![c] = None]
    /\ UNCHANGED <<silenced, rows, history, people, finalizing, launch, hooks,
                   job, pass, restarts>>

\* Variant: a claimed slot is not released when the wait is given up.
WaitDropKeepsClaim(c) ==
    /\ waiter[c] = Polling
    /\ slot' = IF slot[c] = Unclaimed THEN [slot EXCEPT ![c] = None] ELSE slot
    /\ waiter' = [waiter EXCEPT ![c] = None]
    /\ UNCHANGED <<past, rows, history, people, finalizing, launch, hooks,
                   job, pass, restarts>>

\* The wait times out, its row was cancelled, or its request is dropped: a
\* claimed result is handed back to the parent.
WaitDrop(c) ==
    /\ waiter[c] = Polling
    /\ delivered' = IF slot[c] = Unclaimed THEN delivered
                    ELSE [delivered EXCEPT ![c][slot[c].claimed] = @ + 1]
    /\ slot' = [slot EXCEPT ![c] = None]
    /\ waiter' = [waiter EXCEPT ![c] = None]
    /\ UNCHANGED <<silenced, rows, history, people, finalizing, launch, hooks,
                   job, pass, restarts>>

-----------------------------------------------------------------------------
(* Cancelling, dismissing *)

\* Variant: a cancellation does not take the guard.
CancelReadUnguarded(c) ==
    /\ person[c] = "idle"
    /\ status[c] \in {"draft", "running"}
    /\ person' = [person EXCEPT ![c] = "cancelling"]
    /\ UNCHANGED <<rows, history, waits, dismissal, past, finalizing, launch,
                   hooks, job, pass, restarts>>

\* cancel_delegation_for_parent: the guard, then the row read under it.
CancelRead(c) ==
    /\ person[c] = "idle"
    /\ c \notin finalizing
    /\ status[c] \in {"draft", "running"}
    /\ finalizing' = finalizing \cup {c}
    /\ person' = [person EXCEPT ![c] = "cancelling"]
    /\ UNCHANGED <<rows, history, waits, dismissal, past, launch, hooks, job,
                   pass, restarts>>

\* update_delegation_status is unconditional.
CancelWrite(c) ==
    /\ person[c] = "cancelling"
    /\ silenced' = [silenced EXCEPT ![c] = @ \/ status[c] = "running"]
    /\ status' = [status EXCEPT ![c] = "cancelled"]
    /\ person' = [person EXCEPT ![c] = "cancelled"]
    /\ UNCHANGED <<reported, age, history, waits, dismissal, delivered,
                   finalizing, launch, hooks, job, pass, restarts>>

\* The child's open turn is aborted, unless the parent's event could not be
\* appended or the abort fails; the guard is dropped.
CancelEnds(c) ==
    /\ person[c] = "cancelled"
    /\ \/ EndTurn(c, "aborted")
       \/ UNCHANGED <<history, hooks>>
    /\ person' = [person EXCEPT ![c] = "idle"]
    /\ finalizing' = finalizing \ {c}
    /\ UNCHANGED <<rows, waits, dismissal, past, launch, job, pass, restarts>>

\* dismiss_task_proposal and expire_task_proposals read a Draft row, without
\* the guard.
DismissRead(c) ==
    /\ c \in Tasks
    /\ status[c] = "draft"
    /\ ~dismissal[c]
    /\ dismissal' = [dismissal EXCEPT ![c] = TRUE]
    /\ UNCHANGED <<rows, history, waits, person, past, finalizing, launch,
                   hooks, job, pass, restarts>>

DismissWrite(c) ==
    /\ dismissal[c]
    /\ status' = [status EXCEPT ![c] = "cancelled"]
    /\ dismissal' = [dismissal EXCEPT ![c] = FALSE]
    /\ UNCHANGED <<reported, age, history, waits, person, past, finalizing,
                   launch, hooks, job, pass, restarts>>

-----------------------------------------------------------------------------
\* The process ends and starts again: the rows, the histories and the queued
\* messages are durable; startup recovery aborts the open turns and runs no
\* hook for them.
Restart ==
    /\ restarts < MaxRestarts
    /\ restarts' = restarts + 1
    /\ outcome' = [c \in Delegations |-> IF open[c] THEN "aborted" ELSE outcome[c]]
    /\ open' = [c \in Children |-> FALSE]
    /\ finalizing' = {}
    /\ slot' = [c \in Children |-> None]
    /\ waiter' = [c \in Children |-> None]
    /\ launch' = [c \in Children |-> "idle"]
    /\ hooks' = [c \in Children |-> 0]
    /\ job' = [w \in Workers |-> Idle]
    /\ pass' = [c \in Children |-> None]
    /\ person' = [c \in Children |-> "idle"]
    /\ dismissal' = [c \in Children |-> FALSE]
    /\ UNCHANGED <<rows, turns, waking, mail, past>>

LaunchStep(c) ==
    \/ CreateRead(c) \/ CreateSave(c) \/ StartRead(c) \/ StartWrite(c)
    \/ LaunchAnnounced(c) \/ StartFails(c) \/ StartFailsWrite(c)
SettleStep(w) ==
    \/ Acquire(w) \/ Decide(w) \/ SettleRead(w) \/ SettleWrite(w)
    \/ Announce(w) \/ Report(w) \/ Deliver(w)
WatchdogStep ==
    \/ PassStarts \/ (\E c \in Children : Visit(c))
    \/ Quiesce \/ QuiesceFails \/ SettleStep(Watchdog)
CancelStep(c) == CancelWrite(c) \/ CancelEnds(c)

Next ==
    \/ \E c \in Children :
          \/ Propose(c) \/ LaunchDelegation(c) \/ StartProposal(c)
          \/ LaunchFails(c) \/ LaunchStep(c)
          \/ SendStarts(c) \/ SendReturns(c) \/ SendFails(c)
          \/ PersonTurn(c) \/ MessageTask(c) \/ MessageStarts(c) \/ TurnEnds(c)
          \/ Tick(c)
          \/ WaitRegister(c) \/ WaitPoll(c) \/ WaitReturn(c) \/ WaitDrop(c)
          \/ CancelRead(c) \/ CancelStep(c) \/ DismissRead(c) \/ DismissWrite(c)
          \/ \E w \in Hooks : HookRuns(w, c)
    \/ \E w \in Workers \ {Watchdog} : SettleStep(w)
    \/ WatchdogStep
    \/ Restart

Spec == Init /\ [][Next]_vars

\* Tasks of the runtime get to run, the watchdog's loop goes on, and time
\* passes, as far as a delegation depends on it.  Nothing is assumed of a
\* turn's end, of the background send, of a waiter or of a person.
FairSpec ==
    /\ Spec
    /\ WF_vars(WatchdogStep)
    /\ \A w \in Hooks \cup Delegations : WF_vars(SettleStep(w))
    /\ \A c \in Delegations : WF_vars(Tick(c)) /\ WF_vars(CancelStep(c))

-----------------------------------------------------------------------------
RowsTyped ==
    /\ status \in [Children -> {"none", "draft", "running"} \cup Terminal]
    /\ reported \in [Children -> 0..MaxTurns]
    /\ age \in [Children -> 0..2]
HistoryTyped ==
    /\ turns \in [Children -> 0..MaxTurns]
    /\ open \in [Children -> BOOLEAN]
    /\ outcome \in [Delegations -> {"none", "completed", "aborted"}]
    /\ waking \in [Children -> SUBSET (1..MaxTurns)]
    /\ mail \in [Children -> BOOLEAN]
WaitsTyped ==
    /\ slot \in [Children -> {None, Unclaimed} \cup Claims]
    /\ waiter \in [Children -> {None, Polling} \cup Returning]
    /\ \A c \in Children : slot[c] = None <=> waiter[c] = None
    /\ Cardinality({c \in Children : slot[c] # None}) \in 0..MaxWaits
WorkTyped ==
    /\ finalizing \subseteq Children
    /\ launch \in [Children -> {"idle", "reading", "creating", "created",
                                "starting", "started", "failing", "sending",
                                "sent", "done"}]
    /\ hooks \in [Children -> 0..MaxTurns]
    /\ job \in [Workers -> {Idle} \cup [pc : Locals, c : Children, n : 0..MaxTurns]]
    /\ pass \in [Children -> {None} \cup 0..2]
PeopleTyped ==
    /\ person \in [Children -> {"idle", "cancelling", "cancelled"}]
    /\ dismissal \in [Children -> BOOLEAN]
PastTyped ==
    /\ delivered \in [Children -> [0..MaxTurns -> Nat]]
    /\ silenced \in [Children -> BOOLEAN]
    /\ restarts \in 0..MaxRestarts

\* The types; a slot of WAITS exists exactly while a tool call waits, and
\* there are at most MAX_CONCURRENT_WAITS of them.
TypeOK ==
    RowsTyped /\ HistoryTyped /\ WaitsTyped /\ WorkTyped /\ PeopleTyped /\ PastTyped

\* "Exactly one finalizer per delegation; the turn hook and the watchdog
\* race": across hooks, watchdog, failed launches, waiters that return,
\* time out or vanish, and a restart, a result is handed over to the parent
\* (to the tool call that waits, or to hand_back_to_parent) at most once, and
\* a delegation has only one.
DeliveredOnce ==
    \A c \in Children : \A n \in 0..MaxTurns : delivered[c][n] <= 1

\* "Cancelled tasks are never handed back": once a cancellation has ended a
\* running row, no further result of the child is given to a waiter or to
\* the parent, whatever its hooks, its sends and the watchdog still do.
Given(c, n) ==
    \/ delivered[c][n] > 0
    \/ slot[c] = [claimed |-> n]
    \/ waiter[c] = [pc |-> "returning", n |-> n]
CancelledIsSilent ==
    [][\A c \in Children : silenced[c] =>
         \A n \in 0..MaxTurns : Given(c, n)' => Given(c, n)]_vars

\* A running delegation does not stay running: not when its child hangs, its
\* send is lost, its hook finds the guard taken or the process restarts.
SettlesEventually ==
    \A c \in Delegations : []<>(status[c] # "running")

\* "Children that share the checkout take turns: two writing the same files
\* at once is how edits get lost."
OneEditor ==
    \A c, d \in Editors :
        /\ status[c] = "running" /\ open[c]
        /\ status[d] = "running" /\ open[d]
        => c = d
=============================================================================
