---------------------- MODULE DelegationRuntimeProofs ----------------------
(***************************************************************************)
(* DelegationRuntime for every number of delegations, tasks, hooks, turns  *)
(* and waits: the state is well typed and the waits are bounded, a result  *)
(* reaches the parent at most once, and a cancelled child is silent.       *)
(***************************************************************************)
EXTENDS DelegationRuntime, FiniteSetTheorems, TLAPS

(* Inside FinalizeGuard: the steps of a finalization after its acquire.    *)
Guarded == {"decide", "complete", "completing", "fail", "failing",
            "announce", "report", "deliver"}
Holds(w, c) == job[w].pc \in Guarded /\ job[w].c = c

(* start_task_proposal holds the guard of its task until the row runs.     *)
Launching(c) ==
    c \in Tasks /\ launch[c] \in {"reading", "creating", "created", "starting", "started",
                                "failing"}

(* A launch that may still write a Draft or a Running row.                 *)
Prelaunch(c) == launch[c] \in {"reading", "creating", "created", "starting"}

(* The guard is registered while somebody holds it, and by one of them.    *)
GuardTaken ==
    \A c \in Children :
        (\E w \in Workers : Holds(w, c)) \/ Launching(c) \/ person[c] # "idle"
        => c \in finalizing
GuardAlone ==
    \A c \in Children :
        /\ \A v, w \in Workers : Holds(v, c) /\ Holds(w, c) => v = w
        /\ \A w \in Workers : Holds(w, c) => ~Launching(c) /\ person[c] = "idle"
        /\ Launching(c) => person[c] = "idle"
GuardInv == GuardTaken /\ GuardAlone

(* A row that is still being launched does not run yet, so nobody settles  *)
(* it; one that is being settled exists and has given no final result.     *)
LaunchRow == \A c \in Children : Prelaunch(c) => status[c] \in {"none", "draft", "cancelled"}
SettledRow ==
    \A c \in Children, w \in Workers :
        Holds(w, c) => ~Prelaunch(c) /\ status[c] # "none" /\ ~Given(c, 0)

(* The final result is given only for a row that stays terminal.           *)
FinalRow == \A c \in Children : Given(c, 0) => status[c] \in Terminal /\ ~Prelaunch(c)

(* What a finalization carries: 0 is the final result, of a terminal row   *)
(* once it is announced; n > 0 is the report of turn n, still to be        *)
(* recorded or just recorded and not given to anybody.                     *)
Carried(w) ==
    LET c == job[w].c
        n == job[w].n IN
    /\ n # 0 => job[w].pc \in {"report", "deliver"}
    /\ job[w].pc \in {"announce", "deliver"} /\ n = 0 => status[c] \in Terminal
    /\ job[w].pc = "report" => reported[c] < n /\ n <= turns[c]
    /\ job[w].pc = "deliver" /\ n # 0 => n <= reported[c] /\ ~Given(c, n)
JobCarries == \A w \in Workers : Carried(w)

(* A turn is reported after it ended, and given after it was reported.     *)
ReportedFirst ==
    \A c \in Children :
        /\ reported[c] <= turns[c]
        /\ \A n \in 1..MaxTurns : Given(c, n) => n <= reported[c]

(* Hooks are spawned by turns that ended.                                  *)
HooksOfTurns ==
    \A c \in Children : hooks[c] + (IF open[c] THEN 1 ELSE 0) <= turns[c]

(* What a waiter has, the parent has not.                                  *)
ClaimedOnce ==
    \A c \in Children : \A n \in 0..MaxTurns :
        slot[c] = [claimed |-> n] \/ waiter[c] = [pc |-> "returning", n |-> n]
        => delivered[c][n] = 0

(* A running row that was cancelled is left alone by everybody.            *)
SilencedRow ==
    \A c \in Children : silenced[c] =>
        /\ status[c] \in Terminal /\ ~Prelaunch(c)
        /\ \A w \in Workers : ~Holds(w, c)

IInv ==
    /\ TypeOK /\ GuardInv /\ LaunchRow /\ SettledRow /\ FinalRow
    /\ JobCarries /\ ReportedFirst /\ HooksOfTurns /\ DeliveredOnce /\ ClaimedOnce
    /\ SilencedRow

USE BoundsAssumption

-----------------------------------------------------------------------------
(* The values of the records.                                              *)

(* What a slot or a waiter may hold are different things.                  *)
LEMMA WaitValues ==
    /\ \A n \in 0..MaxTurns : [claimed |-> n] # None /\ [claimed |-> n] # Unclaimed
    /\ \A m, n \in 0..MaxTurns : [claimed |-> m] = [claimed |-> n] => m = n
    /\ None # Unclaimed /\ None # Polling
    /\ \A n \in {None} \cup 0..MaxTurns :
          [pc |-> "returning", n |-> n] # None /\ [pc |-> "returning", n |-> n] # Polling
    /\ \A m, n \in {None} \cup 0..MaxTurns :
          [pc |-> "returning", n |-> m] = [pc |-> "returning", n |-> n] => m = n
BY NoneAssumption DEF Unclaimed, Polling, Claims, Returning

(* A worker that is not idle works on a child.                             *)
LEMMA JobRecord ==
    ASSUME TypeOK, NEW w \in Workers
    PROVE  /\ job[w].pc \in Locals =>
                 /\ job[w] \in [pc : Locals, c : Children, n : 0..MaxTurns]
                 /\ job[w].c \in Children /\ job[w].n \in 0..MaxTurns
           /\ job[w].pc \in Locals \/ job[w] = Idle
           /\ Idle.pc \notin Locals
           /\ job[w] # Idle => job[w].pc \in Locals
BY DEF TypeOK, WorkTyped, Idle, Job, Locals

(* One more delivery of result n.                                          *)
Delivers(c, n) == delivered' = [delivered EXCEPT ![c][n] = @ + 1]
LEMMA DeliveredMore ==
    ASSUME PastTyped, NEW c \in Children, NEW n \in 0..MaxTurns, Delivers(c, n)
    PROVE  /\ delivered' \in [Children -> [0..MaxTurns -> Nat]]
           /\ \A d \in Children : \A m \in 0..MaxTurns :
                 delivered'[d][m] = IF d = c /\ m = n THEN delivered[c][n] + 1 ELSE delivered[d][m]
<1> DEFINE row == [delivered[c] EXCEPT ![n] = @ + 1]
<1>1. delivered' = [delivered EXCEPT ![c] = row]
    BY DEF Delivers
<1>2. row \in [0..MaxTurns -> Nat]
    BY DEF PastTyped
<1>3. \A m \in 0..MaxTurns : row[m] = IF m = n THEN delivered[c][n] + 1 ELSE delivered[c][m]
    BY DEF PastTyped
<1> HIDE DEF row
<1>4. delivered' \in [Children -> [0..MaxTurns -> Nat]]
    BY <1>1, <1>2 DEF PastTyped
<1>5. \A d \in Children : delivered'[d] = IF d = c THEN row ELSE delivered[d]
    BY <1>1 DEF PastTyped
<1> QED
    BY <1>3, <1>4, <1>5

(* A result that a waiter holds is a result.                               *)
LEMMA WaitHolds ==
    ASSUME WaitsTyped, NEW c \in Children
    PROVE  /\ slot[c] # None /\ slot[c] # Unclaimed =>
                 slot[c].claimed \in 0..MaxTurns /\ slot[c] = [claimed |-> slot[c].claimed]
           /\ waiter[c] # None /\ waiter[c].pc = "returning" =>
                 /\ waiter[c].n \in {None} \cup 0..MaxTurns
                 /\ waiter[c] = [pc |-> "returning", n |-> waiter[c].n]
           /\ waiter[c] = Polling => slot[c] # None
BY WaitValues DEF WaitsTyped, Claims, Returning, Polling

(* Rows keep their types.                                                  *)
LEMMA RowsTypedStep ==
    ASSUME TypeOK, [Next]_vars
    PROVE  RowsTyped'
<1> USE DEF TypeOK, RowsTyped
<1>1. ASSUME NEW c \in Children, Propose(c) \/ CreateSave(c) \/ StartWrite(c) \/
             StartFails(c) \/ StartFailsWrite(c) \/ CancelWrite(c) \/ DismissWrite(c)
      PROVE  RowsTyped'
    <2>1. CASE Propose(c) \/ CreateSave(c) \/ StartWrite(c)
        BY <2>1 DEF Propose, CreateSave, StartWrite
    <2>2. CASE StartFails(c) \/ StartFailsWrite(c)
        BY <2>2 DEF StartFails, StartFailsWrite, rows, Terminal
    <2>3. CASE CancelWrite(c) \/ DismissWrite(c)
        BY <2>3 DEF CancelWrite, DismissWrite, Terminal
    <2> QED
        BY <1>1, <2>1, <2>2, <2>3
<1>2. ASSUME NEW w \in Workers, SettleWrite(w)
      PROVE  RowsTyped'
    BY <1>2, JobRecord DEF SettleWrite, Terminal, Locals
<1>3. ASSUME NEW w \in Workers, Report(w)
      PROVE  RowsTyped'
    BY <1>3, JobRecord DEF Report, Locals
<1>4. ASSUME NEW c \in Children, Tick(c)
      PROVE  RowsTyped'
    BY <1>4 DEF Tick
<1>5. ASSUME NEW c \in Children, LaunchDelegation(c) \/ StartProposal(c) \/
             LaunchFails(c) \/ CreateRead(c) \/ StartRead(c) \/ LaunchAnnounced(c) \/
             SendStarts(c) \/ SendFails(c) \/ SendReturns(c) \/ PersonTurn(c) \/
             MessageTask(c) \/ MessageStarts(c) \/ TurnEnds(c) \/ WaitRegister(c) \/
             WaitPoll(c) \/ WaitReturn(c) \/ WaitDrop(c) \/ CancelRead(c) \/
             CancelEnds(c) \/ DismissRead(c) \/ Visit(c)
      PROVE  RowsTyped'
    BY <1>5 DEF LaunchDelegation, StartProposal, LaunchFails, CreateRead, StartRead,
       LaunchAnnounced, SendStarts, SendFails, SendReturns, PersonTurn, MessageTask,
       MessageStarts, TurnEnds, WaitRegister, WaitPoll, WaitReturn, WaitDrop,
       CancelRead, CancelEnds, DismissRead, Visit, rows
<1>6. ASSUME NEW w \in Hooks, NEW c \in Children, HookRuns(w, c)
      PROVE  RowsTyped'
    BY <1>6 DEF HookRuns, rows
<1>7. ASSUME NEW w \in Workers, Acquire(w) \/ Decide(w) \/ SettleRead(w) \/ Announce(w)
             \/ Deliver(w)
      PROVE  RowsTyped'
    BY <1>7 DEF Acquire, Decide, SettleRead, Announce, Deliver, rows
<1>8. ASSUME PassStarts \/ Quiesce \/ QuiesceFails \/ Restart \/ UNCHANGED vars
      PROVE  RowsTyped'
    BY <1>8 DEF PassStarts, Quiesce, QuiesceFails, Restart, vars, rows
<1> QED
    BY <1>1, <1>2, <1>3, <1>4, <1>5, <1>6, <1>7, <1>8 DEF Next, LaunchStep, SettleStep,
       WatchdogStep, CancelStep, Workers

(* Histories keep their types.                                             *)
LEMMA HistoryTypedStep ==
    ASSUME TypeOK, [Next]_vars
    PROVE  HistoryTyped'
<1> USE DEF TypeOK, HistoryTyped
<1>1. ASSUME NEW c \in Children, SendStarts(c) \/ PersonTurn(c) \/ MessageStarts(c)
      PROVE  HistoryTyped'
    <2>1. turns[c] + 1 \in 1..MaxTurns /\ turns' = [turns EXCEPT ![c] = turns[c] + 1]
        BY <1>1 DEF SendStarts, PersonTurn, MessageStarts, TurnStarts
    <2>2. waking[c] \cup {turns[c] + 1} \in SUBSET (1..MaxTurns)
        BY <2>1
    <2>3. waking' \in [Children -> SUBSET (1..MaxTurns)]
        <3>1. waking' = waking \/ waking' = [waking EXCEPT ![c] = waking[c] \cup {turns[c] + 1}]
            BY <1>1 DEF SendStarts, PersonTurn, MessageStarts
        <3> QED
            BY <2>2, <3>1
    <2>4. turns' \in [Children -> 0..MaxTurns]
        BY <2>1
    <2>5. open' \in [Children -> BOOLEAN] /\ mail' \in [Children -> BOOLEAN] /\ outcome' = outcome
        BY <1>1 DEF SendStarts, PersonTurn, MessageStarts, TurnStarts
    <2> QED
        BY <2>3, <2>4, <2>5
<1>2. ASSUME NEW c \in Children, MessageTask(c)
      PROVE  HistoryTyped'
    BY <1>2 DEF MessageTask
<1>3. ASSUME NEW c \in Children, TurnEnds(c) \/ CancelEnds(c) \/ SendFails(c)
      PROVE  HistoryTyped'
    BY <1>3 DEF SendFails, TurnEnds, CancelEnds, EndTurn, history
<1>4. ASSUME Quiesce
      PROVE  HistoryTyped'
    BY <1>4 DEF Quiesce, EndTurn, history
<1>5. ASSUME Restart
      PROVE  HistoryTyped'
    BY <1>5 DEF Restart
<1>6. ASSUME NEW c \in Children, Propose(c) \/ LaunchDelegation(c) \/ StartProposal(c)
             \/ LaunchFails(c) \/ CreateRead(c) \/ CreateSave(c) \/ StartRead(c) \/
             StartWrite(c) \/ LaunchAnnounced(c) \/ StartFails(c) \/
             StartFailsWrite(c) \/ SendReturns(c) \/ Tick(c) \/ WaitRegister(c) \/
             WaitPoll(c) \/ WaitReturn(c) \/ WaitDrop(c) \/ CancelRead(c) \/
             CancelWrite(c) \/ DismissRead(c) \/ DismissWrite(c) \/ Visit(c)
      PROVE  HistoryTyped'
    BY <1>6 DEF Propose, LaunchDelegation, StartProposal, LaunchFails, CreateRead,
       CreateSave, StartRead, StartWrite, LaunchAnnounced, StartFails,
       StartFailsWrite, SendReturns, Tick, WaitRegister, WaitPoll, WaitReturn,
       WaitDrop, CancelRead, CancelWrite, DismissRead, DismissWrite, Visit, history
<1>7. ASSUME NEW w \in Hooks, NEW c \in Children, HookRuns(w, c)
      PROVE  HistoryTyped'
    BY <1>7 DEF HookRuns, history
<1>8. ASSUME NEW w \in Workers, Acquire(w) \/ Decide(w) \/ SettleRead(w) \/
             SettleWrite(w) \/ Announce(w) \/ Report(w) \/ Deliver(w)
      PROVE  HistoryTyped'
    BY <1>8 DEF Acquire, Decide, SettleRead, SettleWrite, Announce, Report, Deliver,
       history
<1>9. ASSUME PassStarts \/ QuiesceFails \/ UNCHANGED vars
      PROVE  HistoryTyped'
    BY <1>9 DEF PassStarts, QuiesceFails, vars, history
<1> QED
    BY <1>1, <1>2, <1>3, <1>4, <1>5, <1>6, <1>7, <1>8, <1>9 DEF Next, LaunchStep,
       SettleStep, WatchdogStep, CancelStep, Workers

(* Cancellations and dismissals keep their types.                          *)
LEMMA PeopleTypedStep ==
    ASSUME TypeOK, [Next]_vars
    PROVE  PeopleTyped'
<1> USE DEF TypeOK, PeopleTyped
<1>1. ASSUME NEW c \in Children, CancelRead(c) \/ CancelWrite(c) \/ CancelEnds(c) \/
             DismissRead(c) \/ DismissWrite(c)
      PROVE  PeopleTyped'
    BY <1>1 DEF CancelRead, CancelWrite, CancelEnds, DismissRead, DismissWrite
<1>2. ASSUME Restart
      PROVE  PeopleTyped'
    BY <1>2 DEF Restart
<1>3. ASSUME NEW c \in Children, Propose(c) \/ LaunchDelegation(c) \/ StartProposal(c)
             \/ LaunchFails(c) \/ CreateRead(c) \/ CreateSave(c) \/ StartRead(c) \/
             StartWrite(c) \/ LaunchAnnounced(c) \/ StartFails(c) \/
             StartFailsWrite(c) \/ SendStarts(c) \/ SendFails(c) \/ SendReturns(c) \/
             PersonTurn(c) \/ MessageTask(c) \/ MessageStarts(c) \/ TurnEnds(c) \/
             Tick(c) \/ WaitRegister(c) \/ WaitPoll(c) \/ WaitReturn(c) \/ WaitDrop(c)
             \/ Visit(c)
      PROVE  PeopleTyped'
    BY <1>3 DEF Propose, LaunchDelegation, StartProposal, LaunchFails, CreateRead,
       CreateSave, StartRead, StartWrite, LaunchAnnounced, StartFails,
       StartFailsWrite, SendStarts, SendFails, SendReturns, PersonTurn, MessageTask,
       MessageStarts, TurnEnds, Tick, WaitRegister, WaitPoll, WaitReturn, WaitDrop,
       Visit, people
<1>4. ASSUME NEW w \in Hooks, NEW c \in Children, HookRuns(w, c)
      PROVE  PeopleTyped'
    BY <1>4 DEF HookRuns, people
<1>5. ASSUME NEW w \in Workers, Acquire(w) \/ Decide(w) \/ SettleRead(w) \/
             SettleWrite(w) \/ Announce(w) \/ Report(w) \/ Deliver(w)
      PROVE  PeopleTyped'
    BY <1>5 DEF Acquire, Decide, SettleRead, SettleWrite, Announce, Report, Deliver,
       people
<1>6. ASSUME PassStarts \/ Quiesce \/ QuiesceFails \/ UNCHANGED vars
      PROVE  PeopleTyped'
    BY <1>6 DEF PassStarts, Quiesce, QuiesceFails, vars, people
<1> QED
    BY <1>1, <1>2, <1>3, <1>4, <1>5, <1>6 DEF Next, LaunchStep, SettleStep,
       WatchdogStep, CancelStep, Workers

(* The history variables keep their types.                                 *)
LEMMA PastTypedStep ==
    ASSUME TypeOK, [Next]_vars
    PROVE  PastTyped'
<1> USE DEF TypeOK
<1>1. ASSUME NEW c \in Children, CancelWrite(c)
      PROVE  PastTyped'
    BY <1>1 DEF CancelWrite, past, PastTyped
<1>2. ASSUME NEW w \in Workers, Deliver(w)
      PROVE  PastTyped'
    BY <1>2, JobRecord, DeliveredMore DEF Deliver, Delivers, Locals, PastTyped
<1>3. ASSUME NEW c \in Children, WaitReturn(c)
      PROVE  PastTyped'
    BY <1>3, WaitHolds, DeliveredMore DEF WaitReturn, Delivers, PastTyped
<1>4. ASSUME NEW c \in Children, WaitDrop(c)
      PROVE  PastTyped'
    BY <1>4, WaitHolds, DeliveredMore DEF WaitDrop, Delivers, PastTyped
<1>5. ASSUME Restart
      PROVE  PastTyped'
    BY <1>5 DEF Restart, past, PastTyped
<1>6. ASSUME NEW c \in Children, Propose(c) \/ LaunchDelegation(c) \/ StartProposal(c)
             \/ LaunchFails(c) \/ CreateRead(c) \/ CreateSave(c) \/ StartRead(c) \/
             StartWrite(c) \/ LaunchAnnounced(c) \/ StartFails(c) \/
             StartFailsWrite(c) \/ SendStarts(c) \/ SendFails(c) \/ SendReturns(c) \/
             PersonTurn(c) \/ MessageTask(c) \/ MessageStarts(c) \/ TurnEnds(c) \/
             Tick(c) \/ WaitRegister(c) \/ WaitPoll(c) \/ CancelRead(c) \/
             CancelEnds(c) \/ DismissRead(c) \/ DismissWrite(c) \/ Visit(c)
      PROVE  PastTyped'
    BY <1>6 DEF Propose, LaunchDelegation, StartProposal, LaunchFails, CreateRead,
       CreateSave, StartRead, StartWrite, LaunchAnnounced, StartFails,
       StartFailsWrite, SendStarts, SendFails, SendReturns, PersonTurn, MessageTask,
       MessageStarts, TurnEnds, Tick, WaitRegister, WaitPoll, CancelRead, CancelEnds,
       DismissRead, DismissWrite, Visit, past, PastTyped
<1>7. ASSUME NEW w \in Hooks, NEW c \in Children, HookRuns(w, c)
      PROVE  PastTyped'
    BY <1>7 DEF HookRuns, past, PastTyped
<1>8. ASSUME NEW w \in Workers, Acquire(w) \/ Decide(w) \/ SettleRead(w) \/
             SettleWrite(w) \/ Announce(w) \/ Report(w)
      PROVE  PastTyped'
    BY <1>8 DEF Acquire, Decide, SettleRead, SettleWrite, Announce, Report, past,
       PastTyped
<1>9. ASSUME PassStarts \/ Quiesce \/ QuiesceFails \/ UNCHANGED vars
      PROVE  PastTyped'
    BY <1>9 DEF PassStarts, Quiesce, QuiesceFails, vars, past, PastTyped
<1> QED
    BY <1>1, <1>2, <1>3, <1>4, <1>5, <1>6, <1>7, <1>8, <1>9 DEF Next, LaunchStep,
       SettleStep, WatchdogStep, CancelStep, Workers

(* A slot is held by a waiter, and waits are bounded.                      *)
LEMMA WaitsTypedStep ==
    ASSUME TypeOK, [Next]_vars
    PROVE  WaitsTyped'
<1> USE DEF TypeOK
<1>1. ASSUME NEW c \in Children, WaitRegister(c)
      PROVE  WaitsTyped'
    <2> DEFINE S == {d \in Children : slot[d] # None}
    <2>1. IsFiniteSet(S) /\ c \notin S
        <3>1. S \subseteq Children
            OBVIOUS
        <3> QED
            BY <1>1, <3>1, ChildrenAssumption, FS_Subset DEF WaitRegister
    <2>2. {d \in Children : slot'[d] # None} = S \cup {c}
        BY <1>1, WaitValues DEF WaitRegister, WaitsTyped
    <2>3. Cardinality(S \cup {c}) = Cardinality(S) + 1 /\ Cardinality(S) \in Nat
        BY <2>1, FS_AddElement, FS_CardinalityType
    <2>4. Cardinality(S) < MaxWaits
        BY <1>1 DEF WaitRegister
    <2> HIDE DEF S
    <2>5. Cardinality({d \in Children : slot'[d] # None}) \in 0..MaxWaits
        BY <2>2, <2>3, <2>4
    <2> QED
        BY <1>1, <2>5, WaitValues DEF WaitRegister, WaitsTyped
<1>2. ASSUME NEW c \in Children, WaitPoll(c)
      PROVE  WaitsTyped'
    BY <1>2, WaitHolds, WaitValues DEF WaitPoll, WaitsTyped, Returning, Claims,
       Unclaimed
<1>3. ASSUME NEW c \in Children, WaitReturn(c) \/ WaitDrop(c)
      PROVE  WaitsTyped'
    <2> DEFINE S == {d \in Children : slot[d] # None}
               R == {d \in Children : slot'[d] # None}
    <2>1. R \subseteq S
        BY <1>3 DEF WaitReturn, WaitDrop, WaitsTyped
    <2>2. IsFiniteSet(S)
        <3>1. S \subseteq Children
            OBVIOUS
        <3> QED
            BY <3>1, ChildrenAssumption, FS_Subset
    <2>3. Cardinality(R) \in Nat /\ Cardinality(R) <= Cardinality(S) /\ Cardinality(S) \in 0..MaxWaits
        BY <2>1, <2>2, FS_Subset, FS_CardinalityType DEF WaitsTyped
    <2>4. Cardinality(R) \in 0..MaxWaits
        BY <2>3
    <2> QED
        BY <1>3, <2>4 DEF WaitReturn, WaitDrop, WaitsTyped
<1>4. ASSUME NEW w \in Workers, Deliver(w)
      PROVE  WaitsTyped'
    <2>1. CASE slot[job[w].c] = None
        BY <1>4, <2>1 DEF Deliver, WaitsTyped
    <2>2. CASE slot[job[w].c] # None
        <3>1. job[w].c \in Children /\ job[w].n \in 0..MaxTurns
            BY <1>4, JobRecord DEF Deliver, Locals
        <3>2. slot' = [slot EXCEPT ![job[w].c] = [claimed |-> job[w].n]] /\ waiter' = waiter
            BY <1>4, <2>2 DEF Deliver
        <3>3. [claimed |-> job[w].n] \in Claims /\ [claimed |-> job[w].n] # None
            BY <3>1, WaitValues DEF Claims
        <3>4. {d \in Children : slot'[d] # None} = {d \in Children : slot[d] # None}
            BY <2>2, <3>1, <3>2, <3>3 DEF WaitsTyped
        <3> QED
            BY <2>2, <3>1, <3>2, <3>3, <3>4 DEF WaitsTyped
    <2> QED
        BY <2>1, <2>2
<1>5. ASSUME Restart
      PROVE  WaitsTyped'
    <2>1. {d \in Children : slot'[d] # None} = {}
        BY <1>5 DEF Restart
    <2>2. Cardinality({d \in Children : slot'[d] # None}) = 0
        BY <2>1, FS_EmptySet
    <2> QED
        BY <1>5, <2>2 DEF Restart, WaitsTyped
<1>6. ASSUME NEW c \in Children, Propose(c) \/ LaunchDelegation(c) \/ StartProposal(c)
             \/ LaunchFails(c) \/ CreateRead(c) \/ CreateSave(c) \/ StartRead(c) \/
             StartWrite(c) \/ LaunchAnnounced(c) \/ StartFails(c) \/
             StartFailsWrite(c) \/ SendStarts(c) \/ SendFails(c) \/ SendReturns(c) \/
             PersonTurn(c) \/ MessageTask(c) \/ MessageStarts(c) \/ TurnEnds(c) \/
             Tick(c) \/ CancelRead(c) \/ CancelWrite(c) \/ CancelEnds(c) \/
             DismissRead(c) \/ DismissWrite(c) \/ Visit(c)
      PROVE  WaitsTyped'
    BY <1>6 DEF Propose, LaunchDelegation, StartProposal, LaunchFails, CreateRead,
       CreateSave, StartRead, StartWrite, LaunchAnnounced, StartFails,
       StartFailsWrite, SendStarts, SendFails, SendReturns, PersonTurn, MessageTask,
       MessageStarts, TurnEnds, Tick, CancelRead, CancelWrite, CancelEnds,
       DismissRead, DismissWrite, Visit, waits, WaitsTyped
<1>7. ASSUME NEW w \in Hooks, NEW c \in Children, HookRuns(w, c)
      PROVE  WaitsTyped'
    BY <1>7 DEF HookRuns, waits, WaitsTyped
<1>8. ASSUME NEW w \in Workers, Acquire(w) \/ Decide(w) \/ SettleRead(w) \/
             SettleWrite(w) \/ Announce(w) \/ Report(w)
      PROVE  WaitsTyped'
    BY <1>8 DEF Acquire, Decide, SettleRead, SettleWrite, Announce, Report, waits,
       WaitsTyped
<1>9. ASSUME PassStarts \/ Quiesce \/ QuiesceFails \/ UNCHANGED vars
      PROVE  WaitsTyped'
    BY <1>9 DEF PassStarts, Quiesce, QuiesceFails, vars, waits, WaitsTyped
<1> QED
    BY <1>1, <1>2, <1>3, <1>4, <1>5, <1>6, <1>7, <1>8, <1>9 DEF Next, LaunchStep,
       SettleStep, WatchdogStep, CancelStep, Workers

(* A worker takes up a job, goes on with it, or returns.                   *)
LEMMA JobTyped ==
    ASSUME WorkTyped, NEW w \in Workers, NEW j,
           j = Idle \/ j \in [pc : Locals, c : Children, n : 0..MaxTurns],
           job' = [job EXCEPT ![w] = j]
    PROVE  /\ job' \in [Workers -> {Idle} \cup [pc : Locals, c : Children, n : 0..MaxTurns]]
           /\ \A v \in Workers : job'[v] = IF v = w THEN j ELSE job[v]
BY DEF WorkTyped

(* Launches, hooks, workers and the watchdog's pass keep their types.      *)
LEMMA WorkTypedStep ==
    ASSUME TypeOK, HooksOfTurns, [Next]_vars
    PROVE  WorkTyped'
<1>1. ASSUME NEW c \in Children, LaunchDelegation(c) \/ StartProposal(c) \/
             LaunchFails(c) \/ CreateRead(c) \/ CreateSave(c) \/ StartRead(c) \/
             StartWrite(c) \/ LaunchAnnounced(c) \/ StartFails(c) \/
             StartFailsWrite(c) \/ SendStarts(c) \/ SendReturns(c)
      PROVE  WorkTyped'
    BY <1>1 DEF LaunchDelegation, StartProposal, LaunchFails, CreateRead, CreateSave,
       StartRead, StartWrite, LaunchAnnounced, StartFails, StartFailsWrite,
       SendStarts, SendReturns, LaunchReturns, TypeOK, WorkTyped
<1>2. ASSUME NEW c \in Children, SendFails(c)
      PROVE  WorkTyped'
    BY <1>2 DEF SendFails, TypeOK, WorkTyped, Job, Locals, Workers, HistoryTyped,
       HooksOfTurns, EndTurn
<1>3. ASSUME NEW c \in Children, CancelRead(c) \/ CancelEnds(c) \/ TurnEnds(c)
      PROVE  WorkTyped'
    BY <1>3 DEF CancelRead, CancelEnds, TurnEnds, TypeOK, WorkTyped, HistoryTyped,
       HooksOfTurns, EndTurn
<1>4. ASSUME NEW c \in Children, Visit(c)
      PROVE  WorkTyped'
    BY <1>4 DEF Visit, TypeOK, WorkTyped, Job, Locals, Workers, Idle
<1>5. ASSUME NEW w \in Hooks, NEW c \in Children, HookRuns(w, c)
      PROVE  WorkTyped'
    BY <1>5 DEF HookRuns, TypeOK, WorkTyped, Job, Locals, Workers
<1>6. ASSUME NEW w \in Workers, Acquire(w)
      PROVE  WorkTyped'
    <2>1. \E j : (j = Idle \/ j \in [pc : Locals, c : Children, n : 0..MaxTurns]) /\ job' = [job EXCEPT ![w] = j]
        BY <1>6, JobRecord DEF Acquire, Step, Job, Locals
    <2>2. job' \in [Workers -> {Idle} \cup [pc : Locals, c : Children, n : 0..MaxTurns]]
        BY <2>1, JobTyped DEF TypeOK
    <2> QED
        BY <1>6, <2>2, JobRecord DEF WorkTyped, TypeOK, Locals, Acquire
<1>7. ASSUME NEW w \in Workers, Decide(w)
      PROVE  WorkTyped'
    <2>1. \E j : (j = Idle \/ j \in [pc : Locals, c : Children, n : 0..MaxTurns]) /\ job' = [job EXCEPT ![w] = j]
        BY <1>7, JobRecord DEF Decide, Leave, ResultOf, Job, Locals, TypeOK,
           HistoryTyped
    <2>2. job' \in [Workers -> {Idle} \cup [pc : Locals, c : Children, n : 0..MaxTurns]]
        BY <2>1, JobTyped DEF TypeOK
    <2> QED
        BY <1>7, <2>2, JobRecord DEF WorkTyped, TypeOK, Locals, Decide, Leave
<1>8. ASSUME NEW w \in Workers, SettleRead(w) \/ SettleWrite(w)
      PROVE  WorkTyped'
    <2>1. \E j : (j = Idle \/ j \in [pc : Locals, c : Children, n : 0..MaxTurns]) /\ job' = [job EXCEPT ![w] = j]
        BY <1>8, JobRecord DEF SettleRead, SettleWrite, Step, Job, Locals
    <2>2. job' \in [Workers -> {Idle} \cup [pc : Locals, c : Children, n : 0..MaxTurns]]
        BY <2>1, JobTyped DEF TypeOK
    <2> QED
        BY <1>8, <2>2, JobRecord DEF WorkTyped, TypeOK, Locals, SettleRead, SettleWrite
<1>9. ASSUME NEW w \in Workers, Announce(w) \/ Report(w) \/ Deliver(w)
      PROVE  WorkTyped'
    <2>1. \E j : (j = Idle \/ j \in [pc : Locals, c : Children, n : 0..MaxTurns]) /\ job' = [job EXCEPT ![w] = j]
        BY <1>9, JobRecord DEF Announce, Report, Deliver, Step, Leave, Job, Locals
    <2>2. job' \in [Workers -> {Idle} \cup [pc : Locals, c : Children, n : 0..MaxTurns]]
        BY <2>1, JobTyped DEF TypeOK
    <2> QED
        BY <1>9, <2>2, JobRecord DEF WorkTyped, TypeOK, Locals, Announce, Report,
           Deliver, Leave
<1>10. ASSUME PassStarts
      PROVE  WorkTyped'
    BY <1>10 DEF PassStarts, TypeOK, WorkTyped, RowsTyped
<1>11. ASSUME Quiesce
      PROVE  WorkTyped'
    BY <1>11 DEF Quiesce, TypeOK, WorkTyped, HistoryTyped, HooksOfTurns, EndTurn,
       Workers
<1>12. ASSUME QuiesceFails
      PROVE  WorkTyped'
    BY <1>12, JobRecord DEF QuiesceFails, TypeOK, WorkTyped, Step, Job, Locals, Workers
<1>13. ASSUME Restart
      PROVE  WorkTyped'
    BY <1>13 DEF Restart, WorkTyped
<1>14. ASSUME NEW c \in Children, Propose(c) \/ PersonTurn(c) \/ MessageTask(c) \/
             MessageStarts(c) \/ Tick(c) \/ WaitRegister(c) \/ WaitPoll(c) \/
             WaitReturn(c) \/ WaitDrop(c) \/ CancelWrite(c) \/ DismissRead(c) \/
             DismissWrite(c)
      PROVE  WorkTyped'
    BY <1>14 DEF Propose, PersonTurn, MessageTask, MessageStarts, Tick, WaitRegister,
       WaitPoll, WaitReturn, WaitDrop, CancelWrite, DismissRead, DismissWrite, TypeOK,
       WorkTyped
<1>15. ASSUME UNCHANGED vars
      PROVE  WorkTyped'
    BY <1>15 DEF vars, TypeOK, WorkTyped
<1> QED
    BY <1>1, <1>2, <1>3, <1>4, <1>5, <1>6, <1>7, <1>8, <1>9, <1>10, <1>11, <1>12, <1>13,
       <1>14, <1>15 DEF Next, LaunchStep, SettleStep, WatchdogStep, CancelStep, Workers

-----------------------------------------------------------------------------
(* What the moves of a worker do to the jobs.                              *)

(* The fields of a job.                                                   *)
LEMMA JobFields ==
    /\ Idle.pc = "idle" /\ Idle.n = 0
    /\ \A p, d, n : Job(p, d, n).pc = p /\ Job(p, d, n).c = d /\ Job(p, d, n).n = n
BY DEF Idle, Job

(* The jobs stay as they are.                                              *)
LEMMA JobStays ==
    ASSUME job' = job
    PROVE  /\ \A v \in Workers : job'[v] = job[v]
           /\ \A v \in Workers : \A e \in Children : Holds(v, e)' <=> Holds(v, e)
BY DEF Holds

(* A worker goes on with its child and its result.                         *)
LEMMA JobStep ==
    ASSUME TypeOK, NEW w \in Workers, NEW p, Step(w, p)
    PROVE  /\ job'[w].pc = p /\ job'[w].c = job[w].c /\ job'[w].n = job[w].n
           /\ \A v \in Workers \ {w} : job'[v] = job[v]
           /\ \A v \in Workers : \A e \in Children :
                 Holds(v, e)' <=> IF v = w THEN p \in Guarded /\ job[w].c = e ELSE Holds(v, e)
BY DEF TypeOK, WorkTyped, Step, Job, Holds

(* A worker has nothing to do any more.                                    *)
LEMMA JobReturns ==
    ASSUME TypeOK, NEW w \in Workers, job' = [job EXCEPT ![w] = Idle]
    PROVE  /\ job'[w].pc = "idle"
           /\ \A v \in Workers \ {w} : job'[v] = job[v]
           /\ \A v \in Workers : \A e \in Children : Holds(v, e)' <=> v # w /\ Holds(v, e)
BY DEF TypeOK, WorkTyped, Idle, Job, Holds, Guarded

(* A worker returns and FinalizeGuard's Drop releases its child.           *)
LEMMA JobLeaves ==
    ASSUME TypeOK, NEW w \in Workers, Leave(w)
    PROVE  /\ job'[w].pc = "idle"
           /\ \A v \in Workers \ {w} : job'[v] = job[v]
           /\ \A v \in Workers : \A e \in Children : Holds(v, e)' <=> v # w /\ Holds(v, e)
           /\ finalizing' = finalizing \ {job[w].c}
BY JobReturns DEF Leave

(* Nobody acquires a guard in the steps outside SettleStep, or takes up a  *)
(* result.                                                                 *)
NoNewHolder ==
    \A v \in Workers :
        \/ job'[v] = job[v]
        \/ /\ job'[v].pc \notin Guarded
           /\ job'[v].n = 0 \/ (job[v].pc \notin Guarded /\ job'[v].n = job[v].n)

(* So whoever holds a guard after such a step held it before.              *)
LEMMA HoldersStay ==
    ASSUME NoNewHolder
    PROVE  \A v \in Workers : \A e \in Children : Holds(v, e)' => Holds(v, e)
BY DEF NoNewHolder, Holds

(* A worker takes up a child, and holds no guard yet.                      *)
LEMMA JobTakenUp ==
    ASSUME TypeOK, NEW w \in Workers, NEW p \in {"acquire", "acquireFail", "quiesce"}, NEW d,
           job' = [job EXCEPT ![w] = Job(p, d, 0)]
    PROVE  NoNewHolder
BY DEF TypeOK, WorkTyped, Job, Guarded, NoNewHolder

(* A worker gives its child up.                                            *)
LEMMA JobGivenUp ==
    ASSUME TypeOK, NEW w \in Workers, job' = [job EXCEPT ![w] = Idle]
    PROVE  NoNewHolder
BY DEF TypeOK, WorkTyped, Job, Idle, Guarded, NoNewHolder

(* The steps outside SettleStep, one by one.                               *)
LEMMA OutsideSettling ==
    ASSUME TypeOK
    PROVE  /\ \A c \in Children : SendFails(c) => NoNewHolder
           /\ \A c \in Children, w \in Hooks : HookRuns(w, c) => NoNewHolder
           /\ \A c \in Children : Visit(c) => NoNewHolder
           /\ Quiesce \/ QuiesceFails => NoNewHolder
           /\ Restart => NoNewHolder
           /\ job' = job => NoNewHolder
<1>1. ASSUME NEW c \in Children, SendFails(c) PROVE NoNewHolder
    BY <1>1, JobTakenUp DEF SendFails, Workers
<1>2. ASSUME NEW c \in Children, NEW w \in Hooks, HookRuns(w, c) PROVE NoNewHolder
    <2>1. CASE job' = job
        BY <2>1 DEF NoNewHolder
    <2>2. CASE job' = [job EXCEPT ![w] = Job("acquire", c, 0)]
        BY <2>2, JobTakenUp DEF Workers
    <2> QED
        BY <1>2, <2>1, <2>2 DEF HookRuns
<1>3. ASSUME NEW c \in Children, Visit(c) PROVE NoNewHolder
    <2>1. ASSUME NEW j, j \in {Job("quiesce", c, 0), Job("acquire", c, 0), Job("acquireFail", c, 0), Idle},
                 job' = [job EXCEPT ![Watchdog] = j]
          PROVE  NoNewHolder
        BY <2>1, JobTakenUp, JobGivenUp DEF Workers
    <2> DEFINE todo == CASE open[c] /\ pass[c] = 2 -> Job("quiesce", c, 0)
                         [] ~open[c] /\ turns[c] > 0 -> Job("acquire", c, 0)
                         [] ~open[c] /\ turns[c] = 0 /\ reported[c] = 0 /\ pass[c] > 0 ->
                              Job("acquireFail", c, 0)
                         [] OTHER -> Idle
    <2>2. job' = [job EXCEPT ![Watchdog] = todo]
        BY <1>3 DEF Visit
    <2>3. todo \in {Job("quiesce", c, 0), Job("acquire", c, 0), Job("acquireFail", c, 0), Idle}
        BY Zenon
    <2> HIDE DEF todo
    <2> QED
        BY <2>1, <2>2, <2>3
<1>4. ASSUME Quiesce PROVE NoNewHolder
    BY <1>4, JobGivenUp DEF Quiesce, Workers
<1>5. ASSUME QuiesceFails PROVE NoNewHolder
    BY <1>5, JobTakenUp, JobStep DEF QuiesceFails, Workers, NoNewHolder, Guarded
<1>6. ASSUME Restart PROVE NoNewHolder
    BY <1>6, JobFields DEF Restart, NoNewHolder, Guarded
<1>7. ASSUME job' = job PROVE NoNewHolder
    BY <1>7 DEF NoNewHolder
<1> QED
    BY <1>1, <1>2, <1>3, <1>4, <1>5, <1>6, <1>7

-----------------------------------------------------------------------------
(* The guard.                                                              *)

(* Which step a settling read takes next.                                  *)
LEMMA SettleReadSteps ==
    ASSUME NEW w \in Workers, SettleRead(w)
    PROVE  \E p \in {"deliver", "completing", "failing"} :
              Step(w, p) /\ (p = "deliver" <=> status[job[w].c] \in Terminal)
BY DEF SettleRead

(* A worker that settles its child holds the child's guard, and nobody     *)
(* takes a guard while it does.                                            *)
LEMMA Settling ==
    ASSUME TypeOK, NEW w \in Workers,
           Decide(w) \/ SettleRead(w) \/ SettleWrite(w) \/ Announce(w) \/ Report(w) \/ Deliver(w)
    PROVE  /\ job[w].c \in Children /\ Holds(w, job[w].c)
           /\ \A v \in Workers \ {w} : job'[v] = job[v]
           /\ \A v \in Workers : \A e \in Children : Holds(v, e)' => Holds(v, e)
<1>1. job[w].c \in Children /\ Holds(w, job[w].c)
    BY JobRecord DEF Decide, SettleRead, SettleWrite, Announce, Report, Deliver, Holds,
       Guarded, Locals
<1>2. ASSUME NEW p, NEW n, job' = [job EXCEPT ![w] = Job(p, job[w].c, n)]
      PROVE  /\ \A v \in Workers \ {w} : job'[v] = job[v]
             /\ \A v \in Workers : \A e \in Children : Holds(v, e)' => Holds(v, e)
    BY <1>1, <1>2 DEF Holds, Job, TypeOK, WorkTyped
<1>3. CASE Leave(w)
    BY <1>1, <1>3, JobLeaves
<1>4. ASSUME NEW p, Step(w, p)
      PROVE  /\ \A v \in Workers \ {w} : job'[v] = job[v]
             /\ \A v \in Workers : \A e \in Children : Holds(v, e)' => Holds(v, e)
    BY <1>2, <1>4 DEF Step
<1>5. CASE Decide(w)
    BY <1>1, <1>2, <1>3, <1>5 DEF Decide
<1>6. CASE SettleRead(w) \/ SettleWrite(w)
    BY <1>1, <1>4, <1>6 DEF SettleRead, SettleWrite
<1>7. CASE Announce(w) \/ Report(w) \/ Deliver(w)
    BY <1>1, <1>3, <1>4, <1>7 DEF Announce, Report, Deliver
<1> QED
    BY <1>5, <1>6, <1>7

(* A guard that is held is in FINALIZING, nobody takes one that is there,  *)
(* and who leaves is its only holder.                                      *)
LEMMA GuardStep ==
    ASSUME TypeOK, GuardInv, [Next]_vars
    PROVE  GuardInv'
<1>1. ASSUME NEW c \in Children, StartProposal(c) \/ LaunchFails(c) \/ CreateRead(c) \/
             CreateSave(c) \/ StartRead(c) \/ StartWrite(c) \/ LaunchAnnounced(c) \/
             StartFails(c) \/ StartFailsWrite(c) \/ LaunchDelegation(c)
      PROVE  GuardInv'
    <2>1. NoNewHolder
        BY <1>1, OutsideSettling DEF StartProposal, LaunchFails, CreateRead,
           CreateSave, StartRead, StartWrite, LaunchAnnounced, StartFails,
           StartFailsWrite, LaunchDelegation
    <2>2. \A v \in Workers : \A e \in Children : Holds(v, e)' => Holds(v, e)
        BY <2>1, HoldersStay
    <2> QED
        BY <1>1, <2>1, <2>2, ChildrenAssumption DEF StartProposal, LaunchFails,
           CreateRead, CreateSave, StartRead, StartWrite, LaunchAnnounced, StartFails,
           StartFailsWrite, LaunchDelegation, GuardInv, GuardTaken, GuardAlone,
           Launching, LaunchReturns, people, TypeOK, WorkTyped, PeopleTyped
<1>2. ASSUME NEW c \in Children, SendStarts(c) \/ SendFails(c) \/ SendReturns(c)
      PROVE  GuardInv'
    <2>1. NoNewHolder
        BY <1>2, OutsideSettling DEF SendStarts, SendFails, SendReturns
    <2>2. \A v \in Workers : \A e \in Children : Holds(v, e)' => Holds(v, e)
        BY <2>1, HoldersStay
    <2> QED
        BY <1>2, <2>1, <2>2 DEF SendStarts, SendFails, SendReturns, GuardInv,
           GuardTaken, GuardAlone, Launching, people, TypeOK, WorkTyped
<1>3. ASSUME NEW c \in Children, CancelRead(c) \/ CancelWrite(c) \/ CancelEnds(c)
      PROVE  GuardInv'
    <2>1. NoNewHolder
        BY <1>3, OutsideSettling DEF CancelRead, CancelWrite, CancelEnds
    <2>2. \A v \in Workers : \A e \in Children : Holds(v, e)' => Holds(v, e)
        BY <2>1, HoldersStay
    <2> QED
        BY <1>3, <2>1, <2>2 DEF CancelRead, CancelWrite, CancelEnds, GuardInv,
           GuardTaken, GuardAlone, Launching, TypeOK, PeopleTyped
<1>4. ASSUME Restart
      PROVE  GuardInv'
    <2>1. NoNewHolder
        BY <1>4, OutsideSettling
    <2>2. \A v \in Workers : \A e \in Children : Holds(v, e)' => Holds(v, e)
        BY <2>1, HoldersStay
    <2> QED
        BY <1>4, <2>1, <2>2 DEF Restart, GuardInv, GuardTaken, GuardAlone, Launching,
           Holds, Guarded, Idle, Job
<1>5. ASSUME NEW w \in Workers, Acquire(w)
      PROVE  GuardInv'
    <2>1. job[w].c \in Children
        BY <1>5, JobRecord DEF Acquire, Locals
    <2>2. CASE job' = [job EXCEPT ![w] = Idle] /\ UNCHANGED finalizing
        <3>1. \A v \in Workers : \A e \in Children : Holds(v, e)' => Holds(v, e)
            BY <2>2, JobReturns
        <3> QED
            BY <1>5, <2>2, <3>1 DEF Acquire, GuardInv, GuardTaken, GuardAlone,
               Launching, people
    <2>3. ASSUME NEW p \in Guarded, Step(w, p), job[w].c \notin finalizing,
                 finalizing' = finalizing \cup {job[w].c}
          PROVE  GuardInv'
        <3>1. \A v \in Workers : \A e \in Children :
                  Holds(v, e)' => IF v = w THEN job[w].c = e ELSE Holds(v, e)
            BY <2>3, JobStep
        <3> QED
            BY <1>5, <2>1, <2>3, <3>1 DEF Acquire, GuardInv, GuardTaken, GuardAlone,
               Launching, people
    <2> QED
        BY <1>5, <2>2, <2>3 DEF Acquire, Guarded
<1>6. ASSUME NEW w \in Workers, Decide(w)
      PROVE  GuardInv'
    <2>1. job[w].c \in Children
        BY <1>6, JobRecord DEF Decide, Locals
    <2>2. Holds(w, job[w].c)
        BY <1>6 DEF Decide, Holds, Guarded
    <2>3. CASE Leave(w)
        <3>1. /\ \A v \in Workers : \A e \in Children : Holds(v, e)' <=> v # w /\ Holds(v, e)
              /\ finalizing' = finalizing \ {job[w].c}
            BY <2>3, JobLeaves
        <3> QED
            BY <1>6, <2>1, <2>2, <3>1 DEF Decide, GuardInv, GuardTaken, GuardAlone,
               Launching, people
    <2>4. ASSUME NEW p, NEW n, job' = [job EXCEPT ![w] = Job(p, job[w].c, n)], UNCHANGED finalizing
          PROVE  GuardInv'
        <3>1. \A v \in Workers : \A e \in Children : Holds(v, e)' => Holds(v, e)
            BY <2>2, <2>4 DEF Holds, Job, TypeOK, WorkTyped
        <3> QED
            BY <1>6, <2>4, <3>1 DEF Decide, GuardInv, GuardTaken, GuardAlone, Launching,
               people
    <2> QED
        BY <1>6, <2>3, <2>4 DEF Decide
<1>7. ASSUME NEW w \in Workers, SettleRead(w)
      PROVE  GuardInv'
    <2>1. job[w].c \in Children
        BY <1>7, JobRecord DEF SettleRead, Locals
    <2>2. Holds(w, job[w].c)
        BY <1>7 DEF SettleRead, Holds, Guarded
    <2>3. \A v \in Workers : \A e \in Children : Holds(v, e)' => Holds(v, e)
        BY <1>7, <2>2, SettleReadSteps, JobStep DEF Holds
    <2> QED
        BY <1>7, <2>3 DEF SettleRead, GuardInv, GuardTaken, GuardAlone, Launching,
           people
<1>8. ASSUME NEW w \in Workers, SettleWrite(w)
      PROVE  GuardInv'
    <2>1. job[w].c \in Children
        BY <1>8, JobRecord DEF SettleWrite, Locals
    <2>2. Holds(w, job[w].c) /\ Step(w, "announce")
        BY <1>8 DEF SettleWrite, Holds, Guarded
    <2>3. \A v \in Workers : \A e \in Children : Holds(v, e)' => Holds(v, e)
        BY <2>2, JobStep DEF Holds
    <2> QED
        BY <1>8, <2>3 DEF SettleWrite, GuardInv, GuardTaken, GuardAlone, Launching,
           people
<1>9. ASSUME NEW w \in Workers, Announce(w) \/ Report(w) \/ Deliver(w)
      PROVE  GuardInv'
    <2>1. job[w].c \in Children
        BY <1>9, JobRecord DEF Announce, Report, Deliver, Locals
    <2>2. Holds(w, job[w].c)
        BY <1>9 DEF Announce, Report, Deliver, Holds, Guarded
    <2>3. CASE Leave(w)
        <3>1. /\ \A v \in Workers : \A e \in Children : Holds(v, e)' <=> v # w /\ Holds(v, e)
              /\ finalizing' = finalizing \ {job[w].c}
            BY <2>3, JobLeaves
        <3> QED
            BY <1>9, <2>1, <2>2, <3>1 DEF Announce, Report, Deliver, GuardInv,
               GuardTaken, GuardAlone, Launching, people
    <2>4. CASE Step(w, "deliver") /\ UNCHANGED finalizing
        <3>1. \A v \in Workers : \A e \in Children : Holds(v, e)' => Holds(v, e)
            BY <2>2, <2>4, JobStep DEF Holds
        <3> QED
            BY <1>9, <2>4, <3>1 DEF Announce, Report, Deliver, GuardInv, GuardTaken,
               GuardAlone, Launching, people
    <2> QED
        BY <1>9, <2>3, <2>4 DEF Announce, Report, Deliver
<1>10. ASSUME NEW c \in Children, Propose(c) \/ PersonTurn(c) \/ MessageTask(c) \/
             MessageStarts(c) \/ TurnEnds(c) \/ Tick(c) \/ WaitRegister(c) \/
             WaitPoll(c) \/ WaitReturn(c) \/ WaitDrop(c) \/ DismissRead(c) \/
             DismissWrite(c) \/ Visit(c)
      PROVE  GuardInv'
    <2>1. NoNewHolder
        BY <1>10, OutsideSettling DEF Propose, PersonTurn, MessageTask, MessageStarts,
           TurnEnds, Tick, WaitRegister, WaitPoll, WaitReturn, WaitDrop, DismissRead,
           DismissWrite, Visit
    <2>2. \A v \in Workers : \A e \in Children : Holds(v, e)' => Holds(v, e)
        BY <2>1, HoldersStay
    <2> QED
        BY <1>10, <2>1, <2>2 DEF Propose, PersonTurn, MessageTask, MessageStarts,
           TurnEnds, Tick, WaitRegister, WaitPoll, WaitReturn, WaitDrop, DismissRead,
           DismissWrite, Visit, GuardInv, GuardTaken, GuardAlone, Launching, people
<1>11. ASSUME NEW w \in Hooks, NEW c \in Children, HookRuns(w, c)
      PROVE  GuardInv'
    <2>1. NoNewHolder
        BY <1>11, OutsideSettling
    <2>2. \A v \in Workers : \A e \in Children : Holds(v, e)' => Holds(v, e)
        BY <2>1, HoldersStay
    <2> QED
        BY <1>11, <2>1, <2>2 DEF HookRuns, GuardInv, GuardTaken, GuardAlone, Launching,
           people
<1>12. ASSUME PassStarts \/ Quiesce \/ QuiesceFails \/ UNCHANGED vars
      PROVE  GuardInv'
    <2>1. NoNewHolder
        BY <1>12, OutsideSettling DEF PassStarts, Quiesce, QuiesceFails, vars
    <2>2. \A v \in Workers : \A e \in Children : Holds(v, e)' => Holds(v, e)
        BY <2>1, HoldersStay
    <2> QED
        BY <1>12, <2>1, <2>2 DEF PassStarts, Quiesce, QuiesceFails, vars, GuardInv,
           GuardTaken, GuardAlone, Launching, people
<1> QED
    BY <1>1, <1>2, <1>3, <1>4, <1>5, <1>6, <1>7, <1>8, <1>9, <1>10, <1>11, <1>12 DEF
       Next, LaunchStep, SettleStep, WatchdogStep, CancelStep, Workers

-----------------------------------------------------------------------------
(* Results that were given.                                                *)

NothingGiven == \A e \in Children : \A m \in 0..MaxTurns : Given(e, m)' => Given(e, m)

(* Only Deliver gives a result: the steps of a waiter pass on or drop what *)
(* its slot holds.                                                         *)
LEMMA WaitsGiveNothing ==
    ASSUME TypeOK
    PROVE  /\ \A c \in Children : WaitRegister(c) => NothingGiven
           /\ \A c \in Children : WaitPoll(c) => NothingGiven
           /\ \A c \in Children : WaitReturn(c) => NothingGiven
           /\ \A c \in Children : WaitDrop(c) => NothingGiven
           /\ Restart => NothingGiven
           /\ slot' = slot /\ waiter' = waiter /\ delivered' = delivered => NothingGiven
<1>1. ASSUME NEW c \in Children, WaitRegister(c) PROVE NothingGiven
    BY <1>1, WaitValues DEF WaitRegister, NothingGiven, Given, TypeOK, WaitsTyped, past,
       Polling
<1>2. ASSUME NEW c \in Children, WaitPoll(c) PROVE NothingGiven
    <2> SUFFICES ASSUME NEW e \in Children, NEW m \in 0..MaxTurns, Given(e, m)' PROVE Given(e, m)
        BY DEF NothingGiven
    <2>1. CASE e # c
        BY <1>2, <2>1 DEF WaitPoll, Given, TypeOK, WaitsTyped, past
    <2>2. CASE e = c
        <3>1. waiter' = [waiter EXCEPT ![c] = [pc |-> "returning", n |-> slot[c].claimed]]
                 /\ slot' = slot /\ delivered' = delivered
            BY <1>2 DEF WaitPoll, past
        <3>2. waiter'[c] = [pc |-> "returning", n |-> slot[c].claimed]
            BY <3>1 DEF TypeOK, WaitsTyped
        <3>3. CASE slot[c] = Unclaimed
            <4>1. slot[c].claimed = None
                BY <3>3 DEF Unclaimed
            <4>2. waiter'[c] # [pc |-> "returning", n |-> m]
                BY <3>2, <4>1, NoneAssumption
            <4> QED
                BY <2>2, <3>1, <4>2 DEF Given
        <3>4. CASE slot[c] # Unclaimed
            <4>1. slot[c] # None
                BY <1>2, WaitHolds DEF WaitPoll, TypeOK
            <4>2. slot[c].claimed \in 0..MaxTurns /\ slot[c] = [claimed |-> slot[c].claimed]
                BY <3>4, <4>1, WaitHolds DEF TypeOK
            <4>3. waiter'[c] = [pc |-> "returning", n |-> m] => slot[c] = [claimed |-> m]
                BY <3>2, <4>2, WaitValues
            <4> QED
                BY <2>2, <3>1, <4>3 DEF Given
        <3> QED
            BY <3>3, <3>4
    <2> QED
        BY <2>1, <2>2
<1>3. ASSUME NEW c \in Children, WaitReturn(c) PROVE NothingGiven
    <2>1. /\ slot'[c] = None /\ waiter'[c] = None
          /\ \A e \in Children \ {c} : slot'[e] = slot[e] /\ waiter'[e] = waiter[e]
        BY <1>3 DEF WaitReturn, TypeOK, WaitsTyped
    <2>2. CASE waiter[c].n = None
        <3>1. delivered' = delivered
            BY <1>3, <2>2 DEF WaitReturn
        <3>2. \A m \in 0..MaxTurns : slot'[c] # [claimed |-> m] /\ waiter'[c] # [pc |-> "returning", n |-> m]
            BY <2>1, WaitValues
        <3> QED
            BY <2>1, <3>1, <3>2 DEF NothingGiven, Given
    <2>3. CASE waiter[c].n # None
        <3>1. waiter[c].n \in 0..MaxTurns /\ waiter[c] = [pc |-> "returning", n |-> waiter[c].n]
            BY <1>3, <2>3, WaitHolds DEF WaitReturn, TypeOK
        <3>2. \A d \in Children : \A m \in 0..MaxTurns :
                  delivered'[d][m] = IF d = c /\ m = waiter[c].n THEN delivered[c][waiter[c].n] + 1
                                     ELSE delivered[d][m]
            <4>1. Delivers(c, waiter[c].n)
                BY <1>3, <2>3 DEF WaitReturn, Delivers
            <4>2. waiter[c].n \in 0..MaxTurns
                BY <3>1
            <4>3. PastTyped
                BY DEF TypeOK
            <4> QED
                BY <4>1, <4>2, <4>3, DeliveredMore
        <3>3. \A m \in 0..MaxTurns : delivered'[c][m] > 0 =>
                  delivered[c][m] > 0 \/ waiter[c] = [pc |-> "returning", n |-> m]
            BY <3>1, <3>2
        <3>4. \A m \in 0..MaxTurns : slot'[c] # [claimed |-> m] /\ waiter'[c] # [pc |-> "returning", n |-> m]
            BY <2>1, WaitValues
        <3> QED
            BY <2>1, <3>2, <3>3, <3>4 DEF NothingGiven, Given
    <2> QED
        BY <2>2, <2>3
<1>4. ASSUME NEW c \in Children, WaitDrop(c) PROVE NothingGiven
    <2>1. /\ slot'[c] = None /\ waiter'[c] = None
          /\ \A e \in Children \ {c} : slot'[e] = slot[e] /\ waiter'[e] = waiter[e]
        BY <1>4 DEF WaitDrop, TypeOK, WaitsTyped
    <2>2. CASE slot[c] = Unclaimed
        <3>1. delivered' = delivered
            BY <1>4, <2>2 DEF WaitDrop
        <3>2. \A m \in 0..MaxTurns : slot'[c] # [claimed |-> m] /\ waiter'[c] # [pc |-> "returning", n |-> m]
            BY <2>1, WaitValues
        <3> QED
            BY <2>1, <3>1, <3>2 DEF NothingGiven, Given
    <2>3. CASE slot[c] # Unclaimed
        <3>1. slot[c].claimed \in 0..MaxTurns /\ slot[c] = [claimed |-> slot[c].claimed]
            BY <1>4, <2>3, WaitHolds DEF WaitDrop, TypeOK
        <3>2. \A d \in Children : \A m \in 0..MaxTurns :
                  delivered'[d][m] = IF d = c /\ m = slot[c].claimed THEN delivered[c][slot[c].claimed] + 1
                                     ELSE delivered[d][m]
            <4>1. Delivers(c, slot[c].claimed)
                BY <1>4, <2>3 DEF WaitDrop, Delivers
            <4>2. slot[c].claimed \in 0..MaxTurns
                BY <3>1
            <4>3. PastTyped
                BY DEF TypeOK
            <4> QED
                BY <4>1, <4>2, <4>3, DeliveredMore
        <3>3. \A m \in 0..MaxTurns : delivered'[c][m] > 0 => delivered[c][m] > 0 \/ slot[c] = [claimed |-> m]
            BY <3>1, <3>2
        <3>4. \A m \in 0..MaxTurns : slot'[c] # [claimed |-> m] /\ waiter'[c] # [pc |-> "returning", n |-> m]
            BY <2>1, WaitValues
        <3> QED
            BY <2>1, <3>2, <3>3, <3>4 DEF NothingGiven, Given
    <2> QED
        BY <2>2, <2>3
<1>5. ASSUME Restart PROVE NothingGiven
    BY <1>5, WaitValues DEF Restart, NothingGiven, Given, past
<1>6. ASSUME slot' = slot, waiter' = waiter, delivered' = delivered PROVE NothingGiven
    BY <1>6 DEF NothingGiven, Given
<1> QED
    BY <1>1, <1>2, <1>3, <1>4, <1>5, <1>6

(* Deliver gives the one result its worker carries.                        *)
LEMMA DeliverGives ==
    ASSUME TypeOK, NEW w \in Workers, Deliver(w)
    PROVE  \A e \in Children : \A m \in 0..MaxTurns :
              Given(e, m)' => Given(e, m) \/ (e = job[w].c /\ m = job[w].n)
<1>1. job[w].c \in Children /\ job[w].n \in 0..MaxTurns
    BY JobRecord DEF Deliver, Locals
<1>2. waiter' = waiter
    BY DEF Deliver
<1>3. CASE slot[job[w].c] # None
    <2>1. slot' = [slot EXCEPT ![job[w].c] = [claimed |-> job[w].n]] /\ delivered' = delivered
        BY <1>3 DEF Deliver
    <2>2. \A e \in Children : slot'[e] = IF e = job[w].c THEN [claimed |-> job[w].n] ELSE slot[e]
        BY <1>1, <2>1 DEF TypeOK, WaitsTyped
    <2>3. \A m \in 0..MaxTurns : slot'[job[w].c] = [claimed |-> m] => m = job[w].n
        BY <1>1, <2>2, WaitValues
    <2> QED
        BY <1>1, <1>2, <2>1, <2>2, <2>3 DEF Given
<1>4. CASE slot[job[w].c] = None
    <2>1. slot' = slot /\ Delivers(job[w].c, job[w].n)
        BY <1>4 DEF Deliver, Delivers
    <2>2. \A d \in Children : \A m \in 0..MaxTurns :
              delivered'[d][m] = IF d = job[w].c /\ m = job[w].n THEN delivered[d][m] + 1
                                 ELSE delivered[d][m]
        <3>1. PastTyped
            BY DEF TypeOK
        <3> QED
            BY <1>1, <2>1, <3>1, DeliveredMore
    <2> QED
        BY <1>1, <1>2, <2>1, <2>2 DEF Given
<1> QED
    BY <1>3, <1>4

-----------------------------------------------------------------------------
(* The parts of the invariant.                                             *)

(* Nobody settles or reports a row that is being launched.                 *)
LEMMA LaunchRowStep ==
    ASSUME IInv, [Next]_vars
    PROVE  LaunchRow'
<1>1. ASSUME NEW c \in Children, Propose(c) \/ StartProposal(c) \/ LaunchDelegation(c)
             \/ LaunchFails(c) \/ CreateRead(c) \/ CreateSave(c) \/ StartRead(c) \/
             StartWrite(c) \/ LaunchAnnounced(c) \/ StartFails(c) \/
             StartFailsWrite(c) \/ SendStarts(c) \/ SendFails(c) \/ SendReturns(c) \/
             CancelWrite(c) \/ DismissWrite(c)
      PROVE  LaunchRow'
    BY <1>1 DEF Propose, StartProposal, LaunchDelegation, LaunchFails, CreateRead,
       CreateSave, StartRead, StartWrite, LaunchAnnounced, StartFails,
       StartFailsWrite, SendStarts, SendFails, SendReturns, CancelWrite, DismissWrite,
       LaunchReturns, IInv, LaunchRow, Prelaunch, rows, TypeOK, RowsTyped, WorkTyped,
       Terminal
<1>2. ASSUME NEW w \in Workers, SettleWrite(w)
      PROVE  LaunchRow'
    <2>1. job[w].c \in Children /\ Holds(w, job[w].c)
        BY <1>2, Settling DEF IInv
    <2> QED
        BY <1>2, <2>1 DEF SettleWrite, IInv, SettledRow, LaunchRow, Prelaunch, TypeOK,
           RowsTyped
<1>3. ASSUME NEW w \in Workers, Report(w)
      PROVE  LaunchRow'
    <2>1. job[w].c \in Children /\ Holds(w, job[w].c)
        BY <1>3, Settling DEF IInv
    <2> QED
        BY <1>3, <2>1 DEF Report, IInv, SettledRow, LaunchRow, Prelaunch, TypeOK,
           RowsTyped
<1>4. ASSUME Restart
      PROVE  LaunchRow'
    BY <1>4 DEF Restart, LaunchRow, Prelaunch
<1>5. ASSUME NEW c \in Children, PersonTurn(c) \/ MessageTask(c) \/ MessageStarts(c) \/
             TurnEnds(c) \/ Tick(c) \/ WaitRegister(c) \/ WaitPoll(c) \/ WaitReturn(c)
             \/ WaitDrop(c) \/ CancelRead(c) \/ CancelEnds(c) \/ DismissRead(c) \/
             Visit(c)
      PROVE  LaunchRow'
    BY <1>5 DEF PersonTurn, MessageTask, MessageStarts, TurnEnds, Tick, WaitRegister,
       WaitPoll, WaitReturn, WaitDrop, CancelRead, CancelEnds, DismissRead, Visit, rows,
       IInv, LaunchRow, Prelaunch
<1>6. ASSUME NEW w \in Hooks, NEW c \in Children, HookRuns(w, c)
      PROVE  LaunchRow'
    BY <1>6 DEF HookRuns, rows, IInv, LaunchRow, Prelaunch
<1>7. ASSUME NEW w \in Workers, Acquire(w) \/ Decide(w) \/ SettleRead(w) \/ Announce(w)
             \/ Deliver(w)
      PROVE  LaunchRow'
    BY <1>7 DEF Acquire, Decide, SettleRead, Announce, Deliver, rows, IInv, LaunchRow,
       Prelaunch
<1>8. ASSUME PassStarts \/ Quiesce \/ QuiesceFails \/ UNCHANGED vars
      PROVE  LaunchRow'
    BY <1>8 DEF PassStarts, Quiesce, QuiesceFails, vars, rows, IInv, LaunchRow,
       Prelaunch
<1> QED
    BY <1>1, <1>2, <1>3, <1>4, <1>5, <1>6, <1>7, <1>8 DEF Next, LaunchStep, SettleStep,
       WatchdogStep, CancelStep, Workers

(* Who holds the guard found a running row; nobody launches it again or    *)
(* gives its final result meanwhile.                                       *)
LEMMA SettledRowStep ==
    ASSUME IInv, [Next]_vars
    PROVE  SettledRow'
<1>1. ASSUME NEW c \in Children, Propose(c) \/ LaunchDelegation(c) \/ StartProposal(c)
             \/ LaunchFails(c) \/ CreateRead(c) \/ CreateSave(c) \/ StartRead(c) \/
             StartWrite(c) \/ LaunchAnnounced(c) \/ StartFails(c) \/
             StartFailsWrite(c) \/ SendStarts(c) \/ SendFails(c) \/ SendReturns(c) \/
             CancelWrite(c) \/ DismissWrite(c)
      PROVE  SettledRow'
    <2>1. \A v \in Workers : \A e \in Children : Holds(v, e)' => Holds(v, e)
        <3>1. NoNewHolder
            BY <1>1, OutsideSettling DEF IInv, Propose, LaunchDelegation,
               StartProposal, LaunchFails, CreateRead, CreateSave, StartRead,
               StartWrite, LaunchAnnounced, StartFails, StartFailsWrite, SendStarts,
               SendFails, SendReturns, CancelWrite, DismissWrite
        <3> QED
            BY <3>1, HoldersStay
    <2>2. NothingGiven
        BY <1>1, WaitsGiveNothing DEF IInv, Propose, LaunchDelegation, StartProposal,
           LaunchFails, CreateRead, CreateSave, StartRead, StartWrite,
           LaunchAnnounced, StartFails, StartFailsWrite, SendStarts, SendFails,
           SendReturns, CancelWrite, DismissWrite, waits, past
    <2>3. \A e \in Children : Given(e, 0)' => Given(e, 0)
        BY <2>2 DEF NothingGiven
    <2> QED
        BY <1>1, <2>1, <2>3, ChildrenAssumption DEF Propose, LaunchDelegation,
           StartProposal, LaunchFails, CreateRead, CreateSave, StartRead, StartWrite,
           LaunchAnnounced, StartFails, StartFailsWrite, SendStarts, SendFails,
           SendReturns, CancelWrite, DismissWrite, LaunchReturns, rows, TypeOK,
           RowsTyped, WorkTyped, Terminal, SettledRow, GuardInv, GuardTaken,
           GuardAlone, Launching, LaunchRow, Prelaunch, IInv
<1>2. ASSUME Restart
      PROVE  SettledRow'
    <2>1. \A v \in Workers : \A e \in Children : Holds(v, e)' => Holds(v, e)
        <3>1. NoNewHolder
            BY <1>2, OutsideSettling DEF IInv, Restart
        <3> QED
            BY <3>1, HoldersStay
    <2>2. NothingGiven
        BY <1>2, WaitsGiveNothing DEF IInv, Restart, waits, past
    <2>3. \A e \in Children : Given(e, 0)' => Given(e, 0)
        BY <2>2 DEF NothingGiven
    <2> QED
        BY <1>2, <2>1, <2>3 DEF Restart, SettledRow, Prelaunch, Holds, Idle, Job,
           Guarded, IInv
<1>3. ASSUME NEW w \in Workers, Acquire(w)
      PROVE  SettledRow'
    <2>1. job[w].c \in Children
        BY <1>3, JobRecord DEF IInv, Acquire, Locals
    <2>2. \A e \in Children : Given(e, 0)' => Given(e, 0)
        BY <1>3, WaitsGiveNothing, BoundsAssumption DEF IInv, Acquire, waits, past,
           NothingGiven
    <2>3. CASE job' = [job EXCEPT ![w] = Idle]
        <3>1. \A v \in Workers : \A e \in Children : Holds(v, e)' => Holds(v, e)
            BY <2>3, JobReturns DEF IInv
        <3> QED
            BY <1>3, <2>2, <3>1 DEF IInv, SettledRow, Acquire, rows, Prelaunch
    <2>4. ASSUME NEW p, Step(w, p), status[job[w].c] = "running"
          PROVE  SettledRow'
        <3>1. \A v \in Workers : \A e \in Children :
                  Holds(v, e)' => IF v = w THEN job[w].c = e ELSE Holds(v, e)
            BY <2>4, JobStep DEF IInv
        <3> QED
            BY <1>3, <2>1, <2>2, <2>4, <3>1 DEF IInv, SettledRow, Acquire, rows,
               Prelaunch, LaunchRow, FinalRow, Terminal
    <2> QED
        BY <1>3, <2>3, <2>4 DEF Acquire
<1>4. ASSUME NEW w \in Workers, Decide(w)
      PROVE  SettledRow'
    <2>1. job[w].c \in Children /\ Holds(w, job[w].c)
        BY <1>4, Settling DEF IInv
    <2>2. \A e \in Children : Given(e, 0)' => Given(e, 0)
        BY <1>4, WaitsGiveNothing, BoundsAssumption DEF IInv, Decide, waits, past,
           NothingGiven
    <2>3. \A v \in Workers : \A e \in Children : Holds(v, e)' => Holds(v, e)
        BY <1>4, Settling DEF IInv
    <2> QED
        BY <1>4, <2>2, <2>3 DEF IInv, SettledRow, Decide, rows, Prelaunch
<1>5. ASSUME NEW w \in Workers, SettleRead(w)
      PROVE  SettledRow'
    <2>1. job[w].c \in Children /\ Holds(w, job[w].c)
        BY <1>5, Settling DEF IInv
    <2>2. \A e \in Children : Given(e, 0)' => Given(e, 0)
        BY <1>5, WaitsGiveNothing, BoundsAssumption DEF IInv, SettleRead, waits, past,
           NothingGiven
    <2>3. \A v \in Workers : \A e \in Children : Holds(v, e)' => Holds(v, e)
        BY <1>5, Settling DEF IInv
    <2> QED
        BY <1>5, <2>2, <2>3 DEF IInv, SettledRow, SettleRead, rows, Prelaunch
<1>6. ASSUME NEW w \in Workers, SettleWrite(w)
      PROVE  SettledRow'
    <2>1. job[w].c \in Children /\ Holds(w, job[w].c)
        BY <1>6, Settling DEF IInv
    <2>2. \A e \in Children : Given(e, 0)' => Given(e, 0)
        BY <1>6, WaitsGiveNothing, BoundsAssumption DEF IInv, SettleWrite, waits, past,
           NothingGiven
    <2>3. \A v \in Workers : \A e \in Children : Holds(v, e)' => Holds(v, e)
        BY <1>6, Settling DEF IInv
    <2> QED
        BY <1>6, <2>2, <2>3 DEF IInv, SettledRow, SettleWrite, Prelaunch, TypeOK,
           RowsTyped
<1>7. ASSUME NEW w \in Workers, Announce(w) \/ Report(w)
      PROVE  SettledRow'
    <2>1. job[w].c \in Children /\ Holds(w, job[w].c)
        BY <1>7, Settling DEF IInv
    <2>2. \A e \in Children : Given(e, 0)' => Given(e, 0)
        BY <1>7, WaitsGiveNothing, BoundsAssumption DEF IInv, Announce, Report, waits,
           past, NothingGiven
    <2>3. \A v \in Workers : \A e \in Children : Holds(v, e)' => Holds(v, e)
        BY <1>7, Settling DEF IInv
    <2> QED
        BY <1>7, <2>2, <2>3 DEF IInv, SettledRow, Announce, Report, Prelaunch, rows,
           TypeOK, RowsTyped
<1>8. ASSUME NEW w \in Workers, Deliver(w)
      PROVE  SettledRow'
    <2>1. job[w].c \in Children /\ Holds(w, job[w].c)
        BY <1>8, Settling DEF IInv
    <2>2. \A v \in Workers : \A e \in Children : Holds(v, e)' <=> v # w /\ Holds(v, e)
        BY <1>8, JobLeaves DEF IInv, Deliver
    <2>3. \A e \in Children : Given(e, 0)' => Given(e, 0) \/ e = job[w].c
        BY <1>8, DeliverGives, BoundsAssumption DEF IInv
    <2> QED
        BY <1>8, <2>1, <2>2, <2>3 DEF IInv, SettledRow, GuardInv, GuardAlone, Deliver,
           Prelaunch, rows
<1>9. ASSUME NEW c \in Children, PersonTurn(c) \/ MessageTask(c) \/ MessageStarts(c) \/
             TurnEnds(c) \/ Tick(c) \/ WaitRegister(c) \/ WaitPoll(c) \/ WaitReturn(c)
             \/ WaitDrop(c) \/ CancelRead(c) \/ CancelEnds(c) \/ DismissRead(c) \/
             Visit(c)
      PROVE  SettledRow'
    <2>1. \A v \in Workers : \A e \in Children : Holds(v, e)' => Holds(v, e)
        <3>1. NoNewHolder
            BY <1>9, OutsideSettling DEF IInv, PersonTurn, MessageTask, MessageStarts,
               TurnEnds, Tick, WaitRegister, WaitPoll, WaitReturn, WaitDrop, CancelRead,
               CancelEnds, DismissRead, Visit
        <3> QED
            BY <3>1, HoldersStay
    <2>2. NothingGiven
        BY <1>9, WaitsGiveNothing DEF IInv, PersonTurn, MessageTask, MessageStarts,
           TurnEnds, Tick, WaitRegister, WaitPoll, WaitReturn, WaitDrop, CancelRead,
           CancelEnds, DismissRead, Visit, waits, past
    <2>3. \A e \in Children : Given(e, 0)' => Given(e, 0)
        BY <2>2 DEF NothingGiven
    <2> QED
        BY <1>9, <2>1, <2>3 DEF PersonTurn, MessageTask, MessageStarts, TurnEnds, Tick,
           WaitRegister, WaitPoll, WaitReturn, WaitDrop, CancelRead, CancelEnds,
           DismissRead, Visit, rows, SettledRow, Prelaunch, IInv
<1>10. ASSUME NEW w \in Hooks, NEW c \in Children, HookRuns(w, c)
      PROVE  SettledRow'
    <2>1. \A v \in Workers : \A e \in Children : Holds(v, e)' => Holds(v, e)
        <3>1. NoNewHolder
            BY <1>10, OutsideSettling DEF IInv, HookRuns
        <3> QED
            BY <3>1, HoldersStay
    <2>2. NothingGiven
        BY <1>10, WaitsGiveNothing DEF IInv, HookRuns, waits, past
    <2>3. \A e \in Children : Given(e, 0)' => Given(e, 0)
        BY <2>2 DEF NothingGiven
    <2> QED
        BY <1>10, <2>1, <2>3 DEF HookRuns, rows, SettledRow, Prelaunch, IInv
<1>11. ASSUME PassStarts \/ Quiesce \/ QuiesceFails \/ UNCHANGED vars
      PROVE  SettledRow'
    <2>1. \A v \in Workers : \A e \in Children : Holds(v, e)' => Holds(v, e)
        <3>1. NoNewHolder
            BY <1>11, OutsideSettling DEF IInv, PassStarts, Quiesce, QuiesceFails, vars
        <3> QED
            BY <3>1, HoldersStay
    <2>2. NothingGiven
        BY <1>11, WaitsGiveNothing DEF IInv, PassStarts, Quiesce, QuiesceFails, vars,
           waits, past
    <2>3. \A e \in Children : Given(e, 0)' => Given(e, 0)
        BY <2>2 DEF NothingGiven
    <2> QED
        BY <1>11, <2>1, <2>3 DEF PassStarts, Quiesce, QuiesceFails, vars, rows,
           SettledRow, Prelaunch, IInv
<1> QED
    BY <1>1, <1>2, <1>3, <1>4, <1>5, <1>6, <1>7, <1>8, <1>9, <1>10, <1>11 DEF Next,
       LaunchStep, SettleStep, WatchdogStep, CancelStep, Workers

(* Only a settled row gives its final result, and a terminal row is not    *)
(* written again once it did.                                              *)
LEMMA FinalRowStep ==
    ASSUME IInv, [Next]_vars
    PROVE  FinalRow'
<1>1. ASSUME NEW c \in Children, Propose(c) \/ LaunchDelegation(c) \/ StartProposal(c)
      PROVE  FinalRow'
    <2>1. NothingGiven
        BY <1>1, WaitsGiveNothing DEF IInv, Propose, LaunchDelegation, StartProposal,
           waits, past
    <2>2. \A e \in Children : Given(e, 0)' => Given(e, 0)
        BY <2>1 DEF NothingGiven
    <2> QED
        BY <1>1, <2>2 DEF Propose, LaunchDelegation, StartProposal, LaunchReturns, rows,
           TypeOK, RowsTyped, WorkTyped, Terminal, IInv, FinalRow, Prelaunch
<1>2. ASSUME NEW c \in Children, LaunchFails(c) \/ CreateRead(c) \/ CreateSave(c) \/
             StartRead(c)
      PROVE  FinalRow'
    <2>1. NothingGiven
        BY <1>2, WaitsGiveNothing DEF IInv, LaunchFails, CreateRead, CreateSave,
           StartRead, waits, past
    <2>2. \A e \in Children : Given(e, 0)' => Given(e, 0)
        BY <2>1 DEF NothingGiven
    <2> QED
        BY <1>2, <2>2 DEF LaunchFails, CreateRead, CreateSave, StartRead, LaunchReturns,
           rows, TypeOK, RowsTyped, WorkTyped, Terminal, IInv, FinalRow, Prelaunch
<1>3. ASSUME NEW c \in Children, StartWrite(c) \/ LaunchAnnounced(c) \/ StartFails(c)
             \/ StartFailsWrite(c) \/ SendStarts(c) \/ SendFails(c) \/ SendReturns(c)
      PROVE  FinalRow'
    <2>1. NothingGiven
        BY <1>3, WaitsGiveNothing DEF IInv, StartWrite, LaunchAnnounced, StartFails,
           StartFailsWrite, SendStarts, SendFails, SendReturns, waits, past
    <2>2. \A e \in Children : Given(e, 0)' => Given(e, 0)
        BY <2>1 DEF NothingGiven
    <2> QED
        BY <1>3, <2>2 DEF StartWrite, LaunchAnnounced, StartFails, StartFailsWrite,
           SendStarts, SendFails, SendReturns, LaunchReturns, rows, TypeOK, RowsTyped,
           WorkTyped, Terminal, IInv, FinalRow, Prelaunch
<1>4. ASSUME NEW c \in Children, CancelWrite(c) \/ DismissWrite(c)
      PROVE  FinalRow'
    <2>1. NothingGiven
        BY <1>4, WaitsGiveNothing DEF IInv, CancelWrite, DismissWrite, waits, past
    <2>2. \A e \in Children : Given(e, 0)' => Given(e, 0)
        BY <2>1 DEF NothingGiven
    <2> QED
        BY <1>4, <2>2 DEF CancelWrite, DismissWrite, LaunchReturns, rows, TypeOK,
           RowsTyped, WorkTyped, Terminal, IInv, FinalRow, Prelaunch
<1>5. ASSUME NEW w \in Workers, SettleWrite(w) \/ Report(w)
      PROVE  FinalRow'
    <2>1. job[w].c \in Children /\ Holds(w, job[w].c)
        BY <1>5, Settling DEF IInv
    <2>2. \A e \in Children : Given(e, 0)' => Given(e, 0)
        BY <1>5, WaitsGiveNothing, BoundsAssumption DEF IInv, SettleWrite, Report,
           waits, past, NothingGiven
    <2> QED
        BY <1>5, <2>1, <2>2 DEF IInv, SettledRow, FinalRow, SettleWrite, Report,
           Prelaunch, TypeOK, RowsTyped, Terminal
<1>6. ASSUME NEW w \in Workers, Deliver(w)
      PROVE  FinalRow'
    <2>1. job[w].c \in Children /\ Holds(w, job[w].c)
        BY <1>6, Settling DEF IInv
    <2>2. \A e \in Children : Given(e, 0)' => Given(e, 0) \/ (e = job[w].c /\ job[w].n = 0)
        BY <1>6, DeliverGives DEF IInv
    <2>3. job[w].n = 0 => status[job[w].c] \in Terminal
        BY <1>6 DEF IInv, JobCarries, Carried, Deliver
    <2> QED
        BY <1>6, <2>1, <2>2, <2>3 DEF IInv, SettledRow, FinalRow, Deliver, Prelaunch,
           rows
<1>7. ASSUME NEW c \in Children, PersonTurn(c) \/ MessageTask(c) \/ MessageStarts(c) \/
             TurnEnds(c) \/ Tick(c) \/ WaitRegister(c) \/ WaitPoll(c) \/ WaitReturn(c)
             \/ WaitDrop(c) \/ CancelRead(c) \/ CancelEnds(c) \/ DismissRead(c) \/
             Visit(c)
      PROVE  FinalRow'
    <2>1. NothingGiven
        BY <1>7, WaitsGiveNothing DEF IInv, PersonTurn, MessageTask, MessageStarts,
           TurnEnds, Tick, WaitRegister, WaitPoll, WaitReturn, WaitDrop, CancelRead,
           CancelEnds, DismissRead, Visit, waits, past
    <2>2. \A e \in Children : Given(e, 0)' => Given(e, 0)
        BY <2>1 DEF NothingGiven
    <2> QED
        BY <1>7, <2>2 DEF PersonTurn, MessageTask, MessageStarts, TurnEnds, Tick,
           WaitRegister, WaitPoll, WaitReturn, WaitDrop, CancelRead, CancelEnds,
           DismissRead, Visit, rows, IInv, FinalRow, Prelaunch
<1>8. ASSUME NEW w \in Hooks, NEW c \in Children, HookRuns(w, c)
      PROVE  FinalRow'
    <2>1. NothingGiven
        BY <1>8, WaitsGiveNothing DEF IInv, HookRuns, waits, past
    <2>2. \A e \in Children : Given(e, 0)' => Given(e, 0)
        BY <2>1 DEF NothingGiven
    <2> QED
        BY <1>8, <2>2 DEF HookRuns, rows, IInv, FinalRow, Prelaunch
<1>9. ASSUME NEW w \in Workers, Acquire(w) \/ Decide(w) \/ SettleRead(w) \/ Announce(w)
      PROVE  FinalRow'
    <2>1. NothingGiven
        BY <1>9, WaitsGiveNothing DEF IInv, Acquire, Decide, SettleRead, Announce,
           waits, past
    <2>2. \A e \in Children : Given(e, 0)' => Given(e, 0)
        BY <2>1 DEF NothingGiven
    <2> QED
        BY <1>9, <2>2 DEF Acquire, Decide, SettleRead, Announce, rows, IInv, FinalRow,
           Prelaunch
<1>10. ASSUME PassStarts \/ Quiesce \/ QuiesceFails \/ UNCHANGED vars
      PROVE  FinalRow'
    <2>1. NothingGiven
        BY <1>10, WaitsGiveNothing DEF IInv, PassStarts, Quiesce, QuiesceFails, vars,
           waits, past
    <2>2. \A e \in Children : Given(e, 0)' => Given(e, 0)
        BY <2>1 DEF NothingGiven
    <2> QED
        BY <1>10, <2>2 DEF PassStarts, Quiesce, QuiesceFails, vars, rows, IInv,
           FinalRow, Prelaunch
<1>11. ASSUME Restart
      PROVE  FinalRow'
    <2>1. NothingGiven
        BY <1>11, WaitsGiveNothing DEF IInv, Restart, waits, past
    <2>2. \A e \in Children : Given(e, 0)' => Given(e, 0)
        BY <2>1 DEF NothingGiven
    <2> QED
        BY <1>11, <2>2 DEF Restart, rows, IInv, FinalRow, Prelaunch
<1> QED
    BY <1>1, <1>2, <1>3, <1>4, <1>5, <1>6, <1>7, <1>8, <1>9, <1>10, <1>11 DEF Next,
       LaunchStep, SettleStep, WatchdogStep, CancelStep, Workers

(* A report is recorded in the row before it is given, and of a turn of the*)
(* child.                                                                  *)
LEMMA ReportedFirstStep ==
    ASSUME IInv, [Next]_vars
    PROVE  ReportedFirst'
<1>1. ASSUME NEW c \in Children, SendStarts(c) \/ PersonTurn(c) \/ MessageStarts(c)
      PROVE  ReportedFirst'
    <2>1. NothingGiven
        BY <1>1, WaitsGiveNothing DEF IInv, SendStarts, PersonTurn, MessageStarts,
           waits, past
    <2>2. \A e \in Children : \A m \in 1..MaxTurns : Given(e, m)' => Given(e, m)
        BY <2>1 DEF NothingGiven
    <2> QED
        BY <1>1, <2>2 DEF SendStarts, PersonTurn, MessageStarts, TurnStarts, rows,
           TypeOK, HistoryTyped, RowsTyped, IInv, ReportedFirst
<1>2. ASSUME NEW c \in Children, CancelEnds(c) \/ SendFails(c) \/ TurnEnds(c)
      PROVE  ReportedFirst'
    <2>1. NothingGiven
        BY <1>2, WaitsGiveNothing DEF IInv, SendFails, CancelEnds, TurnEnds, waits, past
    <2>2. \A e \in Children : \A m \in 1..MaxTurns : Given(e, m)' => Given(e, m)
        BY <2>1 DEF NothingGiven
    <2> QED
        BY <1>2, <2>2 DEF SendFails, CancelEnds, TurnEnds, EndTurn, rows, history, IInv,
           ReportedFirst
<1>3. ASSUME NEW w \in Workers, Report(w)
      PROVE  ReportedFirst'
    <2>1. job[w].c \in Children /\ Holds(w, job[w].c)
        BY <1>3, Settling DEF IInv
    <2>2. \A e \in Children : \A m \in 1..MaxTurns : Given(e, m)' => Given(e, m)
        BY <1>3, WaitsGiveNothing, BoundsAssumption DEF IInv, Report, waits, past,
           NothingGiven
    <2>3. reported[job[w].c] < job[w].n /\ job[w].n <= turns[job[w].c]
        BY <1>3 DEF IInv, JobCarries, Carried, Report
    <2>4. job[w].n \in 0..MaxTurns
        BY <1>3, JobRecord DEF IInv, Report, Locals
    <2> QED
        BY <1>3, <2>1, <2>2, <2>3, <2>4 DEF IInv, ReportedFirst, Report, history,
           TypeOK, RowsTyped, HistoryTyped
<1>4. ASSUME NEW w \in Workers, Deliver(w)
      PROVE  ReportedFirst'
    <2>1. job[w].c \in Children /\ Holds(w, job[w].c)
        BY <1>4, Settling DEF IInv
    <2>2. \A e \in Children : \A m \in 1..MaxTurns :
              Given(e, m)' => Given(e, m) \/ (e = job[w].c /\ m = job[w].n)
        BY <1>4, DeliverGives DEF IInv
    <2>3. job[w].n # 0 => job[w].n <= reported[job[w].c]
        BY <1>4 DEF IInv, JobCarries, Carried, Deliver
    <2> QED
        BY <1>4, <2>1, <2>2, <2>3 DEF IInv, ReportedFirst, Deliver, rows, history
<1>5. ASSUME NEW c \in Children, Propose(c) \/ LaunchDelegation(c) \/ StartProposal(c)
             \/ LaunchFails(c) \/ CreateRead(c) \/ CreateSave(c) \/ StartRead(c) \/
             StartWrite(c) \/ LaunchAnnounced(c) \/ StartFails(c) \/
             StartFailsWrite(c) \/ SendReturns(c) \/ MessageTask(c) \/ Tick(c) \/
             WaitRegister(c) \/ WaitPoll(c) \/ WaitReturn(c) \/ WaitDrop(c) \/
             CancelRead(c) \/ CancelWrite(c) \/ DismissRead(c) \/ DismissWrite(c) \/
             Visit(c)
      PROVE  ReportedFirst'
    <2>1. NothingGiven
        BY <1>5, WaitsGiveNothing DEF IInv, Propose, LaunchDelegation, StartProposal,
           LaunchFails, CreateRead, CreateSave, StartRead, StartWrite,
           LaunchAnnounced, StartFails, StartFailsWrite, SendReturns, MessageTask,
           Tick, WaitRegister, WaitPoll, WaitReturn, WaitDrop, CancelRead,
           CancelWrite, DismissRead, DismissWrite, Visit, waits, past
    <2>2. \A e \in Children : \A m \in 1..MaxTurns : Given(e, m)' => Given(e, m)
        BY <2>1 DEF NothingGiven
    <2> QED
        BY <1>5, <2>2 DEF Propose, LaunchDelegation, StartProposal, LaunchFails,
           CreateRead, CreateSave, StartRead, StartWrite, LaunchAnnounced, StartFails,
           StartFailsWrite, SendReturns, MessageTask, Tick, WaitRegister, WaitPoll,
           WaitReturn, WaitDrop, CancelRead, CancelWrite, DismissRead, DismissWrite,
           Visit, rows, history, IInv, ReportedFirst
<1>6. ASSUME NEW w \in Hooks, NEW c \in Children, HookRuns(w, c)
      PROVE  ReportedFirst'
    <2>1. NothingGiven
        BY <1>6, WaitsGiveNothing DEF IInv, HookRuns, waits, past
    <2>2. \A e \in Children : \A m \in 1..MaxTurns : Given(e, m)' => Given(e, m)
        BY <2>1 DEF NothingGiven
    <2> QED
        BY <1>6, <2>2 DEF HookRuns, rows, history, IInv, ReportedFirst
<1>7. ASSUME NEW w \in Workers, Acquire(w) \/ Decide(w) \/ SettleRead(w) \/
             SettleWrite(w) \/ Announce(w)
      PROVE  ReportedFirst'
    <2>1. NothingGiven
        BY <1>7, WaitsGiveNothing DEF IInv, Acquire, Decide, SettleRead, SettleWrite,
           Announce, waits, past
    <2>2. \A e \in Children : \A m \in 1..MaxTurns : Given(e, m)' => Given(e, m)
        BY <2>1 DEF NothingGiven
    <2> QED
        BY <1>7, <2>2 DEF Acquire, Decide, SettleRead, SettleWrite, Announce, rows,
           history, IInv, ReportedFirst
<1>8. ASSUME PassStarts \/ QuiesceFails \/ UNCHANGED vars
      PROVE  ReportedFirst'
    <2>1. NothingGiven
        BY <1>8, WaitsGiveNothing DEF IInv, PassStarts, QuiesceFails, vars, waits, past
    <2>2. \A e \in Children : \A m \in 1..MaxTurns : Given(e, m)' => Given(e, m)
        BY <2>1 DEF NothingGiven
    <2> QED
        BY <1>8, <2>2 DEF PassStarts, QuiesceFails, vars, rows, history, IInv,
           ReportedFirst
<1>9. ASSUME Quiesce
      PROVE  ReportedFirst'
    <2>1. NothingGiven
        BY <1>9, WaitsGiveNothing DEF IInv, Quiesce, waits, past
    <2>2. \A e \in Children : \A m \in 1..MaxTurns : Given(e, m)' => Given(e, m)
        BY <2>1 DEF NothingGiven
    <2> QED
        BY <1>9, <2>2 DEF Quiesce, EndTurn, rows, history, IInv, ReportedFirst
<1>10. ASSUME Restart
      PROVE  ReportedFirst'
    <2>1. NothingGiven
        BY <1>10, WaitsGiveNothing DEF IInv, Restart, waits, past
    <2>2. \A e \in Children : \A m \in 1..MaxTurns : Given(e, m)' => Given(e, m)
        BY <2>1 DEF NothingGiven
    <2> QED
        BY <1>10, <2>2 DEF Restart, rows, history, IInv, ReportedFirst
<1> QED
    BY <1>1, <1>2, <1>3, <1>4, <1>5, <1>6, <1>7, <1>8, <1>9, <1>10 DEF Next, LaunchStep,
       SettleStep, WatchdogStep, CancelStep, Workers

(* A turn spawns its hook when it ends, once.                              *)
LEMMA HooksOfTurnsStep ==
    ASSUME TypeOK, HooksOfTurns, [Next]_vars
    PROVE  HooksOfTurns'
<1>1. ASSUME NEW c \in Children, SendStarts(c) \/ PersonTurn(c) \/ MessageStarts(c)
      PROVE  HooksOfTurns'
    BY <1>1 DEF SendStarts, PersonTurn, MessageStarts, TurnStarts, HooksOfTurns, TypeOK,
       HistoryTyped, WorkTyped
<1>2. ASSUME NEW c \in Children, TurnEnds(c) \/ CancelEnds(c) \/ SendFails(c)
      PROVE  HooksOfTurns'
    BY <1>2 DEF SendFails, TurnEnds, CancelEnds, EndTurn, history, HooksOfTurns, TypeOK,
       HistoryTyped, WorkTyped
<1>3. ASSUME NEW w \in Hooks, NEW c \in Children, HookRuns(w, c)
      PROVE  HooksOfTurns'
    BY <1>3 DEF HookRuns, history, HooksOfTurns, TypeOK, HistoryTyped, WorkTyped
<1>4. ASSUME Quiesce
      PROVE  HooksOfTurns'
    BY <1>4 DEF Quiesce, EndTurn, history, HooksOfTurns, TypeOK, HistoryTyped, WorkTyped
<1>5. ASSUME Restart
      PROVE  HooksOfTurns'
    BY <1>5 DEF Restart, HooksOfTurns, TypeOK, HistoryTyped, WorkTyped
<1>6. ASSUME NEW c \in Children, Propose(c) \/ LaunchDelegation(c) \/ StartProposal(c)
             \/ LaunchFails(c) \/ CreateRead(c) \/ CreateSave(c) \/ StartRead(c) \/
             StartWrite(c) \/ LaunchAnnounced(c) \/ StartFails(c) \/
             StartFailsWrite(c) \/ SendReturns(c) \/ MessageTask(c) \/ Tick(c) \/
             WaitRegister(c) \/ WaitPoll(c) \/ WaitReturn(c) \/ WaitDrop(c) \/
             CancelRead(c) \/ CancelWrite(c) \/ DismissRead(c) \/ DismissWrite(c) \/
             Visit(c)
      PROVE  HooksOfTurns'
    BY <1>6 DEF Propose, LaunchDelegation, StartProposal, LaunchFails, CreateRead,
       CreateSave, StartRead, StartWrite, LaunchAnnounced, StartFails,
       StartFailsWrite, SendReturns, MessageTask, Tick, WaitRegister, WaitPoll,
       WaitReturn, WaitDrop, CancelRead, CancelWrite, DismissRead, DismissWrite,
       Visit, history, HooksOfTurns
<1>7. ASSUME NEW w \in Workers, Acquire(w) \/ Decide(w) \/ SettleRead(w) \/
             SettleWrite(w) \/ Announce(w) \/ Report(w) \/ Deliver(w)
      PROVE  HooksOfTurns'
    BY <1>7 DEF Acquire, Decide, SettleRead, SettleWrite, Announce, Report, Deliver,
       history, HooksOfTurns
<1>8. ASSUME PassStarts \/ QuiesceFails \/ UNCHANGED vars
      PROVE  HooksOfTurns'
    BY <1>8 DEF PassStarts, QuiesceFails, vars, history, HooksOfTurns
<1> QED
    BY <1>1, <1>2, <1>3, <1>4, <1>5, <1>6, <1>7, <1>8 DEF Next, LaunchStep, SettleStep,
       WatchdogStep, CancelStep, Workers

(* A settled row stays settled, at least while somebody holds its guard,   *)
(* and no report is recorded.                                              *)
StaysSettled ==
    \A e \in Children :
        /\ status[e] \in Terminal => status'[e] \in Terminal \/ ~\E v \in Workers : Holds(v, e)
        /\ reported'[e] = reported[e]
        /\ turns[e] <= turns'[e]

(* Steps outside SettleStep leave what the workers carry as it is.         *)
LEMMA CarriedOn ==
    ASSUME IInv, HistoryTyped', NoNewHolder, NothingGiven, StaysSettled
    PROVE  JobCarries'
<1> SUFFICES ASSUME NEW v \in Workers PROVE Carried(v)'
    BY DEF JobCarries
<1>1. CASE job'[v] # job[v]
    <2>1. job'[v].pc \notin Guarded /\ job'[v].n = 0
        BY <1>1 DEF NoNewHolder, IInv, JobCarries, Carried, Guarded
    <2> QED
        BY <2>1 DEF Carried, Guarded
<1>2. CASE job'[v] = job[v] /\ job[v].pc \notin Guarded
    BY <1>2 DEF IInv, JobCarries, Carried, Guarded
<1>3. CASE job'[v] = job[v] /\ job[v].pc \in Guarded
    <2>1. job[v].c \in Children /\ job[v].n \in 0..MaxTurns /\ Holds(v, job[v].c)
        BY <1>3, JobRecord DEF IInv, Holds, Guarded, Locals
    <2>2. Carried(v)
        BY DEF IInv, JobCarries
    <2>3. status[job[v].c] \in Terminal => status'[job[v].c] \in Terminal
        BY <2>1 DEF StaysSettled
    <2>4. ~Given(job[v].c, job[v].n) => ~Given(job[v].c, job[v].n)'
        BY <1>3, <2>1 DEF NothingGiven, Given
    <2>5. turns[job[v].c] \in Nat /\ turns'[job[v].c] \in Nat /\ turns[job[v].c] <= turns'[job[v].c]
             /\ reported'[job[v].c] = reported[job[v].c]
        BY <2>1 DEF IInv, TypeOK, HistoryTyped, StaysSettled
    <2> QED
        BY <1>3, <2>1, <2>2, <2>3, <2>4, <2>5 DEF Carried
<1> QED
    BY <1>1, <1>2, <1>3

(* The workers that a settling step of w leaves alone.                     *)
LEMMA OthersCarry ==
    ASSUME IInv, NEW w \in Workers, turns' = turns,
           \A v \in Workers \ {w} : job'[v] = job[v],
           \A v \in Workers \ {w}, e \in Children : Holds(v, e) =>
              /\ status'[e] = status[e] /\ reported'[e] = reported[e]
              /\ \A m \in 0..MaxTurns : Given(e, m)' => Given(e, m)
    PROVE  \A v \in Workers \ {w} : Carried(v)'
<1> SUFFICES ASSUME NEW v \in Workers \ {w} PROVE Carried(v)'
    OBVIOUS
<1>1. Carried(v)
    BY DEF IInv, JobCarries
<1>2. CASE job[v].pc \notin Guarded
    BY <1>1, <1>2 DEF Carried, Guarded
<1>3. CASE job[v].pc \in Guarded
    <2>1. job[v].c \in Children /\ job[v].n \in 0..MaxTurns /\ Holds(v, job[v].c)
        BY <1>3, JobRecord DEF IInv, Holds, Guarded, Locals
    <2>2. status'[job[v].c] = status[job[v].c] /\ reported'[job[v].c] = reported[job[v].c]
        BY <2>1
    <2>3. \A m \in 0..MaxTurns : Given(job[v].c, m)' => Given(job[v].c, m)
        BY <2>1 DEF Given
    <2>4. Given(job[v].c, job[v].n)' => Given(job[v].c, job[v].n)
        BY <2>1, <2>3 DEF Given
    <2> QED
        BY <1>1, <2>1, <2>2, <2>4 DEF Carried
<1> QED
    BY <1>2, <1>3

(* What a worker carries stays true until it delivers: nobody else settles,*)
(* reports or gives its result meanwhile.                                  *)
LEMMA JobCarriesStep ==
    ASSUME IInv, HistoryTyped', [Next]_vars
    PROVE  JobCarries'
<1>1. ASSUME NEW c \in Children, Propose(c) \/ LaunchDelegation(c) \/ StartProposal(c)
             \/ LaunchFails(c) \/ CreateRead(c) \/ CreateSave(c) \/ StartRead(c) \/
             StartWrite(c) \/ LaunchAnnounced(c) \/ StartFails(c) \/
             StartFailsWrite(c) \/ SendFails(c) \/ SendReturns(c) \/ CancelWrite(c) \/
             DismissWrite(c)
      PROVE  JobCarries'
    <2>1. NoNewHolder
        BY <1>1, OutsideSettling DEF IInv, Propose, LaunchDelegation, StartProposal,
           LaunchFails, CreateRead, CreateSave, StartRead, StartWrite,
           LaunchAnnounced, StartFails, StartFailsWrite, SendFails, SendReturns,
           CancelWrite, DismissWrite
    <2>2. NothingGiven
        BY <1>1, WaitsGiveNothing DEF IInv, Propose, LaunchDelegation, StartProposal,
           LaunchFails, CreateRead, CreateSave, StartRead, StartWrite,
           LaunchAnnounced, StartFails, StartFailsWrite, SendFails, SendReturns,
           CancelWrite, DismissWrite, waits, past
    <2>3. StaysSettled
        BY <1>1 DEF StaysSettled, Propose, LaunchDelegation, StartProposal,
           LaunchFails, CreateRead, CreateSave, StartRead, StartWrite,
           LaunchAnnounced, StartFails, StartFailsWrite, SendFails, SendReturns,
           CancelWrite, DismissWrite, rows, history, IInv, LaunchReturns, SettledRow,
           Prelaunch, TypeOK, RowsTyped, HistoryTyped, Terminal, EndTurn
    <2> QED
        BY <2>1, <2>2, <2>3, CarriedOn
<1>2. ASSUME NEW c \in Children, SendStarts(c) \/ PersonTurn(c) \/ MessageStarts(c)
      PROVE  JobCarries'
    <2>1. NoNewHolder
        BY <1>2, OutsideSettling DEF IInv, SendStarts, PersonTurn, MessageStarts
    <2>2. NothingGiven
        BY <1>2, WaitsGiveNothing DEF IInv, SendStarts, PersonTurn, MessageStarts,
           waits, past
    <2>3. StaysSettled
        BY <1>2 DEF StaysSettled, SendStarts, PersonTurn, MessageStarts, rows, history,
           IInv, TurnStarts, TypeOK, HistoryTyped
    <2> QED
        BY <2>1, <2>2, <2>3, CarriedOn
<1>3. ASSUME NEW c \in Children, TurnEnds(c) \/ CancelEnds(c)
      PROVE  JobCarries'
    <2>1. NoNewHolder
        BY <1>3, OutsideSettling DEF IInv, TurnEnds, CancelEnds
    <2>2. NothingGiven
        BY <1>3, WaitsGiveNothing DEF IInv, TurnEnds, CancelEnds, waits, past
    <2>3. StaysSettled
        BY <1>3 DEF StaysSettled, TurnEnds, CancelEnds, rows, history, IInv, EndTurn,
           TypeOK, HistoryTyped
    <2> QED
        BY <2>1, <2>2, <2>3, CarriedOn
<1>4. ASSUME NEW w \in Workers, Acquire(w)
      PROVE  JobCarries'
    <2>1. job[w].c \in Children
        BY <1>4, JobRecord DEF IInv, Acquire, Locals
    <2>2. \A v \in Workers \ {w} : job'[v] = job[v]
        BY <1>4, JobReturns, JobStep DEF IInv, Acquire
    <2>3. job'[w].n = 0 /\ job'[w].pc \in {"idle", "decide", "fail"}
        <3>1. job[w].n = 0
            BY <1>4 DEF IInv, JobCarries, Carried, Acquire
        <3> QED
            BY <1>4, <3>1, JobStep, JobFields DEF IInv, Acquire, TypeOK, WorkTyped
    <2>4. NothingGiven
        BY <1>4, WaitsGiveNothing DEF IInv, Acquire, waits, past
    <2>5. \A v \in Workers \ {w} : Carried(v)'
        <3>1. status' = status /\ reported' = reported /\ turns' = turns
            BY <1>4 DEF Acquire, rows, history
        <3> QED
            BY <2>2, <2>4, <3>1, OthersCarry DEF NothingGiven
    <2> QED
        BY <2>3, <2>5 DEF JobCarries, Carried
<1>5. ASSUME NEW w \in Workers, Decide(w)
      PROVE  JobCarries'
    <2>1. job[w].c \in Children /\ Holds(w, job[w].c)
        BY <1>5, Settling DEF IInv
    <2>2. \A v \in Workers \ {w} : Carried(v)'
        <3>1. /\ turns' = turns
              /\ \A e \in Children \ {job[w].c} : status'[e] = status[e] /\ reported'[e] = reported[e]
            BY <1>5, <2>1 DEF Decide, rows, history, IInv, TypeOK, RowsTyped
        <3>2. \A e \in Children \ {job[w].c} : \A m \in 0..MaxTurns : Given(e, m)' => Given(e, m)
            BY <1>5, WaitsGiveNothing DEF Decide, IInv, waits, past, NothingGiven
        <3>3. \A v \in Workers \ {w}, e \in Children : Holds(v, e) => e # job[w].c
            BY <2>1 DEF IInv, GuardInv, GuardAlone
        <3> QED
            BY <1>5, <3>1, <3>2, <3>3, Settling, OthersCarry DEF IInv
    <2>3. Carried(w)'
        <3>1. CASE Leave(w)
            BY <3>1, JobFields DEF Leave, Carried, IInv, TypeOK, WorkTyped
        <3>2. CASE ~Leave(w)
            <4>1. PICK p : /\ job' = [job EXCEPT ![w] = Job(p, job[w].c, ResultOf(job[w].c))]
                           /\ IF job[w].c \in Tasks THEN p = "report" ELSE p \in {"complete", "fail"}
                           /\ turns[job[w].c] # 0
                           /\ job[w].c \in Tasks => reported[job[w].c] # turns[job[w].c]
                BY <1>5, <3>2 DEF Decide
            <4>2. job'[w].pc = p /\ job'[w].c = job[w].c /\ job'[w].n = ResultOf(job[w].c)
                BY <4>1, JobFields DEF IInv, TypeOK, WorkTyped
            <4>3. reported[job[w].c] <= turns[job[w].c] /\ turns[job[w].c] \in Nat /\ reported[job[w].c] \in Nat
                BY <2>1 DEF IInv, ReportedFirst, TypeOK, RowsTyped, HistoryTyped
            <4>4. reported' = reported /\ turns' = turns
                BY <1>5 DEF Decide, rows, history
            <4>5. CASE job[w].c \in Tasks
                BY <4>1, <4>2, <4>3, <4>4, <4>5 DEF Carried, ResultOf
            <4>6. CASE job[w].c \notin Tasks
                BY <4>1, <4>2, <4>6 DEF Carried, ResultOf
            <4> QED
                BY <4>5, <4>6
        <3> QED
            BY <3>1, <3>2
    <2> QED
        BY <2>2, <2>3 DEF JobCarries
<1>6. ASSUME NEW w \in Workers, SettleRead(w)
      PROVE  JobCarries'
    <2>1. job[w].c \in Children /\ Holds(w, job[w].c)
        BY <1>6, Settling DEF IInv
    <2>2. \A v \in Workers \ {w} : Carried(v)'
        <3>1. /\ turns' = turns
              /\ \A e \in Children \ {job[w].c} : status'[e] = status[e] /\ reported'[e] = reported[e]
            BY <1>6, <2>1 DEF SettleRead, rows, history, IInv, TypeOK, RowsTyped
        <3>2. \A e \in Children \ {job[w].c} : \A m \in 0..MaxTurns : Given(e, m)' => Given(e, m)
            BY <1>6, WaitsGiveNothing DEF SettleRead, IInv, waits, past, NothingGiven
        <3>3. \A v \in Workers \ {w}, e \in Children : Holds(v, e) => e # job[w].c
            BY <2>1 DEF IInv, GuardInv, GuardAlone
        <3> QED
            BY <1>6, <3>1, <3>2, <3>3, Settling, OthersCarry DEF IInv
    <2>3. Carried(w)'
        <3>1. PICK p \in {"deliver", "completing", "failing"} :
                  Step(w, p) /\ (p = "deliver" <=> status[job[w].c] \in Terminal)
            BY <1>6, SettleReadSteps
        <3>2. job[w].n = 0 /\ status' = status
            BY <1>6 DEF SettleRead, IInv, JobCarries, Carried, rows
        <3>3. job'[w].pc = p /\ job'[w].c = job[w].c /\ job'[w].n = job[w].n
            BY <3>1, JobStep DEF IInv
        <3> QED
            BY <3>1, <3>2, <3>3 DEF Carried
    <2> QED
        BY <2>2, <2>3 DEF JobCarries
<1>7. ASSUME NEW w \in Workers, SettleWrite(w)
      PROVE  JobCarries'
    <2>1. job[w].c \in Children /\ Holds(w, job[w].c)
        BY <1>7, Settling DEF IInv
    <2>2. \A v \in Workers \ {w} : Carried(v)'
        <3>1. /\ turns' = turns
              /\ \A e \in Children \ {job[w].c} : status'[e] = status[e] /\ reported'[e] = reported[e]
            BY <1>7, <2>1 DEF SettleWrite, rows, history, IInv, TypeOK, RowsTyped
        <3>2. \A e \in Children \ {job[w].c} : \A m \in 0..MaxTurns : Given(e, m)' => Given(e, m)
            BY <1>7, WaitsGiveNothing DEF SettleWrite, IInv, waits, past, NothingGiven
        <3>3. \A v \in Workers \ {w}, e \in Children : Holds(v, e) => e # job[w].c
            BY <2>1 DEF IInv, GuardInv, GuardAlone
        <3> QED
            BY <1>7, <3>1, <3>2, <3>3, Settling, OthersCarry DEF IInv
    <2>3. Carried(w)'
        <3>1. Step(w, "announce") /\ status'[job[w].c] \in Terminal
            BY <1>7, <2>1 DEF SettleWrite, IInv, TypeOK, RowsTyped, Terminal
        <3>2. job[w].n = 0
            BY <1>7 DEF SettleWrite, IInv, JobCarries, Carried
        <3>3. job'[w].pc = "announce" /\ job'[w].c = job[w].c /\ job'[w].n = job[w].n
            BY <3>1, JobStep DEF IInv
        <3> QED
            BY <3>1, <3>2, <3>3 DEF Carried
    <2> QED
        BY <2>2, <2>3 DEF JobCarries
<1>8. ASSUME NEW w \in Workers, Announce(w)
      PROVE  JobCarries'
    <2>1. job[w].c \in Children /\ Holds(w, job[w].c)
        BY <1>8, Settling DEF IInv
    <2>2. \A v \in Workers \ {w} : Carried(v)'
        <3>1. /\ turns' = turns
              /\ \A e \in Children \ {job[w].c} : status'[e] = status[e] /\ reported'[e] = reported[e]
            BY <1>8, <2>1 DEF Announce, rows, history, IInv, TypeOK, RowsTyped
        <3>2. \A e \in Children \ {job[w].c} : \A m \in 0..MaxTurns : Given(e, m)' => Given(e, m)
            BY <1>8, WaitsGiveNothing DEF Announce, IInv, waits, past, NothingGiven
        <3>3. \A v \in Workers \ {w}, e \in Children : Holds(v, e) => e # job[w].c
            BY <2>1 DEF IInv, GuardInv, GuardAlone
        <3> QED
            BY <1>8, <3>1, <3>2, <3>3, Settling, OthersCarry DEF IInv
    <2>3. Carried(w)'
        <3>1. job[w].n = 0 /\ status[job[w].c] \in Terminal /\ status' = status
            BY <1>8 DEF Announce, IInv, JobCarries, Carried, rows
        <3>2. CASE Leave(w)
            BY <3>2, JobFields DEF Leave, Carried, IInv, TypeOK, WorkTyped
        <3>3. CASE Step(w, "deliver")
            <4>1. job'[w].pc = "deliver" /\ job'[w].c = job[w].c /\ job'[w].n = job[w].n
                BY <3>3, JobStep DEF IInv
            <4> QED
                BY <3>1, <4>1 DEF Carried
        <3> QED
            BY <1>8, <3>2, <3>3 DEF Announce
    <2> QED
        BY <2>2, <2>3 DEF JobCarries
<1>9. ASSUME NEW w \in Workers, Report(w)
      PROVE  JobCarries'
    <2>1. job[w].c \in Children /\ Holds(w, job[w].c)
        BY <1>9, Settling DEF IInv
    <2>2. \A v \in Workers \ {w} : Carried(v)'
        <3>1. /\ turns' = turns
              /\ \A e \in Children \ {job[w].c} : status'[e] = status[e] /\ reported'[e] = reported[e]
            BY <1>9, <2>1 DEF Report, rows, history, IInv, TypeOK, RowsTyped
        <3>2. \A e \in Children \ {job[w].c} : \A m \in 0..MaxTurns : Given(e, m)' => Given(e, m)
            BY <1>9, WaitsGiveNothing DEF Report, IInv, waits, past, NothingGiven
        <3>3. \A v \in Workers \ {w}, e \in Children : Holds(v, e) => e # job[w].c
            BY <2>1 DEF IInv, GuardInv, GuardAlone
        <3> QED
            BY <1>9, <3>1, <3>2, <3>3, Settling, OthersCarry DEF IInv
    <2>3. Carried(w)'
        <3>1. reported[job[w].c] < job[w].n /\ job[w].n \in 0..MaxTurns
            BY <1>9, JobRecord DEF Report, IInv, JobCarries, Carried, Locals
        <3>2. reported[job[w].c] \in Nat /\ reported'[job[w].c] = job[w].n
            BY <1>9, <2>1 DEF Report, IInv, TypeOK, RowsTyped
        <3>3. CASE Leave(w)
            BY <3>3, JobFields DEF Leave, Carried, IInv, TypeOK, WorkTyped
        <3>4. CASE Step(w, "deliver")
            <4>1. job'[w].pc = "deliver" /\ job'[w].c = job[w].c /\ job'[w].n = job[w].n
                BY <3>4, JobStep DEF IInv
            <4>2. job[w].n \in 1..MaxTurns
                BY <3>1, <3>2
            <4>3. ~(job[w].n <= reported[job[w].c])
                BY <3>1, <3>2
            <4>4. ~Given(job[w].c, job[w].n)
                BY <2>1, <4>2, <4>3 DEF IInv, ReportedFirst
            <4>5. ~Given(job[w].c, job[w].n)'
                <5>1. slot' = slot /\ waiter' = waiter /\ delivered' = delivered
                    BY <1>9 DEF Report, waits, past
                <5> QED
                    BY <4>1, <4>4, <5>1 DEF Given
            <4> QED
                BY <3>2, <4>1, <4>2, <4>5 DEF Carried
        <3> QED
            BY <1>9, <3>3, <3>4 DEF Report
    <2> QED
        BY <2>2, <2>3 DEF JobCarries
<1>10. ASSUME NEW w \in Workers, Deliver(w)
      PROVE  JobCarries'
    <2>1. job[w].c \in Children /\ Holds(w, job[w].c)
        BY <1>10, Settling DEF IInv
    <2>2. \A v \in Workers \ {w} : Carried(v)'
        <3>1. /\ turns' = turns
              /\ \A e \in Children \ {job[w].c} : status'[e] = status[e] /\ reported'[e] = reported[e]
            BY <1>10, <2>1 DEF Deliver, rows, history, IInv, TypeOK, RowsTyped
        <3>2. \A e \in Children \ {job[w].c} : \A m \in 0..MaxTurns : Given(e, m)' => Given(e, m)
            BY <1>10, DeliverGives DEF IInv
        <3>3. \A v \in Workers \ {w}, e \in Children : Holds(v, e) => e # job[w].c
            BY <2>1 DEF IInv, GuardInv, GuardAlone
        <3> QED
            BY <1>10, <3>1, <3>2, <3>3, Settling, OthersCarry DEF IInv
    <2>3. Carried(w)'
        BY <1>10, JobFields DEF Deliver, Leave, Carried, IInv, TypeOK, WorkTyped
    <2> QED
        BY <2>2, <2>3 DEF JobCarries
<1>11. ASSUME NEW c \in Children, MessageTask(c) \/ Tick(c) \/ WaitRegister(c) \/
             WaitPoll(c) \/ WaitReturn(c) \/ WaitDrop(c) \/ CancelRead(c) \/
             DismissRead(c) \/ Visit(c)
      PROVE  JobCarries'
    <2>1. NoNewHolder
        BY <1>11, OutsideSettling DEF IInv, MessageTask, Tick, WaitRegister, WaitPoll,
           WaitReturn, WaitDrop, CancelRead, DismissRead, Visit
    <2>2. NothingGiven
        BY <1>11, WaitsGiveNothing DEF IInv, MessageTask, Tick, WaitRegister, WaitPoll,
           WaitReturn, WaitDrop, CancelRead, DismissRead, Visit, waits, past
    <2>3. StaysSettled
        BY <1>11 DEF StaysSettled, MessageTask, Tick, WaitRegister, WaitPoll,
           WaitReturn, WaitDrop, CancelRead, DismissRead, Visit, rows, history, IInv,
           TypeOK, HistoryTyped
    <2> QED
        BY <2>1, <2>2, <2>3, CarriedOn
<1>12. ASSUME NEW w \in Hooks, NEW c \in Children, HookRuns(w, c)
      PROVE  JobCarries'
    <2>1. NoNewHolder
        BY <1>12, OutsideSettling DEF IInv, HookRuns
    <2>2. NothingGiven
        BY <1>12, WaitsGiveNothing DEF IInv, HookRuns, waits, past
    <2>3. StaysSettled
        BY <1>12 DEF StaysSettled, HookRuns, rows, history, IInv, TypeOK, HistoryTyped
    <2> QED
        BY <2>1, <2>2, <2>3, CarriedOn
<1>13. ASSUME PassStarts \/ QuiesceFails \/ UNCHANGED vars
      PROVE  JobCarries'
    <2>1. NoNewHolder
        BY <1>13, OutsideSettling DEF IInv, PassStarts, QuiesceFails, vars
    <2>2. NothingGiven
        BY <1>13, WaitsGiveNothing DEF IInv, PassStarts, QuiesceFails, vars, waits, past
    <2>3. StaysSettled
        BY <1>13 DEF StaysSettled, PassStarts, QuiesceFails, vars, rows, history, IInv,
           TypeOK, HistoryTyped
    <2> QED
        BY <2>1, <2>2, <2>3, CarriedOn
<1>14. ASSUME Quiesce
      PROVE  JobCarries'
    <2>1. NoNewHolder
        BY <1>14, OutsideSettling DEF IInv, Quiesce
    <2>2. NothingGiven
        BY <1>14, WaitsGiveNothing DEF IInv, Quiesce, waits, past
    <2>3. StaysSettled
        BY <1>14 DEF StaysSettled, Quiesce, rows, history, IInv, EndTurn, TypeOK,
           HistoryTyped
    <2> QED
        BY <2>1, <2>2, <2>3, CarriedOn
<1>15. ASSUME Restart
      PROVE  JobCarries'
    BY <1>15 DEF Restart, JobCarries, Carried, Idle, Job
<1> QED
    BY <1>1, <1>2, <1>3, <1>4, <1>5, <1>6, <1>7, <1>8, <1>9, <1>10, <1>11, <1>12, <1>13,
       <1>14, <1>15 DEF Next, LaunchStep, SettleStep, WatchdogStep, CancelStep, Workers

(* A result is given by whoever holds the guard of its child and to nobody *)
(* before; what a waiter drops goes to the parent instead.                 *)
LEMMA DeliveredStep ==
    ASSUME IInv, [Next]_vars
    PROVE  (DeliveredOnce /\ ClaimedOnce)'
<1>1. ASSUME NEW c \in Children, WaitRegister(c)
      PROVE  (DeliveredOnce /\ ClaimedOnce)'
    BY <1>1, WaitValues DEF WaitRegister, past, TypeOK, WaitsTyped, Polling, IInv,
       DeliveredOnce, ClaimedOnce
<1>2. ASSUME NEW c \in Children, WaitReturn(c)
      PROVE  (DeliveredOnce /\ ClaimedOnce)'
    <2>1. /\ slot'[c] = None /\ waiter'[c] = None
          /\ \A e \in Children \ {c} : slot'[e] = slot[e] /\ waiter'[e] = waiter[e]
        BY <1>2 DEF WaitReturn, IInv, TypeOK, WaitsTyped
    <2>2. CASE delivered' = delivered
        BY <2>1, <2>2, WaitValues DEF IInv, DeliveredOnce, ClaimedOnce
    <2>3. CASE delivered' # delivered
        <3>1. waiter[c].n \in 0..MaxTurns /\ waiter[c] = [pc |-> "returning", n |-> waiter[c].n]
            BY <1>2, <2>3, WaitHolds DEF WaitReturn, IInv, TypeOK
        <3>2. \A d \in Children : \A m \in 0..MaxTurns :
                  delivered'[d][m] = IF d = c /\ m = waiter[c].n THEN delivered[c][waiter[c].n] + 1
                                     ELSE delivered[d][m]
            <4>1. Delivers(c, waiter[c].n)
                BY <1>2, <2>3 DEF WaitReturn, Delivers
            <4>2. waiter[c].n \in 0..MaxTurns
                BY <3>1
            <4>3. PastTyped
                BY DEF IInv, TypeOK
            <4> QED
                BY <4>1, <4>2, <4>3, DeliveredMore
        <3>3. delivered[c][waiter[c].n] = 0
            BY <3>1 DEF IInv, ClaimedOnce
        <3>4. DeliveredOnce'
            BY <3>2, <3>3 DEF IInv, DeliveredOnce
        <3>5. ClaimedOnce'
            <4> SUFFICES ASSUME NEW e \in Children, NEW m \in 0..MaxTurns,
                                slot'[e] = [claimed |-> m] \/ waiter'[e] = [pc |-> "returning", n |-> m]
                         PROVE  delivered'[e][m] = 0
                BY DEF ClaimedOnce
            <4>1. e # c
                BY <2>1, WaitValues
            <4> QED
                BY <2>1, <3>2, <4>1 DEF IInv, ClaimedOnce
        <3> QED
            BY <3>4, <3>5
    <2> QED
        BY <2>2, <2>3
<1>3. ASSUME NEW c \in Children, WaitDrop(c)
      PROVE  (DeliveredOnce /\ ClaimedOnce)'
    <2>1. /\ slot'[c] = None /\ waiter'[c] = None
          /\ \A e \in Children \ {c} : slot'[e] = slot[e] /\ waiter'[e] = waiter[e]
        BY <1>3 DEF WaitDrop, IInv, TypeOK, WaitsTyped
    <2>2. CASE delivered' = delivered
        BY <2>1, <2>2, WaitValues DEF IInv, DeliveredOnce, ClaimedOnce
    <2>3. CASE delivered' # delivered
        <3>1. slot[c].claimed \in 0..MaxTurns /\ slot[c] = [claimed |-> slot[c].claimed]
            BY <1>3, <2>3, WaitHolds DEF WaitDrop, IInv, TypeOK
        <3>2. \A d \in Children : \A m \in 0..MaxTurns :
                  delivered'[d][m] = IF d = c /\ m = slot[c].claimed THEN delivered[c][slot[c].claimed] + 1
                                     ELSE delivered[d][m]
            <4>1. Delivers(c, slot[c].claimed)
                BY <1>3, <2>3 DEF WaitDrop, Delivers
            <4>2. slot[c].claimed \in 0..MaxTurns
                BY <3>1
            <4>3. PastTyped
                BY DEF IInv, TypeOK
            <4> QED
                BY <4>1, <4>2, <4>3, DeliveredMore
        <3>3. delivered[c][slot[c].claimed] = 0
            BY <3>1 DEF IInv, ClaimedOnce
        <3>4. DeliveredOnce'
            BY <3>2, <3>3 DEF IInv, DeliveredOnce
        <3>5. ClaimedOnce'
            <4> SUFFICES ASSUME NEW e \in Children, NEW m \in 0..MaxTurns,
                                slot'[e] = [claimed |-> m] \/ waiter'[e] = [pc |-> "returning", n |-> m]
                         PROVE  delivered'[e][m] = 0
                BY DEF ClaimedOnce
            <4>1. e # c
                BY <2>1, WaitValues
            <4> QED
                BY <2>1, <3>2, <4>1 DEF IInv, ClaimedOnce
        <3> QED
            BY <3>4, <3>5
    <2> QED
        BY <2>2, <2>3
<1>4. ASSUME NEW c \in Children, WaitPoll(c)
      PROVE  (DeliveredOnce /\ ClaimedOnce)'
    <2>1. slot' = slot /\ delivered' = delivered
        BY <1>4 DEF WaitPoll, past
    <2>2. \A e \in Children : waiter'[e] = IF e = c THEN [pc |-> "returning", n |-> slot[c].claimed] ELSE waiter[e]
        BY <1>4 DEF WaitPoll, IInv, TypeOK, WaitsTyped
    <2>3. ASSUME NEW m \in 0..MaxTurns, waiter'[c] = [pc |-> "returning", n |-> m]
          PROVE  delivered[c][m] = 0
        <3>1. slot[c].claimed = m
            BY <2>2, <2>3
        <3>2. slot[c] # Unclaimed
            BY <3>1, NoneAssumption DEF Unclaimed
        <3>3. slot[c] # None
            BY <1>4, WaitHolds DEF WaitPoll, IInv, TypeOK
        <3>4. slot[c] = [claimed |-> m]
            BY <3>1, <3>2, <3>3, WaitHolds DEF IInv, TypeOK
        <3> QED
            BY <3>4 DEF IInv, ClaimedOnce
    <2> QED
        BY <2>1, <2>2, <2>3 DEF IInv, DeliveredOnce, ClaimedOnce
<1>5. ASSUME NEW w \in Workers, Deliver(w)
      PROVE  (DeliveredOnce /\ ClaimedOnce)'
    <2>1. job[w].c \in Children /\ Holds(w, job[w].c)
        BY <1>5, Settling DEF IInv
    <2>2. job[w].n \in 0..MaxTurns
        BY <1>5, JobRecord DEF IInv, Deliver, Locals
    <2>3. ~Given(job[w].c, job[w].n)
        <3>1. CASE job[w].n = 0
            BY <2>1, <3>1 DEF IInv, SettledRow
        <3>2. CASE job[w].n # 0
            BY <1>5, <3>2 DEF Deliver, IInv, JobCarries, Carried
        <3> QED
            BY <3>1, <3>2
    <2>4. delivered[job[w].c][job[w].n] = 0
        BY <2>1, <2>2, <2>3 DEF Given, IInv, TypeOK, PastTyped
    <2>5. waiter' = waiter
        BY <1>5 DEF Deliver
    <2>6. CASE slot[job[w].c] # None
        <3>1. delivered' = delivered
            BY <1>5, <2>6 DEF Deliver
        <3>2. \A e \in Children : slot'[e] = IF e = job[w].c THEN [claimed |-> job[w].n] ELSE slot[e]
            BY <1>5, <2>1, <2>6 DEF Deliver, IInv, TypeOK, WaitsTyped
        <3>3. \A m \in 0..MaxTurns : slot'[job[w].c] = [claimed |-> m] => m = job[w].n
            BY <2>1, <2>2, <3>2, WaitValues
        <3> QED
            BY <2>1, <2>4, <2>5, <3>1, <3>2, <3>3 DEF IInv, DeliveredOnce, ClaimedOnce
    <2>7. CASE slot[job[w].c] = None
        <3>1. slot' = slot /\ Delivers(job[w].c, job[w].n)
            BY <1>5, <2>7 DEF Deliver, Delivers
        <3>2. \A d \in Children : \A m \in 0..MaxTurns :
                  delivered'[d][m] = IF d = job[w].c /\ m = job[w].n THEN delivered[d][m] + 1
                                     ELSE delivered[d][m]
            <4>1. PastTyped
                BY DEF IInv, TypeOK
            <4> QED
                BY <2>1, <2>2, <3>1, <4>1, DeliveredMore
        <3>3. waiter[job[w].c] = None
            BY <2>1, <2>7 DEF IInv, TypeOK, WaitsTyped
        <3>4. \A m \in 0..MaxTurns : slot[job[w].c] # [claimed |-> m] /\ waiter[job[w].c] # [pc |-> "returning", n |-> m]
            BY <2>7, <3>3, WaitValues
        <3> QED
            BY <2>1, <2>4, <2>5, <3>1, <3>2, <3>4 DEF IInv, DeliveredOnce, ClaimedOnce
    <2> QED
        BY <2>6, <2>7
<1>6. ASSUME Restart
      PROVE  (DeliveredOnce /\ ClaimedOnce)'
    BY <1>6, WaitValues DEF Restart, past, IInv, DeliveredOnce, ClaimedOnce
<1>7. ASSUME NEW c \in Children, Propose(c) \/ LaunchDelegation(c) \/ StartProposal(c)
             \/ LaunchFails(c) \/ CreateRead(c) \/ CreateSave(c) \/ StartRead(c) \/
             StartWrite(c) \/ LaunchAnnounced(c) \/ StartFails(c) \/
             StartFailsWrite(c) \/ SendStarts(c) \/ SendFails(c) \/ SendReturns(c) \/
             PersonTurn(c) \/ MessageTask(c) \/ MessageStarts(c) \/ TurnEnds(c) \/
             Tick(c) \/ CancelRead(c) \/ CancelWrite(c) \/ CancelEnds(c) \/
             DismissRead(c) \/ DismissWrite(c) \/ Visit(c)
      PROVE  (DeliveredOnce /\ ClaimedOnce)'
    BY <1>7 DEF Propose, LaunchDelegation, StartProposal, LaunchFails, CreateRead,
       CreateSave, StartRead, StartWrite, LaunchAnnounced, StartFails,
       StartFailsWrite, SendStarts, SendFails, SendReturns, PersonTurn, MessageTask,
       MessageStarts, TurnEnds, Tick, CancelRead, CancelWrite, CancelEnds,
       DismissRead, DismissWrite, Visit, waits, past, IInv, DeliveredOnce, ClaimedOnce
<1>8. ASSUME NEW w \in Hooks, NEW c \in Children, HookRuns(w, c)
      PROVE  (DeliveredOnce /\ ClaimedOnce)'
    BY <1>8 DEF HookRuns, waits, past, IInv, DeliveredOnce, ClaimedOnce
<1>9. ASSUME NEW w \in Workers, Acquire(w) \/ Decide(w) \/ SettleRead(w) \/
             SettleWrite(w) \/ Announce(w) \/ Report(w)
      PROVE  (DeliveredOnce /\ ClaimedOnce)'
    BY <1>9 DEF Acquire, Decide, SettleRead, SettleWrite, Announce, Report, waits, past,
       IInv, DeliveredOnce, ClaimedOnce
<1>10. ASSUME PassStarts \/ Quiesce \/ QuiesceFails \/ UNCHANGED vars
      PROVE  (DeliveredOnce /\ ClaimedOnce)'
    BY <1>10 DEF PassStarts, Quiesce, QuiesceFails, vars, waits, past, IInv,
       DeliveredOnce, ClaimedOnce
<1> QED
    BY <1>1, <1>2, <1>3, <1>4, <1>5, <1>6, <1>7, <1>8, <1>9, <1>10 DEF Next, LaunchStep,
       SettleStep, WatchdogStep, CancelStep, Workers

(* A cancellation holds the guard when it ends a running row, and nobody   *)
(* finds the row running again.                                            *)
LEMMA SilencedRowStep ==
    ASSUME IInv, [Next]_vars
    PROVE  SilencedRow'
<1>1. ASSUME NEW c \in Children, Propose(c) \/ LaunchDelegation(c) \/ StartProposal(c)
      PROVE  SilencedRow'
    <2>1. \A v \in Workers : \A e \in Children : Holds(v, e)' => Holds(v, e)
        <3>1. NoNewHolder
            BY <1>1, OutsideSettling DEF IInv, Propose, LaunchDelegation, StartProposal
        <3> QED
            BY <3>1, HoldersStay
    <2> QED
        BY <1>1, <2>1 DEF Propose, LaunchDelegation, StartProposal, LaunchReturns, past,
           Prelaunch, rows, TypeOK, RowsTyped, WorkTyped, Terminal, IInv, SilencedRow
<1>2. ASSUME NEW c \in Children, LaunchFails(c) \/ CreateRead(c) \/ CreateSave(c) \/
             StartRead(c)
      PROVE  SilencedRow'
    <2>1. \A v \in Workers : \A e \in Children : Holds(v, e)' => Holds(v, e)
        <3>1. NoNewHolder
            BY <1>2, OutsideSettling DEF IInv, LaunchFails, CreateRead, CreateSave,
               StartRead
        <3> QED
            BY <3>1, HoldersStay
    <2> QED
        BY <1>2, <2>1 DEF LaunchFails, CreateRead, CreateSave, StartRead, LaunchReturns,
           past, Prelaunch, rows, TypeOK, RowsTyped, WorkTyped, Terminal, IInv,
           SilencedRow
<1>3. ASSUME NEW c \in Children, StartWrite(c) \/ LaunchAnnounced(c) \/ StartFails(c)
             \/ StartFailsWrite(c) \/ SendStarts(c) \/ SendFails(c) \/ SendReturns(c)
      PROVE  SilencedRow'
    <2>1. \A v \in Workers : \A e \in Children : Holds(v, e)' => Holds(v, e)
        <3>1. NoNewHolder
            BY <1>3, OutsideSettling DEF IInv, StartWrite, LaunchAnnounced,
               StartFails, StartFailsWrite, SendStarts, SendFails, SendReturns
        <3> QED
            BY <3>1, HoldersStay
    <2> QED
        BY <1>3, <2>1 DEF StartWrite, LaunchAnnounced, StartFails, StartFailsWrite,
           SendStarts, SendFails, SendReturns, LaunchReturns, past, Prelaunch, rows,
           TypeOK, RowsTyped, WorkTyped, Terminal, IInv, SilencedRow
<1>4. ASSUME NEW c \in Children, CancelWrite(c)
      PROVE  SilencedRow'
    <2>1. \A v \in Workers : \A e \in Children : Holds(v, e)' => Holds(v, e)
        <3>1. NoNewHolder
            BY <1>4, OutsideSettling DEF IInv, CancelWrite
        <3> QED
            BY <3>1, HoldersStay
    <2> QED
        BY <1>4, <2>1 DEF CancelWrite, past, Prelaunch, LaunchRow, GuardInv, GuardAlone,
           PeopleTyped, PastTyped, rows, TypeOK, RowsTyped, WorkTyped, Terminal, IInv,
           SilencedRow
<1>5. ASSUME NEW c \in Children, DismissWrite(c)
      PROVE  SilencedRow'
    <2>1. \A v \in Workers : \A e \in Children : Holds(v, e)' => Holds(v, e)
        <3>1. NoNewHolder
            BY <1>5, OutsideSettling DEF IInv, DismissWrite
        <3> QED
            BY <3>1, HoldersStay
    <2> QED
        BY <1>5, <2>1 DEF DismissWrite, past, Prelaunch, rows, TypeOK, RowsTyped,
           WorkTyped, Terminal, IInv, SilencedRow
<1>6. ASSUME NEW w \in Workers, Acquire(w)
      PROVE  SilencedRow'
    <2>1. job[w].c \in Children
        BY <1>6, JobRecord DEF IInv, Acquire, Locals
    <2>2. CASE job' = [job EXCEPT ![w] = Idle]
        <3>1. \A v \in Workers : \A e \in Children : Holds(v, e)' => Holds(v, e)
            BY <2>2, JobReturns DEF IInv
        <3> QED
            BY <1>6, <3>1 DEF IInv, SilencedRow, Acquire, rows, past, Prelaunch
    <2>3. ASSUME NEW p, Step(w, p), status[job[w].c] = "running"
          PROVE  SilencedRow'
        <3>1. \A v \in Workers : \A e \in Children :
                  Holds(v, e)' => IF v = w THEN job[w].c = e ELSE Holds(v, e)
            BY <2>3, JobStep DEF IInv
        <3> QED
            BY <1>6, <2>1, <2>3, <3>1 DEF IInv, SilencedRow, Acquire, rows, past,
               Prelaunch, Terminal
    <2> QED
        BY <1>6, <2>2, <2>3 DEF Acquire
<1>7. ASSUME NEW w \in Workers, Decide(w) \/ SettleRead(w)
      PROVE  SilencedRow'
    <2>1. job[w].c \in Children /\ Holds(w, job[w].c)
        BY <1>7, Settling DEF IInv
    <2>2. \A v \in Workers : \A e \in Children : Holds(v, e)' => Holds(v, e)
        BY <1>7, Settling DEF IInv
    <2> QED
        BY <1>7, <2>2 DEF IInv, SilencedRow, Decide, SettleRead, rows, past, Prelaunch
<1>8. ASSUME NEW w \in Workers, SettleWrite(w) \/ Announce(w) \/ Report(w) \/ Deliver(w)
      PROVE  SilencedRow'
    <2>1. job[w].c \in Children /\ Holds(w, job[w].c)
        BY <1>8, Settling DEF IInv
    <2>2. \A v \in Workers : \A e \in Children : Holds(v, e)' => Holds(v, e)
        BY <1>8, Settling DEF IInv
    <2>3. ~silenced[job[w].c]
        BY <2>1 DEF IInv, SilencedRow
    <2>4. silenced' = silenced /\ launch' = launch
             /\ \A e \in Children : e # job[w].c => status'[e] = status[e]
        BY <1>8, <2>1 DEF SettleWrite, Announce, Report, Deliver, rows, past, IInv,
           TypeOK, RowsTyped
    <2> QED
        BY <2>2, <2>3, <2>4 DEF IInv, SilencedRow, Prelaunch
<1>9. ASSUME Restart
      PROVE  SilencedRow'
    <2>1. \A v \in Workers : \A e \in Children : Holds(v, e)' => Holds(v, e)
        <3>1. NoNewHolder
            BY <1>9, OutsideSettling DEF IInv, Restart
        <3> QED
            BY <3>1, HoldersStay
    <2> QED
        BY <1>9, <2>1 DEF Restart, past, rows, Prelaunch, IInv, SilencedRow
<1>10. ASSUME NEW c \in Children, PersonTurn(c) \/ MessageTask(c) \/ MessageStarts(c) \/
             TurnEnds(c) \/ Tick(c) \/ WaitRegister(c) \/ WaitPoll(c) \/ WaitReturn(c)
             \/ WaitDrop(c) \/ CancelRead(c) \/ CancelEnds(c) \/ DismissRead(c) \/
             Visit(c)
      PROVE  SilencedRow'
    <2>1. \A v \in Workers : \A e \in Children : Holds(v, e)' => Holds(v, e)
        <3>1. NoNewHolder
            BY <1>10, OutsideSettling DEF IInv, PersonTurn, MessageTask, MessageStarts,
               TurnEnds, Tick, WaitRegister, WaitPoll, WaitReturn, WaitDrop, CancelRead,
               CancelEnds, DismissRead, Visit
        <3> QED
            BY <3>1, HoldersStay
    <2> QED
        BY <1>10, <2>1 DEF PersonTurn, MessageTask, MessageStarts, TurnEnds, Tick,
           WaitRegister, WaitPoll, WaitReturn, WaitDrop, CancelRead, CancelEnds,
           DismissRead, Visit, past, rows, Prelaunch, IInv, SilencedRow
<1>11. ASSUME NEW w \in Hooks, NEW c \in Children, HookRuns(w, c)
      PROVE  SilencedRow'
    <2>1. \A v \in Workers : \A e \in Children : Holds(v, e)' => Holds(v, e)
        <3>1. NoNewHolder
            BY <1>11, OutsideSettling DEF IInv, HookRuns
        <3> QED
            BY <3>1, HoldersStay
    <2> QED
        BY <1>11, <2>1 DEF HookRuns, past, rows, Prelaunch, IInv, SilencedRow
<1>12. ASSUME PassStarts \/ Quiesce \/ QuiesceFails \/ UNCHANGED vars
      PROVE  SilencedRow'
    <2>1. \A v \in Workers : \A e \in Children : Holds(v, e)' => Holds(v, e)
        <3>1. NoNewHolder
            BY <1>12, OutsideSettling DEF IInv, PassStarts, Quiesce, QuiesceFails, vars
        <3> QED
            BY <3>1, HoldersStay
    <2> QED
        BY <1>12, <2>1 DEF PassStarts, Quiesce, QuiesceFails, vars, past, rows,
           Prelaunch, IInv, SilencedRow
<1> QED
    BY <1>1, <1>2, <1>3, <1>4, <1>5, <1>6, <1>7, <1>8, <1>9, <1>10, <1>11, <1>12 DEF
       Next, LaunchStep, SettleStep, WatchdogStep, CancelStep, Workers

-----------------------------------------------------------------------------
(* The results.                                                            *)

(* No row, no worker, nothing given: the initial state has the invariant.  *)
LEMMA InitInv ==
    ASSUME Init
    PROVE  IInv
<1>1. \A w \in Workers : job[w].pc = "idle" /\ job[w].n = 0
    BY JobFields DEF Init
<1>2. \A c \in Children, n \in 0..MaxTurns : ~Given(c, n)
    BY WaitValues DEF Init, Given
<1>3. TypeOK
    <2>1. Cardinality({c \in Children : slot[c] # None}) = 0
        <3>1. {c \in Children : slot[c] # None} = {}
            BY DEF Init
        <3> QED
            BY <3>1, FS_EmptySet
    <2>2. RowsTyped /\ HistoryTyped /\ PeopleTyped /\ PastTyped
        BY DEF Init, RowsTyped, HistoryTyped, PeopleTyped, PastTyped, Children
    <2>3. WaitsTyped
        BY <2>1 DEF Init, WaitsTyped
    <2>4. WorkTyped
        BY DEF Init, WorkTyped
    <2> QED
        BY <2>2, <2>3, <2>4 DEF TypeOK
<1>4. \A w \in Workers, c \in Children : ~Holds(w, c)
    BY <1>1 DEF Holds, Guarded
<1>5. GuardInv /\ LaunchRow /\ SettledRow /\ SilencedRow
    BY <1>4 DEF Init, GuardInv, GuardTaken, GuardAlone, LaunchRow, SettledRow,
       SilencedRow, Launching, Prelaunch
<1>6. FinalRow /\ ReportedFirst
    BY <1>2 DEF Init, FinalRow, ReportedFirst
<1>7. JobCarries
    BY <1>1 DEF JobCarries, Carried
<1>8. HooksOfTurns /\ DeliveredOnce
    BY DEF Init, HooksOfTurns, DeliveredOnce
<1>9. ClaimedOnce
    BY WaitValues DEF Init, ClaimedOnce
<1> QED
    BY <1>3, <1>5, <1>6, <1>7, <1>8, <1>9 DEF IInv

(* Every step of the system keeps it.                                      *)
LEMMA StepInv ==
    ASSUME IInv, [Next]_vars
    PROVE  IInv'
<1>1. TypeOK'
    <2>1. RowsTyped' /\ HistoryTyped' /\ PeopleTyped' /\ PastTyped'
        BY RowsTypedStep, HistoryTypedStep, PeopleTypedStep, PastTypedStep DEF IInv
    <2>2. WaitsTyped' /\ WorkTyped'
        BY WaitsTypedStep, WorkTypedStep DEF IInv
    <2> QED
        BY <2>1, <2>2 DEF TypeOK
<1>2. GuardInv' /\ HooksOfTurns'
    BY GuardStep, HooksOfTurnsStep DEF IInv
<1>3. LaunchRow' /\ SettledRow' /\ FinalRow'
    BY LaunchRowStep, SettledRowStep, FinalRowStep
<1>4. JobCarries' /\ ReportedFirst'
    <2>1. HistoryTyped'
        BY <1>1 DEF TypeOK
    <2> QED
        BY <2>1, JobCarriesStep, ReportedFirstStep
<1>5. DeliveredOnce' /\ ClaimedOnce' /\ SilencedRow'
    BY DeliveredStep, SilencedRowStep
<1> QED
    BY <1>1, <1>2, <1>3, <1>4, <1>5 DEF IInv

(* Whatever launches, hooks, watchdog, waits, cancellations and restarts   *)
(* do, a child has at most one finalizer, which found its row running, and *)
(* what it carries was given to nobody.                                    *)
THEOREM DelegationInvariance == Spec => []IInv
<1>1. Init => IInv
    BY InitInv
<1>2. IInv /\ [Next]_vars => IInv'
    BY StepInv
<1> QED
    BY <1>1, <1>2, PTL DEF Spec

(* Rows, histories, slots and workers keep their types, a slot of WAITS    *)
(* exists exactly while a tool call waits, and there are never more than   *)
(* MAX_CONCURRENT_WAITS of them.                                           *)
THEOREM DelegationTypeCorrect == Spec => []TypeOK
<1>1. IInv => TypeOK
    BY DEF IInv
<1> QED
    BY <1>1, DelegationInvariance, PTL

(* "Exactly one finalizer per delegation": a result reaches the parent at  *)
(* most once, for any number of hooks and children, whoever settles the    *)
(* row and however its waiter ends.                                        *)
THEOREM ResultsReachTheParentOnce == Spec => []DeliveredOnce
<1>1. IInv => DeliveredOnce
    BY DEF IInv
<1> QED
    BY <1>1, DelegationInvariance, PTL

(* FinalizeGuard is a mutex: the guard of a child has one holder, a        *)
(* finalization, a start of its proposal or a cancellation, and FINALIZING *)
(* has the child while it is held.                                         *)
THEOREM OneFinalizer == Spec => []GuardInv
<1>1. IInv => GuardInv
    BY DEF IInv
<1> QED
    BY <1>1, DelegationInvariance, PTL

(* "Cancelled tasks are never handed back": no step gives a result of a    *)
(* child whose running row was cancelled.                                  *)
THEOREM CancelledChildrenAreSilent == Spec => CancelledIsSilent
<1> DEFINE Silent == \A c \in Children : silenced[c] =>
                        \A n \in 0..MaxTurns : Given(c, n)' => Given(c, n)
<1>1. ASSUME IInv, [Next]_vars PROVE Silent
    <2>1. ASSUME NothingGiven PROVE Silent
        BY <2>1 DEF NothingGiven
    <2>2. ASSUME NEW w \in Workers, Deliver(w) PROVE Silent
        <3>1. job[w].c \in Children /\ Holds(w, job[w].c)
            BY <1>1, <2>2, JobRecord DEF IInv, Deliver, Holds, Guarded, Locals
        <3>2. ~silenced[job[w].c]
            BY <1>1, <3>1 DEF IInv, SilencedRow
        <3> QED
            BY <1>1, <2>2, <3>2, DeliverGives DEF IInv
    <2>3. ASSUME NEW c \in Children,
                 WaitRegister(c) \/ WaitPoll(c) \/ WaitReturn(c) \/ WaitDrop(c)
          PROVE  Silent
        BY <1>1, <2>1, <2>3, WaitsGiveNothing DEF IInv
    <2>4. CASE Restart
        BY <1>1, <2>1, <2>4, WaitsGiveNothing DEF IInv
    <2>5. ASSUME slot' = slot /\ waiter' = waiter /\ delivered' = delivered PROVE Silent
        BY <1>1, <2>1, <2>5, WaitsGiveNothing DEF IInv
<2>6. ASSUME NEW c \in Children, Propose(c) \/ LaunchDelegation(c) \/ StartProposal(c)
                 \/ LaunchFails(c) \/ CreateRead(c) \/ CreateSave(c) \/ StartRead(c)
                 \/ StartWrite(c) \/ LaunchAnnounced(c) \/ StartFails(c) \/
                 StartFailsWrite(c) \/ SendStarts(c) \/ SendFails(c) \/ SendReturns(c)
          PROVE  Silent
        BY <2>5, <2>6 DEF Propose, LaunchDelegation, StartProposal, LaunchFails,
           CreateRead, CreateSave, StartRead, StartWrite, LaunchAnnounced, StartFails,
           StartFailsWrite, SendStarts, SendFails, SendReturns, waits, past
    <2>7. ASSUME NEW c \in Children,
                 PersonTurn(c) \/ MessageTask(c) \/ MessageStarts(c) \/ TurnEnds(c) \/
                 Tick(c) \/ CancelRead(c) \/ CancelWrite(c) \/ CancelEnds(c) \/
                 DismissRead(c) \/ DismissWrite(c) \/ Visit(c)
          PROVE  Silent
        BY <2>5, <2>7 DEF PersonTurn, MessageTask, MessageStarts, TurnEnds, Tick,
           CancelRead, CancelWrite, CancelEnds, DismissRead, DismissWrite, Visit, waits,
           past
    <2>8. ASSUME NEW w \in Workers,
                 Acquire(w) \/ Decide(w) \/ SettleRead(w) \/ SettleWrite(w) \/ Announce(w) \/ Report(w)
          PROVE  Silent
        BY <2>5, <2>8 DEF Acquire, Decide, SettleRead, SettleWrite, Announce, Report,
           waits, past
    <2>9. ASSUME NEW w \in Hooks, NEW c \in Children, HookRuns(w, c) PROVE Silent
        BY <2>5, <2>9 DEF HookRuns, waits, past
    <2>10. CASE PassStarts \/ Quiesce \/ QuiesceFails \/ UNCHANGED vars
        BY <2>5, <2>10 DEF PassStarts, Quiesce, QuiesceFails, vars, waits, past
    <2> HIDE DEF Silent
    <2> QED
        BY <1>1, <2>2, <2>3, <2>4, <2>6, <2>7, <2>8, <2>9, <2>10
        DEF Next, LaunchStep, SettleStep, WatchdogStep, CancelStep, Workers
<1>2. IInv /\ [Next]_vars => [Silent]_vars
    BY <1>1
<1> QED
    BY <1>2, DelegationInvariance, PTL DEF Spec, CancelledIsSilent


=============================================================================
