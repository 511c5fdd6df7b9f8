----------------------------- MODULE TurnQueue -----------------------------
(***************************************************************************)
(* The durable queue of follow-ups of one session                          *)
(* (crates/dcc-core/src/application/turn_queue.rs) and the dispatch of its *)
(* head (dispatch_next_queued_turn, crates/dcc-tauri/src/state.rs).        *)
(*                                                                         *)
(* The queue is the fold of the session's queue events; the model keeps    *)
(* the folded value, since the fold is taken one event at a time.  Every   *)
(* command reads the history, decides, and appends its event later, with   *)
(* nothing held in between.  Only the dispatch runs under the session's    *)
(* provider transition lock.  The process may restart between any two      *)
(* steps; the events stay.                                                 *)
(*                                                                         *)
(* Of the turn itself only its life is kept here: started, running, over.  *)
(* How it is bound and ended is module TurnLifecycle.                      *)
(***************************************************************************)
EXTENDS Naturals, Sequences, FiniteSets

CONSTANTS
    Prompts,      \* the follow-ups people and agents may queue
    Clients,      \* tasks that queue, remove and reorder
    Dispatchers,  \* tasks that dispatch: the provider bridge, "send next"
    Orders,       \* the orders a client may ask for
    MaxAttempts,  \* bound: dispatched turns that may be started
    Direct,       \* a turn that does not come from the queue
    None          \* nothing

ASSUME QueueConstants ==
    /\ Orders \subseteq Seq(Prompts)
    /\ MaxAttempts \in Nat
    /\ None \notin Prompts \cup Orders \cup Dispatchers \cup {Direct}
    /\ Direct \notin Prompts
    /\ Clients \cap Dispatchers = {}

VARIABLES
    queue,         \* project_turn_queue of the session's history
    enqueued,      \* prompts with a TurnQueued event
    removed,       \* prompts with a QueuedTurnRemoved event
    dispatched,    \* prompts with a QueuedTurnDispatched event
    activeTurn,    \* the prompt of the projection's active turn
    transition,    \* who holds the session's provider transition
    pc,            \* where each task is
    arg,           \* the prompt or the order it works on
    attempts,      \* queued turns started so far
    delivered,     \* history: times the provider accepted each prompt
    removedIdle    \* history: prompts removed while queued and in no dispatch's hand

log  == <<queue, enqueued, removed, dispatched>>
hist == <<attempts, delivered, removedIdle>>
vars == <<log, activeTurn, transition, pc, arg, hist>>

Tasks == Clients \cup Dispatchers

Elements(s) == {s[i] : i \in DOMAIN s}
NoRepeats(s) == \A i, j \in DOMAIN s : s[i] = s[j] => i = j

(* Vec::retain: what is in S stays, in its order.  The n-th entry to stay  *)
(* is the one with n entries to stay up to it.                             *)
Kept(s, S) == {i \in DOMAIN s : s[i] \in S}
Nth(K, n) == CHOOSE i \in K : Cardinality({j \in K : j <= i}) = n
Keep(s, S) == [n \in 1..Cardinality(Kept(s, S)) |-> s[Nth(Kept(s, S), n)]]

-----------------------------------------------------------------------------
(* project_turn_queue, one event at a time.                                *)

ApplyQueued(q, p) == Append(q, p)

ApplyRemoved(q, p) == Keep(q, Prompts \ {p})

\* Variant: the dispatched event takes only the head, not every copy.
ApplyDispatchedHead(q, p) == IF q # <<>> /\ Head(q) = p THEN Tail(q) ELSE q
ApplyDispatched(q, p) == Keep(q, Prompts \ {p})

\* Variant: the new order replaces the queue, whatever is queued by now.
ApplyReorderedBlindly(q, order) == order
ApplyReordered(q, order) == Keep(order, Elements(q))

-----------------------------------------------------------------------------
Init ==
    /\ queue = <<>>
    /\ enqueued = {} /\ removed = {} /\ dispatched = {}
    /\ activeTurn = None
    /\ transition = None
    /\ pc = [t \in Tasks |-> "idle"]
    /\ arg = [t \in Tasks |-> None]
    /\ attempts = 0
    /\ delivered = [p \in Prompts |-> 0]
    /\ removedIdle = {}

Goto(t, at, what) ==
    /\ pc' = [pc EXCEPT ![t] = at]
    /\ arg' = [arg EXCEPT ![t] = what]

(* queue_turn_with_state reads that a turn is active; queue_turn appends.  *)
QueueTurnRead(c, p) ==
    /\ pc[c] = "idle"
    /\ p \notin enqueued /\ \A t \in Clients : arg[t] # p
    /\ activeTurn # None
    /\ Goto(c, "queueTurn", p)
    /\ UNCHANGED <<log, activeTurn, transition, hist>>

QueueTurnAppend(c) ==
    /\ pc[c] = "queueTurn"
    /\ queue' = ApplyQueued(queue, arg[c])
    /\ enqueued' = enqueued \cup {arg[c]}
    /\ Goto(c, "idle", None)
    /\ UNCHANGED <<removed, dispatched, activeTurn, transition, hist>>

RemoveRead(c, p) ==
    /\ pc[c] = "idle"
    /\ p \in Elements(queue)
    /\ Goto(c, "remove", p)
    /\ UNCHANGED <<log, activeTurn, transition, hist>>

InHand(p) == \E d \in Dispatchers : arg[d] = p

RemoveAppend(c) ==
    /\ pc[c] = "remove"
    /\ queue' = ApplyRemoved(queue, arg[c])
    /\ removed' = removed \cup {arg[c]}
    /\ removedIdle' = removedIdle \cup {p \in {arg[c]} : p \in Elements(queue) /\ ~InHand(p)}
    /\ Goto(c, "idle", None)
    /\ UNCHANGED <<enqueued, dispatched, activeTurn, transition, attempts, delivered>>

(* reorder_turn_queue sorts both lists and dedups the requested one.       *)
OrderAccepted(q, order) == NoRepeats(q) /\ Elements(order) = Elements(q)

ReorderRead(c, order) ==
    /\ pc[c] = "idle"
    /\ OrderAccepted(queue, order)
    /\ Goto(c, "reorder", order)
    /\ UNCHANGED <<log, activeTurn, transition, hist>>

ReorderAppend(c) ==
    /\ pc[c] = "reorder"
    /\ queue' = ApplyReordered(queue, arg[c])
    /\ Goto(c, "idle", None)
    /\ UNCHANGED <<enqueued, removed, dispatched, activeTurn, transition, hist>>

(* The store refuses the append: the command fails and nothing is written. *)
ClientFails(c) ==
    /\ pc[c] # "idle"
    /\ Goto(c, "idle", None)
    /\ UNCHANGED <<log, activeTurn, transition, hist>>

-----------------------------------------------------------------------------
(* dispatch_next_queued_turn, under the provider transition.               *)

\* Variant: the dispatch does not take the transition.
AcquireTransitionUnlocked(d) ==
    /\ pc[d] = "idle"
    /\ transition' = d
    /\ Goto(d, "head", None)
    /\ UNCHANGED <<log, activeTurn, hist>>

AcquireTransition(d) ==
    /\ pc[d] = "idle"
    /\ transition = None
    /\ transition' = d
    /\ Goto(d, "head", None)
    /\ UNCHANGED <<log, activeTurn, hist>>

\* Variant: the prompt stays in the dispatcher's hand when it leaves.
LeaveHolding(d) ==
    /\ transition' = None
    /\ pc' = [pc EXCEPT ![d] = "idle"]
    /\ UNCHANGED arg

Leave(d) ==
    /\ transition' = None
    /\ Goto(d, "idle", None)

ReadHead(d) ==
    /\ pc[d] = "head"
    /\ IF queue = <<>>
       THEN Leave(d)
       ELSE Goto(d, "start", Head(queue)) /\ UNCHANGED transition
    /\ UNCHANGED <<log, activeTurn, hist>>

(* run_send_turn refuses a second active turn, else records TurnStarted.   *)
StartQueuedTurn(d) ==
    /\ pc[d] = "start"
    /\ attempts < MaxAttempts
    /\ IF activeTurn # None
       THEN Leave(d) /\ UNCHANGED <<activeTurn, attempts>>
       ELSE /\ activeTurn' = arg[d]
            /\ attempts' = attempts + 1
            /\ Goto(d, "bind", arg[d])
            /\ UNCHANGED transition
    /\ UNCHANGED <<log, delivered, removedIdle>>

BindTurn(d) ==
    /\ pc[d] = "bind"
    /\ Goto(d, "mark", arg[d])
    /\ UNCHANGED <<log, activeTurn, transition, hist>>

MarkDispatched(d) ==
    /\ pc[d] = "mark"
    /\ queue' = ApplyDispatched(queue, arg[d])
    /\ dispatched' = dispatched \cup {arg[d]}
    /\ Goto(d, "send", arg[d])
    /\ UNCHANGED <<enqueued, removed, activeTurn, transition, hist>>

SendInput(d) ==
    /\ pc[d] = "send"
    /\ delivered' = [delivered EXCEPT ![arg[d]] = @ + 1]
    /\ Leave(d)
    /\ UNCHANGED <<log, activeTurn, attempts, removedIdle>>

(* set_active_turn, the dispatched mark or the provider input fails: the   *)
(* turn just started is aborted, if that succeeds, and the error returned. *)
DispatchFails(d) ==
    /\ pc[d] \in {"bind", "mark", "send"}
    /\ activeTurn' \in {activeTurn} \cup {None : p \in {activeTurn} \cap {arg[d]}}
    /\ Leave(d)
    /\ UNCHANGED <<log, hist>>

-----------------------------------------------------------------------------
(* A person sends a turn of their own; it holds the transition throughout, *)
(* so seen from the queue it is one step.                                  *)
DirectTurn ==
    /\ transition = None
    /\ activeTurn = None
    /\ activeTurn' = Direct
    /\ UNCHANGED <<log, transition, pc, arg, hist>>

(* The running turn completes, fails or is aborted.                        *)
TurnEnds ==
    /\ activeTurn # None
    /\ activeTurn' = None
    /\ UNCHANGED <<log, transition, pc, arg, hist>>

(* The process dies and starts again: tasks and locks are gone, the        *)
(* orphaned turn is aborted by recovery, the queue events are still there. *)
Restart ==
    /\ pc' = [t \in Tasks |-> "idle"]
    /\ arg' = [t \in Tasks |-> None]
    /\ transition' = None
    /\ activeTurn' = None
    /\ UNCHANGED <<log, hist>>

Next ==
    \/ \E c \in Clients :
        \/ \E p \in Prompts : QueueTurnRead(c, p) \/ RemoveRead(c, p)
        \/ \E order \in Orders : ReorderRead(c, order)
        \/ QueueTurnAppend(c) \/ RemoveAppend(c) \/ ReorderAppend(c)
        \/ ClientFails(c)
    \/ \E d \in Dispatchers :
        \/ AcquireTransition(d) \/ ReadHead(d) \/ StartQueuedTurn(d)
        \/ BindTurn(d) \/ MarkDispatched(d) \/ SendInput(d) \/ DispatchFails(d)
    \/ DirectTurn
    \/ TurnEnds
    \/ Restart

Spec == Init /\ [][Next]_vars

-----------------------------------------------------------------------------
(* Every variable has its type: queue commands name prompts, a reorder its *)
(* order, and only dispatchers hold the transition.                        *)
TypeOK ==
    /\ queue \in Seq(Prompts)
    /\ enqueued \subseteq Prompts /\ removed \subseteq Prompts
    /\ dispatched \subseteq Prompts /\ removedIdle \subseteq Prompts
    /\ activeTurn \in Prompts \cup {Direct, None}
    /\ transition \in Dispatchers \cup {None}
    /\ pc \in [Tasks -> {"idle", "queueTurn", "remove", "reorder",
                         "head", "start", "bind", "mark", "send"}]
    /\ arg \in [Tasks -> Prompts \cup Orders \cup {None}]
    /\ \A t \in Tasks :
        /\ pc[t] \in {"idle", "head"} => arg[t] = None
        /\ pc[t] = "reorder" => arg[t] \in Orders
        /\ pc[t] \notin {"idle", "head", "reorder"} => arg[t] \in Prompts
    /\ attempts \in 0..MaxAttempts
    /\ delivered \in [Prompts -> Nat]

(* The provider accepts a queued prompt at most once, although a failed or *)
(* crashed dispatch leaves it queued and it is tried again:                *)
(* mark_queued_turn_dispatched is durable before send_provider_input, and  *)
(* the mark removes every copy of the prompt from the projected queue.     *)
DeliveredAtMostOnce == \A p \in Prompts : delivered[p] <= 1

(* A prompt removed while queued and in no dispatch's hand never reaches   *)
(* the provider, whatever stale reorder or dispatch is appended after the  *)
(* QueuedTurnRemoved event: the fold never brings an id back.              *)
RemovalSticks == \A p \in removedIdle : delivered[p] = 0

(* "queue order must contain every queued turn exactly once"               *)
(* (reorder_turn_queue): a follow-up that was queued and neither removed   *)
(* nor dispatched is in the projected queue exactly once, and one that was *)
(* is not in it at all.                                                    *)
EveryTurnExactlyOnce ==
    \A p \in Prompts :
        Cardinality({i \in DOMAIN queue : queue[i] = p}) =
            IF p \in enqueued \ (removed \cup dispatched) THEN 1 ELSE 0
=============================================================================
