--------------------------- MODULE TerminalArbiter ---------------------------
(***************************************************************************)
(* The process-local arbiter that coalesces the terminal work of a turn    *)
(* (crates/dcc-tauri/src/terminal_arbiter.rs) together with the durable    *)
(* terminal row its leaders consult and write (append_event and            *)
(* find_terminal_event in crates/dcc-infra/src/db.rs).                     *)
(*                                                                         *)
(* A key is one (session, turn).  Several callers try to end the same      *)
(* turn: the provider bridge that saw it complete, a bridge that saw the   *)
(* provider fail, a person who cancels.  One becomes leader, looks the     *)
(* durable outcome up, collects evidence, appends, and leaves a tombstone; *)
(* the others wait for the tombstone, for bounded slices, and may time     *)
(* out.  Tombstones are evicted in FIFO order.  A caller's future may be   *)
(* dropped wherever it awaits, and the process may crash at any step.      *)
(*                                                                         *)
(* Wall-clock time is abstracted to the number of wait slices a follower   *)
(* has spent.  The registry mutex is never held across an await, so each   *)
(* of its critical sections is one step.                                   *)
(***************************************************************************)
EXTENDS Integers, Sequences, FiniteSets

CONSTANTS
    Keys,           \* the turns somebody may try to end
    Callers,        \* tasks that call terminalize_turn; each serves one request at a time
    MaxActive,      \* MAX_ACTIVE_CLAIMS
    MaxTombstones,  \* MAX_COMMITTED_TOMBSTONES
    MaxOwner,       \* largest value of the u64 owner counter
    MaxSlices,      \* wait_timeout / WAIT_SLICE
    None            \* an absent entry, record, row or answer

Intents == {"Completed", "Aborted"}
TerminalKinds == {"TurnCompleted", "TurnAborted"}
Errors == {"TimedOut", "ClaimCapacityExhausted", "PersistenceFailed", "Cancelled"}

ASSUME ConstantsAssumption ==
    /\ MaxActive \in Nat \ {0}
    /\ MaxTombstones \in Nat \ {0}
    /\ MaxOwner \in Nat \ {0}
    /\ MaxSlices \in Nat \ {0}
    /\ None \notin Intents \cup TerminalKinds \cup Errors \cup Keys \cup Nat
    /\ None \notin [owner : Nat, intent : Intents]
    /\ None \notin [outcome : Intents, generation : Nat]

VARIABLES
    active,         \* Registry.active: key -> entry of the leading claim
    committed,      \* Registry.committed: key -> tombstone
    committedOrder, \* Registry.committed_order: FIFO of <<key, generation>>
    nextOwner,      \* Inner.next_owner
    durable,        \* the terminal row of each turn in SQLite
    inserted,       \* history: how many callers were told they inserted the row
    pc,             \* where each caller is
    key,            \* the turn the caller wants to end
    intent,         \* the outcome it asks for
    owner,          \* owner of the entry it leads or follows
    waited,         \* slices it has waited
    answer          \* the result it was given

registry == <<active, committed, committedOrder, nextOwner>>
store    == <<durable, inserted>>
vars     == <<registry, store, pc, key, intent, owner, waited, answer>>

Leading == {"lookup", "evidence", "append", "finalize", "commit", "release"}
Awaiting == {"waiting", "lookup", "evidence", "append", "finalize"}

Entry  == [owner : 1..MaxOwner, intent : Intents]
Record == [outcome : Intents, generation : 1..MaxOwner]

-----------------------------------------------------------------------------
(* Conversions between intents, event kinds and outcomes. *)

\* The event a request appends.
KindOf(i) == IF i = "Completed" THEN "TurnCompleted" ELSE "TurnAborted"

\* The canonical outcome of a durable terminal event.
TerminalOutcome(kind) == IF kind = "TurnCompleted" THEN "Completed" ELSE "Aborted"

-----------------------------------------------------------------------------
Occupied(f) == {k \in Keys : f[k] # None}

IsCurrent(c) == /\ active[key[c]] # None
                /\ active[key[c]].owner = owner[c]

Init ==
    /\ active = [k \in Keys |-> None]
    /\ committed = [k \in Keys |-> None]
    /\ committedOrder = <<>>
    /\ nextOwner = 1
    /\ durable = [k \in Keys |-> None]
    /\ inserted = [k \in Keys |-> 0]
    /\ pc = [c \in Callers |-> "idle"]
    /\ key = [c \in Callers |-> None]
    /\ intent = [c \in Callers |-> None]
    /\ owner = [c \in Callers |-> None]
    /\ waited = [c \in Callers |-> 0]
    /\ answer = [c \in Callers |-> None]

Goto(c, l) == pc' = [pc EXCEPT ![c] = l]

\* The caller's future resolves with r and its locals go away.
Return(c, r) ==
    /\ Goto(c, "done")
    /\ answer' = [answer EXCEPT ![c] = r]

-----------------------------------------------------------------------------
(* claim: the loop that leads, follows, or gives up. *)

\* A caller decides that turn k should end with intent i.
Request(c, k, i) ==
    /\ pc[c] = "idle"
    /\ Goto(c, "claim")
    /\ key' = [key EXCEPT ![c] = k]
    /\ intent' = [intent EXCEPT ![c] = i]
    /\ waited' = [waited EXCEPT ![c] = 0]
    /\ UNCHANGED <<registry, store, owner, answer>>

\* Variant: a follower is told what it asked for.
ClaimCommittedEchoesIntent(c) ==
    /\ pc[c] = "claim"
    /\ committed[key[c]] # None
    /\ Return(c, intent[c])
    /\ UNCHANGED <<registry, store, key, intent, owner, waited>>

\* A recent tombstone answers at once.
ClaimCommitted(c) ==
    /\ pc[c] = "claim"
    /\ committed[key[c]] # None
    /\ Return(c, committed[key[c]].outcome)
    /\ UNCHANGED <<registry, store, key, intent, owner, waited>>

\* Another caller leads: keep its entry and register for its notification.
ClaimFollow(c) ==
    /\ pc[c] = "claim"
    /\ committed[key[c]] = None
    /\ active[key[c]] # None
    /\ owner' = [owner EXCEPT ![c] = active[key[c]].owner]
    /\ Goto(c, "recheck")
    /\ UNCHANGED <<registry, store, key, intent, waited, answer>>

\* Variants: no owner check, no entry check, no tombstone check.
CanLeadUncheckedOwner(c) ==
    /\ committed[key[c]] = None
    /\ active[key[c]] = None
    /\ Cardinality(Occupied(active)) < MaxActive

CanLeadOverEntry(c) ==
    /\ committed[key[c]] = None
    /\ Cardinality(Occupied(active)) <= MaxActive
    /\ nextOwner < MaxOwner

CanLeadOverTombstone(c) ==
    /\ active[key[c]] = None
    /\ Cardinality(Occupied(active)) < MaxActive
    /\ nextOwner < MaxOwner

\* No tombstone, no entry, room for one more entry and an owner number left.
CanLead(c) ==
    /\ committed[key[c]] = None
    /\ active[key[c]] = None
    /\ Cardinality(Occupied(active)) < MaxActive
    /\ nextOwner < MaxOwner

ClaimLead(c) ==
    /\ pc[c] = "claim"
    /\ CanLead(c)
    /\ active' = [active EXCEPT ![key[c]] = [owner |-> nextOwner, intent |-> intent[c]]]
    /\ owner' = [owner EXCEPT ![c] = nextOwner]
    /\ nextOwner' = nextOwner + 1
    /\ Goto(c, "lookup")
    /\ UNCHANGED <<committed, committedOrder, store, key, intent, waited, answer>>

\* Too many concurrent claims, or no owner number is left.
ClaimExhausted(c) ==
    /\ pc[c] = "claim"
    /\ committed[key[c]] = None
    /\ active[key[c]] = None
    /\ \/ Cardinality(Occupied(active)) >= MaxActive
       \/ nextOwner >= MaxOwner
    /\ Return(c, "ClaimCapacityExhausted")
    /\ UNCHANGED <<registry, store, key, intent, owner, waited>>

\* The authoritative recheck after registering for the notification.
Recheck(c) ==
    /\ pc[c] = "recheck"
    /\ \/ /\ committed[key[c]] # None
          /\ Return(c, committed[key[c]].outcome)
       \/ /\ committed[key[c]] = None
          /\ ~IsCurrent(c)
          /\ Goto(c, "claim")
          /\ UNCHANGED answer
       \/ /\ committed[key[c]] = None
          /\ IsCurrent(c)
          /\ Goto(c, "waiting")
          /\ UNCHANGED answer
    /\ UNCHANGED <<registry, store, key, intent, owner, waited>>

\* notify_waiters of the followed entry: its leader committed or released it.
Notified(c) ==
    /\ pc[c] = "waiting"
    /\ ~IsCurrent(c)
    /\ Goto(c, "claim")
    /\ UNCHANGED <<registry, store, key, intent, owner, waited, answer>>

\* Variant: every slice starts the timeout afresh.
SliceRestarts(c) ==
    /\ pc[c] = "waiting"
    /\ Goto(c, "claim")
    /\ UNCHANGED <<registry, store, key, intent, owner, waited, answer>>

\* One bounded slice passes without a notification being seen.
SliceElapsed(c) ==
    /\ pc[c] = "waiting"
    /\ waited' = [waited EXCEPT ![c] = @ + 1]
    /\ IF waited[c] + 1 < MaxSlices
       THEN Goto(c, "claim") /\ UNCHANGED answer
       ELSE Return(c, "TimedOut")
    /\ UNCHANGED <<registry, store, key, intent, owner>>

-----------------------------------------------------------------------------
(* persist_then_commit_with and the persistence closure of               *)
(* terminalize_turn_with_binding.                                        *)

\* find_terminal_event: an existing row skips evidence and append.
Lookup(c) ==
    /\ pc[c] = "lookup"
    /\ IF durable[key[c]] # None
       THEN /\ answer' = [answer EXCEPT ![c] = TerminalOutcome(durable[key[c]])]
            /\ Goto(c, "finalize")
       ELSE /\ Goto(c, "evidence")
            /\ UNCHANGED answer
    /\ UNCHANGED <<registry, store, key, intent, owner, waited>>

\* Provider cancellation, message flush and the review capture.
CollectEvidence(c) ==
    /\ pc[c] = "evidence"
    /\ Goto(c, "append")
    /\ UNCHANGED <<registry, store, key, intent, owner, waited, answer>>

\* Variants: the leader reports its intent; no uniqueness check.
AppendEventEchoesIntent(c) ==
    /\ pc[c] = "append"
    /\ LET k == key[c] IN
       IF durable[k] = None
       THEN /\ durable' = [durable EXCEPT ![k] = KindOf(intent[c])]
            /\ inserted' = [inserted EXCEPT ![k] = @ + 1]
       ELSE UNCHANGED store
    /\ answer' = [answer EXCEPT ![c] = intent[c]]
    /\ Goto(c, "finalize")
    /\ UNCHANGED <<registry, key, intent, owner, waited>>

AppendEventTwice(c) ==
    /\ pc[c] = "append"
    /\ durable' = [durable EXCEPT ![key[c]] = KindOf(intent[c])]
    /\ inserted' = [inserted EXCEPT ![key[c]] = @ + 1]
    /\ answer' = [answer EXCEPT ![c] = TerminalOutcome(durable'[key[c]])]
    /\ Goto(c, "finalize")
    /\ UNCHANGED <<registry, key, intent, owner, waited>>

\* append_event in one IMMEDIATE transaction: the first terminal row wins,
\* and the caller learns whether it is the one that inserted it.
AppendEvent(c) ==
    /\ pc[c] = "append"
    /\ LET k == key[c] IN
       IF durable[k] = None
       THEN /\ durable' = [durable EXCEPT ![k] = KindOf(intent[c])]
            /\ inserted' = [inserted EXCEPT ![k] = @ + 1]
       ELSE UNCHANGED store
    /\ answer' = [answer EXCEPT ![c] = TerminalOutcome(durable'[key[c]])]
    /\ Goto(c, "finalize")
    /\ UNCHANGED <<registry, key, intent, owner, waited>>

\* A lookup, a cancellation or an append that returns an error.
PersistFails(c) ==
    /\ pc[c] \in {"lookup", "evidence", "append"}
    /\ Goto(c, "release")
    /\ answer' = [answer EXCEPT ![c] = "PersistenceFailed"]
    /\ UNCHANGED <<registry, store, key, intent, owner, waited>>

\* The guarded-undo capture is finalized before the closure returns Ok.
Finalize(c) ==
    /\ pc[c] = "finalize"
    /\ Goto(c, "commit")
    /\ UNCHANGED <<registry, store, key, intent, owner, waited, answer>>

\* The registry after its n oldest tombstone references are popped: a
\* reference removes the record only when the generations agree.
Popped(com, ord, n) ==
    [k \in Keys |-> IF com[k] # None /\ \E i \in 1..n : ord[i] = <<k, com[k].generation>>
                    THEN None ELSE com[k]]

\* Variant: one tombstone too many is tolerated.
FitsPlusOne(com, ord, n) == Cardinality(Occupied(Popped(com, ord, n))) <= MaxTombstones + 1

Fits(com, ord, n) == Cardinality(Occupied(Popped(com, ord, n))) <= MaxTombstones

\* How often the eviction loop pops: until the tombstones fit.
Pops(com, ord) ==
    CHOOSE n \in 0..Len(ord) :
        Fits(com, ord, n) /\ \A m \in 0..(n - 1) : ~Fits(com, ord, m)

\* Variants: the tombstone records the intent; popped references stay queued.
CommitIntent(c) ==
    /\ pc[c] = "commit"
    /\ IsCurrent(c)
    /\ active' = [active EXCEPT ![key[c]] = None]
    /\ LET com == [committed EXCEPT ![key[c]] =
                       [outcome |-> intent[c], generation |-> owner[c]]]
           ord == Append(committedOrder, <<key[c], owner[c]>>)
           n   == Pops(com, ord)
       IN  /\ committed' = Popped(com, ord, n)
           /\ committedOrder' = SubSeq(ord, n + 1, Len(ord))
    /\ Goto(c, "done")
    /\ UNCHANGED <<nextOwner, store, key, intent, owner, waited, answer>>

CommitKeepsReferences(c) ==
    /\ pc[c] = "commit"
    /\ IsCurrent(c)
    /\ active' = [active EXCEPT ![key[c]] = None]
    /\ LET com == [committed EXCEPT ![key[c]] =
                       [outcome |-> answer[c], generation |-> owner[c]]]
           ord == Append(committedOrder, <<key[c], owner[c]>>)
       IN  /\ committed' = Popped(com, ord, Pops(com, ord))
           /\ committedOrder' = ord
    /\ Goto(c, "done")
    /\ UNCHANGED <<nextOwner, store, key, intent, owner, waited, answer>>

\* commit_after_persistence.  Its StaleClaim and Poisoned returns need a claim
\* that is not current or an order shorter than the records; LeaderHoldsClaim
\* and OrderMatchesTombstones say neither is reachable.
Commit(c) ==
    /\ pc[c] = "commit"
    /\ IsCurrent(c)
    /\ active' = [active EXCEPT ![key[c]] = None]
    /\ LET com == [committed EXCEPT ![key[c]] =
                       [outcome |-> answer[c], generation |-> owner[c]]]
           ord == Append(committedOrder, <<key[c], owner[c]>>)
           n   == Pops(com, ord)
       IN  /\ committed' = Popped(com, ord, n)
           /\ committedOrder' = SubSeq(ord, n + 1, Len(ord))
    /\ Goto(c, "done")
    /\ UNCHANGED <<nextOwner, store, key, intent, owner, waited, answer>>

\* Dropping a claim that did not commit.
Release(c) ==
    /\ pc[c] = "release"
    /\ IF IsCurrent(c)
       THEN active' = [active EXCEPT ![key[c]] = None]
       ELSE UNCHANGED active
    /\ Goto(c, "done")
    /\ UNCHANGED <<committed, committedOrder, nextOwner, store, key, intent, owner, waited, answer>>

\* The caller's future is dropped, or panics, at an await: a leader's claim is
\* released by its destructor, a follower leaves nothing behind.
Cancel(c) ==
    /\ pc[c] \in Awaiting
    /\ Goto(c, IF pc[c] \in Leading THEN "release" ELSE "done")
    /\ answer' = [answer EXCEPT ![c] = "Cancelled"]
    /\ UNCHANGED <<registry, store, key, intent, owner, waited>>

\* The caller takes its result and is free for another request.
Reply(c) ==
    /\ pc[c] = "done"
    /\ Goto(c, "idle")
    /\ key' = [key EXCEPT ![c] = None]
    /\ intent' = [intent EXCEPT ![c] = None]
    /\ owner' = [owner EXCEPT ![c] = None]
    /\ waited' = [waited EXCEPT ![c] = 0]
    /\ answer' = [answer EXCEPT ![c] = None]
    /\ UNCHANGED <<registry, store>>

-----------------------------------------------------------------------------
(* Writers of the terminal row that do not go through the arbiter. *)

\* abort_run appends TurnAborted itself.
AbortRunAppend(k) ==
    /\ durable[k] = None
    /\ durable' = [durable EXCEPT ![k] = "TurnAborted"]
    /\ inserted' = [inserted EXCEPT ![k] = @ + 1]
    /\ UNCHANGED <<registry, pc, key, intent, owner, waited, answer>>

\* Variant: the recovery does not look for a terminal row.
RecoveredBlindly == [k \in Keys |-> "TurnAborted"]

\* recover_orphaned_running_turns: one transaction that aborts every turn
\* without a terminal row.  It publishes nothing.
Recovered == [k \in Keys |-> IF durable[k] = None THEN "TurnAborted" ELSE durable[k]]

\* The process dies and a new one starts with an empty registry.  A recovery
\* that fails is logged and skipped.
Restart ==
    /\ active' = [k \in Keys |-> None]
    /\ committed' = [k \in Keys |-> None]
    /\ committedOrder' = <<>>
    /\ nextOwner' = 1
    /\ durable' \in {durable, Recovered}
    /\ pc' = [c \in Callers |-> "idle"]
    /\ key' = [c \in Callers |-> None]
    /\ intent' = [c \in Callers |-> None]
    /\ owner' = [c \in Callers |-> None]
    /\ waited' = [c \in Callers |-> 0]
    /\ answer' = [c \in Callers |-> None]
    /\ UNCHANGED inserted

-----------------------------------------------------------------------------
\* The steps a claim's own code takes without the outside world's help.
Progress(c) ==
    \/ ClaimCommitted(c)
    \/ ClaimFollow(c)
    \/ ClaimLead(c)
    \/ ClaimExhausted(c)
    \/ Recheck(c)
    \/ SliceElapsed(c)
    \/ Commit(c)
    \/ Release(c)
    \/ Reply(c)

Next ==
    \/ \E c \in Callers :
         \/ \E k \in Keys, i \in Intents : Request(c, k, i)
         \/ Progress(c)
         \/ Notified(c)
         \/ Lookup(c)
         \/ CollectEvidence(c)
         \/ AppendEvent(c)
         \/ PersistFails(c)
         \/ Finalize(c)
         \/ Cancel(c)
    \/ \E k \in Keys : AbortRunAppend(k)
    \/ Restart

Spec == Init /\ [][Next]_vars

\* The registry steps never wait for anyone, and a slice always elapses.  No
\* fairness is assumed of the persistence closure (a provider may never answer
\* a cancellation) nor of the notification.
FairSpec == Spec /\ \A c \in Callers : WF_vars(Progress(c))

-----------------------------------------------------------------------------
(* Properties *)

\* Types and the two capacity limits of the registry.
TypeOK ==
    /\ active \in [Keys -> Entry \cup {None}]
    /\ committed \in [Keys -> Record \cup {None}]
    /\ committedOrder \in Seq(Keys \X (1..MaxOwner))
    /\ nextOwner \in 1..MaxOwner
    /\ durable \in [Keys -> TerminalKinds \cup {None}]
    /\ inserted \in [Keys -> Nat]
    /\ pc \in [Callers -> {"idle", "claim", "recheck", "waiting", "done"} \cup Leading]
    /\ key \in [Callers -> Keys \cup {None}]
    /\ intent \in [Callers -> Intents \cup {None}]
    /\ owner \in [Callers -> 1..MaxOwner \cup {None}]
    /\ waited \in [Callers -> Nat]
    /\ answer \in [Callers -> Intents \cup Errors \cup {None}]

\* A caller between ClaimLead and Commit or Release is the only one there for
\* its turn, and it holds the turn's entry.  A turn therefore has one leader at
\* a time, and the StaleClaim return of commit_after_persistence is dead code,
\* although neither commit nor release looks at who else is running.
LeaderHoldsClaim ==
    \A c \in Callers : pc[c] \in Leading =>
        /\ key[c] \in Keys
        /\ active[key[c]] = [owner |-> owner[c], intent |-> intent[c]]
        /\ \A d \in Callers \ {c} : pc[d] \in Leading => key[d] # key[c]

\* A turn with a tombstone has no leader: evidence work and appends are over
\* once the outcome is committed, until the tombstone is evicted.
NoWorkAfterCommit ==
    \A c \in Callers : pc[c] \in Leading => committed[key[c]] = None

\* A tombstone never contradicts the durable row, whoever wrote that row (the
\* leader, abort_run, or the recovery after a crash).
TombstonesMatchDurable ==
    \A k \in Keys : committed[k] # None =>
        /\ durable[k] # None
        /\ committed[k].outcome = TerminalOutcome(durable[k])

\* The outcome a caller is given is the durable one, not the one it asked for,
\* through followers, retries, evictions, dropped futures and restarts.
AnswersMatchDurable ==
    \A c \in Callers : answer[c] \in Intents =>
        /\ durable[key[c]] # None
        /\ answer[c] = TerminalOutcome(durable[key[c]])

\* Both limits hold: MAX_ACTIVE_CLAIMS for entries and
\* MAX_COMMITTED_TOMBSTONES for tombstones and their FIFO.
RegistryIsBounded ==
    /\ Cardinality(Occupied(active)) <= MaxActive
    /\ Cardinality(Occupied(committed)) <= MaxTombstones
    /\ Len(committedOrder) <= MaxTombstones

\* committed_order lists each tombstone once, with its generation, and nothing
\* else.  Hence the eviction loop of a commit always finds a reference to pop
\* and the Poisoned return inside it is dead code.
OrderMatchesTombstones ==
    /\ Len(committedOrder) = Cardinality(Occupied(committed))
    /\ \A i \in 1..Len(committedOrder) :
          LET k == committedOrder[i][1] IN
          /\ committed[k] # None
          /\ committed[k].generation = committedOrder[i][2]

\* Of all the callers that ever end a turn, in this process or a later one, at
\* most one is told that it inserted the terminal row.  That caller publishes
\* the event, settles the delegation and charges the objective, so none of
\* these happens twice for a turn.
InsertedOnce == \A k \in Keys : inserted[k] <= 1

\* Nothing rewrites or deletes a terminal row.
DurableIsFinal ==
    [][\A k \in Keys : durable[k] # None => durable'[k] = durable[k]]_vars

\* A follower is not held hostage by a leader whose persistence never returns:
\* it is answered, gives up, or takes the lead.
FollowersGetOut ==
    \A c \in Callers :
        pc[c] \in {"recheck", "waiting"} ~> pc[c] \in {"done", "idle"} \cup Leading

-----------------------------------------------------------------------------
(* The arbiter implements TurnOutcome: the outcome of a turn is the one of   *)
(* its durable row, and a caller has been told something once it is done.    *)
OutcomeOf(k) == IF durable[k] = None THEN None ELSE TerminalOutcome(durable[k])
ToldTo(c) == IF pc[c] = "done" THEN <<key[c], answer[c]>> ELSE None

Promise == INSTANCE TurnOutcome WITH
    Turns <- Keys, Clients <- Callers, Outcomes <- Intents, Failures <- Errors,
    Unknown <- None,
    outcome <- [k \in Keys |-> OutcomeOf(k)],
    told <- [c \in Callers |-> ToldTo(c)]

\* Claims, followers, evictions, dropped futures and restarts together keep the
\* promise of TurnOutcome.
KeepsPromise == Promise!OSpec
=============================================================================
