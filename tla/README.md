# Verification of Dev Command Center

Dev Command Center (DCC) runs AI coding agents in isolated Git worktrees. A
*session* is a conversation with one provider (Claude, Codex, Cursor, ...). The
person sends *turns*; a provider process answers them; every event of the
session is appended to a SQLite history from which the state is folded. The
hard part of the program is the life of a turn: several tasks start, end, abort
and queue turns of the same session at the same time, the durable history, the
session row, the in-memory binding and the provider process are four copies of
the truth that are written one after the other, and the desktop process may die
between any two of the writes.

Two more parts of the program live from the same difficulty. *Guarded undo*
puts back the files a turn changed: it captures them under leases while other
turns and commands may write the same worktree, and restores them under a
journal that survives a crash between any two file operations. *Delegation*
lets a turn start child conversations, whose result has to find its way back to
the parent exactly once although four different tasks may settle it.

These modules model those parts, check them with TLC on small instances and
prove the terminal arbiter, the queue and the capture coordinator correct for
every instance with TLAPS.

## 1. Inventory

### Modelled

**Terminal arbiter** (`crates/dcc-tauri/src/terminal_arbiter.rs`).
State: a registry of active claims (turn -> owner, intent), committed
tombstones (turn -> outcome, generation), a FIFO of references to tombstones, a
counter that hands out owners. Operations: `claim` (lead, follow with a bounded
wait, or learn the committed outcome), `persist_then_commit_with`, `release`,
drop. It is called by `terminalize_turn_with_binding` for every way a turn can
end. Hard: two endings race; the leader's future is dropped or its persistence
fails halfway; a follower registers for a notification that was already sent; a
tombstone is evicted and its turn committed again; both limits are reached. It
is correct when a turn has one leader at a time, every caller is told what is
durable, and the terminal event is published once.

**Terminal rows and recovery** (`crates/dcc-infra/src/db.rs`).
State: the event history. `append_event` of a terminal kind inserts only if the
turn has no terminal row and otherwise returns the one that exists;
`recover_orphaned_running_turns` aborts open turns at start-up. `abort_run`
appends terminal rows without going through the arbiter.

**Turn lifecycle** (`send_turn.rs`, `abort_run.rs`, `resume_session.rs`,
`domain/session.rs` of dcc-core; `state.rs` and `commands/session_commands.rs`
of dcc-tauri). State: the session row, the history's projection (state, active
turn), the provider binding of the session with its current turn and its
terminal token, the provider transition lock, the arbiter. Operations: send a
turn (select, attach, record, bind, input), resume, abort, the bridge task that
reads the provider stream and ends turns, the terminal operation (claim, token,
lookup, cancel, append, cleanup), restart. Hard: sends hold the transition lock,
aborts hold nothing, bridges take it only to dispatch; a provider event is
attributed to the turn the binding carries when it is read; every write can
fail after the one before it succeeded. It is correct when a started turn ends,
exactly once, with what really happened to it.

**Turn queue** (`application/turn_queue.rs`, `dispatch_next_queued_turn`).
State: the fold of the queue events. Operations: queue, remove, reorder, mark
dispatched, dispatch the head. Hard: every command reads the history and appends
later with nothing held; a dispatch is five steps any of which may fail or be
the last one before a crash. It is correct when a prompt is delivered at most
once, a removed prompt never, and no queued prompt is lost.

**Guarded undo** (`crates/dcc-infra/src/guarded_undo/restore_service.rs`,
`macos_root.rs`, the journal in `db.rs`). State: the files of the workspace and
their staged siblings, the rows of `dcc_undo_operations` and
`dcc_undo_operation_files`, the state of the restore sets, the prepared token.
Operations: prepare, execute (stage, journal, exchange, record, verify, complete,
clean up), rollback, abort before the first exchange, recovery at start-up. Hard:
the file system and the journal are two stores written one after the other, a
crash fits between any two writes and again into the recovery of the first
crash, every call may fail, and other programs write the same files under no
lock. It is correct when it never destroys a file, is all or nothing, respects
the order of the turns and leaves nothing in flight.

**Turn capture** (`guarded_undo/coordinator.rs`, `capture_v2_service.rs`).
State: per physical root an exclusive mutation flag, a count of shared capture
edges, the registered turn intervals and a generation; per turn a receipt and
the row of its restore set. Operations: begin (interval, edge, baseline), finish
(edge, checks, results, decision), the failure of either at every step, the
exclusive leases of all other DCC mutations, restart. Hard: a turn's guards are
taken and given back in two calls that are minutes apart, the decision is
written after the last check, and worktrees share Git directories. It is correct
when the leases exclude each other, none leaks and a set is only eligible when
nothing DCC knows of interfered.

**Delegation runtime** (`delegation_runtime.rs`,
`commands/delegation_commands.rs`, `http_api/attention.rs`). State: the rows of
`dcc_delegations`, the child's history, the process-wide `FINALIZING` and `WAITS`
registries. Operations: propose, launch, start, message, settle (by the hook of
an ended turn, the watchdog, a failed launch), deliver to a waiting tool call or
to the parent, wait, cancel, dismiss, expire, restart. Hard: rows are read,
awaited on and written back whole; finalizers exclude each other with an
in-memory set; a waiter can vanish with a result in its hand. It is correct when
a result is delivered once, a cancelled child is silent, a running delegation is
eventually settled and two children do not edit one checkout.

How the parts interact: the terminal operation of a turn (TurnLifecycle) is what
ends a child's turn and spawns the delegation hook (`EndTurn`); a delivered result
and a message to a task become turns or queued follow-ups (TurnQueue); the same
terminal operation finishes the capture of the turn (`Finalize` of
TerminalArbiter, `TurnEnds` of TurnCapture), and an eligible restore set is what
guarded undo starts from (`Init` of GuardedUndo). An execute of guarded undo is
one of the mutators of TurnCapture.

### Not modelled

`PROJECT.json` lists every other component with the reason. They fall into
three groups. *State machines of their own*: workspace deletion, usage-limit
resume, objectives, conversation rewind, remote channel, pairing and relay
rooms, AI-memory outbox, keep-awake, provider availability, delta coalescing,
steering, closing and plan approval. *Wrappers of external programs and
services*: Git, forges, provider adapters, MCP servers, browser and device
control, pseudo-terminals. *User interfaces and routing*: the native and mobile
applications, the HTTP server.

### Hazards

`PROJECT.json` "hazards" names each hazard at its source line with the
properties that watch it; those without a property say why. Most of the latter
are behaviours the models have and the code makes no promise about; they are
described under *Observations* below.

## 2. Modules

| Module | Models | Used by |
| --- | --- | --- |
| `TurnOutcome` | abstract: a turn is decided once and everyone is told that decision | refinement target |
| `TerminalArbiter` | arbiter + callers + durable terminal row | `MCTerminalArbiter`, proofs |
| `TerminalArbiterProofs` | theorems about `TerminalArbiter` | |
| `TurnLifecycle` | one session: senders, bridges, aborters, provider, store | `MCTurnLifecycle`, proofs |
| `TurnLifecycleProofs` | theorems about `TurnLifecycle` | |
| `TurnQueue` | queue fold, client commands, dispatchers | `MCTurnQueue`, proofs |
| `TurnQueueProofs` | theorems about `TurnQueue` | |
| `GuardedUndo` | restore service, journal, files, recovery, other programs | `MCGuardedUndo`, proofs |
| `GuardedUndoEffects`, `GuardedUndoProofs` | theorems about `GuardedUndo` | |
| `TurnCapture` | capture service and mutation coordinator | `MCTurnCapture`, proofs |
| `TurnCaptureProofs` | theorems about `TurnCapture` | |
| `DelegationRuntime` | delegated children of one parent, settlement and delivery | `MCDelegationRuntime`, proofs |
| `DelegationRuntimeProofs` | theorems about `DelegationRuntime` | |

`MC*` modules add only symmetry sets and the sets of orders; the `.cfg` files
give the constants. A definition whose comment starts with *Variant:* is a
plausible wrong version of the definition after it. No specification uses it; it
exists to show that the properties notice the difference.

### TerminalArbiter

One variable per field of `Registry` and `Inner`, one `pc` per caller.
The registry mutex is never held across an await, so each critical section is
one action: `ClaimCommitted`, `ClaimFollow`, `ClaimLead`, `ClaimExhausted` are
the four ways out of the first section of `claim`; `Recheck` is the check after
the follower registered with the notifier; `Notified` and `SliceElapsed` are
the two ways a wait slice ends. Time is counted in slices. `Lookup`,
`CollectEvidence`, `AppendEvent`, `Finalize` are the awaits of the persistence
closure; `Commit` is `commit_after_persistence` with its eviction loop
(`Popped`, `Fits`, `Pops` say how many references it pops); `PersistFails`,
`Release` and `Cancel` are the error path and the drop of the future at any
await. `AbortRunAppend` is the writer outside the arbiter; `Restart` empties
memory and may or may not recover (a recovery that fails is logged and
skipped). `MaxOwner` stands for the end of the `u64` counter.
Intents are the two that `terminalize_turn_with_binding` produces; the third
member of the enum is used by unit tests only. Poisoned mutexes are not
modelled.

### TurnLifecycle

Kept of the history: the projection, the terminal row of each turn, which turns
have their SessionAborted event and whether the last event is a TurnAborted
(`abort_run` looks at it). `row` is the session row, written separately.
A binding names its bridge task. `work[b]` are the prompts the provider
accepted on `b` and has not answered. Each task has a position, a turn, a
binding and a terminal request; a position is a place between two awaits at
which another task can change what the next step reads.

The arbiter appears as its promise: a leader per turn, a committed outcome,
followers that wait for the outcome or time out. Assumptions about the provider
(external): an accepted prompt is answered with a result or a failure; input to
a cancelled or ended provider fails, and input may fail at any time; after
`cancel` the events already in the stream may still be read.

`AttachFails` is the attach that returns an error: the row it reads again is not
active or not readable, with or without a binding in place, or the provider
cannot start. The send then only records its turn and ends it.

Abstractions: selection reads the projection and the binding in one step; the
request's content is reduced to "same selection", "another selection", "not
valid"; MCP projections, deltas, evidence and usage accounting leave no trace;
only the restart with a successful recovery is modelled here.

### TurnQueue

The fold is kept instead of the events, since `project_turn_queue` is a left
fold and each append applies one of the four `Apply` operators. A command is two
actions, read and append, because nothing is held in between. The dispatch has
one action per await under the transition. A direct turn holds the transition
for its whole length and is one step. `removedIdle` and `delivered` are history
variables of the properties.

### GuardedUndo

A file is its bytes and its physical identity (device, inode and metadata in the
code); turn `s` changed the bytes of a path from `Pre(s, p)` to `Post(s, p)`.
`target[p]` is the file at the path and `sibling[o][i]` the one at the exchange
locator of file `i` of operation `o`; `Exchange` swaps the two, as
`renameatx_np(RENAME_SWAP)` does. `ops` is the journal. One call runs at a time
(the exclusive lease), and `pc` is its next file-system call or transaction;
`known` is the local `operation_state` the code passes along. `Move` is one
compare-and-swap of `transition_undo_operation`. Any call may fail while `faults`
is below its bound; a failing exchange may or may not have happened. `Crash`
discards the call and the token and enters `recover_startup`, which first visits
the active operations and then the pending cleanups.

Abstractions: one workspace; preparing is one step, since nothing it reads is
trusted at execution; the generations of the coordinator are `token.fresh`; a
crash is that of the process (the file system keeps its writes); other programs
write targets, not siblings; an unconfirmed or expired token is `ExecuteBlocked`.
The retention functions have no caller and `recovery_required` is never left by
code, so neither has an action.

### TurnCapture

One action per critical section of the coordinator's mutex, per database write
and per round of file reads. A root without an entry in the map is one with
nothing active. `Coordinated(t)` are the worktree, the Git directory and the
common directory. `Preflight` is `preflight_error`, after which the guards unwind
in the order of their declaration (`UnwindEdge`, `UnwindInterval`).
`StartProvider` is enabled whether begin succeeded or not, because
`send_turn_with_state` ignores how it ended. `mutated` and `joined` are history:
the roots mutators wrote and the other turns whose provider wrote, between the
edges of a turn. `MaxGeneration` stands for the last `u64`.

Not modelled: turns with several worktrees under one owner, the waiters and the
eviction of the runtime registry, and a terminal event that arrives before
`begin_turn` has registered. `noneligible` stands for `ineligible` and `failed`.

### DelegationRuntime

One parent session. A child is a *delegation* (answers once) or a *task* (stays
open and reports its turns); its history is the number of its turns, whether the
last is open and how it ended. `launch` is the position of `run_delegation`;
`job[w]` that of a finalizer: a hook, the watchdog, or a child's own background
send. Each database read and write is a step; the re-read directly under the
guard is one step with taking it (`Acquire`, `CancelRead`), since what it finds
decides. A failed start is two steps, the read of `fail_delegation_with_state`
(`StartFails`) and its write (`StartFailsWrite`). The background send holds the
child's provider transition from its turn (`SendStarts`) to its return
(`SendReturns`), so no other turn of the child starts in between; `SendFails` is
its failure before the turn was recorded, after it with the turn left open, or
with the turn ended as aborted, whose hook then races the launcher. `slot` and `waiter` are the two halves of a waiting tool call: between
`WaitPoll` and `WaitReturn` the claim has been read and not been marked. `Restart`
keeps rows, histories and queued messages, aborts open turns as start-up recovery
does, and runs no hook for them.

Abstractions: limits per turn of the parent, titles and prompts are left out; the
checks of `run_delegation` before the row is created are one step; a message to a
task is in the mail until its turn starts. `Deliver` is one hand-over to
`hand_back_to_parent`: steering, starting and queueing a result in the parent are
inside it, and so is its fall back to the queue. When a provider has accepted a
steer whose record then fails, or a send fails after it has recorded its turn,
the parent gets the text a second time from the queue
(`delegation_runtime.rs:2255`); `DeliveredOnce` counts hand-overs and does not
see that. The isolated worktree with its review is
not reached by the callers of this version, `complete_task` has no caller and
`Queued` is never set.

## 3. Runs

Each passing run is also run against the variants listed under "mutants".

| Run | Instance | Shows |
| --- | --- | --- |
| `arbiter` | 2 turns, 2 callers, room for 1 claim and 1 tombstone, 4 owners, 2 slices, fair | nine properties of the registry, its answers and the row; refinement of `TurnOutcome`; `FollowersGetOut` |
| `queue` | 3 prompts, 1 client, 2 dispatchers, permutations, 4 attempts | `DeliveredAtMostOnce`, `RemovalSticks`; `EveryTurnExactlyOnce`, as long as one client at a time sends permutations |
| `lifecycle` | 2 turns, 2 bindings, 1 sender, 1 aborter | `PreparedBindingGetsPrompt`, `TokenPinsTurn` |
| `lifecycle_faults` | 2 turns, 1 binding, 1 sender, 1 aborter, a store that may refuse any write | `NoLeakedGuards` |
| `lifecycle_ends` | 3 turns, 2 bindings, 1 sender, no aborter, fair | `OneOpenTurn`, `CompletedWasDone`, `OpenTurnIsAttended`, `EveryTurnEnds` |
| `undo` | 2 turns sharing a path, bounded operations, edits, faults and crashes, fair | `NoFileIsLost`, `AllOrNothing`, `NoOrphanSibling`, `UndoneInOrder`, `NothingInFlight`, `RecoveryEnds` |
| `capture` | 2 turns, 2 mutators, shared Git directory, 1 restart, fair | `LeasesExclude`, `NothingLeaks`, `OverlapDirtiesBoth`, `EligibleUnmutated`, `CaptureEnds` |
| `delegation` | 1 delegation or 1 task, 1 hook thread, 2 turns, 1 restart, fair | `DeliveredOnce`, `CancelledIsSilent`, `SettlesEventually` |

**Why the bounds are enough to be interesting.** One claim slot and one
tombstone make capacity, eviction and a second generation of the same turn
happen with two turns. Two callers give leader and follower, and both intents.
Two bindings give a replacement while the old stream still talks; a bridge also
competes with the sender for the transition lock, so one sender is enough for a
send and a dispatch to race. Two turns give the aborted one and its successor.
`MaxAttempts` is one more than the prompts where deliveries are counted, so that
a failed dispatch is retried. Several clients and arbitrary orders are covered by
the theorems `AtMostOneDelivery` and `RemovedIsNeverSent`. Turns, bindings and owners are never reused within
a behaviour, which bounds every run. Two restore sets that share a path give the
chain of undos, a manifest of two paths a half-applied restore, and the bounds on
crashes, edits and faults let a crash fall into the recovery of another failure.
Two turns whose worktrees share a Git directory give the overlap that is not in
the worktree. One child at a time is enough for the races about one row, since
rows only meet in the checkout and the limits; hook, watchdog, launcher, waiter
and canceller of that row are all there. `MaxRows` says so explicitly, and the
run `delegation_editors` has two.

**Fairness.** `arbiter` assumes weak fairness of the registry's own steps and of
the slice timer only: a leader's persistence may hang for ever, as a provider
that ignores its cancellation does. `lifecycle_ends` assumes that the executor
runs a task that has begun (weak fairness of each task's steps) and that a
provider answers what it accepted. Nobody is assumed to send, abort, resume or
restart. The store takes its writes in this run. With `StoreFaults = TRUE` both
`OpenTurnIsAttended` and `EveryTurnEnds` are false: when `save_session` fails
after TurnStarted was appended, `send_turn` returns the error before its caller
reaches the code that ends a recorded turn (`send_turn.rs:281`). `undo` assumes
that the running call goes on; crashes are bounded, not fair. `capture` assumes
that a capture that has begun goes on and that turns end; mutators may hold their
leases for ever. `delegation` assumes that spawned tasks run, that the watchdog's
loop goes on and that time passes; nothing is assumed of a child's turn, of the
background send, of a waiter or of a person.

### Findings

Four runs state what a comment, a message or a design document says and find a
behaviour of the code that contradicts it.

1. `queue_reorder_race`: a follow-up queued between a reorder's read and its
   append vanishes from the queue.
2. `lifecycle_restart`: `abort_run` saves the row as aborted while a newer turn
   is open; recovery after a crash only looks at active rows, and the turn stays
   open.
3. `capture_overlap`: a turn that begins while another one holds a capture edge
   is refused before it has dirtied anybody, runs without an interval, and the
   first turn's set becomes eligible with the second one's writes in it.
4. `delegation_editors`: `run_delegation` finds the checkout free long before its
   own row is running; two delegations asked for together both edit it.

`lifecycle_ends` shows that `OneOpenTurn`, `OpenTurnIsAttended`,
`CompletedWasDone` and `EveryTurnEnds` hold without `abort_run`, which takes no
lock. Finding 1 delimits the run `queue` in the same way.

### Observations

Behaviours of the models that are no runs of their own. The first two belong to
findings 1 and 2, the same check and the same unlocked `abort_run`; the others
contradict no promise strongly enough, or are accepted by the code.

- A reorder `[a, a]` of a queue of `a` passes the check, which dedups a copy of the
  ids, and the fold puts `a` into the queue twice (`turn_queue.rs:195`). The run
  `queue` asks for orders without repeats; with `Orders <- AnyOrders` TLC finds
  `EveryTurnExactlyOnce` violated in five steps. `AtMostOneDelivery` and
  `RemovedIsNeverSent` are proved for every order.
- With an aborter the properties of `lifecycle_ends` fail (`Turns = {t1, t2, t3}`,
  `Bindings = {b1}`, `Aborters = {a1}`). `OneOpenTurn`: `abort_run` finds no active
  turn but the TurnAborted of an earlier one at the end of the history it read
  (`abort_run.rs:98`), takes it for a half-done abort of its own and appends
  SessionAborted although a turn has started since; that turn is no longer the
  active one and has no terminal row, and a send that read the row before the abort
  saved it records a second open turn. `CompletedWasDone`: a turn that starts after
  `abort_run_with_state` looked for one (`session_commands.rs:2401`) is ended by
  `abort_run` without its provider being cancelled; the next send puts its turn on
  the same binding, and the completion of the aborted prompt ends that turn
  (`state.rs:7111`).
- A follow-up can be appended after the turn it follows has ended; nothing
  dispatches it until another turn completes (`session_commands.rs:2357`).
- Two crashes, the second during the recovery of the first, can leave an
  operation in `recovery_required` although no file changed unexpectedly:
  `recover_preparing` moves the journal to `rolling_back`, and the next start-up
  takes `rollback_operation`, which expects staged pairs that are gone
  (`restore_service.rs:1158`, `:1403`). `abort_preparing` answers `rolled_back`
  where the design document says `blocked`.
- The edge of `finish` only covers the worktree, so a mutation of the common Git
  directory fits between the final check and the durable decision
  (`capture_v2_service.rs:1018`). `EligibleUnmutated` therefore speaks of the
  worktree.
- A dismissal or expiry that read a Draft row cancels the task the person started
  meanwhile (`attention.rs:220`); a launch that is under way likewise writes
  `running` over a cancellation.
- A result put into a waiter's slot between the poll that found none and
  `mark_returned` is thrown away (`delegation_runtime.rs:2175`), and so is a result
  whose process dies between the row's terminal status and the delivery. Delivery
  is at most once, not exactly once.
- A process that dies in the middle of a launch leaves a Draft row that counts
  against the parent's limit of active delegations.

## 4. Proofs

### TerminalArbiterProofs

For all sets of turns and callers and all positive limits. Assumptions:
`ConstantsAssumption` (the limits are positive, `None` is none of the values).

The safety properties are not inductive: that a leader's answer is the durable
one rests on there being no second leader and on a turn never having an entry
and a tombstone at once. The invariant `IInv` is `CoreInv /\ OrderInv`:

- `CoreInv`: types; what each position implies about a caller's locals
  (`LocalsOK`); `LeaderHoldsClaim`; `EntryXorTombstone`; tombstones and answers
  match the durable row; a row counted as inserted exists.
- `OrderInv`: the FIFO holds each tombstone once with its generation.

`CommitPops` and `CommitOrder` say what the eviction loop removes; they are
where cardinalities and sequences are handled. `CoreStep`, `CommitCore` and
`OrderStep` show that each action preserves the invariant, and every theorem
follows from `Invariance`: `TypeCorrect`, `OneLeader`, `CommitEndsWork`,
`AnswersAreCanonical`, `PublishedOnce`, `EvictionIsExact`, `CapacityHolds` (with
`ActiveInv`, a finite set of entries), `RowsAreFinal`, and `ArbiterKeepsPromise`,
the refinement of `TurnOutcome` (`PromiseStep` maps each action to a decision,
an answer, a reboot or a stutter).

### TurnQueueProofs

For all sets of prompts, clients, dispatchers and orders, from
`QueueConstants`. `AtMostOneDelivery` and `RemovedIsNeverSent` are not
inductive; `IInv` adds why they hold:

- `OneDispatch`: a dispatch under way holds the transition, hence is alone;
- `FreshPrompts`, `QueueIsPending`: a prompt enters the queue once, and no
  dispatched prompt is ever in it, whatever order a stale reorder appends;
- `MarkedFirst`, `HandIsPending`: the durable mark comes before the delivery,
  and a dispatch works on a prompt nobody has delivered;
- `RemovedIsOut`: a prompt removed while no dispatch held it is out of the queue
  and out of every dispatcher's hand.

The fold's filter is `Keep`, written without recursion so that `KeepElements`
(what it leaves was there and is wanted) can be proved: `NthExists` counts along
the list and takes the least index that reaches n (`Least`, from the
well-foundedness of the naturals). `MCTurnQueue` assumes, and TLC evaluates, that
`Keep` equals `SelectSeq` on every list the runs use. The theorems hold for orders
with repeated or unknown prompts too, so the findings about reorder cannot
deliver a prompt twice.

`PendingExactlyOnce` needs two hypotheses, those of the run `queue`: one client
(`OneClient`) and orders without repeats (`DistinctOrders`). `OnceInv` says that the
queue has no repeats and holds exactly the pending prompts, and that the order a
client read still has every queued prompt when it is appended: a dispatch in
between only takes prompts out, and with one client none comes in. For this
`KeepElements` is needed in full: the filter keeps every entry that is asked for
(`NthInverse`: no two indices have as many entries up to them) and repeats none.

### TurnCaptureProofs

For all finite sets of turns and roots, all mutators, all lease sets and limits,
from `CaptureAssumption`. The properties speak of guards, receipts and decisions;
`IInv` ties them together:

- `EdgesCounted`, `LeasesFlagged`: the counter of a root is the number of edges on
  it and the flag is somebody's lease, which makes `NothingLeaks` and
  `LeasesExclude` inductive;
- `EdgesPlaced`, `IntervalsPlaced`: where in its capture a turn holds which edge
  and is registered on which roots;
- `LeasesSeen`, `WritesSeen`: a lease, and a write under it, that falls into a
  turn's interval has dirtied its receipt or moved a generation past its baseline;
- `EligibleDecided`: a set is eligible only after a clean final check.

`EligibleIsUnmutated` follows from the last three: whatever wrote the worktree is
seen by the check, and between the check and the decision the edge excludes
writers.

### DelegationRuntimeProofs

For all finite sets of children and workers, any number of turns and any limits,
from `BoundsAssumption` and `NoneAssumption`. `DeliveredOnce` counts deliveries;
that the count stays below two rests on who may still deliver:

- `GuardTaken`, `GuardAlone` (`OneFinalizer`): `FinalizeGuard` has one holder, be
  it a hook, the watchdog, a failed launch, the start of a proposal or a
  cancellation;
- `LaunchRow`, `SettledRow`, `FinalRow`: a row that is being launched is not
  settled yet, one that is being settled has given no final result, and a final
  result is given only for a row that stays terminal, so that a second finalizer
  which enters later turns back;
- `JobCarries`, `ReportedFirst`, `HooksOfTurns`: a task reports a turn after it
  ended and delivers it after the report was recorded, which is what stops the
  hook of an earlier turn from delivering the report of a later one again;
- `ClaimedOnce`: what a waiter has in its slot or on its way, the parent has not;
- `SilencedRow`: a cancelled running row is in nobody's hands
  (`CancelledChildrenAreSilent`).

The workers of the model are a set of any size, so the theorems cover any number
of concurrent hooks. What a settlement reads is an `IF`, not a `CASE`, in
`SettleRead`: a `CASE` whose guards overlap denotes an arbitrary one of its
branches, and the order of the code's tests would have been lost.

### TurnLifecycleProofs

From `LifecycleConstants`, in three layers.

1. `IInv`, for any senders, resumers, aborters, turns and bindings, with a store
   that may refuse every write, and a process that may die anywhere. `Places` says
   who runs which code; `Known` that every turn anybody names was started;
   `Locked`, `TokensHeld` and `ClaimsHeld` who holds the transition, a terminal
   token and a claim, in both directions; `Committed` that a tombstone repeats the
   terminal row; `TokenOfTurn` that a token is out for the turn its binding
   carries. It gives `LifecycleTypeCorrect`, `NoGuardLeaks`,
   `PromptGoesToPreparedBinding`, `TokensPinTurns` and `FirstTerminalRowStays`.
2. `QuietInv`, under `Aborters = {}` (nobody calls `abort_run`). `OpenIsActive`: the
   open turn is the one the projection shows; `SoleOwner`: it is in one task's
   hands; `SentOpen`, `AnswerDue`, `ReadOpen`, `EndingBound`: from the send over the
   provider to the bridge, the turn that is answered is the one the binding
   carries, is open, and is bound to the session; `Evidence`: a completed turn was
   completed by its provider. It gives `OneTurnAtATime`, `CompletedTurnsWereDone` and
   `RestartEndsTurns`. The hypothesis is the one of the run `lifecycle_ends`, and
   the proofs show that a faulty store does not matter to them. `RestartEndsTurns`
   is the property the run `lifecycle_restart` violates with an aborter: it is
   `abort_run`, which saves the row as aborted while the turn is open, and nothing
   else, that hides a turn from the recovery.
3. `Attended`, under `Aborters = {}` and `~StoreFaults`: `OpenTurnsAreAttended`. A
   refused append of the terminal row leaves an open turn to nobody, so the second
   hypothesis is needed.

The proofs follow one layout: a `...Moves` lemma lists where each action takes its
task, a `...Does` lemma what it does to the shared state, `Calm` steps leave the
open turns and the bindings alone; each part of the invariant is then shown from
those tables instead of the actions.

### GuardedUndoProofs

For any number of turns and any manifests, and for any number of operations,
crashes, refused writes and edits of other programs (the bounds `MaxOps`,
`MaxEdits`, `MaxFaults`, `MaxCrashes` are arbitrary numbers), from
`UndoAssumption` and `NoneAssumption`. Two modules.

`GuardedUndoEffects` defines the invariant `IInv` and the eleven things a step can
do to workspace and journal (`Effect`: move an operation, mark a row, name a staged
file, create, fill, swap or remove a sibling, finish a cleanup, begin an operation,
a foreign write, or nothing). `Effects` reduces every action to one of them; the
parts of the invariant that are about files, rows and restore sets are shown from
the effects alone:

- `FilesFollow`, `OnePerSet`, `CleanedUp`: how far the rows of an operation in each
  state are, that an active operation is alone on its unconsumed set, that an
  operation whose cleanup is done has no sibling;
- `Chained`, `Alone`: an operation began after every newer turn on its paths had been
  undone, so two operations that share a path take turns. `NewerUndone` is the
  reason: `ExpectedResult` accepts a file only if it is the one the turn left or one
  a completed undo installed, and the bytes tell which undo that must be
  (`NextToucher`: no turn lies between two whose result and preimage agree);
- `Identities`, `Named`, `StagedOnce`, `PlannedApart`, `BaseInstalled`: a staged file
  has an identity of its own until it is installed, so it is never mistaken for what
  the turn or another program left. Without them a rollback could take a foreign
  file for the staged one, and `NoFileIsLost` is not inductive;
- `Outcome`: a path of a completed operation that nobody wrote since (`Calm`) holds
  the preimage, one of an operation that is preparing or was rolled back holds the
  file it had.

`GuardedUndoProofs` shows that each step of a call keeps what the call relies on at
the line it has reached: `Places`, `JournalAt` (the state the call believes in is
the journal's, up to one refused write during recovery), `Verified`, `SiblingsGo`,
`SiblingsCome`, `OutcomeAt` (how many files are restored or taken back), and for
the loop of `recover_startup` `Visits` and `Settled` (with a store that takes its
writes, an active operation is the running call's, still to be visited, or left to
a person). The theorems are `UndoTypes`, `FilesAreKept`, `UndoIsAllOrNothing`,
`SiblingsAreAttended`, `TurnsAreUndoneInOrder` and `IdleMeansSettled`; only the last
assumes a working store (`faults = 0`, part of the property).

### Only model-checked

Liveness: `FollowersGetOut`, `EveryTurnEnds`, `RecoveryEnds`, `CaptureEnds` and
`SettlesEventually`. Every invariant and action property of a passing run is a
theorem.

## 5. Plan

1. Proofs: the abstract specifications of item 4, which the invariants of section 4
   prepare.
2. `TurnLifecycle`: steering, closing, plan approval, usage-limit endings; that a
   session left on a dead binding recovers; `TurnQueue` composed with it.
3. New modules, in this order: workspace deletion, usage-limit resume and
   objective budget, remote channel and pairing, AI-memory outbox, provider
   availability, keep-awake.
4. Abstract specifications worth stating: `TurnLifecycle` implements
   `TurnOutcome` for its turns when nobody aborts; the queue implements a FIFO
   with removal when one client works at a time; guarded undo implements an
   atomic swap of a set of files.
