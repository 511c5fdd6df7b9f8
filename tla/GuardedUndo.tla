---------------------------- MODULE GuardedUndo ----------------------------
(***************************************************************************)
(* Guarded undo: RestoreService (restore_service.rs) puts the preimages of *)
(* a turn back by exchanging each target with a staged sibling, under a    *)
(* durable journal (db.rs) that start-up recovery replays after a crash.   *)
(*                                                                         *)
(* Every database transaction and every file-system call is a step of its  *)
(* own; between two of them the process may crash and another program may  *)
(* rewrite a target or move the Git HEAD.  A file is its bytes and its     *)
(* physical identity.  Turn s changed the bytes of a path from Pre(s, p)   *)
(* to Post(s, p); restore set s can put the first back.                    *)
(***************************************************************************)
EXTENDS Integers, Sequences, FiniteSets, FiniteSetsExt

CONSTANTS Sets,        \* the number of restore sets; Sets is the newest turn
          Manifest,    \* Manifest[s]: the paths turn s changed, in manifest order
          MaxOps, MaxEdits, MaxFaults, MaxCrashes,   \* bounds of the exploration
          None

Paths == UNION {{Manifest[s][i] : i \in DOMAIN Manifest[s]} : s \in 1..Sets}

ASSUME UndoAssumption ==
    /\ Sets \in Nat \ {0}
    /\ \A s \in 1..Sets : /\ Manifest[s] \in Seq(Paths) \ {<<>>}
                          /\ \A i, j \in DOMAIN Manifest[s] : Manifest[s][i] = Manifest[s][j] => i = j
    /\ {MaxOps, MaxEdits, MaxFaults, MaxCrashes} \subseteq Nat

FileType == [bytes : Int, id : Nat]
ASSUME NoneAssumption == None \notin FileType

VARIABLES
    target,      \* path -> the file at the path
    sibling,     \* sibling[o][i]: the file at the exchange locator of file i of operation o
    ops,         \* dcc_undo_operations with their dcc_undo_operation_files, oldest first
    setState,    \* dcc_turn_restore_sets.state
    gitSame,     \* the repository is in the state the sets captured
    token,       \* the workspace's prepared token, or None
    pc, cur, idx, known,   \* the running call: its step, operation, file and operation_state
    phase, todo, \* "serving", or the loop of recover_startup and what it still has to visit
    nextId,      \* fresh physical identities
    base,        \* history: the last file somebody other than the newest operation left at a path
    edits, faults, crashes

fs == <<target, sibling, nextId>>
db == <<ops, setState>>
world == <<gitSame, base, edits, crashes>>
loop == <<phase, todo>>
vars == <<fs, db, token, pc, cur, idx, known, loop, world, faults>>

Foreign == -1     \* bytes of another program
Partial == -2     \* a sibling whose bytes are not all written yet

Touches(s, p) == \E i \in DOMAIN Manifest[s] : Manifest[s][i] = p
Pre(s, p) == Cardinality({r \in 1..Sets : r < s /\ Touches(r, p)})
Post(s, p) == Pre(s, p) + 1
File(b, id) == [bytes |-> b, id |-> id]
TurnResult(s, p) == File(Post(s, p), s)      \* metadata_fingerprint: the file turn s left

OpStates == {"preparing", "prepared", "applying", "verifying", "completed",
             "rolling_back", "rolled_back", "recovery_required"}
FileStates == {"planned", "staged", "applied", "verified", "rolled_back", "recovery_required"}
Active(o) == ops[o].state \notin {"completed", "rolled_back"}
OpIds == 1..Len(ops)
PathOf(o, i) == Manifest[ops[o].set][i]
PreOf(o, i) == Pre(ops[o].set, PathOf(o, i))

Init ==
    /\ target = [p \in Paths |-> LET s == Max({r \in 1..Sets : Touches(r, p)}) IN TurnResult(s, p)]
    /\ base = target
    /\ sibling = <<>> /\ ops = <<>>
    /\ setState = [s \in 1..Sets |-> "eligible"]
    /\ gitSame = TRUE /\ token = None
    /\ pc = "idle" /\ cur = 0 /\ idx = 0 /\ known = None
    /\ phase = "serving" /\ todo = {}
    /\ nextId = Sets + 1
    /\ edits = 0 /\ faults = 0 /\ crashes = 0

-----------------------------------------------------------------------------
(* What the authority observes.                                            *)

PairIsUnapplied(o, i) ==
    LET f == ops[o].files[i]
    IN  /\ target[PathOf(o, i)] = f.expected
        /\ f.staged # None /\ sibling[o][i] = f.staged

PairIsApplied(o, i) ==
    LET f == ops[o].files[i]
    IN  /\ f.staged # None /\ target[PathOf(o, i)] = f.staged
        /\ sibling[o][i] = f.expected

(* expected_result: the file a target has to be, with the completed undo   *)
(* that installed it when it is not the one the turn left.                 *)
ChainSources(s, p, file) ==
    {o \in OpIds : /\ ops[o].state = "completed" /\ ops[o].set # s
                   /\ \E i \in DOMAIN ops[o].files : /\ PathOf(o, i) = p
                                                     /\ ops[o].files[i].state = "verified"
                                                     /\ ops[o].files[i].staged = file}

(* Variant: any file with the turn's bytes is taken for its result.        *)
ExpectedResultByPath(s, p, binding) == {[expected |-> target[p], from |-> 0]}

ExpectedResult(s, p, binding) ==
    IF target[p] = TurnResult(s, p) THEN {[expected |-> target[p], from |-> 0]}
    ELSE IF binding = "turn_result" \/ target[p].bytes # Post(s, p) THEN {}
    ELSE {[expected |-> target[p], from |-> o] : o \in ChainSources(s, p, target[p])}

-----------------------------------------------------------------------------
(* Steps of the running call.                                              *)

Fault == faults < MaxFaults /\ faults' = faults + 1
NoFault == UNCHANGED faults
Goto(l) == pc' = l /\ UNCHANGED <<cur, idx, known, loop>>
GotoFile(l, i) == pc' = l /\ idx' = i /\ UNCHANGED <<cur, known, loop>>
GotoAs(l, st) == pc' = l /\ known' = st /\ UNCHANGED <<cur, idx, loop>>
Return == /\ pc' = IF phase = "serving" THEN "idle" ELSE "next"
          /\ cur' = 0 /\ idx' = 0 /\ known' = None
          /\ UNCHANGED loop

Files == ops[cur].files
Count == Len(Files)
Row == Files[idx]
Here == PathOf(cur, idx)
Locator == sibling[cur][idx]
SetOp(st) == ops' = [ops EXCEPT ![cur].state = st]
SetFile(st) == ops' = [ops EXCEPT ![cur].files[idx].state = st]
SetStaged(f) ==
    ops' = [ops EXCEPT ![cur].files[idx].state = "staged", ![cur].files[idx].staged = f]
ClearCleanup == ops' = [ops EXCEPT ![cur].cleanup = FALSE]
SetLocator(f) == sibling' = [sibling EXCEPT ![cur][idx] = f]

(* transition_undo_operation: compare-and-swap with the completeness tests *)
(* of prepared, completed and rolled_back.                                 *)
AllFiles(st) == \A i \in 1..Count : Files[i].state = st
CanMove(from, to) ==
    /\ ops[cur].state = from
    /\ to = "prepared" => AllFiles("staged")
    /\ to = "completed" => AllFiles("verified")
    /\ to = "rolled_back" => AllFiles("rolled_back")
    /\ to = "recovery_required" => from \notin {"completed", "rolled_back", "recovery_required"}

(* One CAS of the journal: the code goes on at ok or, when the CAS is      *)
(* refused or the database fails, at the error exit.                       *)
Move(at, from, to, ok, error) ==
    /\ pc = at
    /\ \/ CanMove(from, to) /\ NoFault /\ SetOp(to) /\ ok
       \/ ~CanMove(from, to) /\ NoFault /\ UNCHANGED ops /\ error
       \/ Fault /\ UNCHANGED ops /\ error
    /\ setState' = IF to = "completed" /\ ops'[cur].state = "completed"
                   THEN [setState EXCEPT ![ops[cur].set] = "consumed"] ELSE setState
    /\ UNCHANGED <<fs, token, world>>

RequireRecovery == Move("require", known, "recovery_required", Return, Return)

(* execute_at: stage every preimage next to its target.                    *)
StageCreate ==
    /\ pc = "stage"
    /\ \/ NoFault /\ SetLocator(File(Partial, nextId)) /\ nextId' = nextId + 1 /\ Goto("fill")
       \/ Fault /\ UNCHANGED <<sibling, nextId>> /\ Goto("abort")
    /\ UNCHANGED <<target, db, token, world>>

StageFill ==
    /\ pc = "fill"
    /\ \/ NoFault /\ SetLocator(File(PreOf(cur, idx), Locator.id)) /\ Goto("staged")
       \/ Fault /\ (SetLocator(None) \/ UNCHANGED sibling) /\ Goto("abort")
    /\ UNCHANGED <<target, nextId, db, token, world>>

StageCheck ==
    /\ pc = "staged"
    /\ \/ target[Here] = Row.expected /\ NoFault /\ UNCHANGED sibling /\ Goto("journal")
       \/ target[Here] # Row.expected /\ NoFault /\ SetLocator(None) /\ Goto("abort")
       \/ target[Here] # Row.expected /\ Fault /\ UNCHANGED sibling /\ Goto("abort")
    /\ UNCHANGED <<target, nextId, db, token, world>>

StageJournal ==
    /\ pc = "journal"
    /\ \/ /\ NoFault /\ SetStaged(Locator)
          /\ IF idx < Count THEN GotoFile("stage", idx + 1) ELSE Goto("prepared")
       \/ Fault /\ UNCHANGED ops /\ GotoAs("require", "preparing")
    /\ UNCHANGED <<fs, setState, token, world>>

ToPrepared == Move("prepared", "preparing", "prepared", Goto("applying"), GotoAs("require", "preparing"))
ToApplying == Move("applying", "prepared", "applying",
                   pc' = "apply" /\ idx' = 1 /\ known' = "applying" /\ UNCHANGED <<cur, loop>>,
                   GotoAs("require", "prepared"))

(* apply_one: the identities are read, then the names are swapped, then    *)
(* both sides are read again.                                              *)
ApplyCheck ==
    /\ pc = "apply"
    /\ Goto(IF PairIsUnapplied(cur, idx) THEN "swap" ELSE "rollback")
    /\ UNCHANGED <<fs, db, token, world, faults>>

(* Variant: the sibling is renamed over the target.                        *)
RenameOver == /\ target' = [target EXCEPT ![Here] = Locator]
              /\ SetLocator(None)

Exchange == /\ target' = [target EXCEPT ![Here] = Locator]
            /\ SetLocator(target[Here])

ApplySwap ==
    /\ pc = "swap"
    /\ \/ NoFault /\ Exchange /\ Goto("swapped")
       \/ Fault /\ (Exchange \/ UNCHANGED <<target, sibling>>) /\ Goto("rollback")
    /\ UNCHANGED <<nextId, db, token, world>>

ApplyVerify ==
    /\ pc = "swapped"
    /\ Goto(IF PairIsApplied(cur, idx) THEN "applied" ELSE "rollback")
    /\ UNCHANGED <<fs, db, token, world, faults>>

(* record_applied_verified, of execute_at and of recover_startup.  When it *)
(* fails there, the code still moves the journal to verifying.             *)
RecordFailed ==
    IF phase = "serving" THEN Goto("rollback")
    ELSE Goto(IF known = "applying" THEN "lost" ELSE "rollback")

RecordApplied ==
    /\ pc = "applied"
    /\ \/ Row.state = "staged" /\ NoFault /\ SetFile("applied") /\ Goto("verified")
       \/ Row.state # "staged" /\ NoFault /\ UNCHANGED ops /\ Goto("verified")
       \/ Row.state = "staged" /\ Fault /\ UNCHANGED ops /\ RecordFailed
    /\ UNCHANGED <<fs, setState, token, world>>

Recorded ==
    IF phase = "serving"
    THEN IF idx < Count THEN GotoFile("apply", idx + 1) ELSE Goto("git")
    ELSE IF idx < Count THEN GotoFile("applied", idx + 1)
         ELSE Goto(IF known = "applying" THEN "verifying" ELSE "completed")

RecordVerified ==
    /\ pc = "verified"
    /\ \/ Row.state = "applied" /\ NoFault /\ SetFile("verified") /\ Recorded
       \/ Row.state = "verified" /\ NoFault /\ UNCHANGED ops /\ Recorded
       \/ Row.state \notin {"applied", "verified"} /\ NoFault /\ UNCHANGED ops /\ RecordFailed
       \/ Row.state = "applied" /\ Fault /\ UNCHANGED ops /\ RecordFailed
    /\ UNCHANGED <<fs, setState, token, world>>

CheckGit ==
    /\ pc = "git"
    /\ Goto(IF gitSame THEN "verifying" ELSE "rollback")
    /\ UNCHANGED <<fs, db, token, world, faults>>

ToVerifying == Move("verifying", "applying", "verifying",
                    IF phase = "serving" THEN GotoAs("verify", "verifying") ELSE Goto("completed"),
                    Goto(IF phase = "serving" THEN "require" ELSE "rollback"))

LostVerifying == Move("lost", "applying", "verifying", Goto("rollback"), Goto("rollback"))

FinalVerify ==
    /\ pc = "verify"
    /\ Goto(IF gitSame /\ \A i \in 1..Count : PairIsApplied(cur, i) THEN "completed" ELSE "rollback")
    /\ UNCHANGED <<fs, db, token, world, faults>>

ToCompleted == Move("completed", "verifying", "completed",
                    IF phase = "serving" THEN GotoFile("cleanup", 1) ELSE Return,
                    Goto(IF phase = "serving" THEN "require" ELSE "rollback"))

(* cleanup_terminal: the siblings of a terminal operation are unlinked     *)
(* while each is exactly the file the journal says it is.                  *)
Leftover == IF ops[cur].state = "completed" THEN Row.expected ELSE Row.staged
Cleaned == IF idx < Count THEN GotoFile("cleanup", idx + 1) ELSE Goto("finish")

(* Variant: a sibling that could not be removed does not end the cleanup.  *)
CleanupGoesOn ==
    /\ pc = "cleanup"
    /\ \/ NoFault /\ Cleaned /\ IF Locator = Leftover THEN SetLocator(None) ELSE UNCHANGED sibling
       \/ Locator # None /\ Locator = Leftover /\ Fault /\ UNCHANGED sibling /\ Cleaned
    /\ UNCHANGED <<target, nextId, db, token, world>>

CleanupTerminal ==
    /\ pc = "cleanup"
    /\ \/ Locator = None /\ NoFault /\ UNCHANGED sibling /\ Cleaned
       \/ Locator # None /\ Locator = Leftover /\ NoFault /\ SetLocator(None) /\ Cleaned
       \/ Locator # None /\ Locator = Leftover /\ Fault /\ UNCHANGED sibling /\ Return
       \/ Locator # None /\ Locator # Leftover /\ NoFault /\ UNCHANGED sibling /\ Return
    /\ UNCHANGED <<target, nextId, db, token, world>>

FinishCleanup ==
    /\ pc = "finish"
    /\ \/ NoFault /\ ClearCleanup
       \/ Fault /\ UNCHANGED ops
    /\ Return
    /\ UNCHANGED <<fs, setState, token, world>>

(* rollback_operation: from the last file to the first, an applied pair is *)
(* exchanged back and every pair must then be unapplied.                   *)
Rollback ==
    /\ \/ Move("rollback", known, "rolling_back",
               pc' = "back" /\ idx' = Count /\ known' = "rolling_back" /\ UNCHANGED <<cur, loop>>,
               Goto("require")) /\ known # "rolling_back"
       \/ /\ pc = "rollback" /\ known = "rolling_back"
          /\ GotoFile("back", Count)
          /\ UNCHANGED <<fs, db, token, world, faults>>

(* Variant: an applied pair is marked rolled back and not exchanged back.  *)
RollbackForgetsExchange ==
    /\ pc = "back"
    /\ Goto(IF PairIsApplied(cur, idx) THEN "mark_back" ELSE "check_back")
    /\ UNCHANGED <<fs, db, token, world, faults>>

(* Variant: the pair is exchanged whatever state it is in.                 *)
RollbackExchangesAlways ==
    /\ pc = "back"
    /\ Goto("swap_back")
    /\ UNCHANGED <<fs, db, token, world, faults>>

RollbackCheck ==
    /\ pc = "back"
    /\ Goto(IF PairIsApplied(cur, idx) THEN "swap_back" ELSE "check_back")
    /\ UNCHANGED <<fs, db, token, world, faults>>

RollbackSwap ==
    /\ pc = "swap_back"
    /\ \/ NoFault /\ Exchange /\ Goto("swapped_back")
       \/ Fault /\ (Exchange \/ UNCHANGED <<target, sibling>>) /\ Goto("require")
    /\ UNCHANGED <<nextId, db, token, world>>

RollbackVerify ==
    /\ pc \in {"swapped_back", "check_back"}
    /\ Goto(IF ~PairIsUnapplied(cur, idx)
            THEN IF pc = "swapped_back" THEN "require" ELSE "mark"
            ELSE IF pc = "swapped_back" THEN "check_back" ELSE "mark_back")
    /\ UNCHANGED <<fs, db, token, world, faults>>

(* mark_file_rolled_back and what follows it in the three loops.           *)
MarkRolledBack(at, next) ==
    /\ pc = at
    /\ \/ Row.state # "recovery_required" /\ NoFault /\ SetFile("rolled_back") /\ next
       \/ Row.state = "recovery_required" /\ NoFault /\ UNCHANGED ops /\ Goto("require")
       \/ Row.state # "rolled_back" /\ Fault /\ UNCHANGED ops /\ Goto("require")
    /\ UNCHANGED <<fs, setState, token, world>>

RollbackMark ==
    MarkRolledBack("mark_back", IF idx > 1 THEN GotoFile("back", idx - 1) ELSE Goto("rolled_back"))

ToRolledBack == Move("rolled_back", "rolling_back", "rolled_back", GotoFile("cleanup", 1), Goto("require"))

(* mark_file_recovery, before require_recovery.                            *)
MarkRecovery ==
    /\ pc = "mark"
    /\ \/ NoFault /\ IF Row.state = "rolled_back" THEN UNCHANGED ops ELSE SetFile("recovery_required")
       \/ Fault /\ UNCHANGED ops
    /\ Goto("require")
    /\ UNCHANGED <<fs, setState, token, world>>

(* abort_preparing: a mismatch before the first exchange.                  *)
AbortPreparing == Move("abort", "preparing", "rolling_back",
                       pc' = "abort_file" /\ idx' = 1 /\ known' = "rolling_back" /\ UNCHANGED <<cur, loop>>,
                       GotoAs("require", "preparing"))

AbortFile ==
    /\ pc = "abort_file"
    /\ \/ Row.staged # None /\ Locator = Row.staged /\ NoFault /\ SetLocator(None)
       \/ (Row.staged = None \/ Locator # Row.staged) /\ NoFault /\ UNCHANGED sibling
       \/ Row.staged # None /\ Fault /\ UNCHANGED sibling
    /\ Goto("abort_mark")
    /\ UNCHANGED <<target, nextId, db, token, world>>

AbortMark ==
    MarkRolledBack("abort_mark", IF idx < Count THEN GotoFile("abort_file", idx + 1) ELSE Goto("rolled_back"))

-----------------------------------------------------------------------------
(* recover_startup: every active operation, then every pending cleanup.    *)

(* Variant: start-up only completes cleanups.                              *)
RecoverNextCleansOnly ==
    /\ pc = "next"
    /\ IF phase = "recovering"
       THEN /\ phase' = "cleaning" /\ pc' = "next"
            /\ todo' = {o \in OpIds : ~Active(o) /\ ops[o].cleanup}
       ELSE /\ todo = {} /\ phase' = "serving" /\ pc' = "idle" /\ todo' = {}
    /\ UNCHANGED <<fs, db, token, world, faults, cur, idx, known>>

RecoverNext ==
    /\ pc = "next" /\ todo = {}
    /\ IF phase = "recovering"
       THEN /\ phase' = "cleaning" /\ pc' = "next"
            /\ todo' = {o \in OpIds : ~Active(o) /\ ops[o].cleanup}
       ELSE phase' = "serving" /\ pc' = "idle" /\ todo' = {}
    /\ UNCHANGED <<fs, db, token, world, faults, cur, idx, known>>

(* Variant: an operation that was left to a person is visited again.       *)
VisitAgain(l, i, st) ==
    LET o == Min(todo)
    IN  /\ pc' = l /\ cur' = (IF l = "next" THEN 0 ELSE o) /\ idx' = i /\ known' = st
        /\ todo' = (IF l = "next" THEN todo ELSE todo \ {o}) /\ UNCHANGED phase

Visit(l, i, st) ==
    LET o == Min(todo)
    IN  /\ pc' = l /\ cur' = (IF l = "next" THEN 0 ELSE o) /\ idx' = i /\ known' = st
        /\ todo' = todo \ {o} /\ UNCHANGED phase

RecoverOperation ==
    /\ pc = "next" /\ phase = "recovering" /\ todo # {}
    /\ LET o == Min(todo)
           st == ops[o].state
           n == Len(ops[o].files)
       IN  \/ st = "recovery_required" /\ NoFault /\ Visit("next", 0, None)
           \/ st # "recovery_required" /\ Fault /\ Visit("require", 0, st)
           \/ st # "recovery_required" /\ ~gitSame /\ NoFault /\ Visit("require", 0, st)
           \/ st = "preparing" /\ gitSame /\ NoFault /\ Visit("recover_preparing", 0, st)
           \/ /\ st \in {"applying", "verifying"} /\ gitSame /\ NoFault
              /\ \A i \in 1..n : PairIsApplied(o, i)
              /\ Visit("applied", 1, st)
           \/ /\ st \in {"prepared", "applying", "verifying", "rolling_back"} /\ gitSame /\ NoFault
              /\ st = "prepared" => \A i \in 1..n : PairIsUnapplied(o, i)
              /\ st \in {"applying", "verifying"} => \E i \in 1..n : ~PairIsApplied(o, i)
              /\ Visit("rollback", 0, st)
           \/ /\ st = "prepared" /\ gitSame /\ NoFault
              /\ \E i \in 1..n : ~PairIsUnapplied(o, i)
              /\ Visit("require", 0, st)
    /\ UNCHANGED <<fs, db, token, world>>

RecoverCleanup ==
    /\ pc = "next" /\ phase = "cleaning" /\ todo # {}
    /\ \/ NoFault /\ Visit("cleanup", 1, None)
       \/ Fault /\ Visit("next", 0, None)
    /\ UNCHANGED <<fs, db, token, world>>

(* recover_preparing: no target was exchanged yet, the siblings go.        *)
RecoverPreparing == Move("recover_preparing", "preparing", "rolling_back",
                         pc' = "unstage" /\ idx' = 1 /\ known' = "rolling_back" /\ UNCHANGED <<cur, loop>>,
                         GotoAs("require", "preparing"))

Removable == \/ Row.state = "planned" /\ Locator # None /\ Locator.bytes = PreOf(cur, idx)
             \/ Row.state = "staged" /\ PairIsUnapplied(cur, idx)

RecoverUnstage ==
    /\ pc = "unstage"
    /\ \/ Removable /\ NoFault /\ SetLocator(None) /\ Goto("unstage_mark")
       \/ Removable /\ Fault /\ UNCHANGED sibling /\ Goto("require")
       \/ Row.state = "planned" /\ Locator = None /\ NoFault /\ UNCHANGED sibling /\ Goto("unstage_mark")
       \/ /\ ~Removable /\ ~(Row.state = "planned" /\ Locator = None) /\ NoFault
          /\ UNCHANGED sibling /\ Goto("mark")
    /\ UNCHANGED <<target, nextId, db, token, world>>

RecoverUnstageMark ==
    MarkRolledBack("unstage_mark", IF idx < Count THEN GotoFile("unstage", idx + 1) ELSE Goto("unstaged"))

RecoverUnstaged == Move("unstaged", "rolling_back", "rolled_back", Goto("finish"), Goto("require"))

-----------------------------------------------------------------------------
(* The commands, the other programs and the crash.                         *)

(* load_preparable and prepare_at: the workspace's earlier token goes.     *)
Preparable(s) ==
    /\ setState[s] = "eligible"
    /\ \A o \in OpIds : ops[o].set = s => ~Active(o) /\ ~ops[o].cleanup

Prepare(s, binding) ==
    /\ pc = "idle" /\ Preparable(s) /\ gitSame
    /\ \E want \in [DOMAIN Manifest[s] -> UNION {ExpectedResult(s, p, binding) : p \in Paths}] :
          /\ \A i \in DOMAIN Manifest[s] : want[i] \in ExpectedResult(s, Manifest[s][i], binding)
          /\ token' = [set |-> s, binding |-> binding, want |-> want, fresh |-> TRUE]
    /\ UNCHANGED <<fs, db, pc, cur, idx, known, loop, world, faults>>

(* execute_at up to create_undo_operation.  The token is gone whatever     *)
(* happens; fresh stands for the coordinator generations being the         *)
(* prepared ones plus this call's own.                                     *)
StillPrepared ==
    /\ setState[token.set] = "eligible" /\ token.fresh /\ gitSame
    /\ \A i \in DOMAIN token.want :
          token.want[i] \in ExpectedResult(token.set, Manifest[token.set][i], token.binding)
    /\ \A o \in OpIds : ops[o].set = token.set => ~Active(o)

NewOperation ==
    [set |-> token.set, state |-> "preparing", cleanup |-> TRUE,
     files |-> [i \in DOMAIN token.want |->
                   [state |-> "planned", staged |-> None,
                    expected |-> token.want[i].expected, from |-> token.want[i].from]]]

Execute ==
    /\ pc = "idle" /\ token # None /\ StillPrepared /\ Len(ops) < MaxOps
    /\ ops' = Append(ops, NewOperation)
    /\ sibling' = Append(sibling, [i \in DOMAIN token.want |-> None])
    /\ base' = [p \in Paths |-> IF Touches(token.set, p) THEN target[p] ELSE base[p]]
    /\ pc' = "stage" /\ cur' = Len(ops) + 1 /\ idx' = 1 /\ known' = "preparing"
    /\ token' = None
    /\ UNCHANGED <<target, nextId, setState, gitSame, loop, edits, faults, crashes>>

(* Not confirmed, expired, or changed since the preview; or the journal    *)
(* cannot be written.                                                      *)
ExecuteBlocked ==
    /\ pc = "idle" /\ token # None
    /\ token' = None
    /\ UNCHANGED <<fs, db, pc, cur, idx, known, loop, world, faults>>

NewContents(p) == {f \in [bytes : {Foreign, target[p].bytes}, id : {nextId, target[p].id}] : f # target[p]}

Put(p) == /\ edits < MaxEdits /\ edits' = edits + 1
          /\ \E f \in NewContents(p) : /\ target' = [target EXCEPT ![p] = f]
                                       /\ base' = [base EXCEPT ![p] = f]
          /\ nextId' = nextId + 1
          /\ UNCHANGED <<sibling, db, pc, cur, idx, known, loop, gitSame, crashes, faults>>

(* Another program writes the file, at any time and under no lease.        *)
ExternalEdit(p) == Put(p) /\ UNCHANGED token

(* A mutation of this application holds the exclusive lease and so moves   *)
(* the generation.                                                         *)
AppMutation(p) ==
    /\ pc = "idle" /\ Put(p)
    /\ token' = IF token = None THEN None ELSE [token EXCEPT !.fresh = FALSE]

ExternalGit ==
    /\ edits < MaxEdits /\ edits' = edits + 1
    /\ gitSame' = ~gitSame
    /\ UNCHANGED <<fs, db, token, pc, cur, idx, known, loop, base, crashes, faults>>

Crash ==
    /\ crashes < MaxCrashes /\ crashes' = crashes + 1
    /\ token' = None /\ pc' = "next" /\ cur' = 0 /\ idx' = 0 /\ known' = None
    /\ phase' = "recovering" /\ todo' = {o \in OpIds : Active(o)}
    /\ UNCHANGED <<fs, db, gitSame, base, edits, faults>>

Step ==
    \/ RequireRecovery \/ StageCreate \/ StageFill \/ StageCheck \/ StageJournal
    \/ ToPrepared \/ ToApplying \/ ApplyCheck \/ ApplySwap \/ ApplyVerify
    \/ RecordApplied \/ RecordVerified \/ CheckGit \/ ToVerifying \/ LostVerifying
    \/ FinalVerify \/ ToCompleted \/ CleanupTerminal \/ FinishCleanup
    \/ Rollback \/ RollbackCheck \/ RollbackSwap \/ RollbackVerify \/ RollbackMark \/ ToRolledBack
    \/ MarkRecovery \/ AbortPreparing \/ AbortFile \/ AbortMark
    \/ RecoverNext \/ RecoverOperation \/ RecoverCleanup \/ RecoverPreparing
    \/ RecoverUnstage \/ RecoverUnstageMark \/ RecoverUnstaged

Next ==
    \/ Step
    \/ \E s \in 1..Sets, b \in {"turn_result", "after_completed_undo"} : Prepare(s, b)
    \/ Execute \/ ExecuteBlocked
    \/ \E p \in Paths : ExternalEdit(p) \/ AppMutation(p)
    \/ ExternalGit \/ Crash

Spec == Init /\ [][Next]_vars
FairSpec == Spec /\ WF_vars(Step)

-----------------------------------------------------------------------------
(* Properties.                                                             *)

Wants == [expected : FileType, from : Nat]
Tokens == [set : 1..Sets, binding : {"turn_result", "after_completed_undo"},
           want : Seq(Wants), fresh : BOOLEAN]
FileRows == [state : FileStates, staged : FileType \cup {None}, expected : FileType, from : Nat]
OpRows == [set : 1..Sets, state : OpStates, cleanup : BOOLEAN, files : Seq(FileRows)]

WorkspaceTyped ==
    /\ target \in [Paths -> FileType] /\ base \in [Paths -> FileType]
    /\ sibling \in Seq(Seq(FileType \cup {None})) /\ Len(sibling) = Len(ops)
    /\ \A o \in OpIds : Len(sibling[o]) = Len(Manifest[ops[o].set])
    /\ nextId \in Nat /\ gitSame \in BOOLEAN
JournalTyped ==
    /\ ops \in Seq(OpRows)
    /\ \A o \in OpIds : Len(ops[o].files) = Len(Manifest[ops[o].set])
    /\ setState \in [1..Sets -> {"eligible", "consumed"}]
CallTyped ==
    /\ cur \in 0..Len(ops) /\ idx \in Nat /\ known \in OpStates \cup {None}
    /\ phase \in {"serving", "recovering", "cleaning"} /\ todo \subseteq OpIds
    /\ token \in Tokens \cup {None}
    /\ token # None => Len(token.want) = Len(Manifest[token.set])
    /\ edits \in Nat /\ faults \in Nat /\ crashes \in Nat

(* The types: a journal row keeps one of its states, one file record and   *)
(* one exchange locator for every path of its manifest.                    *)
TypeOK == WorkspaceTyped /\ JournalTyped /\ CallTyped

(* File f still exists, at path p or at one of its exchange locators.      *)
Kept(p, f) ==
    \/ target[p] = f
    \/ \E o \in OpIds : \E i \in DOMAIN sibling[o] : PathOf(o, i) = p /\ sibling[o][i] = f

(* No interleaving of an undo, its rollback, its recovery and its cleanup  *)
(* with a crash or with another program's write destroys a file: what was  *)
(* at a path is still there or at an exchange locator, unless a completed  *)
(* undo named exactly that file as the one it replaces.                    *)
NoFileIsLost ==
    \A p \in Paths :
        \/ Kept(p, base[p])
        \/ \E o \in OpIds : /\ ops[o].state = "completed"
                            /\ \E i \in DOMAIN ops[o].files : /\ PathOf(o, i) = p
                                                              /\ ops[o].files[i].expected = base[p]

(* All or nothing: once the newest operation is terminal, every path that  *)
(* nobody else wrote meanwhile holds the staged preimage when it completed *)
(* and the file it held before when it was rolled back.                    *)
AllOrNothing ==
    Len(ops) > 0 =>
        LET o == Len(ops)
        IN  \A i \in DOMAIN ops[o].files :
               LET p == PathOf(o, i)
                   f == ops[o].files[i]
               IN  base[p] = f.expected =>
                      /\ ops[o].state = "completed" => target[p] = f.staged /\ f.staged.bytes = PreOf(o, i)
                      /\ ops[o].state = "rolled_back" => target[p] = f.expected

(* Nothing is left behind that no later start-up will look at: a sibling   *)
(* in the workspace belongs to an operation that is active or has its      *)
(* cleanup pending.                                                        *)
NoOrphanSibling ==
    \A o \in OpIds : \A i \in DOMAIN sibling[o] :
        sibling[o][i] # None => Active(o) \/ ops[o].cleanup

(* A turn is undone at most once, its set is consumed exactly when it is,  *)
(* and an older turn only after every newer turn that changed a path of    *)
(* it: an undo never puts an old preimage over a newer turn's result.      *)
UndoneInOrder ==
    \A o \in OpIds : ops[o].state = "completed" =>
        /\ setState[ops[o].set] = "consumed"
        /\ \A x \in OpIds : x # o /\ ops[x].set = ops[o].set => ops[x].state # "completed"
        /\ \A r \in 1..Sets : \A i \in DOMAIN ops[o].files :
              r > ops[o].set /\ Touches(r, PathOf(o, i)) =>
                 \E x \in 1..(o - 1) : ops[x].set = r /\ ops[x].state = "completed"

(* When the service is idle and the store never failed, no operation is    *)
(* left in flight: each has completed, was rolled back or waits for manual *)
(* recovery.                                                               *)
NothingInFlight ==
    pc = "idle" /\ faults = 0 =>
        \A o \in OpIds : ops[o].state \in {"completed", "rolled_back", "recovery_required"}

(* recover_startup always comes to its end and the service serves again.   *)
RecoveryEnds == (phase = "recovering") ~> (phase = "serving")
=============================================================================
