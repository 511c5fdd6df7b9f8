---------------------------- MODULE TurnCapture ----------------------------
(***************************************************************************)
(* Capture of a turn's restore set (capture_v2_service.rs) under the       *)
(* workspace mutation coordinator (coordinator.rs).                        *)
(*                                                                         *)
(* A turn registers an interval on its physical roots, reads its baseline  *)
(* under a shared capture edge, runs its provider, and at its end reads    *)
(* the result under an edge again and decides whether the set is eligible  *)
(* for guarded undo.  Every other change DCC makes takes an exclusive      *)
(* lease, which dirties the receipts of the intervals it meets and moves   *)
(* the generations.  Each critical section of the coordinator, each        *)
(* database write and each round of file reads is a step.                  *)
(*                                                                         *)
(* A RootEntry that is not in the map is one with nothing active, so       *)
(* removing an idle entry changes nothing here; the generations survive it.*)
(***************************************************************************)
EXTENDS Integers, FiniteSets

CONSTANTS Turns, Mutators, Roots,
          Worktree,           \* Worktree[t]: the worktree root of turn t
          GitRoots,           \* GitRoots[t]: its Git directory and common directory
          LeaseRoots,         \* the sets of roots a DCC mutation asks for
          MaxGeneration,      \* the last u64
          MaxRootGenerations, \* MAX_RETAINED_ROOT_GENERATIONS
          MaxRestarts         \* bound of the exploration

ASSUME CaptureAssumption ==
    /\ IsFiniteSet(Turns) /\ IsFiniteSet(Roots)
    /\ Worktree \in [Turns -> Roots] /\ GitRoots \in [Turns -> SUBSET Roots]
    /\ LeaseRoots \subseteq SUBSET Roots
    /\ MaxGeneration \in Nat /\ MaxRootGenerations \in Nat /\ MaxRestarts \in Nat

VARIABLES
    mutationActive, captureEdges, activeTurns,  \* the RootEntry of every root
    generations, retained,   \* the map of generations and its keys
    receipt,                 \* TurnReceiptState of a turn's interval
    baseline,                \* coordinated_generations of a turn's handle
    edge,                    \* the roots of the CaptureEdgeGuard a turn holds
    held,                    \* the roots of the MutationGuard a mutator holds
    pc, provider,            \* a turn's place in capture, and its provider
    restoreSet,              \* its row in dcc_turn_restore_sets; noneligible: ineligible or failed
    mutated,                 \* history: the roots mutators wrote from the baseline edge to the decision
    joined,                  \* history: the turns whose provider wrote the worktree between the two edges
    restarts

coordinator == <<mutationActive, captureEdges, activeTurns, generations, retained>>
history == <<mutated, joined>>
vars == <<coordinator, receipt, baseline, edge, held, pc, provider, restoreSet, history, restarts>>

Coordinated(t) == {Worktree[t]} \cup GitRoots[t]

Steps == {"new", "admitted", "conflict", "reading", "collecting", "failing", "unwind", "unwound", "bare",
          "captured", "finish", "checking", "results", "closing", "closed", "deciding",
          "reject", "rejected", "release", "over"}

Init ==
    /\ mutationActive = [r \in Roots |-> FALSE]
    /\ captureEdges = [r \in Roots |-> 0]
    /\ activeTurns = [r \in Roots |-> {}]
    /\ generations = [r \in Roots |-> 0] /\ retained = {}
    /\ receipt = [t \in Turns |-> "clean"]
    /\ baseline = [t \in Turns |-> [r \in Roots |-> 0]]
    /\ edge = [t \in Turns |-> {}] /\ held = [m \in Mutators |-> {}]
    /\ pc = [t \in Turns |-> "new"] /\ provider = [t \in Turns |-> "idle"]
    /\ restoreSet = [t \in Turns |-> "none"]
    /\ mutated = [t \in Turns |-> {}] /\ joined = [t \in Turns |-> {}]
    /\ restarts = 0

-----------------------------------------------------------------------------
(* The coordinator's critical sections.                                    *)

Goto(t, l) == pc' = [pc EXCEPT ![t] = l]
HasRoom(rs) == Cardinality(retained \cup rs) <= MaxRootGenerations
Receipts(rs) == UNION {activeTurns[r] : r \in rs}
Dirty(ts) == receipt' = [t \in Turns |-> IF t \in ts THEN "ineligible" ELSE receipt[t]]

(* Variant: the interval is only taken off the worktree root.              *)
EndWorktreeInterval(t) == activeTurns' = [activeTurns EXCEPT ![Worktree[t]] = @ \ {t}]

(* end_turn_intervals.                                                     *)
EndIntervals(t) ==
    activeTurns' = [r \in Roots |-> IF r \in Coordinated(t) THEN activeTurns[r] \ {t} ELSE activeTurns[r]]

(* CaptureEdgeGuard::drop.                                                 *)
DropEdge(t) ==
    /\ captureEdges' = [r \in Roots |-> IF r \in edge[t] THEN captureEdges[r] - 1 ELSE captureEdges[r]]
    /\ edge' = [edge EXCEPT ![t] = {}]

TakeEdge(t, rs) ==
    /\ captureEdges' = [r \in Roots |-> IF r \in rs THEN captureEdges[r] + 1 ELSE captureEdges[r]]
    /\ edge' = [edge EXCEPT ![t] = rs]
    /\ retained' = retained \cup rs

(* Variant: the overflow of a generation is not tested.                    *)
CanMutateUnbounded(rs) ==
    /\ \A r \in rs : ~mutationActive[r] /\ captureEdges[r] = 0
    /\ HasRoom(rs)

(* Variant: a mutation does not wait for the captures that are reading.    *)
CanMutateOverCapture(rs) ==
    /\ \A r \in rs : ~mutationActive[r] /\ generations[r] < MaxGeneration
    /\ HasRoom(rs)

(* try_acquire_mutations: all roots or none.                               *)
CanMutate(rs) ==
    /\ \A r \in rs : ~mutationActive[r] /\ captureEdges[r] = 0 /\ generations[r] < MaxGeneration
    /\ HasRoom(rs)

AcquireMutations(m, rs) ==
    /\ held[m] = {} /\ rs # {} /\ CanMutate(rs)
    /\ Dirty(Receipts(rs))
    /\ mutationActive' = [r \in Roots |-> r \in rs \/ mutationActive[r]]
    /\ generations' = [r \in Roots |-> IF r \in rs THEN generations[r] + 1 ELSE generations[r]]
    /\ retained' = retained \cup rs
    /\ held' = [held EXCEPT ![m] = rs]
    /\ UNCHANGED <<captureEdges, activeTurns, baseline, edge, pc, provider, restoreSet, history, restarts>>

ReleaseMutations(m) ==
    /\ held[m] # {}
    /\ mutationActive' = [r \in Roots |-> r \notin held[m] /\ mutationActive[r]]
    /\ held' = [held EXCEPT ![m] = {}]
    /\ UNCHANGED <<captureEdges, activeTurns, generations, retained, receipt, baseline, edge,
                   pc, provider, restoreSet, history, restarts>>

-----------------------------------------------------------------------------
(* CaptureV2Service::begin.                                                *)

(* Variant: only the worktree root is tested for an overlap.               *)
ConflictInWorktree(t) == activeTurns[Worktree[t]] # {} \/ mutationActive[Worktree[t]]

(* begin_turn_intervals: an interval that overlaps another one, or a       *)
(* mutation, is registered all the same and dirties everybody.             *)
Conflict(t) == \E r \in Coordinated(t) : activeTurns[r] # {} \/ mutationActive[r]

BeginIntervals(t) ==
    /\ pc[t] = "new"
    /\ \A r \in Coordinated(t) : captureEdges[r] = 0
    /\ HasRoom(Coordinated(t))
    /\ baseline' = [baseline EXCEPT ![t] = generations]
    /\ IF Conflict(t)
       THEN Dirty(Receipts(Coordinated(t)) \cup {t}) /\ Goto(t, "conflict")
       ELSE UNCHANGED receipt /\ Goto(t, "admitted")
    /\ activeTurns' = [r \in Roots |-> IF r \in Coordinated(t) THEN activeTurns[r] \cup {t} ELSE activeTurns[r]]
    /\ retained' = retained \cup Coordinated(t)
    /\ UNCHANGED <<mutationActive, captureEdges, generations, edge, held, provider, restoreSet, history, restarts>>

(* preflight_error: the terminal row is recorded, or cannot be, and the    *)
(* guards are dropped on the way out.                                      *)
Preflight(t) ==
    /\ Goto(t, "unwind")
    /\ restoreSet' = [restoreSet EXCEPT ![t] = "noneligible"] \/ UNCHANGED restoreSet

BeginRefused(t) ==
    /\ pc[t] = "new" /\ Preflight(t)
    /\ UNCHANGED <<coordinator, receipt, baseline, edge, held, provider, history, restarts>>

BeginConflict(t) ==
    /\ pc[t] = "conflict" /\ Preflight(t)
    /\ UNCHANGED <<coordinator, receipt, baseline, edge, held, provider, history, restarts>>

AcquireEdges(t) ==
    /\ pc[t] = "admitted"
    /\ \/ /\ \A r \in Coordinated(t) : ~mutationActive[r]
          /\ TakeEdge(t, Coordinated(t)) /\ Goto(t, "reading")
          /\ UNCHANGED restoreSet
       \/ /\ \E r \in Coordinated(t) : mutationActive[r]
          /\ Preflight(t) /\ UNCHANGED <<captureEdges, edge, retained>>
    /\ UNCHANGED <<mutationActive, activeTurns, generations, receipt, baseline, held, provider, history, restarts>>

(* The repository is inspected and the set created, or refused.            *)
CreateSet(t) ==
    /\ pc[t] = "reading"
    /\ \/ restoreSet' = [restoreSet EXCEPT ![t] = "collecting"] /\ Goto(t, "collecting")
       \/ Preflight(t)
    /\ UNCHANGED <<coordinator, receipt, baseline, edge, held, provider, history, restarts>>

(* The preimages are read and stored, and the edge is dropped.             *)
BaselineRead(t) ==
    /\ pc[t] = "collecting"
    /\ DropEdge(t) /\ Goto(t, "captured")
    /\ UNCHANGED <<mutationActive, activeTurns, generations, retained, receipt, baseline, held,
                   provider, restoreSet, history, restarts>>

(* fail_begin: the interval is finished, then the set fails.               *)
FailBegin(t) ==
    /\ pc[t] = "collecting"
    /\ EndIntervals(t) /\ Goto(t, "failing")
    /\ UNCHANGED <<mutationActive, captureEdges, generations, retained, receipt, baseline, edge, held,
                   provider, restoreSet, history, restarts>>

FailSet(t) ==
    /\ pc[t] = "failing"
    /\ restoreSet' = [restoreSet EXCEPT ![t] = "noneligible"] \/ UNCHANGED restoreSet
    /\ Goto(t, "unwind")
    /\ UNCHANGED <<coordinator, receipt, baseline, edge, held, provider, history, restarts>>

UnwindEdge(t) ==
    /\ pc[t] = "unwind"
    /\ DropEdge(t) /\ Goto(t, "unwound")
    /\ UNCHANGED <<mutationActive, activeTurns, generations, retained, receipt, baseline, held,
                   provider, restoreSet, history, restarts>>

(* TurnIntervalGuard::drop.                                                *)
UnwindInterval(t) ==
    /\ pc[t] = "unwound"
    /\ Dirty({t}) /\ EndIntervals(t) /\ Goto(t, "bare")
    /\ UNCHANGED <<mutationActive, captureEdges, generations, retained, baseline, edge, held,
                   provider, restoreSet, history, restarts>>

-----------------------------------------------------------------------------
(* The turn itself.  send_turn_with_state ignores how begin ended.         *)

Open(t) == pc[t] \in {"reading", "collecting", "captured", "finish", "checking", "results",
                      "closing", "closed", "deciding"}

Between(t) == Open(t) /\ pc[t] \notin {"closing", "closed", "deciding"}

StartProvider(t) ==
    /\ provider[t] = "idle" /\ pc[t] \in {"captured", "bare"}
    /\ provider' = [provider EXCEPT ![t] = "running"]
    /\ UNCHANGED <<coordinator, receipt, baseline, edge, held, pc, restoreSet, history, restarts>>

ProviderWrites(t) ==
    /\ provider[t] = "running"
    /\ joined' = [u \in Turns |-> IF u # t /\ Between(u) /\ Worktree[u] = Worktree[t]
                                  THEN joined[u] \cup {t} ELSE joined[u]]
    /\ UNCHANGED <<coordinator, receipt, baseline, edge, held, pc, provider, restoreSet, mutated, restarts>>

MutationWrites(m) ==
    /\ held[m] # {}
    /\ mutated' = [u \in Turns |-> IF Open(u) THEN mutated[u] \cup (held[m] \cap Coordinated(u)) ELSE mutated[u]]
    /\ UNCHANGED <<coordinator, receipt, baseline, edge, held, pc, provider, restoreSet, joined, restarts>>

(* complete_finalization after the terminal event: finish, or cancel and   *)
(* provider_failed, which only differ in the recorded state.               *)
TurnEnds(t) ==
    /\ provider[t] = "running"
    /\ provider' = [provider EXCEPT ![t] = "done"]
    /\ IF pc[t] = "captured" THEN Goto(t, "finish") \/ Goto(t, "reject") ELSE UNCHANGED pc
    /\ UNCHANGED <<coordinator, receipt, baseline, edge, held, restoreSet, history, restarts>>

-----------------------------------------------------------------------------
(* CaptureV2Service::finish_at.                                            *)

(* Variant: the end of the turn waits for the mutation instead.            *)
FinishEdgeWaits(t) ==
    /\ pc[t] = "finish" /\ ~mutationActive[Worktree[t]]
    /\ TakeEdge(t, {Worktree[t]}) /\ Goto(t, "checking")
    /\ UNCHANGED <<mutationActive, activeTurns, generations, receipt, baseline, held,
                   provider, restoreSet, history, restarts>>

FinishEdge(t) ==
    /\ pc[t] = "finish"
    /\ \/ /\ ~mutationActive[Worktree[t]]
          /\ TakeEdge(t, {Worktree[t]}) /\ Goto(t, "checking")
       \/ /\ mutationActive[Worktree[t]]
          /\ Goto(t, "reject") /\ UNCHANGED <<captureEdges, edge, retained>>
    /\ UNCHANGED <<mutationActive, activeTurns, generations, receipt, baseline, held,
                   provider, restoreSet, history, restarts>>

(* Variant: the result edge trusts the baseline edge.                      *)
CleanAlways(t) == TRUE

Clean(t) ==
    /\ receipt[t] = "clean"
    /\ \A r \in Coordinated(t) : generations[r] = baseline[t][r]

FinishCheck(t) ==
    /\ pc[t] = "checking"
    /\ (Clean(t) /\ Goto(t, "results")) \/ Goto(t, "reject")
    /\ UNCHANGED <<coordinator, receipt, baseline, edge, held, provider, restoreSet, history, restarts>>

ReadResults(t) ==
    /\ pc[t] = "results"
    /\ Goto(t, "closing") \/ Goto(t, "reject")
    /\ UNCHANGED <<coordinator, receipt, baseline, edge, held, provider, restoreSet, history, restarts>>

FinishInterval(t) ==
    /\ pc[t] = "closing"
    /\ EndIntervals(t) /\ Goto(t, "closed")
    /\ UNCHANGED <<mutationActive, captureEdges, generations, retained, receipt, baseline, edge, held,
                   provider, restoreSet, history, restarts>>

FinalCheck(t) ==
    /\ pc[t] = "closed"
    /\ Goto(t, IF Clean(t) THEN "deciding" ELSE "reject")
    /\ UNCHANGED <<coordinator, receipt, baseline, edge, held, provider, restoreSet, history, restarts>>

(* finalize_turn_restore_set, tried twice.                                 *)
FinalizeSet(t) ==
    /\ pc[t] = "deciding"
    /\ \/ restoreSet' = [restoreSet EXCEPT ![t] = "eligible"] /\ Goto(t, "release")
       \/ UNCHANGED restoreSet /\ Goto(t, "reject")
    /\ UNCHANGED <<coordinator, receipt, baseline, edge, held, provider, history, restarts>>

(* finalize_noneligible: interval, row, and the edge when finish returns.  *)
Reject(t) ==
    /\ pc[t] = "reject"
    /\ Dirty({t}) /\ EndIntervals(t) /\ Goto(t, "rejected")
    /\ UNCHANGED <<mutationActive, captureEdges, generations, retained, baseline, edge, held,
                   provider, restoreSet, history, restarts>>

RejectSet(t) ==
    /\ pc[t] = "rejected"
    /\ restoreSet' = [restoreSet EXCEPT ![t] = "noneligible"] \/ UNCHANGED restoreSet
    /\ Goto(t, "release")
    /\ UNCHANGED <<coordinator, receipt, baseline, edge, held, provider, history, restarts>>

ReleaseEdge(t) ==
    /\ pc[t] = "release"
    /\ DropEdge(t) /\ Goto(t, "over")
    /\ UNCHANGED <<mutationActive, activeTurns, generations, retained, receipt, baseline, held,
                   provider, restoreSet, history, restarts>>

-----------------------------------------------------------------------------
(* The process dies; recover_capture_v2_startup fails what was collecting. *)
Restart ==
    /\ restarts < MaxRestarts /\ restarts' = restarts + 1
    /\ mutationActive' = [r \in Roots |-> FALSE]
    /\ captureEdges' = [r \in Roots |-> 0]
    /\ activeTurns' = [r \in Roots |-> {}]
    /\ generations' = [r \in Roots |-> 0] /\ retained' = {}
    /\ edge' = [t \in Turns |-> {}] /\ held' = [m \in Mutators |-> {}]
    /\ pc' = [t \in Turns |-> IF pc[t] = "new" THEN "new" ELSE "over"]
    /\ provider' = [t \in Turns |-> IF pc[t] = "new" THEN "idle" ELSE "done"]
    /\ restoreSet' = [t \in Turns |-> IF restoreSet[t] = "collecting" THEN "noneligible" ELSE restoreSet[t]]
    /\ UNCHANGED <<receipt, baseline, history>>

Worker(t) ==
    \/ BeginConflict(t) \/ AcquireEdges(t) \/ CreateSet(t) \/ BaselineRead(t) \/ FailBegin(t)
    \/ FailSet(t) \/ UnwindEdge(t) \/ UnwindInterval(t)
    \/ FinishEdge(t) \/ FinishCheck(t) \/ ReadResults(t) \/ FinishInterval(t) \/ FinalCheck(t)
    \/ FinalizeSet(t) \/ Reject(t) \/ RejectSet(t) \/ ReleaseEdge(t)

Turn(t) ==
    \/ BeginIntervals(t) \/ BeginRefused(t) \/ Worker(t)
    \/ StartProvider(t) \/ ProviderWrites(t) \/ TurnEnds(t)

Mutator(m) ==
    \/ \E rs \in LeaseRoots : AcquireMutations(m, rs)
    \/ ReleaseMutations(m) \/ MutationWrites(m)

Next ==
    \/ \E t \in Turns : Turn(t)
    \/ \E m \in Mutators : Mutator(m)
    \/ Restart

Spec == Init /\ [][Next]_vars
FairSpec == Spec /\ \A t \in Turns : WF_vars(Worker(t)) /\ WF_vars(TurnEnds(t))

-----------------------------------------------------------------------------
(* Properties.                                                             *)

(* The types: the counters of a root never go below zero, a generation     *)
(* never passes the last u64 and the retained roots keep to their limit.   *)
TypeOK ==
    /\ mutationActive \in [Roots -> BOOLEAN]
    /\ captureEdges \in [Roots -> Nat]
    /\ activeTurns \in [Roots -> SUBSET Turns]
    /\ generations \in [Roots -> 0..MaxGeneration]
    /\ retained \in SUBSET Roots /\ Cardinality(retained) <= MaxRootGenerations
    /\ receipt \in [Turns -> {"clean", "ineligible"}]
    /\ baseline \in [Turns -> [Roots -> Nat]]
    /\ edge \in [Turns -> SUBSET Roots] /\ held \in [Mutators -> SUBSET Roots]
    /\ pc \in [Turns -> Steps]
    /\ provider \in [Turns -> {"idle", "running", "done"}]
    /\ restoreSet \in [Turns -> {"none", "collecting", "eligible", "noneligible"}]
    /\ mutated \in [Turns -> SUBSET Roots] /\ joined \in [Turns -> SUBSET Turns]
    /\ restarts \in Nat

(* The shared and the exclusive leases exclude each other: while a capture *)
(* reads a root, nobody holds it for a mutation, and two mutations never   *)
(* hold the same root, whatever the order of acquisitions and drops.       *)
LeasesExclude ==
    /\ \A t \in Turns, m \in Mutators : edge[t] \cap held[m] = {}
    /\ \A m, n \in Mutators : m # n => held[m] \cap held[n] = {}

(* Every guard is released exactly once on every path: the flags, counters *)
(* and interval registries of a root name the guards that are alive.       *)
NothingLeaks ==
    \A r \in Roots :
        /\ mutationActive[r] <=> \E m \in Mutators : r \in held[m]
        /\ captureEdges[r] = Cardinality({t \in Turns : r \in edge[t]})
        /\ \A t \in activeTurns[r] : pc[t] \notin {"new", "bare", "closed", "deciding", "rejected", "release", "over"}

(* Two turns that are registered on one root at the same time are both     *)
(* dirty, whichever came first and through whichever root they met.        *)
OverlapDirtiesBoth ==
    \A r \in Roots : \A t, u \in activeTurns[r] :
        t # u => receipt[t] = "ineligible" /\ receipt[u] = "ineligible"

(* A set is only eligible when no DCC mutation wrote its worktree from the *)
(* baseline edge to the durable decision: no order of leases, intervals,   *)
(* checks and crashes hides one from the receipt and the generations.      *)
EligibleUnmutated ==
    \A t \in Turns : restoreSet[t] = "eligible" => Worktree[t] \notin mutated[t]

(* A capture that is being finished or unwound gives its edge and its      *)
(* interval back and stops collecting.                                     *)
Ending(t) == pc[t] \in {"finish", "checking", "results", "closing", "closed", "deciding", "reject",
                        "rejected", "release", "unwind", "unwound", "failing", "conflict"}
Released(t) == edge[t] = {} /\ \A r \in Roots : t \notin activeTurns[r]
CaptureEnds == \A t \in Turns : Ending(t) ~> Released(t)

(* GUARDED_UNDO_DESIGN.md: a second known DCC turn on the same physical    *)
(* root overlaps the first and the affected set must become ineligible.    *)
EligibleIsAlone ==
    \A t \in Turns : restoreSet[t] = "eligible" => joined[t] = {}
=============================================================================
