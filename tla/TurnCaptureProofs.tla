------------------------- MODULE TurnCaptureProofs -------------------------
(***************************************************************************)
(* TurnCapture for every set of turns, mutators and roots: the leases      *)
(* exclude each other, no guard leaks, overlapping turns are both dirty,   *)
(* and an eligible set's worktree was not mutated.                         *)
(***************************************************************************)
EXTENDS TurnCapture, FiniteSetTheorems, TLAPS

(* A turn whose interval is registered and whose capture may succeed.      *)
Live == {"admitted", "reading", "collecting", "captured", "finish", "checking", "results", "closing"}

(* The counters agree with the guards.                                     *)
Holders(e, r) == {t \in Turns : r \in e[t]}
EdgesCounted == \A r \in Roots : captureEdges[r] = Cardinality(Holders(edge, r))
LeasesFlagged == \A r \in Roots : mutationActive[r] <=> \E m \in Mutators : r \in held[m]

(* Where an edge is held and where it is not.                              *)
EdgesPlaced ==
    \A t \in Turns :
        /\ pc[t] \in {"new", "admitted", "conflict", "unwound", "bare", "captured", "finish", "over"} => edge[t] = {}
        /\ pc[t] \in {"closing", "closed", "deciding", "checking", "results"} => Worktree[t] \in edge[t]

(* Where an interval is registered.                                        *)
IntervalsPlaced ==
    \A t \in Turns : \A r \in Roots :
        /\ t \in activeTurns[r] => /\ r \in Coordinated(t) /\ r \in retained
                                  /\ pc[t] \in Live \cup {"conflict", "unwind", "unwound", "reject"}
        /\ pc[t] \in Live /\ r \in Coordinated(t) => t \in activeTurns[r]

(* A live turn that a lease has met is dirty.                              *)
LeasesSeen ==
    \A t \in Turns, m \in Mutators :
        pc[t] \in Live /\ held[m] \cap Coordinated(t) # {} => receipt[t] = "ineligible"

(* What was written behind the worktree of an open capture is known.       *)
WritesSeen ==
    \A t \in Turns :
        /\ pc[t] \in {"new", "admitted", "conflict"} => mutated[t] = {}
        /\ Open(t) /\ Worktree[t] \in mutated[t] => receipt[t] = "ineligible"
        /\ pc[t] = "deciding" => Worktree[t] \notin mutated[t]

EligibleDecided ==
    \A t \in Turns : restoreSet[t] = "eligible" => pc[t] \in {"release", "over"} /\ Worktree[t] \notin mutated[t]

IInv ==
    /\ TypeOK /\ EdgesCounted /\ LeasesFlagged /\ EdgesPlaced /\ IntervalsPlaced
    /\ LeasesExclude /\ OverlapDirtiesBoth /\ LeasesSeen /\ WritesSeen /\ EligibleDecided

USE CaptureAssumption

LEMMA InvInit == Init => IInv
<1> SUFFICES ASSUME Init PROVE IInv
    OBVIOUS
<1>1. TypeOK
    BY FS_EmptySet DEF Init, TypeOK, Steps
<1>2. EdgesCounted
    <2>1. \A r \in Roots : Holders(edge, r) = {}
        BY DEF Init, Holders
    <2> QED
        BY <2>1, FS_EmptySet DEF Init, EdgesCounted
<1>3. LeasesFlagged /\ EdgesPlaced /\ LeasesExclude /\ OverlapDirtiesBoth /\ EligibleDecided
    BY DEF Init, LeasesFlagged, EdgesPlaced, LeasesExclude, OverlapDirtiesBoth, EligibleDecided
<1>4. IntervalsPlaced /\ LeasesSeen /\ WritesSeen
    BY DEF Init, IntervalsPlaced, LeasesSeen, WritesSeen, Live, Open
<1> QED
    BY <1>1, <1>2, <1>3, <1>4 DEF IInv

-----------------------------------------------------------------------------
(* The shapes of a turn's steps.                                           *)

(* A step that changes no guard: the turn moves on, its provider or its    *)
(* row may change.                                                         *)
LEMMA MoveKeepsInv ==
    ASSUME IInv, NEW t \in Turns, NEW l \in Steps,
           NEW s \in {"none", "collecting", "eligible", "noneligible"},
           pc' = [pc EXCEPT ![t] = l],
           restoreSet' = [restoreSet EXCEPT ![t] = s],
           provider' \in [Turns -> {"idle", "running", "done"}],
           UNCHANGED <<coordinator, receipt, baseline, edge, held, history, restarts>>,
           l \in {"collecting", "finish", "results", "closing"} => pc[t] \in Live,
           l \in {"collecting", "finish", "results", "closing", "unwind", "reject"}
              \/ pc[t] \in {"failing", "closed", "deciding", "rejected"},
           l \notin {"new", "admitted", "conflict", "reading", "captured", "checking", "closed",
                     "unwound", "bare", "over"},
           l = "finish" => pc[t] = "captured",
           l \in {"results", "closing", "deciding"} => pc[t] \in {"checking", "results", "closed"},
           l = "deciding" => receipt[t] = "clean",
           s = "eligible" => restoreSet[t] = "eligible" \/ (pc[t] = "deciding" /\ l = "release"),
           pc[t] \notin {"release", "over"}
    PROVE  IInv'
<1>1. TypeOK'
    BY DEF IInv, TypeOK, coordinator, history
<1>2. EdgesCounted' /\ LeasesFlagged' /\ LeasesExclude' /\ OverlapDirtiesBoth'
    BY DEF IInv, EdgesCounted, Holders, LeasesFlagged, LeasesExclude, OverlapDirtiesBoth, coordinator
<1>3. EdgesPlaced'
    BY DEF IInv, TypeOK, EdgesPlaced, Steps, Live
<1>4. IntervalsPlaced'
    BY DEF IInv, TypeOK, IntervalsPlaced, Steps, Live, coordinator, Coordinated
<1>5. LeasesSeen'
    BY DEF IInv, TypeOK, LeasesSeen, Steps, Live, Coordinated
<1>6. WritesSeen'
    BY DEF IInv, TypeOK, WritesSeen, Open, Steps, Live, history
<1>7. EligibleDecided'
    BY DEF IInv, TypeOK, EligibleDecided, WritesSeen, Steps, history
<1> QED
    BY <1>1, <1>2, <1>3, <1>4, <1>5, <1>6, <1>7 DEF IInv

(* What one guard more or less does to the counters.                       *)
LEMMA EdgeCount ==
    ASSUME NEW r \in Roots, NEW t \in Turns,
           \A u \in Turns : u # t => edge'[u] = edge[u]
    PROVE  /\ Cardinality(Holders(edge, r)) \in Nat /\ Cardinality(Holders(edge', r)) \in Nat
           /\ r \notin edge[t] /\ r \in edge'[t] => Cardinality(Holders(edge', r)) = Cardinality(Holders(edge, r)) + 1
           /\ r \in edge[t] /\ r \notin edge'[t] => Cardinality(Holders(edge', r)) = Cardinality(Holders(edge, r)) - 1
           /\ (r \in edge[t] <=> r \in edge'[t]) => Cardinality(Holders(edge', r)) = Cardinality(Holders(edge, r))
<1> DEFINE E == Holders(edge, r)
           F == Holders(edge', r)
<1>1. IsFiniteSet(E) /\ IsFiniteSet(F)
    <2>1. E \subseteq Turns /\ F \subseteq Turns
        BY DEF Holders
    <2> QED
        BY <2>1, FS_Subset
<1>2. Cardinality(E) \in Nat /\ Cardinality(F) \in Nat
    BY <1>1, FS_CardinalityType
<1>3. ASSUME r \notin edge[t], r \in edge'[t]
      PROVE  Cardinality(F) = Cardinality(E) + 1
    <2>1. F = E \cup {t} /\ t \notin E
        BY <1>3 DEF Holders
    <2> HIDE DEF E, F
    <2> QED
        BY <2>1, <1>1, FS_AddElement
<1>4. ASSUME r \in edge[t], r \notin edge'[t]
      PROVE  Cardinality(F) = Cardinality(E) - 1
    <2>1. E = F \cup {t} /\ t \notin F
        BY <1>4 DEF Holders
    <2> HIDE DEF E, F
    <2>2. Cardinality(E) = Cardinality(F) + 1
        BY <2>1, <1>1, FS_AddElement
    <2> QED
        BY <2>2, <1>2
<1>5. (r \in edge[t] <=> r \in edge'[t]) => E = F
    BY DEF Holders
<1> QED
    BY <1>2, <1>3, <1>4, <1>5

(* A root nobody holds an edge on has a zero counter, and the other way.   *)
LEMMA NoEdgeNoHolder ==
    ASSUME EdgesCounted, NEW r \in Roots, captureEdges[r] = 0
    PROVE  \A t \in Turns : r \notin edge[t]
<1>1. Holders(edge, r) \subseteq Turns
    BY DEF Holders
<1>2. IsFiniteSet(Holders(edge, r))
    BY <1>1, FS_Subset
<1>3. Holders(edge, r) = {}
    BY <1>2, FS_EmptySet DEF EdgesCounted
<1> QED
    BY <1>3 DEF Holders

(* CaptureEdgeGuard::drop, wherever it happens.                            *)
LEMMA DropEdgeKeepsInv ==
    ASSUME IInv, NEW t \in Turns, NEW l \in {"captured", "unwound", "over"},
           DropEdge(t), Goto(t, l),
           pc[t] = IF l = "captured" THEN "collecting" ELSE IF l = "over" THEN "release" ELSE "unwind",
           UNCHANGED <<mutationActive, activeTurns, generations, retained, receipt, baseline, held,
                       provider, restoreSet, history, restarts>>
    PROVE  IInv'
<1> USE DEF DropEdge, Goto
<1>1. edge' \in [Turns -> SUBSET Roots] /\ \A u \in Turns : u # t => edge'[u] = edge[u]
    BY DEF IInv, TypeOK
<1>2. EdgesCounted' /\ captureEdges' \in [Roots -> Nat]
    <2> SUFFICES ASSUME NEW r \in Roots
                 PROVE  /\ captureEdges'[r] = Cardinality(Holders(edge', r))
                        /\ captureEdges'[r] \in Nat
        BY DEF EdgesCounted, Holders
    <2>1. edge \in [Turns -> SUBSET Roots] /\ captureEdges[r] = Cardinality(Holders(edge, r))
        BY DEF IInv, TypeOK, EdgesCounted
    <2>2. r \notin edge'[t]
        BY DEF IInv, TypeOK
    <2>3. captureEdges'[r] = IF r \in edge[t] THEN captureEdges[r] - 1 ELSE captureEdges[r]
        OBVIOUS
    <2> DEFINE before == Cardinality(Holders(edge, r))
               after == Cardinality(Holders(edge', r))
    <2>4. /\ before \in Nat /\ after \in Nat
          /\ r \in edge[t] => after = before - 1
          /\ r \notin edge[t] => after = before
        BY <1>1, <2>2, EdgeCount
    <2> HIDE DEF before, after
    <2>5. captureEdges[r] = before
        BY <2>1 DEF before
    <2>6. captureEdges'[r] = after /\ captureEdges'[r] \in Nat
        BY <2>3, <2>4, <2>5
    <2> QED
        BY <2>6 DEF after
<1>3. TypeOK'
    BY <1>1, <1>2 DEF IInv, TypeOK, Steps, history
<1>4. EdgesPlaced' /\ LeasesFlagged' /\ LeasesExclude' /\ OverlapDirtiesBoth'
    BY DEF IInv, TypeOK, EdgesPlaced, LeasesFlagged, LeasesExclude, OverlapDirtiesBoth
<1>5. IntervalsPlaced' /\ LeasesSeen'
    BY DEF IInv, TypeOK, IntervalsPlaced, LeasesSeen, Live, Coordinated
<1>6. WritesSeen' /\ EligibleDecided'
    BY DEF IInv, TypeOK, WritesSeen, EligibleDecided, Open, history
<1> QED
    BY <1>2, <1>3, <1>4, <1>5, <1>6 DEF IInv

(* try_acquire_capture_edges, at the baseline and at the result.           *)
LEMMA TakeEdgeKeepsInv ==
    ASSUME IInv, NEW t \in Turns, NEW rs \in SUBSET Roots, NEW l \in {"reading", "checking"},
           TakeEdge(t, rs), Goto(t, l), Worktree[t] \in rs,
           \A r \in rs : ~mutationActive[r],
           rs \subseteq Coordinated(t),
           pc[t] = IF l = "reading" THEN "admitted" ELSE "finish",
           UNCHANGED <<mutationActive, activeTurns, generations, receipt, baseline, held,
                       provider, restoreSet, history, restarts>>
    PROVE  IInv'
<1> USE DEF TakeEdge, Goto
<1>1. edge' \in [Turns -> SUBSET Roots] /\ (\A u \in Turns : u # t => edge'[u] = edge[u])
      /\ edge'[t] = rs /\ edge[t] = {}
    BY DEF IInv, TypeOK, EdgesPlaced
<1>2. EdgesCounted' /\ captureEdges' \in [Roots -> Nat]
    <2> SUFFICES ASSUME NEW r \in Roots
                 PROVE  /\ captureEdges'[r] = Cardinality(Holders(edge', r))
                        /\ captureEdges'[r] \in Nat
        BY DEF EdgesCounted, Holders
    <2>1. edge \in [Turns -> SUBSET Roots] /\ captureEdges[r] = Cardinality(Holders(edge, r))
        BY DEF IInv, TypeOK, EdgesCounted
    <2>3. captureEdges'[r] = IF r \in rs THEN captureEdges[r] + 1 ELSE captureEdges[r]
        OBVIOUS
    <2> DEFINE before == Cardinality(Holders(edge, r))
               after == Cardinality(Holders(edge', r))
    <2>4. /\ before \in Nat /\ after \in Nat
          /\ r \in edge'[t] => after = before + 1
          /\ r \notin edge'[t] => after = before
        <3>1. r \notin edge[t]
            BY <1>1
        <3> QED
            BY <1>1, <3>1, EdgeCount
    <2> HIDE DEF before, after
    <2>5. captureEdges[r] = before
        BY <2>1 DEF before
    <2>6. captureEdges'[r] = after /\ captureEdges'[r] \in Nat
        BY <1>1, <2>3, <2>4, <2>5
    <2> QED
        BY <2>6 DEF after
<1>3. retained' = retained
    <2>1. rs \subseteq retained
        BY DEF IInv, TypeOK, IntervalsPlaced, Live
    <2> QED
        BY <2>1
<1>4. TypeOK'
    BY <1>1, <1>2, <1>3 DEF IInv, TypeOK, Steps, history
<1>5. EdgesPlaced' /\ LeasesFlagged' /\ OverlapDirtiesBoth'
    BY <1>1 DEF IInv, TypeOK, EdgesPlaced, LeasesFlagged, OverlapDirtiesBoth
<1>6. LeasesExclude'
    BY <1>1 DEF IInv, TypeOK, LeasesExclude, LeasesFlagged
<1>7. IntervalsPlaced' /\ LeasesSeen'
    BY <1>3 DEF IInv, TypeOK, IntervalsPlaced, LeasesSeen, Live, Coordinated
<1>8. WritesSeen' /\ EligibleDecided'
    BY DEF IInv, TypeOK, WritesSeen, EligibleDecided, Open, history
<1> QED
    BY <1>2, <1>4, <1>5, <1>6, <1>7, <1>8 DEF IInv

(* end_turn_intervals, at the end of a capture or on the way out of one.   *)
LEMMA EndIntervalsKeepsInv ==
    ASSUME IInv, NEW t \in Turns, NEW l \in {"failing", "bare", "closed", "rejected"},
           EndIntervals(t), Goto(t, l), Dirty({t}) \/ UNCHANGED receipt,
           pc[t] = IF l = "failing" THEN "collecting" ELSE IF l = "bare" THEN "unwound"
                   ELSE IF l = "closed" THEN "closing" ELSE "reject",
           UNCHANGED <<mutationActive, captureEdges, generations, retained, baseline, edge, held,
                       provider, restoreSet, history, restarts>>
    PROVE  IInv'
<1> USE DEF EndIntervals, Goto
<1>1. receipt' \in [Turns -> {"clean", "ineligible"}]
      /\ \A u \in Turns : receipt[u] = "ineligible" => receipt'[u] = "ineligible"
    BY DEF IInv, TypeOK, Dirty
<1>2. \A r \in Roots : activeTurns'[r] \subseteq activeTurns[r] /\ t \notin activeTurns'[r]
                       /\ \A u \in Turns : u # t /\ u \in activeTurns[r] => u \in activeTurns'[r]
    BY DEF IInv, TypeOK, IntervalsPlaced
<1>3. TypeOK'
    BY <1>1 DEF IInv, TypeOK, Steps, history
<1>4. EdgesCounted' /\ LeasesFlagged' /\ LeasesExclude'
    BY DEF IInv, EdgesCounted, Holders, LeasesFlagged, LeasesExclude
<1>5. EdgesPlaced'
    BY DEF IInv, TypeOK, EdgesPlaced
<1>6. OverlapDirtiesBoth'
    BY <1>1, <1>2 DEF IInv, TypeOK, OverlapDirtiesBoth
<1>7. IntervalsPlaced' /\ LeasesSeen'
    BY <1>1, <1>2 DEF IInv, TypeOK, IntervalsPlaced, LeasesSeen, Live, Coordinated
<1>8. WritesSeen' /\ EligibleDecided'
    BY <1>1 DEF IInv, TypeOK, WritesSeen, EligibleDecided, Open, history
<1> QED
    BY <1>3, <1>4, <1>5, <1>6, <1>7, <1>8 DEF IInv

-----------------------------------------------------------------------------
(* The steps that are not a turn's own, and the two that open an interval. *)

(* A provider starts, ends or writes.                                      *)
LEMMA ProviderKeepsInv ==
    ASSUME IInv, provider' \in [Turns -> {"idle", "running", "done"}],
           joined' \in [Turns -> SUBSET Turns],
           UNCHANGED <<coordinator, receipt, baseline, edge, held, pc, restoreSet, mutated, restarts>>
    PROVE  IInv'
<1>1. TypeOK'
    BY DEF IInv, TypeOK, coordinator
<1>2. EdgesCounted' /\ LeasesFlagged' /\ LeasesExclude' /\ OverlapDirtiesBoth' /\ EdgesPlaced'
    BY DEF IInv, EdgesCounted, Holders, LeasesFlagged, LeasesExclude, OverlapDirtiesBoth, EdgesPlaced, coordinator
<1>3. IntervalsPlaced' /\ LeasesSeen' /\ WritesSeen' /\ EligibleDecided'
    BY DEF IInv, IntervalsPlaced, LeasesSeen, WritesSeen, EligibleDecided, Open, coordinator
<1> QED
    BY <1>1, <1>2, <1>3 DEF IInv

LEMMA BeginIntervalsKeepsInv ==
    ASSUME IInv, NEW t \in Turns, BeginIntervals(t)
    PROVE  IInv'
<1> USE DEF BeginIntervals, Goto
<1>1. Coordinated(t) \in SUBSET Roots
    BY DEF Coordinated
<1>2. receipt' \in [Turns -> {"clean", "ineligible"}]
      /\ \A u \in Turns : receipt[u] = "ineligible" => receipt'[u] = "ineligible"
    BY DEF IInv, TypeOK, Dirty
<1>3. \A r \in Roots : activeTurns'[r] = IF r \in Coordinated(t) THEN activeTurns[r] \cup {t} ELSE activeTurns[r]
    OBVIOUS
<1>4. pc' \in [Turns -> Steps] /\ pc'[t] = (IF Conflict(t) THEN "conflict" ELSE "admitted")
      /\ \A u \in Turns : u # t => pc'[u] = pc[u]
    BY DEF IInv, TypeOK, Steps
<1>5. TypeOK'
    <2>1. retained' \in SUBSET Roots /\ Cardinality(retained') <= MaxRootGenerations
        BY <1>1 DEF IInv, TypeOK, HasRoom
    <2>2. activeTurns' \in [Roots -> SUBSET Turns]
        BY DEF IInv, TypeOK
    <2>3. baseline' \in [Turns -> [Roots -> Nat]]
        BY DEF IInv, TypeOK
    <2> QED
        BY <1>2, <1>4, <2>1, <2>2, <2>3 DEF IInv, TypeOK, history
<1>6. EdgesCounted' /\ LeasesFlagged' /\ LeasesExclude'
    BY DEF IInv, EdgesCounted, Holders, LeasesFlagged, LeasesExclude
<1>7. EdgesPlaced'
    BY <1>4 DEF IInv, EdgesPlaced
<1>8. OverlapDirtiesBoth'
    <2> SUFFICES ASSUME NEW r \in Roots, NEW u \in activeTurns'[r], NEW v \in activeTurns'[r], u # v
                 PROVE  receipt'[u] = "ineligible" /\ receipt'[v] = "ineligible"
        BY DEF OverlapDirtiesBoth
    <2>0. u \in Turns /\ v \in Turns
        BY <1>3 DEF IInv, TypeOK
    <2>1. CASE t \notin {u, v}
        BY <1>2, <1>3, <2>0, <2>1 DEF IInv, OverlapDirtiesBoth
    <2>2. CASE t \in {u, v}
        <3>1. r \in Coordinated(t)
            BY <1>3, <2>2 DEF IInv, IntervalsPlaced, Live
        <3>2. {u, v} \subseteq activeTurns[r] \cup {t} /\ activeTurns[r] # {}
            BY <1>3, <2>2, <3>1
        <3>3. Conflict(t)
            BY <3>1, <3>2 DEF Conflict
        <3>4. {u, v} \subseteq Receipts(Coordinated(t)) \cup {t}
            BY <3>1, <3>2 DEF Receipts
        <3> QED
            BY <2>0, <3>3, <3>4 DEF Dirty
    <2> QED
        BY <2>1, <2>2
<1>9. IntervalsPlaced'
    BY <1>1, <1>3, <1>4 DEF IInv, IntervalsPlaced, Live, Coordinated
<1>10. LeasesSeen'
    <2> SUFFICES ASSUME NEW u \in Turns, NEW m \in Mutators, pc'[u] \in Live, held[m] \cap Coordinated(u) # {}
                 PROVE  receipt'[u] = "ineligible"
        BY DEF LeasesSeen, Coordinated
    <2>1. CASE u # t
        BY <1>2, <1>4, <2>1 DEF IInv, LeasesSeen
    <2>2. CASE u = t
        <3>1. ~Conflict(t)
            BY <1>4, <2>2 DEF Live
        <3>2. PICK r \in Coordinated(t) : r \in held[m]
            BY <2>2
        <3>3. mutationActive[r]
            BY <1>1, <3>2 DEF IInv, LeasesFlagged
        <3> QED
            BY <3>1, <3>2, <3>3 DEF Conflict
    <2> QED
        BY <2>1, <2>2
<1>11. WritesSeen'
    BY <1>2, <1>4 DEF IInv, WritesSeen, Open, history
<1>12. EligibleDecided'
    BY <1>4 DEF IInv, EligibleDecided, history
<1> QED
    BY <1>5, <1>6, <1>7, <1>8, <1>9, <1>10, <1>11, <1>12 DEF IInv

LEMMA AcquireMutationsKeepsInv ==
    ASSUME IInv, NEW m \in Mutators, NEW rs \in LeaseRoots, AcquireMutations(m, rs)
    PROVE  IInv'
<1> USE DEF AcquireMutations
<1>1. rs \in SUBSET Roots
    OBVIOUS
<1>2. receipt' \in [Turns -> {"clean", "ineligible"}]
      /\ \A u \in Turns : receipt[u] = "ineligible" => receipt'[u] = "ineligible"
    BY DEF IInv, TypeOK, Dirty
<1>3. held' \in [Mutators -> SUBSET Roots] /\ held'[m] = rs /\ \A n \in Mutators : n # m => held'[n] = held[n]
    BY <1>1 DEF IInv, TypeOK
<1>4. \A r \in rs : ~mutationActive[r] /\ captureEdges[r] = 0
    BY DEF CanMutate
<1>5. TypeOK'
    <2>1. retained' \in SUBSET Roots /\ Cardinality(retained') <= MaxRootGenerations
        BY <1>1 DEF IInv, TypeOK, CanMutate, HasRoom
    <2>2. mutationActive' \in [Roots -> BOOLEAN]
        BY DEF IInv, TypeOK
    <2>3. generations' \in [Roots -> 0..MaxGeneration]
        BY <1>1 DEF IInv, TypeOK, CanMutate
    <2> QED
        BY <1>2, <1>3, <2>1, <2>2, <2>3 DEF IInv, TypeOK, history
<1>6. EdgesCounted' /\ EdgesPlaced' /\ EligibleDecided'
    BY DEF IInv, EdgesCounted, Holders, EdgesPlaced, EligibleDecided, history
<1>7. LeasesFlagged'
    BY <1>1, <1>3 DEF IInv, TypeOK, LeasesFlagged
<1>8. LeasesExclude'
    <2>1. \A t \in Turns : edge[t] \cap rs = {}
        BY <1>1, <1>4, NoEdgeNoHolder DEF IInv
    <2>2. \A n \in Mutators : held[n] \cap rs = {}
        BY <1>1, <1>4 DEF IInv, LeasesFlagged
    <2> QED
        BY <1>3, <2>1, <2>2 DEF IInv, LeasesExclude
<1>9. OverlapDirtiesBoth' /\ WritesSeen'
    BY <1>2 DEF IInv, TypeOK, OverlapDirtiesBoth, WritesSeen, Open, history
<1>10. IntervalsPlaced'
    BY DEF IInv, IntervalsPlaced
<1>11. LeasesSeen'
    <2> SUFFICES ASSUME NEW u \in Turns, NEW n \in Mutators, pc[u] \in Live, held'[n] \cap Coordinated(u) # {}
                 PROVE  receipt'[u] = "ineligible"
        BY DEF LeasesSeen, Coordinated
    <2>1. CASE n # m
        BY <1>2, <1>3, <2>1 DEF IInv, LeasesSeen
    <2>2. CASE n = m
        <3>1. PICK r \in rs : r \in Coordinated(u)
            BY <1>3, <2>2
        <3>2. u \in activeTurns[r]
            BY <1>1, <3>1 DEF IInv, IntervalsPlaced
        <3>3. u \in Receipts(rs)
            BY <3>1, <3>2 DEF Receipts
        <3> QED
            BY <3>3 DEF Dirty
    <2> QED
        BY <2>1, <2>2
<1> QED
    BY <1>5, <1>6, <1>7, <1>8, <1>9, <1>10, <1>11 DEF IInv

LEMMA ReleaseMutationsKeepsInv ==
    ASSUME IInv, NEW m \in Mutators, ReleaseMutations(m)
    PROVE  IInv'
<1> USE DEF ReleaseMutations
<1>1. held' \in [Mutators -> SUBSET Roots] /\ held'[m] = {} /\ \A n \in Mutators : n # m => held'[n] = held[n]
    BY DEF IInv, TypeOK
<1>2. TypeOK'
    BY <1>1 DEF IInv, TypeOK, history
<1>3. LeasesFlagged'
    BY <1>1 DEF IInv, TypeOK, LeasesFlagged, LeasesExclude
<1>4. EdgesCounted' /\ EdgesPlaced' /\ EligibleDecided' /\ OverlapDirtiesBoth' /\ WritesSeen' /\ IntervalsPlaced'
    BY DEF IInv, EdgesCounted, Holders, EdgesPlaced, EligibleDecided, OverlapDirtiesBoth, WritesSeen, Open,
           IntervalsPlaced, history
<1>5. LeasesExclude' /\ LeasesSeen'
    BY <1>1 DEF IInv, LeasesExclude, LeasesSeen, Coordinated
<1> QED
    BY <1>2, <1>3, <1>4, <1>5 DEF IInv

(* The heart of the matter: where a lease can write, the receipt is dirty  *)
(* or an edge keeps the lease away.                                        *)
LEMMA MutationWritesKeepsInv ==
    ASSUME IInv, NEW m \in Mutators, MutationWrites(m)
    PROVE  IInv'
<1> USE DEF MutationWrites
<1>1. mutated' \in [Turns -> SUBSET Roots]
      /\ \A u \in Turns : mutated'[u] = IF Open(u) THEN mutated[u] \cup (held[m] \cap Coordinated(u)) ELSE mutated[u]
    BY DEF IInv, TypeOK
<1>2. TypeOK'
    BY <1>1 DEF IInv, TypeOK, coordinator
<1>3. EdgesCounted' /\ LeasesFlagged' /\ LeasesExclude' /\ OverlapDirtiesBoth' /\ EdgesPlaced'
    BY DEF IInv, EdgesCounted, Holders, LeasesFlagged, LeasesExclude, OverlapDirtiesBoth, EdgesPlaced, coordinator
<1>4. IntervalsPlaced' /\ LeasesSeen'
    BY DEF IInv, IntervalsPlaced, LeasesSeen, coordinator
<1>5. WritesSeen'
    <2> SUFFICES ASSUME NEW u \in Turns
                 PROVE  /\ pc[u] \in {"new", "admitted", "conflict"} => mutated'[u] = {}
                        /\ Open(u) /\ Worktree[u] \in mutated'[u] => receipt[u] = "ineligible"
                        /\ pc[u] = "deciding" => Worktree[u] \notin mutated'[u]
        BY DEF WritesSeen, Open
    <2>1. pc[u] \in {"new", "admitted", "conflict"} => mutated'[u] = {}
        BY <1>1 DEF IInv, WritesSeen, Open
    <2>2. pc[u] \in {"closed", "deciding"} => Worktree[u] \notin held[m]
        BY DEF IInv, EdgesPlaced, LeasesExclude
    <2>3. ASSUME Open(u), Worktree[u] \in mutated'[u]
          PROVE  receipt[u] = "ineligible"
        <3>1. CASE Worktree[u] \in mutated[u]
            BY <2>3, <3>1 DEF IInv, WritesSeen
        <3>2. CASE Worktree[u] \notin mutated[u]
            <4>1. Worktree[u] \in held[m] \cap Coordinated(u)
                BY <1>1, <2>3, <3>2 DEF Coordinated
            <4>2. pc[u] \in Live
                BY <2>2, <2>3, <4>1 DEF Open, Live
            <4> QED
                BY <4>1, <4>2 DEF IInv, LeasesSeen
        <3> QED
            BY <3>1, <3>2
    <2>4. pc[u] = "deciding" => Worktree[u] \notin mutated'[u]
        BY <1>1, <2>2 DEF IInv, WritesSeen
    <2> QED
        BY <2>1, <2>3, <2>4
<1>6. EligibleDecided'
    BY <1>1 DEF IInv, EligibleDecided, Open
<1> QED
    BY <1>2, <1>3, <1>4, <1>5, <1>6 DEF IInv

LEMMA RestartKeepsInv ==
    ASSUME IInv, Restart
    PROVE  IInv'
<1> USE DEF Restart
<1>1. TypeOK'
    BY FS_EmptySet DEF IInv, TypeOK, Steps, history
<1>2. EdgesCounted'
    <2>1. \A r \in Roots : Holders(edge', r) = {}
        BY DEF Holders
    <2> QED
        BY <2>1, FS_EmptySet DEF EdgesCounted, Holders
<1>3. LeasesFlagged' /\ EdgesPlaced' /\ LeasesExclude' /\ OverlapDirtiesBoth' /\ IntervalsPlaced' /\ LeasesSeen'
    BY DEF LeasesFlagged, EdgesPlaced, LeasesExclude, OverlapDirtiesBoth, IntervalsPlaced, LeasesSeen, Live
<1>4. WritesSeen' /\ EligibleDecided'
    BY DEF IInv, TypeOK, WritesSeen, EligibleDecided, Open, history
<1> QED
    BY <1>1, <1>2, <1>3, <1>4 DEF IInv

-----------------------------------------------------------------------------

(* One step per action of a turn: each has one of the shapes above.        *)
LEMMA TurnKeepsInv ==
    ASSUME IInv, NEW t \in Turns, Turn(t)
    PROVE  IInv'
<1> DEFINE Moves(l, s) ==
        /\ pc' = [pc EXCEPT ![t] = l] /\ restoreSet' = [restoreSet EXCEPT ![t] = s]
        /\ provider' \in [Turns -> {"idle", "running", "done"}]
        /\ UNCHANGED <<coordinator, receipt, baseline, edge, held, history, restarts>>
<1>0. /\ restoreSet[t] \in {"none", "collecting", "eligible", "noneligible"}
      /\ restoreSet = [restoreSet EXCEPT ![t] = restoreSet[t]]
      /\ provider \in [Turns -> {"idle", "running", "done"}]
      /\ joined \in [Turns -> SUBSET Turns]
      /\ restoreSet[t] = "eligible" => pc[t] \in {"release", "over"}
    BY DEF IInv, TypeOK, EligibleDecided
<1>1. CASE BeginIntervals(t)
    BY <1>1, BeginIntervalsKeepsInv
<1>2. ASSUME Preflight(t), pc[t] \in {"new", "conflict", "admitted", "reading"}, UNCHANGED provider,
             UNCHANGED <<coordinator, receipt, baseline, edge, held, history, restarts>>
      PROVE  IInv'
    <2>1. PICK s \in {restoreSet[t], "noneligible"} : Moves("unwind", s)
        BY <1>0, <1>2 DEF Preflight, Goto
    <2> QED
        BY <1>0, <1>2, <2>1, MoveKeepsInv DEF Steps
<1>3. CASE BeginRefused(t) \/ BeginConflict(t)
    BY <1>2, <1>3 DEF BeginRefused, BeginConflict
<1>4. CASE AcquireEdges(t)
    <2>1. CASE \E r \in Coordinated(t) : mutationActive[r]
        <3>1. Preflight(t) /\ UNCHANGED <<captureEdges, edge, retained>>
            BY <1>4, <2>1 DEF AcquireEdges
        <3>2. pc[t] = "admitted" /\ UNCHANGED provider
              /\ UNCHANGED <<coordinator, receipt, baseline, edge, held, history, restarts>>
            BY <1>4, <3>1 DEF AcquireEdges, coordinator
        <3> QED
            BY <1>2, <3>1, <3>2
    <2>2. CASE \A r \in Coordinated(t) : ~mutationActive[r]
        <3>1. Coordinated(t) \in SUBSET Roots /\ Worktree[t] \in Coordinated(t)
            BY DEF Coordinated
        <3>2. /\ TakeEdge(t, Coordinated(t)) /\ Goto(t, "reading") /\ pc[t] = "admitted"
              /\ UNCHANGED <<mutationActive, activeTurns, generations, receipt, baseline, held,
                             provider, restoreSet, history, restarts>>
            BY <1>4, <2>2 DEF AcquireEdges
        <3> QED
            BY <2>2, <3>1, <3>2, TakeEdgeKeepsInv
    <2> QED
        BY <2>1, <2>2
<1>5. CASE CreateSet(t)
    <2>1. CASE Preflight(t)
        BY <1>2, <1>5, <2>1 DEF CreateSet
    <2>2. CASE ~Preflight(t)
        <3>1. Moves("collecting", "collecting") /\ pc[t] = "reading"
            BY <1>0, <1>5, <2>2 DEF CreateSet, Goto
        <3> QED
            BY <1>0, <3>1, MoveKeepsInv DEF Steps, Live
    <2> QED
        BY <2>1, <2>2
<1>6. CASE BaselineRead(t) \/ UnwindEdge(t) \/ ReleaseEdge(t)
    BY <1>6, DropEdgeKeepsInv DEF BaselineRead, UnwindEdge, ReleaseEdge
<1>7. CASE FailBegin(t) \/ UnwindInterval(t) \/ FinishInterval(t) \/ Reject(t)
    BY <1>7, EndIntervalsKeepsInv DEF FailBegin, UnwindInterval, FinishInterval, Reject
<1>8. CASE FailSet(t)
    <2>1. PICK s \in {restoreSet[t], "noneligible"} : Moves("unwind", s)
        BY <1>0, <1>8 DEF FailSet, Goto
    <2> QED
        BY <1>0, <1>8, <2>1, MoveKeepsInv DEF Steps, FailSet
<1>9. CASE RejectSet(t)
    <2>1. PICK s \in {restoreSet[t], "noneligible"} : Moves("release", s)
        BY <1>0, <1>9 DEF RejectSet, Goto
    <2> QED
        BY <1>0, <1>9, <2>1, MoveKeepsInv DEF Steps, RejectSet
<1>10. CASE StartProvider(t)
    BY <1>0, <1>10, ProviderKeepsInv DEF StartProvider, history
<1>11. CASE ProviderWrites(t)
    BY <1>0, <1>11, ProviderKeepsInv DEF ProviderWrites
<1>12. CASE TurnEnds(t)
    <2>1. provider' \in [Turns -> {"idle", "running", "done"}]
        BY <1>0, <1>12 DEF TurnEnds
    <2>2. CASE pc[t] = "captured"
        <3>1. PICK l \in {"finish", "reject"} : Moves(l, restoreSet[t])
            BY <1>0, <1>12, <2>1, <2>2 DEF TurnEnds, Goto
        <3> QED
            BY <1>0, <2>2, <3>1, MoveKeepsInv DEF Steps, Live
    <2>3. CASE pc[t] # "captured"
        BY <1>0, <1>12, <2>1, <2>3, ProviderKeepsInv DEF TurnEnds, history
    <2> QED
        BY <2>2, <2>3
<1>13. CASE FinishEdge(t)
    <2>1. CASE mutationActive[Worktree[t]]
        <3>1. Moves("reject", restoreSet[t]) /\ pc[t] = "finish"
            BY <1>0, <1>13, <2>1 DEF FinishEdge, Goto, coordinator
        <3> QED
            BY <1>0, <3>1, MoveKeepsInv DEF Steps
    <2>2. CASE ~mutationActive[Worktree[t]]
        BY <1>13, <2>2, TakeEdgeKeepsInv DEF FinishEdge, Coordinated
    <2> QED
        BY <2>1, <2>2
<1>14. CASE FinishCheck(t)
    <2>1. PICK l \in {"results", "reject"} : Moves(l, restoreSet[t])
        BY <1>0, <1>14 DEF FinishCheck, Goto
    <2> QED
        BY <1>0, <1>14, <2>1, MoveKeepsInv DEF Steps, Live, FinishCheck
<1>15. CASE ReadResults(t)
    <2>1. PICK l \in {"closing", "reject"} : Moves(l, restoreSet[t])
        BY <1>0, <1>15 DEF ReadResults, Goto
    <2> QED
        BY <1>0, <1>15, <2>1, MoveKeepsInv DEF Steps, Live, ReadResults
<1>16. CASE FinalCheck(t)
    <2>1. Moves(IF Clean(t) THEN "deciding" ELSE "reject", restoreSet[t])
        BY <1>0, <1>16 DEF FinalCheck, Goto
    <2> QED
        BY <1>0, <1>16, <2>1, MoveKeepsInv DEF Steps, FinalCheck, Clean
<1>17. CASE FinalizeSet(t)
    <2>1. CASE Goto(t, "release")
        <3>1. Moves("release", "eligible") /\ pc[t] = "deciding"
            BY <1>0, <1>17, <2>1 DEF FinalizeSet, Goto, IInv, TypeOK
        <3> QED
            BY <1>0, <3>1, MoveKeepsInv DEF Steps
    <2>2. CASE ~Goto(t, "release")
        <3>1. Moves("reject", restoreSet[t]) /\ pc[t] = "deciding"
            BY <1>0, <1>17, <2>2 DEF FinalizeSet, Goto
        <3> QED
            BY <1>0, <3>1, MoveKeepsInv DEF Steps
    <2> QED
        BY <2>1, <2>2
<1> QED
    BY <1>1, <1>3, <1>4, <1>5, <1>6, <1>7, <1>8, <1>9, <1>10, <1>11, <1>12, <1>13, <1>14, <1>15, <1>16, <1>17
       DEF Turn, Worker

LEMMA InvNext == IInv /\ [Next]_vars => IInv'
<1> SUFFICES ASSUME IInv, [Next]_vars PROVE IInv'
    OBVIOUS
<1>1. CASE UNCHANGED vars
    BY <1>1, ProviderKeepsInv DEF vars, history, IInv, TypeOK
<1>2. ASSUME NEW t \in Turns, Turn(t) PROVE IInv'
    BY <1>2, TurnKeepsInv
<1>3. ASSUME NEW m \in Mutators, Mutator(m) PROVE IInv'
    BY <1>3, AcquireMutationsKeepsInv, ReleaseMutationsKeepsInv, MutationWritesKeepsInv DEF Mutator
<1>4. CASE Restart
    BY <1>4, RestartKeepsInv
<1> QED
    BY <1>1, <1>2, <1>3, <1>4 DEF Next

LEMMA InvHolds == Spec => []IInv
BY InvInit, InvNext, PTL DEF Spec

-----------------------------------------------------------------------------
(* The results.                                                            *)

(* The coordinator's maps keep their types and bounds: no generation       *)
(* passes the last u64 and no more roots are retained than the limit.      *)
THEOREM CaptureTypeCorrect == Spec => []TypeOK
<1>1. IInv => TypeOK
    BY DEF IInv
<1> QED
    BY <1>1, InvHolds, PTL

(* Whatever the order in which guards are taken and dropped, a root is     *)
(* never read by a capture and held for a mutation at the same time, nor   *)
(* held for two mutations.                                                 *)
THEOREM LeasesAreExclusive == Spec => []LeasesExclude
<1>1. IInv => LeasesExclude
    BY DEF IInv
<1> QED
    BY <1>1, InvHolds, PTL

(* Every path out of begin and finish_at gives its guards back: the flags, *)
(* the counters and the interval registries name the guards that live.     *)
THEOREM GuardsAreReleased == Spec => []NothingLeaks
<1>1. IInv => NothingLeaks
    <2> SUFFICES ASSUME IInv, NEW r \in Roots
                 PROVE  /\ mutationActive[r] <=> \E m \in Mutators : r \in held[m]
                        /\ captureEdges[r] = Cardinality({t \in Turns : r \in edge[t]})
                        /\ \A t \in activeTurns[r] : pc[t] \notin {"new", "bare", "closed", "deciding", "rejected",
                                                                   "release", "over"}
        BY DEF NothingLeaks
    <2>1. mutationActive[r] <=> \E m \in Mutators : r \in held[m]
        BY DEF IInv, LeasesFlagged
    <2>2. captureEdges[r] = Cardinality({t \in Turns : r \in edge[t]})
        BY DEF IInv, EdgesCounted, Holders
    <2>3. ASSUME NEW t \in activeTurns[r]
          PROVE  pc[t] \notin {"new", "bare", "closed", "deciding", "rejected", "release", "over"}
        <3>1. t \in Turns
            BY DEF IInv, TypeOK
        <3> QED
            BY <3>1 DEF IInv, IntervalsPlaced, Live
    <2> QED
        BY <2>1, <2>2, <2>3
<1> QED
    BY <1>1, InvHolds, PTL

(* Turns whose intervals meet on any root, worktree, Git directory or      *)
(* common directory, are both dirty while both are registered.             *)
THEOREM OverlapIsSeen == Spec => []OverlapDirtiesBoth
<1>1. IInv => OverlapDirtiesBoth
    BY DEF IInv
<1> QED
    BY <1>1, InvHolds, PTL

(* An eligible set never hides a write of DCC's own: the receipt, the      *)
(* generations and the final edge cover the whole time from the baseline   *)
(* to the durable decision, for any number of turns, mutations, restarts.  *)
THEOREM EligibleIsUnmutated == Spec => []EligibleUnmutated
<1>1. IInv => EligibleUnmutated
    BY DEF IInv, EligibleDecided, EligibleUnmutated
<1> QED
    BY <1>1, InvHolds, PTL
=============================================================================
