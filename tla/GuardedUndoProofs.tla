------------------------- MODULE GuardedUndoProofs -------------------------
(***************************************************************************)
(* The theorems about GuardedUndo: the calls and the recovery loop keep    *)
(* what they rely on (the effects of their steps are those of              *)
(* GuardedUndoEffects), and the properties follow from the invariant.      *)
(***************************************************************************)
EXTENDS GuardedUndoEffects

(* The running call and the loop of recover_startup.                       *)

(* What the other operations see of a step.                                *)
LEMMA OthersStay ==
    ASSUME TypeOK, Effect
    PROVE  \A o \in OpIds : /\ o \in OpIds' /\ ops'[o].set = ops[o].set
                            /\ o # cur => /\ ops'[o].state = ops[o].state
                                          /\ ops'[o].cleanup = ops[o].cleanup
<1>1. \A o \in OpIds : o \in OpIds' /\ ops'[o].set = ops[o].set
    BY StatesStay
<1>2. ASSUME NEW o \in OpIds, o # cur PROVE ops'[o].state = ops[o].state
             /\ ops'[o].cleanup = ops[o].cleanup
    BY <1>2 DEF Effect, Still, Moves, OpMoves, Marks, Names, RowMoves, Finishes, CleanupEnds,
       Removes, Creates, Fills, Swaps, Relocates, Begins, Rewrites
<1> QED
    BY <1>1, <1>2

(* A step inside a call.                                                   *)
LEMMA InnerLoop ==
    ASSUME TypeOK, Places, Visits, Settled, Effect, OpIds' = OpIds, pc \in Called, pc' \in Called,
           UNCHANGED <<cur, phase, todo>>, phase = "cleaning" => ops'[cur].state = ops[cur].state,
           faults' = faults \/ faults' = faults + 1
    PROVE  Visits' /\ Settled'
<1>1. \A o \in OpIds : o # cur => ops'[o].state = ops[o].state /\ ops'[o].cleanup = ops[o].cleanup
    BY OthersStay
<1>2. faults' = 0 => faults = 0
    BY DEF TypeOK, CallTyped
<1>3. todo \subseteq OpIds /\ cur \notin todo
    BY DEF TypeOK, CallTyped, Visits
<1>4. Visits'
    BY <1>1, <1>3 DEF Visits, Active
<1>5. Settled'
    BY <1>1, <1>2 DEF Settled, Active
<1> QED
    BY <1>4, <1>5

(* The end of a call.                                                      *)
LEMMA ReturnLoop ==
    ASSUME TypeOK, Places, Visits, Settled, Effect, OpIds' = OpIds, pc \in Called, Return,
           faults' = faults \/ faults' = faults + 1,
           faults' = 0 => ops'[cur].state \in {"completed", "rolled_back", "recovery_required"}
    PROVE  Visits' /\ Settled' /\ pc' \in {"idle", "next"}
<1>1. \A o \in OpIds : o # cur => ops'[o].state = ops[o].state /\ ops'[o].cleanup = ops[o].cleanup
    BY OthersStay
<1>2. faults' = 0 => faults = 0
    BY DEF TypeOK, CallTyped
<1>3. todo \subseteq OpIds /\ cur \notin todo /\ 0 \notin OpIds
    BY DEF TypeOK, CallTyped, Visits, OpIds
<1>4. cur' = 0 /\ phase' = phase /\ todo' = todo /\ pc' \in {"idle", "next"}
    BY DEF Return, loop
<1>5. Visits'
    BY <1>1, <1>3, <1>4 DEF Visits, Active
<1>6. Settled'
    BY <1>1, <1>2, <1>4 DEF Settled, Active
<1> QED
    BY <1>4, <1>5, <1>6

(* Where a call is and what it may rely on there.                          *)
Control == Places /\ JournalAt /\ Verified /\ SiblingsGo /\ SiblingsCome /\ OutcomeAt

(* Between two calls.                                                      *)
LEMMA Between ==
    ASSUME Places, Return
    PROVE  Control'
BY DEF Control, Places, JournalAt, Verified, SiblingsGo, SiblingsCome, OutcomeAt, Return, loop,
   Staging, Swapping, Recording, Backing, Aborting, Unstaging, AtFile, Called

(* The preimages are staged.                                               *)
LEMMA StagingSteps ==
    ASSUME IInv, Effect,
           StageCreate \/ StageFill \/ StageCheck \/ StageJournal
    PROVE  Control' /\ Visits' /\ Settled'
<1> USE DEF Staging, Swapping, Recording, Backing, Aborting, Unstaging, AtFile, Called
<1>1. CASE StageCreate
    <2>1. /\ pc = "stage" /\ pc \in Called /\ cur \in OpIds /\ ops[cur].cleanup
          /\ ops[cur].state = "preparing" /\ known = "preparing" /\ phase = "serving"
        BY <1>1 DEF IInv, StageCreate, Places, JournalAt, TypeOK, CallTyped
    <2>2. AtRow /\ idx \in 1..Count /\ Count = Len(Manifest[ops[cur].set]) /\ idx \in Nat
          /\ Count \in Nat
        BY <2>1, AtRowHere, HereTyped DEF IInv, AtRow
    <2>3. (faults' = faults \/ faults' = faults + 1) /\ faults \in Nat
        BY <1>1 DEF StageCreate, Fault, NoFault, IInv, TypeOK, CallTyped
    <2>4. CASE SetLocator(File(Partial, nextId)) /\ Goto("fill")
        <3>1. /\ pc' = "fill" /\ cur' = cur /\ idx' = idx /\ known' = known
              /\ phase' = phase /\ todo' = todo
            BY <2>4 DEF Goto, GotoFile, GotoAs, loop
        <3>2. LocatorMoves(File(Partial, nextId)) /\ ops' = ops
            <4>1. File(Partial, nextId) \in FileType \cup {None}
                BY <2>1, <2>2, HereTyped, NoneAssumption DEF IInv, TypeOK, WorkspaceTyped,
                   File, FileType, Partial
            <4>2. LocatorMoves(File(Partial, nextId))
                BY <2>1, <2>2, <2>4, <4>1, SetLocatorMoves, HereTyped DEF IInv, TypeOK, Exchange
            <4> QED
                BY <1>1, <4>2 DEF StageCreate, db
        <3>3. /\ OpIds' = OpIds /\ cur \in OpIds' /\ ops'[cur].cleanup
                 /\ ops'[cur].set = ops[cur].set
              /\ ops'[cur].state = ops[cur].state /\ Len(ops'[cur].files) = Count
            BY <2>1, <2>4, <3>2 DEF OpMoves, RowMoves, OpIds, Count, Files
        <3>4. Places'
            BY <2>1, <2>2, <2>3, <2>4, <3>1, <3>2, <3>3 DEF IInv, Places
        <3>5. JournalAt'
            BY <2>1, <2>2, <2>3, <2>4, <3>1, <3>2, <3>3 DEF JournalAt, Agrees, IInv
        <3>6. File(Partial, nextId) # None
            BY NoneAssumption DEF IInv, TypeOK, WorkspaceTyped, File, FileType, Partial
        <3>7. idx \in 1..Len(sibling[cur]) /\ Len(sibling'[cur]) = Len(sibling[cur])
            BY <2>1, <2>2, <3>2, HereTyped DEF IInv, LocatorMoves
        <3>8. \A j \in 1..Len(sibling[cur]) : sibling'[cur][j] = IF j = idx THEN File(Partial, nextId) ELSE sibling[cur][j]
            BY <2>1, <3>2 DEF LocatorMoves
        <3>9. SiblingsCome'
            BY <2>1, <2>2, <2>3, <2>4, <3>1, <3>2, <3>3, <3>6, <3>7, <3>8 DEF IInv,
               SiblingsCome, Row, Files, Locator
        <3>10. Verified' /\ SiblingsGo' /\ OutcomeAt'
            BY <2>1, <3>1 DEF Verified, SiblingsGo, OutcomeAt
        <3>11. Visits' /\ Settled'
            BY <2>1, <2>3, <3>1, <3>3, InnerLoop DEF IInv, Places
        <3> QED
            BY <3>4, <3>5, <3>9, <3>10, <3>11 DEF Control
    <2>5. CASE Goto("abort") /\ UNCHANGED sibling
        <3>1. /\ pc' = "abort" /\ cur' = cur /\ idx' = idx /\ known' = known
              /\ phase' = phase /\ todo' = todo
            BY <2>5 DEF Goto, GotoFile, GotoAs, loop
        <3>2. ops' = ops
            BY <1>1, <2>5 DEF StageCreate, db
        <3>3. /\ OpIds' = OpIds /\ cur \in OpIds' /\ ops'[cur].cleanup
                 /\ ops'[cur].set = ops[cur].set
              /\ ops'[cur].state = ops[cur].state /\ Len(ops'[cur].files) = Count
            BY <2>1, <2>5, <3>2 DEF OpMoves, RowMoves, OpIds, Count, Files
        <3>4. Places'
            BY <2>1, <2>2, <2>3, <2>5, <3>1, <3>2, <3>3 DEF IInv, Places
        <3>5. JournalAt'
            BY <2>1, <2>2, <2>3, <2>5, <3>1, <3>2, <3>3 DEF JournalAt, Agrees, IInv
        <3>6. Verified' /\ SiblingsGo' /\ SiblingsCome' /\ OutcomeAt'
            BY <2>1, <3>1 DEF Verified, SiblingsGo, SiblingsCome, OutcomeAt
        <3>7. Visits' /\ Settled'
            BY <2>1, <2>3, <3>1, <3>3, InnerLoop DEF IInv, Places
        <3> QED
            BY <3>4, <3>5, <3>6, <3>7 DEF Control
    <2> QED
        BY <1>1, <2>1, <2>4, <2>5 DEF StageCreate
<1>2. CASE StageFill
    <2>1. /\ pc = "fill" /\ pc \in Called /\ cur \in OpIds /\ ops[cur].cleanup
          /\ ops[cur].state = "preparing" /\ known = "preparing" /\ phase = "serving"
        BY <1>2 DEF IInv, StageFill, Places, JournalAt, TypeOK, CallTyped
    <2>2. AtRow /\ idx \in 1..Count /\ Count = Len(Manifest[ops[cur].set]) /\ idx \in Nat
          /\ Count \in Nat
        BY <2>1, AtRowHere, HereTyped DEF IInv, AtRow
    <2>3. (faults' = faults \/ faults' = faults + 1) /\ faults \in Nat
        BY <1>2 DEF StageFill, Fault, NoFault, IInv, TypeOK, CallTyped
    <2>4. CASE SetLocator(File(PreOf(cur, idx), Locator.id)) /\ Goto("staged")
        <3>1. /\ pc' = "staged" /\ cur' = cur /\ idx' = idx /\ known' = known
              /\ phase' = phase /\ todo' = todo
            BY <2>4 DEF Goto, GotoFile, GotoAs, loop
        <3>2. LocatorMoves(File(PreOf(cur, idx), Locator.id)) /\ ops' = ops
            <4>1. File(PreOf(cur, idx), Locator.id) \in FileType \cup {None}
                BY <2>1, <2>2, HereTyped, NoneAssumption DEF IInv, TypeOK, WorkspaceTyped,
                   File, FileType, SiblingsCome
            <4>2. LocatorMoves(File(PreOf(cur, idx), Locator.id))
                BY <2>1, <2>2, <2>4, <4>1, SetLocatorMoves, HereTyped DEF IInv, TypeOK, Exchange
            <4> QED
                BY <1>2, <4>2 DEF StageFill, db
        <3>3. /\ OpIds' = OpIds /\ cur \in OpIds' /\ ops'[cur].cleanup
                 /\ ops'[cur].set = ops[cur].set
              /\ ops'[cur].state = ops[cur].state /\ Len(ops'[cur].files) = Count
            BY <2>1, <2>4, <3>2 DEF OpMoves, RowMoves, OpIds, Count, Files
        <3>4. Places'
            BY <2>1, <2>2, <2>3, <2>4, <3>1, <3>2, <3>3 DEF IInv, Places
        <3>5. JournalAt'
            BY <2>1, <2>2, <2>3, <2>4, <3>1, <3>2, <3>3 DEF JournalAt, Agrees, IInv
        <3>6. /\ File(PreOf(cur, idx), Locator.id) # None
              /\ File(PreOf(cur, idx), Locator.id).bytes = PreOf(cur, idx)
            BY <2>1, <2>2, HereTyped, NoneAssumption DEF IInv, SiblingsCome, File, FileType
        <3>7. idx \in 1..Len(sibling[cur]) /\ Len(sibling'[cur]) = Len(sibling[cur])
            BY <2>1, <2>2, <3>2, HereTyped DEF IInv, LocatorMoves
        <3>8. \A j \in 1..Len(sibling[cur]) :
                  sibling'[cur][j] = IF j = idx THEN File(PreOf(cur, idx), Locator.id) ELSE sibling[cur][j]
            BY <2>1, <3>2 DEF LocatorMoves
        <3>9. PreOf(cur, idx)' = PreOf(cur, idx)
            BY <3>1, <3>2 DEF PreOf, PathOf
        <3>10. SiblingsCome'
            BY <2>1, <2>2, <2>3, <2>4, <3>1, <3>2, <3>3, <3>6, <3>7, <3>8, <3>9 DEF IInv,
               SiblingsCome, Row, Files, Locator
        <3>11. Verified' /\ SiblingsGo' /\ OutcomeAt'
            BY <2>1, <3>1 DEF Verified, SiblingsGo, OutcomeAt
        <3>12. Visits' /\ Settled'
            BY <2>1, <2>3, <3>1, <3>3, InnerLoop DEF IInv, Places
        <3> QED
            BY <3>4, <3>5, <3>10, <3>11, <3>12 DEF Control
    <2>5. CASE Goto("abort")
        <3>1. /\ pc' = "abort" /\ cur' = cur /\ idx' = idx /\ known' = known
              /\ phase' = phase /\ todo' = todo
            BY <2>5 DEF Goto, GotoFile, GotoAs, loop
        <3>2. ops' = ops
            BY <1>2, <2>5 DEF StageFill, db
        <3>3. /\ OpIds' = OpIds /\ cur \in OpIds' /\ ops'[cur].cleanup
                 /\ ops'[cur].set = ops[cur].set
              /\ ops'[cur].state = ops[cur].state /\ Len(ops'[cur].files) = Count
            BY <2>1, <2>5, <3>2 DEF OpMoves, RowMoves, OpIds, Count, Files
        <3>4. Places'
            BY <2>1, <2>2, <2>3, <2>5, <3>1, <3>2, <3>3 DEF IInv, Places
        <3>5. JournalAt'
            BY <2>1, <2>2, <2>3, <2>5, <3>1, <3>2, <3>3 DEF JournalAt, Agrees, IInv
        <3>6. Verified' /\ SiblingsGo' /\ SiblingsCome' /\ OutcomeAt'
            BY <2>1, <3>1 DEF Verified, SiblingsGo, SiblingsCome, OutcomeAt
        <3>7. Visits' /\ Settled'
            BY <2>1, <2>3, <3>1, <3>3, InnerLoop DEF IInv, Places
        <3> QED
            BY <3>4, <3>5, <3>6, <3>7 DEF Control
    <2> QED
        BY <1>2, <2>1, <2>4, <2>5 DEF StageFill
<1>3. CASE StageCheck
    <2>1. /\ pc = "staged" /\ pc \in Called /\ cur \in OpIds /\ ops[cur].cleanup
          /\ ops[cur].state = "preparing" /\ known = "preparing" /\ phase = "serving"
        BY <1>3 DEF IInv, StageCheck, Places, JournalAt, TypeOK, CallTyped
    <2>2. AtRow /\ idx \in 1..Count /\ Count = Len(Manifest[ops[cur].set]) /\ idx \in Nat
          /\ Count \in Nat
        BY <2>1, AtRowHere, HereTyped DEF IInv, AtRow
    <2>3. (faults' = faults \/ faults' = faults + 1) /\ faults \in Nat
        BY <1>3 DEF StageCheck, Fault, NoFault, IInv, TypeOK, CallTyped
    <2>4. CASE Goto("journal") /\ UNCHANGED sibling
        <3>1. /\ pc' = "journal" /\ cur' = cur /\ idx' = idx /\ known' = known
              /\ phase' = phase /\ todo' = todo
            BY <2>4 DEF Goto, GotoFile, GotoAs, loop
        <3>2. ops' = ops /\ sibling' = sibling /\ target' = target /\ base' = base
            BY <1>3, <2>1, <2>4 DEF StageCheck, fs, db, world
        <3>3. /\ OpIds' = OpIds /\ cur \in OpIds' /\ ops'[cur].cleanup
                 /\ ops'[cur].set = ops[cur].set
              /\ ops'[cur].state = ops[cur].state /\ Len(ops'[cur].files) = Count
            BY <2>1, <2>4, <3>2 DEF OpMoves, RowMoves, OpIds, Count, Files
        <3>4. Places'
            BY <2>1, <2>2, <2>3, <2>4, <3>1, <3>2, <3>3 DEF IInv, Places
        <3>5. JournalAt'
            BY <2>1, <2>2, <2>3, <2>4, <3>1, <3>2, <3>3 DEF JournalAt, Agrees, IInv
        <3>6. SiblingsCome'
            BY <2>1, <2>2, <2>3, <2>4, <3>1, <3>2, <3>3 DEF IInv, SiblingsCome, Row, Files,
               Locator, PreOf, PathOf
        <3>7. Verified' /\ SiblingsGo' /\ OutcomeAt'
            BY <2>1, <3>1 DEF Verified, SiblingsGo, OutcomeAt
        <3>8. Visits' /\ Settled'
            BY <2>1, <2>3, <3>1, <3>3, InnerLoop DEF IInv, Places
        <3> QED
            BY <3>4, <3>5, <3>6, <3>7, <3>8 DEF Control
    <2>5. CASE Goto("abort")
        <3>1. /\ pc' = "abort" /\ cur' = cur /\ idx' = idx /\ known' = known
              /\ phase' = phase /\ todo' = todo
            BY <2>5 DEF Goto, GotoFile, GotoAs, loop
        <3>2. ops' = ops
            BY <1>3, <2>5 DEF StageCheck, db
        <3>3. /\ OpIds' = OpIds /\ cur \in OpIds' /\ ops'[cur].cleanup
                 /\ ops'[cur].set = ops[cur].set
              /\ ops'[cur].state = ops[cur].state /\ Len(ops'[cur].files) = Count
            BY <2>1, <2>5, <3>2 DEF OpMoves, RowMoves, OpIds, Count, Files
        <3>4. Places'
            BY <2>1, <2>2, <2>3, <2>5, <3>1, <3>2, <3>3 DEF IInv, Places
        <3>5. JournalAt'
            BY <2>1, <2>2, <2>3, <2>5, <3>1, <3>2, <3>3 DEF JournalAt, Agrees, IInv
        <3>6. Verified' /\ SiblingsGo' /\ SiblingsCome' /\ OutcomeAt'
            BY <2>1, <3>1 DEF Verified, SiblingsGo, SiblingsCome, OutcomeAt
        <3>7. Visits' /\ Settled'
            BY <2>1, <2>3, <3>1, <3>3, InnerLoop DEF IInv, Places
        <3> QED
            BY <3>4, <3>5, <3>6, <3>7 DEF Control
    <2> QED
        BY <1>3, <2>1, <2>4, <2>5 DEF StageCheck
<1>4. CASE StageJournal
    <2>1. /\ pc = "journal" /\ pc \in Called /\ cur \in OpIds /\ ops[cur].cleanup
          /\ ops[cur].state = "preparing" /\ known = "preparing" /\ phase = "serving"
        BY <1>4 DEF IInv, StageJournal, Places, JournalAt, TypeOK, CallTyped
    <2>2. AtRow /\ idx \in 1..Count /\ Count = Len(Manifest[ops[cur].set]) /\ idx \in Nat
          /\ Count \in Nat
        BY <2>1, AtRowHere, HereTyped DEF IInv, AtRow
    <2>3. (faults' = faults \/ faults' = faults + 1) /\ faults \in Nat
        BY <1>4 DEF StageJournal, Fault, NoFault, IInv, TypeOK, CallTyped
    <2>4. CASE SetStaged(Locator) /\ idx < Count /\ GotoFile("stage", idx + 1)
        <3>1. /\ pc' = "stage" /\ cur' = cur /\ idx' = idx + 1 /\ known' = known
              /\ phase' = phase /\ todo' = todo
            BY <2>4 DEF Goto, GotoFile, GotoAs, loop
        <3>2. RowMoves("staged", Locator) /\ sibling' = sibling
            BY <1>4, <2>1, <2>2, <2>4, JournalMoves, HereTyped DEF StageJournal, fs, IInv,
               TypeOK
        <3>3. /\ OpIds' = OpIds /\ cur \in OpIds' /\ ops'[cur].cleanup
                 /\ ops'[cur].set = ops[cur].set
              /\ ops'[cur].state = ops[cur].state /\ Len(ops'[cur].files) = Count
            BY <2>1, <2>4, <3>2 DEF OpMoves, RowMoves, OpIds, Count, Files
        <3>4. Places'
            BY <2>1, <2>2, <2>3, <2>4, <3>1, <3>2, <3>3 DEF IInv, Places
        <3>5. JournalAt'
            BY <2>1, <2>2, <2>3, <2>4, <3>1, <3>2, <3>3 DEF JournalAt, Agrees, IInv
        <3>6. Len(sibling[cur]) = Count
            BY <2>1, <2>2, SiblingsTyped DEF IInv, TypeOK
        <3>7. \A j \in (idx + 1)..Count : sibling[cur][j] = None /\ Files[j].staged = None
            BY <2>1, <3>6 DEF IInv, SiblingsCome
        <3>8. \A j \in 1..Count : ops'[cur].files[j].staged = IF j = idx THEN Locator ELSE Files[j].staged
            BY <2>1, <3>2 DEF RowMoves, Count, Files
        <3>9. \A j \in (idx + 1)..Count : ops'[cur].files[j].staged = None
            BY <2>2, <3>7, <3>8
        <3>10. SiblingsCome'
            BY <2>2, <2>4, <3>1, <3>2, <3>6, <3>7, <3>9 DEF SiblingsCome, Row, Files, Locator
        <3>11. Verified' /\ SiblingsGo' /\ OutcomeAt'
            BY <2>1, <3>1 DEF Verified, SiblingsGo, OutcomeAt
        <3>12. Visits' /\ Settled'
            BY <2>1, <2>3, <3>1, <3>3, InnerLoop DEF IInv, Places
        <3> QED
            BY <3>4, <3>5, <3>10, <3>11, <3>12 DEF Control
    <2>5. CASE SetStaged(Locator) /\ ~(idx < Count) /\ Goto("prepared")
        <3>1. /\ pc' = "prepared" /\ cur' = cur /\ idx' = idx /\ known' = known
              /\ phase' = phase /\ todo' = todo
            BY <2>5 DEF Goto, GotoFile, GotoAs, loop
        <3>2. RowMoves("staged", Locator) /\ sibling' = sibling
            BY <1>4, <2>1, <2>2, <2>5, JournalMoves, HereTyped DEF StageJournal, fs, IInv,
               TypeOK
        <3>3. /\ OpIds' = OpIds /\ cur \in OpIds' /\ ops'[cur].cleanup
                 /\ ops'[cur].set = ops[cur].set
              /\ ops'[cur].state = ops[cur].state /\ Len(ops'[cur].files) = Count
            BY <2>1, <2>5, <3>2 DEF OpMoves, RowMoves, OpIds, Count, Files
        <3>4. Places'
            BY <2>1, <2>2, <2>3, <2>5, <3>1, <3>2, <3>3 DEF IInv, Places
        <3>5. JournalAt'
            BY <2>1, <2>2, <2>3, <2>5, <3>1, <3>2, <3>3 DEF JournalAt, Agrees, IInv
        <3>6. Verified' /\ SiblingsGo' /\ SiblingsCome' /\ OutcomeAt'
            BY <2>1, <3>1 DEF Verified, SiblingsGo, SiblingsCome, OutcomeAt
        <3>7. Visits' /\ Settled'
            BY <2>1, <2>3, <3>1, <3>3, InnerLoop DEF IInv, Places
        <3> QED
            BY <3>4, <3>5, <3>6, <3>7 DEF Control
    <2>6. CASE UNCHANGED ops /\ GotoAs("require", "preparing")
        <3>1. /\ pc' = "require" /\ cur' = cur /\ idx' = idx /\ known' = "preparing"
              /\ phase' = phase /\ todo' = todo
            BY <2>6 DEF Goto, GotoFile, GotoAs, loop
        <3>2. ops' = ops
            BY <1>4, <2>6 DEF StageJournal, db
        <3>3. /\ OpIds' = OpIds /\ cur \in OpIds' /\ ops'[cur].cleanup
                 /\ ops'[cur].set = ops[cur].set
              /\ ops'[cur].state = ops[cur].state /\ Len(ops'[cur].files) = Count
            BY <2>1, <2>6, <3>2 DEF OpMoves, RowMoves, OpIds, Count, Files
        <3>4. Places'
            BY <2>1, <2>2, <2>3, <2>6, <3>1, <3>2, <3>3 DEF IInv, Places
        <3>5. JournalAt'
            BY <2>1, <2>2, <2>3, <2>6, <3>1, <3>2, <3>3 DEF JournalAt, Agrees, IInv
        <3>6. Verified' /\ SiblingsGo' /\ SiblingsCome' /\ OutcomeAt'
            BY <2>1, <3>1 DEF Verified, SiblingsGo, SiblingsCome, OutcomeAt
        <3>7. Visits' /\ Settled'
            BY <2>1, <2>3, <3>1, <3>3, InnerLoop DEF IInv, Places
        <3> QED
            BY <3>4, <3>5, <3>6, <3>7 DEF Control
    <2> QED
        BY <1>4, <2>1, <2>4, <2>5, <2>6 DEF StageJournal
<1> QED
    BY <1>1, <1>2, <1>3, <1>4


(* The exchanges, their record and the last verification.                  *)
LEMMA ApplySteps ==
    ASSUME IInv, Effect,
           ToPrepared \/ ToApplying \/ ApplyCheck \/ ApplySwap \/ ApplyVerify \/ RecordApplied
           \/ RecordVerified \/ CheckGit \/ ToVerifying \/ LostVerifying \/ FinalVerify
              \/ ToCompleted
    PROVE  Control' /\ Visits' /\ Settled'
<1> USE DEF Staging, Swapping, Recording, Backing, Aborting, Unstaging, AtFile, Called
<1>1. CASE ToPrepared
    <2>1. /\ pc = "prepared" /\ pc \in Called /\ cur \in OpIds /\ ops[cur].cleanup
          /\ ops[cur].state = "preparing" /\ known = "preparing" /\ phase = "serving"
        BY <1>1 DEF IInv, ToPrepared, Move, Places, JournalAt, TypeOK, CallTyped
    <2>2. Count = Len(Manifest[ops[cur].set]) /\ Count \in Nat \ {0}
        BY <2>1, RowsTyped DEF IInv, TypeOK, Count, Files
    <2>3. (faults' = faults \/ faults' = faults + 1) /\ faults \in Nat
        BY <1>1 DEF ToPrepared, Move, Fault, NoFault, IInv, TypeOK, CallTyped
    <2>4. CASE SetOp("prepared") /\ Goto("applying")
        <3>1. /\ pc' = "applying" /\ cur' = cur /\ idx' = idx /\ known' = known
              /\ phase' = phase /\ todo' = todo
            BY <2>4 DEF Goto, GotoFile, GotoAs, loop
        <3>2. OpMoves("prepared") /\ sibling' = sibling /\ target' = target /\ base' = base
            BY <1>1, <2>1, <2>4, SetOpMoves DEF ToPrepared, Move, Move, fs, world, IInv,
               TypeOK, OpStates
        <3>3. /\ OpIds' = OpIds /\ cur \in OpIds' /\ ops'[cur].cleanup
                 /\ ops'[cur].set = ops[cur].set
              /\ ops'[cur].state = "prepared" /\ Len(ops'[cur].files) = Count
            BY <2>1, <2>4, <3>2 DEF OpMoves, RowMoves, OpIds, Count, Files
        <3>4. Places'
            BY <2>1, <2>2, <2>3, <2>4, <3>1, <3>2, <3>3 DEF IInv, Places
        <3>5. JournalAt'
            BY <2>1, <2>2, <2>3, <2>4, <3>1, <3>2, <3>3 DEF JournalAt, Agrees, IInv
        <3>6. Verified' /\ SiblingsGo' /\ SiblingsCome' /\ OutcomeAt'
            BY <2>1, <3>1 DEF Verified, SiblingsGo, SiblingsCome, OutcomeAt
        <3>7. Visits' /\ Settled'
            BY <2>1, <2>3, <3>1, <3>3, InnerLoop DEF IInv, Places
        <3> QED
            BY <3>4, <3>5, <3>6, <3>7 DEF Control
    <2>5. CASE UNCHANGED ops /\ GotoAs("require", "preparing")
        <3>1. /\ pc' = "require" /\ cur' = cur /\ idx' = idx /\ known' = "preparing"
              /\ phase' = phase /\ todo' = todo
            BY <2>5 DEF Goto, GotoFile, GotoAs, loop
        <3>2. ops' = ops
            BY <1>1, <2>5 DEF ToPrepared, Move, db
        <3>3. /\ OpIds' = OpIds /\ cur \in OpIds' /\ ops'[cur].cleanup
                 /\ ops'[cur].set = ops[cur].set
              /\ ops'[cur].state = ops[cur].state /\ Len(ops'[cur].files) = Count
            BY <2>1, <2>5, <3>2 DEF OpMoves, RowMoves, OpIds, Count, Files
        <3>4. Places'
            BY <2>1, <2>2, <2>3, <2>5, <3>1, <3>2, <3>3 DEF IInv, Places
        <3>5. JournalAt'
            BY <2>1, <2>2, <2>3, <2>5, <3>1, <3>2, <3>3 DEF JournalAt, Agrees, IInv
        <3>6. Verified' /\ SiblingsGo' /\ SiblingsCome' /\ OutcomeAt'
            BY <2>1, <3>1 DEF Verified, SiblingsGo, SiblingsCome, OutcomeAt
        <3>7. Visits' /\ Settled'
            BY <2>1, <2>3, <3>1, <3>3, InnerLoop DEF IInv, Places
        <3> QED
            BY <3>4, <3>5, <3>6, <3>7 DEF Control
    <2> QED
        BY <1>1, <2>1, <2>4, <2>5 DEF ToPrepared, Move
<1>2. CASE ToApplying
    <2>1. /\ pc = "applying" /\ pc \in Called /\ cur \in OpIds /\ ops[cur].cleanup
          /\ ops[cur].state = "prepared" /\ phase = "serving"
        BY <1>2 DEF IInv, ToApplying, Move, Places, JournalAt, TypeOK, CallTyped
    <2>2. Count = Len(Manifest[ops[cur].set]) /\ Count \in Nat \ {0}
        BY <2>1, RowsTyped DEF IInv, TypeOK, Count, Files
    <2>3. (faults' = faults \/ faults' = faults + 1) /\ faults \in Nat
        BY <1>2 DEF ToApplying, Move, Fault, NoFault, IInv, TypeOK, CallTyped
    <2>4. CASE SetOp("applying") /\ pc' = "apply" /\ idx' = 1 /\ known' = "applying"
               /\ UNCHANGED <<cur, loop>>
        <3>1. /\ pc' = "apply" /\ cur' = cur /\ idx' = 1 /\ known' = "applying"
              /\ phase' = phase /\ todo' = todo
            BY <2>4 DEF Goto, GotoFile, GotoAs, loop
        <3>2. OpMoves("applying") /\ sibling' = sibling /\ target' = target /\ base' = base
            BY <1>2, <2>1, <2>4, SetOpMoves DEF ToApplying, Move, Move, fs, world, IInv,
               TypeOK, OpStates
        <3>3. /\ OpIds' = OpIds /\ cur \in OpIds' /\ ops'[cur].cleanup
                 /\ ops'[cur].set = ops[cur].set
              /\ ops'[cur].state = "applying" /\ Len(ops'[cur].files) = Count
            BY <2>1, <2>4, <3>2 DEF OpMoves, RowMoves, OpIds, Count, Files
        <3>4. Places'
            BY <2>1, <2>2, <2>3, <2>4, <3>1, <3>2, <3>3 DEF IInv, Places
        <3>5. JournalAt'
            BY <2>1, <2>2, <2>3, <2>4, <3>1, <3>2, <3>3 DEF JournalAt, Agrees, IInv
        <3>6. Verified'
            BY <3>1 DEF Verified
        <3>7. SiblingsGo' /\ SiblingsCome' /\ OutcomeAt'
            BY <2>1, <3>1 DEF SiblingsGo, SiblingsCome, OutcomeAt
        <3>8. Visits' /\ Settled'
            BY <2>1, <2>3, <3>1, <3>3, InnerLoop DEF IInv, Places
        <3> QED
            BY <3>4, <3>5, <3>6, <3>7, <3>8 DEF Control
    <2>5. CASE UNCHANGED ops /\ GotoAs("require", "prepared")
        <3>1. /\ pc' = "require" /\ cur' = cur /\ idx' = idx /\ known' = "prepared"
              /\ phase' = phase /\ todo' = todo
            BY <2>5 DEF Goto, GotoFile, GotoAs, loop
        <3>2. ops' = ops
            BY <1>2, <2>5 DEF ToApplying, Move, db
        <3>3. /\ OpIds' = OpIds /\ cur \in OpIds' /\ ops'[cur].cleanup
                 /\ ops'[cur].set = ops[cur].set
              /\ ops'[cur].state = ops[cur].state /\ Len(ops'[cur].files) = Count
            BY <2>1, <2>5, <3>2 DEF OpMoves, RowMoves, OpIds, Count, Files
        <3>4. Places'
            BY <2>1, <2>2, <2>3, <2>5, <3>1, <3>2, <3>3 DEF IInv, Places
        <3>5. JournalAt'
            BY <2>1, <2>2, <2>3, <2>5, <3>1, <3>2, <3>3 DEF JournalAt, Agrees, IInv
        <3>6. Verified' /\ SiblingsGo' /\ SiblingsCome' /\ OutcomeAt'
            BY <2>1, <3>1 DEF Verified, SiblingsGo, SiblingsCome, OutcomeAt
        <3>7. Visits' /\ Settled'
            BY <2>1, <2>3, <3>1, <3>3, InnerLoop DEF IInv, Places
        <3> QED
            BY <3>4, <3>5, <3>6, <3>7 DEF Control
    <2> QED
        BY <1>2, <2>1, <2>4, <2>5 DEF ToApplying, Move
<1>3. CASE ApplyCheck
    <2>1. /\ pc = "apply" /\ pc \in Called /\ cur \in OpIds /\ ops[cur].cleanup
          /\ ops[cur].state = "applying" /\ known = "applying" /\ phase = "serving"
        BY <1>3 DEF IInv, ApplyCheck, Places, JournalAt, TypeOK, CallTyped
    <2>2. AtRow /\ idx \in 1..Count /\ Count = Len(Manifest[ops[cur].set]) /\ idx \in Nat
          /\ Count \in Nat
        BY <2>1, AtRowHere, HereTyped DEF IInv, AtRow
    <2>3. (faults' = faults \/ faults' = faults + 1) /\ faults \in Nat
        BY <1>3 DEF ApplyCheck, Fault, NoFault, IInv, TypeOK, CallTyped
    <2>4. CASE PairIsUnapplied(cur, idx) /\ Goto("swap")
        <3>1. /\ pc' = "swap" /\ cur' = cur /\ idx' = idx /\ known' = known
              /\ phase' = phase /\ todo' = todo
            BY <2>4 DEF Goto, GotoFile, GotoAs, loop
        <3>2. ops' = ops /\ sibling' = sibling /\ target' = target /\ base' = base
            BY <1>3, <2>1, <2>4 DEF ApplyCheck, fs, db, world
        <3>3. /\ OpIds' = OpIds /\ cur \in OpIds' /\ ops'[cur].cleanup
                 /\ ops'[cur].set = ops[cur].set
              /\ ops'[cur].state = ops[cur].state /\ Len(ops'[cur].files) = Count
            BY <2>1, <2>4, <3>2 DEF OpMoves, RowMoves, OpIds, Count, Files
        <3>4. Places'
            BY <2>1, <2>2, <2>3, <2>4, <3>1, <3>2, <3>3 DEF IInv, Places
        <3>5. JournalAt'
            BY <2>1, <2>2, <2>3, <2>4, <3>1, <3>2, <3>3 DEF JournalAt, Agrees, IInv
        <3>6. Verified'
            BY <2>1, <2>2, <2>3, <2>4, <3>1, <3>2, <3>3 DEF IInv, Verified, FilesOf, Row,
               Files, Count
        <3>7. SiblingsCome'
            BY <2>1, <2>2, <2>3, <2>4, <3>1, <3>2, <3>3 DEF SiblingsCome, PairIsUnapplied,
               Row, Files, Locator
        <3>8. SiblingsGo' /\ OutcomeAt'
            BY <2>1, <3>1 DEF SiblingsGo, OutcomeAt
        <3>9. Visits' /\ Settled'
            BY <2>1, <2>3, <3>1, <3>3, InnerLoop DEF IInv, Places
        <3> QED
            BY <3>4, <3>5, <3>6, <3>7, <3>8, <3>9 DEF Control
    <2>5. CASE Goto("rollback")
        <3>1. /\ pc' = "rollback" /\ cur' = cur /\ idx' = idx /\ known' = known
              /\ phase' = phase /\ todo' = todo
            BY <2>5 DEF Goto, GotoFile, GotoAs, loop
        <3>2. ops' = ops
            BY <1>3, <2>5 DEF ApplyCheck, db
        <3>3. /\ OpIds' = OpIds /\ cur \in OpIds' /\ ops'[cur].cleanup
                 /\ ops'[cur].set = ops[cur].set
              /\ ops'[cur].state = ops[cur].state /\ Len(ops'[cur].files) = Count
            BY <2>1, <2>5, <3>2 DEF OpMoves, RowMoves, OpIds, Count, Files
        <3>4. Places'
            BY <2>1, <2>2, <2>3, <2>5, <3>1, <3>2, <3>3 DEF IInv, Places
        <3>5. JournalAt'
            BY <2>1, <2>2, <2>3, <2>5, <3>1, <3>2, <3>3 DEF JournalAt, Agrees, IInv
        <3>6. Verified' /\ SiblingsGo' /\ SiblingsCome' /\ OutcomeAt'
            BY <2>1, <3>1 DEF Verified, SiblingsGo, SiblingsCome, OutcomeAt
        <3>7. Visits' /\ Settled'
            BY <2>1, <2>3, <3>1, <3>3, InnerLoop DEF IInv, Places
        <3> QED
            BY <3>4, <3>5, <3>6, <3>7 DEF Control
    <2> QED
        BY <1>3, <2>1, <2>4, <2>5 DEF ApplyCheck
<1>4. CASE ApplySwap
    <2>1. /\ pc = "swap" /\ pc \in Called /\ cur \in OpIds /\ ops[cur].cleanup
          /\ ops[cur].state = "applying" /\ known = "applying" /\ phase = "serving"
        BY <1>4 DEF IInv, ApplySwap, Places, JournalAt, TypeOK, CallTyped
    <2>2. AtRow /\ idx \in 1..Count /\ Count = Len(Manifest[ops[cur].set]) /\ idx \in Nat
          /\ Count \in Nat
        BY <2>1, AtRowHere, HereTyped DEF IInv, AtRow
    <2>3. (faults' = faults \/ faults' = faults + 1) /\ faults \in Nat
        BY <1>4 DEF ApplySwap, Fault, NoFault, IInv, TypeOK, CallTyped
    <2>4. CASE Exchange /\ Goto("swapped")
        <3>1. /\ pc' = "swapped" /\ cur' = cur /\ idx' = idx /\ known' = known
              /\ phase' = phase /\ todo' = todo
            BY <2>4 DEF Goto, GotoFile, GotoAs, loop
        <3>2. LocatorMoves(target[Here]) /\ ops' = ops
            <4>1. target[Here] \in FileType \cup {None}
                BY <2>1, <2>2, HereTyped, NoneAssumption DEF IInv, TypeOK
            <4>2. LocatorMoves(target[Here])
                BY <2>1, <2>2, <2>4, <4>1, SetLocatorMoves, HereTyped DEF IInv, TypeOK, Exchange
            <4> QED
                BY <1>4, <4>2 DEF ApplySwap, db
        <3>3. /\ OpIds' = OpIds /\ cur \in OpIds' /\ ops'[cur].cleanup
                 /\ ops'[cur].set = ops[cur].set
              /\ ops'[cur].state = ops[cur].state /\ Len(ops'[cur].files) = Count
            BY <2>1, <2>4, <3>2 DEF OpMoves, RowMoves, OpIds, Count, Files
        <3>4. Places'
            BY <2>1, <2>2, <2>3, <2>4, <3>1, <3>2, <3>3 DEF IInv, Places
        <3>5. JournalAt'
            BY <2>1, <2>2, <2>3, <2>4, <3>1, <3>2, <3>3 DEF JournalAt, Agrees, IInv
        <3>6. Verified'
            BY <2>1, <2>2, <2>3, <2>4, <3>1, <3>2, <3>3 DEF IInv, Verified, FilesOf, Row,
               Files, Count
        <3>7. SiblingsGo' /\ SiblingsCome' /\ OutcomeAt'
            BY <2>1, <3>1 DEF SiblingsGo, SiblingsCome, OutcomeAt
        <3>8. Visits' /\ Settled'
            BY <2>1, <2>3, <3>1, <3>3, InnerLoop DEF IInv, Places
        <3> QED
            BY <3>4, <3>5, <3>6, <3>7, <3>8 DEF Control
    <2>5. CASE Goto("rollback")
        <3>1. /\ pc' = "rollback" /\ cur' = cur /\ idx' = idx /\ known' = known
              /\ phase' = phase /\ todo' = todo
            BY <2>5 DEF Goto, GotoFile, GotoAs, loop
        <3>2. ops' = ops
            BY <1>4, <2>5 DEF ApplySwap, db
        <3>3. /\ OpIds' = OpIds /\ cur \in OpIds' /\ ops'[cur].cleanup
                 /\ ops'[cur].set = ops[cur].set
              /\ ops'[cur].state = ops[cur].state /\ Len(ops'[cur].files) = Count
            BY <2>1, <2>5, <3>2 DEF OpMoves, RowMoves, OpIds, Count, Files
        <3>4. Places'
            BY <2>1, <2>2, <2>3, <2>5, <3>1, <3>2, <3>3 DEF IInv, Places
        <3>5. JournalAt'
            BY <2>1, <2>2, <2>3, <2>5, <3>1, <3>2, <3>3 DEF JournalAt, Agrees, IInv
        <3>6. Verified' /\ SiblingsGo' /\ SiblingsCome' /\ OutcomeAt'
            BY <2>1, <3>1 DEF Verified, SiblingsGo, SiblingsCome, OutcomeAt
        <3>7. Visits' /\ Settled'
            BY <2>1, <2>3, <3>1, <3>3, InnerLoop DEF IInv, Places
        <3> QED
            BY <3>4, <3>5, <3>6, <3>7 DEF Control
    <2> QED
        BY <1>4, <2>1, <2>4, <2>5 DEF ApplySwap
<1>5. CASE ApplyVerify
    <2>1. /\ pc = "swapped" /\ pc \in Called /\ cur \in OpIds /\ ops[cur].cleanup
          /\ ops[cur].state = "applying" /\ known = "applying" /\ phase = "serving"
        BY <1>5 DEF IInv, ApplyVerify, Places, JournalAt, TypeOK, CallTyped
    <2>2. AtRow /\ idx \in 1..Count /\ Count = Len(Manifest[ops[cur].set]) /\ idx \in Nat
          /\ Count \in Nat
        BY <2>1, AtRowHere, HereTyped DEF IInv, AtRow
    <2>3. (faults' = faults \/ faults' = faults + 1) /\ faults \in Nat
        BY <1>5 DEF ApplyVerify, Fault, NoFault, IInv, TypeOK, CallTyped
    <2>4. CASE Goto("applied")
        <3>1. /\ pc' = "applied" /\ cur' = cur /\ idx' = idx /\ known' = known
              /\ phase' = phase /\ todo' = todo
            BY <2>4 DEF Goto, GotoFile, GotoAs, loop
        <3>2. ops' = ops /\ sibling' = sibling /\ target' = target /\ base' = base
            BY <1>5, <2>1, <2>4 DEF ApplyVerify, fs, db, world
        <3>3. /\ OpIds' = OpIds /\ cur \in OpIds' /\ ops'[cur].cleanup
                 /\ ops'[cur].set = ops[cur].set
              /\ ops'[cur].state = ops[cur].state /\ Len(ops'[cur].files) = Count
            BY <2>1, <2>4, <3>2 DEF OpMoves, RowMoves, OpIds, Count, Files
        <3>4. Places'
            BY <2>1, <2>2, <2>3, <2>4, <3>1, <3>2, <3>3 DEF IInv, Places
        <3>5. JournalAt'
            BY <2>1, <2>2, <2>3, <2>4, <3>1, <3>2, <3>3 DEF JournalAt, Agrees, IInv
        <3>6. Verified'
            BY <2>1, <2>2, <2>3, <2>4, <3>1, <3>2, <3>3 DEF IInv, Verified, FilesOf, Row,
               Files, Count
        <3>7. SiblingsGo' /\ SiblingsCome' /\ OutcomeAt'
            BY <2>1, <3>1 DEF SiblingsGo, SiblingsCome, OutcomeAt
        <3>8. Visits' /\ Settled'
            BY <2>1, <2>3, <3>1, <3>3, InnerLoop DEF IInv, Places
        <3> QED
            BY <3>4, <3>5, <3>6, <3>7, <3>8 DEF Control
    <2>5. CASE Goto("rollback")
        <3>1. /\ pc' = "rollback" /\ cur' = cur /\ idx' = idx /\ known' = known
              /\ phase' = phase /\ todo' = todo
            BY <2>5 DEF Goto, GotoFile, GotoAs, loop
        <3>2. ops' = ops
            BY <1>5, <2>5 DEF ApplyVerify, db
        <3>3. /\ OpIds' = OpIds /\ cur \in OpIds' /\ ops'[cur].cleanup
                 /\ ops'[cur].set = ops[cur].set
              /\ ops'[cur].state = ops[cur].state /\ Len(ops'[cur].files) = Count
            BY <2>1, <2>5, <3>2 DEF OpMoves, RowMoves, OpIds, Count, Files
        <3>4. Places'
            BY <2>1, <2>2, <2>3, <2>5, <3>1, <3>2, <3>3 DEF IInv, Places
        <3>5. JournalAt'
            BY <2>1, <2>2, <2>3, <2>5, <3>1, <3>2, <3>3 DEF JournalAt, Agrees, IInv
        <3>6. Verified' /\ SiblingsGo' /\ SiblingsCome' /\ OutcomeAt'
            BY <2>1, <3>1 DEF Verified, SiblingsGo, SiblingsCome, OutcomeAt
        <3>7. Visits' /\ Settled'
            BY <2>1, <2>3, <3>1, <3>3, InnerLoop DEF IInv, Places
        <3> QED
            BY <3>4, <3>5, <3>6, <3>7 DEF Control
    <2> QED
        BY <1>5, <2>1, <2>4, <2>5 DEF ApplyVerify
<1>6. CASE RecordApplied
    <2>1. /\ pc = "applied" /\ pc \in Called /\ cur \in OpIds /\ ops[cur].cleanup
          /\ known = ops[cur].state /\ known \in {"applying", "verifying"}
          /\ (phase = "serving" => known = "applying") /\ phase \in {"serving", "recovering"}
        BY <1>6 DEF IInv, RecordApplied, RecordFailed, Places, JournalAt, TypeOK, CallTyped
    <2>2. AtRow /\ idx \in 1..Count /\ Count = Len(Manifest[ops[cur].set]) /\ idx \in Nat
          /\ Count \in Nat
        BY <2>1, AtRowHere, HereTyped DEF IInv, AtRow
    <2>3. (faults' = faults \/ faults' = faults + 1) /\ faults \in Nat
        BY <1>6 DEF RecordApplied, RecordFailed, Fault, NoFault, IInv, TypeOK, CallTyped
    <2>4. ~Names
        BY <2>1 DEF Names
    <2>5. CASE SetFile("applied") /\ Goto("verified")
        <3>1. /\ pc' = "verified" /\ cur' = cur /\ idx' = idx /\ known' = known
              /\ phase' = phase /\ todo' = todo
            BY <2>5 DEF Goto, GotoFile, GotoAs, loop
        <3>2. RowMoves("applied", Row.staged) /\ sibling' = sibling /\ target' = target
              /\ base' = base
            BY <1>6, <2>1, <2>2, <2>5, SetFileMoves DEF RecordApplied, RecordFailed, Count,
               Files, fs, world, IInv, TypeOK, FileStates
        <3>3. /\ OpIds' = OpIds /\ cur \in OpIds' /\ ops'[cur].cleanup
                 /\ ops'[cur].set = ops[cur].set
              /\ ops'[cur].state = ops[cur].state /\ Len(ops'[cur].files) = Count
            BY <2>1, <2>5, <3>2 DEF OpMoves, RowMoves, OpIds, Count, Files
        <3>4. Places'
            BY <2>1, <2>2, <2>4, <2>3, <2>5, <3>1, <3>2, <3>3 DEF IInv, Places
        <3>5. JournalAt'
            BY <2>1, <2>2, <2>4, <2>3, <2>5, <3>1, <3>2, <3>3 DEF JournalAt, Agrees, IInv
        <3>6. \A j \in 1..Count : ops'[cur].files[j].state = IF j = idx THEN "applied" ELSE Files[j].state
            BY <2>1, <3>2 DEF RowMoves, Count, Files
        <3>7. Verified'
            BY <2>1, <2>2, <2>4, <2>3, <2>5, <3>1, <3>2, <3>3, <3>6, SMTT(30) DEF IInv,
               Verified, Row, Files
        <3>8. phase = "recovering" => \A i \in DOMAIN Manifest[ops[cur].set] : Restored(cur, i)
            BY <2>1 DEF IInv, OutcomeAt
        <3>9. \A i \in DOMAIN Manifest[ops[cur].set] : Restored(cur, i) => Restored(cur, i)'
            BY <2>1, <2>4, <3>1, <3>2, OutcomesStay DEF IInv
        <3>10. OutcomeAt'
            BY <2>1, <2>5, <3>1, <3>3, <3>8, <3>9 DEF OutcomeAt
        <3>11. SiblingsGo' /\ SiblingsCome'
            BY <2>1, <3>1 DEF SiblingsGo, SiblingsCome
        <3>12. Visits' /\ Settled'
            BY <2>1, <2>3, <3>1, <3>3, InnerLoop DEF IInv, Places
        <3> QED
            BY <3>4, <3>5, <3>7, <3>10, <3>11, <3>12 DEF Control
    <2>6. CASE UNCHANGED ops /\ Row.state # "staged" /\ Goto("verified")
        <3>1. /\ pc' = "verified" /\ cur' = cur /\ idx' = idx /\ known' = known
              /\ phase' = phase /\ todo' = todo
            BY <2>6 DEF Goto, GotoFile, GotoAs, loop
        <3>2. ops' = ops /\ sibling' = sibling /\ target' = target /\ base' = base
            BY <1>6, <2>1, <2>6 DEF RecordApplied, RecordFailed, fs, db, world
        <3>3. /\ OpIds' = OpIds /\ cur \in OpIds' /\ ops'[cur].cleanup
                 /\ ops'[cur].set = ops[cur].set
              /\ ops'[cur].state = ops[cur].state /\ Len(ops'[cur].files) = Count
            BY <2>1, <2>6, <3>2 DEF OpMoves, RowMoves, OpIds, Count, Files
        <3>4. Places'
            BY <2>1, <2>2, <2>4, <2>3, <2>6, <3>1, <3>2, <3>3 DEF IInv, Places
        <3>5. JournalAt'
            BY <2>1, <2>2, <2>4, <2>3, <2>6, <3>1, <3>2, <3>3 DEF JournalAt, Agrees, IInv
        <3>6. Row.state \in {"applied", "verified"}
            BY <2>1, <2>2, <2>6 DEF IInv, FilesFollow, FilesOf, Row, Files, Count
        <3>7. Verified'
            BY <2>1, <2>2, <2>4, <2>3, <2>6, <3>1, <3>2, <3>3, <3>6 DEF IInv, Verified,
               FilesOf, Row, Files, Count
        <3>8. phase = "recovering" => \A i \in DOMAIN Manifest[ops[cur].set] : Restored(cur, i)
            BY <2>1 DEF IInv, OutcomeAt
        <3>9. \A i \in DOMAIN Manifest[ops[cur].set] : Restored(cur, i) => Restored(cur, i)'
            BY <2>1, <2>4, <3>1, <3>2, OutcomesStay DEF IInv
        <3>10. OutcomeAt'
            BY <2>1, <2>6, <3>1, <3>3, <3>8, <3>9 DEF OutcomeAt
        <3>11. SiblingsGo' /\ SiblingsCome'
            BY <2>1, <3>1 DEF SiblingsGo, SiblingsCome
        <3>12. Visits' /\ Settled'
            BY <2>1, <2>3, <3>1, <3>3, InnerLoop DEF IInv, Places
        <3> QED
            BY <3>4, <3>5, <3>7, <3>10, <3>11, <3>12 DEF Control
    <2>7. CASE UNCHANGED ops /\ Goto("rollback")
        <3>1. /\ pc' = "rollback" /\ cur' = cur /\ idx' = idx /\ known' = known
              /\ phase' = phase /\ todo' = todo
            BY <2>7 DEF Goto, GotoFile, GotoAs, loop
        <3>2. ops' = ops
            BY <1>6, <2>7 DEF RecordApplied, RecordFailed, db
        <3>3. /\ OpIds' = OpIds /\ cur \in OpIds' /\ ops'[cur].cleanup
                 /\ ops'[cur].set = ops[cur].set
              /\ ops'[cur].state = ops[cur].state /\ Len(ops'[cur].files) = Count
            BY <2>1, <2>7, <3>2 DEF OpMoves, RowMoves, OpIds, Count, Files
        <3>4. Places'
            BY <2>1, <2>2, <2>4, <2>3, <2>7, <3>1, <3>2, <3>3 DEF IInv, Places
        <3>5. JournalAt'
            BY <2>1, <2>2, <2>4, <2>3, <2>7, <3>1, <3>2, <3>3 DEF JournalAt, Agrees, IInv
        <3>6. Verified' /\ SiblingsGo' /\ SiblingsCome' /\ OutcomeAt'
            BY <2>1, <3>1 DEF Verified, SiblingsGo, SiblingsCome, OutcomeAt
        <3>7. Visits' /\ Settled'
            BY <2>1, <2>3, <3>1, <3>3, InnerLoop DEF IInv, Places
        <3> QED
            BY <3>4, <3>5, <3>6, <3>7 DEF Control
    <2>8. CASE UNCHANGED ops /\ Fault /\ phase # "serving" /\ known = "applying" /\ Goto("lost")
        <3>1. /\ pc' = "lost" /\ cur' = cur /\ idx' = idx /\ known' = known
              /\ phase' = phase /\ todo' = todo
            BY <2>8 DEF Goto, GotoFile, GotoAs, loop
        <3>2. ops' = ops
            BY <1>6, <2>8 DEF RecordApplied, RecordFailed, db
        <3>3. /\ OpIds' = OpIds /\ cur \in OpIds' /\ ops'[cur].cleanup
                 /\ ops'[cur].set = ops[cur].set
              /\ ops'[cur].state = ops[cur].state /\ Len(ops'[cur].files) = Count
            BY <2>1, <2>8, <3>2 DEF OpMoves, RowMoves, OpIds, Count, Files
        <3>4. faults' > 0
            BY <2>3, <2>8 DEF Fault
        <3>5. Places'
            BY <2>1, <2>2, <2>4, <2>3, <2>8, <3>1, <3>2, <3>3, <3>4 DEF IInv, Places
        <3>6. JournalAt'
            BY <2>1, <2>2, <2>4, <2>3, <2>8, <3>1, <3>2, <3>3, <3>4 DEF JournalAt, Agrees, IInv
        <3>7. Verified' /\ SiblingsGo' /\ SiblingsCome' /\ OutcomeAt'
            BY <2>1, <3>1 DEF Verified, SiblingsGo, SiblingsCome, OutcomeAt
        <3>8. Visits' /\ Settled'
            BY <2>1, <2>3, <3>1, <3>3, InnerLoop DEF IInv, Places
        <3> QED
            BY <3>5, <3>6, <3>7, <3>8 DEF Control
    <2> QED
        BY <1>6, <2>1, <2>4, <2>5, <2>6, <2>7, <2>8 DEF RecordApplied, RecordFailed
<1>7. CASE RecordVerified
    <2>1. /\ pc = "verified" /\ pc \in Called /\ cur \in OpIds /\ ops[cur].cleanup
          /\ known = ops[cur].state /\ known \in {"applying", "verifying"}
          /\ (phase = "serving" => known = "applying") /\ phase \in {"serving", "recovering"}
        BY <1>7 DEF IInv, RecordVerified, RecordFailed, Recorded, Places, JournalAt, TypeOK,
           CallTyped
    <2>2. AtRow /\ idx \in 1..Count /\ Count = Len(Manifest[ops[cur].set]) /\ idx \in Nat
          /\ Count \in Nat
        BY <2>1, AtRowHere, HereTyped DEF IInv, AtRow
    <2>3. (faults' = faults \/ faults' = faults + 1) /\ faults \in Nat
        BY <1>7 DEF RecordVerified, RecordFailed, Recorded, Fault, NoFault, IInv, TypeOK,
           CallTyped
    <2>4. ~Names
        BY <2>1 DEF Names
    <2>5. SetFile("verified") => RowMoves("verified", Row.staged)
        BY <2>1, <2>2, SetFileMoves DEF Count, Files, IInv, TypeOK, FileStates
    <2>6. (SetFile("verified") \/ (UNCHANGED ops /\ Row.state = "verified")) =>
             /\ Len(ops') = Len(ops) /\ ops'[cur].set = ops[cur].set
                /\ ops'[cur].cleanup = ops[cur].cleanup
             /\ ops'[cur].state = ops[cur].state /\ Len(ops'[cur].files) = Count
             /\ \A j \in 1..Count : ops'[cur].files[j].state = IF j = idx THEN "verified" ELSE Files[j].state
             /\ target' = target
        BY <1>7, <2>1, <2>2, <2>5 DEF RecordVerified, fs, RowMoves, Count, Files, Row
    <2>7. Row.state \in {"applied", "verified"}
        BY <2>1 DEF IInv, Verified
    <2>8. CASE (SetFile("verified") \/ (UNCHANGED ops /\ Row.state = "verified"))
               /\ idx < Count /\ phase = "serving" /\ GotoFile("apply", idx + 1)
        <3>1. /\ pc' = "apply" /\ cur' = cur /\ idx' = idx + 1 /\ known' = known
              /\ phase' = phase /\ todo' = todo
            BY <2>8 DEF Goto, GotoFile, GotoAs, loop
        <3>2. /\ Len(ops') = Len(ops) /\ ops'[cur].set = ops[cur].set
                 /\ ops'[cur].cleanup = ops[cur].cleanup
              /\ ops'[cur].state = ops[cur].state /\ Len(ops'[cur].files) = Count
              /\ \A j \in 1..Count : ops'[cur].files[j].state = IF j = idx THEN "verified" ELSE Files[j].state
              /\ target' = target
            BY <2>6, <2>8
        <3>3. /\ OpIds' = OpIds /\ cur \in OpIds' /\ ops'[cur].cleanup
                 /\ ops'[cur].set = ops[cur].set
              /\ ops'[cur].state = ops[cur].state /\ Len(ops'[cur].files) = Count
            BY <2>1, <2>8, <3>2 DEF OpMoves, RowMoves, OpIds, Count, Files
        <3>4. Places'
            BY <2>1, <2>2, <2>4, <2>5, <2>6, <2>7, <2>3, <2>8, <3>1, <3>2, <3>3 DEF IInv, Places
        <3>5. JournalAt'
            BY <2>1, <2>2, <2>4, <2>5, <2>6, <2>7, <2>3, <2>8, <3>1, <3>2, <3>3 DEF
               JournalAt, Agrees, IInv
        <3>6. \A j \in 1..idx : ops'[cur].files[j].state = "verified"
            BY <2>1, <2>2, <3>2, SMTT(30) DEF IInv, Verified, Files
        <3>7. Verified'
            BY <2>1, <2>2, <2>8, <3>1, <3>3, <3>6 DEF Verified, FilesOf, Row, Files
        <3>8. SiblingsGo' /\ SiblingsCome' /\ OutcomeAt'
            BY <2>1, <3>1 DEF SiblingsGo, SiblingsCome, OutcomeAt
        <3>9. Visits' /\ Settled'
            BY <2>1, <2>3, <3>1, <3>3, InnerLoop DEF IInv, Places
        <3> QED
            BY <3>4, <3>5, <3>7, <3>8, <3>9 DEF Control
    <2>9. CASE (SetFile("verified") \/ (UNCHANGED ops /\ Row.state = "verified"))
               /\ ~(idx < Count) /\ phase = "serving" /\ Goto("git")
        <3>1. /\ pc' = "git" /\ cur' = cur /\ idx' = idx /\ known' = known
              /\ phase' = phase /\ todo' = todo
            BY <2>9 DEF Goto, GotoFile, GotoAs, loop
        <3>2. /\ Len(ops') = Len(ops) /\ ops'[cur].set = ops[cur].set
                 /\ ops'[cur].cleanup = ops[cur].cleanup
              /\ ops'[cur].state = ops[cur].state /\ Len(ops'[cur].files) = Count
              /\ \A j \in 1..Count : ops'[cur].files[j].state = IF j = idx THEN "verified" ELSE Files[j].state
              /\ target' = target
            BY <2>6, <2>9
        <3>3. /\ OpIds' = OpIds /\ cur \in OpIds' /\ ops'[cur].cleanup
                 /\ ops'[cur].set = ops[cur].set
              /\ ops'[cur].state = ops[cur].state /\ Len(ops'[cur].files) = Count
            BY <2>1, <2>9, <3>2 DEF OpMoves, RowMoves, OpIds, Count, Files
        <3>4. Places'
            BY <2>1, <2>2, <2>4, <2>5, <2>6, <2>7, <2>3, <2>9, <3>1, <3>2, <3>3 DEF IInv, Places
        <3>5. JournalAt'
            BY <2>1, <2>2, <2>4, <2>5, <2>6, <2>7, <2>3, <2>9, <3>1, <3>2, <3>3 DEF
               JournalAt, Agrees, IInv
        <3>6. \A j \in 1..idx : ops'[cur].files[j].state = "verified"
            BY <2>1, <2>2, <3>2, SMTT(30) DEF IInv, Verified, Files
        <3>7. Verified'
            BY <2>1, <2>2, <2>9, <3>1, <3>3, <3>6 DEF Verified, FilesOf, Row, Files
        <3>8. SiblingsGo' /\ SiblingsCome' /\ OutcomeAt'
            BY <2>1, <3>1 DEF SiblingsGo, SiblingsCome, OutcomeAt
        <3>9. Visits' /\ Settled'
            BY <2>1, <2>3, <3>1, <3>3, InnerLoop DEF IInv, Places
        <3> QED
            BY <3>4, <3>5, <3>7, <3>8, <3>9 DEF Control
    <2>10. CASE (SetFile("verified") \/ (UNCHANGED ops /\ Row.state = "verified"))
                /\ idx < Count /\ phase # "serving" /\ GotoFile("applied", idx + 1)
        <3>1. /\ pc' = "applied" /\ cur' = cur /\ idx' = idx + 1 /\ known' = known
              /\ phase' = phase /\ todo' = todo
            BY <2>10 DEF Goto, GotoFile, GotoAs, loop
        <3>2. /\ Len(ops') = Len(ops) /\ ops'[cur].set = ops[cur].set
                 /\ ops'[cur].cleanup = ops[cur].cleanup
              /\ ops'[cur].state = ops[cur].state /\ Len(ops'[cur].files) = Count
              /\ \A j \in 1..Count : ops'[cur].files[j].state = IF j = idx THEN "verified" ELSE Files[j].state
              /\ target' = target
            BY <2>6, <2>10
        <3>3. /\ OpIds' = OpIds /\ cur \in OpIds' /\ ops'[cur].cleanup
                 /\ ops'[cur].set = ops[cur].set
              /\ ops'[cur].state = ops[cur].state /\ Len(ops'[cur].files) = Count
            BY <2>1, <2>10, <3>2 DEF OpMoves, RowMoves, OpIds, Count, Files
        <3>4. Places'
            BY <2>1, <2>2, <2>4, <2>5, <2>6, <2>7, <2>3, <2>10, <3>1, <3>2, <3>3 DEF IInv,
               Places
        <3>5. JournalAt'
            BY <2>1, <2>2, <2>4, <2>5, <2>6, <2>7, <2>3, <2>10, <3>1, <3>2, <3>3 DEF
               JournalAt, Agrees, IInv
        <3>6. \A j \in 1..idx : ops'[cur].files[j].state = "verified"
            BY <2>1, <2>2, <3>2, SMTT(30) DEF IInv, Verified, Files
        <3>7. Verified'
            BY <2>1, <2>2, <2>10, <3>1, <3>3, <3>6 DEF Verified, FilesOf, Row, Files
        <3>8. phase = "recovering" => \A i \in DOMAIN Manifest[ops[cur].set] : Restored(cur, i)
            BY <2>1 DEF IInv, OutcomeAt
        <3>9. \A i \in DOMAIN Manifest[ops[cur].set] : Restored(cur, i) => Restored(cur, i)'
            BY <2>1, <2>4, <3>1, <3>2, OutcomesStay DEF IInv
        <3>10. OutcomeAt'
            BY <2>1, <2>10, <3>1, <3>3, <3>8, <3>9 DEF OutcomeAt
        <3>11. SiblingsGo' /\ SiblingsCome'
            BY <2>1, <3>1 DEF SiblingsGo, SiblingsCome
        <3>12. Visits' /\ Settled'
            BY <2>1, <2>3, <3>1, <3>3, InnerLoop DEF IInv, Places
        <3> QED
            BY <3>4, <3>5, <3>7, <3>10, <3>11, <3>12 DEF Control
    <2>11. CASE (SetFile("verified") \/ (UNCHANGED ops /\ Row.state = "verified"))
                /\ ~(idx < Count) /\ phase # "serving" /\ known = "applying" /\ Goto("verifying")
        <3>1. /\ pc' = "verifying" /\ cur' = cur /\ idx' = idx /\ known' = known
              /\ phase' = phase /\ todo' = todo
            BY <2>11 DEF Goto, GotoFile, GotoAs, loop
        <3>2. /\ Len(ops') = Len(ops) /\ ops'[cur].set = ops[cur].set
                 /\ ops'[cur].cleanup = ops[cur].cleanup
              /\ ops'[cur].state = ops[cur].state /\ Len(ops'[cur].files) = Count
              /\ \A j \in 1..Count : ops'[cur].files[j].state = IF j = idx THEN "verified" ELSE Files[j].state
              /\ target' = target
            BY <2>6, <2>11
        <3>3. /\ OpIds' = OpIds /\ cur \in OpIds' /\ ops'[cur].cleanup
                 /\ ops'[cur].set = ops[cur].set
              /\ ops'[cur].state = ops[cur].state /\ Len(ops'[cur].files) = Count
            BY <2>1, <2>11, <3>2 DEF OpMoves, RowMoves, OpIds, Count, Files
        <3>4. Places'
            BY <2>1, <2>2, <2>4, <2>5, <2>6, <2>7, <2>3, <2>11, <3>1, <3>2, <3>3 DEF IInv,
               Places
        <3>5. JournalAt'
            BY <2>1, <2>2, <2>4, <2>5, <2>6, <2>7, <2>3, <2>11, <3>1, <3>2, <3>3 DEF
               JournalAt, Agrees, IInv
        <3>6. \A j \in 1..idx : ops'[cur].files[j].state = "verified"
            BY <2>1, <2>2, <3>2, SMTT(30) DEF IInv, Verified, Files
        <3>7. Verified'
            BY <2>1, <2>2, <2>11, <3>1, <3>3, <3>6 DEF Verified, FilesOf, Row, Files
        <3>8. phase = "recovering" => \A i \in DOMAIN Manifest[ops[cur].set] : Restored(cur, i)
            BY <2>1 DEF IInv, OutcomeAt
        <3>9. \A i \in DOMAIN Manifest[ops[cur].set] : Restored(cur, i) => Restored(cur, i)'
            BY <2>1, <2>4, <3>1, <3>2, OutcomesStay DEF IInv
        <3>10. OutcomeAt'
            BY <2>1, <2>11, <3>1, <3>3, <3>8, <3>9 DEF OutcomeAt
        <3>11. SiblingsGo' /\ SiblingsCome'
            BY <2>1, <3>1 DEF SiblingsGo, SiblingsCome
        <3>12. Visits' /\ Settled'
            BY <2>1, <2>3, <3>1, <3>3, InnerLoop DEF IInv, Places
        <3> QED
            BY <3>4, <3>5, <3>7, <3>10, <3>11, <3>12 DEF Control
    <2>12. CASE (SetFile("verified") \/ (UNCHANGED ops /\ Row.state = "verified"))
                /\ ~(idx < Count) /\ phase # "serving" /\ known # "applying" /\ Goto("completed")
        <3>1. /\ pc' = "completed" /\ cur' = cur /\ idx' = idx /\ known' = known
              /\ phase' = phase /\ todo' = todo
            BY <2>12 DEF Goto, GotoFile, GotoAs, loop
        <3>2. /\ Len(ops') = Len(ops) /\ ops'[cur].set = ops[cur].set
                 /\ ops'[cur].cleanup = ops[cur].cleanup
              /\ ops'[cur].state = ops[cur].state /\ Len(ops'[cur].files) = Count
              /\ \A j \in 1..Count : ops'[cur].files[j].state = IF j = idx THEN "verified" ELSE Files[j].state
              /\ target' = target
            BY <2>6, <2>12
        <3>3. /\ OpIds' = OpIds /\ cur \in OpIds' /\ ops'[cur].cleanup
                 /\ ops'[cur].set = ops[cur].set
              /\ ops'[cur].state = ops[cur].state /\ Len(ops'[cur].files) = Count
            BY <2>1, <2>12, <3>2 DEF OpMoves, RowMoves, OpIds, Count, Files
        <3>4. Places'
            BY <2>1, <2>2, <2>4, <2>5, <2>6, <2>7, <2>3, <2>12, <3>1, <3>2, <3>3 DEF IInv,
               Places
        <3>5. JournalAt'
            BY <2>1, <2>2, <2>4, <2>5, <2>6, <2>7, <2>3, <2>12, <3>1, <3>2, <3>3 DEF
               JournalAt, Agrees, IInv
        <3>6. \A j \in 1..idx : ops'[cur].files[j].state = "verified"
            BY <2>1, <2>2, <3>2, SMTT(30) DEF IInv, Verified, Files
        <3>7. Verified'
            BY <2>1, <2>2, <2>12, <3>1, <3>3, <3>6 DEF Verified, FilesOf, Row, Files
        <3>8. phase = "recovering" => \A i \in DOMAIN Manifest[ops[cur].set] : Restored(cur, i)
            BY <2>1 DEF IInv, OutcomeAt
        <3>9. \A i \in DOMAIN Manifest[ops[cur].set] : Restored(cur, i) => Restored(cur, i)'
            BY <2>1, <2>4, <3>1, <3>2, OutcomesStay DEF IInv
        <3>10. OutcomeAt'
            BY <2>1, <2>12, <3>1, <3>3, <3>8, <3>9 DEF OutcomeAt
        <3>11. SiblingsGo' /\ SiblingsCome'
            BY <2>1, <3>1 DEF SiblingsGo, SiblingsCome
        <3>12. Visits' /\ Settled'
            BY <2>1, <2>3, <3>1, <3>3, InnerLoop DEF IInv, Places
        <3> QED
            BY <3>4, <3>5, <3>7, <3>10, <3>11, <3>12 DEF Control
    <2>13. CASE UNCHANGED ops /\ Goto("rollback")
        <3>1. /\ pc' = "rollback" /\ cur' = cur /\ idx' = idx /\ known' = known
              /\ phase' = phase /\ todo' = todo
            BY <2>13 DEF Goto, GotoFile, GotoAs, loop
        <3>2. ops' = ops
            BY <1>7, <2>13 DEF RecordVerified, RecordFailed, Recorded, db
        <3>3. /\ OpIds' = OpIds /\ cur \in OpIds' /\ ops'[cur].cleanup
                 /\ ops'[cur].set = ops[cur].set
              /\ ops'[cur].state = ops[cur].state /\ Len(ops'[cur].files) = Count
            BY <2>1, <2>13, <3>2 DEF OpMoves, RowMoves, OpIds, Count, Files
        <3>4. Places'
            BY <2>1, <2>2, <2>4, <2>5, <2>6, <2>7, <2>3, <2>13, <3>1, <3>2, <3>3 DEF IInv,
               Places
        <3>5. JournalAt'
            BY <2>1, <2>2, <2>4, <2>5, <2>6, <2>7, <2>3, <2>13, <3>1, <3>2, <3>3 DEF
               JournalAt, Agrees, IInv
        <3>6. Verified' /\ SiblingsGo' /\ SiblingsCome' /\ OutcomeAt'
            BY <2>1, <3>1 DEF Verified, SiblingsGo, SiblingsCome, OutcomeAt
        <3>7. Visits' /\ Settled'
            BY <2>1, <2>3, <3>1, <3>3, InnerLoop DEF IInv, Places
        <3> QED
            BY <3>4, <3>5, <3>6, <3>7 DEF Control
    <2>14. CASE UNCHANGED ops /\ Fault /\ phase # "serving" /\ known = "applying" /\ Goto("lost")
        <3>1. /\ pc' = "lost" /\ cur' = cur /\ idx' = idx /\ known' = known
              /\ phase' = phase /\ todo' = todo
            BY <2>14 DEF Goto, GotoFile, GotoAs, loop
        <3>2. ops' = ops
            BY <1>7, <2>14 DEF RecordVerified, RecordFailed, Recorded, db
        <3>3. /\ OpIds' = OpIds /\ cur \in OpIds' /\ ops'[cur].cleanup
                 /\ ops'[cur].set = ops[cur].set
              /\ ops'[cur].state = ops[cur].state /\ Len(ops'[cur].files) = Count
            BY <2>1, <2>14, <3>2 DEF OpMoves, RowMoves, OpIds, Count, Files
        <3>4. faults' > 0
            BY <2>3, <2>14 DEF Fault
        <3>5. Places'
            BY <2>1, <2>2, <2>4, <2>5, <2>6, <2>7, <2>3, <2>14, <3>1, <3>2, <3>3, <3>4 DEF
               IInv, Places
        <3>6. JournalAt'
            BY <2>1, <2>2, <2>4, <2>5, <2>6, <2>7, <2>3, <2>14, <3>1, <3>2, <3>3, <3>4 DEF
               JournalAt, Agrees, IInv
        <3>7. Verified' /\ SiblingsGo' /\ SiblingsCome' /\ OutcomeAt'
            BY <2>1, <3>1 DEF Verified, SiblingsGo, SiblingsCome, OutcomeAt
        <3>8. Visits' /\ Settled'
            BY <2>1, <2>3, <3>1, <3>3, InnerLoop DEF IInv, Places
        <3> QED
            BY <3>5, <3>6, <3>7, <3>8 DEF Control
    <2> QED
        BY <1>7, <2>1, <2>4, <2>5, <2>6, <2>7, <2>8, <2>9, <2>10, <2>11, <2>12, <2>13, <2>14
           DEF RecordVerified, RecordFailed, Recorded
<1>8. CASE CheckGit
    <2>1. /\ pc = "git" /\ pc \in Called /\ cur \in OpIds /\ ops[cur].cleanup
          /\ ops[cur].state = "applying" /\ known = "applying" /\ phase = "serving"
        BY <1>8 DEF IInv, CheckGit, Places, JournalAt, TypeOK, CallTyped
    <2>2. Count = Len(Manifest[ops[cur].set]) /\ Count \in Nat \ {0}
        BY <2>1, RowsTyped DEF IInv, TypeOK, Count, Files
    <2>3. (faults' = faults \/ faults' = faults + 1) /\ faults \in Nat
        BY <1>8 DEF CheckGit, Fault, NoFault, IInv, TypeOK, CallTyped
    <2>4. CASE Goto("verifying")
        <3>1. /\ pc' = "verifying" /\ cur' = cur /\ idx' = idx /\ known' = known
              /\ phase' = phase /\ todo' = todo
            BY <2>4 DEF Goto, GotoFile, GotoAs, loop
        <3>2. ops' = ops /\ sibling' = sibling /\ target' = target /\ base' = base
            BY <1>8, <2>1, <2>4 DEF CheckGit, fs, db, world
        <3>3. /\ OpIds' = OpIds /\ cur \in OpIds' /\ ops'[cur].cleanup
                 /\ ops'[cur].set = ops[cur].set
              /\ ops'[cur].state = ops[cur].state /\ Len(ops'[cur].files) = Count
            BY <2>1, <2>4, <3>2 DEF OpMoves, RowMoves, OpIds, Count, Files
        <3>4. Places'
            BY <2>1, <2>2, <2>3, <2>4, <3>1, <3>2, <3>3 DEF IInv, Places
        <3>5. JournalAt'
            BY <2>1, <2>2, <2>3, <2>4, <3>1, <3>2, <3>3 DEF JournalAt, Agrees, IInv
        <3>6. FilesOf(cur, {"verified"})
            BY <2>1 DEF IInv, Verified
        <3>7. Verified'
            BY <3>1, <3>2, <3>3, <2>1, <3>6 DEF Verified, FilesOf, OpMoves
        <3>8. SiblingsGo' /\ SiblingsCome' /\ OutcomeAt'
            BY <2>1, <3>1 DEF SiblingsGo, SiblingsCome, OutcomeAt
        <3>9. Visits' /\ Settled'
            BY <2>1, <2>3, <3>1, <3>3, InnerLoop DEF IInv, Places
        <3> QED
            BY <3>4, <3>5, <3>7, <3>8, <3>9 DEF Control
    <2>5. CASE Goto("rollback")
        <3>1. /\ pc' = "rollback" /\ cur' = cur /\ idx' = idx /\ known' = known
              /\ phase' = phase /\ todo' = todo
            BY <2>5 DEF Goto, GotoFile, GotoAs, loop
        <3>2. ops' = ops
            BY <1>8, <2>5 DEF CheckGit, db
        <3>3. /\ OpIds' = OpIds /\ cur \in OpIds' /\ ops'[cur].cleanup
                 /\ ops'[cur].set = ops[cur].set
              /\ ops'[cur].state = ops[cur].state /\ Len(ops'[cur].files) = Count
            BY <2>1, <2>5, <3>2 DEF OpMoves, RowMoves, OpIds, Count, Files
        <3>4. Places'
            BY <2>1, <2>2, <2>3, <2>5, <3>1, <3>2, <3>3 DEF IInv, Places
        <3>5. JournalAt'
            BY <2>1, <2>2, <2>3, <2>5, <3>1, <3>2, <3>3 DEF JournalAt, Agrees, IInv
        <3>6. Verified' /\ SiblingsGo' /\ SiblingsCome' /\ OutcomeAt'
            BY <2>1, <3>1 DEF Verified, SiblingsGo, SiblingsCome, OutcomeAt
        <3>7. Visits' /\ Settled'
            BY <2>1, <2>3, <3>1, <3>3, InnerLoop DEF IInv, Places
        <3> QED
            BY <3>4, <3>5, <3>6, <3>7 DEF Control
    <2> QED
        BY <1>8, <2>1, <2>4, <2>5 DEF CheckGit
<1>9. CASE ToVerifying
    <2>1. /\ pc = "verifying" /\ pc \in Called /\ cur \in OpIds /\ ops[cur].cleanup
          /\ ops[cur].state = "applying" /\ known = "applying"
             /\ phase \in {"serving", "recovering"}
        BY <1>9 DEF IInv, ToVerifying, Move, Places, JournalAt, TypeOK, CallTyped
    <2>2. Count = Len(Manifest[ops[cur].set]) /\ Count \in Nat \ {0}
        BY <2>1, RowsTyped DEF IInv, TypeOK, Count, Files
    <2>3. (faults' = faults \/ faults' = faults + 1) /\ faults \in Nat
        BY <1>9 DEF ToVerifying, Move, Fault, NoFault, IInv, TypeOK, CallTyped
    <2>4. ~Names
        BY <2>1 DEF Names
    <2>5. CASE SetOp("verifying") /\ phase = "serving" /\ GotoAs("verify", "verifying")
        <3>1. /\ pc' = "verify" /\ cur' = cur /\ idx' = idx /\ known' = "verifying"
              /\ phase' = phase /\ todo' = todo
            BY <2>5 DEF Goto, GotoFile, GotoAs, loop
        <3>2. OpMoves("verifying") /\ sibling' = sibling /\ target' = target /\ base' = base
            BY <1>9, <2>1, <2>5, SetOpMoves DEF ToVerifying, Move, Move, fs, world, IInv,
               TypeOK, OpStates
        <3>3. /\ OpIds' = OpIds /\ cur \in OpIds' /\ ops'[cur].cleanup
                 /\ ops'[cur].set = ops[cur].set
              /\ ops'[cur].state = "verifying" /\ Len(ops'[cur].files) = Count
            BY <2>1, <2>5, <3>2 DEF OpMoves, RowMoves, OpIds, Count, Files
        <3>4. Places'
            BY <2>1, <2>2, <2>4, <2>3, <2>5, <3>1, <3>2, <3>3 DEF IInv, Places
        <3>5. JournalAt'
            BY <2>1, <2>2, <2>4, <2>3, <2>5, <3>1, <3>2, <3>3 DEF JournalAt, Agrees, IInv
        <3>6. FilesOf(cur, {"verified"})
            BY <2>1 DEF IInv, Verified
        <3>7. Verified'
            BY <3>1, <3>2, <3>3, <2>1, <3>6 DEF Verified, FilesOf, OpMoves
        <3>8. SiblingsGo' /\ SiblingsCome' /\ OutcomeAt'
            BY <2>1, <3>1 DEF SiblingsGo, SiblingsCome, OutcomeAt
        <3>9. Visits' /\ Settled'
            BY <2>1, <2>3, <3>1, <3>3, InnerLoop DEF IInv, Places
        <3> QED
            BY <3>4, <3>5, <3>7, <3>8, <3>9 DEF Control
    <2>6. CASE SetOp("verifying") /\ phase # "serving" /\ Goto("completed")
        <3>1. /\ pc' = "completed" /\ cur' = cur /\ idx' = idx /\ known' = known
              /\ phase' = phase /\ todo' = todo
            BY <2>6 DEF Goto, GotoFile, GotoAs, loop
        <3>2. OpMoves("verifying") /\ sibling' = sibling /\ target' = target /\ base' = base
            BY <1>9, <2>1, <2>6, SetOpMoves DEF ToVerifying, Move, Move, fs, world, IInv,
               TypeOK, OpStates
        <3>3. /\ OpIds' = OpIds /\ cur \in OpIds' /\ ops'[cur].cleanup
                 /\ ops'[cur].set = ops[cur].set
              /\ ops'[cur].state = "verifying" /\ Len(ops'[cur].files) = Count
            BY <2>1, <2>6, <3>2 DEF OpMoves, RowMoves, OpIds, Count, Files
        <3>4. Places'
            BY <2>1, <2>2, <2>4, <2>3, <2>6, <3>1, <3>2, <3>3 DEF IInv, Places
        <3>5. JournalAt'
            BY <2>1, <2>2, <2>4, <2>3, <2>6, <3>1, <3>2, <3>3 DEF JournalAt, Agrees, IInv
        <3>6. FilesOf(cur, {"verified"})
            BY <2>1 DEF IInv, Verified
        <3>7. Verified'
            BY <3>1, <3>2, <3>3, <2>1, <3>6 DEF Verified, FilesOf, OpMoves
        <3>8. phase = "recovering" => \A i \in DOMAIN Manifest[ops[cur].set] : Restored(cur, i)
            BY <2>1 DEF IInv, OutcomeAt
        <3>9. \A i \in DOMAIN Manifest[ops[cur].set] : Restored(cur, i) => Restored(cur, i)'
            BY <2>1, <2>4, <3>1, <3>2, OutcomesStay DEF IInv
        <3>10. OutcomeAt'
            BY <2>1, <2>6, <3>1, <3>3, <3>8, <3>9 DEF OutcomeAt
        <3>11. SiblingsGo' /\ SiblingsCome'
            BY <2>1, <3>1 DEF SiblingsGo, SiblingsCome
        <3>12. Visits' /\ Settled'
            BY <2>1, <2>3, <3>1, <3>3, InnerLoop DEF IInv, Places
        <3> QED
            BY <3>4, <3>5, <3>7, <3>10, <3>11, <3>12 DEF Control
    <2>7. CASE UNCHANGED ops /\ phase = "serving" /\ Goto("require")
        <3>1. /\ pc' = "require" /\ cur' = cur /\ idx' = idx /\ known' = known
              /\ phase' = phase /\ todo' = todo
            BY <2>7 DEF Goto, GotoFile, GotoAs, loop
        <3>2. ops' = ops
            BY <1>9, <2>7 DEF ToVerifying, Move, db
        <3>3. /\ OpIds' = OpIds /\ cur \in OpIds' /\ ops'[cur].cleanup
                 /\ ops'[cur].set = ops[cur].set
              /\ ops'[cur].state = ops[cur].state /\ Len(ops'[cur].files) = Count
            BY <2>1, <2>7, <3>2 DEF OpMoves, RowMoves, OpIds, Count, Files
        <3>4. Places'
            BY <2>1, <2>2, <2>4, <2>3, <2>7, <3>1, <3>2, <3>3 DEF IInv, Places
        <3>5. JournalAt'
            BY <2>1, <2>2, <2>4, <2>3, <2>7, <3>1, <3>2, <3>3 DEF JournalAt, Agrees, IInv
        <3>6. Verified' /\ SiblingsGo' /\ SiblingsCome' /\ OutcomeAt'
            BY <2>1, <3>1 DEF Verified, SiblingsGo, SiblingsCome, OutcomeAt
        <3>7. Visits' /\ Settled'
            BY <2>1, <2>3, <3>1, <3>3, InnerLoop DEF IInv, Places
        <3> QED
            BY <3>4, <3>5, <3>6, <3>7 DEF Control
    <2>8. CASE UNCHANGED ops /\ phase # "serving" /\ Goto("rollback")
        <3>1. /\ pc' = "rollback" /\ cur' = cur /\ idx' = idx /\ known' = known
              /\ phase' = phase /\ todo' = todo
            BY <2>8 DEF Goto, GotoFile, GotoAs, loop
        <3>2. ops' = ops
            BY <1>9, <2>8 DEF ToVerifying, Move, db
        <3>3. /\ OpIds' = OpIds /\ cur \in OpIds' /\ ops'[cur].cleanup
                 /\ ops'[cur].set = ops[cur].set
              /\ ops'[cur].state = ops[cur].state /\ Len(ops'[cur].files) = Count
            BY <2>1, <2>8, <3>2 DEF OpMoves, RowMoves, OpIds, Count, Files
        <3>4. Places'
            BY <2>1, <2>2, <2>4, <2>3, <2>8, <3>1, <3>2, <3>3 DEF IInv, Places
        <3>5. JournalAt'
            BY <2>1, <2>2, <2>4, <2>3, <2>8, <3>1, <3>2, <3>3 DEF JournalAt, Agrees, IInv
        <3>6. Verified' /\ SiblingsGo' /\ SiblingsCome' /\ OutcomeAt'
            BY <2>1, <3>1 DEF Verified, SiblingsGo, SiblingsCome, OutcomeAt
        <3>7. Visits' /\ Settled'
            BY <2>1, <2>3, <3>1, <3>3, InnerLoop DEF IInv, Places
        <3> QED
            BY <3>4, <3>5, <3>6, <3>7 DEF Control
    <2> QED
        BY <1>9, <2>1, <2>4, <2>5, <2>6, <2>7, <2>8 DEF ToVerifying, Move
<1>10. CASE LostVerifying
    <2>1. /\ pc = "lost" /\ pc \in Called /\ cur \in OpIds /\ ops[cur].cleanup
          /\ ops[cur].state = "applying" /\ known = "applying" /\ phase = "recovering" /\ faults > 0
        BY <1>10 DEF IInv, LostVerifying, Move, Places, JournalAt, TypeOK, CallTyped
    <2>2. Count = Len(Manifest[ops[cur].set]) /\ Count \in Nat \ {0}
        BY <2>1, RowsTyped DEF IInv, TypeOK, Count, Files
    <2>3. (faults' = faults \/ faults' = faults + 1) /\ faults \in Nat
        BY <1>10 DEF LostVerifying, Move, Fault, NoFault, IInv, TypeOK, CallTyped
    <2>4. CASE SetOp("verifying") /\ Goto("rollback")
        <3>1. /\ pc' = "rollback" /\ cur' = cur /\ idx' = idx /\ known' = known
              /\ phase' = phase /\ todo' = todo
            BY <2>4 DEF Goto, GotoFile, GotoAs, loop
        <3>2. OpMoves("verifying") /\ sibling' = sibling /\ target' = target /\ base' = base
            BY <1>10, <2>1, <2>4, SetOpMoves DEF LostVerifying, Move, Move, fs, world, IInv,
               TypeOK, OpStates
        <3>3. /\ OpIds' = OpIds /\ cur \in OpIds' /\ ops'[cur].cleanup
                 /\ ops'[cur].set = ops[cur].set
              /\ ops'[cur].state = "verifying" /\ Len(ops'[cur].files) = Count
            BY <2>1, <2>4, <3>2 DEF OpMoves, RowMoves, OpIds, Count, Files
        <3>4. Places'
            BY <2>1, <2>2, <2>3, <2>4, <3>1, <3>2, <3>3 DEF IInv, Places
        <3>5. JournalAt'
            BY <2>1, <2>2, <2>3, <2>4, <3>1, <3>2, <3>3 DEF JournalAt, Agrees, IInv
        <3>6. Verified' /\ SiblingsGo' /\ SiblingsCome' /\ OutcomeAt'
            BY <2>1, <3>1 DEF Verified, SiblingsGo, SiblingsCome, OutcomeAt
        <3>7. Visits' /\ Settled'
            BY <2>1, <2>3, <3>1, <3>3, InnerLoop DEF IInv, Places
        <3> QED
            BY <3>4, <3>5, <3>6, <3>7 DEF Control
    <2>5. CASE UNCHANGED ops /\ Goto("rollback")
        <3>1. /\ pc' = "rollback" /\ cur' = cur /\ idx' = idx /\ known' = known
              /\ phase' = phase /\ todo' = todo
            BY <2>5 DEF Goto, GotoFile, GotoAs, loop
        <3>2. ops' = ops
            BY <1>10, <2>5 DEF LostVerifying, Move, db
        <3>3. /\ OpIds' = OpIds /\ cur \in OpIds' /\ ops'[cur].cleanup
                 /\ ops'[cur].set = ops[cur].set
              /\ ops'[cur].state = ops[cur].state /\ Len(ops'[cur].files) = Count
            BY <2>1, <2>5, <3>2 DEF OpMoves, RowMoves, OpIds, Count, Files
        <3>4. Places'
            BY <2>1, <2>2, <2>3, <2>5, <3>1, <3>2, <3>3 DEF IInv, Places
        <3>5. JournalAt'
            BY <2>1, <2>2, <2>3, <2>5, <3>1, <3>2, <3>3 DEF JournalAt, Agrees, IInv
        <3>6. Verified' /\ SiblingsGo' /\ SiblingsCome' /\ OutcomeAt'
            BY <2>1, <3>1 DEF Verified, SiblingsGo, SiblingsCome, OutcomeAt
        <3>7. Visits' /\ Settled'
            BY <2>1, <2>3, <3>1, <3>3, InnerLoop DEF IInv, Places
        <3> QED
            BY <3>4, <3>5, <3>6, <3>7 DEF Control
    <2> QED
        BY <1>10, <2>1, <2>4, <2>5 DEF LostVerifying, Move
<1>11. CASE FinalVerify
    <2>1. /\ pc = "verify" /\ pc \in Called /\ cur \in OpIds /\ ops[cur].cleanup
          /\ ops[cur].state = "verifying" /\ known = "verifying" /\ phase = "serving"
        BY <1>11 DEF IInv, FinalVerify, Places, JournalAt, TypeOK, CallTyped
    <2>2. Count = Len(Manifest[ops[cur].set]) /\ Count \in Nat \ {0}
        BY <2>1, RowsTyped DEF IInv, TypeOK, Count, Files
    <2>3. (faults' = faults \/ faults' = faults + 1) /\ faults \in Nat
        BY <1>11 DEF FinalVerify, Fault, NoFault, IInv, TypeOK, CallTyped
    <2>4. ~Names
        BY <2>1 DEF Names
    <2>5. CASE (\A i \in 1..Count : PairIsApplied(cur, i)) /\ Goto("completed")
        <3>1. /\ pc' = "completed" /\ cur' = cur /\ idx' = idx /\ known' = known
              /\ phase' = phase /\ todo' = todo
            BY <2>5 DEF Goto, GotoFile, GotoAs, loop
        <3>2. ops' = ops /\ sibling' = sibling /\ target' = target /\ base' = base
            BY <1>11, <2>1, <2>5 DEF FinalVerify, fs, db, world
        <3>3. /\ OpIds' = OpIds /\ cur \in OpIds' /\ ops'[cur].cleanup
                 /\ ops'[cur].set = ops[cur].set
              /\ ops'[cur].state = ops[cur].state /\ Len(ops'[cur].files) = Count
            BY <2>1, <2>5, <3>2 DEF OpMoves, RowMoves, OpIds, Count, Files
        <3>4. Places'
            BY <2>1, <2>2, <2>4, <2>3, <2>5, <3>1, <3>2, <3>3 DEF IInv, Places
        <3>5. JournalAt'
            BY <2>1, <2>2, <2>4, <2>3, <2>5, <3>1, <3>2, <3>3 DEF JournalAt, Agrees, IInv
        <3>6. FilesOf(cur, {"verified"})
            BY <2>1 DEF IInv, Verified
        <3>7. Verified'
            BY <3>1, <3>2, <3>3, <2>1, <3>6 DEF Verified, FilesOf, OpMoves
        <3>8. DOMAIN Manifest[ops[cur].set] = 1..Count
            BY <2>1, <2>2, RowsTyped, ManifestOf DEF IInv, TypeOK
        <3>9. \A i \in DOMAIN Manifest[ops[cur].set] : Restored(cur, i)
            BY <2>5, <3>8 DEF Restored, PairIsApplied
        <3>10. \A i \in DOMAIN Manifest[ops[cur].set] : Restored(cur, i) => Restored(cur, i)'
            BY <2>1, <2>4, <3>1, <3>2, OutcomesStay DEF IInv
        <3>11. OutcomeAt'
            BY <2>1, <2>5, <3>1, <3>3, <3>9, <3>10 DEF OutcomeAt
        <3>12. SiblingsGo' /\ SiblingsCome'
            BY <2>1, <3>1 DEF SiblingsGo, SiblingsCome
        <3>13. Visits' /\ Settled'
            BY <2>1, <2>3, <3>1, <3>3, InnerLoop DEF IInv, Places
        <3> QED
            BY <3>4, <3>5, <3>7, <3>11, <3>12, <3>13 DEF Control
    <2>6. CASE Goto("rollback")
        <3>1. /\ pc' = "rollback" /\ cur' = cur /\ idx' = idx /\ known' = known
              /\ phase' = phase /\ todo' = todo
            BY <2>6 DEF Goto, GotoFile, GotoAs, loop
        <3>2. ops' = ops
            BY <1>11, <2>6 DEF FinalVerify, db
        <3>3. /\ OpIds' = OpIds /\ cur \in OpIds' /\ ops'[cur].cleanup
                 /\ ops'[cur].set = ops[cur].set
              /\ ops'[cur].state = ops[cur].state /\ Len(ops'[cur].files) = Count
            BY <2>1, <2>6, <3>2 DEF OpMoves, RowMoves, OpIds, Count, Files
        <3>4. Places'
            BY <2>1, <2>2, <2>4, <2>3, <2>6, <3>1, <3>2, <3>3 DEF IInv, Places
        <3>5. JournalAt'
            BY <2>1, <2>2, <2>4, <2>3, <2>6, <3>1, <3>2, <3>3 DEF JournalAt, Agrees, IInv
        <3>6. Verified' /\ SiblingsGo' /\ SiblingsCome' /\ OutcomeAt'
            BY <2>1, <3>1 DEF Verified, SiblingsGo, SiblingsCome, OutcomeAt
        <3>7. Visits' /\ Settled'
            BY <2>1, <2>3, <3>1, <3>3, InnerLoop DEF IInv, Places
        <3> QED
            BY <3>4, <3>5, <3>6, <3>7 DEF Control
    <2> QED
        BY <1>11, <2>1, <2>4, <2>5, <2>6 DEF FinalVerify
<1>12. CASE ToCompleted
    <2>1. /\ pc = "completed" /\ pc \in Called /\ cur \in OpIds /\ ops[cur].cleanup
          /\ ops[cur].state = "verifying" /\ known \in {"applying", "verifying"}
          /\ (phase = "serving" => known = "verifying") /\ phase \in {"serving", "recovering"}
        BY <1>12 DEF IInv, ToCompleted, Move, Places, JournalAt, TypeOK, CallTyped
    <2>2. Count = Len(Manifest[ops[cur].set]) /\ Count \in Nat \ {0}
        BY <2>1, RowsTyped DEF IInv, TypeOK, Count, Files
    <2>3. (faults' = faults \/ faults' = faults + 1) /\ faults \in Nat
        BY <1>12 DEF ToCompleted, Move, Fault, NoFault, IInv, TypeOK, CallTyped
    <2>4. CanMove("verifying", "completed")
        BY <2>1 DEF IInv, Verified, FilesOf, CanMove, AllFiles, Files, Count
    <2>5. CASE SetOp("completed") /\ phase = "serving" /\ GotoFile("cleanup", 1)
        <3>1. /\ pc' = "cleanup" /\ cur' = cur /\ idx' = 1 /\ known' = known
              /\ phase' = phase /\ todo' = todo
            BY <2>5 DEF Goto, GotoFile, GotoAs, loop
        <3>2. OpMoves("completed") /\ sibling' = sibling /\ target' = target /\ base' = base
            BY <1>12, <2>1, <2>5, SetOpMoves DEF ToCompleted, Move, Move, fs, world, IInv,
               TypeOK, OpStates
        <3>3. /\ OpIds' = OpIds /\ cur \in OpIds' /\ ops'[cur].cleanup
                 /\ ops'[cur].set = ops[cur].set
              /\ ops'[cur].state = "completed" /\ Len(ops'[cur].files) = Count
            BY <2>1, <2>5, <3>2 DEF OpMoves, RowMoves, OpIds, Count, Files
        <3>4. Places'
            BY <2>1, <2>2, <2>4, <2>3, <2>5, <3>1, <3>2, <3>3 DEF IInv, Places
        <3>5. JournalAt'
            BY <2>1, <2>2, <2>4, <2>3, <2>5, <3>1, <3>2, <3>3 DEF JournalAt, Agrees, IInv
        <3>6. SiblingsGo'
            BY <3>1 DEF SiblingsGo, Gone
        <3>7. Verified' /\ SiblingsCome' /\ OutcomeAt'
            BY <2>1, <3>1 DEF Verified, SiblingsCome, OutcomeAt
        <3>8. Visits' /\ Settled'
            BY <2>1, <2>3, <3>1, <3>3, InnerLoop DEF IInv, Places
        <3> QED
            BY <3>4, <3>5, <3>6, <3>7, <3>8 DEF Control
    <2>6. CASE SetOp("completed") /\ Return
        <3>1. OpIds' = OpIds
            BY <2>1, <2>6, SetOpMoves DEF IInv, TypeOK, OpMoves, OpIds, OpStates
        <3>2. faults' = 0 => ops'[cur].state \in {"completed", "rolled_back", "recovery_required"}
            BY <2>1, <2>6, SetOpMoves DEF IInv, TypeOK, OpMoves, OpStates
        <3> QED
            BY <2>1, <2>3, <2>6, <3>1, <3>2, Between, ReturnLoop DEF IInv, Control
    <2>7. CASE UNCHANGED ops /\ Fault /\ phase = "serving" /\ Goto("require")
        <3>1. /\ pc' = "require" /\ cur' = cur /\ idx' = idx /\ known' = known
              /\ phase' = phase /\ todo' = todo
            BY <2>7 DEF Goto, GotoFile, GotoAs, loop
        <3>2. ops' = ops
            BY <1>12, <2>7 DEF ToCompleted, Move, db
        <3>3. /\ OpIds' = OpIds /\ cur \in OpIds' /\ ops'[cur].cleanup
                 /\ ops'[cur].set = ops[cur].set
              /\ ops'[cur].state = ops[cur].state /\ Len(ops'[cur].files) = Count
            BY <2>1, <2>7, <3>2 DEF OpMoves, RowMoves, OpIds, Count, Files
        <3>4. Places'
            BY <2>1, <2>2, <2>4, <2>3, <2>7, <3>1, <3>2, <3>3 DEF IInv, Places
        <3>5. JournalAt'
            BY <2>1, <2>2, <2>4, <2>3, <2>7, <3>1, <3>2, <3>3 DEF JournalAt, Agrees, IInv
        <3>6. Verified' /\ SiblingsGo' /\ SiblingsCome' /\ OutcomeAt'
            BY <2>1, <3>1 DEF Verified, SiblingsGo, SiblingsCome, OutcomeAt
        <3>7. Visits' /\ Settled'
            BY <2>1, <2>3, <3>1, <3>3, InnerLoop DEF IInv, Places
        <3> QED
            BY <3>4, <3>5, <3>6, <3>7 DEF Control
    <2>8. CASE UNCHANGED ops /\ Fault /\ phase # "serving" /\ Goto("rollback")
        <3>1. /\ pc' = "rollback" /\ cur' = cur /\ idx' = idx /\ known' = known
              /\ phase' = phase /\ todo' = todo
            BY <2>8 DEF Goto, GotoFile, GotoAs, loop
        <3>2. ops' = ops
            BY <1>12, <2>8 DEF ToCompleted, Move, db
        <3>3. /\ OpIds' = OpIds /\ cur \in OpIds' /\ ops'[cur].cleanup
                 /\ ops'[cur].set = ops[cur].set
              /\ ops'[cur].state = ops[cur].state /\ Len(ops'[cur].files) = Count
            BY <2>1, <2>8, <3>2 DEF OpMoves, RowMoves, OpIds, Count, Files
        <3>4. faults' > 0
            BY <2>3, <2>8 DEF Fault
        <3>5. Places'
            BY <2>1, <2>2, <2>4, <2>3, <2>8, <3>1, <3>2, <3>3, <3>4 DEF IInv, Places
        <3>6. JournalAt'
            BY <2>1, <2>2, <2>4, <2>3, <2>8, <3>1, <3>2, <3>3, <3>4 DEF JournalAt, Agrees, IInv
        <3>7. Verified' /\ SiblingsGo' /\ SiblingsCome' /\ OutcomeAt'
            BY <2>1, <3>1 DEF Verified, SiblingsGo, SiblingsCome, OutcomeAt
        <3>8. Visits' /\ Settled'
            BY <2>1, <2>3, <3>1, <3>3, InnerLoop DEF IInv, Places
        <3> QED
            BY <3>5, <3>6, <3>7, <3>8 DEF Control
    <2> QED
        BY <1>12, <2>1, <2>4, <2>5, <2>6, <2>7, <2>8 DEF ToCompleted, Move
<1> QED
    BY <1>1, <1>2, <1>3, <1>4, <1>5, <1>6, <1>7, <1>8, <1>9, <1>10, <1>11, <1>12


(* Recovery is required, or a terminal operation is cleaned up.            *)
LEMMA EndingSteps ==
    ASSUME IInv, Effect,
           RequireRecovery \/ CleanupTerminal \/ FinishCleanup
    PROVE  Control' /\ Visits' /\ Settled'
<1> USE DEF Staging, Swapping, Recording, Backing, Aborting, Unstaging, AtFile, Called
<1>1. CASE RequireRecovery
    <2>1. /\ pc = "require" /\ pc \in Called /\ cur \in OpIds /\ ops[cur].cleanup
          /\ Agrees /\ known \in {"preparing", "prepared", "applying", "verifying", "rolling_back"}
        BY <1>1 DEF IInv, RequireRecovery, Move, Places, JournalAt, TypeOK, CallTyped
    <2>2. Count = Len(Manifest[ops[cur].set]) /\ Count \in Nat \ {0}
        BY <2>1, RowsTyped DEF IInv, TypeOK, Count, Files
    <2>3. (faults' = faults \/ faults' = faults + 1) /\ faults \in Nat
        BY <1>1 DEF RequireRecovery, Move, Fault, NoFault, IInv, TypeOK, CallTyped
    <2>4. CanMove(known, "recovery_required") \/ faults > 0
        BY <2>1 DEF CanMove, Agrees
    <2>5. CASE SetOp("recovery_required") /\ Return
        <3>1. OpIds' = OpIds
            BY <2>1, <2>5, SetOpMoves DEF IInv, TypeOK, OpMoves, OpIds, OpStates
        <3>2. faults' = 0 => ops'[cur].state \in {"completed", "rolled_back", "recovery_required"}
            BY <2>1, <2>5, SetOpMoves DEF IInv, TypeOK, OpMoves, OpStates
        <3> QED
            BY <2>1, <2>3, <2>5, <3>1, <3>2, Between, ReturnLoop DEF IInv, Control
    <2>6. CASE UNCHANGED ops /\ Return /\ (Fault \/ ~CanMove(known, "recovery_required"))
        <3>1. OpIds' = OpIds
            BY <1>1, <2>6 DEF RequireRecovery, Move, OpIds, db
        <3>2. faults' = 0 => ops'[cur].state \in {"completed", "rolled_back", "recovery_required"}
            BY <2>3, <2>4, <2>6 DEF Fault
        <3> QED
            BY <2>1, <2>3, <2>6, <3>1, <3>2, Between, ReturnLoop DEF IInv, Control
    <2> QED
        BY <1>1, <2>1, <2>4, <2>5, <2>6 DEF RequireRecovery, Move
<1>2. CASE CleanupTerminal
    <2>1. /\ pc = "cleanup" /\ pc \in Called /\ cur \in OpIds /\ ops[cur].cleanup
          /\ ops[cur].state \in {"completed", "rolled_back"}
        BY <1>2 DEF IInv, CleanupTerminal, Cleaned, Places, JournalAt, TypeOK, CallTyped
    <2>2. AtRow /\ idx \in 1..Count /\ Count = Len(Manifest[ops[cur].set]) /\ idx \in Nat
          /\ Count \in Nat
        BY <2>1, AtRowHere, HereTyped DEF IInv, AtRow
    <2>3. (faults' = faults \/ faults' = faults + 1) /\ faults \in Nat
        BY <1>2 DEF CleanupTerminal, Cleaned, Fault, NoFault, IInv, TypeOK, CallTyped
    <2>4. SetLocator(None) => LocatorMoves(None)
        BY <2>1, <2>2, SetLocatorMoves, HereTyped DEF IInv, TypeOK
    <2>5. Len(sibling[cur]) = Count
        BY <2>1, <2>2, SiblingsTyped DEF IInv, TypeOK
    <2>6. (SetLocator(None) \/ (UNCHANGED sibling /\ Locator = None)) =>
             /\ ops' = ops /\ target' = target /\ Len(sibling'[cur]) = Count
             /\ \A j \in 1..Count : sibling'[cur][j] = IF j = idx THEN None ELSE sibling[cur][j]
        BY <1>2, <2>1, <2>2, <2>4, <2>5 DEF CleanupTerminal, db, LocatorMoves, Locator
    <2>7. CASE (SetLocator(None) \/ (UNCHANGED sibling /\ Locator = None)) /\ idx < Count
               /\ GotoFile("cleanup", idx + 1)
        <3>1. /\ pc' = "cleanup" /\ cur' = cur /\ idx' = idx + 1 /\ known' = known
              /\ phase' = phase /\ todo' = todo
            BY <2>7 DEF Goto, GotoFile, GotoAs, loop
        <3>2. /\ ops' = ops /\ target' = target /\ Len(sibling'[cur]) = Count
              /\ \A j \in 1..Count : sibling'[cur][j] = IF j = idx THEN None ELSE sibling[cur][j]
            BY <2>6, <2>7
        <3>3. /\ OpIds' = OpIds /\ cur \in OpIds' /\ ops'[cur].cleanup
                 /\ ops'[cur].set = ops[cur].set
              /\ ops'[cur].state = ops[cur].state /\ Len(ops'[cur].files) = Count
            BY <2>1, <2>7, <3>2 DEF OpMoves, RowMoves, OpIds, Count, Files
        <3>4. Places'
            BY <2>1, <2>2, <2>4, <2>5, <2>6, <2>3, <2>7, <3>1, <3>2, <3>3 DEF IInv, Places
        <3>5. JournalAt'
            BY <2>1, <2>2, <2>4, <2>5, <2>6, <2>3, <2>7, <3>1, <3>2, <3>3 DEF JournalAt,
               Agrees, IInv
        <3>6. \A j \in 1..idx : sibling'[cur][j] = None
            BY <2>1, <2>2, <3>2 DEF IInv, SiblingsGo, Gone
        <3>7. SiblingsGo'
            BY <2>1, <2>2, <2>7, <3>1, <3>2, <3>6 DEF SiblingsGo, Gone
        <3>8. Verified' /\ SiblingsCome' /\ OutcomeAt'
            BY <2>1, <3>1 DEF Verified, SiblingsCome, OutcomeAt
        <3>9. Visits' /\ Settled'
            BY <2>1, <2>3, <3>1, <3>3, InnerLoop DEF IInv, Places
        <3> QED
            BY <3>4, <3>5, <3>7, <3>8, <3>9 DEF Control
    <2>8. CASE (SetLocator(None) \/ (UNCHANGED sibling /\ Locator = None)) /\ ~(idx < Count)
               /\ Goto("finish")
        <3>1. /\ pc' = "finish" /\ cur' = cur /\ idx' = idx /\ known' = known
              /\ phase' = phase /\ todo' = todo
            BY <2>8 DEF Goto, GotoFile, GotoAs, loop
        <3>2. /\ ops' = ops /\ target' = target /\ Len(sibling'[cur]) = Count
              /\ \A j \in 1..Count : sibling'[cur][j] = IF j = idx THEN None ELSE sibling[cur][j]
            BY <2>6, <2>8
        <3>3. /\ OpIds' = OpIds /\ cur \in OpIds' /\ ops'[cur].cleanup
                 /\ ops'[cur].set = ops[cur].set
              /\ ops'[cur].state = ops[cur].state /\ Len(ops'[cur].files) = Count
            BY <2>1, <2>8, <3>2 DEF OpMoves, RowMoves, OpIds, Count, Files
        <3>4. Places'
            BY <2>1, <2>2, <2>4, <2>5, <2>6, <2>3, <2>8, <3>1, <3>2, <3>3 DEF IInv, Places
        <3>5. JournalAt'
            BY <2>1, <2>2, <2>4, <2>5, <2>6, <2>3, <2>8, <3>1, <3>2, <3>3 DEF JournalAt,
               Agrees, IInv
        <3>6. \A j \in 1..idx : sibling'[cur][j] = None
            BY <2>1, <2>2, <3>2 DEF IInv, SiblingsGo, Gone
        <3>7. SiblingsGo'
            BY <2>1, <2>2, <2>8, <3>1, <3>2, <3>6 DEF SiblingsGo, Gone
        <3>8. Verified' /\ SiblingsCome' /\ OutcomeAt'
            BY <2>1, <3>1 DEF Verified, SiblingsCome, OutcomeAt
        <3>9. Visits' /\ Settled'
            BY <2>1, <2>3, <3>1, <3>3, InnerLoop DEF IInv, Places
        <3> QED
            BY <3>4, <3>5, <3>7, <3>8, <3>9 DEF Control
    <2>9. CASE Return
        <3>1. OpIds' = OpIds
            BY <1>2, <2>9 DEF CleanupTerminal, Cleaned, OpIds, db
        <3>2. faults' = 0 => ops'[cur].state \in {"completed", "rolled_back", "recovery_required"}
            BY <1>2, <2>1 DEF CleanupTerminal, db
        <3> QED
            BY <2>1, <2>3, <2>9, <3>1, <3>2, Between, ReturnLoop DEF IInv, Control
    <2> QED
        BY <1>2, <2>1, <2>4, <2>5, <2>6, <2>7, <2>8, <2>9 DEF CleanupTerminal, Cleaned
<1>3. CASE FinishCleanup
    <2>1. /\ pc = "finish" /\ pc \in Called /\ cur \in OpIds /\ ops[cur].cleanup
          /\ ops[cur].state \in {"completed", "rolled_back"}
        BY <1>3 DEF IInv, FinishCleanup, Places, JournalAt, TypeOK, CallTyped
    <2>2. Count = Len(Manifest[ops[cur].set]) /\ Count \in Nat \ {0}
        BY <2>1, RowsTyped DEF IInv, TypeOK, Count, Files
    <2>3. (faults' = faults \/ faults' = faults + 1) /\ faults \in Nat
        BY <1>3 DEF FinishCleanup, Fault, NoFault, IInv, TypeOK, CallTyped
    <2>4. CASE ClearCleanup /\ Return
        <3>1. OpIds' = OpIds
            BY <2>1, <2>4, FinishMoves DEF IInv, TypeOK, CleanupEnds, OpIds
        <3>2. faults' = 0 => ops'[cur].state \in {"completed", "rolled_back", "recovery_required"}
            BY <2>1, <2>4, FinishMoves DEF IInv, TypeOK, CleanupEnds
        <3> QED
            BY <2>1, <2>3, <2>4, <3>1, <3>2, Between, ReturnLoop DEF IInv, Control
    <2>5. CASE UNCHANGED ops /\ Return
        <3>1. OpIds' = OpIds
            BY <1>3, <2>5 DEF FinishCleanup, OpIds, db
        <3>2. faults' = 0 => ops'[cur].state \in {"completed", "rolled_back", "recovery_required"}
            BY <2>1, <2>5
        <3> QED
            BY <2>1, <2>3, <2>5, <3>1, <3>2, Between, ReturnLoop DEF IInv, Control
    <2> QED
        BY <1>3, <2>1, <2>4, <2>5 DEF FinishCleanup
<1> QED
    BY <1>1, <1>2, <1>3


(* The exchanges are taken back.                                           *)
LEMMA RollbackSteps ==
    ASSUME IInv, Effect,
           Rollback \/ RollbackCheck \/ RollbackSwap \/ RollbackVerify \/ RollbackMark
           \/ ToRolledBack \/ MarkRecovery
    PROVE  Control' /\ Visits' /\ Settled'
<1> USE DEF Staging, Swapping, Recording, Backing, Aborting, Unstaging, AtFile, Called
<1>1. CASE Rollback
    <2>1. /\ pc = "rollback" /\ pc \in Called /\ cur \in OpIds /\ ops[cur].cleanup
          /\ Agrees /\ known \in {"preparing", "prepared", "applying", "verifying", "rolling_back"}
          /\ known # "preparing"
        BY <1>1 DEF IInv, Rollback, Move, Places, JournalAt, TypeOK, CallTyped
    <2>2. Count = Len(Manifest[ops[cur].set]) /\ Count \in Nat \ {0}
        BY <2>1, RowsTyped DEF IInv, TypeOK, Count, Files
    <2>3. (faults' = faults \/ faults' = faults + 1) /\ faults \in Nat
        BY <1>1 DEF Rollback, Move, Fault, NoFault, IInv, TypeOK, CallTyped
    <2>4. CASE SetOp("rolling_back") /\ pc' = "back" /\ idx' = Count /\ known' = "rolling_back"
               /\ UNCHANGED <<cur, loop>>
        <3>1. /\ pc' = "back" /\ cur' = cur /\ idx' = Count /\ known' = "rolling_back"
              /\ phase' = phase /\ todo' = todo
            BY <2>4 DEF Goto, GotoFile, GotoAs, loop
        <3>2. OpMoves("rolling_back") /\ sibling' = sibling /\ target' = target /\ base' = base
            BY <1>1, <2>1, <2>4, SetOpMoves DEF Rollback, Move, Move, fs, world, IInv,
               TypeOK, OpStates
        <3>3. /\ OpIds' = OpIds /\ cur \in OpIds' /\ ops'[cur].cleanup
                 /\ ops'[cur].set = ops[cur].set
              /\ ops'[cur].state = "rolling_back" /\ Len(ops'[cur].files) = Count
            BY <2>1, <2>4, <3>2 DEF OpMoves, RowMoves, OpIds, Count, Files
        <3>4. Places'
            BY <2>1, <2>2, <2>3, <2>4, <3>1, <3>2, <3>3 DEF IInv, Places
        <3>5. JournalAt'
            BY <2>1, <2>2, <2>3, <2>4, <3>1, <3>2, <3>3 DEF JournalAt, Agrees, IInv
        <3>6. DOMAIN Manifest[ops[cur].set] = 1..Count
            BY <2>1, <2>2, RowsTyped, ManifestOf DEF IInv, TypeOK
        <3>7. OutcomeAt'
            BY <2>2, <3>1, <3>3, <3>6 DEF OutcomeAt
        <3>8. Verified' /\ SiblingsGo' /\ SiblingsCome'
            BY <2>1, <3>1 DEF Verified, SiblingsGo, SiblingsCome
        <3>9. Visits' /\ Settled'
            BY <2>1, <2>3, <3>1, <3>3, InnerLoop DEF IInv, Places
        <3> QED
            BY <3>4, <3>5, <3>7, <3>8, <3>9 DEF Control
    <2>5. CASE UNCHANGED ops /\ Goto("require")
        <3>1. /\ pc' = "require" /\ cur' = cur /\ idx' = idx /\ known' = known
              /\ phase' = phase /\ todo' = todo
            BY <2>5 DEF Goto, GotoFile, GotoAs, loop
        <3>2. ops' = ops
            BY <1>1, <2>5 DEF Rollback, Move, db
        <3>3. /\ OpIds' = OpIds /\ cur \in OpIds' /\ ops'[cur].cleanup
                 /\ ops'[cur].set = ops[cur].set
              /\ ops'[cur].state = ops[cur].state /\ Len(ops'[cur].files) = Count
            BY <2>1, <2>5, <3>2 DEF OpMoves, RowMoves, OpIds, Count, Files
        <3>4. Places'
            BY <2>1, <2>2, <2>3, <2>5, <3>1, <3>2, <3>3 DEF IInv, Places
        <3>5. JournalAt'
            BY <2>1, <2>2, <2>3, <2>5, <3>1, <3>2, <3>3 DEF JournalAt, Agrees, IInv
        <3>6. Verified' /\ SiblingsGo' /\ SiblingsCome' /\ OutcomeAt'
            BY <2>1, <3>1 DEF Verified, SiblingsGo, SiblingsCome, OutcomeAt
        <3>7. Visits' /\ Settled'
            BY <2>1, <2>3, <3>1, <3>3, InnerLoop DEF IInv, Places
        <3> QED
            BY <3>4, <3>5, <3>6, <3>7 DEF Control
    <2>6. CASE UNCHANGED <<fs, db, world>> /\ known = "rolling_back" /\ GotoFile("back", Count)
        <3>1. /\ pc' = "back" /\ cur' = cur /\ idx' = Count /\ known' = known
              /\ phase' = phase /\ todo' = todo
            BY <2>6 DEF Goto, GotoFile, GotoAs, loop
        <3>2. ops' = ops /\ sibling' = sibling /\ target' = target /\ base' = base
            BY <1>1, <2>1, <2>6 DEF Rollback, Move, fs, db, world
        <3>3. /\ OpIds' = OpIds /\ cur \in OpIds' /\ ops'[cur].cleanup
                 /\ ops'[cur].set = ops[cur].set
              /\ ops'[cur].state = ops[cur].state /\ Len(ops'[cur].files) = Count
            BY <2>1, <2>6, <3>2 DEF OpMoves, RowMoves, OpIds, Count, Files
        <3>4. Places'
            BY <2>1, <2>2, <2>3, <2>6, <3>1, <3>2, <3>3 DEF IInv, Places
        <3>5. JournalAt'
            BY <2>1, <2>2, <2>3, <2>6, <3>1, <3>2, <3>3 DEF JournalAt, Agrees, IInv
        <3>6. DOMAIN Manifest[ops[cur].set] = 1..Count
            BY <2>1, <2>2, RowsTyped, ManifestOf DEF IInv, TypeOK
        <3>7. OutcomeAt'
            BY <2>2, <3>1, <3>3, <3>6 DEF OutcomeAt
        <3>8. Verified' /\ SiblingsGo' /\ SiblingsCome'
            BY <2>1, <3>1 DEF Verified, SiblingsGo, SiblingsCome
        <3>9. Visits' /\ Settled'
            BY <2>1, <2>3, <3>1, <3>3, InnerLoop DEF IInv, Places
        <3> QED
            BY <3>4, <3>5, <3>7, <3>8, <3>9 DEF Control
    <2> QED
        BY <1>1, <2>1, <2>4, <2>5, <2>6 DEF Rollback, Move
<1>2. CASE RollbackCheck
    <2>1. /\ pc = "back" /\ pc \in Called /\ cur \in OpIds /\ ops[cur].cleanup
          /\ ops[cur].state = "rolling_back" /\ known = "rolling_back"
        BY <1>2 DEF IInv, RollbackCheck, Places, JournalAt, TypeOK, CallTyped
    <2>2. AtRow /\ idx \in 1..Count /\ Count = Len(Manifest[ops[cur].set]) /\ idx \in Nat
          /\ Count \in Nat
        BY <2>1, AtRowHere, HereTyped DEF IInv, AtRow
    <2>3. (faults' = faults \/ faults' = faults + 1) /\ faults \in Nat
        BY <1>2 DEF RollbackCheck, Fault, NoFault, IInv, TypeOK, CallTyped
    <2>4. CASE PairIsApplied(cur, idx) /\ Goto("swap_back")
        <3>1. /\ pc' = "swap_back" /\ cur' = cur /\ idx' = idx /\ known' = known
              /\ phase' = phase /\ todo' = todo
            BY <2>4 DEF Goto, GotoFile, GotoAs, loop
        <3>2. ops' = ops /\ sibling' = sibling /\ target' = target /\ base' = base
            BY <1>2, <2>1, <2>4 DEF RollbackCheck, fs, db, world
        <3>3. /\ OpIds' = OpIds /\ cur \in OpIds' /\ ops'[cur].cleanup
                 /\ ops'[cur].set = ops[cur].set
              /\ ops'[cur].state = ops[cur].state /\ Len(ops'[cur].files) = Count
            BY <2>1, <2>4, <3>2 DEF OpMoves, RowMoves, OpIds, Count, Files
        <3>4. Places'
            BY <2>1, <2>2, <2>3, <2>4, <3>1, <3>2, <3>3 DEF IInv, Places
        <3>5. JournalAt'
            BY <2>1, <2>2, <2>3, <2>4, <3>1, <3>2, <3>3 DEF JournalAt, Agrees, IInv
        <3>6. Row.expected # None
            BY <2>2, HereTyped, NoneAssumption DEF IInv
        <3>7. SiblingsCome'
            BY <2>4, <3>1, <3>2, <3>6 DEF SiblingsCome, PairIsApplied, Row, Files, Locator
        <3>8. \A i \in DOMAIN Manifest[ops[cur].set] : i > idx => Original(cur, i)
            BY <2>1 DEF IInv, OutcomeAt
        <3>9. \A i \in DOMAIN Manifest[ops[cur].set] : Original(cur, i) => Original(cur, i)'
            BY <2>1, <3>1, <3>2, OutcomesStay DEF IInv
        <3>10. OutcomeAt'
            BY <2>1, <2>2, <2>4, <3>1, <3>3, <3>8, <3>9 DEF OutcomeAt
        <3>11. Verified' /\ SiblingsGo'
            BY <2>1, <3>1 DEF Verified, SiblingsGo
        <3>12. Visits' /\ Settled'
            BY <2>1, <2>3, <3>1, <3>3, InnerLoop DEF IInv, Places
        <3> QED
            BY <3>4, <3>5, <3>7, <3>10, <3>11, <3>12 DEF Control
    <2>5. CASE Goto("check_back")
        <3>1. /\ pc' = "check_back" /\ cur' = cur /\ idx' = idx /\ known' = known
              /\ phase' = phase /\ todo' = todo
            BY <2>5 DEF Goto, GotoFile, GotoAs, loop
        <3>2. ops' = ops /\ sibling' = sibling /\ target' = target /\ base' = base
            BY <1>2, <2>1, <2>5 DEF RollbackCheck, fs, db, world
        <3>3. /\ OpIds' = OpIds /\ cur \in OpIds' /\ ops'[cur].cleanup
                 /\ ops'[cur].set = ops[cur].set
              /\ ops'[cur].state = ops[cur].state /\ Len(ops'[cur].files) = Count
            BY <2>1, <2>5, <3>2 DEF OpMoves, RowMoves, OpIds, Count, Files
        <3>4. Places'
            BY <2>1, <2>2, <2>3, <2>5, <3>1, <3>2, <3>3 DEF IInv, Places
        <3>5. JournalAt'
            BY <2>1, <2>2, <2>3, <2>5, <3>1, <3>2, <3>3 DEF JournalAt, Agrees, IInv
        <3>6. \A i \in DOMAIN Manifest[ops[cur].set] : i > idx => Original(cur, i)
            BY <2>1 DEF IInv, OutcomeAt
        <3>7. \A i \in DOMAIN Manifest[ops[cur].set] : Original(cur, i) => Original(cur, i)'
            BY <2>1, <3>1, <3>2, OutcomesStay DEF IInv
        <3>8. OutcomeAt'
            BY <2>1, <2>2, <2>5, <3>1, <3>3, <3>6, <3>7 DEF OutcomeAt
        <3>9. Verified' /\ SiblingsGo' /\ SiblingsCome'
            BY <2>1, <3>1 DEF Verified, SiblingsGo, SiblingsCome
        <3>10. Visits' /\ Settled'
            BY <2>1, <2>3, <3>1, <3>3, InnerLoop DEF IInv, Places
        <3> QED
            BY <3>4, <3>5, <3>8, <3>9, <3>10 DEF Control
    <2> QED
        BY <1>2, <2>1, <2>4, <2>5 DEF RollbackCheck
<1>3. CASE RollbackSwap
    <2>1. /\ pc = "swap_back" /\ pc \in Called /\ cur \in OpIds /\ ops[cur].cleanup
          /\ ops[cur].state = "rolling_back" /\ known = "rolling_back"
        BY <1>3 DEF IInv, RollbackSwap, Places, JournalAt, TypeOK, CallTyped
    <2>2. AtRow /\ idx \in 1..Count /\ Count = Len(Manifest[ops[cur].set]) /\ idx \in Nat
          /\ Count \in Nat
        BY <2>1, AtRowHere, HereTyped DEF IInv, AtRow
    <2>3. (faults' = faults \/ faults' = faults + 1) /\ faults \in Nat
        BY <1>3 DEF RollbackSwap, Fault, NoFault, IInv, TypeOK, CallTyped
    <2>4. CASE Exchange /\ Goto("swapped_back")
        <3>1. /\ pc' = "swapped_back" /\ cur' = cur /\ idx' = idx /\ known' = known
              /\ phase' = phase /\ todo' = todo
            BY <2>4 DEF Goto, GotoFile, GotoAs, loop
        <3>2. LocatorMoves(target[Here]) /\ ops' = ops
            <4>1. target[Here] \in FileType \cup {None}
                BY <2>1, <2>2, HereTyped, NoneAssumption DEF IInv, TypeOK
            <4>2. LocatorMoves(target[Here])
                BY <2>1, <2>2, <2>4, <4>1, SetLocatorMoves, HereTyped DEF IInv, TypeOK, Exchange
            <4> QED
                BY <1>3, <4>2 DEF RollbackSwap, db
        <3>3. /\ OpIds' = OpIds /\ cur \in OpIds' /\ ops'[cur].cleanup
                 /\ ops'[cur].set = ops[cur].set
              /\ ops'[cur].state = ops[cur].state /\ Len(ops'[cur].files) = Count
            BY <2>1, <2>4, <3>2 DEF OpMoves, RowMoves, OpIds, Count, Files
        <3>4. Places'
            BY <2>1, <2>2, <2>3, <2>4, <3>1, <3>2, <3>3 DEF IInv, Places
        <3>5. JournalAt'
            BY <2>1, <2>2, <2>3, <2>4, <3>1, <3>2, <3>3 DEF JournalAt, Agrees, IInv
        <3>6. \A i \in DOMAIN Manifest[ops[cur].set] : i > idx => PathOf(cur, i) # Here
            BY <2>1, <2>2, HereTyped, ManifestOf, SMTT(30) DEF IInv, PathOf
        <3>7. \A i \in DOMAIN Manifest[ops[cur].set] : i > idx => Original(cur, i)
            BY <2>1 DEF IInv, OutcomeAt
        <3>8. \A i \in DOMAIN Manifest[ops[cur].set] : i > idx /\ Original(cur, i)
                  => Original(cur, i)'
            BY <2>1, <3>1, <3>6, OutcomesStay DEF IInv
        <3>9. OutcomeAt'
            BY <3>1, <3>3, <3>7, <3>8 DEF OutcomeAt
        <3>10. Verified' /\ SiblingsGo' /\ SiblingsCome'
            BY <2>1, <3>1 DEF Verified, SiblingsGo, SiblingsCome
        <3>11. Visits' /\ Settled'
            BY <2>1, <2>3, <3>1, <3>3, InnerLoop DEF IInv, Places
        <3> QED
            BY <3>4, <3>5, <3>9, <3>10, <3>11 DEF Control
    <2>5. CASE Goto("require")
        <3>1. /\ pc' = "require" /\ cur' = cur /\ idx' = idx /\ known' = known
              /\ phase' = phase /\ todo' = todo
            BY <2>5 DEF Goto, GotoFile, GotoAs, loop
        <3>2. ops' = ops
            BY <1>3, <2>5 DEF RollbackSwap, db
        <3>3. /\ OpIds' = OpIds /\ cur \in OpIds' /\ ops'[cur].cleanup
                 /\ ops'[cur].set = ops[cur].set
              /\ ops'[cur].state = ops[cur].state /\ Len(ops'[cur].files) = Count
            BY <2>1, <2>5, <3>2 DEF OpMoves, RowMoves, OpIds, Count, Files
        <3>4. Places'
            BY <2>1, <2>2, <2>3, <2>5, <3>1, <3>2, <3>3 DEF IInv, Places
        <3>5. JournalAt'
            BY <2>1, <2>2, <2>3, <2>5, <3>1, <3>2, <3>3 DEF JournalAt, Agrees, IInv
        <3>6. Verified' /\ SiblingsGo' /\ SiblingsCome' /\ OutcomeAt'
            BY <2>1, <3>1 DEF Verified, SiblingsGo, SiblingsCome, OutcomeAt
        <3>7. Visits' /\ Settled'
            BY <2>1, <2>3, <3>1, <3>3, InnerLoop DEF IInv, Places
        <3> QED
            BY <3>4, <3>5, <3>6, <3>7 DEF Control
    <2> QED
        BY <1>3, <2>1, <2>4, <2>5 DEF RollbackSwap
<1>4. CASE RollbackVerify
    <2>1. /\ pc \in {"swapped_back", "check_back"} /\ pc \in Called /\ cur \in OpIds
             /\ ops[cur].cleanup
          /\ ops[cur].state = "rolling_back" /\ known = "rolling_back"
        BY <1>4 DEF IInv, RollbackVerify, Places, JournalAt, TypeOK, CallTyped
    <2>2. AtRow /\ idx \in 1..Count /\ Count = Len(Manifest[ops[cur].set]) /\ idx \in Nat
          /\ Count \in Nat
        BY <2>1, AtRowHere, HereTyped DEF IInv, AtRow
    <2>3. (faults' = faults \/ faults' = faults + 1) /\ faults \in Nat
        BY <1>4 DEF RollbackVerify, Fault, NoFault, IInv, TypeOK, CallTyped
    <2>4. CASE Goto("check_back")
        <3>1. /\ pc' = "check_back" /\ cur' = cur /\ idx' = idx /\ known' = known
              /\ phase' = phase /\ todo' = todo
            BY <2>4 DEF Goto, GotoFile, GotoAs, loop
        <3>2. ops' = ops /\ sibling' = sibling /\ target' = target /\ base' = base
            BY <1>4, <2>1, <2>4 DEF RollbackVerify, fs, db, world
        <3>3. /\ OpIds' = OpIds /\ cur \in OpIds' /\ ops'[cur].cleanup
                 /\ ops'[cur].set = ops[cur].set
              /\ ops'[cur].state = ops[cur].state /\ Len(ops'[cur].files) = Count
            BY <2>1, <2>4, <3>2 DEF OpMoves, RowMoves, OpIds, Count, Files
        <3>4. Places'
            BY <2>1, <2>2, <2>3, <2>4, <3>1, <3>2, <3>3 DEF IInv, Places
        <3>5. JournalAt'
            BY <2>1, <2>2, <2>3, <2>4, <3>1, <3>2, <3>3 DEF JournalAt, Agrees, IInv
        <3>6. \A i \in DOMAIN Manifest[ops[cur].set] : i > idx => Original(cur, i)
            BY <2>1 DEF IInv, OutcomeAt
        <3>7. \A i \in DOMAIN Manifest[ops[cur].set] : Original(cur, i) => Original(cur, i)'
            BY <2>1, <3>1, <3>2, OutcomesStay DEF IInv
        <3>8. OutcomeAt'
            BY <2>1, <2>2, <2>4, <3>1, <3>3, <3>6, <3>7 DEF OutcomeAt
        <3>9. Verified' /\ SiblingsGo' /\ SiblingsCome'
            BY <2>1, <3>1 DEF Verified, SiblingsGo, SiblingsCome
        <3>10. Visits' /\ Settled'
            BY <2>1, <2>3, <3>1, <3>3, InnerLoop DEF IInv, Places
        <3> QED
            BY <3>4, <3>5, <3>8, <3>9, <3>10 DEF Control
    <2>5. CASE PairIsUnapplied(cur, idx) /\ Goto("mark_back")
        <3>1. /\ pc' = "mark_back" /\ cur' = cur /\ idx' = idx /\ known' = known
              /\ phase' = phase /\ todo' = todo
            BY <2>5 DEF Goto, GotoFile, GotoAs, loop
        <3>2. ops' = ops /\ sibling' = sibling /\ target' = target /\ base' = base
            BY <1>4, <2>1, <2>5 DEF RollbackVerify, fs, db, world
        <3>3. /\ OpIds' = OpIds /\ cur \in OpIds' /\ ops'[cur].cleanup
                 /\ ops'[cur].set = ops[cur].set
              /\ ops'[cur].state = ops[cur].state /\ Len(ops'[cur].files) = Count
            BY <2>1, <2>5, <3>2 DEF OpMoves, RowMoves, OpIds, Count, Files
        <3>4. Places'
            BY <2>1, <2>2, <2>3, <2>5, <3>1, <3>2, <3>3 DEF IInv, Places
        <3>5. JournalAt'
            BY <2>1, <2>2, <2>3, <2>5, <3>1, <3>2, <3>3 DEF JournalAt, Agrees, IInv
        <3>6. Original(cur, idx)
            BY <2>5 DEF Original, PairIsUnapplied
        <3>7. \A i \in DOMAIN Manifest[ops[cur].set] : i > idx => Original(cur, i)
            BY <2>1 DEF IInv, OutcomeAt
        <3>8. \A i \in DOMAIN Manifest[ops[cur].set] : Original(cur, i) => Original(cur, i)'
            BY <2>1, <3>1, <3>2, OutcomesStay DEF IInv
        <3>9. OutcomeAt'
            BY <2>2, <3>1, <3>3, <3>6, <3>7, <3>8, HereTyped DEF IInv, OutcomeAt
        <3>10. Verified' /\ SiblingsGo' /\ SiblingsCome'
            BY <2>1, <3>1 DEF Verified, SiblingsGo, SiblingsCome
        <3>11. Visits' /\ Settled'
            BY <2>1, <2>3, <3>1, <3>3, InnerLoop DEF IInv, Places
        <3> QED
            BY <3>4, <3>5, <3>9, <3>10, <3>11 DEF Control
    <2>6. CASE Goto("mark")
        <3>1. /\ pc' = "mark" /\ cur' = cur /\ idx' = idx /\ known' = known
              /\ phase' = phase /\ todo' = todo
            BY <2>6 DEF Goto, GotoFile, GotoAs, loop
        <3>2. ops' = ops
            BY <1>4, <2>6 DEF RollbackVerify, db
        <3>3. /\ OpIds' = OpIds /\ cur \in OpIds' /\ ops'[cur].cleanup
                 /\ ops'[cur].set = ops[cur].set
              /\ ops'[cur].state = ops[cur].state /\ Len(ops'[cur].files) = Count
            BY <2>1, <2>6, <3>2 DEF OpMoves, RowMoves, OpIds, Count, Files
        <3>4. Places'
            BY <2>1, <2>2, <2>3, <2>6, <3>1, <3>2, <3>3 DEF IInv, Places
        <3>5. JournalAt'
            BY <2>1, <2>2, <2>3, <2>6, <3>1, <3>2, <3>3 DEF JournalAt, Agrees, IInv
        <3>6. Verified' /\ SiblingsGo' /\ SiblingsCome' /\ OutcomeAt'
            BY <2>1, <3>1 DEF Verified, SiblingsGo, SiblingsCome, OutcomeAt
        <3>7. Visits' /\ Settled'
            BY <2>1, <2>3, <3>1, <3>3, InnerLoop DEF IInv, Places
        <3> QED
            BY <3>4, <3>5, <3>6, <3>7 DEF Control
    <2>7. CASE Goto("require")
        <3>1. /\ pc' = "require" /\ cur' = cur /\ idx' = idx /\ known' = known
              /\ phase' = phase /\ todo' = todo
            BY <2>7 DEF Goto, GotoFile, GotoAs, loop
        <3>2. ops' = ops
            BY <1>4, <2>7 DEF RollbackVerify, db
        <3>3. /\ OpIds' = OpIds /\ cur \in OpIds' /\ ops'[cur].cleanup
                 /\ ops'[cur].set = ops[cur].set
              /\ ops'[cur].state = ops[cur].state /\ Len(ops'[cur].files) = Count
            BY <2>1, <2>7, <3>2 DEF OpMoves, RowMoves, OpIds, Count, Files
        <3>4. Places'
            BY <2>1, <2>2, <2>3, <2>7, <3>1, <3>2, <3>3 DEF IInv, Places
        <3>5. JournalAt'
            BY <2>1, <2>2, <2>3, <2>7, <3>1, <3>2, <3>3 DEF JournalAt, Agrees, IInv
        <3>6. Verified' /\ SiblingsGo' /\ SiblingsCome' /\ OutcomeAt'
            BY <2>1, <3>1 DEF Verified, SiblingsGo, SiblingsCome, OutcomeAt
        <3>7. Visits' /\ Settled'
            BY <2>1, <2>3, <3>1, <3>3, InnerLoop DEF IInv, Places
        <3> QED
            BY <3>4, <3>5, <3>6, <3>7 DEF Control
    <2> QED
        BY <1>4, <2>1, <2>4, <2>5, <2>6, <2>7 DEF RollbackVerify
<1>5. CASE RollbackMark
    <2>1. /\ pc = "mark_back" /\ pc \in Called /\ cur \in OpIds /\ ops[cur].cleanup
          /\ ops[cur].state = "rolling_back" /\ known = "rolling_back"
        BY <1>5 DEF IInv, RollbackMark, MarkRolledBack, Places, JournalAt, TypeOK, CallTyped
    <2>2. AtRow /\ idx \in 1..Count /\ Count = Len(Manifest[ops[cur].set]) /\ idx \in Nat
          /\ Count \in Nat
        BY <2>1, AtRowHere, HereTyped DEF IInv, AtRow
    <2>3. (faults' = faults \/ faults' = faults + 1) /\ faults \in Nat
        BY <1>5 DEF RollbackMark, MarkRolledBack, Fault, NoFault, IInv, TypeOK, CallTyped
    <2>4. CASE SetFile("rolled_back") /\ idx > 1 /\ GotoFile("back", idx - 1)
        <3>1. /\ pc' = "back" /\ cur' = cur /\ idx' = idx - 1 /\ known' = known
              /\ phase' = phase /\ todo' = todo
            BY <2>4 DEF Goto, GotoFile, GotoAs, loop
        <3>2. RowMoves("rolled_back", Row.staged) /\ sibling' = sibling /\ target' = target
              /\ base' = base
            BY <1>5, <2>1, <2>2, <2>4, SetFileMoves DEF RollbackMark, MarkRolledBack, Count,
               Files, fs, world, IInv, TypeOK, FileStates
        <3>3. /\ OpIds' = OpIds /\ cur \in OpIds' /\ ops'[cur].cleanup
                 /\ ops'[cur].set = ops[cur].set
              /\ ops'[cur].state = ops[cur].state /\ Len(ops'[cur].files) = Count
            BY <2>1, <2>4, <3>2 DEF OpMoves, RowMoves, OpIds, Count, Files
        <3>4. Places'
            BY <2>1, <2>2, <2>3, <2>4, <3>1, <3>2, <3>3 DEF IInv, Places
        <3>5. JournalAt'
            BY <2>1, <2>2, <2>3, <2>4, <3>1, <3>2, <3>3 DEF JournalAt, Agrees, IInv
        <3>6. DOMAIN Manifest[ops[cur].set] = 1..Count
            BY <2>1, <2>2, RowsTyped, ManifestOf DEF IInv, TypeOK
        <3>7. \A i \in DOMAIN Manifest[ops[cur].set] : i > idx \/ i = idx => Original(cur, i)
            BY <2>1 DEF IInv, OutcomeAt
        <3>8. \A i \in DOMAIN Manifest[ops[cur].set] : Original(cur, i) => Original(cur, i)'
            BY <2>1, <3>1, <3>2, OutcomesStay DEF IInv
        <3>9. OutcomeAt'
            BY <2>2, <2>4, <3>1, <3>3, <3>6, <3>7, <3>8 DEF OutcomeAt
        <3>10. Verified' /\ SiblingsGo' /\ SiblingsCome'
            BY <2>1, <3>1 DEF Verified, SiblingsGo, SiblingsCome
        <3>11. Visits' /\ Settled'
            BY <2>1, <2>3, <3>1, <3>3, InnerLoop DEF IInv, Places
        <3> QED
            BY <3>4, <3>5, <3>9, <3>10, <3>11 DEF Control
    <2>5. CASE SetFile("rolled_back") /\ ~(idx > 1) /\ Goto("rolled_back")
        <3>1. /\ pc' = "rolled_back" /\ cur' = cur /\ idx' = idx /\ known' = known
              /\ phase' = phase /\ todo' = todo
            BY <2>5 DEF Goto, GotoFile, GotoAs, loop
        <3>2. RowMoves("rolled_back", Row.staged) /\ sibling' = sibling /\ target' = target
              /\ base' = base
            BY <1>5, <2>1, <2>2, <2>5, SetFileMoves DEF RollbackMark, MarkRolledBack, Count,
               Files, fs, world, IInv, TypeOK, FileStates
        <3>3. /\ OpIds' = OpIds /\ cur \in OpIds' /\ ops'[cur].cleanup
                 /\ ops'[cur].set = ops[cur].set
              /\ ops'[cur].state = ops[cur].state /\ Len(ops'[cur].files) = Count
            BY <2>1, <2>5, <3>2 DEF OpMoves, RowMoves, OpIds, Count, Files
        <3>4. Places'
            BY <2>1, <2>2, <2>3, <2>5, <3>1, <3>2, <3>3 DEF IInv, Places
        <3>5. JournalAt'
            BY <2>1, <2>2, <2>3, <2>5, <3>1, <3>2, <3>3 DEF JournalAt, Agrees, IInv
        <3>6. DOMAIN Manifest[ops[cur].set] = 1..Count
            BY <2>1, <2>2, RowsTyped, ManifestOf DEF IInv, TypeOK
        <3>7. \A i \in DOMAIN Manifest[ops[cur].set] : i > idx \/ i = idx => Original(cur, i)
            BY <2>1 DEF IInv, OutcomeAt
        <3>8. \A i \in DOMAIN Manifest[ops[cur].set] : Original(cur, i) => Original(cur, i)'
            BY <2>1, <3>1, <3>2, OutcomesStay DEF IInv
        <3>9. OutcomeAt'
            BY <2>2, <2>5, <3>1, <3>3, <3>6, <3>7, <3>8 DEF OutcomeAt
        <3>10. Verified' /\ SiblingsGo' /\ SiblingsCome'
            BY <2>1, <3>1 DEF Verified, SiblingsGo, SiblingsCome
        <3>11. Visits' /\ Settled'
            BY <2>1, <2>3, <3>1, <3>3, InnerLoop DEF IInv, Places
        <3> QED
            BY <3>4, <3>5, <3>9, <3>10, <3>11 DEF Control
    <2>6. CASE UNCHANGED ops /\ Goto("require")
        <3>1. /\ pc' = "require" /\ cur' = cur /\ idx' = idx /\ known' = known
              /\ phase' = phase /\ todo' = todo
            BY <2>6 DEF Goto, GotoFile, GotoAs, loop
        <3>2. ops' = ops
            BY <1>5, <2>6 DEF RollbackMark, MarkRolledBack, db
        <3>3. /\ OpIds' = OpIds /\ cur \in OpIds' /\ ops'[cur].cleanup
                 /\ ops'[cur].set = ops[cur].set
              /\ ops'[cur].state = ops[cur].state /\ Len(ops'[cur].files) = Count
            BY <2>1, <2>6, <3>2 DEF OpMoves, RowMoves, OpIds, Count, Files
        <3>4. Places'
            BY <2>1, <2>2, <2>3, <2>6, <3>1, <3>2, <3>3 DEF IInv, Places
        <3>5. JournalAt'
            BY <2>1, <2>2, <2>3, <2>6, <3>1, <3>2, <3>3 DEF JournalAt, Agrees, IInv
        <3>6. Verified' /\ SiblingsGo' /\ SiblingsCome' /\ OutcomeAt'
            BY <2>1, <3>1 DEF Verified, SiblingsGo, SiblingsCome, OutcomeAt
        <3>7. Visits' /\ Settled'
            BY <2>1, <2>3, <3>1, <3>3, InnerLoop DEF IInv, Places
        <3> QED
            BY <3>4, <3>5, <3>6, <3>7 DEF Control
    <2> QED
        BY <1>5, <2>1, <2>4, <2>5, <2>6 DEF RollbackMark, MarkRolledBack
<1>6. CASE ToRolledBack
    <2>1. /\ pc = "rolled_back" /\ pc \in Called /\ cur \in OpIds /\ ops[cur].cleanup
          /\ ops[cur].state = "rolling_back" /\ known = "rolling_back"
        BY <1>6 DEF IInv, ToRolledBack, Move, Places, JournalAt, TypeOK, CallTyped
    <2>2. Count = Len(Manifest[ops[cur].set]) /\ Count \in Nat \ {0}
        BY <2>1, RowsTyped DEF IInv, TypeOK, Count, Files
    <2>3. (faults' = faults \/ faults' = faults + 1) /\ faults \in Nat
        BY <1>6 DEF ToRolledBack, Move, Fault, NoFault, IInv, TypeOK, CallTyped
    <2>4. CASE SetOp("rolled_back") /\ GotoFile("cleanup", 1)
        <3>1. /\ pc' = "cleanup" /\ cur' = cur /\ idx' = 1 /\ known' = known
              /\ phase' = phase /\ todo' = todo
            BY <2>4 DEF Goto, GotoFile, GotoAs, loop
        <3>2. OpMoves("rolled_back") /\ sibling' = sibling /\ target' = target /\ base' = base
            BY <1>6, <2>1, <2>4, SetOpMoves DEF ToRolledBack, Move, Move, fs, world, IInv,
               TypeOK, OpStates
        <3>3. /\ OpIds' = OpIds /\ cur \in OpIds' /\ ops'[cur].cleanup
                 /\ ops'[cur].set = ops[cur].set
              /\ ops'[cur].state = "rolled_back" /\ Len(ops'[cur].files) = Count
            BY <2>1, <2>4, <3>2 DEF OpMoves, RowMoves, OpIds, Count, Files
        <3>4. Places'
            BY <2>1, <2>2, <2>3, <2>4, <3>1, <3>2, <3>3 DEF IInv, Places
        <3>5. JournalAt'
            BY <2>1, <2>2, <2>3, <2>4, <3>1, <3>2, <3>3 DEF JournalAt, Agrees, IInv
        <3>6. SiblingsGo'
            BY <3>1 DEF SiblingsGo, Gone
        <3>7. Verified' /\ SiblingsCome' /\ OutcomeAt'
            BY <2>1, <3>1 DEF Verified, SiblingsCome, OutcomeAt
        <3>8. Visits' /\ Settled'
            BY <2>1, <2>3, <3>1, <3>3, InnerLoop DEF IInv, Places
        <3> QED
            BY <3>4, <3>5, <3>6, <3>7, <3>8 DEF Control
    <2>5. CASE UNCHANGED ops /\ Goto("require")
        <3>1. /\ pc' = "require" /\ cur' = cur /\ idx' = idx /\ known' = known
              /\ phase' = phase /\ todo' = todo
            BY <2>5 DEF Goto, GotoFile, GotoAs, loop
        <3>2. ops' = ops
            BY <1>6, <2>5 DEF ToRolledBack, Move, db
        <3>3. /\ OpIds' = OpIds /\ cur \in OpIds' /\ ops'[cur].cleanup
                 /\ ops'[cur].set = ops[cur].set
              /\ ops'[cur].state = ops[cur].state /\ Len(ops'[cur].files) = Count
            BY <2>1, <2>5, <3>2 DEF OpMoves, RowMoves, OpIds, Count, Files
        <3>4. Places'
            BY <2>1, <2>2, <2>3, <2>5, <3>1, <3>2, <3>3 DEF IInv, Places
        <3>5. JournalAt'
            BY <2>1, <2>2, <2>3, <2>5, <3>1, <3>2, <3>3 DEF JournalAt, Agrees, IInv
        <3>6. Verified' /\ SiblingsGo' /\ SiblingsCome' /\ OutcomeAt'
            BY <2>1, <3>1 DEF Verified, SiblingsGo, SiblingsCome, OutcomeAt
        <3>7. Visits' /\ Settled'
            BY <2>1, <2>3, <3>1, <3>3, InnerLoop DEF IInv, Places
        <3> QED
            BY <3>4, <3>5, <3>6, <3>7 DEF Control
    <2> QED
        BY <1>6, <2>1, <2>4, <2>5 DEF ToRolledBack, Move
<1>7. CASE MarkRecovery
    <2>1. /\ pc = "mark" /\ pc \in Called /\ cur \in OpIds /\ ops[cur].cleanup
          /\ ops[cur].state = "rolling_back" /\ known = "rolling_back"
        BY <1>7 DEF IInv, MarkRecovery, Places, JournalAt, TypeOK, CallTyped
    <2>2. AtRow /\ idx \in 1..Count /\ Count = Len(Manifest[ops[cur].set]) /\ idx \in Nat
          /\ Count \in Nat
        BY <2>1, AtRowHere, HereTyped DEF IInv, AtRow
    <2>3. (faults' = faults \/ faults' = faults + 1) /\ faults \in Nat
        BY <1>7 DEF MarkRecovery, Fault, NoFault, IInv, TypeOK, CallTyped
    <2>4. CASE SetFile("recovery_required") /\ Goto("require")
        <3>1. /\ pc' = "require" /\ cur' = cur /\ idx' = idx /\ known' = known
              /\ phase' = phase /\ todo' = todo
            BY <2>4 DEF Goto, GotoFile, GotoAs, loop
        <3>2. RowMoves("recovery_required", Row.staged) /\ sibling' = sibling
              /\ target' = target /\ base' = base
            BY <1>7, <2>1, <2>2, <2>4, SetFileMoves DEF MarkRecovery, Count, Files, fs,
               world, IInv, TypeOK, FileStates
        <3>3. /\ OpIds' = OpIds /\ cur \in OpIds' /\ ops'[cur].cleanup
                 /\ ops'[cur].set = ops[cur].set
              /\ ops'[cur].state = ops[cur].state /\ Len(ops'[cur].files) = Count
            BY <2>1, <2>4, <3>2 DEF OpMoves, RowMoves, OpIds, Count, Files
        <3>4. Places'
            BY <2>1, <2>2, <2>3, <2>4, <3>1, <3>2, <3>3 DEF IInv, Places
        <3>5. JournalAt'
            BY <2>1, <2>2, <2>3, <2>4, <3>1, <3>2, <3>3 DEF JournalAt, Agrees, IInv
        <3>6. Verified' /\ SiblingsGo' /\ SiblingsCome' /\ OutcomeAt'
            BY <2>1, <3>1 DEF Verified, SiblingsGo, SiblingsCome, OutcomeAt
        <3>7. Visits' /\ Settled'
            BY <2>1, <2>3, <3>1, <3>3, InnerLoop DEF IInv, Places
        <3> QED
            BY <3>4, <3>5, <3>6, <3>7 DEF Control
    <2>5. CASE UNCHANGED ops /\ Goto("require")
        <3>1. /\ pc' = "require" /\ cur' = cur /\ idx' = idx /\ known' = known
              /\ phase' = phase /\ todo' = todo
            BY <2>5 DEF Goto, GotoFile, GotoAs, loop
        <3>2. ops' = ops
            BY <1>7, <2>5 DEF MarkRecovery, db
        <3>3. /\ OpIds' = OpIds /\ cur \in OpIds' /\ ops'[cur].cleanup
                 /\ ops'[cur].set = ops[cur].set
              /\ ops'[cur].state = ops[cur].state /\ Len(ops'[cur].files) = Count
            BY <2>1, <2>5, <3>2 DEF OpMoves, RowMoves, OpIds, Count, Files
        <3>4. Places'
            BY <2>1, <2>2, <2>3, <2>5, <3>1, <3>2, <3>3 DEF IInv, Places
        <3>5. JournalAt'
            BY <2>1, <2>2, <2>3, <2>5, <3>1, <3>2, <3>3 DEF JournalAt, Agrees, IInv
        <3>6. Verified' /\ SiblingsGo' /\ SiblingsCome' /\ OutcomeAt'
            BY <2>1, <3>1 DEF Verified, SiblingsGo, SiblingsCome, OutcomeAt
        <3>7. Visits' /\ Settled'
            BY <2>1, <2>3, <3>1, <3>3, InnerLoop DEF IInv, Places
        <3> QED
            BY <3>4, <3>5, <3>6, <3>7 DEF Control
    <2> QED
        BY <1>7, <2>1, <2>4, <2>5 DEF MarkRecovery
<1> QED
    BY <1>1, <1>2, <1>3, <1>4, <1>5, <1>6, <1>7


(* No target was exchanged yet: the siblings go.                           *)
LEMMA UnstagingSteps ==
    ASSUME IInv, Effect,
           AbortPreparing \/ AbortFile \/ AbortMark \/ RecoverPreparing \/ RecoverUnstage
           \/ RecoverUnstageMark \/ RecoverUnstaged
    PROVE  Control' /\ Visits' /\ Settled'
<1> USE DEF Staging, Swapping, Recording, Backing, Aborting, Unstaging, AtFile, Called
<1>1. CASE AbortPreparing
    <2>1. /\ pc = "abort" /\ pc \in Called /\ cur \in OpIds /\ ops[cur].cleanup
          /\ ops[cur].state = "preparing" /\ known = "preparing" /\ phase = "serving"
        BY <1>1 DEF IInv, AbortPreparing, Move, Places, JournalAt, TypeOK, CallTyped
    <2>2. Count = Len(Manifest[ops[cur].set]) /\ Count \in Nat \ {0}
        BY <2>1, RowsTyped DEF IInv, TypeOK, Count, Files
    <2>3. (faults' = faults \/ faults' = faults + 1) /\ faults \in Nat
        BY <1>1 DEF AbortPreparing, Move, Fault, NoFault, IInv, TypeOK, CallTyped
    <2>4. CASE SetOp("rolling_back") /\ pc' = "abort_file" /\ idx' = 1
               /\ known' = "rolling_back" /\ UNCHANGED <<cur, loop>>
        <3>1. /\ pc' = "abort_file" /\ cur' = cur /\ idx' = 1 /\ known' = "rolling_back"
              /\ phase' = phase /\ todo' = todo
            BY <2>4 DEF Goto, GotoFile, GotoAs, loop
        <3>2. OpMoves("rolling_back") /\ sibling' = sibling /\ target' = target /\ base' = base
            BY <1>1, <2>1, <2>4, SetOpMoves DEF AbortPreparing, Move, Move, fs, world, IInv,
               TypeOK, OpStates
        <3>3. /\ OpIds' = OpIds /\ cur \in OpIds' /\ ops'[cur].cleanup
                 /\ ops'[cur].set = ops[cur].set
              /\ ops'[cur].state = "rolling_back" /\ Len(ops'[cur].files) = Count
            BY <2>1, <2>4, <3>2 DEF OpMoves, RowMoves, OpIds, Count, Files
        <3>4. Places'
            BY <2>1, <2>2, <2>3, <2>4, <3>1, <3>2, <3>3 DEF IInv, Places
        <3>5. JournalAt'
            BY <2>1, <2>2, <2>3, <2>4, <3>1, <3>2, <3>3 DEF JournalAt, Agrees, IInv
        <3>6. \A i \in DOMAIN Manifest[ops[cur].set] : Original(cur, i)
            BY <2>1 DEF IInv, Outcome
        <3>7. \A i \in DOMAIN Manifest[ops[cur].set] : Original(cur, i) => Original(cur, i)'
            BY <2>1, <3>1, <3>2, OutcomesStay DEF IInv
        <3>8. OutcomeAt'
            BY <3>1, <3>3, <3>6, <3>7 DEF OutcomeAt
        <3>9. Verified' /\ SiblingsGo' /\ SiblingsCome'
            BY <2>1, <3>1 DEF Verified, SiblingsGo, SiblingsCome
        <3>10. Visits' /\ Settled'
            BY <2>1, <2>3, <3>1, <3>3, InnerLoop DEF IInv, Places
        <3> QED
            BY <3>4, <3>5, <3>8, <3>9, <3>10 DEF Control
    <2>5. CASE UNCHANGED ops /\ GotoAs("require", "preparing")
        <3>1. /\ pc' = "require" /\ cur' = cur /\ idx' = idx /\ known' = "preparing"
              /\ phase' = phase /\ todo' = todo
            BY <2>5 DEF Goto, GotoFile, GotoAs, loop
        <3>2. ops' = ops
            BY <1>1, <2>5 DEF AbortPreparing, Move, db
        <3>3. /\ OpIds' = OpIds /\ cur \in OpIds' /\ ops'[cur].cleanup
                 /\ ops'[cur].set = ops[cur].set
              /\ ops'[cur].state = ops[cur].state /\ Len(ops'[cur].files) = Count
            BY <2>1, <2>5, <3>2 DEF OpMoves, RowMoves, OpIds, Count, Files
        <3>4. Places'
            BY <2>1, <2>2, <2>3, <2>5, <3>1, <3>2, <3>3 DEF IInv, Places
        <3>5. JournalAt'
            BY <2>1, <2>2, <2>3, <2>5, <3>1, <3>2, <3>3 DEF JournalAt, Agrees, IInv
        <3>6. Verified' /\ SiblingsGo' /\ SiblingsCome' /\ OutcomeAt'
            BY <2>1, <3>1 DEF Verified, SiblingsGo, SiblingsCome, OutcomeAt
        <3>7. Visits' /\ Settled'
            BY <2>1, <2>3, <3>1, <3>3, InnerLoop DEF IInv, Places
        <3> QED
            BY <3>4, <3>5, <3>6, <3>7 DEF Control
    <2> QED
        BY <1>1, <2>1, <2>4, <2>5 DEF AbortPreparing, Move
<1>2. CASE AbortFile
    <2>1. /\ pc = "abort_file" /\ pc \in Called /\ cur \in OpIds /\ ops[cur].cleanup
          /\ ops[cur].state = "rolling_back" /\ known = "rolling_back" /\ phase = "serving"
        BY <1>2 DEF IInv, AbortFile, Places, JournalAt, TypeOK, CallTyped
    <2>2. AtRow /\ idx \in 1..Count /\ Count = Len(Manifest[ops[cur].set]) /\ idx \in Nat
          /\ Count \in Nat
        BY <2>1, AtRowHere, HereTyped DEF IInv, AtRow
    <2>3. (faults' = faults \/ faults' = faults + 1) /\ faults \in Nat
        BY <1>2 DEF AbortFile, Fault, NoFault, IInv, TypeOK, CallTyped
    <2>4. CASE Goto("abort_mark")
        <3>1. /\ pc' = "abort_mark" /\ cur' = cur /\ idx' = idx /\ known' = known
              /\ phase' = phase /\ todo' = todo
            BY <2>4 DEF Goto, GotoFile, GotoAs, loop
        <3>2. ops' = ops /\ target' = target
            BY <1>2 DEF AbortFile, db
        <3>3. /\ OpIds' = OpIds /\ cur \in OpIds' /\ ops'[cur].cleanup
                 /\ ops'[cur].set = ops[cur].set
              /\ ops'[cur].state = ops[cur].state /\ Len(ops'[cur].files) = Count
            BY <2>1, <2>4, <3>2 DEF OpMoves, RowMoves, OpIds, Count, Files
        <3>4. Places'
            BY <2>1, <2>2, <2>3, <2>4, <3>1, <3>2, <3>3 DEF IInv, Places
        <3>5. JournalAt'
            BY <2>1, <2>2, <2>3, <2>4, <3>1, <3>2, <3>3 DEF JournalAt, Agrees, IInv
        <3>6. \A i \in DOMAIN Manifest[ops[cur].set] : Original(cur, i)
            BY <2>1 DEF IInv, OutcomeAt
        <3>7. \A i \in DOMAIN Manifest[ops[cur].set] : Original(cur, i) => Original(cur, i)'
            BY <2>1, <3>1, <3>2, OutcomesStay DEF IInv
        <3>8. OutcomeAt'
            BY <3>1, <3>3, <3>6, <3>7 DEF OutcomeAt
        <3>9. Verified' /\ SiblingsGo' /\ SiblingsCome'
            BY <2>1, <3>1 DEF Verified, SiblingsGo, SiblingsCome
        <3>10. Visits' /\ Settled'
            BY <2>1, <2>3, <3>1, <3>3, InnerLoop DEF IInv, Places
        <3> QED
            BY <3>4, <3>5, <3>8, <3>9, <3>10 DEF Control
    <2> QED
        BY <1>2, <2>1, <2>4 DEF AbortFile
<1>3. CASE AbortMark
    <2>1. /\ pc = "abort_mark" /\ pc \in Called /\ cur \in OpIds /\ ops[cur].cleanup
          /\ ops[cur].state = "rolling_back" /\ known = "rolling_back" /\ phase = "serving"
        BY <1>3 DEF IInv, AbortMark, MarkRolledBack, Places, JournalAt, TypeOK, CallTyped
    <2>2. AtRow /\ idx \in 1..Count /\ Count = Len(Manifest[ops[cur].set]) /\ idx \in Nat
          /\ Count \in Nat
        BY <2>1, AtRowHere, HereTyped DEF IInv, AtRow
    <2>3. (faults' = faults \/ faults' = faults + 1) /\ faults \in Nat
        BY <1>3 DEF AbortMark, MarkRolledBack, Fault, NoFault, IInv, TypeOK, CallTyped
    <2>4. CASE SetFile("rolled_back") /\ idx < Count /\ GotoFile("abort_file", idx + 1)
        <3>1. /\ pc' = "abort_file" /\ cur' = cur /\ idx' = idx + 1 /\ known' = known
              /\ phase' = phase /\ todo' = todo
            BY <2>4 DEF Goto, GotoFile, GotoAs, loop
        <3>2. RowMoves("rolled_back", Row.staged) /\ sibling' = sibling /\ target' = target
              /\ base' = base
            BY <1>3, <2>1, <2>2, <2>4, SetFileMoves DEF AbortMark, MarkRolledBack, Count,
               Files, fs, world, IInv, TypeOK, FileStates
        <3>3. /\ OpIds' = OpIds /\ cur \in OpIds' /\ ops'[cur].cleanup
                 /\ ops'[cur].set = ops[cur].set
              /\ ops'[cur].state = ops[cur].state /\ Len(ops'[cur].files) = Count
            BY <2>1, <2>4, <3>2 DEF OpMoves, RowMoves, OpIds, Count, Files
        <3>4. Places'
            BY <2>1, <2>2, <2>3, <2>4, <3>1, <3>2, <3>3 DEF IInv, Places
        <3>5. JournalAt'
            BY <2>1, <2>2, <2>3, <2>4, <3>1, <3>2, <3>3 DEF JournalAt, Agrees, IInv
        <3>6. \A i \in DOMAIN Manifest[ops[cur].set] : Original(cur, i)
            BY <2>1 DEF IInv, OutcomeAt
        <3>7. \A i \in DOMAIN Manifest[ops[cur].set] : Original(cur, i) => Original(cur, i)'
            BY <2>1, <3>1, <3>2, OutcomesStay DEF IInv
        <3>8. OutcomeAt'
            BY <3>1, <3>3, <3>6, <3>7 DEF OutcomeAt
        <3>9. Verified' /\ SiblingsGo' /\ SiblingsCome'
            BY <2>1, <3>1 DEF Verified, SiblingsGo, SiblingsCome
        <3>10. Visits' /\ Settled'
            BY <2>1, <2>3, <3>1, <3>3, InnerLoop DEF IInv, Places
        <3> QED
            BY <3>4, <3>5, <3>8, <3>9, <3>10 DEF Control
    <2>5. CASE SetFile("rolled_back") /\ ~(idx < Count) /\ Goto("rolled_back")
        <3>1. /\ pc' = "rolled_back" /\ cur' = cur /\ idx' = idx /\ known' = known
              /\ phase' = phase /\ todo' = todo
            BY <2>5 DEF Goto, GotoFile, GotoAs, loop
        <3>2. RowMoves("rolled_back", Row.staged) /\ sibling' = sibling /\ target' = target
              /\ base' = base
            BY <1>3, <2>1, <2>2, <2>5, SetFileMoves DEF AbortMark, MarkRolledBack, Count,
               Files, fs, world, IInv, TypeOK, FileStates
        <3>3. /\ OpIds' = OpIds /\ cur \in OpIds' /\ ops'[cur].cleanup
                 /\ ops'[cur].set = ops[cur].set
              /\ ops'[cur].state = ops[cur].state /\ Len(ops'[cur].files) = Count
            BY <2>1, <2>5, <3>2 DEF OpMoves, RowMoves, OpIds, Count, Files
        <3>4. Places'
            BY <2>1, <2>2, <2>3, <2>5, <3>1, <3>2, <3>3 DEF IInv, Places
        <3>5. JournalAt'
            BY <2>1, <2>2, <2>3, <2>5, <3>1, <3>2, <3>3 DEF JournalAt, Agrees, IInv
        <3>6. \A i \in DOMAIN Manifest[ops[cur].set] : Original(cur, i)
            BY <2>1 DEF IInv, OutcomeAt
        <3>7. \A i \in DOMAIN Manifest[ops[cur].set] : Original(cur, i) => Original(cur, i)'
            BY <2>1, <3>1, <3>2, OutcomesStay DEF IInv
        <3>8. OutcomeAt'
            BY <3>1, <3>3, <3>6, <3>7 DEF OutcomeAt
        <3>9. Verified' /\ SiblingsGo' /\ SiblingsCome'
            BY <2>1, <3>1 DEF Verified, SiblingsGo, SiblingsCome
        <3>10. Visits' /\ Settled'
            BY <2>1, <2>3, <3>1, <3>3, InnerLoop DEF IInv, Places
        <3> QED
            BY <3>4, <3>5, <3>8, <3>9, <3>10 DEF Control
    <2>6. CASE UNCHANGED ops /\ Goto("require")
        <3>1. /\ pc' = "require" /\ cur' = cur /\ idx' = idx /\ known' = known
              /\ phase' = phase /\ todo' = todo
            BY <2>6 DEF Goto, GotoFile, GotoAs, loop
        <3>2. ops' = ops
            BY <1>3, <2>6 DEF AbortMark, MarkRolledBack, db
        <3>3. /\ OpIds' = OpIds /\ cur \in OpIds' /\ ops'[cur].cleanup
                 /\ ops'[cur].set = ops[cur].set
              /\ ops'[cur].state = ops[cur].state /\ Len(ops'[cur].files) = Count
            BY <2>1, <2>6, <3>2 DEF OpMoves, RowMoves, OpIds, Count, Files
        <3>4. Places'
            BY <2>1, <2>2, <2>3, <2>6, <3>1, <3>2, <3>3 DEF IInv, Places
        <3>5. JournalAt'
            BY <2>1, <2>2, <2>3, <2>6, <3>1, <3>2, <3>3 DEF JournalAt, Agrees, IInv
        <3>6. Verified' /\ SiblingsGo' /\ SiblingsCome' /\ OutcomeAt'
            BY <2>1, <3>1 DEF Verified, SiblingsGo, SiblingsCome, OutcomeAt
        <3>7. Visits' /\ Settled'
            BY <2>1, <2>3, <3>1, <3>3, InnerLoop DEF IInv, Places
        <3> QED
            BY <3>4, <3>5, <3>6, <3>7 DEF Control
    <2> QED
        BY <1>3, <2>1, <2>4, <2>5, <2>6 DEF AbortMark, MarkRolledBack
<1>4. CASE RecoverPreparing
    <2>1. /\ pc = "recover_preparing" /\ pc \in Called /\ cur \in OpIds /\ ops[cur].cleanup
          /\ ops[cur].state = "preparing" /\ known = "preparing" /\ phase = "recovering"
        BY <1>4 DEF IInv, RecoverPreparing, Move, Places, JournalAt, TypeOK, CallTyped
    <2>2. Count = Len(Manifest[ops[cur].set]) /\ Count \in Nat \ {0}
        BY <2>1, RowsTyped DEF IInv, TypeOK, Count, Files
    <2>3. (faults' = faults \/ faults' = faults + 1) /\ faults \in Nat
        BY <1>4 DEF RecoverPreparing, Move, Fault, NoFault, IInv, TypeOK, CallTyped
    <2>4. CASE SetOp("rolling_back") /\ pc' = "unstage" /\ idx' = 1 /\ known' = "rolling_back"
               /\ UNCHANGED <<cur, loop>>
        <3>1. /\ pc' = "unstage" /\ cur' = cur /\ idx' = 1 /\ known' = "rolling_back"
              /\ phase' = phase /\ todo' = todo
            BY <2>4 DEF Goto, GotoFile, GotoAs, loop
        <3>2. OpMoves("rolling_back") /\ sibling' = sibling /\ target' = target /\ base' = base
            BY <1>4, <2>1, <2>4, SetOpMoves DEF RecoverPreparing, Move, Move, fs, world,
               IInv, TypeOK, OpStates
        <3>3. /\ OpIds' = OpIds /\ cur \in OpIds' /\ ops'[cur].cleanup
                 /\ ops'[cur].set = ops[cur].set
              /\ ops'[cur].state = "rolling_back" /\ Len(ops'[cur].files) = Count
            BY <2>1, <2>4, <3>2 DEF OpMoves, RowMoves, OpIds, Count, Files
        <3>4. Places'
            BY <2>1, <2>2, <2>3, <2>4, <3>1, <3>2, <3>3 DEF IInv, Places
        <3>5. JournalAt'
            BY <2>1, <2>2, <2>3, <2>4, <3>1, <3>2, <3>3 DEF JournalAt, Agrees, IInv
        <3>6. SiblingsGo'
            BY <3>1 DEF SiblingsGo, Gone
        <3>7. \A i \in DOMAIN Manifest[ops[cur].set] : Original(cur, i)
            BY <2>1 DEF IInv, Outcome
        <3>8. \A i \in DOMAIN Manifest[ops[cur].set] : Original(cur, i) => Original(cur, i)'
            BY <2>1, <3>1, <3>2, OutcomesStay DEF IInv
        <3>9. OutcomeAt'
            BY <3>1, <3>3, <3>7, <3>8 DEF OutcomeAt
        <3>10. Verified' /\ SiblingsCome'
            BY <2>1, <3>1 DEF Verified, SiblingsCome
        <3>11. Visits' /\ Settled'
            BY <2>1, <2>3, <3>1, <3>3, InnerLoop DEF IInv, Places
        <3> QED
            BY <3>4, <3>5, <3>6, <3>9, <3>10, <3>11 DEF Control
    <2>5. CASE UNCHANGED ops /\ GotoAs("require", "preparing")
        <3>1. /\ pc' = "require" /\ cur' = cur /\ idx' = idx /\ known' = "preparing"
              /\ phase' = phase /\ todo' = todo
            BY <2>5 DEF Goto, GotoFile, GotoAs, loop
        <3>2. ops' = ops
            BY <1>4, <2>5 DEF RecoverPreparing, Move, db
        <3>3. /\ OpIds' = OpIds /\ cur \in OpIds' /\ ops'[cur].cleanup
                 /\ ops'[cur].set = ops[cur].set
              /\ ops'[cur].state = ops[cur].state /\ Len(ops'[cur].files) = Count
            BY <2>1, <2>5, <3>2 DEF OpMoves, RowMoves, OpIds, Count, Files
        <3>4. Places'
            BY <2>1, <2>2, <2>3, <2>5, <3>1, <3>2, <3>3 DEF IInv, Places
        <3>5. JournalAt'
            BY <2>1, <2>2, <2>3, <2>5, <3>1, <3>2, <3>3 DEF JournalAt, Agrees, IInv
        <3>6. Verified' /\ SiblingsGo' /\ SiblingsCome' /\ OutcomeAt'
            BY <2>1, <3>1 DEF Verified, SiblingsGo, SiblingsCome, OutcomeAt
        <3>7. Visits' /\ Settled'
            BY <2>1, <2>3, <3>1, <3>3, InnerLoop DEF IInv, Places
        <3> QED
            BY <3>4, <3>5, <3>6, <3>7 DEF Control
    <2> QED
        BY <1>4, <2>1, <2>4, <2>5 DEF RecoverPreparing, Move
<1>5. CASE RecoverUnstage
    <2>1. /\ pc = "unstage" /\ pc \in Called /\ cur \in OpIds /\ ops[cur].cleanup
          /\ ops[cur].state = "rolling_back" /\ known = "rolling_back" /\ phase = "recovering"
        BY <1>5 DEF IInv, RecoverUnstage, Places, JournalAt, TypeOK, CallTyped
    <2>2. AtRow /\ idx \in 1..Count /\ Count = Len(Manifest[ops[cur].set]) /\ idx \in Nat
          /\ Count \in Nat
        BY <2>1, AtRowHere, HereTyped DEF IInv, AtRow
    <2>3. (faults' = faults \/ faults' = faults + 1) /\ faults \in Nat
        BY <1>5 DEF RecoverUnstage, Fault, NoFault, IInv, TypeOK, CallTyped
    <2>4. SetLocator(None) => LocatorMoves(None)
        BY <2>1, <2>2, SetLocatorMoves, HereTyped DEF IInv, TypeOK
    <2>5. Len(sibling[cur]) = Count
        BY <2>1, <2>2, SiblingsTyped DEF IInv, TypeOK
    <2>6. (SetLocator(None) \/ (UNCHANGED sibling /\ Locator = None)) =>
             /\ ops' = ops /\ target' = target /\ Len(sibling'[cur]) = Count
             /\ \A j \in 1..Count : sibling'[cur][j] = IF j = idx THEN None ELSE sibling[cur][j]
        BY <1>5, <2>1, <2>2, <2>4, <2>5 DEF RecoverUnstage, db, LocatorMoves, Locator
    <2>7. CASE (SetLocator(None) \/ (UNCHANGED sibling /\ Locator = None)) /\ Goto("unstage_mark")
        <3>1. /\ pc' = "unstage_mark" /\ cur' = cur /\ idx' = idx /\ known' = known
              /\ phase' = phase /\ todo' = todo
            BY <2>7 DEF Goto, GotoFile, GotoAs, loop
        <3>2. /\ ops' = ops /\ target' = target /\ Len(sibling'[cur]) = Count
              /\ \A j \in 1..Count : sibling'[cur][j] = IF j = idx THEN None ELSE sibling[cur][j]
            BY <2>6, <2>7
        <3>3. /\ OpIds' = OpIds /\ cur \in OpIds' /\ ops'[cur].cleanup
                 /\ ops'[cur].set = ops[cur].set
              /\ ops'[cur].state = ops[cur].state /\ Len(ops'[cur].files) = Count
            BY <2>1, <2>7, <3>2 DEF OpMoves, RowMoves, OpIds, Count, Files
        <3>4. Places'
            BY <2>1, <2>2, <2>4, <2>5, <2>6, <2>3, <2>7, <3>1, <3>2, <3>3 DEF IInv, Places
        <3>5. JournalAt'
            BY <2>1, <2>2, <2>4, <2>5, <2>6, <2>3, <2>7, <3>1, <3>2, <3>3 DEF JournalAt,
               Agrees, IInv
        <3>6. \A j \in 1..idx : sibling'[cur][j] = None
            BY <2>1, <2>2, <3>2 DEF IInv, SiblingsGo, Gone
        <3>7. SiblingsGo'
            BY <2>1, <2>2, <2>7, <3>1, <3>2, <3>6 DEF SiblingsGo, Gone
        <3>8. \A i \in DOMAIN Manifest[ops[cur].set] : Original(cur, i)
            BY <2>1 DEF IInv, OutcomeAt
        <3>9. \A i \in DOMAIN Manifest[ops[cur].set] : Original(cur, i) => Original(cur, i)'
            BY <2>1, <3>1, <3>2, OutcomesStay DEF IInv
        <3>10. OutcomeAt'
            BY <3>1, <3>3, <3>8, <3>9 DEF OutcomeAt
        <3>11. Verified' /\ SiblingsCome'
            BY <2>1, <3>1 DEF Verified, SiblingsCome
        <3>12. Visits' /\ Settled'
            BY <2>1, <2>3, <3>1, <3>3, InnerLoop DEF IInv, Places
        <3> QED
            BY <3>4, <3>5, <3>7, <3>10, <3>11, <3>12 DEF Control
    <2>8. CASE UNCHANGED sibling /\ Goto("require")
        <3>1. /\ pc' = "require" /\ cur' = cur /\ idx' = idx /\ known' = known
              /\ phase' = phase /\ todo' = todo
            BY <2>8 DEF Goto, GotoFile, GotoAs, loop
        <3>2. ops' = ops
            BY <1>5, <2>8 DEF RecoverUnstage, db
        <3>3. /\ OpIds' = OpIds /\ cur \in OpIds' /\ ops'[cur].cleanup
                 /\ ops'[cur].set = ops[cur].set
              /\ ops'[cur].state = ops[cur].state /\ Len(ops'[cur].files) = Count
            BY <2>1, <2>8, <3>2 DEF OpMoves, RowMoves, OpIds, Count, Files
        <3>4. Places'
            BY <2>1, <2>2, <2>4, <2>5, <2>6, <2>3, <2>8, <3>1, <3>2, <3>3 DEF IInv, Places
        <3>5. JournalAt'
            BY <2>1, <2>2, <2>4, <2>5, <2>6, <2>3, <2>8, <3>1, <3>2, <3>3 DEF JournalAt,
               Agrees, IInv
        <3>6. Verified' /\ SiblingsGo' /\ SiblingsCome' /\ OutcomeAt'
            BY <2>1, <3>1 DEF Verified, SiblingsGo, SiblingsCome, OutcomeAt
        <3>7. Visits' /\ Settled'
            BY <2>1, <2>3, <3>1, <3>3, InnerLoop DEF IInv, Places
        <3> QED
            BY <3>4, <3>5, <3>6, <3>7 DEF Control
    <2>9. CASE UNCHANGED sibling /\ Goto("mark")
        <3>1. /\ pc' = "mark" /\ cur' = cur /\ idx' = idx /\ known' = known
              /\ phase' = phase /\ todo' = todo
            BY <2>9 DEF Goto, GotoFile, GotoAs, loop
        <3>2. ops' = ops
            BY <1>5, <2>9 DEF RecoverUnstage, db
        <3>3. /\ OpIds' = OpIds /\ cur \in OpIds' /\ ops'[cur].cleanup
                 /\ ops'[cur].set = ops[cur].set
              /\ ops'[cur].state = ops[cur].state /\ Len(ops'[cur].files) = Count
            BY <2>1, <2>9, <3>2 DEF OpMoves, RowMoves, OpIds, Count, Files
        <3>4. Places'
            BY <2>1, <2>2, <2>4, <2>5, <2>6, <2>3, <2>9, <3>1, <3>2, <3>3 DEF IInv, Places
        <3>5. JournalAt'
            BY <2>1, <2>2, <2>4, <2>5, <2>6, <2>3, <2>9, <3>1, <3>2, <3>3 DEF JournalAt,
               Agrees, IInv
        <3>6. Verified' /\ SiblingsGo' /\ SiblingsCome' /\ OutcomeAt'
            BY <2>1, <3>1 DEF Verified, SiblingsGo, SiblingsCome, OutcomeAt
        <3>7. Visits' /\ Settled'
            BY <2>1, <2>3, <3>1, <3>3, InnerLoop DEF IInv, Places
        <3> QED
            BY <3>4, <3>5, <3>6, <3>7 DEF Control
    <2> QED
        BY <1>5, <2>1, <2>4, <2>5, <2>6, <2>7, <2>8, <2>9 DEF RecoverUnstage
<1>6. CASE RecoverUnstageMark
    <2>1. /\ pc = "unstage_mark" /\ pc \in Called /\ cur \in OpIds /\ ops[cur].cleanup
          /\ ops[cur].state = "rolling_back" /\ known = "rolling_back" /\ phase = "recovering"
        BY <1>6 DEF IInv, RecoverUnstageMark, MarkRolledBack, Places, JournalAt, TypeOK,
           CallTyped
    <2>2. AtRow /\ idx \in 1..Count /\ Count = Len(Manifest[ops[cur].set]) /\ idx \in Nat
          /\ Count \in Nat
        BY <2>1, AtRowHere, HereTyped DEF IInv, AtRow
    <2>3. (faults' = faults \/ faults' = faults + 1) /\ faults \in Nat
        BY <1>6 DEF RecoverUnstageMark, MarkRolledBack, Fault, NoFault, IInv, TypeOK, CallTyped
    <2>4. CASE SetFile("rolled_back") /\ idx < Count /\ GotoFile("unstage", idx + 1)
        <3>1. /\ pc' = "unstage" /\ cur' = cur /\ idx' = idx + 1 /\ known' = known
              /\ phase' = phase /\ todo' = todo
            BY <2>4 DEF Goto, GotoFile, GotoAs, loop
        <3>2. RowMoves("rolled_back", Row.staged) /\ sibling' = sibling /\ target' = target
              /\ base' = base
            BY <1>6, <2>1, <2>2, <2>4, SetFileMoves DEF RecoverUnstageMark, MarkRolledBack,
               Count, Files, fs, world, IInv, TypeOK, FileStates
        <3>3. /\ OpIds' = OpIds /\ cur \in OpIds' /\ ops'[cur].cleanup
                 /\ ops'[cur].set = ops[cur].set
              /\ ops'[cur].state = ops[cur].state /\ Len(ops'[cur].files) = Count
            BY <2>1, <2>4, <3>2 DEF OpMoves, RowMoves, OpIds, Count, Files
        <3>4. Places'
            BY <2>1, <2>2, <2>3, <2>4, <3>1, <3>2, <3>3 DEF IInv, Places
        <3>5. JournalAt'
            BY <2>1, <2>2, <2>3, <2>4, <3>1, <3>2, <3>3 DEF JournalAt, Agrees, IInv
        <3>6. \A j \in 1..idx : sibling'[cur][j] = None
            BY <2>1, <2>2, <3>2 DEF IInv, SiblingsGo, Gone
        <3>7. SiblingsGo'
            BY <2>1, <2>2, <2>4, <3>1, <3>2, <3>6 DEF SiblingsGo, Gone
        <3>8. \A i \in DOMAIN Manifest[ops[cur].set] : Original(cur, i)
            BY <2>1 DEF IInv, OutcomeAt
        <3>9. \A i \in DOMAIN Manifest[ops[cur].set] : Original(cur, i) => Original(cur, i)'
            BY <2>1, <3>1, <3>2, OutcomesStay DEF IInv
        <3>10. OutcomeAt'
            BY <3>1, <3>3, <3>8, <3>9 DEF OutcomeAt
        <3>11. Verified' /\ SiblingsCome'
            BY <2>1, <3>1 DEF Verified, SiblingsCome
        <3>12. Visits' /\ Settled'
            BY <2>1, <2>3, <3>1, <3>3, InnerLoop DEF IInv, Places
        <3> QED
            BY <3>4, <3>5, <3>7, <3>10, <3>11, <3>12 DEF Control
    <2>5. CASE SetFile("rolled_back") /\ ~(idx < Count) /\ Goto("unstaged")
        <3>1. /\ pc' = "unstaged" /\ cur' = cur /\ idx' = idx /\ known' = known
              /\ phase' = phase /\ todo' = todo
            BY <2>5 DEF Goto, GotoFile, GotoAs, loop
        <3>2. RowMoves("rolled_back", Row.staged) /\ sibling' = sibling /\ target' = target
              /\ base' = base
            BY <1>6, <2>1, <2>2, <2>5, SetFileMoves DEF RecoverUnstageMark, MarkRolledBack,
               Count, Files, fs, world, IInv, TypeOK, FileStates
        <3>3. /\ OpIds' = OpIds /\ cur \in OpIds' /\ ops'[cur].cleanup
                 /\ ops'[cur].set = ops[cur].set
              /\ ops'[cur].state = ops[cur].state /\ Len(ops'[cur].files) = Count
            BY <2>1, <2>5, <3>2 DEF OpMoves, RowMoves, OpIds, Count, Files
        <3>4. Places'
            BY <2>1, <2>2, <2>3, <2>5, <3>1, <3>2, <3>3 DEF IInv, Places
        <3>5. JournalAt'
            BY <2>1, <2>2, <2>3, <2>5, <3>1, <3>2, <3>3 DEF JournalAt, Agrees, IInv
        <3>6. Len(sibling[cur]) = Count
            BY <2>1, <2>2, SiblingsTyped DEF IInv, TypeOK
        <3>7. \A j \in 1..idx : sibling'[cur][j] = None
            BY <2>1, <2>2, <3>2 DEF IInv, SiblingsGo, Gone
        <3>8. SiblingsGo'
            BY <2>1, <2>2, <2>5, <3>1, <3>2, <3>6, <3>7 DEF SiblingsGo, Gone
        <3>9. \A i \in DOMAIN Manifest[ops[cur].set] : Original(cur, i)
            BY <2>1 DEF IInv, OutcomeAt
        <3>10. \A i \in DOMAIN Manifest[ops[cur].set] : Original(cur, i) => Original(cur, i)'
            BY <2>1, <3>1, <3>2, OutcomesStay DEF IInv
        <3>11. OutcomeAt'
            BY <3>1, <3>3, <3>9, <3>10 DEF OutcomeAt
        <3>12. Verified' /\ SiblingsCome'
            BY <2>1, <3>1 DEF Verified, SiblingsCome
        <3>13. Visits' /\ Settled'
            BY <2>1, <2>3, <3>1, <3>3, InnerLoop DEF IInv, Places
        <3> QED
            BY <3>4, <3>5, <3>8, <3>11, <3>12, <3>13 DEF Control
    <2>6. CASE UNCHANGED ops /\ Goto("require")
        <3>1. /\ pc' = "require" /\ cur' = cur /\ idx' = idx /\ known' = known
              /\ phase' = phase /\ todo' = todo
            BY <2>6 DEF Goto, GotoFile, GotoAs, loop
        <3>2. ops' = ops
            BY <1>6, <2>6 DEF RecoverUnstageMark, MarkRolledBack, db
        <3>3. /\ OpIds' = OpIds /\ cur \in OpIds' /\ ops'[cur].cleanup
                 /\ ops'[cur].set = ops[cur].set
              /\ ops'[cur].state = ops[cur].state /\ Len(ops'[cur].files) = Count
            BY <2>1, <2>6, <3>2 DEF OpMoves, RowMoves, OpIds, Count, Files
        <3>4. Places'
            BY <2>1, <2>2, <2>3, <2>6, <3>1, <3>2, <3>3 DEF IInv, Places
        <3>5. JournalAt'
            BY <2>1, <2>2, <2>3, <2>6, <3>1, <3>2, <3>3 DEF JournalAt, Agrees, IInv
        <3>6. Verified' /\ SiblingsGo' /\ SiblingsCome' /\ OutcomeAt'
            BY <2>1, <3>1 DEF Verified, SiblingsGo, SiblingsCome, OutcomeAt
        <3>7. Visits' /\ Settled'
            BY <2>1, <2>3, <3>1, <3>3, InnerLoop DEF IInv, Places
        <3> QED
            BY <3>4, <3>5, <3>6, <3>7 DEF Control
    <2> QED
        BY <1>6, <2>1, <2>4, <2>5, <2>6 DEF RecoverUnstageMark, MarkRolledBack
<1>7. CASE RecoverUnstaged
    <2>1. /\ pc = "unstaged" /\ pc \in Called /\ cur \in OpIds /\ ops[cur].cleanup
          /\ ops[cur].state = "rolling_back" /\ known = "rolling_back" /\ phase = "recovering"
        BY <1>7 DEF IInv, RecoverUnstaged, Move, Places, JournalAt, TypeOK, CallTyped
    <2>2. Count = Len(Manifest[ops[cur].set]) /\ Count \in Nat \ {0}
        BY <2>1, RowsTyped DEF IInv, TypeOK, Count, Files
    <2>3. (faults' = faults \/ faults' = faults + 1) /\ faults \in Nat
        BY <1>7 DEF RecoverUnstaged, Move, Fault, NoFault, IInv, TypeOK, CallTyped
    <2>4. CASE SetOp("rolled_back") /\ Goto("finish")
        <3>1. /\ pc' = "finish" /\ cur' = cur /\ idx' = idx /\ known' = known
              /\ phase' = phase /\ todo' = todo
            BY <2>4 DEF Goto, GotoFile, GotoAs, loop
        <3>2. OpMoves("rolled_back") /\ sibling' = sibling /\ target' = target /\ base' = base
            BY <1>7, <2>1, <2>4, SetOpMoves DEF RecoverUnstaged, Move, Move, fs, world,
               IInv, TypeOK, OpStates
        <3>3. /\ OpIds' = OpIds /\ cur \in OpIds' /\ ops'[cur].cleanup
                 /\ ops'[cur].set = ops[cur].set
              /\ ops'[cur].state = "rolled_back" /\ Len(ops'[cur].files) = Count
            BY <2>1, <2>4, <3>2 DEF OpMoves, RowMoves, OpIds, Count, Files
        <3>4. Places'
            BY <2>1, <2>2, <2>3, <2>4, <3>1, <3>2, <3>3 DEF IInv, Places
        <3>5. JournalAt'
            BY <2>1, <2>2, <2>3, <2>4, <3>1, <3>2, <3>3 DEF JournalAt, Agrees, IInv
        <3>6. SiblingsGo'
            BY <2>1, <3>1, <3>2 DEF IInv, SiblingsGo, Gone
        <3>7. Verified' /\ SiblingsCome' /\ OutcomeAt'
            BY <2>1, <3>1 DEF Verified, SiblingsCome, OutcomeAt
        <3>8. Visits' /\ Settled'
            BY <2>1, <2>3, <3>1, <3>3, InnerLoop DEF IInv, Places
        <3> QED
            BY <3>4, <3>5, <3>6, <3>7, <3>8 DEF Control
    <2>5. CASE UNCHANGED ops /\ Goto("require")
        <3>1. /\ pc' = "require" /\ cur' = cur /\ idx' = idx /\ known' = known
              /\ phase' = phase /\ todo' = todo
            BY <2>5 DEF Goto, GotoFile, GotoAs, loop
        <3>2. ops' = ops
            BY <1>7, <2>5 DEF RecoverUnstaged, Move, db
        <3>3. /\ OpIds' = OpIds /\ cur \in OpIds' /\ ops'[cur].cleanup
                 /\ ops'[cur].set = ops[cur].set
              /\ ops'[cur].state = ops[cur].state /\ Len(ops'[cur].files) = Count
            BY <2>1, <2>5, <3>2 DEF OpMoves, RowMoves, OpIds, Count, Files
        <3>4. Places'
            BY <2>1, <2>2, <2>3, <2>5, <3>1, <3>2, <3>3 DEF IInv, Places
        <3>5. JournalAt'
            BY <2>1, <2>2, <2>3, <2>5, <3>1, <3>2, <3>3 DEF JournalAt, Agrees, IInv
        <3>6. Verified' /\ SiblingsGo' /\ SiblingsCome' /\ OutcomeAt'
            BY <2>1, <3>1 DEF Verified, SiblingsGo, SiblingsCome, OutcomeAt
        <3>7. Visits' /\ Settled'
            BY <2>1, <2>3, <3>1, <3>3, InnerLoop DEF IInv, Places
        <3> QED
            BY <3>4, <3>5, <3>6, <3>7 DEF Control
    <2> QED
        BY <1>7, <2>1, <2>4, <2>5 DEF RecoverUnstaged, Move
<1> QED
    BY <1>1, <1>2, <1>3, <1>4, <1>5, <1>6, <1>7


-----------------------------------------------------------------------------
(* recover_startup goes from one operation to the next.                    *)
LEMMA Away ==
    ASSUME pc' \in {"idle", "next"}, cur' = 0, pc' = "idle" => phase' = "serving",
           pc' = "next" => phase' \in {"recovering", "cleaning"}
    PROVE  Control'
BY DEF Control, Places, JournalAt, Verified, SiblingsGo, SiblingsCome, OutcomeAt,
   Staging, Swapping, Recording, Backing, Aborting, Unstaging, AtFile, Called

(* The loop over the active operations ends, then the one over cleanups.   *)
LEMMA RecoverNextStep ==
    ASSUME IInv, RecoverNext
    PROVE  Control' /\ Visits' /\ Settled'
<1>1. pc = "next" /\ cur' = 0 /\ ops' = ops /\ faults' = faults /\ todo = {}
    BY DEF RecoverNext, IInv, Places, db, Staging, Swapping, Recording, Backing, Aborting,
       Unstaging, AtFile, Called
<1>2. phase \in {"recovering", "cleaning"}
    BY <1>1 DEF IInv, Places, TypeOK, CallTyped
<1>3. OpIds' = OpIds /\ 0 \notin OpIds
    BY <1>1 DEF OpIds
<1>4. Control'
    BY <1>1, <1>2, Away DEF RecoverNext
<1>5. Visits'
    <2>1. CASE phase = "recovering"
        BY <1>1, <1>3, <2>1 DEF RecoverNext, Visits, Active
    <2>2. CASE phase = "cleaning"
        BY <1>1, <2>2 DEF RecoverNext, Visits
    <2> QED
        BY <1>2, <2>1, <2>2
<1>6. Settled'
    BY <1>1, <1>3 DEF IInv, Settled, Active, Staging, Swapping, Recording, Backing,
       Aborting, Unstaging, AtFile, Called
<1> QED
    BY <1>4, <1>5, <1>6

(* The operation it visits next.                                           *)
LEMMA Visiting ==
    ASSUME IInv, pc = "next", todo # {}
    PROVE  /\ Min(todo) \in todo /\ Min(todo) \in OpIds /\ Min(todo) # 0
           /\ cur = 0 /\ 0 \notin OpIds /\ ops[Min(todo)].cleanup
           /\ phase = "recovering" =>
                 /\ Active(Min(todo))
                 /\ ops[Min(todo)].state \in {"preparing", "prepared", "applying", "verifying",
                                              "rolling_back", "recovery_required"}
           /\ phase = "cleaning" => ops[Min(todo)].state \in {"completed", "rolled_back"}
<1>1. todo \subseteq OpIds /\ todo \subseteq Nat /\ 0 \notin OpIds
    BY RowsTyped DEF IInv, TypeOK, CallTyped, OpIds
<1>2. Min(todo) \in todo
    BY <1>1, LeastOf
<1>3. cur = 0
    BY DEF IInv, Places, Staging, Swapping, Recording, Backing, Aborting, Unstaging, AtFile,
       Called
<1> DEFINE o == Min(todo)
<1> HIDE DEF o
<1>4. o \in todo /\ o \in OpIds /\ o # 0
    BY <1>1, <1>2 DEF o
<1>5. ops[o].state \in OpStates /\ ops[o].cleanup \in BOOLEAN
    BY <1>4, RowsTyped DEF IInv, TypeOK
<1>6. CASE phase = "recovering"
    <2>1. Active(o)
        BY <1>4, <1>6 DEF IInv, Visits
    <2>2. ops[o].cleanup
        BY <1>4, <1>5, <2>1 DEF IInv, CleanedUp
    <2> QED
        BY <1>1, <1>3, <1>4, <1>5, <1>6, <2>1, <2>2 DEF o, Active, OpStates
<1>7. CASE phase = "cleaning"
    BY <1>1, <1>3, <1>4, <1>5, <1>7 DEF o, Active, OpStates, IInv, Visits
<1> QED
    BY <1>6, <1>7 DEF IInv, TypeOK, CallTyped, Places

(* Nothing but the visited operation leaves the list.                      *)
LEMMA VisitLoop ==
    ASSUME IInv, pc = "next", todo # {}, ops' = ops, faults' = faults \/ faults' = faults + 1,
           phase' = phase, todo' = todo \ {Min(todo)},
           \/ cur' = Min(todo) /\ pc' \in Called
           \/ cur' = 0 /\ (phase = "recovering" /\ faults' = 0 => ops[Min(todo)].state = "recovery_required")
    PROVE  Visits' /\ Settled'
<1> DEFINE o == Min(todo)
<1>1. o \in todo /\ o \in OpIds /\ 0 \notin todo /\ OpIds' = OpIds /\ phase # "serving"
    BY Visiting DEF OpIds, IInv, TypeOK, CallTyped, Places
<1>2. faults' = 0 => faults = 0
    BY DEF IInv, TypeOK, CallTyped
<1>3. pc \notin Called
    BY DEF Staging, Swapping, Recording, Backing, Aborting, Unstaging, AtFile, Called
<1> HIDE DEF o
<1>4. Visits'
    BY <1>1 DEF IInv, Visits, Active, o
<1>5. ASSUME faults' = 0, NEW x \in OpIds, Active(x), ops[x].state # "recovery_required"
      PROVE  (pc' \in Called /\ x = cur') \/ (phase' = "recovering" /\ x \in todo')
    <2>1. phase = "recovering" /\ x \in todo
        BY <1>2, <1>3, <1>5 DEF IInv, Settled
    <2> QED
        BY <1>5, <2>1 DEF o
<1>6. Settled'
    BY <1>1, <1>5 DEF Settled, Active
<1> QED
    BY <1>4, <1>6

(* A pending cleanup is taken up.                                          *)
LEMMA RecoverCleanupStep ==
    ASSUME IInv, RecoverCleanup
    PROVE  Control' /\ Visits' /\ Settled'
<1> DEFINE o == Min(todo)
<1>1. /\ pc = "next" /\ phase = "cleaning" /\ todo # {} /\ ops' = ops /\ sibling' = sibling
      /\ (faults' = faults \/ faults' = faults + 1) /\ phase' = phase /\ todo' = todo \ {o}
      /\ \/ pc' = "cleanup" /\ cur' = o /\ idx' = 1
         \/ pc' = "next" /\ cur' = 0
    BY DEF RecoverCleanup, Visit, fs, db, Fault, NoFault
<1>2. /\ o \in OpIds /\ ops[o].cleanup /\ ops[o].state \in {"completed", "rolled_back"} /\ o # 0
      /\ OpIds' = OpIds
    BY <1>1, Visiting DEF OpIds
<1>3. Len(Manifest[ops[o].set]) \in Nat \ {0}
    BY <1>2, RowsTyped, ManifestOf DEF IInv, TypeOK
<1>4. Visits' /\ Settled'
    BY <1>1, VisitLoop DEF Staging, Swapping, Recording, Backing, Aborting, Unstaging,
       AtFile, Called
<1>5. CASE pc' = "next" /\ cur' = 0
    BY <1>1, <1>4, <1>5, Away
<1>6. CASE pc' = "cleanup" /\ cur' = o /\ idx' = 1
    <2> HIDE DEF o
    <2> USE DEF Staging, Swapping, Recording, Backing, Aborting, Unstaging, AtFile, Called
    <2>1. Places'
        BY <1>1, <1>2, <1>3, <1>6 DEF Places
    <2>2. JournalAt'
        BY <1>1, <1>2, <1>6 DEF JournalAt
    <2>3. Verified' /\ SiblingsGo' /\ SiblingsCome' /\ OutcomeAt'
        BY <1>6 DEF Verified, SiblingsGo, SiblingsCome, OutcomeAt, Gone
    <2> QED
        BY <1>4, <2>1, <2>2, <2>3 DEF Control
<1> QED
    BY <1>1, <1>5, <1>6

(* An active operation is taken up where the crash left it.                *)
LEMMA RecoverOperationStep ==
    ASSUME IInv, RecoverOperation
    PROVE  Control' /\ Visits' /\ Settled'
<1> DEFINE o == Min(todo)
           st == ops[o].state
           n == Len(ops[o].files)
<1>1. /\ pc = "next" /\ phase = "recovering" /\ todo # {} /\ ops' = ops /\ sibling' = sibling
      /\ target' = target /\ base' = base
      /\ (faults' = faults \/ faults' = faults + 1) /\ phase' = phase /\ todo' = todo \ {o}
      /\ \/ st = "recovery_required" /\ pc' = "next" /\ cur' = 0
         \/ /\ st # "recovery_required" /\ cur' = o /\ known' = st
            /\ \/ pc' = "require" \/ (st = "preparing" /\ pc' = "recover_preparing")
               \/ /\ st \in {"applying", "verifying"} /\ pc' = "applied" /\ idx' = 1
                  /\ \A i \in 1..n : PairIsApplied(o, i)
               \/ st # "preparing" /\ pc' = "rollback"
    BY DEF RecoverOperation, Visit, fs, db, world, Fault, NoFault
<1>2. /\ o \in OpIds /\ ops[o].cleanup /\ o # 0 /\ OpIds' = OpIds
      /\ st \in {"preparing", "prepared", "applying", "verifying", "rolling_back", "recovery_required"}
    BY <1>1, Visiting DEF OpIds
<1>3. /\ Len(Manifest[ops[o].set]) \in Nat \ {0} /\ n = Len(Manifest[ops[o].set])
      /\ DOMAIN Manifest[ops[o].set] = 1..n
    BY <1>2, RowsTyped, ManifestOf DEF IInv, TypeOK
<1>4. Visits' /\ Settled'
    BY <1>1, VisitLoop DEF Staging, Swapping, Recording, Backing, Aborting, Unstaging,
       AtFile, Called
<1>5. CASE pc' = "next" /\ cur' = 0
    BY <1>1, <1>4, <1>5, Away
<1>6. CASE st # "recovery_required" /\ cur' = o /\ known' = st
    <2> HIDE DEF o
    <2> USE DEF Staging, Swapping, Recording, Backing, Aborting, Unstaging, AtFile, Called
    <2>0. pc' \in {"require", "recover_preparing", "applied", "rollback"}
        BY <1>1, <1>2, <1>6
    <2>1. Places'
        BY <1>1, <1>2, <1>3, <1>6, <2>0 DEF Places
    <2>2. JournalAt'
        BY <1>1, <1>2, <1>6, <2>0 DEF JournalAt, Agrees
    <2>3. Verified' /\ SiblingsGo' /\ SiblingsCome'
        BY <1>1, <1>2, <1>6, <2>0 DEF Verified, SiblingsGo, SiblingsCome
    <2>4. OutcomeAt'
        <3>1. CASE pc' = "applied"
            <4>1. \A i \in DOMAIN Manifest[ops[o].set] : target[PathOf(o, i)] = ops[o].files[i].staged
                BY <1>1, <1>2, <1>3, <1>6, <3>1 DEF PairIsApplied
            <4>2. \A i \in DOMAIN Manifest[ops[o].set] : Restored(cur, i)'
                BY <1>1, <1>6, <4>1 DEF Restored, PathOf
            <4> QED
                BY <1>1, <1>6, <3>1, <4>2 DEF OutcomeAt
        <3>2. CASE pc' # "applied"
            BY <2>0, <3>2 DEF OutcomeAt
        <3> QED
            BY <3>1, <3>2
    <2> QED
        BY <1>4, <2>1, <2>2, <2>3, <2>4 DEF Control
<1> QED
    BY <1>1, <1>5, <1>6

-----------------------------------------------------------------------------
(* The commands, the other programs and the crash.                         *)
LEMMA ExecuteStep ==
    ASSUME IInv, Execute
    PROVE  Control' /\ Visits' /\ Settled'
<1>1. PICK s \in 1..Sets, n \in Nat : Begins(s, n)
    BY ExecuteBegins DEF IInv
<1>2. /\ pc = "idle" /\ pc' = "stage" /\ cur' = n /\ idx' = 1 /\ known' = "preparing"
      /\ phase = "serving" /\ phase' = "serving" /\ todo = {} /\ todo' = {} /\ faults' = faults
    BY <1>1 DEF Execute, Begins, loop, IInv, Places, Visits
<1>3. /\ OpIds' = OpIds \cup {n} /\ n \notin OpIds /\ \A o \in OpIds : ops'[o] = ops[o]
      /\ ops'[n].set = s /\ ops'[n].state = "preparing" /\ ops'[n].cleanup = TRUE
    BY <1>1, NewRow DEF IInv
<1>4. Len(Manifest[s]) \in Nat \ {0}
    BY ManifestOf
<1>5. /\ Len(sibling'[n]) = Len(Manifest[s])
      /\ \A i \in 1..Len(Manifest[s]) : sibling'[n][i] = None /\ ops'[n].files[i].staged = None
    BY <1>1 DEF Begins
<1> USE DEF Staging, Swapping, Recording, Backing, Aborting, Unstaging, AtFile, Called
<1>6. Places' /\ JournalAt'
    BY <1>2, <1>3, <1>4 DEF Places, JournalAt
<1>7. Verified' /\ SiblingsGo' /\ OutcomeAt'
    BY <1>2 DEF Verified, SiblingsGo, OutcomeAt
<1>8. SiblingsCome'
    BY <1>2, <1>4, <1>5 DEF SiblingsCome, Row, Files
<1>9. Visits'
    BY <1>2 DEF Visits
<1>10. Settled'
    BY <1>2, <1>3 DEF IInv, Settled, Active
<1> QED
    BY <1>6, <1>7, <1>8, <1>9, <1>10 DEF Control

(* A crash puts every active operation on the list.                        *)
LEMMA CrashStep ==
    ASSUME IInv, Crash
    PROVE  Control' /\ Visits' /\ Settled'
<1>1. pc' = "next" /\ cur' = 0 /\ phase' = "recovering" /\ ops' = ops
      /\ todo' = {o \in OpIds : Active(o)}
    BY DEF Crash, db
<1>2. OpIds' = OpIds /\ 0 \notin OpIds
    BY <1>1 DEF OpIds
<1>3. Control'
    BY <1>1, Away
<1>4. Visits' /\ Settled'
    BY <1>1, <1>2 DEF Visits, Settled, Active
<1> QED
    BY <1>3, <1>4

(* Steps that leave the call and the journal alone.                        *)
LEMMA OutsideStep ==
    ASSUME IInv, Effect, UNCHANGED <<ops, sibling, pc, cur, idx, known, phase, todo, faults>>,
           target' = target \/ nextId' = nextId + 1
    PROVE  Control' /\ Visits' /\ Settled'
<1>1. OpIds' = OpIds
    BY DEF OpIds
<1>2. Places' /\ JournalAt' /\ Visits' /\ Settled'
    BY <1>1 DEF IInv, Places, JournalAt, Agrees, Visits, Settled, Active
<1>3. Verified' /\ SiblingsGo' /\ SiblingsCome'
    BY DEF IInv, Verified, FilesOf, Files, Row, SiblingsGo, Gone, SiblingsCome, Locator,
       PreOf, PathOf
<1>4. ~(Swaps /\ target' # target)
    BY DEF Swaps, IInv, TypeOK, WorkspaceTyped
<1>5. ~Names
    <2>1. ASSUME Names PROVE FALSE
        <3>1. /\ Row.staged = None /\ Locator # None /\ cur \in OpIds
                 /\ idx \in 1..Len(ops[cur].files)
            BY <2>1, HereTyped DEF Names, IInv
        <3>2. ops'[cur].files[idx].staged = Locator
            BY <2>1, <3>1 DEF Names, RowMoves
        <3> QED
            BY <3>1, <3>2 DEF Row, Files
    <2> QED
        BY <2>1
<1>6. OutcomeAt'
    <2>1. CASE pc \in Called
        <3>1. cur \in OpIds
            BY <2>1 DEF IInv, Places
        <3>2. \A i \in DOMAIN Manifest[ops[cur].set] :
                  (Original(cur, i) => Original(cur, i)') /\ (Restored(cur, i) => Restored(cur, i)')
            BY <1>4, <1>5, <3>1, OutcomesStay DEF IInv
        <3>3. pc \in AtFile => idx \in DOMAIN Manifest[ops[cur].set]
            BY <2>1, <3>1, AtRowHere, HereTyped DEF IInv
        <3>4. (pc = "mark_back" => Original(cur, idx)')
            BY <3>2, <3>3 DEF IInv, OutcomeAt, AtFile, Backing
        <3> QED
            BY <3>2, <3>4 DEF IInv, OutcomeAt
    <2>2. CASE pc \notin Called
        BY <2>2 DEF OutcomeAt, Staging, Swapping, Recording, Backing, Aborting, Unstaging,
           AtFile, Called
    <2> QED
        BY <2>1, <2>2
<1> QED
    BY <1>2, <1>3, <1>6 DEF Control

(* The steps of a preview, of a refusal and of other programs.             *)
LEMMA OutsideSteps ==
    ASSUME IInv, Effect,
           \/ (\E s \in 1..Sets, b \in {"turn_result", "after_completed_undo"} : Prepare(s, b))
           \/ ExecuteBlocked \/ (\E p \in Paths : ExternalEdit(p) \/ AppMutation(p))
           \/ ExternalGit \/ UNCHANGED vars
    PROVE  Control' /\ Visits' /\ Settled'
<1>1. /\ UNCHANGED <<ops, sibling, pc, cur, idx, known, phase, todo, faults>>
      /\ target' = target \/ nextId' = nextId + 1
    BY DEF Prepare, ExecuteBlocked, ExternalEdit, AppMutation, Put, ExternalGit, vars, fs,
       db, loop, world
<1> QED
    BY <1>1, OutsideStep

(* Every step keeps what the calls rely on.                                *)
LEMMA ControlKept ==
    ASSUME IInv, Effect, [Next]_vars
    PROVE  Control' /\ Visits' /\ Settled'
BY StagingSteps, ApplySteps, EndingSteps, RollbackSteps, UnstagingSteps, RecoverNextStep,
   RecoverCleanupStep, RecoverOperationStep, ExecuteStep, CrashStep, OutsideSteps DEF Next, Step

-----------------------------------------------------------------------------
(* The types of a call.                                                    *)
Advances ==
    /\ cur' \in {cur, 0} /\ idx' \in Nat /\ known' \in OpStates \cup {None}
    /\ UNCHANGED <<phase, todo, token, edits, crashes>>
    /\ faults' \in Nat /\ gitSame' = gitSame

(* A step of a call keeps the types of its registers.                      *)
LEMMA CallAdvances ==
    ASSUME IInv,
           \/ RequireRecovery \/ StageCreate \/ StageFill \/ StageCheck \/ StageJournal
           \/ ToPrepared \/ ToApplying \/ ApplyCheck \/ ApplySwap \/ ApplyVerify
           \/ RecordApplied \/ RecordVerified \/ CheckGit \/ ToVerifying \/ LostVerifying
           \/ FinalVerify \/ ToCompleted \/ CleanupTerminal \/ FinishCleanup
           \/ Rollback \/ RollbackCheck \/ RollbackSwap \/ RollbackVerify \/ RollbackMark
              \/ ToRolledBack
           \/ MarkRecovery \/ AbortPreparing \/ AbortFile \/ AbortMark \/ RecoverPreparing
           \/ RecoverUnstage \/ RecoverUnstageMark \/ RecoverUnstaged
    PROVE  Advances
<1>1. idx \in Nat /\ faults \in Nat /\ known \in OpStates \cup {None}
    BY DEF IInv, TypeOK, CallTyped
<1>2. pc = "rollback" => Count \in Nat
    BY RowsTyped DEF IInv, TypeOK, Places, Called, Count, Files
<1> USE <1>1 DEF Advances, Goto, GotoFile, GotoAs, Return, loop, world, Fault, NoFault, OpStates
<1>3. CASE RequireRecovery \/ ToPrepared \/ ToApplying \/ ToVerifying \/ LostVerifying
           \/ ToCompleted
    BY <1>3 DEF RequireRecovery, ToPrepared, ToApplying, ToVerifying, LostVerifying,
       ToCompleted, Move
<1>4. CASE ToRolledBack \/ AbortPreparing \/ RecoverPreparing \/ RecoverUnstaged \/ Rollback
    BY <1>2, <1>4 DEF ToRolledBack, AbortPreparing, RecoverPreparing, RecoverUnstaged,
       Rollback, Move
<1>5. CASE StageCreate \/ StageFill \/ StageCheck \/ StageJournal \/ ApplyCheck \/ ApplySwap
           \/ ApplyVerify
    BY <1>5 DEF StageCreate, StageFill, StageCheck, StageJournal, ApplyCheck, ApplySwap,
       ApplyVerify
<1>6. CASE RecordApplied \/ RecordVerified \/ CheckGit \/ FinalVerify \/ CleanupTerminal
           \/ FinishCleanup
    BY <1>6 DEF RecordApplied, RecordVerified, CheckGit, FinalVerify, CleanupTerminal,
       FinishCleanup,
       RecordFailed, Recorded, Cleaned
<1>7. CASE RollbackCheck \/ RollbackSwap \/ RollbackVerify \/ MarkRecovery \/ AbortFile
           \/ RecoverUnstage
    BY <1>7 DEF RollbackCheck, RollbackSwap, RollbackVerify, MarkRecovery, AbortFile,
       RecoverUnstage
<1>8. CASE RollbackMark \/ AbortMark \/ RecoverUnstageMark
    BY <1>8 DEF RollbackMark, AbortMark, RecoverUnstageMark, MarkRolledBack
<1> QED
    BY <1>3, <1>4, <1>5, <1>6, <1>7, <1>8

(* What a preview may expect at a path.                                    *)
LEMMA ExpectedTyped ==
    ASSUME TypeOK, NEW s \in 1..Sets, NEW p \in Paths, NEW b
    PROVE  ExpectedResult(s, p, b) \subseteq Wants
<1>1. target[p] \in FileType /\ OpIds \subseteq Nat
    BY RowsTyped DEF TypeOK, WorkspaceTyped
<1>2. \A k \in Nat : [expected |-> target[p], from |-> k] \in Wants
    BY <1>1 DEF Wants
<1>3. ChainSources(s, p, target[p]) \subseteq Nat
    BY <1>1 DEF ChainSources
<1> QED
    BY <1>2, <1>3 DEF ExpectedResult

(* The token of a preview.                                                 *)
LEMMA PreparedTyped ==
    ASSUME TypeOK, NEW s \in 1..Sets, NEW b \in {"turn_result", "after_completed_undo"}, Prepare(s, b)
    PROVE  token' \in Tokens /\ Len(token'.want) = Len(Manifest[token'.set])
<1>1. /\ DOMAIN Manifest[s] = 1..Len(Manifest[s]) /\ Len(Manifest[s]) \in Nat
      /\ \A i \in 1..Len(Manifest[s]) : Manifest[s][i] \in Paths
    BY ManifestOf
<1>2. PICK want \in [DOMAIN Manifest[s] -> UNION {ExpectedResult(s, p, b) : p \in Paths}] :
          /\ \A i \in DOMAIN Manifest[s] : want[i] \in ExpectedResult(s, Manifest[s][i], b)
          /\ token' = [set |-> s, binding |-> b, want |-> want, fresh |-> TRUE]
    BY DEF Prepare
<1>3. \A i \in 1..Len(Manifest[s]) : want[i] \in Wants
    BY <1>1, <1>2, ExpectedTyped
<1>4. want \in [1..Len(Manifest[s]) -> Wants]
    BY <1>1, <1>2, <1>3
<1>5. want \in Seq(Wants) /\ Len(want) = Len(Manifest[s])
    BY <1>1, <1>4
<1> QED
    BY <1>2, <1>5 DEF Tokens

(* The running call keeps its types.                                       *)
LEMMA CallTypedKept ==
    ASSUME IInv, Effect, [Next]_vars
    PROVE  CallTyped' /\ gitSame' \in BOOLEAN
<1>1. CallTyped /\ gitSame \in BOOLEAN /\ Len(ops) \in Nat
    BY RowsTyped DEF IInv, TypeOK, WorkspaceTyped
<1>2. OpIds \subseteq OpIds' /\ Len(ops') \in Nat /\ Len(ops') >= Len(ops)
    <2>1. \A o \in OpIds : o \in OpIds'
        BY StatesStay DEF IInv
    <2>2. Len(ops') \in Nat /\ Len(ops') >= Len(ops)
        <3>1. CASE Quiet
            <4>1. Len(ops') = Len(ops)
                BY <3>1 DEF Quiet, Still, Moves, OpMoves, Marks, Names, RowMoves, Finishes,
                   CleanupEnds
            <4> QED
                BY <1>1, <4>1
        <3>2. CASE Disturbs
            BY <1>1, <3>2, DisturbsRows DEF IInv
        <3>3. CASE \E s \in 1..Sets, n \in Nat : Begins(s, n)
            BY <1>1, <3>3 DEF Begins
        <3> QED
            BY <3>1, <3>2, <3>3 DEF Effect, Quiet, Disturbs
    <2> QED
        BY <2>1, <2>2
<1>3. CASE Advances
    BY <1>1, <1>2, <1>3 DEF Advances, CallTyped
<1>4. CASE RecoverNext
    BY <1>1, <1>2, <1>4 DEF RecoverNext, CallTyped, world
<1>5. CASE RecoverOperation \/ RecoverCleanup
    <2>1. Min(todo) \in OpIds
        BY <1>5, Visiting DEF RecoverOperation, RecoverCleanup
    <2>2. ops[Min(todo)].state \in OpStates
        BY <2>1, RowsTyped DEF IInv, TypeOK
    <2>3. /\ cur' \in {0, Min(todo)} /\ idx' \in {0, 1} /\ known' \in {None, ops[Min(todo)].state}
          /\ todo' \subseteq todo /\ faults' \in {faults, faults + 1}
          /\ UNCHANGED <<phase, token, gitSame, edits, crashes>>
        <3>1. CASE RecoverOperation
            BY <3>1 DEF RecoverOperation, Visit, Fault, NoFault, world
        <3>2. CASE RecoverCleanup
            BY <3>2 DEF RecoverCleanup, Visit, Fault, NoFault, world
        <3> QED
            BY <1>5, <3>1, <3>2
    <2> QED
        BY <1>1, <1>2, <2>1, <2>2, <2>3 DEF CallTyped, OpIds
<1>6. ASSUME NEW s \in 1..Sets, NEW b \in {"turn_result", "after_completed_undo"}, Prepare(s, b)
      PROVE  CallTyped' /\ gitSame' \in BOOLEAN
    <2>1. token' \in Tokens /\ Len(token'.want) = Len(Manifest[token'.set])
        BY <1>6, PreparedTyped DEF IInv
    <2> QED
        BY <1>1, <1>2, <1>6, <2>1 DEF Prepare, CallTyped, loop, world
<1>7. CASE Execute
    BY <1>1, <1>2, <1>7 DEF Execute, CallTyped, loop, OpStates
<1>8. CASE ExecuteBlocked
    BY <1>1, <1>2, <1>8 DEF ExecuteBlocked, CallTyped, loop, world
<1>9. ASSUME NEW p \in Paths, ExternalEdit(p) \/ AppMutation(p)
      PROVE  CallTyped' /\ gitSame' \in BOOLEAN
    <2>1. /\ edits' = edits + 1
             /\ UNCHANGED <<cur, idx, known, phase, todo, gitSame, crashes, faults>>
          /\ token' = token \/ token' = None
             \/ (token # None /\ token' = [token EXCEPT !.fresh = FALSE])
        BY <1>9 DEF ExternalEdit, AppMutation, Put, loop
    <2>2. token' \in Tokens \cup {None}
          /\ (token' # None => Len(token'.want) = Len(Manifest[token'.set]))
        BY <1>1, <2>1 DEF CallTyped, Tokens
    <2> QED
        BY <1>1, <1>2, <2>1, <2>2 DEF CallTyped
<1>10. CASE ExternalGit
    BY <1>1, <1>2, <1>10 DEF ExternalGit, CallTyped, loop
<1>11. CASE Crash
    BY <1>1, <1>2, <1>11 DEF Crash, CallTyped
<1>12. CASE UNCHANGED vars
    BY <1>1, <1>2, <1>12 DEF vars, CallTyped, loop, world
<1> QED
    BY <1>3, <1>4, <1>5, <1>6, <1>7, <1>8, <1>9, <1>10, <1>11, <1>12, CallAdvances DEF Next,
       Step

-----------------------------------------------------------------------------
(* The invariant.                                                          *)
LEMMA InitInv ==
    ASSUME Init
    PROVE  IInv
<1>1. OpIds = {} /\ Len(ops) = 0
    BY DEF Init, OpIds
<1>2. ASSUME NEW p \in Paths
      PROVE  /\ target[p] \in FileType /\ target[p].id \in 1..Sets
             /\ \A r \in 1..Sets : Touches(r, p) => r <= target[p].id
    <2> DEFINE T == {r \in 1..Sets : Touches(r, p)}
    <2>1. T \in SUBSET (1..Sets) /\ T # {}
        BY PathTouched
    <2>2. Max(T) \in T /\ \A r \in T : r <= Max(T)
        BY <2>1, NewestOf
    <2>3. PICK s \in 1..Sets : s = Max(T)
        BY <2>2
    <2>4. s \in Int /\ s \in Nat /\ \A r \in 1..Sets : Touches(r, p) => r <= s
        BY <2>2, <2>3
    <2>5. target[p] = TurnResult(s, p)
        BY <2>3 DEF Init
    <2>6. Post(s, p) \in Int
        <3>1. Post(s, p) \in Nat \ {0}
            BY <2>4, PreNat, Zenon
        <3> QED
            BY <3>1
    <2>7. target[p] \in FileType /\ target[p].id = s
        BY <2>4, <2>5, <2>6 DEF TurnResult, File, FileType
    <2> QED
        BY <2>4, <2>7
<1>3. TypeOK
    <2>1. target \in [Paths -> FileType]
        <3>1. \E F : target = [p \in Paths |-> F[p]]
            <4>1. target = [p \in Paths |-> target[p]]
                BY DEF Init
            <4> QED
                BY <4>1
        <3> QED
            BY <1>2, <3>1
    <2>2. WorkspaceTyped
        BY <1>1, <2>1, UndoAssumption DEF Init, WorkspaceTyped
    <2>3. JournalTyped
        BY <1>1 DEF Init, JournalTyped
    <2>4. CallTyped
        BY <1>1 DEF Init, CallTyped
    <2> QED
        BY <2>2, <2>3, <2>4 DEF TypeOK
<1>4. Identities
    <2>1. nextId = Sets + 1 /\ base = target /\ Sets \in Nat
        BY UndoAssumption DEF Init
    <2>2. \A p \in Paths : Aged(p, target[p]) /\ base[p].id < nextId
        BY <1>2, <2>1 DEF Aged, NotOlder
    <2> QED
        BY <1>1, <2>1, <2>2 DEF Identities
<1>5. Places /\ JournalAt /\ Verified /\ SiblingsGo /\ SiblingsCome /\ OutcomeAt /\ Visits
      /\ Settled
    BY <1>1 DEF Init, Places, JournalAt, Verified, SiblingsGo, SiblingsCome, OutcomeAt,
       Visits, Settled,
       Staging, Swapping, Recording, Backing, Aborting, Unstaging, AtFile, Called
<1>6. FilesFollow /\ CleanedUp /\ OnePerSet /\ Chained /\ Alone /\ Named /\ StagedOnce
      /\ PlannedApart
      /\ BaseInstalled /\ Outcome
    BY <1>1 DEF FilesFollow, CleanedUp, OnePerSet, Chained, Alone, Named, StagedOnce,
       PlannedApart,
       BaseInstalled, Outcome
<1>7. NoFileIsLost
    BY DEF Init, NoFileIsLost, Kept
<1> QED
    BY <1>3, <1>4, <1>5, <1>6, <1>7 DEF IInv

(* Every step keeps the invariant.                                         *)
LEMMA StepInv ==
    ASSUME IInv, [Next]_vars
    PROVE  IInv'
<1>1. Effect
    BY Effects
<1>2. Control' /\ Visits' /\ Settled'
    BY <1>1, ControlKept
<1>3. TypeOK'
    BY <1>1, CallTypedKept, TypesKept DEF IInv, TypeOK
<1>4. FilesFollow' /\ CleanedUp' /\ OnePerSet'
    BY <1>1, FilesFollowKept, CleanedUpKept, OnePerSetKept DEF IInv
<1>5. Chained' /\ Alone' /\ Identities'
    BY <1>1, ChainedKept, AloneKept, IdentitiesKept DEF IInv
<1>6. Named' /\ StagedOnce' /\ PlannedApart'
    BY <1>1, NamedKept, StagedOnceKept, PlannedApartKept DEF IInv
<1>7. BaseInstalled' /\ NoFileIsLost' /\ Outcome'
    BY <1>1, BaseInstalledKept, NoFileIsLostKept, OutcomeKept DEF IInv
<1> QED
    BY <1>2, <1>3, <1>4, <1>5, <1>6, <1>7 DEF IInv, Control

(* The journal, the siblings and the running call stay in step with each   *)
(* other through every crash, refused write and foreign edit.              *)
THEOREM UndoInvariance == Spec => []IInv
<1>1. Init => IInv
    BY InitInv
<1>2. IInv /\ [Next]_vars => IInv'
    BY StepInv
<1> QED
    BY <1>1, <1>2, PTL DEF Spec

(* Every state of an undo service is well typed: a journal row keeps one   *)
(* of its states, and a file record and a locator per manifest path.       *)
THEOREM UndoTypes == Spec => []TypeOK
<1>1. IInv => TypeOK
    BY DEF IInv
<1> QED
    BY <1>1, UndoInvariance, PTL

(* restore_service.rs never destroys a file: what was at a path is at the  *)
(* path or at an exchange locator, or a completed undo named it as the     *)
(* file it replaces.                                                       *)
THEOREM FilesAreKept == Spec => []NoFileIsLost
<1>1. IInv => NoFileIsLost
    BY DEF IInv
<1> QED
    BY <1>1, UndoInvariance, PTL

(* A terminal operation restored every path that nobody else wrote, or     *)
(* left each as it was, wherever the process crashed in between.           *)
THEOREM UndoIsAllOrNothing == Spec => []AllOrNothing
<1>1. IInv => AllOrNothing
    <2> SUFFICES ASSUME IInv, Len(ops) > 0, NEW o, o = Len(ops), NEW i \in DOMAIN ops[o].files,
                        base[PathOf(o, i)] = ops[o].files[i].expected
                 PROVE  /\ ops[o].state = "completed" =>
                              /\ target[PathOf(o, i)] = ops[o].files[i].staged
                              /\ ops[o].files[i].staged.bytes = PreOf(o, i)
                        /\ ops[o].state = "rolled_back" =>
                              target[PathOf(o, i)] = ops[o].files[i].expected
        BY DEF AllOrNothing
    <2>1. /\ o \in OpIds /\ i \in DOMAIN Manifest[ops[o].set] /\ i \in 1..Len(ops[o].files)
          /\ o \in Nat
        BY RowsTyped, ManifestOf DEF IInv, TypeOK
    <2>2. Calm(o, i)
        BY <2>1 DEF Calm
    <2>3. CASE ops[o].state = "completed"
        <3>1. ops[o].files[i].state = "verified"
            BY <2>1, <2>3 DEF IInv, FilesFollow, FilesOf
        <3>2. target[PathOf(o, i)] = ops[o].files[i].staged
            BY <2>1, <2>2, <2>3 DEF IInv, Outcome, Restored
        <3>3. ops[o].files[i].staged.bytes = PreOf(o, i)
            BY <2>1, <3>1 DEF IInv, Named
        <3> QED
            BY <2>3, <3>2, <3>3
    <2>4. CASE ops[o].state = "rolled_back"
        BY <2>1, <2>2, <2>4 DEF IInv, Outcome, Original
    <2> QED
        BY <2>3, <2>4
<1> QED
    BY <1>1, UndoInvariance, PTL

(* A file in an exchange locator belongs to an operation that is active or *)
(* has its cleanup pending, so a later recover_startup looks at it.        *)
THEOREM SiblingsAreAttended == Spec => []NoOrphanSibling
<1>1. IInv => NoOrphanSibling
    <2> SUFFICES ASSUME IInv, NEW o \in OpIds, NEW i \in DOMAIN sibling[o], sibling[o][i] # None,
                        ~ops[o].cleanup
                 PROVE  FALSE
        BY DEF NoOrphanSibling
    <2>1. DOMAIN sibling[o] = 1..Len(sibling[o])
        BY SiblingsTyped DEF IInv, TypeOK
    <2> QED
        BY <2>1 DEF IInv, CleanedUp, Gone
<1> QED
    BY <1>1, UndoInvariance, PTL

(* A turn is undone once, consumes its set, and only after every newer     *)
(* turn that changed one of its paths was undone.                          *)
THEOREM TurnsAreUndoneInOrder == Spec => []UndoneInOrder
<1>1. IInv => UndoneInOrder
    <2> SUFFICES ASSUME IInv, NEW o \in OpIds, ops[o].state = "completed"
                 PROVE  /\ setState[ops[o].set] = "consumed"
                        /\ \A x \in OpIds : x # o /\ ops[x].set = ops[o].set
                               => ops[x].state # "completed"
                        /\ \A r \in 1..Sets : \A i \in DOMAIN ops[o].files :
                              r > ops[o].set /\ Touches(r, PathOf(o, i)) =>
                                 \E x \in 1..(o - 1) : ops[x].set = r /\ ops[x].state = "completed"
        BY DEF UndoneInOrder
    <2>1. DOMAIN ops[o].files = DOMAIN Manifest[ops[o].set]
        BY RowsTyped, ManifestOf DEF IInv, TypeOK
    <2> QED
        BY <2>1 DEF IInv, OnePerSet, Chained, Undone
<1> QED
    BY <1>1, UndoInvariance, PTL

(* With a store that takes every write, no operation is in flight while    *)
(* the service is idle: recovery or the call itself ended each.            *)
THEOREM IdleMeansSettled == Spec => []NothingInFlight
<1>1. IInv => NothingInFlight
    <2> SUFFICES ASSUME IInv, pc = "idle", faults = 0, NEW o \in OpIds
                 PROVE  ops[o].state \in {"completed", "rolled_back", "recovery_required"}
        BY DEF NothingInFlight
    <2>1. phase = "serving" /\ pc \notin Called
        BY DEF IInv, Places, Staging, Swapping, Recording, Backing, Aborting, Unstaging,
           AtFile, Called
    <2> QED
        BY <2>1 DEF IInv, Settled, Active
<1> QED
    BY <1>1, UndoInvariance, PTL
=============================================================================
