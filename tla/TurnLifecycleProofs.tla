------------------------ MODULE TurnLifecycleProofs ------------------------
(***************************************************************************)
(* TurnLifecycle for every number of turns, bindings, senders and          *)
(* aborters.  The first invariant holds of the whole system, with a store  *)
(* that may refuse any write; the second of a system nobody aborts; the    *)
(* last also needs a store that takes its writes.                          *)
(***************************************************************************)
EXTENDS TurnLifecycle, FiniteSetTheorems, TLAPS

(* The code a task is in.                                                  *)
Selecting == {"select", "prepare", "prepareSave", "cancelIdle", "attach",
              "resumeAppend", "resumeSave"}
Sending == {"readRow", "readHistory", "start", "save", "setActive", "send"}
Ending == {"claim", "token", "lookup", "append", "cleanup"}
Reading == {"completed", "failed"}
Aborting == {"quiesce", "abortRead", "abortTurn", "abortSession", "abortSave"}

(* Who runs which code.                                                    *)
Places ==
    /\ \A p \in Senders : pc[p] \in {"idle"} \cup Selecting \cup Sending \cup Ending
    /\ \A p \in Bindings :
          pc[p] \in {"off", "stream", "ended", "dispatch"} \cup Reading \cup Sending \cup Ending
    /\ \A p \in Aborters : pc[p] \in {"idle"} \cup Aborting \cup Ending

(* Every turn that is known anywhere was started, and a task has one just  *)
(* where its code needs it.                                                *)
Carrying == {"save", "setActive", "send", "quiesce", "abortTurn", "abortSession"}
               \cup Reading \cup Ending
KnownTurns ==
    /\ proj.turn \in started \cup {None} /\ proj.last \in started \cup {None}
    /\ \A b \in Bindings : cur[b] \in started \cup {None} /\ work[b] \in Seq(started)
Carried ==
    \A p \in Tasks :
        /\ turn[p] \in started \cup {None}
        /\ pc[p] \in Carrying => turn[p] # None
        /\ pc[p] \notin Carrying \cup {"abortRead", "abortSave"} => turn[p] = None
        /\ pc[p] = "cancelIdle" => bind[p] # None
Known == KnownTurns /\ Carried

(* The transition lock: a sender has it from its first step to its last, a *)
(* bridge while it sends.                                                  *)
Locked ==
    /\ \A p \in Senders : pc[p] # "idle" => lock = p
    /\ \A b \in Bindings : pc[b] \in Sending => lock = b
    /\ lock # None => pc[lock] \in Selecting \cup Sending \cup Ending

(* The two other parts of NoLeakedGuards.                                  *)
TokensHeld ==
    \A b \in Bindings : tok[b] # None =>
        bind[tok[b]] = b /\ pc[tok[b]] \in {"lookup", "append", "cleanup", "cancelIdle"}
ClaimsHeld ==
    \A t \in Turns : claim[t] # None =>
        turn[claim[t]] = t /\ pc[claim[t]] \in {"token", "lookup", "append"}

(* A tombstone repeats the terminal row; cleanup follows it.  A terminal   *)
(* token is out for the turn the binding carries, if it carries any.       *)
Committed ==
    /\ \A t \in Turns : tomb[t] # None => tomb[t] = terminal[t]
    /\ \A p \in Tasks : pc[p] = "cleanup" => turn[p] \in Turns /\ terminal[turn[p]] # None
TokenOfTurn ==
    \A b \in Bindings : tok[b] # None /\ cur[b] # None => turn[tok[b]] = cur[b]

IInv ==
    /\ TypeOK /\ Places /\ Known /\ Locked /\ TokensHeld /\ ClaimsHeld
    /\ PreparedBindingGetsPrompt /\ Committed /\ TokenOfTurn

-----------------------------------------------------------------------------
(* Without abort_run.                                                      *)

(* The open turn is the one the projection shows, and nobody looks for a   *)
(* turn to start, or cancels a binding, while there is one.                *)
OpenIsActive ==
    /\ row = "Active"
    /\ \A t \in Open : proj.turn = t
    /\ \A p \in Tasks : pc[p] \in {"start", "cancelIdle"} \/ src[p] = "Cancel" => proj.turn = None
    /\ \A p \in Tasks : src[p] # "Quiesce"

(* An open turn is in one task's hands.                                    *)
SoleOwner ==
    \A p, q \in Tasks : turn[p] \in Open /\ turn[q] = turn[p] => p = q

(* Its sender keeps it open, and on its binding once it is there.          *)
SentOpen ==
    \A p \in Tasks :
        /\ pc[p] \in {"save", "setActive", "send"} => turn[p] \in Open
        /\ pc[p] = "send" /\ bound # None => cur[bound] = turn[p]

(* A provider that owes an answer owes the one of the turn its binding     *)
(* carries, which is open, in nobody's hands and bound to the session.     *)
AnswerDue ==
    \A b \in Bindings : work[b] # <<>> =>
        /\ work[b] = <<cur[b]>> /\ cur[b] \in Open /\ bound = b
        /\ \A p \in Tasks : turn[p] # cur[b]

(* So the turn a bridge attributes a result to is the one that was         *)
(* answered, and it is still open and bound when it is to be ended.        *)
ReadOpen ==
    \A b \in Bindings : pc[b] \in Reading =>
        turn[b] \in Open /\ bound = b /\ cur[b] = turn[b]
EndingBound ==
    \A p \in Tasks : pc[p] \in {"claim", "token"} /\ turn[p] \in Open /\ bind[p] # None =>
        bound = bind[p] /\ cur[bind[p]] = turn[p]
Evidence ==
    /\ \A p \in Tasks : pc[p] = "completed" \/ src[p] = "Completed" => turn[p] \in done
    /\ CompletedWasDone

(* Who asks for the end of a turn, and until when.                         *)
Asked ==
    \A p \in Tasks :
        /\ src[p] \in {"Completed", "ProviderFailed", "Cancel"} => pc[p] \in Ending
        /\ src[p] = "Cancel" => p \in Senders
EndedStarted == \A t \in Turns : terminal[t] # None => t \in started

QuietInv ==
    /\ Asked /\ EndedStarted
    /\ OpenIsActive /\ SoleOwner /\ SentOpen /\ AnswerDue /\ ReadOpen /\ EndingBound /\ Evidence

(* OpenTurnIsAttended, given AnswerDue.                                    *)
Attended ==
    \A t \in Open :
        \/ \E p \in Tasks : turn[p] = t
        \/ \E b \in Bindings : cur[b] = t /\ work[b] # <<>>

USE LifecycleConstants

-----------------------------------------------------------------------------
(* What a move of a task does.                                             *)

(* Where a task goes on after terminalize_turn_with_binding.               *)
LEMMA ResumesAt ==
    ASSUME NEW p \in Tasks, NEW ok \in BOOLEAN
    PROVE  \/ p \in Aborters /\ Resumes(p, ok) = "abortRead"
           \/ p \in Senders /\ src[p] = "Cancel" /\ Resumes(p, ok) = "prepare"
           \/ p \in Bindings /\ Resumes(p, ok) = "dispatch"
           \/ p \in Bindings /\ Resumes(p, ok) = "stream"
           \/ p \notin Bindings /\ Resumes(p, ok) = "idle"
<1> DEFINE there == CASE p \in Aborters /\ ok -> "abortRead"
                      [] p \in Senders /\ ok /\ src[p] = "Cancel" -> "prepare"
                      [] p \in Bindings /\ ok /\ src[p] = "Completed" /\ ins[p] -> "dispatch"
                      [] OTHER -> Rest(p)
<1>1. \/ p \in Aborters /\ there = "abortRead"
      \/ p \in Senders /\ src[p] = "Cancel" /\ there = "prepare"
      \/ p \in Bindings /\ there = "dispatch"
      \/ there = Rest(p)
    BY Zenon
<1>2. there = Resumes(p, ok)
    BY DEF Resumes
<1> HIDE DEF there
<1> QED
    BY <1>1, <1>2 DEF Rest

(* The other tasks stay where they are.                                    *)
Others(p) ==
    \A q \in Tasks \ {p} :
        /\ pc'[q] = pc[q] /\ turn'[q] = turn[q] /\ bind'[q] = bind[q]
        /\ src'[q] = src[q] /\ ins'[q] = ins[q]

(* What p has after the step.                                              *)
Has(p, place, t, b, s) ==
    pc'[p] = place /\ turn'[p] = t /\ bind'[p] = b /\ src'[p] = s

LEMMA Leaves ==
    ASSUME TypeOK, NEW p \in Tasks, Leave(p)
    PROVE  /\ LocalsTyped' /\ Others(p) /\ Has(p, Rest(p), None, None, None)
           /\ lock' = IF lock = p THEN None ELSE lock
<1>1. Rest(p) \in Positions
    BY DEF Rest, Positions
<1> QED
    BY <1>1 DEF Leave, TypeOK, LocalsTyped, Others, Has

LEMMA Terminalizes ==
    ASSUME TypeOK, NEW p \in Tasks, NEW t \in Turns \cup {None}, NEW s \in Sources,
           NEW b \in Bindings \cup {None}, Terminalize(p, t, s, b)
    PROVE  LocalsTyped' /\ Others(p) /\ Has(p, "claim", t, b, s) /\ lock' = lock
<1>1. "claim" \in Positions
    BY DEF Positions
<1> QED
    BY <1>1 DEF Terminalize, TypeOK, LocalsTyped, Others, Has

LEMMA Returns ==
    ASSUME TypeOK, NEW p \in Tasks, NEW ok \in BOOLEAN, Return(p, ok)
    PROVE  /\ LocalsTyped' /\ Others(p) /\ Has(p, Resumes(p, ok), None, None, None)
           /\ lock' = IF lock = p /\ Resumes(p, ok) # "prepare" THEN None ELSE lock
<1>1. Resumes(p, ok) \in Positions
    BY ResumesAt DEF Positions
<1> QED
    BY <1>1 DEF Return, Goto, TypeOK, LocalsTyped, Others, Has

LEMMA Goes ==
    ASSUME TypeOK, NEW p \in Tasks, NEW place \in Positions, Goto(p, place)
    PROVE  /\ pc' \in [Tasks -> Positions] /\ pc'[p] = place
           /\ \A q \in Tasks \ {p} : pc'[q] = pc[q]
           /\ UNCHANGED locals =>
                LocalsTyped' /\ Others(p) /\ Has(p, place, turn[p], bind[p], src[p])
BY DEF Goto, TypeOK, LocalsTyped, Others, Has, locals

(* The ways a task moves on: to a place, keeping what it has or not; out   *)
(* of the code, into and out of terminalize_turn_with_binding.             *)
MovesTo(p, place, t, b, s) == LocalsTyped' /\ Others(p) /\ Has(p, place, t, b, s)
Went(p, place) == MovesTo(p, place, turn[p], bind[p], src[p]) /\ lock' = lock
Left(p) ==
    /\ MovesTo(p, Rest(p), None, None, None)
    /\ lock' = IF lock = p THEN None ELSE lock
Entered(p, t, b, s) == MovesTo(p, "claim", t, b, s) /\ lock' = lock
Returned(p) ==
    \E place :
        /\ MovesTo(p, place, None, None, None)
        /\ lock' = IF lock = p /\ place # "prepare" THEN None ELSE lock
        /\ \/ place = Rest(p)
           \/ p \in Senders /\ src[p] = "Cancel" /\ place = "prepare"
           \/ p \in Bindings /\ place = "dispatch"
           \/ p \in Aborters /\ place = "abortRead"

LEMMA MovesOfAll ==
    ASSUME TypeOK, NEW p \in Tasks
    PROVE  /\ Leave(p) => Left(p)
           /\ \A place \in Positions : Goto(p, place) /\ UNCHANGED <<lock, locals>> => Went(p, place)
           /\ \A t \in Turns \cup {None}, b \in Bindings \cup {None}, s \in Sources :
                 Terminalize(p, t, s, b) => Entered(p, t, b, s)
           /\ \A ok \in BOOLEAN : Return(p, ok) => Returned(p)
<1>1. ASSUME Leave(p) PROVE Left(p)
    BY <1>1, Leaves DEF Left, MovesTo
<1>2. ASSUME NEW place \in Positions, Goto(p, place), UNCHANGED <<lock, locals>> PROVE Went(p, place)
    BY <1>2, Goes DEF Went, MovesTo
<1>3. ASSUME NEW t \in Turns \cup {None}, NEW b \in Bindings \cup {None}, NEW s \in Sources,
             Terminalize(p, t, s, b)
      PROVE  Entered(p, t, b, s)
    BY <1>3, Terminalizes DEF Entered, MovesTo
<1>4. ASSUME NEW ok \in BOOLEAN, Return(p, ok) PROVE Returned(p)
    <2>1. /\ MovesTo(p, Resumes(p, ok), None, None, None)
          /\ lock' = IF lock = p /\ Resumes(p, ok) # "prepare" THEN None ELSE lock
        BY <1>4, Returns DEF MovesTo
    <2> QED
        BY <2>1, ResumesAt DEF Returned, Rest
<1> QED
    BY <1>1, <1>2, <1>3, <1>4

(* The steps of a sender before run_send_turn.                             *)
LEMMA SelectMoves ==
    ASSUME TypeOK, NEW p \in Senders
    PROVE  /\ AcquireTransition(p) =>
                 pc[p] = "idle" /\ lock = None /\ lock' = p
                   /\ MovesTo(p, "select", turn[p], bind[p], src[p])
           /\ ResumeBegin(p) =>
                 /\ pc[p] = "idle" /\ lock = None /\ lock' = p
                 /\ \E place \in {"attach", "resumeAppend"} : MovesTo(p, place, turn[p], bind[p], "Resume")
           /\ SelectRefused(p) =>
                 pc[p] = "select" /\ Left(p)
           /\ SelectSame(p) =>
                 pc[p] = "select" /\ (Left(p) \/ Went(p, "attach"))
           /\ SelectSwitch(p) =>
                 /\ pc[p] = "select"
                 /\ \/ Left(p) /\ tok' = tok
                    \/ /\ proj.turn = None /\ bound # None /\ cur[bound] # None /\ tok' = tok
                       /\ Entered(p, cur[bound], bound, "Cancel")
                    \/ /\ proj.turn = None /\ bound # None /\ cur[bound] = None /\ tok[bound] = None
                       /\ tok' = [tok EXCEPT ![bound] = p]
                       /\ lock' = lock /\ MovesTo(p, "cancelIdle", turn[p], bound, src[p])
                    \/ Went(p, "prepare") /\ tok' = tok
           /\ CancelIdle(p) =>
                 pc[p] = "cancelIdle" /\ lock' = lock
                   /\ MovesTo(p, "prepare", turn[p], None, src[p])
           /\ CancelIdleFails(p) =>
                 pc[p] = "cancelIdle" /\ Left(p)
           /\ PrepareRead(p) =>
                 pc[p] = "prepare" /\ (Left(p) \/ Went(p, "prepareSave"))
           /\ PrepareSave(p) =>
                 pc[p] = "prepareSave" /\ Went(p, "attach")
           /\ AttachBound(p) =>
                 /\ pc[p] = "attach"
                 /\ \/ Left(p)
                    \/ bound # None /\ lock' = lock /\ MovesTo(p, "readRow", turn[p], bound, src[p])
           /\ AttachFails(p) =>
                 /\ pc[p] = "attach"
                 /\ \/ Left(p)
                    \/ lock' = lock /\ MovesTo(p, "readRow", turn[p], None, "Unbound")
           /\ ResumeAppend(p) =>
                 pc[p] = "resumeAppend" /\ Went(p, "resumeSave")
           /\ ResumeSave(p) =>
                 pc[p] = "resumeSave" /\ Went(p, "attach")
           /\ ResumeFails(p) =>
                 pc[p] \in {"resumeAppend", "resumeSave"} /\ Left(p)
<1> p \in Tasks
    BY DEF Tasks
<1>1. ASSUME AcquireTransition(p)
      PROVE  pc[p] = "idle" /\ lock = None /\ lock' = p
               /\ MovesTo(p, "select", turn[p], bind[p], src[p])
    BY <1>1 DEF AcquireTransition, At, MovesTo, Others, Has, TypeOK, LocalsTyped,
       Positions, Goto, Sources, Rest, locals
<1>2. ASSUME ResumeBegin(p)
      PROVE  /\ pc[p] = "idle" /\ lock = None /\ lock' = p
                 /\ \E place \in {"attach", "resumeAppend"} : MovesTo(p, place, turn[p], bind[p], "Resume")
    BY <1>2 DEF ResumeBegin, At, MovesTo, Others, Has, TypeOK, LocalsTyped, Positions,
       Goto, Sources
<1>3. ASSUME SelectRefused(p)
      PROVE  pc[p] = "select" /\ Left(p)
    BY <1>3, MovesOfAll DEF SelectRefused, At
<1>4. ASSUME SelectSame(p)
      PROVE  pc[p] = "select" /\ (Left(p) \/ Went(p, "attach"))
    BY <1>4, MovesOfAll DEF SelectSame, At, Positions
<1>5. ASSUME SelectSwitch(p)
      PROVE  /\ pc[p] = "select"
                 /\ \/ Left(p) /\ tok' = tok
                    \/ /\ proj.turn = None /\ bound # None /\ cur[bound] # None /\ tok' = tok
                       /\ Entered(p, cur[bound], bound, "Cancel")
                    \/ /\ proj.turn = None /\ bound # None /\ cur[bound] = None /\ tok[bound] = None
                       /\ tok' = [tok EXCEPT ![bound] = p]
                       /\ lock' = lock /\ MovesTo(p, "cancelIdle", turn[p], bound, src[p])
                    \/ Went(p, "prepare") /\ tok' = tok
    <2>1. CASE Leave(p) /\ tok' = tok
        BY <1>5, <2>1, MovesOfAll DEF SelectSwitch, At
    <2>2. CASE proj.turn = None /\ bound # None /\ cur[bound] # None /\ tok' = tok
               /\ Terminalize(p, cur[bound], "Cancel", bound)
        <3>1. cur[bound] \in Turns \cup {None} /\ bound \in Bindings \cup {None}
                /\ "Cancel" \in Sources
            BY <2>2 DEF TypeOK, BindingsTyped, Sources
        <3>2. Entered(p, cur[bound], bound, "Cancel")
            BY <2>2, <3>1, MovesOfAll
        <3> QED
            BY <1>5, <2>2, <3>2 DEF SelectSwitch, At
    <2>3. CASE proj.turn = None /\ bound # None /\ cur[bound] = None /\ tok[bound] = None
               /\ tok' = [tok EXCEPT ![bound] = p]
               /\ bind' = [bind EXCEPT ![p] = bound]
               /\ Goto(p, "cancelIdle")
               /\ UNCHANGED <<lock, turn, src, ins>>
        <3>1. MovesTo(p, "cancelIdle", turn[p], bound, src[p])
            BY <2>3 DEF MovesTo, Others, Has, TypeOK, LocalsTyped, BindingsTyped,
               Positions, Goto
        <3> QED
            BY <1>5, <2>3, <3>1 DEF SelectSwitch, At
    <2>4. CASE Goto(p, "prepare") /\ UNCHANGED <<tok, lock, locals>>
        <3>1. Went(p, "prepare")
            BY <2>4, MovesOfAll DEF Positions
        <3> QED
            BY <1>5, <2>4, <3>1 DEF SelectSwitch, At
    <2> QED
        BY <1>5, <2>1, <2>2, <2>3, <2>4 DEF SelectSwitch
<1>6. ASSUME CancelIdle(p)
      PROVE  pc[p] = "cancelIdle" /\ lock' = lock
               /\ MovesTo(p, "prepare", turn[p], None, src[p])
    BY <1>6 DEF CancelIdle, At, MovesTo, Others, Has, TypeOK, LocalsTyped, Positions,
       Goto, Sources
<1>7. ASSUME CancelIdleFails(p)
      PROVE  pc[p] = "cancelIdle" /\ Left(p)
    BY <1>7, MovesOfAll DEF CancelIdleFails, At
<1>8. ASSUME PrepareRead(p)
      PROVE  pc[p] = "prepare" /\ (Left(p) \/ Went(p, "prepareSave"))
    BY <1>8, MovesOfAll DEF PrepareRead, At, Positions
<1>9. ASSUME PrepareSave(p)
      PROVE  pc[p] = "prepareSave" /\ Went(p, "attach")
    BY <1>9, MovesOfAll DEF PrepareSave, At, Positions
<1>10. ASSUME AttachBound(p)
      PROVE  /\ pc[p] = "attach"
                 /\ \/ Left(p)
                    \/ bound # None /\ lock' = lock /\ MovesTo(p, "readRow", turn[p], bound, src[p])
    BY <1>10, MovesOfAll, SMTT(30) DEF AttachBound, At, MovesTo, Others, Has, TypeOK, LocalsTyped,
       Positions, Goto, Sources, AfterAttach, BindingsTyped
<1>11. ASSUME AttachFails(p)
      PROVE  /\ pc[p] = "attach"
                 /\ \/ Left(p)
                    \/ lock' = lock /\ MovesTo(p, "readRow", turn[p], None, "Unbound")
    BY <1>11, MovesOfAll DEF AttachFails, At, MovesTo, Others, Has, TypeOK, LocalsTyped,
       Positions, Goto, Sources
<1>12. ASSUME ResumeAppend(p)
      PROVE  pc[p] = "resumeAppend" /\ Went(p, "resumeSave")
    BY <1>12, MovesOfAll DEF ResumeAppend, At, Positions
<1>13. ASSUME ResumeSave(p)
      PROVE  pc[p] = "resumeSave" /\ Went(p, "attach")
    BY <1>13, MovesOfAll DEF ResumeSave, At, Positions
<1>14. ASSUME ResumeFails(p)
      PROVE  pc[p] \in {"resumeAppend", "resumeSave"} /\ Left(p)
    BY <1>14, MovesOfAll DEF ResumeFails, At, Positions
<1> QED
    BY <1>1, <1>2, <1>3, <1>4, <1>5, <1>6, <1>7, <1>8, <1>9, <1>10, <1>11, <1>12, <1>13,
       <1>14

(* A new provider session starts its bridge.                               *)
LEMMA AttachMoves ==
    ASSUME TypeOK, NEW p \in Senders, NEW b \in Bindings, AttachNew(p, b)
    PROVE  /\ pc[p] = "attach" /\ bound = None /\ bound' = b
           /\ pc[b] = "off" /\ pc'[b] = "stream" /\ LocalsTyped'
           /\ \A q \in Tasks \ {p, b} : pc'[q] = pc[q]
           /\ \A q \in Tasks \ {p} : turn'[q] = turn[q] /\ bind'[q] = bind[q] /\ src'[q] = src[q]
           /\ \/ Has(p, "idle", turn[p], bind[p], None) /\ lock' = None
              \/ Has(p, "readRow", turn[p], b, src[p]) /\ lock' = lock
<1>1. p \in Tasks /\ b \in Tasks /\ p # b
    BY DEF Tasks
<1> QED
    BY <1>1 DEF AttachNew, At, Has, TypeOK, LocalsTyped, Positions

(* The steps of run_send_turn and of the provider input.                   *)
LEMMA SendMoves ==
    ASSUME TypeOK, NEW p \in Senders \cup Bindings
    PROVE  /\ ReadRow(p) =>
                 pc[p] = "readRow" /\ (Left(p) \/ Went(p, "readHistory"))
           /\ ReadHistory(p) =>
                 pc[p] = "readHistory" /\ (Left(p) \/ (proj.turn = None /\ Went(p, "start")))
           /\ \A t \in Turns : AppendStarted(p, t) =>
                 pc[p] = "start" /\ lock' = lock /\ MovesTo(p, "save", t, bind[p], src[p])
           /\ SaveRow(p) =>
                 pc[p] = "save" /\ (Entered(p, turn[p], None, "Unbound") \/ Went(p, "setActive"))
           /\ SendTurnFails(p) =>
                 pc[p] \in {"prepareSave", "start", "save"} /\ Left(p)
           /\ SetActiveTurn(p) =>
                 /\ pc[p] = "setActive"
                 /\ \/ Entered(p, turn[p], None, "Unbound") /\ cur' = cur
                    \/ /\ bound # None /\ tok[bound] = None
                       /\ cur' = [cur EXCEPT ![bound] = turn[p]] /\ Went(p, "send")
           /\ SendProviderInput(p) =>
                 pc[p] = "send" /\ Left(p)
           /\ SendProviderInputFails(p) =>
                 /\ pc[p] = "send"
                 /\ \/ bound # None /\ cur[bound] \notin {None, turn[p]} /\ Left(p)
                    \/ /\ bound # None => cur[bound] \in {None, turn[p]}
                       /\ Entered(p, turn[p], bound, "ProviderFailed")
<1> p \in Tasks
    BY DEF Tasks
<1>1. ASSUME ReadRow(p)
      PROVE  pc[p] = "readRow" /\ (Left(p) \/ Went(p, "readHistory"))
    BY <1>1, MovesOfAll DEF ReadRow, At, Positions
<1>2. ASSUME ReadHistory(p)
      PROVE  pc[p] = "readHistory" /\ (Left(p) \/ (proj.turn = None /\ Went(p, "start")))
    BY <1>2, MovesOfAll DEF ReadHistory, At, Positions
<1>3. ASSUME NEW t \in Turns, AppendStarted(p, t)
      PROVE  pc[p] = "start" /\ lock' = lock /\ MovesTo(p, "save", t, bind[p], src[p])
    BY <1>3 DEF AppendStarted, At, MovesTo, Others, Has, TypeOK, LocalsTyped, Positions,
       Goto, Sources
<1>4. ASSUME SaveRow(p)
      PROVE  pc[p] = "save" /\ (Entered(p, turn[p], None, "Unbound") \/ Went(p, "setActive"))
    BY <1>4, MovesOfAll DEF SaveRow, At, Positions, Sources, TypeOK, LocalsTyped
<1>5. ASSUME SendTurnFails(p)
      PROVE  pc[p] \in {"prepareSave", "start", "save"} /\ Left(p)
    BY <1>5, MovesOfAll DEF SendTurnFails, At, Positions
<1>6. ASSUME SetActiveTurn(p)
      PROVE  /\ pc[p] = "setActive"
                 /\ \/ Entered(p, turn[p], None, "Unbound") /\ cur' = cur
                    \/ /\ bound # None /\ tok[bound] = None
                       /\ cur' = [cur EXCEPT ![bound] = turn[p]] /\ Went(p, "send")
    BY <1>6, MovesOfAll DEF SetActiveTurn, At, Positions, Sources, TypeOK, LocalsTyped
<1>7. ASSUME SendProviderInput(p)
      PROVE  pc[p] = "send" /\ Left(p)
    BY <1>7, MovesOfAll DEF SendProviderInput, At
<1>8. ASSUME SendProviderInputFails(p)
      PROVE  /\ pc[p] = "send"
                 /\ \/ bound # None /\ cur[bound] \notin {None, turn[p]} /\ Left(p)
                    \/ /\ bound # None => cur[bound] \in {None, turn[p]}
                       /\ Entered(p, turn[p], bound, "ProviderFailed")
    BY <1>8, MovesOfAll DEF SendProviderInputFails, At, EmitAborted, Sources, TypeOK,
       LocalsTyped, BindingsTyped
<1> QED
    BY <1>1, <1>2, <1>3, <1>4, <1>5, <1>6, <1>7, <1>8

(* The steps of terminalize_turn_with_binding.                             *)
LEMMA EndMoves ==
    ASSUME TypeOK, NEW p \in Tasks
    PROVE  /\ ClaimCommitted(p) =>
                 pc[p] = "claim" /\ Went(p, "cleanup")
           /\ ClaimLead(p) =>
                 pc[p] = "claim" /\ Went(p, "token")
           /\ ClaimTimesOut(p) =>
                 pc[p] = "claim" /\ Returned(p)
           /\ AcquireToken(p) =>
                 pc[p] = "token" /\ (Went(p, "lookup") \/ (Abandon(p) /\ Returned(p)))
           /\ LookupTerminal(p) =>
                 pc[p] = "lookup" /\ (Went(p, "cleanup") \/ Went(p, "append"))
           /\ PersistTerminal(p) =>
                 pc[p] = "append" /\ lock' = lock
                   /\ MovesTo(p, "cleanup", turn[p], bind[p], src[p])
           /\ PersistFails(p) =>
                 pc[p] \in {"lookup", "append"} /\ Abandon(p) /\ Returned(p)
           /\ Cleanup(p) =>
                 pc[p] = "cleanup" /\ Returned(p)
<1> p \in Tasks
    BY DEF Tasks
<1>1. ASSUME ClaimCommitted(p)
      PROVE  pc[p] = "claim" /\ Went(p, "cleanup")
    BY <1>1, MovesOfAll DEF ClaimCommitted, At, Positions
<1>2. ASSUME ClaimLead(p)
      PROVE  pc[p] = "claim" /\ Went(p, "token")
    BY <1>2, MovesOfAll DEF ClaimLead, At, Positions
<1>3. ASSUME ClaimTimesOut(p)
      PROVE  pc[p] = "claim" /\ Returned(p)
    BY <1>3, MovesOfAll DEF ClaimTimesOut, At
<1>4. ASSUME AcquireToken(p)
      PROVE  pc[p] = "token" /\ (Went(p, "lookup") \/ (Abandon(p) /\ Returned(p)))
    BY <1>4, MovesOfAll DEF AcquireToken, At, Positions, Abandon
<1>5. ASSUME LookupTerminal(p)
      PROVE  pc[p] = "lookup" /\ (Went(p, "cleanup") \/ Went(p, "append"))
    BY <1>5, MovesOfAll DEF LookupTerminal, At, Positions
<1>6. ASSUME PersistTerminal(p)
      PROVE  pc[p] = "append" /\ lock' = lock /\ MovesTo(p, "cleanup", turn[p], bind[p], src[p])
    BY <1>6 DEF PersistTerminal, At, MovesTo, Others, Has, TypeOK, LocalsTyped, Positions,
       Goto, Sources
<1>7. ASSUME PersistFails(p)
      PROVE  pc[p] \in {"lookup", "append"} /\ Abandon(p) /\ Returned(p)
    BY <1>7, MovesOfAll DEF PersistFails, At, Abandon
<1>8. ASSUME Cleanup(p)
      PROVE  pc[p] = "cleanup" /\ Returned(p)
    BY <1>8, MovesOfAll DEF Cleanup, At
<1> QED
    BY <1>1, <1>2, <1>3, <1>4, <1>5, <1>6, <1>7, <1>8

(* The steps of a bridge outside a send.                                   *)
LEMMA BridgeMoves ==
    ASSUME TypeOK, NEW p \in Bindings
    PROVE  /\ ProviderCompleted(p) =>
                 /\ pc[p] = "stream" /\ lock' = lock
                 /\ MovesTo(p, IF cur[p] = None THEN "stream" ELSE "completed", cur[p], bind[p], src[p])
           /\ ProviderFailed(p) =>
                 /\ pc[p] = "stream" /\ lock' = lock
                 /\ MovesTo(p, IF cur[p] = None THEN "stream" ELSE "failed", cur[p], bind[p], src[p])
           /\ EmitCompleted(p) =>
                 /\ pc[p] = "completed"
                 /\ \/ bound # None /\ cur[bound] # turn[p] /\ Left(p)
                    \/ /\ bound # None => cur[bound] = turn[p]
                       /\ Entered(p, turn[p], bound, "Completed")
           /\ EmitFailed(p) =>
                 /\ pc[p] = "failed"
                 /\ \/ bound # None /\ cur[bound] \notin {None, turn[p]} /\ Left(p)
                    \/ /\ bound # None => cur[bound] \in {None, turn[p]}
                       /\ Entered(p, turn[p], bound, "ProviderFailed")
           /\ DispatchNext(p) =>
                 /\ pc[p] = "dispatch" /\ lock = None /\ lock' = p
                 /\ MovesTo(p, "readRow", turn[p], bound, src[p])
           /\ NothingQueued(p) =>
                 pc[p] = "dispatch" /\ Went(p, "stream")
           /\ StreamEnds(p) =>
                 pc[p] = "stream" /\ Went(p, "ended")
<1> p \in Tasks
    BY DEF Tasks
<1>1. ASSUME ProviderCompleted(p)
      PROVE  /\ pc[p] = "stream" /\ lock' = lock
                 /\ MovesTo(p, IF cur[p] = None THEN "stream" ELSE "completed", cur[p], bind[p], src[p])
    BY <1>1 DEF ProviderCompleted, At, MovesTo, Others, Has, TypeOK, LocalsTyped,
       Positions, Goto, Sources, BindingsTyped
<1>2. ASSUME ProviderFailed(p)
      PROVE  /\ pc[p] = "stream" /\ lock' = lock
                 /\ MovesTo(p, IF cur[p] = None THEN "stream" ELSE "failed", cur[p], bind[p], src[p])
    BY <1>2 DEF ProviderFailed, At, MovesTo, Others, Has, TypeOK, LocalsTyped, Positions,
       Goto, Sources, BindingsTyped
<1>3. ASSUME EmitCompleted(p)
      PROVE  /\ pc[p] = "completed"
                 /\ \/ bound # None /\ cur[bound] # turn[p] /\ Left(p)
                    \/ /\ bound # None => cur[bound] = turn[p]
                       /\ Entered(p, turn[p], bound, "Completed")
    BY <1>3, MovesOfAll DEF EmitCompleted, At, Sources, TypeOK, LocalsTyped, BindingsTyped
<1>4. ASSUME EmitFailed(p)
      PROVE  /\ pc[p] = "failed"
                 /\ \/ bound # None /\ cur[bound] \notin {None, turn[p]} /\ Left(p)
                    \/ /\ bound # None => cur[bound] \in {None, turn[p]}
                       /\ Entered(p, turn[p], bound, "ProviderFailed")
    BY <1>4, MovesOfAll DEF EmitFailed, At, EmitAborted, Sources, TypeOK, LocalsTyped,
       BindingsTyped
<1>5. ASSUME DispatchNext(p)
      PROVE  /\ pc[p] = "dispatch" /\ lock = None /\ lock' = p
                 /\ MovesTo(p, "readRow", turn[p], bound, src[p])
    BY <1>5 DEF DispatchNext, At, MovesTo, Others, Has, TypeOK, LocalsTyped, Positions,
       Goto, Sources, BindingsTyped
<1>6. ASSUME NothingQueued(p)
      PROVE  pc[p] = "dispatch" /\ Went(p, "stream")
    BY <1>6, MovesOfAll DEF NothingQueued, At, Positions
<1>7. ASSUME StreamEnds(p)
      PROVE  pc[p] = "stream" /\ Went(p, "ended")
    BY <1>7, MovesOfAll DEF StreamEnds, At, Positions
<1> QED
    BY <1>1, <1>2, <1>3, <1>4, <1>5, <1>6, <1>7

(* The steps of abort_run_with_state.                                      *)
LEMMA AbortMoves ==
    ASSUME TypeOK, NEW p \in Aborters
    PROVE  /\ AbortBegin(p) =>
                 /\ pc[p] = "idle" /\ lock' = lock
                 /\ MovesTo(p, IF proj.turn = None THEN "abortRead" ELSE "quiesce", proj.turn, bind[p], src[p])
           /\ Quiesce(p) =>
                 pc[p] = "quiesce" /\ (Went(p, "abortRead") \/ Entered(p, turn[p], bound, "Quiesce"))
           /\ AbortRead(p) =>
                 /\ pc[p] = "abortRead"
                 /\ \/ Left(p)
                    \/ \E t \in {proj.turn, proj.last} \ {None} :
                          lock' = lock /\ MovesTo(p, "abortTurn", t, bind[p], src[p])
           /\ AbortTurn(p) =>
                 pc[p] = "abortTurn" /\ (Left(p) \/ Went(p, "abortSession"))
           /\ AbortSession(p) =>
                 pc[p] = "abortSession" /\ Went(p, "abortSave")
           /\ AbortSave(p) =>
                 pc[p] = "abortSave" /\ Left(p)
           /\ AbortFails(p) =>
                 pc[p] \in {"abortTurn", "abortSession", "abortSave"} /\ Left(p)
<1> p \in Tasks
    BY DEF Tasks
<1>1. ASSUME AbortBegin(p)
      PROVE  /\ pc[p] = "idle" /\ lock' = lock
                 /\ MovesTo(p, IF proj.turn = None THEN "abortRead" ELSE "quiesce", proj.turn, bind[p], src[p])
    BY <1>1 DEF AbortBegin, At, MovesTo, Others, Has, TypeOK, LocalsTyped, Positions,
       Goto, Sources, DurableTyped
<1>2. ASSUME Quiesce(p)
      PROVE  pc[p] = "quiesce" /\ (Went(p, "abortRead") \/ Entered(p, turn[p], bound, "Quiesce"))
    BY <1>2, MovesOfAll DEF Quiesce, At, Positions, Sources, TypeOK, LocalsTyped,
       BindingsTyped
<1>3. ASSUME AbortRead(p)
      PROVE  /\ pc[p] = "abortRead"
                 /\ \/ Left(p)
                    \/ \E t \in {proj.turn, proj.last} \ {None} :
                          lock' = lock /\ MovesTo(p, "abortTurn", t, bind[p], src[p])
    BY <1>3, MovesOfAll DEF AbortRead, At, MovesTo, Others, Has, TypeOK, LocalsTyped,
       Positions, Goto, Sources, DurableTyped
<1>4. ASSUME AbortTurn(p)
      PROVE  pc[p] = "abortTurn" /\ (Left(p) \/ Went(p, "abortSession"))
    BY <1>4, MovesOfAll DEF AbortTurn, At, Positions
<1>5. ASSUME AbortSession(p)
      PROVE  pc[p] = "abortSession" /\ Went(p, "abortSave")
    BY <1>5, MovesOfAll DEF AbortSession, At, Positions
<1>6. ASSUME AbortSave(p)
      PROVE  pc[p] = "abortSave" /\ Left(p)
    BY <1>6, MovesOfAll DEF AbortSave, At
<1>7. ASSUME AbortFails(p)
      PROVE  pc[p] \in {"abortTurn", "abortSession", "abortSave"} /\ Left(p)
    BY <1>7, MovesOfAll DEF AbortFails, At, Positions
<1> QED
    BY <1>1, <1>2, <1>3, <1>4, <1>5, <1>6, <1>7

-----------------------------------------------------------------------------
(* The invariant of the whole system.                                      *)

(* What the tasks keep has its type.                                       *)
LEMMA LocalsTypedStep ==
    ASSUME TypeOK, [Next]_vars
    PROVE  LocalsTyped'
<1>1. ASSUME NEW p \in Senders, NEW b \in Bindings, AttachNew(p, b)
      PROVE  LocalsTyped'
    BY <1>1, AttachMoves
<1>2. ASSUME Restart
      PROVE  LocalsTyped'
    BY <1>2 DEF Restart, LocalsTyped, TypeOK, Positions
<1>3. ASSUME AppendOther \/ UNCHANGED vars
      PROVE  LocalsTyped'
    BY <1>3 DEF AppendOther, vars, locals, TypeOK, LocalsTyped
<1>4. ASSUME NEW p \in Senders \cup Bindings, NEW t \in Turns, AppendStarted(p, t)
      PROVE  LocalsTyped'
    BY <1>4, SendMoves DEF MovesTo, Went, Left, Entered, Returned
<1>5. ASSUME NEW p \in Senders, AcquireTransition(p) \/ ResumeBegin(p) \/ SelectRefused(p)
             \/ SelectSame(p) \/ SelectSwitch(p) \/ CancelIdle(p) \/ CancelIdleFails(p) \/
             PrepareRead(p) \/ PrepareSave(p) \/ AttachBound(p) \/ AttachFails(p) \/
             ResumeAppend(p) \/ ResumeSave(p) \/ ResumeFails(p)
      PROVE  LocalsTyped'
    BY <1>5, SelectMoves DEF MovesTo, Went, Left, Entered, Returned
<1>6. ASSUME NEW p \in Senders \cup Bindings, ReadRow(p) \/ ReadHistory(p) \/ SaveRow(p)
             \/ SendTurnFails(p) \/ SetActiveTurn(p) \/ SendProviderInput(p) \/
             SendProviderInputFails(p)
      PROVE  LocalsTyped'
    BY <1>6, SendMoves DEF MovesTo, Went, Left, Entered, Returned
<1>7. ASSUME NEW p \in Tasks, ClaimCommitted(p) \/ ClaimLead(p) \/ ClaimTimesOut(p) \/
             AcquireToken(p) \/ LookupTerminal(p) \/ PersistTerminal(p) \/ PersistFails(p)
             \/ Cleanup(p)
      PROVE  LocalsTyped'
    BY <1>7, EndMoves DEF MovesTo, Went, Left, Entered, Returned
<1>8. ASSUME NEW p \in Bindings, EmitCompleted(p) \/ EmitFailed(p) \/ DispatchNext(p) \/
             NothingQueued(p) \/ ProviderCompleted(p) \/ ProviderFailed(p) \/
             StreamEnds(p)
      PROVE  LocalsTyped'
    BY <1>8, BridgeMoves DEF MovesTo, Went, Left, Entered, Returned
<1>9. ASSUME NEW p \in Aborters, AbortBegin(p) \/ Quiesce(p) \/ AbortRead(p) \/
             AbortTurn(p) \/ AbortSession(p) \/ AbortSave(p) \/ AbortFails(p)
      PROVE  LocalsTyped'
    BY <1>9, AbortMoves DEF MovesTo, Went, Left, Entered, Returned
<1> QED
    BY <1>1, <1>2, <1>3, <1>4, <1>5, <1>6, <1>7, <1>8, <1>9 DEF Next, SenderStep,
       SendTurnStep, TerminalizeStep, BridgeStep, ProviderAnswers, AborterStep, Tasks

(* Every task stays in its own code.                                       *)
LEMMA PlacesStep ==
    ASSUME TypeOK, Places, [Next]_vars
    PROVE  Places'
<1>1. ASSUME AppendOther \/ UNCHANGED vars
      PROVE  Places'
    BY <1>1 DEF AppendOther, vars, locals, Places
<1>2. ASSUME Restart
      PROVE  Places'
    BY <1>2 DEF Restart, Places, Tasks
<1>3. ASSUME NEW p \in Senders, NEW b \in Bindings, AttachNew(p, b)
      PROVE  Places'
    BY <1>3, AttachMoves DEF Others, Has, Rest, Places, Selecting, Sending, Ending,
       Reading, Aborting, Tasks
<1>4. ASSUME NEW p \in Senders \cup Bindings, NEW t \in Turns, AppendStarted(p, t)
      PROVE  Places'
    BY <1>4, SendMoves DEF MovesTo, Went, Left, Entered, Returned, Others, Has, Rest,
       Places, Selecting, Sending, Ending, Reading, Aborting, Tasks
<1>5. ASSUME NEW p \in Senders, AcquireTransition(p) \/ ResumeBegin(p) \/ SelectRefused(p)
             \/ SelectSame(p) \/ SelectSwitch(p) \/ CancelIdle(p) \/ CancelIdleFails(p) \/
             PrepareRead(p)
      PROVE  Places'
    BY <1>5, SelectMoves DEF MovesTo, Went, Left, Entered, Returned, Others, Has, Rest,
       Places, Selecting, Sending, Ending, Reading, Aborting, Tasks
<1>6. ASSUME NEW p \in Senders, PrepareSave(p) \/ AttachBound(p) \/ AttachFails(p) \/
             ResumeAppend(p) \/ ResumeSave(p) \/ ResumeFails(p)
      PROVE  Places'
    BY <1>6, SelectMoves DEF MovesTo, Went, Left, Entered, Returned, Others, Has, Rest,
       Places, Selecting, Sending, Ending, Reading, Aborting, Tasks
<1>7. ASSUME NEW p \in Senders \cup Bindings, ReadRow(p) \/ ReadHistory(p) \/ SaveRow(p)
             \/ SendTurnFails(p) \/ SetActiveTurn(p) \/ SendProviderInput(p) \/
             SendProviderInputFails(p)
      PROVE  Places'
    BY <1>7, SendMoves DEF MovesTo, Went, Left, Entered, Returned, Others, Has, Rest,
       Places, Selecting, Sending, Ending, Reading, Aborting, Tasks
<1>8. ASSUME NEW p \in Tasks, ClaimCommitted(p) \/ ClaimLead(p) \/ ClaimTimesOut(p) \/
             AcquireToken(p) \/ LookupTerminal(p) \/ PersistTerminal(p) \/ PersistFails(p)
             \/ Cleanup(p)
      PROVE  Places'
    BY <1>8, EndMoves DEF MovesTo, Went, Left, Entered, Returned, Others, Has, Rest,
       Places, Selecting, Sending, Ending, Reading, Aborting, Tasks
<1>9. ASSUME NEW p \in Bindings, EmitCompleted(p) \/ EmitFailed(p) \/ DispatchNext(p) \/
             NothingQueued(p) \/ ProviderCompleted(p) \/ ProviderFailed(p) \/
             StreamEnds(p)
      PROVE  Places'
    BY <1>9, BridgeMoves DEF MovesTo, Went, Left, Entered, Returned, Others, Has, Rest,
       Places, Selecting, Sending, Ending, Reading, Aborting, Tasks
<1>10. ASSUME NEW p \in Aborters, AbortBegin(p) \/ Quiesce(p) \/ AbortRead(p) \/
             AbortTurn(p) \/ AbortSession(p) \/ AbortSave(p) \/ AbortFails(p)
      PROVE  Places'
    BY <1>10, AbortMoves DEF MovesTo, Went, Left, Entered, Returned, Others, Has, Rest,
       Places, Selecting, Sending, Ending, Reading, Aborting, Tasks
<1> QED
    BY <1>1, <1>2, <1>3, <1>4, <1>5, <1>6, <1>7, <1>8, <1>9, <1>10 DEF Next, SenderStep,
       SendTurnStep, TerminalizeStep, BridgeStep, ProviderAnswers, AborterStep, Tasks

(* Row, projection, terminal rows and SessionAborted events; an abort is   *)
(* recorded of a started turn.                                             *)
LEMMA DurableTypedStep ==
    ASSUME TypeOK, Known, [Next]_vars
    PROVE  DurableTyped'
<1>1. ASSUME NEW p \in Senders, PrepareSave(p) \/ ResumeAppend(p) \/ ResumeSave(p)
      PROVE  DurableTyped'
    BY <1>1 DEF PrepareSave, ResumeAppend, ResumeSave, TypeOK, DurableTyped, Projection,
       OnSessionResumed
<1>2. ASSUME NEW p \in Senders \cup Bindings, NEW t \in Turns, AppendStarted(p, t)
      PROVE  DurableTyped'
    BY <1>2 DEF AppendStarted, TypeOK, DurableTyped, Projection, OnTurnStarted
<1>3. ASSUME NEW p \in Senders \cup Bindings, SaveRow(p)
      PROVE  DurableTyped'
    BY <1>3 DEF SaveRow, TypeOK, DurableTyped, Projection
<1>4. ASSUME NEW p \in Tasks, PersistTerminal(p)
      PROVE  DurableTyped'
    <2>1. turn[p] \in started /\ turn[p] \in Turns /\ p \in Tasks
        BY <1>4 DEF PersistTerminal, At, TypeOK, DurableTyped, LocalsTyped, Known,
           KnownTurns, Carried, Carrying, Reading, Ending, Tasks
    <2>2. KindOf(src[p]) \in Kinds
        BY DEF KindOf, Kinds
    <2> QED
        BY <1>4, <2>1, <2>2 DEF PersistTerminal, AppendTerminal, OnTerminal, TypeOK,
           DurableTyped, Projection
<1>5. ASSUME NEW p \in Aborters, AbortRead(p) \/ AbortSave(p)
      PROVE  DurableTyped'
    BY <1>5 DEF AbortRead, AbortSave, TypeOK, DurableTyped, Projection
<1>6. ASSUME NEW p \in Aborters, AbortTurn(p)
      PROVE  DurableTyped'
    <2>1. turn[p] \in started /\ turn[p] \in Turns /\ p \in Tasks
        BY <1>6 DEF AbortTurn, At, TypeOK, DurableTyped, LocalsTyped, Known, KnownTurns,
           Carried, Carrying, Reading, Ending, Tasks
    <2> QED
        BY <1>6, <2>1 DEF AbortTurn, AppendTerminal, OnTerminal, TypeOK, DurableTyped,
           Projection, Kinds
<1>7. ASSUME NEW p \in Aborters, AbortSession(p)
      PROVE  DurableTyped'
    <2>1. turn[p] \in started /\ turn[p] \in Turns /\ p \in Tasks
        BY <1>7 DEF AbortSession, At, TypeOK, DurableTyped, LocalsTyped, Known,
           KnownTurns, Carried, Carrying, Reading, Ending, Tasks
    <2> QED
        BY <1>7, <2>1 DEF AbortSession, OnSessionAborted, TypeOK, DurableTyped, Projection
<1>8. ASSUME AppendOther
      PROVE  DurableTyped'
    BY <1>8 DEF AppendOther, TypeOK, DurableTyped, Projection
<1>9. ASSUME Restart
      PROVE  DurableTyped'
    <2>1. Recovered \subseteq Turns
        BY DEF Recovered, Open, TypeOK, DurableTyped
    <2>2. proj' \in [state : {"Active", "Aborted"}, turn : Turns \cup {None}, last : Turns \cup {None}]
        BY <1>9, <2>1 DEF Restart, TypeOK, DurableTyped, Projection
    <2>3. terminal' \in [Turns -> Kinds \cup {None}]
        BY <1>9 DEF Restart, TypeOK, DurableTyped, Kinds
    <2> QED
        BY <1>9, <2>2, <2>3 DEF Restart, TypeOK, DurableTyped
<1>10. ASSUME NEW p \in Senders, AcquireTransition(p) \/ ResumeBegin(p) \/
             SelectRefused(p) \/ SelectSame(p) \/ SelectSwitch(p) \/ CancelIdle(p) \/
             CancelIdleFails(p) \/ PrepareRead(p) \/ AttachBound(p) \/ AttachFails(p) \/
             (\E b \in Bindings : AttachNew(p, b)) \/ ResumeFails(p)
      PROVE  DurableTyped'
    BY <1>10 DEF AcquireTransition, ResumeBegin, SelectRefused, SelectSame, SelectSwitch,
       CancelIdle, CancelIdleFails, PrepareRead, AttachBound, AttachFails, AttachNew,
       ResumeFails, durable, TypeOK, DurableTyped
<1>11. ASSUME NEW p \in Senders \cup Bindings, ReadRow(p) \/ ReadHistory(p) \/
             SendTurnFails(p) \/ SetActiveTurn(p) \/ SendProviderInput(p) \/
             SendProviderInputFails(p)
      PROVE  DurableTyped'
    BY <1>11 DEF ReadRow, ReadHistory, SendTurnFails, SetActiveTurn, SendProviderInput,
       SendProviderInputFails, durable, TypeOK, DurableTyped
<1>12. ASSUME NEW p \in Tasks, ClaimCommitted(p) \/ ClaimLead(p) \/ ClaimTimesOut(p) \/
             AcquireToken(p) \/ LookupTerminal(p) \/ PersistFails(p) \/ Cleanup(p)
      PROVE  DurableTyped'
    BY <1>12 DEF ClaimCommitted, ClaimLead, ClaimTimesOut, AcquireToken, LookupTerminal,
       PersistFails, Cleanup, durable, TypeOK, DurableTyped, Abandon
<1>13. ASSUME NEW p \in Bindings, EmitCompleted(p) \/ EmitFailed(p) \/ DispatchNext(p) \/
             NothingQueued(p) \/ ProviderCompleted(p) \/ ProviderFailed(p) \/
             StreamEnds(p)
      PROVE  DurableTyped'
    BY <1>13 DEF EmitCompleted, EmitFailed, DispatchNext, NothingQueued,
       ProviderCompleted, ProviderFailed, StreamEnds, durable, TypeOK, DurableTyped
<1>14. ASSUME NEW p \in Aborters, AbortBegin(p) \/ Quiesce(p) \/ AbortFails(p)
      PROVE  DurableTyped'
    BY <1>14 DEF AbortBegin, Quiesce, AbortFails, durable, TypeOK, DurableTyped
<1>15. ASSUME UNCHANGED vars
      PROVE  DurableTyped'
    BY <1>15 DEF vars, durable, TypeOK, DurableTyped
<1> QED
    BY <1>1, <1>2, <1>3, <1>4, <1>5, <1>6, <1>7, <1>8, <1>9, <1>10, <1>11, <1>12, <1>13,
       <1>14, <1>15 DEF Next, SenderStep, SendTurnStep, TerminalizeStep, BridgeStep,
       ProviderAnswers, AborterStep, Tasks

(* Binding, current turns, tokens and the transition.                      *)
LEMMA BindingsTypedStep ==
    ASSUME TypeOK, Known, [Next]_vars
    PROVE  BindingsTyped'
<1>1. ASSUME NEW p \in Senders, SelectSwitch(p)
      PROVE  BindingsTyped'
    <2>1. p \in Tasks
        BY DEF Tasks
    <2>2. lock' \in Senders \cup Bindings \cup {None}
            /\ tok' \in [Bindings -> Tasks \cup {None}]
        BY <1>1, <2>1, SelectMoves DEF Left, Went, Entered, TypeOK, BindingsTyped
    <2> QED
        BY <1>1, <2>2 DEF SelectSwitch, TypeOK, BindingsTyped
<1>2. ASSUME NEW p \in Senders \cup Bindings, SetActiveTurn(p)
      PROVE  BindingsTyped'
    <2>1. turn[p] \in Turns \cup {None}
        BY DEF TypeOK, LocalsTyped, Tasks
    <2>2. lock' = lock /\ cur' \in [Bindings -> Turns \cup {None}]
        BY <1>2, <2>1, SendMoves DEF Went, Entered, TypeOK, BindingsTyped
    <2> QED
        BY <1>2, <2>2 DEF SetActiveTurn, TypeOK, BindingsTyped
<1>3. ASSUME NEW p \in Tasks, AcquireToken(p) \/ PersistFails(p)
      PROVE  BindingsTyped'
    <2>1. lock' \in Senders \cup Bindings \cup {None}
        BY <1>3, EndMoves DEF Went, Returned, TypeOK, BindingsTyped
    <2>2. bound' = bound /\ cur' = cur
        BY <1>3 DEF AcquireToken, PersistFails, Abandon, bindings
    <2>3. tok' \in [Bindings -> Tasks \cup {None}]
        <3>1. CASE Abandon(p)
            BY <3>1 DEF Abandon, TypeOK, BindingsTyped
        <3>2. CASE tok' = tok \/ tok' = [tok EXCEPT ![bind[p]] = p]
            BY <3>2 DEF TypeOK, BindingsTyped
        <3> QED
            BY <1>3, <3>1, <3>2 DEF AcquireToken, PersistFails, bindings
    <2> QED
        BY <2>1, <2>2, <2>3 DEF TypeOK, BindingsTyped
<1>4. ASSUME Restart
      PROVE  BindingsTyped'
    BY <1>4 DEF Restart, TypeOK, BindingsTyped
<1>5. ASSUME NEW p \in Senders, NEW b \in Bindings, AttachNew(p, b)
      PROVE  BindingsTyped'
    BY <1>5, AttachMoves DEF AttachNew, TypeOK, BindingsTyped, Has, bindings
<1>6. ASSUME NEW p \in Senders \cup Bindings, NEW t \in Turns, AppendStarted(p, t)
      PROVE  BindingsTyped'
    BY <1>6, SendMoves DEF AppendStarted, MovesTo, Went, Left, Entered, Returned, TypeOK,
       BindingsTyped, bindings
<1>7. ASSUME NEW p \in Senders, AcquireTransition(p) \/ ResumeBegin(p) \/ SelectRefused(p)
             \/ SelectSame(p)
      PROVE  BindingsTyped'
    BY <1>7, SelectMoves DEF AcquireTransition, ResumeBegin, SelectRefused, SelectSame,
       MovesTo, Went, Left, Entered, Returned, TypeOK, BindingsTyped, bindings
<1>8. ASSUME NEW p \in Senders, CancelIdle(p) \/ CancelIdleFails(p) \/ PrepareRead(p) \/
             PrepareSave(p)
      PROVE  BindingsTyped'
    BY <1>8, SelectMoves DEF CancelIdle, CancelIdleFails, PrepareRead, PrepareSave,
       MovesTo, Went, Left, Entered, Returned, TypeOK, BindingsTyped, bindings
<1>9. ASSUME NEW p \in Senders, AttachBound(p) \/ AttachFails(p) \/ ResumeAppend(p) \/
             ResumeSave(p)
      PROVE  BindingsTyped'
    BY <1>9, SelectMoves DEF AttachBound, AttachFails, ResumeAppend, ResumeSave, MovesTo,
       Went, Left, Entered, Returned, TypeOK, BindingsTyped, bindings
<1>10. ASSUME NEW p \in Senders, ResumeFails(p)
      PROVE  BindingsTyped'
    BY <1>10, SelectMoves DEF ResumeFails, MovesTo, Went, Left, Entered, Returned, TypeOK,
       BindingsTyped, bindings
<1>11. ASSUME NEW p \in Senders \cup Bindings, ReadRow(p) \/ ReadHistory(p) \/ SaveRow(p)
             \/ SendTurnFails(p)
      PROVE  BindingsTyped'
    BY <1>11, SendMoves DEF ReadRow, ReadHistory, SaveRow, SendTurnFails, MovesTo, Went,
       Left, Entered, Returned, TypeOK, BindingsTyped, bindings
<1>12. ASSUME NEW p \in Senders \cup Bindings, SendProviderInput(p) \/
             SendProviderInputFails(p)
      PROVE  BindingsTyped'
    BY <1>12, SendMoves DEF SendProviderInput, SendProviderInputFails, MovesTo, Went,
       Left, Entered, Returned, TypeOK, BindingsTyped, bindings
<1>13. ASSUME NEW p \in Tasks, ClaimCommitted(p) \/ ClaimLead(p) \/ ClaimTimesOut(p) \/
             LookupTerminal(p)
      PROVE  BindingsTyped'
    BY <1>13, EndMoves DEF ClaimCommitted, ClaimLead, ClaimTimesOut, LookupTerminal,
       MovesTo, Went, Left, Entered, Returned, TypeOK, BindingsTyped, bindings
<1>14. ASSUME NEW p \in Tasks, PersistTerminal(p) \/ Cleanup(p)
      PROVE  BindingsTyped'
    <2>1. bound' \in Bindings \cup {None} /\ cur' \in [Bindings -> Turns \cup {None}]
        BY <1>14 DEF PersistTerminal, Cleanup, TypeOK, BindingsTyped, bindings
    <2>2. tok' \in [Bindings -> Tasks \cup {None}]
        BY <1>14 DEF PersistTerminal, Cleanup, TypeOK, BindingsTyped, bindings
    <2>3. lock' \in {lock, None}
        BY <1>14, EndMoves DEF PersistTerminal, Returned
    <2> QED
        BY <2>1, <2>2, <2>3 DEF TypeOK, BindingsTyped
<1>15. ASSUME NEW p \in Bindings, EmitCompleted(p) \/ EmitFailed(p) \/ DispatchNext(p) \/
             NothingQueued(p)
      PROVE  BindingsTyped'
    BY <1>15, BridgeMoves DEF EmitCompleted, EmitFailed, DispatchNext, NothingQueued,
       MovesTo, Went, Left, Entered, Returned, TypeOK, BindingsTyped, bindings
<1>16. ASSUME NEW p \in Bindings, ProviderCompleted(p) \/ ProviderFailed(p) \/
             StreamEnds(p)
      PROVE  BindingsTyped'
    BY <1>16, BridgeMoves DEF ProviderCompleted, ProviderFailed, StreamEnds, MovesTo,
       Went, Left, Entered, Returned, TypeOK, BindingsTyped, bindings
<1>17. ASSUME NEW p \in Aborters, AbortBegin(p) \/ Quiesce(p) \/ AbortRead(p) \/
             AbortTurn(p)
      PROVE  BindingsTyped'
    BY <1>17, AbortMoves DEF AbortBegin, Quiesce, AbortRead, AbortTurn, MovesTo, Went,
       Left, Entered, Returned, TypeOK, BindingsTyped, bindings
<1>18. ASSUME NEW p \in Aborters, AbortSession(p) \/ AbortSave(p) \/ AbortFails(p)
      PROVE  BindingsTyped'
    BY <1>18, AbortMoves DEF AbortSession, AbortSave, AbortFails, MovesTo, Went, Left,
       Entered, Returned, TypeOK, BindingsTyped, bindings
<1>19. ASSUME AppendOther \/ UNCHANGED vars
      PROVE  BindingsTyped'
    BY <1>19 DEF AppendOther, vars, TypeOK, BindingsTyped, durable, bindings, arbiter,
       provider, locals
<1> QED
    BY <1>1, <1>2, <1>3, <1>4, <1>5, <1>6, <1>7, <1>8, <1>9, <1>10, <1>11, <1>12, <1>13,
       <1>14, <1>15, <1>16, <1>17, <1>18, <1>19 DEF Next, SenderStep, SendTurnStep,
       TerminalizeStep, BridgeStep, ProviderAnswers, AborterStep, Tasks

(* Claims and tombstones.                                                  *)
LEMMA ArbiterTypedStep ==
    ASSUME TypeOK, Known, [Next]_vars
    PROVE  ArbiterTyped'
<1>1. ASSUME NEW p \in Tasks, ClaimLead(p)
      PROVE  ArbiterTyped'
    BY <1>1 DEF ClaimLead, TypeOK, ArbiterTyped
<1>2. ASSUME NEW p \in Tasks, AcquireToken(p) \/ PersistFails(p)
      PROVE  ArbiterTyped'
    BY <1>2 DEF AcquireToken, PersistFails, Abandon, arbiter, TypeOK, ArbiterTyped
<1>3. ASSUME NEW p \in Tasks, LookupTerminal(p)
      PROVE  ArbiterTyped'
    BY <1>3 DEF LookupTerminal, CommitOutcome, arbiter, DurableTyped, TypeOK, ArbiterTyped
<1>4. ASSUME NEW p \in Tasks, PersistTerminal(p)
      PROVE  ArbiterTyped'
    <2>1. turn[p] \in started /\ turn[p] \in Turns /\ p \in Tasks
        BY <1>4 DEF PersistTerminal, At, TypeOK, DurableTyped, LocalsTyped, Known,
           KnownTurns, Carried, Carrying, Reading, Ending, Tasks
    <2>2. terminal'[turn[p]] \in Kinds \cup {None}
        BY <1>4, <2>1 DEF PersistTerminal, AppendTerminal, KindOf, TypeOK, DurableTyped,
           Kinds
    <2> QED
        BY <1>4, <2>1, <2>2 DEF PersistTerminal, CommitOutcome, TypeOK, ArbiterTyped
<1>5. ASSUME Restart
      PROVE  ArbiterTyped'
    BY <1>5 DEF Restart, TypeOK, ArbiterTyped
<1>6. ASSUME NEW p \in Senders, AcquireTransition(p) \/ ResumeBegin(p) \/ SelectRefused(p)
             \/ SelectSame(p) \/ SelectSwitch(p) \/ CancelIdle(p) \/ CancelIdleFails(p) \/
             PrepareRead(p) \/ PrepareSave(p) \/ AttachBound(p) \/ AttachFails(p) \/ (\E b
             \in Bindings : AttachNew(p, b)) \/ ResumeAppend(p) \/ ResumeSave(p) \/
             ResumeFails(p)
      PROVE  ArbiterTyped'
    BY <1>6 DEF AcquireTransition, ResumeBegin, SelectRefused, SelectSame, SelectSwitch,
       CancelIdle, CancelIdleFails, PrepareRead, PrepareSave, AttachBound, AttachFails,
       AttachNew, ResumeAppend, ResumeSave, ResumeFails, arbiter, TypeOK, ArbiterTyped
<1>7. ASSUME NEW p \in Senders \cup Bindings, ReadRow(p) \/ ReadHistory(p) \/ (\E t \in
             Turns : AppendStarted(p, t)) \/ SaveRow(p) \/ SendTurnFails(p) \/
             SetActiveTurn(p) \/ SendProviderInput(p) \/ SendProviderInputFails(p)
      PROVE  ArbiterTyped'
    BY <1>7 DEF ReadRow, ReadHistory, AppendStarted, SaveRow, SendTurnFails,
       SetActiveTurn, SendProviderInput, SendProviderInputFails, arbiter, TypeOK,
       ArbiterTyped
<1>8. ASSUME NEW p \in Tasks, ClaimCommitted(p) \/ ClaimTimesOut(p) \/ Cleanup(p)
      PROVE  ArbiterTyped'
    BY <1>8 DEF ClaimCommitted, ClaimTimesOut, Cleanup, arbiter, TypeOK, ArbiterTyped
<1>9. ASSUME NEW p \in Bindings, EmitCompleted(p) \/ EmitFailed(p) \/ DispatchNext(p) \/
             NothingQueued(p) \/ ProviderCompleted(p) \/ ProviderFailed(p) \/
             StreamEnds(p)
      PROVE  ArbiterTyped'
    BY <1>9 DEF EmitCompleted, EmitFailed, DispatchNext, NothingQueued, ProviderCompleted,
       ProviderFailed, StreamEnds, arbiter, TypeOK, ArbiterTyped
<1>10. ASSUME NEW p \in Aborters, AbortBegin(p) \/ Quiesce(p) \/ AbortRead(p) \/
             AbortTurn(p) \/ AbortSession(p) \/ AbortSave(p) \/ AbortFails(p)
      PROVE  ArbiterTyped'
    BY <1>10 DEF AbortBegin, Quiesce, AbortRead, AbortTurn, AbortSession, AbortSave,
       AbortFails, arbiter, TypeOK, ArbiterTyped
<1>11. ASSUME AppendOther \/ UNCHANGED vars
      PROVE  ArbiterTyped'
    BY <1>11 DEF AppendOther, vars, arbiter, TypeOK, ArbiterTyped
<1> QED
    BY <1>1, <1>2, <1>3, <1>4, <1>5, <1>6, <1>7, <1>8, <1>9, <1>10, <1>11 DEF Next,
       SenderStep, SendTurnStep, TerminalizeStep, BridgeStep, ProviderAnswers,
       AborterStep, Tasks

(* A cancelled provider answers what its stream already carries, or not.   *)
LEMMA Cancels ==
    ASSUME TypeOK, NEW b \in Bindings, CancelHandle(b)
    PROVE  /\ work' \in [Bindings -> Seq(Turns)] /\ dead' \subseteq Bindings /\ done' = done
           /\ \A c \in Bindings : work'[c] \in {work[c], <<>>}
<1>1. <<>> \in Seq(Turns)
    OBVIOUS
<1>2. CASE work' = work
    BY <1>2 DEF CancelHandle, TypeOK, ProviderTyped
<1>3. CASE work' = [work EXCEPT ![b] = <<>>]
    BY <1>1, <1>3 DEF CancelHandle, TypeOK, ProviderTyped
<1> QED
    BY <1>2, <1>3 DEF CancelHandle

(* Prompts and answers; a prompt is that of a started turn.                *)
LEMMA ProviderTypedStep ==
    ASSUME TypeOK, Known, [Next]_vars
    PROVE  ProviderTyped'
<1>1. ASSUME NEW p \in Senders, CancelIdle(p)
      PROVE  ProviderTyped'
    <2>1. bind[p] \in Bindings
        BY <1>1 DEF CancelIdle, At, Known, KnownTurns, Carried, TypeOK, LocalsTyped, Tasks
    <2> QED
        BY <1>1, <2>1, Cancels DEF CancelIdle, TypeOK, ProviderTyped, durable
<1>2. ASSUME NEW p \in Tasks, LookupTerminal(p)
      PROVE  ProviderTyped'
    <2>1. CASE UNCHANGED provider
        BY <1>2, <2>1 DEF LookupTerminal, provider, durable, TypeOK, ProviderTyped
    <2>2. CASE bind[p] # None /\ CancelHandle(bind[p])
        <3>1. bind[p] \in Bindings
            BY <2>2 DEF TypeOK, LocalsTyped
        <3> QED
            BY <1>2, <2>2, <3>1, Cancels DEF LookupTerminal, durable, TypeOK, ProviderTyped
    <2> QED
        BY <1>2, <2>1, <2>2 DEF LookupTerminal
<1>3. ASSUME NEW p \in Senders \cup Bindings, SendProviderInput(p)
      PROVE  ProviderTyped'
    <2>1. turn[p] \in Turns
        BY <1>3 DEF SendProviderInput, At, TypeOK, LocalsTyped, DurableTyped, Known,
           KnownTurns, Carried, Carrying, Tasks
    <2>2. work[bound] \in Seq(Turns) /\ bound \in Bindings
        BY <1>3 DEF SendProviderInput, TypeOK, ProviderTyped, BindingsTyped
    <2>3. Append(work[bound], turn[p]) \in Seq(Turns)
        BY <2>1, <2>2
    <2> QED
        BY <1>3, <2>2, <2>3 DEF SendProviderInput, TypeOK, ProviderTyped, durable
<1>4. ASSUME NEW p \in Senders \cup Bindings, NEW t \in Turns, AppendStarted(p, t)
      PROVE  ProviderTyped'
    BY <1>4 DEF AppendStarted, provider, TypeOK, ProviderTyped, DurableTyped
<1>5. ASSUME NEW p \in Bindings, ProviderCompleted(p) \/ ProviderFailed(p)
      PROVE  ProviderTyped'
    <2>1. work[p] \in Seq(started) /\ work[p] \in Seq(Turns) /\ work[p] # <<>>
        BY <1>5 DEF ProviderCompleted, ProviderFailed, Known, KnownTurns, TypeOK,
           ProviderTyped
    <2>2. Head(work[p]) \in started /\ Tail(work[p]) \in Seq(Turns)
        BY <2>1
    <2> QED
        BY <1>5, <2>2 DEF ProviderCompleted, ProviderFailed, TypeOK, ProviderTyped, durable
<1>6. ASSUME NEW p \in Bindings, StreamEnds(p)
      PROVE  ProviderTyped'
    BY <1>6 DEF StreamEnds, durable, TypeOK, ProviderTyped, DurableTyped
<1>7. ASSUME Restart
      PROVE  ProviderTyped'
    BY <1>7 DEF Restart, TypeOK, ProviderTyped, DurableTyped
<1>8. ASSUME NEW p \in Senders, AcquireTransition(p) \/ ResumeBegin(p) \/ SelectRefused(p)
             \/ SelectSame(p) \/ SelectSwitch(p) \/ CancelIdleFails(p) \/ PrepareRead(p)
             \/ PrepareSave(p) \/ AttachBound(p) \/ AttachFails(p) \/ (\E b \in Bindings :
             AttachNew(p, b)) \/ ResumeAppend(p) \/ ResumeSave(p) \/ ResumeFails(p)
      PROVE  ProviderTyped'
    BY <1>8 DEF AcquireTransition, ResumeBegin, SelectRefused, SelectSame, SelectSwitch,
       CancelIdleFails, PrepareRead, PrepareSave, AttachBound, AttachFails, AttachNew,
       ResumeAppend, ResumeSave, ResumeFails, provider, durable, TypeOK, ProviderTyped,
       DurableTyped
<1>9. ASSUME NEW p \in Senders \cup Bindings, ReadRow(p) \/ ReadHistory(p) \/ SaveRow(p)
             \/ SendTurnFails(p) \/ SetActiveTurn(p) \/ SendProviderInputFails(p)
      PROVE  ProviderTyped'
    BY <1>9 DEF ReadRow, ReadHistory, SaveRow, SendTurnFails, SetActiveTurn,
       SendProviderInputFails, provider, durable, TypeOK, ProviderTyped, DurableTyped
<1>10. ASSUME NEW p \in Tasks, ClaimCommitted(p) \/ ClaimLead(p) \/ ClaimTimesOut(p) \/
             AcquireToken(p) \/ PersistTerminal(p) \/ PersistFails(p) \/ Cleanup(p)
      PROVE  ProviderTyped'
    BY <1>10 DEF ClaimCommitted, ClaimLead, ClaimTimesOut, AcquireToken, PersistTerminal,
       PersistFails, Cleanup, provider, durable, TypeOK, ProviderTyped, DurableTyped,
       Abandon
<1>11. ASSUME NEW p \in Bindings, EmitCompleted(p) \/ EmitFailed(p) \/ DispatchNext(p) \/
             NothingQueued(p)
      PROVE  ProviderTyped'
    BY <1>11 DEF EmitCompleted, EmitFailed, DispatchNext, NothingQueued, provider,
       durable, TypeOK, ProviderTyped, DurableTyped
<1>12. ASSUME NEW p \in Aborters, AbortBegin(p) \/ Quiesce(p) \/ AbortRead(p) \/
             AbortTurn(p) \/ AbortSession(p) \/ AbortSave(p) \/ AbortFails(p)
      PROVE  ProviderTyped'
    BY <1>12 DEF AbortBegin, Quiesce, AbortRead, AbortTurn, AbortSession, AbortSave,
       AbortFails, provider, durable, TypeOK, ProviderTyped, DurableTyped
<1>13. ASSUME AppendOther \/ UNCHANGED vars
      PROVE  ProviderTyped'
    BY <1>13 DEF AppendOther, vars, provider, durable, TypeOK, ProviderTyped, DurableTyped
<1> QED
    BY <1>1, <1>2, <1>3, <1>4, <1>5, <1>6, <1>7, <1>8, <1>9, <1>10, <1>11, <1>12, <1>13
       DEF Next, SenderStep, SendTurnStep, TerminalizeStep, BridgeStep, ProviderAnswers,
       AborterStep, Tasks

(* Projection, bindings and prompts name started turns.                    *)
LEMMA KnownTurnsStep ==
    ASSUME TypeOK, Known, [Next]_vars
    PROVE  KnownTurns'
<1>1. ASSUME NEW p \in Senders, ResumeAppend(p)
      PROVE  KnownTurns'
    BY <1>1 DEF ResumeAppend, OnSessionResumed, Projection, Known, KnownTurns, bindings,
       provider
<1>2. ASSUME NEW p \in Senders, PrepareSave(p) \/ ResumeSave(p)
      PROVE  KnownTurns'
    BY <1>2 DEF PrepareSave, ResumeSave, Known, KnownTurns, bindings, provider
<1>3. ASSUME NEW p \in Senders, CancelIdle(p)
      PROVE  KnownTurns'
    <2>1. bind[p] \in Bindings
        BY <1>3 DEF CancelIdle, At, Known, KnownTurns, Carried, TypeOK, LocalsTyped, Tasks
    <2>2. \A b \in Bindings : work'[b] \in Seq(started)
        BY <1>3, <2>1, Cancels DEF CancelIdle, Known, KnownTurns
    <2> QED
        BY <1>3, <2>2 DEF CancelIdle, Known, KnownTurns, durable
<1>4. ASSUME NEW p \in Senders \cup Bindings, NEW t \in Turns, AppendStarted(p, t)
      PROVE  KnownTurns'
    <2>1. started \subseteq started' /\ t \in started'
        BY <1>4 DEF AppendStarted
    <2>2. \A b \in Bindings : work'[b] \in Seq(started')
        <3>1. \A b \in Bindings : work[b] \in Seq(started)
            BY DEF Known, KnownTurns
        <3>2. \A s \in Seq(started) : s \in Seq(started')
            BY <2>1
        <3> QED
            BY <1>4, <3>1, <3>2 DEF AppendStarted, provider
    <2> QED
        BY <1>4, <2>1, <2>2 DEF AppendStarted, OnTurnStarted, Projection, Known,
           KnownTurns, bindings
<1>5. ASSUME NEW p \in Senders \cup Bindings, SaveRow(p)
      PROVE  KnownTurns'
    BY <1>5 DEF SaveRow, Known, KnownTurns, bindings, provider
<1>6. ASSUME NEW p \in Senders \cup Bindings, SetActiveTurn(p)
      PROVE  KnownTurns'
    <2>1. turn[p] \in started
        BY <1>6 DEF SetActiveTurn, At, Known, KnownTurns, Carried, Carrying, Tasks
    <2>2. \A b \in Bindings : cur'[b] \in started \cup {None}
        <3>1. cur' = cur \/ cur' = [cur EXCEPT ![bound] = turn[p]]
            BY <1>6 DEF SetActiveTurn
        <3> QED
            BY <2>1, <3>1 DEF Known, KnownTurns, TypeOK, BindingsTyped
    <2> QED
        BY <1>6, <2>2 DEF SetActiveTurn, Known, KnownTurns, durable, provider
<1>7. ASSUME NEW p \in Senders \cup Bindings, SendProviderInput(p)
      PROVE  KnownTurns'
    <2>1. turn[p] \in started /\ bound \in Bindings
        BY <1>7 DEF SendProviderInput, At, Known, KnownTurns, Carried, Carrying, Tasks,
           TypeOK, BindingsTyped
    <2>2. Append(work[bound], turn[p]) \in Seq(started)
        BY <2>1 DEF Known, KnownTurns
    <2>3. \A b \in Bindings : work'[b] \in Seq(started)
        BY <1>7, <2>1, <2>2 DEF SendProviderInput, Known, KnownTurns, TypeOK, ProviderTyped
    <2> QED
        BY <1>7, <2>3 DEF SendProviderInput, Known, KnownTurns, durable, bindings
<1>8. ASSUME NEW p \in Tasks, LookupTerminal(p)
      PROVE  KnownTurns'
    <2>1. \A b \in Bindings : work'[b] \in Seq(started)
        <3>1. CASE UNCHANGED provider
            BY <3>1 DEF provider, Known, KnownTurns
        <3>2. CASE bind[p] # None /\ CancelHandle(bind[p])
            <4>1. bind[p] \in Bindings
                BY <3>2 DEF TypeOK, LocalsTyped
            <4> QED
                BY <3>2, <4>1, Cancels DEF Known, KnownTurns
        <3> QED
            BY <1>8, <3>1, <3>2 DEF LookupTerminal
    <2> QED
        BY <1>8, <2>1 DEF LookupTerminal, Known, KnownTurns, durable, bindings
<1>9. ASSUME NEW p \in Tasks, PersistTerminal(p)
      PROVE  KnownTurns'
    <2>1. turn[p] \in started /\ turn[p] \in Turns /\ p \in Tasks
        BY <1>9 DEF PersistTerminal, At, TypeOK, DurableTyped, LocalsTyped, Known,
           KnownTurns, Carried, Carrying, Reading, Ending, Tasks
    <2> QED
        BY <1>9, <2>1 DEF PersistTerminal, AppendTerminal, OnTerminal, Projection, Known,
           KnownTurns, bindings, provider
<1>10. ASSUME NEW p \in Tasks, AcquireToken(p) \/ PersistFails(p)
      PROVE  KnownTurns'
    BY <1>10 DEF AcquireToken, PersistFails, Abandon, durable, bindings, provider, Known,
       KnownTurns
<1>11. ASSUME NEW p \in Tasks, Cleanup(p)
      PROVE  KnownTurns'
    BY <1>11 DEF Cleanup, durable, provider, Known, KnownTurns, TypeOK, BindingsTyped
<1>12. ASSUME NEW p \in Bindings, ProviderCompleted(p) \/ ProviderFailed(p)
      PROVE  KnownTurns'
    <2>1. work[p] \in Seq(started) /\ work[p] # <<>>
        BY <1>12 DEF ProviderCompleted, ProviderFailed, Known, KnownTurns
    <2>2. Tail(work[p]) \in Seq(started)
        BY <2>1
    <2>3. \A b \in Bindings : work'[b] \in Seq(started)
        BY <1>12, <2>2 DEF ProviderCompleted, ProviderFailed, Known, KnownTurns, TypeOK,
           ProviderTyped
    <2> QED
        BY <1>12, <2>3 DEF ProviderCompleted, ProviderFailed, Known, KnownTurns, durable,
           bindings
<1>13. ASSUME NEW p \in Bindings, StreamEnds(p)
      PROVE  KnownTurns'
    BY <1>13 DEF StreamEnds, durable, Known, KnownTurns
<1>14. ASSUME NEW p \in Aborters, AbortRead(p) \/ AbortSave(p)
      PROVE  KnownTurns'
    BY <1>14 DEF AbortRead, AbortSave, Known, KnownTurns, bindings, provider
<1>15. ASSUME NEW p \in Aborters, AbortTurn(p)
      PROVE  KnownTurns'
    <2>1. turn[p] \in started /\ turn[p] \in Turns /\ p \in Tasks
        BY <1>15 DEF AbortTurn, At, TypeOK, DurableTyped, LocalsTyped, Known, KnownTurns,
           Carried, Carrying, Reading, Ending, Tasks
    <2> QED
        BY <1>15, <2>1 DEF AbortTurn, AppendTerminal, OnTerminal, Projection, Known,
           KnownTurns, bindings, provider
<1>16. ASSUME NEW p \in Aborters, AbortSession(p)
      PROVE  KnownTurns'
    BY <1>16 DEF AbortSession, OnSessionAborted, Projection, Known, KnownTurns, bindings,
       provider
<1>17. ASSUME AppendOther
      PROVE  KnownTurns'
    BY <1>17 DEF AppendOther, Projection, Known, KnownTurns, bindings, provider
<1>18. ASSUME Restart
      PROVE  KnownTurns'
    <2>1. Recovered \subseteq started
        BY DEF Recovered, Open
    <2>2. proj'.turn \in started \cup {None} /\ proj'.last \in started \cup {None}
            /\ started' = started
        BY <1>18, <2>1 DEF Restart, Projection, Known, KnownTurns
    <2>3. \A b \in Bindings : work'[b] = <<>> /\ cur'[b] = None
        BY <1>18 DEF Restart
    <2>4. <<>> \in Seq(started')
        OBVIOUS
    <2> QED
        BY <2>2, <2>3, <2>4 DEF KnownTurns
<1>19. ASSUME NEW p \in Senders, AcquireTransition(p) \/ ResumeBegin(p) \/
             SelectRefused(p) \/ SelectSame(p) \/ SelectSwitch(p) \/ CancelIdleFails(p) \/
             PrepareRead(p) \/ AttachBound(p) \/ AttachFails(p) \/ (\E b \in Bindings :
             AttachNew(p, b)) \/ ResumeFails(p)
      PROVE  KnownTurns'
    BY <1>19 DEF AcquireTransition, ResumeBegin, SelectRefused, SelectSame, SelectSwitch,
       CancelIdleFails, PrepareRead, AttachBound, AttachFails, AttachNew, ResumeFails,
       durable, bindings, provider, Known, KnownTurns
<1>20. ASSUME NEW p \in Senders \cup Bindings, ReadRow(p) \/ ReadHistory(p) \/
             SendTurnFails(p) \/ SendProviderInputFails(p)
      PROVE  KnownTurns'
    BY <1>20 DEF ReadRow, ReadHistory, SendTurnFails, SendProviderInputFails, durable,
       bindings, provider, Known, KnownTurns
<1>21. ASSUME NEW p \in Tasks, ClaimCommitted(p) \/ ClaimLead(p) \/ ClaimTimesOut(p)
      PROVE  KnownTurns'
    BY <1>21 DEF ClaimCommitted, ClaimLead, ClaimTimesOut, durable, bindings, provider,
       Known, KnownTurns
<1>22. ASSUME NEW p \in Bindings, EmitCompleted(p) \/ EmitFailed(p) \/ DispatchNext(p) \/
             NothingQueued(p)
      PROVE  KnownTurns'
    BY <1>22 DEF EmitCompleted, EmitFailed, DispatchNext, NothingQueued, durable,
       bindings, provider, Known, KnownTurns
<1>23. ASSUME NEW p \in Aborters, AbortBegin(p) \/ Quiesce(p) \/ AbortFails(p)
      PROVE  KnownTurns'
    BY <1>23 DEF AbortBegin, Quiesce, AbortFails, durable, bindings, provider, Known,
       KnownTurns
<1>24. ASSUME UNCHANGED vars
      PROVE  KnownTurns'
    BY <1>24 DEF vars, durable, bindings, provider, Known, KnownTurns
<1> QED
    BY <1>1, <1>2, <1>3, <1>4, <1>5, <1>6, <1>7, <1>8, <1>9, <1>10, <1>11, <1>12, <1>13,
       <1>14, <1>15, <1>16, <1>17, <1>18, <1>19, <1>20, <1>21, <1>22, <1>23, <1>24 DEF
       Next, SenderStep, SendTurnStep, TerminalizeStep, BridgeStep, ProviderAnswers,
       AborterStep, Tasks

(* A task has a turn just where its code needs it.                         *)
LEMMA CarriedStep ==
    ASSUME TypeOK, Known, Places, [Next]_vars
    PROVE  Carried'
<1>1. ASSUME Restart
      PROVE  Carried'
    BY <1>1 DEF Restart, Carried, Carrying, Reading, Ending, Known
<1>2. ASSUME NEW p \in Senders \cup Bindings, NEW t \in Turns, AppendStarted(p, t)
      PROVE  Carried'
    <2>1. started' = started \cup {t} /\ t # None
        BY <1>2 DEF AppendStarted
    <2>2. MovesTo(p, "save", t, bind[p], src[p])
        BY <1>2, SendMoves
    <2> QED
        BY <2>1, <2>2 DEF MovesTo, Others, Has, Known, Carried, Carrying, Reading, Ending
<1>3. ASSUME NEW p \in Senders, SelectSwitch(p)
      PROVE  Carried'
    <2>1. started' = started
        BY <1>3 DEF SelectSwitch, durable
    <2>2. bound # None => cur[bound] \in started \cup {None}
        BY DEF Known, KnownTurns, TypeOK, BindingsTyped
    <2> QED
        BY <1>3, <2>1, <2>2, SelectMoves DEF MovesTo, Went, Left, Entered, Others, Has,
           Rest,
           Known, Carried, Carrying, Reading, Ending, Tasks
<1>4. ASSUME NEW p \in Tasks, ClaimTimesOut(p) \/ AcquireToken(p) \/ PersistFails(p) \/
             Cleanup(p)
      PROVE  Carried'
    <2>1. started' = started
        BY <1>4 DEF ClaimTimesOut, AcquireToken, PersistFails, Cleanup, Abandon, durable
    <2>2. CASE Returned(p)
        BY <2>1, <2>2 DEF Returned, MovesTo, Others, Has, Rest, Known, Carried, Carrying,
           Reading, Ending
    <2>3. CASE pc[p] = "token" /\ Went(p, "lookup")
        BY <2>1, <2>3 DEF Went, MovesTo, Others, Has, Known, Carried, Carrying, Reading,
           Ending
    <2> QED
        BY <1>4, <2>2, <2>3, EndMoves
<1>5. ASSUME NEW p \in Senders, NEW b \in Bindings, AttachNew(p, b)
      PROVE  Carried'
    BY <1>5, AttachMoves DEF AttachNew, Others, Has, Rest, Known, KnownTurns, Carried,
       Carrying, Reading, Ending, Tasks, Places, Selecting, Sending, Aborting, durable
<1>6. ASSUME NEW p \in Senders, AcquireTransition(p) \/ ResumeBegin(p)
      PROVE  Carried'
    BY <1>6, SelectMoves DEF AcquireTransition, ResumeBegin, MovesTo, Went, Left, Entered,
       Returned, Others, Has, Rest, Known, KnownTurns, Carried, Carrying, Reading, Ending,
       Tasks, Places, Selecting, Sending, Aborting, durable
<1>7. ASSUME NEW p \in Senders, SelectRefused(p) \/ SelectSame(p)
      PROVE  Carried'
    BY <1>7, SelectMoves DEF SelectRefused, SelectSame, MovesTo, Went, Left, Entered,
       Returned, Others, Has, Rest, Known, KnownTurns, Carried, Carrying, Reading, Ending,
       Tasks, Places, Selecting, Sending, Aborting, durable
<1>8. ASSUME NEW p \in Senders, CancelIdle(p) \/ CancelIdleFails(p)
      PROVE  Carried'
    BY <1>8, SelectMoves DEF CancelIdle, CancelIdleFails, MovesTo, Went, Left, Entered,
       Returned, Others, Has, Rest, Known, KnownTurns, Carried, Carrying, Reading, Ending,
       Tasks, Places, Selecting, Sending, Aborting, durable
<1>9. ASSUME NEW p \in Senders, PrepareRead(p) \/ PrepareSave(p)
      PROVE  Carried'
    BY <1>9, SelectMoves DEF PrepareRead, PrepareSave, MovesTo, Went, Left, Entered,
       Returned, Others, Has, Rest, Known, KnownTurns, Carried, Carrying, Reading, Ending,
       Tasks, Places, Selecting, Sending, Aborting, durable
<1>10. ASSUME NEW p \in Senders, AttachBound(p) \/ AttachFails(p)
      PROVE  Carried'
    BY <1>10, SelectMoves DEF AttachBound, AttachFails, MovesTo, Went, Left, Entered,
       Returned, Others, Has, Rest, Known, KnownTurns, Carried, Carrying, Reading, Ending,
       Tasks, Places, Selecting, Sending, Aborting, durable
<1>11. ASSUME NEW p \in Senders, ResumeAppend(p) \/ ResumeSave(p)
      PROVE  Carried'
    BY <1>11, SelectMoves DEF ResumeAppend, ResumeSave, MovesTo, Went, Left, Entered,
       Returned, Others, Has, Rest, Known, KnownTurns, Carried, Carrying, Reading, Ending,
       Tasks, Places, Selecting, Sending, Aborting, durable
<1>12. ASSUME NEW p \in Senders, ResumeFails(p)
      PROVE  Carried'
    BY <1>12, SelectMoves DEF ResumeFails, MovesTo, Went, Left, Entered, Returned, Others,
       Has, Rest, Known, KnownTurns, Carried, Carrying, Reading, Ending, Tasks, Places,
       Selecting, Sending, Aborting, durable
<1>13. ASSUME NEW p \in Senders \cup Bindings, ReadRow(p) \/ ReadHistory(p)
      PROVE  Carried'
    BY <1>13, SendMoves DEF ReadRow, ReadHistory, MovesTo, Went, Left, Entered, Returned,
       Others, Has, Rest, Known, KnownTurns, Carried, Carrying, Reading, Ending, Tasks,
       Places, Selecting, Sending, Aborting, durable
<1>14. ASSUME NEW p \in Senders \cup Bindings, SaveRow(p) \/ SendTurnFails(p)
      PROVE  Carried'
    BY <1>14, SendMoves DEF SaveRow, SendTurnFails, MovesTo, Went, Left, Entered,
       Returned, Others, Has, Rest, Known, KnownTurns, Carried, Carrying, Reading, Ending,
       Tasks, Places, Selecting, Sending, Aborting, durable
<1>15. ASSUME NEW p \in Senders \cup Bindings, SetActiveTurn(p) \/ SendProviderInput(p)
      PROVE  Carried'
    BY <1>15, SendMoves DEF SetActiveTurn, SendProviderInput, MovesTo, Went, Left,
       Entered, Returned, Others, Has, Rest, Known, KnownTurns, Carried, Carrying,
       Reading, Ending, Tasks, Places, Selecting, Sending, Aborting, durable
<1>16. ASSUME NEW p \in Senders \cup Bindings, SendProviderInputFails(p)
      PROVE  Carried'
    BY <1>16, SendMoves DEF SendProviderInputFails, MovesTo, Went, Left, Entered,
       Returned, Others, Has, Rest, Known, KnownTurns, Carried, Carrying, Reading, Ending,
       Tasks, Places, Selecting, Sending, Aborting, durable
<1>17. ASSUME NEW p \in Tasks, ClaimCommitted(p) \/ ClaimLead(p)
      PROVE  Carried'
    BY <1>17, EndMoves DEF ClaimCommitted, ClaimLead, MovesTo, Went, Left, Entered,
       Returned, Others, Has, Rest, Known, KnownTurns, Carried, Carrying, Reading, Ending,
       Tasks, Places, Selecting, Sending, Aborting, durable
<1>18. ASSUME NEW p \in Tasks, LookupTerminal(p) \/ PersistTerminal(p)
      PROVE  Carried'
    BY <1>18, EndMoves DEF LookupTerminal, PersistTerminal, MovesTo, Went, Left, Entered,
       Returned, Others, Has, Rest, Known, KnownTurns, Carried, Carrying, Reading, Ending,
       Tasks, Places, Selecting, Sending, Aborting, durable
<1>19. ASSUME NEW p \in Bindings, EmitCompleted(p) \/ EmitFailed(p)
      PROVE  Carried'
    BY <1>19, BridgeMoves DEF EmitCompleted, EmitFailed, MovesTo, Went, Left, Entered,
       Returned, Others, Has, Rest, Known, KnownTurns, Carried, Carrying, Reading, Ending,
       Tasks, Places, Selecting, Sending, Aborting, durable
<1>20. ASSUME NEW p \in Bindings, DispatchNext(p) \/ NothingQueued(p)
      PROVE  Carried'
    BY <1>20, BridgeMoves DEF DispatchNext, NothingQueued, MovesTo, Went, Left, Entered,
       Returned, Others, Has, Rest, Known, KnownTurns, Carried, Carrying, Reading, Ending,
       Tasks, Places, Selecting, Sending, Aborting, durable
<1>21. ASSUME NEW p \in Bindings, ProviderCompleted(p) \/ ProviderFailed(p)
      PROVE  Carried'
    BY <1>21, BridgeMoves DEF ProviderCompleted, ProviderFailed, MovesTo, Went, Left,
       Entered, Returned, Others, Has, Rest, Known, KnownTurns, Carried, Carrying,
       Reading, Ending, Tasks, Places, Selecting, Sending, Aborting, durable
<1>22. ASSUME NEW p \in Bindings, StreamEnds(p)
      PROVE  Carried'
    BY <1>22, BridgeMoves DEF StreamEnds, MovesTo, Went, Left, Entered, Returned, Others,
       Has, Rest, Known, KnownTurns, Carried, Carrying, Reading, Ending, Tasks, Places,
       Selecting, Sending, Aborting, durable
<1>23. ASSUME NEW p \in Aborters, AbortBegin(p) \/ Quiesce(p)
      PROVE  Carried'
    BY <1>23, AbortMoves DEF AbortBegin, Quiesce, MovesTo, Went, Left, Entered, Returned,
       Others, Has, Rest, Known, KnownTurns, Carried, Carrying, Reading, Ending, Tasks,
       Places, Selecting, Sending, Aborting, durable
<1>24. ASSUME NEW p \in Aborters, AbortRead(p) \/ AbortTurn(p)
      PROVE  Carried'
    BY <1>24, AbortMoves DEF AbortRead, AbortTurn, MovesTo, Went, Left, Entered, Returned,
       Others, Has, Rest, Known, KnownTurns, Carried, Carrying, Reading, Ending, Tasks,
       Places, Selecting, Sending, Aborting, durable
<1>25. ASSUME NEW p \in Aborters, AbortSession(p) \/ AbortSave(p)
      PROVE  Carried'
    BY <1>25, AbortMoves DEF AbortSession, AbortSave, MovesTo, Went, Left, Entered,
       Returned, Others, Has, Rest, Known, KnownTurns, Carried, Carrying, Reading, Ending,
       Tasks, Places, Selecting, Sending, Aborting, durable
<1>26. ASSUME NEW p \in Aborters, AbortFails(p)
      PROVE  Carried'
    BY <1>26, AbortMoves DEF AbortFails, MovesTo, Went, Left, Entered, Returned, Others,
       Has, Rest, Known, KnownTurns, Carried, Carrying, Reading, Ending, Tasks, Places,
       Selecting, Sending, Aborting, durable
<1>27. ASSUME AppendOther \/ UNCHANGED vars
      PROVE  Carried'
    BY <1>27 DEF AppendOther, vars, Others, Has, Rest, Known, KnownTurns, Carried,
       Carrying, Reading, Ending, Tasks, Places, Selecting, Sending, Aborting, durable,
       bindings, arbiter, provider, locals
<1> QED
    BY <1>1, <1>2, <1>3, <1>4, <1>5, <1>6, <1>7, <1>8, <1>9, <1>10, <1>11, <1>12, <1>13,
       <1>14, <1>15, <1>16, <1>17, <1>18, <1>19, <1>20, <1>21, <1>22, <1>23, <1>24, <1>25,
       <1>26, <1>27 DEF Next, SenderStep, SendTurnStep, TerminalizeStep, BridgeStep,
       ProviderAnswers, AborterStep, Tasks

(* The transition is taken when it is free, by who goes on to hold it, and *)
(* returned on every way out.                                              *)
LEMMA LockedStep ==
    ASSUME TypeOK, Places, Locked, [Next]_vars
    PROVE  Locked'
<1>1. ASSUME NEW p \in Tasks, ClaimTimesOut(p) \/ AcquireToken(p) \/ PersistFails(p) \/
             Cleanup(p)
      PROVE  Locked'
    <2>1. CASE Returned(p)
        BY <1>1, <2>1, EndMoves DEF Returned, MovesTo, Others, Has, Rest, Locked, Places,
           Selecting, Sending,
           Ending, Reading, Aborting, Tasks, TypeOK, BindingsTyped
    <2>2. CASE pc[p] = "token" /\ Went(p, "lookup")
        BY <2>2 DEF Went, MovesTo, Others, Has, Locked, Selecting, Sending, Ending,
           TypeOK, BindingsTyped, Tasks
    <2> QED
        BY <1>1, <2>1, <2>2, EndMoves
<1>2. ASSUME AppendOther \/ UNCHANGED vars
      PROVE  Locked'
    BY <1>2 DEF AppendOther, vars, locals, Locked
<1>3. ASSUME Restart
      PROVE  Locked'
    BY <1>3 DEF Restart, Locked, Sending, Tasks
<1>4. ASSUME NEW p \in Senders, NEW b \in Bindings, AttachNew(p, b)
      PROVE  Locked'
    BY <1>4, AttachMoves DEF Others, Has, Rest, Locked, Places, Selecting, Sending,
       Ending, Reading, Aborting, Tasks, TypeOK, BindingsTyped
<1>5. ASSUME NEW p \in Senders \cup Bindings, NEW t \in Turns, AppendStarted(p, t)
      PROVE  Locked'
    BY <1>5, SendMoves DEF MovesTo, Went, Left, Entered, Returned, Others, Has, Rest,
       Locked, Places, Selecting, Sending, Ending, Reading, Aborting, Tasks, TypeOK,
       BindingsTyped
<1>6. ASSUME NEW p \in Senders, AcquireTransition(p) \/ ResumeBegin(p) \/ SelectRefused(p)
             \/ SelectSame(p) \/ SelectSwitch(p) \/ CancelIdle(p) \/ CancelIdleFails(p) \/
             PrepareRead(p)
      PROVE  Locked'
    BY <1>6, SelectMoves DEF MovesTo, Went, Left, Entered, Returned, Others, Has, Rest,
       Locked, Places, Selecting, Sending, Ending, Reading, Aborting, Tasks, TypeOK,
       BindingsTyped
<1>7. ASSUME NEW p \in Senders, PrepareSave(p) \/ AttachBound(p) \/ AttachFails(p) \/
             ResumeAppend(p) \/ ResumeSave(p) \/ ResumeFails(p)
      PROVE  Locked'
    BY <1>7, SelectMoves DEF MovesTo, Went, Left, Entered, Returned, Others, Has, Rest,
       Locked, Places, Selecting, Sending, Ending, Reading, Aborting, Tasks, TypeOK,
       BindingsTyped
<1>8. ASSUME NEW p \in Senders \cup Bindings, ReadRow(p) \/ ReadHistory(p) \/ SaveRow(p)
             \/ SendTurnFails(p) \/ SetActiveTurn(p) \/ SendProviderInput(p) \/
             SendProviderInputFails(p)
      PROVE  Locked'
    BY <1>8, SendMoves DEF MovesTo, Went, Left, Entered, Returned, Others, Has, Rest,
       Locked, Places, Selecting, Sending, Ending, Reading, Aborting, Tasks, TypeOK,
       BindingsTyped
<1>9. ASSUME NEW p \in Tasks, ClaimCommitted(p) \/ ClaimLead(p) \/ LookupTerminal(p) \/
             PersistTerminal(p)
      PROVE  Locked'
    BY <1>9, EndMoves DEF MovesTo, Went, Left, Entered, Returned, Others, Has, Rest,
       Locked, Places, Selecting, Sending, Ending, Reading, Aborting, Tasks, TypeOK,
       BindingsTyped
<1>10. ASSUME NEW p \in Bindings, EmitCompleted(p) \/ EmitFailed(p) \/ DispatchNext(p) \/
             NothingQueued(p) \/ ProviderCompleted(p) \/ ProviderFailed(p) \/
             StreamEnds(p)
      PROVE  Locked'
    BY <1>10, BridgeMoves DEF MovesTo, Went, Left, Entered, Returned, Others, Has, Rest,
       Locked, Places, Selecting, Sending, Ending, Reading, Aborting, Tasks, TypeOK,
       BindingsTyped
<1>11. ASSUME NEW p \in Aborters, AbortBegin(p) \/ Quiesce(p) \/ AbortRead(p) \/
             AbortTurn(p) \/ AbortSession(p) \/ AbortSave(p) \/ AbortFails(p)
      PROVE  Locked'
    BY <1>11, AbortMoves DEF MovesTo, Went, Left, Entered, Returned, Others, Has, Rest,
       Locked, Places, Selecting, Sending, Ending, Reading, Aborting, Tasks, TypeOK,
       BindingsTyped
<1> QED
    BY <1>1, <1>2, <1>3, <1>4, <1>5, <1>6, <1>7, <1>8, <1>9, <1>10, <1>11 DEF Next,
       SenderStep, SendTurnStep, TerminalizeStep, BridgeStep, ProviderAnswers,
       AborterStep, Tasks

(* A terminal token is dropped on every way out of the code that took it.  *)
LEMMA TokensHeldStep ==
    ASSUME TypeOK, Known, Places, TokensHeld, [Next]_vars
    PROVE  TokensHeld'
<1>1. ASSUME NEW p \in Senders, SelectSwitch(p)
      PROVE  TokensHeld'
    <2>1. p \in Tasks /\ bound \in Bindings \cup {None}
        BY DEF Tasks, TypeOK, BindingsTyped
    <2>2. pc[p] = "select"
        BY <1>1 DEF SelectSwitch, At
    <2>3. CASE Others(p) /\ tok' = tok
        BY <2>1, <2>2, <2>3 DEF Others, TokensHeld, TypeOK, BindingsTyped
    <2>4. CASE /\ bound # None /\ tok[bound] = None /\ tok' = [tok EXCEPT ![bound] = p]
               /\ MovesTo(p, "cancelIdle", turn[p], bound, src[p])
        BY <2>1, <2>2, <2>4 DEF MovesTo, Others, Has, TokensHeld, TypeOK, BindingsTyped
    <2> QED
        BY <1>1, <2>3, <2>4, SelectMoves DEF Left, Went, Entered, MovesTo
<1>2. ASSUME NEW p \in Senders, CancelIdle(p) \/ CancelIdleFails(p)
      PROVE  TokensHeld'
    <2>1. p \in Tasks /\ pc[p] = "cancelIdle" /\ Others(p)
        BY <1>2, SelectMoves DEF Left, MovesTo, Tasks
    <2>2. bind[p] \in Bindings
        BY <2>1 DEF Known, Carried, TypeOK, LocalsTyped
    <2>3. tok' = [tok EXCEPT ![bind[p]] = None]
        BY <1>2 DEF CancelIdle, CancelIdleFails
    <2> QED
        BY <2>1, <2>2, <2>3 DEF Others, TokensHeld, TypeOK, BindingsTyped
<1>3. ASSUME NEW p \in Tasks, ClaimCommitted(p) \/ ClaimLead(p) \/ ClaimTimesOut(p)
      PROVE  TokensHeld'
    <2>1. pc[p] = "claim" /\ Others(p)
        BY <1>3, EndMoves DEF Went, Returned, MovesTo
    <2>2. tok' = tok
        BY <1>3 DEF ClaimCommitted, ClaimLead, ClaimTimesOut, bindings
    <2> QED
        BY <2>1, <2>2 DEF Others, TokensHeld, TypeOK, BindingsTyped
<1>4. ASSUME NEW p \in Tasks, AcquireToken(p) \/ PersistFails(p)
      PROVE  TokensHeld'
    <2>1. pc[p] \in {"token", "lookup", "append"} /\ Others(p)
        BY <1>4, EndMoves DEF Went, Returned, MovesTo
    <2>2. CASE Abandon(p)
        <3>1. tok' = [b \in Bindings |-> IF tok[b] = p THEN None ELSE tok[b]]
            BY <2>2 DEF Abandon
        <3> QED
            BY <2>1, <3>1 DEF Others, TokensHeld, TypeOK, BindingsTyped
    <2>3. CASE pc[p] = "token" /\ Went(p, "lookup") /\ tok' = tok
        BY <2>1, <2>3 DEF Others, TokensHeld, TypeOK, BindingsTyped
    <2>4. CASE pc[p] = "token" /\ Went(p, "lookup") /\ bind[p] \in Bindings
            /\ tok' = [tok EXCEPT ![bind[p]] = p]
        BY <2>1, <2>4 DEF Went, MovesTo, Has, Others, TokensHeld, TypeOK, BindingsTyped
    <2> QED
        BY <1>4, <2>2, <2>3, <2>4, EndMoves DEF AcquireToken, PersistFails, bindings,
           TypeOK, LocalsTyped
<1>5. ASSUME NEW p \in Tasks, LookupTerminal(p) \/ PersistTerminal(p)
      PROVE  TokensHeld'
    BY <1>5, EndMoves DEF LookupTerminal, PersistTerminal, bindings, Went, MovesTo,
       Others, Has, TokensHeld, TypeOK, BindingsTyped
<1>6. ASSUME NEW p \in Tasks, Cleanup(p)
      PROVE  TokensHeld'
    <2>1. Others(p)
        BY <1>6, EndMoves DEF Returned, MovesTo
    <2>2. tok' = [b \in Bindings |-> IF tok[b] = p THEN None ELSE tok[b]]
        BY <1>6 DEF Cleanup
    <2> QED
        BY <2>1, <2>2 DEF Others, TokensHeld, TypeOK, BindingsTyped
<1>7. ASSUME NEW p \in Senders \cup Bindings, NEW t \in Turns, AppendStarted(p, t)
      PROVE  TokensHeld'
    <2>1. p \in Tasks /\ pc[p] = "start" /\ Others(p)
        BY <1>7, SendMoves DEF MovesTo, Tasks
    <2>2. tok' = tok
        BY <1>7 DEF AppendStarted, bindings
    <2> QED
        BY <2>1, <2>2 DEF Others, TokensHeld, TypeOK, BindingsTyped
<1>8. ASSUME NEW p \in Senders, NEW b \in Bindings, AttachNew(p, b)
      PROVE  TokensHeld'
    BY <1>8, AttachMoves DEF AttachNew, Tasks, TokensHeld, TypeOK, BindingsTyped
<1>9. ASSUME Restart
      PROVE  TokensHeld'
    BY <1>9 DEF Restart, TokensHeld
<1>10. ASSUME NEW p \in Senders, AcquireTransition(p) \/ ResumeBegin(p) \/
             SelectRefused(p) \/ SelectSame(p) \/ PrepareRead(p) \/ PrepareSave(p) \/
             AttachBound(p) \/ AttachFails(p)
      PROVE  TokensHeld'
    BY <1>10, SelectMoves DEF AcquireTransition, ResumeBegin, SelectRefused, SelectSame,
       PrepareRead, PrepareSave, AttachBound, AttachFails, MovesTo, Went, Left, Entered,
       Returned, Others, Tasks, bindings, TokensHeld, TypeOK, BindingsTyped, locals
<1>11. ASSUME NEW p \in Senders, ResumeAppend(p) \/ ResumeSave(p) \/ ResumeFails(p)
      PROVE  TokensHeld'
    BY <1>11, SelectMoves DEF ResumeAppend, ResumeSave, ResumeFails, MovesTo, Went, Left,
       Entered, Returned, Others, Tasks, bindings, TokensHeld, TypeOK, BindingsTyped,
       locals
<1>12. ASSUME NEW p \in Senders \cup Bindings, ReadRow(p) \/ ReadHistory(p) \/ SaveRow(p)
             \/ SendTurnFails(p) \/ SetActiveTurn(p) \/ SendProviderInput(p) \/
             SendProviderInputFails(p)
      PROVE  TokensHeld'
    BY <1>12, SendMoves DEF ReadRow, ReadHistory, SaveRow, SendTurnFails, SetActiveTurn,
       SendProviderInput, SendProviderInputFails, MovesTo, Went, Left, Entered, Returned,
       Others, Tasks, bindings, TokensHeld, TypeOK, BindingsTyped, locals
<1>13. ASSUME NEW p \in Bindings, EmitCompleted(p) \/ EmitFailed(p) \/ DispatchNext(p) \/
             NothingQueued(p) \/ ProviderCompleted(p) \/ ProviderFailed(p) \/
             StreamEnds(p)
      PROVE  TokensHeld'
    BY <1>13, BridgeMoves DEF EmitCompleted, EmitFailed, DispatchNext, NothingQueued,
       ProviderCompleted, ProviderFailed, StreamEnds, MovesTo, Went, Left, Entered,
       Returned, Others, Tasks, bindings, TokensHeld, TypeOK, BindingsTyped, locals
<1>14. ASSUME NEW p \in Aborters, AbortBegin(p) \/ Quiesce(p) \/ AbortRead(p) \/
             AbortTurn(p) \/ AbortSession(p) \/ AbortSave(p) \/ AbortFails(p)
      PROVE  TokensHeld'
    BY <1>14, AbortMoves DEF AbortBegin, Quiesce, AbortRead, AbortTurn, AbortSession,
       AbortSave, AbortFails, MovesTo, Went, Left, Entered, Returned, Others, Tasks,
       bindings, TokensHeld, TypeOK, BindingsTyped, locals
<1>15. ASSUME AppendOther \/ UNCHANGED vars
      PROVE  TokensHeld'
    BY <1>15 DEF AppendOther, vars, Others, Tasks, bindings, TokensHeld, TypeOK,
       BindingsTyped, durable, arbiter, provider, locals
<1> QED
    BY <1>1, <1>2, <1>3, <1>4, <1>5, <1>6, <1>7, <1>8, <1>9, <1>10, <1>11, <1>12, <1>13,
       <1>14, <1>15 DEF Next, SenderStep, SendTurnStep, TerminalizeStep, BridgeStep,
       ProviderAnswers, AborterStep, Tasks

(* A claim is committed or abandoned by the leader that took it.           *)
LEMMA ClaimsHeldStep ==
    ASSUME TypeOK, Known, Places, ClaimsHeld, [Next]_vars
    PROVE  ClaimsHeld'
<1>1. ASSUME NEW p \in Tasks, ClaimLead(p)
      PROVE  ClaimsHeld'
    <2>1. pc[p] = "claim" /\ Others(p)
        BY <1>1, EndMoves DEF Went, Returned, MovesTo
    <2>2. turn[p] \in Turns
        BY <2>1 DEF Known, Carried, Carrying, Ending, TypeOK, LocalsTyped
    <2>3. Has(p, "token", turn[p], bind[p], src[p]) /\ claim' = [claim EXCEPT ![turn[p]] = p]
        BY <1>1, EndMoves DEF ClaimLead, Went, MovesTo
    <2> QED
        BY <2>1, <2>2, <2>3 DEF Has, Others, ClaimsHeld, TypeOK, ArbiterTyped
<1>2. ASSUME NEW p \in Tasks, ClaimCommitted(p) \/ ClaimTimesOut(p)
      PROVE  ClaimsHeld'
    <2>1. pc[p] = "claim" /\ Others(p)
        BY <1>2, EndMoves DEF Went, Returned, MovesTo
    <2>2. turn[p] \in Turns
        BY <2>1 DEF Known, Carried, Carrying, Ending, TypeOK, LocalsTyped
    <2>3. claim' = claim
        BY <1>2 DEF ClaimCommitted, ClaimTimesOut, arbiter
    <2> QED
        BY <2>1, <2>3 DEF Others, ClaimsHeld, TypeOK, ArbiterTyped
<1>3. ASSUME NEW p \in Tasks, AcquireToken(p) \/ PersistFails(p)
      PROVE  ClaimsHeld'
    <2>1. pc[p] \in {"token", "lookup", "append"} /\ Others(p)
        BY <1>3, EndMoves DEF Went, Returned, MovesTo
    <2>2. turn[p] \in Turns
        BY <2>1 DEF Known, Carried, Carrying, Ending, TypeOK, LocalsTyped
    <2>3. CASE Abandon(p)
        <3>1. claim' = [claim EXCEPT ![turn[p]] = None]
            BY <2>3 DEF Abandon
        <3> QED
            BY <2>1, <2>2, <3>1 DEF Others, ClaimsHeld, TypeOK, ArbiterTyped
    <2>4. CASE Went(p, "lookup") /\ claim' = claim
        BY <2>1, <2>4 DEF Went, MovesTo, Has, Others, ClaimsHeld, TypeOK, ArbiterTyped
    <2> QED
        BY <1>3, <2>3, <2>4, EndMoves DEF AcquireToken, PersistFails, arbiter
<1>4. ASSUME NEW p \in Tasks, LookupTerminal(p) \/ PersistTerminal(p)
      PROVE  ClaimsHeld'
    <2>1. pc[p] \in {"lookup", "append"} /\ Others(p)
        BY <1>4, EndMoves DEF Went, Returned, MovesTo
    <2>2. turn[p] \in Turns
        BY <2>1 DEF Known, Carried, Carrying, Ending, TypeOK, LocalsTyped
    <2>3. CASE claim' = [claim EXCEPT ![turn[p]] = None]
        BY <2>1, <2>2, <2>3 DEF Others, ClaimsHeld, TypeOK, ArbiterTyped
    <2>4. CASE Went(p, "append") /\ claim' = claim
        BY <2>1, <2>4 DEF Went, MovesTo, Has, Others, ClaimsHeld, TypeOK, ArbiterTyped
    <2> QED
        BY <1>4, <2>3, <2>4, MovesOfAll DEF LookupTerminal, PersistTerminal,
           CommitOutcome, Positions, arbiter
<1>5. ASSUME NEW p \in Senders \cup Bindings, NEW t \in Turns, AppendStarted(p, t)
      PROVE  ClaimsHeld'
    <2>1. p \in Tasks /\ pc[p] = "start" /\ Others(p)
        BY <1>5, SendMoves DEF MovesTo, Tasks
    <2>2. claim' = claim
        BY <1>5 DEF AppendStarted, arbiter
    <2> QED
        BY <2>1, <2>2 DEF Others, ClaimsHeld, TypeOK, ArbiterTyped
<1>6. ASSUME NEW p \in Tasks, Cleanup(p)
      PROVE  ClaimsHeld'
    <2>1. pc[p] = "cleanup" /\ Others(p)
        BY <1>6, EndMoves DEF Returned, MovesTo
    <2>2. claim' = claim
        BY <1>6 DEF Cleanup, arbiter
    <2> QED
        BY <2>1, <2>2 DEF Others, ClaimsHeld, TypeOK, ArbiterTyped
<1>7. ASSUME NEW p \in Senders, NEW b \in Bindings, AttachNew(p, b)
      PROVE  ClaimsHeld'
    BY <1>7, AttachMoves DEF AttachNew, Tasks, arbiter, ClaimsHeld, TypeOK, ArbiterTyped
<1>8. ASSUME Restart
      PROVE  ClaimsHeld'
    BY <1>8 DEF Restart, ClaimsHeld
<1>9. ASSUME NEW p \in Senders, AcquireTransition(p) \/ ResumeBegin(p) \/ SelectRefused(p)
             \/ SelectSame(p) \/ SelectSwitch(p) \/ CancelIdle(p) \/ CancelIdleFails(p) \/
             PrepareRead(p)
      PROVE  ClaimsHeld'
    <2>1. CASE AcquireTransition(p) \/ ResumeBegin(p) \/ SelectRefused(p)
        BY <2>1, SelectMoves DEF AcquireTransition, ResumeBegin, SelectRefused, MovesTo,
           Went, Left, Entered, Returned, Others, Has, arbiter, Tasks, ClaimsHeld, TypeOK,
           ArbiterTyped, locals
    <2>2. CASE SelectSame(p) \/ SelectSwitch(p)
        BY <2>2, SelectMoves DEF SelectSame, SelectSwitch, MovesTo, Went, Left, Entered,
           Returned, Others, Has, arbiter, Tasks, ClaimsHeld, TypeOK, ArbiterTyped, locals
    <2>3. CASE CancelIdle(p) \/ CancelIdleFails(p) \/ PrepareRead(p)
        BY <2>3, SelectMoves DEF CancelIdle, CancelIdleFails, PrepareRead, MovesTo, Went,
           Left, Entered, Returned, Others, Has, arbiter, Tasks, ClaimsHeld, TypeOK,
           ArbiterTyped, locals
    <2> QED
        BY <1>9, <2>1, <2>2, <2>3
<1>10. ASSUME NEW p \in Senders, PrepareSave(p) \/ AttachBound(p) \/ AttachFails(p) \/
             ResumeAppend(p) \/ ResumeSave(p) \/ ResumeFails(p)
      PROVE  ClaimsHeld'
    BY <1>10, SelectMoves DEF PrepareSave, AttachBound, AttachFails, ResumeAppend,
       ResumeSave, ResumeFails, MovesTo, Went, Left, Entered, Returned, Others, Has,
       arbiter, Tasks, ClaimsHeld, TypeOK, ArbiterTyped, locals
<1>11. ASSUME NEW p \in Senders \cup Bindings, ReadRow(p) \/ ReadHistory(p) \/ SaveRow(p)
             \/ SendTurnFails(p) \/ SetActiveTurn(p) \/ SendProviderInput(p) \/
             SendProviderInputFails(p)
      PROVE  ClaimsHeld'
    BY <1>11, SendMoves DEF ReadRow, ReadHistory, SaveRow, SendTurnFails, SetActiveTurn,
       SendProviderInput, SendProviderInputFails, MovesTo, Went, Left, Entered, Returned,
       Others, Has, arbiter, Tasks, ClaimsHeld, TypeOK, ArbiterTyped, locals
<1>12. ASSUME NEW p \in Bindings, EmitCompleted(p) \/ EmitFailed(p) \/ DispatchNext(p) \/
             NothingQueued(p) \/ ProviderCompleted(p) \/ ProviderFailed(p) \/
             StreamEnds(p)
      PROVE  ClaimsHeld'
    BY <1>12, BridgeMoves DEF EmitCompleted, EmitFailed, DispatchNext, NothingQueued,
       ProviderCompleted, ProviderFailed, StreamEnds, MovesTo, Went, Left, Entered,
       Returned, Others, Has, arbiter, Tasks, ClaimsHeld, TypeOK, ArbiterTyped, locals
<1>13. ASSUME NEW p \in Aborters, AbortBegin(p) \/ Quiesce(p) \/ AbortRead(p) \/
             AbortTurn(p) \/ AbortSession(p) \/ AbortSave(p) \/ AbortFails(p)
      PROVE  ClaimsHeld'
    BY <1>13, AbortMoves DEF AbortBegin, Quiesce, AbortRead, AbortTurn, AbortSession,
       AbortSave, AbortFails, MovesTo, Went, Left, Entered, Returned, Others, Has,
       arbiter, Tasks, ClaimsHeld, TypeOK, ArbiterTyped, locals
<1>14. ASSUME AppendOther \/ UNCHANGED vars
      PROVE  ClaimsHeld'
    BY <1>14 DEF AppendOther, vars, Others, Has, arbiter, Tasks, ClaimsHeld, TypeOK,
       ArbiterTyped, durable, bindings, provider, locals
<1> QED
    BY <1>1, <1>2, <1>3, <1>4, <1>5, <1>6, <1>7, <1>8, <1>9, <1>10, <1>11, <1>12, <1>13,
       <1>14 DEF Next, SenderStep, SendTurnStep, TerminalizeStep, BridgeStep,
       ProviderAnswers, AborterStep, Tasks

(* A binding is only installed under the transition, so by nobody else than*)
(* the sender that holds it.                                               *)
LEMMA PreparedStep ==
    ASSUME TypeOK, Places, Locked, PreparedBindingGetsPrompt, [Next]_vars
    PROVE  PreparedBindingGetsPrompt'
<1>1. ASSUME NEW p \in Senders, NEW b \in Bindings, AttachNew(p, b)
      PROVE  PreparedBindingGetsPrompt'
    <2>1. lock = p /\ \A q \in Senders \cup Bindings : q # p => pc[q] \notin Sending
        BY <1>1, AttachMoves DEF Locked, Sending
    <2>2. bound' = b /\ pc'[b] = "stream" /\ \A q \in Tasks \ {p, b} : pc'[q] = pc[q]
        BY <1>1, AttachMoves
    <2>3. pc'[p] = "idle" \/ bind'[p] = b
        BY <1>1, AttachMoves DEF Has
    <2> QED
        BY <2>1, <2>2, <2>3 DEF PreparedBindingGetsPrompt, Sending, Tasks
<1>2. ASSUME NEW p \in Senders \cup Bindings, NEW t \in Turns, AppendStarted(p, t)
      PROVE  PreparedBindingGetsPrompt'
    <2>1. p \in Tasks /\ pc[p] = "start" /\ Others(p) /\ bind'[p] = bind[p] /\ bound' = bound
        BY <1>2, SendMoves DEF MovesTo, Has, Tasks, AppendStarted, bindings
    <2> QED
        BY <2>1 DEF Others, PreparedBindingGetsPrompt, Tasks
<1>3. ASSUME NEW p \in Tasks, ClaimTimesOut(p) \/ AcquireToken(p) \/ PersistFails(p) \/
             Cleanup(p)
      PROVE  PreparedBindingGetsPrompt'
    <2>1. Others(p) /\ (Returned(p) \/ Went(p, "lookup"))
        BY <1>3, EndMoves DEF Went, Returned, MovesTo
    <2>2. pc'[p] \notin Sending
        BY <2>1 DEF Went, Returned, MovesTo, Has, Rest, Sending
    <2>3. bound' \in {bound, None}
        BY <1>3 DEF ClaimTimesOut, AcquireToken, PersistFails, Abandon, Cleanup, bindings
    <2> QED
        BY <2>1, <2>2, <2>3 DEF Others, PreparedBindingGetsPrompt, Sending, Tasks
<1>4. ASSUME Restart
      PROVE  PreparedBindingGetsPrompt'
    BY <1>4 DEF Restart, PreparedBindingGetsPrompt
<1>5. ASSUME NEW p \in Senders, AcquireTransition(p) \/ ResumeBegin(p) \/ SelectRefused(p)
             \/ SelectSame(p) \/ SelectSwitch(p) \/ CancelIdle(p) \/ CancelIdleFails(p) \/
             PrepareRead(p)
      PROVE  PreparedBindingGetsPrompt'
    <2>1. CASE AcquireTransition(p) \/ ResumeBegin(p) \/ SelectRefused(p)
        BY <2>1, SelectMoves DEF AcquireTransition, ResumeBegin, SelectRefused, MovesTo,
           Went, Left, Entered, Returned, Others, Has, Rest, PreparedBindingGetsPrompt,
           Places, Selecting, Sending, Ending, Reading, Aborting, Tasks, TypeOK,
           BindingsTyped, bindings, locals
    <2>2. CASE SelectSame(p) \/ SelectSwitch(p)
        BY <2>2, SelectMoves DEF SelectSame, SelectSwitch, MovesTo, Went, Left, Entered,
           Returned, Others, Has, Rest, PreparedBindingGetsPrompt, Places, Selecting,
           Sending, Ending, Reading, Aborting, Tasks, TypeOK, BindingsTyped, bindings,
           locals
    <2>3. CASE CancelIdle(p) \/ CancelIdleFails(p) \/ PrepareRead(p)
        BY <2>3, SelectMoves DEF CancelIdle, CancelIdleFails, PrepareRead, MovesTo, Went,
           Left, Entered, Returned, Others, Has, Rest, PreparedBindingGetsPrompt, Places,
           Selecting, Sending, Ending, Reading, Aborting, Tasks, TypeOK, BindingsTyped,
           bindings, locals
    <2> QED
        BY <1>5, <2>1, <2>2, <2>3
<1>6. ASSUME NEW p \in Senders, PrepareSave(p) \/ AttachBound(p) \/ AttachFails(p) \/
             ResumeAppend(p) \/ ResumeSave(p) \/ ResumeFails(p)
      PROVE  PreparedBindingGetsPrompt'
    <2>1. CASE PrepareSave(p) \/ ResumeAppend(p) \/ ResumeSave(p) \/ ResumeFails(p)
        BY <2>1, SelectMoves DEF PrepareSave, ResumeAppend, ResumeSave, ResumeFails,
           MovesTo, Went, Left, Others, Has, Rest, PreparedBindingGetsPrompt, Sending,
           Tasks, TypeOK, BindingsTyped, bindings
    <2>2. CASE AttachBound(p)
        <3>1. /\ bound' = bound /\ Others(p)
              /\ \/ pc'[p] \notin Sending
                 \/ bind'[p] = bound
            BY <2>2, SelectMoves DEF AttachBound, bindings, MovesTo, Left, Has, Rest,
               Sending
        <3> QED
            BY <3>1 DEF Others, PreparedBindingGetsPrompt, Sending, Tasks
    <2>3. CASE AttachFails(p)
        <3>1. /\ bound' = bound /\ Others(p)
              /\ \/ pc'[p] \notin Sending
                 \/ bind'[p] = None
            BY <2>3, SelectMoves DEF AttachFails, bindings, MovesTo, Left, Has, Rest,
               Sending
        <3> QED
            BY <3>1 DEF Others, PreparedBindingGetsPrompt, Sending, Tasks
    <2> QED
        BY <1>6, <2>1, <2>2, <2>3
<1>7. ASSUME NEW p \in Senders \cup Bindings, ReadRow(p) \/ ReadHistory(p) \/ SaveRow(p)
             \/ SendTurnFails(p) \/ SetActiveTurn(p) \/ SendProviderInput(p) \/
             SendProviderInputFails(p)
      PROVE  PreparedBindingGetsPrompt'
    BY <1>7, SendMoves DEF ReadRow, ReadHistory, SaveRow, SendTurnFails, SetActiveTurn,
       SendProviderInput, SendProviderInputFails, MovesTo, Went, Left, Entered, Returned,
       Others, Has, Rest, PreparedBindingGetsPrompt, Places, Selecting, Sending, Ending,
       Reading, Aborting, Tasks, TypeOK, BindingsTyped, bindings, locals
<1>8. ASSUME NEW p \in Tasks, ClaimCommitted(p) \/ ClaimLead(p) \/ LookupTerminal(p) \/
             PersistTerminal(p)
      PROVE  PreparedBindingGetsPrompt'
    BY <1>8, EndMoves DEF ClaimCommitted, ClaimLead, LookupTerminal, PersistTerminal,
       MovesTo, Went, Left, Entered, Returned, Others, Has, Rest,
       PreparedBindingGetsPrompt, Places, Selecting, Sending, Ending, Reading, Aborting,
       Tasks, TypeOK, BindingsTyped, bindings, locals
<1>9. ASSUME NEW p \in Bindings, EmitCompleted(p) \/ EmitFailed(p) \/ DispatchNext(p) \/
             NothingQueued(p) \/ ProviderCompleted(p) \/ ProviderFailed(p) \/
             StreamEnds(p)
      PROVE  PreparedBindingGetsPrompt'
    BY <1>9, BridgeMoves DEF EmitCompleted, EmitFailed, DispatchNext, NothingQueued,
       ProviderCompleted, ProviderFailed, StreamEnds, MovesTo, Went, Left, Entered,
       Returned, Others, Has, Rest, PreparedBindingGetsPrompt, Places, Selecting, Sending,
       Ending, Reading, Aborting, Tasks, TypeOK, BindingsTyped, bindings, locals
<1>10. ASSUME NEW p \in Aborters, AbortBegin(p) \/ Quiesce(p) \/ AbortRead(p) \/
             AbortTurn(p) \/ AbortSession(p) \/ AbortSave(p) \/ AbortFails(p)
      PROVE  PreparedBindingGetsPrompt'
    BY <1>10, AbortMoves DEF AbortBegin, Quiesce, AbortRead, AbortTurn, AbortSession,
       AbortSave, AbortFails, MovesTo, Went, Left, Entered, Returned, Others, Has, Rest,
       PreparedBindingGetsPrompt, Places, Selecting, Sending, Ending, Reading, Aborting,
       Tasks, TypeOK, BindingsTyped, bindings, locals
<1>11. ASSUME AppendOther \/ UNCHANGED vars
      PROVE  PreparedBindingGetsPrompt'
    BY <1>11 DEF AppendOther, vars, Others, Has, Rest, PreparedBindingGetsPrompt, Places,
       Selecting, Sending, Ending, Reading, Aborting, Tasks, TypeOK, BindingsTyped,
       durable, bindings, arbiter, provider, locals
<1> QED
    BY <1>1, <1>2, <1>3, <1>4, <1>5, <1>6, <1>7, <1>8, <1>9, <1>10, <1>11 DEF Next,
       SenderStep, SendTurnStep, TerminalizeStep, BridgeStep, ProviderAnswers,
       AborterStep, Tasks

(* The first terminal row of a turn stays.                                 *)
TerminalKept == \A t \in Turns : terminal[t] # None => terminal'[t] = terminal[t]

(* append_event keeps a row that is there, and a restart only recovers open*)
(* turns.                                                                  *)
LEMMA TerminalStays ==
    ASSUME TypeOK, [Next]_vars
    PROVE  TerminalKept
<1>1. ASSUME NEW p \in Tasks, PersistTerminal(p)
      PROVE  TerminalKept
    BY <1>1 DEF PersistTerminal, AppendTerminal, TerminalKept, TypeOK, DurableTyped
<1>2. ASSUME NEW p \in Aborters, AbortTurn(p)
      PROVE  TerminalKept
    BY <1>2 DEF AbortTurn, AppendTerminal, TerminalKept, TypeOK, DurableTyped
<1>3. ASSUME Restart
      PROVE  TerminalKept
    BY <1>3 DEF Restart, Recovered, Open, TerminalKept
<1>4. ASSUME NEW p \in Senders, AcquireTransition(p) \/ ResumeBegin(p) \/ SelectRefused(p)
             \/ SelectSame(p) \/ SelectSwitch(p) \/ CancelIdle(p) \/ CancelIdleFails(p) \/
             PrepareRead(p) \/ PrepareSave(p) \/ AttachBound(p) \/ AttachFails(p) \/ (\E b
             \in Bindings : AttachNew(p, b)) \/ ResumeAppend(p) \/ ResumeSave(p) \/
             ResumeFails(p)
      PROVE  TerminalKept
    BY <1>4 DEF AcquireTransition, ResumeBegin, SelectRefused, SelectSame, SelectSwitch,
       CancelIdle, CancelIdleFails, PrepareRead, PrepareSave, AttachBound, AttachFails,
       AttachNew, ResumeAppend, ResumeSave, ResumeFails, durable, TerminalKept
<1>5. ASSUME NEW p \in Senders \cup Bindings, ReadRow(p) \/ ReadHistory(p) \/ (\E t \in
             Turns : AppendStarted(p, t)) \/ SaveRow(p) \/ SendTurnFails(p) \/
             SetActiveTurn(p) \/ SendProviderInput(p) \/ SendProviderInputFails(p)
      PROVE  TerminalKept
    BY <1>5 DEF ReadRow, ReadHistory, AppendStarted, SaveRow, SendTurnFails,
       SetActiveTurn, SendProviderInput, SendProviderInputFails, durable, TerminalKept
<1>6. ASSUME NEW p \in Tasks, ClaimCommitted(p) \/ ClaimLead(p) \/ ClaimTimesOut(p) \/
             AcquireToken(p) \/ LookupTerminal(p) \/ PersistFails(p) \/ Cleanup(p)
      PROVE  TerminalKept
    BY <1>6 DEF ClaimCommitted, ClaimLead, ClaimTimesOut, AcquireToken, LookupTerminal,
       PersistFails, Cleanup, durable, TerminalKept, Abandon
<1>7. ASSUME NEW p \in Bindings, EmitCompleted(p) \/ EmitFailed(p) \/ DispatchNext(p) \/
             NothingQueued(p) \/ ProviderCompleted(p) \/ ProviderFailed(p) \/
             StreamEnds(p)
      PROVE  TerminalKept
    BY <1>7 DEF EmitCompleted, EmitFailed, DispatchNext, NothingQueued, ProviderCompleted,
       ProviderFailed, StreamEnds, durable, TerminalKept
<1>8. ASSUME NEW p \in Aborters, AbortBegin(p) \/ Quiesce(p) \/ AbortRead(p) \/
             AbortSession(p) \/ AbortSave(p) \/ AbortFails(p)
      PROVE  TerminalKept
    BY <1>8 DEF AbortBegin, Quiesce, AbortRead, AbortSession, AbortSave, AbortFails,
       durable, TerminalKept
<1>9. ASSUME AppendOther \/ UNCHANGED vars
      PROVE  TerminalKept
    BY <1>9 DEF AppendOther, vars, durable, TerminalKept
<1> QED
    BY <1>1, <1>2, <1>3, <1>4, <1>5, <1>6, <1>7, <1>8, <1>9 DEF Next, SenderStep,
       SendTurnStep, TerminalizeStep, BridgeStep, ProviderAnswers, AborterStep, Tasks

(* The arbiter commits what the store has.                                 *)
LEMMA CommittedStep ==
    ASSUME TypeOK, Known, TerminalKept, Committed, [Next]_vars
    PROVE  Committed'
<1>1. ASSUME NEW p \in Tasks, ClaimCommitted(p)
      PROVE  Committed'
    <2>1. pc[p] = "claim" /\ tomb[turn[p]] # None /\ turn[p] \in Turns
        BY <1>1 DEF ClaimCommitted, At, Known, Carried, Carrying, Ending, TypeOK,
           LocalsTyped
    <2>2. Others(p) /\ turn'[p] = turn[p] /\ tomb' = tomb
        BY <1>1, EndMoves DEF Went, MovesTo, Has, ClaimCommitted, arbiter
    <2> QED
        BY <2>1, <2>2 DEF Others, Committed, TerminalKept, TypeOK, ArbiterTyped, LocalsTyped
<1>2. ASSUME NEW p \in Tasks, LookupTerminal(p)
      PROVE  Committed'
    <2>1. pc[p] = "lookup" /\ turn[p] \in Turns /\ Others(p) /\ turn'[p] = turn[p]
            /\ terminal' = terminal
        BY <1>2, EndMoves DEF Went, MovesTo, Has, LookupTerminal, At, durable, Known,
           Carried, Carrying, Ending,
           TypeOK, LocalsTyped
    <2>2. CASE terminal[turn[p]] # None /\ CommitOutcome(turn[p], terminal[turn[p]])
        BY <2>1, <2>2 DEF CommitOutcome, Others, Committed, TypeOK, ArbiterTyped,
           LocalsTyped
    <2>3. CASE Goto(p, "append") /\ tomb' = tomb
        BY <2>1, <2>3 DEF Goto, Others, Committed, TypeOK, LocalsTyped
    <2> QED
        BY <1>2, <2>2, <2>3 DEF LookupTerminal, arbiter
<1>3. ASSUME NEW p \in Tasks, PersistTerminal(p)
      PROVE  Committed'
    <2>1. pc[p] = "append" /\ turn[p] \in Turns /\ Others(p) /\ turn'[p] = turn[p]
        BY <1>3, EndMoves DEF MovesTo, Has, PersistTerminal, At, Known, Carried, Carrying,
           Ending,
           TypeOK, LocalsTyped
    <2>2. terminal'[turn[p]] # None
        BY <1>3, <2>1 DEF PersistTerminal, AppendTerminal, KindOf, Kinds, TypeOK,
           DurableTyped
    <2>3. tomb' = [tomb EXCEPT ![turn[p]] = terminal'[turn[p]]]
        BY <1>3 DEF PersistTerminal, CommitOutcome
    <2>4. \A t \in Turns : tomb'[t] # None => tomb'[t] = terminal'[t]
        BY <2>1, <2>3 DEF Committed, TerminalKept, TypeOK, ArbiterTyped
    <2>5. \A q \in Tasks : pc'[q] = "cleanup" => turn'[q] \in Turns /\ terminal'[turn'[q]] # None
        BY <2>1, <2>2 DEF Others, Committed, TerminalKept, TypeOK, LocalsTyped
    <2> QED
        BY <2>4, <2>5 DEF Committed
<1>4. ASSUME NEW p \in Senders \cup Bindings, NEW t \in Turns, AppendStarted(p, t)
      PROVE  Committed'
    <2>1. p \in Tasks /\ Others(p) /\ pc'[p] = "save" /\ tomb' = tomb
        BY <1>4, SendMoves DEF MovesTo, Has, Tasks, AppendStarted, arbiter
    <2> QED
        BY <2>1 DEF Others, Committed, TerminalKept, TypeOK, LocalsTyped
<1>5. ASSUME AppendOther \/ UNCHANGED vars
      PROVE  Committed'
    BY <1>5 DEF AppendOther, vars, locals, arbiter, durable, Committed, TerminalKept,
       TypeOK, ArbiterTyped, DurableTyped, LocalsTyped
<1>6. ASSUME Restart
      PROVE  Committed'
    BY <1>6 DEF Restart, Committed
<1>7. ASSUME NEW p \in Senders, AcquireTransition(p) \/ ResumeBegin(p) \/ SelectRefused(p)
             \/ SelectSame(p) \/ SelectSwitch(p) \/ CancelIdle(p) \/ CancelIdleFails(p) \/
             PrepareRead(p) \/ PrepareSave(p) \/ AttachBound(p) \/ AttachFails(p) \/
             ResumeAppend(p) \/ ResumeSave(p) \/ ResumeFails(p)
      PROVE  Committed'
    <2>1. p \in Tasks /\ Others(p) /\ pc'[p] # "cleanup"
        BY <1>7, SelectMoves DEF MovesTo, Went, Left, Entered, Returned, Has, Rest, Tasks
    <2>2. tomb' = tomb
        BY <1>7 DEF AcquireTransition, ResumeBegin, SelectRefused, SelectSame, SelectSwitch,
           CancelIdle, CancelIdleFails, PrepareRead, PrepareSave, AttachBound, AttachFails,
           ResumeAppend, ResumeSave, ResumeFails, CancelHandle, arbiter
    <2> QED
        BY <2>1, <2>2 DEF Others, Committed, TerminalKept, TypeOK, LocalsTyped
<1>8. ASSUME NEW p \in Senders \cup Bindings, ReadRow(p) \/ ReadHistory(p) \/ SaveRow(p)
             \/ SendTurnFails(p) \/ SetActiveTurn(p) \/ SendProviderInput(p) \/
             SendProviderInputFails(p)
      PROVE  Committed'
    <2>1. p \in Tasks /\ Others(p) /\ pc'[p] # "cleanup"
        BY <1>8, SendMoves DEF MovesTo, Went, Left, Entered, Returned, Has, Rest, Tasks
    <2>2. tomb' = tomb
        BY <1>8 DEF ReadRow, ReadHistory, SaveRow, SendTurnFails, SetActiveTurn,
           SendProviderInput, SendProviderInputFails, arbiter
    <2> QED
        BY <2>1, <2>2 DEF Others, Committed, TerminalKept, TypeOK, LocalsTyped
<1>9. ASSUME NEW p \in Tasks, ClaimLead(p) \/ ClaimTimesOut(p) \/ AcquireToken(p) \/
             PersistFails(p) \/ Cleanup(p)
      PROVE  Committed'
    <2>1. p \in Tasks /\ Others(p) /\ pc'[p] # "cleanup"
        BY <1>9, EndMoves DEF MovesTo, Went, Left, Entered, Returned, Has, Rest, Tasks
    <2>2. tomb' = tomb
        BY <1>9 DEF ClaimLead, ClaimTimesOut, AcquireToken, PersistFails, Cleanup, Abandon,
           arbiter
    <2> QED
        BY <2>1, <2>2 DEF Others, Committed, TerminalKept, TypeOK, LocalsTyped
<1>10. ASSUME NEW p \in Bindings, EmitCompleted(p) \/ EmitFailed(p) \/ DispatchNext(p) \/
             NothingQueued(p) \/ ProviderCompleted(p) \/ ProviderFailed(p) \/
             StreamEnds(p)
      PROVE  Committed'
    <2>1. p \in Tasks /\ Others(p) /\ pc'[p] # "cleanup"
        BY <1>10, BridgeMoves DEF MovesTo, Went, Left, Entered, Returned, Has, Rest, Tasks
    <2>2. tomb' = tomb
        BY <1>10 DEF EmitCompleted, EmitFailed, DispatchNext, NothingQueued,
           ProviderCompleted,
           ProviderFailed, StreamEnds, arbiter
    <2> QED
        BY <2>1, <2>2 DEF Others, Committed, TerminalKept, TypeOK, LocalsTyped
<1>11. ASSUME NEW p \in Aborters, AbortBegin(p) \/ Quiesce(p) \/ AbortRead(p) \/
             AbortTurn(p) \/ AbortSession(p) \/ AbortSave(p) \/ AbortFails(p)
      PROVE  Committed'
    <2>1. p \in Tasks /\ Others(p) /\ pc'[p] # "cleanup"
        BY <1>11, AbortMoves DEF MovesTo, Went, Left, Entered, Returned, Has, Rest, Tasks
    <2>2. tomb' = tomb
        BY <1>11 DEF AbortBegin, Quiesce, AbortRead, AbortTurn, AbortSession, AbortSave,
           AbortFails, arbiter
    <2> QED
        BY <2>1, <2>2 DEF Others, Committed, TerminalKept, TypeOK, LocalsTyped
<1>12. ASSUME NEW p \in Senders, NEW b \in Bindings, AttachNew(p, b)
      PROVE  Committed'
    BY <1>12, AttachMoves DEF AttachNew, Others, Has, Rest, Tasks, arbiter, Committed,
       TerminalKept, TypeOK, ArbiterTyped, DurableTyped, LocalsTyped, locals
<1> QED
    BY <1>1, <1>2, <1>3, <1>4, <1>5, <1>6, <1>7, <1>8, <1>9, <1>10, <1>11, <1>12 DEF Next,
       SenderStep, SendTurnStep, TerminalizeStep, BridgeStep, ProviderAnswers,
       AborterStep, Tasks

(* A token is taken for the turn the binding carries, which then only goes *)
(* away.                                                                   *)
LEMMA TokenOfTurnStep ==
    ASSUME TypeOK, Known, Places, TokensHeld, TokenOfTurn, [Next]_vars
    PROVE  TokenOfTurn'
<1>1. ASSUME NEW p \in Senders, SelectSwitch(p)
      PROVE  TokenOfTurn'
    <2>1. p \in Tasks /\ cur' = cur /\ bound \in Bindings \cup {None}
        BY <1>1 DEF SelectSwitch, Tasks, TypeOK, BindingsTyped
    <2>2. pc[p] = "select" /\ Others(p)
        BY <1>1, SelectMoves DEF Left, Went, Entered, MovesTo
    <2>3. CASE tok' = tok
        BY <2>1, <2>2, <2>3 DEF Others, TokensHeld, TokenOfTurn, TypeOK, BindingsTyped
    <2>4. CASE /\ bound # None /\ cur[bound] = None /\ tok' = [tok EXCEPT ![bound] = p]
        BY <2>1, <2>2, <2>4 DEF Others, TokensHeld, TokenOfTurn, TypeOK, BindingsTyped
    <2> QED
        BY <1>1, <2>3, <2>4, SelectMoves
<1>2. ASSUME NEW p \in Senders, CancelIdle(p) \/ CancelIdleFails(p)
      PROVE  TokenOfTurn'
    <2>1. p \in Tasks /\ pc[p] = "cancelIdle" /\ Others(p) /\ cur' = cur
        BY <1>2, SelectMoves DEF Left, MovesTo, Tasks, CancelIdle, CancelIdleFails
    <2>2. bind[p] \in Bindings
        BY <2>1 DEF Known, Carried, TypeOK, LocalsTyped
    <2>3. tok' = [tok EXCEPT ![bind[p]] = None]
        BY <1>2 DEF CancelIdle, CancelIdleFails
    <2> QED
        BY <2>1, <2>2, <2>3 DEF Others, TokensHeld, TokenOfTurn, TypeOK, BindingsTyped
<1>3. ASSUME NEW p \in Senders \cup Bindings, SetActiveTurn(p)
      PROVE  TokenOfTurn'
    <2>1. p \in Tasks /\ pc[p] = "setActive" /\ Others(p) /\ tok' = tok
        BY <1>3, SendMoves DEF Went, Entered, MovesTo, Tasks, SetActiveTurn
    <2>2. CASE cur' = cur
        BY <2>1, <2>2 DEF Others, TokensHeld, TokenOfTurn, TypeOK, BindingsTyped
    <2>3. CASE tok[bound] = None /\ cur' = [cur EXCEPT ![bound] = turn[p]]
        BY <2>1, <2>3 DEF Others, TokensHeld, TokenOfTurn, TypeOK, BindingsTyped
    <2> QED
        BY <1>3, <2>2, <2>3, SendMoves
<1>4. ASSUME NEW p \in Senders \cup Bindings, NEW t \in Turns, AppendStarted(p, t)
      PROVE  TokenOfTurn'
    <2>1. p \in Tasks /\ pc[p] = "start" /\ Others(p) /\ tok' = tok /\ cur' = cur
        BY <1>4, SendMoves DEF MovesTo, Tasks, AppendStarted, bindings
    <2> QED
        BY <2>1 DEF Others, TokensHeld, TokenOfTurn, TypeOK, BindingsTyped
<1>5. ASSUME NEW p \in Tasks, ClaimCommitted(p) \/ ClaimLead(p) \/ ClaimTimesOut(p)
      PROVE  TokenOfTurn'
    <2>1. pc[p] = "claim" /\ Others(p)
        BY <1>5, EndMoves DEF Went, Returned, MovesTo
    <2>2. tok' = tok /\ cur' = cur
        BY <1>5 DEF ClaimCommitted, ClaimLead, ClaimTimesOut, bindings
    <2> QED
        BY <2>1, <2>2 DEF Others, TokensHeld, TokenOfTurn, TypeOK, BindingsTyped
<1>6. ASSUME NEW p \in Tasks, AcquireToken(p) \/ PersistFails(p)
      PROVE  TokenOfTurn'
    <2>1. pc[p] \in {"token", "lookup", "append"} /\ Others(p) /\ cur' = cur
        BY <1>6, EndMoves DEF Went, Returned, MovesTo, AcquireToken, PersistFails,
           Abandon, bindings
    <2>2. CASE Abandon(p)
        <3>1. tok' = [b \in Bindings |-> IF tok[b] = p THEN None ELSE tok[b]]
            BY <2>2 DEF Abandon
        <3> QED
            BY <2>1, <3>1 DEF Others, TokenOfTurn, TypeOK, BindingsTyped
    <2>3. CASE Went(p, "lookup") /\ tok' = tok
        BY <2>1, <2>3 DEF Went, MovesTo, Has, Others, TokenOfTurn, TypeOK, BindingsTyped
    <2>4. CASE Went(p, "lookup") /\ cur[bind[p]] = turn[p] /\ tok' = [tok EXCEPT ![bind[p]] = p]
        BY <2>1, <2>4 DEF Went, MovesTo, Has, Others, TokenOfTurn, TypeOK, BindingsTyped
    <2> QED
        BY <1>6, <2>2, <2>3, <2>4, EndMoves DEF AcquireToken, PersistFails, bindings,
           TypeOK, LocalsTyped
<1>7. ASSUME NEW p \in Tasks, LookupTerminal(p) \/ PersistTerminal(p)
      PROVE  TokenOfTurn'
    <2>1. Others(p) /\ turn'[p] = turn[p] /\ tok' = tok /\ cur' = cur
        BY <1>7, EndMoves DEF LookupTerminal, PersistTerminal, bindings, Went, MovesTo, Has
    <2> QED
        BY <2>1 DEF Others, TokenOfTurn, TypeOK, BindingsTyped
<1>8. ASSUME NEW p \in Tasks, Cleanup(p)
      PROVE  TokenOfTurn'
    <2>1. Others(p)
        BY <1>8, EndMoves DEF Returned, MovesTo
    <2>2. tok' = [b \in Bindings |-> IF tok[b] = p THEN None ELSE tok[b]]
        BY <1>8 DEF Cleanup
    <2>3. \A b \in Bindings : cur'[b] \in {cur[b], None}
        BY <1>8 DEF Cleanup, TypeOK, BindingsTyped
    <2> QED
        BY <2>1, <2>2, <2>3 DEF Others, TokenOfTurn, TypeOK, BindingsTyped
<1>9. ASSUME NEW p \in Senders, NEW b \in Bindings, AttachNew(p, b)
      PROVE  TokenOfTurn'
    BY <1>9, AttachMoves DEF AttachNew, Tasks, TokensHeld, TokenOfTurn, TypeOK,
       BindingsTyped
<1>10. ASSUME Restart
      PROVE  TokenOfTurn'
    BY <1>10 DEF Restart, TokenOfTurn
<1>11. ASSUME NEW p \in Senders, AcquireTransition(p) \/ ResumeBegin(p) \/
             SelectRefused(p) \/ SelectSame(p) \/ PrepareRead(p) \/ PrepareSave(p) \/
             AttachBound(p) \/ AttachFails(p)
      PROVE  TokenOfTurn'
    BY <1>11, SelectMoves DEF AcquireTransition, ResumeBegin, SelectRefused, SelectSame,
       PrepareRead, PrepareSave, AttachBound, AttachFails, MovesTo, Went, Left, Entered,
       Returned, Others, Tasks, TokensHeld, bindings, TokenOfTurn, TypeOK, BindingsTyped,
       locals
<1>12. ASSUME NEW p \in Senders, ResumeAppend(p) \/ ResumeSave(p) \/ ResumeFails(p)
      PROVE  TokenOfTurn'
    BY <1>12, SelectMoves DEF ResumeAppend, ResumeSave, ResumeFails, MovesTo, Went, Left,
       Entered, Returned, Others, Tasks, TokensHeld, bindings, TokenOfTurn, TypeOK,
       BindingsTyped, locals
<1>13. ASSUME NEW p \in Senders \cup Bindings, ReadRow(p) \/ ReadHistory(p) \/ SaveRow(p)
             \/ SendTurnFails(p) \/ SendProviderInput(p) \/ SendProviderInputFails(p)
      PROVE  TokenOfTurn'
    BY <1>13, SendMoves DEF ReadRow, ReadHistory, SaveRow, SendTurnFails,
       SendProviderInput, SendProviderInputFails, MovesTo, Went, Left, Entered, Returned,
       Others, Tasks, TokensHeld, bindings, TokenOfTurn, TypeOK, BindingsTyped, locals
<1>14. ASSUME NEW p \in Bindings, EmitCompleted(p) \/ EmitFailed(p) \/ DispatchNext(p) \/
             NothingQueued(p) \/ ProviderCompleted(p) \/ ProviderFailed(p) \/
             StreamEnds(p)
      PROVE  TokenOfTurn'
    BY <1>14, BridgeMoves DEF EmitCompleted, EmitFailed, DispatchNext, NothingQueued,
       ProviderCompleted, ProviderFailed, StreamEnds, MovesTo, Went, Left, Entered,
       Returned, Others, Tasks, TokensHeld, bindings, TokenOfTurn, TypeOK, BindingsTyped,
       locals
<1>15. ASSUME NEW p \in Aborters, AbortBegin(p) \/ Quiesce(p) \/ AbortRead(p) \/
             AbortTurn(p) \/ AbortSession(p) \/ AbortSave(p) \/ AbortFails(p)
      PROVE  TokenOfTurn'
    BY <1>15, AbortMoves DEF AbortBegin, Quiesce, AbortRead, AbortTurn, AbortSession,
       AbortSave, AbortFails, MovesTo, Went, Left, Entered, Returned, Others, Tasks,
       TokensHeld, bindings, TokenOfTurn, TypeOK, BindingsTyped, locals
<1>16. ASSUME AppendOther \/ UNCHANGED vars
      PROVE  TokenOfTurn'
    BY <1>16 DEF AppendOther, vars, Others, Tasks, TokensHeld, bindings, TokenOfTurn,
       TypeOK, BindingsTyped, durable, arbiter, provider, locals
<1> QED
    BY <1>1, <1>2, <1>3, <1>4, <1>5, <1>6, <1>7, <1>8, <1>9, <1>10, <1>11, <1>12, <1>13,
       <1>14, <1>15, <1>16 DEF Next, SenderStep, SendTurnStep, TerminalizeStep,
       BridgeStep, ProviderAnswers, AborterStep, Tasks

LEMMA InitInv == Init => IInv
<1> SUFFICES ASSUME Init
             PROVE  IInv
    OBVIOUS
<1>1. <<>> \in Seq(Turns) /\ <<>> \in Seq({})
    OBVIOUS
<1>2. TypeOK
    BY <1>1 DEF Init, Projection, TypeOK, DurableTyped, BindingsTyped, ArbiterTyped,
       ProviderTyped,
       LocalsTyped, Positions, Tasks
<1>3. Places
    BY DEF Init, Places, Tasks
<1>4. Known
    BY <1>1 DEF Init, Projection, Known, KnownTurns, Carried, Carrying, Reading, Ending
<1>5. Locked /\ TokensHeld /\ ClaimsHeld
    BY DEF Init, Locked, Sending, TokensHeld, ClaimsHeld, Tasks
<1>6. PreparedBindingGetsPrompt /\ Committed /\ TokenOfTurn
    BY DEF Init, PreparedBindingGetsPrompt, Committed, TokenOfTurn, Tasks
<1> QED
    BY <1>2, <1>3, <1>4, <1>5, <1>6 DEF IInv

LEMMA StepInv == IInv /\ [Next]_vars => IInv'
<1> SUFFICES ASSUME IInv, [Next]_vars
             PROVE  IInv'
    OBVIOUS
<1> TypeOK /\ Places /\ Known /\ Locked /\ TokensHeld /\ ClaimsHeld
    BY DEF IInv
<1>1. TypeOK'
    BY DurableTypedStep, BindingsTypedStep, ArbiterTypedStep, ProviderTypedStep,
       LocalsTypedStep DEF TypeOK
<1>2. Places' /\ Known'
    BY PlacesStep, KnownTurnsStep, CarriedStep DEF Known
<1>3. Locked' /\ TokensHeld' /\ ClaimsHeld'
    BY LockedStep, TokensHeldStep, ClaimsHeldStep
<1>4. PreparedBindingGetsPrompt'
    BY PreparedStep DEF IInv
<1>5. Committed'
    BY TerminalStays, CommittedStep DEF IInv
<1>6. TokenOfTurn'
    BY TokenOfTurnStep DEF IInv
<1> QED
    BY <1>1, <1>2, <1>3, <1>4, <1>5, <1>6 DEF IInv

(* The invariant holds of every session, with any number of concurrent     *)
(* senders, bridges and aborters, restarts and refused writes.             *)
THEOREM LifecycleInvariance == Spec => []IInv
<1>1. Init => IInv
    BY InitInv
<1>2. IInv /\ [Next]_vars => IInv'
    BY StepInv
<1> QED
    BY <1>1, <1>2, PTL DEF Spec

(* Every variable has its type; the turn of a result, a claim or a prompt  *)
(* is a turn the session started.                                          *)
THEOREM LifecycleTypeCorrect == Spec => []TypeOK
<1>1. IInv => TypeOK
    BY DEF IInv
<1> QED
    BY <1>1, LifecycleInvariance, PTL

(* No error path of terminalize_turn_with_binding, of the cancellation of  *)
(* an idle binding or of a send keeps a claim, a terminal token or the     *)
(* provider transition: whoever is on record is still on its way to        *)
(* release it.                                                             *)
THEOREM NoGuardLeaks == Spec => []NoLeakedGuards
<1>1. IInv => NoLeakedGuards
    BY DEF IInv, Locked, TokensHeld, ClaimsHeld, NoLeakedGuards, Selecting, Sending, Ending
<1> QED
    BY <1>1, LifecycleInvariance, PTL

(* From the attach to the provider input the session is bound to the       *)
(* binding this send prepared, or to none: no concurrent selection, resume *)
(* or dispatch gets its own in between.                                    *)
THEOREM PromptGoesToPreparedBinding == Spec => []PreparedBindingGetsPrompt
<1>1. IInv => PreparedBindingGetsPrompt
    BY DEF IInv
<1> QED
    BY <1>1, LifecycleInvariance, PTL

Pinned == \A b \in Bindings : tok[b] # None => cur'[b] \in {cur[b], None}

(* Only set_active_turn puts a turn on a binding.                          *)
LEMMA TokenPinned ==
    ASSUME TypeOK, [Next]_vars
    PROVE  Pinned
<1>1. ASSUME NEW p \in Senders \cup Bindings, SetActiveTurn(p)
      PROVE  Pinned
    BY <1>1 DEF SetActiveTurn, TypeOK, BindingsTyped, Pinned
<1>2. ASSUME NEW p \in Tasks, Cleanup(p)
      PROVE  Pinned
    BY <1>2 DEF Cleanup, TypeOK, BindingsTyped, Pinned
<1>3. ASSUME Restart
      PROVE  Pinned
    BY <1>3 DEF Restart, Pinned
<1>4. ASSUME NEW p \in Senders, AcquireTransition(p) \/ ResumeBegin(p) \/ SelectRefused(p)
             \/ SelectSame(p) \/ SelectSwitch(p) \/ CancelIdle(p) \/ CancelIdleFails(p) \/
             PrepareRead(p) \/ PrepareSave(p) \/ AttachBound(p) \/ AttachFails(p) \/ (\E b
             \in Bindings : AttachNew(p, b)) \/ ResumeAppend(p) \/ ResumeSave(p) \/
             ResumeFails(p)
      PROVE  Pinned
    BY <1>4 DEF AcquireTransition, ResumeBegin, SelectRefused, SelectSame, SelectSwitch,
       CancelIdle, CancelIdleFails, PrepareRead, PrepareSave, AttachBound, AttachFails,
       AttachNew, ResumeAppend, ResumeSave, ResumeFails, bindings, Pinned
<1>5. ASSUME NEW p \in Senders \cup Bindings, ReadRow(p) \/ ReadHistory(p) \/ (\E t \in
             Turns : AppendStarted(p, t)) \/ SaveRow(p) \/ SendTurnFails(p) \/
             SendProviderInput(p) \/ SendProviderInputFails(p)
      PROVE  Pinned
    BY <1>5 DEF ReadRow, ReadHistory, AppendStarted, SaveRow, SendTurnFails,
       SendProviderInput, SendProviderInputFails, bindings, Pinned
<1>6. ASSUME NEW p \in Tasks, ClaimCommitted(p) \/ ClaimLead(p) \/ ClaimTimesOut(p) \/
             AcquireToken(p) \/ LookupTerminal(p) \/ PersistTerminal(p) \/ PersistFails(p)
      PROVE  Pinned
    BY <1>6 DEF ClaimCommitted, ClaimLead, ClaimTimesOut, AcquireToken, LookupTerminal,
       PersistTerminal, PersistFails, bindings, Pinned, Abandon
<1>7. ASSUME NEW p \in Bindings, EmitCompleted(p) \/ EmitFailed(p) \/ DispatchNext(p) \/
             NothingQueued(p) \/ ProviderCompleted(p) \/ ProviderFailed(p) \/
             StreamEnds(p)
      PROVE  Pinned
    BY <1>7 DEF EmitCompleted, EmitFailed, DispatchNext, NothingQueued, ProviderCompleted,
       ProviderFailed, StreamEnds, bindings, Pinned
<1>8. ASSUME NEW p \in Aborters, AbortBegin(p) \/ Quiesce(p) \/ AbortRead(p) \/
             AbortTurn(p) \/ AbortSession(p) \/ AbortSave(p) \/ AbortFails(p)
      PROVE  Pinned
    BY <1>8 DEF AbortBegin, Quiesce, AbortRead, AbortTurn, AbortSession, AbortSave,
       AbortFails, bindings, Pinned
<1>9. ASSUME AppendOther \/ UNCHANGED vars
      PROVE  Pinned
    BY <1>9 DEF AppendOther, vars, bindings, Pinned
<1> QED
    BY <1>1, <1>2, <1>3, <1>4, <1>5, <1>6, <1>7, <1>8, <1>9 DEF Next, SenderStep,
       SendTurnStep, TerminalizeStep, BridgeStep, ProviderAnswers, AborterStep, Tasks

(* While the terminal token of a binding is out set_active_turn refuses:   *)
(* no step replaces the turn the binding carries by another one.           *)
THEOREM TokensPinTurns == Spec => TokenPinsTurn
<1>1. IInv /\ [Next]_vars => [\A b \in Bindings : tok[b] # None => cur'[b] \in {cur[b], None}]_vars
    BY TokenPinned DEF IInv, Pinned
<1> QED
    BY <1>1, LifecycleInvariance, PTL DEF Spec, TokenPinsTurn

(* A terminal row is never rewritten, whoever ends the turn a second time, *)
(* and whatever a restart recovers.                                        *)
THEOREM FirstTerminalRowStays == Spec => [][TerminalKept]_vars
<1>1. IInv /\ [Next]_vars => [TerminalKept]_vars
    BY TerminalStays DEF IInv
<1> QED
    BY <1>1, LifecycleInvariance, PTL DEF Spec

-----------------------------------------------------------------------------
(* A session nobody aborts.  A calm step moves its task and leaves alone   *)
(* which turns are open, what the bindings carry and what is to be         *)
(* answered.                                                               *)
Calm ==
    /\ Open' = Open /\ terminal' = terminal /\ started' = started /\ proj'.turn = proj.turn
    /\ row' \in {row, "Active"}
    /\ bound' = bound /\ cur' = cur /\ work' = work /\ done' = done

(* A sender before run_send_turn only attaches or cancels an idle binding. *)
LEMMA SelectCalm ==
    ASSUME TypeOK, NEW p \in Senders,
           AcquireTransition(p) \/ ResumeBegin(p) \/ SelectRefused(p) \/ SelectSame(p) \/
           SelectSwitch(p) \/ CancelIdleFails(p) \/ PrepareRead(p) \/ PrepareSave(p) \/
           AttachBound(p) \/ AttachFails(p) \/ ResumeAppend(p) \/ ResumeSave(p) \/
           ResumeFails(p)
    PROVE  Calm
BY DEF AcquireTransition, ResumeBegin, SelectRefused, SelectSame, SelectSwitch,
   CancelIdleFails, PrepareRead, PrepareSave, AttachBound, AttachFails, ResumeAppend,
   ResumeSave, ResumeFails, OnSessionResumed, Projection, Calm, Open, durable, bindings,
   provider

(* Reads and refusals of run_send_turn.                                    *)
LEMMA SendCalm ==
    ASSUME TypeOK, NEW p \in Senders \cup Bindings,
           ReadRow(p) \/ ReadHistory(p) \/ SaveRow(p) \/ SendTurnFails(p) \/
           SendProviderInputFails(p)
    PROVE  Calm
BY DEF ReadRow, ReadHistory, SaveRow, SendTurnFails, SendProviderInputFails, Calm, Open,
   durable, bindings, provider

(* A claim and its ways to fail.                                           *)
LEMMA EndCalm ==
    ASSUME TypeOK, NEW p \in Tasks,
           ClaimCommitted(p) \/ ClaimLead(p) \/ ClaimTimesOut(p) \/ AcquireToken(p) \/
           PersistFails(p)
    PROVE  Calm
BY DEF ClaimCommitted, ClaimLead, ClaimTimesOut, AcquireToken, PersistFails, Abandon,
   Calm, Open, durable, bindings, provider

(* A bridge between the stream and the end of the turn.                    *)
LEMMA BridgeCalm ==
    ASSUME TypeOK, NEW p \in Bindings,
           EmitCompleted(p) \/ EmitFailed(p) \/ DispatchNext(p) \/ NothingQueued(p)
    PROVE  Calm
BY DEF EmitCompleted, EmitFailed, DispatchNext, NothingQueued, Calm, Open, durable,
   bindings, provider

LEMMA OtherCalm ==
    ASSUME TypeOK, AppendOther \/ UNCHANGED vars
    PROVE  Calm /\ UNCHANGED <<pc, turn, bind, src>>
BY DEF AppendOther, Projection, Calm, Open, vars, durable, bindings, provider, locals

(* The other steps, one by one.                                            *)
Durably ==
    /\ Open' = Open /\ terminal' = terminal /\ started' = started /\ proj'.turn = proj.turn
    /\ row' \in {row, "Active"}

LEMMA CancelIdleDoes ==
    ASSUME TypeOK, Known, NEW p \in Senders, CancelIdle(p)
    PROVE  /\ p \in Tasks /\ Others(p) /\ pc[p] = "cancelIdle"
             /\ Has(p, "prepare", turn[p], None, src[p])
           /\ Durably /\ cur' = cur /\ done' = done /\ bound' \in {bound, None}
           /\ \A c \in Bindings : work'[c] \in {work[c], <<>>}
<1>1. p \in Tasks /\ Others(p) /\ pc[p] = "cancelIdle"
        /\ Has(p, "prepare", turn[p], None, src[p])
    BY SelectMoves DEF MovesTo, Tasks
<1>2. bind[p] \in Bindings
    BY <1>1 DEF Known, Carried, TypeOK, LocalsTyped
<1> QED
    BY <1>1, <1>2, Cancels DEF CancelIdle, Durably, Open, durable

LEMMA AttachNewDoes ==
    ASSUME TypeOK, NEW p \in Senders, NEW b \in Bindings, AttachNew(p, b)
    PROVE  Durably /\ cur' = cur /\ done' = done /\ work' = work
BY DEF AttachNew, Durably, Open, durable, provider

LEMMA AppendStartedDoes ==
    ASSUME TypeOK, EndedStarted, NEW p \in Senders \cup Bindings, NEW t \in Turns, AppendStarted(p, t)
    PROVE  /\ p \in Tasks /\ Others(p) /\ pc[p] = "start" /\ Has(p, "save", t, bind[p], src[p])
           /\ Open' = Open \cup {t} /\ terminal' = terminal /\ started' = started \cup {t}
                /\ t \notin started
           /\ proj'.turn = t /\ row' = row
           /\ bound' = bound /\ cur' = cur /\ work' = work /\ done' = done
<1>1. p \in Tasks /\ Others(p) /\ pc[p] = "start" /\ Has(p, "save", t, bind[p], src[p])
    BY SendMoves DEF MovesTo, Tasks
<1>2. terminal[t] = None
    BY DEF EndedStarted, AppendStarted
<1> QED
    BY <1>1, <1>2 DEF AppendStarted, OnTurnStarted, Projection, Open, bindings, provider

LEMMA SetActiveTurnDoes ==
    ASSUME TypeOK, NEW p \in Senders \cup Bindings, SetActiveTurn(p)
    PROVE  /\ p \in Tasks /\ Others(p) /\ pc[p] = "setActive"
           /\ Durably /\ bound' = bound /\ work' = work /\ done' = done
           /\ \/ Has(p, "claim", turn[p], None, "Unbound") /\ cur' = cur
              \/ /\ bound # None /\ Has(p, "send", turn[p], bind[p], src[p])
                 /\ cur'[bound] = turn[p] /\ \A c \in Bindings \ {bound} : cur'[c] = cur[c]
<1>1. p \in Tasks /\ Others(p) /\ pc[p] = "setActive"
    BY SendMoves DEF MovesTo, Went, Entered, Tasks
<1>2. Durably /\ bound' = bound /\ work' = work /\ done' = done
    BY DEF SetActiveTurn, Durably, Open, durable, provider
<1>3. \/ Has(p, "claim", turn[p], None, "Unbound") /\ cur' = cur
      \/ bound # None /\ Has(p, "send", turn[p], bind[p], src[p]) /\ cur' = [cur EXCEPT ![bound] = turn[p]]
    BY SendMoves DEF MovesTo, Went, Entered
<1> QED
    BY <1>1, <1>2, <1>3 DEF TypeOK, BindingsTyped

LEMMA SendProviderInputDoes ==
    ASSUME TypeOK, Known, NEW p \in Senders \cup Bindings, SendProviderInput(p)
    PROVE  /\ p \in Tasks /\ Others(p) /\ pc[p] = "send" /\ Has(p, Rest(p), None, None, None)
           /\ turn[p] \in Turns /\ bound \in Bindings
           /\ Durably /\ bound' = bound /\ cur' = cur /\ done' = done
           /\ work'[bound] = Append(work[bound], turn[p])
           /\ \A c \in Bindings \ {bound} : work'[c] = work[c]
<1>1. p \in Tasks /\ Others(p) /\ pc[p] = "send" /\ Has(p, Rest(p), None, None, None)
    BY SendMoves DEF MovesTo, Left, Tasks
<1>2. turn[p] \in Turns
    BY <1>1 DEF Known, Carried, Carrying, TypeOK, LocalsTyped
<1>3. bound \in Bindings /\ Durably /\ bound' = bound /\ cur' = cur /\ done' = done
    BY DEF SendProviderInput, Durably, Open, durable, bindings, TypeOK, BindingsTyped
<1>4. work' = [work EXCEPT ![bound] = Append(work[bound], turn[p])]
    BY DEF SendProviderInput
<1> QED
    BY <1>1, <1>2, <1>3, <1>4 DEF TypeOK, ProviderTyped

LEMMA LookupTerminalDoes ==
    ASSUME TypeOK, Known, NEW p \in Tasks, LookupTerminal(p)
    PROVE  /\ Others(p) /\ pc[p] = "lookup"
           /\ Has(p, "cleanup", turn[p], bind[p], src[p]) \/ Has(p, "append", turn[p], bind[p], src[p])
           /\ Durably /\ bound' = bound /\ cur' = cur /\ done' = done
           /\ \A c \in Bindings : work'[c] \in {work[c], <<>>}
           /\ src[p] \notin {"Quiesce", "Cancel"} => work' = work
<1>1. /\ Others(p) /\ pc[p] = "lookup"
      /\ Has(p, "cleanup", turn[p], bind[p], src[p]) \/ Has(p, "append", turn[p], bind[p], src[p])
    BY EndMoves DEF Went, MovesTo
<1>2. Durably /\ bound' = bound /\ cur' = cur
    BY DEF LookupTerminal, Durably, Open, durable, bindings
<1>3. CASE UNCHANGED provider
    BY <1>1, <1>2, <1>3 DEF provider
<1>4. CASE src[p] \in {"Quiesce", "Cancel"} /\ bind[p] # None /\ CancelHandle(bind[p])
    <2>1. bind[p] \in Bindings
        BY <1>4 DEF TypeOK, LocalsTyped
    <2> QED
        BY <1>1, <1>2, <1>4, <2>1, Cancels
<1> QED
    BY <1>3, <1>4 DEF LookupTerminal

LEMMA PersistTerminalDoes ==
    ASSUME TypeOK, Known, NEW p \in Tasks, PersistTerminal(p)
    PROVE  /\ Others(p) /\ pc[p] = "append" /\ Has(p, "cleanup", turn[p], bind[p], src[p])
           /\ turn[p] \in started /\ Open' = Open \ {turn[p]} /\ started' = started
                /\ row' = row
           /\ proj'.turn # proj.turn => proj.turn = turn[p] /\ proj'.turn = None
           /\ turn[p] \in Open /\ proj.turn = turn[p] => proj'.turn = None
           /\ \A t \in Turns : terminal'[t] # terminal[t] => t = turn[p] /\ terminal'[t] = KindOf(src[p])
           /\ bound' = bound /\ cur' = cur /\ work' = work /\ done' = done
<1>1. Others(p) /\ pc[p] = "append" /\ Has(p, "cleanup", turn[p], bind[p], src[p])
    BY EndMoves DEF MovesTo
<1>2. turn[p] \in started /\ turn[p] \in Turns
    BY <1>1 DEF Known, Carried, Carrying, Ending, TypeOK, DurableTyped
<1>3. KindOf(src[p]) # None
    BY DEF KindOf, Kinds
<1>4. started' = started /\ row' = row /\ bound' = bound /\ cur' = cur /\ work' = work
        /\ done' = done
    BY DEF PersistTerminal, bindings, provider
<1>5. CASE terminal[turn[p]] # None
    <2>1. terminal' = terminal /\ proj' = proj
        BY <1>5 DEF PersistTerminal, AppendTerminal
    <2> QED
        BY <1>1, <1>2, <1>4, <1>5, <2>1 DEF Open
<1>6. CASE terminal[turn[p]] = None
    <2>1. terminal' = [terminal EXCEPT ![turn[p]] = KindOf(src[p])]
        BY <1>6 DEF PersistTerminal, AppendTerminal
    <2>2. proj'.turn = IF proj.turn = turn[p] THEN None ELSE proj.turn
        BY <1>6 DEF PersistTerminal, AppendTerminal, OnTerminal, Projection
    <2>3. Open' = Open \ {turn[p]}
        BY <1>2, <1>3, <1>4, <2>1 DEF Open, TypeOK, DurableTyped
    <2> QED
        BY <1>1, <1>2, <1>4, <2>1, <2>2, <2>3 DEF TypeOK, DurableTyped
<1> QED
    BY <1>5, <1>6

LEMMA CleanupDoes ==
    ASSUME TypeOK, Committed, NEW p \in Tasks, Cleanup(p)
    PROVE  /\ Others(p) /\ pc[p] = "cleanup" /\ turn[p] \notin Open
           /\ turn'[p] = None /\ bind'[p] = None /\ src'[p] = None
           /\ \/ pc'[p] = Rest(p)
              \/ p \in Senders /\ src[p] = "Cancel" /\ pc'[p] = "prepare"
              \/ p \in Bindings /\ pc'[p] = "dispatch"
              \/ p \in Aborters /\ pc'[p] = "abortRead"
           /\ Durably /\ work' = work /\ done' = done /\ bound' \in {bound, None}
           /\ \/ cur' = cur /\ bound' = bound
              \/ /\ bound # None /\ cur[bound] = turn[p] /\ cur'[bound] \in {cur[bound], None}
                 /\ \A c \in Bindings \ {bound} : cur'[c] = cur[c]
<1>1. /\ Others(p) /\ pc[p] = "cleanup"
      /\ turn'[p] = None /\ bind'[p] = None /\ src'[p] = None
      /\ \/ pc'[p] = Rest(p)
         \/ p \in Senders /\ src[p] = "Cancel" /\ pc'[p] = "prepare"
         \/ p \in Bindings /\ pc'[p] = "dispatch"
         \/ p \in Aborters /\ pc'[p] = "abortRead"
    BY EndMoves DEF Returned, MovesTo, Has
<1>2. turn[p] \notin Open
    BY <1>1 DEF Committed, Open
<1>3. Durably /\ work' = work /\ done' = done /\ bound' \in {bound, None}
    BY DEF Cleanup, Durably, Open, durable, provider
<1>4. \/ cur' = cur /\ bound' = bound
      \/ /\ bound # None /\ cur[bound] = turn[p] /\ cur'[bound] \in {cur[bound], None}
         /\ \A c \in Bindings \ {bound} : cur'[c] = cur[c]
    BY DEF Cleanup, TypeOK, BindingsTyped
<1> QED
    BY <1>1, <1>2, <1>3, <1>4

LEMMA ProviderAnswersDoes ==
    ASSUME TypeOK, Known, AnswerDue, NEW p \in Bindings, ProviderCompleted(p) \/ ProviderFailed(p)
    PROVE  /\ p \in Tasks /\ Others(p) /\ pc[p] = "stream" /\ turn'[p] = cur[p]
             /\ cur[p] \in Open
           /\ pc'[p] \in Reading /\ bind'[p] = bind[p] /\ src'[p] = src[p] /\ bound = p
           /\ Durably /\ bound' = bound /\ cur' = cur /\ done \subseteq done'
           /\ \A c \in Bindings : work'[c] = <<>>
           /\ pc'[p] = "completed" => cur[p] \in done'
<1>1. work[p] = <<cur[p]>> /\ work[p] # <<>> /\ cur[p] \in Open /\ bound = p
    BY DEF ProviderCompleted, ProviderFailed, AnswerDue
<1>2. cur[p] # None
    BY <1>1 DEF Open, TypeOK, DurableTyped
<1>3. Head(work[p]) = cur[p] /\ Tail(work[p]) = <<>>
    BY <1>1
<1>4. p \in Tasks /\ Others(p) /\ pc[p] = "stream" /\ turn'[p] = cur[p]
        /\ bind'[p] = bind[p] /\ src'[p] = src[p]
    BY BridgeMoves DEF MovesTo, Has, Tasks
<1>5. pc'[p] \in Reading /\ (pc'[p] = "completed" => ProviderCompleted(p))
    BY <1>2, BridgeMoves DEF MovesTo, Has, Reading
<1>6. Durably /\ bound' = bound /\ cur' = cur
    BY DEF ProviderCompleted, ProviderFailed, Durably, Open, durable, bindings
<1>7. done \subseteq done' /\ (ProviderCompleted(p) => cur[p] \in done')
    BY <1>3 DEF ProviderCompleted, ProviderFailed
<1>8. \A c \in Bindings : work'[c] = <<>>
    <2>1. \A c \in Bindings \ {p} : work[c] = <<>>
        BY <1>1 DEF AnswerDue
    <2>2. work' = [work EXCEPT ![p] = <<>>]
        BY <1>3 DEF ProviderCompleted, ProviderFailed
    <2> QED
        BY <2>1, <2>2 DEF TypeOK, ProviderTyped
<1> QED
    BY <1>1, <1>4, <1>5, <1>6, <1>7, <1>8

LEMMA StreamEndsDoes ==
    ASSUME TypeOK, NEW p \in Bindings, StreamEnds(p)
    PROVE  /\ p \in Tasks /\ Others(p) /\ pc[p] = "stream"
             /\ Has(p, "ended", turn[p], bind[p], src[p])
           /\ Durably /\ cur' = cur /\ done' = done /\ work' = work /\ work[p] = <<>>
           /\ bound' = IF bound = p /\ cur[p] = None THEN None ELSE bound
<1>1. p \in Tasks /\ Others(p) /\ pc[p] = "stream" /\ Has(p, "ended", turn[p], bind[p], src[p])
    BY BridgeMoves DEF MovesTo, Went, Tasks
<1> QED
    BY <1>1 DEF StreamEnds, Durably, Open, durable

LEMMA RestartDoes ==
    ASSUME TypeOK, OpenIsActive, Restart
    PROVE  /\ Open' = {} /\ started' = started /\ row' = row /\ done' = done /\ bound' = None
           /\ \A t \in Turns : terminal'[t] # terminal[t] => t \in started /\ terminal'[t] = "aborted"
           /\ \A b \in Bindings : work'[b] = <<>> /\ cur'[b] = None
           /\ \A p \in Tasks : pc'[p] \in {"idle", "off", "ended"} /\ turn'[p] = None /\ src'[p] = None
<1>1. Recovered = Open
    BY DEF Recovered, OpenIsActive
<1>2. Open' = {} /\ \A t \in Turns : terminal'[t] # terminal[t] => t \in started /\ terminal'[t] = "aborted"
    BY <1>1 DEF Restart, Open, Kinds, TypeOK, DurableTyped
<1> QED
    BY <1>2 DEF Restart

LEMMA NoneOpen ==
    ASSUME TypeOK, OpenIsActive, proj.turn = None
    PROVE  Open = {}
BY DEF OpenIsActive, Open, TypeOK, DurableTyped

(* A source is kept until the end of the turn it asked for.                *)
LEMMA AskedStep ==
    ASSUME Aborters = {}, TypeOK, Known, Places, Locked, Committed, Asked, EndedStarted,
           OpenIsActive, SoleOwner, SentOpen, AnswerDue, ReadOpen, EndingBound, Evidence,
           [Next]_vars
    PROVE  Asked'
<1>1. ASSUME NEW p \in Senders, CancelIdle(p)
      PROVE  Asked'
    BY <1>1, CancelIdleDoes DEF Has, Others, Durably, Rest, Asked, Ending, Reading, Tasks,
       Sources
<1>2. ASSUME NEW p \in Senders, NEW b \in Bindings, AttachNew(p, b)
      PROVE  Asked'
    BY <1>2, AttachMoves, AttachNewDoes DEF Has, Durably, Asked, Ending, Reading, Tasks,
       Sources
<1>3. ASSUME NEW p \in Senders \cup Bindings, NEW t \in Turns, AppendStarted(p, t)
      PROVE  Asked'
    BY <1>3, AppendStartedDoes DEF Has, Others, Durably, Rest, Asked, Ending, Reading,
       Tasks, Sources
<1>4. ASSUME NEW p \in Senders \cup Bindings, SetActiveTurn(p)
      PROVE  Asked'
    BY <1>4, SetActiveTurnDoes DEF Has, Others, Durably, Rest, Asked, Ending, Reading,
       Tasks, Sources
<1>5. ASSUME NEW p \in Senders \cup Bindings, SendProviderInput(p)
      PROVE  Asked'
    BY <1>5, SendProviderInputDoes DEF Has, Others, Durably, Rest, Asked, Ending, Reading,
       Tasks, Sources
<1>6. ASSUME NEW p \in Tasks, LookupTerminal(p)
      PROVE  Asked'
    BY <1>6, LookupTerminalDoes DEF Has, Others, Durably, Rest, Asked, Ending, Reading,
       Tasks, Sources
<1>7. ASSUME NEW p \in Tasks, PersistTerminal(p)
      PROVE  Asked'
    BY <1>7, PersistTerminalDoes DEF Has, Others, Durably, Rest, Asked, Ending, Reading,
       Tasks, Sources
<1>8. ASSUME NEW p \in Tasks, Cleanup(p)
      PROVE  Asked'
    BY <1>8, CleanupDoes DEF Has, Others, Durably, Rest, Asked, Ending, Reading, Tasks,
       Sources
<1>9. ASSUME NEW p \in Bindings, ProviderCompleted(p) \/ ProviderFailed(p)
      PROVE  Asked'
    BY <1>9, ProviderAnswersDoes DEF Has, Others, Durably, Rest, Asked, Ending, Reading,
       Tasks, Sources
<1>10. ASSUME NEW p \in Bindings, StreamEnds(p)
      PROVE  Asked'
    BY <1>10, StreamEndsDoes DEF Has, Others, Durably, Rest, Asked, Ending, Reading,
       Tasks, Sources
<1>11. ASSUME Restart
      PROVE  Asked'
    BY <1>11, RestartDoes DEF Asked, Ending, Reading, Tasks, Sources
<1>12. ASSUME NEW p \in Senders, AcquireTransition(p) \/ ResumeBegin(p) \/
             SelectRefused(p) \/ SelectSame(p) \/ SelectSwitch(p) \/ CancelIdleFails(p) \/
             PrepareRead(p) \/ PrepareSave(p) \/ AttachBound(p) \/ AttachFails(p) \/
             ResumeAppend(p) \/ ResumeSave(p) \/ ResumeFails(p)
      PROVE  Asked'
    <2>1. p \in Tasks /\ Others(p)
        BY <1>12, SelectMoves DEF MovesTo, Went, Left, Entered, Returned, Tasks
    <2>2. /\ src'[p] \in {"Completed", "ProviderFailed", "Cancel"} => pc'[p] \in Ending
          /\ src'[p] = "Cancel" => p \in Senders
        BY <1>12, <2>1, SelectMoves DEF MovesTo, Went, Left, Entered, Returned, Has, Rest,
           Asked, Ending, Sources
    <2>3. Calm
        BY <1>12, SelectCalm
    <2> QED
        BY <2>1, <2>2, <2>3 DEF Calm, Others, Asked
<1>13. ASSUME NEW p \in Senders \cup Bindings, ReadRow(p) \/ ReadHistory(p) \/ SaveRow(p)
             \/ SendTurnFails(p) \/ SendProviderInputFails(p)
      PROVE  Asked'
    <2>1. p \in Tasks /\ Others(p)
        BY <1>13, SendMoves DEF MovesTo, Went, Left, Entered, Returned, Tasks
    <2>2. /\ src'[p] \in {"Completed", "ProviderFailed", "Cancel"} => pc'[p] \in Ending
          /\ src'[p] = "Cancel" => p \in Senders
        BY <1>13, <2>1, SendMoves DEF MovesTo, Went, Left, Entered, Returned, Has, Rest,
           Asked, Ending, Sources
    <2>3. Calm
        BY <1>13, SendCalm
    <2> QED
        BY <2>1, <2>2, <2>3 DEF Calm, Others, Asked
<1>14. ASSUME NEW p \in Tasks, ClaimCommitted(p) \/ ClaimLead(p) \/ ClaimTimesOut(p) \/
             AcquireToken(p) \/ PersistFails(p)
      PROVE  Asked'
    <2>1. p \in Tasks /\ Others(p)
        BY <1>14, EndMoves DEF MovesTo, Went, Left, Entered, Returned, Tasks
    <2>2. /\ src'[p] \in {"Completed", "ProviderFailed", "Cancel"} => pc'[p] \in Ending
          /\ src'[p] = "Cancel" => p \in Senders
        BY <1>14, <2>1, EndMoves DEF MovesTo, Went, Left, Entered, Returned, Has, Rest,
           Asked,
           Ending, Sources
    <2>3. Calm
        BY <1>14, EndCalm
    <2> QED
        BY <2>1, <2>2, <2>3 DEF Calm, Others, Asked
<1>15. ASSUME NEW p \in Bindings, EmitCompleted(p) \/ EmitFailed(p) \/ DispatchNext(p) \/
             NothingQueued(p)
      PROVE  Asked'
    <2>1. p \in Tasks /\ Others(p)
        BY <1>15, BridgeMoves DEF MovesTo, Went, Left, Entered, Returned, Tasks
    <2>2. /\ src'[p] \in {"Completed", "ProviderFailed", "Cancel"} => pc'[p] \in Ending
          /\ src'[p] = "Cancel" => p \in Senders
        BY <1>15, <2>1, BridgeMoves DEF MovesTo, Went, Left, Entered, Returned, Has, Rest,
           Asked, Ending, Sources
    <2>3. Calm
        BY <1>15, BridgeCalm
    <2> QED
        BY <2>1, <2>2, <2>3 DEF Calm, Others, Asked
<1>16. ASSUME AppendOther \/ UNCHANGED vars
      PROVE  Asked'
    BY <1>16, OtherCalm DEF Calm, Asked
<1> QED
    BY <1>1, <1>2, <1>3, <1>4, <1>5, <1>6, <1>7, <1>8, <1>9, <1>10, <1>11, <1>12, <1>13,
       <1>14, <1>15, <1>16 DEF Next, SenderStep, SendTurnStep, TerminalizeStep,
       BridgeStep, ProviderAnswers, Tasks

(* Only a started turn gets a terminal row.                                *)
LEMMA EndedStartedStep ==
    ASSUME Aborters = {}, TypeOK, Known, Places, Locked, Committed, Asked, EndedStarted,
           OpenIsActive, SoleOwner, SentOpen, AnswerDue, ReadOpen, EndingBound, Evidence,
           [Next]_vars
    PROVE  EndedStarted'
<1>1. ASSUME NEW p \in Senders, CancelIdle(p)
      PROVE  EndedStarted'
    BY <1>1, CancelIdleDoes DEF Has, Others, Durably, Rest, EndedStarted, TypeOK,
       DurableTyped
<1>2. ASSUME NEW p \in Senders, NEW b \in Bindings, AttachNew(p, b)
      PROVE  EndedStarted'
    BY <1>2, AttachMoves, AttachNewDoes DEF Has, Durably, EndedStarted, TypeOK,
       DurableTyped
<1>3. ASSUME NEW p \in Senders \cup Bindings, NEW t \in Turns, AppendStarted(p, t)
      PROVE  EndedStarted'
    BY <1>3, AppendStartedDoes DEF Has, Others, Durably, Rest, EndedStarted, TypeOK,
       DurableTyped
<1>4. ASSUME NEW p \in Senders \cup Bindings, SetActiveTurn(p)
      PROVE  EndedStarted'
    BY <1>4, SetActiveTurnDoes DEF Has, Others, Durably, Rest, EndedStarted, TypeOK,
       DurableTyped
<1>5. ASSUME NEW p \in Senders \cup Bindings, SendProviderInput(p)
      PROVE  EndedStarted'
    BY <1>5, SendProviderInputDoes DEF Has, Others, Durably, Rest, EndedStarted, TypeOK,
       DurableTyped
<1>6. ASSUME NEW p \in Tasks, LookupTerminal(p)
      PROVE  EndedStarted'
    BY <1>6, LookupTerminalDoes DEF Has, Others, Durably, Rest, EndedStarted, TypeOK,
       DurableTyped
<1>7. ASSUME NEW p \in Tasks, PersistTerminal(p)
      PROVE  EndedStarted'
    BY <1>7, PersistTerminalDoes DEF Has, Others, Durably, Rest, EndedStarted, TypeOK,
       DurableTyped
<1>8. ASSUME NEW p \in Tasks, Cleanup(p)
      PROVE  EndedStarted'
    BY <1>8, CleanupDoes DEF Has, Others, Durably, Rest, EndedStarted, TypeOK,
       DurableTyped
<1>9. ASSUME NEW p \in Bindings, ProviderCompleted(p) \/ ProviderFailed(p)
      PROVE  EndedStarted'
    BY <1>9, ProviderAnswersDoes DEF Has, Others, Durably, Rest, EndedStarted, TypeOK,
       DurableTyped
<1>10. ASSUME NEW p \in Bindings, StreamEnds(p)
      PROVE  EndedStarted'
    BY <1>10, StreamEndsDoes DEF Has, Others, Durably, Rest, EndedStarted, TypeOK,
       DurableTyped
<1>11. ASSUME Restart
      PROVE  EndedStarted'
    BY <1>11, RestartDoes DEF EndedStarted, TypeOK, DurableTyped
<1>12. ASSUME NEW p \in Senders, AcquireTransition(p) \/ ResumeBegin(p) \/
             SelectRefused(p) \/ SelectSame(p) \/ SelectSwitch(p) \/ CancelIdleFails(p) \/
             PrepareRead(p) \/ PrepareSave(p) \/ AttachBound(p) \/ AttachFails(p) \/
             ResumeAppend(p) \/ ResumeSave(p) \/ ResumeFails(p)
      PROVE  EndedStarted'
    BY <1>12, SelectCalm DEF Calm, EndedStarted
<1>13. ASSUME NEW p \in Senders \cup Bindings, ReadRow(p) \/ ReadHistory(p) \/ SaveRow(p)
             \/ SendTurnFails(p) \/ SendProviderInputFails(p)
      PROVE  EndedStarted'
    BY <1>13, SendCalm DEF Calm, EndedStarted
<1>14. ASSUME NEW p \in Tasks, ClaimCommitted(p) \/ ClaimLead(p) \/ ClaimTimesOut(p) \/
             AcquireToken(p) \/ PersistFails(p)
      PROVE  EndedStarted'
    BY <1>14, EndCalm DEF Calm, EndedStarted
<1>15. ASSUME NEW p \in Bindings, EmitCompleted(p) \/ EmitFailed(p) \/ DispatchNext(p) \/
             NothingQueued(p)
      PROVE  EndedStarted'
    BY <1>15, BridgeCalm DEF Calm, EndedStarted
<1>16. ASSUME AppendOther \/ UNCHANGED vars
      PROVE  EndedStarted'
    BY <1>16, OtherCalm DEF Calm, EndedStarted
<1> QED
    BY <1>1, <1>2, <1>3, <1>4, <1>5, <1>6, <1>7, <1>8, <1>9, <1>10, <1>11, <1>12, <1>13,
       <1>14, <1>15, <1>16 DEF Next, SenderStep, SendTurnStep, TerminalizeStep,
       BridgeStep, ProviderAnswers, Tasks

(* A turn is started when none is active, and stays active until it ends.  *)
LEMMA OpenIsActiveStep ==
    ASSUME Aborters = {}, TypeOK, Known, Places, Locked, Committed, Asked, EndedStarted,
           OpenIsActive, SoleOwner, SentOpen, AnswerDue, ReadOpen, EndingBound, Evidence,
           [Next]_vars
    PROVE  OpenIsActive'
<1>1. ASSUME NEW p \in Senders, CancelIdle(p)
      PROVE  OpenIsActive'
    BY <1>1, CancelIdleDoes DEF Has, Others, Durably, Rest, OpenIsActive, Reading, Tasks,
       Sources
<1>2. ASSUME NEW p \in Senders, NEW b \in Bindings, AttachNew(p, b)
      PROVE  OpenIsActive'
    BY <1>2, AttachMoves, AttachNewDoes DEF Has, Durably, OpenIsActive, Reading, Tasks,
       Sources
<1>3. ASSUME NEW p \in Senders \cup Bindings, NEW t \in Turns, AppendStarted(p, t)
      PROVE  OpenIsActive'
    <2>1. p \in Tasks /\ Others(p) /\ pc[p] = "start"
            /\ Has(p, "save", t, bind[p], src[p]) /\ proj'.turn = t
                 /\ Open' = Open \cup {t} /\ row' = row
        BY <1>3, AppendStartedDoes
    <2>2. Open = {}
        BY <2>1, NoneOpen DEF OpenIsActive
    <2>3. lock = p
        BY <2>1 DEF Locked, Sending
    <2>4. \A q \in Tasks \ {p} : pc[q] \notin {"start", "cancelIdle"} /\ src[q] # "Cancel"
        BY <2>3 DEF Locked, Sending, Ending, Asked, Places, Selecting, Reading, Tasks
    <2>5. src[p] # "Cancel"
        BY <2>1 DEF Asked, Ending
    <2> QED
        BY <2>1, <2>2, <2>4, <2>5 DEF Others, Has, OpenIsActive
<1>4. ASSUME NEW p \in Senders \cup Bindings, SetActiveTurn(p)
      PROVE  OpenIsActive'
    BY <1>4, SetActiveTurnDoes DEF Has, Others, Durably, Rest, OpenIsActive, Reading,
       Tasks, Sources
<1>5. ASSUME NEW p \in Senders \cup Bindings, SendProviderInput(p)
      PROVE  OpenIsActive'
    BY <1>5, SendProviderInputDoes DEF Has, Others, Durably, Rest, OpenIsActive, Reading,
       Tasks, Sources
<1>6. ASSUME NEW p \in Tasks, LookupTerminal(p)
      PROVE  OpenIsActive'
    BY <1>6, LookupTerminalDoes DEF Has, Others, Durably, Rest, OpenIsActive, Reading,
       Tasks, Sources
<1>7. ASSUME NEW p \in Tasks, PersistTerminal(p)
      PROVE  OpenIsActive'
    <2>1. /\ Others(p) /\ Has(p, "cleanup", turn[p], bind[p], src[p]) /\ row' = row
            /\ Open' = Open \ {turn[p]}
          /\ proj'.turn # proj.turn => proj.turn = turn[p] /\ proj'.turn = None
        BY <1>7, PersistTerminalDoes
    <2> QED
        BY <2>1 DEF Others, Has, OpenIsActive
<1>8. ASSUME NEW p \in Tasks, Cleanup(p)
      PROVE  OpenIsActive'
    BY <1>8, CleanupDoes DEF Has, Others, Durably, Rest, OpenIsActive, Reading, Tasks,
       Sources
<1>9. ASSUME NEW p \in Bindings, ProviderCompleted(p) \/ ProviderFailed(p)
      PROVE  OpenIsActive'
    BY <1>9, ProviderAnswersDoes DEF Has, Others, Durably, Rest, OpenIsActive, Reading,
       Tasks, Sources
<1>10. ASSUME NEW p \in Bindings, StreamEnds(p)
      PROVE  OpenIsActive'
    BY <1>10, StreamEndsDoes DEF Has, Others, Durably, Rest, OpenIsActive, Reading, Tasks,
       Sources
<1>11. ASSUME Restart
      PROVE  OpenIsActive'
    <2>1. /\ Open' = {} /\ row' = row
          /\ \A p \in Tasks : pc'[p] \in {"idle", "off", "ended"} /\ src'[p] = None
        BY <1>11, RestartDoes
    <2> QED
        BY <2>1 DEF OpenIsActive, Sources
<1>12. ASSUME NEW p \in Senders, AcquireTransition(p) \/ ResumeBegin(p) \/
             SelectRefused(p) \/ SelectSame(p) \/ SelectSwitch(p) \/ CancelIdleFails(p) \/
             PrepareRead(p) \/ PrepareSave(p) \/ AttachBound(p) \/ AttachFails(p) \/
             ResumeAppend(p) \/ ResumeSave(p) \/ ResumeFails(p)
      PROVE  OpenIsActive'
    <2>1. p \in Tasks /\ Others(p)
        BY <1>12, SelectMoves DEF MovesTo, Went, Left, Entered, Returned, Tasks
    <2>2. /\ pc'[p] \in {"start", "cancelIdle"} \/ src'[p] = "Cancel" => proj.turn = None
          /\ src'[p] # "Quiesce"
        BY <1>12, <2>1, SelectMoves DEF MovesTo, Went, Left, Entered, Returned, Has, Rest,
           OpenIsActive, Sources
    <2>3. Calm
        BY <1>12, SelectCalm
    <2> QED
        BY <2>1, <2>2, <2>3 DEF Calm, Others, OpenIsActive
<1>13. ASSUME NEW p \in Senders \cup Bindings, ReadRow(p) \/ ReadHistory(p) \/ SaveRow(p)
             \/ SendTurnFails(p) \/ SendProviderInputFails(p)
      PROVE  OpenIsActive'
    <2>1. p \in Tasks /\ Others(p)
        BY <1>13, SendMoves DEF MovesTo, Went, Left, Entered, Returned, Tasks
    <2>2. /\ pc'[p] \in {"start", "cancelIdle"} \/ src'[p] = "Cancel" => proj.turn = None
          /\ src'[p] # "Quiesce"
        BY <1>13, <2>1, SendMoves DEF MovesTo, Went, Left, Entered, Returned, Has, Rest,
           OpenIsActive, Sources
    <2>3. Calm
        BY <1>13, SendCalm
    <2> QED
        BY <2>1, <2>2, <2>3 DEF Calm, Others, OpenIsActive
<1>14. ASSUME NEW p \in Tasks, ClaimCommitted(p) \/ ClaimLead(p) \/ ClaimTimesOut(p) \/
             AcquireToken(p) \/ PersistFails(p)
      PROVE  OpenIsActive'
    <2>1. p \in Tasks /\ Others(p)
        BY <1>14, EndMoves DEF MovesTo, Went, Left, Entered, Returned, Tasks
    <2>2. /\ pc'[p] \in {"start", "cancelIdle"} \/ src'[p] = "Cancel" => proj.turn = None
          /\ src'[p] # "Quiesce"
        BY <1>14, <2>1, EndMoves DEF MovesTo, Went, Left, Entered, Returned, Has, Rest,
           OpenIsActive, Sources
    <2>3. Calm
        BY <1>14, EndCalm
    <2> QED
        BY <2>1, <2>2, <2>3 DEF Calm, Others, OpenIsActive
<1>15. ASSUME NEW p \in Bindings, EmitCompleted(p) \/ EmitFailed(p) \/ DispatchNext(p) \/
             NothingQueued(p)
      PROVE  OpenIsActive'
    <2>1. p \in Tasks /\ Others(p)
        BY <1>15, BridgeMoves DEF MovesTo, Went, Left, Entered, Returned, Tasks
    <2>2. /\ pc'[p] \in {"start", "cancelIdle"} \/ src'[p] = "Cancel" => proj.turn = None
          /\ src'[p] # "Quiesce"
        BY <1>15, <2>1, BridgeMoves DEF MovesTo, Went, Left, Entered, Returned, Has, Rest,
           OpenIsActive, Sources
    <2>3. Calm
        BY <1>15, BridgeCalm
    <2> QED
        BY <2>1, <2>2, <2>3 DEF Calm, Others, OpenIsActive
<1>16. ASSUME AppendOther \/ UNCHANGED vars
      PROVE  OpenIsActive'
    BY <1>16, OtherCalm DEF Calm, OpenIsActive
<1> QED
    BY <1>1, <1>2, <1>3, <1>4, <1>5, <1>6, <1>7, <1>8, <1>9, <1>10, <1>11, <1>12, <1>13,
       <1>14, <1>15, <1>16 DEF Next, SenderStep, SendTurnStep, TerminalizeStep,
       BridgeStep, ProviderAnswers, Tasks

(* An open turn is taken over when its result is read, from nobody.        *)
LEMMA SoleOwnerStep ==
    ASSUME Aborters = {}, TypeOK, Known, Places, Locked, Committed, Asked, EndedStarted,
           OpenIsActive, SoleOwner, SentOpen, AnswerDue, ReadOpen, EndingBound, Evidence,
           [Next]_vars
    PROVE  SoleOwner'
<1>1. ASSUME NEW p \in Senders, SelectSwitch(p)
      PROVE  SoleOwner'
    <2>1. p \in Tasks /\ Others(p) /\ Calm
        BY <1>1, SelectMoves, SelectCalm DEF Left, Went, Entered, MovesTo, Tasks
    <2>2. turn'[p] \in {turn[p], None} \/ proj.turn = None
        BY <1>1, SelectMoves DEF Left, Went, Entered, MovesTo, Has
    <2> QED
        BY <2>1, <2>2, NoneOpen DEF Calm, Others, SoleOwner, Open, TypeOK, DurableTyped
<1>2. ASSUME NEW p \in Senders, CancelIdle(p)
      PROVE  SoleOwner'
    BY <1>2, CancelIdleDoes DEF Has, Others, Durably, Rest, SoleOwner, Open, TypeOK,
       DurableTyped
<1>3. ASSUME NEW p \in Senders, NEW b \in Bindings, AttachNew(p, b)
      PROVE  SoleOwner'
    <2>1. Durably /\ \A q \in Tasks : turn'[q] = turn[q]
        BY <1>3, AttachMoves, AttachNewDoes DEF Has
    <2> QED
        BY <2>1 DEF Durably, SoleOwner
<1>4. ASSUME NEW p \in Senders \cup Bindings, NEW t \in Turns, AppendStarted(p, t)
      PROVE  SoleOwner'
    <2>1. p \in Tasks /\ Others(p) /\ pc[p] = "start" /\ turn'[p] = t
            /\ Open' = Open \cup {t} /\ t \notin started
        BY <1>4, AppendStartedDoes DEF Has
    <2>2. \A q \in Tasks \ {p} : turn'[q] = turn[q] /\ turn[q] # t
        BY <2>1 DEF Others, Known, Carried
    <2>3. Open = {}
        BY <2>1, NoneOpen DEF OpenIsActive
    <2> QED
        BY <2>1, <2>2, <2>3 DEF SoleOwner
<1>5. ASSUME NEW p \in Senders \cup Bindings, SetActiveTurn(p)
      PROVE  SoleOwner'
    BY <1>5, SetActiveTurnDoes DEF Has, Others, Durably, Rest, SoleOwner, Open, TypeOK,
       DurableTyped
<1>6. ASSUME NEW p \in Senders \cup Bindings, SendProviderInput(p)
      PROVE  SoleOwner'
    BY <1>6, SendProviderInputDoes DEF Has, Others, Durably, Rest, SoleOwner, Open,
       TypeOK, DurableTyped
<1>7. ASSUME NEW p \in Tasks, LookupTerminal(p)
      PROVE  SoleOwner'
    BY <1>7, LookupTerminalDoes DEF Has, Others, Durably, Rest, SoleOwner, Open, TypeOK,
       DurableTyped
<1>8. ASSUME NEW p \in Tasks, PersistTerminal(p)
      PROVE  SoleOwner'
    BY <1>8, PersistTerminalDoes DEF Has, Others, Durably, Rest, SoleOwner, Open, TypeOK,
       DurableTyped
<1>9. ASSUME NEW p \in Tasks, Cleanup(p)
      PROVE  SoleOwner'
    BY <1>9, CleanupDoes DEF Has, Others, Durably, Rest, SoleOwner, Open, TypeOK,
       DurableTyped
<1>10. ASSUME NEW p \in Bindings, ProviderCompleted(p) \/ ProviderFailed(p)
      PROVE  SoleOwner'
    <2>1. p \in Tasks /\ Others(p) /\ turn'[p] = cur[p] /\ Durably
        BY <1>10, ProviderAnswersDoes
    <2>2. \A q \in Tasks : turn[q] # cur[p]
        BY <1>10 DEF ProviderCompleted, ProviderFailed, AnswerDue
    <2> QED
        BY <2>1, <2>2 DEF Others, Durably, SoleOwner
<1>11. ASSUME NEW p \in Bindings, StreamEnds(p)
      PROVE  SoleOwner'
    BY <1>11, StreamEndsDoes DEF Has, Others, Durably, Rest, SoleOwner, Open, TypeOK,
       DurableTyped
<1>12. ASSUME Restart
      PROVE  SoleOwner'
    BY <1>12, RestartDoes DEF SoleOwner, Open, TypeOK, DurableTyped
<1>13. ASSUME NEW p \in Senders, AcquireTransition(p) \/ ResumeBegin(p) \/
             SelectRefused(p) \/ SelectSame(p) \/ CancelIdleFails(p) \/ PrepareRead(p) \/
             PrepareSave(p) \/ AttachBound(p) \/ AttachFails(p) \/ ResumeAppend(p) \/
             ResumeSave(p) \/ ResumeFails(p)
      PROVE  SoleOwner'
    <2>1. p \in Tasks /\ Others(p)
        BY <1>13, SelectMoves DEF MovesTo, Went, Left, Entered, Returned, Tasks
    <2>2. turn'[p] \in {turn[p], None} \/ Open = {}
        BY <1>13, <2>1, SelectMoves DEF MovesTo, Went, Left, Entered, Returned, Has, Rest
    <2>3. Calm
        BY <1>13, SelectCalm
    <2> QED
        BY <2>1, <2>2, <2>3 DEF Calm, Others, SoleOwner, Open, TypeOK, DurableTyped
<1>14. ASSUME NEW p \in Senders \cup Bindings, ReadRow(p) \/ ReadHistory(p) \/ SaveRow(p)
             \/ SendTurnFails(p) \/ SendProviderInputFails(p)
      PROVE  SoleOwner'
    <2>1. p \in Tasks /\ Others(p)
        BY <1>14, SendMoves DEF MovesTo, Went, Left, Entered, Returned, Tasks
    <2>2. turn'[p] \in {turn[p], None} \/ Open = {}
        BY <1>14, <2>1, SendMoves DEF MovesTo, Went, Left, Entered, Returned, Has, Rest
    <2>3. Calm
        BY <1>14, SendCalm
    <2> QED
        BY <2>1, <2>2, <2>3 DEF Calm, Others, SoleOwner, Open, TypeOK, DurableTyped
<1>15. ASSUME NEW p \in Tasks, ClaimCommitted(p) \/ ClaimLead(p) \/ ClaimTimesOut(p) \/
             AcquireToken(p) \/ PersistFails(p)
      PROVE  SoleOwner'
    <2>1. p \in Tasks /\ Others(p)
        BY <1>15, EndMoves DEF MovesTo, Went, Left, Entered, Returned, Tasks
    <2>2. turn'[p] \in {turn[p], None} \/ Open = {}
        BY <1>15, <2>1, EndMoves DEF MovesTo, Went, Left, Entered, Returned, Has, Rest
    <2>3. Calm
        BY <1>15, EndCalm
    <2> QED
        BY <2>1, <2>2, <2>3 DEF Calm, Others, SoleOwner, Open, TypeOK, DurableTyped
<1>16. ASSUME NEW p \in Bindings, EmitCompleted(p) \/ EmitFailed(p) \/ DispatchNext(p) \/
             NothingQueued(p)
      PROVE  SoleOwner'
    <2>1. p \in Tasks /\ Others(p)
        BY <1>16, BridgeMoves DEF MovesTo, Went, Left, Entered, Returned, Tasks
    <2>2. turn'[p] \in {turn[p], None} \/ Open = {}
        BY <1>16, <2>1, BridgeMoves DEF MovesTo, Went, Left, Entered, Returned, Has, Rest
    <2>3. Calm
        BY <1>16, BridgeCalm
    <2> QED
        BY <2>1, <2>2, <2>3 DEF Calm, Others, SoleOwner, Open, TypeOK, DurableTyped
<1>17. ASSUME AppendOther \/ UNCHANGED vars
      PROVE  SoleOwner'
    BY <1>17, OtherCalm DEF Calm, SoleOwner, Open, TypeOK, DurableTyped
<1> QED
    BY <1>1, <1>2, <1>3, <1>4, <1>5, <1>6, <1>7, <1>8, <1>9, <1>10, <1>11, <1>12, <1>13,
       <1>14, <1>15, <1>16, <1>17 DEF Next, SenderStep, SendTurnStep, TerminalizeStep,
       BridgeStep, ProviderAnswers, Tasks

(* Nobody else ends a turn that is being sent, or takes its binding away.  *)
LEMMA SentOpenStep ==
    ASSUME Aborters = {}, TypeOK, Known, Places, Locked, Committed, Asked, EndedStarted,
           OpenIsActive, SoleOwner, SentOpen, AnswerDue, ReadOpen, EndingBound, Evidence,
           [Next]_vars
    PROVE  SentOpen'
<1>1. ASSUME NEW p \in Senders, CancelIdle(p)
      PROVE  SentOpen'
    BY <1>1, CancelIdleDoes DEF Has, Others, Durably, Rest, SentOpen, Open, TypeOK,
       DurableTyped
<1>2. ASSUME NEW p \in Senders, NEW b \in Bindings, AttachNew(p, b)
      PROVE  SentOpen'
    <2>1. /\ Durably /\ cur' = cur /\ pc[p] = "attach" /\ pc'[b] = "stream"
            /\ pc'[p] \in {"idle", "readRow"}
          /\ \A q \in Tasks \ {p, b} : pc'[q] = pc[q] /\ turn'[q] = turn[q]
        BY <1>2, AttachMoves, AttachNewDoes DEF Has
    <2>2. \A q \in Senders \cup Bindings : q # p => pc[q] \notin Sending
        BY <2>1 DEF Locked, Sending
    <2> QED
        BY <2>1, <2>2 DEF Durably, SentOpen, Sending, Tasks
<1>3. ASSUME NEW p \in Senders \cup Bindings, NEW t \in Turns, AppendStarted(p, t)
      PROVE  SentOpen'
    <2>1. /\ p \in Tasks /\ Others(p) /\ pc[p] = "start" /\ pc'[p] = "save" /\ turn'[p] = t
          /\ Open' = Open \cup {t} /\ bound' = bound /\ cur' = cur
        BY <1>3, AppendStartedDoes DEF Has
    <2> QED
        BY <2>1 DEF Others, SentOpen
<1>4. ASSUME NEW p \in Senders \cup Bindings, SetActiveTurn(p)
      PROVE  SentOpen'
    <2>1. /\ p \in Tasks /\ Others(p) /\ pc[p] = "setActive" /\ Durably /\ bound' = bound
          /\ pc'[p] = "claim" \/ (pc'[p] = "send" /\ turn'[p] = turn[p] /\ (bound # None => cur'[bound] = turn[p]))
        BY <1>4, SetActiveTurnDoes DEF Has
    <2>2. \A q \in Tasks \ {p} : pc[q] # "send"
        BY <2>1 DEF Locked, Sending, Places, Aborting, Ending, Tasks
    <2> QED
        BY <2>1, <2>2 DEF Others, Durably, SentOpen
<1>5. ASSUME NEW p \in Senders \cup Bindings, SendProviderInput(p)
      PROVE  SentOpen'
    BY <1>5, SendProviderInputDoes DEF Has, Others, Durably, Rest, SentOpen, Open, TypeOK,
       DurableTyped
<1>6. ASSUME NEW p \in Tasks, LookupTerminal(p)
      PROVE  SentOpen'
    BY <1>6, LookupTerminalDoes DEF Has, Others, Durably, Rest, SentOpen, Open, TypeOK,
       DurableTyped
<1>7. ASSUME NEW p \in Tasks, PersistTerminal(p)
      PROVE  SentOpen'
    <2>1. Others(p) /\ pc[p] = "append" /\ pc'[p] = "cleanup" /\ Open' = Open \ {turn[p]}
            /\ bound' = bound /\ cur' = cur
        BY <1>7, PersistTerminalDoes DEF Has
    <2>2. \A q \in Tasks \ {p} : pc[q] \in {"save", "setActive", "send"} => turn[q] # turn[p]
        BY DEF SentOpen, SoleOwner
    <2> QED
        BY <2>1, <2>2 DEF Others, SentOpen
<1>8. ASSUME NEW p \in Tasks, Cleanup(p)
      PROVE  SentOpen'
    <2>1. /\ Others(p) /\ Durably /\ turn[p] \notin Open /\ bound' \in {bound, None}
          /\ \/ cur' = cur
             \/ cur[bound] = turn[p]
        BY <1>8, CleanupDoes
    <2>2. pc'[p] \notin {"save", "setActive", "send"}
        BY <1>8, CleanupDoes DEF Rest
    <2>3. ASSUME NEW q \in Tasks, pc'[q] \in {"save", "setActive", "send"}
          PROVE  turn'[q] \in Open' /\ (pc'[q] = "send" /\ bound' # None => cur'[bound'] = turn'[q])
        <3>1. q # p /\ pc'[q] = pc[q] /\ turn'[q] = turn[q] /\ turn[q] \in Open
            BY <2>1, <2>2, <2>3 DEF Others, SentOpen
        <3> QED
            BY <2>1, <3>1 DEF Durably, SentOpen
    <2> QED
        BY <2>3 DEF SentOpen
<1>9. ASSUME NEW p \in Bindings, ProviderCompleted(p) \/ ProviderFailed(p)
      PROVE  SentOpen'
    BY <1>9, ProviderAnswersDoes DEF Has, Others, Durably, Rest, SentOpen, Open, TypeOK,
       DurableTyped
<1>10. ASSUME NEW p \in Bindings, StreamEnds(p)
      PROVE  SentOpen'
    BY <1>10, StreamEndsDoes DEF Has, Others, Durably, Rest, SentOpen, Open, TypeOK,
       DurableTyped
<1>11. ASSUME Restart
      PROVE  SentOpen'
    BY <1>11, RestartDoes DEF SentOpen, Open, TypeOK, DurableTyped
<1>12. ASSUME NEW p \in Senders, AcquireTransition(p) \/ ResumeBegin(p) \/
             SelectRefused(p) \/ SelectSame(p) \/ SelectSwitch(p) \/ CancelIdleFails(p) \/
             PrepareRead(p) \/ PrepareSave(p) \/ AttachBound(p) \/ AttachFails(p) \/
             ResumeAppend(p) \/ ResumeSave(p) \/ ResumeFails(p)
      PROVE  SentOpen'
    <2>1. p \in Tasks /\ Others(p)
        BY <1>12, SelectMoves DEF MovesTo, Went, Left, Entered, Returned, Tasks
    <2>2. pc'[p] \in {"save", "setActive", "send"} => pc[p] = "save" /\ pc'[p] = "setActive" /\ turn'[p] = turn[p]
        BY <1>12, <2>1, SelectMoves DEF MovesTo, Went, Left, Entered, Returned, Has, Rest
    <2>3. Calm
        BY <1>12, SelectCalm
    <2> QED
        BY <2>1, <2>2, <2>3 DEF Calm, Others, SentOpen
<1>13. ASSUME NEW p \in Senders \cup Bindings, ReadRow(p) \/ ReadHistory(p) \/ SaveRow(p)
             \/ SendTurnFails(p) \/ SendProviderInputFails(p)
      PROVE  SentOpen'
    <2>1. p \in Tasks /\ Others(p)
        BY <1>13, SendMoves DEF MovesTo, Went, Left, Entered, Returned, Tasks
    <2>2. pc'[p] \in {"save", "setActive", "send"} => pc[p] = "save" /\ pc'[p] = "setActive" /\ turn'[p] = turn[p]
        BY <1>13, <2>1, SendMoves DEF MovesTo, Went, Left, Entered, Returned, Has, Rest
    <2>3. Calm
        BY <1>13, SendCalm
    <2> QED
        BY <2>1, <2>2, <2>3 DEF Calm, Others, SentOpen
<1>14. ASSUME NEW p \in Tasks, ClaimCommitted(p) \/ ClaimLead(p) \/ ClaimTimesOut(p) \/
             AcquireToken(p) \/ PersistFails(p)
      PROVE  SentOpen'
    <2>1. p \in Tasks /\ Others(p)
        BY <1>14, EndMoves DEF MovesTo, Went, Left, Entered, Returned, Tasks
    <2>2. pc'[p] \in {"save", "setActive", "send"} => pc[p] = "save" /\ pc'[p] = "setActive" /\ turn'[p] = turn[p]
        BY <1>14, <2>1, EndMoves DEF MovesTo, Went, Left, Entered, Returned, Has, Rest
    <2>3. Calm
        BY <1>14, EndCalm
    <2> QED
        BY <2>1, <2>2, <2>3 DEF Calm, Others, SentOpen
<1>15. ASSUME NEW p \in Bindings, EmitCompleted(p) \/ EmitFailed(p) \/ DispatchNext(p) \/
             NothingQueued(p)
      PROVE  SentOpen'
    <2>1. p \in Tasks /\ Others(p)
        BY <1>15, BridgeMoves DEF MovesTo, Went, Left, Entered, Returned, Tasks
    <2>2. pc'[p] \in {"save", "setActive", "send"} => pc[p] = "save" /\ pc'[p] = "setActive" /\ turn'[p] = turn[p]
        BY <1>15, <2>1, BridgeMoves DEF MovesTo, Went, Left, Entered, Returned, Has, Rest
    <2>3. Calm
        BY <1>15, BridgeCalm
    <2> QED
        BY <2>1, <2>2, <2>3 DEF Calm, Others, SentOpen
<1>16. ASSUME AppendOther \/ UNCHANGED vars
      PROVE  SentOpen'
    BY <1>16, OtherCalm DEF Calm, SentOpen
<1> QED
    BY <1>1, <1>2, <1>3, <1>4, <1>5, <1>6, <1>7, <1>8, <1>9, <1>10, <1>11, <1>12, <1>13,
       <1>14, <1>15, <1>16 DEF Next, SenderStep, SendTurnStep, TerminalizeStep,
       BridgeStep, ProviderAnswers, Tasks

(* A prompt is accepted once, of the turn the binding carries; the turn is *)
(* in nobody's hands until it is answered.                                 *)
LEMMA AnswerDueStep ==
    ASSUME Aborters = {}, TypeOK, Known, Places, Locked, Committed, Asked, EndedStarted,
           OpenIsActive, SoleOwner, SentOpen, AnswerDue, ReadOpen, EndingBound, Evidence,
           [Next]_vars
    PROVE  AnswerDue'
<1>1. ASSUME NEW p \in Senders, SelectSwitch(p)
      PROVE  AnswerDue'
    <2>1. p \in Tasks /\ Others(p) /\ Calm
        BY <1>1, SelectMoves, SelectCalm DEF Left, Went, Entered, MovesTo, Tasks
    <2>2. turn'[p] \in {turn[p], None} \/ proj.turn = None
        BY <1>1, SelectMoves DEF Left, Went, Entered, MovesTo, Has
    <2> QED
        BY <2>1, <2>2, NoneOpen DEF Calm, Others, AnswerDue, Open, TypeOK, DurableTyped
<1>2. ASSUME NEW p \in Senders, CancelIdle(p)
      PROVE  AnswerDue'
    <2>1. pc[p] = "cancelIdle" /\ p \in Tasks
            /\ \A c \in Bindings : work'[c] \in {work[c], <<>>}
        BY <1>2, CancelIdleDoes
    <2>2. \A c \in Bindings : work[c] = <<>>
        BY <2>1, NoneOpen DEF OpenIsActive, AnswerDue
    <2> QED
        BY <2>1, <2>2 DEF AnswerDue
<1>3. ASSUME NEW p \in Senders, NEW b \in Bindings, AttachNew(p, b)
      PROVE  AnswerDue'
    <2>1. bound = None /\ work' = work
        BY <1>3, AttachMoves, AttachNewDoes
    <2>2. \A c \in Bindings : work[c] = <<>>
        BY <2>1 DEF AnswerDue, Tasks
    <2> QED
        BY <2>1, <2>2 DEF AnswerDue
<1>4. ASSUME NEW p \in Senders \cup Bindings, NEW t \in Turns, AppendStarted(p, t)
      PROVE  AnswerDue'
    <2>1. p \in Tasks /\ pc[p] = "start" /\ work' = work
        BY <1>4, AppendStartedDoes
    <2>2. \A c \in Bindings : work[c] = <<>>
        BY <2>1, NoneOpen DEF OpenIsActive, AnswerDue
    <2> QED
        BY <2>1, <2>2 DEF AnswerDue
<1>5. ASSUME NEW p \in Senders \cup Bindings, SetActiveTurn(p)
      PROVE  AnswerDue'
    <2>1. p \in Tasks /\ pc[p] = "setActive" /\ work' = work
        BY <1>5, SetActiveTurnDoes
    <2>2. turn[p] \in Open
        BY <2>1 DEF SentOpen
    <2>3. \A c \in Bindings : work[c] = <<>>
        BY <2>1, <2>2 DEF OpenIsActive, AnswerDue
    <2> QED
        BY <2>1, <2>3 DEF AnswerDue
<1>6. ASSUME NEW p \in Senders \cup Bindings, SendProviderInput(p)
      PROVE  AnswerDue'
    <2>1. /\ p \in Tasks /\ Others(p) /\ pc[p] = "send" /\ turn'[p] = None /\ turn[p] \in Turns
          /\ bound \in Bindings /\ Durably /\ bound' = bound /\ cur' = cur
          /\ work'[bound] = Append(work[bound], turn[p])
          /\ \A c \in Bindings \ {bound} : work'[c] = work[c]
        BY <1>6, SendProviderInputDoes DEF Has
    <2>2. turn[p] \in Open /\ cur[bound] = turn[p]
        BY <2>1 DEF SentOpen, Tasks
    <2>3. \A c \in Bindings : work[c] = <<>>
        BY <2>1, <2>2 DEF OpenIsActive, AnswerDue
    <2>4. work'[bound] = <<turn[p]>>
        <3>1. Append(<<>>, turn[p]) = <<turn[p]>>
            BY <2>1
        <3>2. work[bound] = <<>>
            BY <2>1, <2>3
        <3> QED
            BY <2>1, <3>1, <3>2
    <2>5. \A q \in Tasks : turn'[q] # turn[p]
        BY <2>1, <2>2 DEF Others, SoleOwner
    <2> QED
        BY <2>1, <2>2, <2>3, <2>4, <2>5 DEF Durably, AnswerDue
<1>7. ASSUME NEW p \in Tasks, LookupTerminal(p)
      PROVE  AnswerDue'
    <2>1. /\ Durably /\ bound' = bound /\ cur' = cur /\ \A q \in Tasks : turn'[q] = turn[q]
          /\ \A c \in Bindings : work'[c] \in {work[c], <<>>}
        BY <1>7, LookupTerminalDoes DEF Has, Others
    <2> QED
        BY <2>1 DEF Durably, AnswerDue
<1>8. ASSUME NEW p \in Tasks, PersistTerminal(p)
      PROVE  AnswerDue'
    <2>1. /\ Open' = Open \ {turn[p]} /\ bound' = bound /\ cur' = cur /\ work' = work
          /\ \A q \in Tasks : turn'[q] = turn[q]
        BY <1>8, PersistTerminalDoes DEF Has, Others
    <2> QED
        BY <2>1 DEF AnswerDue
<1>9. ASSUME NEW p \in Tasks, Cleanup(p)
      PROVE  AnswerDue'
    <2>1. /\ Durably /\ work' = work /\ turn[p] \notin Open
          /\ \A q \in Tasks : turn'[q] \in {turn[q], None}
        BY <1>9, CleanupDoes DEF Others
    <2>2. \/ cur' = cur /\ bound' = bound
          \/ /\ bound # None /\ cur[bound] = turn[p]
        BY <1>9, CleanupDoes
    <2>3. CASE cur' = cur /\ bound' = bound
        BY <2>1, <2>3 DEF Durably, AnswerDue, Open, TypeOK, DurableTyped
    <2>4. CASE bound # None /\ cur[bound] = turn[p]
        BY <2>1, <2>4 DEF AnswerDue
    <2> QED
        BY <2>2, <2>3, <2>4
<1>10. ASSUME NEW p \in Bindings, ProviderCompleted(p) \/ ProviderFailed(p)
      PROVE  AnswerDue'
    BY <1>10, ProviderAnswersDoes DEF AnswerDue
<1>11. ASSUME NEW p \in Bindings, StreamEnds(p)
      PROVE  AnswerDue'
    <2>1. /\ Durably /\ cur' = cur /\ work' = work /\ work[p] = <<>>
            /\ \A q \in Tasks : turn'[q] = turn[q]
          /\ bound' = IF bound = p /\ cur[p] = None THEN None ELSE bound
        BY <1>11, StreamEndsDoes DEF Has, Others
    <2> QED
        BY <2>1 DEF Durably, AnswerDue
<1>12. ASSUME Restart
      PROVE  AnswerDue'
    BY <1>12, RestartDoes DEF AnswerDue
<1>13. ASSUME NEW p \in Senders, AcquireTransition(p) \/ ResumeBegin(p) \/
             SelectRefused(p) \/ SelectSame(p) \/ CancelIdleFails(p) \/ PrepareRead(p) \/
             PrepareSave(p) \/ AttachBound(p) \/ AttachFails(p) \/ ResumeAppend(p) \/
             ResumeSave(p) \/ ResumeFails(p)
      PROVE  AnswerDue'
    <2>1. p \in Tasks /\ Others(p)
        BY <1>13, SelectMoves DEF MovesTo, Went, Left, Entered, Returned, Tasks
    <2>2. turn'[p] \in {turn[p], None} \/ Open = {}
        BY <1>13, <2>1, SelectMoves DEF MovesTo, Went, Left, Entered, Returned, Has, Rest
    <2>3. Calm
        BY <1>13, SelectCalm
    <2> QED
        BY <2>1, <2>2, <2>3 DEF Calm, Others, AnswerDue, Open, TypeOK, DurableTyped
<1>14. ASSUME NEW p \in Senders \cup Bindings, ReadRow(p) \/ ReadHistory(p) \/ SaveRow(p)
             \/ SendTurnFails(p) \/ SendProviderInputFails(p)
      PROVE  AnswerDue'
    <2>1. p \in Tasks /\ Others(p)
        BY <1>14, SendMoves DEF MovesTo, Went, Left, Entered, Returned, Tasks
    <2>2. turn'[p] \in {turn[p], None} \/ Open = {}
        BY <1>14, <2>1, SendMoves DEF MovesTo, Went, Left, Entered, Returned, Has, Rest
    <2>3. Calm
        BY <1>14, SendCalm
    <2> QED
        BY <2>1, <2>2, <2>3 DEF Calm, Others, AnswerDue, Open, TypeOK, DurableTyped
<1>15. ASSUME NEW p \in Tasks, ClaimCommitted(p) \/ ClaimLead(p) \/ ClaimTimesOut(p) \/
             AcquireToken(p) \/ PersistFails(p)
      PROVE  AnswerDue'
    <2>1. p \in Tasks /\ Others(p)
        BY <1>15, EndMoves DEF MovesTo, Went, Left, Entered, Returned, Tasks
    <2>2. turn'[p] \in {turn[p], None} \/ Open = {}
        BY <1>15, <2>1, EndMoves DEF MovesTo, Went, Left, Entered, Returned, Has, Rest
    <2>3. Calm
        BY <1>15, EndCalm
    <2> QED
        BY <2>1, <2>2, <2>3 DEF Calm, Others, AnswerDue, Open, TypeOK, DurableTyped
<1>16. ASSUME NEW p \in Bindings, EmitCompleted(p) \/ EmitFailed(p) \/ DispatchNext(p) \/
             NothingQueued(p)
      PROVE  AnswerDue'
    <2>1. p \in Tasks /\ Others(p)
        BY <1>16, BridgeMoves DEF MovesTo, Went, Left, Entered, Returned, Tasks
    <2>2. turn'[p] \in {turn[p], None} \/ Open = {}
        BY <1>16, <2>1, BridgeMoves DEF MovesTo, Went, Left, Entered, Returned, Has, Rest
    <2>3. Calm
        BY <1>16, BridgeCalm
    <2> QED
        BY <2>1, <2>2, <2>3 DEF Calm, Others, AnswerDue, Open, TypeOK, DurableTyped
<1>17. ASSUME AppendOther \/ UNCHANGED vars
      PROVE  AnswerDue'
    BY <1>17, OtherCalm DEF Calm, AnswerDue, Open, TypeOK, DurableTyped
<1> QED
    BY <1>1, <1>2, <1>3, <1>4, <1>5, <1>6, <1>7, <1>8, <1>9, <1>10, <1>11, <1>12, <1>13,
       <1>14, <1>15, <1>16, <1>17 DEF Next, SenderStep, SendTurnStep, TerminalizeStep,
       BridgeStep, ProviderAnswers, Tasks

(* Nobody else ends the turn a result was read for, or replaces it on its  *)
(* binding.                                                                *)
LEMMA ReadOpenStep ==
    ASSUME Aborters = {}, TypeOK, Known, Places, Locked, Committed, Asked, EndedStarted,
           OpenIsActive, SoleOwner, SentOpen, AnswerDue, ReadOpen, EndingBound, Evidence,
           [Next]_vars
    PROVE  ReadOpen'
<1>1. ASSUME NEW p \in Senders, CancelIdle(p)
      PROVE  ReadOpen'
    <2>1. pc[p] = "cancelIdle" /\ p \in Tasks /\ Others(p) /\ pc'[p] \notin Reading
        BY <1>1, CancelIdleDoes DEF Has, Reading
    <2>2. \A b \in Bindings : pc[b] \notin Reading
        BY <2>1, NoneOpen DEF OpenIsActive, ReadOpen
    <2> QED
        BY <2>1, <2>2 DEF Others, ReadOpen, Tasks
<1>2. ASSUME NEW p \in Senders, NEW b \in Bindings, AttachNew(p, b)
      PROVE  ReadOpen'
    <2>1. /\ bound = None /\ pc'[p] \notin Reading /\ pc'[b] \notin Reading
          /\ \A q \in Tasks \ {p, b} : pc'[q] = pc[q]
        BY <1>2, AttachMoves DEF Has, Reading
    <2>2. \A c \in Bindings : pc[c] \notin Reading
        BY <2>1 DEF ReadOpen, Tasks
    <2> QED
        BY <2>1, <2>2 DEF ReadOpen, Tasks
<1>3. ASSUME NEW p \in Senders \cup Bindings, NEW t \in Turns, AppendStarted(p, t)
      PROVE  ReadOpen'
    <2>1. p \in Tasks /\ pc[p] = "start" /\ Others(p) /\ pc'[p] \notin Reading
        BY <1>3, AppendStartedDoes DEF Has, Reading
    <2>2. \A c \in Bindings : pc[c] \notin Reading
        BY <2>1, NoneOpen DEF OpenIsActive, ReadOpen
    <2> QED
        BY <2>1, <2>2 DEF Others, ReadOpen, Tasks
<1>4. ASSUME NEW p \in Senders \cup Bindings, SetActiveTurn(p)
      PROVE  ReadOpen'
    <2>1. p \in Tasks /\ pc[p] = "setActive" /\ Others(p) /\ pc'[p] \notin Reading
        BY <1>4, SetActiveTurnDoes DEF Has, Reading
    <2>2. turn[p] \in Open
        BY <2>1 DEF SentOpen
    <2>3. \A c \in Bindings : pc[c] \notin Reading
        BY <2>1, <2>2 DEF OpenIsActive, ReadOpen, SoleOwner, Reading, Tasks
    <2> QED
        BY <2>1, <2>3 DEF Others, ReadOpen, Tasks
<1>5. ASSUME NEW p \in Senders \cup Bindings, SendProviderInput(p)
      PROVE  ReadOpen'
    BY <1>5, SendProviderInputDoes DEF Has, Others, Durably, Rest, ReadOpen, Reading,
       Tasks, Open, TypeOK, DurableTyped
<1>6. ASSUME NEW p \in Tasks, LookupTerminal(p)
      PROVE  ReadOpen'
    BY <1>6, LookupTerminalDoes DEF Has, Others, Durably, Rest, ReadOpen, Reading, Tasks,
       Open, TypeOK, DurableTyped
<1>7. ASSUME NEW p \in Tasks, PersistTerminal(p)
      PROVE  ReadOpen'
    <2>1. /\ Others(p) /\ pc[p] = "append" /\ pc'[p] \notin Reading /\ Open' = Open \ {turn[p]}
          /\ bound' = bound /\ cur' = cur
        BY <1>7, PersistTerminalDoes DEF Has, Reading
    <2>2. \A c \in Bindings \ {p} : pc[c] \in Reading => turn[c] # turn[p]
        BY DEF ReadOpen, SoleOwner, Tasks
    <2> QED
        BY <2>1, <2>2 DEF Others, ReadOpen, Tasks
<1>8. ASSUME NEW p \in Tasks, Cleanup(p)
      PROVE  ReadOpen'
    <2>1. Others(p) /\ pc'[p] \notin Reading /\ turn[p] \notin Open /\ Durably
        BY <1>8, CleanupDoes DEF Rest, Reading
    <2>2. \/ cur' = cur /\ bound' = bound
          \/ /\ bound # None /\ cur[bound] = turn[p]
        BY <1>8, CleanupDoes
    <2>3. CASE cur' = cur /\ bound' = bound
        BY <2>1, <2>3 DEF Others, Durably, ReadOpen, Tasks
    <2>4. CASE bound # None /\ cur[bound] = turn[p]
        <3>1. \A c \in Bindings : pc[c] \notin Reading
            BY <2>1, <2>4 DEF ReadOpen
        <3> QED
            BY <2>1, <3>1 DEF Others, ReadOpen, Tasks
    <2> QED
        BY <2>2, <2>3, <2>4
<1>9. ASSUME NEW p \in Bindings, ProviderCompleted(p) \/ ProviderFailed(p)
      PROVE  ReadOpen'
    <2>1. /\ Others(p) /\ turn'[p] = cur[p] /\ cur[p] \in Open /\ bound = p
          /\ Durably /\ bound' = bound /\ cur' = cur
        BY <1>9, ProviderAnswersDoes
    <2> QED
        BY <2>1 DEF Others, Durably, ReadOpen, Tasks
<1>10. ASSUME NEW p \in Bindings, StreamEnds(p)
      PROVE  ReadOpen'
    BY <1>10, StreamEndsDoes DEF Has, Others, Durably, Rest, ReadOpen, Reading, Tasks,
       Open, TypeOK, DurableTyped
<1>11. ASSUME Restart
      PROVE  ReadOpen'
    BY <1>11, RestartDoes DEF ReadOpen, Reading, Tasks, Open, TypeOK, DurableTyped
<1>12. ASSUME NEW p \in Senders, AcquireTransition(p) \/ ResumeBegin(p) \/
             SelectRefused(p) \/ SelectSame(p) \/ SelectSwitch(p) \/ CancelIdleFails(p) \/
             PrepareRead(p) \/ PrepareSave(p) \/ AttachBound(p) \/ AttachFails(p) \/
             ResumeAppend(p) \/ ResumeSave(p) \/ ResumeFails(p)
      PROVE  ReadOpen'
    <2>1. p \in Tasks /\ Others(p)
        BY <1>12, SelectMoves DEF MovesTo, Went, Left, Entered, Returned, Tasks
    <2>2. pc'[p] \notin Reading
        BY <1>12, <2>1, SelectMoves DEF MovesTo, Went, Left, Entered, Returned, Has, Rest,
           Reading
    <2>3. Calm
        BY <1>12, SelectCalm
    <2> QED
        BY <2>1, <2>2, <2>3 DEF Calm, Others, ReadOpen, Tasks
<1>13. ASSUME NEW p \in Senders \cup Bindings, ReadRow(p) \/ ReadHistory(p) \/ SaveRow(p)
             \/ SendTurnFails(p) \/ SendProviderInputFails(p)
      PROVE  ReadOpen'
    <2>1. p \in Tasks /\ Others(p)
        BY <1>13, SendMoves DEF MovesTo, Went, Left, Entered, Returned, Tasks
    <2>2. pc'[p] \notin Reading
        BY <1>13, <2>1, SendMoves DEF MovesTo, Went, Left, Entered, Returned, Has, Rest,
           Reading
    <2>3. Calm
        BY <1>13, SendCalm
    <2> QED
        BY <2>1, <2>2, <2>3 DEF Calm, Others, ReadOpen, Tasks
<1>14. ASSUME NEW p \in Tasks, ClaimCommitted(p) \/ ClaimLead(p) \/ ClaimTimesOut(p) \/
             AcquireToken(p) \/ PersistFails(p)
      PROVE  ReadOpen'
    <2>1. p \in Tasks /\ Others(p)
        BY <1>14, EndMoves DEF MovesTo, Went, Left, Entered, Returned, Tasks
    <2>2. pc'[p] \notin Reading
        BY <1>14, <2>1, EndMoves DEF MovesTo, Went, Left, Entered, Returned, Has, Rest,
           Reading
    <2>3. Calm
        BY <1>14, EndCalm
    <2> QED
        BY <2>1, <2>2, <2>3 DEF Calm, Others, ReadOpen, Tasks
<1>15. ASSUME NEW p \in Bindings, EmitCompleted(p) \/ EmitFailed(p) \/ DispatchNext(p) \/
             NothingQueued(p)
      PROVE  ReadOpen'
    <2>1. p \in Tasks /\ Others(p)
        BY <1>15, BridgeMoves DEF MovesTo, Went, Left, Entered, Returned, Tasks
    <2>2. pc'[p] \notin Reading
        BY <1>15, <2>1, BridgeMoves DEF MovesTo, Went, Left, Entered, Returned, Has, Rest,
           Reading
    <2>3. Calm
        BY <1>15, BridgeCalm
    <2> QED
        BY <2>1, <2>2, <2>3 DEF Calm, Others, ReadOpen, Tasks
<1>16. ASSUME AppendOther \/ UNCHANGED vars
      PROVE  ReadOpen'
    BY <1>16, OtherCalm DEF Calm, ReadOpen, Tasks
<1> QED
    BY <1>1, <1>2, <1>3, <1>4, <1>5, <1>6, <1>7, <1>8, <1>9, <1>10, <1>11, <1>12, <1>13,
       <1>14, <1>15, <1>16 DEF Next, SenderStep, SendTurnStep, TerminalizeStep,
       BridgeStep, ProviderAnswers, Tasks

(* The binding that is to lose its turn still carries it.                  *)
LEMMA EndingBoundStep ==
    ASSUME Aborters = {}, TypeOK, Known, Places, Locked, Committed, Asked, EndedStarted,
           OpenIsActive, SoleOwner, SentOpen, AnswerDue, ReadOpen, EndingBound, Evidence,
           [Next]_vars
    PROVE  EndingBound'
<1>1. ASSUME NEW p \in Senders, CancelIdle(p)
      PROVE  EndingBound'
    <2>1. pc[p] = "cancelIdle" /\ p \in Tasks /\ Durably
        BY <1>1, CancelIdleDoes
    <2>2. Open' = {}
        BY <2>1, NoneOpen DEF OpenIsActive, Durably
    <2> QED
        BY <2>2 DEF EndingBound
<1>2. ASSUME NEW p \in Senders, NEW b \in Bindings, AttachNew(p, b)
      PROVE  EndingBound'
    <2>1. /\ bound = None /\ pc'[p] \notin {"claim", "token"}
            /\ pc'[b] \notin {"claim", "token"} /\ Durably
          /\ \A q \in Tasks \ {p, b} : pc'[q] = pc[q] /\ turn'[q] = turn[q] /\ bind'[q] = bind[q]
        BY <1>2, AttachMoves, AttachNewDoes DEF Has
    <2> QED
        BY <2>1 DEF EndingBound, Durably
<1>3. ASSUME NEW p \in Senders \cup Bindings, NEW t \in Turns, AppendStarted(p, t)
      PROVE  EndingBound'
    <2>1. /\ p \in Tasks /\ pc[p] = "start" /\ Others(p) /\ pc'[p] = "save"
            /\ Open' = Open \cup {t} /\ t \notin started
        BY <1>3, AppendStartedDoes DEF Has
    <2>2. Open = {}
        BY <2>1, NoneOpen DEF OpenIsActive
    <2>3. \A q \in Tasks : turn[q] # t
        BY <2>1 DEF Known, Carried
    <2> QED
        BY <2>1, <2>2, <2>3 DEF Others, EndingBound
<1>4. ASSUME NEW p \in Senders \cup Bindings, SetActiveTurn(p)
      PROVE  EndingBound'
    <2>1. /\ p \in Tasks /\ pc[p] = "setActive" /\ Others(p) /\ Durably
          /\ (pc'[p] = "claim" /\ bind'[p] = None) \/ pc'[p] = "send"
        BY <1>4, SetActiveTurnDoes DEF Has
    <2>2. turn[p] \in Open
        BY <2>1 DEF SentOpen
    <2>3. \A q \in Tasks \ {p} : turn[q] \notin Open
        BY <2>1, <2>2 DEF OpenIsActive, SoleOwner
    <2> QED
        BY <2>1, <2>3 DEF Others, Durably, EndingBound
<1>5. ASSUME NEW p \in Senders \cup Bindings, SendProviderInput(p)
      PROVE  EndingBound'
    BY <1>5, SendProviderInputDoes DEF Has, Others, Durably, Rest, EndingBound, Open,
       TypeOK, DurableTyped
<1>6. ASSUME NEW p \in Tasks, LookupTerminal(p)
      PROVE  EndingBound'
    BY <1>6, LookupTerminalDoes DEF Has, Others, Durably, Rest, EndingBound, Open, TypeOK,
       DurableTyped
<1>7. ASSUME NEW p \in Tasks, PersistTerminal(p)
      PROVE  EndingBound'
    BY <1>7, PersistTerminalDoes DEF Has, Others, Durably, Rest, EndingBound, Open,
       TypeOK, DurableTyped
<1>8. ASSUME NEW p \in Tasks, Cleanup(p)
      PROVE  EndingBound'
    <2>1. Others(p) /\ pc'[p] \notin {"claim", "token"} /\ turn[p] \notin Open /\ Durably
        BY <1>8, CleanupDoes DEF Rest
    <2>2. \/ cur' = cur /\ bound' = bound
          \/ /\ bound # None /\ cur[bound] = turn[p]
        BY <1>8, CleanupDoes
    <2>3. CASE cur' = cur /\ bound' = bound
        BY <2>1, <2>3 DEF Others, Durably, EndingBound
    <2>4. CASE bound # None /\ cur[bound] = turn[p]
        BY <2>1, <2>4 DEF Others, Durably, EndingBound
    <2> QED
        BY <2>2, <2>3, <2>4
<1>9. ASSUME NEW p \in Bindings, ProviderCompleted(p) \/ ProviderFailed(p)
      PROVE  EndingBound'
    <2>1. /\ Others(p) /\ pc'[p] \notin {"claim", "token"} /\ Durably /\ bound' = bound
            /\ cur' = cur
        BY <1>9, ProviderAnswersDoes DEF Reading
    <2> QED
        BY <2>1 DEF Others, Durably, EndingBound
<1>10. ASSUME NEW p \in Bindings, StreamEnds(p)
      PROVE  EndingBound'
    BY <1>10, StreamEndsDoes DEF Has, Others, Durably, Rest, EndingBound, Open, TypeOK,
       DurableTyped
<1>11. ASSUME Restart
      PROVE  EndingBound'
    BY <1>11, RestartDoes DEF EndingBound, Open, TypeOK, DurableTyped
<1>12. ASSUME NEW p \in Senders, AcquireTransition(p) \/ ResumeBegin(p) \/
             SelectRefused(p) \/ SelectSame(p) \/ SelectSwitch(p) \/ CancelIdleFails(p) \/
             PrepareRead(p) \/ PrepareSave(p) \/ AttachBound(p) \/ AttachFails(p) \/
             ResumeAppend(p) \/ ResumeSave(p) \/ ResumeFails(p)
      PROVE  EndingBound'
    <2>1. p \in Tasks /\ Others(p)
        BY <1>12, SelectMoves DEF MovesTo, Went, Left, Entered, Returned, Tasks
    <2>2. pc'[p] \in {"claim", "token"} /\ turn'[p] \in Open /\ bind'[p] # None =>
              bound = bind'[p] /\ cur[bind'[p]] = turn'[p]
        BY <1>12, <2>1, SelectMoves DEF MovesTo, Went, Left, Entered, Returned, Has, Rest,
           EndingBound, SentOpen, ReadOpen, Reading
    <2>3. Calm
        BY <1>12, SelectCalm
    <2> QED
        BY <2>1, <2>2, <2>3 DEF Calm, Others, EndingBound
<1>13. ASSUME NEW p \in Senders \cup Bindings, ReadRow(p) \/ ReadHistory(p) \/ SaveRow(p)
             \/ SendTurnFails(p) \/ SendProviderInputFails(p)
      PROVE  EndingBound'
    <2>1. p \in Tasks /\ Others(p)
        BY <1>13, SendMoves DEF MovesTo, Went, Left, Entered, Returned, Tasks
    <2>2. pc'[p] \in {"claim", "token"} /\ turn'[p] \in Open /\ bind'[p] # None =>
              bound = bind'[p] /\ cur[bind'[p]] = turn'[p]
        BY <1>13, <2>1, SendMoves DEF MovesTo, Went, Left, Entered, Returned, Has, Rest,
           EndingBound, SentOpen, ReadOpen, Reading
    <2>3. Calm
        BY <1>13, SendCalm
    <2> QED
        BY <2>1, <2>2, <2>3 DEF Calm, Others, EndingBound
<1>14. ASSUME NEW p \in Tasks, ClaimCommitted(p) \/ ClaimLead(p) \/ ClaimTimesOut(p) \/
             AcquireToken(p) \/ PersistFails(p)
      PROVE  EndingBound'
    <2>1. p \in Tasks /\ Others(p)
        BY <1>14, EndMoves DEF MovesTo, Went, Left, Entered, Returned, Tasks
    <2>2. pc'[p] \in {"claim", "token"} /\ turn'[p] \in Open /\ bind'[p] # None =>
              bound = bind'[p] /\ cur[bind'[p]] = turn'[p]
        BY <1>14, <2>1, EndMoves DEF MovesTo, Went, Left, Entered, Returned, Has, Rest,
           EndingBound, SentOpen, ReadOpen, Reading
    <2>3. Calm
        BY <1>14, EndCalm
    <2> QED
        BY <2>1, <2>2, <2>3 DEF Calm, Others, EndingBound
<1>15. ASSUME NEW p \in Bindings, EmitCompleted(p) \/ EmitFailed(p) \/ DispatchNext(p) \/
             NothingQueued(p)
      PROVE  EndingBound'
    <2>1. p \in Tasks /\ Others(p)
        BY <1>15, BridgeMoves DEF MovesTo, Went, Left, Entered, Returned, Tasks
    <2>2. pc'[p] \in {"claim", "token"} /\ turn'[p] \in Open /\ bind'[p] # None =>
              bound = bind'[p] /\ cur[bind'[p]] = turn'[p]
        BY <1>15, <2>1, BridgeMoves DEF MovesTo, Went, Left, Entered, Returned, Has, Rest,
           EndingBound, SentOpen, ReadOpen, Reading
    <2>3. Calm
        BY <1>15, BridgeCalm
    <2> QED
        BY <2>1, <2>2, <2>3 DEF Calm, Others, EndingBound
<1>16. ASSUME AppendOther \/ UNCHANGED vars
      PROVE  EndingBound'
    BY <1>16, OtherCalm DEF Calm, EndingBound
<1> QED
    BY <1>1, <1>2, <1>3, <1>4, <1>5, <1>6, <1>7, <1>8, <1>9, <1>10, <1>11, <1>12, <1>13,
       <1>14, <1>15, <1>16 DEF Next, SenderStep, SendTurnStep, TerminalizeStep,
       BridgeStep, ProviderAnswers, Tasks

(* A turn is recorded as completed on the answer to its own prompt.        *)
LEMMA EvidenceStep ==
    ASSUME Aborters = {}, TypeOK, Known, Places, Locked, Committed, Asked, EndedStarted,
           OpenIsActive, SoleOwner, SentOpen, AnswerDue, ReadOpen, EndingBound, Evidence,
           [Next]_vars
    PROVE  Evidence'
<1>1. ASSUME NEW p \in Senders, CancelIdle(p)
      PROVE  Evidence'
    BY <1>1, CancelIdleDoes DEF Has, Others, Durably, Rest, Evidence, CompletedWasDone,
       Sources
<1>2. ASSUME NEW p \in Senders, NEW b \in Bindings, AttachNew(p, b)
      PROVE  Evidence'
    <2>1. /\ Durably /\ done' = done /\ pc'[p] # "completed" /\ pc'[b] # "completed"
            /\ src'[p] \in {src[p], None}
          /\ \A q \in Tasks : turn'[q] = turn[q]
          /\ \A q \in Tasks \ {p, b} : pc'[q] = pc[q]
          /\ \A q \in Tasks \ {p} : src'[q] = src[q]
        BY <1>2, AttachMoves, AttachNewDoes DEF Has
    <2> QED
        BY <2>1 DEF Durably, Evidence, CompletedWasDone, Sources
<1>3. ASSUME NEW p \in Senders \cup Bindings, NEW t \in Turns, AppendStarted(p, t)
      PROVE  Evidence'
    <2>1. /\ p \in Tasks /\ pc[p] = "start" /\ Others(p) /\ pc'[p] = "save" /\ src'[p] = src[p]
          /\ terminal' = terminal /\ done' = done
        BY <1>3, AppendStartedDoes DEF Has
    <2>2. src[p] # "Completed"
        BY <2>1 DEF Asked, Ending
    <2> QED
        BY <2>1, <2>2 DEF Others, Evidence, CompletedWasDone
<1>4. ASSUME NEW p \in Senders \cup Bindings, SetActiveTurn(p)
      PROVE  Evidence'
    BY <1>4, SetActiveTurnDoes DEF Has, Others, Durably, Rest, Evidence, CompletedWasDone,
       Sources
<1>5. ASSUME NEW p \in Senders \cup Bindings, SendProviderInput(p)
      PROVE  Evidence'
    BY <1>5, SendProviderInputDoes DEF Has, Others, Durably, Rest, Evidence,
       CompletedWasDone, Sources
<1>6. ASSUME NEW p \in Tasks, LookupTerminal(p)
      PROVE  Evidence'
    BY <1>6, LookupTerminalDoes DEF Has, Others, Durably, Rest, Evidence,
       CompletedWasDone, Sources
<1>7. ASSUME NEW p \in Tasks, PersistTerminal(p)
      PROVE  Evidence'
    <2>1. /\ Others(p) /\ Has(p, "cleanup", turn[p], bind[p], src[p]) /\ done' = done
          /\ \A t \in Turns : terminal'[t] # terminal[t] => t = turn[p] /\ terminal'[t] = KindOf(src[p])
        BY <1>7, PersistTerminalDoes
    <2>2. KindOf(src[p]) = "completed" => turn[p] \in done
        BY DEF KindOf, Evidence
    <2> QED
        BY <2>1, <2>2 DEF Has, Others, Evidence, CompletedWasDone
<1>8. ASSUME NEW p \in Tasks, Cleanup(p)
      PROVE  Evidence'
    BY <1>8, CleanupDoes DEF Has, Others, Durably, Rest, Evidence, CompletedWasDone,
       Sources
<1>9. ASSUME NEW p \in Bindings, ProviderCompleted(p) \/ ProviderFailed(p)
      PROVE  Evidence'
    <2>1. /\ p \in Tasks /\ Others(p) /\ pc[p] = "stream" /\ turn'[p] = cur[p]
            /\ src'[p] = src[p]
          /\ Durably /\ done \subseteq done' /\ (pc'[p] = "completed" => cur[p] \in done')
        BY <1>9, ProviderAnswersDoes
    <2>2. src[p] # "Completed"
        BY <2>1 DEF Asked, Ending
    <2> QED
        BY <2>1, <2>2 DEF Others, Durably, Evidence, CompletedWasDone
<1>10. ASSUME NEW p \in Bindings, StreamEnds(p)
      PROVE  Evidence'
    BY <1>10, StreamEndsDoes DEF Has, Others, Durably, Rest, Evidence, CompletedWasDone,
       Sources
<1>11. ASSUME Restart
      PROVE  Evidence'
    <2>1. /\ \A t \in Turns : terminal'[t] # terminal[t] => terminal'[t] = "aborted"
          /\ \A p \in Tasks : pc'[p] \in {"idle", "off", "ended"} /\ src'[p] = None
          /\ done' = done
        BY <1>11, RestartDoes
    <2> QED
        BY <2>1 DEF Evidence, CompletedWasDone, Sources
<1>12. ASSUME NEW p \in Senders, AcquireTransition(p) \/ ResumeBegin(p) \/
             SelectRefused(p) \/ SelectSame(p) \/ SelectSwitch(p) \/ CancelIdleFails(p) \/
             PrepareRead(p) \/ PrepareSave(p) \/ AttachBound(p) \/ AttachFails(p) \/
             ResumeAppend(p) \/ ResumeSave(p) \/ ResumeFails(p)
      PROVE  Evidence'
    <2>1. p \in Tasks /\ Others(p)
        BY <1>12, SelectMoves DEF MovesTo, Went, Left, Entered, Returned, Tasks
    <2>2. pc'[p] = "completed" \/ src'[p] = "Completed" => turn'[p] \in done
        BY <1>12, <2>1, SelectMoves DEF MovesTo, Went, Left, Entered, Returned, Has, Rest,
           Evidence, Sources, Asked, Ending
    <2>3. Calm
        BY <1>12, SelectCalm
    <2> QED
        BY <2>1, <2>2, <2>3 DEF Calm, Others, Evidence, CompletedWasDone
<1>13. ASSUME NEW p \in Senders \cup Bindings, ReadRow(p) \/ ReadHistory(p) \/ SaveRow(p)
             \/ SendTurnFails(p) \/ SendProviderInputFails(p)
      PROVE  Evidence'
    <2>1. p \in Tasks /\ Others(p)
        BY <1>13, SendMoves DEF MovesTo, Went, Left, Entered, Returned, Tasks
    <2>2. pc'[p] = "completed" \/ src'[p] = "Completed" => turn'[p] \in done
        BY <1>13, <2>1, SendMoves DEF MovesTo, Went, Left, Entered, Returned, Has, Rest,
           Evidence, Sources, Asked, Ending
    <2>3. Calm
        BY <1>13, SendCalm
    <2> QED
        BY <2>1, <2>2, <2>3 DEF Calm, Others, Evidence, CompletedWasDone
<1>14. ASSUME NEW p \in Tasks, ClaimCommitted(p) \/ ClaimLead(p) \/ ClaimTimesOut(p) \/
             AcquireToken(p) \/ PersistFails(p)
      PROVE  Evidence'
    <2>1. p \in Tasks /\ Others(p)
        BY <1>14, EndMoves DEF MovesTo, Went, Left, Entered, Returned, Tasks
    <2>2. pc'[p] = "completed" \/ src'[p] = "Completed" => turn'[p] \in done
        BY <1>14, <2>1, EndMoves DEF MovesTo, Went, Left, Entered, Returned, Has, Rest,
           Evidence, Sources, Asked, Ending
    <2>3. Calm
        BY <1>14, EndCalm
    <2> QED
        BY <2>1, <2>2, <2>3 DEF Calm, Others, Evidence, CompletedWasDone
<1>15. ASSUME NEW p \in Bindings, EmitCompleted(p) \/ EmitFailed(p) \/ DispatchNext(p) \/
             NothingQueued(p)
      PROVE  Evidence'
    <2>1. p \in Tasks /\ Others(p)
        BY <1>15, BridgeMoves DEF MovesTo, Went, Left, Entered, Returned, Tasks
    <2>2. pc'[p] = "completed" \/ src'[p] = "Completed" => turn'[p] \in done
        BY <1>15, <2>1, BridgeMoves DEF MovesTo, Went, Left, Entered, Returned, Has, Rest,
           Evidence, Sources, Asked, Ending
    <2>3. Calm
        BY <1>15, BridgeCalm
    <2> QED
        BY <2>1, <2>2, <2>3 DEF Calm, Others, Evidence, CompletedWasDone
<1>16. ASSUME AppendOther \/ UNCHANGED vars
      PROVE  Evidence'
    BY <1>16, OtherCalm DEF Calm, Evidence, CompletedWasDone
<1> QED
    BY <1>1, <1>2, <1>3, <1>4, <1>5, <1>6, <1>7, <1>8, <1>9, <1>10, <1>11, <1>12, <1>13,
       <1>14, <1>15, <1>16 DEF Next, SenderStep, SendTurnStep, TerminalizeStep,
       BridgeStep, ProviderAnswers, Tasks

(* Nobody walks away from an open turn.                                    *)
LEMMA AttendedStep ==
    ASSUME Aborters = {}, ~StoreFaults, TokensHeld, ClaimsHeld, TokenOfTurn, Attended,
           TypeOK, Known, Places, Locked, Committed, Asked, EndedStarted, OpenIsActive,
           SoleOwner, SentOpen, AnswerDue, ReadOpen, EndingBound, Evidence, [Next]_vars
    PROVE  Attended'
<1>1. ASSUME NEW p \in Tasks, ClaimTimesOut(p)
      PROVE  Attended'
    <2>1. Others(p) /\ pc[p] = "claim" /\ Calm
        BY <1>1, EndMoves, EndCalm DEF Returned, MovesTo
    <2>2. claim[turn[p]] # None /\ turn[p] \in Turns
        BY <1>1, <2>1 DEF ClaimTimesOut, Known, Carried, Carrying, Ending, TypeOK,
           LocalsTyped
    <2>3. claim[turn[p]] \in Tasks /\ turn[claim[turn[p]]] = turn[p]
            /\ pc[claim[turn[p]]] # "claim"
        BY <2>2 DEF ClaimsHeld, TypeOK, ArbiterTyped
    <2>4. turn[p] \notin Open
        BY <2>1, <2>3 DEF SoleOwner
    <2> QED
        BY <2>1, <2>4 DEF Calm, Others, Attended
<1>2. ASSUME NEW p \in Tasks, AcquireToken(p)
      PROVE  Attended'
    <2>1. Others(p) /\ pc[p] = "token" /\ Calm
        BY <1>2, EndMoves, EndCalm DEF Went, Returned, MovesTo
    <2>2. CASE Went(p, "lookup")
        BY <2>1, <2>2 DEF Went, MovesTo, Has, Calm, Others, Attended
    <2>3. CASE bind[p] # None /\ ~(bound = bind[p] /\ cur[bind[p]] = turn[p] /\ tok[bind[p]] = None)
        <3>1. SUFFICES turn[p] \notin Open
            BY <2>1 DEF Calm, Others, Attended
        <3>2. SUFFICES ASSUME turn[p] \in Open
                       PROVE  FALSE
            OBVIOUS
        <3>3. bind[p] \in Bindings /\ cur[bind[p]] = turn[p] /\ tok[bind[p]] # None
            BY <2>1, <2>3, <3>2 DEF EndingBound, TypeOK, LocalsTyped
        <3>4. tok[bind[p]] \in Tasks /\ pc[tok[bind[p]]] # "token"
            BY <3>3 DEF TokensHeld, TypeOK, BindingsTyped
        <3>5. turn[tok[bind[p]]] = turn[p]
            BY <3>2, <3>3 DEF TokenOfTurn, Open, TypeOK, DurableTyped
        <3> QED
            BY <2>1, <3>2, <3>4, <3>5 DEF SoleOwner
    <2> QED
        BY <1>2, <2>2, <2>3, MovesOfAll DEF AcquireToken, Positions
<1>3. ASSUME NEW p \in Tasks, PersistFails(p)
      PROVE  Attended'
    <2>1. Others(p) /\ Calm
        BY <1>3, EndMoves, EndCalm DEF Returned, MovesTo
    <2>2. Open = {}
        BY <1>3, NoneOpen DEF PersistFails, OpenIsActive
    <2> QED
        BY <2>1, <2>2 DEF Calm, Attended
<1>4. ASSUME NEW p \in Senders, CancelIdle(p)
      PROVE  Attended'
    <2>1. pc[p] = "cancelIdle" /\ p \in Tasks /\ Durably
        BY <1>4, CancelIdleDoes
    <2>2. Open' = {}
        BY <2>1, NoneOpen DEF OpenIsActive, Durably
    <2> QED
        BY <2>2 DEF Attended
<1>5. ASSUME NEW p \in Senders, NEW b \in Bindings, AttachNew(p, b)
      PROVE  Attended'
    <2>1. Durably /\ cur' = cur /\ work' = work /\ \A q \in Tasks : turn'[q] = turn[q]
        BY <1>5, AttachMoves, AttachNewDoes DEF Has
    <2> QED
        BY <2>1 DEF Durably, Attended
<1>6. ASSUME NEW p \in Senders \cup Bindings, NEW t \in Turns, AppendStarted(p, t)
      PROVE  Attended'
    <2>1. p \in Tasks /\ pc[p] = "start" /\ turn'[p] = t /\ Open' = Open \cup {t}
        BY <1>6, AppendStartedDoes DEF Has
    <2>2. Open = {}
        BY <2>1, NoneOpen DEF OpenIsActive
    <2> QED
        BY <2>1, <2>2 DEF Attended
<1>7. ASSUME NEW p \in Senders \cup Bindings, SetActiveTurn(p)
      PROVE  Attended'
    <2>1. p \in Tasks /\ pc[p] = "setActive" /\ turn'[p] = turn[p] /\ Durably
        BY <1>7, SetActiveTurnDoes DEF Has
    <2>2. \A t \in Open : t = turn[p]
        BY <2>1 DEF SentOpen, OpenIsActive
    <2> QED
        BY <2>1, <2>2 DEF Durably, Attended
<1>8. ASSUME NEW p \in Senders \cup Bindings, SendProviderInput(p)
      PROVE  Attended'
    <2>1. /\ p \in Tasks /\ pc[p] = "send" /\ bound \in Bindings /\ turn[p] \in Turns
            /\ Durably /\ cur' = cur
          /\ work'[bound] = Append(work[bound], turn[p])
        BY <1>8, SendProviderInputDoes
    <2>2. cur[bound] = turn[p] /\ \A t \in Open : t = turn[p]
        BY <2>1 DEF SentOpen, OpenIsActive, Tasks
    <2>3. work'[bound] # <<>>
        <3>1. work[bound] \in Seq(Turns)
            BY <2>1 DEF TypeOK, ProviderTyped
        <3>2. Append(work[bound], turn[p]) # <<>>
            BY <2>1, <3>1
        <3> QED
            BY <2>1, <3>2
    <2> QED
        BY <2>1, <2>2, <2>3 DEF Durably, Attended
<1>9. ASSUME NEW p \in Tasks, LookupTerminal(p)
      PROVE  Attended'
    <2>1. /\ Durably /\ cur' = cur /\ \A q \in Tasks : turn'[q] = turn[q]
          /\ src[p] \notin {"Quiesce", "Cancel"} => work' = work
        BY <1>9, LookupTerminalDoes DEF Has, Others
    <2>2. src[p] \in {"Quiesce", "Cancel"} => Open = {}
        BY NoneOpen DEF OpenIsActive
    <2> QED
        BY <2>1, <2>2 DEF Durably, Attended
<1>10. ASSUME NEW p \in Tasks, PersistTerminal(p)
      PROVE  Attended'
    <2>1. Open' \subseteq Open /\ cur' = cur /\ work' = work
            /\ \A q \in Tasks : turn'[q] = turn[q]
        BY <1>10, PersistTerminalDoes DEF Has, Others
    <2> QED
        BY <2>1 DEF Attended
<1>11. ASSUME NEW p \in Tasks, Cleanup(p)
      PROVE  Attended'
    <2>1. Others(p) /\ turn[p] \notin Open /\ Durably /\ work' = work
        BY <1>11, CleanupDoes
    <2>2. \/ cur' = cur
          \/ bound # None /\ cur[bound] = turn[p] /\ \A c \in Bindings \ {bound} : cur'[c] = cur[c]
        BY <1>11, CleanupDoes
    <2>3. \A b \in Bindings : cur[b] \in Open /\ work[b] # <<>> => cur'[b] = cur[b]
        BY <2>1, <2>2 DEF AnswerDue
    <2> QED
        BY <2>1, <2>3 DEF Others, Durably, Attended
<1>12. ASSUME NEW p \in Bindings, ProviderCompleted(p) \/ ProviderFailed(p)
      PROVE  Attended'
    <2>1. p \in Tasks /\ turn'[p] = cur[p] /\ cur[p] \in Open /\ Durably
        BY <1>12, ProviderAnswersDoes
    <2>2. \A t \in Open : t = cur[p]
        BY <2>1 DEF OpenIsActive
    <2> QED
        BY <2>1, <2>2 DEF Durably, Attended
<1>13. ASSUME NEW p \in Bindings, StreamEnds(p)
      PROVE  Attended'
    BY <1>13, StreamEndsDoes DEF Has, Others, Durably, Rest, Attended
<1>14. ASSUME Restart
      PROVE  Attended'
    BY <1>14, RestartDoes DEF Attended
<1>15. ASSUME NEW p \in Senders, AcquireTransition(p) \/ ResumeBegin(p) \/
             SelectRefused(p) \/ SelectSame(p) \/ SelectSwitch(p) \/ CancelIdleFails(p) \/
             PrepareRead(p) \/ PrepareSave(p) \/ AttachBound(p) \/ AttachFails(p) \/
             ResumeAppend(p) \/ ResumeSave(p) \/ ResumeFails(p)
      PROVE  Attended'
    <2>1. p \in Tasks /\ Others(p)
        BY <1>15, SelectMoves DEF MovesTo, Went, Left, Entered, Returned, Tasks
    <2>2. turn[p] \in Open => turn'[p] = turn[p]
        BY <1>15, <2>1, SelectMoves DEF MovesTo, Went, Left, Entered, Returned, Has, Rest,
           Known, Carried, Carrying, Reading, Ending, SentOpen, ReadOpen, Open, TypeOK,
           DurableTyped, SendTurnFails
    <2>3. Calm
        BY <1>15, SelectCalm
    <2> QED
        BY <2>1, <2>2, <2>3 DEF Calm, Others, Attended
<1>16. ASSUME NEW p \in Senders \cup Bindings, ReadRow(p) \/ ReadHistory(p) \/ SaveRow(p)
             \/ SendTurnFails(p) \/ SendProviderInputFails(p)
      PROVE  Attended'
    <2>1. p \in Tasks /\ Others(p)
        BY <1>16, SendMoves DEF MovesTo, Went, Left, Entered, Returned, Tasks
    <2>2. turn[p] \in Open => turn'[p] = turn[p]
        BY <1>16, <2>1, SendMoves DEF MovesTo, Went, Left, Entered, Returned, Has, Rest,
           Known, Carried, Carrying, Reading, Ending, SentOpen, ReadOpen, Open, TypeOK,
           DurableTyped, SendTurnFails
    <2>3. Calm
        BY <1>16, SendCalm
    <2> QED
        BY <2>1, <2>2, <2>3 DEF Calm, Others, Attended
<1>17. ASSUME NEW p \in Tasks, ClaimCommitted(p) \/ ClaimLead(p)
      PROVE  Attended'
    <2>1. p \in Tasks /\ Others(p)
        BY <1>17, EndMoves DEF MovesTo, Went, Left, Entered, Returned, Tasks
    <2>2. turn[p] \in Open => turn'[p] = turn[p]
        BY <1>17, <2>1, EndMoves DEF MovesTo, Went, Left, Entered, Returned, Has, Rest,
           Known,
           Carried, Carrying, Reading, Ending, SentOpen, ReadOpen, Open, TypeOK, DurableTyped,
           SendTurnFails
    <2>3. Calm
        BY <1>17, EndCalm
    <2> QED
        BY <2>1, <2>2, <2>3 DEF Calm, Others, Attended
<1>18. ASSUME NEW p \in Bindings, EmitCompleted(p) \/ EmitFailed(p) \/ DispatchNext(p) \/
             NothingQueued(p)
      PROVE  Attended'
    <2>1. p \in Tasks /\ Others(p)
        BY <1>18, BridgeMoves DEF MovesTo, Went, Left, Entered, Returned, Tasks
    <2>2. turn[p] \in Open => turn'[p] = turn[p]
        BY <1>18, <2>1, BridgeMoves DEF MovesTo, Went, Left, Entered, Returned, Has, Rest,
           Known, Carried, Carrying, Reading, Ending, SentOpen, ReadOpen, Open, TypeOK,
           DurableTyped, SendTurnFails
    <2>3. Calm
        BY <1>18, BridgeCalm
    <2> QED
        BY <2>1, <2>2, <2>3 DEF Calm, Others, Attended
<1>19. ASSUME AppendOther \/ UNCHANGED vars
      PROVE  Attended'
    BY <1>19, OtherCalm DEF Calm, Attended
<1> QED
    BY <1>1, <1>2, <1>3, <1>4, <1>5, <1>6, <1>7, <1>8, <1>9, <1>10, <1>11, <1>12, <1>13,
       <1>14, <1>15, <1>16, <1>17, <1>18, <1>19 DEF Next, SenderStep, SendTurnStep,
       TerminalizeStep, BridgeStep, ProviderAnswers, Tasks

LEMMA QuietInit == Init => QuietInv /\ Attended
<1> SUFFICES ASSUME Init
             PROVE  QuietInv /\ Attended
    OBVIOUS
<1>1. Open = {}
    BY DEF Init, Open
<1>2. \A p \in Tasks : pc[p] \in {"idle", "off"} /\ turn[p] = None /\ src[p] = None
    BY DEF Init
<1>3. \A b \in Bindings : work[b] = <<>>
    BY DEF Init
<1>4. row = "Active" /\ proj.turn = None /\ \A t \in Turns : terminal[t] = None
    BY DEF Init, Projection
<1>5. Asked /\ EndedStarted /\ OpenIsActive
    BY <1>1, <1>2, <1>4 DEF Asked, EndedStarted, OpenIsActive, Sources
<1>6. SoleOwner /\ SentOpen /\ AnswerDue /\ ReadOpen /\ EndingBound
    BY <1>1, <1>2, <1>3 DEF SoleOwner, SentOpen, AnswerDue, ReadOpen, EndingBound,
       Reading, Tasks
<1>7. Evidence
    BY <1>2, <1>4 DEF Evidence, CompletedWasDone, Sources, Kinds
<1>8. Attended
    BY <1>1 DEF Attended
<1> QED
    BY <1>5, <1>6, <1>7, <1>8 DEF QuietInv

LEMMA QuietStep ==
    ASSUME Aborters = {}
    PROVE  /\ IInv /\ QuietInv /\ [Next]_vars => QuietInv'
           /\ ~StoreFaults /\ IInv /\ QuietInv /\ Attended /\ [Next]_vars => Attended'
<1>1. ASSUME IInv, QuietInv, [Next]_vars
      PROVE  QuietInv'
    <2> /\ TypeOK /\ Known /\ Places /\ Locked /\ Committed
        /\ Asked /\ EndedStarted /\ OpenIsActive /\ SoleOwner /\ SentOpen /\ AnswerDue
             /\ ReadOpen
        /\ EndingBound /\ Evidence
        BY <1>1 DEF IInv, QuietInv
    <2>1. Asked' /\ EndedStarted' /\ OpenIsActive'
        BY <1>1, AskedStep, EndedStartedStep, OpenIsActiveStep
    <2>2. SoleOwner' /\ SentOpen' /\ AnswerDue'
        BY <1>1, SoleOwnerStep, SentOpenStep, AnswerDueStep
    <2>3. ReadOpen' /\ EndingBound' /\ Evidence'
        BY <1>1, ReadOpenStep, EndingBoundStep, EvidenceStep
    <2> QED
        BY <2>1, <2>2, <2>3 DEF QuietInv
<1>2. ASSUME ~StoreFaults, IInv, QuietInv, Attended, [Next]_vars
      PROVE  Attended'
    BY <1>2, AttendedStep DEF IInv, QuietInv
<1> QED
    BY <1>1, <1>2

(* In a session nobody aborts the second invariant holds as well, whatever *)
(* the store refuses and wherever the process dies.                        *)
THEOREM QuietInvariance ==
    ASSUME Aborters = {}
    PROVE  Spec => []QuietInv
<1>1. Init => IInv /\ QuietInv
    BY InitInv, QuietInit
<1>2. IInv /\ QuietInv /\ [Next]_vars => IInv' /\ QuietInv'
    BY StepInv, QuietStep
<1> QED
    BY <1>1, <1>2, PTL DEF Spec

(* "session already has an active turn": any number of senders and         *)
(* dispatching bridges never have two turns without a terminal row, though *)
(* send_turn reads the projection and appends TurnStarted without a        *)
(* transaction.                                                            *)
THEOREM OneTurnAtATime ==
    ASSUME Aborters = {}
    PROVE  Spec => []OneOpenTurn
<1>1. IInv /\ QuietInv => OneOpenTurn
    <2> SUFFICES ASSUME IInv, QuietInv
                 PROVE  OneOpenTurn
        OBVIOUS
    <2>1. Open = {} \/ Open = {proj.turn}
        BY DEF QuietInv, OpenIsActive
    <2>2. Cardinality({}) = 0 /\ Cardinality({proj.turn}) = 1
        BY FS_EmptySet, FS_Singleton
    <2> QED
        BY <2>1, <2>2 DEF OneOpenTurn
<1> QED
    BY <1>1, LifecycleInvariance, QuietInvariance, PTL

(* "an old stream cannot finalize the replacement turn": a turn recorded   *)
(* as completed was completed by the provider, on its own prompt, though   *)
(* the bridge attributes the result to whatever turn the binding carries   *)
(* when it reads the event.                                                *)
THEOREM CompletedTurnsWereDone ==
    ASSUME Aborters = {}
    PROVE  Spec => []CompletedWasDone
<1>1. QuietInv => CompletedWasDone
    BY DEF QuietInv, Evidence
<1> QED
    BY <1>1, QuietInvariance, PTL

(* With a store that takes its writes no path of a send, a dispatch, a     *)
(* bridge or terminalize_turn_with_binding walks away from an open turn:   *)
(* a task has it in hand, or its provider owes the answer on the binding   *)
(* that carries it.                                                        *)
THEOREM OpenTurnsAreAttended ==
    ASSUME Aborters = {}, ~StoreFaults
    PROVE  Spec => []OpenTurnIsAttended
<1>1. Init => IInv /\ QuietInv /\ Attended
    BY InitInv, QuietInit
<1>2. IInv /\ QuietInv /\ Attended /\ [Next]_vars => IInv' /\ QuietInv' /\ Attended'
    BY StepInv, QuietStep
<1>3. IInv /\ QuietInv /\ Attended => OpenTurnIsAttended
    <2> SUFFICES ASSUME IInv, QuietInv, Attended
                 PROVE  OpenTurnIsAttended
        OBVIOUS
    <2>1. ASSUME NEW b \in Bindings, work[b] # <<>>
          PROVE  \E i \in DOMAIN work[b] : work[b][i] = cur[b]
        <3>1. work[b] = <<cur[b]>>
            BY <2>1 DEF QuietInv, AnswerDue
        <3>2. 1 \in DOMAIN <<cur[b]>> /\ <<cur[b]>>[1] = cur[b]
            OBVIOUS
        <3> QED
            BY <3>1, <3>2
    <2> QED
        BY <2>1 DEF Attended, OpenTurnIsAttended
<1> QED
    BY <1>1, <1>2, <1>3, PTL DEF Spec

(* A restart ends every open turn of such a session: its row is active, so *)
(* recover_orphaned_running_turns finds it.                                *)
THEOREM RestartEndsTurns ==
    ASSUME Aborters = {}
    PROVE  Spec => RestartEndsEveryTurn
<1>1. IInv /\ QuietInv /\ [Next]_vars => [Restart => Open' = {}]_vars
    BY RestartDoes DEF IInv, QuietInv
<1> QED
    BY <1>1, LifecycleInvariance, QuietInvariance, PTL DEF Spec, RestartEndsEveryTurn


=============================================================================
