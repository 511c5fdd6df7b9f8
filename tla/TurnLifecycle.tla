--------------------------- MODULE TurnLifecycle ---------------------------
(***************************************************************************)
(* One session and everything that starts, binds, ends or revives its      *)
(* turns at the same time:                                                 *)
(*                                                                         *)
(*   senders   send_turn_with_state and the resume handler, under the      *)
(*             session's provider transition lock;                         *)
(*   bridges   the task that reads one provider stream (a binding is also  *)
(*             the name of its bridge), ends the turn the stream reports   *)
(*             and dispatches the next queued one under the lock;          *)
(*   aborters  abort_run_with_state, which takes no lock at all.           *)
(*                                                                         *)
(* The session's history is kept as what its readers fold it into: the     *)
(* projection, the terminal row of each turn, the SessionAborted ids and   *)
(* whether the last event is a TurnAborted.  The session row is a second   *)
(* durable copy of the state, saved apart from the history.  The arbiter   *)
(* is the promise module TerminalArbiter is shown to keep (one leader per  *)
(* turn, others wait for its outcome or time out); its registry limits are *)
(* checked there.  Queue contents are module TurnQueue: here a dispatch    *)
(* may or may not find something to send.                                  *)
(***************************************************************************)
EXTENDS Naturals, Sequences, FiniteSets

CONSTANTS
    Turns,        \* turn ids that may be drawn
    Bindings,     \* provider sessions that may be prepared
    Senders,      \* tasks that send turns or resume the session
    Aborters,     \* tasks that stop the run
    StoreFaults,  \* may the store refuse a write
    None          \* nothing

Tasks == Senders \cup Bindings \cup Aborters
Sources == {"Completed", "ProviderFailed", "Quiesce", "Cancel", "Unbound", "Resume"}
Kinds == {"completed", "aborted"}

ASSUME LifecycleConstants ==
    /\ StoreFaults \in BOOLEAN
    /\ None \notin Turns \cup Tasks \cup Sources \cup Kinds
    /\ Senders \cap Aborters = {}
    /\ Bindings \cap (Senders \cup Aborters) = {}

VARIABLES
    row,          \* dcc_sessions.state
    proj,         \* SessionProjection: state, active turn; turn of a last TurnAborted
    started,      \* turns with a TurnStarted event
    terminal,     \* the terminal row of each turn
    sessionAborts,\* turns with their SessionAborted event
    bound,        \* store.provider_sessions[session]
    cur,          \* binding -> current_turn_id
    tok,          \* binding -> task that holds its terminal token
    lock,         \* task that holds the provider transition
    claim,        \* turn -> leader in the arbiter
    tomb,         \* turn -> committed outcome in the arbiter
    work,         \* binding -> prompts its provider still has to answer
    dead,         \* bindings whose provider was cancelled or is gone
    done,         \* history: turns whose prompt the provider completed
    pc, turn, bind, src, ins  \* per task: position, turn, binding, request, inserted

durable  == <<row, proj, started, terminal, sessionAborts>>
bindings == <<bound, cur, tok>>
arbiter  == <<claim, tomb>>
provider == <<work, dead, done>>
locals   == <<turn, bind, src, ins>>
vars == <<durable, bindings, lock, arbiter, provider, pc, locals>>

Open == {t \in started : terminal[t] = None}

-----------------------------------------------------------------------------
(* SessionProjection::apply_event for the kinds that matter here.          *)

Projection(state, active, last) == [state |-> state, turn |-> active, last |-> last]

OnTurnStarted(p, t) == Projection("Active", t, None)

OnTerminal(p, t, kind) ==
    Projection(p.state, IF p.turn = t THEN None ELSE p.turn, IF kind = "aborted" THEN t ELSE None)

OnSessionAborted(p) == Projection("Aborted", None, None)
OnSessionResumed(p) == Projection("Active", p.turn, None)

(* append_event of a terminal kind: the first row of the turn wins.        *)
AppendTerminal(t, kind) ==
    IF terminal[t] # None
    THEN UNCHANGED <<proj, terminal>>
    ELSE /\ terminal' = [terminal EXCEPT ![t] = kind]
         /\ proj' = OnTerminal(proj, t, kind)

-----------------------------------------------------------------------------
Init ==
    /\ row = "Active"
    /\ proj = Projection("Active", None, None)
    /\ started = {} /\ sessionAborts = {}
    /\ terminal = [t \in Turns |-> None]
    /\ bound = None
    /\ cur = [b \in Bindings |-> None]
    /\ tok = [b \in Bindings |-> None]
    /\ lock = None
    /\ claim = [t \in Turns |-> None]
    /\ tomb = [t \in Turns |-> None]
    /\ work = [b \in Bindings |-> <<>>]
    /\ dead = {} /\ done = {}
    /\ pc = [p \in Tasks |-> IF p \in Bindings THEN "off" ELSE "idle"]
    /\ turn = [p \in Tasks |-> None]
    /\ bind = [p \in Tasks |-> None]
    /\ src = [p \in Tasks |-> None]
    /\ ins = [p \in Tasks |-> FALSE]

At(p, here) == pc[p] = here
Goto(p, there) == pc' = [pc EXCEPT ![p] = there]
Rest(p) == IF p \in Bindings THEN "stream" ELSE "idle"

(* The task returns, dropping the transition guard if it holds it.         *)
Leave(p) ==
    /\ pc' = [pc EXCEPT ![p] = Rest(p)]
    /\ lock' = IF lock = p THEN None ELSE lock
    /\ turn' = [turn EXCEPT ![p] = None]
    /\ bind' = [bind EXCEPT ![p] = None]
    /\ src' = [src EXCEPT ![p] = None]
    /\ ins' = [ins EXCEPT ![p] = FALSE]

(* Enter terminalize_turn_with_binding for turn t.                         *)
Terminalize(p, t, source, b) ==
    /\ pc' = [pc EXCEPT ![p] = "claim"]
    /\ turn' = [turn EXCEPT ![p] = t]
    /\ bind' = [bind EXCEPT ![p] = b]
    /\ src' = [src EXCEPT ![p] = source]
    /\ ins' = [ins EXCEPT ![p] = FALSE]
    /\ UNCHANGED lock

-----------------------------------------------------------------------------
(* send_turn_with_state: selection and attach.                             *)

\* Variant: the sender does not wait for the transition.
AcquireTransitionUnlocked(p) ==
    /\ At(p, Rest(p)) /\ p \in Senders
    /\ lock' = p
    /\ Goto(p, "select")
    /\ UNCHANGED <<durable, bindings, arbiter, provider, locals>>

AcquireTransition(p) ==
    /\ At(p, Rest(p)) /\ p \in Senders
    /\ lock = None
    /\ lock' = p
    /\ Goto(p, "select")
    /\ UNCHANGED <<durable, bindings, arbiter, provider, locals>>

(* The request is not valid for the session's provider.                    *)
SelectRefused(p) ==
    /\ At(p, "select")
    /\ Leave(p)
    /\ UNCHANGED <<durable, bindings, arbiter, provider>>

(* The selection is unchanged: prepare_session_for_turn wants an active    *)
(* row and has nothing to save.                                            *)
SelectSame(p) ==
    /\ At(p, "select")
    /\ IF row = "Active" THEN Goto(p, "attach") /\ UNCHANGED <<lock, locals>> ELSE Leave(p)
    /\ UNCHANGED <<durable, bindings, arbiter, provider>>

(* Another provider or model: refused while a turn is active, otherwise    *)
(* cancel_provider_session first, through the arbiter if the binding still *)
(* carries a turn and through an idle token if it does not.                *)
SelectSwitch(p) ==
    /\ At(p, "select")
    /\ \/ /\ proj.turn # None
          /\ Leave(p)
          /\ UNCHANGED tok
       \/ /\ proj.turn = None /\ bound # None /\ cur[bound] # None
          /\ Terminalize(p, cur[bound], "Cancel", bound)
          /\ UNCHANGED tok
       \/ /\ proj.turn = None /\ bound # None /\ cur[bound] = None /\ tok[bound] = None
          /\ tok' = [tok EXCEPT ![bound] = p]
          /\ bind' = [bind EXCEPT ![p] = bound]
          /\ Goto(p, "cancelIdle")
          /\ UNCHANGED <<lock, turn, src, ins>>
       \/ /\ proj.turn = None
          /\ bound # None => cur[bound] = None /\ tok[bound] # None
          /\ Goto(p, "prepare")
          /\ UNCHANGED <<tok, lock, locals>>
    /\ UNCHANGED <<durable, bound, cur, arbiter, provider>>

(* provider.cancel: what the stream already carries may still be read.     *)
CancelHandle(b) ==
    /\ dead' = dead \cup {b}
    /\ work' \in {work, [work EXCEPT ![b] = <<>>]}
    /\ UNCHANGED done

CancelIdle(p) ==
    /\ At(p, "cancelIdle")
    /\ LET b == bind[p]
       IN /\ CancelHandle(b)
          /\ bound' = IF bound = b /\ cur[b] = None THEN None ELSE bound
          /\ tok' = [tok EXCEPT ![b] = None]
    /\ bind' = [bind EXCEPT ![p] = None]
    /\ Goto(p, "prepare")
    /\ UNCHANGED <<durable, cur, lock, arbiter, turn, src, ins>>

CancelIdleFails(p) ==
    /\ At(p, "cancelIdle")
    /\ tok' = [tok EXCEPT ![bind[p]] = None]
    /\ Leave(p)
    /\ UNCHANGED <<durable, bound, cur, arbiter, provider>>

(* prepare_session_for_turn with a new selection: the row read as active   *)
(* is written back whole.                                                  *)
PrepareRead(p) ==
    /\ At(p, "prepare")
    /\ IF row = "Active" THEN Goto(p, "prepareSave") /\ UNCHANGED <<lock, locals>> ELSE Leave(p)
    /\ UNCHANGED <<durable, bindings, arbiter, provider>>

PrepareSave(p) ==
    /\ At(p, "prepareSave")
    /\ row' = "Active"
    /\ Goto(p, "attach")
    /\ UNCHANGED <<proj, started, terminal, sessionAborts, bindings, lock, arbiter, provider, locals>>

(* attach_current_provider_session_under_transition.  A resume stops here. *)
AfterAttach(p, b) ==
    IF src[p] = "Resume"
    THEN Leave(p)
    ELSE /\ Goto(p, "readRow")
         /\ bind' = [bind EXCEPT ![p] = b]
         /\ UNCHANGED <<lock, turn, src, ins>>

AttachBound(p) ==
    /\ At(p, "attach")
    /\ row = "Active" /\ bound # None
    /\ AfterAttach(p, bound)
    /\ UNCHANGED <<durable, bindings, arbiter, provider>>

AttachNew(p, b) ==
    /\ At(p, "attach")
    /\ row = "Active" /\ bound = None
    /\ pc[b] = "off"
    /\ bound' = b
    /\ IF src[p] = "Resume"
       THEN /\ pc' = [pc EXCEPT ![p] = "idle", ![b] = "stream"]
            /\ lock' = None
            /\ src' = [src EXCEPT ![p] = None]
            /\ UNCHANGED <<turn, bind, ins>>
       ELSE /\ pc' = [pc EXCEPT ![p] = "readRow", ![b] = "stream"]
            /\ bind' = [bind EXCEPT ![p] = b]
            /\ UNCHANGED <<lock, turn, src, ins>>
    /\ UNCHANGED <<durable, cur, tok, arbiter, provider>>

(* The attach fails: the row it reads again is not active or cannot be     *)
(* read, which happens with a binding in place too, or the provider cannot *)
(* start.  record_provider_start_failure still records the turn and closes *)
(* it as interrupted; a resume just reports the error.                     *)
AttachFails(p) ==
    /\ At(p, "attach")
    /\ IF src[p] = "Resume"
       THEN Leave(p)
       ELSE /\ Goto(p, "readRow")
            /\ src' = [src EXCEPT ![p] = "Unbound"]
            /\ bind' = [bind EXCEPT ![p] = None]
            /\ UNCHANGED <<lock, turn, ins>>
    /\ UNCHANGED <<durable, bindings, arbiter, provider>>

-----------------------------------------------------------------------------
(* run_send_turn: two reads, the append, and the save of the row read.     *)

ReadRow(p) ==
    /\ At(p, "readRow")
    /\ IF row = "Active" THEN Goto(p, "readHistory") /\ UNCHANGED <<lock, locals>> ELSE Leave(p)
    /\ UNCHANGED <<durable, bindings, arbiter, provider>>

\* Variant: the active turn of the projection is not looked at.
ReadHistoryUnchecked(p) ==
    /\ At(p, "readHistory")
    /\ Goto(p, "start")
    /\ UNCHANGED <<durable, bindings, lock, arbiter, provider, locals>>

ReadHistory(p) ==
    /\ At(p, "readHistory")
    /\ IF proj.turn = None THEN Goto(p, "start") /\ UNCHANGED <<lock, locals>> ELSE Leave(p)
    /\ UNCHANGED <<durable, bindings, arbiter, provider>>

AppendStarted(p, t) ==
    /\ At(p, "start")
    /\ t \notin started
    /\ started' = started \cup {t}
    /\ proj' = OnTurnStarted(proj, t)
    /\ turn' = [turn EXCEPT ![p] = t]
    /\ Goto(p, "save")
    /\ UNCHANGED <<row, terminal, sessionAborts, bindings, lock, arbiter, provider, bind, src, ins>>

(* save_session writes back the row as it was read: active.                *)
SaveRow(p) ==
    /\ At(p, "save")
    /\ row' = "Active"
    /\ IF src[p] = "Unbound"
       THEN Terminalize(p, turn[p], "Unbound", None)
       ELSE Goto(p, "setActive") /\ UNCHANGED <<lock, locals>>
    /\ UNCHANGED <<proj, started, terminal, sessionAborts, bindings, arbiter, provider>>

(* append_event or save_session fails: run_send_turn returns the error.    *)
SendTurnFails(p) ==
    /\ StoreFaults
    /\ pc[p] \in {"prepareSave", "start", "save"}
    /\ Leave(p)
    /\ UNCHANGED <<durable, bindings, arbiter, provider>>

(* set_active_turn, refused while a terminal token is out.                 *)
\* Variant: the terminal token is not consulted.
SetActiveTurnAlways(p) ==
    /\ At(p, "setActive")
    /\ IF bound = None
       THEN Terminalize(p, turn[p], "Unbound", None) /\ UNCHANGED cur
       ELSE /\ cur' = [cur EXCEPT ![bound] = turn[p]]
            /\ Goto(p, "send")
            /\ UNCHANGED <<lock, locals>>
    /\ UNCHANGED <<durable, bound, tok, arbiter, provider>>

SetActiveTurn(p) ==
    /\ At(p, "setActive")
    /\ IF bound = None \/ (bound # None /\ tok[bound] # None)
       THEN Terminalize(p, turn[p], "Unbound", None) /\ UNCHANGED cur
       ELSE /\ cur' = [cur EXCEPT ![bound] = turn[p]]
            /\ Goto(p, "send")
            /\ UNCHANGED <<lock, locals>>
    /\ UNCHANGED <<durable, bound, tok, arbiter, provider>>

SendProviderInput(p) ==
    /\ At(p, "send")
    /\ bound # None /\ bound \notin dead
    /\ work' = [work EXCEPT ![bound] = Append(@, turn[p])]
    /\ Leave(p)
    /\ UNCHANGED <<durable, bindings, arbiter, dead, done>>

(* emit_turn_aborted: ignored if the bound session carries another turn.   *)
EmitAborted(p, t) ==
    IF bound # None /\ cur[bound] \notin {None, t}
    THEN Leave(p)
    ELSE Terminalize(p, t, "ProviderFailed", bound)

\* Variant: a send the provider refuses is reported but the turn is left open.
SendProviderInputFailsOpen(p) ==
    /\ At(p, "send")
    /\ Leave(p)
    /\ UNCHANGED <<durable, bindings, arbiter, provider>>

SendProviderInputFails(p) ==
    /\ At(p, "send")
    /\ EmitAborted(p, turn[p])
    /\ UNCHANGED <<durable, bindings, arbiter, provider>>

(* resume_session under the transition: nothing to do for an active row,   *)
(* else SessionResumed and the row, then attach.                           *)
ResumeBegin(p) ==
    /\ At(p, "idle") /\ p \in Senders
    /\ lock = None
    /\ lock' = p
    /\ src' = [src EXCEPT ![p] = "Resume"]
    /\ Goto(p, IF row = "Active" THEN "attach" ELSE "resumeAppend")
    /\ UNCHANGED <<durable, bindings, arbiter, provider, turn, bind, ins>>

ResumeAppend(p) ==
    /\ At(p, "resumeAppend")
    /\ proj' = OnSessionResumed(proj)
    /\ Goto(p, "resumeSave")
    /\ UNCHANGED <<row, started, terminal, sessionAborts, bindings, lock, arbiter, provider, locals>>

ResumeSave(p) ==
    /\ At(p, "resumeSave")
    /\ row' = "Active"
    /\ Goto(p, "attach")
    /\ UNCHANGED <<proj, started, terminal, sessionAborts, bindings, lock, arbiter, provider, locals>>

ResumeFails(p) ==
    /\ StoreFaults
    /\ pc[p] \in {"resumeAppend", "resumeSave"}
    /\ Leave(p)
    /\ UNCHANGED <<durable, bindings, arbiter, provider>>

-----------------------------------------------------------------------------
(* The bridge of binding b reads its stream.  A result is attributed to    *)
(* the turn the binding carries when the event is read.                    *)

ProviderCompleted(b) ==
    /\ At(b, "stream")
    /\ work[b] # <<>>
    /\ done' = done \cup {Head(work[b])}
    /\ work' = [work EXCEPT ![b] = Tail(@)]
    /\ turn' = [turn EXCEPT ![b] = cur[b]]
    /\ Goto(b, IF cur[b] = None THEN "stream" ELSE "completed")
    /\ UNCHANGED <<durable, bindings, lock, arbiter, dead, bind, src, ins>>

ProviderFailed(b) ==
    /\ At(b, "stream")
    /\ work[b] # <<>>
    /\ work' = [work EXCEPT ![b] = Tail(@)]
    /\ turn' = [turn EXCEPT ![b] = cur[b]]
    /\ Goto(b, IF cur[b] = None THEN "stream" ELSE "failed")
    /\ UNCHANGED <<durable, bindings, lock, arbiter, dead, done, bind, src, ins>>

EmitCompleted(b) ==
    /\ At(b, "completed")
    /\ IF bound # None /\ cur[bound] # turn[b]
       THEN Leave(b)
       ELSE Terminalize(b, turn[b], "Completed", bound)
    /\ UNCHANGED <<durable, bindings, arbiter, provider>>

EmitFailed(b) ==
    /\ At(b, "failed")
    /\ EmitAborted(b, turn[b])
    /\ UNCHANGED <<durable, bindings, arbiter, provider>>

(* The provider goes away once it has answered everything: the bridge      *)
(* removes its own binding, and only while that carries no turn.           *)
StreamEnds(b) ==
    /\ At(b, "stream")
    /\ work[b] = <<>>
    /\ bound' = IF bound = b /\ cur[b] = None THEN None ELSE bound
    /\ dead' = dead \cup {b}
    /\ Goto(b, "ended")
    /\ UNCHANGED <<durable, cur, tok, lock, arbiter, work, done, locals>>

(* dispatch_next_queued_turn: with something queued, run_send_turn under   *)
(* the transition; otherwise back to the stream.                           *)
DispatchNext(b) ==
    /\ At(b, "dispatch")
    /\ lock = None
    /\ lock' = b
    /\ bind' = [bind EXCEPT ![b] = bound]
    /\ Goto(b, "readRow")
    /\ UNCHANGED <<durable, bindings, arbiter, provider, turn, src, ins>>

NothingQueued(b) ==
    /\ At(b, "dispatch")
    /\ Goto(b, "stream")
    /\ UNCHANGED <<durable, bindings, lock, arbiter, provider, locals>>

-----------------------------------------------------------------------------
(* terminalize_turn_with_binding.                                          *)

(* What the caller does with the result.                                   *)
Resumes(p, ok) ==
    CASE p \in Aborters /\ ok -> "abortRead"
      [] p \in Senders /\ ok /\ src[p] = "Cancel" -> "prepare"
      [] p \in Bindings /\ ok /\ src[p] = "Completed" /\ ins[p] -> "dispatch"
      [] OTHER -> Rest(p)

Return(p, ok) ==
    /\ Goto(p, Resumes(p, ok))
    /\ lock' = IF lock = p /\ Resumes(p, ok) # "prepare" THEN None ELSE lock
    /\ turn' = [turn EXCEPT ![p] = None]
    /\ bind' = [bind EXCEPT ![p] = None]
    /\ src' = [src EXCEPT ![p] = None]
    /\ ins' = [ins EXCEPT ![p] = FALSE]

ClaimCommitted(p) ==
    /\ At(p, "claim")
    /\ tomb[turn[p]] # None
    /\ Goto(p, "cleanup")
    /\ UNCHANGED <<durable, bindings, lock, arbiter, provider, locals>>

ClaimLead(p) ==
    /\ At(p, "claim")
    /\ tomb[turn[p]] = None /\ claim[turn[p]] = None
    /\ claim' = [claim EXCEPT ![turn[p]] = p]
    /\ Goto(p, "token")
    /\ UNCHANGED <<durable, bindings, lock, tomb, provider, locals>>

ClaimTimesOut(p) ==
    /\ At(p, "claim")
    /\ tomb[turn[p]] = None /\ claim[turn[p]] # None
    /\ Return(p, FALSE)
    /\ UNCHANGED <<durable, bindings, arbiter, provider>>

(* The leader gives its claim and its token back and reports an error.     *)
\* Variant: the terminal token is not dropped on an error path.
AbandonKeepsToken(p) ==
    /\ claim' = [claim EXCEPT ![turn[p]] = None]
    /\ Return(p, FALSE)
    /\ UNCHANGED <<durable, bindings, tomb, provider>>

Abandon(p) ==
    /\ claim' = [claim EXCEPT ![turn[p]] = None]
    /\ tok' = [b \in Bindings |-> IF tok[b] = p THEN None ELSE tok[b]]
    /\ Return(p, FALSE)
    /\ UNCHANGED <<durable, bound, cur, tomb, provider>>

(* acquire_terminal_token wants the expected binding, carrying the turn.   *)
AcquireToken(p) ==
    /\ At(p, "token")
    /\ LET b == bind[p]
       IN \/ /\ b = None
             /\ Goto(p, "lookup")
             /\ UNCHANGED <<durable, bindings, lock, arbiter, provider, locals>>
          \/ /\ b # None /\ bound = b /\ cur[b] = turn[p] /\ tok[b] = None
             /\ tok' = [tok EXCEPT ![b] = p]
             /\ Goto(p, "lookup")
             /\ UNCHANGED <<durable, bound, cur, lock, arbiter, provider, locals>>
          \/ /\ b # None /\ ~(bound = b /\ cur[b] = turn[p] /\ tok[b] = None)
             /\ Abandon(p)

CommitOutcome(t, outcome) ==
    /\ tomb' = [tomb EXCEPT ![t] = outcome]
    /\ claim' = [claim EXCEPT ![t] = None]

(* find_terminal_event, then the cancellation of the provider.             *)
LookupTerminal(p) ==
    /\ At(p, "lookup")
    /\ \/ /\ terminal[turn[p]] # None
          /\ CommitOutcome(turn[p], terminal[turn[p]])
          /\ Goto(p, "cleanup")
          /\ UNCHANGED provider
       \/ /\ terminal[turn[p]] = None
          /\ IF src[p] \in {"Quiesce", "Cancel"} /\ bind[p] # None
             THEN CancelHandle(bind[p])
             ELSE UNCHANGED provider
          /\ Goto(p, "append")
          /\ UNCHANGED arbiter
    /\ UNCHANGED <<durable, bindings, lock, locals>>

\* Variant: the row records who asked instead of what happened.
KindIsSource(source) == source
KindOf(source) == IF source = "Completed" THEN "completed" ELSE "aborted"

PersistTerminal(p) ==
    /\ At(p, "append")
    /\ AppendTerminal(turn[p], KindOf(src[p]))
    /\ CommitOutcome(turn[p], terminal'[turn[p]])
    /\ ins' = [ins EXCEPT ![p] = terminal[turn[p]] = None]
    /\ Goto(p, "cleanup")
    /\ UNCHANGED <<row, started, sessionAborts, bindings, lock, provider, turn, bind, src>>

(* The provider refuses to be cancelled, or the store the append.          *)
PersistFails(p) ==
    /\ \/ At(p, "lookup") /\ src[p] \in {"Quiesce", "Cancel"} /\ bind[p] # None
             /\ terminal[turn[p]] = None
       \/ At(p, "append") /\ StoreFaults
    /\ Abandon(p)

(* cleanup_terminal_binding and the end of the token: a cancelled binding  *)
(* is removed, any other only loses its turn.                              *)
Cleanup(p) ==
    /\ At(p, "cleanup")
    /\ LET t == turn[p]
           b == bind[p]
           mine == b # None /\ bound = b /\ cur[b] = t
           remove == src[p] \in {"Quiesce", "Cancel"} /\ tomb[t] = "aborted"
       IN /\ bound' = IF mine /\ remove THEN None ELSE bound
          /\ cur' = IF mine /\ ~remove THEN [cur EXCEPT ![b] = None] ELSE cur
    /\ tok' = [b \in Bindings |-> IF tok[b] = p THEN None ELSE tok[b]]
    /\ Return(p, TRUE)
    /\ UNCHANGED <<durable, arbiter, provider>>

-----------------------------------------------------------------------------
(* abort_run_with_state: the active turn is read, quiesced, and abort_run  *)
(* then reads everything again.  No lock is held at any point.             *)

AbortBegin(p) ==
    /\ At(p, "idle") /\ p \in Aborters
    /\ turn' = [turn EXCEPT ![p] = proj.turn]
    /\ Goto(p, IF proj.turn = None THEN "abortRead" ELSE "quiesce")
    /\ UNCHANGED <<durable, bindings, lock, arbiter, provider, bind, src, ins>>

Quiesce(p) ==
    /\ At(p, "quiesce")
    /\ IF bound # None /\ cur[bound] # turn[p]
       THEN Goto(p, "abortRead") /\ UNCHANGED <<lock, locals>>
       ELSE Terminalize(p, turn[p], "Quiesce", bound)
    /\ UNCHANGED <<durable, bindings, arbiter, provider>>

(* Already aborted: repair the row.  Otherwise the active turn, or the one *)
(* a crash left between TurnAborted and SessionAborted.                    *)
AbortRead(p) ==
    /\ At(p, "abortRead")
    /\ LET t == IF proj.turn # None THEN proj.turn ELSE proj.last
       IN IF proj.state = "Aborted"
          THEN row' = "Aborted" /\ Leave(p)
          ELSE /\ UNCHANGED row
               /\ IF t = None
                  THEN Leave(p)
                  ELSE /\ turn' = [turn EXCEPT ![p] = t]
                       /\ Goto(p, "abortTurn")
                       /\ UNCHANGED <<lock, bind, src, ins>>
    /\ UNCHANGED <<proj, started, terminal, sessionAborts, bindings, arbiter, provider>>

AbortTurn(p) ==
    /\ At(p, "abortTurn")
    /\ AppendTerminal(turn[p], "aborted")
    /\ IF terminal[turn[p]] = "completed"
       THEN Leave(p)
       ELSE Goto(p, "abortSession") /\ UNCHANGED <<lock, locals>>
    /\ UNCHANGED <<row, started, sessionAborts, bindings, arbiter, provider>>

AbortSession(p) ==
    /\ At(p, "abortSession")
    /\ sessionAborts' = sessionAborts \cup {turn[p]}
    /\ proj' = IF turn[p] \in sessionAborts THEN proj ELSE OnSessionAborted(proj)
    /\ Goto(p, "abortSave")
    /\ UNCHANGED <<row, started, terminal, bindings, lock, arbiter, provider, locals>>

AbortSave(p) ==
    /\ At(p, "abortSave")
    /\ row' = "Aborted"
    /\ Leave(p)
    /\ UNCHANGED <<proj, started, terminal, sessionAborts, bindings, arbiter, provider>>

AbortFails(p) ==
    /\ StoreFaults
    /\ pc[p] \in {"abortTurn", "abortSession", "abortSave"}
    /\ Leave(p)
    /\ UNCHANGED <<durable, bindings, arbiter, provider>>

(* Any other event lands at the end of the history.                        *)
AppendOther ==
    /\ proj.last # None
    /\ proj' = Projection(proj.state, proj.turn, None)
    /\ UNCHANGED <<row, started, terminal, sessionAborts, bindings, lock, arbiter, provider, pc, locals>>

-----------------------------------------------------------------------------
(* recover_orphaned_running_turns aborts the open turns of active rows.    *)
Recovered == IF row = "Active" THEN Open ELSE {}

(* The process dies and starts again; nothing volatile survives.           *)
Restart ==
    /\ terminal' = [t \in Turns |-> IF t \in Recovered THEN "aborted" ELSE terminal[t]]
    /\ \E last \in IF Recovered = {} THEN {proj.last} ELSE Recovered :
        proj' = Projection(proj.state, IF proj.turn \in Recovered THEN None ELSE proj.turn, last)
    /\ bound' = None
    /\ cur' = [b \in Bindings |-> None]
    /\ tok' = [b \in Bindings |-> None]
    /\ lock' = None
    /\ claim' = [t \in Turns |-> None]
    /\ tomb' = [t \in Turns |-> None]
    /\ work' = [b \in Bindings |-> <<>>]
    /\ dead' = dead \cup {b \in Bindings : pc[b] # "off"}
    /\ pc' = [p \in Tasks |-> IF p \notin Bindings THEN "idle"
                             ELSE IF pc[p] = "off" THEN "off" ELSE "ended"]
    /\ turn' = [p \in Tasks |-> None]
    /\ bind' = [p \in Tasks |-> None]
    /\ src' = [p \in Tasks |-> None]
    /\ ins' = [p \in Tasks |-> FALSE]
    /\ UNCHANGED <<row, started, sessionAborts, done>>

-----------------------------------------------------------------------------
SenderStep(p) ==
    \/ SelectRefused(p) \/ SelectSame(p) \/ SelectSwitch(p)
    \/ CancelIdle(p) \/ CancelIdleFails(p) \/ PrepareRead(p) \/ PrepareSave(p)
    \/ AttachBound(p) \/ AttachFails(p) \/ \E b \in Bindings : AttachNew(p, b)
    \/ ResumeAppend(p) \/ ResumeSave(p) \/ ResumeFails(p)

(* Sender and dispatching bridge alike.                                    *)
SendTurnStep(p) ==
    \/ ReadRow(p) \/ ReadHistory(p) \/ \E t \in Turns : AppendStarted(p, t)
    \/ SaveRow(p) \/ SendTurnFails(p) \/ SetActiveTurn(p)
    \/ SendProviderInput(p) \/ SendProviderInputFails(p)

TerminalizeStep(p) ==
    \/ ClaimCommitted(p) \/ ClaimLead(p) \/ ClaimTimesOut(p) \/ AcquireToken(p)
    \/ LookupTerminal(p) \/ PersistTerminal(p) \/ PersistFails(p) \/ Cleanup(p)

BridgeStep(b) ==
    EmitCompleted(b) \/ EmitFailed(b) \/ DispatchNext(b) \/ NothingQueued(b)

ProviderAnswers(b) == ProviderCompleted(b) \/ ProviderFailed(b)

AborterStep(p) ==
    Quiesce(p) \/ AbortRead(p) \/ AbortTurn(p) \/ AbortSession(p) \/ AbortSave(p) \/ AbortFails(p)

Next ==
    \/ \E p \in Senders : AcquireTransition(p) \/ ResumeBegin(p) \/ SenderStep(p)
    \/ \E p \in Senders \cup Bindings : SendTurnStep(p)
    \/ \E p \in Tasks : TerminalizeStep(p)
    \/ \E b \in Bindings : BridgeStep(b) \/ ProviderAnswers(b) \/ StreamEnds(b)
    \/ \E p \in Aborters : AbortBegin(p) \/ AborterStep(p)
    \/ AppendOther
    \/ Restart

Spec == Init /\ [][Next]_vars

(* A task that has begun is run to its end by the executor, and a provider *)
(* answers every prompt it accepted, with a result or with a failure.      *)
Fairness ==
    /\ \A p \in Senders : WF_vars(SenderStep(p))
    /\ \A p \in Senders \cup Bindings : WF_vars(SendTurnStep(p))
    /\ \A p \in Tasks : WF_vars(TerminalizeStep(p))
    /\ \A b \in Bindings : WF_vars(BridgeStep(b)) /\ WF_vars(ProviderAnswers(b))
    /\ \A p \in Aborters : WF_vars(AborterStep(p))

FairSpec == Spec /\ Fairness

-----------------------------------------------------------------------------
Positions ==
    {"off", "idle", "stream", "ended", "select", "prepare", "prepareSave", "cancelIdle", "attach",
     "readRow", "readHistory", "start", "save", "setActive", "send",
     "resumeAppend", "resumeSave", "completed", "failed", "dispatch",
     "claim", "token", "lookup", "append", "cleanup",
     "quiesce", "abortRead", "abortTurn", "abortSession", "abortSave"}

DurableTyped ==
    /\ row \in {"Active", "Aborted"}
    /\ proj \in [state : {"Active", "Aborted"}, turn : Turns \cup {None}, last : Turns \cup {None}]
    /\ started \subseteq Turns /\ sessionAborts \subseteq started
    /\ terminal \in [Turns -> Kinds \cup {None}]
BindingsTyped ==
    /\ bound \in Bindings \cup {None}
    /\ cur \in [Bindings -> Turns \cup {None}]
    /\ tok \in [Bindings -> Tasks \cup {None}]
    /\ lock \in Senders \cup Bindings \cup {None}
ArbiterTyped ==
    /\ tomb \in [Turns -> Kinds \cup {None}]
    /\ claim \in [Turns -> Tasks \cup {None}]
ProviderTyped ==
    /\ work \in [Bindings -> Seq(Turns)]
    /\ dead \subseteq Bindings
    /\ done \subseteq started
LocalsTyped ==
    /\ pc \in [Tasks -> Positions]
    /\ turn \in [Tasks -> Turns \cup {None}]
    /\ bind \in [Tasks -> Bindings \cup {None}]
    /\ src \in [Tasks -> Sources \cup {None}]
    /\ ins \in [Tasks -> BOOLEAN]

(* Every variable has its type; a terminal row or tombstone says completed *)
(* or aborted, whatever source asked for it.                               *)
TypeOK == DurableTyped /\ BindingsTyped /\ ArbiterTyped /\ ProviderTyped /\ LocalsTyped

(* "A concurrent selection/attach" must not install "a loser binding       *)
(* between session preparation and turn input": from the attach to the     *)
(* provider input the session's binding is the one this send prepared, or  *)
(* is gone; it is never another one.  The transition lock guarantees it.   *)
PreparedBindingGetsPrompt ==
    \A p \in Senders \cup Bindings :
        pc[p] \in {"readRow", "readHistory", "start", "save", "setActive", "send"}
            /\ bind[p] # None
        => bound \in {bind[p], None}

(* While a terminal token of a binding is out, the turn the binding        *)
(* carries is not replaced: set_active_turn refuses, so evidence, append   *)
(* and cleanup of the ending turn never touch a newer one.                 *)
TokenPinsTurn ==
    [][\A b \in Bindings : tok[b] # None => cur'[b] \in {cur[b], None}]_vars

(* Claims, terminal tokens and the transition are held only by a task that *)
(* is still inside the code that releases them, on error paths too: a      *)
(* leaked token would make set_active_turn refuse every later turn.        *)
NoLeakedGuards ==
    /\ \A b \in Bindings : tok[b] # None =>
        /\ bind[tok[b]] = b
        /\ pc[tok[b]] \in {"lookup", "append", "cleanup", "cancelIdle"}
    /\ \A t \in Turns : claim[t] # None =>
        /\ turn[claim[t]] = t
        /\ pc[claim[t]] \in {"token", "lookup", "append"}
    /\ lock # None => pc[lock] \notin {"off", "idle", "stream", "ended", "dispatch"}

(* Somebody is there to end every open turn: the task that started it or   *)
(* is ending it, or a provider that still has to answer its prompt on the  *)
(* binding that carries it.  No failure path of send_turn_with_state or of *)
(* the dispatch walks away from a TurnStarted it recorded.                 *)
OpenTurnIsAttended ==
    \A t \in Open :
        \/ \E p \in Tasks : turn[p] = t
        \/ \E b \in Bindings : cur[b] = t /\ \E i \in DOMAIN work[b] : work[b][i] = t

(* "session already has an active turn": never two turns without a         *)
(* terminal row.  send_turn reads the projection before it appends, with   *)
(* no transaction around the two; the transition lock makes it atomic.     *)
OneOpenTurn == Cardinality(Open) <= 1

(* "an old stream cannot finalize the replacement turn": a turn is         *)
(* recorded as completed only if the provider completed its own prompt.    *)
CompletedWasDone == \A t \in Turns : terminal[t] = "completed" => t \in done

(* "A turn left running by a dead process must end in durable history":    *)
(* a restart leaves no turn without a terminal row.                        *)
RestartEndsEveryTurn == [][Restart => Open' = {}]_vars

(* A turn that was started ends, whatever the provider, the queue and the  *)
(* restarts do, as long as the store takes the writes: the UI is never     *)
(* left on a turn that runs forever.                                       *)
EveryTurnEnds == \A t \in Turns : t \in started ~> terminal[t] # None
=============================================================================
