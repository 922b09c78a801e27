---------------------------- MODULE StreamCursors ----------------------------
(***************************************************************************)
(* Observing one Exact Run: the calls of a Stream's Next and Wait, the     *)
(* appends that feed them, and the races that end the run.                 *)
(*                                                                         *)
(* Next looks at the history, the terminal flag and the current updated    *)
(* channel in one critical section and waits outside it. Every append      *)
(* closes that channel and installs a fresh one, so a channel is modelled  *)
(* by its generation: generation g is closed once `updated' exceeds g.     *)
(* Several goroutines may call Next on the same Stream: they share its     *)
(* position. What a notification says is left out.                         *)
(***************************************************************************)
EXTENDS Naturals

CONSTANTS Readers,    \* goroutines that loop over Next
          Waiters,    \* goroutines that call Wait once
          Closes,     \* calls of Close
          MaxNotes    \* bound: notifications accepted

ASSUME NotesAssumption == MaxNotes \in Nat

VARIABLES
  opened,    \* the run exists and its Stream has been handed out
  notes,     \* length of the notification history
  updated,   \* generation of the current updated channel
  admitted,  \* terminalAdmitted
  terminal,  \* terminal, and: the done channel is closed
  runErr,    \* the run's err
  reason,    \* the client's closeReason
  cursor,    \* position of the Stream
  reading,   \* each goroutine in Next
  saw,       \* the channel a waiting call captured
  ctxOver,   \* the contexts that are done
  waiting,   \* each goroutine in Wait, then what Wait returned
  late,      \* history: Wait calls that began after the run had ended
  closing    \* each call of Close

runVars == <<notes, updated, admitted, terminal, runErr, reason>>
callVars == <<cursor, reading, saw, waiting, late>>
cursorVars == <<opened, runVars, callVars, ctxOver, closing>>

Causes == {"turn", "client", "closed"}

CursorTypeOK ==
  /\ opened \in BOOLEAN
  /\ notes \in 0..MaxNotes
  /\ updated \in 0..MaxNotes
  /\ admitted \in BOOLEAN
  /\ terminal \in BOOLEAN
  /\ runErr \in Causes \cup {"none"}
  /\ reason \in {"none", "client"}
  /\ cursor \in 0..MaxNotes
  /\ reading \in [Readers -> {"look", "wait", "ended", "canceled"}]
  /\ saw \in [Readers -> 0..MaxNotes]
  /\ ctxOver \subseteq Readers \cup Waiters
  /\ waiting \in [Waiters -> {"idle", "select", "recheck", "ctx"} \cup Causes]
  /\ late \subseteq Waiters
  /\ closing \in [Closes -> {"idle", "finish", "done"}]

CursorInit ==
  /\ opened = FALSE
  /\ notes = 0
  /\ updated = 0
  /\ admitted = FALSE
  /\ terminal = FALSE
  /\ runErr = "none"
  /\ reason = "none"
  /\ cursor = 0
  /\ reading = [r \in Readers |-> "look"]
  /\ saw = [r \in Readers |-> 0]
  /\ ctxOver = {}
  /\ waiting = [w \in Waiters |-> "idle"]
  /\ late = {}
  /\ closing = [k \in Closes |-> "idle"]

-----------------------------------------------------------------------------
(* The run.                                                                *)

\* StartStream or ResumeStream returns the Stream of a registered run.
OpenStream ==
  /\ ~opened
  /\ opened' = TRUE
  /\ UNCHANGED <<runVars, callVars, ctxOver, closing>>

\* Mutant: an append that wakes nobody.
AcceptSilently(isTerminal) ==
  /\ opened
  /\ notes < MaxNotes
  /\ ~terminal /\ ~admitted
  /\ notes' = notes + 1
  /\ admitted' = isTerminal
  /\ UNCHANGED <<opened, updated, terminal, runErr, reason, callVars, ctxOver, closing>>

\* Mutant: an append to a run that has ended.
AcceptAfterEnd(isTerminal) ==
  /\ opened
  /\ notes < MaxNotes
  /\ ~admitted
  /\ notes' = notes + 1
  /\ admitted' = isTerminal
  /\ updated' = updated + 1
  /\ UNCHANGED <<opened, terminal, runErr, reason, callVars, ctxOver, closing>>

\* Mutant: an append that announces itself once too often.
AcceptTwiceAnnounced(isTerminal) ==
  /\ opened
  /\ notes < MaxNotes
  /\ ~terminal /\ ~admitted
  /\ notes' = notes + 1
  /\ admitted' = isTerminal
  /\ updated' = updated + 2
  /\ UNCHANGED <<opened, terminal, runErr, reason, callVars, ctxOver, closing>>

\* acceptRetainedBeforeTerminalCompletion: a notification of this run joins
\* the history; turn/completed freezes it. The wake-up is part of the append.
Accept(isTerminal) ==
  /\ opened
  /\ notes < MaxNotes
  /\ ~terminal /\ ~admitted
  /\ notes' = notes + 1
  /\ admitted' = isTerminal
  /\ updated' = updated + 1
  /\ UNCHANGED <<opened, terminal, runErr, reason, callVars, ctxOver, closing>>

\* Mutant: a later end replaces the first.
finishStateAgain(cause) ==
  /\ terminal' = TRUE
  /\ runErr' = IF reason # "none" THEN reason ELSE cause

\* finishState: the first end of the run stays, and the cause for which the
\* client closed outranks the cause at hand.
finishState(cause) ==
  IF terminal
    THEN UNCHANGED <<terminal, runErr>>
    ELSE /\ terminal' = TRUE
         /\ runErr' = IF reason # "none" THEN reason ELSE cause

\* The completion a terminal notification returned, run by its owner later.
CompleteTerminal ==
  /\ opened /\ admitted
  /\ finishState("turn")
  /\ UNCHANGED <<opened, notes, updated, admitted, reason, callVars, ctxOver, closing>>

\* The client closes; failAll reaches the run afterwards.
ClientCloses ==
  /\ opened
  /\ reason = "none"
  /\ reason' = "client"
  /\ UNCHANGED <<opened, notes, updated, admitted, terminal, runErr, callVars,
                 ctxOver, closing>>

FailRun ==
  /\ reason # "none"
  /\ finishState(reason)
  /\ UNCHANGED <<opened, notes, updated, admitted, reason, callVars, ctxOver, closing>>

\* Close, that is cancel(ErrStreamClosed): look at terminal, then finish in a
\* second critical section. The interrupt it sends after that does not touch
\* the run.
CloseLooks(k) ==
  /\ opened
  /\ closing[k] = "idle"
  /\ closing' = [closing EXCEPT ![k] = IF terminal THEN "done" ELSE "finish"]
  /\ UNCHANGED <<opened, runVars, callVars, ctxOver>>

CloseFinishes(k) ==
  /\ closing[k] = "finish"
  /\ finishState("closed")
  /\ closing' = [closing EXCEPT ![k] = "done"]
  /\ UNCHANGED <<opened, notes, updated, admitted, reason, callVars, ctxOver>>

-----------------------------------------------------------------------------
(* The observers.                                                          *)

ContextEnds(g) ==
  /\ opened
  /\ g \notin ctxOver
  /\ ctxOver' = ctxOver \cup {g}
  /\ UNCHANGED <<opened, runVars, callVars, closing>>

\* Next's critical section. A notification at the cursor is returned and the
\* caller comes back; otherwise an ended run ends the iteration, and a live
\* one is waited for on the channel read here.
Look(r) ==
  /\ opened
  /\ reading[r] = "look"
  /\ \/ /\ cursor < notes
        /\ cursor' = cursor + 1
        /\ UNCHANGED <<reading, saw>>
     \/ /\ cursor >= notes /\ terminal
        /\ reading' = [reading EXCEPT ![r] = "ended"]
        /\ UNCHANGED <<cursor, saw>>
     \/ /\ cursor >= notes /\ ~terminal
        /\ reading' = [reading EXCEPT ![r] = "wait"]
        /\ saw' = [saw EXCEPT ![r] = updated]
        /\ UNCHANGED cursor
  /\ UNCHANGED <<opened, runVars, waiting, late, ctxOver, closing>>

\* Mutant: a Next that waits for notifications only.
WokenByNotes(r) == updated > saw[r]

\* The select is ready: the captured channel or done is closed.
Woken(r) == updated > saw[r] \/ terminal

Wake(r) ==
  /\ reading[r] = "wait"
  /\ Woken(r)
  /\ reading' = [reading EXCEPT ![r] = "look"]
  /\ saw' = [saw EXCEPT ![r] = 0]
  /\ UNCHANGED <<opened, runVars, cursor, waiting, late, ctxOver, closing>>

\* The caller's context ends only this call of Next.
NextCanceled(r) ==
  /\ reading[r] = "wait"
  /\ r \in ctxOver
  /\ reading' = [reading EXCEPT ![r] = "canceled"]
  /\ saw' = [saw EXCEPT ![r] = 0]
  /\ UNCHANGED <<opened, runVars, cursor, waiting, late, ctxOver, closing>>

\* waitSnapshot(waitErr), for a Wait that returns what it finds.
Snapshot(w, waitErr) == [waiting EXCEPT ![w] = IF terminal THEN runErr ELSE waitErr]

WaitBegins(w) ==
  /\ opened
  /\ waiting[w] = "idle"
  /\ waiting' = Snapshot(w, "select")
  /\ late' = IF terminal THEN late \cup {w} ELSE late
  /\ UNCHANGED <<opened, runVars, cursor, reading, saw, ctxOver, closing>>

\* The select: done, or the caller's context. When both are ready Go takes
\* either, and the context branch looks at the run once more.
WaitDone(w) ==
  /\ waiting[w] = "select"
  /\ terminal
  /\ waiting' = Snapshot(w, "ctx")
  /\ UNCHANGED <<opened, runVars, cursor, reading, saw, late, ctxOver, closing>>

WaitCanceled(w) ==
  /\ waiting[w] = "select"
  /\ w \in ctxOver
  /\ waiting' = [waiting EXCEPT ![w] = "recheck"]
  /\ late' = IF terminal THEN late \cup {w} ELSE late
  /\ UNCHANGED <<opened, runVars, cursor, reading, saw, ctxOver, closing>>

\* Mutant: the context branch answers without another look at the run.
WaitRechecksNot(w) ==
  /\ waiting[w] = "recheck"
  /\ waiting' = [waiting EXCEPT ![w] = "ctx"]
  /\ UNCHANGED <<opened, runVars, cursor, reading, saw, late, ctxOver, closing>>

WaitRechecks(w) ==
  /\ waiting[w] = "recheck"
  /\ waiting' = Snapshot(w, "ctx")
  /\ UNCHANGED <<opened, runVars, cursor, reading, saw, late, ctxOver, closing>>

-----------------------------------------------------------------------------
CursorSteps ==
  \/ CompleteTerminal \/ FailRun
  \/ \E k \in Closes : CloseFinishes(k)
  \/ \E r \in Readers : Look(r) \/ Wake(r)
  \/ \E w \in Waiters : WaitDone(w) \/ WaitRechecks(w)

CursorNext ==
  \/ OpenStream
  \/ \E t \in BOOLEAN : Accept(t)
  \/ ClientCloses
  \/ \E k \in Closes : CloseLooks(k)
  \/ \E g \in Readers \cup Waiters : ContextEnds(g)
  \/ \E r \in Readers : NextCanceled(r)
  \/ \E w \in Waiters : WaitBegins(w) \/ WaitCanceled(w)
  \/ CursorSteps

\* Goroutines that can run do. Nothing makes the run produce notifications,
\* end, or be closed, and no context has to end.
CursorFairness ==
  /\ \A r \in Readers : WF_cursorVars(Look(r) \/ Wake(r))
  /\ \A w \in Waiters : WF_cursorVars(WaitDone(w) \/ WaitRechecks(w))

CursorSpec == CursorInit /\ [][CursorNext]_cursorVars /\ CursorFairness

-----------------------------------------------------------------------------
(* What the observers are promised.                                        *)

\* Next reports the end only to a caller that has been given the whole
\* history, and none is added later: "immutable notification history".
WholeHistory == \A r \in Readers : reading[r] = "ended" => cursor = notes

\* "an already completed run wins over caller-local cancellation": a Wait that
\* began, or that noticed its context, after the end never answers with its
\* own context's error.
EndBeatsContext == \A w \in late : waiting[w] # "ctx"

\* Every observer that saw the end saw the same one, whichever of completion,
\* Close and client failure came first.
OneEnd ==
  \A w \in Waiters : waiting[w] \in Causes => terminal /\ waiting[w] = runErr

Missed == \E r \in Readers : reading[r] = "wait" /\ cursor < notes

Inside == \/ \E r \in Readers : reading[r] \in {"look", "wait"}
          \/ \E w \in Waiters : waiting[w] \in {"select", "recheck"}

\* No wake-up is lost: no caller of Next stays parked while the history is
\* ahead of the Stream, whenever the append came between look and wait.
NoLostWakeup == Missed ~> ~Missed

\* The end of the run reaches every caller of Next and Wait.
EndReachesAll == terminal ~> ~Inside

\* Readers see the whole history, and all of them the same end, which a context
\* that is over as well does not hide.
CursorSound == CursorTypeOK /\ WholeHistory /\ EndBeatsContext /\ OneEnd

\* Nobody sleeps through a notification or through the end.
CursorEnds == NoLostWakeup /\ EndReachesAll
=============================================================================
