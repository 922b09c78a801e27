------------------------------ MODULE ExecRun ------------------------------
(***************************************************************************)
(* Executor.Run: one turn of the CLI. The child writes events to a pipe, a *)
(* goroutine parses them, Run waits for the child and the copier of its    *)
(* output, closes the pipe and takes the parser's verdict. A context may   *)
(* end at any time; WaitDelay then, or after the exit of the child, cuts   *)
(* the output that nobody closes.                                          *)
(*                                                                         *)
(* An event is its kind: the right and a strange thread.started, turn      *)
(* started, completed and failed, an error, an item, a line that does not  *)
(* decode and one that is too long.                                        *)
(***************************************************************************)
EXTENDS Integers, Sequences, FiniteSets

CONSTANTS NEvents,   \* events that a child writes before it exits by itself
          StdoutSize \* bound: events that the pipe and the copier hold

ASSUME ExecAssumption == NEvents \in Nat /\ StdoutSize \in Nat \ {0}

VARIABLES
  written,   \* every event the child wrote
  stdout,    \* those the parser has not seen
  child,     \* the process
  heldOpen,      \* another process keeps the output open
  ctxEnded,  \* ctx
  cut,       \* WaitDelay has expired
  waited,    \* cmd.Run has returned, the writer is closed
  ppc,       \* the parser
  sessionStarted, turnStarted, completed, failed,
  diagnostic,
  localFirst, \* the first failure of the stream was a local one
  result    \* Result.Status and Diagnostic

flowVars == <<written, stdout, child, heldOpen, ctxEnded, cut, waited>>
flagVars == <<sessionStarted, turnStarted, completed, failed, diagnostic, localFirst>>
execVars == <<flowVars, ppc, flagVars, result>>

Kinds == {"thread", "stranger", "turn", "item", "completed", "failed", "error",
          "garbage", "huge"}

\* localEventFailure
Local == {"event_too_large", "event_decode_failed", "event_sequence_invalid", "session_mismatch"}
Diagnostics == Local \cup {"execution_failed", "provider_failed", "missing_session", "completed"}
NoOutcome == [status |-> "running", diagnostic |-> "none"]

ExecTypeOK ==
  /\ written \in UNION {[1..k -> Kinds] : k \in 0..NEvents}
  /\ Len(stdout) <= StdoutSize
  /\ child \in {"none", "runs", "exit0", "exit1", "killed"}
  /\ heldOpen \in BOOLEAN /\ ctxEnded \in BOOLEAN /\ cut \in BOOLEAN /\ waited \in BOOLEAN
  /\ ppc \in {"scan", "drain", "parsed"}
  /\ sessionStarted \in BOOLEAN /\ turnStarted \in BOOLEAN /\ completed \in BOOLEAN /\ failed \in BOOLEAN
  /\ diagnostic \in Diagnostics /\ localFirst \in BOOLEAN
  /\ result.status \in {"running", "completed", "failed", "blocked", "cancelled"}

ExecInit ==
  /\ written = <<>> /\ stdout = <<>> /\ child = "none" /\ heldOpen = FALSE
  /\ ctxEnded = FALSE /\ cut = FALSE /\ waited = FALSE
  /\ ppc = "scan"
  /\ sessionStarted = FALSE /\ turnStarted = FALSE /\ completed = FALSE /\ failed = FALSE
  /\ diagnostic = "execution_failed" /\ localFirst = FALSE
  /\ result = NoOutcome

-----------------------------------------------------------------------------
(* The child, started by cmd.Run if it can be, and the context.            *)

Start ==
  /\ child = "none"
  /\ child' \in {"runs", "exit1"}
  /\ UNCHANGED <<written, stdout, heldOpen, ctxEnded, cut, waited, ppc, flagVars, result>>

Emit ==
  /\ child = "runs" /\ Len(written) < NEvents /\ Len(stdout) < StdoutSize
  /\ \E e \in Kinds : written' = Append(written, e) /\ stdout' = Append(stdout, e)
  /\ UNCHANGED <<child, heldOpen, ctxEnded, cut, waited, ppc, flagVars, result>>

\* It exits when it has written everything; it may leave a process behind that
\* holds its output.
Exit ==
  /\ child = "runs" /\ Len(written) = NEvents
  /\ child' \in {"exit0", "exit1"} /\ heldOpen' \in BOOLEAN
  /\ UNCHANGED <<written, stdout, ctxEnded, cut, waited, ppc, flagVars, result>>

Dies ==
  /\ child = "runs"
  /\ child' = "exit1"
  /\ UNCHANGED <<written, stdout, heldOpen, ctxEnded, cut, waited, ppc, flagVars, result>>

Cancel ==
  /\ ~ctxEnded /\ child # "none" /\ result = NoOutcome
  /\ ctxEnded' = TRUE
  /\ UNCHANGED <<written, stdout, child, heldOpen, cut, waited, ppc, flagVars, result>>

Kill ==
  /\ ctxEnded /\ child = "runs" /\ ~waited
  /\ child' = "killed"
  /\ UNCHANGED <<written, stdout, heldOpen, ctxEnded, cut, waited, ppc, flagVars, result>>

\* A second after the exit, what the copier has not delivered is lost.
WaitDelay ==
  /\ child \notin {"none", "runs"} /\ ~waited /\ ~cut
  /\ heldOpen \/ stdout # <<>>
  /\ cut' = TRUE /\ stdout' = <<>>
  /\ UNCHANGED <<written, child, heldOpen, ctxEnded, waited, ppc, flagVars, result>>

-----------------------------------------------------------------------------
(* parseEvents.                                                            *)

\* A failure that decides the diagnostic. The first one also says what is proved.
FailWith(d) ==
  /\ failed' = TRUE /\ diagnostic' = d
  /\ localFirst' = IF failed THEN localFirst ELSE d \in Local

\* Mutant: a failed turn always decides.
TurnFailedDecides == FailWith("provider_failed")

\* A failed turn decides only if nothing failed before.
TurnFailed ==
  \/ ~failed /\ \E d \in {"provider_failed", "execution_failed"} : FailWith(d)
  \/ failed /\ UNCHANGED <<failed, diagnostic, localFirst>>

\* Mutant: a second completion is taken for the first.
OutOfOrderOnce == ~sessionStarted

OutOfOrder == ~sessionStarted \/ completed

Sequence(bad) ==
  \/ bad /\ ~failed /\ FailWith("event_sequence_invalid")
  \/ (~bad \/ failed) /\ UNCHANGED <<failed, diagnostic, localFirst>>

\* An error is kept, but only the end of the turn decides.
ErrorSeen ==
  \/ failed /\ UNCHANGED <<failed, diagnostic, localFirst>>
  \/ ~failed /\ OutOfOrder /\ FailWith("event_sequence_invalid")
  \/ /\ ~failed /\ ~OutOfOrder
     /\ diagnostic' \in {"provider_failed", "execution_failed"}
     /\ UNCHANGED <<failed, localFirst>>

Parse ==
  /\ ppc = "scan" /\ stdout # <<>> /\ Head(stdout) # "huge"
  /\ stdout' = Tail(stdout)
  /\ LET e == Head(stdout) IN
     \/ /\ e = "thread" /\ ~sessionStarted /\ sessionStarted' = TRUE
        /\ UNCHANGED <<turnStarted, completed, failed, diagnostic, localFirst>>
     \/ /\ e = "stranger" \/ (e = "thread" /\ sessionStarted)
        /\ FailWith("session_mismatch") /\ UNCHANGED <<sessionStarted, turnStarted, completed>>
     \/ /\ e = "turn" /\ Sequence(OutOfOrder \/ turnStarted)
        /\ turnStarted' = TRUE /\ UNCHANGED <<sessionStarted, completed>>
     \/ /\ e = "completed" /\ Sequence(OutOfOrder)
        /\ completed' = TRUE /\ UNCHANGED <<sessionStarted, turnStarted>>
     \/ e = "failed" /\ TurnFailed /\ UNCHANGED <<sessionStarted, turnStarted, completed>>
     \/ e = "error" /\ ErrorSeen /\ UNCHANGED <<sessionStarted, turnStarted, completed>>
     \/ /\ e = "garbage" /\ FailWith("event_decode_failed")
        /\ UNCHANGED <<sessionStarted, turnStarted, completed>>
     \/ e = "item" /\ UNCHANGED flagVars
  /\ UNCHANGED <<written, child, heldOpen, ctxEnded, cut, waited, ppc, result>>

\* Mutant: the parser stops reading.
AfterTooLongStops == "parsed"

\* The rest is read and thrown away, so that the child is not blocked.
AfterTooLong == "drain"

TooLong ==
  /\ ppc = "scan" /\ stdout # <<>> /\ Head(stdout) = "huge"
  /\ stdout' = Tail(stdout)
  /\ FailWith("event_too_large")
  /\ ppc' = AfterTooLong
  /\ UNCHANGED <<written, child, heldOpen, ctxEnded, cut, waited, sessionStarted, turnStarted, completed, result>>

Drain ==
  /\ ppc = "drain" /\ stdout # <<>>
  /\ stdout' = Tail(stdout)
  /\ UNCHANGED <<written, child, heldOpen, ctxEnded, cut, waited, ppc, flagVars, result>>

\* The end of the output.
Parsed ==
  /\ ppc # "parsed" /\ waited /\ stdout = <<>>
  /\ ppc' = "parsed"
  /\ diagnostic' = IF ~sessionStarted /\ ~failed THEN "missing_session" ELSE diagnostic
  /\ UNCHANGED <<flowVars, sessionStarted, turnStarted, completed, failed, localFirst, result>>

-----------------------------------------------------------------------------
(* Run.                                                                    *)

\* cmd.Run: the child is gone and its output copied, or cut.
Wait ==
  /\ ~waited /\ child \notin {"none", "runs"}
  /\ (stdout = <<>> /\ ~heldOpen) \/ cut
  /\ waited' = TRUE
  /\ UNCHANGED <<written, stdout, child, heldOpen, ctxEnded, cut, ppc, flagVars, result>>

RunErr == child # "exit0" \/ cut
ParseErr == ~sessionStarted \/ ~completed \/ failed

\* Unless a local failure was proved, the words of the child may say more.
StderrDecides(d) == d \notin Local

\* Mutant: the diagnostic lands in the status.
BlockingRaw(d) == [status |-> d, diagnostic |-> d]

Blocking(d) == [status |-> IF d = "provider_failed" THEN "blocked" ELSE "failed", diagnostic |-> d]

Report ==
  /\ waited /\ ppc = "parsed" /\ result = NoOutcome
  /\ \/ ctxEnded /\ result' = [status |-> "cancelled", diagnostic |-> "cancelled"]
     \/ /\ ~ctxEnded /\ ParseErr
        /\ \/ result' = Blocking(diagnostic)
           \/ StderrDecides(diagnostic) /\ result' = Blocking("provider_failed")
     \/ /\ ~ctxEnded /\ ~ParseErr /\ RunErr
        /\ \E d \in {"provider_failed", "execution_failed"} : result' = Blocking(d)
     \/ /\ ~ctxEnded /\ ~ParseErr /\ ~RunErr
        /\ result' = [status |-> "completed", diagnostic |-> "completed"]
  /\ UNCHANGED <<flowVars, ppc, flagVars>>

Reading == Parse \/ TooLong \/ Drain \/ Parsed

ExecNext == Start \/ Emit \/ Exit \/ Dies \/ Cancel \/ Kill \/ WaitDelay \/ Reading \/ Wait \/ Report

\* The child runs, the parser and Run are scheduled, timers expire.
ExecFairness ==
  /\ WF_execVars(Emit) /\ WF_execVars(Exit) /\ WF_execVars(Kill) /\ WF_execVars(WaitDelay)
  /\ WF_execVars(Reading) /\ WF_execVars(Wait) /\ WF_execVars(Report)

ExecSpec == ExecInit /\ [][ExecNext]_execVars /\ ExecFairness

-----------------------------------------------------------------------------
\* What a clean stream is: one session, then one completion, at most one start in
\* between, errors only in between, and no failure of any kind.
CleanStream(s) ==
  \E t, c \in DOMAIN s :
    /\ t < c /\ s[t] = "thread" /\ s[c] = "completed"
    /\ \A i \in DOMAIN s :
         /\ s[i] \in {"thread", "turn", "item", "completed", "error"}
         /\ s[i] = "thread" => i = t
         /\ s[i] = "completed" => i = c
         /\ s[i] \in {"turn", "error"} => t < i /\ i < c
    /\ \A i, j \in DOMAIN s : s[i] = "turn" /\ s[j] = "turn" => i = j

\* Run reports a completed turn exactly when the whole output was a clean stream
\* and the child ended well by itself, however reading, exit and the context are
\* interleaved (parseEvents, Run).
CompletedExactly ==
  result # NoOutcome /\ result.status # "cancelled" =>
    (result.status = "completed") = (CleanStream(written) /\ child = "exit0" /\ ~cut)

\* A local failure that came first is reported as one: neither a later failed turn
\* nor the words of the child turn it into a provider's (localEventFailure).
LocalFactKept ==
  result.status \in {"failed", "blocked"} /\ localFirst =>
    result.status = "failed" /\ result.diagnostic \in Local

\* Run returns, also when the parser has given up on the stream while the child
\* still has much to write (the drain after a scanner error).
RunReturns == [](ppc # "scan" => <>(result # NoOutcome))

\* What Run returns is what happened: a completed turn is a whole one, and a local
\* failure is not overwritten by what the child says later.
TurnSound == ExecTypeOK /\ CompletedExactly /\ LocalFactKept
=============================================================================
