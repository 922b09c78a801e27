------------------------------ MODULE TypedStep ------------------------------
(***************************************************************************)
(* llmstep.Run over the Codex caller: render a prompt, call the model,     *)
(* decode, let the application judge, and try again with what the judgment *)
(* found, up to MaxIter times. The context can be cancelled at any moment, *)
(* and every stage can fail; the attempts are the evidence of what was     *)
(* done. A call to the model is one Exact Run: started, waited for, closed.*)
(*                                                                         *)
(* A repair is known by the iteration it is stamped with; 0 is none.       *)
(***************************************************************************)
EXTENDS Naturals, Sequences

CONSTANT MaxIter

ASSUME IterAssumption == MaxIter \in Nat \ {0}

VARIABLES
  stage,     \* where Run is
  iter,
  repair,    \* the repair the next Render gets
  attempt,   \* the attempt under way
  attempts,  \* result.Attempts
  output,    \* HasOutput
  why,       \* the error of Run
  stop,      \* the context is cancelled
  turnRun,   \* the Exact Run of the call
  \* History.
  answers,   \* iterations whose call came back with a response
  begun      \* application callbacks and calls begun after the cancellation

stepVars == <<stage, iter, repair, attempt, attempts, output, why, stop, turnRun, answers,
              begun>>

Iters == 1..MaxIter
Stages == {"render", "call", "decode", "validate", "project_repair"}
Attempts == [repair : 0..MaxIter, call : {"none", "response", "value"},
             judgment : {"none", "accepted", "rejected"}, next : 0..MaxIter,
             err : Stages \cup {"nil"}]
NewAttempt(r) == [repair |-> r, call |-> "none", judgment |-> "none", next |-> 0, err |-> "nil"]

StepTypeOK ==
  /\ stage \in {"begin", "top", "rendering", "rendered", "start", "running", "closing",
                "called", "decode", "judging", "judged", "projecting", "over"}
  /\ iter \in Iters /\ repair \in 0..MaxIter
  /\ attempt \in Attempts /\ attempts \in Seq(Attempts) /\ Len(attempts) <= MaxIter
  /\ output \in BOOLEAN
  /\ why \in Stages \cup {"nil", "exhausted"}
  /\ stop \in BOOLEAN /\ turnRun \in {"none", "live", "ended"}
  /\ answers \subseteq Iters /\ begun \in 0..MaxIter

StepInit ==
  /\ stage = "begin" /\ iter = 1 /\ repair = 0 /\ attempt = NewAttempt(0) /\ attempts = <<>>
  /\ output = FALSE /\ why = "nil" /\ stop = FALSE /\ turnRun = "none"
  /\ answers = {} /\ begun = 0

-----------------------------------------------------------------------------
\* A callback of the application, or the call, begins.
Begins == begun' = IF stop THEN begun + 1 ELSE begun

\* Mutant: the attempt that failed is not kept.
FailUnrecorded(s, a) ==
  /\ stage' = "over"
  /\ why' = s
  /\ attempt' = [a EXCEPT !.err = s]
  /\ UNCHANGED attempts

\* fail: the attempt is kept with its error, and Run returns.
Fail(s, a) ==
  /\ stage' = "over"
  /\ why' = s
  /\ attempt' = [a EXCEPT !.err = s]
  /\ attempts' = Append(attempts, attempt')

Proceeds(s, a) == stage' = s /\ attempt' = a /\ UNCHANGED <<attempts, why>>

\* The context is cancelled by whoever owns it.
CancelStep ==
  /\ ~stop /\ stage \notin {"begin", "over"}
  /\ stop' = TRUE
  /\ UNCHANGED <<stage, iter, repair, attempt, attempts, output, why, turnRun, answers, begun>>

BeginStep ==
  /\ stage = "begin"
  /\ stage' = "top"
  /\ UNCHANGED <<iter, repair, attempt, attempts, output, why, stop, turnRun, answers, begun>>

\* Mutant: a cancelled context is noticed only after the prompt was rendered.
TopUnchecked ==
  /\ stage = "top"
  /\ Proceeds("rendering", NewAttempt(repair))
  /\ UNCHANGED <<iter, repair, output, stop, turnRun, answers, begun>>

Top ==
  /\ stage = "top"
  /\ \/ stop /\ Fail("render", NewAttempt(repair))
     \/ ~stop /\ Proceeds("rendering", NewAttempt(repair))
  /\ UNCHANGED <<iter, repair, output, stop, turnRun, answers, begun>>

Render ==
  /\ stage = "rendering"
  /\ \/ Fail("render", attempt)
     \/ Proceeds("rendered", attempt)
  /\ Begins
  /\ UNCHANGED <<iter, repair, output, stop, turnRun, answers>>

\* ctx.Err, then ValueWithContract calls the caller.
Rendered ==
  /\ stage = "rendered"
  /\ \/ stop /\ Fail("render", attempt)
     \/ ~stop /\ Proceeds("start", attempt)
  /\ UNCHANGED <<iter, repair, output, stop, turnRun, answers, begun>>

\* The call fails in the stage "call"; r: it came back with a response.
CallFails(r) ==
  /\ Fail("call", IF r THEN [attempt EXCEPT !.call = "response"] ELSE attempt)
  /\ answers' = IF r THEN answers \cup {iter} ELSE answers

\* Caller.Call: the request is built and the run started. A refused request has
\* no evidence, a run that failed after its thread was started has some.
StartRun ==
  /\ stage = "start"
  /\ \/ (\E r \in BOOLEAN : CallFails(r)) /\ UNCHANGED turnRun
     \/ Proceeds("running", attempt) /\ turnRun' = "live" /\ UNCHANGED answers
  /\ Begins
  /\ UNCHANGED <<iter, repair, output, stop>>

\* The run ends by itself, well or not.
RunEnds ==
  /\ turnRun = "live"
  /\ turnRun' = "ended"
  /\ UNCHANGED <<stage, iter, repair, attempt, attempts, output, why, stop, answers, begun>>

\* Stream.Wait
WaitRun ==
  /\ stage = "running"
  /\ turnRun = "ended" \/ stop
  /\ Proceeds("closing", attempt)
  /\ UNCHANGED <<iter, repair, output, stop, turnRun, answers, begun>>

\* Mutant: the stream is not closed when its caller leaves.
LeaveRun ==
  /\ stage = "closing"
  /\ Proceeds("called", attempt)
  /\ UNCHANGED <<iter, repair, output, stop, turnRun, answers, begun>>

\* The deferred Close cancels a run that has not ended.
CloseRun ==
  /\ stage = "closing"
  /\ turnRun' = "ended"
  /\ Proceeds("called", attempt)
  /\ UNCHANGED <<iter, repair, output, stop, answers, begun>>

\* The response is cloned and kept; an error of the run or of the backend's
\* identity, then a cancelled context, end the call.
Called ==
  /\ stage = "called"
  /\ \/ CallFails(TRUE)
     \/ /\ ~stop
        /\ Proceeds("decode", [attempt EXCEPT !.call = "response"])
        /\ answers' = answers \cup {iter}
  /\ turnRun' = "none"
  /\ UNCHANGED <<iter, repair, output, stop, begun>>

Decode ==
  /\ stage = "decode"
  /\ \/ Fail("decode", attempt)
     \/ Proceeds("judging", [attempt EXCEPT !.call = "value"])
  /\ UNCHANGED <<iter, repair, output, stop, turnRun, answers, begun>>

\* The judgment is kept also when Validate returns an error with it.
Validate ==
  /\ stage = "judging"
  /\ \E j \in {"accepted", "rejected"} :
       LET judged == [attempt EXCEPT !.judgment = j]
       IN Fail("validate", judged) \/ Proceeds("judged", judged)
  /\ Begins
  /\ UNCHANGED <<iter, repair, output, stop, turnRun, answers>>

\* The checks after Validate; last is the iteration that has no successor.
JudgedBefore(last) ==
  /\ stage = "judged"
  /\ \/ /\ stop
        /\ Fail("validate", attempt)
        /\ UNCHANGED output
     \/ /\ ~stop /\ attempt.judgment = "accepted"
        /\ output' = TRUE
        /\ stage' = "over" /\ attempts' = Append(attempts, attempt)
        /\ UNCHANGED <<attempt, why>>
     \/ /\ ~stop /\ attempt.judgment = "rejected" /\ iter = last
        /\ stage' = "over" /\ why' = "exhausted" /\ attempts' = Append(attempts, attempt)
        /\ UNCHANGED <<attempt, output>>
     \/ /\ ~stop /\ attempt.judgment = "rejected" /\ iter < last
        /\ Proceeds("projecting", attempt)
        /\ UNCHANGED output
  /\ UNCHANGED <<iter, repair, stop, turnRun, answers, begun>>

\* Mutant: off by one at the retry bound.
JudgedOneMore == JudgedBefore(MaxIter + 1)

Judged == JudgedBefore(MaxIter)

\* ProjectRepair is missing, fails, or projects the findings, which are stamped.
ProjectRepair ==
  /\ stage = "projecting"
  /\ \/ /\ Fail("project_repair", attempt)
        /\ UNCHANGED <<iter, repair>>
     \/ /\ \E n \in {0, iter} :
             /\ attempts' = Append(attempts, [attempt EXCEPT !.next = n])
             /\ repair' = n
        /\ iter' = iter + 1
        /\ stage' = "top"
        /\ UNCHANGED <<attempt, why>>
  /\ Begins
  /\ UNCHANGED <<output, stop, turnRun, answers>>

StepNext ==
  \/ BeginStep \/ CancelStep \/ Top \/ Render \/ Rendered \/ StartRun \/ RunEnds \/ WaitRun
  \/ CloseRun \/ Called \/ Decode \/ Validate \/ Judged \/ ProjectRepair

StepSpec == StepInit /\ [][StepNext]_stepVars

-----------------------------------------------------------------------------
(* What Run promises.                                                      *)

\* The attempts are the whole evidence: one for each iteration, each with the
\* response it got, if any, and with the repair projected from the attempt before
\* it; all but the last were rejected, and there is an output, and no error, just
\* when the last one was accepted and nothing went wrong.
EvidenceComplete ==
  stage = "over" =>
    LET n == Len(attempts)
    IN /\ n = iter
       /\ \A k \in 1..n : (attempts[k].call # "none") = (k \in answers)
       /\ \A k \in 1..(n - 1) : /\ attempts[k].judgment = "rejected"
                                /\ attempts[k].err = "nil"
                                /\ attempts[k + 1].repair = attempts[k].next
                                /\ attempts[k].next \in {0, k}
       /\ output = (attempts[n].judgment = "accepted" /\ attempts[n].err = "nil")
       /\ output = (why = "nil")

\* A cancelled context is noticed wherever Run is: at most one more callback or
\* call of the model begins, the one between whose check and start it fell.
CancelStops == begun <= 1

\* The model never works for a call that has returned.
NoRunLeftBehind == turnRun = "live" => stage \in {"running", "closing"}

\* A step keeps the evidence of every attempt, stops when it is cancelled, and
\* leaves no run behind.
StepSound == StepTypeOK /\ EvidenceComplete /\ CancelStops /\ NoRunLeftBehind
=============================================================================
