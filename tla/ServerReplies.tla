---------------------------- MODULE ServerReplies ----------------------------
(***************************************************************************)
(* Answering the app-server's requests. One reader takes frames from the   *)
(* child's stdout; a request it cannot admit is answered by the reader     *)
(* itself, any other one by a goroutine of its own that calls the          *)
(* application's handler. All answers, and the client's own calls, go to   *)
(* the child's stdin under writeMu.                                        *)
(*                                                                         *)
(* Both pipes are bounded and the peer reads and writes when it likes, so  *)
(* a Write may block for ever with writeMu held, the reader's included.    *)
(* Each request belongs to one Exact Run, which the peer may complete with *)
(* a turn/completed notification at any time; how requests and runs are    *)
(* matched is the subject of ExactRuns.                                    *)
(***************************************************************************)
EXTENDS Naturals, Sequences

CONSTANTS Known,      \* requests with a known method and decodable parameters
          Unknown,    \* requests of the peer that are neither
          PipeSize    \* bound: frames a pipe holds

ASSUME PipeAssumption == PipeSize \in Nat \ {0}
ASSUME RequestAssumption ==
  Known \cap Unknown = {} /\ {"nobody", "reader", "caller"} \cap (Known \cup Unknown) = {}

VARIABLES
  started,   \* the reader goroutine runs
  toClient,  \* stdout of the child: frames not yet read
  toPeer,    \* stdin of the child: frames not yet read
  peerGone,  \* the child has exited
  pipes,     \* cleanupProcess has not closed the client's ends
  rdr,       \* the reader
  rdrAt,     \* the request the reader answers
  tolerant,  \* the reader ignores an error of its write
  hnd,       \* the handler goroutine of each request
  out,       \* the answer it decided on
  userCall,  \* a client call that writes its request
  writeMu,   \* holder of writeMu
  closedAs,  \* closed: "no", or why
  settled,   \* closeCausePublished is closed, failAll is done
  turnEnd,   \* how the Exact Run of each request ended
  sent,      \* history: what the peer has sent about each request
  answered,  \* history: answers written for each request
  toldError  \* history: requests whose error the peer had read

pipeVars == <<toClient, toPeer, peerGone, pipes>>
readerVars == <<rdr, rdrAt, tolerant>>
handlerVars == <<hnd, out>>
endVars == <<closedAs, settled>>
peerVars == <<sent, toldError>>
replyVars == <<started, pipeVars, readerVars, handlerVars, userCall, writeMu,
               endVars, turnEnd, peerVars, answered>>

Nobody == "nobody"
Requests == Known \cup Unknown
Writers == Known \cup {"reader", "caller"}
Frames == [about : Requests, is : {"request"}] \cup [about : Known, is : {"completed"}]
Answers == [about : Requests, is : {"result", "error"}]
             \cup {[about |-> "caller", is |-> "request"]}

ReplyTypeOK ==
  /\ started \in BOOLEAN
  /\ toClient \in Seq(Frames) /\ Len(toClient) <= PipeSize
  /\ toPeer \in Seq(Answers) /\ Len(toPeer) <= PipeSize
  /\ peerGone \in BOOLEAN
  /\ pipes \in {"open", "closed"}
  /\ rdr \in {"read", "lock", "push", "settle", "gone"}
  /\ rdrAt \in Requests \cup {Nobody}
  /\ tolerant \in BOOLEAN
  /\ hnd \in [Known -> {"none", "call", "finish", "lock", "push", "done"}]
  /\ out \in [Known -> {"none", "result", "error"}]
  /\ userCall \in {"idle", "lock", "push", "done"}
  /\ writeMu \in Writers \cup {Nobody}
  /\ closedAs \in {"no", "normal", "failure"}
  /\ settled \in BOOLEAN
  /\ turnEnd \in [Known -> {"live", "request", "completed", "client"}]
  /\ sent \in [Requests -> {"nothing", "request", "completed"}]
  /\ answered \in [Requests -> 0..2]
  /\ toldError \subseteq Requests

ReplyInit ==
  /\ started = FALSE
  /\ toClient = <<>>
  /\ toPeer = <<>>
  /\ peerGone = FALSE
  /\ pipes = "open"
  /\ rdr = "read"
  /\ rdrAt = Nobody
  /\ tolerant = FALSE
  /\ hnd = [q \in Known |-> "none"]
  /\ out = [q \in Known |-> "none"]
  /\ userCall = "idle"
  /\ writeMu = Nobody
  /\ closedAs = "no"
  /\ settled = FALSE
  /\ turnEnd = [q \in Known |-> "live"]
  /\ sent = [q \in Requests |-> "nothing"]
  /\ answered = [q \in Requests |-> 0]
  /\ toldError = {}

-----------------------------------------------------------------------------
(* The peer: external.                                                     *)

StartReader ==
  /\ ~started
  /\ started' = TRUE
  /\ UNCHANGED <<pipeVars, readerVars, handlerVars, userCall, writeMu, endVars,
                 turnEnd, peerVars, answered>>

PeerSends(f) ==
  /\ started /\ ~peerGone
  /\ Len(toClient) < PipeSize
  /\ sent[f.about] = IF f.is = "request" THEN "nothing" ELSE "request"
  /\ toClient' = Append(toClient, f)
  /\ sent' = [sent EXCEPT ![f.about] = f.is]
  /\ UNCHANGED <<started, toPeer, peerGone, pipes, readerVars, handlerVars, userCall,
                 writeMu, endVars, turnEnd, toldError, answered>>

\* Reading an error before it completed the turn is what could make the peer
\* complete the turn because of the error.
PeerReads ==
  /\ ~peerGone
  /\ toPeer # <<>>
  /\ toPeer' = Tail(toPeer)
  /\ toldError' = IF /\ Head(toPeer).is = "error"
                     /\ sent[Head(toPeer).about] = "request"
                    THEN toldError \cup {Head(toPeer).about}
                    ELSE toldError
  /\ UNCHANGED <<started, toClient, peerGone, pipes, readerVars, handlerVars, userCall,
                 writeMu, endVars, turnEnd, sent, answered>>

PeerExits ==
  /\ started /\ ~peerGone
  /\ peerGone' = TRUE
  /\ UNCHANGED <<started, toClient, toPeer, pipes, readerVars, handlerVars, userCall,
                 writeMu, endVars, turnEnd, peerVars, answered>>

-----------------------------------------------------------------------------
(* Closing.                                                                *)

\* failClient: the first cause closes the client.
failClient == closedAs' = IF closedAs = "no" THEN "failure" ELSE closedAs

CloseContext ==
  /\ started
  /\ closedAs = "no"
  /\ closedAs' = "normal"
  /\ UNCHANGED <<started, pipeVars, readerVars, handlerVars, userCall, writeMu,
                 settled, turnEnd, peerVars, answered>>

\* failAll ends every run with the client's cause; then it is published.
Settle ==
  /\ closedAs # "no" /\ ~settled
  /\ settled' = TRUE
  /\ turnEnd' = [q \in Known |-> IF turnEnd[q] = "live" THEN "client" ELSE turnEnd[q]]
  /\ UNCHANGED <<started, pipeVars, readerVars, handlerVars, userCall, writeMu, closedAs,
                 peerVars, answered>>

\* Mutant: cleanup that takes writeMu before it closes the pipes.
ClosePipesLocked ==
  /\ closedAs # "no"
  /\ pipes = "open"
  /\ writeMu = Nobody
  /\ pipes' = "closed"
  /\ UNCHANGED <<started, toClient, toPeer, peerGone, readerVars, handlerVars, userCall,
                 writeMu, endVars, turnEnd, peerVars, answered>>

\* cleanupProcess, once its grace is over: close both pipes without writeMu.
\* What follows, reaping the child, is the subject of ProcessReap.
ClosePipes ==
  /\ closedAs # "no"
  /\ pipes = "open"
  /\ pipes' = "closed"
  /\ UNCHANGED <<started, toClient, toPeer, peerGone, readerVars, handlerVars, userCall,
                 writeMu, endVars, turnEnd, peerVars, answered>>

-----------------------------------------------------------------------------
(* Writing a frame: take writeMu, then Write, which blocks while the pipe  *)
(* is full and fails once either end is closed.                            *)

WriteFails == pipes = "closed" \/ peerGone
\* Mutant: a Write that never blocks.
CanWriteAlways == TRUE

CanWrite == WriteFails \/ Len(toPeer) < PipeSize

Locked(w) == writeMu = Nobody /\ writeMu' = w

\* The write of frame f by the holder of writeMu, about request q.
Written(f) ==
  /\ CanWrite
  /\ writeMu' = Nobody
  /\ toPeer' = IF WriteFails THEN toPeer ELSE Append(toPeer, f)
  /\ answered' = IF WriteFails \/ f.is = "request" THEN answered
                 ELSE [answered EXCEPT ![f.about] = @ + 1]

CallBegins ==
  /\ started
  /\ userCall = "idle" /\ closedAs = "no"
  /\ userCall' = "lock"
  /\ UNCHANGED <<started, pipeVars, readerVars, handlerVars, writeMu, endVars, turnEnd,
                 peerVars, answered>>

CallLocks ==
  /\ userCall = "lock"
  /\ Locked("caller")
  /\ userCall' = "push"
  /\ UNCHANGED <<started, pipeVars, readerVars, handlerVars, endVars, turnEnd, peerVars,
                 answered>>

CallWrites ==
  /\ userCall = "push"
  /\ Written([about |-> "caller", is |-> "request"])
  /\ userCall' = "done"
  /\ UNCHANGED <<started, toClient, peerGone, pipes, readerVars, handlerVars,
                 endVars, turnEnd, peerVars>>

-----------------------------------------------------------------------------
(* The reader.                                                             *)

\* readLoop takes a frame. turn/completed ends the run it belongs to. A
\* request with an unknown method or undecodable parameters carries no
\* identity, so the reader finishes no run and answers; so it does when
\* admission is closed. Otherwise a handler goroutine takes over.
ReadFrame ==
  /\ started
  /\ rdr = "read"
  /\ pipes = "open"
  /\ toClient # <<>>
  /\ toClient' = Tail(toClient)
  /\ LET f == Head(toClient) IN
       \/ /\ f.is = "completed"
          /\ turnEnd' = IF closedAs = "no" /\ turnEnd[f.about] = "live"
                      THEN [turnEnd EXCEPT ![f.about] = "completed"] ELSE turnEnd
          /\ UNCHANGED <<readerVars, hnd>>
       \/ /\ f.is = "request"
          /\ f.about \in Unknown \/ closedAs # "no"
          /\ rdr' = "lock"
          /\ rdrAt' = f.about
          /\ tolerant' = (f.about \in Known)
          /\ UNCHANGED <<turnEnd, hnd>>
       \/ /\ f.is = "request"
          /\ f.about \in Known /\ closedAs = "no"
          /\ hnd' = [hnd EXCEPT ![f.about] = "call"]
          /\ UNCHANGED <<turnEnd, readerVars>>
  /\ UNCHANGED <<started, toPeer, peerGone, pipes, out, userCall, writeMu, endVars,
                 peerVars, answered>>

\* End of stdout, or the client's end was closed under the reader: the cause
\* of the failure, unless the client is closed already.
ReadEnds ==
  /\ started
  /\ rdr = "read"
  /\ pipes = "closed" \/ (peerGone /\ toClient = <<>>)
  /\ rdr' = IF closedAs = "no" THEN "gone" ELSE "settle"
  /\ failClient
  /\ UNCHANGED <<started, pipeVars, rdrAt, tolerant, handlerVars, userCall, writeMu,
                 settled, turnEnd, peerVars, answered>>

\* awaitClosedReadLoopSettlement
ReaderSettles ==
  /\ rdr = "settle"
  /\ settled
  /\ rdr' = "gone"
  /\ UNCHANGED <<started, pipeVars, rdrAt, tolerant, handlerVars, userCall, writeMu,
                 endVars, turnEnd, peerVars, answered>>

ReaderLocks ==
  /\ rdr = "lock"
  /\ Locked("reader")
  /\ rdr' = "push"
  /\ UNCHANGED <<started, pipeVars, rdrAt, tolerant, handlerVars, userCall, endVars,
                 turnEnd, peerVars, answered>>

\* failExactServerRequest fails the client when its answer cannot be written;
\* rejectExactServerRequestAfterAdmissionClosed does not look.
ReaderWrites ==
  /\ rdr = "push"
  /\ Written([about |-> rdrAt, is |-> "error"])
  /\ rdr' = "read"
  /\ rdrAt' = Nobody
  /\ tolerant' = FALSE
  /\ IF WriteFails /\ ~tolerant THEN failClient ELSE UNCHANGED closedAs
  /\ UNCHANGED <<started, toClient, peerGone, pipes, handlerVars, userCall, settled, turnEnd,
                 peerVars>>

-----------------------------------------------------------------------------
(* The goroutine of an admitted request.                                   *)

\* The handler returns a usable response.
HandlerResponds(q) ==
  /\ hnd[q] = "call"
  /\ hnd' = [hnd EXCEPT ![q] = "lock"]
  /\ out' = [out EXCEPT ![q] = "result"]
  /\ UNCHANGED <<started, pipeVars, readerVars, userCall, writeMu, endVars, turnEnd,
                 peerVars, answered>>

\* The handler returned an error or panicked while the client closes
\* normally: closingNormally ends the exchange without an answer.
HandlerAbandons(q) ==
  /\ hnd[q] = "call"
  /\ closedAs = "normal"
  /\ hnd' = [hnd EXCEPT ![q] = "done"]
  /\ UNCHANGED <<started, pipeVars, readerVars, out, userCall, writeMu, endVars, turnEnd,
                 peerVars, answered>>

\* Mutant: a failing handler ends the exchange also on an open client.
HandlerFailsSilently(q) ==
  /\ hnd[q] = "call"
  /\ hnd' = [hnd EXCEPT ![q] = "done"]
  /\ UNCHANGED <<started, pipeVars, readerVars, out, userCall, writeMu, endVars, turnEnd,
                 peerVars, answered>>

\* There is no handler, it failed, its response is of another kind or cannot
\* be encoded. Of these only a failing handler asks closingNormally, so the
\* others fail the request in every state of the client.
HandlerFails(q) ==
  /\ hnd[q] = "call"
  /\ hnd' = [hnd EXCEPT ![q] = "finish"]
  /\ UNCHANGED <<started, pipeVars, readerVars, out, userCall, writeMu, endVars, turnEnd,
                 peerVars, answered>>

\* Mutant: the error is answered and the run left to its own end.
FinishRunsNot(q) ==
  /\ hnd[q] = "finish"
  /\ hnd' = [hnd EXCEPT ![q] = "lock"]
  /\ out' = [out EXCEPT ![q] = "error"]
  /\ UNCHANGED <<started, pipeVars, readerVars, userCall, writeMu, endVars, turnEnd,
                 peerVars, answered>>

\* failExactServerRequest ends the runs of the request before it answers. The
\* client's own close reason outranks the failure.
FinishRuns(q) ==
  /\ hnd[q] = "finish"
  /\ hnd' = [hnd EXCEPT ![q] = "lock"]
  /\ out' = [out EXCEPT ![q] = "error"]
  /\ turnEnd' = IF turnEnd[q] # "live" THEN turnEnd
            ELSE [turnEnd EXCEPT ![q] = IF closedAs = "no" THEN "request" ELSE "client"]
  /\ UNCHANGED <<started, pipeVars, readerVars, userCall, writeMu, endVars, peerVars,
                 answered>>

HandlerLocks(q) ==
  /\ hnd[q] = "lock"
  /\ Locked(q)
  /\ hnd' = [hnd EXCEPT ![q] = "push"]
  /\ UNCHANGED <<started, pipeVars, readerVars, out, userCall, endVars, turnEnd, peerVars,
                 answered>>

HandlerWrites(q) ==
  /\ hnd[q] = "push"
  /\ Written([about |-> q, is |-> out[q]])
  /\ hnd' = [hnd EXCEPT ![q] = "done"]
  /\ IF WriteFails THEN failClient ELSE UNCHANGED closedAs
  /\ UNCHANGED <<started, toClient, peerGone, pipes, readerVars, out, userCall, settled,
                 turnEnd, peerVars>>

-----------------------------------------------------------------------------
ReplyNext ==
  \/ StartReader \/ PeerReads \/ PeerExits \/ \E f \in Frames : PeerSends(f)
  \/ CloseContext \/ Settle \/ ClosePipes
  \/ CallBegins \/ CallLocks \/ CallWrites
  \/ ReadFrame \/ ReadEnds \/ ReaderSettles \/ ReaderLocks \/ ReaderWrites
  \/ \E q \in Known : \/ HandlerResponds(q) \/ HandlerAbandons(q)
                      \/ HandlerFails(q) \/ FinishRuns(q)
                      \/ HandlerLocks(q) \/ HandlerWrites(q)

\* Goroutines run, grace timers fire and the mutex is handed on (Go's mutex
\* starves nobody). The peer owes nothing, and an application's handler need
\* not return.
ReplyFairness ==
  /\ WF_replyVars(Settle) /\ WF_replyVars(ClosePipes)
  /\ WF_replyVars(ReadFrame \/ ReadEnds \/ ReaderSettles \/ ReaderWrites)
  /\ SF_replyVars(ReaderLocks)
  /\ SF_replyVars(CallLocks) /\ WF_replyVars(CallWrites)
  /\ \A q \in Known : /\ WF_replyVars(FinishRuns(q) \/ HandlerWrites(q))
                      /\ SF_replyVars(HandlerLocks(q))

ReplySpec == ReplyInit /\ [][ReplyNext]_replyVars /\ ReplyFairness

-----------------------------------------------------------------------------
(* What answering promises.                                                *)

\* "Finish correlated runs before the JSON-RPC error is visible to the peer so
\* a later successful terminal cannot race the first cause": when the peer
\* completes the turn after it was told of a failing handler, the run has
\* ended for that cause or an earlier one, never with the completion.
FirstCauseWins ==
  \A q \in Known :
    (out[q] = "error" /\ answered[q] > 0) => /\ turnEnd[q] # "live"
                                             /\ (q \in toldError => turnEnd[q] # "completed")

\* A request is answered at most once, and no goroutine that took one over is
\* done with it unanswered while the client stays open.
AnsweredOnce ==
  /\ \A q \in Requests : answered[q] <= 1
  /\ \A q \in Known : hnd[q] = "done" /\ answered[q] = 0 => closedAs # "no"

Blocked == \/ rdr # "gone"
           \/ userCall \in {"lock", "push"}
           \/ \E q \in Known : hnd[q] \in {"finish", "lock", "push"}

\* A closing client gets out of every blocked write: the reader ends, no call
\* stays in write and every handler that returned is done, even when the peer
\* never reads again and writes no more, and with writeMu held meanwhile.
CloseReleases == (closedAs # "no") ~> ~Blocked

\* A request is answered at most once, and its run ends with the cause of its
\* failure before the peer can see it.
ReplySound == ReplyTypeOK /\ FirstCauseWins /\ AnsweredOnce
=============================================================================
