------------------------------ MODULE RpcCalls ------------------------------
(***************************************************************************)
(* The outgoing JSON-RPC call table of codexsdk.Client (client.go).        *)
(*                                                                         *)
(* Every outgoing call goes through callValidated: it makes a one-slot     *)
(* response channel, enters itself in the map c.pending, writes its        *)
(* request line under writeMu and then waits in a select for its response  *)
(* or for its own context.  Three goroutines compete to settle it: the     *)
(* caller itself (write error or cancelled context), the transport reader  *)
(* (routeResponse) and the one goroutine that closes the client (failAll). *)
(* Whoever deletes the entry from c.pending owns the settlement.           *)
(*                                                                         *)
(* A call is identified by its request id; nextID.Add makes ids unique, so *)
(* a member of Calls is used once.                                         *)
(***************************************************************************)
EXTENDS Integers, FiniteSets

CONSTANTS
    Calls,      \* the outgoing calls, one per request id
    None        \* "no call", "nothing in the channel", "no outcome"

(* What the one-slot channel can carry: the decoded result, an error made  *)
(* from the response (protocol error, missing object, failed validation),  *)
(* an arming error, or the cause of the close.                             *)
Sent == {"result", "respErr", "armErr", "failure", "closed"}

(* What callValidated can return.                                          *)
Outcomes == Sent \cup {"refused", "writeErr", "ctxErr"}

ASSUME NoneAssumption == None \notin Calls \cup Outcomes

VARIABLES
    pc,          \* pc[c]: where callValidated(c) is
    pending,     \* c.pending
    response,    \* response[c]: content of the one-slot channel, or None
    outcome,     \* outcome[c]: what callValidated returned, or None
    cancelled,   \* calls whose context is done
    writer,      \* holder of writeMu, or None
    stdinOpen,   \* cleanupProcess has not closed the child's stdin
    received,    \* request ids the app-server has seen
    reader,      \* where the transport reader is
    held,        \* the call routeResponse took and has not yet answered
    closeReason, \* c.closeReason: None, "failure" or "closed"
    closer,      \* where the goroutine that runs failAll is
    drained,     \* failAll's pendingCalls still to be answered
    shutdown     \* beginShutdown has run (shutdownOnce)

callVars   == <<pc, pending, response, outcome>>
wireVars   == <<cancelled, writer, stdinOpen, received>>
readerVars == <<reader, held>>
closeVars  == <<closeReason, closer, drained, shutdown>>
vars == <<callVars, wireVars, readerVars, closeVars>>

(* c.closed and c.closeReason are set together under closeMu by both       *)
(* claimFailureLocked and beginShutdown.                                   *)
closed == closeReason # None

TypeOK ==
    /\ pc \in [Calls -> {"idle", "lock", "write", "failed", "select", "drain", "done"}]
    /\ pending \subseteq Calls
    /\ response \in [Calls -> Sent \cup {None}]
    /\ outcome \in [Calls -> Outcomes \cup {None}]
    /\ cancelled \subseteq Calls
    /\ writer \in Calls \cup {None}
    /\ stdinOpen \in BOOLEAN
    /\ received \subseteq Calls
    /\ reader \in {"read", "hold", "claim", "failing", "exited"}
    /\ held \in Calls \cup {None}
    /\ closeReason \in {None, "failure", "closed"}
    /\ closer \in {"none", "claimed", "sending", "settled"}
    /\ drained \subseteq Calls
    /\ shutdown \in BOOLEAN

Init ==
    /\ pc = [c \in Calls |-> "idle"]
    /\ pending = {}
    /\ response = [c \in Calls |-> None]
    /\ outcome = [c \in Calls |-> None]
    /\ cancelled = {}
    /\ writer = None
    /\ stdinOpen = TRUE
    /\ received = {}
    /\ reader = "read"
    /\ held = None
    /\ closeReason = None
    /\ closer = "none"
    /\ drained = {}
    /\ shutdown = FALSE

-----------------------------------------------------------------------------
(* callValidated                                                           *)

Return(c, v) ==
    /\ pc' = [pc EXCEPT ![c] = "done"]
    /\ outcome' = [outcome EXCEPT ![c] = v]

(* Mutant: admitPending without the closed check.                          *)
AdmitAlways(c) ==
    /\ pc[c] = "idle"
    /\ pending' = pending \cup {c}
    /\ pc' = [pc EXCEPT ![c] = "lock"]
    /\ UNCHANGED <<response, outcome, wireVars, readerVars, closeVars>>

(* admitPending: the closed check and the insertion are one critical       *)
(* section of closeMu.                                                     *)
Admit(c) ==
    /\ pc[c] = "idle"
    /\ ~closed
    /\ pending' = pending \cup {c}
    /\ pc' = [pc EXCEPT ![c] = "lock"]
    /\ UNCHANGED <<response, outcome, wireVars, readerVars, closeVars>>

Refuse(c) ==
    /\ pc[c] = "idle"
    /\ closed
    /\ Return(c, "refused")
    /\ UNCHANGED <<pending, response, wireVars, readerVars, closeVars>>

(* write: one request line at a time, under writeMu.                       *)
LockWrite(c) ==
    /\ pc[c] = "lock"
    /\ writer = None
    /\ writer' = c
    /\ pc' = [pc EXCEPT ![c] = "write"]
    /\ UNCHANGED <<pending, response, outcome, cancelled, stdinOpen, received,
                   readerVars, closeVars>>

(* The pipe accepts the line.  Nothing forces the child to read: the write *)
(* may stay blocked, whatever the call's own context says.                 *)
WriteOk(c) ==
    /\ pc[c] = "write"
    /\ stdinOpen
    /\ writer' = None
    /\ received' = received \cup {c}
    /\ pc' = [pc EXCEPT ![c] = "select"]
    /\ UNCHANGED <<pending, response, outcome, cancelled, stdinOpen, readerVars, closeVars>>

(* The write fails: encoding error, broken pipe, or stdin closed under it. *)
(* A line that was cut off may or may not have reached the app-server.     *)
WriteError(c) ==
    /\ pc[c] = "write"
    /\ writer' = None
    /\ \E r \in {received, received \cup {c}} : received' = r
    /\ pc' = [pc EXCEPT ![c] = "failed"]
    /\ UNCHANGED <<pending, response, outcome, cancelled, stdinOpen, readerVars, closeVars>>

(* Mutant: the caller returns its own error whoever owns the entry.        *)
ReturnAnyway(c, err) ==
    /\ pending' = pending \ {c}
    /\ Return(c, err)
    /\ UNCHANGED response

(* takePending by the caller: either it still owns the entry and returns   *)
(* its own error, or somebody else does and the caller waits for it.       *)
TakeOrDrain(c, err) ==
    \/ /\ c \in pending
       /\ pending' = pending \ {c}
       /\ Return(c, err)
       /\ UNCHANGED response
    \/ /\ c \notin pending
       /\ pc' = [pc EXCEPT ![c] = "drain"]
       /\ UNCHANGED <<pending, outcome, response>>

WriteErrorReturn(c) ==
    /\ pc[c] = "failed"
    /\ TakeOrDrain(c, "writeErr")
    /\ UNCHANGED <<wireVars, readerVars, closeVars>>

(* The two arms of the select; with both ready Go picks either.            *)
SelectResponse(c) ==
    /\ pc[c] = "select"
    /\ response[c] # None
    /\ Return(c, response[c])
    /\ response' = [response EXCEPT ![c] = None]
    /\ UNCHANGED <<pending, wireVars, readerVars, closeVars>>

SelectCtxDone(c) ==
    /\ pc[c] = "select"
    /\ c \in cancelled
    /\ TakeOrDrain(c, "ctxErr")
    /\ UNCHANGED <<wireVars, readerVars, closeVars>>

(* response := <-ch after losing the entry: no other case can end it.      *)
DrainResponse(c) ==
    /\ pc[c] = "drain"
    /\ response[c] # None
    /\ Return(c, response[c])
    /\ response' = [response EXCEPT ![c] = None]
    /\ UNCHANGED <<pending, wireVars, readerVars, closeVars>>

(* The caller's context ends, at any moment of the call.                   *)
CtxDone(c) ==
    /\ c \notin cancelled
    /\ pc[c] \notin {"idle", "done"}
    /\ cancelled' = cancelled \cup {c}
    /\ UNCHANGED <<callVars, writer, stdinOpen, received, readerVars, closeVars>>

-----------------------------------------------------------------------------
(* The transport reader                                                    *)

(* routeResponse for a request id the app-server has seen.  The app-server *)
(* may answer twice or late: without an entry the frame is dropped.        *)
RouteResponse(c) ==
    /\ reader = "read"
    /\ c \in received
    /\ \/ /\ c \in pending
          /\ pending' = pending \ {c}
          /\ reader' = "hold"
          /\ held' = c
       \/ /\ c \notin pending
          /\ UNCHANGED <<pending, readerVars>>
    /\ UNCHANGED <<pc, response, outcome, wireVars, closeVars>>

(* Mutant: an early return of routeResponse that forgets to answer.        *)
SendUnlessInvalid(v) ==
    /\ reader = "hold"
    /\ response' = IF v = "respErr" THEN response ELSE [response EXCEPT ![held] = v]
    /\ held' = None
    /\ reader' = IF v = "armErr" THEN "claim" ELSE "read"
    /\ UNCHANGED <<pc, pending, outcome, wireVars, closeVars>>

(* Mutant: the error branch sends a response with neither result nor error. *)
SendEmpty(v) ==
    /\ reader = "hold"
    /\ response' = [response EXCEPT ![held] = IF v = "respErr" THEN "nil" ELSE v]
    /\ held' = None
    /\ reader' = IF v = "armErr" THEN "claim" ELSE "read"
    /\ UNCHANGED <<pc, pending, outcome, wireVars, closeVars>>

(* pending.response <- v.  A send into a full slot would block the reader. *)
SendResponse(v) ==
    /\ reader = "hold"
    /\ response[held] = None
    /\ response' = [response EXCEPT ![held] = v]
    /\ held' = None
    /\ reader' = IF v = "armErr" THEN "claim" ELSE "read"
    /\ UNCHANGED <<pc, pending, outcome, wireVars, closeVars>>

(* Mutant: the claim does not look at closed; the last cause wins.         *)
ClaimAlways ==
    /\ closeReason' = "failure"
    /\ closer' = "claimed"
    /\ UNCHANGED <<drained, shutdown>>

(* claimFailureLocked: the first cause wins, one goroutine gets failAll.   *)
Claim ==
    /\ ~closed
    /\ closeReason' = "failure"
    /\ closer' = "claimed"
    /\ UNCHANGED <<drained, shutdown>>

(* failClient after an arming error, on the reader goroutine: it reads     *)
(* again only after failAll has returned.                                  *)
ReaderFailClient ==
    /\ reader = "claim"
    /\ \/ Claim /\ reader' = "failing"
       \/ closed /\ reader' = "read" /\ UNCHANGED closeVars
    /\ UNCHANGED <<callVars, wireVars, held>>

ReaderResume ==
    /\ reader = "failing"
    /\ closer = "settled"
    /\ reader' = "read"
    /\ UNCHANGED <<callVars, wireVars, held, closeVars>>

(* End of stdout, a read error or an invalid line ends the reader, which   *)
(* fails the client unless it is closed already.                           *)
ReaderExit ==
    /\ reader = "read"
    /\ reader' = "exited"
    /\ \/ Claim
       \/ closed /\ UNCHANGED closeVars
    /\ UNCHANGED <<callVars, wireVars, held>>

-----------------------------------------------------------------------------
(* Closing                                                                 *)

(* failClient called by another goroutine (dispatcher, runner, handler).   *)
FailClient ==
    /\ Claim
    /\ UNCHANGED <<callVars, wireVars, readerVars>>

(* Mutant: beginShutdown overwrites the cause of a failed client.          *)
BeginShutdownOverwrites ==
    /\ ~shutdown
    /\ shutdown' = TRUE
    /\ closeReason' = "closed"
    /\ closer' = IF closed THEN closer ELSE "claimed"
    /\ UNCHANGED <<callVars, wireVars, readerVars, drained>>

(* CloseContext -> beginShutdown.  Without a failure the shutdown          *)
(* goroutine runs failAll(ErrClientClosed) itself.                         *)
BeginShutdown ==
    /\ ~shutdown
    /\ shutdown' = TRUE
    /\ \/ /\ ~closed
          /\ closeReason' = "closed"
          /\ closer' = "claimed"
       \/ /\ closed
          /\ UNCHANGED <<closeReason, closer>>
    /\ UNCHANGED <<callVars, wireVars, readerVars, drained>>

(* failAll, first critical section of closeMu.                             *)
FailAllTake ==
    /\ closer = "claimed"
    /\ drained' = pending
    /\ pending' = {}
    /\ closer' = "sending"
    /\ UNCHANGED <<pc, response, outcome, wireVars, readerVars, closeReason, shutdown>>

(* failAll, last loop: the calls in map order, i.e. in any order.          *)
FailAllSend(c) ==
    /\ closer = "sending"
    /\ c \in drained
    /\ response[c] = None
    /\ response' = [response EXCEPT ![c] = closeReason]
    /\ drained' = drained \ {c}
    /\ UNCHANGED <<pc, pending, outcome, wireVars, readerVars, closeReason, closer, shutdown>>

FailAllEnd ==
    /\ closer = "sending"
    /\ drained = {}
    /\ closer' = "settled"
    /\ UNCHANGED <<callVars, wireVars, readerVars, closeReason, drained, shutdown>>

(* startClientFailureTeardown, by the goroutine that claimed the failure.  *)
TearDown ==
    /\ closer = "settled"
    /\ ~shutdown
    /\ shutdown' = TRUE
    /\ UNCHANGED <<callVars, wireVars, readerVars, closeReason, closer, drained>>

(* Mutant: closing stdin waits for writeMu.                                *)
CloseStdinLocked ==
    /\ shutdown
    /\ stdinOpen
    /\ writer = None
    /\ stdinOpen' = FALSE
    /\ UNCHANGED <<callVars, cancelled, writer, received, readerVars, closeVars>>

(* cleanupProcess closes stdin without writeMu, under a blocked write.     *)
CloseStdin ==
    /\ shutdown
    /\ stdinOpen
    /\ stdinOpen' = FALSE
    /\ UNCHANGED <<callVars, cancelled, writer, received, readerVars, closeVars>>

-----------------------------------------------------------------------------
CallStep(c) ==
    \/ Admit(c) \/ Refuse(c) \/ LockWrite(c) \/ WriteOk(c) \/ WriteError(c)
    \/ WriteErrorReturn(c) \/ SelectResponse(c) \/ SelectCtxDone(c)
    \/ DrainResponse(c) \/ CtxDone(c)

ReaderStep ==
    \/ \E c \in Calls : RouteResponse(c)
    \/ \E v \in {"result", "respErr", "armErr"} : SendResponse(v)
    \/ ReaderFailClient \/ ReaderResume \/ ReaderExit

CloseStep ==
    \/ FailClient \/ BeginShutdown \/ FailAllTake
    \/ \E c \in Calls : FailAllSend(c)
    \/ FailAllEnd \/ TearDown \/ CloseStdin

Next == (\E c \in Calls : CallStep(c)) \/ ReaderStep \/ CloseStep

Spec == Init /\ [][Next]_vars

(* Goroutines that can run do run.  Nothing is assumed of the child (it    *)
(* may never read or answer), of contexts (they may never end) or of the   *)
(* user (who may never close).  The mutex writeMu is fair to every waiter  *)
(* (sync.Mutex's starvation mode), hence SF for LockWrite.                 *)
Fairness ==
    /\ \A c \in Calls :
          /\ SF_vars(LockWrite(c))
          /\ WF_vars(~stdinOpen /\ WriteError(c))
          /\ WF_vars(WriteErrorReturn(c))
          /\ WF_vars(SelectResponse(c) \/ SelectCtxDone(c))
          /\ WF_vars(DrainResponse(c))
          /\ WF_vars(FailAllSend(c))
    /\ WF_vars(\E v \in {"result", "respErr", "armErr"} : SendResponse(v))
    /\ WF_vars(ReaderFailClient)
    /\ WF_vars(ReaderResume)
    /\ WF_vars(FailAllTake)
    /\ WF_vars(FailAllEnd)
    /\ WF_vars(TearDown)
    /\ WF_vars(CloseStdin)

FairSpec == Spec /\ Fairness

-----------------------------------------------------------------------------
(* The places from which a call can still be settled.                      *)
InTable(c)  == c \in pending
InReader(c) == held = c
InCloser(c) == c \in drained
InSlot(c)   == response[c] # None
Returned(c) == pc[c] = "done"

(* SettlementToken: from admission to return exactly one party can settle  *)
(* a call: the table entry, the reader that took it, the closer that took  *)
(* it, or the value already in its slot.  So no response is lost, none is  *)
(* delivered twice, no send into the one-slot channel ever blocks the      *)
(* reader or the closer, and a caller that lost takePending never waits    *)
(* for nobody (callValidated, routeResponse, failAll).                     *)
SettlementToken ==
    \A c \in Calls :
        /\ pc[c] = "idle" => ~InTable(c) /\ ~InReader(c) /\ ~InCloser(c) /\ ~InSlot(c)
        /\ pc[c] # "idle" =>
              /\ InTable(c) \/ InReader(c) \/ InCloser(c) \/ InSlot(c) \/ Returned(c)
              /\ ~(InTable(c) /\ (InReader(c) \/ InCloser(c) \/ InSlot(c) \/ Returned(c)))
              /\ ~(InReader(c) /\ (InCloser(c) \/ InSlot(c) \/ Returned(c)))
              /\ ~(InCloser(c) /\ (InSlot(c) \/ Returned(c)))
              /\ ~(InSlot(c) /\ Returned(c))
              /\ pc[c] = "drain" => ~InTable(c)

(* NoOrphan: once failAll has taken the table no call can be in it, and    *)
(* once failAll has ended every call has its value or is with the reader:  *)
(* a call that raced the close is either refused or answered.              *)
NoOrphan ==
    /\ closer \in {"sending", "settled"} => pending = {}
    /\ closer = "settled" => drained = {}
    /\ closed => closer # "none"

(* FirstCause: an outcome that names a close cause names the first one     *)
(* that was claimed (claimFailureLocked, beginShutdown).                   *)
FirstCause ==
    \A c \in Calls :
        /\ outcome[c] \in {"failure", "closed"} => outcome[c] = closeReason
        /\ response[c] \in {"failure", "closed"} => response[c] = closeReason
        /\ outcome[c] = "refused" => closed

(* CauseIsFinal: a later failure or close never replaces the cause that    *)
(* closed the client (claimFailureLocked, beginShutdown).                  *)
CauseIsFinal == [][closed => closeReason' = closeReason]_vars

(* ClosedSettles: once the client is closed every call returns, also one   *)
(* that is blocked in the write of its request: cleanupProcess closes the  *)
(* pipe without writeMu.                                                   *)
ClosedSettles == \A c \in Calls : closed /\ pc[c] # "idle" ~> pc[c] = "done"

(* CancelReturns: a call whose request is written returns when its context *)
(* ends, even if the app-server never answers.                             *)
CancelReturns == \A c \in Calls : pc[c] = "select" /\ c \in cancelled ~> pc[c] = "done"

-----------------------------------------------------------------------------
(* The verdict a call has as soon as it is decided: the value in its slot  *)
(* counts, its caller only has to pick it up.                              *)
verdict ==
    [c \in Calls |->
        IF pc[c] = "idle" THEN "new"
        ELSE IF outcome[c] # None THEN outcome[c]
        ELSE IF response[c] # None THEN response[c]
        ELSE "open"]

Promise == INSTANCE OneShotCalls WITH cause <- closeReason

(* OneShot: the call table implements OneShotCalls: one true verdict per   *)
(* admitted call, none after the close for a call that was not admitted.   *)
OneShot == Promise!Spec

\* A close reaches every call, and with the cause that was claimed first: none that
\* was admitted is missed by the sweep of failAll, and none is told another cause.
CloseReaches == NoOrphan /\ FirstCause

\* Every call ends: once the client is closed, and once its context is over.
CallsEnd == ClosedSettles /\ CancelReturns
=============================================================================
