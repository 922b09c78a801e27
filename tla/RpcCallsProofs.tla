--------------------------- MODULE RpcCallsProofs ---------------------------
(***************************************************************************)
(* Proofs about RpcCalls, for any set of calls.                            *)
(*                                                                         *)
(* SettlementToken is not inductive alone: a step of the reader is safe    *)
(* only because the reader holds at most one call, and a step of the       *)
(* closer only because its list is empty until it takes the table.  These  *)
(* facts are Bookkeeping; the inductive invariant is IInv.                 *)
(***************************************************************************)
EXTENDS RpcCalls, TLAPS

ReaderBook ==
    /\ reader = "hold" <=> held \in Calls
    /\ held \in Calls => held \in received

CloserBook ==
    /\ closer = "none" <=> closeReason = None
    /\ closer # "sending" => drained = {}

OutcomeBook == \A c \in Calls : outcome[c] # None <=> pc[c] = "done"

Bookkeeping == ReaderBook /\ CloserBook /\ OutcomeBook

IInv == TypeOK /\ Bookkeeping /\ SettlementToken

-----------------------------------------------------------------------------
(* Every action of callValidated, routeResponse, failAll, failClient and   *)
(* shutdown keeps the state well typed.                                    *)
LEMMA TypeStep == TypeOK /\ [Next]_vars => TypeOK'
<1> SUFFICES ASSUME TypeOK, [Next]_vars PROVE TypeOK'
    OBVIOUS
<1> USE NoneAssumption DEF TypeOK, Sent, Outcomes, callVars, wireVars, readerVars, closeVars, closed
<1>1. ASSUME NEW c \in Calls, CallStep(c) PROVE TypeOK'
  <2>1. CASE Admit(c)            BY <2>1 DEF Admit
  <2>2. CASE Refuse(c)           BY <2>2 DEF Refuse, Return
  <2>3. CASE LockWrite(c)        BY <2>3 DEF LockWrite
  <2>4. CASE WriteOk(c)          BY <2>4 DEF WriteOk
  <2>5. CASE WriteError(c)       BY <2>5 DEF WriteError
  <2>6. CASE WriteErrorReturn(c) BY <2>6 DEF WriteErrorReturn, TakeOrDrain, Return
  <2>7. CASE SelectResponse(c)   BY <2>7 DEF SelectResponse, Return
  <2>8. CASE SelectCtxDone(c)    BY <2>8 DEF SelectCtxDone, TakeOrDrain, Return
  <2>9. CASE DrainResponse(c)    BY <2>9 DEF DrainResponse, Return
  <2>10. CASE CtxDone(c)         BY <2>10 DEF CtxDone
  <2> QED BY <1>1, <2>1, <2>2, <2>3, <2>4, <2>5, <2>6, <2>7, <2>8, <2>9, <2>10 DEF CallStep
<1>2. ASSUME ReaderStep PROVE TypeOK'
  <2>1. ASSUME NEW c \in Calls, RouteResponse(c) PROVE TypeOK'
        BY <2>1 DEF RouteResponse
  <2>2. ASSUME NEW v \in {"result", "respErr", "armErr"}, SendResponse(v) PROVE TypeOK'
        BY <2>2 DEF SendResponse
  <2>3. CASE ReaderFailClient    BY <2>3 DEF ReaderFailClient, Claim
  <2>4. CASE ReaderResume        BY <2>4 DEF ReaderResume
  <2>5. CASE ReaderExit          BY <2>5 DEF ReaderExit, Claim
  <2> QED BY <1>2, <2>1, <2>2, <2>3, <2>4, <2>5 DEF ReaderStep
<1>3. ASSUME CloseStep PROVE TypeOK'
  <2>1. CASE FailClient          BY <2>1 DEF FailClient, Claim
  <2>2. CASE BeginShutdown       BY <2>2 DEF BeginShutdown
  <2>3. CASE FailAllTake         BY <2>3 DEF FailAllTake
  <2>4. ASSUME NEW c \in Calls, FailAllSend(c) PROVE TypeOK'
        BY <2>4 DEF FailAllSend
  <2>5. CASE FailAllEnd          BY <2>5 DEF FailAllEnd
  <2>6. CASE TearDown            BY <2>6 DEF TearDown
  <2>7. CASE CloseStdin          BY <2>7 DEF CloseStdin
  <2> QED BY <1>3, <2>1, <2>2, <2>3, <2>4, <2>5, <2>6, <2>7 DEF CloseStep
<1>4. CASE UNCHANGED vars        BY <1>4 DEF vars
<1> QED BY <1>1, <1>2, <1>3, <1>4 DEF Next

(* RpcTyped: the call table stays well typed in every behaviour.           *)
THEOREM RpcTyped == Spec => []TypeOK
<1>1. Init => TypeOK
      BY NoneAssumption DEF Init, TypeOK
<1> QED BY <1>1, TypeStep, PTL DEF Spec

-----------------------------------------------------------------------------
(* The facts about the reader and the closer are kept by every action.     *)
LEMMA BookStep == IInv /\ [Next]_vars => Bookkeeping'
<1> SUFFICES ASSUME IInv, [Next]_vars PROVE Bookkeeping'
    OBVIOUS
<1> USE NoneAssumption DEF IInv, TypeOK, Bookkeeping, ReaderBook, CloserBook, OutcomeBook,
        Sent, Outcomes, callVars, wireVars, readerVars, closeVars, closed
<1>1. ASSUME NEW c \in Calls, CallStep(c) PROVE Bookkeeping'
  <2>1. CASE Admit(c)            BY <2>1 DEF Admit
  <2>2. CASE Refuse(c)           BY <2>2 DEF Refuse, Return
  <2>3. CASE LockWrite(c)        BY <2>3 DEF LockWrite
  <2>4. CASE WriteOk(c)          BY <2>4 DEF WriteOk
  <2>5. CASE WriteError(c)       BY <2>5 DEF WriteError
  <2>6. CASE WriteErrorReturn(c) BY <2>6 DEF WriteErrorReturn, TakeOrDrain, Return
  <2>7. CASE SelectResponse(c)   BY <2>7 DEF SelectResponse, Return
  <2>8. CASE SelectCtxDone(c)    BY <2>8 DEF SelectCtxDone, TakeOrDrain, Return
  <2>9. CASE DrainResponse(c)    BY <2>9 DEF DrainResponse, Return
  <2>10. CASE CtxDone(c)         BY <2>10 DEF CtxDone
  <2> QED BY <1>1, <2>1, <2>2, <2>3, <2>4, <2>5, <2>6, <2>7, <2>8, <2>9, <2>10 DEF CallStep
<1>2. ASSUME ReaderStep PROVE Bookkeeping'
  <2>1. ASSUME NEW c \in Calls, RouteResponse(c) PROVE Bookkeeping'
        BY <2>1 DEF RouteResponse
  <2>2. ASSUME NEW v \in {"result", "respErr", "armErr"}, SendResponse(v) PROVE Bookkeeping'
        BY <2>2 DEF SendResponse
  <2>3. CASE ReaderFailClient    BY <2>3 DEF ReaderFailClient, Claim
  <2>4. CASE ReaderResume        BY <2>4 DEF ReaderResume
  <2>5. CASE ReaderExit          BY <2>5 DEF ReaderExit, Claim
  <2> QED BY <1>2, <2>1, <2>2, <2>3, <2>4, <2>5 DEF ReaderStep
<1>3. ASSUME CloseStep PROVE Bookkeeping'
  <2>1. CASE FailClient          BY <2>1 DEF FailClient, Claim
  <2>2. CASE BeginShutdown       BY <2>2 DEF BeginShutdown
  <2>3. CASE FailAllTake         BY <2>3 DEF FailAllTake
  <2>4. ASSUME NEW c \in Calls, FailAllSend(c) PROVE Bookkeeping'
        BY <2>4 DEF FailAllSend
  <2>5. CASE FailAllEnd          BY <2>5 DEF FailAllEnd
  <2>6. CASE TearDown            BY <2>6 DEF TearDown
  <2>7. CASE CloseStdin          BY <2>7 DEF CloseStdin
  <2> QED BY <1>3, <2>1, <2>2, <2>3, <2>4, <2>5, <2>6, <2>7 DEF CloseStep
<1>4. CASE UNCHANGED vars        BY <1>4 DEF vars
<1> QED BY <1>1, <1>2, <1>3, <1>4 DEF Next

(* Each action hands the settlement of a call from one holder to the next. *)
LEMMA TokenStep == IInv /\ [Next]_vars => SettlementToken'
<1> SUFFICES ASSUME IInv, [Next]_vars PROVE SettlementToken'
    OBVIOUS
<1> USE NoneAssumption DEF IInv, TypeOK, Bookkeeping, ReaderBook, CloserBook, OutcomeBook,
        SettlementToken, InTable, InReader, InCloser, InSlot, Returned,
        Sent, Outcomes, callVars, wireVars, readerVars, closeVars, closed
<1>1. ASSUME NEW c \in Calls, CallStep(c) PROVE SettlementToken'
  <2>1. CASE Admit(c)            BY <2>1 DEF Admit
  <2>2. CASE Refuse(c)           BY <2>2 DEF Refuse, Return
  <2>3. CASE LockWrite(c)        BY <2>3 DEF LockWrite
  <2>4. CASE WriteOk(c)          BY <2>4 DEF WriteOk
  <2>5. CASE WriteError(c)       BY <2>5 DEF WriteError
  <2>6. CASE WriteErrorReturn(c) BY <2>6 DEF WriteErrorReturn, TakeOrDrain, Return
  <2>7. CASE SelectResponse(c)   BY <2>7 DEF SelectResponse, Return
  <2>8. CASE SelectCtxDone(c)    BY <2>8 DEF SelectCtxDone, TakeOrDrain, Return
  <2>9. CASE DrainResponse(c)    BY <2>9 DEF DrainResponse, Return
  <2>10. CASE CtxDone(c)         BY <2>10 DEF CtxDone
  <2> QED BY <1>1, <2>1, <2>2, <2>3, <2>4, <2>5, <2>6, <2>7, <2>8, <2>9, <2>10 DEF CallStep
<1>2. ASSUME ReaderStep PROVE SettlementToken'
  <2>1. ASSUME NEW c \in Calls, RouteResponse(c) PROVE SettlementToken'
        BY <2>1 DEF RouteResponse
  <2>2. ASSUME NEW v \in {"result", "respErr", "armErr"}, SendResponse(v) PROVE SettlementToken'
        BY <2>2 DEF SendResponse
  <2>3. CASE ReaderFailClient    BY <2>3 DEF ReaderFailClient, Claim
  <2>4. CASE ReaderResume        BY <2>4 DEF ReaderResume
  <2>5. CASE ReaderExit          BY <2>5 DEF ReaderExit, Claim
  <2> QED BY <1>2, <2>1, <2>2, <2>3, <2>4, <2>5 DEF ReaderStep
<1>3. ASSUME CloseStep PROVE SettlementToken'
  <2>1. CASE FailClient          BY <2>1 DEF FailClient, Claim
  <2>2. CASE BeginShutdown       BY <2>2 DEF BeginShutdown
  <2>3. CASE FailAllTake         BY <2>3 DEF FailAllTake
  <2>4. ASSUME NEW c \in Calls, FailAllSend(c) PROVE SettlementToken'
        BY <2>4 DEF FailAllSend
  <2>5. CASE FailAllEnd          BY <2>5 DEF FailAllEnd
  <2>6. CASE TearDown            BY <2>6 DEF TearDown
  <2>7. CASE CloseStdin          BY <2>7 DEF CloseStdin
  <2> QED BY <1>3, <2>1, <2>2, <2>3, <2>4, <2>5, <2>6, <2>7 DEF CloseStep
<1>4. CASE UNCHANGED vars        BY <1>4 DEF vars
<1> QED BY <1>1, <1>2, <1>3, <1>4 DEF Next

LEMMA Invariance == Spec => []IInv
<1>1. Init => IInv
      BY NoneAssumption DEF Init, IInv, TypeOK, Bookkeeping, ReaderBook, CloserBook, OutcomeBook,
         SettlementToken, InTable, InReader, InCloser, InSlot, Returned, Sent, Outcomes
<1>2. IInv /\ [Next]_vars => IInv'
      BY TypeStep, BookStep, TokenStep DEF IInv
<1> QED BY <1>1, <1>2, PTL DEF Spec

(* OneSettlement: in every behaviour, with any number of calls, exactly    *)
(* one of table, reader, closer and slot can settle an admitted call that  *)
(* has not returned (callValidated, routeResponse, failAll).               *)
THEOREM OneSettlement == Spec => []SettlementToken
<1>1. IInv => SettlementToken
      BY DEF IInv
<1> QED BY <1>1, Invariance, PTL

-----------------------------------------------------------------------------
(* The close: no entry appears after failAll took the table, and every     *)
(* cause a call reports is the first one.                                  *)
LEMMA CloseStepKeeps == IInv /\ NoOrphan /\ FirstCause /\ [Next]_vars => NoOrphan' /\ FirstCause'
<1> SUFFICES ASSUME IInv, NoOrphan, FirstCause, [Next]_vars PROVE NoOrphan' /\ FirstCause'
    OBVIOUS
<1> USE NoneAssumption DEF IInv, TypeOK, Bookkeeping, CloserBook, NoOrphan, FirstCause,
        Sent, Outcomes, callVars, wireVars, readerVars, closeVars, closed
<1>1. ASSUME NEW c \in Calls, CallStep(c) PROVE NoOrphan' /\ FirstCause'
  <2>1. CASE Admit(c)            BY <2>1 DEF Admit
  <2>2. CASE Refuse(c)           BY <2>2 DEF Refuse, Return
  <2>3. CASE LockWrite(c)        BY <2>3 DEF LockWrite
  <2>4. CASE WriteOk(c)          BY <2>4 DEF WriteOk
  <2>5. CASE WriteError(c)       BY <2>5 DEF WriteError
  <2>6. CASE WriteErrorReturn(c) BY <2>6 DEF WriteErrorReturn, TakeOrDrain, Return
  <2>7. CASE SelectResponse(c)   BY <2>7 DEF SelectResponse, Return
  <2>8. CASE SelectCtxDone(c)    BY <2>8 DEF SelectCtxDone, TakeOrDrain, Return
  <2>9. CASE DrainResponse(c)    BY <2>9 DEF DrainResponse, Return
  <2>10. CASE CtxDone(c)         BY <2>10 DEF CtxDone
  <2> QED BY <1>1, <2>1, <2>2, <2>3, <2>4, <2>5, <2>6, <2>7, <2>8, <2>9, <2>10 DEF CallStep
<1>2. ASSUME ReaderStep PROVE NoOrphan' /\ FirstCause'
  <2>1. ASSUME NEW c \in Calls, RouteResponse(c) PROVE NoOrphan' /\ FirstCause'
        BY <2>1 DEF RouteResponse
  <2>2. ASSUME NEW v \in {"result", "respErr", "armErr"}, SendResponse(v) PROVE NoOrphan' /\ FirstCause'
        BY <2>2 DEF SendResponse
  <2>3. CASE ReaderFailClient    BY <2>3 DEF ReaderFailClient, Claim
  <2>4. CASE ReaderResume        BY <2>4 DEF ReaderResume
  <2>5. CASE ReaderExit          BY <2>5 DEF ReaderExit, Claim
  <2> QED BY <1>2, <2>1, <2>2, <2>3, <2>4, <2>5 DEF ReaderStep
<1>3. ASSUME CloseStep PROVE NoOrphan' /\ FirstCause'
  <2>1. CASE FailClient          BY <2>1 DEF FailClient, Claim
  <2>2. CASE BeginShutdown       BY <2>2 DEF BeginShutdown
  <2>3. CASE FailAllTake         BY <2>3 DEF FailAllTake
  <2>4. ASSUME NEW c \in Calls, FailAllSend(c) PROVE NoOrphan' /\ FirstCause'
        BY <2>4 DEF FailAllSend
  <2>5. CASE FailAllEnd          BY <2>5 DEF FailAllEnd
  <2>6. CASE TearDown            BY <2>6 DEF TearDown
  <2>7. CASE CloseStdin          BY <2>7 DEF CloseStdin
  <2> QED BY <1>3, <2>1, <2>2, <2>3, <2>4, <2>5, <2>6, <2>7 DEF CloseStep
<1>4. CASE UNCHANGED vars        BY <1>4 DEF vars
<1> QED BY <1>1, <1>2, <1>3, <1>4 DEF Next

(* CloseReachesAll: in every behaviour, once failAll has taken the table   *)
(* no call can be stranded in it, and a call that reports a close cause    *)
(* reports the first one (admitPending, claimFailureLocked, failAll).      *)
THEOREM CloseReachesAll == Spec => []CloseReaches
<1>1. Init => NoOrphan /\ FirstCause
      BY NoneAssumption DEF Init, NoOrphan, FirstCause, closed, Outcomes, Sent
<1>2. NoOrphan /\ FirstCause => CloseReaches
      BY DEF CloseReaches
<1> QED BY <1>1, <1>2, CloseStepKeeps, Invariance, PTL DEF Spec

(* CauseStays: no later failure, close or read error replaces the cause    *)
(* that closed the client.                                                 *)
THEOREM CauseStays == Spec => CauseIsFinal
<1>1. [Next]_vars => [closed => closeReason' = closeReason]_vars
  <2> SUFFICES ASSUME Next, closed PROVE closeReason' = closeReason
      OBVIOUS
  <2> USE DEF callVars, wireVars, readerVars, closeVars, closed
  <2>1. ASSUME NEW c \in Calls, CallStep(c) PROVE closeReason' = closeReason
        BY <2>1 DEF CallStep, Admit, Refuse, Return, LockWrite, WriteOk, WriteError,
                    WriteErrorReturn, TakeOrDrain, SelectResponse, SelectCtxDone,
                    DrainResponse, CtxDone
  <2>2. CASE ReaderStep
        BY <2>2 DEF ReaderStep, RouteResponse, SendResponse, ReaderFailClient, ReaderResume,
                    ReaderExit, Claim
  <2>3. CASE CloseStep
        BY <2>3 DEF CloseStep, FailClient, Claim, BeginShutdown, FailAllTake, FailAllSend,
                    FailAllEnd, TearDown, CloseStdin
  <2> QED BY <2>1, <2>2, <2>3 DEF Next
<1> QED BY <1>1, PTL DEF Spec, CauseIsFinal

-----------------------------------------------------------------------------
(* Every step of the call table is a step of OneShotCalls or changes no    *)
(* verdict.  SettlementToken is what makes the handovers invisible: a      *)
(* value in the slot of c means that c has not returned.                   *)
LEMMA RefinementStep == IInv /\ [Next]_vars => [Promise!Next]_(Promise!vars)
<1> SUFFICES ASSUME IInv, [Next]_vars PROVE Promise!Next \/ UNCHANGED Promise!vars
    OBVIOUS
<1> USE NoneAssumption DEF IInv, TypeOK, Bookkeeping, ReaderBook, CloserBook, OutcomeBook,
        SettlementToken, InTable, InReader, InCloser, InSlot, Returned,
        Sent, Outcomes, callVars, wireVars, readerVars, closeVars, closed, verdict,
        Promise!vars, Promise!Next
<1>1. ASSUME NEW c \in Calls, CallStep(c) PROVE Promise!Next \/ UNCHANGED Promise!vars
  <2>1. CASE Admit(c)
    <3>1. verdict[c] = "new"
          BY <2>1 DEF Admit
    <3>2. verdict' = [verdict EXCEPT ![c] = "open"]
          BY <2>1 DEF Admit
    <3>3. Promise!Admit(c)
          BY <2>1, <3>1, <3>2 DEF Admit, Promise!Admit, Promise!Settle
    <3> QED BY <3>3
  <2>2. CASE Refuse(c)
        BY <2>2 DEF Refuse, Return, Promise!Refuse, Promise!Settle
  <2>3. CASE LockWrite(c)
        BY <2>3 DEF LockWrite
  <2>4. CASE WriteOk(c)
        BY <2>4 DEF WriteOk, Promise!Deliver
  <2>5. CASE WriteError(c)
        BY <2>5 DEF WriteError, Promise!Deliver
  <2>6. CASE WriteErrorReturn(c)
    <3>1. CASE c \in pending
      <4>1. verdict[c] = "open"
            BY <2>6, <3>1
      <4>2. verdict' = [verdict EXCEPT ![c] = "writeErr"]
            BY <2>6, <3>1, <4>1 DEF WriteErrorReturn, TakeOrDrain, Return
      <4>3. Promise!GiveUp(c)
            BY <2>6, <4>1, <4>2 DEF WriteErrorReturn, Promise!GiveUp, Promise!Settle
      <4> QED BY <4>3
    <3>2. CASE c \notin pending
          BY <2>6, <3>2 DEF WriteErrorReturn, TakeOrDrain
    <3> QED BY <3>1, <3>2
  <2>7. CASE SelectResponse(c)
        BY <2>7 DEF SelectResponse, Return
  <2>8. CASE SelectCtxDone(c)
    <3>1. CASE c \in pending
      <4>1. verdict[c] = "open"
            BY <2>8, <3>1
      <4>2. verdict' = [verdict EXCEPT ![c] = "ctxErr"]
            BY <2>8, <3>1, <4>1 DEF SelectCtxDone, TakeOrDrain, Return
      <4>3. Promise!GiveUp(c)
            BY <2>8, <4>1, <4>2 DEF SelectCtxDone, Promise!GiveUp, Promise!Settle
      <4> QED BY <4>3
    <3>2. CASE c \notin pending
          BY <2>8, <3>2 DEF SelectCtxDone, TakeOrDrain
    <3> QED BY <3>1, <3>2
  <2>9. CASE DrainResponse(c)
        BY <2>9 DEF DrainResponse, Return
  <2>10. CASE CtxDone(c)
        BY <2>10 DEF CtxDone, Promise!Cancel
  <2> QED BY <1>1, <2>1, <2>2, <2>3, <2>4, <2>5, <2>6, <2>7, <2>8, <2>9, <2>10 DEF CallStep
<1>2. ASSUME ReaderStep PROVE Promise!Next \/ UNCHANGED Promise!vars
  <2>1. ASSUME NEW c \in Calls, RouteResponse(c) PROVE UNCHANGED Promise!vars
        BY <2>1 DEF RouteResponse
  <2>2. ASSUME NEW v \in {"result", "respErr", "armErr"}, SendResponse(v)
        PROVE Promise!Next \/ UNCHANGED Promise!vars
    <3>1. held \in Calls /\ verdict[held] = "open" /\ held \in received
          BY <2>2 DEF SendResponse
    <3>2. verdict' = [verdict EXCEPT ![held] = v]
          BY <2>2, <3>1 DEF SendResponse
    <3>3. Promise!Answer(held)
          BY <2>2, <3>1, <3>2 DEF SendResponse, Promise!Answer, Promise!Settle, Promise!Answers
    <3> QED BY <3>1, <3>3
  <2>3. CASE ReaderFailClient
        BY <2>3 DEF ReaderFailClient, Claim, Promise!Close, Promise!Causes
  <2>4. CASE ReaderResume        BY <2>4 DEF ReaderResume
  <2>5. CASE ReaderExit
        BY <2>5 DEF ReaderExit, Claim, Promise!Close, Promise!Causes
  <2> QED BY <1>2, <2>1, <2>2, <2>3, <2>4, <2>5 DEF ReaderStep
<1>3. ASSUME CloseStep PROVE Promise!Next \/ UNCHANGED Promise!vars
  <2>1. CASE FailClient
        BY <2>1 DEF FailClient, Claim, Promise!Close, Promise!Causes
  <2>2. CASE BeginShutdown
        BY <2>2 DEF BeginShutdown, Promise!Close, Promise!Causes
  <2>3. CASE FailAllTake         BY <2>3 DEF FailAllTake
  <2>4. ASSUME NEW c \in Calls, FailAllSend(c)
        PROVE Promise!Next \/ UNCHANGED Promise!vars
    <3>1. verdict[c] = "open" /\ closeReason # None
          BY <2>4 DEF FailAllSend
    <3>2. verdict' = [verdict EXCEPT ![c] = closeReason]
          BY <2>4, <3>1 DEF FailAllSend
    <3> QED BY <2>4, <3>1, <3>2 DEF FailAllSend, Promise!FailWithCause, Promise!Settle
  <2>5. CASE FailAllEnd          BY <2>5 DEF FailAllEnd
  <2>6. CASE TearDown            BY <2>6 DEF TearDown
  <2>7. CASE CloseStdin          BY <2>7 DEF CloseStdin
  <2> QED BY <1>3, <2>1, <2>2, <2>3, <2>4, <2>5, <2>6, <2>7 DEF CloseStep
<1>4. CASE UNCHANGED vars        BY <1>4 DEF vars
<1> QED BY <1>1, <1>2, <1>3, <1>4 DEF Next

(* CallsAreOneShot: the call table implements OneShotCalls: a call is      *)
(* admitted only while the client is open and gets one true verdict.       *)
THEOREM CallsAreOneShot == Spec => OneShot
<1>1. Init => Promise!Init
      BY NoneAssumption DEF Init, Promise!Init, verdict
<1> QED BY <1>1, RefinementStep, Invariance, PTL DEF Spec, OneShot, Promise!Spec
=============================================================================
