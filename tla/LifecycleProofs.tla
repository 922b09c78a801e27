--------------------------- MODULE LifecycleProofs ---------------------------
(***************************************************************************)
(* Proofs about Lifecycle, for any number of closers, any queue capacity   *)
(* and any number of frames and requests.                                  *)
(*                                                                         *)
(* The invariants of Lifecycle are not inductive alone.  What makes them   *)
(* so is in the Books below: the accounting of callbackWork, what a closed *)
(* client excludes, how far cleanup can be ahead of the launch, and what a *)
(* closer's snapshot fixes.  The inductive invariant is IInv.              *)
(***************************************************************************)
EXTENDS Lifecycle, TLAPS

\* The dispatcher holds one entry between its receive and finishCallbackWork.
holding == {"await", "callback", "erred", "failing", "claimed", "discard"}
held == IF dispatcher \in holding THEN 1 ELSE 0

\* callbackWork counts what is queued, in hand and executing.
WorkBook ==
  /\ work = queue + held + requests
  /\ queue + held <= frames
  /\ requests <= served

\* Signals of teardown exist only on a closed client, and an open client has
\* no failure and no claimant.
CloseBook ==
  /\ shut # None => closed
  /\ dispatchStop => closed
  /\ ~closed => failure = None /\ claimant = None
  /\ handlersDone => closed /\ dispatcher = "ended" /\ work = 0

\* shutdown() has passed what its program counter says it has passed.
ShutBook ==
  /\ shut = "cancelFailed" => failure # None
  /\ shut \in {"join", "joinCtx", "cancel", "process", "done"} => failure # None \/ published
  /\ shut \in {"process", "done"} => queue = 0
  /\ shut = "done" => cleaner = "done"

\* Cleanup looks at the process only after start() returned.
CleanBook ==
  /\ cleaner \in {"grace", "reap", "done"} => startupDone
  /\ cleaner = "done" => process \in {None, "reaped"}

\* The decision of newClientContext under closeMu ends the watcher's power.
StartBook ==
  /\ built = "client" => failure # "watcher"
  /\ caller = "client" => built = "client"
  /\ built # None <=> builder \in {"deliver", "sent"}

\* A quiet snapshot of the finished shutdown stays true.
CloserBook ==
  \A c \in Closers :
    /\ closers[c] \in {"quiet", "nil"} => shut = "done" /\ work = 0
    /\ closers[c] = "nil" => ~cleanupErr /\ failure = None /\ ~callbackFailure

Books == WorkBook /\ CloseBook /\ ShutBook /\ CleanBook /\ StartBook

IInv == TypeOK /\ Books /\ CloserBook

-----------------------------------------------------------------------------
\* Every action keeps the client well typed; that callbackWork never becomes
\* negative, or larger than what was admitted, rests on WorkBook.
LEMMA TypeStep == IInv /\ [Next]_vars => TypeOK'
<1> SUFFICES ASSUME IInv, [Next]_vars PROVE TypeOK'
    OBVIOUS
<1> USE CapacityAssumption, BoundAssumption DEF IInv, TypeOK, Books, WorkBook, CloseBook, StartBook,
        held, holding, None, ShutPCs, CloseResults, Claimants, startVars, closeVars, dispatchVars,
        teardownVars, historyVars, signalVars, inputVars, clientVars
<1>1. ASSUME Construct PROVE TypeOK'
  <2>1. CASE StartupDeadline    BY <2>1 DEF StartupDeadline
  <2>2. CASE ValidateFails      BY <2>2 DEF ValidateFails
  <2>3. CASE ValidateOk         BY <2>3 DEF ValidateOk
  <2>4. CASE LaunchCheck        BY <2>4 DEF LaunchCheck
  <2>5. CASE LaunchOk           BY <2>5 DEF LaunchOk
  <2>6. CASE LaunchFails        BY <2>6 DEF LaunchFails
  <2>7. CASE InitializeOk       BY <2>7 DEF InitializeOk
  <2>8. CASE InitializeFails    BY <2>8 DEF InitializeFails, InitializeEnds
  <2>9. CASE NotifyOk           BY <2>9 DEF NotifyOk
  <2>10. CASE NotifyFails       BY <2>10 DEF NotifyFails
  <2>11. CASE BuilderFailClient
    <3>1. CASE Claims("builder") BY <2>11, <3>1 DEF BuilderFailClient, Claims
    <3>2. CASE LosesClaim BY <2>11, <3>2 DEF BuilderFailClient, LosesClaim
    <3> QED BY <2>11, <3>1, <3>2 DEF BuilderFailClient
  <2>12. CASE BuilderFailed     BY <2>12 DEF BuilderFailed
  <2>13. CASE BuilderPublish    BY <2>13 DEF BuilderPublish
  <2>14. CASE BuilderDeliver    BY <2>14 DEF BuilderDeliver
  <2>15. CASE CallerReceives
    <3>1. built # None BY <2>15 DEF CallerReceives
    <3> QED BY <2>15, <3>1 DEF CallerReceives
  <2>16. CASE CallerDeadline    BY <2>16 DEF CallerDeadline
  <2>17. CASE WatcherDeadline
    <3>1. CASE Claims("watcher") BY <2>17, <3>1 DEF WatcherDeadline, Claims
    <3>2. CASE UNCHANGED <<closeVars, claimant>> BY <2>17, <3>2 DEF WatcherDeadline
    <3> QED BY <2>17, <3>1, <3>2 DEF WatcherDeadline
  <2>18. CASE WatcherDone       BY <2>18 DEF WatcherDone, constructing
  <2> QED BY <1>1, <2>1, <2>2, <2>3, <2>4, <2>5, <2>6, <2>7, <2>8, <2>9, <2>10, <2>11, <2>12, <2>13, <2>14, <2>15, <2>16, <2>17, <2>18
          DEF Construct
<1>2. ASSUME Dispatch PROVE TypeOK'
  <2>1. CASE Enqueue
    <3>1. CASE Claims("reader") BY <2>1, <3>1 DEF Enqueue, Claims
    <3>2. CASE UNCHANGED <<closeVars, claimant>> BY <2>1, <3>2 DEF Enqueue
    <3> QED BY <2>1, <3>1, <3>2 DEF Enqueue
  <2>2. CASE ReaderFails            BY <2>2 DEF ReaderFails, Claims
  <2>3. CASE BeginHandler           BY <2>3 DEF BeginHandler
  <2>4. CASE EndHandler             BY <2>4 DEF EndHandler
  <2>5. CASE HandlerFailClient      BY <2>5 DEF HandlerFailClient, Claims
  <2>6. CASE DispatchTake           BY <2>6 DEF DispatchTake, Discard
  <2>7. CASE EvidenceReady          BY <2>7 DEF EvidenceReady, Discard
  <2>8. CASE DispatchCanceled
    <3>1. CASE dispatcher = "idle" BY <2>8, <3>1 DEF DispatchCanceled, Discard
    <3>2. CASE dispatcher = "await" BY <2>8, <3>2 DEF DispatchCanceled, Discard
    <3> QED BY <2>8, <3>1, <3>2 DEF DispatchCanceled
  <2>9. CASE DispatchStopped        BY <2>9 DEF DispatchStopped
  <2>10. CASE DrainTake             BY <2>10 DEF DrainTake
  <2>11. CASE CallbackOk            BY <2>11 DEF CallbackOk
  <2>12. CASE CallbackError         BY <2>12 DEF CallbackError
  <2>13. CASE RecordCallbackFailure BY <2>13 DEF RecordCallbackFailure
  <2>14. CASE DispatcherFailClient
    <3>1. CASE Claims("dispatcher") BY <2>14, <3>1 DEF DispatcherFailClient, Claims
    <3>2. CASE LosesClaim BY <2>14, <3>2 DEF DispatcherFailClient, LosesClaim
    <3> QED BY <2>14, <3>1, <3>2 DEF DispatcherFailClient
  <2>15. CASE DispatcherFailed      BY <2>15 DEF DispatcherFailed
  <2>16. CASE DispatcherDiscard     BY <2>16 DEF DispatcherDiscard
  <2> QED BY <1>2, <2>1, <2>2, <2>3, <2>4, <2>5, <2>6, <2>7, <2>8, <2>9, <2>10, <2>11, <2>12, <2>13, <2>14, <2>15, <2>16
          DEF Dispatch
<1>3. ASSUME Teardown PROVE TypeOK'
  <2>1. CASE ClaimantCancel        BY <2>1 DEF ClaimantCancel
  <2>2. CASE ClaimantPublish       BY <2>2 DEF ClaimantPublish
  <2>3. CASE ClaimantTeardown
    <3>1. normalClosing' \in BOOLEAN
      BY <2>3, Zenon DEF ClaimantTeardown, beginShutdown
    <3>2. shut' \in ShutPCs
      BY <2>3 DEF ClaimantTeardown, beginShutdown
    <3>3. /\ closed' = TRUE
          /\ claimant' \in {"publish", "done"}
          /\ UNCHANGED <<failure, callbackFailure, ctxDone, published, dispatchStop, startVars,
                         dispatchVars, teardownVars, historyVars, inputVars>>
      BY <2>3 DEF ClaimantTeardown, beginShutdown
    <3> QED BY <3>1, <3>2, <3>3
  <2>4. CASE ShutdownBegin         BY <2>4 DEF ShutdownBegin
  <2>5. CASE ShutdownSettle        BY <2>5 DEF ShutdownSettle
  <2>6. CASE ShutdownCancelFailed  BY <2>6 DEF ShutdownCancelFailed
  <2>7. CASE JoinHandlers          BY <2>7 DEF JoinHandlers
  <2>8. CASE ShutdownJoined        BY <2>8 DEF ShutdownJoined
  <2>9. CASE ShutdownCtxDone       BY <2>9 DEF ShutdownCtxDone, Discard
  <2>10. CASE ShutdownCancel       BY <2>10 DEF ShutdownCancel, Discard
  <2>11. CASE ShutdownDone         BY <2>11 DEF ShutdownDone
  <2>12. CASE CleanStartup         BY <2>12 DEF CleanStartup, startupDone
  <2>13. CASE CleanSignal          BY <2>13 DEF CleanSignal
  <2>14. CASE ProcessExit          BY <2>14 DEF ProcessExit
  <2>15. CASE CleanKill            BY <2>15 DEF CleanKill
  <2>16. CASE CleanReap            BY <2>16 DEF CleanReap
  <2> QED BY <1>3, <2>1, <2>2, <2>3, <2>4, <2>5, <2>6, <2>7, <2>8, <2>9, <2>10, <2>11, <2>12, <2>13, <2>14, <2>15, <2>16
          DEF Teardown
<1>4. ASSUME NEW k \in Closers, CloseBegin(k) \/ CloseSnapshot(k) \/ CloseReturn(k) \/ CloseDeadline(k)
      PROVE TypeOK'
  <2>1. CASE CloseBegin(k)
    <3>1. normalClosing' \in BOOLEAN
      BY <2>1, Zenon DEF CloseBegin, beginShutdown
    <3>2. shut' \in ShutPCs
      BY <2>1 DEF CloseBegin, beginShutdown
    <3>3. /\ closed' = TRUE
          /\ closers' = [closers EXCEPT ![k] = "wait"]
          /\ UNCHANGED <<failure, callbackFailure, ctxDone, published, claimant, dispatchStop,
                         requests, frames, served, startVars, dispatchVars, teardownVars, historyVars>>
      BY <2>1 DEF CloseBegin, beginShutdown
    <3> QED BY <3>1, <3>2, <3>3
  <2>2. CASE CloseSnapshot(k) BY <2>2 DEF CloseSnapshot
  <2>3. CASE CloseReturn(k) BY <2>3 DEF CloseReturn, closeResult
  <2>4. CASE CloseDeadline(k) BY <2>4 DEF CloseDeadline
  <2> QED BY <1>4, <2>1, <2>2, <2>3, <2>4
<1>5. CASE UNCHANGED vars BY <1>5 DEF vars, clientVars
<1> QED BY <1>1, <1>2, <1>3, <1>4, <1>5 DEF Next, Close

\* Every action keeps the accounts.
LEMMA BooksStep == IInv /\ [Next]_vars => Books'
<1> SUFFICES ASSUME IInv, [Next]_vars PROVE Books'
    OBVIOUS
<1> USE CapacityAssumption, BoundAssumption DEF IInv, TypeOK, Books, WorkBook, CloseBook, ShutBook,
        CleanBook, StartBook, held, holding, startupDone, None, ShutPCs, Claimants, startVars, closeVars, dispatchVars,
        teardownVars, historyVars, signalVars, inputVars, clientVars
<1>1. ASSUME Construct PROVE Books'
  <2>1. CASE StartupDeadline    BY <2>1 DEF StartupDeadline
  <2>2. CASE ValidateFails      BY <2>2 DEF ValidateFails
  <2>3. CASE ValidateOk         BY <2>3 DEF ValidateOk
  <2>4. CASE LaunchCheck        BY <2>4 DEF LaunchCheck
  <2>5. CASE LaunchOk           BY <2>5 DEF LaunchOk
  <2>6. CASE LaunchFails        BY <2>6 DEF LaunchFails
  <2>7. CASE InitializeOk       BY <2>7 DEF InitializeOk
  <2>8. CASE InitializeFails    BY <2>8 DEF InitializeFails, InitializeEnds
  <2>9. CASE NotifyOk           BY <2>9 DEF NotifyOk
  <2>10. CASE NotifyFails       BY <2>10 DEF NotifyFails
  <2>11. CASE BuilderFailClient BY <2>11 DEF BuilderFailClient, Claims, LosesClaim
  <2>12. CASE BuilderFailed     BY <2>12 DEF BuilderFailed
  <2>13. CASE BuilderPublish    BY <2>13 DEF BuilderPublish
  <2>14. CASE BuilderDeliver    BY <2>14 DEF BuilderDeliver
  <2>15. CASE CallerReceives    BY <2>15 DEF CallerReceives
  <2>16. CASE CallerDeadline    BY <2>16 DEF CallerDeadline
  <2>17. CASE WatcherDeadline   BY <2>17 DEF WatcherDeadline, Claims, constructing
  <2>18. CASE WatcherDone       BY <2>18 DEF WatcherDone, constructing
  <2> QED BY <1>1, <2>1, <2>2, <2>3, <2>4, <2>5, <2>6, <2>7, <2>8, <2>9, <2>10, <2>11, <2>12, <2>13, <2>14, <2>15, <2>16, <2>17, <2>18
          DEF Construct
<1>2. ASSUME Dispatch PROVE Books'
  <2>1. CASE Enqueue                BY <2>1 DEF Enqueue, Claims
  <2>2. CASE ReaderFails            BY <2>2 DEF ReaderFails, Claims
  <2>3. CASE BeginHandler           BY <2>3 DEF BeginHandler
  <2>4. CASE EndHandler             BY <2>4 DEF EndHandler
  <2>5. CASE HandlerFailClient      BY <2>5 DEF HandlerFailClient, Claims
  <2>6. CASE DispatchTake           BY <2>6 DEF DispatchTake, Discard
  <2>7. CASE EvidenceReady          BY <2>7 DEF EvidenceReady, Discard
  <2>8. CASE DispatchCanceled       BY <2>8 DEF DispatchCanceled, Discard
  <2>9. CASE DispatchStopped        BY <2>9 DEF DispatchStopped
  <2>10. CASE DrainTake             BY <2>10 DEF DrainTake
  <2>11. CASE CallbackOk            BY <2>11 DEF CallbackOk
  <2>12. CASE CallbackError         BY <2>12 DEF CallbackError
  <2>13. CASE RecordCallbackFailure BY <2>13 DEF RecordCallbackFailure
  <2>14. CASE DispatcherFailClient  BY <2>14 DEF DispatcherFailClient, Claims, LosesClaim
  <2>15. CASE DispatcherFailed      BY <2>15 DEF DispatcherFailed
  <2>16. CASE DispatcherDiscard     BY <2>16 DEF DispatcherDiscard
  <2> QED BY <1>2, <2>1, <2>2, <2>3, <2>4, <2>5, <2>6, <2>7, <2>8, <2>9, <2>10, <2>11, <2>12, <2>13, <2>14, <2>15, <2>16
          DEF Dispatch
<1>3. ASSUME Teardown PROVE Books'
  <2>1. CASE ClaimantCancel        BY <2>1 DEF ClaimantCancel
  <2>2. CASE ClaimantPublish       BY <2>2 DEF ClaimantPublish
  <2>3. CASE ClaimantTeardown      BY <2>3 DEF ClaimantTeardown, beginShutdown
  <2>4. CASE ShutdownBegin         BY <2>4 DEF ShutdownBegin
  <2>5. CASE ShutdownSettle        BY <2>5 DEF ShutdownSettle
  <2>6. CASE ShutdownCancelFailed  BY <2>6 DEF ShutdownCancelFailed
  <2>7. CASE JoinHandlers          BY <2>7 DEF JoinHandlers
  <2>8. CASE ShutdownJoined        BY <2>8 DEF ShutdownJoined
  <2>9. CASE ShutdownCtxDone       BY <2>9 DEF ShutdownCtxDone, Discard
  <2>10. CASE ShutdownCancel       BY <2>10 DEF ShutdownCancel, Discard
  <2>11. CASE ShutdownDone         BY <2>11 DEF ShutdownDone
  <2>12. CASE CleanStartup         BY <2>12 DEF CleanStartup, startupDone
  <2>13. CASE CleanSignal          BY <2>13 DEF CleanSignal
  <2>14. CASE ProcessExit          BY <2>14 DEF ProcessExit
  <2>15. CASE CleanKill            BY <2>15 DEF CleanKill
  <2>16. CASE CleanReap            BY <2>16 DEF CleanReap
  <2> QED BY <1>3, <2>1, <2>2, <2>3, <2>4, <2>5, <2>6, <2>7, <2>8, <2>9, <2>10, <2>11, <2>12, <2>13, <2>14, <2>15, <2>16
          DEF Teardown
<1>4. ASSUME NEW k \in Closers, CloseBegin(k) \/ CloseSnapshot(k) \/ CloseReturn(k) \/ CloseDeadline(k)
      PROVE Books'
  <2>1. CASE CloseBegin(k) BY <2>1 DEF CloseBegin, beginShutdown
  <2>2. CASE CloseSnapshot(k) BY <2>2 DEF CloseSnapshot
  <2>3. CASE CloseReturn(k) BY <2>3 DEF CloseReturn, closeResult
  <2>4. CASE CloseDeadline(k) BY <2>4 DEF CloseDeadline
  <2> QED BY <1>4, <2>1, <2>2, <2>3, <2>4
<1>5. CASE UNCHANGED vars BY <1>5 DEF vars, clientVars
<1> QED BY <1>1, <1>2, <1>3, <1>4, <1>5 DEF Next, Close

\* Nothing that happens after a quiet snapshot invalidates it.
LEMMA CloserStep == IInv /\ [Next]_vars => CloserBook'
<1> SUFFICES ASSUME IInv, [Next]_vars PROVE CloserBook'
    OBVIOUS
<1> USE CapacityAssumption, BoundAssumption DEF IInv, TypeOK, Books, WorkBook, CloseBook, ShutBook,
        CleanBook, CloserBook, held, holding, None, ShutPCs, CloseResults, Claimants, startVars, closeVars, dispatchVars,
        teardownVars, historyVars, signalVars, inputVars, clientVars
<1>1. ASSUME Construct PROVE CloserBook'
  <2>1. CASE StartupDeadline    BY <2>1 DEF StartupDeadline
  <2>2. CASE ValidateFails      BY <2>2 DEF ValidateFails
  <2>3. CASE ValidateOk         BY <2>3 DEF ValidateOk
  <2>4. CASE LaunchCheck        BY <2>4 DEF LaunchCheck
  <2>5. CASE LaunchOk           BY <2>5 DEF LaunchOk
  <2>6. CASE LaunchFails        BY <2>6 DEF LaunchFails
  <2>7. CASE InitializeOk       BY <2>7 DEF InitializeOk
  <2>8. CASE InitializeFails    BY <2>8 DEF InitializeFails, InitializeEnds
  <2>9. CASE NotifyOk           BY <2>9 DEF NotifyOk
  <2>10. CASE NotifyFails       BY <2>10 DEF NotifyFails
  <2>11. CASE BuilderFailClient BY <2>11 DEF BuilderFailClient, Claims, LosesClaim
  <2>12. CASE BuilderFailed     BY <2>12 DEF BuilderFailed
  <2>13. CASE BuilderPublish    BY <2>13 DEF BuilderPublish
  <2>14. CASE BuilderDeliver    BY <2>14 DEF BuilderDeliver
  <2>15. CASE CallerReceives    BY <2>15 DEF CallerReceives
  <2>16. CASE CallerDeadline    BY <2>16 DEF CallerDeadline
  <2>17. CASE WatcherDeadline   BY <2>17 DEF WatcherDeadline, Claims, constructing
  <2>18. CASE WatcherDone       BY <2>18 DEF WatcherDone, constructing
  <2> QED BY <1>1, <2>1, <2>2, <2>3, <2>4, <2>5, <2>6, <2>7, <2>8, <2>9, <2>10, <2>11, <2>12, <2>13, <2>14, <2>15, <2>16, <2>17, <2>18
          DEF Construct
<1>2. ASSUME Dispatch PROVE CloserBook'
  <2>1. CASE Enqueue                BY <2>1 DEF Enqueue, Claims
  <2>2. CASE ReaderFails            BY <2>2 DEF ReaderFails, Claims
  <2>3. CASE BeginHandler           BY <2>3 DEF BeginHandler
  <2>4. CASE EndHandler             BY <2>4 DEF EndHandler
  <2>5. CASE HandlerFailClient      BY <2>5 DEF HandlerFailClient, Claims
  <2>6. CASE DispatchTake           BY <2>6 DEF DispatchTake, Discard
  <2>7. CASE EvidenceReady          BY <2>7 DEF EvidenceReady, Discard
  <2>8. CASE DispatchCanceled       BY <2>8 DEF DispatchCanceled, Discard
  <2>9. CASE DispatchStopped        BY <2>9 DEF DispatchStopped
  <2>10. CASE DrainTake             BY <2>10 DEF DrainTake
  <2>11. CASE CallbackOk            BY <2>11 DEF CallbackOk
  <2>12. CASE CallbackError         BY <2>12 DEF CallbackError
  <2>13. CASE RecordCallbackFailure BY <2>13 DEF RecordCallbackFailure
  <2>14. CASE DispatcherFailClient  BY <2>14 DEF DispatcherFailClient, Claims, LosesClaim
  <2>15. CASE DispatcherFailed      BY <2>15 DEF DispatcherFailed
  <2>16. CASE DispatcherDiscard     BY <2>16 DEF DispatcherDiscard
  <2> QED BY <1>2, <2>1, <2>2, <2>3, <2>4, <2>5, <2>6, <2>7, <2>8, <2>9, <2>10, <2>11, <2>12, <2>13, <2>14, <2>15, <2>16
          DEF Dispatch
<1>3. ASSUME Teardown PROVE CloserBook'
  <2>1. CASE ClaimantCancel        BY <2>1 DEF ClaimantCancel
  <2>2. CASE ClaimantPublish       BY <2>2 DEF ClaimantPublish
  <2>3. CASE ClaimantTeardown      BY <2>3 DEF ClaimantTeardown, beginShutdown
  <2>4. CASE ShutdownBegin         BY <2>4 DEF ShutdownBegin
  <2>5. CASE ShutdownSettle        BY <2>5 DEF ShutdownSettle
  <2>6. CASE ShutdownCancelFailed  BY <2>6 DEF ShutdownCancelFailed
  <2>7. CASE JoinHandlers          BY <2>7 DEF JoinHandlers
  <2>8. CASE ShutdownJoined        BY <2>8 DEF ShutdownJoined
  <2>9. CASE ShutdownCtxDone       BY <2>9 DEF ShutdownCtxDone, Discard
  <2>10. CASE ShutdownCancel       BY <2>10 DEF ShutdownCancel, Discard
  <2>11. CASE ShutdownDone         BY <2>11 DEF ShutdownDone
  <2>12. CASE CleanStartup         BY <2>12 DEF CleanStartup, startupDone
  <2>13. CASE CleanSignal          BY <2>13 DEF CleanSignal
  <2>14. CASE ProcessExit          BY <2>14 DEF ProcessExit
  <2>15. CASE CleanKill            BY <2>15 DEF CleanKill
  <2>16. CASE CleanReap            BY <2>16 DEF CleanReap
  <2> QED BY <1>3, <2>1, <2>2, <2>3, <2>4, <2>5, <2>6, <2>7, <2>8, <2>9, <2>10, <2>11, <2>12, <2>13, <2>14, <2>15, <2>16
          DEF Teardown
<1>4. ASSUME NEW k \in Closers, CloseBegin(k) \/ CloseSnapshot(k) \/ CloseReturn(k) \/ CloseDeadline(k)
      PROVE CloserBook'
  <2>1. CASE CloseBegin(k) BY <2>1 DEF CloseBegin, beginShutdown
  <2>2. CASE CloseSnapshot(k) BY <2>2 DEF CloseSnapshot
  <2>3. CASE CloseReturn(k) BY <2>3 DEF CloseReturn, closeResult
  <2>4. CASE CloseDeadline(k) BY <2>4 DEF CloseDeadline
  <2> QED BY <1>4, <2>1, <2>2, <2>3, <2>4
<1>5. CASE UNCHANGED vars BY <1>5 DEF vars, clientVars
<1> QED BY <1>1, <1>2, <1>3, <1>4, <1>5 DEF Next, Close

-----------------------------------------------------------------------------
\* IInv holds initially and in every step, hence always.
LEMMA Inductive == Spec => []IInv
<1>1. Init => IInv
  <2> SUFFICES ASSUME Init PROVE IInv
      OBVIOUS
  <2> USE CapacityAssumption, BoundAssumption DEF Init, None
  <2>1. TypeOK
    <3>1. /\ closers \in [Closers -> {"idle", "wait", "quiet", "busy"} \cup CloseResults]
          /\ queue \in 0..Capacity
          /\ work \in 0..(MaxFrames + MaxRequests)
          /\ requests \in 0..MaxRequests /\ served \in 0..MaxRequests /\ frames \in 0..MaxFrames
      OBVIOUS
    <3> QED BY <3>1, Zenon DEF TypeOK, ShutPCs, Claimants
  <2>2. Books  BY DEF Books, WorkBook, CloseBook, ShutBook, CleanBook, StartBook, held, holding, startupDone
  <2>3. CloserBook BY DEF CloserBook
  <2> QED BY <2>1, <2>2, <2>3 DEF IInv
<1>2. IInv /\ [Next]_vars => IInv'
  BY TypeStep, BooksStep, CloserStep DEF IInv
<1> QED BY <1>1, <1>2, PTL DEF Spec

\* LifecycleTyped: the client stays well typed; in particular callbackWork is
\* never negative and the notification queue never exceeds its capacity.
THEOREM LifecycleTyped == Spec => []TypeOK
<1>1. IInv => TypeOK BY DEF IInv
<1> QED BY <1>1, Inductive, PTL

\* JoinIsFinal: a closed handlersDone means that no callback is executing or
\* queued, now and later (shutdown's join of dispatcher and handlerWG).
THEOREM JoinIsFinal == Spec => []JoinedMeansIdle
<1>1. IInv => JoinedMeansIdle
  BY CapacityAssumption, BoundAssumption
     DEF IInv, TypeOK, Books, WorkBook, CloseBook, held, holding, JoinedMeansIdle
<1> QED BY <1>1, Inductive, PTL

\* NilIsClean: CloseContext returns nil only for a client whose process is
\* reaped, whose observers are settled and whose callbacks and failures leave
\* nothing to report.
THEOREM NilIsClean == Spec => []NilCloseIsClean
<1>1. IInv => NilCloseIsClean
  <2> SUFFICES ASSUME IInv, NEW c \in Closers, closers[c] = "nil"
               PROVE  /\ process \in {None, "reaped"} /\ ~cleanupErr /\ published
                      /\ work = 0 /\ queue = 0 /\ failure = None /\ ~callbackFailure
      BY DEF NilCloseIsClean
  <2>1. shut = "done" /\ work = 0 /\ ~cleanupErr /\ failure = None /\ ~callbackFailure
      BY DEF IInv, CloserBook
  <2> QED BY <2>1 DEF IInv, Books, ShutBook, CleanBook
<1> QED BY <1>1, Inductive, PTL

\* NothingStays: after cleanupProcess is over there is no child and none can
\* still be launched, a client that NewContext returned is never failed by its
\* startup context, and once shutdown has canceled the client its queue is
\* empty for good.
THEOREM NothingStays == Spec => []NothingLeftBehind
<1>1. IInv => CleanupIsFinal
  BY DEF IInv, Books, CleanBook, CleanupIsFinal
<1>2. IInv => StartupContextReleased
  BY DEF IInv, Books, StartBook, StartupContextReleased
<1>3. IInv => QueueReleased
  BY DEF IInv, Books, ShutBook, QueueReleased
<1>4. IInv => NothingLeftBehind
  BY <1>1, <1>2, <1>3 DEF NothingLeftBehind
<1> QED BY <1>4, Inductive, PTL

\* TornDownOnce: no number of failures and closers makes shutdown() run twice
\* or cleanup restart.
THEOREM TornDownOnce == Spec => TeardownOnce
<1> DEFINE Once == /\ shut = "done" => shut' = "done"
                   /\ shut # None => shut' # "begin" \/ shut = "begin"
                   /\ cleaner = "done" => cleaner' = "done"
<1>1. [Next]_vars => [Once]_vars
  <2> SUFFICES ASSUME Next PROVE Once
      OBVIOUS
  <2> USE DEF None, startVars, closeVars, dispatchVars, teardownVars, historyVars,
          signalVars, inputVars, clientVars
  <2>1. CASE Construct
    BY <2>1 DEF Construct, StartupDeadline, ValidateFails, ValidateOk,
          LaunchCheck, LaunchOk, LaunchFails, InitializeOk,
          InitializeFails, InitializeEnds, NotifyOk, NotifyFails,
          BuilderFailClient, Claims, LosesClaim, BuilderFailed,
          BuilderPublish, BuilderDeliver, CallerReceives,
          CallerDeadline, WatcherDeadline, constructing, WatcherDone
  <2>2. CASE Dispatch
    BY <2>2 DEF Dispatch, Enqueue, Claims, ReaderFails, BeginHandler,
          EndHandler, HandlerFailClient, DispatchTake, Discard,
          EvidenceReady, DispatchCanceled, DispatchStopped, DrainTake,
          CallbackOk, CallbackError, RecordCallbackFailure,
          DispatcherFailClient, LosesClaim, DispatcherFailed,
          DispatcherDiscard
  <2>3. CASE Teardown
    BY <2>3 DEF Teardown, ClaimantCancel, ClaimantPublish, ClaimantTeardown,
          beginShutdown, ShutdownBegin, ShutdownSettle,
          ShutdownCancelFailed, JoinHandlers, ShutdownJoined,
          ShutdownCtxDone, Discard, ShutdownCancel, ShutdownDone,
          CleanStartup, startupDone, CleanSignal, ProcessExit,
          CleanKill, CleanReap
  <2>4. CASE Close
    BY <2>4 DEF Close, CloseBegin, CloseSnapshot, CloseReturn, CloseDeadline, beginShutdown
  <2> QED BY <2>1, <2>2, <2>3, <2>4 DEF Next
<1> QED BY <1>1, PTL DEF Spec, TeardownOnce
=============================================================================
