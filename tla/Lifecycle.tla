------------------------------ MODULE Lifecycle ------------------------------
(***************************************************************************)
(* The life of one codexsdk.Client: NewContext launches the child process  *)
(* and initializes it under the caller's startup context; CloseContext, or *)
(* the first failure, closes admission once and tears everything down.     *)
(*                                                                         *)
(* Goroutines: the caller of NewContext, the builder (newClientContext),   *)
(* the startup watcher, the reader (as a source of frames, requests and    *)
(* failures), the notification dispatcher, the server-request callbacks,   *)
(* the one claimant of a client failure, shutdown(), the goroutine that    *)
(* joins callbacks, cleanupProcess(), and the callers of CloseContext.     *)
(*                                                                         *)
(* Time is abstract: a grace timer may fire at any moment it is armed.     *)
(* A callback is user code: it may return nil, fail, or never return.      *)
(* What failAll settles is the subject of RpcCalls and ExactRuns; here it  *)
(* is the single event "published".                                        *)
(***************************************************************************)
EXTENDS Naturals, FiniteSets

CONSTANTS Closers,      \* concurrent callers of CloseContext
          Capacity,     \* NotificationQueueCapacity
          MaxFrames,    \* bound: notifications the reader admits
          MaxRequests   \* bound: server requests whose callback is started

ASSUME CapacityAssumption == Capacity \in Nat \ {0}
ASSUME BoundAssumption == MaxFrames \in Nat /\ MaxRequests \in Nat

VARIABLES
  startCtx,       \* the startup context is done
  caller,         \* NewContext: "waiting", or what it returned
  builder,        \* newClientContext's program counter
  built,          \* the outcome newClientContext decided under closeMu
  watcher,        \* the startup watcher goroutine
  process,        \* the child process
  closed,         \* c.closed
  failure,        \* c.failure: None or the claimant that set it
  normalClosing,  \* c.normalClosing
  callbackFailure,\* c.callbackFailure is set
  ctxDone,        \* c.ctx is canceled
  published,      \* closeCausePublished is closed
  claimant,       \* the failClient call that owns first-cause publication
  dispatchStop,   \* dispatchStop is closed
  queue,          \* entries in c.notifications
  dispatcher,     \* notificationDispatcher's program counter
  draining,       \* the dispatcher is inside finishDispatchStop
  requests,       \* server-request callbacks executing
  work,           \* callbackWork, and the count of handlerWG
  shut,           \* shutdown()'s program counter
  handlersDone,   \* handlersDone is closed
  cleaner,        \* cleanupProcess()'s program counter
  cleanupErr,     \* processCleanupErr is set
  closers,        \* CloseContext calls: progress, then result
  frames, served, \* bounded inputs used so far
  erred,          \* history: a notification callback returned an error
  discarded       \* history: an admitted entry was dropped undelivered

None == "none"

Claimants == {"builder", "watcher", "reader", "dispatcher", "request"}

startVars == <<startCtx, caller, builder, built, watcher>>
closeVars == <<closed, failure, normalClosing, callbackFailure>>
dispatchVars == <<queue, dispatcher, draining, work>>
teardownVars == <<handlersDone, cleaner, cleanupErr, process>>
historyVars == <<erred, discarded>>
signalVars == <<ctxDone, published, claimant, dispatchStop, shut>>
inputVars == <<requests, closers, frames, served>>

\* Everything but the progress of construction.
clientVars == <<closeVars, dispatchVars, teardownVars, historyVars, signalVars,
                inputVars>>
vars == <<startVars, clientVars>>

ShutPCs == {None, "begin", "settle", "cancelFailed", "join", "joinCtx",
            "cancel", "process", "done"}

CloseResults == {"nil", "cleanup", "pending", "failure", "callback", "deadline"}

\* One type for every variable of the client.
TypeOK ==
  /\ startCtx \in BOOLEAN
  /\ caller \in {"waiting", "client", "error"}
  /\ builder \in {"validate", "launch", "exec", "initialize", "notify",
                  "failing", "claimed", "publish", "deliver", "sent"}
  /\ built \in {None, "client", "error"}
  /\ watcher \in {None, "watch", "claimed", "done"}
  /\ process \in {None, "running", "exited", "reaped"}
  /\ closed \in BOOLEAN
  /\ failure \in Claimants \cup {None}
  /\ normalClosing \in BOOLEAN
  /\ callbackFailure \in BOOLEAN
  /\ ctxDone \in BOOLEAN
  /\ published \in BOOLEAN
  /\ claimant \in {None, "cancel", "publish", "teardown", "done"}
  /\ dispatchStop \in BOOLEAN
  /\ queue \in 0..Capacity
  /\ dispatcher \in {"idle", "await", "callback", "erred", "failing", "claimed",
                     "discard", "drain", "ended"}
  /\ draining \in BOOLEAN
  /\ requests \in 0..MaxRequests
  /\ work \in 0..(MaxFrames + MaxRequests)
  /\ shut \in ShutPCs
  /\ handlersDone \in BOOLEAN
  /\ cleaner \in {None, "startup", "grace", "reap", "done"}
  /\ cleanupErr \in BOOLEAN
  /\ closers \in [Closers -> {"idle", "wait", "quiet", "busy"} \cup CloseResults]
  /\ frames \in 0..MaxFrames
  /\ served \in 0..MaxRequests
  /\ erred \in BOOLEAN
  /\ discarded \in BOOLEAN

Init ==
  /\ startCtx = FALSE
  /\ caller = "waiting"
  /\ builder = "validate"
  /\ built = None
  /\ watcher = None
  /\ process = None
  /\ closed = FALSE
  /\ failure = None
  /\ normalClosing = FALSE
  /\ callbackFailure = FALSE
  /\ ctxDone = FALSE
  /\ published = FALSE
  /\ claimant = None
  /\ dispatchStop = FALSE
  /\ queue = 0
  /\ dispatcher = "idle"
  /\ draining = FALSE
  /\ requests = 0
  /\ work = 0
  /\ shut = None
  /\ handlersDone = FALSE
  /\ cleaner = None
  /\ cleanupErr = FALSE
  /\ closers = [c \in Closers |-> "idle"]
  /\ frames = 0
  /\ served = 0
  /\ erred = FALSE
  /\ discarded = FALSE

-----------------------------------------------------------------------------
(* First-failure ownership and the once-only start of teardown.            *)

\* claimFailureLocked's critical section succeeds: who becomes the claimant
\* and its next step is to cancel the client context.
Claims(who) ==
  /\ ~closed
  /\ closed' = TRUE
  /\ failure' = who
  /\ claimant' = "cancel"
  /\ UNCHANGED <<normalClosing, callbackFailure>>

\* Mutant: the startup watcher claiming whether or not construction is over.
constructingAlways == TRUE

\* claimStartupFailure refuses once construction is over: the decision of
\* newClientContext clears constructing.
constructing == built = None

\* failClient called by a goroutine that loses the claim.
LosesClaim == closed /\ UNCHANGED <<closeVars, claimant>>

\* Mutant: a beginShutdown without shutdownOnce.
beginShutdownAgain ==
  /\ closed' = TRUE
  /\ normalClosing' = (failure = None)
  /\ shut' = "begin"
  /\ UNCHANGED <<failure, callbackFailure>>

\* beginShutdown: shutdownOnce closes admission and spawns shutdown().
beginShutdown ==
  /\ closed' = TRUE
  /\ normalClosing' = IF shut = None THEN failure = None ELSE normalClosing
  /\ shut' = IF shut = None THEN "begin" ELSE shut
  /\ UNCHANGED <<failure, callbackFailure>>

\* failClient after a won claim, in its order: cancel, failAll and publish,
\* then start teardown. The watcher starts teardown before it publishes.
ClaimantCancel ==
  /\ claimant = "cancel"
  /\ ctxDone' = TRUE
  /\ claimant' = IF failure = "watcher" THEN "teardown" ELSE "publish"
  /\ UNCHANGED <<published, dispatchStop, shut, startVars, closeVars,
                 dispatchVars, teardownVars, historyVars, inputVars>>

ClaimantPublish ==
  /\ claimant = "publish"
  /\ published' = TRUE
  /\ claimant' = IF failure = "watcher" THEN "done" ELSE "teardown"
  /\ UNCHANGED <<ctxDone, dispatchStop, shut, startVars, closeVars,
                 dispatchVars, teardownVars, historyVars, inputVars>>

ClaimantTeardown ==
  /\ claimant = "teardown"
  /\ beginShutdown
  /\ claimant' = IF failure = "watcher" THEN "publish" ELSE "done"
  /\ UNCHANGED <<ctxDone, published, dispatchStop, startVars, dispatchVars,
                 teardownVars, historyVars, inputVars>>

-----------------------------------------------------------------------------
(* Construction: NewContext, newClientContext and the startup watcher.     *)

StartupDeadline ==
  /\ ~startCtx
  /\ startCtx' = TRUE
  /\ UNCHANGED <<caller, builder, built, watcher, clientVars>>

\* Invalid options, or a context already done, end construction before any
\* goroutine or process exists.
ValidateFails ==
  /\ builder = "validate"
  /\ builder' = "deliver"
  /\ built' = "error"
  /\ UNCHANGED <<startCtx, caller, watcher, clientVars>>

ValidateOk ==
  /\ builder = "validate"
  /\ ~startCtx
  /\ builder' = "launch"
  /\ watcher' = "watch"
  /\ UNCHANGED <<startCtx, caller, built, clientVars>>

\* start() calls cmd.Start, whose pre-launch check sees a live context; the
\* context may be canceled before the launch itself returns.
LaunchCheck ==
  /\ builder = "launch"
  /\ ~ctxDone
  /\ builder' = "exec"
  /\ UNCHANGED <<startCtx, caller, built, watcher, clientVars>>

LaunchOk ==
  /\ builder = "exec"
  /\ process' = "running"
  /\ builder' = "initialize"
  /\ UNCHANGED <<startCtx, caller, built, watcher, handlersDone, cleaner,
                 cleanupErr, closeVars, dispatchVars, historyVars, signalVars,
                 inputVars>>

LaunchFails ==
  /\ builder \in {"launch", "exec"}
  /\ builder' = "failing"
  /\ UNCHANGED <<startCtx, caller, built, watcher, clientVars>>

\* start() has returned: startupDone is closed.
startupDone == builder \notin {"validate", "launch", "exec"}

\* The initialize response settled the call before the client closed.
InitializeOk ==
  /\ builder = "initialize"
  /\ ~closed
  /\ builder' = "notify"
  /\ UNCHANGED <<startCtx, caller, built, watcher, clientVars>>

\* The call ended otherwise: the context, the close, or a bad response.
InitializeEnds(ended) ==
  /\ builder = "initialize"
  /\ ended
  /\ builder' = "failing"
  /\ UNCHANGED <<startCtx, caller, built, watcher, clientVars>>

InitializeFails == InitializeEnds(TRUE)

\* The peer is dead or its pipes are closed, which ends even a blocked write.
transportClosed == process # "running" \/ cleaner \in {"reap", "done"}
InitializeAbandoned == InitializeEnds(published /\ transportClosed)

\* The initialized notification is written, or its write fails; only a dead
\* peer or a closed pipe is sure to end a blocked write.
NotifyOk ==
  /\ builder = "notify"
  /\ builder' = "publish"
  /\ UNCHANGED <<startCtx, caller, built, watcher, clientVars>>

NotifyFails ==
  /\ builder = "notify"
  /\ transportClosed
  /\ builder' = "failing"
  /\ UNCHANGED <<startCtx, caller, built, watcher, clientVars>>

\* newClientContext: err != nil, so failClient(err).
BuilderFailClient ==
  /\ builder = "failing"
  /\ \/ Claims("builder") /\ builder' = "claimed"
     \/ LosesClaim /\ builder' = "publish"
  /\ UNCHANGED <<startCtx, caller, built, watcher, ctxDone, published,
                 dispatchStop, shut, dispatchVars, teardownVars, historyVars,
                 inputVars>>

BuilderFailed ==
  /\ builder = "claimed"
  /\ claimant = "done"
  /\ builder' = "publish"
  /\ UNCHANGED <<startCtx, caller, built, watcher, clientVars>>

\* Under closeMu: constructing is over and a close reason, if any, is the
\* result; then watchDone is closed.
BuilderPublish ==
  /\ builder = "publish"
  /\ built' = IF closed THEN "error" ELSE "client"
  /\ builder' = "deliver"
  /\ UNCHANGED <<startCtx, caller, watcher, clientVars>>

\* ready <- outcome, into the buffered channel.
BuilderDeliver ==
  /\ builder = "deliver"
  /\ builder' = "sent"
  /\ UNCHANGED <<startCtx, caller, built, watcher, clientVars>>

CallerReceives ==
  /\ caller = "waiting"
  /\ builder = "sent"
  /\ caller' = built
  /\ UNCHANGED <<startCtx, builder, built, watcher, clientVars>>

\* Mutant: a NewContext that joins construction instead of giving up on it.
CallerDeadlineJoins ==
  /\ caller = "waiting"
  /\ startCtx
  /\ builder = "sent"
  /\ caller' = "error"
  /\ UNCHANGED <<startCtx, builder, built, watcher, clientVars>>

\* The startup context is done and no outcome is ready.
CallerDeadline ==
  /\ caller = "waiting"
  /\ startCtx
  /\ builder # "sent"
  /\ caller' = "error"
  /\ UNCHANGED <<startCtx, builder, built, watcher, clientVars>>

\* The watcher's select: the context is done, or construction ended.
WatcherDeadline ==
  /\ watcher = "watch"
  /\ startCtx
  /\ \/ constructing /\ Claims("watcher") /\ watcher' = "claimed"
     \/ ~(constructing /\ ~closed) /\ watcher' = "done"
        /\ UNCHANGED <<closeVars, claimant>>
  /\ UNCHANGED <<startCtx, caller, builder, built, ctxDone, published,
                 dispatchStop, shut, dispatchVars, teardownVars, historyVars,
                 inputVars>>

WatcherDone ==
  /\ watcher = "watch"
  /\ ~constructing
  /\ watcher' = "done"
  /\ UNCHANGED <<startCtx, caller, builder, built, clientVars>>

-----------------------------------------------------------------------------
(* The reader and the server-request callbacks.                            *)

\* Mutant: admission that ignores the close: the closed check is missing.
EnqueueAfterClose ==
  /\ process # None
  /\ frames < MaxFrames
  /\ frames' = frames + 1
  /\ \/ /\ queue < Capacity
        /\ queue' = queue + 1
        /\ work' = work + 1
        /\ UNCHANGED <<closeVars, claimant>>
     \/ queue = Capacity /\ Claims("reader") /\ UNCHANGED <<queue, work>>
  /\ UNCHANGED <<dispatcher, draining, ctxDone, published, dispatchStop, shut,
                 requests, closers, served, startVars, teardownVars,
                 historyVars>>

\* Mutant: admission to a full queue.
EnqueueUnbounded ==
  /\ process # None
  /\ ~closed
  /\ frames < MaxFrames
  /\ frames' = frames + 1
  /\ queue' = queue + 1
  /\ work' = work + 1
  /\ UNCHANGED <<dispatcher, draining, requests, closers, served, startVars,
                 closeVars, teardownVars, historyVars, signalVars>>

\* enqueueAcceptedNotification admits an entry to the bounded queue; a full
\* queue is a client failure of the reader's.
Enqueue ==
  /\ process # None
  /\ ~closed
  /\ frames < MaxFrames
  /\ frames' = frames + 1
  /\ \/ /\ queue < Capacity
        /\ queue' = queue + 1
        /\ work' = work + 1
        /\ UNCHANGED <<closeVars, claimant>>
     \/ queue = Capacity /\ Claims("reader") /\ UNCHANGED <<queue, work>>
  /\ UNCHANGED <<dispatcher, draining, ctxDone, published, dispatchStop, shut,
                 requests, closers, served, startVars, teardownVars,
                 historyVars>>

\* readLoop ends with an error or at end of file, or a frame is rejected.
ReaderFails ==
  /\ process # None
  /\ Claims("reader")
  /\ UNCHANGED <<ctxDone, published, dispatchStop, shut, startVars,
                 dispatchVars, teardownVars, historyVars, inputVars>>

\* beginHandler: a server request starts a callback goroutine.
BeginHandler ==
  /\ process # None
  /\ ~closed
  /\ served < MaxRequests
  /\ served' = served + 1
  /\ requests' = requests + 1
  /\ work' = work + 1
  /\ UNCHANGED <<queue, dispatcher, draining, closers, frames, startVars,
                 closeVars, teardownVars, historyVars, signalVars>>

\* The callback and its response are over; a response that could not be
\* written first fails the client, and the goroutine ends after failClient.
EndHandler ==
  /\ requests > (IF failure = "request" /\ claimant # "done" THEN 1 ELSE 0)
  /\ requests' = requests - 1
  /\ work' = work - 1
  /\ UNCHANGED <<queue, dispatcher, draining, closers, frames, served,
                 startVars, closeVars, teardownVars, historyVars, signalVars>>

HandlerFailClient ==
  /\ requests > 0
  /\ Claims("request")
  /\ UNCHANGED <<ctxDone, published, dispatchStop, shut, startVars,
                 dispatchVars, teardownVars, historyVars, inputVars>>

-----------------------------------------------------------------------------
(* The notification dispatcher.                                            *)

\* Drop every queued entry, and "held" more in hand, undelivered.
Discard(held) ==
  /\ queue' = 0
  /\ work' = work - (queue + held)
  /\ discarded' = (discarded \/ queue + held > 0)

\* The main loop receives an entry; its evidence may not be committed yet.
DispatchTake ==
  /\ dispatcher = "idle"
  /\ queue > 0
  /\ \/ ctxDone /\ dispatcher' = "ended" /\ Discard(0)
     \/ /\ ~ctxDone
        /\ queue' = queue - 1
        /\ dispatcher' \in {"await", "callback"}
        /\ UNCHANGED <<work, discarded>>
  /\ UNCHANGED <<draining, erred, startVars, closeVars, teardownVars,
                 signalVars, inputVars>>

EvidenceReady ==
  /\ dispatcher = "await"
  /\ \/ ctxDone /\ dispatcher' = "ended" /\ Discard(1)
     \/ ~ctxDone /\ dispatcher' = "callback" /\ UNCHANGED <<queue, work, discarded>>
  /\ UNCHANGED <<draining, erred, startVars, closeVars, teardownVars,
                 signalVars, inputVars>>

\* The client context ends the loop while it is idle or awaits evidence.
DispatchCanceled ==
  /\ ctxDone
  /\ \/ dispatcher = "idle" /\ Discard(0)
     \/ dispatcher = "await" /\ Discard(1)
  /\ dispatcher' = "ended"
  /\ UNCHANGED <<draining, erred, startVars, closeVars, teardownVars,
                 signalVars, inputVars>>

\* dispatchStop: finishDispatchStop delivers the entry in hand and the queue.
DispatchStopped ==
  /\ dispatchStop
  /\ \/ dispatcher = "idle" /\ dispatcher' = "drain"
     \/ dispatcher = "await" /\ dispatcher' = "callback"
  /\ draining' = TRUE
  /\ UNCHANGED <<queue, work, startVars, closeVars, teardownVars, historyVars,
                 signalVars, inputVars>>

DrainTake ==
  /\ dispatcher = "drain"
  /\ \/ queue > 0 /\ queue' = queue - 1 /\ dispatcher' = "callback"
     \/ queue = 0 /\ queue' = queue /\ dispatcher' = "ended"
  /\ UNCHANGED <<draining, work, startVars, closeVars, teardownVars,
                 historyVars, signalVars, inputVars>>

\* dispatchAcceptedNotification: the handler returned nil.
CallbackOk ==
  /\ dispatcher = "callback"
  /\ dispatcher' = IF draining THEN "drain" ELSE "idle"
  /\ work' = work - 1
  /\ UNCHANGED <<queue, draining, startVars, closeVars, teardownVars,
                 historyVars, signalVars, inputVars>>

\* The handler failed or panicked. Its error is kept for a normal close, in
\* one critical section of closeMu ...
CallbackError ==
  /\ dispatcher = "callback"
  /\ dispatcher' = "erred"
  /\ erred' = TRUE
  /\ UNCHANGED <<queue, draining, work, discarded, startVars, closeVars,
                 teardownVars, signalVars, inputVars>>

RecordCallbackFailure ==
  /\ dispatcher = "erred"
  /\ callbackFailure' = (callbackFailure \/ normalClosing)
  /\ dispatcher' = "failing"
  /\ UNCHANGED <<closed, failure, normalClosing, queue, draining, work,
                 startVars, teardownVars, historyVars, signalVars, inputVars>>

\* ... and then failClient(err) takes closeMu again.
DispatcherFailClient ==
  /\ dispatcher = "failing"
  /\ \/ Claims("dispatcher") /\ dispatcher' = "claimed"
     \/ LosesClaim /\ dispatcher' = "discard"
  /\ UNCHANGED <<queue, draining, work, ctxDone, published, dispatchStop,
                 shut, startVars, teardownVars, historyVars, inputVars>>

DispatcherFailed ==
  /\ dispatcher = "claimed"
  /\ claimant = "done"
  /\ dispatcher' = "discard"
  /\ UNCHANGED <<queue, draining, work, startVars, closeVars, teardownVars,
                 historyVars, signalVars, inputVars>>

\* The failed entry itself was delivered; what is queued behind it was not.
DispatcherDiscard ==
  /\ dispatcher = "discard"
  /\ dispatcher' = "ended"
  /\ queue' = 0
  /\ work' = work - (queue + 1)
  /\ discarded' = (discarded \/ queue > 0)
  /\ UNCHANGED <<draining, erred, startVars, closeVars, teardownVars,
                 signalVars, inputVars>>

-----------------------------------------------------------------------------
(* shutdown(), the callback join and cleanupProcess().                     *)

\* shutdown() reads the failure and starts process cleanup first.
ShutdownBegin ==
  /\ shut = "begin"
  /\ cleaner' = IF cleaner = None THEN "startup" ELSE cleaner
  /\ shut' = IF failure = None THEN "settle" ELSE "cancelFailed"
  /\ UNCHANGED <<handlersDone, cleanupErr, process, ctxDone, published,
                 claimant, dispatchStop, startVars, closeVars, dispatchVars,
                 historyVars, inputVars>>

\* Normal closure: settle observers, publish the cause, let callbacks drain.
ShutdownSettle ==
  /\ shut = "settle"
  /\ published' = TRUE
  /\ dispatchStop' = TRUE
  /\ shut' = "join"
  /\ UNCHANGED <<ctxDone, claimant, startVars, closeVars, dispatchVars,
                 teardownVars, historyVars, inputVars>>

ShutdownCancelFailed ==
  /\ shut = "cancelFailed"
  /\ ctxDone' = TRUE
  /\ shut' = "join"
  /\ UNCHANGED <<published, claimant, dispatchStop, startVars, closeVars,
                 dispatchVars, teardownVars, historyVars, inputVars>>

\* The goroutine that waits for the dispatcher and then for handlerWG.
JoinHandlers ==
  /\ shut \notin {None, "begin", "settle", "cancelFailed"}
  /\ ~handlersDone
  /\ dispatcher = "ended"
  /\ work = 0
  /\ handlersDone' = TRUE
  /\ UNCHANGED <<cleaner, cleanupErr, process, startVars, closeVars,
                 dispatchVars, historyVars, signalVars, inputVars>>

\* Mutant: a join without the grace timer.
ShutdownJoinedNoGrace ==
  /\ shut \in {"join", "joinCtx"}
  /\ handlersDone
  /\ shut' = "cancel"
  /\ UNCHANGED <<ctxDone, published, claimant, dispatchStop, startVars,
                 closeVars, dispatchVars, teardownVars, historyVars,
                 inputVars>>

\* Callbacks joined, or the grace timer fired.
ShutdownJoined ==
  /\ shut \in {"join", "joinCtx"}
  /\ shut' = "cancel"
  /\ UNCHANGED <<ctxDone, published, claimant, dispatchStop, startVars,
                 closeVars, dispatchVars, teardownVars, historyVars,
                 inputVars>>

\* Cancellation while joining releases what is queued at once.
ShutdownCtxDone ==
  /\ shut = "join"
  /\ ctxDone
  /\ Discard(0)
  /\ shut' = "joinCtx"
  /\ UNCHANGED <<dispatcher, draining, erred, ctxDone, published, claimant,
                 dispatchStop, startVars, closeVars, teardownVars, inputVars>>

\* Mutant: a shutdown that cancels but leaves the queue to the dispatcher.
ShutdownCancelOnly ==
  /\ shut = "cancel"
  /\ ctxDone' = TRUE
  /\ shut' = "process"
  /\ UNCHANGED <<published, claimant, dispatchStop, startVars, closeVars,
                 dispatchVars, teardownVars, historyVars, inputVars>>

ShutdownCancel ==
  /\ shut = "cancel"
  /\ ctxDone' = TRUE
  /\ Discard(0)
  /\ shut' = "process"
  /\ UNCHANGED <<dispatcher, draining, erred, published, claimant,
                 dispatchStop, startVars, closeVars, teardownVars, inputVars>>

\* Mutant: a shutdown that does not wait for process cleanup.
ShutdownDoneEarly ==
  /\ shut = "process"
  /\ shut' = "done"
  /\ UNCHANGED <<ctxDone, published, claimant, dispatchStop, startVars, closeVars,
                 dispatchVars, teardownVars, historyVars, inputVars>>

ShutdownDone ==
  /\ shut = "process"
  /\ cleaner = "done"
  /\ shut' = "done"
  /\ UNCHANGED <<ctxDone, published, claimant, dispatchStop, startVars,
                 closeVars, dispatchVars, teardownVars, historyVars,
                 inputVars>>

\* Mutant: cleanup that does not wait for a launch in progress.
CleanStartupUnfenced ==
  /\ cleaner = "startup"
  /\ cleaner' = "grace"
  /\ UNCHANGED <<handlersDone, cleanupErr, process, startVars, closeVars,
                 dispatchVars, historyVars, signalVars, inputVars>>

\* Cleanup waits until start() has returned: only then is c.cmd settled.
CleanStartup ==
  /\ cleaner = "startup"
  /\ startupDone
  /\ cleaner' = "grace"
  /\ UNCHANGED <<handlersDone, cleanupErr, process, startVars, closeVars,
                 dispatchVars, historyVars, signalVars, inputVars>>

\* Callbacks joined, cancellation, or the grace timer; then Interrupt and
\* the close of both pipes.
CleanSignal ==
  /\ cleaner = "grace"
  /\ cleaner' = IF process = None THEN "done" ELSE "reap"
  /\ UNCHANGED <<handlersDone, cleanupErr, process, startVars, closeVars,
                 dispatchVars, historyVars, signalVars, inputVars>>

\* The child exits by itself, on the Interrupt, or when its pipes close.
ProcessExit ==
  /\ process = "running"
  /\ process' = "exited"
  /\ UNCHANGED <<handlersDone, cleaner, cleanupErr, startVars, closeVars,
                 dispatchVars, historyVars, signalVars, inputVars>>

\* reapOwnedProcess: escalate to kill when the process grace expires.
CleanKill ==
  /\ cleaner = "reap"
  /\ process = "running"
  /\ process' = "exited"
  /\ UNCHANGED <<handlersDone, cleaner, cleanupErr, startVars, closeVars,
                 dispatchVars, historyVars, signalVars, inputVars>>

\* cmd.Wait returned; containment may still have failed.
CleanReap ==
  /\ cleaner = "reap"
  /\ process = "exited"
  /\ process' = "reaped"
  /\ cleanupErr' \in BOOLEAN
  /\ cleaner' = "done"
  /\ UNCHANGED <<handlersDone, startVars, closeVars, dispatchVars,
                 historyVars, signalVars, inputVars>>

-----------------------------------------------------------------------------
(* CloseContext.                                                           *)

CloseBegin(c) ==
  /\ caller = "client"
  /\ closers[c] = "idle"
  /\ beginShutdown
  /\ closers' = [closers EXCEPT ![c] = "wait"]
  /\ UNCHANGED <<ctxDone, published, claimant, dispatchStop, requests, frames,
                 served, startVars, dispatchVars, teardownVars, historyVars>>

\* shutdownDone: the snapshot loads callbackWork.
CloseSnapshot(c) ==
  /\ closers[c] = "wait"
  /\ shut = "done"
  /\ closers' = [closers EXCEPT ![c] = IF work = 0 THEN "quiet" ELSE "busy"]
  /\ UNCHANGED <<requests, frames, served, startVars, closeVars, dispatchVars,
                 teardownVars, historyVars, signalVars>>

\* The first of the reported errors, in CloseContext's order.
closeResult(snapshot) ==
  CASE cleanupErr -> "cleanup"
    [] ~cleanupErr /\ snapshot = "busy" -> "pending"
    [] ~cleanupErr /\ snapshot = "quiet" /\ failure # None -> "failure"
    [] ~cleanupErr /\ snapshot = "quiet" /\ failure = None /\ callbackFailure -> "callback"
    [] OTHER -> "nil"

CloseReturn(c) ==
  /\ closers[c] \in {"quiet", "busy"}
  /\ closers' = [closers EXCEPT ![c] = closeResult(closers[c])]
  /\ UNCHANGED <<requests, frames, served, startVars, closeVars, dispatchVars,
                 teardownVars, historyVars, signalVars>>

\* The closer's own context is done: cancel the client and return early.
CloseDeadline(c) ==
  /\ closers[c] = "wait"
  /\ ctxDone' = TRUE
  /\ closers' = [closers EXCEPT ![c] = "deadline"]
  /\ UNCHANGED <<published, claimant, dispatchStop, shut, requests, frames,
                 served, startVars, closeVars, dispatchVars, teardownVars,
                 historyVars>>

-----------------------------------------------------------------------------
Construct ==
  \/ StartupDeadline \/ ValidateFails \/ ValidateOk \/ LaunchCheck \/ LaunchOk \/ LaunchFails
  \/ InitializeOk \/ InitializeFails \/ NotifyOk
  \/ NotifyFails \/ BuilderFailClient \/ BuilderFailed \/ BuilderPublish
  \/ BuilderDeliver \/ CallerReceives \/ CallerDeadline
  \/ WatcherDeadline \/ WatcherDone

Dispatch ==
  \/ Enqueue \/ ReaderFails \/ BeginHandler \/ EndHandler \/ HandlerFailClient
  \/ DispatchTake \/ EvidenceReady \/ DispatchCanceled \/ DispatchStopped
  \/ DrainTake \/ CallbackOk \/ CallbackError \/ RecordCallbackFailure
  \/ DispatcherFailClient \/ DispatcherFailed \/ DispatcherDiscard

Teardown ==
  \/ ClaimantCancel \/ ClaimantPublish \/ ClaimantTeardown
  \/ ShutdownBegin \/ ShutdownSettle \/ ShutdownCancelFailed \/ JoinHandlers
  \/ ShutdownJoined \/ ShutdownCtxDone \/ ShutdownCancel \/ ShutdownDone
  \/ CleanStartup \/ CleanSignal \/ ProcessExit \/ CleanKill \/ CleanReap

Close ==
  \E c \in Closers : \/ CloseBegin(c) \/ CloseSnapshot(c)
                     \/ CloseReturn(c) \/ CloseDeadline(c)

Next == Construct \/ Dispatch \/ Teardown \/ Close

Spec == Init /\ [][Next]_vars

\* The steps the Go scheduler, an armed timer or the kernel is sure to take.
\* Nothing is assumed of callbacks, of evidence, of the peer's frames and
\* responses, of a spontaneous exit, or of contexts the caller owns.
Scheduled ==
  \/ ClaimantCancel \/ ClaimantPublish \/ ClaimantTeardown
  \/ ShutdownBegin \/ ShutdownSettle \/ ShutdownCancelFailed
  \/ ShutdownCancel \/ ShutdownDone

Fairness ==
  /\ WF_vars(Scheduled)
  /\ WF_vars(ShutdownJoined)
  /\ WF_vars(CleanStartup \/ CleanSignal \/ CleanKill \/ CleanReap)
  /\ WF_vars(LaunchCheck \/ LaunchOk \/ LaunchFails)
  /\ WF_vars(InitializeAbandoned \/ NotifyFails)
  /\ WF_vars(BuilderFailClient \/ BuilderFailed \/ BuilderPublish \/ BuilderDeliver)
  /\ WF_vars(WatcherDeadline \/ WatcherDone)
  /\ WF_vars(CallerReceives \/ CallerDeadline)
  /\ \A c \in Closers : WF_vars(CloseSnapshot(c) \/ CloseReturn(c))

FairSpec == Spec /\ Fairness

\* FairSpec for a child whose death also ends its standard output: the reader
\* then meets end of file.
ReaderEOF == process = "exited" /\ ReaderFails
PromptSpec == FairSpec /\ WF_vars(ReaderEOF)

-----------------------------------------------------------------------------
(* Properties.                                                             *)

\* A closed handlersDone means no callback is executing or queued, and none
\* can start later: handlerWG never grows after the join returned, although
\* the reader may still be admitting frames and requests when the close races
\* it (shutdown, beginHandler, enqueueAcceptedNotification).
JoinedMeansIdle ==
  handlersDone => /\ work = 0
                  /\ queue = 0
                  /\ requests = 0
                  /\ dispatcher = "ended"

\* What CloseContext's nil error does establish, whatever raced the close:
\* the child is gone, observers were settled, no callback is executing or
\* queued, and neither a client failure nor a recorded callback failure was
\* lost to the second closer.
NilCloseIsClean ==
  \A c \in Closers :
    closers[c] = "nil" => /\ process \in {None, "reaped"}
                          /\ ~cleanupErr
                          /\ published
                          /\ work = 0
                          /\ queue = 0
                          /\ failure = None
                          /\ ~callbackFailure

\* Once process cleanup is over there is no live child and there never will
\* be: a launch racing the startup deadline is waited for (cleanupProcess
\* waits for startupDone before it looks at c.cmd).
CleanupIsFinal ==
  cleaner = "done" => process \in {None, "reaped"} /\ startupDone

\* Canceling the startup context does not fail a client that NewContext
\* returned (claimStartupFailure's constructing check).
StartupContextReleased == caller = "client" => failure # "watcher"

\* Shutdown leaves no entry in the queue, so every reservation it held is
\* released, even when a callback never returns (shutdown's last discard).
QueueReleased == shut \in {"process", "done"} => queue = 0

\* A failure claimed while a callback of the same client is executing is torn
\* down once: shutdown() never runs twice and the failed client's cleanup is
\* never restarted after it was over.
TeardownOnce == [][/\ shut = "done" => shut' = "done"
                   /\ shut # None => shut' # "begin" \/ shut = "begin"
                   /\ cleaner = "done" => cleaner' = "done"]_vars

\* Shutdown always finishes, even if no callback ever returns, no evidence is
\* ever committed and the child ignores the Interrupt.
ShutdownFinishes == closed ~> (shut = "done")

\* Every CloseContext call returns, without a deadline of its own.
CloseReturns ==
  \A c \in Closers : (closers[c] = "wait") ~> (closers[c] \in CloseResults)

\* A startup deadline always ends NewContext's wait.
StartupBounded == startCtx ~> (caller # "waiting")

-----------------------------------------------------------------------------
(* Statements of the documentation that the code does not keep.            *)

\* codexsdk/README.md: "A nil error proves process cleanup and all admitted
\* callback work completed."
NilMeansDelivered == \A c \in Closers : closers[c] = "nil" => ~discarded

\* codexsdk/README.md: "Callback delivery failure during normal closure is
\* also reported explicitly by the shutdown API."
CallbackErrorReported == \A c \in Closers : closers[c] = "nil" => ~erred

\* codexsdk/README.md: "an incomplete construction at its deadline returns
\* the context error, with owned cleanup continuing independently."
AbandonedIsCleaned == (caller = "error") ~> (process \in {None, "reaped"})

\* Nothing is left behind: no child after cleanup, no hold of the startup context
\* on a client that was handed out, no entry of the queue.
NothingLeftBehind == CleanupIsFinal /\ StartupContextReleased /\ QueueReleased

\* Construction, shutdown and every CloseContext end.
LifeEnds == ShutdownFinishes /\ CloseReturns /\ StartupBounded
=============================================================================
