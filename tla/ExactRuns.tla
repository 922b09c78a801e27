------------------------------ MODULE ExactRuns ------------------------------
(***************************************************************************)
(* Exact Runs of codexsdk.Client: how notifications read from the          *)
(* app-server become the history and the outcome of the runs that          *)
(* StartStream/ResumeStream make, while runs attach, callbacks are         *)
(* dispatched and the client may be closed.                                *)
(*                                                                         *)
(*   reader      routeNotification: route under turnMu, accept into each   *)
(*               target under its notificationOrderMu, enqueue under       *)
(*               closeMu, complete.                                        *)
(*   runner(r)   StartStream/ResumeStream: thread call, register, turn     *)
(*               call, attach with replay of the pended notifications.     *)
(*   dispatcher  notificationDispatcher: evidence fence, callback,         *)
(*               terminal completion.                                      *)
(*   closer      failClient or shutdown: failAll, publishCloseCause,       *)
(*               dispatchStop.                                             *)
(*                                                                         *)
(* A notification is its place in log, the order of ingestion.  One step   *)
(* is one critical section (turnMu, closeMu, the run's mu, an evidence     *)
(* Once).  The calls are those of RpcCalls: here a call is answered by the *)
(* reader or fails.                                                        *)
(***************************************************************************)
EXTENDS Integers, Sequences, FiniteSets

CONSTANTS
    Runs, Threads, Turns,
    ThreadOf,        \* the thread a run starts or resumes
    None,
    MaxFrames,       \* bound: notifications ingested
    Capacity,        \* capacity of the channel c.notifications
    Handlers,        \* may a notification handler be configured, may it not
    FrameKinds,      \* kinds of notification the app-server sends
    Steering,        \* turn/start may answer with a turn another run has
    RequestFailures, \* a server-request handler may fail
    Causes           \* close causes that may strike at any moment

ASSUME ConstantsAssumption ==
    /\ ThreadOf \in [Runs -> Threads]
    /\ MaxFrames \in Nat /\ Capacity \in Nat \ {0}
    /\ Handlers \subseteq BOOLEAN /\ Steering \in BOOLEAN /\ RequestFailures \in BOOLEAN
    /\ FrameKinds \subseteq {"item", "done", "fail", "note"}
    /\ Causes \subseteq {"failure", "closed"}
    /\ None \notin Runs \cup Threads \cup Turns
    /\ None \notin {"ok", "turnErr", "startErr", "busy", "streamClosed", "requestErr",
                    "failure", "closed"}

Frames == 1..MaxFrames

VARIABLES
    hasHandler,    \* c.hasNotificationHandler, fixed at construction
    log,           \* the ingested notifications, [kind, id]
    pc,            \* where the runner of r is
    turnID,        \* s.turnID, None until setTurn
    answer,        \* the turn of the turn/start response
    armedAt,       \* auxiliary: Len(log) at the response that armed the turn
    resumedAt,     \* auxiliary: Len(log) at the response that armed the thread
    history,       \* run.Notifications, as places in log
    admitted,      \* runs with s.terminalAdmitted
    outcome,       \* s.terminal and s.err: None until finishState
    attaching,     \* members of c.exactAttaching
    streams,       \* members of c.exactStreams (under their turn)
    armedThread,   \* c.armedThreadAttach
    armedTurn,     \* c.armedTurnAttach
    pendingThread, \* c.pendingThreadNotifications (by log[n].id)
    pendingEvents, \* c.pendingEvents (by log[n].id)
    replaying,     \* c.replayingEvents
    local,         \* the runner's own copy of what it replays
    owner,         \* evidence.state of a pended notification
    ready,         \* evidence.once has run: ready is closed
    completion,    \* completion[n]: runs to complete after delivery of n
    reader, frame, targets,        \* the reader's pc, notification, targets
    queue,         \* c.notifications
    disp, current, \* the dispatcher's pc and notification
    entered,       \* auxiliary: notifications that entered the queue
    delivered,     \* notifications whose callback returned nil
    closeReason,   \* c.closeReason, None while open
    closer,        \* where the goroutine that runs failAll is
    snapshot, evidence, \* failAll's exactStreams, and its pending+replaying
    ctxDone, stopped    \* c.ctx is done; c.dispatchStop is closed

runVars    == <<pc, turnID, answer, armedAt, resumedAt>>
stateVars  == <<history, admitted, outcome>>
tableVars  == <<attaching, streams, armedThread, armedTurn>>
pendVars   == <<pendingThread, pendingEvents, replaying, local>>
evidVars   == <<owner, ready, completion>>
readerVars == <<reader, frame, targets>>
dispVars   == <<queue, disp, current, entered, delivered>>
closeVars  == <<closeReason, closer, snapshot, evidence, ctxDone, stopped>>
vars == <<log, hasHandler, runVars, stateVars, tableVars, pendVars, evidVars, readerVars,
          dispVars, closeVars>>

closed == closeReason # None
published == closer \in {"stop", "end"}

Terminals == {"done", "fail"}
TurnKinds == {"item"} \cup Terminals

TypeOK ==
    /\ hasHandler \in Handlers
    /\ log \in Seq([kind : FrameKinds, id : Turns \cup Threads]) /\ Len(log) <= MaxFrames
    /\ pc \in [Runs -> {"new", "callThread", "gotThread", "threadReplay", "callTurn",
                        "gotTurn", "gated", "replay", "replayComplete", "attached", "noStream"}]
    /\ turnID \in [Runs -> Turns \cup {None}]
    /\ answer \in [Runs -> Turns \cup {None}]
    /\ armedAt \in [Runs -> 0..MaxFrames] /\ resumedAt \in [Runs -> 0..MaxFrames]
    /\ history \in [Runs -> Seq(Frames)]
    /\ admitted \subseteq Runs
    /\ outcome \in [Runs -> {None, "ok", "turnErr", "startErr", "busy", "streamClosed",
                             "requestErr", "failure", "closed"}]
    /\ attaching \subseteq Runs /\ streams \subseteq Runs
    /\ armedThread \subseteq Threads
    /\ armedTurn \in [Turns -> Runs \cup {None}]
    /\ pendingThread \subseteq Frames /\ pendingEvents \subseteq Frames
    /\ replaying \in [Runs -> SUBSET Frames] /\ local \in [Runs -> SUBSET Frames]
    /\ owner \in [Frames -> Runs \cup {None}]
    /\ ready \subseteq Frames
    /\ completion \in [Frames -> SUBSET Runs]
    /\ reader \in {"read", "accept", "complete", "await"}
    /\ frame \in 0..MaxFrames /\ targets \subseteq Runs
    /\ queue \in Seq(Frames) /\ Len(queue) <= Capacity
    /\ disp \in {"idle", "evidence", "callback", "drain", "drainCallback", "failing", "exited"}
    /\ current \in 0..MaxFrames /\ delivered \subseteq Frames /\ entered \subseteq Frames
    /\ closeReason \in {None, "failure", "closed"}
    /\ closer \in {"none", "cancel", "take", "resolve", "finish", "publish", "stop", "end"}
    /\ snapshot \subseteq Runs /\ evidence \subseteq Frames
    /\ ctxDone \in BOOLEAN /\ stopped \in BOOLEAN

Init ==
    /\ log = <<>> /\ hasHandler \in Handlers
    /\ pc = [r \in Runs |-> "new"]
    /\ turnID = [r \in Runs |-> None]
    /\ answer = [r \in Runs |-> None]
    /\ armedAt = [r \in Runs |-> 0] /\ resumedAt = [r \in Runs |-> 0]
    /\ history = [r \in Runs |-> <<>>]
    /\ admitted = {}
    /\ outcome = [r \in Runs |-> None]
    /\ attaching = {} /\ streams = {} /\ armedThread = {}
    /\ armedTurn = [t \in Turns |-> None]
    /\ pendingThread = {} /\ pendingEvents = {}
    /\ replaying = [r \in Runs |-> {}] /\ local = [r \in Runs |-> {}]
    /\ owner = [n \in Frames |-> None]
    /\ ready = {}
    /\ completion = [n \in Frames |-> {}]
    /\ reader = "read" /\ frame = 0 /\ targets = {}
    /\ queue = <<>> /\ disp = "idle" /\ current = 0 /\ delivered = {} /\ entered = {}
    /\ closeReason = None /\ closer = "none" /\ snapshot = {} /\ evidence = {}
    /\ ctxDone = FALSE /\ stopped = FALSE

-----------------------------------------------------------------------------
(* The state of one run                                                    *)

IsMin(n, S) == n \in S /\ \A m \in S : n <= m

(* matchesRun: present identities must not contradict the run's; a turn    *)
(* that is not published yet is no contradiction.                          *)
MatchesRun(r, n) ==
    IF log[n].kind = "note" THEN log[n].id = ThreadOf[r]
    ELSE turnID[r] \in {None, log[n].id}

(* acceptRetainedBeforeTerminalCompletion                                  *)
Accepts(r, n) == outcome[r] = None /\ r \notin admitted /\ MatchesRun(r, n)

AcceptInto(r, n) ==
    /\ history' = IF Accepts(r, n) THEN [history EXCEPT ![r] = Append(@, n)] ELSE history
    /\ admitted' = IF Accepts(r, n) /\ log[n].kind \in Terminals
                   THEN admitted \cup {r} ELSE admitted

(* applyTerminalLocked: the error that the last notification carries.      *)
Verdict(r) ==
    IF log[history[r][Len(history[r])]].kind = "done" THEN "ok" ELSE "turnErr"

(* Mutant: a late terminal notification outlives the close cause.          *)
FinishLate(S, err) ==
    LET F == {r \in S : outcome[r] = None} IN
    /\ outcome' = [r \in Runs |-> IF r \in F THEN err[r] ELSE outcome[r]]
    /\ attaching' = attaching \ F
    /\ streams' = streams \ F

(* finish of every run of S that is not terminal yet, with err[r]: the     *)
(* close cause comes first (finishState), then the run leaves the tables   *)
(* (unregisterExactRun).                                                   *)
Finish(S, err) ==
    LET F == {r \in S : outcome[r] = None} IN
    /\ outcome' = [r \in Runs |-> IF r \notin F THEN outcome[r]
                                  ELSE IF closed THEN closeReason ELSE err[r]]
    /\ attaching' = attaching \ F
    /\ streams' = streams \ F

Complete(S) == Finish(S, [r \in S |-> Verdict(r)])

(* resolveEvidence: the first caller of the Once accepts n into r, with    *)
(* the terminal completion that this may produce.                          *)
Resolve(r, n) ==
    /\ ready' = ready \cup {n}
    /\ IF n \in ready
       THEN UNCHANGED <<history, admitted, completion>>
       ELSE /\ AcceptInto(r, n)
            /\ completion' = IF Accepts(r, n) /\ log[n].kind \in Terminals
                             THEN [completion EXCEPT ![n] = @ \cup {r}] ELSE completion

-----------------------------------------------------------------------------
(* failClient and claimFailureLocked, as a conjunct of the step that calls *)
(* it: only the first caller gets to run failAll.                          *)
FailClient ==
    /\ closeReason' = IF closed THEN closeReason ELSE "failure"
    /\ closer' = IF closed THEN closer ELSE "cancel"
    /\ UNCHANGED <<snapshot, evidence, ctxDone, stopped>>

-----------------------------------------------------------------------------
(* The runner of r: StartStream, ResumeStream                              *)

RunnerKeeps == UNCHANGED <<log, hasHandler, readerVars, dispVars>>

CallThread(r) ==
    /\ pc[r] = "new" /\ ~closed
    /\ pc' = [pc EXCEPT ![r] = "callThread"]
    /\ UNCHANGED <<turnID, answer, armedAt, resumedAt, stateVars, tableVars, pendVars, evidVars, closeVars>>
    /\ RunnerKeeps

(* routeResponse of thread/start or thread/resume: armThreadAttach.        *)
ThreadResponse(r) ==
    /\ pc[r] = "callThread" /\ reader = "read" /\ ~closed
    /\ armedThread' = armedThread \cup {ThreadOf[r]}
    /\ resumedAt' = [resumedAt EXCEPT ![r] = Len(log)]
    /\ pc' = [pc EXCEPT ![r] = "gotThread"]
    /\ UNCHANGED <<turnID, answer, armedAt, stateVars, attaching, streams, armedTurn, pendVars,
                   evidVars, closeVars>>
    /\ RunnerKeeps

ThreadCallError(r) ==
    /\ pc[r] = "callThread"
    /\ pc' = [pc EXCEPT ![r] = "noStream"]
    /\ UNCHANGED <<turnID, answer, armedAt, resumedAt, stateVars, tableVars, pendVars, evidVars, closeVars>>
    /\ RunnerKeeps

(* registerAttachingExactStream: refused when closed or when another run   *)
(* of the thread is attaching; then the thread stays armed.                *)
Busy(r) == \E s \in attaching : ThreadOf[s] = ThreadOf[r]
NotesOf(r) == {n \in pendingThread : log[n].id = ThreadOf[r]}

RegisterRefused(r) ==
    /\ pc[r] = "gotThread"
    /\ closed \/ Busy(r)
    /\ pc' = [pc EXCEPT ![r] = "attached"]
    /\ Finish({r}, [s \in {r} |-> "busy"])
    /\ UNCHANGED <<turnID, answer, armedAt, resumedAt, history, admitted, armedThread, armedTurn, pendVars,
                   evidVars, closeVars>>
    /\ RunnerKeeps

Register(r) ==
    /\ pc[r] = "gotThread"
    /\ ~closed /\ ~Busy(r)
    /\ attaching' = attaching \cup {r}
    /\ local' = [local EXCEPT ![r] = NotesOf(r)]
    /\ pendingThread' = pendingThread \ NotesOf(r)
    /\ armedThread' = armedThread \ {ThreadOf[r]}
    /\ pc' = [pc EXCEPT ![r] = "threadReplay"]
    /\ UNCHANGED <<turnID, answer, armedAt, resumedAt, stateVars, streams, armedTurn, pendingEvents, replaying,
                   evidVars, closeVars>>
    /\ RunnerKeeps

(* The saved thread notifications, without notificationOrderMu.            *)
ThreadReplay(r) ==
    /\ pc[r] = "threadReplay"
    /\ \E n \in Frames :
          /\ IsMin(n, local[r])
          /\ AcceptInto(r, n)
          /\ local' = [local EXCEPT ![r] = @ \ {n}]
    /\ UNCHANGED <<runVars, outcome, tableVars, pendingThread, pendingEvents, replaying,
                   evidVars, closeVars>>
    /\ RunnerKeeps

(* admitContinuation accepts, and the turn/start request is sent.          *)
CallTurn(r) ==
    /\ pc[r] = "threadReplay" /\ local[r] = {}
    /\ pc' = [pc EXCEPT ![r] = "callTurn"]
    /\ UNCHANGED <<turnID, answer, armedAt, resumedAt, stateVars, tableVars, pendVars, evidVars, closeVars>>
    /\ RunnerKeeps

(* admitContinuation refuses, turn/start fails or answers without a turn   *)
(* id: finishAttachingExactStream.  The turn is armed only for a response  *)
(* that the call returns, so nothing can be pended for r yet.              *)
FinishAttaching(r) ==
    /\ \/ pc[r] = "threadReplay" /\ local[r] = {}
       \/ pc[r] = "callTurn"
    /\ Finish({r}, [s \in {r} |-> "startErr"])
    /\ pc' = [pc EXCEPT ![r] = "attached"]
    /\ UNCHANGED <<turnID, answer, armedAt, resumedAt, history, admitted, armedThread, armedTurn, pendVars,
                   evidVars, closeVars>>
    /\ RunnerKeeps

(* routeResponse of turn/start: armTurnAttach binds the turn to the run.   *)
MayAnswer(r, t) ==
    \A s \in Runs \ {r} :
        answer[s] = t => Steering /\ ThreadOf[s] = ThreadOf[r]

(* Mutant: the response is handed over without arming the turn.            *)
TurnResponseUnarmed(r, t) ==
    /\ pc[r] = "callTurn" /\ reader = "read" /\ ~closed
    /\ MayAnswer(r, t)
    /\ answer' = [answer EXCEPT ![r] = t]
    /\ armedAt' = [armedAt EXCEPT ![r] = Len(log)]
    /\ pc' = [pc EXCEPT ![r] = "gotTurn"]
    /\ UNCHANGED <<turnID, resumedAt, stateVars, tableVars, pendVars, evidVars, closeVars>>
    /\ RunnerKeeps

TurnResponse(r, t) ==
    /\ pc[r] = "callTurn" /\ reader = "read" /\ ~closed
    /\ MayAnswer(r, t)
    /\ answer' = [answer EXCEPT ![r] = t]
    /\ armedTurn' = [armedTurn EXCEPT ![t] = r]
    /\ armedAt' = [armedAt EXCEPT ![r] = Len(log)]
    /\ pc' = [pc EXCEPT ![r] = "gotTurn"]
    /\ UNCHANGED <<turnID, resumedAt, stateVars, attaching, streams, armedThread, pendVars, evidVars,
                   closeVars>>
    /\ RunnerKeeps

(* attachExactStreamForTurn: take notificationOrderMu, publish the turn.   *)
AttachGate(r) ==
    /\ pc[r] = "gotTurn"
    /\ turnID' = [turnID EXCEPT ![r] = answer[r]]
    /\ pc' = [pc EXCEPT ![r] = "gated"]
    /\ UNCHANGED <<answer, armedAt, resumedAt, stateVars, tableVars, pendVars, evidVars, closeVars>>
    /\ RunnerKeeps

(* attachExactStreamLocked, the section of turnMu.  A run that is already  *)
(* terminal leaves the pended notifications where they are.                *)
EventsOf(t) == {n \in pendingEvents : log[n].id = t}

AttachPublish(r) ==
    /\ pc[r] = "gated"
    /\ armedTurn' = [armedTurn EXCEPT ![turnID[r]] = None]
    /\ attaching' = attaching \ {r}
    /\ IF outcome[r] # None
       THEN /\ pc' = [pc EXCEPT ![r] = "attached"]
            /\ UNCHANGED <<streams, pendingEvents, replaying, local>>
       ELSE /\ pc' = [pc EXCEPT ![r] = "replay"]
            /\ streams' = streams \cup {r}
            /\ pendingEvents' = pendingEvents \ EventsOf(turnID[r])
            /\ replaying' = [replaying EXCEPT ![r] = EventsOf(turnID[r])]
            /\ local' = [local EXCEPT ![r] = EventsOf(turnID[r])]
    /\ UNCHANGED <<turnID, answer, armedAt, resumedAt, stateVars, armedThread, pendingThread, evidVars, closeVars>>
    /\ RunnerKeeps

(* Mutant: the replay accepts directly and never closes ready.             *)
AttachReplayUnfenced(r) ==
    /\ pc[r] = "replay"
    /\ \E n \in Frames :
          /\ IsMin(n, local[r])
          /\ local' = [local EXCEPT ![r] = @ \ {n}]
          /\ AcceptInto(r, n)
          /\ completion' = completion
    /\ UNCHANGED <<runVars, outcome, tableVars, pendingThread, pendingEvents, replaying,
                   owner, ready, closeVars>>
    /\ RunnerKeeps

(* The replay loop, under notificationOrderMu.  Without callbacks a        *)
(* terminal notification completes the run next; with callbacks the        *)
(* dispatcher does, after delivery.                                        *)
AttachReplay(r) ==
    /\ pc[r] = "replay"
    /\ \E n \in Frames :
          /\ IsMin(n, local[r])
          /\ local' = [local EXCEPT ![r] = @ \ {n}]
          /\ Resolve(r, n)
          /\ pc' = [pc EXCEPT ![r] = IF hasHandler \/ completion'[n] = {} THEN @
                                     ELSE "replayComplete"]
    /\ UNCHANGED <<turnID, answer, armedAt, resumedAt, outcome, tableVars, pendingThread,
                   pendingEvents, replaying, owner, closeVars>>
    /\ RunnerKeeps

(* completeEvidenceTerminal for the notification just replayed.            *)
AttachComplete(r) ==
    /\ pc[r] = "replayComplete"
    /\ \E n \in replaying[r] \ local[r] :
          /\ \A m \in replaying[r] \ local[r] : m <= n
          /\ Complete(completion[n])
    /\ pc' = [pc EXCEPT ![r] = "replay"]
    /\ UNCHANGED <<turnID, answer, armedAt, resumedAt, history, admitted, armedThread,
                   armedTurn, pendVars, evidVars, closeVars>>
    /\ RunnerKeeps

(* finishExactPendingReplay, and notificationOrderMu is released.          *)
AttachFinish(r) ==
    /\ pc[r] = "replay" /\ local[r] = {}
    /\ replaying' = [replaying EXCEPT ![r] = {}]
    /\ pc' = [pc EXCEPT ![r] = "attached"]
    /\ UNCHANGED <<turnID, answer, armedAt, resumedAt, stateVars, tableVars, pendingThread, pendingEvents, local,
                   evidVars, closeVars>>
    /\ RunnerKeeps

(* Stream.Close, once the caller has the stream.                           *)
CloseStream(r) ==
    /\ pc[r] = "attached" /\ outcome[r] = None
    /\ Finish({r}, [s \in {r} |-> "streamClosed"])
    /\ UNCHANGED <<runVars, history, admitted, armedThread, armedTurn, pendVars, evidVars,
                   closeVars>>
    /\ RunnerKeeps

(* failExactServerRequest for a request that names a thread and a turn:    *)
(* the live runs of the turn, and the run attaching on the thread if it    *)
(* has published that turn, or none while the turn has no live run.        *)
RequestTargets(th, t) ==
    LET live == {s \in streams : turnID[s] = t} IN
    {s \in live : ThreadOf[s] = th} \cup
    {s \in attaching : /\ ThreadOf[s] = th
                       /\ turnID[s] = t \/ (turnID[s] = None /\ live = {})}

ServerRequestFails(th, t) ==
    /\ RequestFailures
    /\ closeReason # "closed"
    /\ \E s \in RequestTargets(th, t) : outcome[s] = None
    /\ Finish(RequestTargets(th, t), [s \in Runs |-> "requestErr"])
    /\ UNCHANGED <<runVars, history, admitted, armedThread, armedTurn, pendVars, evidVars,
                   closeVars>>
    /\ RunnerKeeps

RunnerStep(r) ==
    \/ CallThread(r) \/ ThreadResponse(r) \/ ThreadCallError(r)
    \/ RegisterRefused(r) \/ Register(r) \/ ThreadReplay(r)
    \/ CallTurn(r) \/ FinishAttaching(r)
    \/ \E t \in Turns : TurnResponse(r, t)
    \/ AttachGate(r) \/ AttachPublish(r) \/ AttachReplay(r) \/ AttachComplete(r)
    \/ AttachFinish(r)
    \/ CloseStream(r)

-----------------------------------------------------------------------------
(* The reader: routeNotification                                           *)

(* The app-server speaks of threads, and of turns it was asked for.        *)
Spoken(k, id) ==
    IF k = "note" THEN id \in Threads
    ELSE /\ id \in Turns
         /\ \E r \in Runs : pc[r] = "callTurn" \/ answer[r] = id

(* Mutant: an attaching run without a turn takes any turn of its thread.   *)
TargetsByThread(k, id) ==
    {r \in streams \cup attaching :
        IF k = "note" THEN ThreadOf[r] = id ELSE turnID[r] \in {None, id}}

(* routeExactNotificationBeforeTerminalCompletion, the section of turnMu.  *)
Targets(k, id) ==
    {r \in streams \cup attaching :
        IF k = "note" THEN ThreadOf[r] = id ELSE turnID[r] = id}

SavesThread(k, id) == k = "note" /\ Targets(k, id) = {} /\ id \in armedThread

PendsTurn(k, id) ==
    /\ k \in TurnKinds /\ Targets(k, id) = {}
    /\ armedTurn[id] # None
    /\ turnID[armedTurn[id]] \in {None, id}

Ingest(k, id) ==
    LET n == Len(log) + 1 IN
    /\ reader = "read" /\ ~closed /\ n <= MaxFrames
    /\ Spoken(k, id)
    /\ log' = Append(log, [kind |-> k, id |-> id])
    /\ frame' = n /\ reader' = "accept"
    /\ targets' = Targets(k, id)
    /\ pendingThread' = IF SavesThread(k, id) THEN pendingThread \cup {n} ELSE pendingThread
    /\ pendingEvents' = IF PendsTurn(k, id) THEN pendingEvents \cup {n} ELSE pendingEvents
    /\ owner' = IF PendsTurn(k, id) THEN [owner EXCEPT ![n] = armedTurn[id]] ELSE owner
    /\ UNCHANGED <<hasHandler, runVars, stateVars, tableVars, replaying, local, ready, completion,
                   dispVars, closeVars>>

(* The reservation for pending fails: the notification is in nobody's      *)
(* evidence and the client fails.                                          *)
IngestOverBudget(k, id) ==
    /\ reader = "read" /\ ~closed /\ Len(log) < MaxFrames
    /\ "failure" \in Causes /\ Spoken(k, id)
    /\ SavesThread(k, id) \/ PendsTurn(k, id)
    /\ log' = Append(log, [kind |-> k, id |-> id])
    /\ frame' = Len(log) + 1 /\ reader' = "accept" /\ targets' = {}
    /\ FailClient
    /\ UNCHANGED <<hasHandler, runVars, stateVars, tableVars, pendVars, evidVars, dispVars>>

(* Mutant: live notifications do not wait for the replay.                  *)
GateOpen(r) == TRUE

(* acceptOrderedBeforeTerminalCompletion: waits for notificationOrderMu,   *)
(* which the runner holds from AttachGate to AttachFinish.                 *)
GateFree(r) == pc[r] \notin {"gated", "replay", "replayComplete"}

AcceptTarget(r) ==
    /\ reader = "accept" /\ r \in targets
    /\ GateFree(r)
    /\ AcceptInto(r, frame)
    /\ completion' = IF Accepts(r, frame) /\ log[frame].kind \in Terminals
                     THEN [completion EXCEPT ![frame] = @ \cup {r}] ELSE completion
    /\ targets' = targets \ {r}
    /\ UNCHANGED <<log, hasHandler, runVars, outcome, tableVars, pendVars, owner, ready, reader, frame,
                   dispVars, closeVars>>

(* The reservation of a live notification fails for r: the other targets   *)
(* get it, then failExactNotificationDelivery fails the client.            *)
AcceptOverBudget(r) ==
    /\ reader = "accept" /\ targets = {r}
    /\ "failure" \in Causes /\ GateFree(r) /\ Accepts(r, frame)
    /\ targets' = {}
    /\ FailClient
    /\ UNCHANGED <<log, hasHandler, runVars, stateVars, tableVars, pendVars, evidVars, reader, frame,
                   dispVars>>

(* Mutant: the queue grows past its capacity.                              *)
EnqueueUnbounded ==
    /\ reader = "accept" /\ targets = {} /\ ~closed
    /\ queue' = Append(queue, frame)
    /\ entered' = entered \cup {frame}
    /\ reader' = IF hasHandler THEN "read" ELSE "complete"
    /\ UNCHANGED <<log, hasHandler, runVars, stateVars, tableVars, pendVars, evidVars, frame, targets,
                   disp, current, delivered, closeVars>>

(* Mutant: the reader completes the run itself, callbacks or not.          *)
EnqueueThenComplete ==
    /\ reader = "accept" /\ targets = {}
    /\ ~closed /\ Len(queue) < Capacity
    /\ queue' = Append(queue, frame)
    /\ entered' = entered \cup {frame}
    /\ reader' = "complete"
    /\ UNCHANGED <<log, hasHandler, runVars, stateVars, tableVars, pendVars, evidVars, frame, targets,
                   disp, current, delivered, closeVars>>

(* enqueueAcceptedNotification, the section of closeMu.                    *)
Enqueue ==
    /\ reader = "accept" /\ targets = {}
    /\ ~closed /\ Len(queue) < Capacity
    /\ queue' = Append(queue, frame)
    /\ entered' = entered \cup {frame}
    /\ reader' = IF hasHandler THEN "read" ELSE "complete"
    /\ UNCHANGED <<log, hasHandler, runVars, stateVars, tableVars, pendVars, evidVars, frame, targets,
                   disp, current, delivered, closeVars>>

(* ErrNotificationBackpressure: a full queue fails the client.             *)
EnqueueFull ==
    /\ reader = "accept" /\ targets = {}
    /\ ~closed /\ Len(queue) = Capacity
    /\ FailClient
    /\ reader' = "await"
    /\ UNCHANGED <<log, hasHandler, runVars, stateVars, tableVars, pendVars, evidVars, frame, targets,
                   dispVars>>

EnqueueClosed ==
    /\ reader = "accept" /\ targets = {} /\ closed
    /\ reader' = "await"
    /\ UNCHANGED <<log, hasHandler, runVars, stateVars, tableVars, pendVars, evidVars, frame, targets,
                   dispVars, closeVars>>

(* awaitCloseCausePublication                                              *)
AwaitPublication ==
    /\ reader = "await" /\ published
    /\ reader' = "read"
    /\ UNCHANGED <<log, hasHandler, runVars, stateVars, tableVars, pendVars, evidVars, frame, targets,
                   dispVars, closeVars>>

(* Without callbacks the reader completes the runs it terminated.          *)
ReaderComplete ==
    /\ reader = "complete"
    /\ Complete(IF owner[frame] = None THEN completion[frame] ELSE {})
    /\ reader' = "read"
    /\ UNCHANGED <<log, hasHandler, runVars, history, admitted, armedThread, armedTurn, pendVars, evidVars,
                   frame, targets, dispVars, closeVars>>

ReaderStep ==
    \/ \E k \in FrameKinds, id \in Turns \cup Threads : Ingest(k, id) \/ IngestOverBudget(k, id)
    \/ \E r \in Runs : AcceptTarget(r) \/ AcceptOverBudget(r)
    \/ Enqueue \/ EnqueueFull \/ EnqueueClosed \/ AwaitPublication \/ ReaderComplete

-----------------------------------------------------------------------------
(* The dispatcher: notificationDispatcher                                  *)

DispKeeps == UNCHANGED <<log, hasHandler, runVars, pendVars, readerVars>>

(* Receive from the channel; a done context discards instead.              *)
Dequeue ==
    /\ disp \in {"idle", "drain"} /\ queue # <<>>
    /\ ~ctxDone \/ disp = "drain"
    /\ current' = Head(queue)
    /\ queue' = Tail(queue)
    /\ disp' = IF disp = "drain" THEN "drainCallback"
               ELSE IF owner[Head(queue)] # None THEN "evidence" ELSE "callback"
    /\ UNCHANGED <<stateVars, tableVars, evidVars, entered, delivered, closeVars>>
    /\ DispKeeps

EvidenceReady ==
    /\ disp = "evidence" /\ current \in ready /\ ~ctxDone
    /\ disp' = "callback"
    /\ UNCHANGED <<stateVars, tableVars, evidVars, queue, current, entered, delivered, closeVars>>
    /\ DispKeeps

(* discardCurrentAndQueuedNotifications                                    *)
DispatcherDiscard ==
    /\ disp \in {"idle", "evidence"} /\ ctxDone
    /\ queue' = <<>> /\ disp' = "exited"
    /\ UNCHANGED <<stateVars, tableVars, evidVars, current, entered, delivered, closeVars>>
    /\ DispKeeps

(* finishDispatchStop                                                      *)
DispatcherStop ==
    /\ disp \in {"idle", "evidence"} /\ stopped
    /\ IF disp = "idle" THEN disp' = "drain" /\ UNCHANGED ready
       ELSE disp' = "drainCallback" /\ ready' = ready \cup {current}
    /\ UNCHANGED <<stateVars, tableVars, owner, completion, queue, current, entered, delivered, closeVars>>
    /\ DispKeeps

DispatcherExit ==
    /\ disp = "drain" /\ queue = <<>>
    /\ disp' = "exited"
    /\ UNCHANGED <<stateVars, tableVars, evidVars, queue, current, entered, delivered, closeVars>>
    /\ DispKeeps

(* Mutant: the completion kept in the evidence is forgotten.               *)
CallbackOkLiveOnly ==
    /\ disp \in {"callback", "drainCallback"}
    /\ delivered' = delivered \cup {current}
    /\ Complete(IF hasHandler /\ owner[current] = None THEN completion[current] ELSE {})
    /\ disp' = IF disp = "callback" THEN "idle" ELSE "drain"
    /\ UNCHANGED <<history, admitted, armedThread, armedTurn, evidVars, queue, current, entered, closeVars>>
    /\ DispKeeps

(* dispatchAcceptedNotification: the callback returns nil, and only then   *)
(* the terminal completions run.                                           *)
CallbackOk ==
    /\ disp \in {"callback", "drainCallback"}
    /\ delivered' = delivered \cup {current}
    /\ Complete(IF hasHandler THEN completion[current] ELSE {})
    /\ disp' = IF disp = "callback" THEN "idle" ELSE "drain"
    /\ UNCHANGED <<history, admitted, armedThread, armedTurn, evidVars, queue, current, entered, closeVars>>
    /\ DispKeeps

(* The callback fails: failClient on the dispatcher, then discard.         *)
CallbackError ==
    /\ disp \in {"callback", "drainCallback"}
    /\ hasHandler /\ "failure" \in Causes
    /\ FailClient
    /\ disp' = IF closed THEN "exited" ELSE "failing"
    /\ queue' = IF closed THEN <<>> ELSE queue
    /\ UNCHANGED <<stateVars, tableVars, evidVars, current, entered, delivered>>
    /\ DispKeeps

DispatcherFailed ==
    /\ disp = "failing" /\ published
    /\ disp' = "exited" /\ queue' = <<>>
    /\ UNCHANGED <<stateVars, tableVars, evidVars, current, entered, delivered, closeVars>>
    /\ DispKeeps

DispatcherStep ==
    \/ Dequeue \/ EvidenceReady \/ DispatcherDiscard \/ DispatcherStop \/ DispatcherExit
    \/ CallbackOk \/ CallbackError \/ DispatcherFailed

-----------------------------------------------------------------------------
(* Closing: failClient, beginShutdown, failAll                             *)

CloserKeeps == UNCHANGED <<log, hasHandler, runVars, readerVars>>

(* A failure of another goroutine, or CloseContext.                        *)
Close(cause) ==
    /\ ~closed
    /\ closeReason' = cause
    /\ closer' = IF cause = "failure" THEN "cancel" ELSE "take"
    /\ UNCHANGED <<stateVars, tableVars, pendVars, evidVars, dispVars, snapshot, evidence, ctxDone, stopped>>
    /\ CloserKeeps

CloserCancel ==
    /\ closer = "cancel"
    /\ ctxDone' = TRUE /\ closer' = "take"
    /\ UNCHANGED <<stateVars, tableVars, pendVars, evidVars, dispVars, closeReason, snapshot, evidence, stopped>>
    /\ CloserKeeps

(* Mutant: the snapshot misses the runs that are still attaching.          *)
FailAllTakeStreams ==
    /\ closer = "take"
    /\ snapshot' = streams
    /\ evidence' = pendingEvents \cup UNION {replaying[r] : r \in Runs}
    /\ pendingEvents' = {} /\ pendingThread' = {} /\ armedThread' = {}
    /\ armedTurn' = [t \in Turns |-> None]
    /\ closer' = "resolve"
    /\ UNCHANGED <<stateVars, attaching, streams, replaying, local, evidVars, dispVars, closeReason, ctxDone, stopped>>
    /\ CloserKeeps

(* Mutant: the snapshot misses what a runner is replaying.                 *)
FailAllTakePending ==
    /\ closer = "take"
    /\ snapshot' = streams \cup attaching
    /\ evidence' = pendingEvents
    /\ pendingEvents' = {} /\ pendingThread' = {} /\ armedThread' = {}
    /\ armedTurn' = [t \in Turns |-> None]
    /\ closer' = "resolve"
    /\ UNCHANGED <<stateVars, attaching, streams, replaying, local, evidVars, dispVars, closeReason, ctxDone, stopped>>
    /\ CloserKeeps

(* failAll, the section of turnMu.                                         *)
FailAllTake ==
    /\ closer = "take"
    /\ snapshot' = streams \cup attaching
    /\ evidence' = pendingEvents \cup UNION {replaying[r] : r \in Runs}
    /\ pendingEvents' = {} /\ pendingThread' = {} /\ armedThread' = {}
    /\ armedTurn' = [t \in Turns |-> None]
    /\ closer' = "resolve"
    /\ UNCHANGED <<stateVars, attaching, streams, replaying, local, evidVars, dispVars, closeReason, ctxDone, stopped>>
    /\ CloserKeeps

(* resolvePendingEvidence, resolveReplayingEvidence: list order within a   *)
(* turn, map order (any) between turns, without notificationOrderMu.       *)
FailAllResolve(n) ==
    /\ closer = "resolve" /\ n \in evidence
    /\ IsMin(n, {m \in evidence : log[m].id = log[n].id})
    /\ Resolve(owner[n], n)
    /\ evidence' = evidence \ {n}
    /\ UNCHANGED <<outcome, tableVars, pendVars, owner, dispVars, closeReason, closer, snapshot, ctxDone, stopped>>
    /\ CloserKeeps

FailAllFinish ==
    /\ closer = "resolve" /\ evidence = {}
    /\ Finish(snapshot, [r \in Runs |-> closeReason])
    /\ snapshot' = {} /\ closer' = "publish"
    /\ UNCHANGED <<history, admitted, armedThread, armedTurn, pendVars, evidVars, dispVars, closeReason, evidence, ctxDone, stopped>>
    /\ CloserKeeps

Publish ==
    /\ closer = "publish"
    /\ closer' = IF closeReason = "closed" THEN "stop" ELSE "end"
    /\ UNCHANGED <<stateVars, tableVars, pendVars, evidVars, dispVars, closeReason, snapshot, evidence, ctxDone, stopped>>
    /\ CloserKeeps

StopDispatch ==
    /\ closer = "stop"
    /\ stopped' = TRUE /\ closer' = "end"
    /\ UNCHANGED <<stateVars, tableVars, pendVars, evidVars, dispVars, closeReason, snapshot, evidence, ctxDone>>
    /\ CloserKeeps

(* The caller's shutdown deadline or the callback grace cancels c.ctx.     *)
GraceExpires ==
    /\ closeReason = "closed" /\ ~ctxDone
    /\ ctxDone' = TRUE
    /\ UNCHANGED <<stateVars, tableVars, pendVars, evidVars, dispVars, closeReason, closer, snapshot, evidence, stopped>>
    /\ CloserKeeps

(* discardAcceptedNotifications by the shutdown goroutine.                 *)
ShutdownDiscard ==
    /\ closer = "end" /\ ctxDone /\ queue # <<>>
    /\ queue' = <<>>
    /\ UNCHANGED <<stateVars, tableVars, pendVars, evidVars, disp, current, entered, delivered, closeVars>>
    /\ CloserKeeps

CloserStep ==
    \/ \E cause \in Causes : Close(cause)
    \/ CloserCancel \/ FailAllTake
    \/ \E n \in Frames : FailAllResolve(n)
    \/ FailAllFinish \/ Publish \/ StopDispatch \/ GraceExpires \/ ShutdownDiscard

-----------------------------------------------------------------------------
Next ==
    \/ \E r \in Runs : RunnerStep(r)
    \/ \E th \in Threads, t \in Turns : ServerRequestFails(th, t)
    \/ ReaderStep \/ DispatcherStep \/ CloserStep

Spec == Init /\ [][Next]_vars

-----------------------------------------------------------------------------
(* Every goroutine that can take its next step takes it.  A callback       *)
(* returns, as the README asks of applications; nothing is assumed of the  *)
(* app-server (it may fall silent), of the user (who may never close) or   *)
(* of failures and deadlines (they may never happen).                      *)
RunnerRuns(r) ==
    \/ RegisterRefused(r) \/ Register(r) \/ ThreadReplay(r) \/ CallTurn(r)
    \/ AttachGate(r) \/ AttachPublish(r) \/ AttachReplay(r) \/ AttachComplete(r)
    \/ AttachFinish(r)
    \/ closed /\ (ThreadCallError(r) \/ FinishAttaching(r))

ReaderRuns ==
    \/ \E r \in Runs : AcceptTarget(r)
    \/ Enqueue \/ EnqueueFull \/ EnqueueClosed \/ AwaitPublication \/ ReaderComplete

CloserRuns ==
    \/ CloserCancel \/ FailAllTake \/ \E n \in Frames : FailAllResolve(n)
    \/ FailAllFinish \/ Publish \/ StopDispatch

Fairness ==
    /\ \A r \in Runs : WF_vars(RunnerRuns(r))
    /\ WF_vars(ReaderRuns)
    /\ WF_vars(DispatcherStep)
    /\ WF_vars(CloserRuns)

FairSpec == Spec /\ Fairness

-----------------------------------------------------------------------------
InHistory(r, n) == \E i \in 1..Len(history[r]) : history[r][i] = n
Last(r) == history[r][Len(history[r])]
Ordered(h) == \A i, j \in 1..Len(h) : i < j => h[i] < h[j]
SoleOwner(r) == \A s \in Runs \ {r} : answer[s] # answer[r]
Ended(r) == outcome[r] \in {"ok", "turnErr"}

(* HistoryOrder: a run's history is in ingestion order, as the comment on  *)
(* notificationOrderMu says of pending and live notifications.             *)
HistoryOrder == \A r \in Runs : Ordered(history[r])

(* TurnOrder: the same for the notifications of the turn alone.            *)
TurnOrder ==
    \A r \in Runs : \A i, j \in 1..Len(history[r]) :
        /\ i < j
        /\ log[history[r][i]].kind # "note" /\ log[history[r][j]].kind # "note"
        => history[r][i] < history[r][j]

(* OpenTurnOrder: while the client is open, replay and live delivery of a  *)
(* turn's notifications never overtake one another (both take              *)
(* notificationOrderMu: attachExactStreamForTurn and                       *)
(* acceptOrderedBeforeTerminalCompletion).                                 *)
OpenTurnOrder == ~closed => TurnOrder

(* OwnEvidence: a run's history holds only notifications of the turn that  *)
(* its turn/start response named and of its own thread.                    *)
OwnEvidence ==
    \A r \in Runs : \A n \in Frames : InHistory(r, n) =>
        log[n].id = IF log[n].kind = "note" THEN ThreadOf[r] ELSE answer[r]

(* The notifications of r's turn from the turn/start response up to the    *)
(* terminal one are in the history of r.                                   *)
HasAllEvidence(r) ==
    \A n \in 1..Len(log) :
        /\ log[n].kind \in TurnKinds /\ log[n].id = answer[r]
        /\ armedAt[r] < n /\ n <= Last(r)
        => InHistory(r, n)

(* CompleteEvidence: a run that ended with its turn missed nothing between *)
(* the response that named the turn and its terminal notification, however *)
(* the attachment raced with the reader, if no other run has the turn.     *)
CompleteEvidence == \A r \in Runs : Ended(r) /\ SoleOwner(r) => HasAllEvidence(r)

(* SteeredEvidence: the same when turn/start steers a turn that another    *)
(* run already has.                                                        *)
SteeredEvidence == \A r \in Runs : Ended(r) => HasAllEvidence(r)

(* TerminalFence: a run ends with its turn only after the callbacks of all *)
(* notifications admitted up to the terminal one have returned.            *)
TerminalFence ==
    hasHandler =>
        \A r \in Runs : Ended(r) => \A n \in entered : n <= Last(r) => n \in delivered

(* PublishedSettled: when the close cause is published every run that      *)
(* registered has its outcome and no pended notification can hold the      *)
(* dispatcher (failAll, publishCloseCause).                                *)
PublishedSettled ==
    published =>
        /\ \A n \in Frames : owner[n] # None => n \in ready
        /\ \A r \in Runs : outcome[r] = None =>
              pc[r] \in {"new", "callThread", "gotThread", "noStream"}

(* KeptEvidence: when failAll starts to finish the runs, what was pended   *)
(* or being replayed for a live run is in its history, unless a terminal   *)
(* notification froze it first.                                            *)
KeptEvidence ==
    closer = "resolve" /\ evidence = {} =>
        \A n \in Frames : owner[n] # None /\ outcome[owner[n]] = None =>
            InHistory(owner[n], n) \/ owner[n] \in admitted

(* NotSaved: a thread notification attaches only to runs active for the    *)
(* thread when it is ingested; it is never saved for a later run           *)
(* (notificationAttributionClass).                                         *)
NotSaved ==
    \A r \in Runs : \A n \in Frames :
        InHistory(r, n) /\ log[n].kind = "note" => n > resumedAt[r]

Promise == INSTANCE RunHistory

(* RunsKeepPromise: histories and outcomes behave as RunHistory says.      *)
RunsKeepPromise == Promise!Spec

(* Delivered: an admitted notification is delivered to the callback, or    *)
(* the client is closed: explicit failure.                                 *)
Delivered == \A n \in Frames : n \in entered ~> n \in delivered \/ closed

(* RunsEnd: a run whose turn completes after the response that named it    *)
(* ends, by whatever cause.                                                *)
RunsEnd ==
    \A r \in Runs : \A n \in Frames :
        (/\ n <= Len(log) /\ answer[r] # None /\ n > armedAt[r]
         /\ log[n].id = answer[r] /\ log[n].kind \in Terminals) ~> outcome[r] # None

(* CloseSettles: a closed client publishes its cause, ends every run that  *)
(* has a stream and stops its dispatcher.                                  *)
CloseSettles ==
    closed ~> /\ published /\ disp = "exited"
              /\ \A r \in Runs : outcome[r] # None \/ pc[r] \in {"new", "noStream"}

\* The history of a run is its own: what was admitted for its open turn, in order,
\* all of it, and nothing of another run.
HistoryExact == OpenTurnOrder /\ CompleteEvidence /\ OwnEvidence

\* A close in the middle of a replay or a registration settles every run it
\* publishes and loses no evidence of it.
CloseKeeps == PublishedSettled /\ KeptEvidence
=============================================================================
