----------------------------- MODULE NativeGoal -----------------------------
(***************************************************************************)
(* RunGoal: one native goal, run by a Codex child. The runner schedules    *)
(* nothing; it watches the goal and its turns through notifications, lends *)
(* the goal one tool, verify_upstream, and decides that the goal is        *)
(* complete. Three kinds of goroutines meet in one goalObservation: the    *)
(* dispatcher of notifications, a handler for each tool call, and RunGoal  *)
(* itself, which sleeps on a channel that every observation closes.        *)
(*                                                                         *)
(* The peer is orderly, as the native goal runtime is, or sends anything.  *)
(* Notifications keep their order in a queue and are observed later; a     *)
(* tool call overtakes them. Notifications that observe only passes over   *)
(* are left out: they do no more than a repeated status.                   *)
(***************************************************************************)
EXTENDS Naturals, Sequences

CONSTANTS ToolCalls,  \* calls of the tool the peer can make
          MaxTurns,   \* bound: turns of the goal
          MaxEvents,  \* bound: notifications of an orderly peer
          MaxStray,   \* bound: notifications of any other
          MaxLag      \* bound: notifications of an orderly peer not yet observed

ASSUME GoalRunAssumption ==
  /\ MaxTurns \in Nat \ {0} /\ MaxEvents \in Nat
  /\ MaxStray \in 0..MaxEvents /\ MaxLag \in Nat \ {0}
ASSUME LoopAssumption == "loop" \notin ToolCalls

VARIABLES
  \* The peer.
  orderly,  \* it keeps the order of the native runtime
  pTurn,    \* its open turn, 0 if none
  pGoal,    \* the goal's status as it last said
  events,   \* notifications it has sent
  lag,      \* those not yet observed
  \* The goalObservation.
  known,    \* threadID is set
  active,   \* activeTurn, 0 if none
  failure,
  status,
  turned,   \* completedTurn
  verifying,
  asleep,   \* the goroutines that wait on the channel `changed' of now
  \* The goroutines.
  tool,     \* the handler of each call
  toolTurn, \* the turn the call names
  goalRun,     \* RunGoal
  outcome,  \* what it is about to return
  \* The rest of the world.
  ended,    \* the context of RunGoal: cancelled, or its deadline passed
  stopped,  \* verificationCtx is cancelled
  closing,  \* callback admission is closed and the handlers' context cancelled
  broken,   \* the client has failed
  \* History.
  slow      \* some tool call waited for its turn in vain

nativePeer == <<orderly, pTurn, pGoal, events>>
obsVars == <<known, active, failure, status, turned, verifying>>
toolVars == <<tool, toolTurn>>
clientVars == <<stopped, closing, broken>>
nativeVars == <<nativePeer, lag, obsVars, asleep, toolVars, goalRun, outcome, ended,
                clientVars, slow>>

Turns == 1..MaxTurns
Statuses == {"active", "complete"}
\* "bad" stands for what observe answers with a failure at once: any other status,
\* a failed turn, a cleared goal, another thread's turn or objective.
Events == [is : {"goal"}, status : Statuses]
            \cup [is : {"started"}, turn : Turns]
            \cup [is : {"completed"}, turn : Turns]
            \cup [is : {"bad"}]

NativeTypeOK ==
  /\ orderly \in BOOLEAN /\ pTurn \in 0..MaxTurns /\ pGoal \in Statuses
  /\ events \in 0..MaxEvents /\ lag \in Seq(Events) /\ Len(lag) <= MaxLag
  /\ known \in BOOLEAN /\ active \in 0..MaxTurns
  /\ failure \in {"nil", "rejected", "undelivered", "goal"}
  /\ status \in Statuses \cup {"unset"} /\ turned \in BOOLEAN /\ verifying \in BOOLEAN
  /\ asleep \subseteq {c \in ToolCalls : tool[c] = "wait"}
                       \cup {l \in {"loop"} : goalRun = "select"}
  /\ tool \in [ToolCalls -> {"none", "bind", "wait", "verify", "leave", "done", "rejected"}]
  /\ toolTurn \in [ToolCalls -> 0..MaxTurns]
  /\ goalRun \in {"idle", "thread", "set", "loop", "select", "archive", "close", "join", "over"}
  /\ outcome \in {"none", "complete", "failed"}
  /\ ended \in BOOLEAN /\ stopped \in BOOLEAN /\ closing \in BOOLEAN /\ broken \in BOOLEAN
  /\ slow \in BOOLEAN

NativeInit ==
  /\ orderly = TRUE /\ pTurn = 0 /\ pGoal = "active" /\ events = 0 /\ lag = <<>>
  /\ known = FALSE /\ active = 0 /\ failure = "nil" /\ status = "unset" /\ turned = FALSE
  /\ verifying = FALSE /\ asleep = {}
  /\ tool = [c \in ToolCalls |-> "none"] /\ toolTurn = [c \in ToolCalls |-> 0]
  /\ goalRun = "idle" /\ outcome = "none"
  /\ ended = FALSE /\ stopped = FALSE /\ closing = FALSE /\ broken = FALSE
  /\ slow = FALSE

\* signal: closes `changed', so nobody sleeps on the channel of now.
signal == asleep' = {}

\* The first failure stays.
Fails(why) == failure' = IF failure = "nil" THEN why ELSE failure

Connected == goalRun \notin {"idle", "over"} /\ ~broken
Unanswered(c) == tool[c] \notin {"none", "done", "rejected"}

-----------------------------------------------------------------------------
(* The peer: external.                                                     *)

\* What the native runtime may say: a turn starts while the goal is active and
\* no other is open, ends when its calls are answered, and the goal completes
\* within a turn.
InOrder(e) ==
  CASE e.is = "started" -> pTurn = 0 /\ pGoal = "active" /\ goalRun # "set"
    [] e.is = "completed" -> e.turn = pTurn /\ \A c \in ToolCalls : ~Unanswered(c)
    [] e.is = "goal" -> pTurn # 0 /\ pGoal = "active" /\ e.status = "complete"
    [] e.is = "bad" -> FALSE

\* A peer that keeps no order is silent once observe has failed, since whatever
\* it would send is passed over.
PeerNotifies(e) ==
  /\ Connected /\ ~closing
  /\ \/ /\ orderly /\ known /\ InOrder(e)
        /\ events < MaxEvents /\ Len(lag) < MaxLag
        /\ pTurn' = CASE e.is = "started" -> e.turn
                      [] e.is = "completed" -> 0
                      [] OTHER -> pTurn
        /\ pGoal' = IF e.is = "goal" THEN e.status ELSE pGoal
     \/ /\ ~orderly /\ failure = "nil"
        /\ events < MaxStray /\ lag = <<>>
        /\ UNCHANGED <<pTurn, pGoal>>
  /\ events' = events + 1
  /\ lag' = Append(lag, e)
  /\ UNCHANGED <<orderly, obsVars, asleep, toolVars, goalRun, outcome, ended, clientVars, slow>>

\* item/tool/call; a call for anything but the tool names turn 0 here.
PeerCalls(c, t) ==
  /\ Connected /\ ~closing
  /\ tool[c] = "none"
  /\ orderly => /\ known /\ t = pTurn /\ pTurn # 0
                /\ \A d \in ToolCalls : ~Unanswered(d)
  /\ tool' = [tool EXCEPT ![c] = "bind"]
  /\ toolTurn' = [toolTurn EXCEPT ![c] = t]
  /\ UNCHANGED <<nativePeer, lag, obsVars, asleep, goalRun, outcome, ended, clientVars, slow>>

\* The child exits, or the transport breaks: the client fails and closes.
ClientFails ==
  /\ Connected
  /\ broken' = TRUE /\ closing' = TRUE
  /\ UNCHANGED <<nativePeer, lag, obsVars, asleep, toolVars, goalRun, outcome, ended, stopped,
                 slow>>

Cancel ==
  /\ goalRun # "idle" /\ ~ended
  /\ ended' = TRUE
  /\ UNCHANGED <<nativePeer, lag, obsVars, asleep, toolVars, goalRun, outcome, clientVars, slow>>

-----------------------------------------------------------------------------
(* observe, called by the dispatcher.                                      *)

Noted(e) ==
  CASE e.is = "goal" ->
         /\ status' = IF known THEN e.status ELSE status
         /\ UNCHANGED <<failure, active, turned>>
    [] e.is = "started" ->
         /\ IF known /\ active = 0 /\ status # "complete"
              THEN active' = e.turn /\ UNCHANGED failure
              ELSE failure' = "goal" /\ UNCHANGED active
         /\ UNCHANGED <<status, turned>>
    [] e.is = "completed" ->
         /\ IF known /\ e.turn = active
              THEN active' = 0 /\ turned' = TRUE /\ UNCHANGED failure
              ELSE failure' = "goal" /\ UNCHANGED <<active, turned>>
         /\ UNCHANGED status
    [] e.is = "bad" -> failure' = "goal" /\ UNCHANGED <<active, status, turned>>

observe ==
  /\ lag # <<>>
  /\ lag' = Tail(lag)
  /\ IF failure = "nil" THEN Noted(Head(lag)) ELSE UNCHANGED <<failure, active, status, turned>>
  /\ signal
  /\ UNCHANGED <<nativePeer, known, verifying, toolVars, goalRun, outcome, ended, clientVars, slow>>

\* What is queued when the client closes may also be discarded.
Discarded ==
  /\ closing
  /\ lag # <<>>
  /\ lag' = <<>>
  /\ UNCHANGED <<nativePeer, obsVars, asleep, toolVars, goalRun, outcome, ended, clientVars, slow>>

-----------------------------------------------------------------------------
(* verifier, a goroutine for each call.                                    *)

\* callCtx
CallEnded == ended \/ stopped \/ closing

\* The turn a call names matters until it is bound.
Goes(c, to) ==
  /\ tool' = [tool EXCEPT ![c] = to]
  /\ toolTurn' = IF to \in {"bind", "wait"} THEN toolTurn
                                           ELSE [toolTurn EXCEPT ![c] = 0]

reject(c) ==
  /\ Goes(c, "rejected")
  /\ Fails("rejected")
  /\ signal

\* One round of the loop that waits for the turn, a critical section: a call is
\* refused when it is not for the tool, when it comes too late or while another
\* one is busy, and waits until its turn is the active one.
BindRound(c, busy, patient) ==
  LET mine == active = toolTurn[c]
      refused == \/ toolTurn[c] = 0 \/ CallEnded \/ ~known \/ failure # "nil" \/ busy
                 \/ ~mine /\ ~patient
  IN /\ tool[c] = "bind"
     /\ \/ /\ refused
           /\ reject(c)
           /\ UNCHANGED verifying
        \/ /\ ~refused /\ mine
           /\ Goes(c, "verify")
           /\ verifying' = TRUE
           /\ signal
           /\ UNCHANGED failure
        \/ /\ ~refused /\ ~mine
           /\ Goes(c, "wait")
           /\ asleep' = asleep \cup {c}
           /\ UNCHANGED <<failure, verifying>>
     /\ UNCHANGED <<nativePeer, lag, known, active, status, turned, goalRun, outcome, ended,
                    clientVars, slow>>

\* Mutants: the call does not wait for its turn; it may run beside another.
BindAtOnce(c) == BindRound(c, verifying, FALSE)
BindBeside(c) == BindRound(c, FALSE, TRUE)

Bind(c) == BindRound(c, verifying, TRUE)

Wake(c) ==
  /\ tool[c] = "wait" /\ c \notin asleep
  /\ Goes(c, "bind")
  /\ UNCHANGED <<nativePeer, lag, obsVars, asleep, goalRun, outcome, ended, clientVars,
                 slow>>

\* Mutant: giving up is not announced.
BindEndsSilently(c) ==
  /\ tool[c] = "wait"
  /\ Goes(c, "rejected")
  /\ Fails("rejected")
  /\ slow' = (slow \/ (orderly /\ ~CallEnded))
  /\ UNCHANGED <<nativePeer, lag, known, active, status, turned, verifying, asleep, goalRun,
                 outcome, ended, clientVars>>

\* bindCtx: five seconds, or callCtx.
BindEnds(c) ==
  /\ tool[c] = "wait"
  /\ reject(c)
  /\ slow' = (slow \/ (orderly /\ ~CallEnded))
  /\ UNCHANGED <<nativePeer, lag, known, active, status, turned, verifying, goalRun,
                 outcome, ended, clientVars>>

\* verify returns, panics, or is cut short; no usable path is a failure.
Verified(c, path) ==
  /\ tool[c] = "verify"
  /\ Goes(c, "leave")
  /\ IF path /\ ~CallEnded THEN UNCHANGED <<failure, asleep>>
                           ELSE Fails("undelivered") /\ signal
  /\ UNCHANGED <<nativePeer, lag, known, active, status, turned, verifying, goalRun,
                 outcome, ended, clientVars, slow>>

\* Mutant: the end of a verification is not announced.
LeaveSilently(c) ==
  /\ tool[c] = "leave"
  /\ Goes(c, "done")
  /\ verifying' = FALSE
  /\ UNCHANGED <<nativePeer, lag, known, active, failure, status, turned, asleep,
                 goalRun, outcome, ended, clientVars, slow>>

\* The deferred reset, before the answer is written.
Leave(c) ==
  /\ tool[c] = "leave"
  /\ Goes(c, "done")
  /\ verifying' = FALSE
  /\ signal
  /\ UNCHANGED <<nativePeer, lag, known, active, failure, status, turned, goalRun,
                 outcome, ended, clientVars, slow>>

-----------------------------------------------------------------------------
(* RunGoal.                                                                *)

Ready == status = "complete" /\ active = 0 /\ turned /\ ~verifying

\* The function returns r; its deferred cleanup begins by stopping verification.
Returns(r) ==
  /\ goalRun' = "archive"
  /\ outcome' = r
  /\ stopped' = TRUE

\* NewContext; what kind of peer answers is not known to RunGoal.
Connect ==
  /\ goalRun = "idle"
  /\ \/ goalRun' = "thread" /\ orderly' \in BOOLEAN /\ UNCHANGED outcome
     \/ goalRun' = "over" /\ outcome' = "failed" /\ UNCHANGED orderly
  /\ UNCHANGED <<pTurn, pGoal, events, lag, obsVars, asleep, toolVars, ended, clientVars, slow>>

\* thread/start, then the admission of what it says.
StartThread ==
  /\ goalRun = "thread"
  /\ \/ /\ ~broken /\ ~ended
        /\ goalRun' = "set" /\ known' = TRUE
        /\ UNCHANGED <<outcome, stopped>>
     \/ Returns("failed") /\ UNCHANGED known
  /\ UNCHANGED <<nativePeer, lag, active, failure, status, turned, verifying, asleep, toolVars,
                 ended, closing, broken, slow>>

GoalSet ==
  /\ goalRun = "set"
  /\ \/ ~broken /\ ~ended /\ goalRun' = "loop" /\ UNCHANGED <<outcome, stopped>>
     \/ Returns("failed")
  /\ UNCHANGED <<nativePeer, lag, obsVars, asleep, toolVars, ended, closing, broken, slow>>

\* One round: look at the observation and take its channel in one critical section.
Look ==
  /\ goalRun = "loop"
  /\ \/ /\ ended \/ failure # "nil"
        /\ Returns("failed")
        /\ UNCHANGED asleep
     \/ /\ ~ended /\ failure = "nil" /\ Ready
        /\ Returns("complete")
        /\ UNCHANGED asleep
     \/ /\ ~ended /\ failure = "nil" /\ ~Ready
        /\ goalRun' = "select"
        /\ asleep' = asleep \cup {"loop"}
        /\ UNCHANGED <<outcome, stopped>>
  /\ UNCHANGED <<nativePeer, lag, obsVars, toolVars, ended, closing, broken, slow>>

Changed ==
  /\ goalRun = "select" /\ "loop" \notin asleep
  /\ goalRun' = "loop"
  /\ UNCHANGED <<nativePeer, lag, obsVars, asleep, toolVars, outcome, ended, clientVars, slow>>

Done ==
  /\ goalRun = "select" /\ ended
  /\ Returns("failed")
  /\ asleep' = asleep \ {"loop"}
  /\ UNCHANGED <<nativePeer, lag, obsVars, toolVars, ended, closing, broken, slow>>

\* The ticker: thread/goal/get, bounded by a timeout, whose answer is compared.
Probe ==
  /\ goalRun = "select"
  /\ asleep' = asleep \ {"loop"}
  /\ \/ ~broken /\ goalRun' = "loop" /\ UNCHANGED <<outcome, stopped>>
     \/ Returns("failed")
  /\ UNCHANGED <<nativePeer, lag, obsVars, toolVars, ended, closing, broken, slow>>

\* Threads().Archive, when there is a thread.
ArchiveThread ==
  /\ goalRun = "archive"
  /\ goalRun' = "close"
  /\ \/ (known => ~broken) /\ UNCHANGED outcome
     \/ known /\ outcome' = "failed"
  /\ UNCHANGED <<nativePeer, lag, obsVars, asleep, toolVars, ended, clientVars, slow>>

CloseClientContext ==
  /\ goalRun = "close"
  /\ goalRun' = "join"
  /\ closing' = TRUE
  /\ UNCHANGED <<nativePeer, lag, obsVars, asleep, toolVars, outcome, ended, stopped, broken,
                 slow>>

\* Mutant: what was observed while the client closed is not looked at.
JoinedAsDecided ==
  /\ goalRun = "join"
  /\ lag = <<>> /\ \A c \in ToolCalls : ~Unanswered(c)
  /\ goalRun' = "over"
  /\ outcome' = IF ended \/ broken THEN "failed" ELSE outcome
  /\ UNCHANGED <<nativePeer, lag, obsVars, asleep, toolVars, ended, clientVars, slow>>

\* CloseContext joined every callback, and the observation is read again.
Joined ==
  /\ goalRun = "join"
  /\ lag = <<>> /\ \A c \in ToolCalls : ~Unanswered(c)
  /\ goalRun' = "over"
  /\ outcome' = IF failure # "nil" \/ ~Ready \/ ended \/ broken THEN "failed" ELSE outcome
  /\ UNCHANGED <<nativePeer, lag, obsVars, asleep, toolVars, ended, clientVars, slow>>

\* It returned because of its bound, or with callbacks still at work.
JoinTimesOut ==
  /\ goalRun = "join"
  /\ goalRun' = "over"
  /\ outcome' = "failed"
  /\ UNCHANGED <<nativePeer, lag, obsVars, asleep, toolVars, ended, clientVars, slow>>

-----------------------------------------------------------------------------
Loop == StartThread \/ GoalSet \/ Look \/ Changed \/ Done \/ Probe \/ ArchiveThread
          \/ CloseClientContext \/ Joined \/ JoinTimesOut

Handler(c) == Bind(c) \/ Wake(c) \/ BindEnds(c) \/ Leave(c) \/ \E p \in BOOLEAN : Verified(c, p)

NativeNext ==
  \/ \E e \in Events : PeerNotifies(e)
  \/ \E c \in ToolCalls, t \in 0..MaxTurns : PeerCalls(c, t)
  \/ ClientFails \/ Cancel \/ observe \/ Discarded \/ Connect \/ Loop
  \/ \E c \in ToolCalls : Handler(c)

NativeSpec == NativeInit /\ [][NativeNext]_nativeVars

-----------------------------------------------------------------------------
(* What RunGoal promises.                                                  *)

\* Verifications never overlap, whatever the peer sends: the tool publishes, and
\* its state (binding, base, result) belongs to one call at a time.
OneVerification ==
  \A c, d \in ToolCalls :
    tool[c] \in {"verify", "leave"} /\ tool[d] \in {"verify", "leave"} => c = d

\* "complete" is returned only for a goal that is complete and quiet for good: no
\* failure was observed up to the end of the client, no handler is at work, and
\* every call that reached a handler was verified and its result delivered.
CompleteIsQuiet ==
  goalRun = "over" /\ outcome = "complete" =>
    /\ failure = "nil" /\ Ready
    /\ \A c \in ToolCalls : tool[c] \in {"none", "done"}

\* A peer that keeps the native order is never refused: a call that overtakes
\* the notification of its turn waits for it, and one that follows the answer to
\* the call before it finds that call over.
NoFalseReject ==
  orderly /\ ~slow /\ ~ended /\ ~broken /\ outcome # "failed" => failure # "rejected"

\* Nobody sleeps on something that has happened already: RunGoal on a failure or
\* on a complete goal, a handler on its turn.
NoMissedSignal ==
  /\ "loop" \in asleep => failure = "nil" /\ ~Ready
  /\ \A c \in ToolCalls \cap asleep : failure = "nil" /\ active # toolTurn[c]

\* Tool calls are verified one at a time, none is refused for having been early, no
\* change is slept through, and a goal that is complete is at rest.
NativeSound == NativeTypeOK /\ OneVerification /\ CompleteIsQuiet /\ NoFalseReject /\ NoMissedSignal
=============================================================================
