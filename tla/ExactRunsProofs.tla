--------------------------- MODULE ExactRunsProofs ---------------------------
(***************************************************************************)
(* Proofs about ExactRuns, for any runs, threads, turns, number of         *)
(* notifications and capacity of the queue, with and without a handler,    *)
(* steering, failing server requests and closes.                           *)
(*                                                                         *)
(* The properties of ExactRuns speak of the end: of a history, of a close  *)
(* that is published.  The books below say where everything is before:     *)
(* which runs are in which table (RunBook), whose a pended notification    *)
(* is and where it waits (OwnerBook, CloseBook, ReadyBook), that it is in  *)
(* nobody's history yet (FreshBook), what a terminal notification has      *)
(* frozen (AdmitBook), what is in front of what (OrderBook, QueueBook) and *)
(* what is still to come for a run (GatherBook).                           *)
(***************************************************************************)
EXTENDS ExactRuns, SequenceTheorems, TLAPS

Ingested == 1..Len(log)
Live(r) == outcome[r] = None
Owned(n) == owner[n] # None
Attaching == {"threadReplay", "callTurn", "gotTurn", "gated"}
Replaying == {"replay", "replayComplete"}
Early == {"new", "callThread", "gotThread", "noStream"}

(* Every notification at hand is one of the log; the reader has the last.  *)
LogBook ==
    /\ frame = Len(log)
    /\ reader \in {"accept", "complete"} => frame >= 1
    /\ reader = "accept" => frame \notin entered
    /\ targets # {} => reader = "accept"
    /\ entered \subseteq Ingested /\ ready \subseteq Ingested /\ current <= Len(log)
    /\ pendingThread \subseteq Ingested /\ pendingEvents \subseteq Ingested
    /\ \A r \in Runs : local[r] \subseteq Ingested /\ replaying[r] \subseteq Ingested
    /\ \A r \in Runs : \A i \in 1..Len(history[r]) : history[r][i] \in Ingested

(* The turn of a run, and the table that holds it while it has no outcome. *)
RunBook ==
    /\ \A r \in Runs :
          /\ pc[r] \in Replaying \cup {"gated"} => turnID[r] = answer[r]
          /\ turnID[r] \in {None, answer[r]}
          /\ pc[r] \in Replaying \cup {"gotTurn", "gated"} => answer[r] \in Turns
          /\ pc[r] \in Early \cup {"threadReplay", "callTurn"} => answer[r] = None
          /\ pc[r] \in Early \cup {"threadReplay", "callTurn", "gotTurn"} => turnID[r] = None
          /\ r \in attaching <=> Live(r) /\ pc[r] \in Attaching
          /\ r \in streams <=> Live(r) /\ pc[r] \in Replaying \cup {"attached"}
          /\ r \in streams => answer[r] \in Turns /\ turnID[r] = answer[r]
    /\ \A r, s \in attaching : ThreadOf[r] = ThreadOf[s] => r = s
    /\ \A r, s \in Runs : answer[r] # None /\ answer[r] = answer[s] => ThreadOf[r] = ThreadOf[s]

(* A run that has not registered is nobody's business.                     *)
EarlyBook ==
    \A r \in Runs : pc[r] \in Early =>
        Live(r) /\ r \notin admitted /\ r \notin snapshot /\ r \notin targets

(* What a runner replays: the notes of its thread, then its turn.          *)
NoteBook ==
    /\ \A n \in pendingThread : log[n].kind = "note"
    /\ \A r \in Runs : pc[r] = "threadReplay" => \A n \in local[r] : log[n].kind = "note"
    /\ \A r \in Runs : pc[r] # "threadReplay" => local[r] \subseteq replaying[r]
    /\ \A r \in Runs : replaying[r] # {} => pc[r] \in Replaying

(* Whose a notification is that waits for a run.                           *)
OwnerBook ==
    /\ \A n \in Frames : Owned(n) =>
          n \in Ingested /\ log[n].kind # "note" /\ log[n].id = answer[owner[n]]
    /\ \A n \in pendingEvents : Owned(n) /\ (Live(owner[n]) => owner[n] \in attaching)
    /\ \A r \in Runs : \A n \in replaying[r] :
          Owned(n) /\ log[n].id = answer[r] /\ (Live(owner[n]) => owner[n] = r)

(* Whom the reader has still to give its notification.                     *)
TargetBook ==
    \A r \in targets :
        IF log[frame].kind = "note" THEN log[frame].id = ThreadOf[r]
        ELSE turnID[r] = log[frame].id

(* Which run waits for the notifications of a turn.                        *)
ArmBook ==
    \A t \in Turns : armedTurn[t] # None =>
        /\ answer[armedTurn[t]] = t
        /\ Live(armedTurn[t]) => armedTurn[t] \in attaching

(* How far the close is, and what is left of a pended notification.        *)
CloseBook ==
    /\ closer = "none" <=> ~closed
    /\ ctxDone => closed
    /\ stopped => closer = "end"
    /\ \A n \in evidence : Owned(n)
    /\ closer = "resolve" => attaching \cup streams \subseteq snapshot
    /\ closer \in {"publish", "stop", "end"} => attaching = {} /\ streams = {}
    /\ \A n \in Frames : Owned(n) /\ n \notin ready =>
          \/ /\ closer \in {"none", "cancel", "take"}
             /\ n \in pendingEvents \/ \E r \in Runs : n \in local[r]
          \/ closer = "resolve" /\ n \in evidence

(* What became of a pended notification once it is resolved; before, it is *)
(* in no history.                                                          *)
ReadyBook ==
    \A n \in Frames : Owned(n) =>
        /\ n \in ready /\ Live(owner[n]) => InHistory(owner[n], n) \/ owner[n] \in admitted
        /\ n \notin ready => \A r \in Runs : ~InHistory(r, n)
        /\ n = frame => targets = {}

(* A notification is not in the history that it is about to join.          *)
FreshBook ==
    /\ \A r \in targets : ~InHistory(r, frame)
    /\ \A n \in pendingThread :
          /\ n = frame => targets = {}
          /\ \A r \in Runs : ~InHistory(r, n) /\ n \notin local[r]
    /\ \A r \in Runs : pc[r] = "threadReplay" =>
          \A n \in local[r] : ~InHistory(r, n) /\ (n = frame => targets = {})

(* A terminal notification is the last of its history.                     *)
AdmitBook ==
    /\ \A r \in admitted : history[r] # <<>> /\ log[Last(r)].kind \in Terminals
    /\ \A r \in Runs : \A i \in 1..Len(history[r]) :
          log[history[r][i]].kind \in Terminals => r \in admitted
    /\ \A n \in Frames : \A r \in completion[n] : r \in admitted /\ Last(r) = n
    /\ \A r \in Runs : Ended(r) => r \in admitted

(* While the client is open, a turn is replayed before it is followed.     *)
OrderBook ==
    ~closed =>
        /\ TurnOrder
        /\ \A r \in Runs : \A i \in 1..Len(history[r]) : log[history[r][i]].kind # "note" =>
              /\ pc[r] \in Replaying \cup {"attached"}
              /\ \A n \in local[r] : history[r][i] < n

(* The queue, in front of it what the dispatcher has, behind it the log.   *)
QueueBook ==
    /\ \A i \in 1..Len(queue) : queue[i] \in entered /\ current < queue[i]
    /\ \A i, j \in 1..Len(queue) : i < j => queue[i] < queue[j]
    /\ current = 0 \/ current \in entered
    /\ disp \in {"evidence", "callback", "drainCallback"} => current \in entered
    /\ disp = "evidence" => Owned(current)
    /\ ~closed =>
          /\ disp \in {"idle", "evidence", "callback"}
          /\ \A n \in entered :
                \/ n \in delivered
                \/ \E i \in 1..Len(queue) : queue[i] = n
                \/ n = current /\ disp \in {"evidence", "callback"}

(* With callbacks, only the dispatcher ends a run with its turn.           *)
FenceBook ==
    hasHandler =>
        /\ reader # "complete"
        /\ \A r \in Runs : pc[r] # "replayComplete"
        /\ \A r \in Runs : Ended(r) => Last(r) \in entered
        /\ TerminalFence

(* Where a notification of r's turn is between its ingestion and the       *)
(* history of r.                                                           *)
OnItsWay(r, n) ==
    \/ n \in pendingEvents /\ pc[r] \in {"gotTurn", "gated"}
    \/ n \in local[r] /\ pc[r] \in Replaying
    \/ n = frame /\ r \in targets

(* What is gathered for a run that has its turn for itself: the turn is    *)
(* armed for it, what it has not got is on its way, and when the terminal  *)
(* notification is admitted it has everything.                             *)
Gathers(r) ==
    answer[r] # None /\ SoleOwner(r) =>
        /\ ~closed /\ Live(r) /\ pc[r] \in {"gotTurn", "gated"} => armedTurn[answer[r]] = r
        /\ ~closed /\ Live(r) /\ r \notin admitted =>
              \A n \in Ingested :
                  /\ log[n].kind \in TurnKinds /\ log[n].id = answer[r] /\ armedAt[r] < n
                  => InHistory(r, n) \/ OnItsWay(r, n)
        /\ r \in admitted /\ (Ended(r) \/ (Live(r) /\ ~closed)) => HasAllEvidence(r)

GatherBook == \A r \in Runs : Gathers(r)

RunIInv ==
    /\ TypeOK /\ LogBook /\ RunBook /\ EarlyBook /\ NoteBook /\ OwnerBook /\ TargetBook
    /\ ArmBook /\ CloseBook /\ ReadyBook /\ FreshBook /\ AdmitBook /\ OwnEvidence
    /\ OrderBook /\ QueueBook /\ FenceBook /\ GatherBook

-----------------------------------------------------------------------------
(* What the operators of ExactRuns do to one run, wherever they are used.  *)

(* A kept notification is the new last one of its history.                 *)
LEMMA AcceptEffect ==
  ASSUME TypeOK, NEW r \in Runs, NEW n \in Frames, AcceptInto(r, n)
  PROVE  /\ history' \in [Runs -> Seq(Frames)] /\ admitted' \subseteq Runs
         /\ \A s \in Runs : s # r => history'[s] = history[s] /\ (s \in admitted' <=> s \in admitted)
         /\ ~Accepts(r, n) => history' = history /\ admitted' = admitted
         /\ Accepts(r, n) =>
              /\ Len(history[r]) \in Nat /\ Len(history'[r]) = Len(history[r]) + 1
              /\ \A i \in 1..Len(history[r]) : history'[r][i] = history[r][i]
              /\ history'[r][Len(history[r]) + 1] = n
              /\ r \notin admitted /\ outcome[r] = None
              /\ r \in admitted' <=> log[n].kind \in Terminals
<1> USE DEF TypeOK, AcceptInto
<1>1. CASE ~Accepts(r, n)
      BY <1>1
<1>2. CASE Accepts(r, n)
  <2>1. history' = [history EXCEPT ![r] = Append(history[r], n)]
        BY <1>2
  <2>2. history[r] \in Seq(Frames) /\ Append(history[r], n) \in Seq(Frames)
        OBVIOUS
  <2>3. history' \in [Runs -> Seq(Frames)]
        BY ONLY <2>1, <2>2, history \in [Runs -> Seq(Frames)]
  <2>4. r \notin admitted /\ outcome[r] = None
        BY <1>2 DEF Accepts
  <2> QED BY <1>2, <2>1, <2>2, <2>3, <2>4
<1> QED BY <1>1, <1>2

(* A run without outcome gets one, the close cause first; then it is in no *)
(* table.                                                                  *)
LEMMA FinishEffect ==
  ASSUME TypeOK, NEW S \in SUBSET Runs, NEW err, Finish(S, err)
  PROVE  /\ \A r \in Runs : outcome'[r] = IF r \in S /\ outcome[r] = None
                                          THEN IF closed THEN closeReason ELSE err[r]
                                          ELSE outcome[r]
         /\ \A r \in Runs : r \in attaching' <=> r \in attaching /\ ~(r \in S /\ outcome[r] = None)
         /\ \A r \in Runs : r \in streams' <=> r \in streams /\ ~(r \in S /\ outcome[r] = None)
         /\ attaching' \subseteq attaching /\ streams' \subseteq streams
BY DEF TypeOK, Finish

(* Where a history has grown, it holds one notification more.              *)
LEMMA AcceptHolds ==
  ASSUME TypeOK, NEW r \in Runs, NEW n \in Frames, AcceptInto(r, n)
  PROVE  \A s \in Runs : \A m \in Frames :
            InHistory(s, m)' <=> InHistory(s, m) \/ (s = r /\ m = n /\ Accepts(r, n))
<1>1. CASE ~Accepts(r, n)
      BY <1>1, AcceptEffect DEF InHistory
<1>2. CASE Accepts(r, n)
  <2> SUFFICES ASSUME NEW s \in Runs, NEW m \in Frames
               PROVE  InHistory(s, m)' <=> InHistory(s, m) \/ (s = r /\ m = n)
      BY <1>2
  <2>1. CASE s # r
        BY <2>1, AcceptEffect DEF InHistory
  <2>2. CASE s = r
    <3>1. /\ Len(history[r]) \in Nat /\ Len(history'[r]) = Len(history[r]) + 1
          /\ \A i \in 1..Len(history[r]) : history'[r][i] = history[r][i]
          /\ history'[r][Len(history[r]) + 1] = n
          BY <1>2, AcceptEffect
    <3>2. \A i \in 1..(Len(history[r]) + 1) : i \in 1..Len(history[r]) \/ i = Len(history[r]) + 1
          BY <3>1
    <3>3. 1..Len(history[r]) \subseteq 1..(Len(history[r]) + 1)
          /\ Len(history[r]) + 1 \in 1..(Len(history[r]) + 1)
          BY <3>1
    <3> QED BY ONLY <2>2, <3>1, <3>2, <3>3 DEF InHistory
  <2> QED BY <2>1, <2>2
<1> QED BY <1>1, <1>2

-----------------------------------------------------------------------------
(* Every step keeps the types.                                            *)
LEMMA TypeStep == RunIInv /\ [Next]_vars => TypeOK'
<1> SUFFICES ASSUME RunIInv, [Next]_vars PROVE TypeOK'
    OBVIOUS
<1>0. TypeOK
      BY DEF RunIInv
<1> USE <1>0, ConstantsAssumption
    DEF TypeOK, Frames, closed, runVars, stateVars, tableVars, pendVars, evidVars,
        readerVars, dispVars, closeVars
<1>1. ASSUME NEW r \in Runs, CallThread(r) PROVE TypeOK'
      BY <1>1, SMTT(30) DEF CallThread, RunnerKeeps
<1>2. ASSUME NEW r \in Runs, ThreadResponse(r) PROVE TypeOK'
      BY <1>2, SMTT(30) DEF ThreadResponse, RunnerKeeps
<1>3. ASSUME NEW r \in Runs, ThreadCallError(r) PROVE TypeOK'
      BY <1>3, SMTT(30) DEF ThreadCallError, RunnerKeeps
<1>4. ASSUME NEW r \in Runs, RegisterRefused(r) PROVE TypeOK'
      BY <1>4, SMTT(30) DEF RegisterRefused, RunnerKeeps, Finish
<1>5. ASSUME NEW r \in Runs, Register(r) PROVE TypeOK'
  <2>1. NotesOf(r) \subseteq Frames  BY DEF NotesOf
  <2>2. /\ attaching' \subseteq Runs /\ armedThread' \subseteq Threads /\ pendingThread' \subseteq Frames
        BY <1>5 DEF Register
  <2>3. pc' = [pc EXCEPT ![r] = "threadReplay"] /\ local' = [local EXCEPT ![r] = NotesOf(r)]
        BY <1>5 DEF Register
  <2>4. pc' \in [Runs -> {"new", "callThread", "gotThread", "threadReplay", "callTurn",
                        "gotTurn", "gated", "replay", "replayComplete", "attached", "noStream"}]
        BY <2>3
  <2>5. local' \in [Runs -> SUBSET Frames]
        BY <2>1, <2>3
  <2>6. UNCHANGED <<log, hasHandler, turnID, answer, armedAt, resumedAt, stateVars, streams, armedTurn,
                    pendingEvents, replaying, evidVars, readerVars, dispVars, closeVars>>
        BY <1>5 DEF Register, RunnerKeeps
  <2> QED BY ONLY <1>0, <2>2, <2>4, <2>5, <2>6, SMTT(30)
      DEF TypeOK, stateVars, evidVars, readerVars, dispVars, closeVars
<1>6. ASSUME NEW r \in Runs, ThreadReplay(r) PROVE TypeOK'
  <2>1. PICK n \in Frames : AcceptInto(r, n) /\ local' = [local EXCEPT ![r] = @ \ {n}]
        BY <1>6 DEF ThreadReplay
  <2>2. history' \in [Runs -> Seq(Frames)] /\ admitted' \subseteq Runs
        BY <2>1, AcceptEffect
  <2>3. local' \in [Runs -> SUBSET Frames]
        BY <2>1
  <2>4. UNCHANGED <<log, hasHandler, runVars, outcome, tableVars, pendingThread, pendingEvents,
                    replaying, evidVars, readerVars, dispVars, closeVars>>
        BY <1>6 DEF ThreadReplay, RunnerKeeps
  <2> QED BY <2>2, <2>3, <2>4, SMTT(30)
<1>7. ASSUME NEW r \in Runs, CallTurn(r) PROVE TypeOK'
      BY <1>7, SMTT(30) DEF CallTurn, RunnerKeeps
<1>8. ASSUME NEW r \in Runs, FinishAttaching(r) PROVE TypeOK'
  <2>1. attaching' \subseteq Runs /\ streams' \subseteq Runs
        BY <1>8 DEF FinishAttaching, Finish
  <2>2. outcome' \in [Runs -> {None, "ok", "turnErr", "startErr", "busy", "streamClosed",
                              "requestErr", "failure", "closed"}]
        BY <1>8 DEF FinishAttaching, Finish
  <2>3. pc' \in [Runs -> {"new", "callThread", "gotThread", "threadReplay", "callTurn",
                        "gotTurn", "gated", "replay", "replayComplete", "attached", "noStream"}]
        BY <1>8 DEF FinishAttaching
  <2>4. UNCHANGED <<log, hasHandler, turnID, answer, armedAt, resumedAt, history, admitted, armedThread,
                    armedTurn, pendVars, evidVars, readerVars, dispVars, closeVars>>
        BY <1>8 DEF FinishAttaching, RunnerKeeps
  <2> QED BY <2>1, <2>2, <2>3, <2>4, SMTT(30)
<1>9. ASSUME NEW r \in Runs, NEW t \in Turns, TurnResponse(r, t) PROVE TypeOK'
      BY <1>9, SMTT(30) DEF TurnResponse, RunnerKeeps
<1>10. ASSUME NEW r \in Runs, AttachGate(r) PROVE TypeOK'
      BY <1>10, SMTT(30) DEF AttachGate, RunnerKeeps
<1>11. ASSUME NEW r \in Runs, AttachPublish(r) PROVE TypeOK'
  <2>1. EventsOf(turnID[r]) \subseteq Frames  BY DEF EventsOf
  <2>0. armedTurn' \in [Turns -> Runs \cup {None}]
        BY <1>11 DEF AttachPublish
  <2>2. \/ pc' = [pc EXCEPT ![r] = "attached"] /\ UNCHANGED <<streams, pendingEvents, replaying, local>>
        \/ /\ pc' = [pc EXCEPT ![r] = "replay"] /\ streams' = streams \cup {r}
           /\ pendingEvents' = pendingEvents \ EventsOf(turnID[r])
           /\ replaying' = [replaying EXCEPT ![r] = EventsOf(turnID[r])]
           /\ local' = [local EXCEPT ![r] = EventsOf(turnID[r])]
        BY ONLY <1>11 DEF AttachPublish
  <2>3. pc' \in [Runs -> {"new", "callThread", "gotThread", "threadReplay", "callTurn",
                        "gotTurn", "gated", "replay", "replayComplete", "attached", "noStream"}]
        BY <2>2
  <2>4. streams' \subseteq Runs /\ pendingEvents' \subseteq Frames
        BY <2>2
  <2>5. replaying' \in [Runs -> SUBSET Frames]
        BY ONLY <2>1, <2>2, replaying \in [Runs -> SUBSET Frames]
  <2>6. local' \in [Runs -> SUBSET Frames]
        BY ONLY <2>1, <2>2, local \in [Runs -> SUBSET Frames]
  <2> QED BY <1>11, <2>0, <2>3, <2>4, <2>5, <2>6, SMTT(30) DEF AttachPublish, RunnerKeeps
<1>12. ASSUME NEW r \in Runs, AttachReplay(r) PROVE TypeOK'
  <2>1. PICK n \in Frames :
               /\ local' = [local EXCEPT ![r] = @ \ {n}]
               /\ Resolve(r, n)
               /\ pc' = [pc EXCEPT ![r] = IF hasHandler \/ completion'[n] = {} THEN @
                                          ELSE "replayComplete"]
        BY <1>12 DEF AttachReplay
  <2>2. history' \in [Runs -> Seq(Frames)] /\ admitted' \subseteq Runs
        BY <2>1, AcceptEffect DEF Resolve
  <2>3. completion' \in [Frames -> SUBSET Runs] /\ ready' \subseteq Frames
        BY <2>1 DEF Resolve
  <2>4. pc' \in [Runs -> {"new", "callThread", "gotThread", "threadReplay", "callTurn",
                        "gotTurn", "gated", "replay", "replayComplete", "attached", "noStream"}]
        BY <2>1
  <2>5. local' \in [Runs -> SUBSET Frames]
        BY <2>1
  <2>6. UNCHANGED <<log, hasHandler, turnID, answer, armedAt, resumedAt, outcome, tableVars,
                    pendingThread, pendingEvents, replaying, owner, readerVars, dispVars, closeVars>>
        BY <1>12 DEF AttachReplay, RunnerKeeps
  <2> QED BY <2>2, <2>3, <2>4, <2>5, <2>6, SMTT(30)
<1>13. ASSUME NEW r \in Runs, AttachComplete(r) PROVE TypeOK'
      BY <1>13, SMTT(30) DEF AttachComplete, RunnerKeeps, Finish, Complete, Verdict
<1>14. ASSUME NEW r \in Runs, AttachFinish(r) PROVE TypeOK'
      BY <1>14, SMTT(30) DEF AttachFinish, RunnerKeeps
<1>15. ASSUME NEW r \in Runs, CloseStream(r) PROVE TypeOK'
      BY <1>15, SMTT(30) DEF CloseStream, RunnerKeeps, Finish
<1>16. ASSUME NEW th \in Threads, NEW t \in Turns, ServerRequestFails(th, t) PROVE TypeOK'
      BY <1>16, SMTT(30) DEF ServerRequestFails, RunnerKeeps, Finish
<1>17. ASSUME NEW k \in FrameKinds, NEW id \in Turns \cup Threads, Ingest(k, id) PROVE TypeOK'
  <2>1. Len(log) + 1 \in Frames
        BY <1>17 DEF Ingest
  <2>2. log' \in Seq([kind : FrameKinds, id : Turns \cup Threads]) /\ Len(log') <= MaxFrames
        BY <1>17 DEF Ingest
  <2>3. targets' \subseteq Runs
        BY <1>17 DEF Ingest, Targets
  <2>4. owner' \in [Frames -> Runs \cup {None}]
    <3>1. CASE PendsTurn(k, id)
      <4>1. armedTurn[id] \in Runs
            BY <1>17, <3>1 DEF Ingest, PendsTurn, Spoken, TurnKinds, Terminals
      <4> QED BY <1>17, <3>1, <4>1 DEF Ingest
    <3>2. CASE ~PendsTurn(k, id)
          BY <1>17, <3>2 DEF Ingest
    <3> QED BY <3>1, <3>2
  <2>5. pendingThread' \subseteq Frames /\ pendingEvents' \subseteq Frames
        BY <1>17, <2>1 DEF Ingest
  <2> QED BY <1>17, <2>1, <2>2, <2>3, <2>4, <2>5, SMTT(30) DEF Ingest
<1>18. ASSUME NEW k \in FrameKinds, NEW id \in Turns \cup Threads, IngestOverBudget(k, id) PROVE TypeOK'
      BY <1>18, SMTT(30) DEF IngestOverBudget, FailClient
<1>19. ASSUME NEW r \in Runs, AcceptTarget(r) PROVE TypeOK'
  <2>1. frame \in Frames  BY <1>19 DEF AcceptTarget, LogBook, RunIInv
  <2>2. history' \in [Runs -> Seq(Frames)] /\ admitted' \subseteq Runs
        BY <1>19, <2>1, AcceptEffect DEF AcceptTarget
  <2>3. completion' \in [Frames -> SUBSET Runs]
        BY <1>19 DEF AcceptTarget
  <2>4. targets' \subseteq Runs
        BY <1>19 DEF AcceptTarget
  <2>5. UNCHANGED <<log, hasHandler, runVars, outcome, tableVars, pendVars, owner, ready, reader, frame,
                    dispVars, closeVars>>
        BY <1>19 DEF AcceptTarget
  <2> QED BY <2>2, <2>3, <2>4, <2>5, SMTT(30)
<1>20. ASSUME NEW r \in Runs, AcceptOverBudget(r) PROVE TypeOK'
      BY <1>20, SMTT(30) DEF AcceptOverBudget, FailClient
<1>21. CASE Enqueue
  <2>1. frame \in Frames  BY <1>21 DEF Enqueue, LogBook, RunIInv
  <2>2. queue' \in Seq(Frames) /\ Len(queue') <= Capacity
        BY <1>21, <2>1 DEF Enqueue
  <2> QED BY <1>21, <2>1, <2>2, SMTT(30) DEF Enqueue
<1>22. CASE EnqueueFull
      BY <1>22, SMTT(30) DEF EnqueueFull, FailClient
<1>23. CASE EnqueueClosed
      BY <1>23, SMTT(30) DEF EnqueueClosed
<1>24. CASE AwaitPublication
      BY <1>24, SMTT(30) DEF AwaitPublication
<1>25. CASE ReaderComplete
      BY <1>25, SMTT(30) DEF ReaderComplete, Finish, Complete, Verdict
<1>26. CASE Dequeue
  <2>1. Head(queue) \in Frames /\ Tail(queue) \in Seq(Frames) /\ Len(Tail(queue)) <= Capacity
        BY <1>26 DEF Dequeue
  <2>2. current' \in 0..MaxFrames /\ queue' \in Seq(Frames) /\ Len(queue') <= Capacity
        BY <1>26, <2>1 DEF Dequeue
  <2>3. disp' \in {"drainCallback", "evidence", "callback"}
        BY <1>26 DEF Dequeue
  <2>4. UNCHANGED <<log, hasHandler, runVars, stateVars, tableVars, pendVars, evidVars, readerVars,
                    entered, delivered, closeVars>>
        BY <1>26 DEF Dequeue, DispKeeps
  <2> QED BY <2>2, <2>3, <2>4, SMTT(30)
<1>27. CASE EvidenceReady
      BY <1>27, SMTT(30) DEF EvidenceReady, DispKeeps
<1>28. CASE DispatcherDiscard
      BY <1>28, SMTT(30) DEF DispatcherDiscard, DispKeeps
<1>29. CASE DispatcherStop
  <2>1. disp = "evidence" => current \in Frames  BY DEF RunIInv, QueueBook
  <2>2. disp' \in {"drain", "drainCallback"} /\ ready' \subseteq Frames
        BY <1>29, <2>1 DEF DispatcherStop
  <2>3. UNCHANGED <<log, hasHandler, runVars, stateVars, tableVars, pendVars, owner, completion,
                    readerVars, queue, current, entered, delivered, closeVars>>
        BY <1>29 DEF DispatcherStop, DispKeeps
  <2> QED BY <2>2, <2>3, SMTT(30)
<1>30. CASE DispatcherExit
      BY <1>30, SMTT(30) DEF DispatcherExit, DispKeeps
<1>31. CASE CallbackOk
  <2>1. current \in Frames  BY <1>31 DEF CallbackOk, QueueBook, RunIInv
  <2> QED BY <1>31, <2>1, SMTT(30) DEF CallbackOk, Complete, Finish, Verdict, DispKeeps
<1>32. CASE CallbackError
  <2>1. queue' \in Seq(Frames) /\ Len(queue') <= Capacity
    <3>1. Len(<<>>) = 0 /\ <<>> \in Seq(Frames)  OBVIOUS
    <3>2. queue' = <<>> \/ queue' = queue  BY <1>32 DEF CallbackError
    <3>3. CASE queue' = queue  BY <3>3
    <3>4. CASE queue' = <<>>   BY <3>1, <3>4
    <3> QED BY <3>2, <3>3, <3>4
  <2> QED BY <1>32, <2>1 DEF CallbackError, FailClient, DispKeeps
<1>33. CASE DispatcherFailed
      BY <1>33, SMTT(30) DEF DispatcherFailed, DispKeeps
<1>34. ASSUME NEW cause \in Causes, Close(cause) PROVE TypeOK'
      BY <1>34, SMTT(30) DEF Close, CloserKeeps
<1>35. CASE CloserCancel
      BY <1>35, SMTT(30) DEF CloserCancel, CloserKeeps
<1>36. CASE FailAllTake
  <2>1. evidence' \subseteq Frames
    <3>1. UNION {replaying[r] : r \in Runs} \subseteq Frames
          OBVIOUS
    <3> QED BY <1>36, <3>1 DEF FailAllTake
  <2> QED BY <1>36, <2>1, SMTT(30) DEF FailAllTake, CloserKeeps
<1>37. ASSUME NEW n \in Frames, FailAllResolve(n) PROVE TypeOK'
  <2>1. owner[n] \in Runs  BY <1>37 DEF FailAllResolve, CloseBook, Owned, RunIInv
  <2>2. history' \in [Runs -> Seq(Frames)] /\ admitted' \subseteq Runs
        BY <1>37, <2>1, AcceptEffect DEF FailAllResolve, Resolve
  <2>3. completion' \in [Frames -> SUBSET Runs] /\ ready' \subseteq Frames
        BY <1>37, <2>1 DEF FailAllResolve, Resolve
  <2> QED BY <1>37, <2>2, <2>3, SMTT(30) DEF FailAllResolve, CloserKeeps
<1>38. CASE FailAllFinish
      BY <1>38, SMTT(30) DEF FailAllFinish, CloserKeeps, Finish
<1>39. CASE Publish
      BY <1>39, SMTT(30) DEF Publish, CloserKeeps
<1>40. CASE StopDispatch
      BY <1>40, SMTT(30) DEF StopDispatch, CloserKeeps
<1>41. CASE GraceExpires
      BY <1>41, SMTT(30) DEF GraceExpires, CloserKeeps
<1>42. CASE ShutdownDiscard
      BY <1>42, SMTT(30) DEF ShutdownDiscard, CloserKeeps
<1>43. CASE UNCHANGED vars
      BY <1>43, SMTT(30) DEF vars
<1> QED
    BY <1>1, <1>2, <1>3, <1>4, <1>5, <1>6, <1>7, <1>8, <1>9, <1>10, <1>11, <1>12, <1>13, <1>14,
       <1>15, <1>16, <1>17, <1>18, <1>19, <1>20, <1>21, <1>22, <1>23, <1>24, <1>25, <1>26,
       <1>27, <1>28, <1>29, <1>30, <1>31, <1>32, <1>33, <1>34, <1>35, <1>36, <1>37, <1>38,
       <1>39, <1>40, <1>41, <1>42, <1>43
    DEF Next, RunnerStep, ReaderStep, DispatcherStep, CloserStep

(* A property of every notification in a history is kept when the new one  *)
(* has it.                                                                 *)
LEMMA AcceptLast ==
  ASSUME TypeOK, NEW r \in Runs, NEW n \in Frames, AcceptInto(r, n)
  PROVE  \A s \in Runs : \A i \in 1..Len(history'[s]) :
            \/ i \in 1..Len(history[s]) /\ history'[s][i] = history[s][i]
            \/ s = r /\ history'[s][i] = n /\ i = Len(history[s]) + 1 /\ Accepts(r, n)
<1>1. CASE ~Accepts(r, n)
      BY <1>1, AcceptEffect
<1>2. CASE Accepts(r, n)
      BY <1>2, AcceptEffect
<1> QED BY <1>1, <1>2

(* What the log holds.                                                     *)
LEMMA LogTyped ==
  ASSUME TypeOK, NEW n \in 1..Len(log)
  PROVE  /\ log[n].kind \in {"item", "done", "fail", "note"} /\ log[n].kind \in FrameKinds
         /\ log[n].id \in Turns \cup Threads /\ log[n].id # None
<1>1. log \in Seq([kind : FrameKinds, id : Turns \cup Threads])
      BY DEF TypeOK
<1>2. log[n] \in [kind : FrameKinds, id : Turns \cup Threads]
      BY <1>1, ElementOfSeq
<1> QED BY <1>2, ConstantsAssumption

(* The log grows at its end.                                               *)
LEMMA LogEffect ==
  ASSUME TypeOK, NEW k \in FrameKinds, NEW id \in Turns \cup Threads,
         log' = Append(log, [kind |-> k, id |-> id])
  PROVE  /\ Len(log) \in Nat /\ Len(log') = Len(log) + 1
         /\ \A n \in 1..Len(log) : n \in 1..Len(log') /\ log'[n] = log[n]
         /\ Len(log) + 1 \in 1..Len(log')
         /\ log'[Len(log) + 1].kind = k /\ log'[Len(log) + 1].id = id
         /\ \A n \in 1..Len(log') : n \in 1..Len(log) \/ n = Len(log) + 1
<1> DEFINE e == [kind |-> k, id |-> id]
<1>1. log \in Seq([kind : FrameKinds, id : Turns \cup Threads])
         /\ e \in [kind : FrameKinds, id : Turns \cup Threads]
      BY DEF TypeOK
<1>2. e.kind = k /\ e.id = id
      OBVIOUS
<1> HIDE DEF e
<1> QED BY <1>1, <1>2

(* The runs of S that have no outcome get one and leave the tables.        *)
Settles(S) ==
    /\ attaching' \subseteq attaching /\ streams' \subseteq streams
    /\ \A r \in Runs :
          /\ outcome'[r] = None <=> outcome[r] = None /\ r \notin S
          /\ outcome[r] # None => outcome'[r] = outcome[r]
          /\ r \in attaching' <=> r \in attaching /\ (outcome[r] # None \/ r \notin S)
          /\ r \in streams' <=> r \in streams /\ (outcome[r] # None \/ r \notin S)

\* finish with an outcome for each of its runs settles exactly those runs.
LEMMA FinishSettles ==
  ASSUME TypeOK, NEW S \in SUBSET Runs, NEW err, Finish(S, err), \A r \in S : err[r] # None
  PROVE  Settles(S)
<1>1. closed => closeReason # None  BY DEF closed
<1> QED BY <1>1, FinishEffect DEF Settles

\* complete settles the runs it completes with the verdict each has earned.
LEMMA CompleteSettles ==
  ASSUME TypeOK, NEW S \in SUBSET Runs, Complete(S)
  PROVE  Settles(S)
<1>1. \A r \in S : [s \in S |-> Verdict(s)][r] # None
      BY ConstantsAssumption DEF Verdict
<1> QED BY <1>1, FinishSettles DEF Complete

(* In every step that ends runs, some set of runs settles.                 *)
LEMMA EndingSettles ==
  ASSUME RunIInv
  PROVE  /\ \A r \in Runs : RegisterRefused(r) \/ FinishAttaching(r) \/ CloseStream(r) => Settles({r})
         /\ \A th \in Threads, t \in Turns : ServerRequestFails(th, t) => Settles(RequestTargets(th, t))
         /\ FailAllFinish => Settles(snapshot)
         /\ \A r \in Runs : AttachComplete(r) => \E S \in SUBSET Runs : Settles(S) /\ \E n \in Frames : S = completion[n]
         /\ ReaderComplete \/ CallbackOk => \E S \in SUBSET Runs : Settles(S) /\ S \subseteq admitted
<1>1. ASSUME NEW r \in Runs, RegisterRefused(r) \/ FinishAttaching(r) \/ CloseStream(r)
      PROVE  Settles({r})
  <2>1. PICK e \in {"busy", "startErr", "streamClosed"} : Finish({r}, [s \in {r} |-> e])
        BY <1>1 DEF RegisterRefused, FinishAttaching, CloseStream
  <2>2. \A q \in {r} : [s \in {r} |-> e][q] # None
        BY ConstantsAssumption
  <2> QED BY <2>1, <2>2, FinishSettles DEF RunIInv
<1>2. ASSUME NEW th \in Threads, NEW t \in Turns, ServerRequestFails(th, t)
      PROVE  Settles(RequestTargets(th, t))
  <2>1. RequestTargets(th, t) \in SUBSET Runs
        BY DEF RunIInv, TypeOK, RequestTargets
  <2>2. \A q \in RequestTargets(th, t) : [s \in Runs |-> "requestErr"][q] # None
        BY <2>1, ConstantsAssumption
  <2> QED BY <1>2, <2>1, <2>2, FinishSettles DEF RunIInv, ServerRequestFails
<1>3. ASSUME FailAllFinish PROVE Settles(snapshot)
  <2>1. closeReason # None
        BY <1>3 DEF RunIInv, CloseBook, FailAllFinish, closed
  <2>2. snapshot \in SUBSET Runs /\ \A q \in snapshot : [s \in Runs |-> closeReason][q] # None
        BY <2>1 DEF RunIInv, TypeOK
  <2> QED BY <1>3, <2>2, FinishSettles DEF RunIInv, FailAllFinish
<1>4. ASSUME NEW r \in Runs, AttachComplete(r)
      PROVE  \E S \in SUBSET Runs : Settles(S) /\ \E n \in Frames : S = completion[n]
  <2>1. PICK n \in Frames : Complete(completion[n])
        BY <1>4 DEF AttachComplete, RunIInv, TypeOK
  <2>2. completion[n] \in SUBSET Runs
        BY DEF RunIInv, TypeOK
  <2> QED BY <2>1, <2>2, CompleteSettles DEF RunIInv
<1>5. ASSUME ReaderComplete \/ CallbackOk PROVE \E S \in SUBSET Runs : Settles(S) /\ S \subseteq admitted
  <2>1. CASE ReaderComplete
    <3>1. (IF owner[frame] = None THEN completion[frame] ELSE {}) \in SUBSET (Runs \cap admitted)
          BY <2>1 DEF RunIInv, TypeOK, AdmitBook, LogBook, ReaderComplete, Frames
    <3> QED BY <2>1, <3>1, CompleteSettles DEF RunIInv, ReaderComplete
  <2>2. CASE CallbackOk
    <3>1. (IF hasHandler THEN completion[current] ELSE {}) \in SUBSET (Runs \cap admitted)
          BY <2>2 DEF RunIInv, TypeOK, AdmitBook, CallbackOk, QueueBook
    <3> QED BY <2>2, <3>1, CompleteSettles DEF RunIInv, CallbackOk
  <2> QED BY <1>5, <2>1, <2>2
<1> QED BY <1>1, <1>2, <1>3, <1>4, <1>5

(* The section of turnMu that moves a run from attaching to streams.       *)
LEMMA PublishEffect ==
  ASSUME RunIInv, NEW r \in Runs, AttachPublish(r)
  PROVE  /\ pc[r] = "gated" /\ turnID[r] = answer[r] /\ answer[r] \in Turns
         /\ UNCHANGED <<log, hasHandler, turnID, answer, armedAt, stateVars, pendingThread, evidVars,
                        readerVars, dispVars, closeVars>>
         /\ \A s \in Runs \ {r} :
               /\ pc'[s] = pc[s] /\ local'[s] = local[s] /\ replaying'[s] = replaying[s]
               /\ s \in attaching' <=> s \in attaching
               /\ s \in streams' <=> s \in streams
         /\ r \notin attaching' /\ armedTurn' = [armedTurn EXCEPT ![answer[r]] = None]
         /\ \/ /\ outcome[r] # None /\ pc'[r] = "attached" /\ pendingEvents' = pendingEvents
               /\ local'[r] = {} /\ replaying'[r] = {} /\ r \notin streams'
            \/ /\ outcome[r] = None /\ pc'[r] = "replay" /\ r \in streams'
               /\ replaying'[r] = local'[r] /\ local'[r] \subseteq pendingEvents
               /\ pendingEvents' \subseteq pendingEvents
               /\ \A n \in Frames :
                     /\ n \in local'[r] <=> n \in pendingEvents /\ log[n].id = answer[r]
                     /\ n \in pendingEvents' <=> n \in pendingEvents /\ log[n].id # answer[r]
<1> DEFINE E == EventsOf(turnID[r])
<1>1. /\ pc[r] = "gated" /\ attaching' = attaching \ {r}
      /\ armedTurn' = [armedTurn EXCEPT ![turnID[r]] = None]
      /\ UNCHANGED <<log, hasHandler, turnID, answer, armedAt, stateVars, pendingThread, evidVars,
                     readerVars, dispVars, closeVars>>
      BY DEF AttachPublish, RunnerKeeps
<1>2. turnID[r] = answer[r] /\ answer[r] \in Turns /\ local[r] = {} /\ replaying[r] = {}
      /\ (outcome[r] # None => r \notin streams)
      BY <1>1 DEF RunIInv, RunBook, NoteBook, Replaying, Live
<1>3. CASE outcome[r] # None
  <2>1. pc' = [pc EXCEPT ![r] = "attached"] /\ UNCHANGED <<streams, pendingEvents, replaying, local>>
        BY <1>3 DEF AttachPublish
  <2> QED BY <1>1, <1>2, <1>3, <2>1 DEF RunIInv, TypeOK
<1>4. CASE outcome[r] = None
  <2>1. /\ pc' = [pc EXCEPT ![r] = "replay"] /\ streams' = streams \cup {r}
        /\ pendingEvents' = pendingEvents \ E
        /\ replaying' = [replaying EXCEPT ![r] = E]
        /\ local' = [local EXCEPT ![r] = E]
        BY <1>4 DEF AttachPublish
  <2>2. /\ E \subseteq pendingEvents
        /\ \A n \in Frames : n \in E <=> n \in pendingEvents /\ log[n].id = answer[r]
        BY <1>2 DEF EventsOf
  <2>3. replaying'[r] = E /\ local'[r] = E
        BY <2>1 DEF RunIInv, TypeOK
  <2>4. \A n \in Frames : n \in pendingEvents' <=> n \in pendingEvents /\ log[n].id # answer[r]
        BY <2>1, <2>2
  <2>5. \A s \in Runs \ {r} : local'[s] = local[s] /\ replaying'[s] = replaying[s] /\ pc'[s] = pc[s]
        BY <2>1 DEF RunIInv, TypeOK
  <2>6. pc'[r] = "replay"  BY <2>1 DEF RunIInv, TypeOK
  <2> HIDE DEF E
  <2> QED BY <1>1, <1>2, <1>4, <2>1, <2>2, <2>3, <2>4, <2>5, <2>6
<1> QED BY <1>3, <1>4

(* A step of the replay of a turn.                                         *)
LEMMA ReplayEffect ==
  ASSUME RunIInv, NEW r \in Runs, AttachReplay(r)
  PROVE  /\ pc[r] = "replay"
         /\ UNCHANGED <<log, hasHandler, turnID, answer, armedAt, outcome, tableVars, pendingThread,
                        pendingEvents, replaying, owner, readerVars, dispVars, closeVars>>
         /\ \A s \in Runs \ {r} : pc'[s] = pc[s] /\ local'[s] = local[s]
         /\ pc'[r] \in {"replay", "replayComplete"} /\ (hasHandler => pc'[r] = "replay")
         /\ \E n \in Frames :
               /\ n \in local[r] /\ \A m \in local[r] : n <= m
               /\ local'[r] = local[r] \ {n} /\ Resolve(r, n)
<1>1. PICK n \in Frames :
             /\ IsMin(n, local[r])
             /\ local' = [local EXCEPT ![r] = local[r] \ {n}]
             /\ Resolve(r, n)
             /\ pc' = [pc EXCEPT ![r] = IF hasHandler \/ completion'[n] = {} THEN pc[r]
                                        ELSE "replayComplete"]
      BY DEF AttachReplay
<1>2. /\ pc[r] = "replay"
      /\ UNCHANGED <<log, hasHandler, turnID, answer, armedAt, outcome, tableVars, pendingThread,
                        pendingEvents, replaying, owner, readerVars, dispVars, closeVars>>
      BY DEF AttachReplay, RunnerKeeps
<1>3. \A s \in Runs \ {r} : pc'[s] = pc[s] /\ local'[s] = local[s]
      BY <1>1 DEF RunIInv, TypeOK
<1>4. pc'[r] \in {"replay", "replayComplete"} /\ (hasHandler => pc'[r] = "replay")
      BY <1>1, <1>2 DEF RunIInv, TypeOK
<1>5. local'[r] = local[r] \ {n}
      BY <1>1 DEF RunIInv, TypeOK
<1> QED BY <1>1, <1>2, <1>3, <1>4, <1>5 DEF IsMin

(* A step of the replay of the saved notes.                                *)
LEMMA NotesEffect ==
  ASSUME RunIInv, NEW r \in Runs, ThreadReplay(r)
  PROVE  /\ pc[r] = "threadReplay"
         /\ UNCHANGED <<log, hasHandler, runVars, outcome, tableVars, pendingThread, pendingEvents,
                        replaying, evidVars, readerVars, dispVars, closeVars>>
         /\ \A s \in Runs \ {r} : local'[s] = local[s]
         /\ \E n \in Frames : n \in local[r] /\ local'[r] = local[r] \ {n} /\ AcceptInto(r, n)
<1>1. PICK n \in Frames : /\ n \in local[r] /\ AcceptInto(r, n)
                          /\ local' = [local EXCEPT ![r] = local[r] \ {n}]
      BY DEF ThreadReplay, IsMin
<1>2. local'[r] = local[r] \ {n} /\ \A s \in Runs \ {r} : local'[s] = local[s]
      BY <1>1 DEF RunIInv, TypeOK
<1> QED BY <1>1, <1>2 DEF ThreadReplay, RunnerKeeps

(* The first caller of the Once: what resolving a pended notification does *)
(* to its run.                                                             *)
LEMMA ResolveEffect ==
  ASSUME TypeOK, NEW r \in Runs, NEW n \in Frames, Resolve(r, n)
  PROVE  /\ ready' = ready \cup {n}
         /\ n \in ready => UNCHANGED <<history, admitted, completion>>
         /\ n \notin ready => AcceptInto(r, n)
         /\ \A m \in Frames : completion'[m] =
               IF m = n /\ n \notin ready /\ Accepts(r, n) /\ log[n].kind \in Terminals
               THEN completion[m] \cup {r} ELSE completion[m]
BY DEF TypeOK, Resolve

(* Only Ingest makes a place in the log; everything else moves places      *)
(* around.                                                                 *)
LEMMA LogStep == RunIInv /\ [Next]_vars => LogBook'
<1> SUFFICES ASSUME RunIInv, [Next]_vars PROVE LogBook'
    OBVIOUS
<1> DEFINE kept == <<current, entered, frame, history, local, log, pendingEvents, pendingThread,
                     reader, ready, replaying, targets>>
<1> USE DEF runVars, stateVars, tableVars, pendVars, evidVars, readerVars, dispVars, closeVars
<1>1. CASE UNCHANGED kept
      BY <1>1 DEF RunIInv, LogBook, Ingested
<1>2. ASSUME NEW r \in Runs,
             CallThread(r) \/ ThreadResponse(r) \/ ThreadCallError(r) \/
                RegisterRefused(r) \/ CallTurn(r) \/ FinishAttaching(r) \/
                (\E t \in Turns : TurnResponse(r, t)) \/ AttachGate(r) \/ AttachComplete(r) \/
                CloseStream(r)
      PROVE  UNCHANGED kept
      BY <1>2 DEF CallThread, ThreadResponse, ThreadCallError, RegisterRefused, CallTurn,
             FinishAttaching, TurnResponse, AttachGate, AttachComplete, CloseStream, RunnerKeeps
<1>3. CASE EvidenceReady \/ DispatcherDiscard \/ DispatcherExit \/ CallbackOk \/
           CallbackError \/ DispatcherFailed
  <2>1. UNCHANGED kept
        BY <1>3 DEF EvidenceReady, DispatcherDiscard, DispatcherExit, CallbackOk, CallbackError,
               DispatcherFailed, DispKeeps, FailClient
  <2> QED BY <1>1, <2>1
<1>4. CASE CloserCancel \/ FailAllFinish \/ Publish \/ StopDispatch \/ GraceExpires \/
           ShutdownDiscard \/ (\E cause \in Causes : Close(cause))
  <2>1. UNCHANGED kept
        BY <1>4 DEF Close, CloserCancel, FailAllFinish, Publish, StopDispatch, GraceExpires,
               ShutdownDiscard, CloserKeeps
  <2> QED BY <1>1, <2>1
<1>5. ASSUME NEW th \in Threads, NEW t \in Turns, ServerRequestFails(th, t)
      PROVE  UNCHANGED kept
      BY <1>5 DEF ServerRequestFails, RunnerKeeps
<1>6. ASSUME NEW r \in Runs, Register(r) PROVE LogBook'
      BY <1>6 DEF RunIInv, TypeOK, LogBook, Ingested, Register, RunnerKeeps, NotesOf
<1>7. ASSUME NEW r \in Runs, ThreadReplay(r) PROVE LogBook'
  <2>1. PICK n \in Frames : /\ IsMin(n, local[r]) /\ AcceptInto(r, n)
                            /\ local' = [local EXCEPT ![r] = local[r] \ {n}]
        BY <1>7 DEF ThreadReplay
  <2>2. n \in Ingested  BY <2>1 DEF RunIInv, LogBook, IsMin
  <2>3. \A s \in Runs : \A i \in 1..Len(history'[s]) : history'[s][i] \in Ingested
        BY <2>1, <2>2, AcceptLast, SMTT(30) DEF RunIInv, LogBook
  <2> QED BY <1>7, <2>1, <2>3 DEF RunIInv, TypeOK, LogBook, Ingested, ThreadReplay, RunnerKeeps
<1>8. ASSUME NEW r \in Runs, AttachPublish(r) PROVE LogBook'
  <2>1. local' = local \/ local' = [local EXCEPT ![r] = EventsOf(turnID[r])]
        BY <1>8 DEF AttachPublish
  <2>2. replaying' = replaying \/ replaying' = [replaying EXCEPT ![r] = EventsOf(turnID[r])]
        BY <1>8 DEF AttachPublish
  <2>3. pendingEvents' \subseteq pendingEvents /\ EventsOf(turnID[r]) \subseteq Ingested
        BY <1>8 DEF AttachPublish, EventsOf, RunIInv, LogBook
  <2>a. /\ local \in [Runs -> SUBSET Frames] /\ replaying \in [Runs -> SUBSET Frames]
        /\ \A s \in Runs : local[s] \subseteq Ingested /\ replaying[s] \subseteq Ingested
        BY DEF RunIInv, TypeOK, LogBook
  <2>4. \A s \in Runs : local'[s] \subseteq Ingested
        BY ONLY <2>1, <2>3, <2>a
  <2>5. \A s \in Runs : replaying'[s] \subseteq Ingested
        BY ONLY <2>2, <2>3, <2>a
  <2> QED BY <1>8, <2>3, <2>4, <2>5 DEF RunIInv, LogBook, Ingested, AttachPublish, RunnerKeeps
<1>9. ASSUME NEW r \in Runs, AttachReplay(r) PROVE LogBook'
  <2>1. PICK n \in Frames : /\ IsMin(n, local[r]) /\ Resolve(r, n)
                            /\ local' = [local EXCEPT ![r] = local[r] \ {n}]
        BY <1>9 DEF AttachReplay
  <2>2. n \in Ingested  BY <2>1 DEF RunIInv, LogBook, IsMin
  <2>3. \A s \in Runs : \A i \in 1..Len(history'[s]) : history'[s][i] \in Ingested
        BY <2>1, <2>2, AcceptLast DEF RunIInv, LogBook, Resolve
  <2> QED BY <1>9, <2>1, <2>2, <2>3 DEF RunIInv, TypeOK, LogBook, Ingested, AttachReplay, Resolve, RunnerKeeps
<1>10. ASSUME NEW r \in Runs, AttachFinish(r) PROVE LogBook'
      BY <1>10 DEF RunIInv, TypeOK, LogBook, Ingested, AttachFinish, RunnerKeeps
<1>11. ASSUME NEW k \in FrameKinds, NEW id \in Turns \cup Threads, Ingest(k, id) PROVE LogBook'
  <2>1. Ingested \subseteq Ingested' /\ Len(log) + 1 \in Ingested' /\ Len(log') = Len(log) + 1
           /\ Len(log) \in Nat /\ Len(log) + 1 \notin Ingested
        BY <1>11, LogEffect DEF RunIInv, Ingest, Ingested
  <2>2. current <= Len(log) + 1
        BY <2>1 DEF RunIInv, TypeOK, LogBook
  <2>3. pendingThread' \subseteq Ingested' /\ pendingEvents' \subseteq Ingested'
        BY <1>11, <2>1 DEF RunIInv, LogBook, Ingest
  <2>4. entered \subseteq Ingested' /\ ready \subseteq Ingested' /\ Len(log) + 1 \notin entered
        BY <2>1 DEF RunIInv, LogBook
  <2>5. \A s \in Runs : /\ local[s] \subseteq Ingested' /\ replaying[s] \subseteq Ingested'
                         /\ \A i \in 1..Len(history[s]) : history[s][i] \in Ingested'
        BY <2>1 DEF RunIInv, LogBook
  <2> QED BY <1>11, <2>1, <2>2, <2>3, <2>4, <2>5 DEF LogBook, Ingest
<1>12. ASSUME NEW k \in FrameKinds, NEW id \in Turns \cup Threads, IngestOverBudget(k, id) PROVE LogBook'
  <2>1. Ingested \subseteq Ingested' /\ Len(log) + 1 \in Ingested' /\ Len(log') = Len(log) + 1
           /\ Len(log) \in Nat /\ Len(log) + 1 \notin Ingested
        BY <1>12, LogEffect DEF RunIInv, IngestOverBudget, Ingested
  <2>2. current <= Len(log) + 1
        BY <2>1 DEF RunIInv, TypeOK, LogBook
  <2>3. pendingThread \subseteq Ingested' /\ pendingEvents \subseteq Ingested'
        BY <2>1 DEF RunIInv, LogBook
  <2>4. entered \subseteq Ingested' /\ ready \subseteq Ingested' /\ Len(log) + 1 \notin entered
        BY <2>1 DEF RunIInv, LogBook
  <2>5. \A s \in Runs : /\ local[s] \subseteq Ingested' /\ replaying[s] \subseteq Ingested'
                         /\ \A i \in 1..Len(history[s]) : history[s][i] \in Ingested'
        BY <2>1 DEF RunIInv, LogBook
  <2> QED BY <1>12, <2>1, <2>2, <2>3, <2>4, <2>5 DEF LogBook, IngestOverBudget
<1>13. ASSUME NEW r \in Runs, AcceptTarget(r) PROVE LogBook'
  <2>1. frame \in Ingested /\ frame \in Frames
        BY <1>13 DEF RunIInv, TypeOK, LogBook, Ingested, AcceptTarget, Frames
  <2>2. \A s \in Runs : \A i \in 1..Len(history'[s]) : history'[s][i] \in Ingested
        BY <1>13, <2>1, AcceptLast DEF RunIInv, LogBook, AcceptTarget
  <2> QED BY <1>13, <2>2 DEF RunIInv, LogBook, Ingested, AcceptTarget
<1>14. ASSUME NEW r \in Runs, AcceptOverBudget(r) PROVE LogBook'
      BY <1>14 DEF RunIInv, LogBook, Ingested, AcceptOverBudget, FailClient
<1>15. CASE Enqueue
  <2>1. frame \in Ingested /\ reader' # "accept"
        BY <1>15 DEF RunIInv, TypeOK, LogBook, Ingested, Enqueue, Frames
  <2> QED BY <1>15, <2>1 DEF RunIInv, LogBook, Ingested, Enqueue
<1>16. CASE EnqueueFull
      BY <1>16 DEF RunIInv, LogBook, Ingested, EnqueueFull, FailClient
<1>17. CASE EnqueueClosed
      BY <1>17 DEF RunIInv, LogBook, Ingested, EnqueueClosed
<1>18. CASE AwaitPublication
      BY <1>18 DEF RunIInv, LogBook, Ingested, AwaitPublication
<1>19. CASE ReaderComplete
      BY <1>19 DEF RunIInv, LogBook, Ingested, ReaderComplete
<1>20. CASE Dequeue
  <2>1. Head(queue) \in Frames /\ Head(queue) = queue[1] /\ 1 \in 1..Len(queue)
        BY <1>20 DEF RunIInv, TypeOK, Dequeue
  <2>2. Head(queue) \in entered
        BY <2>1 DEF RunIInv, QueueBook
  <2>4. entered \subseteq Ingested /\ Len(log) \in Nat  BY DEF RunIInv, LogBook, TypeOK
  <2>5. current' \in entered  BY <1>20, <2>2 DEF Dequeue
  <2>3. current' <= Len(log)
        BY ONLY <2>5, <2>4 DEF Ingested
  <2> QED BY <1>20, <2>3 DEF RunIInv, LogBook, Ingested, Dequeue, DispKeeps
<1>21. CASE DispatcherStop
  <2>1. disp = "evidence" => current \in Ingested
        BY DEF RunIInv, LogBook, QueueBook
  <2> QED BY <1>21, <2>1 DEF RunIInv, LogBook, Ingested, DispatcherStop, DispKeeps
<1>22. CASE FailAllTake
      BY <1>22 DEF RunIInv, LogBook, Ingested, FailAllTake, CloserKeeps
<1>23. ASSUME NEW n \in Frames, FailAllResolve(n) PROVE LogBook'
  <2>1. owner[n] \in Runs /\ n \in Ingested
        BY <1>23 DEF RunIInv, TypeOK, CloseBook, OwnerBook, Owned, FailAllResolve
  <2>2. \A s \in Runs : \A i \in 1..Len(history'[s]) : history'[s][i] \in Ingested
        BY <1>23, <2>1, AcceptLast DEF RunIInv, LogBook, FailAllResolve, Resolve
  <2> QED BY <1>23, <2>1, <2>2 DEF RunIInv, LogBook, Ingested, FailAllResolve, Resolve, CloserKeeps
<1>24. CASE UNCHANGED vars
      BY <1>1, <1>24 DEF vars
<1> QED
    BY <1>1, <1>2, <1>3, <1>4, <1>5, <1>6, <1>7, <1>8, <1>9, <1>10, <1>11, <1>12, <1>13, <1>14,
       <1>15, <1>16, <1>17, <1>18, <1>19, <1>20, <1>21, <1>22, <1>23, <1>24
    DEF Next, RunnerStep, ReaderStep, DispatcherStep, CloserStep

(* Ending runs keeps the tables in step with the runners.                  *)
LEMMA RunSettled ==
  ASSUME RunIInv, NEW S, Settles(S), UNCHANGED <<turnID, answer>>,
         \A s \in Runs : \/ pc'[s] = pc[s]
                         \/ s \in S /\ pc'[s] = "attached"
                         \/ pc[s] = "replayComplete" /\ pc'[s] = "replay"
  PROVE  RunBook'
<1>1. \A r \in Runs : r \in attaching' <=> r \in attaching /\ outcome'[r] = None
      BY DEF Settles, Live, RunIInv, RunBook
<1>2. \A r \in Runs : r \in streams' <=> r \in streams /\ outcome'[r] = None
      BY DEF Settles, Live, RunIInv, RunBook
<1>3. \A r \in Runs : outcome'[r] = None <=> outcome[r] = None /\ r \notin S
      BY DEF Settles
<1>4. attaching' \subseteq attaching  BY DEF Settles
<1> QED BY <1>1, <1>2, <1>3, <1>4 DEF RunIInv, RunBook, Live, Attaching, Replaying, Early

(* Registration, attachment and the outcome move a run between tables.     *)
LEMMA RunStep == RunIInv /\ [Next]_vars => RunBook'
<1> SUFFICES ASSUME RunIInv, [Next]_vars PROVE RunBook'
    OBVIOUS
<1> DEFINE kept == <<answer, attaching, outcome, pc, streams, turnID>>
<1> USE DEF runVars, stateVars, tableVars, pendVars, evidVars, readerVars, dispVars, closeVars
<1>1. CASE UNCHANGED kept
      BY <1>1 DEF RunIInv, RunBook, Live, Early
<1>2. ASSUME NEW r \in Runs,
             ThreadReplay(r)
      PROVE  UNCHANGED kept
      BY <1>2 DEF ThreadReplay, RunnerKeeps
<1>3. CASE Enqueue \/ EnqueueFull \/ EnqueueClosed \/ AwaitPublication \/
           (\E k \in FrameKinds, id \in Turns \cup Threads : Ingest(k, id)) \/
           (\E k \in FrameKinds, id \in Turns \cup Threads : IngestOverBudget(k, id)) \/
           (\E r \in Runs : AcceptTarget(r)) \/ (\E r \in Runs : AcceptOverBudget(r))
  <2>1. UNCHANGED kept
        BY <1>3 DEF Ingest, IngestOverBudget, AcceptTarget, AcceptOverBudget, Enqueue, EnqueueFull,
               EnqueueClosed, AwaitPublication, FailClient
  <2> QED BY <1>1, <2>1
<1>4. CASE Dequeue \/ EvidenceReady \/ DispatcherDiscard \/ DispatcherStop \/ DispatcherExit \/
           CallbackError \/ DispatcherFailed
  <2>1. UNCHANGED kept
        BY <1>4 DEF Dequeue, EvidenceReady, DispatcherDiscard, DispatcherStop, DispatcherExit,
               CallbackError, DispatcherFailed, DispKeeps, FailClient
  <2> QED BY <1>1, <2>1
<1>5. CASE CloserCancel \/ FailAllTake \/ Publish \/ StopDispatch \/ GraceExpires \/
           ShutdownDiscard \/ (\E cause \in Causes : Close(cause)) \/
           (\E n \in Frames : FailAllResolve(n))
  <2>1. UNCHANGED kept
        BY <1>5 DEF Close, CloserCancel, FailAllTake, FailAllResolve, Publish, StopDispatch,
               GraceExpires, ShutdownDiscard, CloserKeeps
  <2> QED BY <1>1, <2>1
<1>6. ASSUME NEW r \in Runs, CallThread(r) PROVE RunBook'
      BY <1>6, ConstantsAssumption DEF RunIInv, TypeOK, RunBook, Live, Attaching, Replaying, Early, CallThread, RunnerKeeps
<1>7. ASSUME NEW r \in Runs, ThreadResponse(r) PROVE RunBook'
      BY <1>7, ConstantsAssumption DEF RunIInv, TypeOK, RunBook, Live, Attaching, Replaying, Early, ThreadResponse, RunnerKeeps
<1>8. ASSUME NEW r \in Runs, ThreadCallError(r) PROVE RunBook'
      BY <1>8, ConstantsAssumption DEF RunIInv, TypeOK, RunBook, Live, Attaching, Replaying, Early, ThreadCallError, RunnerKeeps
<1>9. ASSUME NEW r \in Runs, RegisterRefused(r) PROVE RunBook'
  <2>1. Settles({r})  BY <1>9, EndingSettles
  <2>2. UNCHANGED <<turnID, answer>> /\ \A s \in Runs : pc'[s] = pc[s] \/ (s = r /\ pc'[s] = "attached")
        BY <1>9 DEF RunIInv, TypeOK, RegisterRefused, RunnerKeeps
  <2> QED BY <2>1, <2>2, RunSettled
<1>10. ASSUME NEW r \in Runs, Register(r) PROVE RunBook'
  <2>1. /\ \A s \in Runs : pc'[s] = IF s = r THEN "threadReplay" ELSE pc[s]
        /\ attaching' = attaching \cup {r} /\ UNCHANGED <<turnID, answer, outcome, streams>>
        /\ pc[r] = "gotThread"
        /\ \A s \in attaching : ThreadOf[s] # ThreadOf[r]
        BY <1>10 DEF RunIInv, TypeOK, Register, RunnerKeeps, Busy
  <2>2. outcome[r] = None
        BY <2>1 DEF RunIInv, EarlyBook, Early, Live
  <2> QED BY <2>1, <2>2 DEF RunIInv, RunBook, Live, Attaching, Replaying, Early
<1>11. ASSUME NEW r \in Runs, CallTurn(r) PROVE RunBook'
      BY <1>11, ConstantsAssumption DEF RunIInv, TypeOK, RunBook, Live, Attaching, Replaying, Early, CallTurn, RunnerKeeps
<1>12. ASSUME NEW r \in Runs, FinishAttaching(r) PROVE RunBook'
  <2>1. Settles({r})  BY <1>12, EndingSettles
  <2>2. UNCHANGED <<turnID, answer>> /\ \A s \in Runs : pc'[s] = pc[s] \/ (s = r /\ pc'[s] = "attached")
        BY <1>12 DEF RunIInv, TypeOK, FinishAttaching, RunnerKeeps
  <2> QED BY <2>1, <2>2, RunSettled
<1>13. ASSUME NEW r \in Runs, NEW t \in Turns, TurnResponse(r, t) PROVE RunBook'
      BY <1>13 DEF RunIInv, TypeOK, RunBook, Live, Attaching, Replaying, Early, TurnResponse, RunnerKeeps, MayAnswer
<1>14. ASSUME NEW r \in Runs, AttachGate(r) PROVE RunBook'
      BY <1>14, ConstantsAssumption DEF RunIInv, TypeOK, RunBook, Live, Attaching, Replaying, Early, AttachGate, RunnerKeeps
<1>15. ASSUME NEW r \in Runs, AttachPublish(r) PROVE RunBook'
      BY <1>15 DEF RunIInv, TypeOK, RunBook, Live, Attaching, Replaying, Early, AttachPublish, RunnerKeeps
<1>16. ASSUME NEW r \in Runs, AttachReplay(r) PROVE RunBook'
      BY <1>16, ConstantsAssumption DEF RunIInv, TypeOK, RunBook, Live, Attaching, Replaying, Early, AttachReplay, RunnerKeeps
<1>17. ASSUME NEW r \in Runs, AttachComplete(r) PROVE RunBook'
  <2>1. PICK S \in SUBSET Runs : Settles(S)  BY <1>17, EndingSettles
  <2>2. UNCHANGED <<turnID, answer>> /\ \A s \in Runs : pc'[s] = pc[s] \/ (pc[s] = "replayComplete" /\ pc'[s] = "replay")
        BY <1>17 DEF RunIInv, TypeOK, AttachComplete, RunnerKeeps
  <2> QED BY <2>1, <2>2, RunSettled
<1>18. ASSUME NEW r \in Runs, AttachFinish(r) PROVE RunBook'
      BY <1>18, ConstantsAssumption DEF RunIInv, TypeOK, RunBook, Live, Attaching, Replaying, Early, AttachFinish, RunnerKeeps
<1>19. ASSUME NEW r \in Runs, CloseStream(r) PROVE RunBook'
  <2>1. Settles({r})  BY <1>19, EndingSettles
  <2>2. UNCHANGED <<turnID, answer>> /\ pc' = pc
        BY <1>19 DEF RunIInv, TypeOK, CloseStream, RunnerKeeps
  <2> QED BY <2>1, <2>2, RunSettled
<1>20. ASSUME NEW th \in Threads, NEW t \in Turns, ServerRequestFails(th, t) PROVE RunBook'
  <2>1. Settles(RequestTargets(th, t))  BY <1>20, EndingSettles
  <2>2. UNCHANGED <<turnID, answer>> /\ pc' = pc
        BY <1>20 DEF RunIInv, TypeOK, ServerRequestFails, RunnerKeeps
  <2> QED BY <2>1, <2>2, RunSettled
<1>21. CASE ReaderComplete
  <2>1. PICK S \in SUBSET Runs : Settles(S)  BY <1>21, EndingSettles
  <2>2. UNCHANGED <<turnID, answer>> /\ pc' = pc
        BY <1>21 DEF RunIInv, TypeOK, ReaderComplete
  <2> QED BY <2>1, <2>2, RunSettled
<1>22. CASE CallbackOk
  <2>1. PICK S \in SUBSET Runs : Settles(S)  BY <1>22, EndingSettles
  <2>2. UNCHANGED <<turnID, answer>> /\ pc' = pc
        BY <1>22 DEF RunIInv, TypeOK, CallbackOk, DispKeeps
  <2> QED BY <2>1, <2>2, RunSettled
<1>23. CASE FailAllFinish
  <2>1. Settles(snapshot)  BY <1>23, EndingSettles
  <2>2. UNCHANGED <<turnID, answer>> /\ pc' = pc
        BY <1>23 DEF RunIInv, TypeOK, FailAllFinish, CloserKeeps
  <2> QED BY <2>1, <2>2, RunSettled
<1>24. CASE UNCHANGED vars
      BY <1>1, <1>24 DEF vars
<1> QED
    BY <1>1, <1>2, <1>3, <1>4, <1>5, <1>6, <1>7, <1>8, <1>9, <1>10, <1>11, <1>12, <1>13, <1>14,
       <1>15, <1>16, <1>17, <1>18, <1>19, <1>20, <1>21, <1>22, <1>23, <1>24
    DEF Next, RunnerStep, ReaderStep, DispatcherStep, CloserStep

(* A run enters the tables with its registration, not before.              *)
LEMMA EarlyStep == RunIInv /\ [Next]_vars => EarlyBook'
<1> SUFFICES ASSUME RunIInv, [Next]_vars PROVE EarlyBook'
    OBVIOUS
<1> DEFINE kept == <<admitted, outcome, pc, snapshot, targets>>
<1> USE DEF runVars, stateVars, tableVars, pendVars, evidVars, readerVars, dispVars, closeVars
<1>1. CASE UNCHANGED kept
      BY <1>1 DEF RunIInv, EarlyBook, Live, Early
<1>2. CASE Enqueue \/ EnqueueFull \/ EnqueueClosed \/ AwaitPublication
  <2>1. UNCHANGED kept
        BY <1>2 DEF Enqueue, EnqueueFull, EnqueueClosed, AwaitPublication, FailClient
  <2> QED BY <1>1, <2>1
<1>3. CASE Dequeue \/ EvidenceReady \/ DispatcherDiscard \/ DispatcherStop \/ DispatcherExit \/
           CallbackError \/ DispatcherFailed
  <2>1. UNCHANGED kept
        BY <1>3 DEF Dequeue, EvidenceReady, DispatcherDiscard, DispatcherStop, DispatcherExit,
               CallbackError, DispatcherFailed, DispKeeps, FailClient
  <2> QED BY <1>1, <2>1
<1>4. CASE CloserCancel \/ Publish \/ StopDispatch \/ GraceExpires \/ ShutdownDiscard \/
           (\E cause \in Causes : Close(cause))
  <2>1. UNCHANGED kept
        BY <1>4 DEF Close, CloserCancel, Publish, StopDispatch, GraceExpires, ShutdownDiscard,
               CloserKeeps
  <2> QED BY <1>1, <2>1
<1>5. ASSUME NEW r \in Runs, CallThread(r) PROVE EarlyBook'
      BY <1>5, ConstantsAssumption DEF RunIInv, TypeOK, EarlyBook, Live, Early, CallThread, RunnerKeeps
<1>6. ASSUME NEW r \in Runs, ThreadResponse(r) PROVE EarlyBook'
      BY <1>6, ConstantsAssumption DEF RunIInv, TypeOK, EarlyBook, Live, Early, ThreadResponse, RunnerKeeps
<1>7. ASSUME NEW r \in Runs, ThreadCallError(r) PROVE EarlyBook'
      BY <1>7, ConstantsAssumption DEF RunIInv, TypeOK, EarlyBook, Live, Early, ThreadCallError, RunnerKeeps
<1>8. ASSUME NEW r \in Runs, RegisterRefused(r) PROVE EarlyBook'
  <2>1. PICK S \in SUBSET Runs : Settles(S) /\ S = {r}  BY <1>8, EndingSettles
  <2>2. \A s \in S : s \in Runs => pc[s] \notin Early \/ pc'[s] \notin Early
        BY <1>8, <2>1 DEF RegisterRefused, RunIInv, TypeOK, Early
  <2>3. UNCHANGED <<admitted, targets>> /\ snapshot' \subseteq snapshot /\ \A s \in Runs : pc'[s] = pc[s] \/ pc'[s] = "attached"
        BY <1>8 DEF RunIInv, TypeOK, RegisterRefused, RunnerKeeps
  <2> QED BY <2>1, <2>2, <2>3 DEF RunIInv, EarlyBook, Live, Settles, Early
<1>9. ASSUME NEW r \in Runs, Register(r) PROVE EarlyBook'
      BY <1>9, ConstantsAssumption DEF RunIInv, TypeOK, EarlyBook, Live, Early, Register, RunnerKeeps
<1>10. ASSUME NEW r \in Runs, ThreadReplay(r) PROVE EarlyBook'
  <2>1. PICK n \in Frames : AcceptInto(r, n)  BY <1>10 DEF ThreadReplay
  <2>2. pc[r] = "threadReplay" /\ UNCHANGED <<pc, outcome, snapshot, targets>>
        BY <1>10 DEF ThreadReplay, RunnerKeeps
  <2> QED BY <2>1, <2>2, AcceptEffect DEF RunIInv, EarlyBook, Live, Early
<1>11. ASSUME NEW r \in Runs, CallTurn(r) PROVE EarlyBook'
      BY <1>11, ConstantsAssumption DEF RunIInv, TypeOK, EarlyBook, Live, Early, CallTurn, RunnerKeeps
<1>12. ASSUME NEW r \in Runs, FinishAttaching(r) PROVE EarlyBook'
  <2>1. PICK S \in SUBSET Runs : Settles(S) /\ S = {r}  BY <1>12, EndingSettles
  <2>2. \A s \in S : s \in Runs => pc[s] \notin Early \/ pc'[s] \notin Early
        BY <1>12, <2>1 DEF FinishAttaching, RunIInv, TypeOK, Early
  <2>3. UNCHANGED <<admitted, targets>> /\ snapshot' \subseteq snapshot /\ \A s \in Runs : pc'[s] = pc[s] \/ pc'[s] = "attached"
        BY <1>12 DEF RunIInv, TypeOK, FinishAttaching, RunnerKeeps
  <2> QED BY <2>1, <2>2, <2>3 DEF RunIInv, EarlyBook, Live, Settles, Early
<1>13. ASSUME NEW r \in Runs, NEW t \in Turns, TurnResponse(r, t) PROVE EarlyBook'
      BY <1>13, ConstantsAssumption DEF RunIInv, TypeOK, EarlyBook, Live, Early, TurnResponse, RunnerKeeps
<1>14. ASSUME NEW r \in Runs, AttachGate(r) PROVE EarlyBook'
      BY <1>14, ConstantsAssumption DEF RunIInv, TypeOK, EarlyBook, Live, Early, AttachGate, RunnerKeeps
<1>15. ASSUME NEW r \in Runs, AttachPublish(r) PROVE EarlyBook'
      BY <1>15, ConstantsAssumption DEF RunIInv, TypeOK, EarlyBook, Live, Early, AttachPublish, RunnerKeeps
<1>16. ASSUME NEW r \in Runs, AttachReplay(r) PROVE EarlyBook'
  <2>1. PICK n \in Frames : Resolve(r, n)  BY <1>16 DEF AttachReplay
  <2>2. /\ pc[r] = "replay" /\ UNCHANGED <<outcome, snapshot, targets>>
        /\ \A s \in Runs : pc'[s] = pc[s] \/ (s = r /\ pc'[r] \in Replaying)
        BY <1>16 DEF AttachReplay, RunnerKeeps, RunIInv, TypeOK, Replaying
  <2>3. \A s \in Runs : s # r => (s \in admitted' <=> s \in admitted)
        BY <2>1, AcceptEffect DEF Resolve, RunIInv
  <2> QED BY <2>2, <2>3 DEF RunIInv, EarlyBook, Live, Early, Replaying
<1>17. ASSUME NEW r \in Runs, AttachComplete(r) PROVE EarlyBook'
  <2>1. PICK S \in SUBSET Runs, n \in Frames : Settles(S) /\ S = completion[n]  BY <1>17, EndingSettles
  <2>2. \A s \in S : s \in Runs => pc[s] \notin Early \/ pc'[s] \notin Early
        BY <2>1 DEF RunIInv, AdmitBook, EarlyBook
  <2>3. UNCHANGED <<admitted, targets>> /\ snapshot' \subseteq snapshot /\ \A s \in Runs : pc'[s] = pc[s] \/ pc'[s] = "replay"
        BY <1>17 DEF RunIInv, TypeOK, AttachComplete, RunnerKeeps
  <2> QED BY <2>1, <2>2, <2>3 DEF RunIInv, EarlyBook, Live, Settles, Early
<1>18. ASSUME NEW r \in Runs, AttachFinish(r) PROVE EarlyBook'
      BY <1>18, ConstantsAssumption DEF RunIInv, TypeOK, EarlyBook, Live, Early, AttachFinish, RunnerKeeps
<1>19. ASSUME NEW r \in Runs, CloseStream(r) PROVE EarlyBook'
  <2>1. PICK S \in SUBSET Runs : Settles(S) /\ S = {r}  BY <1>19, EndingSettles
  <2>2. \A s \in S : s \in Runs => pc[s] \notin Early \/ pc'[s] \notin Early
        BY <1>19, <2>1 DEF CloseStream, Early
  <2>3. UNCHANGED <<admitted, targets>> /\ snapshot' \subseteq snapshot /\ pc' = pc
        BY <1>19 DEF RunIInv, TypeOK, CloseStream, RunnerKeeps
  <2> QED BY <2>1, <2>2, <2>3 DEF RunIInv, EarlyBook, Live, Settles, Early
<1>20. ASSUME NEW th \in Threads, NEW t \in Turns, ServerRequestFails(th, t) PROVE EarlyBook'
  <2>1. PICK S : Settles(S) /\ S = RequestTargets(th, t)  BY <1>20, EndingSettles
  <2>2. \A s \in S : s \in Runs => pc[s] \notin Early \/ pc'[s] \notin Early
        BY <2>1 DEF RequestTargets, RunIInv, TypeOK, RunBook, Attaching, Replaying, Early
  <2>3. UNCHANGED <<admitted, targets>> /\ snapshot' \subseteq snapshot /\ pc' = pc
        BY <1>20 DEF RunIInv, TypeOK, ServerRequestFails, RunnerKeeps
  <2> QED BY <2>1, <2>2, <2>3 DEF RunIInv, EarlyBook, Live, Settles, Early
<1>21. ASSUME NEW k \in FrameKinds, NEW id \in Turns \cup Threads, Ingest(k, id) PROVE EarlyBook'
  <2>1. targets' \subseteq streams \cup attaching /\ UNCHANGED <<pc, outcome, admitted, snapshot>>
        BY <1>21 DEF Ingest, Targets
  <2> QED BY <2>1 DEF RunIInv, TypeOK, RunBook, Attaching, Replaying, EarlyBook, Live, Early
<1>22. ASSUME NEW k \in FrameKinds, NEW id \in Turns \cup Threads, IngestOverBudget(k, id) PROVE EarlyBook'
      BY <1>22, ConstantsAssumption DEF RunIInv, TypeOK, EarlyBook, Live, Early, IngestOverBudget, FailClient
<1>23. ASSUME NEW r \in Runs, AcceptTarget(r) PROVE EarlyBook'
  <2>1. frame \in Frames
        BY <1>23 DEF RunIInv, TypeOK, LogBook, AcceptTarget, Frames
  <2>2. r \in targets /\ AcceptInto(r, frame) /\ UNCHANGED <<pc, outcome, snapshot>> /\ targets' \subseteq targets
        BY <1>23 DEF AcceptTarget
  <2> QED BY <2>1, <2>2, AcceptEffect DEF RunIInv, EarlyBook, Live, Early
<1>24. ASSUME NEW r \in Runs, AcceptOverBudget(r) PROVE EarlyBook'
      BY <1>24, ConstantsAssumption DEF RunIInv, TypeOK, EarlyBook, Live, Early, AcceptOverBudget, FailClient
<1>25. CASE ReaderComplete
  <2>1. PICK S \in SUBSET Runs : Settles(S) /\ S \subseteq admitted  BY <1>25, EndingSettles
  <2>2. \A s \in S : s \in Runs => pc[s] \notin Early \/ pc'[s] \notin Early
        BY <2>1 DEF RunIInv, EarlyBook
  <2>3. UNCHANGED <<admitted, targets>> /\ snapshot' \subseteq snapshot /\ pc' = pc
        BY <1>25 DEF RunIInv, TypeOK, ReaderComplete
  <2> QED BY <2>1, <2>2, <2>3 DEF RunIInv, EarlyBook, Live, Settles, Early
<1>26. CASE CallbackOk
  <2>1. PICK S \in SUBSET Runs : Settles(S) /\ S \subseteq admitted  BY <1>26, EndingSettles
  <2>2. \A s \in S : s \in Runs => pc[s] \notin Early \/ pc'[s] \notin Early
        BY <2>1 DEF RunIInv, EarlyBook
  <2>3. UNCHANGED <<admitted, targets>> /\ snapshot' \subseteq snapshot /\ pc' = pc
        BY <1>26 DEF RunIInv, TypeOK, CallbackOk, DispKeeps
  <2> QED BY <2>1, <2>2, <2>3 DEF RunIInv, EarlyBook, Live, Settles, Early
<1>27. CASE FailAllTake
  <2>1. snapshot' = streams \cup attaching /\ UNCHANGED <<pc, outcome, admitted, targets>>
        BY <1>27 DEF FailAllTake, CloserKeeps
  <2> QED BY <2>1 DEF RunIInv, TypeOK, RunBook, Attaching, Replaying, EarlyBook, Live, Early
<1>28. ASSUME NEW n \in Frames, FailAllResolve(n) PROVE EarlyBook'
  <2>1. owner[n] \in Runs /\ log[n].id = answer[owner[n]] /\ n \in 1..Len(log)
        BY <1>28 DEF RunIInv, TypeOK, CloseBook, OwnerBook, Owned, Ingested, FailAllResolve
  <2>2. log[n].id # None
        BY <2>1, LogTyped DEF RunIInv
  <2>3. pc[owner[n]] \notin Early
        BY <2>1, <2>2 DEF RunIInv, TypeOK, RunBook, EarlyBook, Early
  <2>4. \A s \in Runs : s # owner[n] => (s \in admitted' <=> s \in admitted)
        BY <1>28, <2>1, AcceptEffect DEF Resolve, RunIInv, FailAllResolve
  <2>5. UNCHANGED <<pc, outcome, snapshot, targets>>
        BY <1>28 DEF FailAllResolve, CloserKeeps
  <2> QED BY <2>3, <2>4, <2>5 DEF RunIInv, EarlyBook, Live, Early
<1>29. CASE FailAllFinish
  <2>1. PICK S : Settles(S) /\ S = snapshot  BY <1>29, EndingSettles
  <2>2. \A s \in S : s \in Runs => pc[s] \notin Early \/ pc'[s] \notin Early
        BY <2>1 DEF RunIInv, EarlyBook
  <2>3. UNCHANGED <<admitted, targets>> /\ snapshot' \subseteq snapshot /\ pc' = pc
        BY <1>29 DEF RunIInv, TypeOK, FailAllFinish, CloserKeeps
  <2> QED BY <2>1, <2>2, <2>3 DEF RunIInv, EarlyBook, Live, Settles, Early
<1>30. CASE UNCHANGED vars
      BY <1>1, <1>30 DEF vars
<1> QED
    BY <1>1, <1>2, <1>3, <1>4, <1>5, <1>6, <1>7, <1>8, <1>9, <1>10, <1>11, <1>12, <1>13, <1>14,
       <1>15, <1>16, <1>17, <1>18, <1>19, <1>20, <1>21, <1>22, <1>23, <1>24, <1>25, <1>26,
       <1>27, <1>28, <1>29, <1>30
    DEF Next, RunnerStep, ReaderStep, DispatcherStep, CloserStep

(* Notes are replayed at registration, a turn after its publication.       *)
LEMMA NoteStep == RunIInv /\ [Next]_vars => NoteBook'
<1> SUFFICES ASSUME RunIInv, [Next]_vars PROVE NoteBook'
    OBVIOUS
<1> DEFINE kept == <<local, log, pc, pendingThread, replaying>>
<1> USE DEF runVars, stateVars, tableVars, pendVars, evidVars, readerVars, dispVars, closeVars
<1>1. CASE UNCHANGED kept
      BY <1>1 DEF RunIInv, TypeOK, NoteBook, Replaying
<1>2. ASSUME NEW r \in Runs,
             CloseStream(r)
      PROVE  UNCHANGED kept
      BY <1>2 DEF CloseStream, RunnerKeeps
<1>3. CASE Enqueue \/ EnqueueFull \/ EnqueueClosed \/ AwaitPublication \/ ReaderComplete \/
           (\E r \in Runs : AcceptTarget(r)) \/ (\E r \in Runs : AcceptOverBudget(r))
  <2>1. UNCHANGED kept
        BY <1>3 DEF AcceptTarget, AcceptOverBudget, Enqueue, EnqueueFull, EnqueueClosed,
               AwaitPublication, ReaderComplete, FailClient
  <2> QED BY <1>1, <2>1
<1>4. CASE Dequeue \/ EvidenceReady \/ DispatcherDiscard \/ DispatcherStop \/ DispatcherExit \/
           CallbackOk \/ CallbackError \/ DispatcherFailed
  <2>1. UNCHANGED kept
        BY <1>4 DEF Dequeue, EvidenceReady, DispatcherDiscard, DispatcherStop, DispatcherExit,
               CallbackOk, CallbackError, DispatcherFailed, DispKeeps, FailClient
  <2> QED BY <1>1, <2>1
<1>5. CASE CloserCancel \/ FailAllFinish \/ Publish \/ StopDispatch \/ GraceExpires \/
           ShutdownDiscard \/ (\E cause \in Causes : Close(cause)) \/
           (\E n \in Frames : FailAllResolve(n))
  <2>1. UNCHANGED kept
        BY <1>5 DEF Close, CloserCancel, FailAllResolve, FailAllFinish, Publish, StopDispatch,
               GraceExpires, ShutdownDiscard, CloserKeeps
  <2> QED BY <1>1, <2>1
<1>6. ASSUME NEW th \in Threads, NEW t \in Turns, ServerRequestFails(th, t)
      PROVE  UNCHANGED kept
      BY <1>6 DEF ServerRequestFails, RunnerKeeps
<1>7. ASSUME NEW r \in Runs, CallThread(r) PROVE NoteBook'
      BY <1>7 DEF RunIInv, TypeOK, NoteBook, Replaying, CallThread, RunnerKeeps
<1>8. ASSUME NEW r \in Runs, ThreadResponse(r) PROVE NoteBook'
      BY <1>8 DEF RunIInv, TypeOK, NoteBook, Replaying, ThreadResponse, RunnerKeeps
<1>9. ASSUME NEW r \in Runs, ThreadCallError(r) PROVE NoteBook'
      BY <1>9 DEF RunIInv, TypeOK, NoteBook, Replaying, ThreadCallError, RunnerKeeps
<1>10. ASSUME NEW r \in Runs, RegisterRefused(r) PROVE NoteBook'
      BY <1>10 DEF RunIInv, TypeOK, NoteBook, Replaying, RegisterRefused, RunnerKeeps
<1>11. ASSUME NEW r \in Runs, Register(r) PROVE NoteBook'
      BY <1>11 DEF RunIInv, TypeOK, NoteBook, Replaying, Register, RunnerKeeps, NotesOf
<1>12. ASSUME NEW r \in Runs, ThreadReplay(r) PROVE NoteBook'
      BY <1>12 DEF RunIInv, TypeOK, NoteBook, Replaying, ThreadReplay, RunnerKeeps
<1>13. ASSUME NEW r \in Runs, CallTurn(r) PROVE NoteBook'
      BY <1>13 DEF RunIInv, TypeOK, NoteBook, Replaying, CallTurn, RunnerKeeps
<1>14. ASSUME NEW r \in Runs, FinishAttaching(r) PROVE NoteBook'
      BY <1>14 DEF RunIInv, TypeOK, NoteBook, Replaying, FinishAttaching, RunnerKeeps
<1>15. ASSUME NEW r \in Runs, NEW t \in Turns, TurnResponse(r, t) PROVE NoteBook'
      BY <1>15 DEF RunIInv, TypeOK, NoteBook, Replaying, TurnResponse, RunnerKeeps
<1>16. ASSUME NEW r \in Runs, AttachGate(r) PROVE NoteBook'
      BY <1>16 DEF RunIInv, TypeOK, NoteBook, Replaying, AttachGate, RunnerKeeps
<1>17. ASSUME NEW r \in Runs, AttachPublish(r) PROVE NoteBook'
      BY <1>17, PublishEffect DEF RunIInv, NoteBook, Replaying
<1>18. ASSUME NEW r \in Runs, AttachReplay(r) PROVE NoteBook'
  <2>1. /\ UNCHANGED <<pendingThread, log, replaying>> /\ pc[r] = "replay"
        /\ \A s \in Runs : IF s = r THEN pc'[s] \in Replaying ELSE pc'[s] = pc[s]
        /\ \A s \in Runs : local'[s] \subseteq local[s]
        BY <1>18 DEF AttachReplay, RunnerKeeps, RunIInv, TypeOK, Replaying
  <2> QED BY <2>1 DEF RunIInv, NoteBook, Replaying
<1>19. ASSUME NEW r \in Runs, AttachComplete(r) PROVE NoteBook'
      BY <1>19 DEF RunIInv, TypeOK, NoteBook, Replaying, AttachComplete, RunnerKeeps
<1>20. ASSUME NEW r \in Runs, AttachFinish(r) PROVE NoteBook'
      BY <1>20 DEF RunIInv, TypeOK, NoteBook, Replaying, AttachFinish, RunnerKeeps
<1>21. ASSUME NEW k \in FrameKinds, NEW id \in Turns \cup Threads, Ingest(k, id) PROVE NoteBook'
  <2>1. \A n \in Ingested : log'[n] = log[n]
        BY <1>21, LogEffect DEF RunIInv, Ingest, Ingested
  <2>2. log'[Len(log) + 1].kind = k
        BY <1>21, LogEffect DEF RunIInv, Ingest
  <2>3. UNCHANGED <<pc, local, replaying>>
        BY <1>21 DEF Ingest
  <2>4. pendingThread' = pendingThread \/ (k = "note" /\ pendingThread' = pendingThread \cup {Len(log) + 1})
        BY <1>21 DEF Ingest, SavesThread
  <2> QED BY <2>1, <2>2, <2>3, <2>4 DEF RunIInv, LogBook, NoteBook
<1>22. ASSUME NEW k \in FrameKinds, NEW id \in Turns \cup Threads, IngestOverBudget(k, id) PROVE NoteBook'
  <2>1. \A n \in Ingested : log'[n] = log[n]
        BY <1>22, LogEffect DEF RunIInv, IngestOverBudget, Ingested
  <2>2. log'[Len(log) + 1].kind = k
        BY <1>22, LogEffect DEF RunIInv, IngestOverBudget
  <2>3. UNCHANGED <<pc, local, replaying>>
        BY <1>22 DEF IngestOverBudget
  <2>4. pendingThread' = pendingThread \/ (k = "note" /\ pendingThread' = pendingThread \cup {Len(log) + 1})
        BY <1>22 DEF IngestOverBudget, SavesThread
  <2> QED BY <2>1, <2>2, <2>3, <2>4 DEF RunIInv, LogBook, NoteBook
<1>23. CASE FailAllTake
      BY <1>23 DEF RunIInv, TypeOK, NoteBook, Replaying, FailAllTake, CloserKeeps
<1>24. CASE UNCHANGED vars
      BY <1>1, <1>24 DEF vars
<1> QED
    BY <1>1, <1>2, <1>3, <1>4, <1>5, <1>6, <1>7, <1>8, <1>9, <1>10, <1>11, <1>12, <1>13, <1>14,
       <1>15, <1>16, <1>17, <1>18, <1>19, <1>20, <1>21, <1>22, <1>23, <1>24
    DEF Next, RunnerStep, ReaderStep, DispatcherStep, CloserStep

(* Notifications keep their owners when the log grows.                     *)
LEMMA OwnersStay ==
  ASSUME RunIInv, \A n \in Ingested : n \in Ingested' /\ log'[n] = log[n],
         UNCHANGED <<answer, outcome, attaching, replaying, owner, pendingEvents>>
  PROVE  OwnerBook'
<1>1. \A n \in Frames : Owned(n)' =>
         n \in Ingested' /\ log'[n].kind # "note" /\ log'[n].id = answer[owner[n]]
      BY DEF RunIInv, OwnerBook, Owned
<1>2. \A n \in pendingEvents : Owned(n)' /\ (Live(owner[n]) => owner[n] \in attaching)
      BY DEF RunIInv, OwnerBook, Owned
<1>3. \A r \in Runs : \A n \in replaying[r] :
         Owned(n)' /\ log'[n].id = answer[r] /\ (Live(owner[n]) => owner[n] = r)
      BY DEF RunIInv, OwnerBook, LogBook, Owned
<1> QED BY <1>1, <1>2, <1>3 DEF OwnerBook, Live

(* A pended notification has the run that its turn was armed for; the      *)
(* run leaves attaching only by taking it along, or by ending.             *)
LEMMA OwnerStep == RunIInv /\ [Next]_vars => OwnerBook'
<1> SUFFICES ASSUME RunIInv, [Next]_vars PROVE OwnerBook'
    OBVIOUS
<1> DEFINE kept == <<answer, attaching, log, outcome, owner, pendingEvents, replaying>>
<1> USE DEF runVars, stateVars, tableVars, pendVars, evidVars, readerVars, dispVars, closeVars
<1>1. CASE UNCHANGED kept
      BY <1>1 DEF RunIInv, OwnerBook, Live, Owned, Ingested
<1>2. ASSUME NEW r \in Runs,
             CallThread(r) \/ ThreadResponse(r) \/ ThreadCallError(r) \/ ThreadReplay(r) \/
                CallTurn(r) \/ AttachGate(r) \/ AttachReplay(r)
      PROVE  UNCHANGED kept
      BY <1>2 DEF CallThread, ThreadResponse, ThreadCallError, ThreadReplay, CallTurn, AttachGate,
             AttachReplay, RunnerKeeps
<1>3. CASE Enqueue \/ EnqueueFull \/ EnqueueClosed \/ AwaitPublication \/
           (\E r \in Runs : AcceptTarget(r)) \/ (\E r \in Runs : AcceptOverBudget(r))
  <2>1. UNCHANGED kept
        BY <1>3 DEF AcceptTarget, AcceptOverBudget, Enqueue, EnqueueFull, EnqueueClosed,
               AwaitPublication, FailClient
  <2> QED BY <1>1, <2>1
<1>4. CASE Dequeue \/ EvidenceReady \/ DispatcherDiscard \/ DispatcherStop \/ DispatcherExit \/
           CallbackError \/ DispatcherFailed
  <2>1. UNCHANGED kept
        BY <1>4 DEF Dequeue, EvidenceReady, DispatcherDiscard, DispatcherStop, DispatcherExit,
               CallbackError, DispatcherFailed, DispKeeps, FailClient
  <2> QED BY <1>1, <2>1
<1>5. CASE CloserCancel \/ Publish \/ StopDispatch \/ GraceExpires \/ ShutdownDiscard \/
           (\E cause \in Causes : Close(cause)) \/ (\E n \in Frames : FailAllResolve(n))
  <2>1. UNCHANGED kept
        BY <1>5 DEF Close, CloserCancel, FailAllResolve, Publish, StopDispatch, GraceExpires,
               ShutdownDiscard, CloserKeeps
  <2> QED BY <1>1, <2>1
<1>6. ASSUME NEW r \in Runs, RegisterRefused(r) PROVE OwnerBook'
  <2>1. Settles({r})  BY <1>6, EndingSettles
  <2>2. UNCHANGED <<owner, log, answer, pendingEvents, replaying>>  BY <1>6 DEF RegisterRefused, RunnerKeeps
  <2> QED BY <2>1, <2>2 DEF RunIInv, TypeOK, OwnerBook, Live, Owned, Ingested, Settles
<1>7. ASSUME NEW r \in Runs, Register(r) PROVE OwnerBook'
      BY <1>7 DEF RunIInv, TypeOK, OwnerBook, Live, Owned, Ingested, Register, RunnerKeeps
<1>8. ASSUME NEW r \in Runs, FinishAttaching(r) PROVE OwnerBook'
  <2>1. Settles({r})  BY <1>8, EndingSettles
  <2>2. UNCHANGED <<owner, log, answer, pendingEvents, replaying>>  BY <1>8 DEF FinishAttaching, RunnerKeeps
  <2> QED BY <2>1, <2>2 DEF RunIInv, TypeOK, OwnerBook, Live, Owned, Ingested, Settles
<1>9. ASSUME NEW r \in Runs, NEW t \in Turns, TurnResponse(r, t) PROVE OwnerBook'
  <2>1. answer[r] = None /\ replaying[r] = {}
        BY <1>9 DEF RunIInv, RunBook, NoteBook, Replaying, TurnResponse
  <2>2. /\ UNCHANGED <<owner, log, pendingEvents, replaying, outcome, attaching>>
        /\ \A s \in Runs : s # r => answer'[s] = answer[s]
        BY <1>9 DEF TurnResponse, RunnerKeeps, RunIInv, TypeOK
  <2>3. \A n \in Frames : Owned(n) => owner[n] \in Runs \ {r}
    <3> SUFFICES ASSUME NEW n \in Frames, Owned(n) PROVE owner[n] \in Runs /\ owner[n] # r
        OBVIOUS
    <3>1. n \in 1..Len(log) /\ log[n].id = answer[owner[n]]
          BY DEF RunIInv, OwnerBook, Ingested
    <3>2. log[n].id # None
          BY <3>1, LogTyped DEF RunIInv
    <3>3. owner[n] \in Runs  BY DEF RunIInv, TypeOK, Owned
    <3> QED BY <2>1, <3>1, <3>2, <3>3
  <2>4. \A n \in Frames : Owned(n) =>
           n \in Ingested /\ log[n].kind # "note" /\ log[n].id = answer[owner[n]]
        BY DEF RunIInv, OwnerBook
  <2>5. \A n \in pendingEvents : Owned(n) /\ (Live(owner[n]) => owner[n] \in attaching)
        BY DEF RunIInv, OwnerBook
  <2>6. \A s \in Runs : \A n \in replaying[s] :
           Owned(n) /\ log[n].id = answer[s] /\ (Live(owner[n]) => owner[n] = s)
        BY DEF RunIInv, OwnerBook
  <2> QED BY <2>1, <2>2, <2>3, <2>4, <2>5, <2>6 DEF OwnerBook, Live, Owned, Ingested
<1>10. ASSUME NEW r \in Runs, AttachPublish(r) PROVE OwnerBook'
  <2>1. UNCHANGED <<owner, log, answer, outcome>>
        BY <1>10, PublishEffect
  <2>2. \A n \in pendingEvents' : Owned(n) /\ (Live(owner[n]) => owner[n] \in attaching')
    <3> SUFFICES ASSUME NEW n \in pendingEvents' PROVE Owned(n) /\ (Live(owner[n]) => owner[n] \in attaching')
        OBVIOUS
    <3>1. n \in pendingEvents /\ n \in Frames /\ (outcome[r] = None => log[n].id # answer[r])
          BY <1>10, PublishEffect DEF RunIInv, TypeOK
    <3>2. Owned(n) /\ owner[n] \in Runs /\ (Live(owner[n]) => owner[n] \in attaching)
          /\ log[n].id = answer[owner[n]]
          BY <3>1 DEF RunIInv, TypeOK, OwnerBook, Owned
    <3>3. Live(owner[n]) => owner[n] # r
          BY <3>1, <3>2 DEF Live
    <3> QED BY <1>10, <3>2, <3>3, PublishEffect
  <2>3. \A n \in replaying'[r] : Owned(n) /\ log[n].id = answer[r] /\ (Live(owner[n]) => owner[n] = r)
    <3> SUFFICES ASSUME NEW n \in replaying'[r]
                 PROVE  Owned(n) /\ log[n].id = answer[r] /\ (Live(owner[n]) => owner[n] = r)
        OBVIOUS
    <3>1. n \in pendingEvents /\ n \in Frames /\ log[n].id = answer[r] /\ outcome[r] = None
          BY <1>10, PublishEffect DEF RunIInv, TypeOK
    <3>2. Owned(n) /\ owner[n] \in Runs /\ (Live(owner[n]) => owner[n] \in attaching)
          /\ log[n].id = answer[owner[n]]
          BY <3>1 DEF RunIInv, TypeOK, OwnerBook, Owned
    <3>3. r \in attaching /\ answer[r] # None
          BY <1>10, <3>1, PublishEffect, ConstantsAssumption DEF RunIInv, RunBook, Live, Attaching
    <3>4. owner[n] \in attaching => owner[n] = r
      <4>1. ThreadOf[owner[n]] = ThreadOf[r]
        <5>1. answer[r] = answer[owner[n]]  BY <3>1, <3>2
        <5> QED BY <5>1, <3>2, <3>3 DEF RunIInv, RunBook
      <4> QED BY <4>1, <3>3 DEF RunIInv, RunBook
    <3> QED BY <3>1, <3>2, <3>4
  <2>4. \A s \in Runs \ {r} : replaying'[s] = replaying[s]
        BY <1>10, PublishEffect
  <2> QED BY <2>1, <2>2, <2>3, <2>4 DEF RunIInv, OwnerBook, Live, Owned, Ingested
<1>11. ASSUME NEW r \in Runs, AttachComplete(r) PROVE OwnerBook'
  <2>1. PICK S \in SUBSET Runs : Settles(S)  BY <1>11, EndingSettles
  <2>2. UNCHANGED <<owner, log, answer, pendingEvents, replaying>>  BY <1>11 DEF AttachComplete, RunnerKeeps
  <2> QED BY <2>1, <2>2 DEF RunIInv, TypeOK, OwnerBook, Live, Owned, Ingested, Settles
<1>12. ASSUME NEW r \in Runs, AttachFinish(r) PROVE OwnerBook'
      BY <1>12 DEF RunIInv, TypeOK, OwnerBook, Live, Owned, Ingested, AttachFinish, RunnerKeeps
<1>13. ASSUME NEW r \in Runs, CloseStream(r) PROVE OwnerBook'
  <2>1. Settles({r})  BY <1>13, EndingSettles
  <2>2. UNCHANGED <<owner, log, answer, pendingEvents, replaying>>  BY <1>13 DEF CloseStream, RunnerKeeps
  <2> QED BY <2>1, <2>2 DEF RunIInv, TypeOK, OwnerBook, Live, Owned, Ingested, Settles
<1>14. ASSUME NEW th \in Threads, NEW t \in Turns, ServerRequestFails(th, t) PROVE OwnerBook'
  <2>1. Settles(RequestTargets(th, t))  BY <1>14, EndingSettles
  <2>2. UNCHANGED <<owner, log, answer, pendingEvents, replaying>>  BY <1>14 DEF ServerRequestFails, RunnerKeeps
  <2> QED BY <2>1, <2>2 DEF RunIInv, TypeOK, OwnerBook, Live, Owned, Ingested, Settles
<1>15. ASSUME NEW k \in FrameKinds, NEW id \in Turns \cup Threads, Ingest(k, id) PROVE OwnerBook'
  <2> DEFINE z == Len(log) + 1
  <2>1. /\ \A n \in Ingested : n \in Ingested' /\ log'[n] = log[n]
        /\ z \in Ingested' /\ log'[z].kind = k /\ log'[z].id = id /\ z \notin Ingested
        BY <1>15, LogEffect DEF RunIInv, Ingest, Ingested
  <2>2. UNCHANGED <<answer, outcome, attaching, replaying>>
        BY <1>15 DEF Ingest
  <2>3. z \in Frames
        BY <1>15, LogEffect DEF RunIInv, Ingest, Frames
  <2>4. \A n \in Frames : n # z => owner'[n] = owner[n]
        BY <1>15, <2>3 DEF Ingest, RunIInv, TypeOK
  <2>5. CASE PendsTurn(k, id)
    <3>1. k # "note" /\ id \in Turns /\ armedTurn[id] \in Runs
          BY <1>15, <2>5 DEF PendsTurn, TurnKinds, Terminals, Ingest, Spoken, RunIInv, TypeOK
    <3>2. owner'[z] = armedTurn[id] /\ pendingEvents' = pendingEvents \cup {z}
          BY <1>15, <2>3, <2>5 DEF Ingest, RunIInv, TypeOK
    <3>3. answer[armedTurn[id]] = id /\ (Live(armedTurn[id]) => armedTurn[id] \in attaching)
          BY <2>5, <3>1 DEF RunIInv, ArmBook, PendsTurn
    <3>4. armedTurn[id] # None
          BY <2>5 DEF PendsTurn
    <3>5. \A n \in Frames \ {z} : Owned(n)' <=> Owned(n)
          BY <2>4 DEF Owned
    <3>6. \A n \in Frames : Owned(n)' =>
             n \in Ingested' /\ log'[n].kind # "note" /\ log'[n].id = answer[owner'[n]]
          BY <2>1, <2>4, <3>1, <3>2, <3>3, <3>5 DEF RunIInv, OwnerBook
    <3>7. \A n \in pendingEvents \cup {z} : Owned(n)' /\ (Live(owner'[n]) => owner'[n] \in attaching)
          BY <2>1, <2>4, <3>2, <3>3, <3>4, <3>5 DEF RunIInv, TypeOK, OwnerBook, LogBook, Owned
    <3>8. \A s \in Runs : \A n \in replaying[s] :
             n # z /\ Owned(n)' /\ log'[n].id = answer[s] /\ (Live(owner'[n]) => owner'[n] = s)
      <4> SUFFICES ASSUME NEW s \in Runs, NEW n \in replaying[s]
                   PROVE  n # z /\ Owned(n)' /\ log'[n].id = answer[s] /\ (Live(owner'[n]) => owner'[n] = s)
          BY DEF Live
      <4>1. n \in Frames /\ n \in Ingested
            BY DEF RunIInv, TypeOK, LogBook
      <4>2. Owned(n) /\ log[n].id = answer[s] /\ (Live(owner[n]) => owner[n] = s)
            BY DEF RunIInv, OwnerBook
      <4>3. n # z /\ owner'[n] = owner[n] /\ log'[n] = log[n]
            BY <2>1, <2>4, <4>1
      <4> QED BY <4>1, <4>2, <4>3, <3>5
    <3> QED BY <2>2, <3>2, <3>6, <3>7, <3>8 DEF OwnerBook, Live
  <2>6. CASE ~PendsTurn(k, id)
    <3>1. UNCHANGED <<owner, pendingEvents>>
          BY <1>15, <2>6 DEF Ingest
    <3> QED BY <2>1, <2>2, <3>1, OwnersStay
  <2> QED BY <2>5, <2>6
<1>16. ASSUME NEW k \in FrameKinds, NEW id \in Turns \cup Threads, IngestOverBudget(k, id) PROVE OwnerBook'
  <2>1. \A n \in Ingested : n \in Ingested' /\ log'[n] = log[n]
        BY <1>16, LogEffect DEF RunIInv, IngestOverBudget, Ingested
  <2>2. UNCHANGED <<answer, outcome, attaching, replaying, owner, pendingEvents>>
        BY <1>16 DEF IngestOverBudget
  <2> QED BY <2>1, <2>2, OwnersStay
<1>17. CASE ReaderComplete
  <2>1. PICK S \in SUBSET Runs : Settles(S)  BY <1>17, EndingSettles
  <2>2. UNCHANGED <<owner, log, answer, pendingEvents, replaying>>  BY <1>17 DEF ReaderComplete
  <2> QED BY <2>1, <2>2 DEF RunIInv, TypeOK, OwnerBook, Live, Owned, Ingested, Settles
<1>18. CASE CallbackOk
  <2>1. PICK S \in SUBSET Runs : Settles(S)  BY <1>18, EndingSettles
  <2>2. UNCHANGED <<owner, log, answer, pendingEvents, replaying>>  BY <1>18 DEF CallbackOk, DispKeeps
  <2> QED BY <2>1, <2>2 DEF RunIInv, TypeOK, OwnerBook, Live, Owned, Ingested, Settles
<1>19. CASE FailAllTake
      BY <1>19 DEF RunIInv, TypeOK, OwnerBook, Live, Owned, Ingested, FailAllTake, CloserKeeps
<1>20. CASE FailAllFinish
  <2>1. Settles(snapshot)  BY <1>20, EndingSettles
  <2>2. UNCHANGED <<owner, log, answer, pendingEvents, replaying>>  BY <1>20 DEF FailAllFinish, CloserKeeps
  <2> QED BY <2>1, <2>2 DEF RunIInv, TypeOK, OwnerBook, Live, Owned, Ingested, Settles
<1>21. CASE UNCHANGED vars
      BY <1>1, <1>21 DEF vars
<1> QED
    BY <1>1, <1>2, <1>3, <1>4, <1>5, <1>6, <1>7, <1>8, <1>9, <1>10, <1>11, <1>12, <1>13, <1>14,
       <1>15, <1>16, <1>17, <1>18, <1>19, <1>20, <1>21
    DEF Next, RunnerStep, ReaderStep, DispatcherStep, CloserStep

(* Targets are chosen by identities that do not change afterwards.         *)
LEMMA TargetStep == RunIInv /\ [Next]_vars => TargetBook'
<1> SUFFICES ASSUME RunIInv, [Next]_vars PROVE TargetBook'
    OBVIOUS
<1> DEFINE kept == <<frame, log, targets, turnID>>
<1> USE DEF runVars, stateVars, tableVars, pendVars, evidVars, readerVars, dispVars, closeVars
<1>1. CASE UNCHANGED kept
      BY <1>1 DEF RunIInv, TargetBook
<1>2. ASSUME NEW r \in Runs,
             CallThread(r) \/ ThreadResponse(r) \/ ThreadCallError(r) \/
                RegisterRefused(r) \/ Register(r) \/ ThreadReplay(r) \/ CallTurn(r) \/
                FinishAttaching(r) \/ (\E t \in Turns : TurnResponse(r, t)) \/
                AttachPublish(r) \/ AttachReplay(r) \/ AttachComplete(r) \/ AttachFinish(r) \/
                CloseStream(r)
      PROVE  UNCHANGED kept
      BY <1>2 DEF CallThread, ThreadResponse, ThreadCallError, RegisterRefused, Register,
             ThreadReplay, CallTurn, FinishAttaching, TurnResponse, AttachPublish, AttachReplay,
             AttachComplete, AttachFinish, CloseStream, RunnerKeeps
<1>3. CASE Enqueue \/ EnqueueFull \/ EnqueueClosed \/ AwaitPublication \/ ReaderComplete
  <2>1. UNCHANGED kept
        BY <1>3 DEF Enqueue, EnqueueFull, EnqueueClosed, AwaitPublication, ReaderComplete, FailClient
  <2> QED BY <1>1, <2>1
<1>4. CASE Dequeue \/ EvidenceReady \/ DispatcherDiscard \/ DispatcherStop \/ DispatcherExit \/
           CallbackOk \/ CallbackError \/ DispatcherFailed
  <2>1. UNCHANGED kept
        BY <1>4 DEF Dequeue, EvidenceReady, DispatcherDiscard, DispatcherStop, DispatcherExit,
               CallbackOk, CallbackError, DispatcherFailed, DispKeeps, FailClient
  <2> QED BY <1>1, <2>1
<1>5. CASE CloserCancel \/ FailAllTake \/ FailAllFinish \/ Publish \/ StopDispatch \/
           GraceExpires \/ ShutdownDiscard \/ (\E cause \in Causes : Close(cause)) \/
           (\E n \in Frames : FailAllResolve(n))
  <2>1. UNCHANGED kept
        BY <1>5 DEF Close, CloserCancel, FailAllTake, FailAllResolve, FailAllFinish, Publish,
               StopDispatch, GraceExpires, ShutdownDiscard, CloserKeeps
  <2> QED BY <1>1, <2>1
<1>6. ASSUME NEW th \in Threads, NEW t \in Turns, ServerRequestFails(th, t)
      PROVE  UNCHANGED kept
      BY <1>6 DEF ServerRequestFails, RunnerKeeps
<1>7. ASSUME NEW r \in Runs, AttachGate(r) PROVE TargetBook'
  <2>1. UNCHANGED <<targets, log, frame>> /\ \A s \in Runs : s # r => turnID'[s] = turnID[s]
        BY <1>7 DEF AttachGate, RunnerKeeps, RunIInv, TypeOK
  <2>2. turnID[r] = None
        BY <1>7 DEF AttachGate, RunIInv, RunBook
  <2>3. r \in targets => log[frame].kind = "note"
    <3>1. r \in targets => frame \in 1..Len(log)
          BY DEF RunIInv, TypeOK, LogBook
    <3> QED BY <2>2, <3>1, LogTyped DEF RunIInv, TargetBook
  <2> QED BY <2>1, <2>3 DEF RunIInv, TypeOK, TargetBook
<1>8. ASSUME NEW k \in FrameKinds, NEW id \in Turns \cup Threads, Ingest(k, id) PROVE TargetBook'
  <2>1. /\ frame' = Len(log) + 1 /\ targets' = Targets(k, id) /\ UNCHANGED turnID
        /\ log'[Len(log) + 1].kind = k /\ log'[Len(log) + 1].id = id
        BY <1>8, LogEffect DEF RunIInv, Ingest
  <2> QED BY <2>1 DEF TargetBook, Targets
<1>9. ASSUME NEW k \in FrameKinds, NEW id \in Turns \cup Threads, IngestOverBudget(k, id) PROVE TargetBook'
      BY <1>9 DEF RunIInv, TypeOK, TargetBook, IngestOverBudget
<1>10. ASSUME NEW r \in Runs, AcceptTarget(r) PROVE TargetBook'
      BY <1>10 DEF RunIInv, TypeOK, TargetBook, AcceptTarget
<1>11. ASSUME NEW r \in Runs, AcceptOverBudget(r) PROVE TargetBook'
      BY <1>11 DEF RunIInv, TypeOK, TargetBook, AcceptOverBudget
<1>12. CASE UNCHANGED vars
      BY <1>1, <1>12 DEF vars
<1> QED
    BY <1>1, <1>2, <1>3, <1>4, <1>5, <1>6, <1>7, <1>8, <1>9, <1>10, <1>11, <1>12
    DEF Next, RunnerStep, ReaderStep, DispatcherStep, CloserStep

(* A turn is armed for a live run only while that run attaches.            *)
LEMMA ArmStep == RunIInv /\ [Next]_vars => ArmBook'
<1> SUFFICES ASSUME RunIInv, [Next]_vars PROVE ArmBook'
    OBVIOUS
<1> DEFINE kept == <<answer, armedTurn, attaching, outcome>>
<1> USE DEF runVars, stateVars, tableVars, pendVars, evidVars, readerVars, dispVars, closeVars
<1>1. CASE UNCHANGED kept
      BY <1>1 DEF RunIInv, ArmBook, Live
<1>2. ASSUME NEW r \in Runs,
             CallThread(r) \/ ThreadResponse(r) \/ ThreadCallError(r) \/ ThreadReplay(r) \/
                CallTurn(r) \/ AttachGate(r) \/ AttachReplay(r) \/ AttachFinish(r)
      PROVE  UNCHANGED kept
      BY <1>2 DEF CallThread, ThreadResponse, ThreadCallError, ThreadReplay, CallTurn, AttachGate,
             AttachReplay, AttachFinish, RunnerKeeps
<1>3. CASE Enqueue \/ EnqueueFull \/ EnqueueClosed \/ AwaitPublication \/
           (\E k \in FrameKinds, id \in Turns \cup Threads : Ingest(k, id)) \/
           (\E k \in FrameKinds, id \in Turns \cup Threads : IngestOverBudget(k, id)) \/
           (\E r \in Runs : AcceptTarget(r)) \/ (\E r \in Runs : AcceptOverBudget(r))
  <2>1. UNCHANGED kept
        BY <1>3 DEF Ingest, IngestOverBudget, AcceptTarget, AcceptOverBudget, Enqueue, EnqueueFull,
               EnqueueClosed, AwaitPublication, FailClient
  <2> QED BY <1>1, <2>1
<1>4. CASE Dequeue \/ EvidenceReady \/ DispatcherDiscard \/ DispatcherStop \/ DispatcherExit \/
           CallbackError \/ DispatcherFailed
  <2>1. UNCHANGED kept
        BY <1>4 DEF Dequeue, EvidenceReady, DispatcherDiscard, DispatcherStop, DispatcherExit,
               CallbackError, DispatcherFailed, DispKeeps, FailClient
  <2> QED BY <1>1, <2>1
<1>5. CASE CloserCancel \/ Publish \/ StopDispatch \/ GraceExpires \/ ShutdownDiscard \/
           (\E cause \in Causes : Close(cause)) \/ (\E n \in Frames : FailAllResolve(n))
  <2>1. UNCHANGED kept
        BY <1>5 DEF Close, CloserCancel, FailAllResolve, Publish, StopDispatch, GraceExpires,
               ShutdownDiscard, CloserKeeps
  <2> QED BY <1>1, <2>1
<1>6. ASSUME NEW r \in Runs, RegisterRefused(r) PROVE ArmBook'
  <2>1. Settles({r})  BY <1>6, EndingSettles
  <2>2. UNCHANGED <<armedTurn, answer>>  BY <1>6 DEF RegisterRefused, RunnerKeeps
  <2> QED BY <2>1, <2>2 DEF RunIInv, TypeOK, ArmBook, Live, RunBook, Settles
<1>7. ASSUME NEW r \in Runs, Register(r) PROVE ArmBook'
      BY <1>7 DEF RunIInv, TypeOK, ArmBook, Live, Register, RunnerKeeps
<1>8. ASSUME NEW r \in Runs, FinishAttaching(r) PROVE ArmBook'
  <2>1. Settles({r})  BY <1>8, EndingSettles
  <2>2. UNCHANGED <<armedTurn, answer>>  BY <1>8 DEF FinishAttaching, RunnerKeeps
  <2> QED BY <2>1, <2>2 DEF RunIInv, TypeOK, ArmBook, Live, RunBook, Settles
<1>9. ASSUME NEW r \in Runs, NEW t \in Turns, TurnResponse(r, t) PROVE ArmBook'
  <2>1. r \in attaching \/ outcome[r] # None
        BY <1>9 DEF RunIInv, RunBook, Attaching, Live, TurnResponse
  <2>2. answer[r] = None
        BY <1>9 DEF RunIInv, RunBook, TurnResponse
  <2> QED BY <1>9, <2>1, <2>2, ConstantsAssumption DEF RunIInv, TypeOK, ArmBook, Live, TurnResponse, RunnerKeeps
<1>10. ASSUME NEW r \in Runs, AttachPublish(r) PROVE ArmBook'
  <2>1. /\ armedTurn' = [armedTurn EXCEPT ![turnID[r]] = None] /\ UNCHANGED <<answer, outcome>>
        /\ attaching' = attaching \ {r}
        BY <1>10 DEF AttachPublish
  <2>2. turnID[r] = answer[r] /\ answer[r] \in Turns
        BY <1>10 DEF AttachPublish, RunIInv, RunBook, Replaying
  <2> QED BY <2>1, <2>2 DEF RunIInv, TypeOK, ArmBook, Live
<1>11. ASSUME NEW r \in Runs, AttachComplete(r) PROVE ArmBook'
  <2>1. PICK S \in SUBSET Runs : Settles(S)  BY <1>11, EndingSettles
  <2>2. UNCHANGED <<armedTurn, answer>>  BY <1>11 DEF AttachComplete, RunnerKeeps
  <2> QED BY <2>1, <2>2 DEF RunIInv, TypeOK, ArmBook, Live, RunBook, Settles
<1>12. ASSUME NEW r \in Runs, CloseStream(r) PROVE ArmBook'
  <2>1. Settles({r})  BY <1>12, EndingSettles
  <2>2. UNCHANGED <<armedTurn, answer>>  BY <1>12 DEF CloseStream, RunnerKeeps
  <2> QED BY <2>1, <2>2 DEF RunIInv, TypeOK, ArmBook, Live, RunBook, Settles
<1>13. ASSUME NEW th \in Threads, NEW t \in Turns, ServerRequestFails(th, t) PROVE ArmBook'
  <2>1. Settles(RequestTargets(th, t))  BY <1>13, EndingSettles
  <2>2. UNCHANGED <<armedTurn, answer>>  BY <1>13 DEF ServerRequestFails, RunnerKeeps
  <2> QED BY <2>1, <2>2 DEF RunIInv, TypeOK, ArmBook, Live, RunBook, Settles
<1>14. CASE ReaderComplete
  <2>1. PICK S \in SUBSET Runs : Settles(S)  BY <1>14, EndingSettles
  <2>2. UNCHANGED <<armedTurn, answer>>  BY <1>14 DEF ReaderComplete
  <2> QED BY <2>1, <2>2 DEF RunIInv, TypeOK, ArmBook, Live, RunBook, Settles
<1>15. CASE CallbackOk
  <2>1. PICK S \in SUBSET Runs : Settles(S)  BY <1>15, EndingSettles
  <2>2. UNCHANGED <<armedTurn, answer>>  BY <1>15 DEF CallbackOk, DispKeeps
  <2> QED BY <2>1, <2>2 DEF RunIInv, TypeOK, ArmBook, Live, RunBook, Settles
<1>16. CASE FailAllTake
      BY <1>16 DEF RunIInv, TypeOK, ArmBook, Live, FailAllTake, CloserKeeps
<1>17. CASE FailAllFinish
  <2>1. Settles(snapshot)  BY <1>17, EndingSettles
  <2>2. UNCHANGED <<armedTurn, answer>>  BY <1>17 DEF FailAllFinish, CloserKeeps
  <2> QED BY <2>1, <2>2 DEF RunIInv, TypeOK, ArmBook, Live, RunBook, Settles
<1>18. CASE UNCHANGED vars
      BY <1>1, <1>18 DEF vars
<1> QED
    BY <1>1, <1>2, <1>3, <1>4, <1>5, <1>6, <1>7, <1>8, <1>9, <1>10, <1>11, <1>12, <1>13, <1>14,
       <1>15, <1>16, <1>17, <1>18
    DEF Next, RunnerStep, ReaderStep, DispatcherStep, CloserStep

(* failAll takes all that is unresolved in one section of turnMu, so       *)
(* nothing unresolved is left when it has resolved what it took.           *)
LEMMA CloseStep == RunIInv /\ [Next]_vars => CloseBook'
<1> SUFFICES ASSUME RunIInv, [Next]_vars PROVE CloseBook'
    OBVIOUS
<1> DEFINE kept == <<attaching, closeReason, closer, ctxDone, evidence, local, owner,
                     pendingEvents, ready, snapshot, stopped, streams>>
<1> USE DEF runVars, stateVars, tableVars, pendVars, evidVars, readerVars, dispVars, closeVars
<1>1. CASE UNCHANGED kept
      BY <1>1 DEF RunIInv, CloseBook, Owned, closed
<1>2. ASSUME NEW r \in Runs,
             CallThread(r) \/ ThreadResponse(r) \/ ThreadCallError(r) \/ CallTurn(r) \/
                (\E t \in Turns : TurnResponse(r, t)) \/ AttachGate(r) \/ AttachFinish(r)
      PROVE  UNCHANGED kept
      BY <1>2 DEF CallThread, ThreadResponse, ThreadCallError, CallTurn, TurnResponse, AttachGate,
             AttachFinish, RunnerKeeps
<1>3. CASE Enqueue \/ EnqueueClosed \/ AwaitPublication \/ (\E r \in Runs : AcceptTarget(r))
  <2>1. UNCHANGED kept
        BY <1>3 DEF AcceptTarget, Enqueue, EnqueueClosed, AwaitPublication
  <2> QED BY <1>1, <2>1
<1>4. CASE Dequeue \/ EvidenceReady \/ DispatcherDiscard \/ DispatcherExit \/ DispatcherFailed
  <2>1. UNCHANGED kept
        BY <1>4 DEF Dequeue, EvidenceReady, DispatcherDiscard, DispatcherExit, DispatcherFailed,
               DispKeeps
  <2> QED BY <1>1, <2>1
<1>5. CASE ShutdownDiscard
  <2>1. UNCHANGED kept
        BY <1>5 DEF ShutdownDiscard, CloserKeeps
  <2> QED BY <1>1, <2>1
<1>6. ASSUME NEW r \in Runs, RegisterRefused(r) PROVE CloseBook'
  <2>1. Settles({r})  BY <1>6, EndingSettles
  <2>2. UNCHANGED <<closer, closeReason, ctxDone, stopped, evidence, owner, snapshot, ready,
                    pendingEvents, local>>
        BY <1>6 DEF RegisterRefused, RunnerKeeps
  <2>3. attaching' \subseteq attaching /\ streams' \subseteq streams
        BY <2>1 DEF Settles
  <2> QED BY <2>2, <2>3 DEF RunIInv, TypeOK, CloseBook, Owned, closed
<1>7. ASSUME NEW r \in Runs, Register(r) PROVE CloseBook'
  <2>1. /\ closer = "none" /\ closeReason = None /\ local[r] = {}
        BY <1>7 DEF Register, RunIInv, CloseBook, NoteBook, Replaying, closed
  <2>2. /\ UNCHANGED <<closer, closeReason, ctxDone, stopped, evidence, owner, snapshot, ready, pendingEvents>>
        /\ \A s \in Runs : s # r => local'[s] = local[s]
        BY <1>7 DEF Register, RunnerKeeps, RunIInv, TypeOK
  <2> QED BY <2>1, <2>2 DEF RunIInv, TypeOK, CloseBook, Owned, closed
<1>8. ASSUME NEW r \in Runs, ThreadReplay(r) PROVE CloseBook'
  <2>1. UNCHANGED <<closer, closeReason, ctxDone, stopped, evidence, owner, attaching, streams,
                    snapshot, ready, pendingEvents>>
        BY <1>8 DEF ThreadReplay, RunnerKeeps
  <2>2. \A n \in Frames : Owned(n) /\ (\E s \in Runs : n \in local[s]) => \E s \in Runs : n \in local'[s]
    <3>1. pc[r] = "threadReplay" /\ \A s \in Runs \ {r} : local'[s] = local[s]
          BY <1>8, NotesEffect
    <3>2. \A n \in Frames : Owned(n) => n \notin local[r]
          BY <3>1 DEF RunIInv, NoteBook, OwnerBook
    <3> QED BY <3>1, <3>2
  <2> QED BY <2>1, <2>2 DEF RunIInv, TypeOK, CloseBook, Owned, closed
<1>9. ASSUME NEW r \in Runs, FinishAttaching(r) PROVE CloseBook'
  <2>1. Settles({r})  BY <1>9, EndingSettles
  <2>2. UNCHANGED <<closer, closeReason, ctxDone, stopped, evidence, owner, snapshot, ready,
                    pendingEvents, local>>
        BY <1>9 DEF FinishAttaching, RunnerKeeps
  <2>3. attaching' \subseteq attaching /\ streams' \subseteq streams
        BY <2>1 DEF Settles
  <2> QED BY <2>2, <2>3 DEF RunIInv, TypeOK, CloseBook, Owned, closed
<1>10. ASSUME NEW r \in Runs, AttachPublish(r) PROVE CloseBook'
  <2>1. UNCHANGED <<closer, closeReason, ctxDone, stopped, evidence, owner, snapshot, ready>>
        BY <1>10, PublishEffect
  <2>2. attaching' \cup streams' \subseteq attaching \cup streams
    <3>1. r \in streams' => r \in attaching
          BY <1>10, PublishEffect DEF RunIInv, RunBook, Live, Attaching
    <3>2. attaching' \subseteq attaching /\ streams' \subseteq streams \cup {r}
          BY <1>10 DEF AttachPublish
    <3> QED BY <3>1, <3>2
  <2>3. \A n \in Frames : n \in pendingEvents \/ (\E s \in Runs : n \in local[s]) =>
           n \in pendingEvents' \/ \E s \in Runs : n \in local'[s]
    <3>1. local[r] = {}
          BY <1>10, PublishEffect DEF RunIInv, NoteBook, Replaying
    <3>2. \A n \in Frames : n \in pendingEvents => n \in pendingEvents' \/ n \in local'[r]
          BY <1>10, PublishEffect
    <3>3. \A s \in Runs \ {r} : local'[s] = local[s]
          BY <1>10, PublishEffect
    <3> QED BY <3>1, <3>2, <3>3
  <2> QED BY <2>1, <2>2, <2>3 DEF RunIInv, TypeOK, CloseBook, Owned, closed
<1>11. ASSUME NEW r \in Runs, AttachReplay(r) PROVE CloseBook'
  <2>1. UNCHANGED <<closer, closeReason, ctxDone, stopped, evidence, owner, attaching, streams,
                    snapshot, pendingEvents>>
        /\ \A s \in Runs \ {r} : local'[s] = local[s]
        BY <1>11, ReplayEffect
  <2>2. PICK n \in Frames : local'[r] = local[r] \ {n} /\ ready' = ready \cup {n}
        BY <1>11, ReplayEffect DEF Resolve
  <2> QED BY <2>1, <2>2 DEF RunIInv, TypeOK, CloseBook, Owned, closed
<1>12. ASSUME NEW r \in Runs, AttachComplete(r) PROVE CloseBook'
  <2>1. PICK S \in SUBSET Runs : Settles(S)  BY <1>12, EndingSettles
  <2>2. UNCHANGED <<closer, closeReason, ctxDone, stopped, evidence, owner, snapshot, ready,
                    pendingEvents, local>>
        BY <1>12 DEF AttachComplete, RunnerKeeps
  <2>3. attaching' \subseteq attaching /\ streams' \subseteq streams
        BY <2>1 DEF Settles
  <2> QED BY <2>2, <2>3 DEF RunIInv, TypeOK, CloseBook, Owned, closed
<1>13. ASSUME NEW r \in Runs, CloseStream(r) PROVE CloseBook'
  <2>1. Settles({r})  BY <1>13, EndingSettles
  <2>2. UNCHANGED <<closer, closeReason, ctxDone, stopped, evidence, owner, snapshot, ready,
                    pendingEvents, local>>
        BY <1>13 DEF CloseStream, RunnerKeeps
  <2>3. attaching' \subseteq attaching /\ streams' \subseteq streams
        BY <2>1 DEF Settles
  <2> QED BY <2>2, <2>3 DEF RunIInv, TypeOK, CloseBook, Owned, closed
<1>14. ASSUME NEW th \in Threads, NEW t \in Turns, ServerRequestFails(th, t) PROVE CloseBook'
  <2>1. Settles(RequestTargets(th, t))  BY <1>14, EndingSettles
  <2>2. UNCHANGED <<closer, closeReason, ctxDone, stopped, evidence, owner, snapshot, ready,
                    pendingEvents, local>>
        BY <1>14 DEF ServerRequestFails, RunnerKeeps
  <2>3. attaching' \subseteq attaching /\ streams' \subseteq streams
        BY <2>1 DEF Settles
  <2> QED BY <2>2, <2>3 DEF RunIInv, TypeOK, CloseBook, Owned, closed
<1>15. ASSUME NEW k \in FrameKinds, NEW id \in Turns \cup Threads, Ingest(k, id) PROVE CloseBook'
  <2> DEFINE z == Len(log) + 1
  <2>1. closer = "none" /\ closeReason = None
        BY <1>15 DEF Ingest, RunIInv, CloseBook, closed
  <2>2. /\ UNCHANGED <<closer, closeReason, ctxDone, stopped, evidence, attaching, streams,
                       snapshot, ready, local>>
        /\ pendingEvents \subseteq pendingEvents'
        BY <1>15 DEF Ingest
  <2>3. \A n \in Frames : owner'[n] = owner[n] \/ n \in pendingEvents'
        BY <1>15 DEF Ingest, RunIInv, TypeOK
  <2>4. \A n \in evidence : owner[n] # None /\ n \in Ingested /\ n \in Frames
        BY DEF RunIInv, TypeOK, CloseBook, OwnerBook, Owned
  <2>5. z \notin Ingested
        BY DEF RunIInv, TypeOK, Ingested
  <2>6. \A n \in evidence : owner'[n] = owner[n]
        BY <1>15, <2>4, <2>5 DEF Ingest, RunIInv, TypeOK
  <2> QED BY <2>1, <2>2, <2>3, <2>4, <2>6 DEF RunIInv, CloseBook, Owned, closed
<1>16. ASSUME NEW k \in FrameKinds, NEW id \in Turns \cup Threads, IngestOverBudget(k, id) PROVE CloseBook'
      BY <1>16, ConstantsAssumption DEF RunIInv, TypeOK, CloseBook, Owned, closed, IngestOverBudget, FailClient
<1>17. ASSUME NEW r \in Runs, AcceptOverBudget(r) PROVE CloseBook'
      BY <1>17, ConstantsAssumption DEF RunIInv, TypeOK, CloseBook, Owned, closed, AcceptOverBudget, FailClient
<1>18. CASE EnqueueFull
      BY <1>18, ConstantsAssumption DEF RunIInv, TypeOK, CloseBook, Owned, closed, EnqueueFull, FailClient
<1>19. CASE ReaderComplete
  <2>1. PICK S \in SUBSET Runs : Settles(S)  BY <1>19, EndingSettles
  <2>2. UNCHANGED <<closer, closeReason, ctxDone, stopped, evidence, owner, snapshot, ready,
                    pendingEvents, local>>
        BY <1>19 DEF ReaderComplete
  <2>3. attaching' \subseteq attaching /\ streams' \subseteq streams
        BY <2>1 DEF Settles
  <2> QED BY <2>2, <2>3 DEF RunIInv, TypeOK, CloseBook, Owned, closed
<1>20. CASE DispatcherStop
      BY <1>20 DEF RunIInv, TypeOK, CloseBook, Owned, closed, DispatcherStop, DispKeeps
<1>21. CASE CallbackOk
  <2>1. PICK S \in SUBSET Runs : Settles(S)  BY <1>21, EndingSettles
  <2>2. UNCHANGED <<closer, closeReason, ctxDone, stopped, evidence, owner, snapshot, ready,
                    pendingEvents, local>>
        BY <1>21 DEF CallbackOk, DispKeeps
  <2>3. attaching' \subseteq attaching /\ streams' \subseteq streams
        BY <2>1 DEF Settles
  <2> QED BY <2>2, <2>3 DEF RunIInv, TypeOK, CloseBook, Owned, closed
<1>22. CASE CallbackError
      BY <1>22, ConstantsAssumption DEF RunIInv, TypeOK, CloseBook, Owned, closed, CallbackError, DispKeeps, FailClient
<1>23. ASSUME NEW cause \in Causes, Close(cause) PROVE CloseBook'
      BY <1>23, ConstantsAssumption DEF RunIInv, TypeOK, CloseBook, Owned, closed, Close, CloserKeeps
<1>24. CASE CloserCancel
      BY <1>24 DEF RunIInv, TypeOK, CloseBook, Owned, closed, CloserCancel, CloserKeeps
<1>25. CASE FailAllTake
  <2>1. /\ closer = "take" /\ closer' = "resolve" /\ snapshot' = streams \cup attaching
        /\ evidence' = pendingEvents \cup UNION {replaying[r] : r \in Runs}
        /\ UNCHANGED <<closeReason, ctxDone, stopped, owner, attaching, streams, ready>>
        BY <1>25 DEF FailAllTake
  <2>2. \A n \in evidence' : Owned(n)
        BY <2>1 DEF RunIInv, OwnerBook
  <2>3. \A n \in Frames : Owned(n) /\ n \notin ready => n \in evidence'
    <3> SUFFICES ASSUME NEW n \in Frames, Owned(n), n \notin ready PROVE n \in evidence'
        OBVIOUS
    <3>1. n \in pendingEvents \/ \E r \in Runs : n \in local[r]
          BY <2>1 DEF RunIInv, CloseBook
    <3>2. \A r \in Runs : n \in local[r] => n \in replaying[r]
          BY DEF RunIInv, NoteBook, OwnerBook
    <3> QED BY <2>1, <3>1, <3>2
  <2> QED BY <2>1, <2>2, <2>3 DEF RunIInv, CloseBook, Owned, closed
<1>26. ASSUME NEW n \in Frames, FailAllResolve(n) PROVE CloseBook'
      BY <1>26 DEF RunIInv, TypeOK, CloseBook, Owned, closed, FailAllResolve, Resolve, CloserKeeps
<1>27. CASE FailAllFinish
  <2>1. Settles(snapshot)  BY <1>27, EndingSettles
  <2>2. /\ closer = "resolve" /\ closer' = "publish" /\ evidence = {}
        /\ UNCHANGED <<closeReason, ctxDone, stopped, evidence, owner, ready>>
        BY <1>27 DEF FailAllFinish
  <2>3. attaching' = {} /\ streams' = {}
    <3>1. \A r \in attaching \cup streams : r \in Runs /\ r \in snapshot /\ outcome[r] = None
          BY <2>2 DEF RunIInv, TypeOK, CloseBook, RunBook, Live
    <3> QED BY <2>1, <3>1 DEF Settles
  <2> QED BY <2>2, <2>3 DEF RunIInv, CloseBook, Owned, closed
<1>28. CASE Publish
      BY <1>28 DEF RunIInv, TypeOK, CloseBook, Owned, closed, Publish, CloserKeeps
<1>29. CASE StopDispatch
      BY <1>29 DEF RunIInv, TypeOK, CloseBook, Owned, closed, StopDispatch, CloserKeeps
<1>30. CASE GraceExpires
      BY <1>30, ConstantsAssumption DEF RunIInv, TypeOK, CloseBook, Owned, closed, GraceExpires, CloserKeeps
<1>31. CASE UNCHANGED vars
      BY <1>1, <1>31 DEF vars
<1> QED
    BY <1>1, <1>2, <1>3, <1>4, <1>5, <1>6, <1>7, <1>8, <1>9, <1>10, <1>11, <1>12, <1>13, <1>14,
       <1>15, <1>16, <1>17, <1>18, <1>19, <1>20, <1>21, <1>22, <1>23, <1>24, <1>25, <1>26,
       <1>27, <1>28, <1>29, <1>30, <1>31
    DEF Next, RunnerStep, ReaderStep, DispatcherStep, CloserStep

(* Nothing leaves a history, and no run is admitted twice.                 *)
LEMMA AcceptGrows ==
  ASSUME TypeOK, NEW r \in Runs, NEW n \in Frames, AcceptInto(r, n)
  PROVE  /\ \A s \in Runs : \A m \in Frames : InHistory(s, m) => InHistory(s, m)'
         /\ \A s \in Runs : s \in admitted => s \in admitted'
         /\ \A s \in Runs : \A m \in Frames : InHistory(s, m)' /\ m # n => InHistory(s, m)
         /\ Accepts(r, n) => InHistory(r, n)'
<1>1. \A s \in Runs : \A m \in Frames :
         InHistory(s, m)' <=> InHistory(s, m) \/ (s = r /\ m = n /\ Accepts(r, n))
      BY AcceptHolds
<1>2. \A s \in Runs : s \in admitted => s \in admitted'
      BY AcceptEffect
<1> QED BY <1>1, <1>2

(* A live run that no terminal notification has frozen accepts what was    *)
(* pended for it.                                                          *)
LEMMA OwnerAccepts ==
  ASSUME RunIInv, NEW r \in Runs, NEW n \in Frames, Owned(n), log[n].id = answer[r],
         Live(r), r \notin admitted
  PROVE  Accepts(r, n)
<1>1. log[n].kind # "note"  BY DEF RunIInv, OwnerBook
<1>2. turnID[r] \in {None, answer[r]}  BY DEF RunIInv, RunBook
<1> QED BY <1>1, <1>2 DEF Accepts, MatchesRun, Live

(* Whoever resolves a pended notification first, its live owner has it.    *)
LEMMA ReadyStep == RunIInv /\ [Next]_vars => ReadyBook'
<1> SUFFICES ASSUME RunIInv, [Next]_vars PROVE ReadyBook'
    OBVIOUS
<1> DEFINE kept == <<admitted, frame, history, outcome, owner, ready, targets>>
<1> USE DEF runVars, stateVars, tableVars, pendVars, evidVars, readerVars, dispVars, closeVars
<1>1. CASE UNCHANGED kept
      BY <1>1 DEF RunIInv, ReadyBook, Owned, Live, InHistory
<1>2. ASSUME NEW r \in Runs,
             CallThread(r) \/ ThreadResponse(r) \/ ThreadCallError(r) \/ Register(r) \/
                CallTurn(r) \/ (\E t \in Turns : TurnResponse(r, t)) \/ AttachGate(r) \/
                AttachPublish(r) \/ AttachFinish(r)
      PROVE  UNCHANGED kept
      BY <1>2 DEF CallThread, ThreadResponse, ThreadCallError, Register, CallTurn, TurnResponse,
             AttachGate, AttachPublish, AttachFinish, RunnerKeeps
<1>3. CASE Enqueue \/ EnqueueFull \/ EnqueueClosed \/ AwaitPublication
  <2>1. UNCHANGED kept
        BY <1>3 DEF Enqueue, EnqueueFull, EnqueueClosed, AwaitPublication, FailClient
  <2> QED BY <1>1, <2>1
<1>4. CASE Dequeue \/ EvidenceReady \/ DispatcherDiscard \/ DispatcherExit \/ CallbackError \/
           DispatcherFailed
  <2>1. UNCHANGED kept
        BY <1>4 DEF Dequeue, EvidenceReady, DispatcherDiscard, DispatcherExit, CallbackError,
               DispatcherFailed, DispKeeps, FailClient
  <2> QED BY <1>1, <2>1
<1>5. CASE CloserCancel \/ FailAllTake \/ Publish \/ StopDispatch \/ GraceExpires \/
           ShutdownDiscard \/ (\E cause \in Causes : Close(cause))
  <2>1. UNCHANGED kept
        BY <1>5 DEF Close, CloserCancel, FailAllTake, Publish, StopDispatch, GraceExpires,
               ShutdownDiscard, CloserKeeps
  <2> QED BY <1>1, <2>1
<1>6. ASSUME NEW r \in Runs, RegisterRefused(r) PROVE ReadyBook'
  <2>1. Settles({r})  BY <1>6, EndingSettles
  <2>2. UNCHANGED <<owner, ready, history, admitted, frame, targets>>
        BY <1>6 DEF RegisterRefused, RunnerKeeps
  <2> QED BY <2>1, <2>2 DEF RunIInv, TypeOK, ReadyBook, Owned, Live, Settles, InHistory
<1>7. ASSUME NEW r \in Runs, ThreadReplay(r) PROVE ReadyBook'
  <2>1. PICK n \in Frames : n \in local[r] /\ AcceptInto(r, n) /\ pc[r] = "threadReplay"
        BY <1>7, NotesEffect
  <2>2. ~Owned(n)
        BY <2>1 DEF RunIInv, NoteBook, OwnerBook
  <2>3. UNCHANGED <<owner, ready, outcome, frame>> /\ targets' \subseteq targets
        BY <1>7 DEF ThreadReplay, RunnerKeeps
  <2>4. TypeOK  BY DEF RunIInv
  <2>5. \A m \in Frames : Owned(m) => owner[m] \in Runs
        BY <2>4 DEF TypeOK, Owned
  <2>6. /\ \A s \in Runs : \A m \in Frames : InHistory(s, m) => InHistory(s, m)'
        /\ \A s \in Runs : s \in admitted => s \in admitted'
        /\ \A s \in Runs : \A m \in Frames : InHistory(s, m)' /\ m # n => InHistory(s, m)
        BY <2>1, <2>4, AcceptGrows
  <2> QED BY <2>2, <2>3, <2>5, <2>6 DEF RunIInv, ReadyBook, Owned, Live
<1>8. ASSUME NEW r \in Runs, FinishAttaching(r) PROVE ReadyBook'
  <2>1. Settles({r})  BY <1>8, EndingSettles
  <2>2. UNCHANGED <<owner, ready, history, admitted, frame, targets>>
        BY <1>8 DEF FinishAttaching, RunnerKeeps
  <2> QED BY <2>1, <2>2 DEF RunIInv, TypeOK, ReadyBook, Owned, Live, Settles, InHistory
<1>9. ASSUME NEW r \in Runs, AttachReplay(r) PROVE ReadyBook'
  <2>1. PICK n \in Frames : Resolve(r, n) /\ Owned(n) /\ log[n].id = answer[r]
                           /\ (Live(owner[n]) => owner[n] = r)
        BY <1>9, ReplayEffect DEF RunIInv, NoteBook, OwnerBook
  <2>2. UNCHANGED <<owner, outcome, frame, targets>>
        BY <1>9 DEF AttachReplay, RunnerKeeps
  <2>3. TypeOK  BY DEF RunIInv
  <2>4. \A m \in Frames : Owned(m) => owner[m] \in Runs
        BY <2>3 DEF TypeOK, Owned
  <2>5. CASE n \in ready
    <3>1. UNCHANGED <<history, admitted, ready>>
          BY <2>1, <2>3, <2>5, ResolveEffect
    <3> QED BY <2>2, <3>1 DEF RunIInv, ReadyBook, Owned, Live, InHistory
  <2>6. CASE n \notin ready
    <3>1. AcceptInto(r, n) /\ ready' = ready \cup {n}
          BY <2>1, <2>3, <2>6, ResolveEffect
    <3>2. /\ \A q \in Runs : \A m \in Frames : InHistory(q, m) => InHistory(q, m)'
          /\ \A q \in Runs : q \in admitted => q \in admitted'
          /\ \A q \in Runs : \A m \in Frames : InHistory(q, m)' /\ m # n => InHistory(q, m)
          /\ Accepts(r, n) => InHistory(r, n)'
          BY <2>1, <2>3, <3>1, AcceptGrows
    <3>3. Live(owner[n]) => InHistory(owner[n], n)' \/ owner[n] \in admitted'
      <4> SUFFICES ASSUME Live(owner[n]), owner[n] \notin admitted PROVE InHistory(owner[n], n)'
          BY <2>1, <2>4, <3>2
      <4>1. owner[n] = r /\ log[n].id = answer[r]
            BY <2>1 DEF RunIInv, OwnerBook
      <4>2. Accepts(r, n)
            BY <2>1, <4>1, OwnerAccepts
      <4> QED BY <2>2, <3>2, <4>1, <4>2 DEF InHistory
    <3> QED BY <2>2, <2>4, <3>1, <3>2, <3>3 DEF RunIInv, ReadyBook, Owned, Live
  <2> QED BY <2>5, <2>6
<1>10. ASSUME NEW r \in Runs, AttachComplete(r) PROVE ReadyBook'
  <2>1. PICK S \in SUBSET Runs : Settles(S)  BY <1>10, EndingSettles
  <2>2. UNCHANGED <<owner, ready, history, admitted, frame, targets>>
        BY <1>10 DEF AttachComplete, RunnerKeeps
  <2> QED BY <2>1, <2>2 DEF RunIInv, TypeOK, ReadyBook, Owned, Live, Settles, InHistory
<1>11. ASSUME NEW r \in Runs, CloseStream(r) PROVE ReadyBook'
  <2>1. Settles({r})  BY <1>11, EndingSettles
  <2>2. UNCHANGED <<owner, ready, history, admitted, frame, targets>>
        BY <1>11 DEF CloseStream, RunnerKeeps
  <2> QED BY <2>1, <2>2 DEF RunIInv, TypeOK, ReadyBook, Owned, Live, Settles, InHistory
<1>12. ASSUME NEW th \in Threads, NEW t \in Turns, ServerRequestFails(th, t) PROVE ReadyBook'
  <2>1. Settles(RequestTargets(th, t))  BY <1>12, EndingSettles
  <2>2. UNCHANGED <<owner, ready, history, admitted, frame, targets>>
        BY <1>12 DEF ServerRequestFails, RunnerKeeps
  <2> QED BY <2>1, <2>2 DEF RunIInv, TypeOK, ReadyBook, Owned, Live, Settles, InHistory
<1>13. ASSUME NEW k \in FrameKinds, NEW id \in Turns \cup Threads, Ingest(k, id) PROVE ReadyBook'
  <2> DEFINE z == Len(log) + 1
  <2>1. /\ UNCHANGED <<ready, history, admitted, outcome>> /\ frame' = z
        /\ PendsTurn(k, id) => targets' = {}
        /\ ~PendsTurn(k, id) => owner' = owner
        BY <1>13 DEF Ingest, PendsTurn
  <2>2. z \notin Ingested /\ frame # z
        BY DEF RunIInv, TypeOK, LogBook, Ingested
  <2>3. \A n \in Frames : n # z => owner'[n] = owner[n]
        BY <1>13 DEF Ingest, RunIInv, TypeOK
  <2>4. z \notin ready /\ \A s \in Runs : ~InHistory(s, z)
        BY <2>2 DEF RunIInv, LogBook, InHistory
  <2>5. ~Owned(z)
        BY <1>13, <2>2 DEF RunIInv, OwnerBook, Ingest, Frames, TypeOK
  <2> QED BY <2>1, <2>2, <2>3, <2>4, <2>5 DEF RunIInv, ReadyBook, Owned, Live, InHistory
<1>14. ASSUME NEW k \in FrameKinds, NEW id \in Turns \cup Threads, IngestOverBudget(k, id) PROVE ReadyBook'
  <2>1. /\ UNCHANGED <<ready, history, admitted, outcome, owner>> /\ targets' = {}
        BY <1>14 DEF IngestOverBudget
  <2> QED BY <2>1 DEF RunIInv, ReadyBook, Owned, Live, InHistory
<1>15. ASSUME NEW r \in Runs, AcceptTarget(r) PROVE ReadyBook'
  <2> DEFINE n == frame
  <2>1. n \in Frames /\ AcceptInto(r, n) /\ targets # {}
        BY <1>15 DEF AcceptTarget, RunIInv, TypeOK, LogBook, Frames
  <2>2. ~Owned(n)
        BY <2>1 DEF RunIInv, ReadyBook
  <2>3. UNCHANGED <<owner, ready, outcome, frame>> /\ targets' \subseteq targets
        BY <1>15 DEF AcceptTarget
  <2>4. TypeOK  BY DEF RunIInv
  <2>5. \A m \in Frames : Owned(m) => owner[m] \in Runs
        BY <2>4 DEF TypeOK, Owned
  <2>6. /\ \A s \in Runs : \A m \in Frames : InHistory(s, m) => InHistory(s, m)'
        /\ \A s \in Runs : s \in admitted => s \in admitted'
        /\ \A s \in Runs : \A m \in Frames : InHistory(s, m)' /\ m # n => InHistory(s, m)
        BY <2>1, <2>4, AcceptGrows
  <2> QED BY <2>2, <2>3, <2>5, <2>6 DEF RunIInv, ReadyBook, Owned, Live
<1>16. ASSUME NEW r \in Runs, AcceptOverBudget(r) PROVE ReadyBook'
      BY <1>16 DEF RunIInv, TypeOK, ReadyBook, Owned, Live, AcceptOverBudget, FailClient, InHistory
<1>17. CASE ReaderComplete
  <2>1. PICK S \in SUBSET Runs : Settles(S)  BY <1>17, EndingSettles
  <2>2. UNCHANGED <<owner, ready, history, admitted, frame, targets>>
        BY <1>17 DEF ReaderComplete
  <2> QED BY <2>1, <2>2 DEF RunIInv, TypeOK, ReadyBook, Owned, Live, Settles, InHistory
<1>18. CASE DispatcherStop
  <2>1. disp = "evidence" => current \in ready
    <3>1. closer = "end"
          BY <1>18 DEF DispatcherStop, RunIInv, CloseBook
    <3>2. disp = "evidence" => Owned(current) /\ current \in Frames
          BY DEF RunIInv, QueueBook, TypeOK
    <3> QED BY <3>1, <3>2 DEF RunIInv, CloseBook
  <2>2. UNCHANGED <<owner, outcome, history, admitted, frame, targets, ready>>
        BY <1>18, <2>1 DEF DispatcherStop, DispKeeps
  <2> QED BY <2>2 DEF RunIInv, ReadyBook, Owned, Live, InHistory
<1>19. CASE CallbackOk
  <2>1. PICK S \in SUBSET Runs : Settles(S)  BY <1>19, EndingSettles
  <2>2. UNCHANGED <<owner, ready, history, admitted, frame, targets>>
        BY <1>19 DEF CallbackOk, DispKeeps
  <2> QED BY <2>1, <2>2 DEF RunIInv, TypeOK, ReadyBook, Owned, Live, Settles, InHistory
<1>20. ASSUME NEW n \in Frames, FailAllResolve(n) PROVE ReadyBook'
  <2>1. PICK x \in Runs : x = owner[n] /\ Resolve(x, n) /\ Owned(n)
        BY <1>20 DEF FailAllResolve, RunIInv, CloseBook, TypeOK, Owned
  <2>2. UNCHANGED <<owner, outcome, frame, targets>>
        BY <1>20 DEF FailAllResolve, CloserKeeps
  <2>3. TypeOK  BY DEF RunIInv
  <2>4. \A m \in Frames : Owned(m) => owner[m] \in Runs
        BY <2>3 DEF TypeOK, Owned
  <2>5. CASE n \in ready
    <3>1. UNCHANGED <<history, admitted, ready>>
          BY <2>1, <2>3, <2>5, ResolveEffect
    <3> QED BY <2>2, <3>1 DEF RunIInv, ReadyBook, Owned, Live, InHistory
  <2>6. CASE n \notin ready
    <3>1. AcceptInto(x, n) /\ ready' = ready \cup {n}
          BY <2>1, <2>3, <2>6, ResolveEffect
    <3>2. /\ \A q \in Runs : \A m \in Frames : InHistory(q, m) => InHistory(q, m)'
          /\ \A q \in Runs : q \in admitted => q \in admitted'
          /\ \A q \in Runs : \A m \in Frames : InHistory(q, m)' /\ m # n => InHistory(q, m)
          /\ Accepts(x, n) => InHistory(x, n)'
          BY <2>1, <2>3, <3>1, AcceptGrows
    <3>3. Live(owner[n]) => InHistory(owner[n], n)' \/ owner[n] \in admitted'
      <4> SUFFICES ASSUME Live(owner[n]), owner[n] \notin admitted PROVE InHistory(owner[n], n)'
          BY <2>1, <2>4, <3>2
      <4>1. owner[n] = x /\ log[n].id = answer[x]
            BY <2>1 DEF RunIInv, OwnerBook
      <4>2. Accepts(x, n)
            BY <2>1, <4>1, OwnerAccepts
      <4> QED BY <2>2, <3>2, <4>1, <4>2 DEF InHistory
    <3> QED BY <2>2, <2>4, <3>1, <3>2, <3>3 DEF RunIInv, ReadyBook, Owned, Live
  <2> QED BY <2>5, <2>6
<1>21. CASE FailAllFinish
  <2>1. Settles(snapshot)  BY <1>21, EndingSettles
  <2>2. UNCHANGED <<owner, ready, history, admitted, frame, targets>>
        BY <1>21 DEF FailAllFinish, CloserKeeps
  <2> QED BY <2>1, <2>2 DEF RunIInv, TypeOK, ReadyBook, Owned, Live, Settles, InHistory
<1>22. CASE UNCHANGED vars
      BY <1>1, <1>22 DEF vars
<1> QED
    BY <1>1, <1>2, <1>3, <1>4, <1>5, <1>6, <1>7, <1>8, <1>9, <1>10, <1>11, <1>12, <1>13, <1>14,
       <1>15, <1>16, <1>17, <1>18, <1>19, <1>20, <1>21, <1>22
    DEF Next, RunnerStep, ReaderStep, DispatcherStep, CloserStep

(* Pending, live delivery and the saved notes never hold the same          *)
(* notification for the same run.                                          *)
LEMMA FreshStep == RunIInv /\ [Next]_vars => FreshBook'
<1> SUFFICES ASSUME RunIInv, [Next]_vars PROVE FreshBook'
    OBVIOUS
<1> DEFINE kept == <<frame, history, local, pc, pendingThread, targets>>
<1> USE DEF runVars, stateVars, tableVars, pendVars, evidVars, readerVars, dispVars, closeVars
<1>1. CASE UNCHANGED kept
      BY <1>1 DEF RunIInv, FreshBook, InHistory
<1>2. ASSUME NEW r \in Runs,
             CloseStream(r)
      PROVE  UNCHANGED kept
      BY <1>2 DEF CloseStream, RunnerKeeps
<1>3. CASE Enqueue \/ EnqueueFull \/ EnqueueClosed \/ AwaitPublication \/ ReaderComplete
  <2>1. UNCHANGED kept
        BY <1>3 DEF Enqueue, EnqueueFull, EnqueueClosed, AwaitPublication, ReaderComplete, FailClient
  <2> QED BY <1>1, <2>1
<1>4. CASE Dequeue \/ EvidenceReady \/ DispatcherDiscard \/ DispatcherStop \/ DispatcherExit \/
           CallbackOk \/ CallbackError \/ DispatcherFailed
  <2>1. UNCHANGED kept
        BY <1>4 DEF Dequeue, EvidenceReady, DispatcherDiscard, DispatcherStop, DispatcherExit,
               CallbackOk, CallbackError, DispatcherFailed, DispKeeps, FailClient
  <2> QED BY <1>1, <2>1
<1>5. CASE CloserCancel \/ FailAllFinish \/ Publish \/ StopDispatch \/ GraceExpires \/
           ShutdownDiscard \/ (\E cause \in Causes : Close(cause))
  <2>1. UNCHANGED kept
        BY <1>5 DEF Close, CloserCancel, FailAllFinish, Publish, StopDispatch, GraceExpires,
               ShutdownDiscard, CloserKeeps
  <2> QED BY <1>1, <2>1
<1>6. ASSUME NEW th \in Threads, NEW t \in Turns, ServerRequestFails(th, t)
      PROVE  UNCHANGED kept
      BY <1>6 DEF ServerRequestFails, RunnerKeeps
<1>7. ASSUME NEW r \in Runs, CallThread(r) PROVE FreshBook'
      BY <1>7 DEF RunIInv, TypeOK, FreshBook, InHistory, CallThread, RunnerKeeps
<1>8. ASSUME NEW r \in Runs, ThreadResponse(r) PROVE FreshBook'
      BY <1>8 DEF RunIInv, TypeOK, FreshBook, InHistory, ThreadResponse, RunnerKeeps
<1>9. ASSUME NEW r \in Runs, ThreadCallError(r) PROVE FreshBook'
      BY <1>9 DEF RunIInv, TypeOK, FreshBook, InHistory, ThreadCallError, RunnerKeeps
<1>10. ASSUME NEW r \in Runs, RegisterRefused(r) PROVE FreshBook'
      BY <1>10 DEF RunIInv, TypeOK, FreshBook, InHistory, RegisterRefused, RunnerKeeps
<1>11. ASSUME NEW r \in Runs, Register(r) PROVE FreshBook'
  <2>1. /\ UNCHANGED <<targets, frame, history>> /\ pendingThread' = pendingThread \ NotesOf(r)
        /\ NotesOf(r) \subseteq pendingThread
        BY <1>11 DEF Register, RunnerKeeps, NotesOf
  <2>2. /\ local'[r] = NotesOf(r) /\ \A s \in Runs \ {r} : local'[s] = local[s] /\ pc'[s] = pc[s]
        BY <1>11 DEF Register, RunIInv, TypeOK
  <2> QED BY <2>1, <2>2 DEF RunIInv, FreshBook, InHistory
<1>12. ASSUME NEW r \in Runs, ThreadReplay(r) PROVE FreshBook'
  <2>1. PICK n \in Frames : n \in local[r] /\ local'[r] = local[r] \ {n} /\ AcceptInto(r, n)
                           /\ pc[r] = "threadReplay"
        BY <1>12, NotesEffect
  <2>2. UNCHANGED <<targets, frame, pendingThread, pc>> /\ \A s \in Runs \ {r} : local'[s] = local[s]
        BY <1>12, NotesEffect
  <2>3. \A s \in Runs : \A m \in Frames : InHistory(s, m)' <=> InHistory(s, m) \/ (s = r /\ m = n /\ Accepts(r, n))
        BY <2>1, AcceptHolds DEF RunIInv
  <2>4. n \notin pendingThread /\ (n = frame => targets = {})
        BY <2>1 DEF RunIInv, FreshBook
  <2>5. /\ pendingThread \subseteq Frames /\ targets \subseteq Runs
        /\ (targets # {} => frame \in Frames) /\ \A s \in Runs : local[s] \subseteq Frames
        BY DEF RunIInv, TypeOK, LogBook, Frames
  <2>6. \A s \in targets : ~InHistory(s, frame)'
        BY <2>2, <2>3, <2>4, <2>5 DEF RunIInv, FreshBook
  <2>7. \A m \in pendingThread : (m = frame => targets = {}) /\ \A s \in Runs : ~InHistory(s, m)' /\ m \notin local'[s]
        BY <2>1, <2>2, <2>3, <2>4, <2>5 DEF RunIInv, FreshBook
  <2>8. \A s \in Runs : pc[s] = "threadReplay" =>
           \A m \in local'[s] : ~InHistory(s, m)' /\ (m = frame => targets = {})
        BY <2>1, <2>2, <2>3, <2>5 DEF RunIInv, FreshBook
  <2> QED BY <2>2, <2>6, <2>7, <2>8 DEF FreshBook, InHistory
<1>13. ASSUME NEW r \in Runs, CallTurn(r) PROVE FreshBook'
      BY <1>13 DEF RunIInv, TypeOK, FreshBook, InHistory, CallTurn, RunnerKeeps
<1>14. ASSUME NEW r \in Runs, FinishAttaching(r) PROVE FreshBook'
      BY <1>14 DEF RunIInv, TypeOK, FreshBook, InHistory, FinishAttaching, RunnerKeeps
<1>15. ASSUME NEW r \in Runs, NEW t \in Turns, TurnResponse(r, t) PROVE FreshBook'
      BY <1>15 DEF RunIInv, TypeOK, FreshBook, InHistory, TurnResponse, RunnerKeeps
<1>16. ASSUME NEW r \in Runs, AttachGate(r) PROVE FreshBook'
      BY <1>16 DEF RunIInv, TypeOK, FreshBook, InHistory, AttachGate, RunnerKeeps
<1>17. ASSUME NEW r \in Runs, AttachPublish(r) PROVE FreshBook'
  <2>1. /\ UNCHANGED <<targets, frame, history, pendingThread>>
        /\ \A s \in Runs \ {r} : local'[s] = local[s] /\ pc'[s] = pc[s]
        /\ pc'[r] # "threadReplay" /\ local'[r] \subseteq pendingEvents
        BY <1>17, PublishEffect
  <2>2. \A n \in pendingThread : n \notin pendingEvents
        BY DEF RunIInv, NoteBook, OwnerBook, TypeOK
  <2> QED BY <2>1, <2>2 DEF RunIInv, FreshBook, InHistory
<1>18. ASSUME NEW r \in Runs, AttachReplay(r) PROVE FreshBook'
  <2>1. PICK n \in Frames : n \in local[r] /\ local'[r] = local[r] \ {n} /\ Resolve(r, n) /\ Owned(n)
        BY <1>18, ReplayEffect DEF RunIInv, NoteBook, OwnerBook
  <2>2. /\ UNCHANGED <<targets, frame, pendingThread>>
        /\ \A s \in Runs : local'[s] \subseteq local[s] /\ (pc'[s] = "threadReplay" => pc[s] = "threadReplay")
    <3>1. \A s \in Runs \ {r} : local'[s] = local[s] /\ pc'[s] = pc[s]
          BY <1>18, ReplayEffect
    <3> QED BY <1>18, <2>1, <3>1, ReplayEffect
  <2>3. \A q \in Runs : \A m \in Frames : InHistory(q, m)' /\ m # n => InHistory(q, m)
    <3>1. CASE n \in ready
          BY <2>1, <3>1, ResolveEffect DEF RunIInv, InHistory
    <3>2. CASE n \notin ready
          BY <2>1, <3>2, ResolveEffect, AcceptGrows DEF RunIInv
    <3> QED BY <3>1, <3>2
  <2>4. n \notin pendingThread /\ (n = frame => targets = {})
        /\ \A q \in Runs : pc[q] = "threadReplay" => n \notin local[q]
        BY <2>1 DEF RunIInv, NoteBook, OwnerBook, ReadyBook
  <2>5. /\ pendingThread \subseteq Frames /\ targets \subseteq Runs
        /\ (targets # {} => frame \in Frames) /\ \A q \in Runs : local[q] \subseteq Frames
        BY DEF RunIInv, TypeOK, LogBook, Frames
  <2>6. \A q \in targets : ~InHistory(q, frame)'
        BY <2>2, <2>3, <2>4, <2>5 DEF RunIInv, FreshBook
  <2>7. \A m \in pendingThread : (m = frame => targets = {}) /\ \A q \in Runs : ~InHistory(q, m)' /\ m \notin local'[q]
        BY <2>2, <2>3, <2>4, <2>5 DEF RunIInv, FreshBook
  <2>8. \A q \in Runs : pc'[q] = "threadReplay" =>
           \A m \in local'[q] : ~InHistory(q, m)' /\ (m = frame => targets = {})
        BY <2>2, <2>3, <2>4, <2>5 DEF RunIInv, FreshBook
  <2> QED BY <2>2, <2>6, <2>7, <2>8 DEF FreshBook, InHistory
<1>19. ASSUME NEW r \in Runs, AttachComplete(r) PROVE FreshBook'
      BY <1>19 DEF RunIInv, TypeOK, FreshBook, InHistory, AttachComplete, RunnerKeeps
<1>20. ASSUME NEW r \in Runs, AttachFinish(r) PROVE FreshBook'
      BY <1>20 DEF RunIInv, TypeOK, FreshBook, InHistory, AttachFinish, RunnerKeeps
<1>21. ASSUME NEW k \in FrameKinds, NEW id \in Turns \cup Threads, Ingest(k, id) PROVE FreshBook'
  <2> DEFINE z == Len(log) + 1
  <2>1. /\ UNCHANGED <<history, pc, local>> /\ frame' = z
        /\ SavesThread(k, id) => targets' = {} /\ pendingThread' = pendingThread \cup {z}
        /\ ~SavesThread(k, id) => pendingThread' = pendingThread
        BY <1>21 DEF Ingest, SavesThread
  <2>2. z \notin Ingested
        BY DEF RunIInv, TypeOK, Ingested
  <2>3. /\ \A s \in Runs : ~InHistory(s, z) /\ z \notin local[s]
        /\ z \notin pendingThread
        BY <2>2 DEF RunIInv, LogBook, InHistory
  <2>4. targets' \subseteq Runs
        BY <1>21 DEF Ingest, Targets, RunIInv, TypeOK
  <2> QED BY <2>1, <2>3, <2>4 DEF RunIInv, FreshBook, InHistory
<1>22. ASSUME NEW k \in FrameKinds, NEW id \in Turns \cup Threads, IngestOverBudget(k, id) PROVE FreshBook'
  <2>1. UNCHANGED <<history, pc, local, pendingThread>> /\ targets' = {}
        BY <1>22 DEF IngestOverBudget
  <2> QED BY <2>1 DEF RunIInv, FreshBook, InHistory
<1>23. ASSUME NEW r \in Runs, AcceptTarget(r) PROVE FreshBook'
  <2>1. r \in targets /\ AcceptInto(r, frame) /\ targets' = targets \ {r} /\ frame \in Frames
        /\ UNCHANGED <<pc, frame, pendingThread, local>>
        BY <1>23 DEF AcceptTarget, RunIInv, TypeOK, LogBook, Frames
  <2>2. \A s \in Runs : \A m \in Frames : InHistory(s, m)' <=> InHistory(s, m) \/ (s = r /\ m = frame /\ Accepts(r, frame))
        BY <2>1, AcceptHolds DEF RunIInv
  <2>3. /\ pendingThread \subseteq Frames /\ targets \subseteq Runs
        /\ \A s \in Runs : local[s] \subseteq Frames
        BY DEF RunIInv, TypeOK
  <2>4. \A s \in targets' : ~InHistory(s, frame)'
        BY <2>1, <2>2, <2>3 DEF RunIInv, FreshBook
  <2>5. \A m \in pendingThread : m # frame /\ \A s \in Runs : ~InHistory(s, m)' /\ m \notin local[s]
        BY <2>1, <2>2, <2>3 DEF RunIInv, FreshBook
  <2>6. \A s \in Runs : pc[s] = "threadReplay" => \A m \in local[s] : ~InHistory(s, m)' /\ m # frame
        BY <2>1, <2>2, <2>3 DEF RunIInv, FreshBook
  <2> QED BY <2>1, <2>4, <2>5, <2>6 DEF FreshBook, InHistory
<1>24. ASSUME NEW r \in Runs, AcceptOverBudget(r) PROVE FreshBook'
      BY <1>24 DEF RunIInv, TypeOK, FreshBook, InHistory, AcceptOverBudget, FailClient
<1>25. CASE FailAllTake
      BY <1>25 DEF RunIInv, TypeOK, FreshBook, InHistory, FailAllTake, CloserKeeps
<1>26. ASSUME NEW n \in Frames, FailAllResolve(n) PROVE FreshBook'
  <2>1. PICK x \in Runs : Resolve(x, n) /\ Owned(n)
        BY <1>26 DEF FailAllResolve, RunIInv, CloseBook, TypeOK, Owned
  <2>2. /\ UNCHANGED <<targets, frame, pendingThread>>
        /\ \A s \in Runs : local'[s] \subseteq local[s] /\ (pc'[s] = "threadReplay" => pc[s] = "threadReplay")
        BY <1>26 DEF FailAllResolve, CloserKeeps
  <2>3. \A q \in Runs : \A m \in Frames : InHistory(q, m)' /\ m # n => InHistory(q, m)
    <3>1. CASE n \in ready
          BY <2>1, <3>1, ResolveEffect DEF RunIInv, InHistory
    <3>2. CASE n \notin ready
          BY <2>1, <3>2, ResolveEffect, AcceptGrows DEF RunIInv
    <3> QED BY <3>1, <3>2
  <2>4. n \notin pendingThread /\ (n = frame => targets = {})
        /\ \A q \in Runs : pc[q] = "threadReplay" => n \notin local[q]
        BY <2>1 DEF RunIInv, NoteBook, OwnerBook, ReadyBook
  <2>5. /\ pendingThread \subseteq Frames /\ targets \subseteq Runs
        /\ (targets # {} => frame \in Frames) /\ \A q \in Runs : local[q] \subseteq Frames
        BY DEF RunIInv, TypeOK, LogBook, Frames
  <2>6. \A q \in targets : ~InHistory(q, frame)'
        BY <2>2, <2>3, <2>4, <2>5 DEF RunIInv, FreshBook
  <2>7. \A m \in pendingThread : (m = frame => targets = {}) /\ \A q \in Runs : ~InHistory(q, m)' /\ m \notin local'[q]
        BY <2>2, <2>3, <2>4, <2>5 DEF RunIInv, FreshBook
  <2>8. \A q \in Runs : pc'[q] = "threadReplay" =>
           \A m \in local'[q] : ~InHistory(q, m)' /\ (m = frame => targets = {})
        BY <2>2, <2>3, <2>4, <2>5 DEF RunIInv, FreshBook
  <2> QED BY <2>2, <2>6, <2>7, <2>8 DEF FreshBook, InHistory
<1>27. CASE UNCHANGED vars
      BY <1>1, <1>27 DEF vars
<1> QED
    BY <1>1, <1>2, <1>3, <1>4, <1>5, <1>6, <1>7, <1>8, <1>9, <1>10, <1>11, <1>12, <1>13, <1>14,
       <1>15, <1>16, <1>17, <1>18, <1>19, <1>20, <1>21, <1>22, <1>23, <1>24, <1>25, <1>26, <1>27
    DEF Next, RunnerStep, ReaderStep, DispatcherStep, CloserStep

(* The outcome a run gets in a step: the close cause of a closed client,   *)
(* else an error of the run itself or the verdict of its turn.             *)
Earning ==
    \A r \in Runs :
        \/ outcome'[r] = outcome[r]
        \/ /\ outcome[r] = None
           /\ IF closed THEN outcome'[r] = closeReason
              ELSE \/ outcome'[r] \in {"startErr", "busy", "streamClosed", "requestErr"}
                   \/ r \in admitted /\ outcome'[r] = Verdict(r)

\* An outcome that finish records is one the run's own calls or turn earned.
LEMMA FinishEarns ==
  ASSUME RunIInv, NEW S \in SUBSET Runs, NEW err, Finish(S, err),
         \A r \in S : \/ closed
                      \/ err[r] \in {"startErr", "busy", "streamClosed", "requestErr"}
                      \/ r \in admitted /\ err[r] = Verdict(r)
  PROVE  Earning
<1>1. \A r \in Runs : outcome'[r] = IF r \in S /\ outcome[r] = None
                                    THEN IF closed THEN closeReason ELSE err[r]
                                    ELSE outcome[r]
      BY FinishEffect DEF RunIInv
<1> QED BY <1>1 DEF Earning

(* Every step that ends runs gives them what they have earned.             *)
LEMMA OutcomesEarned == RunIInv /\ [Next]_vars => Earning
<1> SUFFICES ASSUME RunIInv, [Next]_vars PROVE Earning
    OBVIOUS
<1> DEFINE kept == <<outcome>>
<1> USE DEF runVars, stateVars, tableVars, pendVars, evidVars, readerVars, dispVars, closeVars
<1>1. CASE UNCHANGED kept
      BY <1>1 DEF Earning
<1>2. ASSUME NEW r \in Runs,
             CallThread(r) \/ ThreadResponse(r) \/ ThreadCallError(r) \/ Register(r) \/
                ThreadReplay(r) \/ CallTurn(r) \/ (\E t \in Turns : TurnResponse(r, t)) \/
                AttachGate(r) \/ AttachPublish(r) \/ AttachReplay(r) \/ AttachFinish(r)
      PROVE  UNCHANGED kept
      BY <1>2 DEF CallThread, ThreadResponse, ThreadCallError, Register, ThreadReplay, CallTurn,
             TurnResponse, AttachGate, AttachPublish, AttachReplay, AttachFinish, RunnerKeeps
<1>3. CASE Enqueue \/ EnqueueFull \/ EnqueueClosed \/ AwaitPublication \/
           (\E k \in FrameKinds, id \in Turns \cup Threads : Ingest(k, id)) \/
           (\E k \in FrameKinds, id \in Turns \cup Threads : IngestOverBudget(k, id)) \/
           (\E r \in Runs : AcceptTarget(r)) \/ (\E r \in Runs : AcceptOverBudget(r))
  <2>1. UNCHANGED kept
        BY <1>3 DEF Ingest, IngestOverBudget, AcceptTarget, AcceptOverBudget, Enqueue, EnqueueFull,
               EnqueueClosed, AwaitPublication, FailClient
  <2> QED BY <1>1, <2>1
<1>4. CASE Dequeue \/ EvidenceReady \/ DispatcherDiscard \/ DispatcherStop \/ DispatcherExit \/
           CallbackError \/ DispatcherFailed
  <2>1. UNCHANGED kept
        BY <1>4 DEF Dequeue, EvidenceReady, DispatcherDiscard, DispatcherStop, DispatcherExit,
               CallbackError, DispatcherFailed, DispKeeps, FailClient
  <2> QED BY <1>1, <2>1
<1>5. CASE CloserCancel \/ FailAllTake \/ Publish \/ StopDispatch \/ GraceExpires \/
           ShutdownDiscard \/ (\E cause \in Causes : Close(cause)) \/
           (\E n \in Frames : FailAllResolve(n))
  <2>1. UNCHANGED kept
        BY <1>5 DEF Close, CloserCancel, FailAllTake, FailAllResolve, Publish, StopDispatch,
               GraceExpires, ShutdownDiscard, CloserKeeps
  <2> QED BY <1>1, <2>1
<1>6. ASSUME NEW r \in Runs, RegisterRefused(r) PROVE Earning
  <2>1. Finish({r}, [s \in {r} |-> "busy"]) /\ {r} \in SUBSET Runs
        BY <1>6 DEF RegisterRefused, RunIInv, TypeOK
  <2>2. \A q \in {r} : [s \in {r} |-> "busy"][q] = "busy"
        BY <2>1
  <2> QED BY <2>1, <2>2, FinishEarns
<1>7. ASSUME NEW r \in Runs, FinishAttaching(r) PROVE Earning
  <2>1. Finish({r}, [s \in {r} |-> "startErr"]) /\ {r} \in SUBSET Runs
        BY <1>7 DEF FinishAttaching, RunIInv, TypeOK
  <2>2. \A q \in {r} : [s \in {r} |-> "startErr"][q] = "startErr"
        BY <2>1
  <2> QED BY <2>1, <2>2, FinishEarns
<1>8. ASSUME NEW r \in Runs, AttachComplete(r) PROVE Earning
  <2>1. PICK n \in Frames : Complete(completion[n])
        BY <1>8 DEF AttachComplete, RunIInv, TypeOK
  <2>2. completion[n] \in SUBSET Runs /\ completion[n] \subseteq admitted
        BY DEF RunIInv, TypeOK, AdmitBook
  <2>3. Finish(completion[n], [q \in completion[n] |-> Verdict(q)])
        BY <2>1 DEF Complete
  <2>4. \A s \in completion[n] : [q \in completion[n] |-> Verdict(q)][s] = Verdict(s)
        OBVIOUS
  <2> QED BY <2>2, <2>3, <2>4, FinishEarns
<1>9. ASSUME NEW r \in Runs, CloseStream(r) PROVE Earning
  <2>1. Finish({r}, [s \in {r} |-> "streamClosed"]) /\ {r} \in SUBSET Runs
        BY <1>9 DEF CloseStream, RunIInv, TypeOK
  <2>2. \A q \in {r} : [s \in {r} |-> "streamClosed"][q] = "streamClosed"
        BY <2>1
  <2> QED BY <2>1, <2>2, FinishEarns
<1>10. ASSUME NEW th \in Threads, NEW t \in Turns, ServerRequestFails(th, t) PROVE Earning
  <2>1. Finish(RequestTargets(th, t), [s \in Runs |-> "requestErr"]) /\ RequestTargets(th, t) \in SUBSET Runs
        BY <1>10 DEF ServerRequestFails, RunIInv, TypeOK, RequestTargets
  <2>2. \A q \in RequestTargets(th, t) : [s \in Runs |-> "requestErr"][q] = "requestErr"
        BY <2>1
  <2> QED BY <2>1, <2>2, FinishEarns
<1>11. CASE ReaderComplete
  <2> DEFINE S == IF owner[frame] = None THEN completion[frame] ELSE {}
  <2>1. Complete(S) /\ S \in SUBSET Runs /\ S \subseteq admitted
        BY <1>11 DEF ReaderComplete, RunIInv, TypeOK, AdmitBook, LogBook, Frames
  <2>2. Finish(S, [q \in S |-> Verdict(q)])
        BY <2>1 DEF Complete
  <2> HIDE DEF S
  <2>3. \A s \in S : [q \in S |-> Verdict(q)][s] = Verdict(s)
        OBVIOUS
  <2> QED BY <2>1, <2>2, <2>3, FinishEarns
<1>12. CASE CallbackOk
  <2> DEFINE S == IF hasHandler THEN completion[current] ELSE {}
  <2>1. Complete(S) /\ S \in SUBSET Runs /\ S \subseteq admitted
        BY <1>12 DEF CallbackOk, RunIInv, TypeOK, AdmitBook, QueueBook
  <2>2. Finish(S, [q \in S |-> Verdict(q)])
        BY <2>1 DEF Complete
  <2> HIDE DEF S
  <2>3. \A s \in S : [q \in S |-> Verdict(q)][s] = Verdict(s)
        OBVIOUS
  <2> QED BY <2>1, <2>2, <2>3, FinishEarns
<1>13. CASE FailAllFinish
  <2>1. Finish(snapshot, [q \in Runs |-> closeReason]) /\ snapshot \in SUBSET Runs /\ closed
        BY <1>13 DEF FailAllFinish, RunIInv, TypeOK, CloseBook
  <2> QED BY <2>1, FinishEarns
<1>14. CASE UNCHANGED vars
      BY <1>1, <1>14 DEF vars
<1> QED
    BY <1>1, <1>2, <1>3, <1>4, <1>5, <1>6, <1>7, <1>8, <1>9, <1>10, <1>11, <1>12, <1>13, <1>14
    DEF Next, RunnerStep, ReaderStep, DispatcherStep, CloserStep

(* A run that ends with its turn has the terminal notification.            *)
LEMMA EndedAdmitted ==
  ASSUME RunIInv, [Next]_vars, UNCHANGED admitted
  PROVE  \A r \in Runs : Ended(r)' => r \in admitted
<1> SUFFICES ASSUME NEW r \in Runs, Ended(r)' PROVE r \in admitted
    OBVIOUS
<1>1. CASE outcome'[r] = outcome[r]
      BY <1>1 DEF Ended, RunIInv, AdmitBook
<1>2. CASE outcome'[r] # outcome[r]
  <2>1. closeReason \in {None, "failure", "closed"}  BY DEF RunIInv, TypeOK
  <2>2. closed => closeReason \in {"failure", "closed"}  BY <2>1 DEF closed
  <2> QED BY <1>2, <2>2, OutcomesEarned DEF Earning, Ended
<1> QED BY <1>1, <1>2

(* A notification that joins a history.                                    *)
LEMMA AdmitEffect ==
  ASSUME RunIInv, NEW r \in Runs, NEW n \in Frames, AcceptInto(r, n), UNCHANGED <<log, outcome>>,
         \A m \in Frames : \A s \in completion'[m] :
            \/ s \in completion[m]
            \/ s = r /\ m = n /\ Accepts(r, n) /\ log[n].kind \in Terminals
  PROVE  AdmitBook'
<1>0. TypeOK /\ AdmitBook /\ admitted \subseteq Runs /\ \A m \in Frames : completion[m] \subseteq Runs
      BY DEF RunIInv, TypeOK
<1>1. /\ history' \in [Runs -> Seq(Frames)] /\ admitted' \subseteq Runs
      /\ \A s \in Runs : s # r => history'[s] = history[s] /\ (s \in admitted' <=> s \in admitted)
      /\ ~Accepts(r, n) => history' = history /\ admitted' = admitted
      BY <1>0, AcceptEffect
<1>2. Accepts(r, n) =>
         /\ Len(history[r]) \in Nat /\ Len(history'[r]) = Len(history[r]) + 1
         /\ history'[r][Len(history[r]) + 1] = n
         /\ r \notin admitted /\ (r \in admitted' <=> log[n].kind \in Terminals)
      BY <1>0, AcceptEffect
<1>3. Accepts(r, n) => Last(r)' = n
      BY <1>2 DEF Last
<1>4. \A s \in admitted : s \in admitted' /\ history'[s] = history[s] /\ Last(s)' = Last(s)
      BY <1>0, <1>1, <1>2 DEF Last
<1>5. \A s \in admitted' : history'[s] # <<>> /\ log[Last(s)'].kind \in Terminals
  <2> SUFFICES ASSUME NEW s \in admitted' PROVE history'[s] # <<>> /\ log[Last(s)'].kind \in Terminals
      OBVIOUS
  <2>1. CASE s \in admitted
        BY <2>1, <1>0, <1>4 DEF AdmitBook
  <2>2. CASE s \notin admitted
    <3>1. s = r /\ Accepts(r, n) /\ log[n].kind \in Terminals
          BY <2>2, <1>1, <1>2
    <3>2. Len(history'[r]) # 0
          BY <3>1, <1>2
    <3> QED BY <3>1, <3>2, <1>3
  <2> QED BY <2>1, <2>2
<1>6. \A s \in Runs : \A i \in 1..Len(history'[s]) : log[history'[s][i]].kind \in Terminals => s \in admitted'
  <2>1. \A s \in Runs : \A i \in 1..Len(history'[s]) :
            \/ i \in 1..Len(history[s]) /\ history'[s][i] = history[s][i]
            \/ s = r /\ history'[s][i] = n /\ i = Len(history[s]) + 1 /\ Accepts(r, n)
        BY <1>0, AcceptLast
  <2> QED BY <2>1, <1>0, <1>2, <1>4 DEF AdmitBook
<1>7. \A m \in Frames : \A s \in completion'[m] : s \in admitted' /\ Last(s)' = m
  <2> SUFFICES ASSUME NEW m \in Frames, NEW s \in completion'[m] PROVE s \in admitted' /\ Last(s)' = m
      OBVIOUS
  <2>1. CASE s \in completion[m]
        BY <2>1, <1>0, <1>4 DEF AdmitBook
  <2>2. CASE s = r /\ m = n /\ Accepts(r, n) /\ log[n].kind \in Terminals
        BY <2>2, <1>2, <1>3 DEF Last
  <2> QED BY <2>1, <2>2
<1>8. \A s \in Runs : Ended(s)' => s \in admitted'
      BY <1>0, <1>4 DEF AdmitBook, Ended
<1> QED BY <1>5, <1>6, <1>7, <1>8 DEF AdmitBook, Last

(* A terminal notification freezes its history.                            *)
LEMMA AdmitStep == RunIInv /\ [Next]_vars => AdmitBook'
<1> SUFFICES ASSUME RunIInv, [Next]_vars PROVE AdmitBook'
    OBVIOUS
<1> DEFINE kept == <<admitted, completion, history, log, outcome>>
<1> USE DEF runVars, stateVars, tableVars, pendVars, evidVars, readerVars, dispVars, closeVars
<1>1. CASE UNCHANGED kept
      BY <1>1 DEF RunIInv, AdmitBook, Last, Ended
<1>2. ASSUME NEW r \in Runs,
             CallThread(r) \/ ThreadResponse(r) \/ ThreadCallError(r) \/ Register(r) \/
                CallTurn(r) \/ (\E t \in Turns : TurnResponse(r, t)) \/ AttachGate(r) \/
                AttachPublish(r) \/ AttachFinish(r)
      PROVE  UNCHANGED kept
      BY <1>2 DEF CallThread, ThreadResponse, ThreadCallError, Register, CallTurn, TurnResponse,
             AttachGate, AttachPublish, AttachFinish, RunnerKeeps
<1>3. CASE Enqueue \/ EnqueueFull \/ EnqueueClosed \/ AwaitPublication \/
           (\E r \in Runs : AcceptOverBudget(r))
  <2>1. UNCHANGED kept
        BY <1>3 DEF AcceptOverBudget, Enqueue, EnqueueFull, EnqueueClosed, AwaitPublication,
               FailClient
  <2> QED BY <1>1, <2>1
<1>4. CASE Dequeue \/ EvidenceReady \/ DispatcherDiscard \/ DispatcherStop \/ DispatcherExit \/
           CallbackError \/ DispatcherFailed
  <2>1. UNCHANGED kept
        BY <1>4 DEF Dequeue, EvidenceReady, DispatcherDiscard, DispatcherStop, DispatcherExit,
               CallbackError, DispatcherFailed, DispKeeps, FailClient
  <2> QED BY <1>1, <2>1
<1>5. CASE CloserCancel \/ FailAllTake \/ Publish \/ StopDispatch \/ GraceExpires \/
           ShutdownDiscard \/ (\E cause \in Causes : Close(cause))
  <2>1. UNCHANGED kept
        BY <1>5 DEF Close, CloserCancel, FailAllTake, Publish, StopDispatch, GraceExpires,
               ShutdownDiscard, CloserKeeps
  <2> QED BY <1>1, <2>1
<1>6. ASSUME NEW r \in Runs, RegisterRefused(r) PROVE AdmitBook'
  <2>1. UNCHANGED <<admitted, history, log, completion>>
        BY <1>6 DEF RegisterRefused, RunnerKeeps
  <2> QED BY <2>1, EndedAdmitted DEF RunIInv, AdmitBook, Last
<1>7. ASSUME NEW r \in Runs, ThreadReplay(r) PROVE AdmitBook'
  <2>1. PICK n \in Frames : AcceptInto(r, n)
        BY <1>7, NotesEffect
  <2>2. UNCHANGED <<log, outcome, completion>>
        BY <1>7, NotesEffect
  <2> QED BY <2>1, <2>2, AdmitEffect
<1>8. ASSUME NEW r \in Runs, FinishAttaching(r) PROVE AdmitBook'
  <2>1. UNCHANGED <<admitted, history, log, completion>>
        BY <1>8 DEF FinishAttaching, RunnerKeeps
  <2> QED BY <2>1, EndedAdmitted DEF RunIInv, AdmitBook, Last
<1>9. ASSUME NEW r \in Runs, AttachReplay(r) PROVE AdmitBook'
  <2>1. PICK n \in Frames : Resolve(r, n)
        BY <1>9, ReplayEffect
  <2>2. UNCHANGED <<log, outcome>>
        BY <1>9, ReplayEffect
  <2>3. CASE n \in ready
    <3>1. UNCHANGED <<history, admitted, completion>>
          BY <2>1, <2>3, ResolveEffect DEF RunIInv
    <3> QED BY <2>2, <3>1 DEF RunIInv, AdmitBook, Last, Ended
  <2>4. CASE n \notin ready
    <3>1. AcceptInto(r, n)
          BY <2>1, <2>4, ResolveEffect DEF RunIInv
    <3>0. \A m \in Frames : completion'[m] =
             IF m = n /\ n \notin ready /\ Accepts(r, n) /\ log[n].kind \in Terminals
             THEN completion[m] \cup {r} ELSE completion[m]
          BY <2>1, ResolveEffect DEF RunIInv
    <3>2. \A m \in Frames : \A s \in completion'[m] :
             \/ s \in completion[m]
             \/ s = r /\ m = n /\ Accepts(r, n) /\ log[n].kind \in Terminals
          BY ONLY <3>0
    <3> QED BY <2>2, <3>1, <3>2, AdmitEffect
  <2> QED BY <2>3, <2>4
<1>10. ASSUME NEW r \in Runs, AttachComplete(r) PROVE AdmitBook'
  <2>1. UNCHANGED <<admitted, history, log, completion>>
        BY <1>10 DEF AttachComplete, RunnerKeeps
  <2> QED BY <2>1, EndedAdmitted DEF RunIInv, AdmitBook, Last
<1>11. ASSUME NEW r \in Runs, CloseStream(r) PROVE AdmitBook'
  <2>1. UNCHANGED <<admitted, history, log, completion>>
        BY <1>11 DEF CloseStream, RunnerKeeps
  <2> QED BY <2>1, EndedAdmitted DEF RunIInv, AdmitBook, Last
<1>12. ASSUME NEW th \in Threads, NEW t \in Turns, ServerRequestFails(th, t) PROVE AdmitBook'
  <2>1. UNCHANGED <<admitted, history, log, completion>>
        BY <1>12 DEF ServerRequestFails, RunnerKeeps
  <2> QED BY <2>1, EndedAdmitted DEF RunIInv, AdmitBook, Last
<1>13. ASSUME NEW k \in FrameKinds, NEW id \in Turns \cup Threads, Ingest(k, id) PROVE AdmitBook'
  <2>1. \A n \in Ingested : log'[n] = log[n]
        BY <1>13, LogEffect DEF RunIInv, Ingest, Ingested
  <2>2. UNCHANGED <<admitted, history, completion, outcome>>
        BY <1>13 DEF Ingest
  <2>3. \A r \in Runs : \A i \in 1..Len(history[r]) : log'[history[r][i]] = log[history[r][i]]
        BY <2>1 DEF RunIInv, LogBook
  <2>4. \A r \in admitted : log'[Last(r)] = log[Last(r)]
    <3> SUFFICES ASSUME NEW r \in admitted PROVE log'[Last(r)] = log[Last(r)]
        OBVIOUS
    <3>1. r \in Runs /\ history[r] \in Seq(Frames) /\ history[r] # <<>>
          BY DEF RunIInv, TypeOK, AdmitBook
    <3>2. Len(history[r]) \in 1..Len(history[r])
          BY <3>1
    <3> QED BY <2>3, <3>1, <3>2 DEF Last
  <2> QED BY <2>2, <2>3, <2>4 DEF RunIInv, AdmitBook, Last, Ended
<1>14. ASSUME NEW k \in FrameKinds, NEW id \in Turns \cup Threads, IngestOverBudget(k, id) PROVE AdmitBook'
  <2>1. \A n \in Ingested : log'[n] = log[n]
        BY <1>14, LogEffect DEF RunIInv, IngestOverBudget, Ingested
  <2>2. UNCHANGED <<admitted, history, completion, outcome>>
        BY <1>14 DEF IngestOverBudget
  <2>3. \A r \in Runs : \A i \in 1..Len(history[r]) : log'[history[r][i]] = log[history[r][i]]
        BY <2>1 DEF RunIInv, LogBook
  <2>4. \A r \in admitted : log'[Last(r)] = log[Last(r)]
    <3> SUFFICES ASSUME NEW r \in admitted PROVE log'[Last(r)] = log[Last(r)]
        OBVIOUS
    <3>1. r \in Runs /\ history[r] \in Seq(Frames) /\ history[r] # <<>>
          BY DEF RunIInv, TypeOK, AdmitBook
    <3>2. Len(history[r]) \in 1..Len(history[r])
          BY <3>1
    <3> QED BY <2>3, <3>1, <3>2 DEF Last
  <2> QED BY <2>2, <2>3, <2>4 DEF RunIInv, AdmitBook, Last, Ended
<1>15. ASSUME NEW r \in Runs, AcceptTarget(r) PROVE AdmitBook'
  <2>1. AcceptInto(r, frame) /\ frame \in Frames /\ UNCHANGED <<log, outcome>>
        BY <1>15 DEF AcceptTarget, RunIInv, TypeOK, LogBook, Frames
  <2>2. \A m \in Frames : \A s \in completion'[m] :
           \/ s \in completion[m]
           \/ s = r /\ m = frame /\ Accepts(r, frame) /\ log[frame].kind \in Terminals
        BY <1>15, <2>1 DEF AcceptTarget, RunIInv, TypeOK
  <2> QED BY <2>1, <2>2, AdmitEffect
<1>16. CASE ReaderComplete
  <2>1. UNCHANGED <<admitted, history, log, completion>>
        BY <1>16 DEF ReaderComplete
  <2> QED BY <2>1, EndedAdmitted DEF RunIInv, AdmitBook, Last
<1>17. CASE CallbackOk
  <2>1. UNCHANGED <<admitted, history, log, completion>>
        BY <1>17 DEF CallbackOk, DispKeeps
  <2> QED BY <2>1, EndedAdmitted DEF RunIInv, AdmitBook, Last
<1>18. ASSUME NEW n \in Frames, FailAllResolve(n) PROVE AdmitBook'
  <2>1. PICK x \in Runs : Resolve(x, n)
        BY <1>18 DEF FailAllResolve, RunIInv, CloseBook, TypeOK, Owned
  <2>2. UNCHANGED <<log, outcome>>
        BY <1>18 DEF FailAllResolve, CloserKeeps
  <2>3. CASE n \in ready
    <3>1. UNCHANGED <<history, admitted, completion>>
          BY <2>1, <2>3, ResolveEffect DEF RunIInv
    <3> QED BY <2>2, <3>1 DEF RunIInv, AdmitBook, Last, Ended
  <2>4. CASE n \notin ready
    <3>1. AcceptInto(x, n)
          BY <2>1, <2>4, ResolveEffect DEF RunIInv
    <3>0. \A m \in Frames : completion'[m] =
             IF m = n /\ n \notin ready /\ Accepts(x, n) /\ log[n].kind \in Terminals
             THEN completion[m] \cup {x} ELSE completion[m]
          BY <2>1, ResolveEffect DEF RunIInv
    <3>2. \A m \in Frames : \A s \in completion'[m] :
             \/ s \in completion[m]
             \/ s = x /\ m = n /\ Accepts(x, n) /\ log[n].kind \in Terminals
          BY ONLY <3>0
    <3> QED BY <2>2, <3>1, <3>2, AdmitEffect
  <2> QED BY <2>3, <2>4
<1>19. CASE FailAllFinish
  <2>1. UNCHANGED <<admitted, history, log, completion>>
        BY <1>19 DEF FailAllFinish, CloserKeeps
  <2> QED BY <2>1, EndedAdmitted DEF RunIInv, AdmitBook, Last
<1>20. CASE UNCHANGED vars
      BY <1>1, <1>20 DEF vars
<1> QED
    BY <1>1, <1>2, <1>3, <1>4, <1>5, <1>6, <1>7, <1>8, <1>9, <1>10, <1>11, <1>12, <1>13, <1>14,
       <1>15, <1>16, <1>17, <1>18, <1>19, <1>20
    DEF Next, RunnerStep, ReaderStep, DispatcherStep, CloserStep

(* A history stays its run's own when the notification that joins it is.   *)
LEMMA OwnEffect ==
  ASSUME RunIInv, NEW r \in Runs, NEW n \in Frames, AcceptInto(r, n), UNCHANGED <<log, answer>>,
         Accepts(r, n) => log[n].id = IF log[n].kind = "note" THEN ThreadOf[r] ELSE answer[r]
  PROVE  OwnEvidence'
<1>1. \A s \in Runs : \A m \in Frames : InHistory(s, m)' <=> InHistory(s, m) \/ (s = r /\ m = n /\ Accepts(r, n))
      BY AcceptHolds DEF RunIInv
<1>2. \A s \in Runs : \A m \in Frames : InHistory(s, m) =>
         log[m].id = IF log[m].kind = "note" THEN ThreadOf[s] ELSE answer[s]
      BY DEF RunIInv, OwnEvidence
<1>3. \A s \in Runs : \A m \in Frames : InHistory(s, m)' =>
         log[m].id = IF log[m].kind = "note" THEN ThreadOf[s] ELSE answer[s]
      BY <1>1, <1>2
<1> QED BY <1>3 DEF OwnEvidence

(* Whatever way a notification takes to a history, it is the run's own.    *)
LEMMA OwnStep == RunIInv /\ [Next]_vars => OwnEvidence'
<1> SUFFICES ASSUME RunIInv, [Next]_vars PROVE OwnEvidence'
    OBVIOUS
<1> DEFINE kept == <<answer, history, log>>
<1> USE DEF runVars, stateVars, tableVars, pendVars, evidVars, readerVars, dispVars, closeVars
<1>1. CASE UNCHANGED kept
      BY <1>1 DEF RunIInv, OwnEvidence, InHistory
<1>2. ASSUME NEW r \in Runs,
             CallThread(r) \/ ThreadResponse(r) \/ ThreadCallError(r) \/
                RegisterRefused(r) \/ Register(r) \/ CallTurn(r) \/ FinishAttaching(r) \/
                AttachGate(r) \/ AttachPublish(r) \/ AttachComplete(r) \/ AttachFinish(r) \/
                CloseStream(r)
      PROVE  UNCHANGED kept
      BY <1>2 DEF CallThread, ThreadResponse, ThreadCallError, RegisterRefused, Register, CallTurn,
             FinishAttaching, AttachGate, AttachPublish, AttachComplete, AttachFinish,
             CloseStream, RunnerKeeps
<1>3. CASE Enqueue \/ EnqueueFull \/ EnqueueClosed \/ AwaitPublication \/ ReaderComplete \/
           (\E r \in Runs : AcceptOverBudget(r))
  <2>1. UNCHANGED kept
        BY <1>3 DEF AcceptOverBudget, Enqueue, EnqueueFull, EnqueueClosed, AwaitPublication,
               ReaderComplete, FailClient
  <2> QED BY <1>1, <2>1
<1>4. CASE Dequeue \/ EvidenceReady \/ DispatcherDiscard \/ DispatcherStop \/ DispatcherExit \/
           CallbackOk \/ CallbackError \/ DispatcherFailed
  <2>1. UNCHANGED kept
        BY <1>4 DEF Dequeue, EvidenceReady, DispatcherDiscard, DispatcherStop, DispatcherExit,
               CallbackOk, CallbackError, DispatcherFailed, DispKeeps, FailClient
  <2> QED BY <1>1, <2>1
<1>5. CASE CloserCancel \/ FailAllTake \/ FailAllFinish \/ Publish \/ StopDispatch \/
           GraceExpires \/ ShutdownDiscard \/ (\E cause \in Causes : Close(cause))
  <2>1. UNCHANGED kept
        BY <1>5 DEF Close, CloserCancel, FailAllTake, FailAllFinish, Publish, StopDispatch,
               GraceExpires, ShutdownDiscard, CloserKeeps
  <2> QED BY <1>1, <2>1
<1>6. ASSUME NEW th \in Threads, NEW t \in Turns, ServerRequestFails(th, t)
      PROVE  UNCHANGED kept
      BY <1>6 DEF ServerRequestFails, RunnerKeeps
<1>7. ASSUME NEW r \in Runs, ThreadReplay(r) PROVE OwnEvidence'
  <2>1. PICK n \in Frames : AcceptInto(r, n) /\ log[n].kind = "note"
        BY <1>7, NotesEffect DEF RunIInv, NoteBook
  <2>2. UNCHANGED <<log, answer>>
        BY <1>7, NotesEffect
  <2>3. Accepts(r, n) => log[n].id = ThreadOf[r]
        BY <2>1 DEF Accepts, MatchesRun
  <2> QED BY <2>1, <2>2, <2>3, OwnEffect
<1>8. ASSUME NEW r \in Runs, NEW t \in Turns, TurnResponse(r, t) PROVE OwnEvidence'
  <2>1. answer[r] = None
        BY <1>8 DEF RunIInv, RunBook, TurnResponse
  <2>2. UNCHANGED <<log, history>> /\ \A s \in Runs \ {r} : answer'[s] = answer[s]
        BY <1>8 DEF TurnResponse, RunnerKeeps, RunIInv, TypeOK
  <2>3. \A n \in Frames : InHistory(r, n) => log[n].kind = "note"
    <3>1. \A n \in Frames : InHistory(r, n) => n \in 1..Len(log)
          BY DEF RunIInv, LogBook, InHistory, Ingested
    <3> QED BY <2>1, <3>1, LogTyped DEF RunIInv, OwnEvidence
  <2> QED BY <2>2, <2>3 DEF RunIInv, OwnEvidence, InHistory
<1>9. ASSUME NEW r \in Runs, AttachReplay(r) PROVE OwnEvidence'
  <2>1. PICK n \in Frames : Resolve(r, n) /\ log[n].kind # "note" /\ log[n].id = answer[r]
        BY <1>9, ReplayEffect DEF RunIInv, NoteBook, OwnerBook
  <2>2. UNCHANGED <<log, answer>>
        BY <1>9, ReplayEffect
  <2>3. CASE n \in ready
    <3>1. UNCHANGED history
          BY <2>1, <2>3, ResolveEffect DEF RunIInv
    <3> QED BY <2>2, <3>1 DEF RunIInv, OwnEvidence, InHistory
  <2>4. CASE n \notin ready
    <3>1. AcceptInto(r, n)
          BY <2>1, <2>4, ResolveEffect DEF RunIInv
    <3> QED BY <2>1, <2>2, <3>1, OwnEffect
  <2> QED BY <2>3, <2>4
<1>10. ASSUME NEW k \in FrameKinds, NEW id \in Turns \cup Threads, Ingest(k, id) PROVE OwnEvidence'
  <2>1. \A n \in Ingested : log'[n] = log[n]
        BY <1>10, LogEffect DEF RunIInv, Ingest, Ingested
  <2>2. UNCHANGED <<answer, history>>
        BY <1>10 DEF Ingest
  <2>3. \A r \in Runs : \A n \in Frames : InHistory(r, n) => n \in Ingested
        BY DEF RunIInv, LogBook, InHistory
  <2> QED BY <2>1, <2>2, <2>3 DEF RunIInv, OwnEvidence, InHistory
<1>11. ASSUME NEW k \in FrameKinds, NEW id \in Turns \cup Threads, IngestOverBudget(k, id) PROVE OwnEvidence'
  <2>1. \A n \in Ingested : log'[n] = log[n]
        BY <1>11, LogEffect DEF RunIInv, IngestOverBudget, Ingested
  <2>2. UNCHANGED <<answer, history>>
        BY <1>11 DEF IngestOverBudget
  <2>3. \A r \in Runs : \A n \in Frames : InHistory(r, n) => n \in Ingested
        BY DEF RunIInv, LogBook, InHistory
  <2> QED BY <2>1, <2>2, <2>3 DEF RunIInv, OwnEvidence, InHistory
<1>12. ASSUME NEW r \in Runs, AcceptTarget(r) PROVE OwnEvidence'
  <2>1. AcceptInto(r, frame) /\ frame \in Frames /\ frame \in 1..Len(log) /\ UNCHANGED <<log, answer>>
        BY <1>12 DEF AcceptTarget, RunIInv, TypeOK, LogBook, Frames
  <2>2. IF log[frame].kind = "note" THEN log[frame].id = ThreadOf[r] ELSE turnID[r] = log[frame].id
        BY <1>12 DEF AcceptTarget, RunIInv, TargetBook
  <2>3. turnID[r] \in {None, answer[r]}
        BY DEF RunIInv, RunBook
  <2>4. log[frame].id # None
        BY <2>1, LogTyped DEF RunIInv
  <2> QED BY <2>1, <2>2, <2>3, <2>4, OwnEffect
<1>13. ASSUME NEW n \in Frames, FailAllResolve(n) PROVE OwnEvidence'
  <2>1. PICK x \in Runs : Resolve(x, n) /\ log[n].kind # "note" /\ log[n].id = answer[x]
        BY <1>13 DEF FailAllResolve, RunIInv, CloseBook, OwnerBook, TypeOK, Owned
  <2>2. UNCHANGED <<log, answer>>
        BY <1>13 DEF FailAllResolve, CloserKeeps
  <2>3. CASE n \in ready
    <3>1. UNCHANGED history
          BY <2>1, <2>3, ResolveEffect DEF RunIInv
    <3> QED BY <2>2, <3>1 DEF RunIInv, OwnEvidence, InHistory
  <2>4. CASE n \notin ready
    <3>1. AcceptInto(x, n)
          BY <2>1, <2>4, ResolveEffect DEF RunIInv
    <3> QED BY <2>1, <2>2, <3>1, OwnEffect
  <2> QED BY <2>3, <2>4
<1>14. CASE UNCHANGED vars
      BY <1>1, <1>14 DEF vars
<1> QED
    BY <1>1, <1>2, <1>3, <1>4, <1>5, <1>6, <1>7, <1>8, <1>9, <1>10, <1>11, <1>12, <1>13, <1>14
    DEF Next, RunnerStep, ReaderStep, DispatcherStep, CloserStep

(* The order of a turn is kept by a note, and by a notification of the     *)
(* turn that is behind all that its run has and before all it will replay. *)
LEMMA OrderEffect ==
  ASSUME RunIInv, NEW r \in Runs, NEW n \in Frames, AcceptInto(r, n), UNCHANGED log,
         closeReason' = closeReason,
         \A s \in Runs : /\ local'[s] \subseteq local[s]
                         /\ pc[s] \in Replaying \cup {"attached"} => pc'[s] \in Replaying \cup {"attached"},
         Accepts(r, n) /\ log[n].kind # "note" =>
            /\ pc'[r] \in Replaying \cup {"attached"}
            /\ \A m \in local'[r] : n < m
            /\ \A i \in 1..Len(history[r]) : log[history[r][i]].kind # "note" => history[r][i] < n
  PROVE  OrderBook'
<1> SUFFICES ASSUME ~closed'
             PROVE  /\ TurnOrder'
                    /\ \A s \in Runs : \A i \in 1..Len(history'[s]) : log[history'[s][i]].kind # "note" =>
                          /\ pc'[s] \in Replaying \cup {"attached"}
                          /\ \A m \in local'[s] : history'[s][i] < m
    BY DEF OrderBook
<1>1. TurnOrder /\ \A s \in Runs : \A i \in 1..Len(history[s]) : log[history[s][i]].kind # "note" =>
         /\ pc[s] \in Replaying \cup {"attached"}
         /\ \A m \in local[s] : history[s][i] < m
      BY DEF RunIInv, OrderBook, closed
<1>2. \A s \in Runs : \A i \in 1..Len(history'[s]) :
            \/ i \in 1..Len(history[s]) /\ history'[s][i] = history[s][i]
            \/ s = r /\ history'[s][i] = n /\ i = Len(history[s]) + 1 /\ Accepts(r, n)
      BY AcceptLast DEF RunIInv
<1>3. \A s \in Runs : Len(history[s]) \in Nat
      BY DEF RunIInv, TypeOK
<1>4. TurnOrder'
  <2> SUFFICES ASSUME NEW s \in Runs, NEW i \in 1..Len(history'[s]), NEW j \in 1..Len(history'[s]), i < j,
                      log[history'[s][i]].kind # "note", log[history'[s][j]].kind # "note"
               PROVE  history'[s][i] < history'[s][j]
      BY DEF TurnOrder
  <2>1. CASE j \in 1..Len(history[s]) /\ history'[s][j] = history[s][j]
    <3>1. i \in 1..Len(history[s]) /\ history'[s][i] = history[s][i]
          BY <2>1, <1>2, <1>3
    <3> QED BY <2>1, <3>1, <1>1 DEF TurnOrder
  <2>2. CASE s = r /\ history'[s][j] = n /\ j = Len(history[s]) + 1 /\ Accepts(r, n)
    <3>1. i \in 1..Len(history[s]) /\ history'[s][i] = history[s][i]
          BY <2>2, <1>2, <1>3
    <3> QED BY <2>2, <3>1
  <2> QED BY <2>1, <2>2, <1>2
<1>5. ASSUME NEW s \in Runs, NEW i \in 1..Len(history'[s]), log[history'[s][i]].kind # "note"
      PROVE  pc'[s] \in Replaying \cup {"attached"} /\ \A m \in local'[s] : history'[s][i] < m
  <2>1. CASE i \in 1..Len(history[s]) /\ history'[s][i] = history[s][i]
        BY <2>1, <1>1, <1>5
  <2>2. CASE s = r /\ history'[s][i] = n /\ Accepts(r, n)
        BY <2>2, <1>5
  <2> QED BY <2>1, <2>2, <1>2
<1> QED BY <1>4, <1>5

(* The gate: live delivery waits while a run replays its turn.             *)
LEMMA OrderStep == RunIInv /\ [Next]_vars => OrderBook'
<1> SUFFICES ASSUME RunIInv, [Next]_vars PROVE OrderBook'
    OBVIOUS
<1> DEFINE kept == <<closeReason, history, local, log, pc>>
<1> USE DEF runVars, stateVars, tableVars, pendVars, evidVars, readerVars, dispVars, closeVars
<1>1. CASE UNCHANGED kept
      BY <1>1 DEF RunIInv, OrderBook, TurnOrder, Replaying, closed
<1>2. ASSUME NEW r \in Runs,
             CloseStream(r)
      PROVE  UNCHANGED kept
      BY <1>2 DEF CloseStream, RunnerKeeps
<1>3. CASE Enqueue \/ EnqueueClosed \/ AwaitPublication \/ ReaderComplete
  <2>1. UNCHANGED kept
        BY <1>3 DEF Enqueue, EnqueueClosed, AwaitPublication, ReaderComplete
  <2> QED BY <1>1, <2>1
<1>4. CASE Dequeue \/ EvidenceReady \/ DispatcherDiscard \/ DispatcherStop \/ DispatcherExit \/
           CallbackOk \/ DispatcherFailed
  <2>1. UNCHANGED kept
        BY <1>4 DEF Dequeue, EvidenceReady, DispatcherDiscard, DispatcherStop, DispatcherExit,
               CallbackOk, DispatcherFailed, DispKeeps
  <2> QED BY <1>1, <2>1
<1>5. CASE CloserCancel \/ FailAllTake \/ FailAllFinish \/ Publish \/ StopDispatch \/
           GraceExpires \/ ShutdownDiscard
  <2>1. UNCHANGED kept
        BY <1>5 DEF CloserCancel, FailAllTake, FailAllFinish, Publish, StopDispatch, GraceExpires,
               ShutdownDiscard, CloserKeeps
  <2> QED BY <1>1, <2>1
<1>6. ASSUME NEW th \in Threads, NEW t \in Turns, ServerRequestFails(th, t)
      PROVE  UNCHANGED kept
      BY <1>6 DEF ServerRequestFails, RunnerKeeps
<1>7. ASSUME NEW r \in Runs, CallThread(r) PROVE OrderBook'
  <2>1. UNCHANGED <<closeReason, history, log, local>> /\ \A s \in Runs \ {r} : pc'[s] = pc[s]
        BY <1>7 DEF CallThread, RunnerKeeps, RunIInv, TypeOK
  <2>2. pc[r] \in Replaying \cup {"attached"} => pc'[r] \in Replaying \cup {"attached"}
        BY <1>7 DEF CallThread, RunIInv, TypeOK, Replaying
  <2> QED BY <2>1, <2>2 DEF RunIInv, OrderBook, TurnOrder, closed
<1>8. ASSUME NEW r \in Runs, ThreadResponse(r) PROVE OrderBook'
  <2>1. UNCHANGED <<closeReason, history, log, local>> /\ \A s \in Runs \ {r} : pc'[s] = pc[s]
        BY <1>8 DEF ThreadResponse, RunnerKeeps, RunIInv, TypeOK
  <2>2. pc[r] \in Replaying \cup {"attached"} => pc'[r] \in Replaying \cup {"attached"}
        BY <1>8 DEF ThreadResponse, RunIInv, TypeOK, Replaying
  <2> QED BY <2>1, <2>2 DEF RunIInv, OrderBook, TurnOrder, closed
<1>9. ASSUME NEW r \in Runs, ThreadCallError(r) PROVE OrderBook'
  <2>1. UNCHANGED <<closeReason, history, log, local>> /\ \A s \in Runs \ {r} : pc'[s] = pc[s]
        BY <1>9 DEF ThreadCallError, RunnerKeeps, RunIInv, TypeOK
  <2>2. pc[r] \in Replaying \cup {"attached"} => pc'[r] \in Replaying \cup {"attached"}
        BY <1>9 DEF ThreadCallError, RunIInv, TypeOK, Replaying
  <2> QED BY <2>1, <2>2 DEF RunIInv, OrderBook, TurnOrder, closed
<1>10. ASSUME NEW r \in Runs, RegisterRefused(r) PROVE OrderBook'
  <2>1. UNCHANGED <<closeReason, history, log, local>> /\ \A s \in Runs \ {r} : pc'[s] = pc[s]
        BY <1>10 DEF RegisterRefused, RunnerKeeps, RunIInv, TypeOK
  <2>2. pc[r] \in Replaying \cup {"attached"} => pc'[r] \in Replaying \cup {"attached"}
        BY <1>10 DEF RegisterRefused, RunIInv, TypeOK, Replaying
  <2> QED BY <2>1, <2>2 DEF RunIInv, OrderBook, TurnOrder, closed
<1>11. ASSUME NEW r \in Runs, Register(r) PROVE OrderBook'
  <2>1. UNCHANGED <<closeReason, history, log>>
        /\ \A s \in Runs \ {r} : pc'[s] = pc[s] /\ local'[s] = local[s]
        BY <1>11 DEF Register, RunnerKeeps, RunIInv, TypeOK
  <2>2. pc[r] \notin Replaying \cup {"attached"}
        BY <1>11 DEF Register, Replaying
  <2> QED BY <2>1, <2>2 DEF RunIInv, OrderBook, TurnOrder, closed
<1>12. ASSUME NEW r \in Runs, ThreadReplay(r) PROVE OrderBook'
  <2>1. PICK n \in Frames : n \in local[r] /\ local'[r] = local[r] \ {n} /\ AcceptInto(r, n)
        BY <1>12, NotesEffect
  <2>2. UNCHANGED <<log, pc, closeReason>> /\ \A s \in Runs : local'[s] \subseteq local[s]
    <3>1. \A s \in Runs \ {r} : local'[s] = local[s]
          BY <1>12, NotesEffect
    <3> QED BY <1>12, <2>1, <3>1, NotesEffect
  <2>3. log[n].kind = "note"
        BY <1>12, <2>1, NotesEffect DEF RunIInv, NoteBook
  <2> QED BY <2>1, <2>2, <2>3, OrderEffect
<1>13. ASSUME NEW r \in Runs, CallTurn(r) PROVE OrderBook'
  <2>1. UNCHANGED <<closeReason, history, log, local>> /\ \A s \in Runs \ {r} : pc'[s] = pc[s]
        BY <1>13 DEF CallTurn, RunnerKeeps, RunIInv, TypeOK
  <2>2. pc[r] \in Replaying \cup {"attached"} => pc'[r] \in Replaying \cup {"attached"}
        BY <1>13 DEF CallTurn, RunIInv, TypeOK, Replaying
  <2> QED BY <2>1, <2>2 DEF RunIInv, OrderBook, TurnOrder, closed
<1>14. ASSUME NEW r \in Runs, FinishAttaching(r) PROVE OrderBook'
  <2>1. UNCHANGED <<closeReason, history, log, local>> /\ \A s \in Runs \ {r} : pc'[s] = pc[s]
        BY <1>14 DEF FinishAttaching, RunnerKeeps, RunIInv, TypeOK
  <2>2. pc[r] \in Replaying \cup {"attached"} => pc'[r] \in Replaying \cup {"attached"}
        BY <1>14 DEF FinishAttaching, RunIInv, TypeOK, Replaying
  <2> QED BY <2>1, <2>2 DEF RunIInv, OrderBook, TurnOrder, closed
<1>15. ASSUME NEW r \in Runs, NEW t \in Turns, TurnResponse(r, t) PROVE OrderBook'
  <2>1. UNCHANGED <<closeReason, history, log, local>> /\ \A s \in Runs \ {r} : pc'[s] = pc[s]
        BY <1>15 DEF TurnResponse, RunnerKeeps, RunIInv, TypeOK
  <2>2. pc[r] \in Replaying \cup {"attached"} => pc'[r] \in Replaying \cup {"attached"}
        BY <1>15 DEF TurnResponse, RunIInv, TypeOK, Replaying
  <2> QED BY <2>1, <2>2 DEF RunIInv, OrderBook, TurnOrder, closed
<1>16. ASSUME NEW r \in Runs, AttachGate(r) PROVE OrderBook'
  <2>1. UNCHANGED <<closeReason, history, log, local>> /\ \A s \in Runs \ {r} : pc'[s] = pc[s]
        BY <1>16 DEF AttachGate, RunnerKeeps, RunIInv, TypeOK
  <2>2. pc[r] \in Replaying \cup {"attached"} => pc'[r] \in Replaying \cup {"attached"}
        BY <1>16 DEF AttachGate, RunIInv, TypeOK, Replaying
  <2> QED BY <2>1, <2>2 DEF RunIInv, OrderBook, TurnOrder, closed
<1>17. ASSUME NEW r \in Runs, AttachPublish(r) PROVE OrderBook'
  <2>1. UNCHANGED <<closeReason, history, log>>
        /\ \A s \in Runs \ {r} : pc'[s] = pc[s] /\ local'[s] = local[s]
        BY <1>17, PublishEffect
  <2>2. pc[r] \notin Replaying \cup {"attached"}
        BY <1>17, PublishEffect DEF AttachPublish, Replaying
  <2> QED BY <2>1, <2>2 DEF RunIInv, OrderBook, TurnOrder, closed
<1>18. ASSUME NEW r \in Runs, AttachReplay(r) PROVE OrderBook'
  <2>1. PICK n \in Frames : /\ n \in local[r] /\ \A m \in local[r] : n <= m
                            /\ local'[r] = local[r] \ {n} /\ Resolve(r, n)
        BY <1>18, ReplayEffect
  <2>2. UNCHANGED <<log, closeReason>> /\ \A s \in Runs \ {r} : local'[s] = local[s] /\ pc'[s] = pc[s]
        BY <1>18, ReplayEffect
  <2>3. pc[r] \in Replaying /\ pc'[r] \in Replaying
        BY <1>18, ReplayEffect DEF Replaying
  <2>4. \A s \in Runs : /\ local'[s] \subseteq local[s]
                        /\ pc[s] \in Replaying \cup {"attached"} => pc'[s] \in Replaying \cup {"attached"}
        BY <2>1, <2>2, <2>3
  <2>5. CASE n \in ready
    <3>1. UNCHANGED history
          BY <2>1, <2>5, ResolveEffect DEF RunIInv
    <3> QED BY <2>2, <2>4, <3>1 DEF RunIInv, OrderBook, TurnOrder, closed
  <2>6. CASE n \notin ready
    <3>1. AcceptInto(r, n)
          BY <2>1, <2>6, ResolveEffect DEF RunIInv
    <3>2. \A m \in local'[r] : n < m
      <4>1. local[r] \subseteq Frames  BY DEF RunIInv, TypeOK
      <4> QED BY <2>1, <4>1 DEF Frames
    <3>3. ~closed => \A i \in 1..Len(history[r]) : log[history[r][i]].kind # "note" => history[r][i] < n
          BY <2>1 DEF RunIInv, OrderBook
    <3>4. CASE closed
          BY <2>2, <3>4 DEF OrderBook, closed
    <3>5. CASE ~closed
          BY <2>2, <2>3, <2>4, <3>1, <3>2, <3>3, <3>5, OrderEffect
    <3> QED BY <3>4, <3>5
  <2> QED BY <2>5, <2>6
<1>19. ASSUME NEW r \in Runs, AttachComplete(r) PROVE OrderBook'
  <2>1. UNCHANGED <<closeReason, history, log, local>> /\ \A s \in Runs \ {r} : pc'[s] = pc[s]
        BY <1>19 DEF AttachComplete, RunnerKeeps, RunIInv, TypeOK
  <2>2. pc[r] \in Replaying \cup {"attached"} => pc'[r] \in Replaying \cup {"attached"}
        BY <1>19 DEF AttachComplete, RunIInv, TypeOK, Replaying
  <2> QED BY <2>1, <2>2 DEF RunIInv, OrderBook, TurnOrder, closed
<1>20. ASSUME NEW r \in Runs, AttachFinish(r) PROVE OrderBook'
  <2>1. UNCHANGED <<closeReason, history, log, local>> /\ \A s \in Runs \ {r} : pc'[s] = pc[s]
        BY <1>20 DEF AttachFinish, RunnerKeeps, RunIInv, TypeOK
  <2>2. pc[r] \in Replaying \cup {"attached"} => pc'[r] \in Replaying \cup {"attached"}
        BY <1>20 DEF AttachFinish, RunIInv, TypeOK, Replaying
  <2> QED BY <2>1, <2>2 DEF RunIInv, OrderBook, TurnOrder, closed
<1>21. ASSUME NEW k \in FrameKinds, NEW id \in Turns \cup Threads, Ingest(k, id) PROVE OrderBook'
  <2>1. \A n \in Ingested : log'[n] = log[n]
        BY <1>21, LogEffect DEF RunIInv, Ingest, Ingested
  <2>2. UNCHANGED <<closeReason, history, pc, local>>
        BY <1>21 DEF Ingest
  <2>3. \A s \in Runs : \A i \in 1..Len(history[s]) : log'[history[s][i]] = log[history[s][i]]
        BY <2>1 DEF RunIInv, LogBook
  <2> QED BY <2>2, <2>3 DEF RunIInv, OrderBook, TurnOrder, closed
<1>22. ASSUME NEW k \in FrameKinds, NEW id \in Turns \cup Threads, IngestOverBudget(k, id) PROVE OrderBook'
  <2>1. closed'
        BY <1>22, ConstantsAssumption DEF IngestOverBudget, FailClient, closed
  <2> QED BY <2>1 DEF OrderBook
<1>23. ASSUME NEW r \in Runs, AcceptTarget(r) PROVE OrderBook'
  <2>1. /\ AcceptInto(r, frame) /\ frame \in Frames /\ frame = Len(log) /\ frame \in 1..Len(log)
        /\ UNCHANGED <<log, pc, local, closeReason>>
        BY <1>23 DEF AcceptTarget, RunIInv, TypeOK, LogBook, Frames
  <2>2. log[frame].kind # "note" => pc[r] = "attached" /\ local[r] = {}
    <3>1. log[frame].kind # "note" => turnID[r] # None
          BY <1>23, <2>1, LogTyped DEF AcceptTarget, RunIInv, TargetBook
    <3>2. pc[r] \notin {"gated", "replay", "replayComplete"}
          BY <1>23 DEF AcceptTarget, GateFree
    <3>3. pc[r] \notin Early \cup {"threadReplay", "callTurn", "gotTurn"} => pc[r] = "attached"
          BY <3>2 DEF RunIInv, TypeOK, Early
    <3>4. turnID[r] # None => pc[r] = "attached"
          BY <3>3 DEF RunIInv, RunBook
    <3>5. pc[r] = "attached" => local[r] = {}
          BY DEF RunIInv, NoteBook, Replaying
    <3> QED BY <3>1, <3>4, <3>5
  <2>3. \A i \in 1..Len(history[r]) : history[r][i] < frame
    <3>1. ~InHistory(r, frame)
          BY <1>23 DEF AcceptTarget, RunIInv, FreshBook
    <3>2. \A i \in 1..Len(history[r]) : history[r][i] \in 1..Len(log) /\ history[r][i] # frame
          BY <3>1 DEF RunIInv, LogBook, Ingested, InHistory
    <3> QED BY <2>1, <3>2
  <2> QED BY <2>1, <2>2, <2>3, OrderEffect
<1>24. ASSUME NEW r \in Runs, AcceptOverBudget(r) PROVE OrderBook'
  <2>1. closed'
        BY <1>24, ConstantsAssumption DEF AcceptOverBudget, FailClient, closed
  <2> QED BY <2>1 DEF OrderBook
<1>25. CASE EnqueueFull
  <2>1. closed'
        BY <1>25, ConstantsAssumption DEF EnqueueFull, FailClient, closed
  <2> QED BY <2>1 DEF OrderBook
<1>26. CASE CallbackError
  <2>1. closed'
        BY <1>26, ConstantsAssumption DEF CallbackError, FailClient, closed
  <2> QED BY <2>1 DEF OrderBook
<1>27. ASSUME NEW cause \in Causes, Close(cause) PROVE OrderBook'
  <2>1. closed'
        BY <1>27, ConstantsAssumption DEF Close, FailClient, closed
  <2> QED BY <2>1 DEF OrderBook
<1>28. ASSUME NEW n \in Frames, FailAllResolve(n) PROVE OrderBook'
  <2>1. closed'
        BY <1>28 DEF FailAllResolve, RunIInv, CloseBook, closed
  <2> QED BY <2>1 DEF OrderBook
<1>29. CASE UNCHANGED vars
      BY <1>1, <1>29 DEF vars
<1> QED
    BY <1>1, <1>2, <1>3, <1>4, <1>5, <1>6, <1>7, <1>8, <1>9, <1>10, <1>11, <1>12, <1>13, <1>14,
       <1>15, <1>16, <1>17, <1>18, <1>19, <1>20, <1>21, <1>22, <1>23, <1>24, <1>25, <1>26,
       <1>27, <1>28, <1>29
    DEF Next, RunnerStep, ReaderStep, DispatcherStep, CloserStep

(* The queue is in the order of the log, behind what is dispatched.        *)
LEMMA QueueStep == RunIInv /\ [Next]_vars => QueueBook'
<1> SUFFICES ASSUME RunIInv, [Next]_vars PROVE QueueBook'
    OBVIOUS
<1> DEFINE kept == <<closeReason, current, delivered, disp, entered, owner, queue>>
<1> USE DEF runVars, stateVars, tableVars, pendVars, evidVars, readerVars, dispVars, closeVars
<1>1. CASE UNCHANGED kept
      BY <1>1 DEF RunIInv, QueueBook, Owned, closed
<1>2. ASSUME NEW r \in Runs,
             CallThread(r) \/ ThreadResponse(r) \/ ThreadCallError(r) \/
                RegisterRefused(r) \/ Register(r) \/ ThreadReplay(r) \/ CallTurn(r) \/
                FinishAttaching(r) \/ (\E t \in Turns : TurnResponse(r, t)) \/ AttachGate(r) \/
                AttachPublish(r) \/ AttachReplay(r) \/ AttachComplete(r) \/ AttachFinish(r) \/
                CloseStream(r)
      PROVE  UNCHANGED kept
      BY <1>2 DEF CallThread, ThreadResponse, ThreadCallError, RegisterRefused, Register,
             ThreadReplay, CallTurn, FinishAttaching, TurnResponse, AttachGate, AttachPublish,
             AttachReplay, AttachComplete, AttachFinish, CloseStream, RunnerKeeps
<1>3. CASE EnqueueClosed \/ AwaitPublication \/ ReaderComplete \/
           (\E r \in Runs : AcceptTarget(r))
  <2>1. UNCHANGED kept
        BY <1>3 DEF AcceptTarget, EnqueueClosed, AwaitPublication, ReaderComplete
  <2> QED BY <1>1, <2>1
<1>4. CASE CloserCancel \/ FailAllTake \/ FailAllFinish \/ Publish \/ StopDispatch \/
           GraceExpires \/ (\E n \in Frames : FailAllResolve(n))
  <2>1. UNCHANGED kept
        BY <1>4 DEF CloserCancel, FailAllTake, FailAllResolve, FailAllFinish, Publish, StopDispatch,
               GraceExpires, CloserKeeps
  <2> QED BY <1>1, <2>1
<1>5. ASSUME NEW th \in Threads, NEW t \in Turns, ServerRequestFails(th, t)
      PROVE  UNCHANGED kept
      BY <1>5 DEF ServerRequestFails, RunnerKeeps
<1>6. ASSUME NEW k \in FrameKinds, NEW id \in Turns \cup Threads, Ingest(k, id) PROVE QueueBook'
  <2>1. UNCHANGED <<queue, entered, current, disp, closeReason, delivered>>
        BY <1>6 DEF Ingest
  <2>2. Owned(current) /\ current \in Frames => Owned(current)'
    <3>1. current # Len(log) + 1
          BY DEF RunIInv, LogBook, TypeOK
    <3> QED BY <1>6, <2>1, <3>1 DEF Ingest, RunIInv, TypeOK, Owned
  <2>3. disp = "evidence" => Owned(current) /\ current \in Frames
        BY DEF RunIInv, QueueBook, TypeOK
  <2> QED BY <2>1, <2>2, <2>3 DEF RunIInv, QueueBook, closed
<1>7. ASSUME NEW k \in FrameKinds, NEW id \in Turns \cup Threads, IngestOverBudget(k, id) PROVE QueueBook'
  <2>1. closed' /\ UNCHANGED <<queue, entered, current, disp, owner, delivered>>
        BY <1>7, ConstantsAssumption DEF IngestOverBudget, FailClient, closed
  <2> QED BY <2>1 DEF RunIInv, QueueBook, Owned
<1>8. ASSUME NEW r \in Runs, AcceptOverBudget(r) PROVE QueueBook'
  <2>1. closed' /\ UNCHANGED <<queue, entered, current, disp, owner, delivered>>
        BY <1>8, ConstantsAssumption DEF AcceptOverBudget, FailClient, closed
  <2> QED BY <2>1 DEF RunIInv, QueueBook, Owned
<1>9. CASE Enqueue
  <2>1. /\ queue' = Append(queue, frame) /\ entered' = entered \cup {frame} /\ ~closed
        /\ UNCHANGED <<current, disp, owner, closeReason, delivered>>
        BY <1>9 DEF Enqueue
  <2>2. /\ queue \in Seq(Frames) /\ frame \in Frames /\ frame = Len(log) /\ frame \notin entered
        /\ entered \subseteq 1..Len(log) /\ current \in Nat /\ current <= Len(log) /\ Len(log) \in Nat
        BY <1>9 DEF Enqueue, RunIInv, TypeOK, LogBook, Frames, Ingested
  <2>3. /\ Len(queue) \in Nat /\ Len(queue') = Len(queue) + 1 /\ queue'[Len(queue) + 1] = frame
        /\ \A i \in 1..Len(queue) : queue'[i] = queue[i]
        BY ONLY <2>1, <2>2
  <2>4. \A i \in 1..Len(queue') : (i \in 1..Len(queue) /\ queue'[i] = queue[i]) \/ (i = Len(queue) + 1 /\ queue'[i] = frame)
        BY <2>3
  <2>5. current < frame
    <3>1. current = 0 \/ current \in entered
          BY DEF RunIInv, QueueBook
    <3>2. current # frame /\ frame >= 1
          BY <1>9, <2>2, <3>1 DEF Enqueue, RunIInv, LogBook
    <3> QED BY <2>2, <3>2
  <2>6. \A i \in 1..Len(queue) : queue[i] \in entered /\ current < queue[i] /\ queue[i] < frame
    <3>1. \A i \in 1..Len(queue) : queue[i] \in entered /\ current < queue[i]
          BY DEF RunIInv, QueueBook
    <3>2. \A n \in entered : n < frame
          BY <2>2
    <3> QED BY <3>1, <3>2
  <2>7. \A i \in 1..Len(queue') : queue'[i] \in entered' /\ current < queue'[i]
        BY <2>1, <2>4, <2>5, <2>6
  <2>8. \A i, j \in 1..Len(queue') : i < j => queue'[i] < queue'[j]
    <3> SUFFICES ASSUME NEW i \in 1..Len(queue'), NEW j \in 1..Len(queue'), i < j PROVE queue'[i] < queue'[j]
        OBVIOUS
    <3>1. i \in 1..Len(queue) /\ queue'[i] = queue[i]
          BY <2>3, <2>4
    <3>2. CASE j \in 1..Len(queue) /\ queue'[j] = queue[j]
          BY <3>1, <3>2 DEF RunIInv, QueueBook
    <3>3. CASE queue'[j] = frame
          BY <3>1, <3>3, <2>6
    <3> QED BY <3>2, <3>3, <2>4
  <2>9. /\ disp \in {"idle", "evidence", "callback"}
        /\ \A n \in entered' : \/ n \in delivered
                               \/ \E i \in 1..Len(queue') : queue'[i] = n
                               \/ n = current /\ disp \in {"evidence", "callback"}
    <3>1. Len(queue) + 1 \in 1..Len(queue') /\ 1..Len(queue) \subseteq 1..Len(queue')
          BY <2>3
    <3> QED BY <2>1, <2>3, <3>1 DEF RunIInv, QueueBook
  <2> QED BY <2>1, <2>7, <2>8, <2>9 DEF RunIInv, QueueBook, Owned
<1>10. CASE EnqueueFull
  <2>1. closed' /\ UNCHANGED <<queue, entered, current, disp, owner, delivered>>
        BY <1>10, ConstantsAssumption DEF EnqueueFull, FailClient, closed
  <2> QED BY <2>1 DEF RunIInv, QueueBook, Owned
<1>11. CASE Dequeue
  <2>1. /\ queue # <<>> /\ current' = Head(queue) /\ queue' = Tail(queue) /\ disp \in {"idle", "drain"}
        /\ UNCHANGED <<entered, owner, closeReason, delivered>>
        /\ disp' = IF disp = "drain" THEN "drainCallback"
                   ELSE IF owner[Head(queue)] # None THEN "evidence" ELSE "callback"
        BY <1>11 DEF Dequeue, DispKeeps
  <2>2. queue \in Seq(Frames)
        BY DEF RunIInv, TypeOK
  <2>3. /\ Len(queue) \in Nat /\ Len(queue) > 0 /\ current' = queue[1] /\ Len(queue') = Len(queue) - 1
        /\ \A i \in 1..Len(queue') : queue'[i] = queue[i + 1]
        BY ONLY <2>1, <2>2
  <2>4. /\ 1 \in 1..Len(queue) /\ \A i \in 1..Len(queue') : i + 1 \in 1..Len(queue) /\ 1 < i + 1
        /\ \A i \in 1..Len(queue) : i = 1 \/ (i - 1 \in 1..Len(queue') /\ (i - 1) + 1 = i)
        BY <2>3
  <2>5. current' \in entered /\ \A i \in 1..Len(queue') : queue'[i] \in entered /\ current' < queue'[i]
        BY <2>3, <2>4 DEF RunIInv, QueueBook
  <2>6. \A i, j \in 1..Len(queue') : i < j => queue'[i] < queue'[j]
    <3> SUFFICES ASSUME NEW i \in 1..Len(queue'), NEW j \in 1..Len(queue'), i < j PROVE queue'[i] < queue'[j]
        OBVIOUS
    <3>1. i + 1 < j + 1  OBVIOUS
    <3> QED BY <2>3, <2>4, <3>1 DEF RunIInv, QueueBook
  <2>7. disp' = "evidence" => Owned(current)'
        BY <2>1 DEF Owned
  <2>8. ~closed => disp' \in {"evidence", "callback"}
        BY <2>1 DEF RunIInv, QueueBook
  <2>9. ~closed => \A n \in entered : n \in delivered \/ (\E i \in 1..Len(queue') : queue'[i] = n) \/ n = current'
    <3> SUFFICES ASSUME ~closed, NEW n \in entered, n \notin delivered
                 PROVE  (\E i \in 1..Len(queue') : queue'[i] = n) \/ n = current'
        OBVIOUS
    <3>1. PICK i \in 1..Len(queue) : queue[i] = n
          BY <2>1 DEF RunIInv, QueueBook
    <3>2. CASE i = 1
          BY <3>1, <3>2, <2>3
    <3>3. CASE i - 1 \in 1..Len(queue') /\ (i - 1) + 1 = i
          BY <3>1, <3>3, <2>3
    <3> QED BY <3>2, <3>3, <2>4
  <2> QED BY <2>1, <2>5, <2>6, <2>7, <2>8, <2>9 DEF QueueBook, closed
<1>12. CASE EvidenceReady
      BY <1>12 DEF RunIInv, TypeOK, QueueBook, Owned, closed, EvidenceReady, DispKeeps
<1>13. CASE DispatcherDiscard
  <2>1. closed
        BY <1>13 DEF DispatcherDiscard, RunIInv, CloseBook
  <2>2. closed' /\ queue' = <<>> /\ UNCHANGED <<entered, current, owner, delivered>>
        BY <1>13, <2>1 DEF DispatcherDiscard, DispKeeps, closed
  <2>3. disp' = disp \/ disp' = "exited"
        BY <1>13 DEF DispatcherDiscard
  <2> QED BY <2>2, <2>3 DEF RunIInv, QueueBook, Owned
<1>14. CASE DispatcherStop
  <2>1. closed
        BY <1>14 DEF DispatcherStop, RunIInv, CloseBook
  <2>2. closed' /\ UNCHANGED <<queue, entered, current, owner, delivered>>
        BY <1>14, <2>1 DEF DispatcherStop, DispKeeps, closed
  <2>3. disp' = "drain" \/ (disp' = "drainCallback" /\ disp = "evidence")
        BY <1>14 DEF DispatcherStop
  <2> QED BY <2>2, <2>3 DEF RunIInv, QueueBook, Owned
<1>15. CASE DispatcherExit
      BY <1>15 DEF RunIInv, TypeOK, QueueBook, Owned, closed, DispatcherExit, DispKeeps
<1>16. CASE CallbackOk
  <2>1. /\ UNCHANGED <<queue, entered, current, owner, closeReason>> /\ delivered' = delivered \cup {current}
        /\ disp' = IF disp = "callback" THEN "idle" ELSE "drain"
        /\ disp \in {"callback", "drainCallback"}
        BY <1>16 DEF CallbackOk, DispKeeps
  <2> QED BY <2>1 DEF RunIInv, QueueBook, closed
<1>17. CASE CallbackError
  <2>1. closed' /\ UNCHANGED <<entered, current, owner, delivered>> /\ disp' \in {"exited", "failing"}
        /\ (queue' = queue \/ queue' = <<>>)
        BY <1>17, ConstantsAssumption DEF CallbackError, DispKeeps, FailClient, closed
  <2> QED BY <2>1 DEF RunIInv, QueueBook, Owned
<1>18. CASE DispatcherFailed
  <2>1. closed
        BY <1>18 DEF DispatcherFailed, RunIInv, QueueBook
  <2>2. closed' /\ queue' = <<>> /\ UNCHANGED <<entered, current, owner, delivered>>
        BY <1>18, <2>1 DEF DispatcherFailed, DispKeeps, closed
  <2>3. disp' = disp \/ disp' = "exited"
        BY <1>18 DEF DispatcherFailed
  <2> QED BY <2>2, <2>3 DEF RunIInv, QueueBook, Owned
<1>19. ASSUME NEW cause \in Causes, Close(cause) PROVE QueueBook'
  <2>1. closed' /\ UNCHANGED <<queue, entered, current, disp, owner, delivered>>
        BY <1>19, ConstantsAssumption DEF Close, CloserKeeps, closed
  <2> QED BY <2>1 DEF RunIInv, QueueBook, Owned
<1>20. CASE ShutdownDiscard
  <2>1. closed
        BY <1>20 DEF ShutdownDiscard, RunIInv, CloseBook
  <2>2. closed' /\ queue' = <<>> /\ UNCHANGED <<entered, current, owner, delivered>>
        BY <1>20, <2>1 DEF ShutdownDiscard, CloserKeeps, closed
  <2>3. disp' = disp \/ disp' = "exited"
        BY <1>20 DEF ShutdownDiscard
  <2> QED BY <2>2, <2>3 DEF RunIInv, QueueBook, Owned
<1>21. CASE UNCHANGED vars
      BY <1>1, <1>21 DEF vars
<1> QED
    BY <1>1, <1>2, <1>3, <1>4, <1>5, <1>6, <1>7, <1>8, <1>9, <1>10, <1>11, <1>12, <1>13, <1>14,
       <1>15, <1>16, <1>17, <1>18, <1>19, <1>20, <1>21
    DEF Next, RunnerStep, ReaderStep, DispatcherStep, CloserStep

(* An error of the run itself, a failed request and a close never end a    *)
(* run with its turn.                                                      *)
LEMMA FinishLocal ==
  ASSUME RunIInv, NEW S \in SUBSET Runs, NEW err, Finish(S, err),
         \A r \in S : closed \/ err[r] \notin {"ok", "turnErr"}
  PROVE  \A r \in Runs : Ended(r)' => Ended(r)
<1>1. \A r \in Runs : outcome'[r] = IF r \in S /\ outcome[r] = None
                                    THEN IF closed THEN closeReason ELSE err[r]
                                    ELSE outcome[r]
      BY FinishEffect DEF RunIInv
<1>2. closed => closeReason \in {"failure", "closed"}
      BY DEF RunIInv, TypeOK, closed
<1>3. closed => closeReason \notin {"ok", "turnErr"}
      BY <1>2
<1> QED BY <1>1, <1>3 DEF Ended

\* No step that only one run's caller takes ends another run.
LEMMA LocalEnds ==
  ASSUME RunIInv
  PROVE  /\ \A r \in Runs : RegisterRefused(r) \/ FinishAttaching(r) \/ CloseStream(r) =>
               \A s \in Runs : Ended(s)' => Ended(s)
         /\ \A th \in Threads, t \in Turns : ServerRequestFails(th, t) =>
               \A s \in Runs : Ended(s)' => Ended(s)
         /\ FailAllFinish => \A s \in Runs : Ended(s)' => Ended(s)
<1>1. ASSUME NEW r \in Runs, RegisterRefused(r) \/ FinishAttaching(r) \/ CloseStream(r)
      PROVE  \A s \in Runs : Ended(s)' => Ended(s)
  <2>1. PICK e \in {"busy", "startErr", "streamClosed"} : Finish({r}, [s \in {r} |-> e])
        BY <1>1 DEF RegisterRefused, FinishAttaching, CloseStream
  <2>2. \A q \in {r} : [s \in {r} |-> e][q] \notin {"ok", "turnErr"}
        OBVIOUS
  <2> QED BY <2>1, <2>2, FinishLocal
<1>2. ASSUME NEW th \in Threads, NEW t \in Turns, ServerRequestFails(th, t)
      PROVE  \A s \in Runs : Ended(s)' => Ended(s)
  <2>1. RequestTargets(th, t) \in SUBSET Runs
        BY DEF RunIInv, TypeOK, RequestTargets
  <2>2. \A q \in RequestTargets(th, t) : [s \in Runs |-> "requestErr"][q] \notin {"ok", "turnErr"}
        BY <2>1
  <2> QED BY <1>2, <2>1, <2>2, FinishLocal DEF ServerRequestFails
<1>3. ASSUME FailAllFinish PROVE \A s \in Runs : Ended(s)' => Ended(s)
  <2>1. snapshot \in SUBSET Runs /\ closed
        BY <1>3 DEF RunIInv, TypeOK, CloseBook, FailAllFinish
  <2> QED BY <1>3, <2>1, FinishLocal DEF FailAllFinish
<1> QED BY <1>1, <1>2, <1>3

(* The history of a run that ended with its turn does not change.          *)
LEMMA EndedStays ==
  ASSUME RunIInv, NEW r \in Runs, NEW n \in Frames, AcceptInto(r, n), UNCHANGED outcome
  PROVE  \A s \in Runs : Ended(s)' => Ended(s) /\ Last(s)' = Last(s)
<1> SUFFICES ASSUME NEW s \in Runs, Ended(s)' PROVE Ended(s) /\ Last(s)' = Last(s)
    OBVIOUS
<1>1. Ended(s)  BY DEF Ended
<1>2. outcome[s] # None  BY <1>1, ConstantsAssumption DEF Ended
<1>3. history'[s] = history[s]
  <2>1. CASE s # r
        BY <2>1, AcceptEffect DEF RunIInv
  <2>2. CASE s = r
    <3>1. ~Accepts(r, n)  BY <2>2, <1>2 DEF Accepts
    <3> QED BY <3>1, AcceptEffect DEF RunIInv
  <2> QED BY <2>1, <2>2
<1> QED BY <1>1, <1>3 DEF Last

(* Only a callback that has returned ends a run with its turn, and all     *)
(* before it in the queue has been delivered.                              *)
LEMMA FenceStep == RunIInv /\ [Next]_vars => FenceBook'
<1> SUFFICES ASSUME RunIInv, [Next]_vars PROVE FenceBook'
    OBVIOUS
<1> DEFINE kept == <<delivered, entered, hasHandler, history, outcome, pc, reader>>
<1> USE DEF runVars, stateVars, tableVars, pendVars, evidVars, readerVars, dispVars, closeVars
<1>1. CASE UNCHANGED kept
      BY <1>1 DEF RunIInv, FenceBook, TerminalFence, Ended, Last
<1>2. ASSUME NEW r \in Runs,
             AcceptOverBudget(r)
      PROVE  UNCHANGED kept
      BY <1>2 DEF AcceptOverBudget, FailClient
<1>3. CASE Dequeue \/ EvidenceReady \/ DispatcherDiscard \/ DispatcherStop \/ DispatcherExit \/
           CallbackError \/ DispatcherFailed
  <2>1. UNCHANGED kept
        BY <1>3 DEF Dequeue, EvidenceReady, DispatcherDiscard, DispatcherStop, DispatcherExit,
               CallbackError, DispatcherFailed, DispKeeps, FailClient
  <2> QED BY <1>1, <2>1
<1>4. CASE CloserCancel \/ FailAllTake \/ Publish \/ StopDispatch \/ GraceExpires \/
           ShutdownDiscard \/ (\E cause \in Causes : Close(cause))
  <2>1. UNCHANGED kept
        BY <1>4 DEF Close, CloserCancel, FailAllTake, Publish, StopDispatch, GraceExpires,
               ShutdownDiscard, CloserKeeps
  <2> QED BY <1>1, <2>1
<1>5. ASSUME NEW r \in Runs, CallThread(r) PROVE FenceBook'
      BY <1>5 DEF RunIInv, TypeOK, FenceBook, TerminalFence, Ended, Last, CallThread, RunnerKeeps
<1>6. ASSUME NEW r \in Runs, ThreadResponse(r) PROVE FenceBook'
      BY <1>6 DEF RunIInv, TypeOK, FenceBook, TerminalFence, Ended, Last, ThreadResponse, RunnerKeeps
<1>7. ASSUME NEW r \in Runs, ThreadCallError(r) PROVE FenceBook'
      BY <1>7 DEF RunIInv, TypeOK, FenceBook, TerminalFence, Ended, Last, ThreadCallError, RunnerKeeps
<1>8. ASSUME NEW r \in Runs, RegisterRefused(r) PROVE FenceBook'
  <2>1. UNCHANGED <<hasHandler, reader, history, entered, delivered>> /\ \A s \in Runs : pc'[s] = "replayComplete" => pc[s] = "replayComplete"
        BY <1>8 DEF RegisterRefused, RunnerKeeps, RunIInv, TypeOK
  <2>2. \A s \in Runs : Ended(s)' => Ended(s)
        BY <1>8, LocalEnds
  <2> QED BY <2>1, <2>2 DEF RunIInv, FenceBook, TerminalFence, Last
<1>9. ASSUME NEW r \in Runs, Register(r) PROVE FenceBook'
      BY <1>9 DEF RunIInv, TypeOK, FenceBook, TerminalFence, Ended, Last, Register, RunnerKeeps
<1>10. ASSUME NEW r \in Runs, ThreadReplay(r) PROVE FenceBook'
  <2>1. PICK n \in Frames : AcceptInto(r, n)
        BY <1>10, NotesEffect
  <2>2. UNCHANGED <<hasHandler, reader, pc, outcome, entered, delivered>>
        BY <1>10, NotesEffect
  <2>3. \A s \in Runs : Ended(s)' => Ended(s) /\ Last(s)' = Last(s)
        BY <2>1, <2>2, EndedStays
  <2> QED BY <2>2, <2>3 DEF RunIInv, FenceBook, TerminalFence
<1>11. ASSUME NEW r \in Runs, CallTurn(r) PROVE FenceBook'
      BY <1>11 DEF RunIInv, TypeOK, FenceBook, TerminalFence, Ended, Last, CallTurn, RunnerKeeps
<1>12. ASSUME NEW r \in Runs, FinishAttaching(r) PROVE FenceBook'
  <2>1. UNCHANGED <<hasHandler, reader, history, entered, delivered>> /\ \A s \in Runs : pc'[s] = "replayComplete" => pc[s] = "replayComplete"
        BY <1>12 DEF FinishAttaching, RunnerKeeps, RunIInv, TypeOK
  <2>2. \A s \in Runs : Ended(s)' => Ended(s)
        BY <1>12, LocalEnds
  <2> QED BY <2>1, <2>2 DEF RunIInv, FenceBook, TerminalFence, Last
<1>13. ASSUME NEW r \in Runs, NEW t \in Turns, TurnResponse(r, t) PROVE FenceBook'
      BY <1>13 DEF RunIInv, TypeOK, FenceBook, TerminalFence, Ended, Last, TurnResponse, RunnerKeeps
<1>14. ASSUME NEW r \in Runs, AttachGate(r) PROVE FenceBook'
      BY <1>14 DEF RunIInv, TypeOK, FenceBook, TerminalFence, Ended, Last, AttachGate, RunnerKeeps
<1>15. ASSUME NEW r \in Runs, AttachPublish(r) PROVE FenceBook'
      BY <1>15 DEF RunIInv, TypeOK, FenceBook, TerminalFence, Ended, Last, AttachPublish, RunnerKeeps
<1>16. ASSUME NEW r \in Runs, AttachReplay(r) PROVE FenceBook'
  <2>1. PICK n \in Frames : Resolve(r, n)
        BY <1>16, ReplayEffect
  <2>2. /\ UNCHANGED <<hasHandler, reader, outcome, entered, delivered>>
        /\ hasHandler => \A s \in Runs : pc'[s] = "replayComplete" => pc[s] = "replayComplete"
        BY <1>16, ReplayEffect
  <2>3. \A s \in Runs : Ended(s)' => Ended(s) /\ Last(s)' = Last(s)
    <3>1. CASE n \in ready
          BY <2>1, <2>2, <3>1, ResolveEffect DEF RunIInv, Ended, Last
    <3>2. CASE n \notin ready
          BY <2>1, <2>2, <3>2, ResolveEffect, EndedStays DEF RunIInv
    <3> QED BY <3>1, <3>2
  <2> QED BY <2>2, <2>3 DEF RunIInv, FenceBook, TerminalFence
<1>17. ASSUME NEW r \in Runs, AttachComplete(r) PROVE FenceBook'
  <2>1. ~hasHandler /\ UNCHANGED hasHandler
        BY <1>17 DEF AttachComplete, RunnerKeeps, RunIInv, FenceBook
  <2> QED BY <2>1 DEF FenceBook
<1>18. ASSUME NEW r \in Runs, AttachFinish(r) PROVE FenceBook'
      BY <1>18 DEF RunIInv, TypeOK, FenceBook, TerminalFence, Ended, Last, AttachFinish, RunnerKeeps
<1>19. ASSUME NEW r \in Runs, CloseStream(r) PROVE FenceBook'
  <2>1. UNCHANGED <<hasHandler, reader, history, entered, delivered>> /\ \A s \in Runs : pc'[s] = "replayComplete" => pc[s] = "replayComplete"
        BY <1>19 DEF CloseStream, RunnerKeeps, RunIInv, TypeOK
  <2>2. \A s \in Runs : Ended(s)' => Ended(s)
        BY <1>19, LocalEnds
  <2> QED BY <2>1, <2>2 DEF RunIInv, FenceBook, TerminalFence, Last
<1>20. ASSUME NEW th \in Threads, NEW t \in Turns, ServerRequestFails(th, t) PROVE FenceBook'
  <2>1. UNCHANGED <<hasHandler, reader, history, entered, delivered>> /\ \A s \in Runs : pc'[s] = "replayComplete" => pc[s] = "replayComplete"
        BY <1>20 DEF ServerRequestFails, RunnerKeeps, RunIInv, TypeOK
  <2>2. \A s \in Runs : Ended(s)' => Ended(s)
        BY <1>20, LocalEnds
  <2> QED BY <2>1, <2>2 DEF RunIInv, FenceBook, TerminalFence, Last
<1>21. ASSUME NEW k \in FrameKinds, NEW id \in Turns \cup Threads, Ingest(k, id) PROVE FenceBook'
      BY <1>21 DEF RunIInv, TypeOK, FenceBook, TerminalFence, Ended, Last, Ingest
<1>22. ASSUME NEW k \in FrameKinds, NEW id \in Turns \cup Threads, IngestOverBudget(k, id) PROVE FenceBook'
      BY <1>22 DEF RunIInv, TypeOK, FenceBook, TerminalFence, Ended, Last, IngestOverBudget, FailClient
<1>23. ASSUME NEW r \in Runs, AcceptTarget(r) PROVE FenceBook'
  <2>1. AcceptInto(r, frame) /\ frame \in Frames /\ UNCHANGED <<hasHandler, reader, pc, outcome, entered, delivered>>
        BY <1>23 DEF AcceptTarget, RunIInv, TypeOK, LogBook, Frames
  <2>2. \A s \in Runs : Ended(s)' => Ended(s) /\ Last(s)' = Last(s)
        BY <2>1, EndedStays
  <2> QED BY <2>1, <2>2 DEF RunIInv, FenceBook, TerminalFence
<1>24. CASE Enqueue
  <2>1. /\ UNCHANGED <<hasHandler, pc, outcome, history, delivered>> /\ entered' = entered \cup {frame}
        /\ hasHandler => reader' = "read"
        BY <1>24 DEF Enqueue
  <2>2. frame = Len(log) /\ Len(log) \in Nat /\ frame \notin entered /\ entered \subseteq 1..Len(log)
        BY <1>24 DEF Enqueue, RunIInv, LogBook, TypeOK, Ingested
  <2>3. \A m \in entered : ~(frame <= m)
        BY <2>2
  <2> QED BY <2>1, <2>3 DEF RunIInv, FenceBook, TerminalFence, Ended, Last
<1>25. CASE EnqueueFull
      BY <1>25 DEF RunIInv, TypeOK, FenceBook, TerminalFence, Ended, Last, EnqueueFull, FailClient
<1>26. CASE EnqueueClosed
      BY <1>26 DEF RunIInv, TypeOK, FenceBook, TerminalFence, Ended, Last, EnqueueClosed
<1>27. CASE AwaitPublication
      BY <1>27 DEF RunIInv, TypeOK, FenceBook, TerminalFence, Ended, Last, AwaitPublication
<1>28. CASE ReaderComplete
  <2>1. ~hasHandler /\ UNCHANGED hasHandler
        BY <1>28 DEF ReaderComplete, RunIInv, FenceBook
  <2> QED BY <2>1 DEF FenceBook
<1>29. CASE CallbackOk
  <2> SUFFICES ASSUME hasHandler PROVE FenceBook'
      BY <1>29 DEF CallbackOk, DispKeeps, FenceBook
  <2>1. /\ UNCHANGED <<hasHandler, reader, pc, history, entered>> /\ delivered' = delivered \cup {current}
        /\ Complete(completion[current]) /\ disp \in {"callback", "drainCallback"}
        BY <1>29 DEF CallbackOk, DispKeeps
  <2>2. current \in entered /\ current \in Frames
        BY <2>1 DEF RunIInv, QueueBook, TypeOK
  <2>3. completion[current] \in SUBSET Runs /\ \A s \in completion[current] : Last(s) = current
        BY <2>2 DEF RunIInv, TypeOK, AdmitBook
  <2>4. \A s \in Runs : Ended(s)' => Ended(s) \/ (s \in completion[current] /\ ~closed)
    <3>1. Finish(completion[current], [q \in completion[current] |-> Verdict(q)])
          BY <2>1 DEF Complete
    <3>2. \A s \in Runs : \/ outcome'[s] = outcome[s]
                          \/ s \in completion[current] /\ (closed => outcome'[s] = closeReason)
          BY <2>3, <3>1, FinishEffect DEF RunIInv
    <3>3. closed => closeReason \in {"failure", "closed"}
          BY DEF RunIInv, TypeOK, closed
    <3>4. closed => closeReason \notin {"ok", "turnErr"}
          BY <3>3
    <3> QED BY <3>2, <3>4 DEF Ended
  <2>5. ~closed => \A n \in entered : n <= current => n \in delivered'
    <3> SUFFICES ASSUME ~closed, NEW n \in entered, n <= current, n \notin delivered PROVE n = current
        BY <2>1
    <3>1. ASSUME NEW i \in 1..Len(queue), queue[i] = n PROVE FALSE
      <4>1. current < n  BY <3>1 DEF RunIInv, QueueBook
      <4>2. n \in Frames  BY DEF RunIInv, TypeOK
      <4> QED BY <2>2, <4>1, <4>2 DEF Frames
    <3> QED BY <3>1 DEF RunIInv, QueueBook
  <2>6. \A s \in Runs : Ended(s)' => Last(s) \in entered /\ \A n \in entered : n <= Last(s) => n \in delivered'
    <3> SUFFICES ASSUME NEW s \in Runs, Ended(s)'
                 PROVE  Last(s) \in entered /\ \A n \in entered : n <= Last(s) => n \in delivered'
        OBVIOUS
    <3>1. CASE Ended(s)
          BY <3>1, <2>1 DEF RunIInv, FenceBook, TerminalFence
    <3>2. CASE s \in completion[current] /\ ~closed
          BY <3>2, <2>2, <2>3, <2>5
    <3> QED BY <3>1, <3>2, <2>4
  <2> QED BY <2>1, <2>6 DEF RunIInv, FenceBook, TerminalFence, Last
<1>30. ASSUME NEW n \in Frames, FailAllResolve(n) PROVE FenceBook'
  <2>1. PICK x \in Runs : Resolve(x, n)
        BY <1>30 DEF FailAllResolve, RunIInv, CloseBook, TypeOK, Owned
  <2>2. UNCHANGED <<hasHandler, reader, pc, outcome, entered, delivered>>
        BY <1>30 DEF FailAllResolve, CloserKeeps
  <2>3. \A s \in Runs : Ended(s)' => Ended(s) /\ Last(s)' = Last(s)
    <3>1. CASE n \in ready
          BY <2>1, <2>2, <3>1, ResolveEffect DEF RunIInv, Ended, Last
    <3>2. CASE n \notin ready
          BY <2>1, <2>2, <3>2, ResolveEffect, EndedStays DEF RunIInv
    <3> QED BY <3>1, <3>2
  <2> QED BY <2>2, <2>3 DEF RunIInv, FenceBook, TerminalFence
<1>31. CASE FailAllFinish
  <2>1. UNCHANGED <<hasHandler, reader, history, entered, delivered>> /\ \A s \in Runs : pc'[s] = "replayComplete" => pc[s] = "replayComplete"
        BY <1>31 DEF FailAllFinish, CloserKeeps, RunIInv, TypeOK
  <2>2. \A s \in Runs : Ended(s)' => Ended(s)
        BY <1>31, LocalEnds
  <2> QED BY <2>1, <2>2 DEF RunIInv, FenceBook, TerminalFence, Last
<1>32. CASE UNCHANGED vars
      BY <1>1, <1>32 DEF vars
<1> QED
    BY <1>1, <1>2, <1>3, <1>4, <1>5, <1>6, <1>7, <1>8, <1>9, <1>10, <1>11, <1>12, <1>13, <1>14,
       <1>15, <1>16, <1>17, <1>18, <1>19, <1>20, <1>21, <1>22, <1>23, <1>24, <1>25, <1>26,
       <1>27, <1>28, <1>29, <1>30, <1>31, <1>32
    DEF Next, RunnerStep, ReaderStep, DispatcherStep, CloserStep

(* What a run has gathered up to its last notification stays, however the  *)
(* log grows.                                                              *)
LEMMA LastIngested ==
  ASSUME RunIInv, NEW q \in admitted
  PROVE  q \in Runs /\ Last(q) \in Ingested
<1>1. q \in Runs /\ history[q] \in Seq(Frames) /\ history[q] # <<>>
      BY DEF RunIInv, TypeOK, AdmitBook
<1>2. Len(history[q]) \in 1..Len(history[q])
      BY <1>1
<1> QED BY <1>1, <1>2 DEF RunIInv, LogBook, Last

\* A run that holds all its evidence still does after a step that keeps the
\* frames read, the run's answer, its arming and its history.
LEMMA EvidenceStays ==
  ASSUME RunIInv, NEW q \in admitted, HasAllEvidence(q),
         Len(log') \in Nat, \A n \in Ingested : log'[n] = log[n],
         answer'[q] = answer[q], armedAt'[q] = armedAt[q], history'[q] = history[q]
  PROVE  HasAllEvidence(q)'
<1>1. Last(q) \in 1..Len(log) /\ Last(q)' = Last(q)
      BY LastIngested DEF Last, Ingested
<1>2. SUFFICES ASSUME NEW n \in 1..Len(log'), log'[n].kind \in TurnKinds, log'[n].id = answer[q],
                      armedAt[q] < n, n <= Last(q)
               PROVE  InHistory(q, n)
      BY <1>1 DEF HasAllEvidence, InHistory
<1>3. n \in 1..Len(log)
  <2>1. Len(log) \in Nat  BY DEF RunIInv, TypeOK
  <2> QED BY <1>1, <1>2, <2>1
<1>4. log'[n] = log[n]
      BY <1>3 DEF Ingested
<1> QED BY <1>2, <1>3, <1>4 DEF HasAllEvidence

(* When the client is closed, only the runs that ended with their turn     *)
(* count, and nothing changes for them.                                    *)
LEMMA GatherClosed ==
  ASSUME RunIInv, closed', UNCHANGED <<answer, armedAt>>,
         Len(log') \in Nat, \A n \in Ingested : log'[n] = log[n],
         \A q \in Runs : Ended(q)' => Ended(q) /\ history'[q] = history[q]
  PROVE  GatherBook'
<1> SUFFICES ASSUME NEW q \in Runs, answer[q] # None, SoleOwner(q), Ended(q)'
             PROVE  HasAllEvidence(q)'
    BY DEF GatherBook, Gathers, SoleOwner
<1>1. Ended(q) /\ q \in admitted
      BY DEF RunIInv, AdmitBook
<1>2. HasAllEvidence(q)
      BY <1>1 DEF RunIInv, GatherBook, Gathers
<1> QED BY <1>1, <1>2, EvidenceStays

(* A step that leaves the evidence of a run alone.                         *)
LEMMA GathersStay ==
  ASSUME RunIInv, [Next]_vars, NEW q \in Runs, UNCHANGED <<answer, armedAt, log, closeReason, frame>>,
         history'[q] = history[q], q \in admitted' <=> q \in admitted,
         answer[q] # None /\ SoleOwner(q) =>
            /\ local'[q] = local[q]
            /\ pc'[q] \in {"gotTurn", "gated"} <=> pc[q] \in {"gotTurn", "gated"}
            /\ pc[q] \in Replaying /\ local[q] # {} => pc'[q] \in Replaying
            /\ armedTurn'[answer[q]] = armedTurn[answer[q]]
            /\ \A n \in pendingEvents : log[n].id = answer[q] => n \in pendingEvents'
            /\ q \in targets => q \in targets'
  PROVE  Gathers(q)'
<1> SUFFICES ASSUME answer[q] # None, SoleOwner(q)
             PROVE  /\ ~closed' /\ Live(q)' /\ pc'[q] \in {"gotTurn", "gated"} => armedTurn'[answer[q]] = q
                    /\ ~closed' /\ Live(q)' /\ q \notin admitted' =>
                          \A n \in Ingested :
                              log[n].kind \in TurnKinds /\ log[n].id = answer[q] /\ armedAt[q] < n
                              => InHistory(q, n)' \/ OnItsWay(q, n)'
                    /\ q \in admitted' /\ (Ended(q)' \/ (Live(q)' /\ ~closed')) => HasAllEvidence(q)'
    BY DEF Gathers, SoleOwner, Ingested
<1>1. closed' <=> closed
      BY DEF closed
<1>2. outcome'[q] = outcome[q] \/ (outcome[q] = None /\ (closed => outcome'[q] = closeReason))
      BY OutcomesEarned DEF Earning
<1>3. Live(q)' => Live(q)
      BY <1>2 DEF Live
<1>4. Ended(q)' => Ended(q) \/ (Live(q) /\ ~closed)
  <2>1. closed => closeReason \in {"failure", "closed"}
        BY DEF RunIInv, TypeOK, closed
  <2>2. closed => closeReason \notin {"ok", "turnErr"}
        BY <2>1
  <2> QED BY <1>2, <2>2 DEF Ended, Live
<1>5. Gathers(q)
      BY DEF RunIInv, GatherBook
<1>6. \A n \in Ingested : InHistory(q, n) => InHistory(q, n)'
      BY DEF InHistory
<1>7. \A n \in Ingested : log[n].id = answer[q] /\ OnItsWay(q, n) => OnItsWay(q, n)'
      BY DEF OnItsWay
<1>8. ~closed' /\ Live(q)' /\ q \notin admitted' =>
         \A n \in Ingested : log[n].kind \in TurnKinds /\ log[n].id = answer[q] /\ armedAt[q] < n
            => InHistory(q, n)' \/ OnItsWay(q, n)'
      BY <1>1, <1>3, <1>5, <1>6, <1>7 DEF Gathers
<1>9. q \in admitted' /\ (Ended(q)' \/ (Live(q)' /\ ~closed')) => HasAllEvidence(q)'
  <2> SUFFICES ASSUME q \in admitted', Ended(q)' \/ (Live(q)' /\ ~closed') PROVE HasAllEvidence(q)'
      OBVIOUS
  <2>1. HasAllEvidence(q)
        BY <1>1, <1>3, <1>4, <1>5 DEF Gathers
  <2>2. Len(log') \in Nat
        BY DEF RunIInv, TypeOK
  <2> QED BY <2>1, <2>2, EvidenceStays
<1>10. ~closed' /\ Live(q)' /\ pc'[q] \in {"gotTurn", "gated"} => armedTurn'[answer[q]] = q
      BY <1>1, <1>3, <1>5 DEF Gathers
<1> QED BY <1>8, <1>9, <1>10

(* The notification that joins the history of a run completes what the run *)
(* has of its turn so far, if nothing else of the turn is on its way to it *)
(* before that notification.                                               *)
LEMMA GatherAccept ==
  ASSUME RunIInv, NEW r \in Runs, NEW n \in Ingested, AcceptInto(r, n),
         UNCHANGED <<answer, armedAt, log, closeReason, outcome, armedTurn, pendingEvents, frame>>,
         Live(r) /\ r \notin admitted => Accepts(r, n),
         pc'[r] \in {"gotTurn", "gated"} <=> pc[r] \in {"gotTurn", "gated"},
         pc[r] \in Replaying <=> pc'[r] \in Replaying,
         \A m \in local[r] : m = n \/ m \in local'[r],
         r \in targets => r \in targets' \/ frame = n,
         log[n].kind \in Terminals =>
            \A m \in Ingested : OnItsWay(r, m) => n <= m
  PROVE  Gathers(r)'
<1> SUFFICES ASSUME answer[r] # None, SoleOwner(r)
             PROVE  /\ ~closed' /\ Live(r)' /\ pc'[r] \in {"gotTurn", "gated"} => armedTurn'[answer[r]] = r
                    /\ ~closed' /\ Live(r)' /\ r \notin admitted' =>
                          \A m \in Ingested :
                              log[m].kind \in TurnKinds /\ log[m].id = answer[r] /\ armedAt[r] < m
                              => InHistory(r, m)' \/ OnItsWay(r, m)'
                    /\ r \in admitted' /\ (Ended(r)' \/ (Live(r)' /\ ~closed')) => HasAllEvidence(r)'
    BY DEF Gathers, SoleOwner, Ingested
<1>0. n \in Frames /\ Ingested \subseteq Frames /\ TypeOK
  <2>1. Len(log) \in Nat /\ Len(log) <= MaxFrames /\ MaxFrames \in Nat
        BY ConstantsAssumption DEF RunIInv, TypeOK
  <2> QED BY <2>1 DEF RunIInv, Ingested, Frames
<1>1. (closed' <=> closed) /\ (Live(r)' <=> Live(r)) /\ (Ended(r)' <=> Ended(r))
      BY DEF closed, Live, Ended
<1>2. Gathers(r)
      BY DEF RunIInv, GatherBook
<1>3. /\ \A m \in Frames : InHistory(r, m) => InHistory(r, m)'
      /\ Accepts(r, n) => InHistory(r, n)'
      /\ r \in admitted => r \in admitted'
      BY <1>0, AcceptGrows
<1>4. \A m \in Ingested : OnItsWay(r, m) => m = n \/ OnItsWay(r, m)'
      BY DEF OnItsWay
<1>5. ~closed' /\ Live(r)' /\ r \notin admitted' =>
         \A m \in Ingested : log[m].kind \in TurnKinds /\ log[m].id = answer[r] /\ armedAt[r] < m
            => InHistory(r, m)' \/ OnItsWay(r, m)'
      BY <1>0, <1>1, <1>2, <1>3, <1>4 DEF Gathers
<1>6. ASSUME r \in admitted', Ended(r)' \/ (Live(r)' /\ ~closed') PROVE HasAllEvidence(r)'
  <2>1. CASE r \in admitted
    <3>1. ~Accepts(r, n)
          BY <2>1 DEF Accepts
    <3>2. history' = history
          BY <1>0, <3>1, AcceptEffect
    <3>3. HasAllEvidence(r)
          BY <1>1, <1>2, <1>6, <2>1 DEF Gathers
    <3>4. Len(log') \in Nat
          BY DEF RunIInv, TypeOK
    <3> QED BY <2>1, <3>2, <3>3, <3>4, EvidenceStays
  <2>2. CASE r \notin admitted
    <3>1. Live(r) /\ ~closed /\ Accepts(r, n)
          BY <1>1, <1>6, <2>2 DEF RunIInv, AdmitBook
    <3>2. log[n].kind \in Terminals /\ Last(r)' = n
      <4>1. /\ Len(history[r]) \in Nat /\ Len(history'[r]) = Len(history[r]) + 1
            /\ history'[r][Len(history[r]) + 1] = n
            /\ r \in admitted' <=> log[n].kind \in Terminals
            BY <1>0, <3>1, AcceptEffect
      <4> QED BY <4>1, <1>6 DEF Last
    <3> SUFFICES ASSUME NEW m \in 1..Len(log), log[m].kind \in TurnKinds, log[m].id = answer[r],
                        armedAt[r] < m, m <= n
                 PROVE  InHistory(r, m)'
        BY <3>2 DEF HasAllEvidence
    <3>3. m \in Ingested /\ m \in Frames /\ m \in Nat /\ n \in Nat
          BY <1>0 DEF Ingested, Frames
    <3>4. InHistory(r, m) \/ OnItsWay(r, m)
          BY <1>2, <2>2, <3>1, <3>3 DEF Gathers
    <3>5. OnItsWay(r, m) => m = n
          BY <3>2, <3>3
    <3> QED BY <1>3, <3>1, <3>3, <3>4, <3>5
  <2> QED BY <2>1, <2>2
<1>7. ~closed' /\ Live(r)' /\ pc'[r] \in {"gotTurn", "gated"} => armedTurn'[answer[r]] = r
      BY <1>1, <1>2 DEF Gathers
<1> QED BY <1>5, <1>6, <1>7

(* Nothing of a run's own turn gets lost between the response that         *)
(* named the turn and its terminal notification.                           *)
LEMMA GatherStep == RunIInv /\ [Next]_vars => GatherBook'
<1> SUFFICES ASSUME RunIInv, [Next]_vars PROVE GatherBook'
    OBVIOUS
<1> DEFINE kept == <<admitted, answer, armedAt, armedTurn, closeReason, frame, history, local,
                     log, outcome, pc, pendingEvents, targets>>
<1> USE DEF runVars, stateVars, tableVars, pendVars, evidVars, readerVars, dispVars, closeVars
<1>1. CASE UNCHANGED kept
      BY <1>1 DEF RunIInv, GatherBook, Gathers, SoleOwner, Live, closed, Ingested, InHistory, OnItsWay, Ended, HasAllEvidence, Last
<1>2. CASE Enqueue \/ EnqueueClosed \/ AwaitPublication
  <2>1. UNCHANGED kept
        BY <1>2 DEF Enqueue, EnqueueClosed, AwaitPublication
  <2> QED BY <1>1, <2>1
<1>3. CASE Dequeue \/ EvidenceReady \/ DispatcherDiscard \/ DispatcherStop \/ DispatcherExit \/
           DispatcherFailed
  <2>1. UNCHANGED kept
        BY <1>3 DEF Dequeue, EvidenceReady, DispatcherDiscard, DispatcherStop, DispatcherExit,
               DispatcherFailed, DispKeeps
  <2> QED BY <1>1, <2>1
<1>4. CASE CloserCancel \/ Publish \/ StopDispatch \/ GraceExpires \/ ShutdownDiscard
  <2>1. UNCHANGED kept
        BY <1>4 DEF CloserCancel, Publish, StopDispatch, GraceExpires, ShutdownDiscard, CloserKeeps
  <2> QED BY <1>1, <2>1
<1>5. ASSUME NEW r \in Runs, CallThread(r) PROVE GatherBook'
  <2>1. UNCHANGED <<answer, armedAt, log, closeReason, frame, history, admitted, armedTurn,
                    pendingEvents, targets>>
        BY <1>5 DEF CallThread, RunnerKeeps
  <2>2. \A q \in Runs \ {r} : local'[q] = local[q] /\ pc'[q] = pc[q]
        BY <1>5 DEF CallThread, RunnerKeeps, RunIInv, TypeOK
  <2>3. \A q \in Runs \ {r} : Gathers(q)'
        BY <2>1, <2>2, GathersStay
  <2>4. Gathers(r)'
    <3>1. answer[r] = None
          BY <1>5 DEF CallThread, RunIInv, RunBook, Early
    <3> QED BY <2>1, <3>1 DEF Gathers
  <2> QED BY <2>3, <2>4 DEF GatherBook
<1>6. ASSUME NEW r \in Runs, ThreadResponse(r) PROVE GatherBook'
  <2>1. UNCHANGED <<answer, armedAt, log, closeReason, frame, history, admitted, armedTurn,
                    pendingEvents, targets>>
        BY <1>6 DEF ThreadResponse, RunnerKeeps
  <2>2. \A q \in Runs \ {r} : local'[q] = local[q] /\ pc'[q] = pc[q]
        BY <1>6 DEF ThreadResponse, RunnerKeeps, RunIInv, TypeOK
  <2>3. \A q \in Runs \ {r} : Gathers(q)'
        BY <2>1, <2>2, GathersStay
  <2>4. Gathers(r)'
    <3>1. answer[r] = None
          BY <1>6 DEF ThreadResponse, RunIInv, RunBook, Early
    <3> QED BY <2>1, <3>1 DEF Gathers
  <2> QED BY <2>3, <2>4 DEF GatherBook
<1>7. ASSUME NEW r \in Runs, ThreadCallError(r) PROVE GatherBook'
  <2>1. UNCHANGED <<answer, armedAt, log, closeReason, frame, history, admitted, armedTurn,
                    pendingEvents, targets>>
        BY <1>7 DEF ThreadCallError, RunnerKeeps
  <2>2. \A q \in Runs \ {r} : local'[q] = local[q] /\ pc'[q] = pc[q]
        BY <1>7 DEF ThreadCallError, RunnerKeeps, RunIInv, TypeOK
  <2>3. \A q \in Runs \ {r} : Gathers(q)'
        BY <2>1, <2>2, GathersStay
  <2>4. Gathers(r)'
    <3>1. answer[r] = None
          BY <1>7 DEF ThreadCallError, RunIInv, RunBook, Early
    <3> QED BY <2>1, <3>1 DEF Gathers
  <2> QED BY <2>3, <2>4 DEF GatherBook
<1>8. ASSUME NEW r \in Runs, RegisterRefused(r) PROVE GatherBook'
  <2>1. UNCHANGED <<answer, armedAt, log, closeReason, frame, history, admitted, armedTurn,
                    pendingEvents, targets>>
        BY <1>8 DEF RegisterRefused, RunnerKeeps
  <2>2. \A q \in Runs \ {r} : local'[q] = local[q] /\ pc'[q] = pc[q]
        BY <1>8 DEF RegisterRefused, RunnerKeeps, RunIInv, TypeOK
  <2>3. \A q \in Runs \ {r} : Gathers(q)'
        BY <2>1, <2>2, GathersStay
  <2>4. Gathers(r)'
    <3>1. answer[r] = None
          BY <1>8 DEF RegisterRefused, RunIInv, RunBook, Early
    <3> QED BY <2>1, <3>1 DEF Gathers
  <2> QED BY <2>3, <2>4 DEF GatherBook
<1>9. ASSUME NEW r \in Runs, Register(r) PROVE GatherBook'
  <2>1. UNCHANGED <<answer, armedAt, log, closeReason, frame, history, admitted, armedTurn,
                    pendingEvents, targets>>
        BY <1>9 DEF Register, RunnerKeeps
  <2>2. \A q \in Runs \ {r} : local'[q] = local[q] /\ pc'[q] = pc[q]
        BY <1>9 DEF Register, RunnerKeeps, RunIInv, TypeOK
  <2>3. \A q \in Runs \ {r} : Gathers(q)'
        BY <2>1, <2>2, GathersStay
  <2>4. Gathers(r)'
    <3>1. answer[r] = None
          BY <1>9 DEF Register, RunIInv, RunBook, Early
    <3> QED BY <2>1, <3>1 DEF Gathers
  <2> QED BY <2>3, <2>4 DEF GatherBook
<1>10. ASSUME NEW r \in Runs, ThreadReplay(r) PROVE GatherBook'
  <2>1. PICK n \in Frames : AcceptInto(r, n)
        BY <1>10, NotesEffect
  <2>2. /\ UNCHANGED <<answer, armedAt, log, closeReason, frame, pc, armedTurn, pendingEvents, targets>>
        /\ \A q \in Runs \ {r} : local'[q] = local[q]
        BY <1>10, NotesEffect
  <2>3. \A q \in Runs \ {r} : history'[q] = history[q] /\ (q \in admitted' <=> q \in admitted)
        BY <2>1, AcceptEffect DEF RunIInv
  <2>4. \A q \in Runs \ {r} : Gathers(q)'
        BY <2>2, <2>3, GathersStay
  <2>5. answer[r] = None
        BY <1>10, NotesEffect DEF RunIInv, RunBook
  <2> QED BY <2>2, <2>4, <2>5 DEF GatherBook, Gathers
<1>11. ASSUME NEW r \in Runs, CallTurn(r) PROVE GatherBook'
  <2>1. UNCHANGED <<answer, armedAt, log, closeReason, frame, history, admitted, armedTurn,
                    pendingEvents, targets>>
        BY <1>11 DEF CallTurn, RunnerKeeps
  <2>2. \A q \in Runs \ {r} : local'[q] = local[q] /\ pc'[q] = pc[q]
        BY <1>11 DEF CallTurn, RunnerKeeps, RunIInv, TypeOK
  <2>3. \A q \in Runs \ {r} : Gathers(q)'
        BY <2>1, <2>2, GathersStay
  <2>4. Gathers(r)'
    <3>1. answer[r] = None
          BY <1>11 DEF CallTurn, RunIInv, RunBook, Early
    <3> QED BY <2>1, <3>1 DEF Gathers
  <2> QED BY <2>3, <2>4 DEF GatherBook
<1>12. ASSUME NEW r \in Runs, FinishAttaching(r) PROVE GatherBook'
  <2>1. UNCHANGED <<answer, armedAt, log, closeReason, frame, history, admitted, armedTurn,
                    pendingEvents, targets>>
        BY <1>12 DEF FinishAttaching, RunnerKeeps
  <2>2. \A q \in Runs \ {r} : local'[q] = local[q] /\ pc'[q] = pc[q]
        BY <1>12 DEF FinishAttaching, RunnerKeeps, RunIInv, TypeOK
  <2>3. \A q \in Runs \ {r} : Gathers(q)'
        BY <2>1, <2>2, GathersStay
  <2>4. Gathers(r)'
    <3>1. answer[r] = None
          BY <1>12 DEF FinishAttaching, RunIInv, RunBook, Early
    <3> QED BY <2>1, <3>1 DEF Gathers
  <2> QED BY <2>3, <2>4 DEF GatherBook
<1>13. ASSUME NEW r \in Runs, NEW t \in Turns, TurnResponse(r, t) PROVE GatherBook'
  <2>1. /\ UNCHANGED <<log, closeReason, outcome, history, admitted, local, pendingEvents, frame, targets>>
        /\ answer[r] = None
        BY <1>13 DEF TurnResponse, RunnerKeeps, RunIInv, RunBook
  <2>2. /\ answer'[r] = t /\ armedTurn'[t] = r /\ armedAt'[r] = Len(log) /\ pc'[r] = "gotTurn"
        /\ \A q \in Runs \ {r} : answer'[q] = answer[q] /\ armedAt'[q] = armedAt[q] /\ pc'[q] = pc[q]
        /\ \A u \in Turns \ {t} : armedTurn'[u] = armedTurn[u]
        BY <1>13 DEF TurnResponse, RunIInv, TypeOK
  <2>3. \A n \in Ingested : ~(Len(log) < n)
        BY DEF RunIInv, TypeOK, Ingested
  <2>4. Gathers(r)'
        BY <2>1, <2>2, <2>3 DEF Gathers, HasAllEvidence, Ingested
  <2>5. ASSUME NEW q \in Runs \ {r}, answer[q] # None, SoleOwner(q)' PROVE Gathers(q)'
    <3>1. SoleOwner(q) /\ answer[q] # t
          BY <2>1, <2>2, <2>5 DEF SoleOwner
    <3>2. answer[q] \in Turns
          BY <2>5 DEF RunIInv, TypeOK
    <3>3. Gathers(q)
          BY DEF RunIInv, GatherBook
    <3>4. armedTurn'[answer[q]] = armedTurn[answer[q]] /\ answer'[q] = answer[q]
          /\ armedAt'[q] = armedAt[q] /\ pc'[q] = pc[q]
          BY <2>2, <3>1, <3>2
    <3>5. \A n \in Ingested : (InHistory(q, n)' <=> InHistory(q, n)) /\ (OnItsWay(q, n)' <=> OnItsWay(q, n))
          BY <2>1, <3>4 DEF InHistory, OnItsWay
    <3>6. (Live(q)' <=> Live(q)) /\ (Ended(q)' <=> Ended(q)) /\ (closed' <=> closed)
          BY <2>1 DEF Live, Ended, closed
    <3>7. HasAllEvidence(q) => HasAllEvidence(q)'
          BY <2>1, <3>4 DEF HasAllEvidence, InHistory, Last
    <3>8. Ingested' = Ingested
          BY <2>1 DEF Ingested
    <3> QED BY <2>1, <2>5, <3>1, <3>3, <3>4, <3>5, <3>6, <3>7, <3>8 DEF Gathers
  <2> QED BY <2>2, <2>4, <2>5 DEF GatherBook, Gathers
<1>14. ASSUME NEW r \in Runs, AttachGate(r) PROVE GatherBook'
  <2>1. UNCHANGED <<answer, armedAt, log, closeReason, frame, history, admitted, armedTurn,
                    pendingEvents, targets>>
        BY <1>14 DEF AttachGate, RunnerKeeps
  <2>2. \A q \in Runs \ {r} : local'[q] = local[q] /\ pc'[q] = pc[q]
        BY <1>14 DEF AttachGate, RunnerKeeps, RunIInv, TypeOK
  <2>3. \A q \in Runs \ {r} : Gathers(q)'
        BY <2>1, <2>2, GathersStay
  <2>4. Gathers(r)'
    <3>1. pc[r] = "gotTurn" /\ pc'[r] = "gated" /\ local'[r] = local[r]
          BY <1>14 DEF AttachGate, RunnerKeeps, RunIInv, TypeOK
    <3> QED BY <2>1, <3>1, GathersStay DEF Replaying
  <2> QED BY <2>3, <2>4 DEF GatherBook
<1>15. ASSUME NEW r \in Runs, AttachPublish(r) PROVE GatherBook'
  <2>1. /\ UNCHANGED <<answer, armedAt, log, closeReason, frame, history, admitted, outcome, targets>>
        /\ pc[r] = "gated" /\ answer[r] \in Turns
        /\ armedTurn' = [armedTurn EXCEPT ![answer[r]] = None]
        BY <1>15, PublishEffect
  <2>2. \A q \in Runs \ {r} : local'[q] = local[q] /\ pc'[q] = pc[q]
        BY <1>15, PublishEffect
  <2>3. \A n \in Frames : n \in pendingEvents /\ log[n].id # answer[r] => n \in pendingEvents'
        BY <1>15, PublishEffect
  <2>4. \A q \in Runs \ {r} : Gathers(q)'
    <3> SUFFICES ASSUME NEW q \in Runs \ {r} PROVE Gathers(q)'
        OBVIOUS
    <3>1. SoleOwner(q) => answer[q] # answer[r]
          BY DEF SoleOwner
    <3>2. answer[q] # None => answer[q] \in Turns
          BY DEF RunIInv, TypeOK
    <3>3. answer[q] # None /\ SoleOwner(q) => armedTurn'[answer[q]] = armedTurn[answer[q]]
          BY <2>1, <3>1, <3>2 DEF RunIInv, TypeOK
    <3>4. SoleOwner(q) => \A n \in pendingEvents : log[n].id = answer[q] => n \in pendingEvents'
          BY <2>3, <3>1 DEF RunIInv, TypeOK
    <3> QED BY <2>1, <2>2, <3>3, <3>4, GathersStay
  <2>5. Gathers(r)'
    <3> SUFFICES ASSUME answer[r] # None, SoleOwner(r) PROVE Gathers(r)'
        BY <2>1 DEF Gathers, SoleOwner
    <3>1. Gathers(r)
          BY DEF RunIInv, GatherBook
    <3>2. pc'[r] \notin {"gotTurn", "gated"}
          BY <1>15, PublishEffect
    <3>3. (Live(r)' <=> Live(r)) /\ (Ended(r)' <=> Ended(r)) /\ (closed' <=> closed)
          BY <2>1 DEF Live, Ended, closed
    <3>4. Live(r) => \A n \in Ingested : log[n].id = answer[r] /\ OnItsWay(r, n) => OnItsWay(r, n)'
      <4> SUFFICES ASSUME Live(r), NEW n \in Ingested, log[n].id = answer[r], OnItsWay(r, n)
                   PROVE  OnItsWay(r, n)'
          OBVIOUS
      <4>1. pc'[r] = "replay" /\ (n \in pendingEvents => n \in local'[r])
            BY <1>15, PublishEffect DEF Live, RunIInv, TypeOK
      <4>2. n \in pendingEvents \/ (n = frame /\ r \in targets)
            BY <2>1 DEF OnItsWay, Replaying
      <4> QED BY <2>1, <4>1, <4>2 DEF OnItsWay, Replaying
    <3>5. \A n \in Ingested : InHistory(r, n)' <=> InHistory(r, n)
          BY <2>1 DEF InHistory
    <3>6. HasAllEvidence(r) => HasAllEvidence(r)'
          BY <2>1 DEF HasAllEvidence, InHistory, Last
    <3>7. Ingested' = Ingested
          BY <2>1 DEF Ingested
    <3> QED BY <2>1, <3>1, <3>2, <3>3, <3>4, <3>5, <3>6, <3>7 DEF Gathers
  <2> QED BY <2>4, <2>5 DEF GatherBook
<1>16. ASSUME NEW r \in Runs, AttachReplay(r) PROVE GatherBook'
  <2>1. PICK n \in Frames : /\ n \in local[r] /\ \A m \in local[r] : n <= m
                            /\ local'[r] = local[r] \ {n} /\ Resolve(r, n)
        BY <1>16, ReplayEffect
  <2>2. /\ UNCHANGED <<answer, armedAt, log, closeReason, outcome, armedTurn, pendingEvents, frame, targets>>
        /\ \A q \in Runs \ {r} : local'[q] = local[q] /\ pc'[q] = pc[q]
        BY <1>16, ReplayEffect
  <2>3. pc[r] \in Replaying /\ pc'[r] \in Replaying /\ {pc[r], pc'[r]} \cap {"gotTurn", "gated"} = {}
        BY <1>16, ReplayEffect DEF Replaying
  <2>4. Owned(n) /\ log[n].id = answer[r] /\ n \in Ingested
        BY <2>1, <2>3 DEF RunIInv, NoteBook, OwnerBook, LogBook, Replaying
  <2>5. CASE n \in ready
    <3>1. UNCHANGED <<history, admitted>>
          BY <2>1, <2>5, ResolveEffect DEF RunIInv
    <3>2. \A q \in Runs \ {r} : Gathers(q)'
          BY <2>2, <3>1, GathersStay
    <3>3. ASSUME answer[r] # None, SoleOwner(r) PROVE Gathers(r)'
      <4>1. owner[n] = r
            BY <2>4, <3>3 DEF RunIInv, OwnerBook, TypeOK, Owned, SoleOwner
      <4>2. Live(r) => InHistory(r, n) \/ r \in admitted
            BY <2>4, <2>5, <4>1 DEF RunIInv, ReadyBook
      <4>3. Gathers(r)
            BY DEF RunIInv, GatherBook
      <4>4. (Live(r)' <=> Live(r)) /\ (Ended(r)' <=> Ended(r)) /\ (closed' <=> closed)
            BY <2>2 DEF Live, Ended, closed
      <4>5. \A m \in Ingested : InHistory(r, m)' <=> InHistory(r, m)
            BY <3>1 DEF InHistory
      <4>6. \A m \in Ingested : OnItsWay(r, m) => m = n \/ OnItsWay(r, m)'
            BY <2>1, <2>2, <2>3 DEF OnItsWay
      <4>7. HasAllEvidence(r) => HasAllEvidence(r)'
            BY <2>2, <3>1 DEF HasAllEvidence, InHistory, Last
      <4>8. Ingested' = Ingested
            BY <2>2 DEF Ingested
      <4> QED BY <2>2, <2>3, <3>1, <3>3, <4>2, <4>3, <4>4, <4>5, <4>6, <4>7, <4>8 DEF Gathers
    <3> QED BY <2>2, <3>2, <3>3 DEF GatherBook, Gathers, SoleOwner
  <2>6. CASE n \notin ready
    <3>1. AcceptInto(r, n)
          BY <2>1, <2>6, ResolveEffect DEF RunIInv
    <3>2. \A q \in Runs \ {r} : history'[q] = history[q] /\ (q \in admitted' <=> q \in admitted)
          BY <3>1, AcceptEffect DEF RunIInv
    <3>3. \A q \in Runs \ {r} : Gathers(q)'
          BY <2>2, <3>2, GathersStay
    <3>4. Live(r) /\ r \notin admitted => Accepts(r, n)
          BY <2>4, OwnerAccepts
    <3>5. \A m \in Ingested : OnItsWay(r, m) => n <= m
      <4>1. frame = Len(log) /\ n \in 1..Len(log)
            BY <2>4 DEF RunIInv, LogBook, Ingested
      <4>2. n <= Len(log)
            BY <4>1 DEF RunIInv, TypeOK
      <4>3. pc[r] \notin {"gotTurn", "gated"}
            BY <2>3
      <4> QED BY <2>1, <4>1, <4>2, <4>3 DEF OnItsWay
    <3>6. Gathers(r)'
      <4>1. pc'[r] \notin {"gotTurn", "gated"} /\ pc[r] \notin {"gotTurn", "gated"}
            BY <2>3
      <4> QED BY <2>1, <2>2, <2>3, <2>4, <3>1, <3>4, <3>5, <4>1, GatherAccept
    <3> QED BY <3>3, <3>6 DEF GatherBook
  <2> QED BY <2>5, <2>6
<1>17. ASSUME NEW r \in Runs, AttachComplete(r) PROVE GatherBook'
  <2>1. UNCHANGED <<answer, armedAt, log, closeReason, frame, history, admitted, armedTurn,
                    pendingEvents, targets>>
        BY <1>17 DEF AttachComplete, RunnerKeeps
  <2>2. \A q \in Runs \ {r} : local'[q] = local[q] /\ pc'[q] = pc[q]
        BY <1>17 DEF AttachComplete, RunnerKeeps, RunIInv, TypeOK
  <2>3. \A q \in Runs \ {r} : Gathers(q)'
        BY <2>1, <2>2, GathersStay
  <2>4. Gathers(r)'
    <3>1. pc[r] = "replayComplete" /\ pc'[r] = "replay" /\ local'[r] = local[r]
          BY <1>17 DEF AttachComplete, RunnerKeeps, RunIInv, TypeOK
    <3> QED BY <2>1, <3>1, GathersStay DEF Replaying
  <2> QED BY <2>3, <2>4 DEF GatherBook
<1>18. ASSUME NEW r \in Runs, AttachFinish(r) PROVE GatherBook'
  <2>1. UNCHANGED <<answer, armedAt, log, closeReason, frame, history, admitted, armedTurn,
                    pendingEvents, targets>>
        BY <1>18 DEF AttachFinish, RunnerKeeps
  <2>2. \A q \in Runs \ {r} : local'[q] = local[q] /\ pc'[q] = pc[q]
        BY <1>18 DEF AttachFinish, RunnerKeeps, RunIInv, TypeOK
  <2>3. \A q \in Runs \ {r} : Gathers(q)'
        BY <2>1, <2>2, GathersStay
  <2>4. Gathers(r)'
    <3>1. pc[r] = "replay" /\ pc'[r] = "attached" /\ local'[r] = local[r] /\ local[r] = {}
          BY <1>18 DEF AttachFinish, RunnerKeeps, RunIInv, TypeOK
    <3> QED BY <2>1, <3>1, GathersStay DEF Replaying
  <2> QED BY <2>3, <2>4 DEF GatherBook
<1>19. ASSUME NEW r \in Runs, CloseStream(r) PROVE GatherBook'
  <2>1. UNCHANGED <<answer, armedAt, log, closeReason, frame, history, admitted, local, pc,
                    armedTurn, pendingEvents, targets>>
        BY <1>19 DEF CloseStream, RunnerKeeps
  <2>2. \A q \in Runs : Gathers(q)'
        BY <2>1, GathersStay
  <2> QED BY <2>2 DEF GatherBook
<1>20. ASSUME NEW th \in Threads, NEW t \in Turns, ServerRequestFails(th, t) PROVE GatherBook'
  <2>1. UNCHANGED <<answer, armedAt, log, closeReason, frame, history, admitted, local, pc,
                    armedTurn, pendingEvents, targets>>
        BY <1>20 DEF ServerRequestFails, RunnerKeeps
  <2>2. \A q \in Runs : Gathers(q)'
        BY <2>1, GathersStay
  <2> QED BY <2>2 DEF GatherBook
<1>21. ASSUME NEW k \in FrameKinds, NEW id \in Turns \cup Threads, Ingest(k, id) PROVE GatherBook'
  <2>0. PICK z : z = Len(log) + 1
        OBVIOUS
  <2>1. /\ UNCHANGED <<answer, armedAt, closeReason, outcome, history, admitted, armedTurn, local, pc>>
        /\ frame' = z /\ targets' = Targets(k, id) /\ pendingEvents \subseteq pendingEvents'
        /\ PendsTurn(k, id) => z \in pendingEvents'
        BY <1>21, <2>0 DEF Ingest
  <2>2. /\ \A n \in Ingested : log'[n] = log[n]
        /\ log'[z].kind = k /\ log'[z].id = id /\ Len(log') \in Nat
        /\ \A n \in Ingested' : n \in Ingested \/ n = z
        BY <1>21, <2>0, LogEffect DEF RunIInv, Ingest, Ingested
  <2>3. targets = {}
        BY <1>21 DEF Ingest, RunIInv, LogBook
  <2> SUFFICES ASSUME NEW q \in Runs, answer[q] # None, SoleOwner(q) PROVE Gathers(q)'
      BY <2>1 DEF GatherBook, Gathers, SoleOwner
  <2>4. Gathers(q)
        BY DEF RunIInv, GatherBook
  <2>5. (Live(q)' <=> Live(q)) /\ (Ended(q)' <=> Ended(q)) /\ (closed' <=> closed)
        BY <2>1 DEF Live, Ended, closed
  <2>6. \A n \in Ingested : InHistory(q, n) \/ OnItsWay(q, n) => InHistory(q, n)' \/ OnItsWay(q, n)'
        BY <2>1, <2>3 DEF InHistory, OnItsWay
  <2>7. ASSUME Live(q), ~closed, k \in TurnKinds, id = answer[q] PROVE OnItsWay(q, z)'
    <3>1. answer[q] \in Turns /\ k # "note"
          BY <2>7 DEF RunIInv, TypeOK, TurnKinds, Terminals
    <3>2. CASE q \in Targets(k, id)
          BY <2>1, <3>2 DEF OnItsWay
    <3>3. CASE q \notin Targets(k, id)
      <4>1. q \notin streams
            BY <2>7, <3>1, <3>3 DEF Targets, RunIInv, RunBook
      <4>2. pc[q] \in {"gotTurn", "gated"}
        <5>1. pc[q] \notin Replaying \cup {"attached"}
              BY <2>7, <4>1 DEF RunIInv, RunBook
        <5>2. pc[q] \notin Early \cup {"threadReplay", "callTurn"}
              BY DEF RunIInv, RunBook
        <5> QED BY <5>1, <5>2 DEF RunIInv, TypeOK, Early, Replaying
      <4>3. armedTurn[id] = q
            BY <2>4, <2>7, <4>2 DEF Gathers
      <4>4. Targets(k, id) = {}
        <5> SUFFICES ASSUME NEW s \in Targets(k, id) PROVE FALSE
            OBVIOUS
        <5>1. s \in Runs /\ turnID[s] = id
              BY <3>1 DEF Targets, RunIInv, TypeOK
        <5>2. answer[s] = id
              BY <2>7, <5>1 DEF RunIInv, RunBook
        <5> QED BY <2>7, <3>3, <5>1, <5>2 DEF SoleOwner
      <4>5. q # None /\ turnID[q] \in {None, id}
            BY <2>7, ConstantsAssumption DEF RunIInv, RunBook
      <4>6. PendsTurn(k, id)
            BY <2>7, <4>3, <4>4, <4>5 DEF PendsTurn
      <4> QED BY <2>1, <4>2, <4>6 DEF OnItsWay
    <3> QED BY <3>2, <3>3
  <2>8. ~closed' /\ Live(q)' /\ q \notin admitted' =>
           \A n \in Ingested' : log'[n].kind \in TurnKinds /\ log'[n].id = answer[q] /\ armedAt[q] < n
              => InHistory(q, n)' \/ OnItsWay(q, n)'
        BY <2>1, <2>2, <2>4, <2>5, <2>6, <2>7 DEF Gathers
  <2>9. q \in admitted /\ HasAllEvidence(q) => HasAllEvidence(q)'
        BY <2>1, <2>2, EvidenceStays
  <2> QED BY <2>1, <2>4, <2>5, <2>8, <2>9 DEF Gathers
<1>22. ASSUME NEW k \in FrameKinds, NEW id \in Turns \cup Threads, IngestOverBudget(k, id) PROVE GatherBook'
  <2>1. closed' /\ UNCHANGED <<answer, armedAt, history, outcome>>
        BY <1>22, ConstantsAssumption DEF IngestOverBudget, FailClient, closed
  <2>2. Len(log') \in Nat /\ \A n \in Ingested : log'[n] = log[n]
        BY <1>22, LogEffect DEF RunIInv, IngestOverBudget, Ingested
  <2>3. \A q \in Runs : Ended(q)' => Ended(q)
        BY <2>1 DEF Ended
  <2> QED BY <2>1, <2>2, <2>3, GatherClosed
<1>23. ASSUME NEW r \in Runs, AcceptTarget(r) PROVE GatherBook'
  <2>1. /\ UNCHANGED <<answer, armedAt, log, closeReason, outcome, armedTurn, pendingEvents, frame, local, pc>>
        /\ r \in targets /\ targets' = targets \ {r} /\ AcceptInto(r, frame) /\ GateFree(r)
        BY <1>23 DEF AcceptTarget
  <2>2. frame \in Frames /\ frame \in Ingested /\ frame = Len(log)
        BY <1>23 DEF AcceptTarget, RunIInv, LogBook, TypeOK, Frames, Ingested
  <2>3. \A q \in Runs \ {r} : history'[q] = history[q] /\ (q \in admitted' <=> q \in admitted)
        BY <2>1, <2>2, AcceptEffect DEF RunIInv
  <2>4. \A q \in Runs \ {r} : Gathers(q)'
        BY <2>1, <2>3, GathersStay
  <2>5. Live(r) /\ r \notin admitted => Accepts(r, frame)
        BY <2>1 DEF RunIInv, TargetBook, Live, Accepts, MatchesRun
  <2>6. log[frame].kind \in Terminals => \A m \in Ingested : OnItsWay(r, m) => m = frame
    <3> SUFFICES ASSUME log[frame].kind \in Terminals, NEW m \in Ingested, OnItsWay(r, m) PROVE m = frame
        OBVIOUS
    <3>1. turnID[r] # None
      <4>1. log[frame].kind # "note"  BY DEF Terminals
      <4>2. log[frame].id # None  BY <2>2, LogTyped DEF RunIInv, Ingested
      <4> QED BY <2>1, <4>1, <4>2 DEF RunIInv, TargetBook
    <3>2. pc[r] # "gotTurn"
          BY <3>1 DEF RunIInv, RunBook
    <3> QED BY <2>1, <3>2 DEF OnItsWay, GateFree, Replaying
  <2>7. \A m \in Ingested : OnItsWay(r, m) /\ log[frame].kind \in Terminals => frame <= m
        BY <2>2, <2>6 DEF RunIInv, TypeOK
  <2>8. Gathers(r)'
        BY <2>1, <2>2, <2>5, <2>7, GatherAccept
  <2> QED BY <2>4, <2>8 DEF GatherBook
<1>24. ASSUME NEW r \in Runs, AcceptOverBudget(r) PROVE GatherBook'
  <2>1. closed' /\ UNCHANGED <<answer, armedAt, log, history, outcome>>
        BY <1>24, ConstantsAssumption DEF AcceptOverBudget, FailClient, closed
  <2>2. Len(log') \in Nat /\ \A q \in Runs : Ended(q)' => Ended(q)
        BY <2>1 DEF RunIInv, TypeOK, Ended
  <2> QED BY <2>1, <2>2, GatherClosed
<1>25. CASE EnqueueFull
  <2>1. closed' /\ UNCHANGED <<answer, armedAt, log, history, outcome>>
        BY <1>25, ConstantsAssumption DEF EnqueueFull, FailClient, closed
  <2>2. Len(log') \in Nat /\ \A q \in Runs : Ended(q)' => Ended(q)
        BY <2>1 DEF RunIInv, TypeOK, Ended
  <2> QED BY <2>1, <2>2, GatherClosed
<1>26. CASE ReaderComplete
  <2>1. UNCHANGED <<answer, armedAt, log, closeReason, frame, history, admitted, local, pc,
                    armedTurn, pendingEvents, targets>>
        BY <1>26 DEF ReaderComplete
  <2>2. \A q \in Runs : Gathers(q)'
        BY <2>1, GathersStay
  <2> QED BY <2>2 DEF GatherBook
<1>27. CASE CallbackOk
  <2>1. UNCHANGED <<answer, armedAt, log, closeReason, frame, history, admitted, local, pc,
                    armedTurn, pendingEvents, targets>>
        BY <1>27 DEF CallbackOk, DispKeeps
  <2>2. \A q \in Runs : Gathers(q)'
        BY <2>1, GathersStay
  <2> QED BY <2>2 DEF GatherBook
<1>28. CASE CallbackError
  <2>1. closed' /\ UNCHANGED <<answer, armedAt, log, history, outcome>>
        BY <1>28, ConstantsAssumption DEF CallbackError, DispKeeps, FailClient, closed
  <2>2. Len(log') \in Nat /\ \A q \in Runs : Ended(q)' => Ended(q)
        BY <2>1 DEF RunIInv, TypeOK, Ended
  <2> QED BY <2>1, <2>2, GatherClosed
<1>29. ASSUME NEW cause \in Causes, Close(cause) PROVE GatherBook'
  <2>1. closed' /\ UNCHANGED <<answer, armedAt, log, history, outcome>>
        BY <1>29, ConstantsAssumption DEF Close, CloserKeeps, closed
  <2>2. Len(log') \in Nat /\ \A q \in Runs : Ended(q)' => Ended(q)
        BY <2>1 DEF RunIInv, TypeOK, Ended
  <2> QED BY <2>1, <2>2, GatherClosed
<1>30. CASE FailAllTake
  <2>1. closed' /\ UNCHANGED <<answer, armedAt, log, history, outcome>>
        BY <1>30, ConstantsAssumption DEF FailAllTake, CloserKeeps, closed, RunIInv, CloseBook
  <2>2. Len(log') \in Nat /\ \A q \in Runs : Ended(q)' => Ended(q)
        BY <2>1 DEF RunIInv, TypeOK, Ended
  <2> QED BY <2>1, <2>2, GatherClosed
<1>31. ASSUME NEW n \in Frames, FailAllResolve(n) PROVE GatherBook'
  <2>1. closed' /\ UNCHANGED <<answer, armedAt, log, outcome>>
        BY <1>31 DEF FailAllResolve, CloserKeeps, RunIInv, CloseBook, closed
  <2>2. PICK x \in Runs : Resolve(x, n)
        BY <1>31 DEF FailAllResolve, RunIInv, CloseBook, TypeOK, Owned
  <2>3. \A q \in Runs : Ended(q)' => Ended(q) /\ history'[q] = history[q]
    <3> SUFFICES ASSUME NEW q \in Runs, Ended(q)' PROVE Ended(q) /\ history'[q] = history[q]
        OBVIOUS
    <3>1. Ended(q) /\ outcome[q] # None
          BY <2>1, ConstantsAssumption DEF Ended
    <3>2. CASE n \in ready
          BY <2>2, <3>1, <3>2, ResolveEffect DEF RunIInv
    <3>3. CASE n \notin ready
      <4>1. AcceptInto(x, n)
            BY <2>2, <3>3, ResolveEffect DEF RunIInv
      <4>2. q = x => ~Accepts(x, n)
            BY <3>1 DEF Accepts
      <4> QED BY <3>1, <4>1, <4>2, AcceptEffect DEF RunIInv
    <3> QED BY <3>2, <3>3
  <2>4. Len(log') \in Nat
        BY <2>1 DEF RunIInv, TypeOK
  <2> QED BY <2>1, <2>3, <2>4, GatherClosed
<1>32. CASE FailAllFinish
  <2>1. closed' /\ UNCHANGED <<answer, armedAt, log, history>>
        BY <1>32 DEF FailAllFinish, CloserKeeps, RunIInv, CloseBook, closed
  <2>2. Len(log') \in Nat /\ \A q \in Runs : Ended(q)' => Ended(q)
        BY <1>32, <2>1, LocalEnds DEF RunIInv, TypeOK
  <2> QED BY <2>1, <2>2, GatherClosed
<1>33. CASE UNCHANGED vars
      BY <1>1, <1>33 DEF vars
<1> QED
    BY <1>1, <1>2, <1>3, <1>4, <1>5, <1>6, <1>7, <1>8, <1>9, <1>10, <1>11, <1>12, <1>13, <1>14,
       <1>15, <1>16, <1>17, <1>18, <1>19, <1>20, <1>21, <1>22, <1>23, <1>24, <1>25, <1>26,
       <1>27, <1>28, <1>29, <1>30, <1>31, <1>32, <1>33
    DEF Next, RunnerStep, ReaderStep, DispatcherStep, CloserStep

(* Nothing has happened yet.                                               *)
LEMMA InitBooks == Init => RunIInv
<1> SUFFICES ASSUME Init PROVE RunIInv
    OBVIOUS
<1>1. TypeOK
  <2>1. 0 \in 0..MaxFrames /\ Len(<<>>) = 0
        BY ConstantsAssumption
  <2>2. log \in Seq([kind : FrameKinds, id : Turns \cup Threads]) /\ Len(log) <= MaxFrames
        BY ConstantsAssumption DEF Init
  <2>3. queue \in Seq(Frames) /\ Len(queue) <= Capacity
        BY ConstantsAssumption DEF Init
  <2>4. history \in [Runs -> Seq(Frames)]
        BY DEF Init
  <2> QED BY <2>1, <2>2, <2>3, <2>4 DEF Init, TypeOK
<1>2. Ingested = {} /\ Len(log) = 0 /\ Len(queue) = 0 /\ \A r \in Runs : Len(history[r]) = 0 /\ history[r] = <<>>
      BY DEF Init, Ingested
<1>3. \A r \in Runs : /\ pc[r] = "new" /\ turnID[r] = None /\ answer[r] = None /\ Live(r) /\ ~Ended(r)
                      /\ local[r] = {} /\ replaying[r] = {}
      BY ConstantsAssumption DEF Init, Live, Ended
<1>4. \A n \in Frames : ~Owned(n) /\ completion[n] = {}
      BY DEF Init, Owned
<1>5. \A r \in Runs : 1..Len(history[r]) = {}
      BY <1>2
<1>6. LogBook
      BY <1>2, <1>3, <1>5 DEF Init, LogBook
<1>7. RunBook /\ EarlyBook
      BY <1>3 DEF Init, RunBook, EarlyBook, Early, Replaying, Attaching
<1>8. NoteBook /\ OwnerBook
      BY <1>3, <1>4 DEF Init, NoteBook, OwnerBook
<1>9. TargetBook /\ ArmBook /\ FreshBook
      BY <1>3 DEF Init, TargetBook, ArmBook, FreshBook
<1>10. CloseBook /\ ReadyBook
      BY <1>4 DEF Init, CloseBook, ReadyBook, closed
<1>11. AdmitBook
      BY <1>3, <1>4, <1>5 DEF Init, AdmitBook
<1>12. OwnEvidence
      BY <1>5 DEF OwnEvidence, InHistory
<1>13. OrderBook
      BY <1>5 DEF OrderBook, TurnOrder
<1>14. QueueBook
  <2>1. 1..Len(queue) = {}  BY <1>2
  <2> QED BY <2>1 DEF Init, QueueBook
<1>15. FenceBook
      BY <1>3 DEF Init, FenceBook, TerminalFence
<1>16. GatherBook
      BY <1>3 DEF GatherBook, Gathers
<1> QED BY <1>1, <1>6, <1>7, <1>8, <1>9, <1>10, <1>11, <1>12, <1>13, <1>14, <1>15, <1>16 DEF RunIInv

-----------------------------------------------------------------------------
(* The books are kept.                                                     *)
LEMMA BooksAreKept == Spec => []RunIInv
<1>1. Init => RunIInv
      BY InitBooks
<1>2. RunIInv /\ [Next]_vars => RunIInv'
      BY TypeStep, LogStep, RunStep, EarlyStep, NoteStep, OwnerStep, TargetStep, ArmStep, CloseStep,
         ReadyStep, FreshStep, AdmitStep, OwnStep, OrderStep, QueueStep, FenceStep, GatherStep
      DEF RunIInv
<1> QED BY <1>1, <1>2, PTL DEF Spec

(* Every variable of the Exact Runs keeps its type; in particular the      *)
(* queue of notifications never exceeds its capacity: a full queue fails   *)
(* the client (enqueueAcceptedNotification).                               *)
THEOREM RunsTyped == Spec => []TypeOK
<1>1. RunIInv => TypeOK
      BY DEF RunIInv
<1> QED BY <1>1, BooksAreKept, PTL

(* However attachment, reader, dispatcher and close interleave: the        *)
(* history of a run holds only its own turn and thread, replay and live    *)
(* delivery keep the order of ingestion while the client is open, and a    *)
(* run that ends with its turn, and has it for itself, has missed nothing  *)
(* (attachExactStreamForTurn, routeExactNotificationBeforeTerminal-        *)
(* Completion).                                                            *)
THEOREM HistoryIsExact == Spec => []HistoryExact
<1>1. RunIInv => HistoryExact
  <2> SUFFICES ASSUME RunIInv PROVE HistoryExact
      OBVIOUS
  <2>1. OpenTurnOrder
        BY DEF RunIInv, OrderBook, OpenTurnOrder
  <2>2. CompleteEvidence
    <3> SUFFICES ASSUME NEW r \in Runs, Ended(r), SoleOwner(r) PROVE HasAllEvidence(r)
        BY DEF CompleteEvidence
    <3>1. r \in admitted
          BY DEF RunIInv, AdmitBook
    <3>2. answer[r] # None => HasAllEvidence(r)
          BY <3>1 DEF RunIInv, GatherBook, Gathers
    <3>3. answer[r] # None
      <4>1. Last(r) \in 1..Len(log) /\ log[Last(r)].kind \in Terminals
            BY <3>1, LastIngested DEF RunIInv, AdmitBook, Ingested
      <4>2. Last(r) \in Frames /\ InHistory(r, Last(r))
        <5>1. history[r] \in Seq(Frames) /\ history[r] # <<>>
              BY <3>1 DEF RunIInv, TypeOK, AdmitBook
        <5>2. Len(history[r]) \in 1..Len(history[r])
              BY <5>1
        <5>3. history[r][Len(history[r])] \in Frames
              BY <5>1, <5>2, ElementOfSeq
        <5> QED BY <5>2, <5>3 DEF Last, InHistory
      <4>3. log[Last(r)].id = answer[r]
            BY <4>1, <4>2 DEF RunIInv, OwnEvidence, Terminals
      <4> QED BY <4>1, <4>3, LogTyped DEF RunIInv
    <3> QED BY <3>2, <3>3
  <2> QED BY <2>1, <2>2 DEF RunIInv, HistoryExact
<1> QED BY <1>1, BooksAreKept, PTL

(* With a notification handler a run ends with its turn only after the     *)
(* callbacks of everything admitted up to its terminal notification have   *)
(* returned (dispatchAcceptedNotification).                                *)
THEOREM FenceHolds == Spec => []TerminalFence
<1>1. RunIInv => TerminalFence
      BY DEF RunIInv, FenceBook, TerminalFence
<1> QED BY <1>1, BooksAreKept, PTL

(* A close, wherever it strikes a registration or a replay: when its cause *)
(* is published every registered run has an outcome and no pended          *)
(* notification holds the dispatcher, and what was pended for a live run   *)
(* is in its history (failAll, resolvePendingEvidence,                     *)
(* resolveReplayingEvidence).                                              *)
THEOREM CloseKeepsAll == Spec => []CloseKeeps
<1>1. RunIInv => CloseKeeps
  <2> SUFFICES ASSUME RunIInv PROVE CloseKeeps
      OBVIOUS
  <2>1. published => \A n \in Frames : owner[n] # None => n \in ready
        BY DEF RunIInv, CloseBook, published, Owned
  <2>2. ASSUME published, NEW r \in Runs, outcome[r] = None
        PROVE  pc[r] \in {"new", "callThread", "gotThread", "noStream"}
    <3>1. r \notin attaching /\ r \notin streams
          BY <2>2 DEF RunIInv, CloseBook, published
    <3>2. pc[r] \notin Attaching \cup Replaying \cup {"attached"}
          BY <2>2, <3>1 DEF RunIInv, RunBook, Live
    <3> QED BY <3>2 DEF RunIInv, TypeOK, Attaching, Replaying
  <2>3. KeptEvidence
    <3> SUFFICES ASSUME closer = "resolve", evidence = {}, NEW n \in Frames, owner[n] # None,
                        outcome[owner[n]] = None
                 PROVE  InHistory(owner[n], n) \/ owner[n] \in admitted
        BY DEF KeptEvidence
    <3>1. n \in ready
          BY DEF RunIInv, CloseBook, Owned
    <3> QED BY <3>1 DEF RunIInv, ReadyBook, Owned, Live
  <2> QED BY <2>1, <2>2, <2>3 DEF CloseKeeps, PublishedSettled
<1> QED BY <1>1, BooksAreKept, PTL

-----------------------------------------------------------------------------
(* What RunHistory promises, step by step.                                 *)

(* The log grows as RunHistory lets it.                                    *)
LEMMA LogPromise ==
  ASSUME TypeOK, NEW k \in FrameKinds, NEW id \in Turns \cup Threads,
         log' = Append(log, [kind |-> k, id |-> id])
  PROVE  Promise!LogGrows
<1> DEFINE F == [kind : FrameKinds, id : Turns \cup Threads]
           e == [kind |-> k, id |-> id]
           s == SubSeq(log', 1, Len(log))
<1>1. log \in Seq(F) /\ e \in F
      BY DEF TypeOK
<1> HIDE DEF F, e
<1>2. Len(log) \in Nat /\ Len(log') = Len(log) + 1 /\ \A i \in 1..Len(log) : log'[i] = log[i]
      BY <1>1, AppendProperties DEF e
<1>3. \A i \in 1..Len(log) : log'[i] \in F
      BY <1>1, <1>2, ElementOfSeq
<1>4. s \in Seq(F) /\ Len(s) = Len(log) /\ \A i \in 1..Len(log) : s[i] = log'[i]
  <2>1. /\ s \in Seq(F)
        /\ Len(s) = IF 1 <= Len(log) THEN Len(log) - 1 + 1 ELSE 0
        /\ \A i \in 1..(Len(log) - 1 + 1) : s[i] = log'[1 + i - 1]
        BY <1>2, <1>3, SubSeqProperties
  <2> HIDE DEF s
  <2>2. Len(log) - 1 + 1 = Len(log) /\ \A i \in 1..Len(log) : 1 + i - 1 = i
        BY <1>2
  <2> QED BY <1>2, <2>1, <2>2
<1>5. s = log
  <2> HIDE DEF s
  <2>1. \A i \in 1..Len(s) : s[i] = log[i]
        BY <1>2, <1>4
  <2> QED BY <1>1, <1>4, <2>1, SeqEqual
<1> QED BY <1>2, <1>5 DEF Promise!LogGrows

(* A notification joins a history once, and only before a terminal one.    *)
LEMMA AcceptPromise ==
  ASSUME RunIInv, NEW r \in Runs, NEW n \in Ingested, AcceptInto(r, n), ~InHistory(r, n),
         UNCHANGED <<log, outcome, closeReason>>
  PROVE  [Promise!Next]_(Promise!vars)
<1>1. CASE ~Accepts(r, n)
      BY <1>1 DEF AcceptInto, Promise!vars
<1>2. CASE Accepts(r, n)
  <2>1. history' = [history EXCEPT ![r] = Append(@, n)]
        BY <1>2 DEF AcceptInto
  <2>2. outcome[r] = None /\ r \notin admitted
        BY <1>2 DEF Accepts
  <2>3. ~Promise!Frozen(r)
        BY <2>2 DEF Promise!Frozen, Promise!Kind, Promise!Terminals, RunIInv, AdmitBook, Terminals
  <2>4. n \in 1..Len(log) /\ \A i \in 1..Len(history[r]) : history[r][i] # n
        BY DEF Ingested, InHistory
  <2>5. Promise!Observe(r)
        BY <2>1, <2>3, <2>4 DEF Promise!Observe
  <2> QED BY <2>5 DEF Promise!Next
<1> QED BY <1>1, <1>2

(* Runs get the outcomes they deserve.                                     *)
LEMMA SettlePromise ==
  ASSUME RunIInv, [Next]_vars, UNCHANGED <<log, history, closeReason>>
  PROVE  [Promise!Next]_(Promise!vars)
<1> DEFINE S == {r \in Runs : outcome'[r] # outcome[r]}
<1>1. ASSUME NEW r \in S PROVE outcome[r] = None /\ outcome'[r] \in Promise!Deserved(r)
  <2>1. r \in Runs /\ outcome[r] = None
        BY OutcomesEarned DEF Earning
  <2>2. CASE closed
    <3>1. outcome'[r] = closeReason /\ closeReason # None
          BY <2>1, <2>2, OutcomesEarned DEF Earning, closed
    <3> QED BY <2>1, <3>1 DEF Promise!Deserved
  <2>3. CASE ~closed /\ outcome'[r] \in {"startErr", "busy", "streamClosed", "requestErr"}
        BY <2>1, <2>3 DEF Promise!Deserved, Promise!LocalCauses, closed
  <2>4. CASE ~closed /\ r \in admitted /\ outcome'[r] = Verdict(r)
    <3>1. history[r] # <<>> /\ log[history[r][Len(history[r])]].kind \in {"done", "fail"}
          BY <2>4 DEF RunIInv, AdmitBook, Last, Terminals
    <3>2. /\ outcome'[r] \in {"ok", "turnErr"}
          /\ log[history[r][Len(history[r])]].kind = IF outcome'[r] = "ok" THEN "done" ELSE "fail"
          BY <2>4, <3>1 DEF Verdict
    <3> QED BY <2>1, <2>4, <3>1, <3>2 DEF Promise!Deserved, Promise!Kind, closed
  <2> QED BY <2>1, <2>2, <2>3, <2>4, OutcomesEarned DEF Earning
<1>2. \A r \in Runs \ S : outcome'[r] = outcome[r]
      OBVIOUS
<1>3. Promise!Settle(S)
      BY <1>1, <1>2 DEF Promise!Settle
<1> QED BY <1>3 DEF Promise!Next

(* Every step is one that RunHistory allows.                               *)
LEMMA StepPromise == RunIInv /\ [Next]_vars => [Promise!Next]_(Promise!vars)
<1> SUFFICES ASSUME RunIInv, [Next]_vars PROVE [Promise!Next]_(Promise!vars)
    OBVIOUS
<1> DEFINE kept == <<closeReason, history, log, outcome>>
<1> USE DEF runVars, stateVars, tableVars, pendVars, evidVars, readerVars, dispVars, closeVars
<1>1. CASE UNCHANGED kept
      BY <1>1 DEF Promise!vars
<1>2. ASSUME NEW r \in Runs,
             CallThread(r) \/ ThreadResponse(r) \/ ThreadCallError(r) \/ Register(r) \/
                CallTurn(r) \/ (\E t \in Turns : TurnResponse(r, t)) \/ AttachGate(r) \/
                AttachPublish(r) \/ AttachFinish(r)
      PROVE  UNCHANGED kept
      BY <1>2 DEF CallThread, ThreadResponse, ThreadCallError, Register, CallTurn, TurnResponse,
             AttachGate, AttachPublish, AttachFinish, RunnerKeeps
<1>3. CASE Enqueue \/ EnqueueClosed \/ AwaitPublication
  <2>1. UNCHANGED kept
        BY <1>3 DEF Enqueue, EnqueueClosed, AwaitPublication
  <2> QED BY <1>1, <2>1
<1>4. CASE Dequeue \/ EvidenceReady \/ DispatcherDiscard \/ DispatcherStop \/ DispatcherExit \/
           DispatcherFailed
  <2>1. UNCHANGED kept
        BY <1>4 DEF Dequeue, EvidenceReady, DispatcherDiscard, DispatcherStop, DispatcherExit,
               DispatcherFailed, DispKeeps
  <2> QED BY <1>1, <2>1
<1>5. CASE CloserCancel \/ FailAllTake \/ Publish \/ StopDispatch \/ GraceExpires \/
           ShutdownDiscard
  <2>1. UNCHANGED kept
        BY <1>5 DEF CloserCancel, FailAllTake, Publish, StopDispatch, GraceExpires, ShutdownDiscard,
               CloserKeeps
  <2> QED BY <1>1, <2>1
<1>6. ASSUME NEW r \in Runs, RegisterRefused(r) PROVE [Promise!Next]_(Promise!vars)
  <2>1. UNCHANGED <<log, history, closeReason>>
        BY <1>6 DEF RegisterRefused, RunnerKeeps
  <2> QED BY <2>1, SettlePromise
<1>7. ASSUME NEW r \in Runs, ThreadReplay(r) PROVE [Promise!Next]_(Promise!vars)
  <2>1. PICK n \in Frames : n \in local[r] /\ AcceptInto(r, n)
        BY <1>7, NotesEffect
  <2>2. UNCHANGED <<log, outcome, closeReason>> /\ pc[r] = "threadReplay"
        BY <1>7, NotesEffect
  <2>3. n \in Ingested /\ ~InHistory(r, n)
        BY <2>1, <2>2 DEF RunIInv, LogBook, FreshBook
  <2> QED BY <2>1, <2>2, <2>3, AcceptPromise
<1>8. ASSUME NEW r \in Runs, FinishAttaching(r) PROVE [Promise!Next]_(Promise!vars)
  <2>1. UNCHANGED <<log, history, closeReason>>
        BY <1>8 DEF FinishAttaching, RunnerKeeps
  <2> QED BY <2>1, SettlePromise
<1>9. ASSUME NEW r \in Runs, AttachReplay(r) PROVE [Promise!Next]_(Promise!vars)
  <2>1. PICK n \in Frames : Resolve(r, n) /\ Owned(n)
        BY <1>9, ReplayEffect DEF RunIInv, NoteBook, OwnerBook
  <2>2. UNCHANGED <<log, outcome, closeReason>>
        BY <1>9, ReplayEffect
  <2>3. CASE n \in ready
    <3>1. UNCHANGED history
          BY <2>1, <2>3, ResolveEffect DEF RunIInv
    <3> QED BY <2>2, <3>1 DEF Promise!vars
  <2>4. CASE n \notin ready
    <3>1. AcceptInto(r, n)
          BY <2>1, <2>4, ResolveEffect DEF RunIInv
    <3>2. n \in Ingested /\ ~InHistory(r, n)
          BY <2>1, <2>4 DEF RunIInv, OwnerBook, ReadyBook
    <3> QED BY <2>2, <3>1, <3>2, AcceptPromise
  <2> QED BY <2>3, <2>4
<1>10. ASSUME NEW r \in Runs, AttachComplete(r) PROVE [Promise!Next]_(Promise!vars)
  <2>1. UNCHANGED <<log, history, closeReason>>
        BY <1>10 DEF AttachComplete, RunnerKeeps
  <2> QED BY <2>1, SettlePromise
<1>11. ASSUME NEW r \in Runs, CloseStream(r) PROVE [Promise!Next]_(Promise!vars)
  <2>1. UNCHANGED <<log, history, closeReason>>
        BY <1>11 DEF CloseStream, RunnerKeeps
  <2> QED BY <2>1, SettlePromise
<1>12. ASSUME NEW th \in Threads, NEW t \in Turns, ServerRequestFails(th, t) PROVE [Promise!Next]_(Promise!vars)
  <2>1. UNCHANGED <<log, history, closeReason>>
        BY <1>12 DEF ServerRequestFails, RunnerKeeps
  <2> QED BY <2>1, SettlePromise
<1>13. ASSUME NEW k \in FrameKinds, NEW id \in Turns \cup Threads, Ingest(k, id) PROVE [Promise!Next]_(Promise!vars)
  <2>1. Promise!LogGrows
        BY <1>13, LogPromise DEF Ingest, RunIInv
  <2>2. UNCHANGED <<history, outcome, closeReason>> /\ closeReason = None
        BY <1>13 DEF Ingest, closed
  <2> QED BY <2>1, <2>2 DEF Promise!Next, Promise!Ingest
<1>14. ASSUME NEW k \in FrameKinds, NEW id \in Turns \cup Threads, IngestOverBudget(k, id) PROVE [Promise!Next]_(Promise!vars)
  <2>1. Promise!LogGrows
        BY <1>14, LogPromise DEF IngestOverBudget, RunIInv
  <2>2. UNCHANGED <<history, outcome>> /\ closeReason = None /\ closeReason' = "failure"
        BY <1>14 DEF IngestOverBudget, FailClient, closed
  <2> QED BY <2>1, <2>2 DEF Promise!Next, Promise!Close
<1>15. ASSUME NEW r \in Runs, AcceptTarget(r) PROVE [Promise!Next]_(Promise!vars)
  <2>1. AcceptInto(r, frame) /\ UNCHANGED <<log, outcome, closeReason>> /\ r \in targets
        BY <1>15 DEF AcceptTarget
  <2>2. frame \in Ingested
        BY <1>15 DEF AcceptTarget, RunIInv, LogBook, TypeOK, Ingested
  <2>3. ~InHistory(r, frame)
        BY <2>1 DEF RunIInv, FreshBook
  <2> QED BY <2>1, <2>2, <2>3, AcceptPromise
<1>16. ASSUME NEW r \in Runs, AcceptOverBudget(r) PROVE [Promise!Next]_(Promise!vars)
  <2>1. /\ UNCHANGED <<log, history, outcome>>
        /\ closeReason' = IF closed THEN closeReason ELSE "failure"
        BY <1>16 DEF AcceptOverBudget, FailClient
  <2> QED BY <2>1 DEF Promise!Next, Promise!Close, Promise!vars, closed
<1>17. CASE EnqueueFull
  <2>1. /\ UNCHANGED <<log, history, outcome>>
        /\ closeReason' = IF closed THEN closeReason ELSE "failure"
        BY <1>17 DEF EnqueueFull, FailClient
  <2> QED BY <2>1 DEF Promise!Next, Promise!Close, Promise!vars, closed
<1>18. CASE ReaderComplete
  <2>1. UNCHANGED <<log, history, closeReason>>
        BY <1>18 DEF ReaderComplete
  <2> QED BY <2>1, SettlePromise
<1>19. CASE CallbackOk
  <2>1. UNCHANGED <<log, history, closeReason>>
        BY <1>19 DEF CallbackOk, DispKeeps
  <2> QED BY <2>1, SettlePromise
<1>20. CASE CallbackError
  <2>1. /\ UNCHANGED <<log, history, outcome>>
        /\ closeReason' = IF closed THEN closeReason ELSE "failure"
        BY <1>20 DEF CallbackError, DispKeeps, FailClient
  <2> QED BY <2>1 DEF Promise!Next, Promise!Close, Promise!vars, closed
<1>21. ASSUME NEW cause \in Causes, Close(cause) PROVE [Promise!Next]_(Promise!vars)
  <2>1. UNCHANGED <<log, history, outcome>> /\ ~closed /\ closeReason' = cause
        BY <1>21 DEF Close, CloserKeeps
  <2> QED BY <2>1, ConstantsAssumption DEF Promise!Next, Promise!Close, closed
<1>22. ASSUME NEW n \in Frames, FailAllResolve(n) PROVE [Promise!Next]_(Promise!vars)
  <2>1. PICK x \in Runs : Resolve(x, n) /\ Owned(n)
        BY <1>22 DEF FailAllResolve, RunIInv, CloseBook, TypeOK, Owned
  <2>2. UNCHANGED <<log, outcome, closeReason>>
        BY <1>22 DEF FailAllResolve, CloserKeeps
  <2>3. CASE n \in ready
    <3>1. UNCHANGED history
          BY <2>1, <2>3, ResolveEffect DEF RunIInv
    <3> QED BY <2>2, <3>1 DEF Promise!vars
  <2>4. CASE n \notin ready
    <3>1. AcceptInto(x, n)
          BY <2>1, <2>4, ResolveEffect DEF RunIInv
    <3>2. n \in Ingested /\ ~InHistory(x, n)
          BY <2>1, <2>4 DEF RunIInv, OwnerBook, ReadyBook
    <3> QED BY <2>2, <3>1, <3>2, AcceptPromise
  <2> QED BY <2>3, <2>4
<1>23. CASE FailAllFinish
  <2>1. UNCHANGED <<log, history, closeReason>>
        BY <1>23 DEF FailAllFinish, CloserKeeps
  <2> QED BY <2>1, SettlePromise
<1>24. CASE UNCHANGED vars
      BY <1>1, <1>24 DEF vars
<1> QED
    BY <1>1, <1>2, <1>3, <1>4, <1>5, <1>6, <1>7, <1>8, <1>9, <1>10, <1>11, <1>12, <1>13, <1>14,
       <1>15, <1>16, <1>17, <1>18, <1>19, <1>20, <1>21, <1>22, <1>23, <1>24
    DEF Next, RunnerStep, ReaderStep, DispatcherStep, CloserStep

(* Exact Runs implement RunHistory: a history only grows, once by every    *)
(* notification and not after a terminal one or the end of the run; a run  *)
(* gets one outcome, the verdict of its terminal notification only while   *)
(* the client is open, and the first close cause afterwards.               *)
THEOREM RunsKeepThePromise == Spec => RunsKeepPromise
<1>1. Init => Promise!Init
      BY DEF Init, Promise!Init
<1>2. RunIInv /\ [Next]_vars => [Promise!Next]_(Promise!vars)
      BY StepPromise
<1> QED BY <1>1, <1>2, BooksAreKept, PTL DEF Spec, RunsKeepPromise, Promise!Spec
=============================================================================
