--------------------------- MODULE GoalRunProofs ---------------------------
(***************************************************************************)
(* Proofs about the two components that run a native goal: the repair of a *)
(* candidate (IntegrationRepair), for any contents and any number of tool  *)
(* calls, and RunGoal itself (NativeGoal), for any tool calls and turns.   *)
(* They share no variable; each has an inductive invariant of its own.     *)
(***************************************************************************)
EXTENDS IntegrationRepair, NativeGoal, TLAPS

-----------------------------------------------------------------------------
(* The repair. RepairExact speaks of the end; until then the mutex carries *)
(* it: no call is under way once the result is judged, and while a call is *)
(* no earlier snapshot is left.                                            *)

\* What a call of the tool holds, and that it was admitted.
CallBook ==
  /\ call = "none" <=> digest = Nothing
  /\ call = "verifying" <=> sealed # Nothing
  /\ call # "none" => /\ snapshot = Nothing /\ digest \notin failed /\ ~cancelled /\ ~leaked
                      /\ repairPc \in {"running", "ended"}
                      /\ repairPc = "ended" => native = "other"

\* When RunIntegrationRepair looks at its result for the last time, nobody can
\* change it any more.
ResultBook ==
  /\ repairPc = "running" <=> native = "active"
  /\ repairPc \in {"final", "ok"} => native = "complete" /\ ~cancelled /\ snapshot # Nothing
  /\ snapshot # Nothing => snapshot \in passed
  /\ leaked => cancelled \/ repairPc = "error"

\* A snapshot that somebody refers to is on disk, also after a Close has failed.
FilesBook ==
  unclosed >= (IF snapshot = Nothing THEN 0 ELSE 1) + (IF sealed = Nothing THEN 0 ELSE 1)

RepairIInv ==
  RepairTypeOK /\ CallBook /\ ResultBook /\ FilesBook /\ RepairExact /\ NoRepeat /\ SnapshotsClosed

\* Every step of the goal, of its tool and of RunIntegrationRepair keeps the invariant.
LEMMA RepairStep == RepairIInv /\ [RepairNext]_repairVars => RepairIInv'
<1> SUFFICES ASSUME RepairIInv, [RepairNext]_repairVars PROVE RepairIInv'
    OBVIOUS
<1> USE RepairAssumption DEF RepairIInv, RepairTypeOK, CallBook, ResultBook, FilesBook,
        RepairExact, NoRepeat, SnapshotsClosed, Nothing, Maybe, verifyVars, filesVars,
        snapshotVars
<1>1. CASE EditCandidate  BY <1>1 DEF EditCandidate
<1>2. CASE ToolStops
  <2>1. CASE CloseIt      BY <1>2, <2>1 DEF ToolStops, Calls, CloseIt
  <2>2. CASE CloseFails   BY <1>2, <2>2 DEF ToolStops, Calls, CloseFails
  <2> QED BY <1>2, <2>1, <2>2 DEF ToolStops
<1>3. CASE ToolBegins     BY <1>3 DEF ToolBegins, Calls, CloseIt, NotRepeated
<1>4. CASE Freeze         BY <1>4 DEF Freeze
<1>5. CASE ToolPasses     BY <1>5 DEF ToolPasses, ToolReturns
<1>6. CASE ToolRejects
  <2>1. CASE call = "frozen" /\ UNCHANGED <<filesVars, cancelled>>
        BY <1>6, <2>1 DEF ToolRejects, ToolReturns
  <2>2. CASE call = "verifying" /\ unclosed' = unclosed - 1 /\ UNCHANGED <<leaked, cancelled>>
        BY <1>6, <2>2 DEF ToolRejects, ToolReturns
  <2>3. CASE call = "verifying" /\ leaked' = TRUE /\ cancelled' = TRUE /\ UNCHANGED unclosed
        BY <1>6, <2>3 DEF ToolRejects, ToolReturns
  <2> QED BY <1>6, <2>1, <2>2, <2>3 DEF ToolRejects
<1>7. CASE GoalEnds       BY <1>7 DEF GoalEnds
<1>8. CASE Judge
  <2>1. CASE RepairFails /\ CloseIt      BY <1>8, <2>1 DEF Judge, RepairFails, CloseIt
  <2>2. CASE RepairFails /\ CloseFails   BY <1>8, <2>2 DEF Judge, RepairFails, CloseFails
  <2>3. CASE ~RepairFails                BY <1>8, <2>3 DEF Judge
  <2> QED BY <2>1, <2>2, <2>3 DEF RepairFails
<1>9. CASE Final
  <2>1. CASE RepairFails /\ CloseIt      BY <1>9, <2>1 DEF Final, RepairFails, CloseIt
  <2>2. CASE RepairFails /\ CloseFails   BY <1>9, <2>2 DEF Final, RepairFails, CloseFails
  <2>3. CASE ~RepairFails                BY <1>9, <2>3 DEF Final
  <2> QED BY <2>1, <2>2, <2>3 DEF RepairFails
<1>10. CASE UNCHANGED repairVars  BY <1>10 DEF repairVars
<1> QED BY <1>1, <1>2, <1>3, <1>4, <1>5, <1>6, <1>7, <1>8, <1>9, <1>10 DEF RepairNext

\* A repair that succeeds hands over exactly what was verified and what the candidate
\* still is, no candidate that failed is verified again, and every other snapshot is
\* closed unless its Close failed, for any contents, number of calls and interleaving
\* of edits, calls and the end of the goal (RunIntegrationRepair).
THEOREM RepairIsSound == RepairSpec => []RepairSound
<1>1. RepairInit => RepairIInv
  <2> SUFFICES ASSUME RepairInit PROVE RepairIInv
      OBVIOUS
  <2> USE RepairAssumption DEF RepairInit, Nothing
  <2>1. RepairTypeOK
    <3>1. failed \subseteq Contents /\ passed \subseteq Contents  OBVIOUS
    <3>2. calls \in 0..MaxToolCalls  OBVIOUS
    <3>3. unclosed \in 0..2  OBVIOUS
    <3>4. digest \in Maybe /\ sealed \in Maybe /\ snapshot \in Maybe  BY DEF Maybe
    <3>5. content \in Contents OBVIOUS
    <3>6. leaked \in BOOLEAN /\ twice \in BOOLEAN /\ cancelled \in BOOLEAN OBVIOUS
    <3> QED BY <3>1, <3>2, <3>3, <3>4, <3>5, <3>6 DEF RepairTypeOK
  <2>2. CallBook         BY DEF CallBook
  <2>3. ResultBook       BY DEF ResultBook
  <2>4. FilesBook        BY DEF FilesBook
  <2>5. RepairExact /\ NoRepeat      BY DEF RepairExact, NoRepeat
  <2>6. SnapshotsClosed  BY DEF SnapshotsClosed
  <2> QED BY <2>1, <2>2, <2>3, <2>4, <2>5, <2>6 DEF RepairIInv
<1>2. RepairIInv => RepairSound  BY DEF RepairIInv, RepairSound
<1> QED BY <1>1, <1>2, RepairStep, PTL DEF RepairSpec

-----------------------------------------------------------------------------
(* RunGoal. Three books follow the goroutines; NoFalseReject also needs    *)
(* what an orderly peer has said and the dispatcher has not yet observed:  *)
(* the notifications under way lead, one legal step after the other, from  *)
(* the turn and status observed to those of the peer (WayBook). A goal     *)
(* observed complete and between turns leaves no such step, so RunGoal is  *)
(* done only when the peer is, and every call of an orderly peer comes     *)
(* within its open turn (CallsBook).                                       *)

Busy == {"verify", "leave"}
ToolStates == {"none", "bind", "wait", "verify", "leave", "done", "rejected"}

\* NativeTypeOK in parts, but for who sleeps.
PeerTypes ==
  /\ orderly \in BOOLEAN /\ pTurn \in 0..MaxTurns /\ pGoal \in Statuses
  /\ events \in 0..MaxEvents /\ lag \in Seq(Events) /\ Len(lag) <= MaxLag

SeenTypes ==
  /\ known \in BOOLEAN /\ active \in 0..MaxTurns
  /\ failure \in {"nil", "rejected", "undelivered", "goal"}
  /\ status \in Statuses \cup {"unset"} /\ turned \in BOOLEAN /\ verifying \in BOOLEAN

HandlerTypes ==
  tool \in [ToolCalls -> ToolStates] /\ toolTurn \in [ToolCalls -> 0..MaxTurns]

RunTypes ==
  /\ goalRun \in {"idle", "thread", "set", "loop", "select", "archive", "close", "join", "over"}
  /\ outcome \in {"none", "complete", "failed"}

FlagTypes ==
  /\ ended \in BOOLEAN /\ stopped \in BOOLEAN /\ closing \in BOOLEAN /\ broken \in BOOLEAN
  /\ slow \in BOOLEAN

\* Who sleeps on the channel is a handler that waits, or RunGoal in its select.
SleepBook ==
  \A x \in asleep : \/ x \in ToolCalls /\ tool[x] = "wait"
                    \/ x = "loop" /\ goalRun = "select"

\* Before RunGoal connects.
IdleGoalBook ==
  goalRun = "idle" =>
    /\ pTurn = 0 /\ pGoal = "active" /\ lag = <<>> /\ active = 0 /\ failure = "nil" /\ status = "unset"
    /\ outcome = "none" /\ ~known /\ ~closing /\ ~stopped /\ ~broken /\ ~verifying
    /\ \A c \in ToolCalls : tool[c] = "none"

\* How far RunGoal is when it has an outcome, and when the client is closed.
EndBook ==
  /\ outcome = "none" <=> goalRun \in {"idle", "thread", "set", "loop", "select"}
  /\ stopped => goalRun \in {"archive", "close", "join", "over"}
  /\ closing => broken \/ goalRun \in {"join", "over"}
  /\ goalRun \in {"set", "loop", "select"} => known
  /\ goalRun = "over" /\ outcome = "complete" =>
       lag = <<>> /\ \A c \in ToolCalls : ~Unanswered(c)

\* What the flags of the observation say of the handlers.
HandlerBook ==
  /\ verifying <=> \E c \in ToolCalls : tool[c] \in Busy
  /\ \A c \in ToolCalls : tool[c] = "rejected" => failure # "nil"

\* A notification leads from turn t and status s to turn u and status v.
Leads(e, t, s, u, v) ==
  \/ e.is = "started" /\ t = 0 /\ s # "complete" /\ u = e.turn /\ v = s
  \/ e.is = "completed" /\ t = e.turn /\ u = 0 /\ v = s
  \/ e.is = "goal" /\ t # 0 /\ s # "complete" /\ u = t /\ v = "complete" /\ e.status = v

\* t and s are the turns and statuses that the notifications under way lead through.
Way(t, s) ==
  /\ t \in [0..Len(lag) -> 0..MaxTurns] /\ s \in [0..Len(lag) -> Statuses \cup {"unset"}]
  /\ t[0] = active /\ s[0] = status
  /\ t[Len(lag)] = pTurn /\ (s[Len(lag)] = "complete") = (pGoal = "complete")
  /\ \A i \in 1..Len(lag) : Leads(lag[i], t[i - 1], s[i - 1], t[i], s[i])
  /\ lag # <<>> => known

SomeWay ==
  \E t \in [0..Len(lag) -> 0..MaxTurns], s \in [0..Len(lag) -> Statuses \cup {"unset"}] : Way(t, s)

WayBook == orderly /\ ~closing /\ failure = "nil" => SomeWay

\* An orderly peer calls within its open turn, one call after the other, and is
\* done when RunGoal says so.
CallsBook ==
  orderly =>
    /\ \A c \in ToolCalls : Unanswered(c) =>
         /\ known /\ pTurn # 0
         /\ tool[c] \in {"bind", "wait"} => toolTurn[c] = pTurn
    /\ \A c, d \in ToolCalls : Unanswered(c) /\ Unanswered(d) => c = d
    /\ outcome = "complete" /\ ~broken =>
         pTurn = 0 /\ pGoal = "complete" /\ \A c \in ToolCalls : ~Unanswered(c)

NativeIInv ==
  /\ PeerTypes /\ SeenTypes /\ HandlerTypes /\ RunTypes /\ FlagTypes
  /\ SleepBook /\ IdleGoalBook /\ EndBook /\ HandlerBook /\ WayBook /\ CallsBook
  /\ OneVerification /\ CompleteIsQuiet /\ NoFalseReject /\ NoMissedSignal

-----------------------------------------------------------------------------
\* What a handler's move leaves: its own state changed, the others' as they were.
LEMMA GoesEffect ==
  ASSUME HandlerTypes, NEW c \in ToolCalls, NEW to \in ToolStates, Goes(c, to)
  PROVE  /\ tool' \in [ToolCalls -> ToolStates] /\ toolTurn' \in [ToolCalls -> 0..MaxTurns]
         /\ tool'[c] = to
         /\ to \in {"bind", "wait"} => toolTurn'[c] = toolTurn[c]
         /\ \A d \in ToolCalls \ {c} : tool'[d] = tool[d] /\ toolTurn'[d] = toolTurn[d]
BY GoalRunAssumption DEF Goes, HandlerTypes

\* What a notification carries.
LEMMA EventParts ==
  ASSUME NEW e \in Events
  PROVE  /\ e.is \in {"goal", "started", "completed", "bad"}
         /\ e.is = "goal" => e.status \in Statuses
         /\ e.is \in {"started", "completed"} => e.turn \in Turns
BY DEF Events

\* What observe makes of a notification.
LEMMA NotedEffect ==
  ASSUME SeenTypes, NEW e \in Events, Noted(e)
  PROVE  /\ active' \in 0..MaxTurns /\ failure' \in {failure, "goal"}
         /\ status' \in Statuses \cup {"unset"} /\ turned' \in BOOLEAN
<1>0. 0 \in 0..MaxTurns  BY GoalRunAssumption
<1>1. e.is \in {"goal", "started", "completed", "bad"}  BY EventParts
<1>2. CASE e.is = "goal"       BY <1>2, EventParts DEF Noted, SeenTypes
<1>3. CASE e.is = "started"    BY <1>3, EventParts DEF Noted, SeenTypes, Turns
<1>4. CASE e.is = "completed"  BY <1>0, <1>4 DEF Noted, SeenTypes
<1>5. CASE e.is = "bad"        BY <1>5 DEF Noted, SeenTypes
<1> QED BY <1>1, <1>2, <1>3, <1>4, <1>5

\* Nothing under way: the observation is up to date.
LEMMA EmptyWay ==
  ASSUME lag = <<>>, active = pTurn, pTurn \in 0..MaxTurns, status = "unset", pGoal = "active"
  PROVE  SomeWay
<1> DEFINE t == [i \in 0..0 |-> pTurn]  s == [i \in 0..0 |-> "unset"]
<1>1. Len(lag) = 0  OBVIOUS
<1>2. /\ t \in [0..0 -> 0..MaxTurns] /\ t[0] = pTurn
      /\ s \in [0..0 -> Statuses \cup {"unset"}] /\ s[0] = "unset"
      OBVIOUS
<1> HIDE DEF t, s
<1>3. Way(t, s)  BY <1>1, <1>2 DEF Way
<1> QED BY <1>1, <1>2, <1>3 DEF SomeWay

\* One more notification in order is one more step of the way.
LEMMA WayGrows ==
  ASSUME PeerTypes, SomeWay, known, NEW e \in Events, InOrder(e), lag' = Append(lag, e),
         pTurn' = CASE e.is = "started" -> e.turn
                    [] e.is = "completed" -> 0
                    [] OTHER -> pTurn,
         pGoal' = IF e.is = "goal" THEN e.status ELSE pGoal,
         UNCHANGED <<known, active, status>>
  PROVE  SomeWay'
<1>1. PICK t \in [0..Len(lag) -> 0..MaxTurns], s \in [0..Len(lag) -> Statuses \cup {"unset"}] :
             Way(t, s)
      BY DEF SomeWay
<1>2. PICK n \in Nat : n = Len(lag)  BY DEF PeerTypes
<1>3. /\ Len(lag') = n + 1 /\ lag'[n + 1] = e /\ lag' # <<>>
      /\ \A i \in 1..n : lag'[i] = lag[i]
      BY <1>2 DEF PeerTypes
<1>4. PICK last \in 0..MaxTurns : last = pTurn'
      BY EventParts, GoalRunAssumption DEF PeerTypes, Turns
<1>5. PICK says \in Statuses \cup {"unset"} : says = IF e.is = "goal" THEN "complete" ELSE s[n]
      BY <1>2 DEF Statuses
<1> DEFINE u == [i \in 0..n + 1 |-> IF i = n + 1 THEN last ELSE t[i]]
           v == [i \in 0..n + 1 |-> IF i = n + 1 THEN says ELSE s[i]]
<1>6. /\ u \in [0..n + 1 -> 0..MaxTurns] /\ v \in [0..n + 1 -> Statuses \cup {"unset"}]
      /\ \A i \in 0..n : u[i] = t[i] /\ v[i] = s[i]
      /\ u[n + 1] = last /\ v[n + 1] = says
      BY <1>2
<1> HIDE DEF u, v
<1>7. \A i \in 1..n : Leads(lag'[i], u[i - 1], v[i - 1], u[i], v[i])
      BY <1>1, <1>2, <1>3, <1>6 DEF Way
<1>8. Leads(e, u[n], v[n], u[n + 1], v[n + 1])
  <2>1. u[n] = pTurn /\ ((v[n] = "complete") = (pGoal = "complete")) /\ v[n] = s[n]
        BY <1>1, <1>2, <1>6 DEF Way
  <2>2. e.is \in {"goal", "started", "completed", "bad"}  BY EventParts
  <2>3. CASE e.is = "goal"
        BY <2>1, <2>3, <1>4, <1>5, <1>6 DEF InOrder, Leads
  <2>4. CASE e.is = "started"
        BY <2>1, <2>4, <1>4, <1>5, <1>6 DEF InOrder, Leads
  <2>5. CASE e.is = "completed"
        BY <2>1, <2>5, <1>4, <1>5, <1>6 DEF InOrder, Leads
  <2>6. CASE e.is = "bad"  BY <2>6 DEF InOrder
  <2> QED BY <2>2, <2>3, <2>4, <2>5, <2>6
<1>9. (v[n + 1] = "complete") = (pGoal' = "complete")
  <2>1. (s[n] = "complete") = (pGoal = "complete")  BY <1>1, <1>2 DEF Way
  <2>2. CASE e.is = "goal"  BY <2>2, <1>5, <1>6 DEF InOrder
  <2>3. CASE e.is # "goal"  BY <2>1, <2>3, <1>5, <1>6
  <2> QED BY <2>2, <2>3
<1>10. u[0] = active' /\ v[0] = status'  BY <1>1, <1>2, <1>6 DEF Way
<1>11. \A i \in 1..n + 1 : Leads(lag'[i], u[i - 1], v[i - 1], u[i], v[i])
  <2> TAKE i \in 1..n + 1
  <2>1. i \in 1..n \/ (i = n + 1 /\ i - 1 = n)  BY <1>2
  <2> QED BY <1>3, <1>7, <1>8, <2>1
<1>12. Way(u, v)'
       BY <1>3, <1>4, <1>6, <1>9, <1>10, <1>11 DEF Way
<1> QED BY <1>3, <1>6, <1>12 DEF SomeWay

\* An observed notification is the first step of the way, and no failure.
LEMMA WayShrinks ==
  ASSUME PeerTypes, SeenTypes, SomeWay, lag # <<>>, lag' = Tail(lag), Noted(Head(lag)),
         UNCHANGED <<known, pTurn, pGoal>>
  PROVE  SomeWay'
<1>1. PICK t \in [0..Len(lag) -> 0..MaxTurns], s \in [0..Len(lag) -> Statuses \cup {"unset"}] :
             Way(t, s)
      BY DEF SomeWay
<1>2. PICK n \in Nat : Len(lag) = n + 1
  <2>1. Len(lag) \in Nat /\ Len(lag) # 0  BY DEF PeerTypes
  <2> WITNESS Len(lag) - 1 \in Nat
  <2> QED BY <2>1
<1>3. /\ Len(lag') = n /\ Head(lag) = lag[1] /\ lag[1] \in Events
      /\ \A i \in 1..n : lag'[i] = lag[i + 1]
      BY <1>2 DEF PeerTypes
<1>4. Leads(lag[1], active, status, t[1], s[1]) /\ known
      BY <1>1, <1>2 DEF Way
<1>5. active' = t[1] /\ status' = s[1]
  <2>1. lag[1].is \in {"goal", "started", "completed", "bad"}  BY <1>3, EventParts
  <2>2. Noted(lag[1])  BY <1>3
  <2>3. CASE lag[1].is = "goal"       BY <1>4, <2>2, <2>3 DEF Noted, Leads
  <2>4. CASE lag[1].is = "started"    BY <1>4, <2>2, <2>4 DEF Noted, Leads
  <2>5. CASE lag[1].is = "completed"  BY <1>4, <2>2, <2>5 DEF Noted, Leads
  <2>6. CASE lag[1].is = "bad"        BY <1>4, <2>6 DEF Leads
  <2> QED BY <2>1, <2>3, <2>4, <2>5, <2>6
<1> DEFINE u == [i \in 0..n |-> t[i + 1]]
           v == [i \in 0..n |-> s[i + 1]]
<1>6. /\ u \in [0..n -> 0..MaxTurns] /\ v \in [0..n -> Statuses \cup {"unset"}]
      /\ \A i \in 0..n : u[i] = t[i + 1] /\ v[i] = s[i + 1]
      BY <1>2
<1> HIDE DEF u, v
<1>7. \A i \in 1..n : Leads(lag'[i], u[i - 1], v[i - 1], u[i], v[i])
  <2> TAKE i \in 1..n
  <2>1. Leads(lag[i + 1], t[i], s[i], t[i + 1], s[i + 1])
    <3>1. i + 1 \in 1..Len(lag) /\ (i + 1) - 1 = i  BY <1>2
    <3> QED BY <1>1, <3>1 DEF Way
  <2>2. u[i - 1] = t[i] /\ v[i - 1] = s[i]
    <3>1. i - 1 \in 0..n /\ (i - 1) + 1 = i  BY <1>2
    <3> QED BY <1>6, <3>1
  <2> QED BY <1>3, <1>6, <2>1, <2>2
<1>8. u[n] = pTurn' /\ ((v[n] = "complete") = (pGoal' = "complete"))
      BY <1>1, <1>2, <1>6 DEF Way
<1>9. u[0] = active' /\ v[0] = status'  BY <1>2, <1>5, <1>6
<1>10. Way(u, v)'  BY <1>3, <1>4, <1>6, <1>7, <1>8, <1>9 DEF Way
<1> QED BY <1>3, <1>6, <1>10 DEF SomeWay

\* No step leads on from a complete goal between two turns: the peer is done.
LEMMA ReadyIsDone ==
  ASSUME PeerTypes, SomeWay, status = "complete", active = 0
  PROVE  pTurn = 0 /\ pGoal = "complete"
<1>1. PICK t \in [0..Len(lag) -> 0..MaxTurns], s \in [0..Len(lag) -> Statuses \cup {"unset"}] :
             Way(t, s)
      BY DEF SomeWay
<1>2. Len(lag) = 0
  <2> SUFFICES ASSUME Len(lag) # 0 PROVE FALSE
      BY DEF PeerTypes
  <2>1. 1 \in 1..Len(lag) /\ lag[1] \in Events  BY DEF PeerTypes
  <2>2. Leads(lag[1], 0, "complete", t[1], s[1])  BY <1>1, <2>1 DEF Way
  <2>3. lag[1].is = "completed" => lag[1].turn # 0
        BY <2>1, EventParts, GoalRunAssumption DEF Turns
  <2> QED BY <2>2, <2>3 DEF Leads
<1> QED BY <1>1, <1>2 DEF Way

\* Every step of the peer, of the dispatcher, of the handlers and of RunGoal keeps
\* the invariant.
LEMMA NativeStep == NativeIInv /\ [NativeNext]_nativeVars => NativeIInv'
<1> SUFFICES ASSUME NativeIInv, [NativeNext]_nativeVars PROVE NativeIInv'
    OBVIOUS
<1> USE GoalRunAssumption, LoopAssumption DEF nativePeer, obsVars, toolVars, clientVars
<1>0. /\ PeerTypes /\ SeenTypes /\ HandlerTypes /\ RunTypes /\ FlagTypes /\ SleepBook
      /\ IdleGoalBook /\ EndBook /\ HandlerBook /\ WayBook /\ CallsBook
      /\ OneVerification /\ CompleteIsQuiet /\ NoFalseReject /\ NoMissedSignal
      BY DEF NativeIInv
<1>1. ASSUME NEW e \in Events, PeerNotifies(e) PROVE NativeIInv'
  <2>1. PeerTypes'
    <3>1. lag' \in Seq(Events) /\ Len(lag') = Len(lag) + 1 /\ Len(lag) \in Nat
          BY <1>0, <1>1 DEF PeerNotifies, PeerTypes
    <3>2. Len(lag') <= MaxLag
      <4>1. lag = <<>> => Len(lag) = 0  OBVIOUS
      <4> QED BY <1>0, <1>1, <3>1, <4>1 DEF PeerNotifies, PeerTypes
    <3>3. pTurn' \in 0..MaxTurns /\ pGoal' \in Statuses
          BY <1>0, <1>1, EventParts DEF PeerNotifies, PeerTypes, Turns
    <3>4. events' \in 0..MaxEvents /\ orderly' \in BOOLEAN
          BY <1>0, <1>1 DEF PeerNotifies, PeerTypes
    <3> QED BY <3>1, <3>2, <3>3, <3>4 DEF PeerTypes
  <2>2. SeenTypes' /\ HandlerTypes'
      BY <1>0, <1>1 DEF PeerNotifies, Connected, SeenTypes, HandlerTypes
  <2>3. RunTypes' /\ FlagTypes'
      BY <1>0, <1>1 DEF PeerNotifies, Connected, RunTypes, FlagTypes
  <2>4. SleepBook' /\ IdleGoalBook' /\ EndBook' /\ HandlerBook'
      BY <1>0, <1>1 DEF PeerNotifies, Connected, SleepBook, IdleGoalBook, EndBook,
         Unanswered, HandlerBook, Busy
  <2>5. WayBook'
    <3>1. CASE orderly /\ failure = "nil" /\ ~closing
      <4>1. SomeWay  BY <1>0, <3>1 DEF WayBook
      <4>2. SomeWay'  BY <1>0, <1>1, <3>1, <4>1, WayGrows DEF PeerNotifies
      <4> QED BY <4>2 DEF WayBook
    <3>2. CASE ~(orderly /\ failure = "nil" /\ ~closing)
          BY <1>1, <3>2 DEF PeerNotifies, WayBook
    <3> QED BY <3>1, <3>2
  <2>6. CallsBook'
    <3> SUFFICES ASSUME orderly PROVE CallsBook'
        BY <1>1 DEF PeerNotifies, CallsBook
    <3>1. InOrder(e) /\ (e.is \in {"started", "completed"} => e.turn # 0)
          /\ e.is \in {"goal", "started", "completed", "bad"}
          BY <1>1, EventParts DEF PeerNotifies, Turns
    <3>2. CASE e.is = "started"
          BY <1>0, <1>1, <3>1, <3>2 DEF PeerNotifies, InOrder, CallsBook, Unanswered
    <3>3. CASE e.is = "completed"
          BY <1>0, <1>1, <3>1, <3>3 DEF PeerNotifies, InOrder, CallsBook, Unanswered
    <3>4. CASE e.is = "goal"
          BY <1>0, <1>1, <3>1, <3>4 DEF PeerNotifies, InOrder, CallsBook, Unanswered
    <3> QED BY <3>1, <3>2, <3>3, <3>4 DEF InOrder
  <2>7. OneVerification' /\ CompleteIsQuiet' /\ NoFalseReject' /\ NoMissedSignal'
      BY <1>0, <1>1 DEF PeerNotifies, Connected, OneVerification, CompleteIsQuiet, Ready,
         NoFalseReject, NoMissedSignal
  <2> QED BY <2>1, <2>2, <2>3, <2>4, <2>5, <2>6, <2>7 DEF NativeIInv
<1>2. ASSUME NEW c \in ToolCalls, NEW n \in 0..MaxTurns, PeerCalls(c, n) PROVE NativeIInv'
  <2>0. /\ tool' \in [ToolCalls -> ToolStates] /\ toolTurn' \in [ToolCalls -> 0..MaxTurns]
        /\ tool'[c] = "bind" /\ toolTurn'[c] = n
        /\ \A d \in ToolCalls \ {c} : tool'[d] = tool[d] /\ toolTurn'[d] = toolTurn[d]
        BY <1>0, <1>2 DEF PeerCalls, HandlerTypes, ToolStates
  <2>1. PeerTypes' /\ SeenTypes' /\ HandlerTypes'
      BY <1>0, <1>2, <2>0 DEF PeerCalls, Connected, PeerTypes, SeenTypes, HandlerTypes
  <2>2. RunTypes' /\ FlagTypes'
      BY <1>0, <1>2, <2>0 DEF PeerCalls, Connected, RunTypes, FlagTypes
  <2>3. SleepBook' /\ IdleGoalBook' /\ EndBook' /\ HandlerBook'
      BY <1>0, <1>2, <2>0 DEF PeerCalls, Connected, SleepBook, IdleGoalBook, EndBook,
         Unanswered, HandlerBook, Busy
  <2>4. WayBook'
      BY <1>0, <1>2, <2>0 DEF PeerCalls, Connected, WayBook, SomeWay, Way
  <2>5. CallsBook'
      BY <1>0, <1>2, <2>0 DEF PeerCalls, Connected, CallsBook, Unanswered
  <2>6. OneVerification' /\ CompleteIsQuiet' /\ NoFalseReject' /\ NoMissedSignal'
      BY <1>0, <1>2, <2>0 DEF PeerCalls, Connected, OneVerification, CompleteIsQuiet,
         Ready, NoFalseReject, NoMissedSignal, SleepBook
  <2> QED BY <2>1, <2>2, <2>3, <2>4, <2>5, <2>6 DEF NativeIInv
<1>3. CASE ClientFails
  <2>1. PeerTypes' /\ SeenTypes' /\ HandlerTypes'
      BY <1>0, <1>3 DEF ClientFails, Connected, PeerTypes, SeenTypes, HandlerTypes
  <2>2. RunTypes' /\ FlagTypes'
      BY <1>0, <1>3 DEF ClientFails, Connected, RunTypes, FlagTypes
  <2>3. SleepBook' /\ IdleGoalBook' /\ EndBook' /\ HandlerBook'
      BY <1>0, <1>3 DEF ClientFails, Connected, SleepBook, IdleGoalBook, EndBook,
         Unanswered, HandlerBook, Busy
  <2>4. WayBook'
      BY <1>0, <1>3 DEF ClientFails, Connected, WayBook, SomeWay, Way
  <2>5. CallsBook'
      BY <1>0, <1>3 DEF ClientFails, Connected, CallsBook, Unanswered
  <2>6. OneVerification' /\ CompleteIsQuiet' /\ NoFalseReject' /\ NoMissedSignal'
      BY <1>0, <1>3 DEF ClientFails, Connected, OneVerification, CompleteIsQuiet, Ready,
         NoFalseReject, NoMissedSignal
  <2> QED BY <2>1, <2>2, <2>3, <2>4, <2>5, <2>6 DEF NativeIInv
<1>4. CASE Cancel
  <2>1. PeerTypes' /\ SeenTypes' /\ HandlerTypes'
      BY <1>0, <1>4 DEF Cancel, PeerTypes, SeenTypes, HandlerTypes
  <2>2. RunTypes' /\ FlagTypes'
      BY <1>0, <1>4 DEF Cancel, RunTypes, FlagTypes
  <2>3. SleepBook' /\ IdleGoalBook' /\ EndBook' /\ HandlerBook'
      BY <1>0, <1>4 DEF Cancel, SleepBook, IdleGoalBook, EndBook, Unanswered, HandlerBook,
         Busy
  <2>4. WayBook'
      BY <1>0, <1>4 DEF Cancel, WayBook, SomeWay, Way
  <2>5. CallsBook'
      BY <1>0, <1>4 DEF Cancel, CallsBook, Unanswered
  <2>6. OneVerification' /\ CompleteIsQuiet' /\ NoFalseReject' /\ NoMissedSignal'
      BY <1>0, <1>4 DEF Cancel, OneVerification, CompleteIsQuiet, Ready, NoFalseReject,
         NoMissedSignal
  <2> QED BY <2>1, <2>2, <2>3, <2>4, <2>5, <2>6 DEF NativeIInv
<1>5. CASE observe
  <2>0. /\ Head(lag) \in Events /\ Tail(lag) \in Seq(Events) /\ Len(Tail(lag)) = Len(lag) - 1
        /\ Len(lag) \in Nat
        BY <1>0, <1>5 DEF observe, PeerTypes
  <2>1. PeerTypes'
      BY <1>0, <1>5, <2>0 DEF observe, PeerTypes
  <2>2. SeenTypes'
      BY <1>0, <1>5, <2>0, NotedEffect DEF observe, SeenTypes
  <2>3. HandlerTypes'
      BY <1>0, <1>5, <2>0 DEF observe, signal, HandlerTypes
  <2>4. RunTypes' /\ FlagTypes'
      BY <1>0, <1>5, <2>0 DEF observe, signal, RunTypes, FlagTypes
  <2>5. SleepBook' /\ IdleGoalBook' /\ EndBook' /\ HandlerBook'
      BY <1>0, <1>5, <2>0 DEF observe, signal, SleepBook, IdleGoalBook, EndBook,
         Unanswered, HandlerBook, Busy
  <2>6. WayBook'
    <3>1. failure' = "nil" => failure = "nil"
          BY <1>0, <1>5, <2>0, NotedEffect DEF observe
    <3>2. CASE orderly /\ failure = "nil" /\ ~closing
      <4>1. SomeWay  BY <1>0, <3>2 DEF WayBook
      <4>2. SomeWay'  BY <1>0, <1>5, <3>2, <4>1, WayShrinks DEF observe
      <4> QED BY <4>2 DEF WayBook
    <3>3. CASE ~(orderly /\ failure = "nil" /\ ~closing)
          BY <1>5, <3>1, <3>3 DEF observe, WayBook
    <3> QED BY <3>2, <3>3
  <2>7. CallsBook'
      BY <1>0, <1>5, <2>0 DEF observe, signal, CallsBook, Unanswered
  <2>8. NoFalseReject'
    <3>1. failure' = "rejected" => failure = "rejected"
          BY <1>0, <1>5, <2>0, NotedEffect DEF observe
    <3> QED BY <1>0, <1>5, <3>1 DEF observe, NoFalseReject
  <2>9. OneVerification' /\ CompleteIsQuiet' /\ NoMissedSignal'
      BY <1>0, <1>5, <2>0 DEF observe, signal, OneVerification, CompleteIsQuiet, Ready,
         EndBook, NoMissedSignal
  <2> QED BY <2>1, <2>2, <2>3, <2>4, <2>5, <2>6, <2>7, <2>8, <2>9 DEF NativeIInv
<1>6. CASE Discarded
  <2>1. PeerTypes' /\ SeenTypes' /\ HandlerTypes'
      BY <1>0, <1>6 DEF Discarded, PeerTypes, SeenTypes, HandlerTypes
  <2>2. RunTypes' /\ FlagTypes'
      BY <1>0, <1>6 DEF Discarded, RunTypes, FlagTypes
  <2>3. SleepBook' /\ IdleGoalBook' /\ EndBook' /\ HandlerBook'
      BY <1>0, <1>6 DEF Discarded, SleepBook, IdleGoalBook, EndBook, Unanswered,
         HandlerBook, Busy
  <2>4. WayBook'
      BY <1>0, <1>6 DEF Discarded, WayBook, SomeWay, Way
  <2>5. CallsBook'
      BY <1>0, <1>6 DEF Discarded, CallsBook, Unanswered
  <2>6. OneVerification' /\ CompleteIsQuiet' /\ NoFalseReject' /\ NoMissedSignal'
      BY <1>0, <1>6 DEF Discarded, OneVerification, CompleteIsQuiet, Ready, NoFalseReject,
         NoMissedSignal
  <2> QED BY <2>1, <2>2, <2>3, <2>4, <2>5, <2>6 DEF NativeIInv
<1>7. CASE Connect
  <2>1. PeerTypes' /\ SeenTypes' /\ HandlerTypes'
      BY <1>0, <1>7 DEF Connect, PeerTypes, SeenTypes, HandlerTypes
  <2>2. RunTypes' /\ FlagTypes'
      BY <1>0, <1>7 DEF Connect, RunTypes, FlagTypes
  <2>3. SleepBook' /\ IdleGoalBook' /\ EndBook' /\ HandlerBook'
      BY <1>0, <1>7 DEF Connect, SleepBook, IdleGoalBook, EndBook, Unanswered,
         HandlerBook, Busy
  <2>4. WayBook'
    <3>1. SomeWay  BY <1>0, <1>7, EmptyWay DEF Connect, IdleGoalBook, PeerTypes
    <3>2. SomeWay'  BY <1>7, <3>1 DEF Connect, SomeWay, Way
    <3> QED BY <3>2 DEF WayBook
  <2>5. CallsBook'
      BY <1>0, <1>7 DEF Connect, CallsBook, Unanswered, IdleGoalBook
  <2>6. OneVerification' /\ CompleteIsQuiet' /\ NoFalseReject' /\ NoMissedSignal'
      BY <1>0, <1>7 DEF Connect, OneVerification, CompleteIsQuiet, Ready, NoFalseReject,
         IdleGoalBook, NoMissedSignal
  <2> QED BY <2>1, <2>2, <2>3, <2>4, <2>5, <2>6 DEF NativeIInv
<1>8. CASE StartThread
  <2>1. PeerTypes' /\ SeenTypes' /\ HandlerTypes'
      BY <1>0, <1>8 DEF StartThread, Returns, PeerTypes, SeenTypes, HandlerTypes
  <2>2. RunTypes' /\ FlagTypes'
      BY <1>0, <1>8 DEF StartThread, Returns, RunTypes, FlagTypes
  <2>3. SleepBook' /\ IdleGoalBook' /\ EndBook' /\ HandlerBook'
      BY <1>0, <1>8 DEF StartThread, Returns, SleepBook, IdleGoalBook, EndBook,
         Unanswered, HandlerBook, Busy
  <2>4. WayBook'
      BY <1>0, <1>8 DEF StartThread, Returns, WayBook, SomeWay, Way
  <2>5. CallsBook'
      BY <1>0, <1>8 DEF StartThread, Returns, CallsBook, Unanswered
  <2>6. OneVerification' /\ CompleteIsQuiet' /\ NoFalseReject' /\ NoMissedSignal'
      BY <1>0, <1>8 DEF StartThread, Returns, OneVerification, CompleteIsQuiet, Ready,
         NoFalseReject, NoMissedSignal
  <2> QED BY <2>1, <2>2, <2>3, <2>4, <2>5, <2>6 DEF NativeIInv
<1>9. CASE GoalSet
  <2>1. PeerTypes' /\ SeenTypes' /\ HandlerTypes'
      BY <1>0, <1>9 DEF GoalSet, Returns, PeerTypes, SeenTypes, HandlerTypes
  <2>2. RunTypes' /\ FlagTypes'
      BY <1>0, <1>9 DEF GoalSet, Returns, RunTypes, FlagTypes
  <2>3. SleepBook' /\ IdleGoalBook' /\ EndBook' /\ HandlerBook'
      BY <1>0, <1>9 DEF GoalSet, Returns, SleepBook, IdleGoalBook, EndBook, Unanswered,
         HandlerBook, Busy
  <2>4. WayBook'
      BY <1>0, <1>9 DEF GoalSet, Returns, WayBook, SomeWay, Way
  <2>5. CallsBook'
      BY <1>0, <1>9 DEF GoalSet, Returns, CallsBook, Unanswered
  <2>6. OneVerification' /\ CompleteIsQuiet' /\ NoFalseReject' /\ NoMissedSignal'
      BY <1>0, <1>9 DEF GoalSet, Returns, OneVerification, CompleteIsQuiet, Ready,
         NoFalseReject, NoMissedSignal
  <2> QED BY <2>1, <2>2, <2>3, <2>4, <2>5, <2>6 DEF NativeIInv
<1>10. CASE Look
  <2>1. PeerTypes' /\ SeenTypes' /\ HandlerTypes'
      BY <1>0, <1>10 DEF Look, Returns, Ready, PeerTypes, SeenTypes, HandlerTypes
  <2>2. RunTypes' /\ FlagTypes'
      BY <1>0, <1>10 DEF Look, Returns, Ready, RunTypes, FlagTypes
  <2>3. EndBook'
    <3>1. CASE goalRun' = "archive"  BY <1>0, <1>10, <3>1 DEF Look, Returns, EndBook
    <3>2. CASE goalRun' = "select"   BY <1>0, <1>10, <3>2 DEF Look, Returns, EndBook
    <3> QED BY <1>10, <3>1, <3>2 DEF Look, Returns
  <2>4. SleepBook' /\ IdleGoalBook' /\ HandlerBook'
      BY <1>0, <1>10 DEF Look, Returns, Ready, SleepBook, IdleGoalBook, HandlerBook, Busy
  <2>5. WayBook'
      BY <1>0, <1>10 DEF Look, Returns, Ready, WayBook, SomeWay, Way
  <2>6. CallsBook'
    <3>1. CASE outcome' = "complete" /\ orderly /\ ~broken
      <4>1. Ready /\ failure = "nil" /\ ~closing
            BY <1>0, <1>10, <3>1 DEF Look, Returns, EndBook
      <4>2. pTurn = 0 /\ pGoal = "complete"
            BY <1>0, <3>1, <4>1, ReadyIsDone DEF WayBook, Ready
      <4> QED BY <1>0, <1>10, <3>1, <4>2 DEF Look, CallsBook, Unanswered
    <3>2. CASE ~(outcome' = "complete" /\ orderly /\ ~broken)
          BY <1>0, <1>10, <3>2 DEF Look, CallsBook, Unanswered
    <3> QED BY <3>1, <3>2
  <2>7. OneVerification' /\ CompleteIsQuiet' /\ NoFalseReject' /\ NoMissedSignal'
      BY <1>0, <1>10 DEF Look, Returns, Ready, OneVerification, CompleteIsQuiet,
         NoFalseReject, NoMissedSignal
  <2> QED BY <2>1, <2>2, <2>3, <2>4, <2>5, <2>6, <2>7 DEF NativeIInv
<1>11. CASE Changed
  <2>1. PeerTypes' /\ SeenTypes' /\ HandlerTypes'
      BY <1>0, <1>11 DEF Changed, PeerTypes, SeenTypes, HandlerTypes
  <2>2. RunTypes' /\ FlagTypes'
      BY <1>0, <1>11 DEF Changed, RunTypes, FlagTypes
  <2>3. SleepBook' /\ IdleGoalBook' /\ EndBook' /\ HandlerBook'
      BY <1>0, <1>11 DEF Changed, SleepBook, IdleGoalBook, EndBook, Unanswered,
         HandlerBook, Busy
  <2>4. WayBook'
      BY <1>0, <1>11 DEF Changed, WayBook, SomeWay, Way
  <2>5. CallsBook'
      BY <1>0, <1>11 DEF Changed, CallsBook, Unanswered
  <2>6. OneVerification' /\ CompleteIsQuiet' /\ NoFalseReject' /\ NoMissedSignal'
      BY <1>0, <1>11 DEF Changed, OneVerification, CompleteIsQuiet, Ready, NoFalseReject,
         NoMissedSignal
  <2> QED BY <2>1, <2>2, <2>3, <2>4, <2>5, <2>6 DEF NativeIInv
<1>12. CASE Done
  <2>1. PeerTypes' /\ SeenTypes' /\ HandlerTypes'
      BY <1>0, <1>12 DEF Done, Returns, PeerTypes, SeenTypes, HandlerTypes
  <2>2. RunTypes' /\ FlagTypes'
      BY <1>0, <1>12 DEF Done, Returns, RunTypes, FlagTypes
  <2>3. SleepBook' /\ IdleGoalBook' /\ EndBook' /\ HandlerBook'
      BY <1>0, <1>12 DEF Done, Returns, SleepBook, IdleGoalBook, EndBook, Unanswered,
         HandlerBook, Busy
  <2>4. WayBook'
      BY <1>0, <1>12 DEF Done, Returns, WayBook, SomeWay, Way
  <2>5. CallsBook'
      BY <1>0, <1>12 DEF Done, Returns, CallsBook, Unanswered
  <2>6. OneVerification' /\ CompleteIsQuiet' /\ NoFalseReject' /\ NoMissedSignal'
      BY <1>0, <1>12 DEF Done, Returns, OneVerification, CompleteIsQuiet, Ready,
         NoFalseReject, NoMissedSignal
  <2> QED BY <2>1, <2>2, <2>3, <2>4, <2>5, <2>6 DEF NativeIInv
<1>13. CASE Probe
  <2>1. PeerTypes' /\ SeenTypes' /\ HandlerTypes'
      BY <1>0, <1>13 DEF Probe, Returns, PeerTypes, SeenTypes, HandlerTypes
  <2>2. RunTypes' /\ FlagTypes'
      BY <1>0, <1>13 DEF Probe, Returns, RunTypes, FlagTypes
  <2>3. SleepBook' /\ IdleGoalBook' /\ EndBook' /\ HandlerBook'
      BY <1>0, <1>13 DEF Probe, Returns, SleepBook, IdleGoalBook, EndBook, Unanswered,
         HandlerBook, Busy
  <2>4. WayBook'
      BY <1>0, <1>13 DEF Probe, Returns, WayBook, SomeWay, Way
  <2>5. CallsBook'
      BY <1>0, <1>13 DEF Probe, Returns, CallsBook, Unanswered
  <2>6. OneVerification' /\ CompleteIsQuiet' /\ NoFalseReject' /\ NoMissedSignal'
      BY <1>0, <1>13 DEF Probe, Returns, OneVerification, CompleteIsQuiet, Ready,
         NoFalseReject, NoMissedSignal
  <2> QED BY <2>1, <2>2, <2>3, <2>4, <2>5, <2>6 DEF NativeIInv
<1>14. CASE ArchiveThread
  <2>1. PeerTypes' /\ SeenTypes' /\ HandlerTypes'
      BY <1>0, <1>14 DEF ArchiveThread, PeerTypes, SeenTypes, HandlerTypes
  <2>2. RunTypes' /\ FlagTypes'
      BY <1>0, <1>14 DEF ArchiveThread, RunTypes, FlagTypes
  <2>3. SleepBook' /\ IdleGoalBook' /\ EndBook' /\ HandlerBook'
      BY <1>0, <1>14 DEF ArchiveThread, SleepBook, IdleGoalBook, EndBook, Unanswered,
         HandlerBook, Busy
  <2>4. WayBook'
      BY <1>0, <1>14 DEF ArchiveThread, WayBook, SomeWay, Way
  <2>5. CallsBook'
      BY <1>0, <1>14 DEF ArchiveThread, CallsBook, Unanswered
  <2>6. OneVerification' /\ CompleteIsQuiet' /\ NoFalseReject' /\ NoMissedSignal'
      BY <1>0, <1>14 DEF ArchiveThread, OneVerification, CompleteIsQuiet, Ready,
         NoFalseReject, NoMissedSignal
  <2> QED BY <2>1, <2>2, <2>3, <2>4, <2>5, <2>6 DEF NativeIInv
<1>15. CASE CloseClientContext
  <2>1. PeerTypes' /\ SeenTypes' /\ HandlerTypes'
      BY <1>0, <1>15 DEF CloseClientContext, PeerTypes, SeenTypes, HandlerTypes
  <2>2. RunTypes' /\ FlagTypes'
      BY <1>0, <1>15 DEF CloseClientContext, RunTypes, FlagTypes
  <2>3. SleepBook' /\ IdleGoalBook' /\ EndBook' /\ HandlerBook'
      BY <1>0, <1>15 DEF CloseClientContext, SleepBook, IdleGoalBook, EndBook, Unanswered,
         HandlerBook, Busy
  <2>4. WayBook'
      BY <1>0, <1>15 DEF CloseClientContext, WayBook, SomeWay, Way
  <2>5. CallsBook'
      BY <1>0, <1>15 DEF CloseClientContext, CallsBook, Unanswered
  <2>6. OneVerification' /\ CompleteIsQuiet' /\ NoFalseReject' /\ NoMissedSignal'
      BY <1>0, <1>15 DEF CloseClientContext, OneVerification, CompleteIsQuiet, Ready,
         NoFalseReject, NoMissedSignal
  <2> QED BY <2>1, <2>2, <2>3, <2>4, <2>5, <2>6 DEF NativeIInv
<1>16. CASE Joined
  <2>1. PeerTypes' /\ SeenTypes' /\ HandlerTypes'
      BY <1>0, <1>16 DEF Joined, Ready, Unanswered, PeerTypes, SeenTypes, HandlerTypes
  <2>2. RunTypes' /\ FlagTypes'
      BY <1>0, <1>16 DEF Joined, Ready, Unanswered, RunTypes, FlagTypes
  <2>3. SleepBook' /\ IdleGoalBook' /\ EndBook' /\ HandlerBook'
      BY <1>0, <1>16 DEF Joined, Ready, Unanswered, SleepBook, IdleGoalBook, EndBook,
         HandlerBook, Busy
  <2>4. WayBook'
    <3>1. SomeWay => SomeWay'  BY <1>16 DEF Joined, SomeWay, Way
    <3> QED BY <1>0, <1>16, <3>1 DEF Joined, WayBook
  <2>5. CallsBook'
      BY <1>0, <1>16 DEF Joined, Ready, Unanswered, CallsBook
  <2>6. OneVerification' /\ CompleteIsQuiet' /\ NoFalseReject' /\ NoMissedSignal'
      BY <1>0, <1>16 DEF Joined, Ready, Unanswered, OneVerification, CompleteIsQuiet,
         HandlerBook, NoFalseReject, NoMissedSignal
  <2> QED BY <2>1, <2>2, <2>3, <2>4, <2>5, <2>6 DEF NativeIInv
<1>17. CASE JoinTimesOut
  <2>1. PeerTypes' /\ SeenTypes' /\ HandlerTypes'
      BY <1>0, <1>17 DEF JoinTimesOut, PeerTypes, SeenTypes, HandlerTypes
  <2>2. RunTypes' /\ FlagTypes'
      BY <1>0, <1>17 DEF JoinTimesOut, RunTypes, FlagTypes
  <2>3. SleepBook' /\ IdleGoalBook' /\ EndBook' /\ HandlerBook'
      BY <1>0, <1>17 DEF JoinTimesOut, SleepBook, IdleGoalBook, EndBook, Unanswered,
         HandlerBook, Busy
  <2>4. WayBook'
      BY <1>0, <1>17 DEF JoinTimesOut, WayBook, SomeWay, Way
  <2>5. CallsBook'
      BY <1>0, <1>17 DEF JoinTimesOut, CallsBook, Unanswered
  <2>6. OneVerification' /\ CompleteIsQuiet' /\ NoFalseReject' /\ NoMissedSignal'
      BY <1>0, <1>17 DEF JoinTimesOut, OneVerification, CompleteIsQuiet, Ready,
         NoFalseReject, NoMissedSignal
  <2> QED BY <2>1, <2>2, <2>3, <2>4, <2>5, <2>6 DEF NativeIInv
<1>18. ASSUME NEW c \in ToolCalls, Bind(c) PROVE NativeIInv'
  <2>0. /\ tool' \in [ToolCalls -> ToolStates] /\ toolTurn' \in [ToolCalls -> 0..MaxTurns]
        /\ \A d \in ToolCalls \ {c} : tool'[d] = tool[d] /\ toolTurn'[d] = toolTurn[d]
        /\ \/ tool'[c] = "rejected" /\ Fails("rejected") /\ signal /\ UNCHANGED verifying
           \/ tool'[c] = "verify" /\ verifying' = TRUE /\ ~verifying /\ signal /\ UNCHANGED failure
              /\ failure = "nil"
           \/ /\ tool'[c] = "wait" /\ toolTurn'[c] = toolTurn[c] /\ active # toolTurn[c] /\ failure = "nil"
              /\ asleep' = asleep \cup {c} /\ UNCHANGED <<failure, verifying>>
        BY <1>0, <1>18, GoesEffect DEF Bind, BindRound, reject, ToolStates
  <2>1. PeerTypes' /\ SeenTypes' /\ HandlerTypes'
      BY <1>0, <1>18, <2>0 DEF Bind, BindRound, reject, Fails, signal, PeerTypes,
         SeenTypes, HandlerTypes
  <2>2. RunTypes' /\ FlagTypes'
      BY <1>0, <1>18, <2>0 DEF Bind, BindRound, reject, Fails, signal, RunTypes, FlagTypes
  <2>3. SleepBook'
      BY <1>0, <1>18, <2>0 DEF Bind, BindRound, SleepBook, signal
  <2>4. HandlerBook'
    <3>1. CASE tool'[c] = "rejected" /\ Fails("rejected") /\ UNCHANGED verifying
          BY <1>0, <1>18, <2>0, <3>1 DEF Bind, BindRound, HandlerBook, Busy, Fails
    <3>2. CASE tool'[c] = "verify" /\ verifying' = TRUE /\ UNCHANGED failure
          BY <1>0, <1>18, <2>0, <3>2 DEF HandlerBook, Busy
    <3>3. CASE tool'[c] = "wait" /\ UNCHANGED <<failure, verifying>>
          BY <1>0, <1>18, <2>0, <3>3 DEF Bind, BindRound, HandlerBook, Busy
    <3> QED BY <2>0, <3>1, <3>2, <3>3
  <2>5. IdleGoalBook' /\ EndBook'
      BY <1>0, <1>18, <2>0 DEF Bind, BindRound, reject, Fails, signal, IdleGoalBook,
         EndBook, Unanswered
  <2>6. WayBook'
      BY <1>0, <1>18, <2>0 DEF Bind, BindRound, reject, Fails, signal, WayBook, SomeWay,
         Way
  <2>7. CallsBook'
      BY <1>0, <1>18, <2>0 DEF Bind, BindRound, reject, Fails, signal, CallsBook,
         Unanswered
  <2>8. OneVerification'
      BY <1>0, <2>0 DEF OneVerification, HandlerBook, Busy
  <2>9. NoFalseReject'
    <3> SUFFICES ASSUME orderly, ~slow, ~ended, ~broken, outcome # "failed", failure = "nil",
                        failure' = "rejected"
                 PROVE  FALSE
        BY <1>0, <1>18, <2>0 DEF Bind, BindRound, NoFalseReject, Fails
    <3>1. Unanswered(c)  BY <1>18 DEF Bind, BindRound, Unanswered
    <3>2. known /\ toolTurn[c] # 0  BY <1>0, <1>18, <3>1 DEF Bind, BindRound, CallsBook
    <3>3. outcome # "complete"  BY <1>0, <3>1 DEF CallsBook
    <3>4. ~CallEnded  BY <1>0, <3>3 DEF CallEnded, EndBook, RunTypes
    <3>5. ~verifying
      <4> SUFFICES ASSUME verifying PROVE FALSE
          OBVIOUS
      <4>1. PICK d \in ToolCalls : tool[d] \in Busy  BY <1>0 DEF HandlerBook
      <4>2. Unanswered(d)  BY <4>1 DEF Busy, Unanswered
      <4>3. c = d  BY <1>0, <3>1, <4>2 DEF CallsBook
      <4> QED BY <1>18, <4>1, <4>3 DEF Bind, BindRound, Busy
    <3> QED BY <1>18, <3>2, <3>4, <3>5 DEF Bind, BindRound
  <2>10. CompleteIsQuiet' /\ NoMissedSignal'
      BY <1>0, <1>18, <2>0 DEF Bind, BindRound, reject, Fails, signal, CompleteIsQuiet,
         Ready, NoMissedSignal
  <2> QED BY <2>1, <2>2, <2>3, <2>4, <2>5, <2>6, <2>7, <2>8, <2>9, <2>10 DEF NativeIInv
<1>19. ASSUME NEW c \in ToolCalls, Wake(c) PROVE NativeIInv'
  <2>0. /\ tool' \in [ToolCalls -> ToolStates] /\ toolTurn' \in [ToolCalls -> 0..MaxTurns]
        /\ tool'[c] = "bind"
        /\ \A d \in ToolCalls \ {c} : tool'[d] = tool[d] /\ toolTurn'[d] = toolTurn[d]
        /\ toolTurn'[c] = toolTurn[c]
        BY <1>0, <1>19, GoesEffect DEF Wake, ToolStates
  <2>1. PeerTypes' /\ SeenTypes' /\ HandlerTypes'
      BY <1>0, <1>19, <2>0 DEF Wake, PeerTypes, SeenTypes, HandlerTypes
  <2>2. RunTypes' /\ FlagTypes'
      BY <1>0, <1>19, <2>0 DEF Wake, RunTypes, FlagTypes
  <2>3. SleepBook' /\ IdleGoalBook' /\ EndBook' /\ HandlerBook'
      BY <1>0, <1>19, <2>0 DEF Wake, SleepBook, IdleGoalBook, EndBook, Unanswered,
         HandlerBook, Busy
  <2>4. WayBook'
      BY <1>0, <1>19, <2>0 DEF Wake, WayBook, SomeWay, Way
  <2>5. CallsBook'
      BY <1>0, <1>19, <2>0 DEF Wake, CallsBook, Unanswered
  <2>6. OneVerification' /\ CompleteIsQuiet' /\ NoFalseReject' /\ NoMissedSignal'
      BY <1>0, <1>19, <2>0 DEF Wake, OneVerification, CompleteIsQuiet, Ready,
         NoFalseReject, NoMissedSignal
  <2> QED BY <2>1, <2>2, <2>3, <2>4, <2>5, <2>6 DEF NativeIInv
<1>20. ASSUME NEW c \in ToolCalls, BindEnds(c) PROVE NativeIInv'
  <2>0. /\ tool' \in [ToolCalls -> ToolStates] /\ toolTurn' \in [ToolCalls -> 0..MaxTurns]
        /\ tool'[c] = "rejected"
        /\ \A d \in ToolCalls \ {c} : tool'[d] = tool[d] /\ toolTurn'[d] = toolTurn[d]
        BY <1>0, <1>20, GoesEffect DEF BindEnds, reject, ToolStates
  <2>1. PeerTypes' /\ SeenTypes' /\ HandlerTypes'
      BY <1>0, <1>20, <2>0 DEF BindEnds, reject, Fails, signal, PeerTypes, SeenTypes,
         HandlerTypes
  <2>2. RunTypes' /\ FlagTypes'
      BY <1>0, <1>20, <2>0 DEF BindEnds, reject, Fails, signal, RunTypes, FlagTypes
  <2>3. SleepBook' /\ IdleGoalBook' /\ EndBook' /\ HandlerBook'
      BY <1>0, <1>20, <2>0 DEF BindEnds, reject, Fails, signal, SleepBook, IdleGoalBook,
         EndBook, Unanswered, HandlerBook, Busy
  <2>4. WayBook'
      BY <1>0, <1>20, <2>0 DEF BindEnds, reject, Fails, signal, WayBook, SomeWay, Way
  <2>5. CallsBook'
      BY <1>0, <1>20, <2>0 DEF BindEnds, reject, Fails, signal, CallsBook, Unanswered
  <2>6. NoFalseReject'
    <3> SUFFICES ASSUME orderly, ~slow', ~ended, ~broken, outcome # "failed"
                 PROVE  FALSE
        BY <1>20 DEF BindEnds, NoFalseReject
    <3>1. CallEnded  BY <1>20 DEF BindEnds
    <3>2. outcome = "complete"  BY <1>0, <3>1 DEF CallEnded, EndBook, RunTypes
    <3> QED BY <1>0, <1>20, <3>2 DEF BindEnds, CallsBook, Unanswered
  <2>7. OneVerification' /\ CompleteIsQuiet' /\ NoMissedSignal'
      BY <1>0, <1>20, <2>0 DEF BindEnds, reject, Fails, signal, OneVerification,
         CompleteIsQuiet, Ready, NoMissedSignal
  <2> QED BY <2>1, <2>2, <2>3, <2>4, <2>5, <2>6, <2>7 DEF NativeIInv
<1>21. ASSUME NEW c \in ToolCalls, NEW p \in BOOLEAN, Verified(c, p) PROVE NativeIInv'
  <2>0. /\ tool' \in [ToolCalls -> ToolStates] /\ toolTurn' \in [ToolCalls -> 0..MaxTurns]
        /\ tool'[c] = "leave"
        /\ \A d \in ToolCalls \ {c} : tool'[d] = tool[d] /\ toolTurn'[d] = toolTurn[d]
        BY <1>0, <1>21, GoesEffect DEF Verified, ToolStates
  <2>1. PeerTypes' /\ SeenTypes' /\ HandlerTypes'
      BY <1>0, <1>21, <2>0 DEF Verified, Fails, signal, PeerTypes, SeenTypes, HandlerTypes
  <2>2. RunTypes' /\ FlagTypes'
      BY <1>0, <1>21, <2>0 DEF Verified, Fails, signal, RunTypes, FlagTypes
  <2>3. SleepBook' /\ IdleGoalBook' /\ EndBook' /\ HandlerBook'
      BY <1>0, <1>21, <2>0 DEF Verified, Fails, signal, SleepBook, IdleGoalBook, EndBook,
         Unanswered, HandlerBook, Busy
  <2>4. WayBook'
      BY <1>0, <1>21, <2>0 DEF Verified, Fails, signal, WayBook, SomeWay, Way
  <2>5. CallsBook'
      BY <1>0, <1>21, <2>0 DEF Verified, Fails, signal, CallsBook, Unanswered
  <2>6. OneVerification' /\ CompleteIsQuiet' /\ NoFalseReject' /\ NoMissedSignal'
      BY <1>0, <1>21, <2>0 DEF Verified, Fails, signal, OneVerification, CompleteIsQuiet,
         Ready, NoFalseReject, NoMissedSignal, SleepBook
  <2> QED BY <2>1, <2>2, <2>3, <2>4, <2>5, <2>6 DEF NativeIInv
<1>22. ASSUME NEW c \in ToolCalls, Leave(c) PROVE NativeIInv'
  <2>0. /\ tool' \in [ToolCalls -> ToolStates] /\ toolTurn' \in [ToolCalls -> 0..MaxTurns]
        /\ tool'[c] = "done"
        /\ \A d \in ToolCalls \ {c} : tool'[d] = tool[d] /\ toolTurn'[d] = toolTurn[d]
        BY <1>0, <1>22, GoesEffect DEF Leave, ToolStates
  <2>1. PeerTypes' /\ SeenTypes' /\ HandlerTypes'
      BY <1>0, <1>22, <2>0 DEF Leave, signal, PeerTypes, SeenTypes, HandlerTypes
  <2>2. RunTypes' /\ FlagTypes'
      BY <1>0, <1>22, <2>0 DEF Leave, signal, RunTypes, FlagTypes
  <2>3. SleepBook' /\ IdleGoalBook' /\ EndBook' /\ HandlerBook'
      BY <1>0, <1>22, <2>0 DEF Leave, signal, SleepBook, IdleGoalBook, EndBook,
         Unanswered, HandlerBook, Busy, OneVerification
  <2>4. WayBook'
      BY <1>0, <1>22, <2>0 DEF Leave, signal, WayBook, SomeWay, Way
  <2>5. CallsBook'
      BY <1>0, <1>22, <2>0 DEF Leave, signal, CallsBook, Unanswered
  <2>6. OneVerification' /\ CompleteIsQuiet' /\ NoFalseReject' /\ NoMissedSignal'
      BY <1>0, <1>22, <2>0 DEF Leave, signal, OneVerification, CompleteIsQuiet, Ready,
         NoFalseReject, NoMissedSignal
  <2> QED BY <2>1, <2>2, <2>3, <2>4, <2>5, <2>6 DEF NativeIInv
<1>23. CASE UNCHANGED nativeVars
  <2>1. PeerTypes' /\ SeenTypes' /\ HandlerTypes'
      BY <1>0, <1>23 DEF nativeVars, PeerTypes, SeenTypes, HandlerTypes
  <2>2. RunTypes' /\ FlagTypes'
      BY <1>0, <1>23 DEF nativeVars, RunTypes, FlagTypes
  <2>3. SleepBook' /\ IdleGoalBook' /\ EndBook' /\ HandlerBook'
      BY <1>0, <1>23 DEF nativeVars, SleepBook, IdleGoalBook, EndBook, Unanswered,
         HandlerBook, Busy
  <2>4. WayBook'
      BY <1>0, <1>23 DEF nativeVars, WayBook, SomeWay, Way
  <2>5. CallsBook'
      BY <1>0, <1>23 DEF nativeVars, CallsBook, Unanswered
  <2>6. OneVerification' /\ CompleteIsQuiet' /\ NoFalseReject' /\ NoMissedSignal'
      BY <1>0, <1>23 DEF nativeVars, OneVerification, CompleteIsQuiet, Ready,
         NoFalseReject, NoMissedSignal
  <2> QED BY <2>1, <2>2, <2>3, <2>4, <2>5, <2>6 DEF NativeIInv
<1> QED BY <1>1, <1>2, <1>3, <1>4, <1>5, <1>6, <1>7, <1>8, <1>9, <1>10, <1>11, <1>12, <1>13, <1>14, <1>15, <1>16, <1>17, <1>18, <1>19, <1>20, <1>21, <1>22, <1>23 DEF NativeNext, Loop, Handler

\* RunGoal verifies one tool call at a time, refuses no call of an orderly peer, misses
\* no change of what it sleeps on, and reports a goal complete only when it is and
\* nothing is at work any more, for any number of calls, turns and notifications and
\* every interleaving of the dispatcher, the handlers and RunGoal.
THEOREM NativeIsSound == NativeSpec => []NativeSound
<1>1. NativeInit => NativeIInv
  <2> SUFFICES ASSUME NativeInit PROVE NativeIInv
      OBVIOUS
  <2> USE GoalRunAssumption DEF NativeInit
  <2>1. PeerTypes
    <3>1. lag \in Seq(Events) /\ Len(lag) = 0
      <4> HIDE DEF Events
      <4> QED BY DEF NativeInit
    <3> QED BY <3>1 DEF PeerTypes, Statuses
  <2>7. SeenTypes
    <3>1. active \in 0..MaxTurns  OBVIOUS
    <3> QED BY <3>1 DEF SeenTypes
  <2>9. RunTypes /\ FlagTypes  BY DEF RunTypes, FlagTypes
  <2>8. HandlerTypes  BY DEF HandlerTypes, ToolStates
  <2>0. SleepBook  BY DEF SleepBook
  <2>2. IdleGoalBook /\ EndBook  BY DEF IdleGoalBook, EndBook
  <2>3. HandlerBook   BY DEF HandlerBook, Busy
  <2>4. WayBook
    <3>1. SomeWay  BY EmptyWay
    <3> QED BY <3>1 DEF WayBook
  <2>5. CallsBook     BY DEF CallsBook, Unanswered
  <2>6. OneVerification /\ CompleteIsQuiet /\ NoFalseReject /\ NoMissedSignal
        BY DEF OneVerification, CompleteIsQuiet, NoFalseReject, NoMissedSignal
  <2> QED BY <2>0, <2>1, <2>2, <2>3, <2>4, <2>5, <2>6, <2>7, <2>8, <2>9 DEF NativeIInv
<1>2. NativeIInv => NativeSound
  <2> SUFFICES ASSUME NativeIInv PROVE NativeSound
      OBVIOUS
  <2>1. asleep \subseteq {c \in ToolCalls : tool[c] = "wait"} \cup {l \in {"loop"} : goalRun = "select"}
        BY DEF NativeIInv, SleepBook
  <2> QED BY <2>1 DEF NativeIInv, NativeSound, NativeTypeOK, PeerTypes, SeenTypes, HandlerTypes,
         RunTypes, FlagTypes, ToolStates
<1> QED BY <1>1, <1>2, NativeStep, PTL DEF NativeSpec
=============================================================================
