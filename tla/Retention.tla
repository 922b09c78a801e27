------------------------------ MODULE Retention ------------------------------
(***************************************************************************)
(* The notification retention budget of one client. Every notification,    *)
(* diagnostic and attachment key the SDK keeps is charged to a lease; a    *)
(* lease is shared by the structures that hold its value, counts them in   *)
(* refs, and gives its charge back when the last one releases it. Owners   *)
(* take over, share and release leases in the reader, the dispatcher, the  *)
(* goroutine that attaches a run, failAll, and the garbage collector.      *)
(*                                                                         *)
(* One thread, one turn and one run; a second run that is refused on the   *)
(* same thread appears only by the key its response retains. The charge    *)
(* is the count dimension (bytes are treated alike by the code).           *)
(***************************************************************************)
EXTENDS Integers, FiniteSets

CONSTANTS Limit,       \* MaxCount
          MaxFrames,   \* bound: notifications the peer sends
          QueueSize    \* NotificationQueueCapacity

ASSUME BudgetAssumption == Limit \in Nat \ {0}
ASSUME FrameAssumption == MaxFrames \in Nat /\ QueueSize \in Nat \ {0}

VARIABLES
  refs,      \* refs of each lease
  cost,      \* count of each lease
  used,      \* count of the budget
  hold,      \* the leases each structure or goroutine holds
  resolved,  \* pended notifications whose evidence.once is done
  run,       \* the run's registration with the client
  turnKnown, \* the run's turnID is set
  frozen,    \* terminalAdmitted
  over,      \* terminal
  att,       \* the goroutine in StartStream
  rcv,       \* the reader
  shutting,  \* c.closed
  fail,      \* failAll
  dropped,   \* the application holds the Stream no more, and it was collected
  frames,    \* notifications sent so far
  arms       \* thread responses so far

leaseVars == <<refs, cost, used, hold>>
entryVars == <<run, turnKnown, frozen, over>>
retentionVars == <<leaseVars, resolved, entryVars, att, rcv, shutting, fail, dropped,
                   frames, arms>>

\* A charge is at least one, so no more leases than that are alive.
Leases == 1..Limit

\* Who can hold a lease: structures of the client, the run's retentionOwners,
\* and the local variables of the goroutines that took some over.
Places == {"queue", "dispatch", "threadKey", "turnKey", "threadPending",
           "turnPending", "diagnostic", "replaying", "history", "reader",
           "register", "attachDiag", "failPending", "failReplay",
           "failDiag"}

\* The charge of a set of leases: the units they hold together, at most four each.
Units(S) == {u \in S \X (1..4) : u[2] <= cost[u[1]]}
Charge(S) == Cardinality(Units(S))
Alive == {l \in Leases : refs[l] > 0}

RetentionTypeOK ==
  /\ refs \in [Leases -> 0..3]
  /\ cost \in [Leases -> 0..4]
  /\ used \in 0..Limit
  /\ hold \in [Places -> SUBSET Leases]
  /\ resolved \subseteq Leases
  /\ run \in {"none", "attaching", "live", "gone"}
  /\ turnKnown \in BOOLEAN /\ frozen \in BOOLEAN /\ over \in BOOLEAN
  /\ att \in {"idle", "thread", "registering", "calling", "answered", "attach",
              "replay", "diags", "failing", "finishing", "done"}
  /\ rcv \in {"read", "accept", "release", "enqueue", "fail"}
  /\ shutting \in BOOLEAN
  /\ fail \in {"none", "claimed", "resolve", "diags", "done"}
  /\ dropped \in BOOLEAN
  /\ frames \in 0..MaxFrames
  /\ arms \in 0..2

RetentionInit ==
  /\ refs = [l \in Leases |-> 0]
  /\ cost = [l \in Leases |-> 0]
  /\ used = 0
  /\ hold = [p \in Places |-> {}]
  /\ resolved = {}
  /\ run = "none"
  /\ turnKnown = FALSE /\ frozen = FALSE /\ over = FALSE
  /\ att = "idle"
  /\ rcv = "read"
  /\ shutting = FALSE
  /\ fail = "none"
  /\ dropped = FALSE
  /\ frames = 0
  /\ arms = 0

-----------------------------------------------------------------------------
(* Leases.                                                                 *)

\* Mutant: off by one at the limit.
FitsBarely(n) == n <= Limit - used + 1

\* reserve(n): refused when the budget cannot take it.
Fits(n) == n <= Limit - used
Fresh == CHOOSE l \in Leases : refs[l] = 0

\* The new lease goes to place p, and l also to the places in more.
Reserve(n, p, more) ==
  /\ Fits(n)
  /\ refs' = [refs EXCEPT ![Fresh] = 1 + Cardinality(more)]
  /\ cost' = [cost EXCEPT ![Fresh] = n]
  /\ used' = used + n
  /\ hold' = [q \in Places |-> IF q = p \/ q \in more THEN hold[q] \cup {Fresh}
                                                      ELSE hold[q]]

\* Releases by the places in P of all they hold: each release decrements refs,
\* and the last one gives the charge back. Places of one goroutine release in
\* one step: the single decrements commute with everything else.
Releases(P, l) == Cardinality({p \in P : l \in hold[p]})
Left(P, l) == refs[l] - Releases(P, l)
\* Mutant: the last release keeps the charge.
ReleaseAllCharged(P) ==
  /\ refs' = [l \in Leases |-> Left(P, l)]
  /\ cost' = [l \in Leases |-> IF Left(P, l) = 0 THEN 0 ELSE cost[l]]
  /\ UNCHANGED used

ReleaseAll(P) ==
  /\ refs' = [l \in Leases |-> Left(P, l)]
  /\ used' = used - Charge({l \in Alive : Left(P, l) = 0})
  /\ cost' = [l \in Leases |-> IF Left(P, l) = 0 THEN 0 ELSE cost[l]]

\* Releases by the places in P together with hand-overs from one place to
\* another, in one critical section of turnMu.
HandOver(P, from, to) ==
  /\ ReleaseAll(P)
  /\ hold' = [p \in Places |->
                IF p \in P \/ p \in from THEN {}
                ELSE hold[p] \cup UNION {hold[f] : f \in {g \in from : to[g] = p}}]

\* The run takes the lease l into its history (retentionOwners.add), for a
\* notification unless it has ended; t: the notification is turn/completed.
Added(l) ==
  /\ refs' = [refs EXCEPT ![l] = @ + 1]
  /\ hold' = [hold EXCEPT !["history"] = @ \cup {l}]
  /\ UNCHANGED <<cost, used>>

Accepted(l, t) ==
  IF over \/ frozen
    THEN UNCHANGED <<leaseVars, frozen>>
    ELSE Added(l) /\ frozen' = t

\* resolveEvidence by the goroutine that holds l in p and drops it after.
ResolvedAndDropped(l, p, t) ==
  LET adds == l \notin resolved /\ ~over /\ ~frozen
      left == IF adds THEN refs[l] ELSE refs[l] - 1
  IN /\ resolved' = resolved \cup {l}
     /\ refs' = [refs EXCEPT ![l] = left]
     /\ used' = IF left = 0 THEN used - cost[l] ELSE used
     /\ cost' = [cost EXCEPT ![l] = IF left = 0 THEN 0 ELSE @]
     /\ hold' = [hold EXCEPT ![p] = @ \ {l},
                             !["history"] = IF adds THEN @ \cup {l} ELSE @]
     /\ frozen' = IF adds THEN t ELSE frozen

\* finish: the run ends and leaves the client's tables.
Finished == over' = TRUE /\ run' = IF run = "none" THEN run ELSE "gone"

Targeted == run = "live" \/ (run = "attaching" /\ turnKnown)

\* The order mutex of the run, which replay and finishing hold throughout.
OrderFree == att \notin {"attach", "replay", "diags", "finishing"}

-----------------------------------------------------------------------------
(* The reader.                                                             *)

\* thread/start or thread/resume is answered: armThreadAttach keeps the key,
\* once. The second response belongs to a run that registration will refuse.
ArmThread ==
  /\ rcv = "read" /\ ~shutting
  /\ arms < 2
  /\ arms = 1 => run \in {"none", "attaching"}
  /\ arms' = arms + 1
  /\ att' = IF arms = 0 THEN "thread" ELSE att
  /\ \/ /\ hold["threadKey"] # {}
        /\ UNCHANGED <<leaseVars, rcv>>
     \/ /\ hold["threadKey"] = {}
        /\ Reserve(1, "threadKey", {})
        /\ UNCHANGED rcv
     \/ /\ hold["threadKey"] = {} /\ ~Fits(1)
        /\ rcv' = "fail"
        /\ UNCHANGED leaseVars
  /\ UNCHANGED <<resolved, entryVars, shutting, fail, dropped, frames>>

\* turn/start is answered: armTurnAttach, then the response is passed on.
ArmTurn ==
  /\ rcv = "read" /\ ~shutting
  /\ att = "calling"
  /\ \/ /\ Reserve(1, "turnKey", {})
        /\ att' = "answered"
        /\ UNCHANGED rcv
     \/ /\ ~Fits(1)
        /\ att' = "failing" /\ rcv' = "fail"
        /\ UNCHANGED leaseVars
  /\ UNCHANGED <<resolved, entryVars, shutting, fail, dropped, frames, arms>>

\* routeExactNotification for a thread notification: the run if it is
\* registered, otherwise the armed thread's pending list.
ReadThread ==
  /\ rcv = "read" /\ ~shutting
  /\ frames < MaxFrames
  /\ frames' = frames + 1
  /\ \/ /\ run \in {"attaching", "live"}
        /\ rcv' = "accept"
        /\ UNCHANGED leaseVars
     \/ /\ run \notin {"attaching", "live"} /\ hold["threadKey"] # {}
        /\ Reserve(3, "threadPending", {})
        /\ rcv' = "enqueue"
     \/ /\ run \notin {"attaching", "live"} /\ hold["threadKey"] # {} /\ ~Fits(3)
        /\ rcv' = "fail"
        /\ UNCHANGED leaseVars
     \/ /\ run \notin {"attaching", "live"} /\ hold["threadKey"] = {}
        /\ rcv' = "enqueue"
        /\ UNCHANGED leaseVars
  /\ UNCHANGED <<resolved, entryVars, att, shutting, fail, dropped, arms>>

\* routeExactNotification for a turn notification: the run if its turn is
\* known, otherwise the pending events of the armed turn.
ReadTurn ==
  /\ rcv = "read" /\ ~shutting
  /\ frames < MaxFrames
  /\ frames' = frames + 1
  /\ \/ /\ Targeted
        /\ rcv' = "accept"
        /\ UNCHANGED <<leaseVars, resolved>>
     \/ /\ ~Targeted /\ hold["turnKey"] # {}
        /\ Reserve(4, "turnPending", {})
        /\ resolved' = resolved \ {Fresh}
        /\ rcv' = "enqueue"
     \/ /\ ~Targeted /\ hold["turnKey"] # {} /\ ~Fits(4)
        /\ rcv' = "fail"
        /\ UNCHANGED <<leaseVars, resolved>>
     \/ /\ ~Targeted /\ hold["turnKey"] = {}
        /\ rcv' = "enqueue"
        /\ UNCHANGED <<leaseVars, resolved>>
  /\ UNCHANGED <<entryVars, att, shutting, fail, dropped, arms>>

\* acceptOrderedBeforeTerminalCompletion: reserve and add inside the run's
\* mutex, release after it.
AcceptLive(t) ==
  /\ rcv = "accept"
  /\ OrderFree
  /\ \/ /\ over \/ frozen
        /\ rcv' = "enqueue"
        /\ UNCHANGED <<leaseVars, frozen>>
     \/ /\ ~over /\ ~frozen
        /\ Reserve(3, "reader", {"history"})
        /\ rcv' = "release"
        /\ frozen' = t
     \/ /\ ~over /\ ~frozen /\ ~Fits(3)
        /\ rcv' = "fail"
        /\ UNCHANGED <<leaseVars, frozen>>
  /\ UNCHANGED <<resolved, run, turnKnown, over, att, shutting, fail, dropped, frames,
                 arms>>

ReaderReleases ==
  /\ rcv = "release"
  /\ HandOver({"reader"}, {}, <<>>)
  /\ rcv' = "enqueue"
  /\ UNCHANGED <<resolved, entryVars, att, shutting, fail, dropped, frames, arms>>

\* enqueueAcceptedNotification: closed admission drops the entry, a refused
\* charge or a full queue fails the client and keeps no charge.
Enqueue ==
  /\ rcv = "enqueue"
  /\ \/ /\ shutting
        /\ rcv' = "read"
        /\ UNCHANGED leaseVars
     \/ /\ ~shutting /\ Cardinality(hold["queue"]) < QueueSize
        /\ Reserve(1, "queue", {})
        /\ rcv' = "read"
     \/ /\ ~shutting
        /\ ~Fits(1) \/ Cardinality(hold["queue"]) = QueueSize
        /\ rcv' = "fail"
        /\ UNCHANGED leaseVars
  /\ UNCHANGED <<resolved, entryVars, att, shutting, fail, dropped, frames, arms>>

\* routeExactNotificationError: an undecodable notification leaves a diagnostic
\* with the run that has its turn or attaches on its thread; otherwise, also
\* when it names another thread, the diagnostic is kept for the turn. Either
\* way the client fails.
ReadBad ==
  /\ rcv = "read" /\ ~shutting
  /\ frames < MaxFrames
  /\ frames' = frames + 1
  /\ rcv' = "fail"
  /\ \/ /\ run \in {"attaching", "live"} /\ OrderFree /\ ~over
        /\ Reserve(1, "history", {})
     \/ /\ run # "live"
        /\ Reserve(1, "diagnostic", {})
     \/ /\ ~Fits(1)
        /\ UNCHANGED leaseVars
  /\ UNCHANGED <<resolved, entryVars, att, shutting, fail, dropped, arms>>

\* failClient, by the reader.
ReaderFails ==
  /\ rcv = "fail"
  /\ rcv' = "read"
  /\ shutting' = TRUE
  /\ fail' = IF shutting THEN fail ELSE "claimed"
  /\ UNCHANGED <<leaseVars, resolved, entryVars, att, dropped, frames, arms>>

-----------------------------------------------------------------------------
(* The dispatcher, and the application.                                    *)

Dispatch(l) ==
  /\ hold["dispatch"] = {}
  /\ l \in hold["queue"]
  /\ hold' = [hold EXCEPT !["queue"] = @ \ {l}, !["dispatch"] = {l}]
  /\ UNCHANGED <<refs, cost, used, resolved, entryVars, att, rcv, shutting, fail,
                 dropped, frames, arms>>

\* releaseDispatchWaiter when the callback returned, or without a callback.
DispatchDone ==
  /\ hold["dispatch"] # {}
  /\ HandOver({"dispatch"}, {}, <<>>)
  /\ UNCHANGED <<resolved, entryVars, att, rcv, shutting, fail, dropped, frames, arms>>

\* discardAcceptedNotifications
Discard ==
  /\ shutting
  /\ hold["queue"] # {}
  /\ HandOver({"queue"}, {}, <<>>)
  /\ UNCHANGED <<resolved, entryVars, att, rcv, shutting, fail, dropped, frames, arms>>

CloseClient ==
  /\ att # "idle"
  /\ ~shutting
  /\ shutting' = TRUE
  /\ fail' = "claimed"
  /\ UNCHANGED <<leaseVars, resolved, entryVars, att, rcv, dropped, frames, arms>>

\* The run ends by its terminal notification, by Close of the Stream once it
\* was handed out, or by a failing server request.
EndRun ==
  /\ run \in {"attaching", "live"} /\ ~over
  /\ Finished
  /\ UNCHANGED <<leaseVars, resolved, turnKnown, frozen, att, rcv, shutting, fail,
                 dropped, frames, arms>>

\* The cleanup of installRunRetention: nothing refers to the ended run, neither
\* the application nor a pended notification nor a goroutine.
CollectRun ==
  /\ att = "done" /\ over /\ ~dropped
  /\ run # "attaching" /\ run # "live"
  /\ rcv # "accept" /\ fail \notin {"resolve", "diags"}
  /\ \A p \in {"turnPending", "replaying"} : hold[p] = {}
  /\ dropped' = TRUE
  /\ HandOver({"history"}, {}, <<>>)
  /\ UNCHANGED <<resolved, entryVars, att, rcv, shutting, fail, frames, arms>>

-----------------------------------------------------------------------------
(* StartStream.                                                            *)

\* registerAttachingExactStream takes over what was saved for the thread.
Register ==
  /\ att = "thread"
  /\ \/ /\ shutting
        /\ att' = "done" /\ over' = TRUE
        /\ UNCHANGED <<leaseVars, run>>
     \/ /\ ~shutting
        /\ att' = "registering" /\ run' = "attaching"
        /\ HandOver({"threadKey"}, {"threadPending"},
                    [f \in {"threadPending"} |-> "register"])
        /\ UNCHANGED over
  /\ UNCHANGED <<resolved, turnKnown, frozen, rcv, shutting, fail, dropped, frames, arms>>

RegisterAccepts(l) ==
  /\ att = "registering"
  /\ l \in hold["register"] \ hold["history"]
  /\ ~over /\ ~frozen
  /\ Added(l)
  /\ UNCHANGED <<resolved, run, turnKnown, frozen, over, att, rcv, shutting, fail, dropped,
                 frames, arms>>

Registered ==
  /\ att = "registering"
  /\ over \/ frozen \/ hold["register"] \subseteq hold["history"]
  /\ HandOver({"register"}, {}, <<>>)
  /\ att' = "calling"
  /\ UNCHANGED <<resolved, entryVars, rcv, shutting, fail, dropped, frames, arms>>

\* Mutant: turn/start is given up after its response was armed.
TurnFailsArmed ==
  /\ att \in {"calling", "answered"}
  /\ att' = "failing"
  /\ UNCHANGED <<leaseVars, resolved, entryVars, rcv, shutting, fail, dropped, frames, arms>>

\* The continuation is refused, or turn/start fails, as it does when the
\* client closes: finishAttachingExactStream. The response was validated before
\* anything was armed for it (CleanFailure), so the pended notifications and the
\* key that function would settle do not exist.
TurnFails ==
  /\ att = "calling"
  /\ att' = "failing"
  /\ UNCHANGED <<leaseVars, resolved, entryVars, rcv, shutting, fail, dropped, frames, arms>>

FinishTakes ==
  /\ att = "failing"
  /\ att' = "finishing"
  /\ run' = "gone"
  /\ UNCHANGED <<leaseVars, resolved, turnKnown, frozen, over, rcv, shutting, fail,
                 dropped, frames, arms>>

FinishDone ==
  /\ att = "finishing"
  /\ att' = "done"
  /\ Finished
  /\ UNCHANGED <<leaseVars, resolved, turnKnown, frozen, rcv, shutting, fail, dropped,
                 frames, arms>>

\* attachExactStreamForTurn: the order mutex and the turn, then the tables.
SetTurn ==
  /\ att = "answered"
  /\ att' = "attach"
  /\ turnKnown' = TRUE
  /\ UNCHANGED <<leaseVars, resolved, run, frozen, over, rcv, shutting, fail, dropped,
                 frames, arms>>

\* attachExactStreamLocked: a run that ended meanwhile gives back only its key.
Attach ==
  /\ att = "attach"
  /\ \/ /\ over
        /\ att' = "done" /\ run' = "gone"
        /\ HandOver({"turnKey"}, {}, <<>>)
     \/ /\ ~over
        /\ att' = "replay" /\ run' = "live"
        /\ HandOver({"turnKey"}, {"turnPending", "diagnostic"},
                    [f \in {"turnPending", "diagnostic"} |->
                       IF f = "turnPending" THEN "replaying" ELSE "attachDiag"])
  /\ UNCHANGED <<resolved, turnKnown, frozen, over, rcv, shutting, fail, dropped, frames,
                 arms>>

Replay(l, t) ==
  /\ att = "replay"
  /\ l \in hold["replaying"] \ resolved
  /\ Accepted(l, t)
  /\ resolved' = resolved \cup {l}
  /\ UNCHANGED <<run, turnKnown, over, att, rcv, shutting, fail, dropped, frames, arms>>

\* finishExactPendingReplay
Replayed ==
  /\ att = "replay"
  /\ hold["replaying"] \subseteq resolved
  /\ HandOver({"replaying"}, {}, <<>>)
  /\ att' = "diags"
  /\ UNCHANGED <<resolved, entryVars, rcv, shutting, fail, dropped, frames, arms>>

\* Diagnostics join a run that has not ended; their own lease goes.
Diagnosed(p) ==
  IF over THEN HandOver({p}, {}, <<>>)
  ELSE /\ hold' = [hold EXCEPT ![p] = {}, !["history"] = @ \cup hold[p]]
       /\ UNCHANGED <<refs, cost, used>>

AttachDiagnoses ==
  /\ att = "diags"
  /\ Diagnosed("attachDiag")
  /\ att' = "done"
  /\ UNCHANGED <<resolved, entryVars, rcv, shutting, fail, dropped, frames, arms>>

-----------------------------------------------------------------------------
(* failAll.                                                                *)

\* One critical section of turnMu empties the tables: the leases in the places
\* keys are released, and those a replay is still working on, shares, retained.
FailTakesOver(keys, shares) ==
  /\ fail = "claimed"
  /\ fail' = "resolve"
  /\ refs' = [l \in Leases |-> IF l \in shares THEN refs[l] + 1 ELSE Left(keys, l)]
  /\ used' = used - Charge({l \in Alive : Left(keys, l) = 0})
  /\ cost' = [l \in Leases |-> IF Left(keys, l) = 0 THEN 0 ELSE cost[l]]
  /\ hold' = [p \in Places |->
                CASE p \in keys \cup {"turnPending", "diagnostic"} -> {}
                  [] p = "failPending" -> hold["turnPending"]
                  [] p = "failDiag" -> hold["diagnostic"]
                  [] p = "failReplay" -> hold["replaying"]
                  [] OTHER -> hold[p]]
  /\ UNCHANGED <<resolved, entryVars, att, rcv, shutting, dropped, frames, arms>>

\* Mutants: a replay's leases are used without retaining them; what was saved
\* for a thread is forgotten.
FailTakesUnshared == FailTakesOver({"threadKey", "turnKey", "threadPending"}, {})
FailTakesNotSaved == FailTakesOver({"threadKey", "turnKey"}, hold["replaying"])

FailTakes == FailTakesOver({"threadKey", "turnKey", "threadPending"}, hold["replaying"])

FailResolves(p, l, t) ==
  /\ fail = "resolve"
  /\ l \in hold[p]
  /\ p = "failReplay" => hold["failPending"] = {}
  /\ ResolvedAndDropped(l, p, t)
  /\ UNCHANGED <<run, turnKnown, over, att, rcv, shutting, fail, dropped, frames, arms>>

\* Pending diagnostics go to the runs whose turn is known; then all runs end.
FailDiagnoses ==
  /\ fail = "resolve"
  /\ hold["failPending"] \cup hold["failReplay"] = {}
  /\ fail' = "diags"
  /\ IF turnKnown THEN Diagnosed("failDiag") ELSE HandOver({"failDiag"}, {}, <<>>)
  /\ UNCHANGED <<resolved, entryVars, att, rcv, shutting, dropped, frames, arms>>

FailFinishes ==
  /\ fail = "diags"
  /\ fail' = "done"
  /\ IF run \in {"attaching", "live"} THEN Finished ELSE UNCHANGED <<run, over>>
  /\ UNCHANGED <<leaseVars, resolved, turnKnown, frozen, att, rcv, shutting, dropped,
                 frames, arms>>

-----------------------------------------------------------------------------
Attaching ==
  \/ Register \/ Registered \/ SetTurn \/ Attach \/ Replayed \/ AttachDiagnoses
  \/ FinishTakes \/ FinishDone
  \/ \E l \in Leases : RegisterAccepts(l)
  \/ \E l \in Leases, t \in BOOLEAN : Replay(l, t)

Reading == \/ ReaderReleases \/ Enqueue \/ ReaderFails \/ \E t \in BOOLEAN : AcceptLive(t)

Failing ==
  \/ FailTakes \/ FailDiagnoses \/ FailFinishes
  \/ \E p \in {"failPending", "failReplay"}, l \in Leases, t \in BOOLEAN :
       FailResolves(p, l, t)

RetentionNext ==
  \/ ArmThread \/ ArmTurn \/ ReadThread \/ ReadTurn \/ ReadBad \/ Reading
  \/ (\E l \in Leases : Dispatch(l)) \/ DispatchDone \/ Discard
  \/ CloseClient \/ EndRun \/ CollectRun \/ TurnFails \/ Attaching \/ Failing

RetentionSpec == RetentionInit /\ [][RetentionNext]_retentionVars

-----------------------------------------------------------------------------
(* What the budget promises.                                               *)

\* A lease counts exactly its owners, at every moment and on every path: none
\* is released twice or used after its release (both panic), and none whose
\* owners are gone stays charged.
RefsAreOwners ==
  \A l \in Leases : refs[l] = Cardinality({p \in Places : l \in hold[p]})

\* The budget's count is the charge of the leases alive and within the limit.
ChargeIsExact == used = Charge(Alive) /\ used <= Limit

\* A run whose turn/start failed leaves no key and no pended notification behind
\* (client.go:634 validates, client.go:664 arms): what the reader arms for a run
\* is always taken over by its attachment, or by failAll.
CleanFailure ==
  att \in {"calling", "failing", "finishing"} =>
    hold["turnKey"] = {} /\ hold["turnPending"] = {}

\* Once failAll is through and the goroutines that held leases are done, a
\* closed client has given everything back but the histories of runs the
\* application can still read, and these when their Stream is dropped:
\* "completed histories stay charged until their last SDK cursor becomes
\* unreachable, independently of client closure".
CloseGivesBack ==
  /\ fail = "done" /\ rcv = "read" /\ att \in {"idle", "done"}
  /\ hold["queue"] \cup hold["dispatch"] = {}
  => used = Charge(hold["history"])

\* The budget counts exactly what is owned, and a failed attachment or a close
\* gives back what nobody owns any more.
BudgetSound == RetentionTypeOK /\ RefsAreOwners /\ ChargeIsExact /\ CleanFailure /\ CloseGivesBack
=============================================================================
