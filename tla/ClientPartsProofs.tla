------------------------- MODULE ClientPartsProofs -------------------------
(***************************************************************************)
(* Proofs about three parts of the client that run beside the call table:  *)
(* observing a run, reaping the owned process, answering server requests.  *)
(* The parts share no state; each has an inductive invariant of its own.   *)
(***************************************************************************)
EXTENDS StreamCursors, ProcessReap, ServerReplies, SequenceTheorems, TLAPS

-----------------------------------------------------------------------------
(***************************************************************************)
(* Proofs about StreamCursors, for any readers, waiters and calls of       *)
(* Close, and any number of notifications.                                 *)
(*                                                                         *)
(* WholeHistory is not inductive: a reader that was told the end keeps the *)
(* whole history only because the run is over and accepts nothing more,    *)
(* and EndBeatsContext only because a Wait that met the end once can be    *)
(* nowhere but before its second look or after its answer. CursorBook      *)
(* states these facts; CursorIInv is the inductive invariant.              *)
(***************************************************************************)

\* Every append is announced, and nobody reads ahead of the history.
AppendBook == updated = notes /\ cursor <= notes

\* An end has a cause; the cause of the client's close is among them.
EndBook == terminal <=> runErr # "none"

CursorReaderBook == \A r \in Readers : reading[r] = "ended" => terminal /\ cursor = notes

LateBook == \A w \in late : terminal /\ waiting[w] \in Causes \cup {"recheck"}

CursorBook == AppendBook /\ EndBook /\ CursorReaderBook /\ LateBook

CursorIInv == CursorTypeOK /\ CursorBook /\ OneEnd

-----------------------------------------------------------------------------
(* Every step of the run and of its observers keeps the inductive          *)
(* invariant.                                                              *)
LEMMA CursorStep == CursorIInv /\ [CursorNext]_cursorVars => CursorIInv'
<1> SUFFICES ASSUME CursorIInv, [CursorNext]_cursorVars PROVE CursorIInv'
    OBVIOUS
<1> USE NotesAssumption DEF CursorIInv, CursorTypeOK, CursorBook, AppendBook, EndBook,
        CursorReaderBook, LateBook, OneEnd, Causes, runVars, callVars
<1>1. CASE OpenStream           BY <1>1 DEF OpenStream
<1>2. ASSUME NEW t \in BOOLEAN, Accept(t) PROVE CursorIInv'
      BY <1>2 DEF Accept
<1>3. CASE CompleteTerminal     BY <1>3 DEF CompleteTerminal, finishState
<1>4. CASE ClientCloses         BY <1>4 DEF ClientCloses
<1>5. CASE FailRun              BY <1>5 DEF FailRun, finishState
<1>6. ASSUME NEW k \in Closes, CloseLooks(k) \/ CloseFinishes(k) PROVE CursorIInv'
  <2>1. CASE CloseLooks(k)      BY <2>1 DEF CloseLooks
  <2>2. CASE CloseFinishes(k)   BY <2>2 DEF CloseFinishes, finishState
  <2> QED BY <1>6, <2>1, <2>2
<1>7. ASSUME NEW g \in Readers \cup Waiters, ContextEnds(g) PROVE CursorIInv'
      BY <1>7 DEF ContextEnds
<1>8. ASSUME NEW r \in Readers, Look(r) \/ Wake(r) \/ NextCanceled(r) PROVE CursorIInv'
  <2>1. CASE Look(r)            BY <2>1 DEF Look
  <2>2. CASE Wake(r)            BY <2>2 DEF Wake
  <2>3. CASE NextCanceled(r)    BY <2>3 DEF NextCanceled
  <2> QED BY <1>8, <2>1, <2>2, <2>3
<1>9. ASSUME NEW w \in Waiters,
             WaitBegins(w) \/ WaitDone(w) \/ WaitCanceled(w) \/ WaitRechecks(w)
      PROVE  CursorIInv'
  <2>1. CASE WaitBegins(w)      BY <2>1 DEF WaitBegins, Snapshot
  <2>2. CASE WaitDone(w)        BY <2>2 DEF WaitDone, Snapshot
  <2>3. CASE WaitCanceled(w)    BY <2>3 DEF WaitCanceled
  <2>4. CASE WaitRechecks(w)    BY <2>4 DEF WaitRechecks, Snapshot
  <2> QED BY <1>9, <2>1, <2>2, <2>3, <2>4
<1>10. CASE UNCHANGED cursorVars  BY <1>10 DEF cursorVars
<1> QED BY <1>1, <1>2, <1>3, <1>4, <1>5, <1>6, <1>7, <1>8, <1>9, <1>10
        DEF CursorNext, CursorSteps

(* CursorsAreSound: in every behaviour Next reports the end only after the *)
(* whole history, a Wait that met the end never answers with its context's *)
(* error, and all observers see the same end.                              *)
THEOREM CursorsAreSound == CursorSpec => []CursorSound
<1>1. CursorInit => CursorIInv
  <2> SUFFICES ASSUME CursorInit PROVE CursorIInv
      OBVIOUS
  <2> USE DEF CursorInit
  <2>1. CursorTypeOK
    <3>1. 0 \in 0..MaxNotes     BY NotesAssumption
    <3>2. saw \in [Readers -> 0..MaxNotes]  BY <3>1
    <3> QED BY <3>1, <3>2 DEF CursorTypeOK, Causes
  <2>2. CursorBook              BY DEF CursorBook, AppendBook, EndBook, CursorReaderBook, LateBook
  <2>3. OneEnd                  BY DEF OneEnd, Causes
  <2> QED BY <2>1, <2>2, <2>3 DEF CursorIInv
<1>2. CursorIInv => CursorSound
      BY DEF CursorIInv, CursorBook, CursorReaderBook, LateBook, CursorSound, WholeHistory,
         EndBeatsContext, Causes
<1> QED BY <1>1, <1>2, CursorStep, PTL DEF CursorSpec

-----------------------------------------------------------------------------
(***************************************************************************)
(* Proofs about ProcessReap, for a process group of any size.              *)
(*                                                                         *)
(* QuietGroup speaks of the end alone and is not inductive. What carries   *)
(* it there: once the group was signalled after the leader's exit, nobody  *)
(* is left who could fork, so what /proc does not list any more can never  *)
(* come back (QuietBook). OwnSignals needs that the number of the group    *)
(* stays reserved until cmd.Wait (NumberBook).                             *)
(***************************************************************************)

\* Nothing has happened before the reaper starts.
IdleBook ==
  rpc = "idle" =>
    /\ leader = "live" /\ exited = "none" /\ collector = "none" /\ ~foreign /\ ~hit
    /\ errs = {}

\* Which steps belong to reapLinuxProcess alone.
PlatformBook == rpc \in {"told", "await", "scan", "pause", "wait"} => platform = "linux"

\* What an answer of the waiting goroutine says of the child.
ExitBook ==
  exited # "none" =>
    /\ platform = "other" => leader = "gone"
    /\ exited = "nil" => leader \in {"zombie", "gone"}
    /\ exited = "echild" => leader = "gone"

\* The number is reserved until the child is collected, which on Linux only
\* cmd.Wait and other waiters of the program do.
NumberBook ==
  /\ leader = "gone" <=> collector # "none"
  /\ collector = "other" => shared
  /\ platform = "linux" /\ collector = "us" => rpc = "done"
  /\ foreign => leader = "gone"

NoneForks == leader \in {"zombie", "gone"} /\ \A m \in Members : member[m] # "live"

\* The group after the final signal.
QuietBook ==
  /\ rpc \in {"await", "scan", "pause"} => NoneForks
  /\ rpc = "scan" => \A m \in Members : Running(member[m]) => m \in unread
  /\ rpc = "wait" /\ errs = {} => NoneForks /\ \A m \in Members : ~Running(member[m])
  /\ rpc = "done" /\ platform = "linux" /\ errs = {} => NoneForks

ReapIInv ==
  /\ ReapTypeOK /\ IdleBook /\ PlatformBook /\ ExitBook /\ NumberBook /\ QuietBook
  /\ QuietGroup /\ OwnSignals /\ ChildCollected

-----------------------------------------------------------------------------
(* The kernel, the child's processes and the reaper keep the inductive     *)
(* invariant.                                                              *)
LEMMA ReapStep == ReapIInv /\ [ReapNext]_reapVars => ReapIInv'
<1> SUFFICES ASSUME ReapIInv, [ReapNext]_reapVars PROVE ReapIInv'
    OBVIOUS
<1> USE DEF ReapIInv, ReapTypeOK, IdleBook, PlatformBook, ExitBook, NumberBook, NoneForks,
        QuietBook, QuietGroup, OwnSignals, ChildCollected, Running, Faults, groupVars, setVars
<1>1. CASE ReapStart
  <2>1. PICK pf \in {"linux", "other"}, sh \in BOOLEAN, fs \in SUBSET Faults :
               ReapBegin(pf, sh, fs)
        BY <1>1 DEF ReapStart
  <2> QED BY <2>1 DEF ReapBegin
<1>2. CASE Kernel
  <2>1. ASSUME NEW m \in Members, Fork(m) PROVE ReapIInv'
        BY <2>1 DEF Fork
  <2>2. ASSUME NEW m \in Members, MemberExits(m) PROVE ReapIInv'
        BY <2>2 DEF MemberExits
  <2>3. CASE LeaderExits        BY <2>3 DEF LeaderExits
  <2>4. CASE ForeignReap        BY <2>4 DEF ForeignReap
  <2>5. CASE ReuseNumber        BY <2>5 DEF ReuseNumber
  <2> QED BY <1>2, <2>1, <2>2, <2>3, <2>4, <2>5 DEF Kernel
<1>3. CASE Reaper
  <2> USE DEF KillGroup, killOwnedGroup, KillLeader, ProcessKill, Signalled
  <2>1. CASE waitOwnedExit      BY <2>1 DEF waitOwnedExit
  <2>2. CASE Exited             BY <2>2 DEF Exited
  <2>3. CASE GraceOver          BY <2>3 DEF GraceOver
  <2>4. CASE GraceOverFallback  BY <2>4 DEF GraceOverFallback
  <2>5. CASE FinalSignal        BY <2>5 DEF FinalSignal
  <2>6. CASE Unobserved         BY <2>6 DEF Unobserved
  <2>7. CASE ListProc           BY <2>7 DEF ListProc
  <2>8. ASSUME NEW m \in Members, ReadProc(m) PROVE ReapIInv'
        BY <2>8 DEF ReadProc
  <2>9. CASE GroupStopped       BY <2>9 DEF GroupStopped
  <2>10. CASE Tick              BY <2>10 DEF Tick
  <2>11. CASE GiveUp            BY <2>11 DEF GiveUp
  <2>12. CASE Wait              BY <2>12 DEF Wait
  <2>13. CASE DirectWait        BY <2>13 DEF DirectWait
  <2>14. CASE DirectKill        BY <2>14 DEF DirectKill
  <2>15. CASE DirectDone        BY <2>15 DEF DirectDone
  <2> QED BY <1>3, <2>1, <2>2, <2>3, <2>4, <2>5, <2>6, <2>7, <2>8, <2>9, <2>10, <2>11,
             <2>12, <2>13, <2>14, <2>15 DEF Reaper
<1>4. CASE UNCHANGED reapVars   BY <1>4 DEF reapVars
<1> QED BY <1>1, <1>2, <1>3, <1>4 DEF ReapNext

(* ReapIsSound: whatever the group does and whichever system calls fail,   *)
(* a nil result means that nothing of the group runs and that this reaper  *)
(* collected the child, no foreign group is signalled while cmd.Wait is    *)
(* the only waiter, and the reaper never returns before its child is gone. *)
THEOREM ReapIsSound == ReapSpec => []ReapSound
<1>1. ReapInit => ReapIInv
  <2> SUFFICES ASSUME ReapInit PROVE ReapIInv
      OBVIOUS
  <2> USE DEF ReapInit
  <2>1. ReapTypeOK              BY DEF ReapTypeOK, Faults
  <2>2. IdleBook /\ PlatformBook /\ ExitBook /\ NumberBook /\ QuietBook
        BY DEF IdleBook, PlatformBook, ExitBook, NumberBook, QuietBook
  <2>3. QuietGroup /\ OwnSignals /\ ChildCollected
        BY DEF QuietGroup, OwnSignals, ChildCollected
  <2> QED BY <2>1, <2>2, <2>3 DEF ReapIInv
<1>2. ReapIInv => ReapSound     BY DEF ReapIInv, ReapSound
<1> QED BY <1>1, <1>2, ReapStep, PTL DEF ReapSpec

-----------------------------------------------------------------------------
(***************************************************************************)
(* Proofs about ServerReplies, for any requests and any size of the pipes. *)
(*                                                                         *)
(* That a request is answered at most once follows from where it can be:   *)
(* on the wire, with the reader, with its goroutine, or answered, and in   *)
(* one place at a time (WireBook, HandBook). That the first cause wins     *)
(* follows from the order failExactServerRequest keeps: the run is over    *)
(* before the error is written, and what the peer knows of the error it    *)
(* learns later (TurnBook, PeerBook).                                      *)
(***************************************************************************)

\* Nobody has touched request q.
Untouched(q) == rdrAt # q /\ answered[q] = 0 /\ (q \in Known => hnd[q] = "none")

ReaderBook == rdr \in {"lock", "push"} <=> rdrAt # Nobody

\* A frame on the wire was sent, a request is on the wire once and untouched.
WireBook ==
  /\ \A i \in 1..Len(toClient) :
       /\ sent[toClient[i].about] # "nothing"
       /\ toClient[i].is = "completed" => sent[toClient[i].about] = "completed"
       /\ toClient[i].is = "request" => Untouched(toClient[i].about)
  /\ \A i, j \in 1..Len(toClient) :
       /\ toClient[i].is = "request" /\ toClient[j].is = "request"
       /\ toClient[i].about = toClient[j].about
       => i = j

HandBook ==
  /\ \A q \in Requests : sent[q] = "nothing" => Untouched(q)
  /\ \A q \in Requests : rdrAt = q => answered[q] = 0 /\ (q \in Known => hnd[q] = "none")
  /\ \A q \in Known : hnd[q] \in {"call", "finish", "lock", "push"} => answered[q] = 0
  /\ \A q \in Requests : answered[q] <= 1

OutBook ==
  \A q \in Known :
    /\ hnd[q] \in {"lock", "push"} => out[q] # "none"
    /\ out[q] # "none" => hnd[q] \in {"lock", "push", "done"}
    /\ hnd[q] = "done" /\ answered[q] = 0 => closedAs # "no"

TurnBook ==
  \A q \in Known :
    /\ out[q] = "error" => turnEnd[q] # "live"
    /\ turnEnd[q] = "completed" => sent[q] = "completed"
    /\ out[q] = "error" /\ q \in toldError => turnEnd[q] # "completed"

PeerBook ==
  /\ \A i \in 1..Len(toPeer) : toPeer[i].is = "error" => answered[toPeer[i].about] > 0
  /\ \A q \in toldError : answered[q] > 0

ReplyBook == ReaderBook /\ WireBook /\ HandBook /\ OutBook /\ TurnBook /\ PeerBook

ReplyIInv == ReplyTypeOK /\ ReplyBook

-----------------------------------------------------------------------------
(* What taking the first frame from a pipe, and adding one, does.          *)
LEMMA TakeFrame ==
  ASSUME NEW S, NEW s \in Seq(S), s # <<>>
  PROVE  /\ Len(s) \in Nat \ {0} /\ Head(s) = s[1] /\ Head(s) \in S
         /\ Tail(s) \in Seq(S) /\ Len(Tail(s)) = Len(s) - 1
         /\ \A i \in 1..Len(Tail(s)) : i + 1 \in 1..Len(s) /\ Tail(s)[i] = s[i + 1]
OBVIOUS

\* A frame at the end of a pipe adds itself to what the pipe holds.
LEMMA AddFrame ==
  ASSUME NEW S, NEW s \in Seq(S), NEW e \in S
  PROVE  /\ Append(s, e) \in Seq(S) /\ Len(Append(s, e)) = Len(s) + 1 /\ Len(s) \in Nat
         /\ \A i \in 1..Len(Append(s, e)) :
              Append(s, e)[i] = IF i <= Len(s) THEN s[i] ELSE e
OBVIOUS

-----------------------------------------------------------------------------
(* Every step of the peer, the reader, the handlers and the closing client *)
(* keeps the state well typed.                                             *)
LEMMA ReplyTypeStep == ReplyIInv /\ [ReplyNext]_replyVars => ReplyTypeOK'
<1> SUFFICES ASSUME ReplyIInv, [ReplyNext]_replyVars PROVE ReplyTypeOK'
    OBVIOUS
<1> USE RequestAssumption, PipeAssumption
    DEF ReplyIInv, ReplyTypeOK, pipeVars, readerVars, handlerVars, endVars, peerVars,
        Requests, Writers, Nobody
<1>1. CASE StartReader            BY <1>1 DEF StartReader
<1>2. CASE PeerExits              BY <1>2 DEF PeerExits
<1>3. CASE CloseContext           BY <1>3 DEF CloseContext
<1>4. CASE Settle                 BY <1>4 DEF Settle
<1>5. CASE ClosePipes             BY <1>5 DEF ClosePipes
<1>6. CASE CallBegins             BY <1>6 DEF CallBegins
<1>7. CASE CallLocks              BY <1>7 DEF CallLocks, Locked
<1>8. CASE ReadEnds               BY <1>8 DEF ReadEnds, failClient
<1>9. CASE ReaderSettles          BY <1>9 DEF ReaderSettles
<1>10. CASE ReaderLocks           BY <1>10 DEF ReaderLocks, Locked
<1>11. ASSUME NEW f \in Frames, PeerSends(f) PROVE ReplyTypeOK'
      BY <1>11, AddFrame DEF PeerSends, Frames
<1>12. CASE PeerReads
  <2>1. Tail(toPeer) \in Seq(Answers) /\ Head(toPeer) \in Answers /\ Len(Tail(toPeer)) <= PipeSize
        BY <1>12, TakeFrame DEF PeerReads
  <2> QED BY <1>12, <2>1 DEF PeerReads, Answers
<1>13. CASE CallWrites
  <2>1. [about |-> "caller", is |-> "request"] \in Answers  BY DEF Answers
  <2>2. toPeer' \in Seq(Answers) /\ Len(toPeer') <= PipeSize
        BY <1>13, <2>1, AddFrame DEF CallWrites, Written, CanWrite, WriteFails
  <2>3. answered' = answered    BY <1>13 DEF CallWrites, Written
  <2> QED BY <1>13, <2>2, <2>3 DEF CallWrites, Written
<1>14. CASE ReadFrame
  <2>1. Tail(toClient) \in Seq(Frames) /\ Head(toClient) \in Frames /\ Len(Tail(toClient)) <= PipeSize
        BY <1>14, TakeFrame DEF ReadFrame
  <2>2. CASE Head(toClient).is = "completed"
        BY <1>14, <2>1, <2>2, SMTT(30) DEF ReadFrame, Frames
  <2>3. CASE Head(toClient).is = "request" /\ hnd' = hnd /\ turnEnd' = turnEnd
    <3>1. (rdrAt' \in Requests /\ rdr' = "lock") \/ UNCHANGED <<rdrAt, rdr>>
          BY <1>14, <2>1, <2>3 DEF ReadFrame, Frames
    <3>2. tolerant' \in BOOLEAN
      <4>1. \/ tolerant' = (Head(toClient).about \in Known)
            \/ tolerant' = tolerant
            BY <1>14, <2>3, Zenon DEF ReadFrame
      <4>2. (Head(toClient).about \in Known) \in BOOLEAN
            OBVIOUS
      <4> QED BY <4>1, <4>2, Zenon
    <3> QED BY <1>14, <2>1, <2>3, <3>1, <3>2 DEF ReadFrame
  <2>4. CASE Head(toClient).is = "request" /\ UNCHANGED <<readerVars, turnEnd>>
        BY <1>14, <2>1, <2>4, SMTT(30) DEF ReadFrame, Frames
  <2> QED BY <1>14, <2>2, <2>3, <2>4 DEF ReadFrame
<1>15. CASE ReaderWrites
  <2>1. rdrAt \in Requests /\ answered[rdrAt] = 0
        BY <1>15 DEF ReaderWrites, ReplyBook, ReaderBook, HandBook
  <2>2. [about |-> rdrAt, is |-> "error"] \in Answers  BY <2>1 DEF Answers
  <2>3. toPeer' \in Seq(Answers) /\ Len(toPeer') <= PipeSize
        BY <1>15, <2>2, AddFrame DEF ReaderWrites, Written, CanWrite, WriteFails
  <2>4. answered' \in [Requests -> 0..2]
        BY <1>15, <2>1 DEF ReaderWrites, Written, WriteFails
  <2>5. closedAs' \in {"no", "normal", "failure"}
        BY <1>15 DEF ReaderWrites, failClient
  <2> QED BY <1>15, <2>3, <2>4, <2>5 DEF ReaderWrites, Written
<1>16. ASSUME NEW q \in Known, HandlerWrites(q) PROVE ReplyTypeOK'
  <2>1. out[q] \in {"result", "error"} /\ answered[q] = 0
        BY <1>16 DEF HandlerWrites, ReplyBook, OutBook, HandBook
  <2>2. [about |-> q, is |-> out[q]] \in Answers  BY <2>1 DEF Answers
  <2> QED BY <1>16, <2>1, <2>2, AddFrame DEF HandlerWrites, Written, CanWrite, WriteFails, failClient
<1>17. ASSUME NEW q \in Known, HandlerResponds(q) PROVE ReplyTypeOK'
      BY <1>17 DEF HandlerResponds
<1>18. ASSUME NEW q \in Known, HandlerAbandons(q) PROVE ReplyTypeOK'
      BY <1>18 DEF HandlerAbandons
<1>19. ASSUME NEW q \in Known, HandlerFails(q) PROVE ReplyTypeOK'
      BY <1>19 DEF HandlerFails
<1>20. ASSUME NEW q \in Known, FinishRuns(q) PROVE ReplyTypeOK'
      BY <1>20 DEF FinishRuns
<1>21. ASSUME NEW q \in Known, HandlerLocks(q) PROVE ReplyTypeOK'
      BY <1>21 DEF HandlerLocks, Locked
<1>22. CASE UNCHANGED replyVars   BY <1>22 DEF replyVars
<1> QED BY <1>1, <1>2, <1>3, <1>4, <1>5, <1>6, <1>7, <1>8, <1>9, <1>10, <1>11, <1>12, <1>13, <1>14, <1>15, <1>16, <1>17, <1>18, <1>19, <1>20, <1>21, <1>22
        DEF ReplyNext

-----------------------------------------------------------------------------
(* And it keeps the books: where each request is and what the peer knows.  *)
LEMMA ReplyBookStep == ReplyIInv /\ [ReplyNext]_replyVars => ReplyBook'
<1> SUFFICES ASSUME ReplyIInv, [ReplyNext]_replyVars PROVE ReplyBook'
    OBVIOUS
<1> USE RequestAssumption, PipeAssumption
    DEF ReplyIInv, ReplyTypeOK, ReplyBook, ReaderBook, WireBook, HandBook, OutBook, TurnBook,
        PeerBook, Untouched, pipeVars, readerVars, handlerVars, endVars, peerVars,
        Requests, Nobody
<1>1. CASE StartReader            BY <1>1 DEF StartReader
<1>2. CASE PeerExits              BY <1>2 DEF PeerExits
<1>3. CASE CloseContext           BY <1>3 DEF CloseContext
<1>4. CASE Settle                 BY <1>4 DEF Settle
<1>5. CASE ClosePipes             BY <1>5 DEF ClosePipes
<1>6. CASE CallBegins             BY <1>6 DEF CallBegins
<1>7. CASE CallLocks              BY <1>7 DEF CallLocks, Locked
<1>8. CASE ReadEnds               BY <1>8 DEF ReadEnds, failClient
<1>9. CASE ReaderSettles          BY <1>9 DEF ReaderSettles
<1>10. CASE ReaderLocks           BY <1>10 DEF ReaderLocks, Locked
<1>11. ASSUME NEW f \in Frames, PeerSends(f) PROVE ReplyBook'
  <2>1. \A i \in 1..Len(toClient') :
           toClient'[i] = IF i <= Len(toClient) THEN toClient[i] ELSE f
        BY <1>11, AddFrame DEF PeerSends
  <2>2. Len(toClient') = Len(toClient) + 1 /\ Len(toClient) \in Nat
        BY <1>11, AddFrame DEF PeerSends
  <2>3. \A i \in 1..Len(toClient) : toClient[i] \in Frames
        OBVIOUS
  <2>4. WireBook'
        BY <1>11, <2>1, <2>2, <2>3 DEF PeerSends, Frames
  <2> QED BY <1>11, <2>4 DEF PeerSends, Frames
<1>12. CASE PeerReads
  <2>1. /\ Head(toPeer) = toPeer[1] /\ 1 \in 1..Len(toPeer) /\ Head(toPeer) \in Answers
        /\ \A i \in 1..Len(toPeer') : i + 1 \in 1..Len(toPeer) /\ toPeer'[i] = toPeer[i + 1]
        BY <1>12, TakeFrame DEF PeerReads
  <2>2. TurnBook'  BY <1>12, <2>1 DEF PeerReads, Answers
  <2>3. PeerBook'  BY <1>12, <2>1 DEF PeerReads, Answers
  <2> QED BY <1>12, <2>2, <2>3 DEF PeerReads
<1>13. CASE CallWrites
  <2>1. answered' = answered    BY <1>13 DEF CallWrites, Written
  <2>2. [about |-> "caller", is |-> "request"] \in Answers  BY DEF Answers
  <2>3. PeerBook'
        BY <1>13, <2>1, <2>2, AddFrame DEF CallWrites, Written
  <2> QED BY <1>13, <2>1, <2>3 DEF CallWrites, Written
<1>14. CASE ReadFrame
  <2> DEFINE f == Head(toClient)
  <2>1. /\ f = toClient[1] /\ 1 \in 1..Len(toClient) /\ f \in Frames
        /\ Len(toClient') = Len(toClient) - 1
        /\ \A i \in 1..Len(toClient') : i + 1 \in 1..Len(toClient) /\ toClient'[i] = toClient[i + 1]
        BY <1>14, TakeFrame DEF ReadFrame
  <2>2. CASE f.is = "completed"
    <3>1. f.about \in Known /\ sent[f.about] = "completed"
          BY <2>1, <2>2 DEF Frames
    <3>2. WireBook'  BY <1>14, <2>1, <2>2 DEF ReadFrame
    <3>3. TurnBook'  BY <1>14, <2>2, <3>1 DEF ReadFrame
    <3> QED BY <1>14, <2>2, <3>2, <3>3 DEF ReadFrame
  <2>3. CASE f.is = "request" /\ hnd' = hnd /\ turnEnd' = turnEnd
    <3>1. f.about \in Requests /\ Untouched(f.about) /\ sent[f.about] # "nothing"
          BY <2>1, <2>3 DEF Frames
    <3>2. \/ rdrAt' = f.about /\ rdr' = "lock"
          \/ UNCHANGED <<rdrAt, rdr>>
          BY <1>14, <2>3 DEF ReadFrame
    <3>3. UNCHANGED <<hnd, turnEnd, toPeer, out, closedAs, sent, toldError, answered>> /\ rdr = "read"
          BY <1>14, <2>3 DEF ReadFrame
    <3>4. WireBook'
      <4>2. \A i \in 1..Len(toClient) :
              /\ sent[toClient[i].about] # "nothing"
              /\ toClient[i].is = "completed" => sent[toClient[i].about] = "completed"
              /\ toClient[i].is = "request" => Untouched(toClient[i].about)
            OBVIOUS
      <4>3. \A i, j \in 1..Len(toClient) :
              /\ toClient[i].is = "request" /\ toClient[j].is = "request"
              /\ toClient[i].about = toClient[j].about
              => i = j
            OBVIOUS
      <4>4. Len(toClient) \in Nat  OBVIOUS
      <4> HIDE DEF ReplyIInv, f
      <4>5. ASSUME NEW i \in 1..Len(toClient')
            PROVE  /\ sent'[toClient'[i].about] # "nothing"
                   /\ toClient'[i].is = "completed" => sent'[toClient'[i].about] = "completed"
                   /\ toClient'[i].is = "request" =>
                        /\ rdrAt' # toClient'[i].about /\ answered'[toClient'[i].about] = 0
                        /\ toClient'[i].about \in Known => hnd'[toClient'[i].about] = "none"
        <5>1. i + 1 \in 1..Len(toClient) /\ toClient'[i] = toClient[i + 1] /\ i + 1 # 1
              BY <2>1, <4>4
        <5>2. toClient[i + 1].is = "request" => toClient[i + 1].about # f.about
              BY <2>1, <2>3, <4>3, <5>1
        <5>3. /\ sent[toClient[i + 1].about] # "nothing"
              /\ toClient[i + 1].is = "completed" => sent[toClient[i + 1].about] = "completed"
              /\ toClient[i + 1].is = "request" => Untouched(toClient[i + 1].about)
              BY <4>2, <5>1
        <5> QED BY <3>2, <3>3, <5>1, <5>2, <5>3
      <4>6. \A i, j \in 1..Len(toClient') :
              /\ toClient'[i].is = "request" /\ toClient'[j].is = "request"
              /\ toClient'[i].about = toClient'[j].about
              => i = j
        <5> SUFFICES ASSUME NEW i \in 1..Len(toClient'), NEW j \in 1..Len(toClient'),
                            toClient'[i].is = "request", toClient'[j].is = "request",
                            toClient'[i].about = toClient'[j].about
                     PROVE  i = j
            OBVIOUS
        <5>1. /\ i + 1 \in 1..Len(toClient) /\ toClient'[i] = toClient[i + 1]
              /\ j + 1 \in 1..Len(toClient) /\ toClient'[j] = toClient[j + 1]
              BY <2>1
        <5>2. i + 1 = j + 1  BY <4>3, <5>1
        <5>3. i \in Int /\ j \in Int  BY <2>1, <4>4
        <5> QED BY <5>2, <5>3
      <4> QED BY <4>5, <4>6
    <3>5. ReaderBook' /\ HandBook'  BY <3>1, <3>2, <3>3
    <3> QED BY <3>3, <3>4, <3>5
  <2>4. CASE f.is = "request" /\ UNCHANGED <<readerVars, turnEnd>>
        BY <1>14, <2>1, <2>4 DEF ReadFrame, Frames
  <2> QED BY <1>14, <2>2, <2>3, <2>4 DEF ReadFrame
<1>15. CASE ReaderWrites
  <2>1. rdrAt \in Requests /\ answered[rdrAt] = 0
        BY <1>15 DEF ReaderWrites
  <2>2. [about |-> rdrAt, is |-> "error"] \in Answers  BY <2>1 DEF Answers
  <2>3. /\ \A r \in Requests : r # rdrAt => answered'[r] = answered[r]
        /\ answered'[rdrAt] \in {0, 1}
        BY <1>15, <2>1 DEF ReaderWrites, Written
  <2>4. PeerBook'
        BY <1>15, <2>1, <2>2, AddFrame DEF ReaderWrites, Written, WriteFails, Answers
  <2>5. WireBook'
    <3>1. \A i \in 1..Len(toClient) : toClient[i].about \in Requests
          BY DEF Frames
    <3> QED BY <1>15, <2>1, <2>3, <3>1 DEF ReaderWrites
  <2>6. closedAs # "no" => closedAs' # "no"
        BY <1>15 DEF ReaderWrites, failClient
  <2>7. rdrAt' = Nobody /\ rdr' = "read" /\ UNCHANGED <<hnd, out, turnEnd, sent, toldError>>
        BY <1>15 DEF ReaderWrites
  <2>8. rdrAt \in Known => hnd[rdrAt] = "none"
        BY <2>1
  <2>9. ReaderBook' /\ HandBook' /\ OutBook'
        BY <2>1, <2>3, <2>6, <2>7, <2>8
  <2>10. TurnBook'
         BY <2>7
  <2> QED BY <2>4, <2>5, <2>9, <2>10
<1>16. ASSUME NEW q \in Known, HandlerWrites(q) PROVE ReplyBook'
  <2>1. out[q] \in {"result", "error"} /\ answered[q] = 0
        BY <1>16 DEF HandlerWrites
  <2>2. [about |-> q, is |-> out[q]] \in Answers  BY <2>1 DEF Answers
  <2>3. /\ \A r \in Requests : r # q => answered'[r] = answered[r]
        /\ \/ answered'[q] = 0 /\ closedAs' # "no"
           \/ answered'[q] = 1 /\ closedAs' = closedAs
        BY <1>16, <2>1 DEF HandlerWrites, Written, WriteFails, failClient
  <2>4. PeerBook'
        BY <1>16, <2>1, <2>2, AddFrame DEF HandlerWrites, Written, WriteFails, Answers
  <2>5. WireBook'
    <3>1. \A i \in 1..Len(toClient) : toClient[i].about \in Requests
          BY DEF Frames
    <3> QED BY <1>16, <2>1, <2>3, <3>1 DEF HandlerWrites
  <2>6. HandBook'
    <3>1. rdrAt # q /\ sent[q] # "nothing"
          BY <1>16 DEF HandlerWrites
    <3>2. \A r \in Known \ {q} : hnd'[r] = hnd[r]
          BY <1>16 DEF HandlerWrites
    <3> QED BY ONLY <1>16, <2>3, <3>1, <3>2, ReplyTypeOK, HandBook, RequestAssumption
               DEF HandlerWrites, HandBook, ReplyTypeOK, Untouched, Requests, readerVars, peerVars
  <2>7. OutBook'
    <3>1. \A r \in Known \ {q} : answered'[r] = answered[r] /\ hnd'[r] = hnd[r]
          BY <1>16, <2>3 DEF HandlerWrites
    <3> QED BY ONLY <1>16, <2>1, <2>3, <3>1, ReplyTypeOK, OutBook
               DEF HandlerWrites, OutBook, ReplyTypeOK
  <2> QED BY <1>16, <2>4, <2>5, <2>6, <2>7 DEF HandlerWrites
<1>17. ASSUME NEW q \in Known, HandlerResponds(q) PROVE ReplyBook'
      BY <1>17 DEF HandlerResponds
<1>18. ASSUME NEW q \in Known, HandlerAbandons(q) PROVE ReplyBook'
      BY <1>18 DEF HandlerAbandons
<1>19. ASSUME NEW q \in Known, HandlerFails(q) PROVE ReplyBook'
      BY <1>19 DEF HandlerFails
<1>20. ASSUME NEW q \in Known, FinishRuns(q) PROVE ReplyBook'
      BY <1>20 DEF FinishRuns
<1>21. ASSUME NEW q \in Known, HandlerLocks(q) PROVE ReplyBook'
      BY <1>21 DEF HandlerLocks, Locked
<1>22. CASE UNCHANGED replyVars   BY <1>22 DEF replyVars
<1> QED BY <1>1, <1>2, <1>3, <1>4, <1>5, <1>6, <1>7, <1>8, <1>9, <1>10, <1>11, <1>12, <1>13, <1>14, <1>15, <1>16, <1>17, <1>18, <1>19, <1>20, <1>21, <1>22
        DEF ReplyNext

\* Nothing has been sent and nobody is at work.
LEMMA ReplyStarts == ReplyInit => ReplyIInv
<1> SUFFICES ASSUME ReplyInit PROVE ReplyIInv
    OBVIOUS
<1> USE RequestAssumption, PipeAssumption DEF ReplyInit, Requests, Nobody
<1>1. /\ toClient \in Seq(Frames) /\ Len(toClient) = 0
      /\ toPeer \in Seq(Answers) /\ Len(toPeer) = 0
      OBVIOUS
<1>2. Len(toClient) <= PipeSize /\ Len(toPeer) <= PipeSize /\ answered \in [Requests -> 0..2]
      BY <1>1
<1>3. ReplyTypeOK  BY <1>1, <1>2 DEF ReplyTypeOK, Writers
<1>4. ReplyBook
      BY <1>1 DEF ReplyBook, ReaderBook, WireBook, HandBook, OutBook, TurnBook, PeerBook, Untouched
<1> QED BY <1>3, <1>4 DEF ReplyIInv

\* A request of the app-server is answered at most once, none that a
\* goroutine took over is dropped while the client stays open, and a run
\* ends with the failure of its handler before the peer can see the error:
\* for any requests, any pipes and a peer that reads and writes as it likes.
THEOREM RepliesAreSound == ReplySpec => []ReplySound
<1>1. ReplyIInv /\ [ReplyNext]_replyVars => ReplyIInv'
      BY ReplyTypeStep, ReplyBookStep DEF ReplyIInv
<1>2. ReplyIInv => ReplySound
      BY DEF ReplyIInv, ReplyTypeOK, ReplyBook, ReaderBook, WireBook, HandBook, OutBook,
             TurnBook, PeerBook, ReplySound, FirstCauseWins, AnsweredOnce, Requests
<1> QED BY <1>1, <1>2, ReplyStarts, PTL DEF ReplySpec
=============================================================================
