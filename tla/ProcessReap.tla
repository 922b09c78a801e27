----------------------------- MODULE ProcessReap -----------------------------
(***************************************************************************)
(* reapOwnedProcess: how a closing client collects the child process it    *)
(* launched. On Linux (reapLinuxProcess) the child leads a process group   *)
(* of its own, and the reaper must stop the whole group and collect the    *)
(* leader, without ever signalling a group that merely inherited the       *)
(* number. Elsewhere (reapDirectProcess) only the direct child is          *)
(* collected.                                                              *)
(*                                                                         *)
(* The kernel's side: a leader that exits stays a zombie, and its number   *)
(* stays reserved, until somebody waits for it; SIGKILL to a group reaches *)
(* every process in it at once, and a signalled process forks no more but  *)
(* may take any time to be gone. A number is reused only when neither the  *)
(* leader nor a member of the group is left.                               *)
(***************************************************************************)
EXTENDS Naturals, FiniteSets

CONSTANT Members        \* identities of the group's processes besides the leader

VARIABLES
  rpc,       \* the reaper's program counter
  platform,  \* which reapOwnedProcess the build selected
  shared,    \* something else in this program also waits for children
  faults,    \* system calls that fail in this execution
  leader,    \* the child process
  member,    \* the other processes of its group
  foreign,   \* the number of the group now names a group of somebody else
  exited,    \* what the waiting goroutine sent: on Linux, exited
  unread,    \* awaitOwnedGroupStopped: entries of /proc still to be read
  errs,      \* the errors joined so far
  collector, \* history: who collected the leader
  hit        \* history: a group of somebody else was signalled

reapVars == <<rpc, platform, shared, faults, leader, member, foreign, exited,
              unread, errs, collector, hit>>

groupVars == <<leader, member, foreign, collector>>
setVars == <<platform, shared, faults>>

Faults == {"group", "leader", "waitid", "proc"}

ReapTypeOK ==
  /\ rpc \in {"idle", "select", "told", "await", "scan", "pause", "wait",
              "killed", "done"}
  /\ platform \in {"linux", "other"}
  /\ shared \in BOOLEAN
  /\ faults \subseteq Faults
  /\ leader \in {"live", "dying", "zombie", "gone"}
  /\ member \in [Members -> {"unborn", "live", "dying", "gone"}]
  /\ foreign \in BOOLEAN
  /\ exited \in {"none", "nil", "echild", "errno"}
  /\ unread \subseteq Members
  /\ errs \subseteq {"group", "leader", "exit", "alive", "proc", "wait"}
  /\ collector \in {"none", "us", "other"}
  /\ hit \in BOOLEAN

ReapInit ==
  /\ rpc = "idle"
  /\ platform = "linux"
  /\ shared = FALSE
  /\ faults = {}
  /\ leader = "live"
  /\ member = [m \in Members |-> "unborn"]
  /\ foreign = FALSE
  /\ exited = "none"
  /\ unread = {}
  /\ errs = {}
  /\ collector = "none"
  /\ hit = FALSE

Running(s) == s \in {"live", "dying"}

-----------------------------------------------------------------------------
(* The kernel and the child's processes.                                   *)

\* A process that has not been signalled forks into the group.
Fork(m) ==
  /\ rpc # "idle"
  /\ leader = "live" \/ \E p \in Members : member[p] = "live"
  /\ member[m] = "unborn"
  /\ member' = [member EXCEPT ![m] = "live"]
  /\ UNCHANGED <<rpc, setVars, leader, foreign, exited, unread, errs, collector, hit>>

\* A member ends, by itself or of the signal, and its parent collects it.
MemberExits(m) ==
  /\ rpc # "idle"
  /\ Running(member[m])
  /\ member' = [member EXCEPT ![m] = "gone"]
  /\ UNCHANGED <<rpc, setVars, leader, foreign, exited, unread, errs, collector, hit>>

LeaderExits ==
  /\ rpc # "idle"
  /\ Running(leader)
  /\ leader' = "zombie"
  /\ UNCHANGED <<rpc, setVars, member, foreign, exited, unread, errs, collector, hit>>

\* Another part of the program waits for any child and collects this one.
ForeignReap ==
  /\ rpc # "idle"
  /\ shared
  /\ leader = "zombie"
  /\ leader' = "gone"
  /\ collector' = "other"
  /\ UNCHANGED <<rpc, setVars, member, foreign, exited, unread, errs, hit>>

\* The number is free and a process that has nothing to do with us gets it.
ReuseNumber ==
  /\ rpc # "idle"
  /\ leader = "gone"
  /\ \A m \in Members : ~Running(member[m])
  /\ ~foreign
  /\ foreign' = TRUE
  /\ UNCHANGED <<rpc, setVars, leader, member, exited, unread, errs, collector, hit>>

Signalled(s) == IF s = "live" THEN "dying" ELSE s

\* kill(-pid, SIGKILL): every process of the group with that number, whoever
\* it belongs to. ESRCH, no such group, is success.
KillGroup ==
  IF "group" \in faults
    THEN UNCHANGED <<leader, member, hit>>
    ELSE /\ leader' = Signalled(leader)
         /\ member' = [m \in Members |-> Signalled(member[m])]
         /\ hit' = (hit \/ foreign)

\* What killOwnedGroup returns.
killOwnedGroup == faults \cap {"group"}

\* Process.Kill: the direct child, which the os package never confuses with a
\* later process of the same number. The child that is gone cannot be signalled.
KillLeader(l) == IF "leader" \in faults THEN l ELSE Signalled(l)
ProcessKill(l) ==
  IF "leader" \in faults \/ l = "gone" THEN {"leader"} ELSE {}

-----------------------------------------------------------------------------
(* The reaper.                                                             *)

\* Mutant: a reaper started on a child that is not there.
ReapBeginUnborn(pf, sh, fs) ==
  /\ rpc = "idle"
  /\ rpc' = "select"
  /\ platform' = pf
  /\ shared' = sh
  /\ faults' = fs
  /\ leader' = "unborn"
  /\ UNCHANGED <<member, foreign, collector, exited, unread, errs, hit>>

\* cleanupProcess calls reapOwnedProcess, which starts its waiting goroutine
\* and its grace timer.
ReapBegin(pf, sh, fs) ==
  /\ rpc = "idle"
  /\ rpc' = "select"
  /\ platform' = pf
  /\ shared' = sh
  /\ faults' = fs
  /\ UNCHANGED <<groupVars, exited, unread, errs, hit>>

\* Mutant: waitid without WNOWAIT: observing the exit releases the number.
waitOwnedExitReaping ==
  /\ rpc # "idle"
  /\ platform = "linux"
  /\ exited = "none"
  /\ leader = "zombie"
  /\ exited' = "nil"
  /\ leader' = "gone"
  /\ collector' = "us"
  /\ UNCHANGED <<rpc, setVars, member, foreign, unread, errs, hit>>

\* waitOwnedExit: waitid with WNOWAIT reports the exit and leaves the zombie.
waitOwnedExit ==
  /\ rpc # "idle"
  /\ platform = "linux"
  /\ exited = "none"
  /\ \/ /\ "waitid" \in faults
        /\ exited' = "errno"
     \/ /\ "waitid" \notin faults
        /\ leader \in {"zombie", "gone"}
        /\ exited' = IF leader = "zombie" THEN "nil" ELSE "echild"
  /\ UNCHANGED <<rpc, setVars, groupVars, unread, errs, hit>>

\* reapLinuxProcess: the waiting goroutine has answered.
Exited ==
  /\ platform = "linux"
  /\ rpc \in {"select", "killed"}
  /\ exited # "none"
  /\ rpc' = "told"
  /\ UNCHANGED <<setVars, groupVars, exited, unread, errs, hit>>

\* The grace period is over first: kill the group, then wait for the answer.
GraceOver ==
  /\ platform = "linux"
  /\ rpc = "select"
  /\ killOwnedGroup = {}
  /\ rpc' = "killed"
  /\ KillGroup
  /\ UNCHANGED <<setVars, foreign, exited, unread, errs, collector>>

\* Mutant: no direct signal when the group could not be signalled.
GraceOverGivesUp ==
  /\ platform = "linux"
  /\ rpc = "select"
  /\ killOwnedGroup # {}
  /\ rpc' = "killed"
  /\ errs' = errs \cup killOwnedGroup
  /\ UNCHANGED <<setVars, groupVars, exited, unread, hit>>

\* The group could not be signalled: the child alone is killed.
GraceOverFallback ==
  /\ platform = "linux"
  /\ rpc = "select"
  /\ killOwnedGroup # {}
  /\ rpc' = "killed"
  /\ leader' = KillLeader(leader)
  /\ errs' = errs \cup killOwnedGroup \cup ProcessKill(leader)
  /\ UNCHANGED <<setVars, member, foreign, exited, unread, collector, hit>>

\* Mutant: the exit of the leader is taken for the end of its group.
FinalSignalSkipped ==
  /\ rpc = "told"
  /\ exited = "nil"
  /\ rpc' = IF errs = {} THEN "await" ELSE "wait"
  /\ UNCHANGED <<setVars, groupVars, exited, unread, errs, hit>>

\* The exit was observed and the zombie still holds the number: signal the
\* group once more. Its quiescence is awaited only when nothing has failed.
FinalSignal ==
  /\ rpc = "told"
  /\ exited = "nil"
  /\ KillGroup
  /\ errs' = errs \cup killOwnedGroup
  /\ rpc' = IF errs' = {} THEN "await" ELSE "wait"
  /\ UNCHANGED <<setVars, foreign, exited, unread, collector>>

\* The exit could not be observed: no group signal. When the child was not
\* reaped by another actor, it is killed directly.
Unobserved ==
  /\ rpc = "told"
  /\ exited # "nil"
  /\ leader' = IF exited = "echild" THEN leader ELSE KillLeader(leader)
  /\ errs' = errs \cup {"exit"}
                  \cup (IF exited = "echild" THEN {} ELSE ProcessKill(leader))
  /\ rpc' = "wait"
  /\ UNCHANGED <<setVars, member, foreign, exited, unread, collector, hit>>

\* ownedGroupStopped lists /proc. What is forked later is not on the list.
ListProc ==
  /\ rpc = "await"
  /\ IF "proc" \in faults
       THEN rpc' = "wait" /\ errs' = errs \cup {"proc"} /\ UNCHANGED unread
       ELSE /\ rpc' = "scan"
            /\ unread' = {m \in Members : Running(member[m])}
            /\ UNCHANGED errs
  /\ UNCHANGED <<setVars, groupVars, exited, hit>>

\* It reads the listed processes one at a time; one that is gone is skipped,
\* one that still runs means the group has not stopped.
ReadProc(m) ==
  /\ rpc = "scan"
  /\ m \in unread
  /\ unread' = unread \ {m}
  /\ rpc' = IF Running(member[m]) THEN "pause" ELSE "scan"
  /\ UNCHANGED <<setVars, groupVars, exited, errs, hit>>

GroupStopped ==
  /\ rpc = "scan"
  /\ unread = {}
  /\ rpc' = "wait"
  /\ UNCHANGED <<setVars, groupVars, exited, unread, errs, hit>>

\* awaitOwnedGroupStopped looks again at the next tick, or gives up.
Tick ==
  /\ rpc = "pause"
  /\ rpc' = "await"
  /\ unread' = {}
  /\ UNCHANGED <<setVars, groupVars, exited, errs, hit>>

GiveUp ==
  /\ rpc = "pause"
  /\ rpc' = "wait"
  /\ errs' = errs \cup {"alive"}
  /\ unread' = {}
  /\ UNCHANGED <<setVars, groupVars, exited, hit>>

\* cmd.Wait collects the child. An exit status is no error; a child another
\* actor collected is one.
Wait ==
  /\ rpc = "wait"
  /\ leader \in {"zombie", "gone"}
  /\ rpc' = "done"
  /\ leader' = "gone"
  /\ collector' = IF leader = "zombie" THEN "us" ELSE collector
  /\ errs' = IF leader = "gone" THEN errs \cup {"wait"} ELSE errs
  /\ UNCHANGED <<setVars, member, foreign, exited, unread, hit>>

\* reapDirectProcess: its goroutine calls cmd.Wait, whose result it drops.
DirectWait ==
  /\ platform = "other"
  /\ rpc \in {"select", "killed"}
  /\ exited = "none"
  /\ leader \in {"zombie", "gone"}
  /\ exited' = "nil"
  /\ leader' = "gone"
  /\ collector' = IF leader = "zombie" THEN "us" ELSE collector
  /\ UNCHANGED <<rpc, setVars, member, foreign, unread, errs, hit>>

\* Mutant: a reaper that returns as soon as it has killed the child.
DirectKillReturns ==
  /\ platform = "other"
  /\ rpc = "select"
  /\ rpc' = "done"
  /\ leader' = KillLeader(leader)
  /\ errs' = errs \cup ProcessKill(leader)
  /\ UNCHANGED <<setVars, member, foreign, exited, unread, collector, hit>>

\* The grace period is over: kill the child. That it is already done is not
\* an error.
DirectKill ==
  /\ platform = "other"
  /\ rpc = "select"
  /\ rpc' = "killed"
  /\ leader' = KillLeader(leader)
  /\ errs' = IF leader = "gone" THEN errs ELSE errs \cup ProcessKill(leader)
  /\ UNCHANGED <<setVars, member, foreign, exited, unread, collector, hit>>

DirectDone ==
  /\ platform = "other"
  /\ rpc \in {"select", "killed"}
  /\ exited # "none"
  /\ rpc' = "done"
  /\ UNCHANGED <<setVars, groupVars, exited, unread, errs, hit>>

-----------------------------------------------------------------------------
ReapStart == \E pf \in {"linux", "other"}, sh \in BOOLEAN, fs \in SUBSET Faults :
               ReapBegin(pf, sh, fs)

Kernel == \/ \E m \in Members : Fork(m) \/ MemberExits(m)
          \/ LeaderExits \/ ForeignReap \/ ReuseNumber

Reaper == \/ waitOwnedExit \/ Exited \/ GraceOver \/ GraceOverFallback
          \/ FinalSignal \/ Unobserved \/ ListProc
          \/ \E m \in Members : ReadProc(m)
          \/ GroupStopped \/ Tick \/ GiveUp \/ Wait
          \/ DirectWait \/ DirectKill \/ DirectDone

ReapNext == ReapStart \/ Kernel \/ Reaper

\* Goroutines run and armed timers fire; a leader that was sent SIGKILL is
\* gone some day. Nothing else of the child is taken to make progress.
ReapFairness ==
  /\ WF_reapVars(waitOwnedExit \/ DirectWait)
  /\ WF_reapVars(Exited \/ GraceOver \/ GraceOverFallback \/ FinalSignal
                   \/ Unobserved \/ ListProc \/ GroupStopped \/ Wait
                   \/ \E m \in Members : ReadProc(m))
  /\ WF_reapVars(DirectKill \/ DirectDone)
  /\ SF_reapVars(GiveUp)
  /\ WF_reapVars(leader = "dying" /\ LeaderExits)

ReapSpec == ReapInit /\ [][ReapNext]_reapVars /\ ReapFairness

-----------------------------------------------------------------------------
(* What the reaper promises.                                               *)

\* A nil result on Linux means what the shutdown contract claims of it: this
\* reaper itself collected the child, and no process of the owned group is
\* still running, however the group forked, lingered or exited meanwhile and
\* although /proc was listed and read in separate steps.
QuietGroup ==
  rpc = "done" /\ platform = "linux" /\ errs = {}
    => /\ collector = "us"
       /\ \A m \in Members : ~Running(member[m])

\* As long as cmd.Wait is the only one to collect the child, no SIGKILL ever
\* reaches a group that inherited its number: every group signal is sent
\* before the zombie is released.
OwnSignals == ~shared => ~hit

\* Whatever failed on the way, the reaper does not return while its child is
\* still there to be collected (process_linux.go:79, process.go:25).
ChildCollected == rpc = "done" => leader = "gone"

\* Reaping ends when the child can be signalled: a child that ignores the
\* closed pipe, a group that cannot be signalled and a member that never stops
\* each delay it by a grace period at most.
ReapEnds == (rpc # "idle" /\ "leader" \notin faults) ~> (rpc = "done")

\* Only the own group is signalled, a nil result means that nothing of it runs, and
\* the child is collected.
ReapSound == ReapTypeOK /\ QuietGroup /\ OwnSignals /\ ChildCollected
=============================================================================
