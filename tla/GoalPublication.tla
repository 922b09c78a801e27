-------------------------- MODULE GoalPublication --------------------------
(***************************************************************************)
(* How the upstream goal publishes candidates to its one Draft PR. A       *)
(* controller process runs a native goal that edits a workspace and calls  *)
(* one verification tool; each call verifies a snapshot, appends it to the *)
(* draft branch as one commit and waits for CI on exactly that commit. A   *)
(* push can fail, land late or be lost, and the controller, its host or    *)
(* the whole runner can stop between any two steps, so a push is preceded  *)
(* by a synced intent and never repeated: the next call, launch or         *)
(* recovery finds out what became of it, or stops.                         *)
(*                                                                         *)
(* Commits are numbers, commit 1 the empty seed; main is a number that     *)
(* descends from every smaller one, 0 the original base B. Authority reads *)
(* (PR, actor, refs, target) form one step; the write to the remote, its   *)
(* arrival and each installation of a file are steps of their own.         *)
(***************************************************************************)
EXTENDS Integers, Sequences, CommitGraph

CONSTANTS Trees,       \* trees a candidate can have; the seed's is another
          SeedTree,    \* the tree of the original base and of the seed
          Closed,      \* mains on which the fixed target is not admissible
          MaxMain,     \* bound: newest main
          MaxCommits,  \* bound: commits of the draft branch, foreign ones too
          MaxEpochs    \* bound: executions (the first, and recoveries)

ASSUME TreeAssumption == SeedTree \notin Trees
ASSUME MainAssumption == MaxMain \in Nat /\ Closed \subseteq 1..MaxMain
ASSUME BoundAssumption == MaxCommits \in Nat \ {0} /\ MaxEpochs \in Nat \ {0}

VARIABLES
  \* The repository on GitHub.
  commits,   \* the commits that ever existed for the draft branch
  remote,    \* head of the draft branch
  main,      \* head of main
  open,      \* the PR is an open Draft
  green,     \* commits whose required checks are successful now
  flight,    \* pushes under way that can still land
  \* The publication state directory.
  disk,      \* the bundle and the intent as the host sees them
  synced,    \* the same as they would survive a crash of the host
  adopted,   \* the receipt a recovery adopted, kept beside them
  \* The execution.
  epoch,     \* its number; each has a deadline and a state directory of its own
  late,      \* the deadline has passed
  start,     \* head of the launch binding
  pc,        \* the controller
  bound,     \* binding.ExpectedHead
  vbase,     \* binding.VerificationBaseSHA
  work,      \* tree of the workspace
  snap,      \* tree of the snapshot under verification
  new,       \* the commit being published
  accepted,
  res,       \* GoalFlowResult: Head, the digest's tree, VerificationBaseSHA, intent
  handoff,   \* whether the handoff file was written
  \* History.
  pushed,    \* commits a push was started for
  proof      \* the last successful verification and the last green it saw

remoteVars == <<commits, remote, main, open, green, flight>>
diskVars == <<disk, synced, adopted>>
flowVars == <<bound, vbase, work, snap, new, accepted, res>>
bindingVars == <<epoch, late, start>>
goalVars == <<remoteVars, diskVars, bindingVars, pc, flowVars, handoff, pushed, proof>>

Seed == 1
None == 0
Ids == 0..MaxCommits
Mains == 0..MaxMain
Files == [bundle : Ids, intent : Ids]
Empty == [bundle |-> None, intent |-> None]
NoResult == [head |-> None, tree |-> SeedTree, base |-> 0, intent |-> None]
Tool == {"refresh", "verify", "publish", "again", "bundle", "name", "sync", "push",
         "readback", "ci", "observed", "recheck"}

GoalTypeOK ==
  /\ commits \in Seq([parent : Ids, tree : Trees \cup {SeedTree}, base : Mains])
  /\ Len(commits) \in 1..MaxCommits
  /\ remote \in 1..Len(commits) /\ main \in Mains /\ open \in BOOLEAN
  /\ green \subseteq 1..Len(commits) /\ flight \subseteq 1..Len(commits)
  /\ disk \in Files /\ synced \in Files /\ adopted \in Ids
  /\ epoch \in 1..MaxEpochs /\ late \in BOOLEAN /\ start \in 1..Len(commits)
  /\ pc \in {"off", "goal", "final", "finalCI", "done", "ended", "archived", "lost"}
              \cup Tool
  /\ bound \in 1..Len(commits) /\ vbase \in Mains
  /\ work \in Trees \cup {SeedTree} /\ snap \in Trees \cup {SeedTree}
  /\ new \in Ids /\ accepted \in BOOLEAN
  /\ res \in [head : Ids, tree : Trees \cup {SeedTree}, base : Mains, intent : Ids]
  /\ handoff \in BOOLEAN
  /\ pushed \subseteq 1..Len(commits)
  /\ proof \in [tree : Trees \cup {SeedTree}, base : Mains, head : Ids, at : Mains]

GoalInit ==
  /\ commits = <<[parent |-> None, tree |-> SeedTree, base |-> 0]>>
  /\ remote = Seed /\ main = 0 /\ open = TRUE /\ green = {} /\ flight = {}
  /\ disk = Empty /\ synced = Empty /\ adopted = None
  /\ epoch = 1 /\ late = FALSE /\ start = Seed
  /\ pc = "off" /\ bound = Seed /\ vbase = 0
  /\ work = SeedTree /\ snap = SeedTree /\ new = None
  /\ accepted = FALSE /\ res = NoResult /\ handoff = FALSE
  /\ pushed = {}
  /\ proof = [tree |-> SeedTree, base |-> 0, head |-> None, at |-> 0]

\* A commit and its ancestors down to the seed.
Ancestry(c) == Ancestors(commits, c)

Tree(c) == commits[c].tree
Running == pc \in {"goal", "final", "finalCI"} \cup Tool

-----------------------------------------------------------------------------
(* The world around the controller.                                        *)

MainMoves(m) ==
  /\ m # main
  /\ main' = m
  /\ UNCHANGED <<commits, remote, open, green, flight, diskVars, bindingVars, pc,
                 flowVars, handoff, pushed, proof>>

\* Somebody else pushes to the draft branch.
ForeignPush(t) ==
  /\ Len(commits) < MaxCommits
  /\ commits' = Append(commits, [parent |-> remote, tree |-> t, base |-> 0])
  /\ remote' = Len(commits) + 1
  /\ UNCHANGED <<main, open, green, flight, diskVars, bindingVars, pc, flowVars, handoff,
                 pushed, proof>>

\* The PR is closed, merged, or marked ready by somebody else.
PRChanges ==
  /\ open
  /\ open' = FALSE
  /\ UNCHANGED <<commits, remote, main, green, flight, diskVars, bindingVars, pc, flowVars,
                 handoff, pushed, proof>>

\* A CI attempt on the branch head succeeds; a new one takes that back.
CIChanges ==
  /\ remote # Seed
  /\ green' = IF remote \in green THEN green \ {remote} ELSE green \cup {remote}
  /\ UNCHANGED <<commits, remote, main, open, flight, diskVars, bindingVars, pc, flowVars,
                 handoff, pushed, proof>>

\* receive-pack compares the old head and swaps it.
PushLands(c) ==
  /\ c \in flight
  /\ flight' = flight \ {c}
  /\ remote' = IF remote = commits[c].parent THEN c ELSE remote
  /\ UNCHANGED <<commits, main, open, green, diskVars, bindingVars, pc, flowVars, handoff,
                 pushed, proof>>

PushLost(c) ==
  /\ c \in flight
  /\ flight' = flight \ {c}
  /\ UNCHANGED <<commits, remote, main, open, green, diskVars, bindingVars, pc, flowVars,
                 handoff, pushed, proof>>

DeadlinePasses ==
  /\ ~late
  /\ late' = TRUE
  /\ UNCHANGED <<remoteVars, diskVars, epoch, start, pc, flowVars, handoff, pushed, proof>>

\* The goal, and whatever tools it runs beside this one, edits the workspace.
Edit(t) ==
  /\ Running
  /\ work' = t
  /\ UNCHANGED <<remoteVars, diskVars, bindingVars, pc, bound, vbase, snap, new, accepted,
                 res, handoff, pushed, proof>>

-----------------------------------------------------------------------------
(* What the controller reads.                                              *)

\* readGoalPublicationIntent: both files of one attempt, or neither.
IntentReadable == disk.intent # None /\ disk.bundle = disk.intent

\* Mutant: a write is attempted again once its push cannot land any more.
NoEffect ==
  \/ disk = Empty
  \/ IntentReadable /\ remote = commits[disk.intent].parent /\ flight = {}

NoIntent == disk = Empty

\* The intent belongs to this binding, and its push is found on the branch.
IntentObserved ==
  /\ IntentReadable
  /\ bound \in {commits[disk.intent].parent, disk.intent}
  /\ ~late
  /\ remote = disk.intent
  /\ open

\* goalCurrentAuthority
Authority(h) == ~late /\ open /\ remote = h
\* goalCurrent
Current(h) == Authority(h) /\ main = vbase

\* ResolveGoalRebinding decides to run; main descends from the verified base.
Admissible(m) == m = 0 \/ m \notin Closed
MainForHandoff == main = vbase \/ (main > vbase /\ Admissible(main))

\* Any read or preparation can fail, and any failed check ends the tool call.
ToolFails ==
  /\ pc \in Tool \ {"push"}
  /\ pc' = "goal"
  /\ UNCHANGED <<remoteVars, diskVars, bindingVars, flowVars, handoff, pushed, proof>>

-----------------------------------------------------------------------------
(* Launching, and the tool call up to publication.                         *)

\* goal: reconcile, then validate the binding on the checked-out main. A launch
\* that fails a check changes nothing.
Launch ==
  /\ pc = "off"
  /\ ~late
  /\ Admissible(main)
  /\ LET observed == /\ IntentReadable /\ remote = disk.intent /\ open
                     /\ start \in {commits[disk.intent].parent, disk.intent}
     IN /\ NoIntent \/ observed
        /\ bound' = IF NoIntent THEN start ELSE disk.intent
  /\ open /\ remote = bound'
  /\ vbase' = main
  /\ pc' = "goal"
  /\ accepted' = FALSE
  /\ res' = NoResult
  /\ UNCHANGED <<remoteVars, diskVars, bindingVars, work, snap, new, handoff, pushed,
                 proof>>

\* Mutant: a tool call that leaves reconciliation to the publication.
CallToolUnreconciled ==
  /\ pc = "goal"
  /\ pc' = "refresh"
  /\ accepted' = FALSE
  /\ UNCHANGED <<remoteVars, diskVars, bindingVars, bound, vbase, work, snap, new, res,
                 handoff, pushed, proof>>

\* verify_upstream is called: reconcile before anything else.
CallTool ==
  /\ pc = "goal"
  /\ accepted' = FALSE
  /\ \/ /\ NoIntent
        /\ pc' = "refresh"
        /\ UNCHANGED <<bound, res>>
     \/ /\ IntentObserved
        /\ pc' = "refresh"
        /\ bound' = disk.intent
        /\ res' = [res EXCEPT !.head = disk.intent, !.tree = Tree(disk.intent),
                              !.intent = disk.intent]
     \/ /\ ~NoIntent /\ ~IntentObserved
        /\ res' = IF IntentReadable THEN [res EXCEPT !.intent = disk.intent] ELSE res
        /\ UNCHANGED <<pc, bound>>
  /\ UNCHANGED <<remoteVars, diskVars, bindingVars, vbase, work, snap, new, handoff, pushed,
                 proof>>

\* refreshGoalBase
Refresh ==
  /\ pc = "refresh"
  /\ ~late
  /\ main >= vbase /\ Admissible(main)
  /\ vbase' = main
  /\ pc' = "verify"
  /\ UNCHANGED <<remoteVars, diskVars, bindingVars, bound, work, snap, new, accepted, res,
                 handoff, pushed, proof>>

\* VerifyGoal passes on a frozen snapshot of the workspace, against main as it
\* was when the call refreshed its base.
Verify ==
  /\ pc = "verify"
  /\ ~late
  /\ work # SeedTree
  /\ snap' = work
  /\ proof' = [tree |-> work, base |-> vbase, head |-> None, at |-> 0]
  /\ pc' = "publish"
  /\ UNCHANGED <<remoteVars, diskVars, bindingVars, bound, vbase, work, new, accepted, res,
                 handoff, pushed>>

-----------------------------------------------------------------------------
(* AppendGoalDraft.                                                        *)

\* The flow takes over what AppendGoalDraft returned without an error.
Published(h) ==
  /\ bound' = h
  /\ res' = [res EXCEPT !.head = h, !.tree = snap,
                        !.intent = IF disk.intent = None THEN @ ELSE disk.intent]
  /\ pc' = "ci"

\* It reconciles again; an intent with another head than the bound one is
\* returned as it is. A head that has the tree already needs no commit.
AppendGoalDraft ==
  /\ pc = "publish"
  /\ NoIntent \/ IntentObserved
  /\ LET prior == IntentObserved /\ bound # disk.intent
     IN /\ prior \/ Current(bound)
        /\ IF prior \/ Tree(bound) = snap
             THEN Published(IF prior THEN disk.intent ELSE bound)
             ELSE pc' = "again" /\ UNCHANGED <<bound, res>>
  /\ UNCHANGED <<remoteVars, diskVars, bindingVars, vbase, work, snap, new, accepted,
                 handoff, pushed, proof>>

\* commit-tree, the second goalCurrent, the hook and a fresh token.
CommitTree ==
  /\ pc = "again"
  /\ Current(bound)
  /\ Len(commits) < MaxCommits
  /\ commits' = Append(commits, [parent |-> bound, tree |-> snap, base |-> vbase])
  /\ new' = Len(commits) + 1
  /\ pc' = "bundle"
  /\ UNCHANGED <<remote, main, open, green, flight, diskVars, bindingVars, bound, vbase, work,
                 snap, accepted, res, handoff, pushed, proof>>

\* writeGoalPublicationIntent: the bundle, then the intent, then the directory.
InstallBundle ==
  /\ pc = "bundle"
  /\ ~late
  /\ disk' = [disk EXCEPT !.bundle = new]
  /\ pc' = "name"
  /\ UNCHANGED <<remoteVars, synced, adopted, bindingVars, flowVars, handoff, pushed, proof>>

InstallIntent ==
  /\ pc = "name"
  /\ disk' = [disk EXCEPT !.intent = new]
  /\ pc' = "sync"
  /\ UNCHANGED <<remoteVars, synced, adopted, bindingVars, flowVars, handoff, pushed, proof>>

\* Mutant: the directory is not synced before the push.
SyncStateNot ==
  /\ pc = "sync"
  /\ res' = [res EXCEPT !.intent = new]
  /\ pc' = "push"
  /\ UNCHANGED <<remoteVars, diskVars, bindingVars, bound, vbase, work, snap, new,
                 accepted, handoff, pushed, proof>>

SyncState ==
  /\ pc = "sync"
  /\ synced' = disk
  /\ res' = [res EXCEPT !.intent = new]
  /\ pc' = "push"
  /\ UNCHANGED <<remoteVars, disk, adopted, bindingVars, bound, vbase, work, snap, new,
                 accepted, handoff, pushed, proof>>

\* The one push. The pre-push hook stops it unless the server still advertises
\* the bound head; an expired context does not start it.
Push ==
  /\ pc = "push"
  /\ pc' = "readback"
  /\ \/ /\ remote = bound /\ ~late
        /\ flight' = flight \cup {new}
        /\ pushed' = pushed \cup {new}
     \/ /\ remote # bound \/ late
        /\ UNCHANGED <<flight, pushed>>
  /\ UNCHANGED <<commits, remote, main, open, green, diskVars, bindingVars, flowVars, handoff,
                 proof>>

\* One readback, whatever the push said, also after the deadline. Git confirms
\* the effect and moves the binding even when main has moved.
Readback ==
  /\ pc = "readback"
  /\ remote = new /\ open
  /\ bound' = new
  /\ res' = [res EXCEPT !.head = new, !.tree = snap]
  /\ pc' = IF main = vbase THEN "ci" ELSE "goal"
  /\ UNCHANGED <<remoteVars, diskVars, bindingVars, vbase, work, snap, new, accepted, handoff,
                 pushed, proof>>

-----------------------------------------------------------------------------
(* CI, acceptance and completion.                                          *)

\* ObserveGoalCI: the identities, the checks, the identities again.
ObserveGoalCI ==
  /\ pc = "ci"
  /\ Current(res.head)
  /\ res.head \in green
  /\ proof' = [proof EXCEPT !.head = res.head, !.at = main]
  /\ pc' = "observed"
  /\ UNCHANGED <<remoteVars, diskVars, bindingVars, flowVars, handoff, pushed>>

ObservedCurrent ==
  /\ pc = "observed"
  /\ Current(res.head)
  /\ pc' = "recheck"
  /\ UNCHANGED <<remoteVars, diskVars, bindingVars, flowVars, handoff, pushed, proof>>

\* The workspace still has the bytes that were verified.
Accept ==
  /\ pc = "recheck"
  /\ work = snap
  /\ accepted' = TRUE
  /\ res' = [res EXCEPT !.base = vbase]
  /\ pc' = "goal"
  /\ UNCHANGED <<remoteVars, diskVars, bindingVars, bound, vbase, work, snap, new, handoff,
                 pushed, proof>>

\* The native goal completes; without an acceptance that is a failure (Stop).
GoalCompletes ==
  /\ pc = "goal"
  /\ accepted
  /\ pc' = "final"
  /\ UNCHANGED <<remoteVars, diskVars, bindingVars, flowVars, handoff, pushed, proof>>

\* The workspace again, then observeCompletedGoalCI, whose main may advance.
FinalObserve ==
  /\ pc = "final"
  /\ work = res.tree
  /\ Authority(res.head) /\ MainForHandoff
  /\ res.head \in green
  /\ pc' = "finalCI"
  /\ UNCHANGED <<remoteVars, diskVars, bindingVars, flowVars, handoff, pushed, proof>>

\* The second guard, and CompletedGoalHandoff.
Complete ==
  /\ pc = "finalCI"
  /\ Authority(res.head) /\ MainForHandoff
  /\ Tree(res.head) # SeedTree
  /\ handoff' = TRUE
  /\ pc' = "done"
  /\ UNCHANGED <<remoteVars, diskVars, bindingVars, flowVars, pushed, proof>>

\* The memory of the controller is gone; the workspace is not.
Forgotten ==
  /\ bound' = start /\ vbase' = 0 /\ snap' = SeedTree /\ new' = None
  /\ accepted' = FALSE
  /\ UNCHANGED work

\* The goal stops, is cancelled, reaches its deadline or fails a final check:
\* the result is written and the controller exits.
Stop ==
  /\ Running
  /\ pc' = "ended"
  /\ Forgotten
  /\ UNCHANGED <<remoteVars, diskVars, bindingVars, res, handoff, pushed, proof>>

-----------------------------------------------------------------------------
(* Failures, and recovery.                                                 *)

\* The controller dies; what it installed stays, and so does the result file
\* of the preparation.
Crash ==
  /\ Running
  /\ pc' = "off"
  /\ Forgotten /\ res' = NoResult
  /\ UNCHANGED <<remoteVars, diskVars, bindingVars, handoff, pushed, proof>>

\* The host dies: of the renames not yet synced any may be lost.
HostCrash ==
  /\ Running
  /\ pc' = "off"
  /\ \E b \in {disk.bundle, synced.bundle}, i \in {disk.intent, synced.intent} :
       disk' = [bundle |-> b, intent |-> i]
  /\ synced' = disk'
  /\ Forgotten /\ res' = NoResult
  /\ UNCHANGED <<remoteVars, adopted, bindingVars, handoff, pushed, proof>>

\* The runner is lost before its evidence is retained.
RunnerLost ==
  /\ pc \in {"off", "ended"} \/ Running
  /\ pc' = "lost"
  /\ disk' = Empty /\ synced' = Empty
  /\ Forgotten /\ res' = NoResult
  /\ UNCHANGED <<remoteVars, adopted, bindingVars, handoff, pushed, proof>>

\* The workflow ends unsuccessfully and retains its evidence, also when the
\* step after the handoff fails.
Archive ==
  /\ pc \in {"off", "ended", "done"}
  /\ pc' = "archived"
  /\ Forgotten
  /\ handoff' = FALSE
  /\ UNCHANGED <<remoteVars, diskVars, bindingVars, res, pushed, proof>>

\* The receipt recovery reads: the active one, or one adopted before when there
\* is nothing active and the head is still the launch head.
NothingActive == disk = Empty
Receipt == IF NothingActive THEN adopted ELSE disk.intent

\* RecoverGoalDraft, an explicit operator request for a new execution, which
\* sets a new deadline when the old one has passed: given the receipt, headOK
\* says whether the live head may be continued, from head h. Main has to be
\* contained in the branch, whose commits descend from B alone. The execution
\* starts with an empty state directory.
RecoverGoalDraft(headOK, h) ==
  /\ pc = "archived"
  /\ epoch < MaxEpochs
  /\ open
  /\ main = 0
  /\ start \in Ancestry(remote)
  /\ res.intent # None => disk.intent = res.intent
  /\ NothingActive \/ IntentReadable
  /\ \/ /\ Receipt = None
        /\ remote = Seed /\ res.head = None
     \/ /\ Receipt # None
        /\ NothingActive => Receipt = start
        /\ commits[Receipt].base = 0
        /\ headOK
        /\ res.head \in {None, remote}
  /\ epoch' = epoch + 1
  /\ late' = FALSE
  /\ start' = h
  /\ bound' = h
  /\ work' = Tree(remote)
  /\ adopted' = Receipt
  /\ disk' = Empty /\ synced' = Empty
  /\ pc' = "off"
  /\ res' = NoResult
  /\ UNCHANGED <<remoteVars, vbase, snap, new, accepted, handoff, pushed, proof>>

\* Mutants: recovery binds to the receipt's head without one, continues a head
\* that descends from the intended one, or the head before a push that failed.
RecoverReceipt == RecoverGoalDraft(remote = Receipt, Receipt)
RecoverDescendant == RecoverGoalDraft(Receipt \in Ancestry(remote), remote)
RecoverPrevious ==
  RecoverGoalDraft(remote = commits[Receipt].parent /\ flight = {}, remote)

Recover == RecoverGoalDraft(remote = Receipt, remote)

-----------------------------------------------------------------------------
Controller ==
  \/ Launch \/ CallTool \/ Refresh \/ Verify \/ AppendGoalDraft \/ CommitTree
  \/ InstallBundle \/ InstallIntent \/ SyncState \/ Push \/ Readback
  \/ ObserveGoalCI \/ ObservedCurrent \/ Accept \/ GoalCompletes \/ FinalObserve
  \/ Complete \/ ToolFails \/ Stop

World ==
  \/ \E m \in Mains : MainMoves(m)
  \/ \E t \in Trees : ForeignPush(t) \/ Edit(t)
  \/ PRChanges \/ CIChanges \/ DeadlinePasses
  \/ \E c \in flight : PushLands(c) \/ PushLost(c)

GoalNext ==
  \/ Controller \/ World
  \/ Crash \/ HostCrash \/ RunnerLost \/ Archive \/ Recover

GoalSpec == GoalInit /\ [][GoalNext]_goalVars

-----------------------------------------------------------------------------
(* What publication promises.                                              *)

Writes == INSTANCE SerialWrites WITH Commits <- Ids, started <- pushed,
                                     landed <- pushed \cap Ancestry(remote)

\* No write is ever repeated, and none of ours races another, over all calls,
\* launches and recoveries: a push is started only when every earlier one has
\* been found on the branch, and after one that never lands there is no other.
OneAtATime == Writes!Spec

\* As long as a push can still land, whoever looks at the state directory or
\* at the evidence retained from it finds the intent: no crash of the
\* controller or of its host makes it forget a write it started.
WriteAhead ==
  pc # "lost" => \A c \in flight : synced.intent = c /\ disk.intent = c

\* The controller binds to the head it was launched with or to one it pushed,
\* never to a commit of somebody else that it found on the branch.
OwnHead == bound \in pushed \cup {Seed} /\ start \in pushed \cup {Seed}

\* What is accepted, and what is handed off, is the commit whose exact tree
\* passed local verification on the recorded main, and whose checks were seen
\* successful while it was the branch head on that main.
AcceptedExact ==
  accepted \/ handoff => /\ Tree(res.head) = proof.tree
                         /\ res.tree = proof.tree
                         /\ res.base = proof.base
                         /\ proof.head = res.head
                         /\ proof.at = proof.base
                         /\ res.head \in pushed

\* A recovered execution starts on top of every commit a push was ever started
\* for: recovery neither forgets a write that may still land nor drops one that
\* did.
NothingDiscarded ==
  [][epoch' # epoch => pushed \subseteq Ancestry(start')]_goalVars

\* Across lost pushes, crashes and relaunches: nothing is pushed without a durable
\* intent, the runner's head is its own, what is accepted is what was verified, and
\* no published work is discarded.
GoalSound == [](GoalTypeOK /\ WriteAhead /\ OwnHead /\ AcceptedExact) /\ NothingDiscarded
=============================================================================
