---------------------------- MODULE AutoForward ----------------------------
(***************************************************************************)
(* From a completed handoff to main. ReadyGoal marks the Draft PR ready;   *)
(* AutoForward then brings its head up to date with main, proves each pair *)
(* of main and head, waits for the required checks of exactly that head    *)
(* and fast-forwards main to it. Main, the branch, the PR and the checks   *)
(* are shared with everybody else and move between any two steps; a write  *)
(* may be refused, be lost or land after its sender gave it up.            *)
(*                                                                         *)
(* A commit is a number: 1 the accepted base, on which the handoff was     *)
(* verified, 2 the seed of the draft branch, 3 the handoff. An observation *)
(* (PR, main, branch, writer) is one step. Where the code gives up (a      *)
(* refusal, a failed read, the deadline) the model may always do so:       *)
(* Blocked stands for every failing return and for the end of the process. *)
(***************************************************************************)
EXTENDS Integers, Sequences, CommitGraph

CONSTANTS MaxGraph,    \* bound: commits of the repository
          MaxRuns,     \* bound: invocations of the controller
          MaxMoves     \* bound: changes of main, branch or PR by others

ASSUME ForwardAssumption ==
  MaxGraph \in Nat /\ MaxGraph >= 3 /\ MaxRuns \in Nat \ {0} /\ MaxMoves \in Nat

VARIABLES
  \* The repository on GitHub.
  graph,     \* its commits
  refMain,   \* head of main
  refHead,   \* head of the branch, or Gone
  refWriter, \* who moved the branch last
  pr,        \* the pull request
  headChecks, \* the required checks of each commit
  writes,    \* writes under way that can still take effect
  moves,     \* changes by others so far
  \* The controller.
  fixed,     \* the handoff has a fixed upstream target; without, a manual request
  fpc,
  fhead,     \* result.Head
  fmain,     \* state.Main
  next,      \* the reconciled candidate
  lastMain,
  proofs,
  failures,  \* semanticFailures
  runs,      \* invocations so far
  \* History.
  proved,    \* pairs of main and head that any invocation verified
  reached    \* candidates of the controller that main has contained

hubVars == <<graph, refMain, refHead, refWriter, pr, headChecks, moves, reached>>
pairVars == <<proofs, failures, proved>>
boundVars == <<fixed, runs>>
forwardVars == <<hubVars, writes, boundVars, fpc, fhead, fmain, next, lastMain, pairVars>>

Gone == 0
Base == 1
DraftSeed == 2
Handoff == 3
Known == 1..Len(graph)
HeadCheckStates == {"pending", "green", "again", "red"}

\* Who made a commit, whether it carries the fixed target or a newer one, and
\* the version of the gates and controls in its tree.
Commit == [parent : 0..MaxGraph, by : {"base", "app", "others", "own"},
           carries : BOOLEAN, gates : 0..1]
Write == [ref : {"branch", "main", "ready"}, old : 0..MaxGraph, new : 0..MaxGraph]

ForwardTypeOK ==
  /\ graph \in Seq(Commit) /\ Len(graph) \in 3..MaxGraph
  /\ refMain \in Known /\ refHead \in Known \cup {Gone}
  /\ refWriter \in {"publisher", "integrator", "others"}
  /\ pr \in {"draft", "ready", "closed", "merged"}
  /\ headChecks \in [1..MaxGraph -> HeadCheckStates]
  /\ writes \subseteq Write /\ moves \in 0..MaxMoves
  /\ fixed \in BOOLEAN
  /\ fpc \in {"handoff", "fresh", "mark", "marked", "settled", "read", "verify", "rebase",
              "publish", "lease", "readback", "checks", "review", "again", "forward",
              "gate", "main", "confirm", "cleanup", "delete", "deleted", "integrated", "ended"}
  /\ fhead \in Known /\ fmain \in Known /\ next \in Known \cup {Gone}
  /\ lastMain \in Known
  /\ proofs \subseteq Known \X Known /\ proved \subseteq Known \X Known
  /\ failures \subseteq Known \X Known
  /\ runs \in 1..MaxRuns
  /\ reached \subseteq Known

\* A commit and its ancestors.
Contains(c) == Ancestors(graph, c)

ForwardInit ==
  /\ fixed \in BOOLEAN
  /\ \E g \in 0..1 :
       graph = <<[parent |-> 0, by |-> "base", carries |-> FALSE, gates |-> 0],
                 [parent |-> Base, by |-> "app", carries |-> FALSE, gates |-> 0],
                 [parent |-> DraftSeed, by |-> "app", carries |-> TRUE, gates |-> g]>>
  /\ refMain = Base /\ refHead = Handoff /\ refWriter = "publisher"
  /\ pr = IF fixed THEN "draft" ELSE "ready"
  /\ headChecks = [c \in 1..MaxGraph |-> "pending"]
  /\ writes = {} /\ moves = 0
  /\ fpc = IF fixed THEN "handoff" ELSE "read"
  /\ fhead = Handoff /\ fmain = Base /\ next = Gone /\ lastMain = Base
  /\ proofs = {<<Base, Handoff>>} /\ proved = {<<Base, Handoff>>} /\ failures = {}
  /\ runs = 1 /\ reached = {}

-----------------------------------------------------------------------------
(* Everybody else, and GitHub.                                             *)

\* Main moves to m; which of the controller's candidates does it contain?
MainIs(m) ==
  /\ refMain' = m
  /\ reached' = reached \cup {c \in Contains(m) : graph[c].by \in {"app", "own"}}

\* Somebody pushes a commit of their own to main, or merges one that exists.
RivalMerges ==
  /\ \E c \in Known \ {refMain} : refMain \in Contains(c) /\ MainIs(c)
  /\ UNCHANGED <<graph, refHead, refWriter, pr, headChecks>>

RivalCommits ==
  /\ Len(graph) < MaxGraph
  /\ \E t \in BOOLEAN, g \in 0..1 :
       graph' = Append(graph, [parent |-> refMain, by |-> "others",
                               carries |-> t \/ graph[refMain].carries, gates |-> g])
  /\ refMain' = Len(graph')
  /\ UNCHANGED <<refHead, refWriter, pr, headChecks, reached>>

\* An administrator puts main back.
MainResets ==
  /\ \E c \in Contains(refMain) \ {refMain} : MainIs(c)
  /\ UNCHANGED <<graph, refHead, refWriter, pr, headChecks>>

\* Somebody edits the branch, or puts an earlier head back.
BranchEdited ==
  /\ \/ /\ Len(graph) < MaxGraph /\ refHead # Gone
        /\ graph' = Append(graph, [graph[refHead] EXCEPT !.parent = refHead, !.by = "others"])
        /\ refHead' = Len(graph')
     \/ refHead' \in Known \ {refHead} /\ UNCHANGED graph
  /\ refWriter' = "others"
  /\ UNCHANGED <<refMain, pr, headChecks, reached>>

\* The PR is closed, reopened or converted.
PRMoves ==
  /\ \/ pr = "draft" /\ pr' \in {"ready", "closed"}
     \/ pr = "ready" /\ pr' \in {"draft", "closed"}
     \/ pr = "closed" /\ pr' \in {"draft", "ready"}
  /\ UNCHANGED <<graph, refMain, refHead, refWriter, headChecks, reached>>

\* GitHub finds the head of the PR in main.
PRMerges ==
  /\ pr \in {"draft", "ready"} /\ refHead \in Contains(refMain)
  /\ pr' = "merged"
  /\ UNCHANGED <<graph, refMain, refHead, refWriter, headChecks, reached>>

\* "again" is a check that runs again after it was green once.
ChecksMove ==
  /\ refHead # Gone /\ graph[refHead].by # "others"
  /\ \E s \in HeadCheckStates :
       /\ <<headChecks[refHead], s>> \in {<<"pending", "green">>, <<"pending", "red">>,
                                      <<"green", "again">>, <<"again", "green">>}
       /\ headChecks' = [headChecks EXCEPT ![refHead] = s]
  /\ UNCHANGED <<graph, refMain, refHead, refWriter, pr, reached>>

\* They matter while the controller runs or a write of its can still land.
Hub ==
  /\ fpc \notin {"ended", "integrated"} \/ writes # {}
  /\ \/ /\ RivalMerges \/ RivalCommits \/ MainResets \/ BranchEdited \/ PRMoves
        /\ moves < MaxMoves
        /\ moves' = moves + 1
     \/ (PRMerges \/ ChecksMove) /\ UNCHANGED moves
  /\ UNCHANGED <<writes, boundVars, fpc, fhead, fmain, next, lastMain, pairVars>>

\* receive-pack swaps a ref only when it still is what the push expects.
WriteLands(w) ==
  /\ w \in writes
  /\ writes' = writes \ {w}
  /\ \/ /\ w.ref = "branch" /\ refHead = w.old
        /\ refHead' = w.new /\ refWriter' = "integrator"
        /\ UNCHANGED <<graph, refMain, pr, headChecks, reached>>
     \/ /\ w.ref = "main" /\ refMain = w.old
        /\ MainIs(w.new)
        /\ UNCHANGED <<graph, refHead, refWriter, pr, headChecks>>
     \/ /\ w.ref = "ready" /\ pr = "draft"
        /\ pr' = "ready"
        /\ UNCHANGED <<graph, refMain, refHead, refWriter, headChecks, reached>>
  /\ UNCHANGED <<moves, boundVars, fpc, fhead, fmain, next, lastMain, pairVars>>

WriteLost(w) ==
  /\ w \in writes
  /\ writes' = writes \ {w}
  /\ UNCHANGED <<hubVars, boundVars, fpc, fhead, fmain, next, lastMain, pairVars>>

-----------------------------------------------------------------------------
(* What the controller reads.                                              *)

\* Mutant: a green check of any commit counts.
GreenAnywhere(h) == \E c \in 1..MaxGraph : headChecks[c] = "green"

Green(h) == headChecks[h] = "green"

\* The branch was last written by the App that is bound to write this head.
BoundWriter(h) == refWriter = IF h = Handoff THEN "publisher" ELSE "integrator"

\* Read fails when main no longer contains the main read before, or when
\* another writer put the expected head there.
Monotonic == lastMain \in Contains(refMain)
Readable(h) == Monotonic /\ (fixed /\ refHead = h => BoundWriter(h))
Looks == lastMain' = IF Monotonic THEN refMain ELSE lastMain
Read(h) == Readable(h) /\ Looks

StillReady(h, m) == pr = "ready" /\ refHead = h /\ refMain = m

\* Main has neither the fixed target nor a newer one.
ForwardPolicy(m) == fixed => ~graph[m].carries

\* The head changes no gate of main, and is not one whose proof failed. The
\* manual request is exempt for the pair it was made for.
Controls(m, h) == graph[m].gates = graph[h].gates
Exempt(m, h) == ~fixed /\ m = Base /\ h = Handoff

\* Mutant: a proof that is known is believed before the gates are compared.
MayVerifyCached(m, h) ==
  /\ Controls(m, h) \/ <<m, h>> \in proofs
  /\ <<m, h>> \notin failures

MayVerify(m, h) ==
  /\ Controls(m, h) \/ Exempt(m, h)
  /\ <<m, h>> \notin failures

Proves(m, h) ==
  /\ proofs' = proofs \cup {<<m, h>>}
  /\ proved' = proved \cup {<<m, h>>}
  /\ UNCHANGED failures

Goto(s) == fpc' = s /\ UNCHANGED <<hubVars, boundVars>>

Sends(w) == writes' = writes \cup {w}

-----------------------------------------------------------------------------
(* ReadyGoal.                                                              *)

\* goalHandoffCurrent: main may only have advanced, and still admits the target.
HandoffCurrent ==
  /\ Base \in Contains(refMain) /\ ForwardPolicy(refMain)
  /\ pr \in {"draft", "ready"}
  /\ refHead = Handoff /\ refWriter = "publisher"

CheckHandoff ==
  /\ \/ fpc = "handoff" /\ HandoffCurrent /\ Goto("fresh")
     \/ /\ fpc = "fresh" /\ Green(Handoff) /\ Goto("mark")
  /\ UNCHANGED <<writes, fhead, fmain, next, lastMain, pairVars>>

MarkReady ==
  /\ fpc = "mark"
  /\ HandoffCurrent
  /\ \/ pr = "ready" /\ Goto("read") /\ UNCHANGED writes
     \/ /\ pr = "draft" /\ Goto("marked")
        /\ Sends([ref |-> "ready", old |-> Gone, new |-> Gone])
  /\ UNCHANGED <<fhead, fmain, next, lastMain, pairVars>>

\* The answer of the mutation is no authority: the PR is.
ConfirmReady ==
  /\ \/ fpc = "marked" /\ HandoffCurrent /\ pr = "ready" /\ Goto("settled")
     \/ fpc = "settled" /\ Green(Handoff) /\ HandoffCurrent /\ Goto("read")
  /\ UNCHANGED <<writes, fhead, fmain, next, lastMain, pairVars>>

-----------------------------------------------------------------------------
(* The loop of AutoForward.                                                *)

FindIntegrated ==
  /\ fpc = "read"
  /\ Read(fhead)
  /\ fhead \in Contains(refMain)
  /\ fmain' = refMain
  /\ Goto("cleanup")
  /\ UNCHANGED <<writes, fhead, next, pairVars>>

FindCandidate ==
  /\ fpc = "read"
  /\ Read(fhead)
  /\ fhead \notin Contains(refMain)
  /\ pr = "ready" /\ refHead = fhead
  /\ ForwardPolicy(refMain)
  /\ fmain' = refMain
  /\ Goto(IF refMain \in Contains(fhead) THEN "verify" ELSE "rebase")
  /\ UNCHANGED <<writes, fhead, next, pairVars>>

PairVerified ==
  /\ fpc = "verify"
  /\ MayVerify(fmain, fhead)
  /\ Proves(fmain, fhead)
  /\ Goto("checks")
  /\ UNCHANGED <<writes, fhead, fmain, next, lastMain>>

\* Another main under the same ready head.
MainMoved == Readable(fhead) /\ pr = "ready" /\ refHead = fhead /\ refMain # fmain

\* The local proof of this very pair ended with a failed assertion; the result
\* is kept, and the candidate goes to repair unless main has moved.
ProofFails ==
  /\ fpc = "verify"
  /\ fixed /\ Controls(fmain, fhead) /\ <<fmain, fhead>> \notin proofs
  /\ Looks
  /\ failures' = failures \cup {<<fmain, fhead>>}
  /\ Goto(IF MainMoved THEN "read" ELSE "rebase")
  /\ UNCHANGED <<writes, fhead, fmain, next, proofs, proved>>

\* Verification or reconciliation failed and main has moved: once more.
Retry ==
  /\ fpc \in {"verify", "rebase"}
  /\ MainMoved /\ Looks
  /\ Goto("read")
  /\ UNCHANGED <<writes, fhead, fmain, next, pairVars>>

\* The reconciled candidate n, proved on fmain before it is published.
Reconciled(g) ==
  /\ Len(graph) < MaxGraph
  /\ graph' = Append(graph, [parent |-> fmain, by |-> "own", carries |-> TRUE, gates |-> g])
  /\ next' = Len(graph')
  /\ graph[fmain].gates = g
  /\ Proves(fmain, next')
  /\ fpc' = "publish"
  /\ UNCHANGED <<refMain, refHead, refWriter, pr, headChecks, moves, reached, boundVars, writes,
                 fhead, fmain>>

\* A clean rebase keeps the candidate's change of the gates, if it has one.
Rebase ==
  /\ fpc = "rebase"
  /\ fmain \notin Contains(fhead)
  /\ Reconciled(IF graph[fhead].gates # graph[graph[fhead].parent].gates
                THEN graph[fhead].gates ELSE graph[fmain].gates)
  /\ UNCHANGED lastMain

\* The fresh repair, bound to a main and a head that have not moved.
Repair ==
  /\ fpc = "rebase"
  /\ fixed
  /\ Read(fhead)
  /\ StillReady(fhead, fmain) /\ ForwardPolicy(fmain)
  /\ \E g \in 0..1 : Reconciled(g)

PublishHead ==
  /\ fpc = "publish"
  /\ Read(fhead)
  /\ StillReady(fhead, fmain) /\ ForwardPolicy(fmain)
  /\ MayVerify(fmain, next)
  /\ Goto("lease")
  /\ UNCHANGED <<writes, fhead, fmain, next, pairVars>>

\* Mutant: the branch is forced, whatever its head.
LeaseForced == refHead

\* --force-with-lease: the head that is replaced is the one the candidate came from.
Lease == fhead

PushBranch ==
  /\ fpc = "lease"
  /\ Sends([ref |-> "branch", old |-> Lease, new |-> next])
  /\ Goto("readback")
  /\ UNCHANGED <<fhead, fmain, next, lastMain, pairVars>>

\* Publish failed and wrote nothing.
PublishRefused ==
  /\ fpc \in {"publish", "lease"}
  /\ (fpc = "publish" /\ Looks) \/ UNCHANGED lastMain
  /\ Goto("readback")
  /\ UNCHANGED <<writes, fhead, fmain, next, pairVars>>

\* Mutant: the candidate is cleared before it becomes the head.
BranchReadbackSwapped ==
  /\ fpc = "readback"
  /\ Read(next)
  /\ refHead = next
  /\ next' = Gone
  /\ fhead' = next'
  /\ Goto("read")
  /\ UNCHANGED <<writes, fmain, pairVars>>

BranchReadback ==
  /\ fpc = "readback"
  /\ Read(next)
  /\ \/ refHead = next /\ fhead' = next
     \/ refHead = fhead /\ refMain # fmain /\ pr = "ready" /\ UNCHANGED fhead
  /\ next' = Gone
  /\ Goto("read")
  /\ UNCHANGED <<writes, fmain, pairVars>>

-----------------------------------------------------------------------------
(* The checks, and the write to main.                                      *)

ObserveChecks ==
  /\ fpc = "checks"
  /\ \/ Green(fhead) /\ Goto("review")
     \/ headChecks[fhead] \in {"pending", "again"} /\ Goto("read")
  /\ UNCHANGED <<writes, fhead, fmain, next, lastMain, pairVars>>

Review ==
  /\ fpc = "review"
  /\ Read(fhead)
  /\ pr = "ready" /\ refHead = fhead
  /\ Goto(IF refMain = fmain THEN "again" ELSE "read")
  /\ UNCHANGED <<writes, fhead, fmain, next, pairVars>>

ChecksAgain ==
  /\ fpc = "again"
  /\ Green(fhead)
  /\ Goto("forward")
  /\ UNCHANGED <<writes, fhead, fmain, next, lastMain, pairVars>>

Forward ==
  /\ fpc = "forward"
  /\ Read(fhead)
  /\ StillReady(fhead, fmain)
  /\ fmain \in Contains(fhead)
  /\ MayVerify(fmain, fhead)
  /\ Goto("gate")
  /\ UNCHANGED <<writes, fhead, fmain, next, pairVars>>

Gate ==
  /\ fpc = "gate"
  /\ Green(fhead) /\ ForwardPolicy(fmain)
  /\ Goto("main")
  /\ UNCHANGED <<writes, fhead, fmain, next, lastMain, pairVars>>

\* Mutant: an ordinary push, which only wants main to fast-forward.
AdvertisedAncestor == refMain \in Contains(fhead)

\* The pre-push hook: the advertised main is the one that was proved.
Advertised == refMain = fmain

PushMain ==
  /\ fpc = "main"
  /\ Advertised
  /\ Sends([ref |-> "main", old |-> refMain, new |-> fhead])
  /\ Goto("confirm")
  /\ UNCHANGED <<fhead, fmain, next, lastMain, pairVars>>

ForwardRefused ==
  /\ fpc \in {"forward", "gate", "main"}
  /\ (fpc = "forward" /\ Looks) \/ UNCHANGED lastMain
  /\ Goto("confirm")
  /\ UNCHANGED <<writes, fhead, fmain, next, pairVars>>

ConfirmMain ==
  /\ fpc = "confirm"
  /\ Read(fhead)
  /\ \/ fhead \in Contains(refMain)
     \/ refHead = fhead /\ refMain # fmain
  /\ Goto("read")
  /\ UNCHANGED <<writes, fhead, fmain, next, pairVars>>

-----------------------------------------------------------------------------
(* Cleanup.                                                                *)

\* Mutant: the branch goes as soon as main has the candidate.
CleanupEagerly ==
  /\ fpc = "cleanup"
  /\ Read(fhead)
  /\ fhead \in Contains(refMain)
  /\ \/ refHead = Gone /\ Goto("integrated")
     \/ refHead = fhead /\ Goto("delete")
  /\ UNCHANGED <<writes, fhead, fmain, next, pairVars>>

\* Until GitHub says merged, Cleanup reads again after a pause.
Cleanup ==
  /\ fpc = "cleanup"
  /\ Read(fhead)
  /\ fhead \in Contains(refMain)
  /\ \/ pr = "ready" /\ Goto("cleanup")
     \/ pr = "merged" /\ refHead = Gone /\ Goto("integrated")
     \/ pr = "merged" /\ refHead = fhead /\ Goto("delete")
  /\ UNCHANGED <<writes, fhead, fmain, next, pairVars>>

DeleteBranch ==
  /\ fpc = "delete"
  /\ Sends([ref |-> "branch", old |-> Lease, new |-> Gone])
  /\ Goto("deleted")
  /\ UNCHANGED <<fhead, fmain, next, lastMain, pairVars>>

Deleted ==
  /\ fpc = "deleted"
  /\ refHead = Gone
  /\ Goto("integrated")
  /\ UNCHANGED <<writes, fhead, fmain, next, lastMain, pairVars>>

-----------------------------------------------------------------------------
\* An error, a refusal, another outcome of the policy, the deadline or the end
\* of the process. Writes under way are not taken back.
Blocked ==
  /\ fpc \notin {"ended", "integrated"}
  /\ Goto("ended")
  /\ UNCHANGED <<writes, fhead, fmain, next, lastMain, pairVars>>

\* The workflow is run again with the same handoff; it knows nothing of before.
RunAgain ==
  /\ fpc = "ended"
  /\ runs < MaxRuns
  /\ runs' = runs + 1
  /\ fpc' = "read" /\ fhead' = Handoff /\ fmain' = Base /\ next' = Gone /\ lastMain' = Base
  /\ proofs' = {<<Base, Handoff>>} /\ failures' = {}
  /\ UNCHANGED <<hubVars, writes, fixed, proved>>

Integrate ==
  \/ FindIntegrated \/ FindCandidate \/ PairVerified \/ ProofFails \/ Retry \/ Rebase \/ Repair
  \/ PublishHead \/ PushBranch \/ PublishRefused \/ BranchReadback
  \/ ObserveChecks \/ Review \/ ChecksAgain \/ Forward \/ Gate \/ PushMain \/ ForwardRefused
  \/ ConfirmMain \/ Cleanup \/ DeleteBranch \/ Deleted \/ Blocked \/ RunAgain

ForwardNext ==
  \/ Hub \/ CheckHandoff \/ MarkReady \/ ConfirmReady \/ Integrate
  \/ \E w \in writes : WriteLands(w) \/ WriteLost(w)

ForwardSpec == ForwardInit /\ [][ForwardNext]_forwardVars

-----------------------------------------------------------------------------
\* The controller moved main, the branch.
MovesMain == \E w \in writes : w.ref = "main" /\ WriteLands(w)
MovesBranch == \E w \in writes : w.ref = "branch" /\ WriteLands(w)

\* The integration writes main only as a fast-forward from exactly the main on
\* which the new head was proved, however late the write lands and whoever else
\* pushed (Forward and the pre-push hook).
MainProved ==
  [][MovesMain => /\ refMain \in Contains(refMain')
                  /\ <<refMain, refMain'>> \in proved]_forwardVars

\* The integration never changes the gates and controls of main: such a head
\* needs the reviewed manual request, for exactly the pair it was made for
\* (Verify, validateForwardControls).
GatesKept ==
  [][MovesMain => Controls(refMain, refMain') \/ Exempt(refMain, refMain')]_forwardVars

\* A write of main is only ever sent for a head whose own checks were green,
\* never on the strength of the head it was rebuilt from (Checks, Gate).
ChecksAreOwn == \A w \in writes : w.ref = "main" => headChecks[w.new] \in {"green", "again"}

\* A write of the branch never removes somebody's edit, and deletes only a
\* candidate that main has contained (the leases of Publish and Cleanup).
NothingLost ==
  [][MovesBranch => /\ graph[refHead].by # "others"
                    /\ refHead' = Gone => refHead \in reached]_forwardVars

\* "integrated" is reported only for a candidate that main has contained and
\* whose PR GitHub has merged (AutoForward, Cleanup).
IntegratedMeansMerged == fpc = "integrated" => fhead \in reached /\ pr = "merged"

\* Main moves only to what was proved against it, with its gates kept and checks of
\* its own; nobody's commits are lost; integrated means merged.
ForwardSound ==
  /\ [](ForwardTypeOK /\ ChecksAreOwn /\ IntegratedMeansMerged)
  /\ MainProved /\ GatesKept /\ NothingLost
=============================================================================
