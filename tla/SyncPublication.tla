-------------------------- MODULE SyncPublication --------------------------
(***************************************************************************)
(* The mechanical path: Sync looks for a pending publication, plans and    *)
(* builds one candidate commit; Publish puts it on its branch and keeps    *)
(* one pull request that describes it. Invocations follow each other, but  *)
(* one may end anywhere, and a push or a write of the pull request may be  *)
(* lost or land after its sender is gone. People push, edit, close, merge  *)
(* and delete in between.                                                  *)
(*                                                                         *)
(* Upstream versions are numbers on the stable track; a tag never moves.   *)
(* The list of pull requests is one read, the refs and the pull request    *)
(* that InspectPending looks at afterwards are another.                    *)
(***************************************************************************)
EXTENDS Integers, Sequences

CONSTANTS Versions,     \* upstream versions, newer than the first baseline 0
          MaxMain,      \* bound: commits of main
          MaxPulls,     \* bound: pull requests
          MaxAttempts,  \* bound: invocations
          MaxPeople     \* bound: changes by people

ASSUME SyncAssumption ==
  /\ Versions \subseteq Nat \ {0} /\ Versions # {}
  /\ MaxMain \in Nat \ {0} /\ MaxPulls \in Nat /\ MaxAttempts \in Nat /\ MaxPeople \in Nat

VARIABLES
  mains,     \* main: the version each commit carries, and the candidate it is
  refs,      \* the sync branches
  pulls,     \* the sync pull requests
  effects,   \* writes under way
  people,    \* changes by people so far
  \* The invocation.
  spc, invocation,
  rbase,     \* BaseSHA: the checkout
  ver,       \* Target
  repairing, \* RepairPending
  seen,      \* the list of pull requests
  planned,   \* what Sync observed, later ExpectedBranch and ExpectedHead
  observed,  \* what Publish observed
  mine,      \* the candidate commit
  pubHead    \* publishHead

syncHubVars == <<mains, refs, pulls, people>>
syncRunVars == <<invocation, rbase, ver, repairing>>
lookVars == <<seen, planned, observed>>
syncVars == <<syncHubVars, effects, spc, syncRunVars, lookVars, mine, pubHead>>

\* A branch is named after the target and the base (syncBranchName).
Branches == Versions \X (1..MaxMain)

\* A candidate is one commit of the App. People add commits of their own, or
\* merge main into the branch. Two builds of one tree still are two commits.
SyncCommit == [base : 0..MaxMain, ver : Versions \cup {0}, tree : 0..1,
               run : 0..MaxAttempts, kind : {"single", "human", "merge", "absent"}]
Absent == [base |-> 0, ver |-> 0, tree |-> 0, run |-> 0, kind |-> "absent"]

\* proj is the hidden block of the body, note what people wrote around it, head
\* what a pull request keeps when it is closed.
Pull == [branch : Branches, state : {"open", "closed", "merged"}, proj : SyncCommit,
         note : 0..1, head : SyncCommit]
Observation == [num : 0..MaxPulls, branch : Branches \cup {<<0, 0>>}, head : SyncCommit,
                reusable : BOOLEAN, repair : BOOLEAN]
NoObservation == [num |-> 0, branch |-> <<0, 0>>, head |-> Absent,
                  reusable |-> FALSE, repair |-> FALSE]

SyncTypeOK ==
  /\ Len(mains) \in 1..MaxMain
  /\ \A i \in DOMAIN mains : mains[i].ver \in Versions \cup {0} /\ mains[i].via \in SyncCommit
  /\ refs \in [Branches -> SyncCommit]
  /\ Len(pulls) <= MaxPulls /\ \A i \in DOMAIN pulls : pulls[i] \in Pull
  /\ \A e \in effects : e.to \in {"ref", "new", "body"}
  /\ people \in 0..MaxPeople
  /\ spc \in {"idle", "list", "inspect", "base", "generate", "materialize", "publish", "again",
              "push", "pushed", "pull", "patched", "created", "landing", "final",
              "reused", "published"}
  /\ invocation \in 0..MaxAttempts /\ rbase \in 0..MaxMain /\ ver \in Versions \cup {0}
  /\ repairing \in BOOLEAN
  /\ Len(seen) <= MaxPulls /\ planned \in Observation /\ observed \in Observation
  /\ spc \notin {"idle", "list", "inspect"} => planned.branch \in Branches
  /\ mine \in SyncCommit /\ pubHead \in SyncCommit

SyncInit ==
  /\ mains = <<[ver |-> 0, via |-> Absent]>>
  /\ refs = [b \in Branches |-> Absent] /\ pulls = <<>> /\ effects = {} /\ people = 0
  /\ spc = "idle" /\ invocation = 0 /\ rbase = 0 /\ ver = 0 /\ repairing = FALSE
  /\ seen = <<>> /\ planned = NoObservation /\ observed = NoObservation
  /\ mine = Absent /\ pubHead = Absent

-----------------------------------------------------------------------------
(* People, and GitHub.                                                     *)

MainAdvances ==
  /\ Len(mains) < MaxMain
  /\ mains' = Append(mains, [mains[Len(mains)] EXCEPT !.via = Absent])
  /\ UNCHANGED <<refs, pulls>>

\* A pull request is integrated by a fast-forward of main to its head.
PullMerged ==
  /\ Len(mains) < MaxMain
  /\ \E i \in DOMAIN pulls :
       LET c == refs[pulls[i].branch] IN
       /\ pulls[i].state = "open" /\ c.kind = "single" /\ c.base = Len(mains)
       /\ mains' = Append(mains, [ver |-> c.ver, via |-> c])
       /\ pulls' = [pulls EXCEPT ![i].state = "merged", ![i].head = c]
  /\ UNCHANGED refs

PullClosed ==
  /\ \E i \in DOMAIN pulls :
       /\ pulls[i].state = "open"
       /\ pulls' = [pulls EXCEPT ![i].state = "closed", ![i].head = refs[pulls[i].branch]]
  /\ UNCHANGED <<mains, refs>>

NoteEdited ==
  /\ \E i \in DOMAIN pulls :
       pulls[i].state = "open" /\ pulls' = [pulls EXCEPT ![i].note = 1 - @]
  /\ UNCHANGED <<mains, refs>>

\* People touch a branch through its pull request: they commit to it or merge
\* main into it while it is open, and delete it when it is closed or merged.
HasOpen(b) == \E i \in DOMAIN pulls : pulls[i].branch = b /\ pulls[i].state = "open"

BranchChanged ==
  /\ \E b \in Branches, k \in {"human", "merge"} :
       /\ HasOpen(b) /\ refs[b].kind = "single"
       /\ k = "merge" => refs[b].base < Len(mains)
       /\ refs' = [refs EXCEPT ![b].kind = k]
  /\ UNCHANGED <<mains, pulls>>

BranchDeleted ==
  /\ \E b \in Branches :
       /\ refs[b] # Absent
       /\ ~HasOpen(b) /\ \E i \in DOMAIN pulls : pulls[i].branch = b
       /\ refs' = [refs EXCEPT ![b] = Absent]
  /\ UNCHANGED <<mains, pulls>>

People ==
  /\ people < MaxPeople
  /\ people' = people + 1
  /\ MainAdvances \/ PullMerged \/ PullClosed \/ NoteEdited \/ BranchChanged \/ BranchDeleted
  /\ UNCHANGED <<effects, spc, syncRunVars, lookVars, mine, pubHead>>

\* A push needs the head that it expects. A pull request needs commits that main
\* has not, and is the only open one of its branch.
EffectLands(e) ==
  /\ effects' = effects \ {e}
  /\ \/ /\ e.to = "ref" /\ refs[e.branch] = e.old
        /\ refs' = [refs EXCEPT ![e.branch] = e.new]
        /\ UNCHANGED pulls
     \/ /\ e.to = "new" /\ Len(pulls) < MaxPulls
        /\ refs[e.branch] # Absent
        /\ \A i \in DOMAIN mains : mains[i].via # refs[e.branch]
        /\ ~HasOpen(e.branch)
        /\ pulls' = Append(pulls, [branch |-> e.branch, state |-> "open", proj |-> e.new,
                                   note |-> 0, head |-> Absent])
        /\ UNCHANGED refs
     \/ /\ e.to = "body"
        /\ pulls' = [pulls EXCEPT ![e.num].proj = e.new, ![e.num].note = e.note]
        /\ UNCHANGED refs
  /\ UNCHANGED <<mains, people, spc, syncRunVars, lookVars, mine, pubHead>>

EffectLost(e) ==
  /\ effects' = effects \ {e}
  /\ UNCHANGED <<syncHubVars, spc, syncRunVars, lookVars, mine, pubHead>>

-----------------------------------------------------------------------------
(* InspectPending.                                                         *)

OpenPulls(s) == {i \in DOMAIN s : s[i].state = "open"}

\* A closed pull request of this target has to be restored by people.
ClosedBefore(s) == \E i \in DOMAIN s : s[i].state = "closed" /\ s[i].head.ver = ver

\* Mutant: whoever pushed the head.
OwnCandidateAnyActor(c) == c.kind \in {"single", "human"} /\ c.base <= rbase

\* One commit, put there by the App, on a base that main contains.
OwnCandidate(c) == c.kind = "single" /\ c.base <= rbase

\* A head with merges, which only a repair of the same target may look at.
Repairable(c) == repairing /\ c.kind = "merge" /\ c.ver = ver

Current(c) == c.kind = "single" /\ c.base = rbase /\ c.ver = ver

\* An open pull request whose target is not newer, and which has not changed
\* since it was listed.
InspectPull(s) ==
  {[num |-> i, branch |-> s[i].branch, head |-> refs[s[i].branch],
    reusable |-> Current(refs[s[i].branch]) /\ s[i].proj = refs[s[i].branch],
    repair |-> refs[s[i].branch].kind = "merge"] :
   i \in {j \in OpenPulls(s) :
            /\ OpenPulls(s) = {j}
            /\ OwnCandidate(refs[s[j].branch]) \/ Repairable(refs[s[j].branch])
            /\ ver >= refs[s[j].branch].ver
            /\ pulls[j] = s[j]}}

\* Mutant: the observation of an absent branch carries no name.
FreshUnnamed == NoObservation

\* Nothing is pending: the branch that is to be created.
Fresh == [NoObservation EXCEPT !.branch = <<ver, rbase>>]

\* Mutant: a branch without a pull request is not looked for.
InspectOrphanNever(s) == {Fresh}

\* A branch of ours that no pull request has: an earlier answer was lost.
InspectOrphan(s) ==
  LET orphans == {b \in Branches : refs[b] # Absent /\ \A i \in DOMAIN s : s[i].branch # b}
  IN IF orphans = {} THEN {Fresh}
     ELSE {[Fresh EXCEPT !.branch = b, !.head = refs[b]] :
             b \in {c \in orphans : orphans = {c} /\ OwnCandidate(refs[c])}}

InspectPending(s) ==
  IF ClosedBefore(s) THEN {}
  ELSE IF OpenPulls(s) = {} THEN InspectOrphan(s) ELSE InspectPull(s)

-----------------------------------------------------------------------------
(* Sync.                                                                   *)

\* EvaluatePolicy on the stable track: a newer version, or an older one that was
\* asked for.
Policy(v, m, allowDowngrade) == v > m \/ (allowDowngrade /\ v < m)

Resting == {"idle", "reused", "published"}

Sync ==
  /\ spc \in Resting /\ invocation < MaxAttempts
  /\ invocation' = invocation + 1
  /\ rbase' = Len(mains)
  /\ \E v \in Versions, d \in BOOLEAN : Policy(v, mains[Len(mains)].ver, d) /\ ver' = v
  /\ repairing' \in BOOLEAN
  /\ spc' = "list"
  /\ seen' = <<>> /\ planned' = NoObservation /\ observed' = NoObservation
  /\ mine' = Absent /\ pubHead' = Absent
  /\ UNCHANGED <<syncHubVars, effects>>

ListPulls ==
  /\ spc = "list"
  /\ seen' = pulls
  /\ spc' = "inspect"
  /\ UNCHANGED <<syncHubVars, effects, syncRunVars, planned, observed, mine, pubHead>>

Inspect ==
  /\ spc = "inspect"
  /\ planned' \in InspectPending(seen)
  /\ spc' = "base"
  /\ UNCHANGED <<syncHubVars, effects, syncRunVars, seen, observed, mine, pubHead>>

CheckBase ==
  /\ spc = "base"
  /\ Len(mains) = rbase
  /\ \/ repairing /\ planned.repair /\ spc' = "materialize"
     \/ ~repairing /\ planned.reusable /\ spc' = "reused"
     \/ ~repairing /\ ~planned.reusable /\ spc' = "generate"
  /\ UNCHANGED <<syncHubVars, effects, syncRunVars, lookVars, mine, pubHead>>

\* Generate, plan, apply and commit. An agent's part may make another tree.
Candidate(t) == [base |-> rbase, ver |-> ver, tree |-> t, run |-> invocation, kind |-> "single"]

Generate ==
  /\ spc = "generate"
  /\ \E t \in 0..1 : mine' = Candidate(t)
  /\ spc' = "publish"
  /\ UNCHANGED <<syncHubVars, effects, syncRunVars, lookVars, pubHead>>

-----------------------------------------------------------------------------
(* Publish.                                                                *)

\* The diff of the head with merges, replayed on main.
MaterializeRepair ==
  /\ spc = "materialize"
  /\ Len(mains) = rbase
  /\ \E o \in InspectPending(pulls) :
       o.repair /\ o.head = planned.head /\ o.branch = planned.branch
  /\ mine' = Candidate(planned.head.tree)
  /\ spc' = "publish"
  /\ UNCHANGED <<syncHubVars, effects, syncRunVars, lookVars, pubHead>>

Publish ==
  /\ spc = "publish"
  /\ Len(mains) = rbase
  /\ seen' = pulls
  /\ spc' = "again"
  /\ UNCHANGED <<syncHubVars, effects, syncRunVars, planned, observed, mine, pubHead>>

\* Mutants: every retry counts as new; the base is not compared.
AlreadyPublishedNever(o) == FALSE
AlreadyPublishedAnyBase(o) == o.head.kind = "single" /\ o.head.ver = ver /\ o.head.tree = mine.tree

\* These very bytes are published: an earlier answer was lost.
AlreadyPublished(o) == Current(o.head) /\ o.head.tree = mine.tree

InspectAgain ==
  /\ spc = "again"
  /\ \E o \in InspectPending(seen) :
       /\ observed' = o
       /\ o.branch = planned.branch
       /\ \/ AlreadyPublished(o) /\ pubHead' = o.head /\ spc' = "pull"
          \/ /\ ~AlreadyPublished(o) /\ o.head = planned.head
             /\ pubHead' = mine /\ spc' = "push"
  /\ UNCHANGED <<syncHubVars, effects, syncRunVars, seen, planned, mine>>

ExpectedHead == planned.head

Push ==
  /\ spc = "push"
  /\ effects' = effects \cup {[to |-> "ref", branch |-> planned.branch,
                               old |-> ExpectedHead, new |-> mine]}
  /\ spc' = "pushed"
  /\ UNCHANGED <<syncHubVars, syncRunVars, lookVars, mine, pubHead>>

ReadPush ==
  /\ spc = "pushed"
  /\ refs[planned.branch] = mine
  /\ spc' = "pull"
  /\ UNCHANGED <<syncHubVars, effects, syncRunVars, lookVars, mine, pubHead>>

\* The description is written unless it is right already, or the pull request
\* is created.
WritePull ==
  /\ spc = "pull"
  /\ \/ /\ observed.num = 0
        /\ effects' = effects \cup {[to |-> "new", branch |-> planned.branch, new |-> pubHead]}
        /\ spc' = "created"
     \/ /\ observed.num # 0
        /\ pulls[observed.num] = seen[observed.num]
        /\ IF observed.reusable /\ pubHead = observed.head
           THEN spc' = "landing" /\ UNCHANGED effects
           ELSE /\ spc' = "patched"
                /\ effects' = effects \cup {[to |-> "body", num |-> observed.num, new |-> pubHead,
                                             note |-> seen[observed.num].note]}
  /\ UNCHANGED <<syncHubVars, syncRunVars, lookVars, mine, pubHead>>

\* Whatever the answer was, the pull request is read.
ReadPull ==
  /\ \/ spc = "patched" /\ pulls[observed.num].state = "open" /\ pulls[observed.num].proj = pubHead
     \/ /\ spc = "created"
        /\ \E i \in OpenPulls(pulls) :
             /\ {j \in OpenPulls(pulls) : pulls[j].branch = planned.branch} = {i}
             /\ pulls[i].proj = pubHead
  /\ spc' = "landing"
  /\ UNCHANGED <<syncHubVars, effects, syncRunVars, lookVars, mine, pubHead>>

CheckLanding ==
  /\ spc = "landing"
  /\ Len(mains) = rbase
  /\ spc' = "final"
  /\ UNCHANGED <<syncHubVars, effects, syncRunVars, lookVars, mine, pubHead>>

Confirm ==
  /\ spc = "final"
  /\ refs[planned.branch] = pubHead
  /\ spc' = "published"
  /\ UNCHANGED <<syncHubVars, effects, syncRunVars, lookVars, mine, pubHead>>

\* Every failing return, and the end of the process. What was sent stays sent.
Stops ==
  /\ spc \notin Resting
  /\ spc' = "idle"
  /\ rbase' = 0 /\ ver' = 0 /\ repairing' = FALSE
  /\ seen' = <<>> /\ planned' = NoObservation /\ observed' = NoObservation
  /\ mine' = Absent /\ pubHead' = Absent
  /\ UNCHANGED <<syncHubVars, effects, invocation>>

SyncNext ==
  \/ People \/ \E e \in effects : EffectLands(e) \/ EffectLost(e)
  \/ Sync \/ ListPulls \/ Inspect \/ CheckBase \/ Generate
  \/ MaterializeRepair \/ Publish \/ InspectAgain \/ Push \/ ReadPush \/ WritePull \/ ReadPull
  \/ CheckLanding \/ Confirm \/ Stops

SyncSpec == SyncInit /\ [][SyncNext]_syncVars

-----------------------------------------------------------------------------
\* However answers are lost and late, no second pull request opens beside an open
\* one, also when a retry has another target or base (InspectPending finds the
\* branch of a lost answer before a new one is named). What nobody can prevent: a
\* creation that outlives a pull request of its branch, which people closed or
\* merged; then the branch of one of the two has an earlier pull request.
OnePull ==
  \A i, j \in OpenPulls(pulls) :
    i = j \/ \E k \in DOMAIN pulls \ {i, j} : pulls[k].branch \in {pulls[i].branch, pulls[j].branch}

\* A push of the App has landed.
Pushed(b) == refs'[b] # refs[b] /\ refs'[b].kind = "single"

\* A retry never replaces a published commit by another with the same bytes on
\* the same base: checks and reviews of the head stay valid (alreadyPublished).
OneRevision ==
  [][\A b \in Branches :
       Pushed(b) => ~(/\ refs[b].kind = "single" /\ refs[b].base = refs'[b].base
                      /\ refs[b].ver = refs'[b].ver /\ refs[b].tree = refs'[b].tree)]_syncVars

\* A push never removes somebody's commit, however late it lands; a head with
\* merges goes only by an explicit repair, which keeps its tree
\* (inspectPublicationHead's actor, --force-with-lease=...:ExpectedHead).
PeopleKept ==
  [][\A b \in Branches :
       Pushed(b) => /\ refs[b].kind # "human"
                    /\ refs[b].kind = "merge" => refs'[b].tree = refs[b].tree]_syncVars

\* Publish reports success only for the built bytes on the very base and target
\* of this invocation, at the head of the branch that was planned (Confirm).
PublishedExact ==
  [][spc' = "published" /\ spc # spc' =>
       /\ pubHead = refs[planned.branch]
       /\ [pubHead EXCEPT !.run = mine.run] = mine
       /\ mine.base = rbase /\ mine.ver = ver]_syncVars

\* Whatever is lost or repeated: no pull request beside an open one, one revision for
\* a target, no commit of a person overwritten, success reported only of what is there.
PublicationSound == [](SyncTypeOK /\ OnePull) /\ OneRevision /\ PeopleKept /\ PublishedExact
=============================================================================
