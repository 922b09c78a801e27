------------------------- MODULE PublicationProofs -------------------------
(***************************************************************************)
(* Proofs about the two components that write to the shared repository:    *)
(* the goal flow that appends a candidate to its draft branch              *)
(* (GoalPublication), for any trees, mains, commits and executions, and    *)
(* the integration that moves main to it (AutoForward), for any number of  *)
(* commits, invocations and moves of everybody else. They share no         *)
(* variable; what they have in common is the ancestry of commits.          *)
(***************************************************************************)
EXTENDS GoalPublication, AutoForward, TLAPS

-----------------------------------------------------------------------------
(* Ancestry.                                                               *)

\* Every commit is younger than its parent.
Rooted(g) ==
  /\ Len(g) \in Nat
  /\ DOMAIN g = 1..Len(g)
  /\ \A c \in 1..Len(g) : g[c].parent \in 0..(c - 1)

LEMMA AncestorsAreOlder ==
  ASSUME NEW g, NEW c
  PROVE  Ancestors(g, c) \subseteq 1..c
BY DEF Ancestors

LEMMA AncestorsAreCommits ==
  ASSUME NEW g, Rooted(g), NEW c \in DOMAIN g
  PROVE  Ancestors(g, c) \subseteq DOMAIN g
BY AncestorsAreOlder DEF Rooted

\* What all closed sets have in common that have the commit.
LEMMA AncestorsInCommon ==
  ASSUME NEW g, NEW c \in Nat \ {0}, NEW a \in 1..c
  PROVE  a \in Ancestors(g, c) <=> \A S \in SUBSET (1..c) : c \in S /\ ParentClosed(g, S) => a \in S
<1> DEFINE Lacks(S) == S \in SUBSET ((1..(c - 1)) \ {a}) /\ ParentClosed(g, S \cup {c})
<1>1. a \in Ancestors(g, c) <=> a = c \/ ~\E S : Lacks(S) BY DEF Ancestors
<1>2. ASSUME a # c, NEW S \in SUBSET (1..c), c \in S, ParentClosed(g, S), a \notin S
      PROVE  Lacks(S \ {c})
  <2>1. (S \ {c}) \cup {c} = S BY <1>2
  <2>2. S \ {c} \in SUBSET ((1..(c - 1)) \ {a}) BY <1>2
  <2> QED BY <1>2, <2>1, <2>2
<1>3. ASSUME a # c, NEW S, Lacks(S)
      PROVE  \E T \in SUBSET (1..c) : c \in T /\ ParentClosed(g, T) /\ a \notin T
  <2>1. S \cup {c} \in SUBSET (1..c) /\ a \notin S \cup {c} BY <1>3
  <2> QED BY <1>3, <2>1
<1> HIDE DEF Lacks
<1> QED BY <1>1, <1>2, <1>3

LEMMA OwnAncestor ==
  ASSUME NEW g, Rooted(g), NEW c \in DOMAIN g
  PROVE  c \in Ancestors(g, c)
<1>1. c \in 1..c BY DEF Rooted
<1> QED BY <1>1 DEF Ancestors

LEMMA AncestorsLeast ==
  ASSUME NEW g, Rooted(g), NEW c \in DOMAIN g,
         NEW S \in SUBSET DOMAIN g, c \in S, ParentClosed(g, S)
  PROVE  Ancestors(g, c) \subseteq S
<1> DEFINE T == S \cap (1..c)
<1>1. T \in SUBSET (1..c) /\ c \in T BY DEF Rooted
<1>2. ASSUME NEW a \in T PROVE g[a].parent \in T \cup {0}
  <2>1. g[a].parent \in S \cup {0} BY DEF ParentClosed
  <2>2. a \in 1..Len(g) /\ c \in 1..Len(g) /\ Len(g) \in Nat /\ a <= c BY DEF Rooted
  <2>3. g[a].parent \in 0..(a - 1) BY <2>2 DEF Rooted
  <2>4. g[a].parent \in (1..c) \cup {0} BY <2>2, <2>3
  <2> QED BY <2>1, <2>4
<1>3. ParentClosed(g, T) BY <1>2 DEF ParentClosed
<1> HIDE DEF T
<1>4. c \in Nat \ {0} BY DEF Rooted
<1>5. Ancestors(g, c) \subseteq T BY <1>1, <1>3, <1>4, AncestorsAreOlder, AncestorsInCommon
<1> QED BY <1>5 DEF T

LEMMA AncestorsClosed ==
  ASSUME NEW g, Rooted(g), NEW c \in DOMAIN g
  PROVE  ParentClosed(g, Ancestors(g, c))
<1> SUFFICES ASSUME NEW a \in Ancestors(g, c), g[a].parent # 0
             PROVE  g[a].parent \in Ancestors(g, c)
  BY DEF ParentClosed
<1>1. a \in 1..c /\ c \in 1..Len(g) /\ Len(g) \in Nat BY DEF Ancestors, Rooted
<1>2. g[a].parent \in 0..(a - 1) BY <1>1 DEF Rooted
<1>3. g[a].parent \in 1..c BY <1>1, <1>2
<1>4. ASSUME NEW S \in SUBSET (1..c), c \in S, ParentClosed(g, S)
      PROVE  g[a].parent \in S
  <2>1. a \in S BY <1>1, <1>4, AncestorsInCommon
  <2> QED BY <1>4, <2>1 DEF ParentClosed
<1> QED BY <1>1, <1>3, <1>4, AncestorsInCommon

LEMMA AncestorsOfAncestor ==
  ASSUME NEW g, Rooted(g), NEW c \in DOMAIN g, NEW b \in Ancestors(g, c)
  PROVE  Ancestors(g, b) \subseteq Ancestors(g, c)
<1>1. Ancestors(g, c) \in SUBSET DOMAIN g /\ ParentClosed(g, Ancestors(g, c))
  BY AncestorsClosed, AncestorsAreCommits
<1> QED BY <1>1, AncestorsLeast

LEMMA AncestorsStep ==
  ASSUME NEW g, NEW c \in DOMAIN g, Rooted(g), g[c].parent # 0
  PROVE  Ancestors(g, c) = {c} \cup Ancestors(g, g[c].parent)
<1> DEFINE p == g[c].parent
           S == {c} \cup Ancestors(g, p)
<1>1. p \in DOMAIN g BY DEF Rooted
<1>2. p \in Ancestors(g, p) /\ c \in Ancestors(g, c) BY <1>1, OwnAncestor
<1>3. S \in SUBSET DOMAIN g BY <1>1, AncestorsAreCommits
<1>4. ParentClosed(g, S)
  <2>1. ParentClosed(g, Ancestors(g, p)) BY <1>1, AncestorsClosed
  <2> QED BY <1>2, <2>1 DEF ParentClosed
<1>5. c \in S OBVIOUS
<1>6. p \in Ancestors(g, c)
  <2>1. ParentClosed(g, Ancestors(g, c)) BY AncestorsClosed
  <2> QED BY <1>2, <2>1 DEF ParentClosed
<1>7. Ancestors(g, p) \subseteq Ancestors(g, c)
  <2> HIDE DEF p
  <2> QED BY <1>6, AncestorsOfAncestor
<1>8. Ancestors(g, c) \subseteq S
  <2> HIDE DEF S
  <2> QED BY <1>3, <1>4, <1>5, AncestorsLeast
<1> QED BY <1>2, <1>7, <1>8

\* h has the commits of g, and one more.
Longer(g, h) ==
  /\ Rooted(g) /\ Rooted(h)
  /\ Len(h) = Len(g) + 1
  /\ \A c \in 1..Len(g) : h[c] = g[c]

LEMMA AppendLonger ==
  ASSUME NEW R, NEW g \in Seq(R), NEW r \in R, Rooted(g), r.parent \in 0..Len(g)
  PROVE  Longer(g, Append(g, r))
<1> DEFINE h == Append(g, r)
<1>1. /\ Len(g) \in Nat /\ Len(h) = Len(g) + 1 /\ DOMAIN h = 1..Len(h)
      /\ h[Len(g) + 1] = r
      /\ \A c \in 1..Len(g) : h[c] = g[c]
  OBVIOUS
<1> HIDE DEF h
<1>2. ASSUME NEW c \in 1..Len(h) PROVE h[c].parent \in 0..(c - 1)
  <2>1. CASE c = Len(g) + 1
    <3>1. h[c].parent = r.parent BY <1>1, <2>1
    <3>2. r.parent \in 0..Len(g) OBVIOUS
    <3> QED BY <1>1, <2>1, <3>1, <3>2
  <2>2. CASE c # Len(g) + 1
    <3>1. c \in 1..Len(g) BY <1>1, <2>2
    <3>2. g[c].parent \in 0..(c - 1) BY <3>1 DEF Rooted
    <3> QED BY <1>1, <3>1, <3>2
  <2> QED BY <2>1, <2>2
<1>3. Rooted(h) BY <1>1, <1>2 DEF Rooted
<1> QED BY <1>1, <1>3 DEF Longer, h

\* A commit that is added changes nobody's ancestry.
LEMMA AncestorsKept ==
  ASSUME NEW g, NEW h, Longer(g, h), NEW c \in 1..Len(g)
  PROVE  Ancestors(h, c) = Ancestors(g, c)
<1>1. /\ Len(g) \in Nat /\ DOMAIN g = 1..Len(g) /\ DOMAIN h = 1..(Len(g) + 1)
      /\ \A a \in DOMAIN g : h[a] = g[a] /\ g[a].parent \in DOMAIN g \cup {0}
      /\ DOMAIN g \subseteq DOMAIN h
  BY DEF Longer, Rooted
<1>2. Ancestors(h, c) \subseteq Ancestors(g, c)
  <2> DEFINE S == Ancestors(g, c)
  <2>1. S \in SUBSET DOMAIN g /\ c \in S
    BY <1>1, AncestorsAreCommits, OwnAncestor DEF Longer
  <2>2. ParentClosed(g, S) BY <1>1, AncestorsClosed DEF Longer
  <2> HIDE DEF S
  <2>3. ParentClosed(h, S) BY <1>1, <2>1, <2>2 DEF ParentClosed
  <2>4. S \in SUBSET DOMAIN h BY <1>1, <2>1
  <2>5. Ancestors(h, c) \subseteq S BY <1>1, <2>1, <2>3, <2>4, AncestorsLeast DEF Longer
  <2> QED BY <2>5 DEF S
<1>3. Ancestors(g, c) \subseteq Ancestors(h, c)
  <2> DEFINE S == Ancestors(h, c) \cap DOMAIN g
  <2>1. S \in SUBSET DOMAIN g /\ c \in S BY <1>1, OwnAncestor DEF Longer
  <2>2. ParentClosed(h, Ancestors(h, c)) BY <1>1, AncestorsClosed DEF Longer
  <2>3. ParentClosed(g, S)
    <3> SUFFICES ASSUME NEW a \in S PROVE g[a].parent \in S \cup {0}
      BY DEF ParentClosed
    <3>1. h[a].parent \in Ancestors(h, c) \cup {0} BY <2>2 DEF ParentClosed
    <3> QED BY <1>1, <3>1
  <2> HIDE DEF S
  <2>4. Ancestors(g, c) \subseteq S BY <1>1, <2>1, <2>3, AncestorsLeast DEF Longer
  <2> QED BY <2>4 DEF S
<1> QED BY <1>2, <1>3
-----------------------------------------------------------------------------
(* Publishing a goal's candidates.                                         *)

\* The seed has no change of its own, and every commit is younger than its parent.
CommitBook ==
  /\ commits[Seed].tree = SeedTree
  /\ \A c \in 1..Len(commits) : commits[c].parent < c

\* A commit of the controller is on the branch only after its push was started.
FileBook ==
  \A i \in {disk.intent, synced.intent, new} :
    i <= Len(commits) /\ (i = remote => i \in pushed)

\* A push that can still land has not landed, and is the newest of all.
FlightBook ==
  \A c \in flight :
    c \in pushed /\ c \notin Ancestry(remote) /\ pushed \subseteq Ancestry(c)

\* What the files tell of: the intended commit, or the head of the launch.
Told(files) == IF files.intent = None THEN start ELSE files.intent

\* Every push of any execution is below what the files tell of, also after a
\* crash of the host.
ToldBook ==
  pc # "lost" => /\ pushed \subseteq Ancestry(Told(disk))
                 /\ pushed \subseteq Ancestry(Told(synced))

BoundBook == pc # "lost" /\ disk.intent = None => bound = start

WriteBook == CommitBook /\ FileBook /\ FlightBook /\ ToldBook /\ BoundBook /\ WriteAhead /\ OwnHead

\* From reconciliation to the next push nothing is under way, and the binding is on
\* top of all that was pushed.
Reconciling == {"refresh", "verify", "publish", "again", "bundle", "name", "sync", "push"}
ReconciledBook ==
  /\ pc \in Reconciling => flight = {} /\ pushed \subseteq Ancestry(bound)
  /\ pc \in Reconciling \ {"sync", "push"} => disk.intent \in {None, bound}

\* The commit being published.
NewBook ==
  /\ pc \in {"bundle", "name", "sync", "push", "readback"} =>
       new \in 2..Len(commits) /\ commits[new].parent = bound /\ commits[new].tree = snap
  /\ pc \in {"bundle", "name", "sync", "push"} => new \notin pushed
  /\ pc \in {"sync", "push", "readback"} => disk.intent = new
  /\ pc = "push" => synced = disk

\* What is known of the snapshot and of the published head at each step of a call.
VerifiedBook ==
  /\ pc \in {"publish", "again", "bundle", "name", "sync", "push", "readback"} =>
       proof.tree = snap /\ proof.base = vbase /\ snap # SeedTree
  /\ pc \in {"ci", "observed", "recheck"} =>
       /\ res.tree = proof.tree /\ snap = proof.tree /\ Tree(res.head) = proof.tree
       /\ proof.base = vbase /\ res.head \in pushed
  /\ pc \in {"observed", "recheck"} => proof.head = res.head /\ proof.at = proof.base

AcceptBook ==
  /\ pc \in Tool \cup {"off", "ended", "archived", "lost"} => ~accepted
  /\ pc \in {"final", "finalCI"} => accepted
  /\ handoff => pc = "done"

GoalIInv ==
  /\ GoalTypeOK /\ WriteBook /\ ReconciledBook /\ NewBook
  /\ VerifiedBook /\ AcceptBook /\ AcceptedExact

-----------------------------------------------------------------------------
(* Types, by the parts of the state.                                       *)

AllTrees == Trees \cup {SeedTree}
CommitType == [parent : Ids, tree : AllTrees, base : Mains]
Results == [head : Ids, tree : AllTrees, base : Mains, intent : Ids]
ProofType == [tree : AllTrees, base : Mains, head : Ids, at : Mains]

CommitTypes == commits \in Seq(CommitType) /\ Len(commits) \in 1..MaxCommits
HeadTypes ==
  /\ remote \in 1..Len(commits) /\ start \in 1..Len(commits) /\ bound \in 1..Len(commits)
  /\ green \subseteq 1..Len(commits) /\ flight \subseteq 1..Len(commits)
  /\ pushed \subseteq 1..Len(commits)
FileTypes == disk \in Files /\ synced \in Files /\ adopted \in Ids
FlowTypes ==
  /\ main \in Mains /\ open \in BOOLEAN /\ epoch \in 1..MaxEpochs /\ late \in BOOLEAN
  /\ vbase \in Mains /\ work \in AllTrees /\ snap \in AllTrees /\ new \in Ids
  /\ accepted \in BOOLEAN /\ handoff \in BOOLEAN
ControllerTypes ==
  pc \in {"off", "goal", "final", "finalCI", "done", "ended", "archived", "lost"} \cup Tool
RecordTypes == res \in Results /\ proof \in ProofType

GoalParts ==
  CommitTypes /\ HeadTypes /\ FileTypes /\ FlowTypes /\ ControllerTypes /\ RecordTypes

LEMMA TypesByPart == GoalTypeOK <=> GoalParts
BY DEF GoalTypeOK, GoalParts, CommitTypes, HeadTypes, FileTypes, FlowTypes, ControllerTypes,
       RecordTypes, AllTrees, CommitType, Results, ProofType

LEMMA TypesByPartNext == GoalTypeOK' <=> GoalParts'
BY DEF GoalTypeOK, GoalParts, CommitTypes, HeadTypes, FileTypes, FlowTypes, ControllerTypes,
       RecordTypes, AllTrees, CommitType, Results, ProofType

LEMMA CommitsRooted == ASSUME GoalTypeOK, CommitBook PROVE Rooted(commits)
<1>1. Len(commits) \in Nat /\ DOMAIN commits = 1..Len(commits) BY DEF GoalTypeOK
<1>2. ASSUME NEW c \in 1..Len(commits) PROVE commits[c].parent \in 0..(c - 1)
  <2>1. commits[c] \in CommitType BY TypesByPart DEF GoalParts, CommitTypes
  <2>2. commits[c].parent < c BY DEF CommitBook
  <2> QED BY <2>1, <2>2, BoundAssumption DEF Ids, CommitType
<1> QED BY <1>1, <1>2 DEF Rooted

\* What is found on the branch, or was never written, is not under way.
LEMMA NothingInFlight ==
  ASSUME GoalTypeOK, WriteBook, pc # "lost", disk.intent \in {None, remote}
  PROVE  flight = {}
<1> SUFFICES ASSUME NEW c \in flight PROVE FALSE OBVIOUS
<1>1. disk.intent = c /\ c \in 1..Len(commits) BY DEF WriteBook, WriteAhead, GoalTypeOK
<1>2. c = remote BY <1>1 DEF None
<1>3. remote \in Ancestry(remote)
  BY CommitsRooted, OwnAncestor DEF WriteBook, Ancestry, GoalTypeOK, Rooted
<1> QED BY <1>2, <1>3 DEF WriteBook, FlightBook

LEMMA GoalTypesKept ==
  ASSUME GoalIInv, [GoalNext]_goalVars
  PROVE  GoalTypeOK'
<1>0. GoalParts BY TypesByPart DEF GoalIInv
<1> SUFFICES GoalParts' BY TypesByPartNext
<1>a. /\ 0 \in Mains /\ 0 \in Ids /\ SeedTree \in AllTrees /\ Trees \subseteq AllTrees
      /\ 1..Len(commits) \subseteq Ids /\ Seed \in 1..Len(commits)
      /\ \A c \in 1..Len(commits) : commits[c] \in CommitType
      /\ Len(commits) < MaxCommits => Len(commits) + 1 \in Ids
  BY <1>0, MainAssumption, BoundAssumption
  DEF GoalParts, CommitTypes, Mains, Ids, AllTrees, Seed
<1>b. NoResult \in Results /\ Empty \in Files
  BY <1>a DEF NoResult, Results, Empty, Files, None
<1>c. 1..Len(commits) \subseteq 1..(Len(commits) + 1) /\ Len(commits) + 1 \in 1..(Len(commits) + 1)
  BY <1>0 DEF GoalParts, CommitTypes
<1> USE <1>0, <1>a, <1>b, <1>c DEF remoteVars, diskVars, flowVars, bindingVars, GoalParts
<1>1. ASSUME NEW m \in Mains, MainMoves(m) PROVE GoalParts'
  BY <1>1
    DEF MainMoves, CommitTypes, HeadTypes, FileTypes, FlowTypes, ControllerTypes, RecordTypes
<1>2. CASE PRChanges
  BY <1>2
    DEF PRChanges, CommitTypes, HeadTypes, FileTypes, FlowTypes, ControllerTypes, RecordTypes
<1>3. CASE CIChanges
  BY <1>3
    DEF CIChanges, CommitTypes, HeadTypes, FileTypes, FlowTypes, ControllerTypes, RecordTypes
<1>4. ASSUME NEW c \in flight, PushLost(c) PROVE GoalParts'
  BY <1>4 DEF PushLost, CommitTypes, HeadTypes, FileTypes, FlowTypes, ControllerTypes, RecordTypes
<1>5. CASE DeadlinePasses
  BY <1>5
    DEF DeadlinePasses, CommitTypes, HeadTypes, FileTypes, FlowTypes, ControllerTypes, RecordTypes
<1>6. ASSUME NEW t \in Trees, Edit(t) PROVE GoalParts'
  BY <1>6
    DEF Edit, Running, Tool, CommitTypes, HeadTypes, FileTypes, FlowTypes, ControllerTypes,
        RecordTypes
<1>7. CASE ToolFails
  BY <1>7
    DEF ToolFails, Tool, CommitTypes, HeadTypes, FileTypes, FlowTypes, ControllerTypes,
        RecordTypes
<1>8. CASE Refresh
  <2>1. CommitTypes' BY <1>8 DEF Refresh, CommitTypes
  <2>2. HeadTypes' BY <1>8 DEF Refresh, HeadTypes
  <2>3. FileTypes' BY <1>8 DEF Refresh, FileTypes
  <2>4. FlowTypes' BY <1>8 DEF Refresh, FlowTypes
  <2>5. ControllerTypes' BY <1>8 DEF Refresh, ControllerTypes, Tool
  <2>6. RecordTypes' BY <1>8 DEF Refresh, RecordTypes
  <2> QED BY <2>1, <2>2, <2>3, <2>4, <2>5, <2>6 DEF GoalParts
<1>9. CASE Verify
  <2>1. CommitTypes' BY <1>9 DEF Verify, CommitTypes
  <2>2. HeadTypes' BY <1>9 DEF Verify, HeadTypes
  <2>3. FileTypes' BY <1>9 DEF Verify, FileTypes
  <2>4. FlowTypes' BY <1>9 DEF Verify, FlowTypes
  <2>5. ControllerTypes' BY <1>9 DEF Verify, ControllerTypes, Tool
  <2>6. RecordTypes' BY <1>9
    DEF Verify, RecordTypes, Results, ProofType, CommitType, None, Seed, FileTypes, HeadTypes,
        FlowTypes, Files
  <2> QED BY <2>1, <2>2, <2>3, <2>4, <2>5, <2>6 DEF GoalParts
<1>10. CASE InstallBundle
  <2>1. CommitTypes' BY <1>10 DEF InstallBundle, CommitTypes
  <2>2. HeadTypes' BY <1>10 DEF InstallBundle, HeadTypes
  <2>3. FileTypes' BY <1>10 DEF InstallBundle, FileTypes, Files, None, HeadTypes, FlowTypes
  <2>4. FlowTypes' BY <1>10 DEF InstallBundle, FlowTypes
  <2>5. ControllerTypes' BY <1>10 DEF InstallBundle, ControllerTypes, Tool
  <2>6. RecordTypes' BY <1>10 DEF InstallBundle, RecordTypes
  <2> QED BY <2>1, <2>2, <2>3, <2>4, <2>5, <2>6 DEF GoalParts
<1>11. CASE SyncState
  <2>1. CommitTypes' BY <1>11 DEF SyncState, CommitTypes
  <2>2. HeadTypes' BY <1>11 DEF SyncState, HeadTypes
  <2>3. FileTypes' BY <1>11 DEF SyncState, FileTypes
  <2>4. FlowTypes' BY <1>11 DEF SyncState, FlowTypes
  <2>5. ControllerTypes' BY <1>11 DEF SyncState, ControllerTypes, Tool
  <2>6. RecordTypes' BY <1>11
    DEF SyncState, RecordTypes, Results, ProofType, CommitType, None, Seed, FileTypes, HeadTypes,
        FlowTypes, Files
  <2> QED BY <2>1, <2>2, <2>3, <2>4, <2>5, <2>6 DEF GoalParts
<1>12. CASE ObserveGoalCI
  <2>1. CommitTypes' BY <1>12 DEF ObserveGoalCI, Current, Authority, CommitTypes
  <2>2. HeadTypes' BY <1>12 DEF ObserveGoalCI, Current, Authority, HeadTypes
  <2>3. FileTypes' BY <1>12 DEF ObserveGoalCI, Current, Authority, FileTypes
  <2>4. FlowTypes' BY <1>12 DEF ObserveGoalCI, Current, Authority, FlowTypes
  <2>5. ControllerTypes' BY <1>12 DEF ObserveGoalCI, Current, Authority, ControllerTypes, Tool
  <2>6. RecordTypes' BY <1>12
    DEF ObserveGoalCI, Current, Authority, RecordTypes, Results, ProofType, CommitType, None,
        Seed, FileTypes, HeadTypes, FlowTypes, Files
  <2> QED BY <2>1, <2>2, <2>3, <2>4, <2>5, <2>6 DEF GoalParts
<1>13. CASE ObservedCurrent
  <2>1. CommitTypes' BY <1>13 DEF ObservedCurrent, Current, Authority, CommitTypes
  <2>2. HeadTypes' BY <1>13 DEF ObservedCurrent, Current, Authority, HeadTypes
  <2>3. FileTypes' BY <1>13 DEF ObservedCurrent, Current, Authority, FileTypes
  <2>4. FlowTypes' BY <1>13 DEF ObservedCurrent, Current, Authority, FlowTypes
  <2>5. ControllerTypes' BY <1>13 DEF ObservedCurrent, Current, Authority, ControllerTypes, Tool
  <2>6. RecordTypes' BY <1>13 DEF ObservedCurrent, Current, Authority, RecordTypes
  <2> QED BY <2>1, <2>2, <2>3, <2>4, <2>5, <2>6 DEF GoalParts
<1>14. CASE Accept
  <2>1. CommitTypes' BY <1>14 DEF Accept, CommitTypes
  <2>2. HeadTypes' BY <1>14 DEF Accept, HeadTypes
  <2>3. FileTypes' BY <1>14 DEF Accept, FileTypes
  <2>4. FlowTypes' BY <1>14 DEF Accept, FlowTypes
  <2>5. ControllerTypes' BY <1>14 DEF Accept, ControllerTypes
  <2>6. RecordTypes' BY <1>14
    DEF Accept, RecordTypes, Results, ProofType, CommitType, None, Seed, FileTypes, HeadTypes,
        FlowTypes, Files
  <2> QED BY <2>1, <2>2, <2>3, <2>4, <2>5, <2>6 DEF GoalParts
<1>15. CASE GoalCompletes
  BY <1>15
    DEF GoalCompletes, CommitTypes, HeadTypes, FileTypes, FlowTypes, ControllerTypes, RecordTypes
<1>16. CASE FinalObserve
  BY <1>16
    DEF FinalObserve, Authority, CommitTypes, HeadTypes, FileTypes, FlowTypes, ControllerTypes,
        RecordTypes
<1>17. CASE Complete
  <2>1. CommitTypes' BY <1>17 DEF Complete, Authority, Tree, CommitTypes
  <2>2. HeadTypes' BY <1>17 DEF Complete, Authority, Tree, HeadTypes
  <2>3. FileTypes' BY <1>17 DEF Complete, Authority, Tree, FileTypes
  <2>4. FlowTypes' BY <1>17 DEF Complete, Authority, Tree, FlowTypes
  <2>5. ControllerTypes' BY <1>17 DEF Complete, Authority, Tree, ControllerTypes
  <2>6. RecordTypes' BY <1>17 DEF Complete, Authority, Tree, RecordTypes
  <2> QED BY <2>1, <2>2, <2>3, <2>4, <2>5, <2>6 DEF GoalParts
<1>18. CASE Stop
  <2>1. CommitTypes' BY <1>18 DEF Stop, Forgotten, Running, Tool, CommitTypes
  <2>2. HeadTypes' BY <1>18 DEF Stop, Forgotten, Running, Tool, HeadTypes
  <2>3. FileTypes' BY <1>18 DEF Stop, Forgotten, Running, Tool, FileTypes
  <2>4. FlowTypes' BY <1>18
    DEF Stop, Forgotten, Running, Tool, FlowTypes, Results, ProofType, CommitType, None, Seed
  <2>5. ControllerTypes' BY <1>18 DEF Stop, Forgotten, Running, Tool, ControllerTypes
  <2>6. RecordTypes' BY <1>18 DEF Stop, Forgotten, Running, Tool, RecordTypes
  <2> QED BY <2>1, <2>2, <2>3, <2>4, <2>5, <2>6 DEF GoalParts
<1>19. CASE Crash
  <2>1. CommitTypes' BY <1>19 DEF Crash, Forgotten, Running, Tool, NoResult, CommitTypes
  <2>2. HeadTypes' BY <1>19 DEF Crash, Forgotten, Running, Tool, NoResult, HeadTypes
  <2>3. FileTypes' BY <1>19 DEF Crash, Forgotten, Running, Tool, NoResult, FileTypes
  <2>4. FlowTypes' BY <1>19
    DEF Crash, Forgotten, Running, Tool, NoResult, FlowTypes, Results, ProofType, CommitType,
        None, Seed
  <2>5. ControllerTypes' BY <1>19 DEF Crash, Forgotten, Running, Tool, NoResult, ControllerTypes
  <2>6. RecordTypes' BY <1>19 DEF Crash, Forgotten, Running, Tool, NoResult, RecordTypes
  <2> QED BY <2>1, <2>2, <2>3, <2>4, <2>5, <2>6 DEF GoalParts
<1>20. CASE RunnerLost
  <2>1. CommitTypes' BY <1>20
    DEF RunnerLost, Forgotten, Running, Tool, NoResult, Empty, CommitTypes
  <2>2. HeadTypes' BY <1>20 DEF RunnerLost, Forgotten, Running, Tool, NoResult, Empty, HeadTypes
  <2>3. FileTypes' BY <1>20 DEF RunnerLost, Forgotten, Running, Tool, NoResult, Empty, FileTypes
  <2>4. FlowTypes' BY <1>20
    DEF RunnerLost, Forgotten, Running, Tool, NoResult, Empty, FlowTypes, Results, ProofType,
        CommitType, None, Seed
  <2>5. ControllerTypes' BY <1>20
    DEF RunnerLost, Forgotten, Running, Tool, NoResult, Empty, ControllerTypes
  <2>6. RecordTypes' BY <1>20
    DEF RunnerLost, Forgotten, Running, Tool, NoResult, Empty, RecordTypes
  <2> QED BY <2>1, <2>2, <2>3, <2>4, <2>5, <2>6 DEF GoalParts
<1>21. CASE Archive
  <2>1. CommitTypes' BY <1>21 DEF Archive, Forgotten, CommitTypes
  <2>2. HeadTypes' BY <1>21 DEF Archive, Forgotten, HeadTypes
  <2>3. FileTypes' BY <1>21 DEF Archive, Forgotten, FileTypes
  <2>4. FlowTypes' BY <1>21
    DEF Archive, Forgotten, FlowTypes, Results, ProofType, CommitType, None, Seed
  <2>5. ControllerTypes' BY <1>21 DEF Archive, Forgotten, ControllerTypes
  <2>6. RecordTypes' BY <1>21 DEF Archive, Forgotten, RecordTypes
  <2> QED BY <2>1, <2>2, <2>3, <2>4, <2>5, <2>6 DEF GoalParts
<1>22. ASSUME NEW t \in Trees, ForeignPush(t) PROVE GoalParts'
  <2>1. CommitTypes'
    <3> DEFINE r == [parent |-> remote, tree |-> t, base |-> 0]
    <3>1. r \in CommitType
      BY <1>0, <1>a DEF GoalParts, HeadTypes, FlowTypes, CommitType
    <3>2. commits' = Append(commits, r) /\ Len(commits) < MaxCommits BY <1>22 DEF ForeignPush
    <3> HIDE DEF r
    <3> QED BY <1>0, <3>1, <3>2, BoundAssumption DEF GoalParts, CommitTypes
  <2>2. HeadTypes' BY <1>22 DEF ForeignPush, HeadTypes
  <2>3. FileTypes' BY <1>22 DEF ForeignPush, FileTypes
  <2>4. FlowTypes' BY <1>22 DEF ForeignPush, FlowTypes
  <2>5. ControllerTypes' BY <1>22 DEF ForeignPush, ControllerTypes
  <2>6. RecordTypes' BY <1>22 DEF ForeignPush, RecordTypes
  <2> QED BY <2>1, <2>2, <2>3, <2>4, <2>5, <2>6 DEF GoalParts
<1>23. ASSUME NEW c \in flight, PushLands(c) PROVE GoalParts'
  BY <1>23
    DEF PushLands, CommitTypes, HeadTypes, FileTypes, FlowTypes, ControllerTypes, RecordTypes
<1>24. CASE Launch
  <2>1. CommitTypes' BY <1>24 DEF Launch, NoResult, IntentReadable, NoIntent, Empty, CommitTypes
  <2>2. HeadTypes' BY <1>24 DEF Launch, NoResult, IntentReadable, NoIntent, Empty, HeadTypes
  <2>3. FileTypes' BY <1>24 DEF Launch, NoResult, IntentReadable, NoIntent, Empty, FileTypes
  <2>4. FlowTypes' BY <1>24 DEF Launch, NoResult, IntentReadable, NoIntent, Empty, FlowTypes
  <2>5. ControllerTypes' BY <1>24
    DEF Launch, NoResult, IntentReadable, NoIntent, Empty, ControllerTypes
  <2>6. RecordTypes' BY <1>24 DEF Launch, NoResult, IntentReadable, NoIntent, Empty, RecordTypes
  <2> QED BY <2>1, <2>2, <2>3, <2>4, <2>5, <2>6 DEF GoalParts
<1>25. CASE CallTool
  <2>1. CommitTypes' BY <1>25
    DEF CallTool, NoIntent, IntentObserved, IntentReadable, Empty, Tree, CommitTypes
  <2>2. HeadTypes' BY <1>25
    DEF CallTool, NoIntent, IntentObserved, IntentReadable, Empty, Tree, HeadTypes
  <2>3. FileTypes' BY <1>25
    DEF CallTool, NoIntent, IntentObserved, IntentReadable, Empty, Tree, FileTypes
  <2>4. FlowTypes' BY <1>25
    DEF CallTool, NoIntent, IntentObserved, IntentReadable, Empty, Tree, FlowTypes
  <2>5. ControllerTypes' BY <1>25
    DEF CallTool, NoIntent, IntentObserved, IntentReadable, Empty, Tree, ControllerTypes, Tool
  <2>6. RecordTypes'
    <3>1. disk.intent \in Ids BY DEF FileTypes, Files
    <3>2. IntentObserved => Tree(disk.intent) \in AllTrees
      BY DEF IntentObserved, HeadTypes, Tree, CommitType
    <3>3. res' \in Results BY <1>25, <3>1, <3>2 DEF CallTool, RecordTypes, Results
    <3> QED BY <1>25, <3>3 DEF CallTool, RecordTypes
  <2> QED BY <2>1, <2>2, <2>3, <2>4, <2>5, <2>6 DEF GoalParts
<1>26. CASE AppendGoalDraft
  <2>1. CommitTypes' BY <1>26
    DEF AppendGoalDraft, NoIntent, IntentObserved, IntentReadable, Empty, Tree, Published,
        Current, Authority, CommitTypes
  <2>2. HeadTypes' BY <1>26
    DEF AppendGoalDraft, NoIntent, IntentObserved, IntentReadable, Empty, Tree, Published,
        Current, Authority, HeadTypes
  <2>3. FileTypes' BY <1>26
    DEF AppendGoalDraft, NoIntent, IntentObserved, IntentReadable, Empty, Tree, Published,
        Current, Authority, FileTypes
  <2>4. FlowTypes' BY <1>26
    DEF AppendGoalDraft, NoIntent, IntentObserved, IntentReadable, Empty, Tree, Published,
        Current, Authority, FlowTypes
  <2>5. ControllerTypes' BY <1>26
    DEF AppendGoalDraft, NoIntent, IntentObserved, IntentReadable, Empty, Tree, Published,
        Current, Authority, ControllerTypes, Tool
  <2>6. RecordTypes'
    <3>1. disk.intent \in Ids /\ bound \in Ids /\ snap \in AllTrees
      BY DEF FileTypes, Files, HeadTypes, FlowTypes
    <3>2. res' \in Results
      BY <1>26, <3>1 DEF AppendGoalDraft, Published, RecordTypes, Results
    <3> QED BY <1>26, <3>2 DEF AppendGoalDraft, RecordTypes
  <2> QED BY <2>1, <2>2, <2>3, <2>4, <2>5, <2>6 DEF GoalParts
<1>27. CASE CommitTree
  <2>1. CommitTypes'
    <3> DEFINE r == [parent |-> bound, tree |-> snap, base |-> vbase]
    <3>1. r \in CommitType
      BY <1>0, <1>a DEF GoalParts, HeadTypes, FlowTypes, CommitType
    <3>2. commits' = Append(commits, r) /\ Len(commits) < MaxCommits BY <1>27 DEF CommitTree
    <3> HIDE DEF r
    <3> QED BY <1>0, <3>1, <3>2, BoundAssumption DEF GoalParts, CommitTypes
  <2>2. HeadTypes' BY <1>27 DEF CommitTree, HeadTypes
  <2>3. FileTypes' BY <1>27 DEF CommitTree, FileTypes
  <2>4. FlowTypes' BY <1>27 DEF CommitTree, FlowTypes
  <2>5. ControllerTypes' BY <1>27 DEF CommitTree, ControllerTypes, Tool
  <2>6. RecordTypes' BY <1>27 DEF CommitTree, RecordTypes
  <2> QED BY <2>1, <2>2, <2>3, <2>4, <2>5, <2>6 DEF GoalParts
<1>28. CASE InstallIntent
  <2>1. CommitTypes' BY <1>28 DEF InstallIntent, CommitTypes
  <2>2. HeadTypes' BY <1>28 DEF InstallIntent, HeadTypes
  <2>3. FileTypes' BY <1>28 DEF InstallIntent, FileTypes, Files, None, HeadTypes, FlowTypes
  <2>4. FlowTypes' BY <1>28 DEF InstallIntent, FlowTypes
  <2>5. ControllerTypes' BY <1>28 DEF InstallIntent, ControllerTypes, Tool
  <2>6. RecordTypes' BY <1>28 DEF InstallIntent, RecordTypes
  <2> QED BY <2>1, <2>2, <2>3, <2>4, <2>5, <2>6 DEF GoalParts
<1>29. CASE Push
  <2>1. CommitTypes' BY <1>29 DEF Push, CommitTypes
  <2>2. HeadTypes'
    <3>1. new \in 1..Len(commits) BY <1>0, <1>29 DEF GoalIInv, NewBook, Push, GoalParts, CommitTypes
    <3> QED BY <1>0, <3>1, <1>29 DEF Push, GoalParts, HeadTypes, flowVars, bindingVars
  <2>3. FileTypes' BY <1>29 DEF Push, FileTypes
  <2>4. FlowTypes' BY <1>29 DEF Push, FlowTypes
  <2>5. ControllerTypes' BY <1>29 DEF Push, ControllerTypes, Tool
  <2>6. RecordTypes' BY <1>29 DEF Push, RecordTypes, FileTypes, HeadTypes, FlowTypes
  <2> QED BY <2>1, <2>2, <2>3, <2>4, <2>5, <2>6 DEF GoalParts
<1>30. CASE Readback
  <2>1. CommitTypes' BY <1>30 DEF Readback, CommitTypes
  <2>2. HeadTypes' BY <1>30 DEF Readback, HeadTypes
  <2>3. FileTypes' BY <1>30 DEF Readback, FileTypes
  <2>4. FlowTypes' BY <1>30 DEF Readback, FlowTypes
  <2>5. ControllerTypes' BY <1>30 DEF Readback, ControllerTypes, Tool
  <2>6. RecordTypes' BY <1>30
    DEF Readback, RecordTypes, Results, ProofType, CommitType, None, Seed, FileTypes, HeadTypes,
        FlowTypes, Files
  <2> QED BY <2>1, <2>2, <2>3, <2>4, <2>5, <2>6 DEF GoalParts
<1>31. CASE HostCrash
  <2>1. CommitTypes' BY <1>31 DEF HostCrash, Forgotten, Running, Tool, NoResult, CommitTypes
  <2>2. HeadTypes' BY <1>31 DEF HostCrash, Forgotten, Running, Tool, NoResult, HeadTypes
  <2>3. FileTypes' BY <1>31
    DEF HostCrash, Forgotten, Running, Tool, NoResult, FileTypes, Files, None, HeadTypes
  <2>4. FlowTypes' BY <1>31
    DEF HostCrash, Forgotten, Running, Tool, NoResult, FlowTypes, Results, ProofType, CommitType,
        None, Seed
  <2>5. ControllerTypes' BY <1>31
    DEF HostCrash, Forgotten, Running, Tool, NoResult, ControllerTypes
  <2>6. RecordTypes' BY <1>31 DEF HostCrash, Forgotten, Running, Tool, NoResult, RecordTypes
  <2> QED BY <2>1, <2>2, <2>3, <2>4, <2>5, <2>6 DEF GoalParts
<1>32. CASE Recover
  <2>1. CommitTypes' BY <1>32 DEF Recover, RecoverGoalDraft, NoResult, Empty, Tree, CommitTypes
  <2>2. HeadTypes' BY <1>32 DEF Recover, RecoverGoalDraft, NoResult, Empty, Tree, HeadTypes
  <2>3. FileTypes' BY <1>32
    DEF Recover, RecoverGoalDraft, NoResult, Empty, Tree, FileTypes, Files, None, HeadTypes
  <2>4. FlowTypes'
    <3>1. Tree(remote) \in AllTrees BY <1>0, <1>a DEF Tree, CommitType, GoalParts, HeadTypes
    <3>2. epoch + 1 \in 1..MaxEpochs
      BY <1>0, <1>32, BoundAssumption DEF Recover, RecoverGoalDraft, GoalParts, FlowTypes
    <3> QED BY <1>32, <3>1, <3>2 DEF Recover, RecoverGoalDraft, FlowTypes
  <2>5. ControllerTypes' BY <1>32
    DEF Recover, RecoverGoalDraft, NoResult, Empty, Tree, ControllerTypes
  <2>6. RecordTypes' BY <1>32 DEF Recover, RecoverGoalDraft, NoResult, Empty, Tree, RecordTypes
  <2> QED BY <2>1, <2>2, <2>3, <2>4, <2>5, <2>6 DEF GoalParts
<1>33. CASE UNCHANGED goalVars
  BY <1>33 DEF goalVars, CommitTypes, HeadTypes, FileTypes, FlowTypes, ControllerTypes, RecordTypes
<1> QED BY <1>1, <1>2, <1>3, <1>4, <1>5, <1>6, <1>7, <1>8, <1>9, <1>10, <1>11, <1>12, <1>13,
    <1>14, <1>15, <1>16, <1>17, <1>18, <1>19, <1>20, <1>21, <1>22, <1>23, <1>24, <1>25, <1>26,
    <1>27, <1>28, <1>29, <1>30, <1>31, <1>32, <1>33
  DEF GoalNext, Controller, World

-----------------------------------------------------------------------------
(* The books of writing: steps that write nothing.                         *)

LEMMA WriteRests ==
  ASSUME WriteBook, pc' # "lost" => pc # "lost",
         UNCHANGED <<commits, remote, flight, pushed, start, bound, new>>,
         disk'.intent = disk.intent, synced'.intent = synced.intent
  PROVE  WriteBook'
<1>1. CommitBook' /\ FileBook' BY DEF WriteBook, CommitBook, FileBook
<1>2. FlightBook' BY DEF WriteBook, FlightBook, Ancestry
<1>3. ToldBook' BY DEF WriteBook, ToldBook, Told, Ancestry
<1>4. BoundBook' /\ WriteAhead' /\ OwnHead' BY DEF WriteBook, BoundBook, WriteAhead, OwnHead
<1> QED BY <1>1, <1>2, <1>3, <1>4 DEF WriteBook

\* The process is gone: what it knew is forgotten, and the files may be the ones
\* that were synced.
LEMMA WriteForgotten ==
  ASSUME GoalTypeOK, WriteBook, pc' # "lost" => pc # "lost", Forgotten,
         UNCHANGED <<commits, remote, flight, pushed, start>>,
         \/ /\ disk'.intent \in {disk.intent, synced.intent}
            /\ synced'.intent \in {disk.intent, synced.intent}
         \/ pc' = "lost" /\ disk'.intent = None /\ synced'.intent = None
  PROVE  WriteBook'
<1>1. CommitBook' BY DEF WriteBook, CommitBook
<1>2. FileBook'
  <2>1. None # remote /\ None <= Len(commits) BY DEF GoalTypeOK, None
  <2>2. \A i \in {disk.intent, synced.intent, None} :
          i <= Len(commits) /\ (i = remote => i \in pushed)
    BY <2>1 DEF WriteBook, FileBook
  <2>3. {disk'.intent, synced'.intent, new'} \subseteq {disk.intent, synced.intent, None}
    BY DEF Forgotten
  <2> QED BY <2>2, <2>3 DEF FileBook
<1>3. FlightBook' BY DEF WriteBook, FlightBook, Ancestry
<1>4. ToldBook' BY DEF WriteBook, ToldBook, Told, Ancestry
<1>5. BoundBook' BY DEF BoundBook, Forgotten
<1>6. WriteAhead' BY DEF WriteBook, WriteAhead
<1>7. OwnHead' BY DEF WriteBook, OwnHead, Forgotten
<1> QED BY <1>1, <1>2, <1>3, <1>4, <1>5, <1>6, <1>7 DEF WriteBook

\* The books of a call are about its own steps only.
LEMMA CallOver ==
  ASSUME pc' \notin Reconciling \cup {"readback"}
  PROVE  ReconciledBook' /\ NewBook'
BY DEF ReconciledBook, NewBook, Reconciling

LEMMA CallRests ==
  ASSUME ReconciledBook, NewBook, pc' = pc,
         UNCHANGED <<commits, pushed, disk, synced, bound, new, snap>>, flight' \subseteq flight
  PROVE  ReconciledBook' /\ NewBook'
<1>1. ReconciledBook' BY DEF ReconciledBook, Ancestry
<1>2. NewBook' BY DEF NewBook
<1> QED BY <1>1, <1>2

\* A call advances to its next step.
LEMMA CallAdvances ==
  ASSUME ReconciledBook, UNCHANGED <<commits, pushed, flight, bound>>,
         disk'.intent = disk.intent,
         pc \in Reconciling \ {"sync", "push"}, pc' \in Reconciling \ {"sync", "push"}
  PROVE  ReconciledBook'
BY DEF ReconciledBook, Ancestry

Books == WriteBook /\ ReconciledBook /\ NewBook

\* The world moves, but not the branch.
LEMMA WorldKeeps ==
  ASSUME GoalTypeOK, Books,
         \/ \E m \in Mains : MainMoves(m)
         \/ PRChanges \/ CIChanges \/ DeadlinePasses
         \/ \E t \in Trees : Edit(t)
  PROVE  Books'
<1>1. UNCHANGED <<commits, remote, flight, pushed, disk, synced, start, bound, new, snap, pc>>
  BY DEF MainMoves, PRChanges, CIChanges, DeadlinePasses, Edit, remoteVars, diskVars, flowVars,
         bindingVars
<1>2. WriteBook' BY <1>1, WriteRests DEF Books
<1>3. ReconciledBook' /\ NewBook' BY <1>1, CallRests DEF Books
<1> QED BY <1>2, <1>3 DEF Books

\* Steps of the controller that write nothing and end or follow a call.
LEMMA ReadingKeeps ==
  ASSUME GoalTypeOK, Books,
         \/ ToolFails \/ ObserveGoalCI \/ ObservedCurrent \/ Accept
         \/ GoalCompletes \/ FinalObserve \/ Complete
  PROVE  Books'
<1>1. UNCHANGED <<commits, remote, flight, pushed, disk, synced, start, bound, new>>
  BY DEF ToolFails, ObserveGoalCI, ObservedCurrent, Accept, GoalCompletes, FinalObserve, Complete,
         remoteVars, diskVars, flowVars, bindingVars
<1>2. pc # "lost" /\ pc' \notin Reconciling \cup {"readback"}
  BY DEF ToolFails, ObserveGoalCI, ObservedCurrent, Accept, GoalCompletes, FinalObserve, Complete,
         Reconciling, Tool
<1>3. WriteBook' BY <1>1, <1>2, WriteRests DEF Books
<1>4. ReconciledBook' /\ NewBook' BY <1>2, CallOver
<1> QED BY <1>3, <1>4 DEF Books

\* refreshGoalBase, VerifyGoal.
LEMMA VerifyingKeeps ==
  ASSUME GoalTypeOK, Books, Refresh \/ Verify
  PROVE  Books'
<1>1. UNCHANGED <<commits, remote, flight, pushed, disk, synced, start, bound, new>>
  BY DEF Refresh, Verify, remoteVars, diskVars, bindingVars
<1>2. pc \in {"refresh", "verify"} /\ pc' \in {"verify", "publish"} BY DEF Refresh, Verify
<1>3. WriteBook' BY <1>1, <1>2, WriteRests DEF Books
<1>4. ReconciledBook' BY <1>1, <1>2, CallAdvances DEF Books, Reconciling
<1>5. NewBook' BY <1>2 DEF NewBook
<1> QED BY <1>3, <1>4, <1>5 DEF Books

\* The controller, its host or its runner is gone, or the workflow ends.
LEMMA EndingKeeps ==
  ASSUME GoalTypeOK, Books, Stop \/ Crash \/ HostCrash \/ RunnerLost \/ Archive
  PROVE  Books'
<1>1. UNCHANGED <<commits, remote, flight, pushed, start>> /\ Forgotten
  BY DEF Stop, Crash, HostCrash, RunnerLost, Archive, remoteVars, bindingVars
<1>2. pc # "lost" /\ pc' \in {"ended", "off", "lost", "archived"}
  BY DEF Stop, Crash, HostCrash, RunnerLost, Archive, Running, Tool
<1>3. \/ /\ disk'.intent \in {disk.intent, synced.intent}
         /\ synced'.intent \in {disk.intent, synced.intent}
      \/ pc' = "lost" /\ disk'.intent = None /\ synced'.intent = None
  <2>1. CASE Stop \/ Crash \/ Archive BY <2>1 DEF Stop, Crash, Archive, diskVars
  <2>2. CASE HostCrash BY <2>2 DEF HostCrash
  <2>3. CASE RunnerLost BY <2>3 DEF RunnerLost, Empty
  <2> QED BY <2>1, <2>2, <2>3
<1>4. WriteBook' BY <1>1, <1>2, <1>3, WriteForgotten DEF Books
<1>5. ReconciledBook' /\ NewBook' BY <1>2, CallOver DEF Reconciling
<1> QED BY <1>4, <1>5 DEF Books

-----------------------------------------------------------------------------
(* The books of writing: the branch moves, or a commit is made.            *)

LEMMA PushLostKeeps ==
  ASSUME GoalTypeOK, Books, NEW c \in flight, PushLost(c)
  PROVE  Books'
<1>1. /\ UNCHANGED <<commits, remote, pushed, disk, synced, start, bound, new, snap, pc>>
      /\ flight' \subseteq flight
  BY DEF PushLost, diskVars, flowVars, bindingVars
<1>2. CommitBook' /\ FileBook' BY <1>1 DEF Books, WriteBook, CommitBook, FileBook
<1>3. FlightBook' BY <1>1 DEF Books, WriteBook, FlightBook, Ancestry
<1>4. ToldBook' BY <1>1 DEF Books, WriteBook, ToldBook, Told, Ancestry
<1>5. BoundBook' /\ WriteAhead' /\ OwnHead'
  BY <1>1 DEF Books, WriteBook, BoundBook, WriteAhead, OwnHead
<1>6. ReconciledBook' /\ NewBook' BY <1>1, CallRests DEF Books
<1> QED BY <1>2, <1>3, <1>4, <1>5, <1>6 DEF Books, WriteBook

LEMMA PushLandsKeeps ==
  ASSUME GoalTypeOK, Books, NEW c \in flight, PushLands(c)
  PROVE  Books'
<1>1. /\ UNCHANGED <<commits, pushed, disk, synced, start, bound, new, snap, pc>>
      /\ flight' = flight \ {c}
      /\ remote' = remote \/ remote' = c
  BY DEF PushLands, diskVars, flowVars, bindingVars
<1>2. CommitBook' BY <1>1 DEF Books, WriteBook, CommitBook
<1>3. c \in pushed BY DEF Books, WriteBook, FlightBook
<1>4. FileBook' BY <1>1, <1>3 DEF Books, WriteBook, FileBook
\* Two pushes under way would each be older than the other.
<1>5. flight = {c}
  <2> SUFFICES ASSUME NEW d \in flight PROVE d = c OBVIOUS
  <2>1. c \in Ancestry(d) /\ d \in Ancestry(c) BY DEF Books, WriteBook, FlightBook
  <2>2. c \in 1..d /\ d \in 1..c BY <2>1, AncestorsAreOlder DEF Ancestry
  <2>3. c \in Int /\ d \in Int BY DEF GoalTypeOK
  <2> QED BY <2>2, <2>3
<1>6. flight' = {} BY <1>1, <1>5
<1>7. FlightBook' /\ WriteAhead' BY <1>6 DEF FlightBook, WriteAhead
<1>8. ToldBook' BY <1>1 DEF Books, WriteBook, ToldBook, Told, Ancestry
<1>9. BoundBook' /\ OwnHead' BY <1>1 DEF Books, WriteBook, BoundBook, OwnHead
<1>10. ReconciledBook' /\ NewBook' BY <1>1, CallRests DEF Books
<1> QED BY <1>2, <1>4, <1>7, <1>8, <1>9, <1>10 DEF Books, WriteBook

\* A commit is made: on the branch by somebody else, or in the controller's
\* repository.
LEMMA CommitMade ==
  ASSUME GoalTypeOK, CommitBook, NEW r \in CommitType, r.parent \in 1..Len(commits),
         commits' = Append(commits, r)
  PROVE  /\ CommitBook' /\ Longer(commits, commits') /\ Len(commits') = Len(commits) + 1
         /\ commits'[Len(commits) + 1] = r
         /\ \A c \in 1..Len(commits) : commits'[c] = commits[c]
         /\ \A c \in 1..Len(commits) : Ancestors(commits', c) = Ancestors(commits, c)
<1>1. commits \in Seq(CommitType) /\ Len(commits) \in Nat \ {0}
  BY TypesByPart DEF GoalParts, CommitTypes
<1>2. r.parent \in 0..Len(commits) BY <1>1
<1>3. Longer(commits, commits') BY <1>1, <1>2, CommitsRooted, AppendLonger
<1>4. /\ Len(commits') = Len(commits) + 1 /\ commits'[Len(commits) + 1] = r
      /\ \A c \in 1..Len(commits) : commits'[c] = commits[c]
  BY <1>1
<1>5. \A c \in 1..Len(commits) : Ancestors(commits', c) = Ancestors(commits, c)
  BY <1>3, AncestorsKept
<1>6. CommitBook'
  <2>1. commits'[Seed].tree = SeedTree BY <1>1, <1>4 DEF CommitBook, Seed
  <2>2. ASSUME NEW c \in 1..Len(commits') PROVE commits'[c].parent < c
    <3>1. commits'[c].parent \in 0..(c - 1) BY <1>3 DEF Longer, Rooted
    <3> QED BY <1>1, <1>4, <3>1
  <2> QED BY <2>1, <2>2 DEF CommitBook
<1> QED BY <1>3, <1>4, <1>5, <1>6

LEMMA ForeignPushKeeps ==
  ASSUME GoalTypeOK, Books, NEW t \in Trees, ForeignPush(t)
  PROVE  Books'
<1> DEFINE r == [parent |-> remote, tree |-> t, base |-> 0]
           n == Len(commits) + 1
<1>1. /\ UNCHANGED <<flight, pushed, disk, synced, start, bound, new, snap, pc>>
      /\ commits' = Append(commits, r) /\ remote' = n
  BY DEF ForeignPush, diskVars, flowVars, bindingVars
<1>2. /\ r \in CommitType /\ r.parent = remote
      /\ Len(commits) \in Nat /\ remote \in 1..Len(commits) /\ start \in 1..Len(commits)
      /\ bound \in 1..Len(commits)
      /\ pushed \subseteq 1..Len(commits) /\ flight \subseteq 1..Len(commits)
  <2>1. remote \in Ids BY BoundAssumption DEF GoalTypeOK, Ids
  <2>2. 0 \in Mains BY MainAssumption DEF Mains
  <2> QED BY <2>1, <2>2 DEF GoalTypeOK, CommitType, AllTrees
<1> HIDE DEF r
<1>3. /\ CommitBook' /\ Longer(commits, commits') /\ Len(commits') = n
      /\ commits'[n] = r
      /\ \A c \in 1..Len(commits) : commits'[c] = commits[c]
      /\ \A c \in 1..Len(commits) : Ancestors(commits', c) = Ancestors(commits, c)
  BY <1>1, <1>2, CommitMade DEF Books, WriteBook
<1>4. disk.intent \in Ids /\ synced.intent \in Ids /\ new \in Ids
  BY TypesByPart DEF GoalParts, FileTypes, FlowTypes, Files
<1>5. /\ disk.intent <= Len(commits) /\ synced.intent <= Len(commits) /\ new <= Len(commits)
  BY DEF Books, WriteBook, FileBook
<1>6. FileBook' BY <1>1, <1>2, <1>3, <1>4, <1>5 DEF FileBook, Ids
<1>7. FlightBook'
  <2> SUFFICES ASSUME NEW c \in flight
               PROVE  c \in pushed /\ c \notin Ancestors(commits', n)
                      /\ pushed \subseteq Ancestors(commits', c)
    BY <1>1 DEF FlightBook, Ancestry
  <2>1. /\ c \in pushed /\ c \notin Ancestors(commits, remote)
        /\ pushed \subseteq Ancestors(commits, c)
    BY DEF Books, WriteBook, FlightBook, Ancestry
  <2>2. c \in 1..Len(commits) /\ c # n BY <1>2
  <2>3. Ancestors(commits', n) = {n} \cup Ancestors(commits', remote)
    <3>1. n \in DOMAIN commits' /\ Rooted(commits') BY <1>2, <1>3 DEF Longer, Rooted
    <3>2. commits'[n].parent = remote /\ remote # 0 BY <1>2, <1>3
    <3> HIDE DEF n
    <3> QED BY <3>1, <3>2, AncestorsStep
  <2> QED BY <1>2, <1>3, <2>1, <2>2, <2>3
<1>8. ToldBook'
  <2> SUFFICES ASSUME pc # "lost", NEW f \in {disk, synced}
               PROVE  pushed \subseteq Ancestors(commits', Told(f))
    BY <1>1 DEF ToldBook, Ancestry, Told
  <2>1. pushed \subseteq Ancestors(commits, Told(f)) BY DEF Books, WriteBook, ToldBook, Ancestry
  <2>2. Told(f) \in 1..Len(commits) BY <1>2, <1>4, <1>5 DEF Told, Ids, None
  <2> QED BY <1>3, <2>1, <2>2
<1>9. BoundBook' /\ WriteAhead' /\ OwnHead'
  BY <1>1 DEF Books, WriteBook, BoundBook, WriteAhead, OwnHead
<1>10. ReconciledBook' BY <1>1, <1>2, <1>3 DEF Books, ReconciledBook, Ancestry
<1>11. NewBook'
  <2>1. ASSUME new \in 2..Len(commits)
        PROVE  new \in 2..Len(commits') /\ commits'[new] = commits[new]
    BY <1>2, <1>3, <2>1
  <2> QED BY <1>1, <2>1 DEF Books, NewBook
<1> QED BY <1>3, <1>6, <1>7, <1>8, <1>9, <1>10, <1>11 DEF Books, WriteBook

LEMMA CommitTreeKeeps ==
  ASSUME GoalTypeOK, Books, CommitTree
  PROVE  Books'
<1> DEFINE r == [parent |-> bound, tree |-> snap, base |-> vbase]
           n == Len(commits) + 1
<1>1. /\ UNCHANGED <<remote, flight, pushed, disk, synced, start, bound, snap>>
      /\ commits' = Append(commits, r) /\ new' = n /\ pc = "again" /\ pc' = "bundle"
  BY DEF CommitTree, diskVars, bindingVars
<1>2. /\ r \in CommitType /\ r.parent = bound /\ r.tree = snap
      /\ Len(commits) \in Nat \ {0} /\ remote \in 1..Len(commits) /\ start \in 1..Len(commits)
      /\ bound \in 1..Len(commits)
      /\ pushed \subseteq 1..Len(commits) /\ flight \subseteq 1..Len(commits)
  <2>1. bound \in Ids BY BoundAssumption DEF GoalTypeOK, Ids
  <2> QED BY <2>1 DEF GoalTypeOK, CommitType, AllTrees
<1> HIDE DEF r
<1>3. /\ CommitBook' /\ Longer(commits, commits') /\ Len(commits') = n
      /\ commits'[n] = r
      /\ \A c \in 1..Len(commits) : commits'[c] = commits[c]
      /\ \A c \in 1..Len(commits) : Ancestors(commits', c) = Ancestors(commits, c)
  BY <1>1, <1>2, CommitMade DEF Books, WriteBook
<1>4. disk.intent \in Ids /\ synced.intent \in Ids
  BY TypesByPart DEF GoalParts, FileTypes, Files
<1>5. /\ disk.intent <= Len(commits) /\ synced.intent <= Len(commits)
  BY DEF Books, WriteBook, FileBook
<1>6. FileBook'
  <2>1. n <= n /\ n # remote BY <1>2
  <2>2. \A i \in {disk.intent, synced.intent} : i <= n /\ (i = remote => i \in pushed)
    BY <1>2, <1>4, <1>5 DEF Books, WriteBook, FileBook, Ids
  <2> QED BY <1>1, <1>3, <2>1, <2>2 DEF FileBook
<1>7. FlightBook' BY <1>1, <1>2, <1>3 DEF Books, WriteBook, FlightBook, Ancestry
<1>8. ToldBook'
  <2> SUFFICES ASSUME NEW f \in {disk, synced}
               PROVE  pushed \subseteq Ancestors(commits', Told(f))
    BY <1>1 DEF ToldBook, Ancestry, Told
  <2>1. pushed \subseteq Ancestors(commits, Told(f))
    BY <1>1 DEF Books, WriteBook, ToldBook, Ancestry
  <2>2. Told(f) \in 1..Len(commits) BY <1>2, <1>4, <1>5 DEF Told, Ids, None
  <2> QED BY <1>3, <2>1, <2>2
<1>9. BoundBook' /\ WriteAhead' /\ OwnHead'
  BY <1>1 DEF Books, WriteBook, BoundBook, WriteAhead, OwnHead
<1>10. ReconciledBook' BY <1>1, <1>2, <1>3 DEF Books, ReconciledBook, Ancestry, Reconciling
<1>11. NewBook'
  <2>1. n \in 2..Len(commits') /\ commits'[n].parent = bound /\ commits'[n].tree = snap
    BY <1>2, <1>3
  <2>2. n \notin pushed BY <1>2
  <2> QED BY <1>1, <2>1, <2>2 DEF NewBook
<1> QED BY <1>3, <1>6, <1>7, <1>8, <1>9, <1>10, <1>11 DEF Books, WriteBook

-----------------------------------------------------------------------------
(* The books of writing: the steps of the controller that write.           *)

LEMMA BindingKeeps ==
  ASSUME WriteBook, pc # "lost", bound' \in pushed \cup {Seed},
         disk.intent = None => bound' = start,
         UNCHANGED <<commits, remote, flight, pushed, disk, synced, start, new>>
  PROVE  WriteBook'
<1>1. CommitBook' /\ FileBook' BY DEF WriteBook, CommitBook, FileBook
<1>2. FlightBook' BY DEF WriteBook, FlightBook, Ancestry
<1>3. ToldBook' BY DEF WriteBook, ToldBook, Told, Ancestry
<1>4. BoundBook' /\ WriteAhead' /\ OwnHead' BY DEF WriteBook, BoundBook, WriteAhead, OwnHead
<1> QED BY <1>1, <1>2, <1>3, <1>4 DEF WriteBook

LEMMA LaunchKeeps ==
  ASSUME GoalTypeOK, Books, Launch
  PROVE  Books'
<1>1. /\ UNCHANGED <<commits, remote, flight, pushed, disk, synced, start, new>>
      /\ pc = "off" /\ pc' = "goal"
  BY DEF Launch, remoteVars, diskVars, bindingVars
<1>2. bound' \in pushed \cup {Seed} /\ (disk.intent = None => bound' = start)
  <2>1. CASE NoIntent
    BY <2>1 DEF Launch, Books, WriteBook, OwnHead
  <2>2. CASE ~NoIntent
    <3>1. bound' = disk.intent /\ remote = disk.intent /\ disk.intent # None
      BY <2>2 DEF Launch, IntentReadable
    <3> QED BY <3>1 DEF Books, WriteBook, FileBook
  <2> QED BY <2>1, <2>2
<1>3. WriteBook' BY <1>1, <1>2, BindingKeeps DEF Books
<1>4. ReconciledBook' /\ NewBook' BY <1>1, CallOver DEF Reconciling
<1> QED BY <1>3, <1>4 DEF Books

LEMMA CallToolKeeps ==
  ASSUME GoalTypeOK, Books, CallTool
  PROVE  Books'
<1>1. /\ UNCHANGED <<commits, remote, flight, pushed, disk, synced, start, new>> /\ pc = "goal"
  BY DEF CallTool, remoteVars, diskVars, bindingVars
<1>2. CASE NoIntent
  <2>1. bound' = bound /\ pc' = "refresh" /\ disk.intent = None
    BY <1>2 DEF CallTool, NoIntent, IntentObserved, IntentReadable, Empty
  <2>2. bound = start BY <1>1, <2>1 DEF Books, WriteBook, BoundBook
  <2>3. WriteBook' BY <1>1, <2>1, WriteRests DEF Books
  <2>4. flight = {} BY <1>1, <2>1, NothingInFlight DEF Books
  <2>5. pushed \subseteq Ancestry(bound)
    BY <1>1, <2>1, <2>2 DEF Books, WriteBook, ToldBook, Told
  <2>6. ReconciledBook' BY <1>1, <2>1, <2>4, <2>5 DEF ReconciledBook, Ancestry
  <2>7. NewBook' BY <2>1 DEF NewBook
  <2> QED BY <2>3, <2>6, <2>7 DEF Books
<1>3. CASE IntentObserved
  <2>1. /\ bound' = disk.intent /\ pc' = "refresh" /\ disk.intent # None
        /\ remote = disk.intent
    BY <1>3 DEF CallTool, NoIntent, IntentObserved, IntentReadable, Empty
  <2>2. disk.intent \in pushed BY <2>1 DEF Books, WriteBook, FileBook
  <2>3. WriteBook' BY <1>1, <2>1, <2>2, BindingKeeps DEF Books
  <2>4. flight = {} BY <1>1, <2>1, NothingInFlight DEF Books
  <2>5. pushed \subseteq Ancestry(disk.intent)
    BY <1>1, <2>1 DEF Books, WriteBook, ToldBook, Told
  <2>6. ReconciledBook' BY <1>1, <2>1, <2>4, <2>5 DEF ReconciledBook, Ancestry
  <2>7. NewBook' BY <2>1 DEF NewBook
  <2> QED BY <2>3, <2>6, <2>7 DEF Books
<1>4. CASE ~NoIntent /\ ~IntentObserved
  <2>1. bound' = bound /\ pc' = pc BY <1>4 DEF CallTool
  <2>2. WriteBook' BY <1>1, <2>1, WriteRests DEF Books
  <2>3. ReconciledBook' /\ NewBook' BY <1>1, <2>1, CallOver DEF Reconciling
  <2> QED BY <2>2, <2>3 DEF Books
<1> QED BY <1>2, <1>3, <1>4

\* The second reconciliation of a call finds what the first one did.
LEMMA NoPriorIntent ==
  ASSUME ReconciledBook, pc = "publish"
  PROVE  ~(IntentObserved /\ bound # disk.intent)
BY DEF ReconciledBook, Reconciling, IntentObserved, IntentReadable

LEMMA AppendKeeps ==
  ASSUME GoalTypeOK, Books, AppendGoalDraft
  PROVE  Books'
<1>1. /\ UNCHANGED <<commits, remote, flight, pushed, disk, synced, start, new>> /\ pc = "publish"
  BY DEF AppendGoalDraft, remoteVars, diskVars, bindingVars
<1>2. bound' = bound /\ pc' \in {"ci", "again"}
  BY <1>1, NoPriorIntent DEF AppendGoalDraft, Published, Books
<1>3. WriteBook' BY <1>1, <1>2, WriteRests DEF Books
<1>4. CASE pc' = "ci"
  <2>1. ReconciledBook' /\ NewBook' BY <1>4, CallOver DEF Reconciling
  <2> QED BY <1>3, <2>1 DEF Books
<1>5. CASE pc' = "again"
  <2>1. ReconciledBook' BY <1>1, <1>2, <1>5, CallAdvances DEF Books, Reconciling
  <2>2. NewBook' BY <1>5 DEF NewBook
  <2> QED BY <1>3, <2>1, <2>2 DEF Books
<1> QED BY <1>2, <1>4, <1>5

LEMMA InstallBundleKeeps ==
  ASSUME GoalTypeOK, Books, InstallBundle
  PROVE  Books'
<1>1. /\ UNCHANGED <<commits, remote, flight, pushed, synced, start, bound, new, snap>>
      /\ pc = "bundle" /\ pc' = "name" /\ disk' = [disk EXCEPT !.bundle = new]
  BY DEF InstallBundle, remoteVars, flowVars, bindingVars
<1>2. disk'.intent = disk.intent BY <1>1, TypesByPart DEF GoalParts, FileTypes, Files
<1>3. WriteBook' BY <1>1, <1>2, WriteRests DEF Books
<1>4. ReconciledBook' BY <1>1, <1>2, CallAdvances DEF Books, Reconciling
<1>5. NewBook' BY <1>1 DEF Books, NewBook
<1> QED BY <1>3, <1>4, <1>5 DEF Books

\* The new commit is on top of all that was pushed.
LEMMA NewOnTop ==
  ASSUME GoalTypeOK, Books, pc \in {"bundle", "name", "sync", "push"}
  PROVE  /\ pushed \subseteq Ancestry(new) /\ new \in Ancestry(new) /\ new \notin Ancestry(bound)
         /\ new \in 2..Len(commits)
<1>1. new \in 2..Len(commits) /\ commits[new].parent = bound BY DEF Books, NewBook
<1>2. Rooted(commits) BY CommitsRooted DEF Books, WriteBook
<1>3. new \in DOMAIN commits /\ bound # 0 /\ new \in 1..Len(commits)
  BY <1>1, <1>2 DEF Rooted, GoalTypeOK
<1>4. Ancestors(commits, new) = {new} \cup Ancestors(commits, bound)
  BY <1>1, <1>2, <1>3, AncestorsStep
<1>5. pushed \subseteq Ancestors(commits, bound)
  BY DEF Books, ReconciledBook, Reconciling, Ancestry
<1>6. new \notin Ancestors(commits, bound)
  <2>1. bound \in 0..(new - 1) BY <1>1, <1>2, <1>3 DEF Rooted
  <2>2. Ancestors(commits, bound) \subseteq 1..bound BY AncestorsAreOlder
  <2> QED BY <1>1, <2>1, <2>2 DEF GoalTypeOK
<1> QED BY <1>1, <1>4, <1>5, <1>6 DEF Ancestry

LEMMA InstallIntentKeeps ==
  ASSUME GoalTypeOK, Books, InstallIntent
  PROVE  Books'
<1>1. /\ UNCHANGED <<commits, remote, flight, pushed, synced, start, bound, new, snap>>
      /\ pc = "name" /\ pc' = "sync" /\ disk' = [disk EXCEPT !.intent = new]
  BY DEF InstallIntent, remoteVars, flowVars, bindingVars
<1>2. disk'.intent = new BY <1>1, TypesByPart DEF GoalParts, FileTypes, Files
<1>3. new \in 2..Len(commits) /\ pushed \subseteq Ancestry(new) BY <1>1, NewOnTop
<1>4. flight = {} /\ pushed \subseteq Ancestry(bound)
  BY <1>1 DEF Books, ReconciledBook, Reconciling
<1>5. CommitBook' BY <1>1 DEF Books, WriteBook, CommitBook
<1>6. FileBook' BY <1>1, <1>2 DEF Books, WriteBook, FileBook
<1>7. FlightBook' /\ WriteAhead' BY <1>1, <1>4 DEF FlightBook, WriteAhead
<1>8. ToldBook'
  <2>1. new # None BY <1>3 DEF None, GoalTypeOK
  <2>2. pushed \subseteq Ancestry(Told(synced)) BY <1>1 DEF Books, WriteBook, ToldBook
  <2> QED BY <1>1, <1>2, <1>3, <2>1, <2>2 DEF ToldBook, Told, Ancestry
<1>9. BoundBook' BY <1>2, <1>1, <1>3 DEF BoundBook, None, GoalTypeOK
<1>10. OwnHead' BY <1>1 DEF Books, WriteBook, OwnHead
<1>11. ReconciledBook' BY <1>1, <1>4 DEF ReconciledBook, Ancestry
<1>12. NewBook' BY <1>1, <1>2 DEF Books, NewBook
<1> QED BY <1>5, <1>6, <1>7, <1>8, <1>9, <1>10, <1>11, <1>12 DEF Books, WriteBook

LEMMA SyncStateKeeps ==
  ASSUME GoalTypeOK, Books, SyncState
  PROVE  Books'
<1>1. /\ UNCHANGED <<commits, remote, flight, pushed, disk, start, bound, new, snap>>
      /\ pc = "sync" /\ pc' = "push" /\ synced' = disk
  BY DEF SyncState, remoteVars, bindingVars
<1>2. flight = {} BY <1>1 DEF Books, ReconciledBook, Reconciling
<1>3. CommitBook' /\ FileBook' BY <1>1 DEF Books, WriteBook, CommitBook, FileBook
<1>4. FlightBook' /\ WriteAhead' BY <1>1, <1>2 DEF FlightBook, WriteAhead
<1>5. ToldBook' BY <1>1 DEF Books, WriteBook, ToldBook, Told, Ancestry
<1>6. BoundBook' /\ OwnHead' BY <1>1 DEF Books, WriteBook, BoundBook, OwnHead
<1>7. ReconciledBook' BY <1>1 DEF Books, ReconciledBook, Reconciling, Ancestry
<1>8. NewBook' BY <1>1 DEF Books, NewBook
<1> QED BY <1>3, <1>4, <1>5, <1>6, <1>7, <1>8 DEF Books, WriteBook

LEMMA PushKeeps ==
  ASSUME GoalTypeOK, Books, Push
  PROVE  Books'
<1>1. /\ UNCHANGED <<commits, remote, disk, synced, start, bound, new, snap>>
      /\ pc = "push" /\ pc' = "readback"
  BY DEF Push, diskVars, flowVars, bindingVars
<1>2. ReconciledBook' /\ NewBook'
  BY <1>1 DEF Books, NewBook, ReconciledBook, Reconciling
<1>3. CASE remote = bound /\ ~late
  <2>1. flight = {} BY <1>1 DEF Books, ReconciledBook, Reconciling
  <2>2. flight' = {new} /\ pushed' = pushed \cup {new} BY <1>3, <2>1 DEF Push
  <2>3. /\ pushed' \subseteq Ancestry(new) /\ new \notin Ancestry(remote)
        /\ new \in 2..Len(commits)
    BY <1>1, <1>3, <2>2, NewOnTop
  <2>4. disk.intent = new /\ synced.intent = new BY <1>1 DEF Books, NewBook
  <2>5. CommitBook' BY <1>1 DEF Books, WriteBook, CommitBook
  <2>6. FileBook' BY <1>1, <2>2 DEF Books, WriteBook, FileBook
  <2>7. FlightBook' BY <1>1, <2>2, <2>3 DEF FlightBook, Ancestry
  <2>8. ToldBook'
    <3>1. new # None BY <2>3 DEF None, GoalTypeOK
    <3> QED BY <1>1, <2>3, <2>4, <3>1 DEF ToldBook, Told, Ancestry
  <2>9. BoundBook' BY <1>1 DEF Books, WriteBook, BoundBook
  <2>10. WriteAhead' BY <1>1, <2>2, <2>4 DEF WriteAhead
  <2>11. OwnHead' BY <1>1, <2>2 DEF Books, WriteBook, OwnHead
  <2> QED BY <1>2, <2>5, <2>6, <2>7, <2>8, <2>9, <2>10, <2>11 DEF Books, WriteBook
<1>4. CASE ~(remote = bound /\ ~late)
  <2>1. UNCHANGED <<flight, pushed>> BY <1>4 DEF Push
  <2>2. WriteBook' BY <1>1, <2>1, WriteRests DEF Books
  <2> QED BY <1>2, <2>2 DEF Books
<1> QED BY <1>3, <1>4

LEMMA ReadbackKeeps ==
  ASSUME GoalTypeOK, Books, Readback
  PROVE  Books'
<1>1. /\ UNCHANGED <<commits, remote, flight, pushed, disk, synced, start, new>>
      /\ pc = "readback" /\ pc' \in {"ci", "goal"} /\ bound' = new /\ remote = new
  BY DEF Readback, remoteVars, diskVars, bindingVars
<1>2. new \in pushed BY <1>1 DEF Books, WriteBook, FileBook
<1>3. disk.intent # None BY <1>1 DEF Books, NewBook, None, GoalTypeOK
<1>4. WriteBook' BY <1>1, <1>2, <1>3, BindingKeeps DEF Books
<1>5. ReconciledBook' /\ NewBook' BY <1>1, CallOver DEF Reconciling
<1> QED BY <1>4, <1>5 DEF Books

\* The head that a recovery continues is on top of all that was pushed, and was
\* pushed itself.
LEMMA RecoveredHead ==
  ASSUME GoalTypeOK, Books, Recover
  PROVE  pushed \subseteq Ancestry(remote) /\ remote \in pushed \cup {Seed} /\ flight = {}
<1> USE DEF Recover, RecoverGoalDraft
<1>1. pc = "archived" /\ start \in Ancestry(remote) OBVIOUS
<1>2. Rooted(commits) /\ remote \in DOMAIN commits
  <2>1. Rooted(commits) BY CommitsRooted DEF Books, WriteBook
  <2> QED BY <2>1 DEF Rooted, GoalTypeOK
<1>3. CASE NothingActive
  <2>1. disk.intent = None BY <1>3 DEF NothingActive, Empty
  <2>2. pushed \subseteq Ancestry(start) BY <1>1, <2>1 DEF Books, WriteBook, ToldBook, Told
  <2>3. Ancestry(start) \subseteq Ancestry(remote)
    BY <1>1, <1>2, AncestorsOfAncestor DEF Ancestry
  <2>4. remote = Seed \/ remote = start BY <1>3
  <2>5. flight = {} BY <1>1, <2>1, NothingInFlight DEF Books
  <2> QED BY <2>2, <2>3, <2>4, <2>5 DEF Books, WriteBook, OwnHead
<1>4. CASE ~NothingActive
  <2>1. disk.intent # None BY <1>4 DEF IntentReadable
  <2>2. remote = disk.intent BY <1>4, <2>1 DEF Receipt
  <2>3. pushed \subseteq Ancestry(remote)
    BY <1>1, <2>1, <2>2 DEF Books, WriteBook, ToldBook, Told
  <2>4. remote \in pushed BY <2>2 DEF Books, WriteBook, FileBook
  <2>5. flight = {} BY <1>1, <2>2, NothingInFlight DEF Books
  <2> QED BY <2>3, <2>4, <2>5
<1> QED BY <1>3, <1>4

LEMMA RecoverKeeps ==
  ASSUME GoalTypeOK, Books, Recover
  PROVE  Books'
<1>1. /\ UNCHANGED <<commits, remote, flight, pushed, new>>
      /\ start' = remote /\ bound' = remote /\ disk' = Empty /\ synced' = Empty /\ pc' = "off"
  BY DEF Recover, RecoverGoalDraft, remoteVars
<1>2. pushed \subseteq Ancestry(remote) /\ remote \in pushed \cup {Seed} /\ flight = {}
  BY RecoveredHead
<1>3. disk'.intent = None /\ synced'.intent = None BY <1>1 DEF Empty
<1>4. CommitBook' BY <1>1 DEF Books, WriteBook, CommitBook
<1>5. FileBook'
  <2>1. None # remote /\ None <= Len(commits) BY DEF GoalTypeOK, None
  <2> QED BY <1>1, <1>3, <2>1 DEF Books, WriteBook, FileBook
<1>6. FlightBook' /\ WriteAhead' BY <1>1, <1>2 DEF FlightBook, WriteAhead
<1>7. ToldBook' BY <1>1, <1>2, <1>3 DEF ToldBook, Told, Ancestry
<1>8. BoundBook' /\ OwnHead' BY <1>1, <1>2 DEF BoundBook, OwnHead
<1>9. ReconciledBook' /\ NewBook' BY <1>1, CallOver DEF Reconciling
<1> QED BY <1>4, <1>5, <1>6, <1>7, <1>8, <1>9 DEF Books, WriteBook

-----------------------------------------------------------------------------
(* The books of acceptance.                                                *)

Accepting == VerifiedBook /\ AcceptBook /\ AcceptedExact

\* Nothing that acceptance rests on is taken back.
Stays == pushed \subseteq pushed' /\ \A c \in pushed : commits'[c] = commits[c]

LEMMA CommitsStay ==
  ASSUME GoalTypeOK, commits' = commits \/ (\E r \in CommitType : commits' = Append(commits, r)),
         pushed \subseteq pushed'
  PROVE  Stays
<1>1. CASE commits' = commits BY <1>1 DEF Stays
<1>2. ASSUME NEW r \in CommitType, commits' = Append(commits, r) PROVE Stays
  <2>1. commits \in Seq(CommitType) /\ pushed \subseteq 1..Len(commits)
    BY TypesByPart DEF GoalParts, CommitTypes, HeadTypes
  <2>2. \A c \in 1..Len(commits) : commits'[c] = commits[c] BY <1>2, <2>1
  <2> QED BY <2>1, <2>2 DEF Stays
<1> QED BY <1>1, <1>2

LEMMA AcceptingRests ==
  ASSUME Accepting, Stays, UNCHANGED <<pc, snap, vbase, accepted, res, handoff, proof>>
  PROVE  Accepting'
<1>1. VerifiedBook' BY DEF Accepting, VerifiedBook, Stays, Tree
<1>2. AcceptBook' BY DEF Accepting, AcceptBook
<1>3. AcceptedExact' BY DEF Accepting, AcceptedExact, Stays, Tree
<1> QED BY <1>1, <1>2, <1>3 DEF Accepting

\* Nothing is accepted, and no handoff is written.
LEMMA NothingAccepted ==
  ASSUME accepted' = FALSE, handoff' = FALSE, pc' \notin {"final", "finalCI"}, VerifiedBook'
  PROVE  Accepting'
BY DEF Accepting, AcceptBook, AcceptedExact

LEMMA OutsideCall ==
  ASSUME pc' \notin Tool
  PROVE  VerifiedBook'
BY DEF VerifiedBook, Tool

LEMMA WorldAccepting ==
  ASSUME GoalTypeOK, Accepting, World
  PROVE  Accepting'
<1>1. UNCHANGED <<pc, snap, vbase, accepted, res, handoff, proof, pushed>>
  BY DEF World, MainMoves, PRChanges, CIChanges, DeadlinePasses, Edit, PushLost, PushLands,
         ForeignPush, flowVars
<1>2. commits' = commits \/ (\E r \in CommitType : commits' = Append(commits, r))
  <2>1. ASSUME NEW t \in Trees, ForeignPush(t)
        PROVE  \E r \in CommitType : commits' = Append(commits, r)
    <3>1. remote \in Ids /\ 0 \in Mains /\ t \in AllTrees
      BY BoundAssumption, MainAssumption DEF GoalTypeOK, Ids, Mains, AllTrees
    <3>2. [parent |-> remote, tree |-> t, base |-> 0] \in CommitType BY <3>1 DEF CommitType
    <3> QED BY <2>1, <3>2 DEF ForeignPush
  <2>2. ASSUME ~(\E t \in Trees : ForeignPush(t)) PROVE commits' = commits
    BY <2>2 DEF World, MainMoves, PRChanges, CIChanges, DeadlinePasses, Edit, PushLost, PushLands,
         remoteVars
  <2> QED BY <2>1, <2>2
<1>3. Stays BY <1>1, <1>2, CommitsStay
<1> QED BY <1>1, <1>3, AcceptingRests

LEMMA EndAccepting ==
  ASSUME Accepting, Stop \/ Crash \/ HostCrash \/ RunnerLost \/ Archive \/ Recover
  PROVE  Accepting'
<1>1. accepted' = FALSE
  BY DEF Stop, Crash, HostCrash, RunnerLost, Archive, Recover, RecoverGoalDraft, Forgotten,
         Accepting, AcceptBook
<1>2. handoff' = FALSE
  BY DEF Stop, Crash, HostCrash, RunnerLost, Archive, Recover, RecoverGoalDraft, Running, Tool,
         Accepting, AcceptBook, GoalTypeOK
<1>3. pc' \in {"ended", "off", "lost", "archived"}
  BY DEF Stop, Crash, HostCrash, RunnerLost, Archive, Recover, RecoverGoalDraft
<1>4. VerifiedBook' BY <1>3, OutsideCall DEF Tool
<1> QED BY <1>1, <1>2, <1>3, <1>4, NothingAccepted

LEMMA CallAccepting ==
  ASSUME GoalTypeOK, Books, Accepting,
         \/ Launch \/ CallTool \/ Refresh \/ Verify \/ AppendGoalDraft \/ CommitTree
         \/ InstallBundle \/ InstallIntent \/ SyncState \/ Push \/ Readback
         \/ ObserveGoalCI \/ ObservedCurrent \/ ToolFails
  PROVE  Accepting'
<1> USE DEF Tool
<1>1. handoff' = FALSE
  BY DEF Launch, CallTool, Refresh, Verify, AppendGoalDraft, CommitTree, InstallBundle,
         InstallIntent, SyncState, Push, Readback, ObserveGoalCI, ObservedCurrent, ToolFails,
         Accepting, AcceptBook, GoalTypeOK
<1>2. accepted' = FALSE
  BY DEF Launch, CallTool, Refresh, Verify, AppendGoalDraft, CommitTree, InstallBundle,
         InstallIntent, SyncState, Push, Readback, ObserveGoalCI, ObservedCurrent, ToolFails,
         Accepting, AcceptBook, GoalTypeOK, flowVars
<1>3. pc' \notin {"final", "finalCI"}
  BY DEF Launch, CallTool, Refresh, Verify, AppendGoalDraft, CommitTree, InstallBundle,
         InstallIntent, SyncState, Push, Readback, ObserveGoalCI, ObservedCurrent, ToolFails,
         Published
<1>4. VerifiedBook'
  <2> USE DEF Accepting
  <2>1. CASE Launch \/ CallTool \/ Refresh \/ ToolFails
    <3>1. pc' \in {"goal", "refresh", "verify"}
      BY <2>1 DEF Launch, CallTool, Refresh, ToolFails
    <3> QED BY <3>1 DEF VerifiedBook
  <2>2. CASE Verify
    <3>1. /\ pc' = "publish" /\ snap' = work /\ work # SeedTree /\ vbase' = vbase
          /\ proof' = [tree |-> work, base |-> vbase, head |-> None, at |-> 0]
      BY <2>2 DEF Verify
    <3> QED BY <3>1 DEF VerifiedBook
  <2>3. CASE AppendGoalDraft
    <3>1. pc = "publish" /\ UNCHANGED <<snap, vbase, proof, commits, pushed>>
      BY <2>3 DEF AppendGoalDraft, remoteVars
    <3>2. proof.tree = snap /\ proof.base = vbase /\ snap # SeedTree BY <3>1 DEF VerifiedBook
    <3>3. CASE pc' = "again" BY <3>1, <3>2, <3>3 DEF VerifiedBook
    <3>4. CASE pc' # "again"
      <4>1. Tree(bound) = snap /\ Published(bound)
        BY <2>3, <3>1, <3>4, NoPriorIntent DEF AppendGoalDraft, Books
      <4>2. pc' = "ci" /\ res'.head = bound /\ res'.tree = snap
        BY <4>1, TypesByPart DEF Published, GoalParts, RecordTypes, Results
      <4>3. bound # Seed BY <3>2, <4>1 DEF Books, WriteBook, CommitBook, Tree
      <4>4. bound \in pushed BY <4>3 DEF Books, WriteBook, OwnHead
      <4> QED BY <3>1, <3>2, <4>1, <4>2, <4>4 DEF VerifiedBook, Tree
    <3> QED BY <3>3, <3>4
  <2>4. CASE CommitTree \/ InstallBundle \/ InstallIntent \/ SyncState \/ Push
    <3>1. /\ pc \in {"again", "bundle", "name", "sync", "push"}
          /\ pc' \in {"bundle", "name", "sync", "push", "readback"}
          /\ UNCHANGED <<snap, vbase, proof>>
      BY <2>4 DEF CommitTree, InstallBundle, InstallIntent, SyncState, Push, flowVars
    <3> QED BY <3>1 DEF VerifiedBook
  <2>5. CASE Readback
    <3>1. /\ pc = "readback" /\ pc' \in {"ci", "goal"}
          /\ UNCHANGED <<snap, vbase, proof, commits, pushed>>
          /\ remote = new /\ res' = [res EXCEPT !.head = new, !.tree = snap]
      BY <2>5 DEF Readback, remoteVars
    <3>2. res'.head = new /\ res'.tree = snap
      BY <3>1, TypesByPart DEF GoalParts, RecordTypes, Results
    <3>3. proof.tree = snap /\ proof.base = vbase BY <3>1 DEF VerifiedBook
    <3>4. commits[new].tree = snap BY <3>1 DEF Books, NewBook
    <3>5. new \in pushed BY <3>1 DEF Books, WriteBook, FileBook
    <3> QED BY <3>1, <3>2, <3>3, <3>4, <3>5 DEF VerifiedBook, Tree
  <2>6. CASE ObserveGoalCI
    <3>1. /\ pc = "ci" /\ pc' = "observed" /\ main = vbase
          /\ UNCHANGED <<snap, vbase, res, commits, pushed>>
          /\ proof' = [proof EXCEPT !.head = res.head, !.at = main]
      BY <2>6 DEF ObserveGoalCI, remoteVars, flowVars, Current
    <3>2. /\ proof'.head = res.head /\ proof'.at = main /\ proof'.tree = proof.tree
          /\ proof'.base = proof.base
      BY <3>1, TypesByPart DEF GoalParts, RecordTypes, ProofType
    <3> QED BY <3>1, <3>2 DEF VerifiedBook, Tree
  <2>7. CASE ObservedCurrent
    <3>1. /\ pc = "observed" /\ pc' = "recheck"
          /\ UNCHANGED <<snap, vbase, res, commits, pushed, proof>>
      BY <2>7 DEF ObservedCurrent, remoteVars, flowVars
    <3> QED BY <3>1 DEF VerifiedBook, Tree
  <2> QED BY <2>1, <2>2, <2>3, <2>4, <2>5, <2>6, <2>7
<1> QED BY <1>1, <1>2, <1>3, <1>4, NothingAccepted

LEMMA FinalAccepting ==
  ASSUME GoalTypeOK, Accepting, Accept \/ GoalCompletes \/ FinalObserve \/ Complete
  PROVE  Accepting'
<1>1. VerifiedBook'
  <2>1. pc' \notin Tool BY DEF Accept, GoalCompletes, FinalObserve, Complete, Tool
  <2> QED BY <2>1, OutsideCall
<1>2. AcceptBook'
  BY DEF Accept, GoalCompletes, FinalObserve, Complete, Tool, Accepting, AcceptBook, flowVars
<1>3. AcceptedExact'
  <2>1. CASE Accept
    <3>1. /\ pc = "recheck" /\ UNCHANGED <<commits, pushed, proof, vbase, snap>>
          /\ res' = [res EXCEPT !.base = vbase]
      BY <2>1 DEF Accept, remoteVars
    <3>2. res'.base = vbase /\ res'.head = res.head /\ res'.tree = res.tree
      BY <3>1, TypesByPart DEF GoalParts, RecordTypes, Results
    <3> QED BY <3>1, <3>2 DEF Accepting, VerifiedBook, AcceptedExact, Tree
  <2>2. CASE GoalCompletes \/ FinalObserve \/ Complete
    <3>1. accepted /\ UNCHANGED <<commits, pushed, proof, res>>
      BY <2>2 DEF GoalCompletes, FinalObserve, Complete, Accepting, AcceptBook, remoteVars, flowVars
    <3> QED BY <3>1 DEF Accepting, AcceptedExact, Tree
  <2> QED BY <2>1, <2>2
<1> QED BY <1>1, <1>2, <1>3 DEF Accepting

-----------------------------------------------------------------------------
LEMMA BooksKept ==
  ASSUME GoalTypeOK, Books, [GoalNext]_goalVars
  PROVE  Books'
<1>1. CASE World
  BY <1>1, WorldKeeps, PushLostKeeps, PushLandsKeeps, ForeignPushKeeps DEF World
<1>2. CASE Controller
  BY <1>2, LaunchKeeps, CallToolKeeps, VerifyingKeeps, AppendKeeps, CommitTreeKeeps,
     InstallBundleKeeps, InstallIntentKeeps, SyncStateKeeps, PushKeeps, ReadbackKeeps,
     ReadingKeeps, EndingKeeps
  DEF Controller
<1>3. CASE Crash \/ HostCrash \/ RunnerLost \/ Archive BY <1>3, EndingKeeps
<1>4. CASE Recover BY <1>4, RecoverKeeps
<1>5. CASE UNCHANGED goalVars
  <2>1. UNCHANGED <<commits, remote, flight, pushed, disk, synced, start, bound, new, snap, pc>>
    BY <1>5 DEF goalVars, remoteVars, diskVars, flowVars, bindingVars
  <2>2. WriteBook' BY <2>1, WriteRests DEF Books
  <2>3. ReconciledBook' /\ NewBook' BY <2>1, CallRests DEF Books
  <2> QED BY <2>2, <2>3 DEF Books
<1> QED BY <1>1, <1>2, <1>3, <1>4, <1>5 DEF GoalNext

LEMMA AcceptingKept ==
  ASSUME GoalTypeOK, Books, Accepting, [GoalNext]_goalVars
  PROVE  Accepting'
<1>1. CASE World BY <1>1, WorldAccepting
<1>2. CASE Controller BY <1>2, CallAccepting, FinalAccepting, EndAccepting DEF Controller
<1>3. CASE Crash \/ HostCrash \/ RunnerLost \/ Archive \/ Recover BY <1>3, EndAccepting
<1>4. CASE UNCHANGED goalVars
  <2>1. UNCHANGED <<pc, snap, vbase, accepted, res, handoff, proof, pushed, commits>>
    BY <1>4 DEF goalVars, remoteVars, flowVars
  <2>2. Stays BY <2>1 DEF Stays
  <2> QED BY <2>1, <2>2, AcceptingRests
<1> QED BY <1>1, <1>2, <1>3, <1>4 DEF GoalNext

LEMMA GoalPreserved == GoalIInv /\ [GoalNext]_goalVars => GoalIInv'
<1> SUFFICES ASSUME GoalIInv, [GoalNext]_goalVars PROVE GoalIInv' OBVIOUS
<1>1. GoalTypeOK /\ Books /\ Accepting BY DEF GoalIInv, Books, Accepting
<1>2. GoalTypeOK' BY GoalTypesKept
<1>3. Books' BY <1>1, BooksKept
<1>4. Accepting' BY <1>1, AcceptingKept
<1> QED BY <1>2, <1>3, <1>4 DEF GoalIInv, Books, Accepting

LEMMA GoalStarts == GoalInit => GoalIInv
<1> SUFFICES ASSUME GoalInit PROVE GoalIInv OBVIOUS
<1> USE DEF GoalInit
<1> DEFINE r == [parent |-> None, tree |-> SeedTree, base |-> 0]
<1>1. 0 \in Mains /\ 0 \in Ids /\ SeedTree \in AllTrees
  BY MainAssumption, BoundAssumption DEF Mains, Ids, AllTrees
<1>2. r \in CommitType BY <1>1 DEF CommitType, None
<1>3. /\ commits \in Seq(CommitType) /\ Len(commits) = 1 /\ commits[1] = r
  <2>1. commits = <<r>> OBVIOUS
  <2> HIDE DEF r
  <2> QED BY <1>2, <2>1
<1>4. GoalTypeOK
  <2>1. CommitTypes BY <1>3, BoundAssumption DEF CommitTypes
  <2>2. HeadTypes BY <1>3 DEF HeadTypes, Seed
  <2>3. FileTypes BY <1>1 DEF FileTypes, Files, Empty, None
  <2>4. FlowTypes
    <3>1. /\ main \in Mains /\ vbase \in Mains /\ work \in AllTrees /\ snap \in AllTrees
          /\ new \in Ids
      BY <1>1 DEF None
    <3>2. epoch \in 1..MaxEpochs BY BoundAssumption
    <3>3. open \in BOOLEAN /\ late \in BOOLEAN /\ accepted \in BOOLEAN /\ handoff \in BOOLEAN
      OBVIOUS
    <3> QED BY <3>1, <3>2, <3>3 DEF FlowTypes
  <2>5. ControllerTypes BY DEF ControllerTypes
  <2>6. RecordTypes BY <1>1 DEF RecordTypes, Results, ProofType, NoResult, None
  <2> QED BY <2>1, <2>2, <2>3, <2>4, <2>5, <2>6, TypesByPart DEF GoalParts
<1>5. CommitBook BY <1>3 DEF CommitBook, Seed, None
<1>6. WriteBook
  <2>1. FileBook BY <1>3 DEF FileBook, Empty, None, Seed
  <2> QED BY <1>5, <2>1 DEF WriteBook, FlightBook, ToldBook, BoundBook, WriteAhead, OwnHead
<1>7. ReconciledBook /\ NewBook /\ VerifiedBook /\ AcceptBook /\ AcceptedExact
  BY DEF ReconciledBook, Reconciling, NewBook, VerifiedBook, AcceptBook, Tool, AcceptedExact
<1> QED BY <1>4, <1>6, <1>7 DEF GoalIInv

\* A recovery starts on top of every commit a push was started for.
LEMMA RecoveryDiscardsNothing ==
  GoalIInv /\ [GoalNext]_goalVars => [epoch' # epoch => pushed \subseteq Ancestry(start')]_goalVars
<1> SUFFICES ASSUME GoalIInv, GoalNext, epoch' # epoch PROVE pushed \subseteq Ancestry(start')
  OBVIOUS
<1>1. Recover
  <2>1. ~World
    BY DEF World, MainMoves, PRChanges, CIChanges, DeadlinePasses, Edit, PushLost, PushLands,
         ForeignPush, bindingVars
  <2>2. ~(Crash \/ HostCrash \/ RunnerLost \/ Archive)
    BY DEF Crash, HostCrash, RunnerLost, Archive, bindingVars
  <2>3. ~Controller
    BY DEF Controller, Launch, CallTool, Refresh, Verify, AppendGoalDraft, CommitTree,
         InstallBundle, InstallIntent, SyncState, Push, Readback, ObserveGoalCI, ObservedCurrent,
         Accept, GoalCompletes, FinalObserve, Complete, ToolFails, Stop, bindingVars
  <2> QED BY <2>1, <2>2, <2>3 DEF GoalNext
<1>2. start' = remote BY <1>1 DEF Recover, RecoverGoalDraft
<1> QED BY <1>1, <1>2, RecoveredHead DEF GoalIInv, Books

\* For any trees, mains and numbers of commits and executions, and whatever is
\* lost, late or crashes: an intent is durable as long as its push can land, the
\* controller binds to its own commits, what is accepted or handed off is the
\* verified tree on the recorded main, and a recovery discards no write.
THEOREM GoalIsSound == GoalSpec => GoalSound
<1>1. GoalIInv => GoalTypeOK /\ WriteAhead /\ OwnHead /\ AcceptedExact
  BY DEF GoalIInv, WriteBook
<1> QED BY <1>1, GoalStarts, GoalPreserved, RecoveryDiscardsNothing, PTL
  DEF GoalSpec, GoalSound, NothingDiscarded

-----------------------------------------------------------------------------
(* Publication implements SerialWrites.                                    *)

Landed == pushed \cap Ancestry(remote)

\* A step that starts no push and makes no push land changes nothing that
\* SerialWrites sees.
LEMMA NoWrite ==
  ASSUME pushed' = pushed, remote' = remote,
         commits' = commits
  PROVE  UNCHANGED <<pushed, Landed>>
BY DEF Landed, Ancestry

LEMMA WriteStarts == GoalInit => Writes!Init
BY DEF GoalInit, Writes!Init

LEMMA WriteStep ==
  ASSUME GoalIInv, [GoalNext]_goalVars
  PROVE  [Writes!Next]_<<pushed, Landed>>
<1>1. GoalTypeOK /\ Books BY DEF GoalIInv, Books
<1>2. Rooted(commits) /\ DOMAIN commits = 1..Len(commits)
  <2>1. Rooted(commits) BY <1>1, CommitsRooted DEF Books, WriteBook
  <2> QED BY <2>1 DEF Rooted
<1>3. /\ Len(commits) \in Nat /\ remote \in 1..Len(commits) /\ pushed \subseteq 1..Len(commits)
  BY <1>1 DEF GoalTypeOK
<1>4. ASSUME NEW t \in Trees, ForeignPush(t) PROVE UNCHANGED <<pushed, Landed>>
  <2> DEFINE r == [parent |-> remote, tree |-> t, base |-> 0]
             n == Len(commits) + 1
  <2>1. commits' = Append(commits, r) /\ remote' = n /\ pushed' = pushed
    BY <1>4 DEF ForeignPush
  <2>2. r \in CommitType /\ r.parent = remote
    <3>1. remote \in Ids BY <1>1, BoundAssumption DEF GoalTypeOK, Ids
    <3>2. 0 \in Mains BY MainAssumption DEF Mains
    <3> QED BY <3>1, <3>2 DEF CommitType, AllTrees
  <2> HIDE DEF r
  <2>3. /\ Longer(commits, commits') /\ Len(commits') = n /\ commits'[n] = r
        /\ \A c \in 1..Len(commits) : Ancestors(commits', c) = Ancestors(commits, c)
    BY <1>1, <1>3, <2>1, <2>2, CommitMade DEF Books, WriteBook
  <2>4. n \in DOMAIN commits' /\ Rooted(commits') BY <1>3, <2>3 DEF Longer, Rooted
  <2>5. n \notin pushed BY <1>3
  <2>6. commits'[n].parent = remote /\ remote # 0 BY <1>3, <2>2, <2>3
  <2>7. Ancestors(commits', n) = {n} \cup Ancestors(commits', remote)
    <3> HIDE DEF n
    <3> QED BY <2>4, <2>6, AncestorsStep
  <2>8. Landed' = pushed \cap Ancestors(commits', n) BY <2>1 DEF Landed, Ancestry
  <2> QED BY <1>3, <2>1, <2>3, <2>5, <2>7, <2>8 DEF Landed, Ancestry
<1>5. ASSUME CommitTree PROVE UNCHANGED <<pushed, Landed>>
  <2> DEFINE r == [parent |-> bound, tree |-> snap, base |-> vbase]
  <2>1. commits' = Append(commits, r) /\ remote' = remote /\ pushed' = pushed
    BY <1>5 DEF CommitTree
  <2>2. r \in CommitType /\ r.parent \in 1..Len(commits)
    <3>1. bound \in Ids BY <1>1, BoundAssumption DEF GoalTypeOK, Ids
    <3> QED BY <1>1, <3>1 DEF GoalTypeOK, CommitType, AllTrees
  <2> HIDE DEF r
  <2>3. \A c \in 1..Len(commits) : Ancestors(commits', c) = Ancestors(commits, c)
    BY <1>1, <2>1, <2>2, CommitMade DEF Books, WriteBook
  <2> QED BY <1>3, <2>1, <2>3 DEF Landed, Ancestry
<1>6. ASSUME NEW c \in flight, PushLands(c) PROVE [Writes!Next]_<<pushed, Landed>>
  <2>1. UNCHANGED <<commits, pushed>> BY <1>6 DEF PushLands
  <2>2. CASE remote # commits[c].parent
    <3>1. remote' = remote BY <1>6, <2>2 DEF PushLands
    <3> QED BY <2>1, <3>1, NoWrite
  <2>3. CASE remote = commits[c].parent
    <3>1. remote' = c BY <1>6, <2>3 DEF PushLands
    <3>2. c \in pushed /\ c \notin Ancestry(remote) /\ pushed \subseteq Ancestry(c)
      BY <1>1 DEF Books, WriteBook, FlightBook
    <3>3. Landed' = pushed BY <2>1, <3>1, <3>2 DEF Landed, Ancestry
    <3>4. Landed # pushed BY <3>2 DEF Landed
    <3> QED BY <2>1, <3>3, <3>4 DEF Writes!Next, Writes!Land, Landed
  <2> QED BY <2>2, <2>3
<1>7. ASSUME Push PROVE [Writes!Next]_<<pushed, Landed>>
  <2>1. UNCHANGED <<commits, remote>> /\ pc = "push" BY <1>7 DEF Push
  <2>2. CASE remote = bound /\ ~late
    <3>1. pushed' = pushed \cup {new} BY <2>2, <1>7 DEF Push
    <3>2. new \notin pushed BY <1>1, <2>1 DEF Books, NewBook
    <3>3. new \notin Ancestry(remote) BY <1>1, <2>1, <2>2, NewOnTop
    <3>4. pushed \subseteq Ancestry(remote)
      BY <1>1, <2>1, <2>2 DEF Books, ReconciledBook, Reconciling
    <3>5. Landed = pushed BY <3>4 DEF Landed
    <3>6. Landed' = Landed BY <2>1, <3>1, <3>3 DEF Landed, Ancestry
    <3>7. new \in Ids BY <1>1 DEF GoalTypeOK
    <3> QED BY <3>1, <3>2, <3>5, <3>6, <3>7 DEF Writes!Next, Writes!Start, Landed
  <2>3. CASE ~(remote = bound /\ ~late)
    <3>1. pushed' = pushed BY <1>7, <2>3 DEF Push
    <3> QED BY <2>1, <3>1, NoWrite
  <2> QED BY <2>2, <2>3
<1>8. ASSUME World, ~(\E t \in Trees : ForeignPush(t)), ~(\E c \in flight : PushLands(c))
      PROVE  UNCHANGED <<pushed, Landed>>
  <2>1. UNCHANGED <<pushed, remote, commits>>
    BY <1>8 DEF World, MainMoves, PRChanges, CIChanges, DeadlinePasses, Edit, PushLost, remoteVars
  <2> QED BY <2>1, NoWrite
<1>9. ASSUME Controller, ~CommitTree, ~Push PROVE UNCHANGED <<pushed, Landed>>
  <2>1. UNCHANGED <<pushed, remote, commits>>
    BY <1>9 DEF Controller, Launch, CallTool, Refresh, Verify, AppendGoalDraft,
         InstallBundle, InstallIntent, SyncState, Readback, ObserveGoalCI, ObservedCurrent,
         Accept, GoalCompletes, FinalObserve, Complete, ToolFails, Stop, remoteVars
  <2> QED BY <2>1, NoWrite
<1>10. CASE Crash \/ HostCrash \/ RunnerLost \/ Archive \/ Recover \/ UNCHANGED goalVars
  <2>1. UNCHANGED <<pushed, remote, commits>>
    BY <1>10
    DEF Crash, HostCrash, RunnerLost, Archive, Recover, RecoverGoalDraft, goalVars, remoteVars
  <2> QED BY <2>1, NoWrite
<1>11. CASE World BY <1>4, <1>6, <1>8, <1>11
<1>12. CASE Controller BY <1>5, <1>7, <1>9, <1>12
<1> QED BY <1>10, <1>11, <1>12 DEF GoalNext

\* The detailed publication, with its crashes, lost pushes and recoveries,
\* implements the abstract one: writes come one at a time, and none is repeated.
THEOREM WritesAreSerial == GoalSpec => OneAtATime
<1>1. GoalIInv /\ [GoalNext]_goalVars => [Writes!Next]_<<pushed, Landed>> BY WriteStep
<1> QED BY <1>1, WriteStarts, GoalStarts, GoalPreserved, PTL
  DEF GoalSpec, OneAtATime, Writes!Spec, Landed

-----------------------------------------------------------------------------
(* From the handoff to main.                                               *)

GraphBook == \A c \in Known : graph[c].parent < c

\* A commit of the two Apps.
Ours(c) == c \in Known /\ graph[c].by \in {"app", "own"}
Allowed(m, h) == Controls(m, h) \/ Exempt(m, h)
OnceGreen(h) == headChecks[h] \in {"green", "again"}

\* What is true of a write when it is sent, and stays true until it lands.
WriteOK(w) ==
  /\ w.ref = "branch" => /\ Ours(w.old) /\ w.new \in Known \cup {Gone}
                         /\ w.new = Gone => w.old \in reached
  /\ w.ref = "main" => /\ w.old \in Known /\ w.new \in Known
                       /\ w.old \in Contains(w.new) /\ <<w.old, w.new>> \in proved
                       /\ Allowed(w.old, w.new) /\ OnceGreen(w.new)
WritesBook == \A w \in writes : WriteOK(w)

CandidateBook ==
  /\ Ours(fhead) /\ Ours(Handoff)
  /\ fpc \in {"publish", "lease", "readback"} => Ours(next)

\* What the controller knows of its pair on the way to the write of main.
PairBook ==
  /\ fpc \in {"checks", "review", "again", "forward", "gate", "main"} =>
       <<fmain, fhead>> \in proved
  /\ fpc \in {"gate", "main"} => fmain \in Contains(fhead) /\ Allowed(fmain, fhead)
  /\ fpc = "main" => OnceGreen(fhead)

ReachedBook == \A c \in Contains(refMain) : Ours(c) => c \in reached

MergeBook ==
  fpc \in {"delete", "deleted", "integrated"} => pr = "merged" /\ fhead \in reached

\* The types, by parts.
GraphTypes == graph \in Seq(Commit) /\ Len(graph) \in 3..MaxGraph
RefTypes ==
  /\ refMain \in Known /\ refHead \in Known \cup {Gone}
  /\ fhead \in Known /\ fmain \in Known /\ next \in Known \cup {Gone} /\ lastMain \in Known
  /\ reached \subseteq Known
PairTypes ==
  /\ proofs \subseteq Known \X Known /\ proved \subseteq Known \X Known
  /\ failures \subseteq Known \X Known
HubTypes ==
  /\ refWriter \in {"publisher", "integrator", "others"}
  /\ pr \in {"draft", "ready", "closed", "merged"}
  /\ headChecks \in [1..MaxGraph -> HeadCheckStates]
  /\ moves \in 0..MaxMoves
WriteTypes == writes \subseteq Write
StepTypes ==
  /\ fixed \in BOOLEAN
  /\ fpc \in {"handoff", "fresh", "mark", "marked", "settled", "read", "verify", "rebase",
              "publish", "lease", "readback", "checks", "review", "again", "forward",
              "gate", "main", "confirm", "cleanup", "delete", "deleted", "integrated", "ended"}
  /\ runs \in 1..MaxRuns

ForwardParts == GraphTypes /\ RefTypes /\ PairTypes /\ HubTypes /\ WriteTypes /\ StepTypes

LEMMA ForwardByPart == ForwardTypeOK <=> ForwardParts
BY DEF ForwardTypeOK, ForwardParts, GraphTypes, RefTypes, PairTypes, HubTypes, WriteTypes, StepTypes

LEMMA ForwardByPartNext == ForwardTypeOK' <=> ForwardParts'
BY DEF ForwardTypeOK, ForwardParts, GraphTypes, RefTypes, PairTypes, HubTypes, WriteTypes, StepTypes

ForwardBooks == GraphBook /\ WritesBook /\ CandidateBook /\ PairBook /\ ReachedBook /\ MergeBook

ForwardIInv == ForwardParts /\ ForwardBooks

LEMMA GraphRooted ==
  ASSUME GraphTypes, GraphBook
  PROVE  Rooted(graph) /\ Len(graph) \in Nat /\ DOMAIN graph = Known /\ Known = 1..Len(graph)
<1>1. Len(graph) \in Nat /\ DOMAIN graph = 1..Len(graph) BY ForwardAssumption DEF GraphTypes
<1>2. ASSUME NEW c \in 1..Len(graph) PROVE graph[c].parent \in 0..(c - 1)
  <2>1. graph[c] \in Commit BY DEF GraphTypes
  <2>2. graph[c].parent < c BY DEF GraphBook, Known
  <2> QED BY <2>1, <2>2, ForwardAssumption DEF Commit
<1> QED BY <1>1, <1>2 DEF Rooted, Known

-----------------------------------------------------------------------------
(* What no step takes back.                                                *)

Grows ==
  /\ fixed' = fixed /\ proved \subseteq proved' /\ reached \subseteq reached'
  /\ Known \subseteq Known'
  /\ \A c \in Known : graph'[c] = graph[c] /\ Ancestors(graph', c) = Ancestors(graph, c)
  /\ \A c \in Known : OnceGreen(c) => OnceGreen(c)'

\* One more commit.
Commits(r) ==
  /\ graph' = Append(graph, r) /\ r \in Commit /\ r.parent \in Known /\ Len(graph) < MaxGraph

LEMMA GraphLonger ==
  ASSUME GraphTypes, GraphBook, NEW r, Commits(r)
  PROVE  /\ GraphTypes' /\ GraphBook' /\ Longer(graph, graph')
         /\ Len(graph') = Len(graph) + 1 /\ graph'[Len(graph) + 1] = r
         /\ Known \subseteq Known' /\ Len(graph') \in Known' \ Known
         /\ \A c \in Known : graph'[c] = graph[c] /\ Ancestors(graph', c) = Ancestors(graph, c)
         /\ Ancestors(graph', Len(graph')) = {Len(graph')} \cup Ancestors(graph, r.parent)
<1>1. Rooted(graph) /\ Len(graph) \in Nat /\ DOMAIN graph = Known /\ Known = 1..Len(graph)
  BY GraphRooted
<1>2. /\ r \in Commit /\ r.parent \in 0..Len(graph)
      /\ graph \in Seq(Commit) /\ graph' = Append(graph, r)
  BY <1>1 DEF Commits, GraphTypes
<1>3. Longer(graph, graph') BY <1>1, <1>2, AppendLonger
<1>4. /\ Len(graph') = Len(graph) + 1 /\ graph'[Len(graph) + 1] = r
      /\ \A c \in 1..Len(graph) : graph'[c] = graph[c]
      /\ graph' \in Seq(Commit)
  BY <1>2
<1>5. GraphTypes' BY <1>1, <1>4, ForwardAssumption DEF GraphTypes, Commits
<1>6. Rooted(graph') BY <1>3 DEF Longer
<1>7. Known' = 1..Len(graph') BY DEF Known
<1>8. GraphBook'
  <2> SUFFICES ASSUME NEW c \in Known' PROVE graph'[c].parent < c
    BY DEF GraphBook
  <2>1. graph'[c].parent \in 0..(c - 1) BY <1>6, <1>7 DEF Rooted
  <2> QED BY <1>1, <1>4, <1>7, <2>1
<1>9. \A c \in Known : Ancestors(graph', c) = Ancestors(graph, c)
  BY <1>1, <1>3, AncestorsKept
<1>10. Known \subseteq Known' /\ Len(graph') \in Known' \ Known BY <1>1, <1>4, <1>7
<1>11. Ancestors(graph', Len(graph')) = {Len(graph')} \cup Ancestors(graph, r.parent)
  <2> DEFINE n == Len(graph')
  <2>1. n \in DOMAIN graph' BY <1>6, <1>7, <1>10 DEF Rooted
  <2>2. graph'[n].parent = r.parent /\ r.parent # 0 /\ r.parent \in Known
    BY <1>1, <1>4 DEF Commits
  <2> HIDE DEF n
  <2>3. Ancestors(graph', n) = {n} \cup Ancestors(graph', r.parent)
    BY <1>6, <2>1, <2>2, AncestorsStep
  <2> QED BY <1>9, <2>2, <2>3 DEF n
<1> QED BY <1>1, <1>3, <1>4, <1>5, <1>8, <1>9, <1>10, <1>11

\* The commits that steps make.
LEMMA RivalsCommit ==
  ASSUME ForwardParts, RivalCommits
  PROVE  \E r : Commits(r) /\ r.parent = refMain /\ r.by = "others"
<1>1. PICK t \in BOOLEAN, g \in 0..1 :
        graph' = Append(graph, [parent |-> refMain, by |-> "others",
                               carries |-> t \/ graph[refMain].carries, gates |-> g])
  BY DEF RivalCommits
<1> DEFINE r == [parent |-> refMain, by |-> "others",
                 carries |-> t \/ graph[refMain].carries, gates |-> g]
<1>2. refMain \in Known /\ refMain \in 0..MaxGraph
  BY ForwardAssumption DEF ForwardParts, RefTypes, GraphTypes, Known
<1>3. (t \/ graph[refMain].carries) \in BOOLEAN OBVIOUS
<1>4. r \in Commit BY <1>2, <1>3 DEF Commit
<1>5. r.parent = refMain /\ r.by = "others" OBVIOUS
<1>6. graph' = Append(graph, r) BY <1>1
<1> HIDE DEF r
<1> QED BY <1>2, <1>4, <1>5, <1>6 DEF Commits, RivalCommits

LEMMA EditsCommit ==
  ASSUME ForwardParts, BranchEdited, graph' # graph
  PROVE  refHead' = Len(graph') /\ \E r : Commits(r)
<1> DEFINE r == [graph[refHead] EXCEPT !.parent = refHead, !.by = "others"]
<1>1. /\ Len(graph) < MaxGraph /\ refHead # Gone /\ graph' = Append(graph, r)
      /\ refHead' = Len(graph')
  BY DEF BranchEdited
<1>2. refHead \in Known /\ refHead \in 0..MaxGraph
  BY <1>1, ForwardAssumption DEF ForwardParts, RefTypes, GraphTypes, Known
<1>3. graph[refHead] \in Commit BY <1>2 DEF ForwardParts, GraphTypes, Known
<1>4. r \in Commit /\ r.parent = refHead BY <1>2, <1>3 DEF Commit
<1> HIDE DEF r
<1> QED BY <1>1, <1>2, <1>4 DEF Commits

LEMMA CandidateCommits ==
  ASSUME ForwardParts, NEW g, Reconciled(g)
  PROVE  /\ next' = Len(graph')
         /\ \E r : Commits(r) /\ r.parent = fmain /\ r.by = "own"
<1> DEFINE r == [parent |-> fmain, by |-> "own", carries |-> TRUE, gates |-> g]
<1>1. fmain \in Known /\ fmain \in 0..MaxGraph
  BY ForwardAssumption DEF ForwardParts, RefTypes, GraphTypes, Known
<1>2. graph[fmain] \in Commit BY <1>1 DEF ForwardParts, GraphTypes, Known
<1>3. g \in 0..1 BY <1>2 DEF Reconciled, Commit
<1>4. r \in Commit /\ r.parent = fmain /\ r.by = "own" BY <1>1, <1>3 DEF Commit
<1>5. graph' = Append(graph, r) /\ Len(graph) < MaxGraph /\ next' = Len(graph') BY DEF Reconciled
<1> HIDE DEF r
<1> QED BY <1>1, <1>4, <1>5 DEF Commits

LEMMA GrowsByCommit ==
  ASSUME GraphTypes, GraphBook, NEW r, Commits(r),
         fixed' = fixed, proved \subseteq proved', reached \subseteq reached',
         headChecks' = headChecks
  PROVE  Grows
BY GraphLonger DEF Grows, OnceGreen

LEMMA GrowsWithout ==
  ASSUME graph' = graph, fixed' = fixed, proved \subseteq proved', reached \subseteq reached',
         \A c \in Known : OnceGreen(c) => OnceGreen(c)'
  PROVE  Grows
BY DEF Grows, Known

\* What holds of a write when it is sent holds when it lands.
LEMMA WritesStay ==
  ASSUME Grows, NEW w, WriteOK(w)
  PROVE  WriteOK(w)'
<1>1. ASSUME w.ref = "branch"
      PROVE  (Ours(w.old) /\ w.new \in Known \cup {Gone} /\ (w.new = Gone => w.old \in reached))'
  BY <1>1 DEF WriteOK, Ours, Grows, Gone
<1>2. ASSUME w.ref = "main"
      PROVE  (/\ w.old \in Known /\ w.new \in Known
              /\ w.old \in Contains(w.new) /\ <<w.old, w.new>> \in proved
              /\ Allowed(w.old, w.new) /\ OnceGreen(w.new))'
  <2>1. /\ w.old \in Known /\ w.new \in Known
        /\ w.old \in Contains(w.new) /\ <<w.old, w.new>> \in proved
        /\ Allowed(w.old, w.new) /\ OnceGreen(w.new)
    BY <1>2 DEF WriteOK
  <2>2. (w.old \in Contains(w.new))' BY <2>1 DEF Grows, Contains
  <2>3. Allowed(w.old, w.new)' BY <2>1 DEF Grows, Allowed, Controls, Exempt
  <2> QED BY <2>1, <2>2, <2>3 DEF Grows
<1> QED BY <1>1, <1>2 DEF WriteOK

-----------------------------------------------------------------------------
(* Steps of everybody else.                                                *)

\* The controller rests while the repository moves.
LEMMA HubBooks ==
  ASSUME ForwardBooks, Grows, GraphBook', ReachedBook', writes' \subseteq writes,
         UNCHANGED <<fpc, fhead, fmain, next>>, pr = "merged" => pr' = "merged",
         RefTypes
  PROVE  ForwardBooks'
<1>1. WritesBook' BY WritesStay DEF ForwardBooks, WritesBook
<1>2. CandidateBook' BY DEF ForwardBooks, CandidateBook, Ours, Grows
<1>3. PairBook'
  <2>1. fhead \in Known /\ fmain \in Known BY DEF RefTypes
  <2>2. fmain \in Contains(fhead) => fmain \in Contains(fhead)' BY <2>1 DEF Contains, Grows
  <2>3. Allowed(fmain, fhead) => Allowed(fmain, fhead)'
    BY <2>1 DEF Grows, Allowed, Controls, Exempt
  <2>4. OnceGreen(fhead) => OnceGreen(fhead)' BY <2>1 DEF Grows, OnceGreen
  <2>5. <<fmain, fhead>> \in proved => <<fmain, fhead>> \in proved' BY DEF Grows
  <2> QED BY <2>2, <2>3, <2>4, <2>5 DEF ForwardBooks, PairBook
<1>4. MergeBook' BY DEF ForwardBooks, MergeBook, Grows
<1> QED BY <1>1, <1>2, <1>3, <1>4 DEF ForwardBooks

\* Main moves to a commit that exists.
LEMMA MainMovesOn ==
  ASSUME ForwardParts, ForwardBooks, NEW m \in Known, MainIs(m), graph' = graph
  PROVE  /\ refMain' \in Known /\ reached' \subseteq Known /\ reached \subseteq reached'
         /\ ReachedBook' /\ GraphBook'
<1>1. Contains(m) \subseteq Known
  BY GraphRooted, AncestorsAreCommits DEF ForwardParts, ForwardBooks, Contains
<1>2. reached' \subseteq Known BY <1>1 DEF MainIs, ForwardParts, RefTypes
<1>3. ReachedBook' BY DEF ReachedBook, Contains, Ours, MainIs
<1>4. GraphBook' BY DEF ForwardBooks, GraphBook, Known
<1> QED BY <1>2, <1>3, <1>4 DEF MainIs

\* A commit on a commit, or none: the types that depend on the graph.
LEMMA RefTypesGrow ==
  ASSUME ForwardParts, Known \subseteq Known',
         refMain' \in Known', refHead' \in Known' \cup {Gone}, reached' \subseteq Known',
         UNCHANGED <<fhead, fmain, next, lastMain, pairVars>>
  PROVE  RefTypes' /\ PairTypes'
<1>1. RefTypes' BY DEF ForwardParts, RefTypes
<1>2. PairTypes' BY DEF ForwardParts, PairTypes, pairVars
<1> QED BY <1>1, <1>2

LEMMA HubKeeps ==
  ASSUME ForwardIInv, Hub
  PROVE  ForwardIInv'
<1> USE DEF ForwardIInv
<1>1. UNCHANGED <<writes, boundVars, fpc, fhead, fmain, next, lastMain, pairVars, fixed, runs,
                  proved>>
  BY DEF Hub, boundVars, pairVars
<1>2. moves' \in 0..MaxMoves BY ForwardAssumption DEF Hub, ForwardParts, HubTypes
<1>3. WriteTypes' /\ StepTypes' BY <1>1 DEF ForwardParts, WriteTypes, StepTypes
<1>4. GraphTypes /\ GraphBook /\ HubTypes /\ RefTypes BY DEF ForwardParts, ForwardBooks
<1>5. CASE RivalMerges \/ MainResets
  <2>1. /\ UNCHANGED <<graph, refHead, refWriter, pr, headChecks>>
    BY <1>5 DEF RivalMerges, MainResets
  <2>2. \E m \in Known : MainIs(m)
    <3>1. CASE RivalMerges BY <3>1 DEF RivalMerges
    <3>2. CASE MainResets
      <4>1. Contains(refMain) \subseteq Known
        BY <1>4, GraphRooted, AncestorsAreCommits DEF RefTypes, Contains
      <4> QED BY <3>2, <4>1 DEF MainResets
    <3> QED BY <1>5, <3>1, <3>2
  <2>3. /\ refMain' \in Known /\ reached' \subseteq Known /\ reached \subseteq reached'
        /\ ReachedBook' /\ GraphBook'
    BY <2>1, <2>2, MainMovesOn
  <2>4. Grows BY <1>1, <2>1, <2>3, GrowsWithout DEF OnceGreen
  <2>5. ForwardBooks' BY <1>1, <1>4, <2>1, <2>3, <2>4, HubBooks
  <2>6. GraphTypes' /\ Known' = Known BY <1>4, <2>1 DEF GraphTypes, Known
  <2>7. RefTypes' /\ PairTypes' BY <1>1, <1>4, <2>1, <2>3, <2>6, RefTypesGrow DEF RefTypes
  <2>8. HubTypes' BY <1>2, <1>4, <2>1 DEF HubTypes
  <2> QED BY <1>3, <2>5, <2>6, <2>7, <2>8 DEF ForwardParts
<1>6. CASE RivalCommits
  <2>1. UNCHANGED <<refHead, refWriter, pr, headChecks, reached>> /\ refMain' = Len(graph')
    BY <1>6 DEF RivalCommits
  <2>2. PICK r : Commits(r) /\ r.parent = refMain /\ r.by = "others" BY <1>6, RivalsCommit
  <2>3. /\ GraphTypes' /\ GraphBook'
        /\ Len(graph') = Len(graph) + 1 /\ graph'[Len(graph) + 1] = r
        /\ Known \subseteq Known' /\ Len(graph') \in Known' \ Known
        /\ \A c \in Known : graph'[c] = graph[c] /\ Ancestors(graph', c) = Ancestors(graph, c)
        /\ Ancestors(graph', Len(graph')) = {Len(graph')} \cup Ancestors(graph, r.parent)
    BY <1>4, <2>2, GraphLonger
  <2>4. Grows BY <1>1, <1>4, <2>1, <2>2, GrowsByCommit
  <2>5. ReachedBook'
    <3> SUFFICES ASSUME NEW c \in Ancestors(graph', Len(graph')), Ours(c)' PROVE c \in reached'
      BY <2>1 DEF ReachedBook, Contains
    <3>1. c # Len(graph') BY <2>2, <2>3 DEF Ours
    <3>2. c \in Contains(refMain) BY <2>2, <2>3, <3>1 DEF Contains
    <3>3. c \in Known
      BY <1>4, <3>2, GraphRooted, AncestorsAreCommits DEF RefTypes, Contains
    <3>4. Ours(c) BY <2>3, <3>3 DEF Ours
    <3> QED BY <2>1, <3>2, <3>4 DEF ForwardBooks, ReachedBook
  <2>6. ForwardBooks' BY <1>1, <1>4, <2>1, <2>3, <2>4, <2>5, HubBooks
  <2>7. RefTypes' /\ PairTypes' BY <1>1, <1>4, <2>1, <2>3, RefTypesGrow DEF RefTypes
  <2>8. HubTypes' BY <1>2, <1>4, <2>1 DEF HubTypes
  <2> QED BY <1>3, <2>3, <2>6, <2>7, <2>8 DEF ForwardParts
<1>7. CASE BranchEdited
  <2>1. UNCHANGED <<refMain, pr, headChecks, reached>> /\ refWriter' = "others"
    BY <1>7 DEF BranchEdited
  <2>2. /\ GraphTypes' /\ GraphBook' /\ Known \subseteq Known' /\ Grows
        /\ refHead' \in Known' \cup {Gone}
    <3>1. CASE graph' = graph
      <4>1. GraphTypes' /\ GraphBook' /\ Known' = Known
        BY <1>4, <3>1 DEF GraphTypes, GraphBook, Known
      <4>2. Grows BY <1>1, <2>1, <3>1, GrowsWithout DEF OnceGreen
      <4>3. refHead' \in Known
        <5>1. CASE graph' = Append(graph, [graph[refHead] EXCEPT !.parent = refHead,
                                                                 !.by = "others"])
          <6>1. Len(graph') = Len(graph) + 1 BY <1>4, <5>1 DEF GraphTypes
          <6>2. Len(graph) \in Nat BY <1>4, ForwardAssumption DEF GraphTypes
          <6> QED BY <3>1, <6>1, <6>2
        <5>2. CASE refHead' \in Known \ {refHead} BY <5>2
        <5> QED BY <1>7, <5>1, <5>2 DEF BranchEdited
      <4> QED BY <4>1, <4>2, <4>3
    <3>2. CASE graph' # graph
      <4>1. refHead' = Len(graph') /\ \E r : Commits(r) BY <1>7, <3>2, EditsCommit
      <4>2. PICK r : Commits(r) BY <4>1
      <4>3. GraphTypes' /\ GraphBook' /\ Known \subseteq Known' /\ Len(graph') \in Known'
        BY <1>4, <4>2, GraphLonger
      <4>4. Grows BY <1>1, <1>4, <2>1, <4>2, GrowsByCommit
      <4> QED BY <4>1, <4>3, <4>4
    <3> QED BY <3>1, <3>2
  <2>3. ReachedBook'
    <3>1. Contains(refMain)' = Contains(refMain) BY <1>4, <2>1, <2>2 DEF Grows, RefTypes, Contains
    <3>2. \A c \in Contains(refMain) : c \in Known
      BY <1>4, GraphRooted, AncestorsAreCommits DEF RefTypes, Contains
    <3>3. \A c \in Contains(refMain) : Ours(c)' => Ours(c) BY <2>2, <3>2 DEF Ours, Grows
    <3> QED BY <2>1, <3>1, <3>3 DEF ForwardBooks, ReachedBook
  <2>4. ForwardBooks' BY <1>1, <1>4, <2>1, <2>2, <2>3, HubBooks
  <2>5. RefTypes' /\ PairTypes' BY <1>1, <1>4, <2>1, <2>2, RefTypesGrow DEF RefTypes
  <2>6. HubTypes' BY <1>2, <1>4, <2>1 DEF HubTypes
  <2> QED BY <1>3, <2>2, <2>4, <2>5, <2>6 DEF ForwardParts
<1>8. CASE PRMoves \/ PRMerges \/ ChecksMove
  <2>1. UNCHANGED <<graph, refMain, refHead, refWriter, reached>>
    BY <1>8 DEF PRMoves, PRMerges, ChecksMove
  <2>2. /\ pr' \in {"draft", "ready", "closed", "merged"}
        /\ pr = "merged" => pr' = "merged"
    BY <1>4, <1>8 DEF PRMoves, PRMerges, ChecksMove, HubTypes
  <2>3. headChecks' \in [1..MaxGraph -> HeadCheckStates]
    BY <1>4, <1>8 DEF PRMoves, PRMerges, ChecksMove, HubTypes
  <2>4. \A c \in Known : OnceGreen(c) => OnceGreen(c)'
    <3>1. CASE PRMoves \/ PRMerges BY <3>1 DEF PRMoves, PRMerges, OnceGreen
    <3>2. CASE ChecksMove
      <4>1. PICK s \in HeadCheckStates :
              /\ <<headChecks[refHead], s>> \in {<<"pending", "green">>, <<"pending", "red">>,
                                                 <<"green", "again">>, <<"again", "green">>}
              /\ headChecks' = [headChecks EXCEPT ![refHead] = s]
        BY <3>2 DEF ChecksMove
      <4>2. headChecks[refHead] \in {"green", "again"} => s \in {"green", "again"} BY <4>1
      <4>3. \A c \in Known : c \in 1..MaxGraph
        BY <1>4, ForwardAssumption DEF GraphTypes, Known
      <4> QED BY <1>4, <4>1, <4>2, <4>3 DEF OnceGreen, HubTypes
    <3> QED BY <1>8, <3>1, <3>2
  <2>5. Grows BY <1>1, <2>1, <2>4, GrowsWithout
  <2>6. GraphTypes' /\ GraphBook' /\ Known' = Known BY <1>4, <2>1 DEF GraphTypes, GraphBook, Known
  <2>7. ReachedBook' BY <2>1 DEF ForwardBooks, ReachedBook, Contains, Ours, Known
  <2>8. ForwardBooks' BY <1>1, <1>4, <2>1, <2>2, <2>5, <2>6, <2>7, HubBooks
  <2>9. RefTypes' /\ PairTypes' BY <1>1, <1>4, <2>1, <2>6, RefTypesGrow DEF RefTypes
  <2>10. HubTypes' BY <1>2, <1>4, <2>1, <2>2, <2>3 DEF HubTypes
  <2> QED BY <1>3, <2>6, <2>8, <2>9, <2>10 DEF ForwardParts
<1> QED BY <1>5, <1>6, <1>7, <1>8 DEF Hub

\* Writes land late or not at all.
LEMMA WriteLandsKeeps ==
  ASSUME ForwardIInv, NEW w \in writes, WriteLands(w) \/ WriteLost(w)
  PROVE  ForwardIInv'
<1> USE DEF ForwardIInv
<1>1. /\ UNCHANGED <<moves, fpc, fhead, fmain, next, lastMain, pairVars, fixed, runs, proved,
                     graph, headChecks>>
      /\ writes' \subseteq writes
  BY DEF WriteLands, WriteLost, boundVars, pairVars, hubVars
<1>2. GraphTypes /\ GraphBook /\ HubTypes /\ RefTypes BY DEF ForwardParts, ForwardBooks
<1>3. WriteTypes' /\ StepTypes' BY <1>1 DEF ForwardParts, WriteTypes, StepTypes
<1>4. GraphTypes' /\ GraphBook' /\ Known' = Known BY <1>1, <1>2 DEF GraphTypes, GraphBook, Known
<1>5. WriteOK(w) BY DEF ForwardBooks, WritesBook
<1>6. /\ refMain' \in Known /\ refHead' \in Known \cup {Gone}
      /\ reached' \subseteq Known /\ reached \subseteq reached' /\ ReachedBook'
      /\ refWriter' \in {"publisher", "integrator", "others"}
      /\ pr' \in {"draft", "ready", "closed", "merged"} /\ (pr = "merged" => pr' = "merged")
  <2>1. CASE WriteLost(w) \/ (w.ref = "ready" /\ WriteLands(w))
    <3>1. UNCHANGED <<refMain, refHead, refWriter, reached>>
      BY <2>1 DEF WriteLost, WriteLands, hubVars
    <3>2. ReachedBook' BY <1>1, <3>1 DEF ForwardBooks, ReachedBook, Contains, Ours, Known
    <3>3. pr' \in {pr, "ready"} /\ (pr = "merged" => pr' = "merged")
      BY <2>1 DEF WriteLost, WriteLands, hubVars
    <3> QED BY <1>2, <3>1, <3>2, <3>3 DEF RefTypes, HubTypes
  <2>2. CASE w.ref = "branch" /\ WriteLands(w)
    <3>1. UNCHANGED <<refMain, pr, reached>> /\ refHead' = w.new /\ refWriter' = "integrator"
      BY <2>2 DEF WriteLands
    <3>2. ReachedBook' BY <1>1, <3>1 DEF ForwardBooks, ReachedBook, Contains, Ours, Known
    <3> QED BY <1>2, <1>5, <2>2, <3>1, <3>2 DEF RefTypes, HubTypes, WriteOK
  <2>3. CASE w.ref = "main" /\ WriteLands(w)
    <3>1. UNCHANGED <<refHead, refWriter, pr>> /\ MainIs(w.new) BY <2>3 DEF WriteLands
    <3>2. w.new \in Known BY <1>5, <2>3 DEF WriteOK
    <3>3. /\ refMain' \in Known /\ reached' \subseteq Known /\ reached \subseteq reached'
          /\ ReachedBook'
      BY <1>1, <3>1, <3>2, MainMovesOn
    <3> QED BY <1>2, <3>1, <3>3 DEF RefTypes, HubTypes
  <2> QED BY <2>1, <2>2, <2>3 DEF WriteLands
<1>7. Grows BY <1>1, <1>6, GrowsWithout DEF OnceGreen
<1>8. ForwardBooks' BY <1>1, <1>2, <1>4, <1>6, <1>7, HubBooks
<1>9. RefTypes' /\ PairTypes' BY <1>1, <1>4, <1>6, RefTypesGrow
<1>10. HubTypes' BY <1>1, <1>2, <1>6 DEF HubTypes
<1> QED BY <1>3, <1>4, <1>8, <1>9, <1>10 DEF ForwardParts

-----------------------------------------------------------------------------
(* Steps of the controller.                                                *)

\* A step of the controller leaves the repository alone.
Alone == UNCHANGED <<hubVars, fixed>> /\ proved \subseteq proved'

\* The steps after which the controller knows nothing it would have to keep.
Plain == {"handoff", "fresh", "mark", "marked", "settled", "read", "verify", "rebase",
          "confirm", "cleanup", "ended"}

LEMMA AloneKeeps ==
  ASSUME ForwardIInv, Alone
  PROVE  /\ Grows /\ GraphTypes' /\ GraphBook' /\ ReachedBook' /\ HubTypes' /\ Known' = Known
         /\ UNCHANGED <<graph, refMain, refHead, pr, headChecks, reached>>
<1>1. UNCHANGED <<graph, refMain, refHead, refWriter, pr, headChecks, moves, reached, fixed>>
  BY DEF Alone, hubVars
<1>2. Grows BY <1>1, GrowsWithout DEF Alone, OnceGreen
<1>3. GraphTypes' /\ GraphBook' /\ Known' = Known
  BY <1>1 DEF ForwardIInv, ForwardParts, ForwardBooks, GraphTypes, GraphBook, Known
<1>4. ReachedBook'
  BY <1>1 DEF ForwardIInv, ForwardBooks, ReachedBook, Contains, Ours, Known
<1>5. HubTypes' BY <1>1 DEF ForwardIInv, ForwardParts, HubTypes
<1> QED BY <1>1, <1>2, <1>3, <1>4, <1>5

LEMMA AloneTypes ==
  ASSUME ForwardIInv, Alone, StepTypes', WriteTypes', PairTypes',
         {fhead', fmain', lastMain'} \subseteq Known, next' \in Known \cup {Gone}
  PROVE  ForwardParts'
<1>1. RefTypes' BY AloneKeeps DEF ForwardIInv, ForwardParts, RefTypes
<1> QED BY <1>1, AloneKeeps DEF ForwardParts

\* Looks keeps the last main a commit that exists.
LEMMA LooksTyped ==
  ASSUME ForwardParts, Looks \/ lastMain' = lastMain \/ lastMain' = refMain
  PROVE  lastMain' \in Known
BY DEF ForwardParts, RefTypes, Looks

\* A step that neither writes nor learns anything.
LEMMA WritesStand ==
  ASSUME ForwardIInv, Alone, writes' = writes
  PROVE  WritesBook' /\ WriteTypes'
<1>1. Grows BY AloneKeeps
<1>2. WritesBook' BY <1>1, WritesStay DEF ForwardIInv, ForwardBooks, WritesBook
<1> QED BY <1>2 DEF ForwardIInv, ForwardParts, WriteTypes

LEMMA WriteSent ==
  ASSUME ForwardIInv, Alone, NEW w \in Write, Sends(w), WriteOK(w)
  PROVE  WritesBook' /\ WriteTypes'
<1>1. Grows BY AloneKeeps
<1>2. WritesBook'
  BY <1>1, WritesStay DEF ForwardIInv, ForwardBooks, WritesBook, Sends
<1> QED BY <1>2 DEF ForwardIInv, ForwardParts, WriteTypes, Sends

LEMMA PlainBooks ==
  ASSUME ForwardIInv, Alone, WritesBook', fpc' \in Plain, Ours(fhead')
  PROVE  ForwardBooks'
<1>1. Grows /\ GraphBook' /\ ReachedBook' BY AloneKeeps
<1>2. CandidateBook'
  BY <1>1 DEF ForwardIInv, ForwardBooks, CandidateBook, Ours, Grows, Plain
<1>3. PairBook' BY DEF PairBook, Plain
<1>4. MergeBook' BY DEF MergeBook, Plain
<1> QED BY <1>1, <1>2, <1>3, <1>4 DEF ForwardBooks

\* A step within one pair of main and candidate that only moves on.
LEMMA PairBooks ==
  ASSUME ForwardIInv, Alone, WritesBook', UNCHANGED <<fhead, fmain, next>>,
         fpc' \in {"publish", "lease", "readback"} => fpc \in {"publish", "lease", "readback"},
         fpc' \in {"checks", "review", "again", "forward", "gate", "main"} =>
           <<fmain, fhead>> \in proved',
         fpc' \in {"gate", "main"} => fmain \in Contains(fhead) /\ Allowed(fmain, fhead),
         fpc' = "main" => OnceGreen(fhead),
         fpc' \in {"delete", "deleted", "integrated"} => pr = "merged" /\ fhead \in reached
  PROVE  ForwardBooks'
<1>1. Grows /\ GraphBook' /\ ReachedBook' BY AloneKeeps
<1>2. UNCHANGED <<graph, pr, reached, headChecks, fixed>> BY AloneKeeps DEF Alone
<1>3. CandidateBook'
  BY <1>1, <1>2 DEF ForwardIInv, ForwardBooks, CandidateBook, Ours, Grows
<1>4. PairBook'
  BY <1>2 DEF PairBook, Contains, Allowed, Controls, Exempt, OnceGreen
<1>5. MergeBook' BY <1>2 DEF MergeBook
<1> QED BY <1>1, <1>3, <1>4, <1>5 DEF ForwardBooks

\* What Goto moves on to.
LEMMA GotoTypes ==
  ASSUME ForwardParts, NEW s, Goto(s),
         s \in {"handoff", "fresh", "mark", "marked", "settled", "read", "verify", "rebase",
                "publish", "lease", "readback", "checks", "review", "again", "forward",
                "gate", "main", "confirm", "cleanup", "delete", "deleted", "integrated", "ended"}
  PROVE  StepTypes'
<1>1. fpc' = s /\ fixed' = fixed /\ runs' = runs BY DEF Goto, boundVars
<1> QED BY <1>1 DEF ForwardParts, StepTypes

LEMMA GotoAlone ==
  ASSUME NEW s, Goto(s), proved \subseteq proved'
  PROVE  Alone /\ fpc' = s
BY DEF Goto, Alone, boundVars

\* The steps that leave the pair, its proofs and the writes as they are.
LEMMA WalkKeeps ==
  ASSUME ForwardIInv, NEW s, Goto(s), UNCHANGED <<writes, fhead, fmain, next, pairVars>>,
         Looks \/ lastMain' = lastMain,
         \/ s \in Plain
         \/ s = "lease" /\ fpc = "publish"
         \/ s = "readback" /\ fpc \in {"publish", "lease"}
         \/ s = "review" /\ fpc = "checks"
         \/ s = "again" /\ fpc = "review"
         \/ s = "forward" /\ fpc = "again"
         \/ s = "gate" /\ fpc = "forward" /\ fmain \in Contains(fhead) /\ Allowed(fmain, fhead)
         \/ s = "main" /\ fpc = "gate" /\ OnceGreen(fhead)
         \/ s \in {"delete", "integrated"} /\ pr = "merged" /\ fhead \in Contains(refMain)
         \/ s = "integrated" /\ fpc = "deleted"
  PROVE  ForwardIInv'
<1>1. Alone /\ fpc' = s BY GotoAlone DEF pairVars
<1>2. WritesBook' /\ WriteTypes' BY <1>1, WritesStand
<1>3. StepTypes' BY GotoTypes DEF ForwardIInv, Plain
<1>4. lastMain' \in Known BY LooksTyped DEF ForwardIInv
<1>5. Known' = Known BY <1>1, AloneKeeps
<1>6. PairTypes' BY <1>5 DEF ForwardIInv, ForwardParts, PairTypes, pairVars
<1>7. {fhead', fmain', lastMain'} \subseteq Known /\ next' \in Known \cup {Gone}
  BY <1>4 DEF ForwardIInv, ForwardParts, RefTypes
<1>8. ForwardParts' BY <1>1, <1>2, <1>3, <1>6, <1>7, AloneTypes
<1>9. Ours(fhead) /\ (fhead \in Contains(refMain) => fhead \in reached)
  BY DEF ForwardIInv, ForwardBooks, CandidateBook, ReachedBook
<1>10. fpc' \in {"publish", "lease", "readback"} => fpc \in {"publish", "lease", "readback"}
  BY <1>1 DEF Plain
<1>11. fpc' \in {"checks", "review", "again", "forward", "gate", "main"} =>
         <<fmain, fhead>> \in proved'
  BY <1>1 DEF Plain, pairVars, ForwardIInv, ForwardBooks, PairBook
<1>12. fpc' \in {"gate", "main"} => fmain \in Contains(fhead) /\ Allowed(fmain, fhead)
  BY <1>1 DEF Plain, ForwardIInv, ForwardBooks, PairBook
<1>13. fpc' = "main" => OnceGreen(fhead) BY <1>1 DEF Plain
<1>14. fpc' \in {"delete", "deleted", "integrated"} => pr = "merged" /\ fhead \in reached
  BY <1>1, <1>9 DEF Plain, ForwardIInv, ForwardBooks, MergeBook
<1>15. ForwardBooks'
  BY <1>1, <1>2, <1>10, <1>11, <1>12, <1>13, <1>14, PairBooks
<1> QED BY <1>8, <1>15 DEF ForwardIInv

\* ReadyGoal, and the steps of the loop that only look.
LEMMA LookingKeeps ==
  ASSUME ForwardIInv,
         \/ CheckHandoff \/ ConfirmReady \/ Retry \/ PublishHead \/ PublishRefused
         \/ ObserveChecks \/ Review \/ ChecksAgain \/ Forward \/ Gate \/ ForwardRefused
         \/ ConfirmMain \/ Cleanup \/ Deleted \/ Blocked
  PROVE  ForwardIInv'
<1>1. UNCHANGED <<writes, fhead, fmain, next, pairVars>> /\ (Looks \/ lastMain' = lastMain)
  BY DEF CheckHandoff, ConfirmReady, Retry, PublishHead, PublishRefused, ObserveChecks, Review,
         ChecksAgain, Forward, Gate, ForwardRefused, ConfirmMain, Cleanup, Deleted, Blocked, Read
<1>2. CASE CheckHandoff \/ ConfirmReady \/ Retry \/ ForwardRefused \/ ConfirmMain \/ Blocked
  <2>1. \E s \in Plain : Goto(s)
    BY <1>2 DEF CheckHandoff, ConfirmReady, Retry, ForwardRefused, ConfirmMain, Blocked, Plain
  <2> QED BY <1>1, <2>1, WalkKeeps
<1>3. CASE PublishHead \/ PublishRefused
  <2>1. \/ Goto("lease") /\ fpc = "publish"
        \/ Goto("readback") /\ fpc \in {"publish", "lease"}
    BY <1>3 DEF PublishHead, PublishRefused
  <2> QED BY <1>1, <2>1, WalkKeeps
<1>4. CASE ObserveChecks \/ Review \/ ChecksAgain
  <2>1. \/ \E s \in Plain : Goto(s)
        \/ Goto("review") /\ fpc = "checks"
        \/ Goto("again") /\ fpc = "review"
        \/ Goto("forward") /\ fpc = "again"
    BY <1>4 DEF ObserveChecks, Review, ChecksAgain, Plain
  <2>2. CASE \E s \in Plain : Goto(s) BY <1>1, <2>2, WalkKeeps
  <2>3. CASE Goto("review") /\ fpc = "checks" BY <1>1, <2>3, WalkKeeps
  <2>4. CASE Goto("again") /\ fpc = "review" BY <1>1, <2>4, WalkKeeps
  <2>5. CASE Goto("forward") /\ fpc = "again" BY <1>1, <2>5, WalkKeeps
  <2> QED BY <2>1, <2>2, <2>3, <2>4, <2>5
<1>5. CASE Forward \/ Gate
  <2>1. \/ Goto("gate") /\ fpc = "forward" /\ fmain \in Contains(fhead) /\ Allowed(fmain, fhead)
        \/ Goto("main") /\ fpc = "gate" /\ OnceGreen(fhead)
    BY <1>5 DEF Forward, Gate, MayVerify, Allowed, Green, OnceGreen
  <2> QED BY <1>1, <2>1, WalkKeeps
<1>6. CASE Cleanup \/ Deleted
  <2>1. \/ \E s \in Plain : Goto(s)
        \/ \E s \in {"delete", "integrated"} :
             Goto(s) /\ pr = "merged" /\ fhead \in Contains(refMain)
        \/ Goto("integrated") /\ fpc = "deleted"
    BY <1>6 DEF Cleanup, Deleted, Plain
  <2> QED BY <1>1, <2>1, WalkKeeps
<1> QED BY <1>2, <1>3, <1>4, <1>5, <1>6

\* A read found the candidate, in main or not.
LEMMA FindingKeeps ==
  ASSUME ForwardIInv, FindIntegrated \/ FindCandidate
  PROVE  ForwardIInv'
<1>1. /\ UNCHANGED <<writes, fhead, next, pairVars>> /\ fmain' = refMain /\ Looks
      /\ \E s \in Plain : Goto(s)
  BY DEF FindIntegrated, FindCandidate, Read, Plain
<1>2. PICK s \in Plain : Goto(s) BY <1>1
<1>3. Alone /\ fpc' = s BY <1>1, <1>2, GotoAlone DEF pairVars
<1>4. WritesBook' /\ WriteTypes' /\ Known' = Known BY <1>1, <1>3, WritesStand, AloneKeeps
<1>5. StepTypes' BY <1>2, GotoTypes DEF ForwardIInv, Plain
<1>6. PairTypes' BY <1>1, <1>4 DEF ForwardIInv, ForwardParts, PairTypes, pairVars
<1>7. {fhead', fmain', lastMain'} \subseteq Known /\ next' \in Known \cup {Gone}
  BY <1>1, LooksTyped DEF ForwardIInv, ForwardParts, RefTypes
<1>8. ForwardParts' BY <1>3, <1>4, <1>5, <1>6, <1>7, AloneTypes
<1>9. Ours(fhead') BY <1>1 DEF ForwardIInv, ForwardBooks, CandidateBook
<1>10. ForwardBooks' BY <1>2, <1>3, <1>4, <1>9, PlainBooks
<1> QED BY <1>8, <1>10 DEF ForwardIInv

\* The proof of the pair succeeds or fails.
LEMMA ProofKeeps ==
  ASSUME ForwardIInv, PairVerified \/ ProofFails
  PROVE  ForwardIInv'
<1> DEFINE p == <<fmain, fhead>>
<1>1. /\ UNCHANGED <<writes, fhead, fmain, next>> /\ (Looks \/ lastMain' = lastMain)
      /\ proofs' \subseteq proofs \cup {p} /\ failures' \subseteq failures \cup {p}
      /\ proved \subseteq proved' /\ proved' \subseteq proved \cup {p}
  BY DEF PairVerified, ProofFails, Proves
<1>2. PICK s \in {"read", "rebase", "checks"} : Goto(s) /\ (s = "checks" => p \in proved')
  BY DEF PairVerified, ProofFails, Proves
<1>3. Alone /\ fpc' = s BY <1>1, <1>2, GotoAlone
<1>4. WritesBook' /\ WriteTypes' /\ Known' = Known BY <1>1, <1>3, WritesStand, AloneKeeps
<1>5. StepTypes' BY <1>2, GotoTypes DEF ForwardIInv
<1>6. {fhead', fmain', lastMain'} \subseteq Known /\ next' \in Known \cup {Gone}
  BY <1>1, LooksTyped DEF ForwardIInv, ForwardParts, RefTypes
<1>7. PairTypes'
  <2>1. p \in Known \X Known BY DEF ForwardIInv, ForwardParts, RefTypes
  <2> HIDE DEF p
  <2> QED BY <1>1, <1>4, <2>1 DEF ForwardIInv, ForwardParts, PairTypes
<1>8. ForwardParts' BY <1>3, <1>4, <1>5, <1>6, <1>7, AloneTypes
<1>9. ForwardBooks' BY <1>1, <1>2, <1>3, <1>4, PairBooks
<1> QED BY <1>8, <1>9 DEF ForwardIInv

\* A candidate is built on the main that was read, and proved on it.
LEMMA ReconcileKeeps ==
  ASSUME ForwardIInv, Rebase \/ Repair
  PROVE  ForwardIInv'
<1>1. (\E g : Reconciled(g)) /\ (Looks \/ lastMain' = lastMain) BY DEF Rebase, Repair, Read
<1>2. PICK g : Reconciled(g) BY <1>1
<1>3. GraphTypes /\ GraphBook /\ RefTypes BY DEF ForwardIInv, ForwardParts, ForwardBooks
<1>4. next' = Len(graph') /\ \E r : Commits(r) /\ r.parent = fmain /\ r.by = "own"
  BY <1>2, CandidateCommits DEF ForwardIInv
<1>5. PICK r : Commits(r) /\ r.parent = fmain /\ r.by = "own" BY <1>4
<1>6. /\ GraphTypes' /\ GraphBook'
      /\ Len(graph') = Len(graph) + 1 /\ graph'[Len(graph) + 1] = r
      /\ Known \subseteq Known' /\ Len(graph') \in Known' \ Known
      /\ \A c \in Known : graph'[c] = graph[c] /\ Ancestors(graph', c) = Ancestors(graph, c)
  BY <1>3, <1>5, GraphLonger
<1>7. /\ UNCHANGED <<refMain, refHead, refWriter, pr, headChecks, moves, reached, fixed, runs,
                     writes, fhead, fmain, failures>>
      /\ fpc' = "publish"
      /\ proofs' = proofs \cup {<<fmain, next'>>} /\ proved' = proved \cup {<<fmain, next'>>}
  BY <1>2 DEF Reconciled, boundVars, Proves
<1>8. Grows BY <1>3, <1>5, <1>7, GrowsByCommit
<1>9. HubTypes' /\ StepTypes' /\ WriteTypes'
  BY <1>7 DEF ForwardIInv, ForwardParts, HubTypes, StepTypes, WriteTypes
<1>10. lastMain' \in Known BY <1>1, LooksTyped DEF ForwardIInv
<1>11. RefTypes' BY <1>3, <1>4, <1>6, <1>7, <1>10 DEF RefTypes
<1>12. PairTypes'
  <2> DEFINE p == <<fmain, next'>>
  <2>1. p \in Known' \X Known' BY <1>3, <1>4, <1>6 DEF RefTypes
  <2>2. Known \X Known \subseteq Known' \X Known' BY <1>6
  <2> HIDE DEF p
  <2>3. proofs' = proofs \cup {p} /\ proved' = proved \cup {p} BY <1>7 DEF p
  <2> QED BY <1>7, <2>1, <2>2, <2>3 DEF ForwardIInv, ForwardParts, PairTypes
<1>13. WritesBook' BY <1>7, <1>8, WritesStay DEF ForwardIInv, ForwardBooks, WritesBook
<1>14. CandidateBook'
  <2>1. Ours(fhead)' /\ Ours(Handoff)'
    BY <1>7, <1>8 DEF ForwardIInv, ForwardBooks, CandidateBook, Ours, Grows, Handoff
  <2>2. Ours(next)' BY <1>4, <1>5, <1>6 DEF Ours
  <2> QED BY <2>1, <2>2 DEF CandidateBook
<1>15. PairBook' /\ MergeBook' BY <1>7 DEF PairBook, MergeBook
<1>16. ReachedBook'
  <2>1. Contains(refMain)' = Contains(refMain) BY <1>3, <1>7, <1>8 DEF Grows, RefTypes, Contains
  <2>2. \A c \in Contains(refMain) : c \in Known
    BY <1>3, GraphRooted, AncestorsAreCommits DEF RefTypes, Contains
  <2>3. \A c \in Contains(refMain) : Ours(c)' => Ours(c) BY <1>8, <2>2 DEF Ours, Grows
  <2> QED BY <1>7, <2>1, <2>3 DEF ForwardIInv, ForwardBooks, ReachedBook
<1> QED
  BY <1>6, <1>9, <1>11, <1>12, <1>13, <1>14, <1>15, <1>16
  DEF ForwardIInv, ForwardParts, ForwardBooks

\* The writes: the PR, the branch, main.
LEMMA SendingKeeps ==
  ASSUME ForwardIInv, MarkReady \/ PushBranch \/ PushMain \/ DeleteBranch
  PROVE  ForwardIInv'
<1>1. UNCHANGED <<fhead, fmain, next, lastMain, pairVars>>
  BY DEF MarkReady, PushBranch, PushMain, DeleteBranch
<1>2. RefTypes /\ GraphTypes /\ CandidateBook /\ PairBook /\ MergeBook
  BY DEF ForwardIInv, ForwardParts, ForwardBooks
<1>3. Known \subseteq 0..MaxGraph BY <1>2, ForwardAssumption DEF GraphTypes, Known
<1>4. PICK s \in {"read", "marked", "readback", "confirm", "deleted"} :
        /\ Goto(s)
        /\ s = "readback" => fpc = "lease"
        /\ s = "deleted" => fpc = "delete"
  BY DEF MarkReady, PushBranch, PushMain, DeleteBranch
<1>5. Alone /\ fpc' = s BY <1>1, <1>4, GotoAlone DEF pairVars
<1>6. WritesBook' /\ WriteTypes'
  <2>1. CASE MarkReady
    <3> DEFINE w == [ref |-> "ready", old |-> Gone, new |-> Gone]
    <3>1. w \in Write /\ WriteOK(w) BY ForwardAssumption DEF Write, WriteOK, Gone
    <3>2. writes' = writes \/ Sends(w) BY <2>1 DEF MarkReady
    <3> HIDE DEF w
    <3> QED BY <1>5, <3>1, <3>2, WritesStand, WriteSent
  <2>2. CASE PushBranch
    <3> DEFINE w == [ref |-> "branch", old |-> fhead, new |-> next]
    <3>1. Ours(fhead) /\ Ours(next) /\ next # Gone
      BY <1>2, <2>2 DEF PushBranch, CandidateBook, Ours, Known, Gone
    <3>2. w \in Write BY <1>2, <1>3, <3>1 DEF Write, Ours
    <3>3. WriteOK(w) BY <3>1 DEF WriteOK, Ours
    <3>4. Sends(w) BY <2>2 DEF PushBranch, Lease
    <3> HIDE DEF w
    <3> QED BY <1>5, <3>2, <3>3, <3>4, WriteSent
  <2>3. CASE PushMain
    <3> DEFINE w == [ref |-> "main", old |-> fmain, new |-> fhead]
    <3>1. w \in Write BY <1>2, <1>3 DEF Write, RefTypes
    <3>2. WriteOK(w) BY <1>2, <2>3 DEF WriteOK, PushMain, PairBook, RefTypes
    <3>3. Sends(w) BY <2>3 DEF PushMain, Advertised
    <3> HIDE DEF w
    <3> QED BY <1>5, <3>1, <3>2, <3>3, WriteSent
  <2>4. CASE DeleteBranch
    <3> DEFINE w == [ref |-> "branch", old |-> fhead, new |-> Gone]
    <3>1. Gone \in 0..MaxGraph BY ForwardAssumption DEF Gone
    <3>2. w \in Write BY <1>2, <1>3, <3>1 DEF Write, RefTypes
    <3>3. WriteOK(w) BY <1>2, <2>4 DEF WriteOK, DeleteBranch, MergeBook, CandidateBook
    <3>4. Sends(w) BY <2>4 DEF DeleteBranch, Lease
    <3> HIDE DEF w
    <3> QED BY <1>5, <3>2, <3>3, <3>4, WriteSent
  <2> QED BY <2>1, <2>2, <2>3, <2>4
<1>7. StepTypes' BY <1>4, GotoTypes DEF ForwardIInv
<1>8. Known' = Known BY <1>5, AloneKeeps
<1>9. PairTypes' BY <1>1, <1>8 DEF ForwardIInv, ForwardParts, PairTypes, pairVars
<1>10. {fhead', fmain', lastMain'} \subseteq Known /\ next' \in Known \cup {Gone}
  BY <1>1, <1>2 DEF RefTypes
<1>11. ForwardParts' BY <1>5, <1>6, <1>7, <1>9, <1>10, AloneTypes
<1>12. s = "deleted" => pr = "merged" /\ fhead \in reached BY <1>2, <1>4 DEF MergeBook
<1>13. ForwardBooks' BY <1>1, <1>4, <1>5, <1>6, <1>12, PairBooks
<1> QED BY <1>11, <1>13 DEF ForwardIInv

\* The candidate becomes the head, or is dropped.
LEMMA CandidateReadbackKeeps ==
  ASSUME ForwardIInv, BranchReadback
  PROVE  ForwardIInv'
<1>1. UNCHANGED <<writes, fmain, pairVars>> /\ next' = Gone /\ Looks /\ Goto("read")
  BY DEF BranchReadback, Read
<1>2. Ours(fhead') BY DEF BranchReadback, ForwardIInv, ForwardBooks, CandidateBook
<1>3. Alone /\ fpc' = "read" BY <1>1, GotoAlone DEF pairVars
<1>4. WritesBook' /\ WriteTypes' /\ Known' = Known BY <1>1, <1>3, WritesStand, AloneKeeps
<1>5. StepTypes' BY <1>1, GotoTypes DEF ForwardIInv
<1>6. PairTypes' BY <1>1, <1>4 DEF ForwardIInv, ForwardParts, PairTypes, pairVars
<1>7. {fhead', fmain', lastMain'} \subseteq Known /\ next' \in Known \cup {Gone}
  BY <1>1, <1>2, LooksTyped DEF ForwardIInv, ForwardParts, RefTypes, Ours
<1>8. ForwardParts' BY <1>3, <1>4, <1>5, <1>6, <1>7, AloneTypes
<1>9. ForwardBooks' BY <1>2, <1>3, <1>4, PlainBooks DEF Plain
<1> QED BY <1>8, <1>9 DEF ForwardIInv

\* The next invocation knows the handoff and nothing else.
LEMMA RunAgainKeeps ==
  ASSUME ForwardIInv, RunAgain
  PROVE  ForwardIInv'
<1>1. /\ UNCHANGED <<hubVars, writes, fixed, proved>> /\ fpc' = "read" /\ runs' = runs + 1
      /\ fhead' = Handoff /\ fmain' = Base /\ next' = Gone /\ lastMain' = Base
      /\ proofs' = {<<Base, Handoff>>} /\ failures' = {} /\ runs < MaxRuns
  BY DEF RunAgain
<1>2. Alone BY <1>1 DEF Alone
<1>3. WritesBook' /\ WriteTypes' /\ Known' = Known BY <1>1, <1>2, WritesStand, AloneKeeps
<1>4. StepTypes' BY <1>1, ForwardAssumption DEF ForwardIInv, ForwardParts, StepTypes
<1>5. Base \in Known /\ Handoff \in Known
  BY ForwardAssumption DEF ForwardIInv, ForwardParts, GraphTypes, Known, Base, Handoff
<1>6. PairTypes' BY <1>1, <1>3, <1>5 DEF ForwardIInv, ForwardParts, PairTypes
<1>7. {fhead', fmain', lastMain'} \subseteq Known /\ next' \in Known \cup {Gone} BY <1>1, <1>5
<1>8. ForwardParts' BY <1>2, <1>3, <1>4, <1>6, <1>7, AloneTypes
<1>9. Ours(fhead') BY <1>1 DEF ForwardIInv, ForwardBooks, CandidateBook
<1>10. ForwardBooks' BY <1>1, <1>2, <1>3, <1>9, PlainBooks DEF Plain
<1> QED BY <1>8, <1>10 DEF ForwardIInv

-----------------------------------------------------------------------------
LEMMA ForwardStarts ==
  ASSUME ForwardInit
  PROVE  ForwardIInv
<1>1. PICK g \in 0..1 :
        graph = <<[parent |-> 0, by |-> "base", carries |-> FALSE, gates |-> 0],
                  [parent |-> Base, by |-> "app", carries |-> FALSE, gates |-> 0],
                  [parent |-> DraftSeed, by |-> "app", carries |-> TRUE, gates |-> g]>>
  BY DEF ForwardInit
<1> DEFINE a == [parent |-> 0, by |-> "base", carries |-> FALSE, gates |-> 0]
           b == [parent |-> Base, by |-> "app", carries |-> FALSE, gates |-> 0]
           d == [parent |-> DraftSeed, by |-> "app", carries |-> TRUE, gates |-> g]
<1>2. 0 \in 0..MaxGraph /\ 1 \in 0..MaxGraph /\ 2 \in 0..MaxGraph /\ 3 \in 3..MaxGraph
  BY ForwardAssumption
<1>3. a \in Commit /\ b \in Commit /\ d \in Commit
  BY <1>2 DEF Commit, Base, DraftSeed
<1>4. /\ a.parent = 0 /\ a.by = "base" /\ b.parent = 1 /\ b.by = "app"
      /\ d.parent = 2 /\ d.by = "app"
  BY DEF Base, DraftSeed
<1>5. graph = <<a, b, d>> BY <1>1
<1> HIDE DEF a, b, d
<1>6. graph \in Seq(Commit) /\ Len(graph) = 3 /\ graph[1] = a /\ graph[2] = b /\ graph[3] = d
  BY <1>3, <1>5
<1>7. Known = {1, 2, 3} BY <1>6 DEF Known
<1>8. GraphTypes BY <1>2, <1>6 DEF GraphTypes
<1>9. GraphBook BY <1>4, <1>6, <1>7 DEF GraphBook
<1>10. RefTypes BY <1>7 DEF ForwardInit, RefTypes, Base, Handoff, Gone
<1>11. PairTypes BY <1>7 DEF ForwardInit, PairTypes, Base, Handoff
<1>12. HubTypes /\ WriteTypes /\ StepTypes
  BY ForwardAssumption DEF ForwardInit, HubTypes, HeadCheckStates, WriteTypes, StepTypes
<1>13. Ours(Handoff) BY <1>4, <1>6, <1>7 DEF Ours, Handoff
<1>14. CandidateBook BY <1>13 DEF ForwardInit, CandidateBook
<1>15. WritesBook /\ PairBook /\ MergeBook BY DEF ForwardInit, WritesBook, PairBook, MergeBook
<1>16. ReachedBook
  <2> SUFFICES ASSUME NEW c \in Contains(Base), Ours(c) PROVE FALSE
    BY DEF ReachedBook, ForwardInit
  <2>1. c \in 1..1 BY AncestorsAreOlder DEF Contains, Base
  <2> QED BY <1>4, <1>6, <2>1 DEF Ours
<1> QED
  BY <1>8, <1>9, <1>10, <1>11, <1>12, <1>14, <1>15, <1>16
  DEF ForwardIInv, ForwardParts, ForwardBooks

LEMMA ForwardStutters ==
  ASSUME ForwardIInv, UNCHANGED forwardVars
  PROVE  ForwardIInv'
<1>1. /\ UNCHANGED <<hubVars, writes, fixed, runs, fpc, fhead, fmain, next, lastMain, pairVars>>
      /\ Alone
  BY DEF forwardVars, boundVars, Alone, pairVars
<1>2. WritesBook' /\ WriteTypes' /\ Known' = Known BY <1>1, WritesStand, AloneKeeps
<1>3. StepTypes' BY <1>1 DEF ForwardIInv, ForwardParts, StepTypes
<1>4. PairTypes' BY <1>1, <1>2 DEF ForwardIInv, ForwardParts, PairTypes, pairVars
<1>5. {fhead', fmain', lastMain'} \subseteq Known /\ next' \in Known \cup {Gone}
  BY <1>1 DEF ForwardIInv, ForwardParts, RefTypes
<1>6. ForwardParts' BY <1>1, <1>2, <1>3, <1>4, <1>5, AloneTypes
<1>7. PairBook /\ MergeBook /\ CandidateBook BY DEF ForwardIInv, ForwardBooks
<1>8. ForwardBooks'
  BY <1>1, <1>2, <1>7, PairBooks DEF PairBook, MergeBook, pairVars
<1> QED BY <1>6, <1>8 DEF ForwardIInv

LEMMA ForwardStep ==
  ASSUME ForwardIInv, [ForwardNext]_forwardVars
  PROVE  ForwardIInv'
<1>1. CASE Hub BY <1>1, HubKeeps
<1>2. CASE \E w \in writes : WriteLands(w) \/ WriteLost(w) BY <1>2, WriteLandsKeeps
<1>3. CASE \/ CheckHandoff \/ ConfirmReady \/ Retry \/ PublishHead \/ PublishRefused
           \/ ObserveChecks \/ Review \/ ChecksAgain \/ Forward \/ Gate \/ ForwardRefused
           \/ ConfirmMain \/ Cleanup \/ Deleted \/ Blocked
  BY <1>3, LookingKeeps
<1>4. CASE FindIntegrated \/ FindCandidate BY <1>4, FindingKeeps
<1>5. CASE PairVerified \/ ProofFails BY <1>5, ProofKeeps
<1>6. CASE Rebase \/ Repair BY <1>6, ReconcileKeeps
<1>7. CASE MarkReady \/ PushBranch \/ PushMain \/ DeleteBranch BY <1>7, SendingKeeps
<1>8. CASE BranchReadback BY <1>8, CandidateReadbackKeeps
<1>9. CASE RunAgain BY <1>9, RunAgainKeeps
<1>10. CASE UNCHANGED forwardVars BY <1>10, ForwardStutters
<1> QED
  BY <1>1, <1>2, <1>3, <1>4, <1>5, <1>6, <1>7, <1>8, <1>9, <1>10 DEF ForwardNext, Integrate

LEMMA ForwardInvariant == ForwardSpec => []ForwardIInv
BY ForwardStarts, ForwardStep, PTL DEF ForwardSpec

-----------------------------------------------------------------------------
(* What the invariant gives when a write lands.                            *)

LEMMA MainStep ==
  ASSUME ForwardIInv
  PROVE  MovesMain => /\ refMain \in Contains(refMain')
                      /\ <<refMain, refMain'>> \in proved
                      /\ Controls(refMain, refMain') \/ Exempt(refMain, refMain')
<1> SUFFICES ASSUME NEW w \in writes, w.ref = "main", WriteLands(w)
             PROVE  /\ refMain \in Contains(refMain')
                    /\ <<refMain, refMain'>> \in proved
                    /\ Controls(refMain, refMain') \/ Exempt(refMain, refMain')
  BY DEF MovesMain
<1>1. refMain = w.old /\ refMain' = w.new BY DEF WriteLands, MainIs
<1>2. WriteOK(w) BY DEF ForwardIInv, ForwardBooks, WritesBook
<1> QED BY <1>1, <1>2 DEF WriteOK, Allowed

LEMMA BranchStep ==
  ASSUME ForwardIInv
  PROVE  MovesBranch => /\ graph[refHead].by # "others"
                        /\ refHead' = Gone => refHead \in reached
<1> SUFFICES ASSUME NEW w \in writes, w.ref = "branch", WriteLands(w)
             PROVE  /\ graph[refHead].by # "others"
                    /\ refHead' = Gone => refHead \in reached
  BY DEF MovesBranch
<1>1. refHead = w.old /\ refHead' = w.new BY DEF WriteLands
<1>2. WriteOK(w) BY DEF ForwardIInv, ForwardBooks, WritesBook
<1> QED BY <1>1, <1>2 DEF WriteOK, Ours

\* The integration into main is sound: main moves only by a fast-forward from the
\* main on which the new head was proved, keeps its gates, and only to a head with
\* green checks of its own; no edit of somebody else is overwritten, no branch is
\* deleted that main has not contained, and "integrated" means merged.
THEOREM ForwardIsSound == ForwardSpec => ForwardSound
<1>1. ForwardIInv => ForwardTypeOK /\ ChecksAreOwn /\ IntegratedMeansMerged
  <2> SUFFICES ASSUME ForwardIInv PROVE ForwardTypeOK /\ ChecksAreOwn /\ IntegratedMeansMerged
    OBVIOUS
  <2>1. ForwardTypeOK BY ForwardByPart DEF ForwardIInv
  <2>2. ChecksAreOwn
    BY DEF ForwardIInv, ForwardBooks, WritesBook, WriteOK, OnceGreen, ChecksAreOwn
  <2>3. IntegratedMeansMerged
    BY DEF ForwardIInv, ForwardBooks, MergeBook, IntegratedMeansMerged
  <2> QED BY <2>1, <2>2, <2>3
<1>2. ForwardIInv /\ [ForwardNext]_forwardVars =>
        [MovesMain => /\ refMain \in Contains(refMain')
                      /\ <<refMain, refMain'>> \in proved]_forwardVars
  BY MainStep
<1>3. ForwardIInv /\ [ForwardNext]_forwardVars =>
        [MovesMain => Controls(refMain, refMain') \/ Exempt(refMain, refMain')]_forwardVars
  BY MainStep
<1>4. ForwardIInv /\ [ForwardNext]_forwardVars =>
        [MovesBranch => /\ graph[refHead].by # "others"
                        /\ refHead' = Gone => refHead \in reached]_forwardVars
  BY BranchStep
<1> QED
  BY <1>1, <1>2, <1>3, <1>4, ForwardInvariant, PTL
  DEF ForwardSpec, ForwardSound, MainProved, GatesKept, NothingLost
=============================================================================
