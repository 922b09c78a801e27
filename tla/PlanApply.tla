----------------------------- MODULE PlanApply -----------------------------
(***************************************************************************)
(* Plan builds a candidate from the accepted baseline and the candidate's  *)
(* schemas in a private directory; Apply later writes what was built into  *)
(* the worktree. Both read directories file by file, Apply removes and     *)
(* writes file by file, and others may edit either directory meanwhile.    *)
(*                                                                         *)
(* The bytes of a file are a number, an edit writes bytes that no file had *)
(* before; NoFile is none.  A snapshot holds hashes, which stand for the   *)
(* bytes. Built files are told apart from the others by -1.                *)
(***************************************************************************)
EXTENDS Integers, Sequences, FiniteSets

CONSTANTS MaxTouches,  \* bound: edits
          MaxApplies   \* bound: calls of Apply for one plan

ASSUME PlanAssumption == MaxTouches \in Nat /\ MaxApplies \in Nat

VARIABLES
  accepted,   \* the baseline directory
  candidate,  \* the schemas of the target
  goFiles, reports,   \* the other outputs
  touches, hadBoth,   \* edits, and every pair of states of the two directories
  plpc, at,   \* where Plan and Apply are, and what the current scan has read
  beforeB, beforeC,   \* the snapshots before construction
  copyB, copyC,       \* what construction has read
  status,     \* PlanResult.Status
  todo,       \* what Apply has yet to do
  applies,
  stale,      \* the baseline had changed when Apply was called
  disturbed,  \* the worktree was edited since then
  changed     \* Apply has changed a file

NoFile == 0
Built == -1
BaseOrder == <<"gone", "kept", "meta", "new", "report">>
CandOrder == <<"kept", "new">>
BaseNames == {BaseOrder[i] : i \in DOMAIN BaseOrder}
Schemas == {"gone", "kept", "new"}   \* the names schemaFiles would list
Retired == {"report"}                \* drift_report.json and the matrix skeleton

outVars == <<accepted, goFiles, reports>>
envVars == <<candidate, touches, hadBoth>>
readVars == <<at, beforeB, beforeC, copyB, copyC>>
planVars == <<outVars, envVars, plpc, readVars, status, todo, applies, stale, disturbed, changed>>

Content == -1..MaxTouches + 1
ScanSteps == {"scanB", "scanC", "copyB", "copyC", "againB", "againC", "current"}

PlanTypeOK ==
  /\ accepted \in [BaseNames -> Content] /\ candidate \in [{"kept", "new"} -> Content]
  /\ goFiles \in {"old", "built"} /\ reports \in {"old", "built"}
  /\ touches \in 0..MaxTouches
  /\ plpc \in ScanSteps \cup {"construct", "over", "apply"}
  /\ status \in {"none", "ready", "semantic_unresolved", "error", "applied"}
  /\ applies \in 0..MaxApplies
  /\ stale \in BOOLEAN /\ disturbed \in BOOLEAN /\ changed \in BOOLEAN

PlanInit ==
  /\ accepted = [n \in BaseNames |-> IF n = "new" THEN NoFile ELSE 1]
  /\ candidate = [n \in {"kept", "new"} |-> 1]
  /\ goFiles = "old" /\ reports = "old"
  /\ touches = 0 /\ hadBoth = {<<accepted, candidate>>}
  /\ plpc = "scanB" /\ at = <<>>
  /\ beforeB = <<>> /\ beforeC = <<>> /\ copyB = <<>> /\ copyC = <<>>
  /\ status = "none" /\ todo = <<>> /\ applies = 0
  /\ stale = FALSE /\ disturbed = FALSE /\ changed = FALSE

\* Someone edits the worktree or the candidate.
Touch ==
  /\ touches < MaxTouches /\ touches' = touches + 1
  /\ \/ /\ \E n \in BaseNames : accepted' = [accepted EXCEPT ![n] = touches' + 1]
        /\ disturbed' = TRUE /\ UNCHANGED candidate
     \/ /\ \E n \in {"kept", "new"} : candidate' = [candidate EXCEPT ![n] = touches' + 1]
        /\ UNCHANGED <<accepted, disturbed>>
  /\ hadBoth' = hadBoth \cup {<<accepted', candidate'>>}
  /\ UNCHANGED <<goFiles, reports, plpc, readVars, status, todo, applies, stale, changed>>

-----------------------------------------------------------------------------
(* planCandidate.                                                          *)

ScansBase == plpc \in {"scanB", "copyB", "againB", "current"}
Order == IF ScansBase THEN BaseOrder ELSE CandOrder
Dir(n) == IF ScansBase THEN accepted[n] ELSE candidate[n]

\* One file of snapshotHashes, copyTreeFiles or copyCandidateSchema.
ReadOne ==
  /\ plpc \in ScanSteps /\ Len(at) < Len(Order)
  /\ at' = Append(at, Dir(Order[Len(at) + 1]))
  /\ UNCHANGED <<outVars, envVars, plpc, beforeB, beforeC, copyB, copyC, status, todo, applies,
                 stale, disturbed, changed>>

Scanned(step) == plpc = step /\ Len(at) = Len(Order) /\ at' = <<>>
planRest == <<outVars, envVars, todo, applies, stale, disturbed, changed>>

Snapshots ==
  /\ \/ Scanned("scanB") /\ plpc' = "scanC" /\ beforeB' = at /\ UNCHANGED <<beforeC, copyB, copyC>>
     \/ Scanned("scanC") /\ plpc' = "copyB" /\ beforeC' = at /\ UNCHANGED <<beforeB, copyB, copyC>>
     \/ Scanned("copyB") /\ plpc' = "copyC" /\ copyB' = at /\ UNCHANGED <<beforeB, beforeC, copyC>>
     \/ Scanned("copyC") /\ plpc' = "construct" /\ copyC' = at /\ UNCHANGED <<beforeB, beforeC, copyB>>
  /\ UNCHANGED <<planRest, status>>

\* Mutant: the stage of an incompatibility is reported as the status.
ClassifiedRaw(e) == e

\* A candidate that generation does not support is unresolved; other errors end Plan.
Classified(e) == IF e = "unsupported" THEN "semantic_unresolved" ELSE e

\* constructCandidate, in the private directory.
ConstructCandidate ==
  /\ plpc = "construct" /\ plpc' = "againB"
  /\ \E e \in {"none", "unsupported", "error"} : status' = Classified(e)
  /\ UNCHANGED <<planRest, readVars>>

\* Mutant: the candidate is not compared.
SameSnapshotCandUnread == TRUE

SameSnapshotBase == at = beforeB
SameSnapshotCand == at = beforeC

AgainB ==
  /\ Scanned("againB")
  /\ \/ SameSnapshotBase /\ plpc' = "againC" /\ UNCHANGED status
     \/ ~SameSnapshotBase /\ plpc' = "over" /\ status' = "error"
  /\ UNCHANGED <<planRest, beforeB, beforeC, copyB, copyC>>

\* The bytes to write are taken along; nothing is written yet.
AgainC ==
  /\ Scanned("againC") /\ plpc' = "over"
  /\ status' = CASE ~SameSnapshotCand -> "error"
                 [] SameSnapshotCand /\ status = "none" -> "ready"
                 [] OTHER -> status
  /\ UNCHANGED <<planRest, beforeB, beforeC, copyB, copyC>>

\* CheckCompatibility: the candidate does not compile with the handwritten code.
Incompatible ==
  /\ plpc = "over" /\ status = "ready" /\ applies = 0
  /\ status' \in {"semantic_unresolved", "error"}
  /\ UNCHANGED <<planRest, plpc, readVars>>

-----------------------------------------------------------------------------
(* PlanResult.Apply.                                                       *)

\* What the plan makes of the baseline.
Prepared(n) ==
  CASE n = "kept" -> copyC[1]
    [] n = "new" -> copyC[2]
    [] n = "meta" -> Built
    [] OTHER -> NoFile

\* Only a plan that is ready may write; its caller may try again.
Apply ==
  /\ plpc = "over" /\ status = "ready"
  /\ applies < MaxApplies /\ applies' = applies + 1
  /\ plpc' = "current" /\ stale' = ([i \in DOMAIN BaseOrder |-> accepted[BaseOrder[i]]] # beforeB)
  /\ disturbed' = FALSE /\ changed' = FALSE
  /\ UNCHANGED <<outVars, envVars, readVars, status, todo>>

\* Mutant: the plan is trusted.
StillPlannedUnread == TRUE

\* accepted baseline since Plan
StillPlanned == at = beforeB

\* Mutant: only schemas are removed.
RetiresNothing == <<>>

Retires == <<[op |-> "retire", name |-> "report"]>>

\* The operation for a file, if there is one, and those for all files in the order of
\* their names.
For(needed, op, n) == IF needed THEN <<[op |-> op, name |-> n]>> ELSE <<>>
Removes(n) == For(n \in Schemas /\ accepted[n] # NoFile /\ Prepared(n) = NoFile, "remove", n)
Writes(n) == For(Prepared(n) # NoFile, "write", n)
Each(Op(_)) ==
  Op(BaseOrder[1]) \o Op(BaseOrder[2]) \o Op(BaseOrder[3]) \o Op(BaseOrder[4]) \o Op(BaseOrder[5])

\* The schemas that are there and not in the plan, the retired reports, then the
\* files of the plan, and the reports.
Operations ==
  Each(Removes) \o Retires \o Each(Writes)
    \o <<[op |-> "go", name |-> "go"], [op |-> "reports", name |-> "reports"]>>

CheckCurrent ==
  /\ Scanned("current")
  /\ \/ StillPlanned /\ plpc' = "apply" /\ todo' = Operations
     \/ ~StillPlanned /\ plpc' = "over" /\ UNCHANGED todo
  /\ UNCHANGED <<outVars, envVars, beforeB, beforeC, copyB, copyC, status, applies, stale, disturbed, changed>>

\* One operation. A schema that is no longer there cannot be removed.
Operate ==
  /\ plpc = "apply" /\ todo # <<>> /\ todo' = Tail(todo)
  /\ LET o == Head(todo) IN
     /\ o.op = "remove" => accepted[o.name] # NoFile
     /\ accepted' = CASE o.op \in {"remove", "retire"} -> [accepted EXCEPT ![o.name] = NoFile]
                      [] o.op = "write" -> [accepted EXCEPT ![o.name] = Prepared(o.name)]
                      [] OTHER -> accepted
     /\ goFiles' = IF o.op = "go" THEN "built" ELSE goFiles
     /\ reports' = IF o.op = "reports" THEN "built" ELSE reports
  /\ changed' = TRUE
  /\ hadBoth' = hadBoth \cup {<<accepted', candidate>>}
  /\ UNCHANGED <<candidate, touches, plpc, readVars, status, applies, stale, disturbed>>

\* An operation fails, and Apply leaves the rest undone.
OperateFails ==
  /\ plpc = "apply" /\ todo # <<>> /\ todo' = <<>> /\ plpc' = "over"
  /\ UNCHANGED <<outVars, envVars, readVars, status, applies, stale, disturbed, changed>>

Applied ==
  /\ plpc = "apply" /\ todo = <<>> /\ plpc' = "over" /\ status' = "applied"
  /\ UNCHANGED <<outVars, envVars, readVars, todo, applies, stale, disturbed, changed>>

PlanNext ==
  \/ Touch \/ ReadOne \/ Snapshots \/ ConstructCandidate \/ AgainB \/ AgainC \/ Incompatible
  \/ Apply \/ CheckCurrent \/ Operate \/ OperateFails \/ Applied

PlanSpec == PlanInit /\ [][PlanNext]_planVars

-----------------------------------------------------------------------------
AsDir(s, order) == [n \in {order[i] : i \in DOMAIN order} |-> s[CHOOSE i \in DOMAIN order : order[i] = n]]

\* A plan that is ready, or unresolved, was built from one state of the baseline and
\* one of the candidate that were there at the same time, although construction reads
\* both file by file (planCandidate: the snapshots before and after).
PlanIsWhole ==
  plpc = "over" /\ status \in {"ready", "semantic_unresolved", "applied"} =>
    <<AsDir(copyB, BaseOrder), AsDir(copyC, CandOrder)>> \in hadBoth

\* "No deletion is allowed on a stale Plan": a plan whose baseline had changed when
\* Apply was called changes no file, also when an earlier Apply of the same plan
\* stopped half-way (PlanResult.Apply).
StaleChangesNothing == changed => ~stale

\* If nobody else edits the worktree, a successful Apply leaves exactly the planned
\* baseline: no schema of the old one, no retired report, all outputs written.
AppliedExactly ==
  status = "applied" /\ ~disturbed =>
    /\ \A n \in BaseNames : accepted[n] = Prepared(n)
    /\ goFiles = "built" /\ reports = "built"

\* A plan is of one state of its inputs, and its application changes nothing when
\* that state is gone and everything when it succeeds.
UpgradeSound == PlanTypeOK /\ PlanIsWhole /\ StaleChangesNothing /\ AppliedExactly
=============================================================================
