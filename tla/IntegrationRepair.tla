------------------------- MODULE IntegrationRepair -------------------------
(***************************************************************************)
(* RunIntegrationRepair: one fresh native goal edits a candidate and calls *)
(* a local verification tool, which freezes the candidate in a snapshot    *)
(* and checks it. The goal may end while a call is still running, and the  *)
(* candidate may be edited at any time; the result is the last verified    *)
(* snapshot, provided that the candidate still equals it, and its caller   *)
(* has to close it. NativeGoal makes the calls serial and never reports a  *)
(* complete goal while one runs; the mutex here settles the other ends.    *)
(***************************************************************************)
EXTENDS Integers, FiniteSets

CONSTANTS Contents,     \* what a candidate can contain
          MaxToolCalls  \* bound: calls of the tool

ASSUME RepairAssumption == Contents # {} /\ "nothing" \notin Contents /\ MaxToolCalls \in Nat

VARIABLES
  content,   \* the candidate
  repairPc,  \* RunIntegrationRepair
  native,    \* the status RunGoal returned
  call,      \* the call that holds the mutex
  digest,    \* digest of that call
  sealed,    \* what the verification of that call has frozen
  snapshot,  \* result.Snapshot
  cancelled, \* terminal # nil: the runtime was cancelled
  failed,    \* digests whose call failed
  calls,     \* calls so far
  \* Files, and history.
  unclosed,  \* snapshots on disk
  leaked,    \* a Close failed
  passed,    \* contents whose verification passed
  twice      \* a content was verified again after it had failed

verifyVars == <<call, digest, sealed>>
filesVars == <<unclosed, leaked>>
snapshotVars == <<passed, twice>>
repairVars == <<content, repairPc, native, verifyVars, snapshot, cancelled, failed, calls,
                filesVars, snapshotVars>>

Nothing == "nothing"
Maybe == Contents \cup {Nothing}

RepairTypeOK ==
  /\ content \in Contents
  /\ repairPc \in {"running", "ended", "final", "error", "ok"}
  /\ native \in {"active", "complete", "other"}
  /\ call \in {"none", "frozen", "verifying"} /\ digest \in Maybe /\ sealed \in Maybe
  /\ snapshot \in Maybe /\ cancelled \in BOOLEAN
  /\ failed \subseteq Contents /\ calls \in 0..MaxToolCalls
  /\ unclosed \in 0..2 /\ leaked \in BOOLEAN
  /\ passed \subseteq Contents /\ twice \in BOOLEAN

\* The trusted binding was current, and the goal has been started.
RepairInit ==
  /\ content \in Contents /\ repairPc = "running" /\ native = "active"
  /\ call = "none" /\ digest = Nothing /\ sealed = Nothing
  /\ snapshot = Nothing /\ cancelled = FALSE /\ failed = {} /\ calls = 0
  /\ unclosed = 0 /\ leaked = FALSE /\ passed = {} /\ twice = FALSE

\* The goal's tools, and what they have left running.
EditCandidate ==
  /\ repairPc \in {"running", "ended", "final"}
  /\ content' \in Contents \ {content}
  /\ UNCHANGED <<repairPc, native, verifyVars, snapshot, cancelled, failed, calls,
                 filesVars, snapshotVars>>

-----------------------------------------------------------------------------
(* The verification tool.                                                  *)

\* Mutant: the earlier snapshot is forgotten.
CloseForgotten ==
  /\ snapshot' = Nothing
  /\ UNCHANGED filesVars

CloseIt ==
  /\ snapshot' = Nothing
  /\ IF snapshot = Nothing THEN UNCHANGED filesVars
     ELSE unclosed' = unclosed - 1 /\ UNCHANGED leaked

\* A Close that fails leaves its files.
CloseFails == snapshot # Nothing /\ leaked' = TRUE /\ UNCHANGED <<snapshot, unclosed>>

\* The goal may call while it runs; the call takes the mutex. A call that a goal
\* without completion has left behind may still get the mutex before Judge does.
Calls ==
  /\ repairPc = "running" \/ (repairPc = "ended" /\ native = "other")
  /\ call = "none" /\ calls < MaxToolCalls

\* Any refusal before the verification: the cleanup, the context, the binding or
\* the snapshot failed, or the candidate has failed before. The goal is cancelled.
ToolStops ==
  /\ Calls /\ ~cancelled
  /\ CloseIt \/ CloseFails
  /\ cancelled' = TRUE
  /\ calls' = calls + 1
  /\ UNCHANGED <<content, repairPc, native, verifyVars, failed, snapshotVars>>

\* Mutant: nothing remembers which candidates have failed.
NotRepeatedEver == TRUE

NotRepeated == content \notin failed

ToolBegins ==
  /\ Calls /\ ~cancelled
  /\ CloseIt
  /\ NotRepeated
  /\ call' = "frozen" /\ digest' = content
  /\ calls' = calls + 1
  /\ UNCHANGED <<content, repairPc, native, sealed, cancelled, failed, snapshotVars>>

\* VerifyGoal takes a snapshot of its own.
Freeze ==
  /\ call = "frozen"
  /\ call' = "verifying" /\ sealed' = content
  /\ unclosed' = unclosed + 1
  /\ UNCHANGED <<content, repairPc, native, digest, snapshot, cancelled, failed, calls,
                 leaked, snapshotVars>>

ToolReturns == call' = "none" /\ digest' = Nothing /\ sealed' = Nothing

ToolPasses ==
  /\ call = "verifying"
  /\ sealed = digest
  /\ ToolReturns
  /\ snapshot' = sealed
  /\ passed' = passed \cup {sealed}
  /\ UNCHANGED <<content, repairPc, native, cancelled, failed, calls, filesVars, twice>>

\* The checks failed, the context ended or the candidate changed meanwhile.
ToolRejects ==
  /\ call \in {"frozen", "verifying"}
  /\ ToolReturns
  /\ failed' = failed \cup {digest}
  /\ twice' = (twice \/ digest \in failed)
  /\ \/ call = "frozen" /\ UNCHANGED <<filesVars, cancelled>>
     \/ call = "verifying" /\ unclosed' = unclosed - 1 /\ UNCHANGED <<leaked, cancelled>>
     \/ call = "verifying" /\ leaked' = TRUE /\ cancelled' = TRUE /\ UNCHANGED unclosed
  /\ UNCHANGED <<content, repairPc, native, snapshot, calls, passed>>

-----------------------------------------------------------------------------
(* The end of the goal.                                                    *)

\* RunGoal returns; a complete goal has no call running.
GoalEnds ==
  /\ repairPc = "running" /\ native = "active"
  /\ native' \in {"complete", "other"}
  /\ native' = "complete" => call = "none"
  /\ repairPc' = "ended"
  /\ UNCHANGED <<content, verifyVars, snapshot, cancelled, failed, calls, filesVars,
                 snapshotVars>>

\* Mutant: a result without a snapshot is closed all the same.
RepairFailsBlindly ==
  /\ repairPc' = "error"
  /\ snapshot' = Nothing /\ unclosed' = unclosed - 1
  /\ UNCHANGED leaked

\* The deferred Close of a result that is an error.
RepairFails ==
  /\ repairPc' = "error"
  /\ CloseIt \/ CloseFails

\* The mutex is taken, which waits for the last call.
Judge ==
  /\ repairPc = "ended" /\ call = "none"
  /\ \/ RepairFails
     \/ /\ ~cancelled /\ native = "complete" /\ snapshot # Nothing
        /\ repairPc' = "final"
        /\ UNCHANGED <<snapshot, filesVars>>
  /\ UNCHANGED <<content, native, verifyVars, cancelled, failed, calls, snapshotVars>>

\* Mutant: the verified snapshot is returned as it is.
FinalUnchecked ==
  /\ repairPc = "final"
  /\ repairPc' = "ok"
  /\ UNCHANGED <<content, native, verifyVars, snapshot, cancelled, failed, calls,
                 filesVars, snapshotVars>>

\* The binding, the candidate and the snapshot are looked at once more.
Final ==
  /\ repairPc = "final"
  /\ \/ RepairFails
     \/ repairPc' = "ok" /\ content = snapshot /\ UNCHANGED <<snapshot, filesVars>>
  /\ UNCHANGED <<content, native, verifyVars, cancelled, failed, calls, snapshotVars>>

RepairNext ==
  \/ EditCandidate \/ ToolStops \/ ToolBegins \/ Freeze \/ ToolPasses \/ ToolRejects
  \/ GoalEnds \/ Judge \/ Final

RepairSpec == RepairInit /\ [][RepairNext]_repairVars

-----------------------------------------------------------------------------
\* A repair that succeeds hands over exactly what was verified, and the
\* candidate still is that: no edit after the digest, during the verification or
\* after the last call slips through (RunIntegrationRepair).
RepairExact == repairPc = "ok" => snapshot = content /\ snapshot \in passed /\ ~cancelled

\* A candidate that failed is never verified again: the repetition ends the goal.
NoRepeat == ~twice

\* Every snapshot is closed on every way out, or handed to the caller, unless a
\* Close itself failed.
SnapshotsClosed ==
  ~leaked => unclosed = (IF snapshot = Nothing THEN 0 ELSE 1)
                        + (IF sealed = Nothing THEN 0 ELSE 1)

\* A repair hands over exactly what it verified, verifies nothing twice that
\* failed, and closes every other snapshot once.
RepairSound == RepairTypeOK /\ RepairExact /\ NoRepeat /\ SnapshotsClosed
=============================================================================
