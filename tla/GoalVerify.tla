----------------------------- MODULE GoalVerify -----------------------------
(***************************************************************************)
(* VerifyGoal: a candidate is copied file by file while others may still   *)
(* edit it, the gates run on the frozen copy, the candidate is read again, *)
(* and the caller gets the frozen copy if everything held. The diagnostic  *)
(* file may fail at any record, for good. The three deferred functions run *)
(* in the reverse order of their registration: read the candidate again    *)
(* (once the gates are about to start), write the footer, release the copy.*)
(*                                                                         *)
(* The bytes of a file are a number; an edit writes bytes that no file had *)
(* before. A digest stands for the bytes that were read.                   *)
(***************************************************************************)
EXTENDS Integers, Sequences, FiniteSets

CONSTANTS NFiles,     \* files of the candidate, read in the order of their names
          NGates,     \* goalVerificationGates, or the one that was asked for
          NCommands,  \* commands of a gate, the comparison of the sources included
          MaxEdits    \* bound: edits of the candidate

ASSUME VerifyAssumption ==
  NFiles \in Nat \ {0} /\ NGates \in Nat \ {0} /\ NCommands \in Nat \ {0} /\ MaxEdits \in Nat

VARIABLES
  disk,      \* the candidate
  edits,     \* edits so far
  had,       \* every state of the candidate
  vpc,
  scan,      \* the files that the current scan has read
  before,    \* the digest of the copy
  frozen,    \* the copy
  gate, cmd, \* where the gates are
  gates,     \* result.Gates
  logErr,    \* goalDiagnostics.err
  footer,    \* what the diagnostic file says at its end
  retErr,    \* an error will be returned
  workDir,      \* the work directory exists
  touched    \* the candidate was edited between the copy and the last scan

VFiles == 1..NFiles
candVars == <<disk, edits, had>>
gateVars == <<gate, cmd, gates>>
goalVerifyVars == <<candVars, vpc, scan, before, frozen, gateVars, logErr, footer, retErr, workDir, touched>>

Bytes == 0..MaxEdits
Copies == UNION {[1..k -> Bytes] : k \in 0..NFiles}

VerifyTypeOK ==
  /\ disk \in [VFiles -> Bytes] /\ edits \in 0..MaxEdits /\ had \subseteq [VFiles -> Bytes]
  /\ vpc \in {"header", "copy", "again", "prepare", "command", "digest", "last", "footer",
              "release", "returned"}
  /\ scan \in Copies /\ before \in Copies /\ frozen \in Copies
  /\ gate \in 1..NGates + 1 /\ cmd \in 1..NCommands /\ gates \in 0..NGates
  /\ logErr \in BOOLEAN /\ footer \in {"none", "passed", "failed", "cut"}
  /\ retErr \in BOOLEAN /\ workDir \in BOOLEAN /\ touched \in BOOLEAN

VerifyInit ==
  /\ disk = [f \in VFiles |-> 0] /\ edits = 0 /\ had = {disk}
  /\ vpc = "header" /\ scan = <<>> /\ before = <<>> /\ frozen = <<>>
  /\ gate = 1 /\ cmd = 1 /\ gates = 0
  /\ logErr = FALSE /\ footer = "none" /\ retErr = FALSE /\ workDir = FALSE /\ touched = FALSE

\* Whoever works on the candidate.
Edit ==
  /\ edits < MaxEdits /\ edits' = edits + 1
  /\ \E f \in VFiles : disk' = [disk EXCEPT ![f] = edits']
  /\ had' = had \cup {disk'}
  /\ touched' = (touched \/ vpc \in {"again", "prepare", "command", "digest"}
                         \/ (vpc = "copy" /\ Len(scan) = NFiles)
                         \/ (vpc = "last" /\ scan = <<>>))
  /\ UNCHANGED <<vpc, scan, before, frozen, gateVars, logErr, footer, retErr, workDir>>

\* A record: nothing is written after the first failure, nor past the limit.
Records == logErr' \in {logErr, TRUE}

\* Returning with an error, before and after the last scan is deferred.
Fails == retErr' = TRUE /\ vpc' = "footer"
FailsLate == retErr' = TRUE /\ vpc' = "last"

-----------------------------------------------------------------------------
(* The copy.                                                               *)

\* An unknown gate, a bad directory or no head: there is no report yet.
Refused ==
  /\ vpc = "header"
  /\ retErr' = TRUE /\ vpc' = "release"
  /\ UNCHANGED <<candVars, scan, before, frozen, gateVars, logErr, footer, workDir, touched>>

\* The head is recorded, a work directory made.
Header ==
  /\ vpc = "header"
  /\ Records
  /\ \/ Fails /\ UNCHANGED workDir
     \/ vpc' = "copy" /\ workDir' = TRUE /\ UNCHANGED retErr
  /\ UNCHANGED <<candVars, scan, before, frozen, gateVars, footer, touched>>

\* One file of goalSnapshot.
ReadFile ==
  /\ vpc \in {"copy", "again", "last"} /\ Len(scan) < NFiles
  /\ scan' = Append(scan, disk[Len(scan) + 1])
  /\ UNCHANGED <<candVars, vpc, before, frozen, gateVars, logErr, footer, retErr, workDir, touched>>

Copied ==
  /\ vpc = "copy" /\ Len(scan) = NFiles
  /\ before' = scan /\ frozen' = scan /\ scan' = <<>>
  /\ vpc' = "again"
  /\ UNCHANGED <<candVars, gateVars, logErr, footer, retErr, workDir, touched>>

\* Mutant: the candidate is not read a second time.
StableUnread == TRUE

\* candidate changed while snapshotting
Stable == scan = before

ReadAgain ==
  /\ vpc = "again" /\ Len(scan) = NFiles
  /\ scan' = <<>>
  /\ \/ Stable /\ vpc' = "prepare" /\ UNCHANGED retErr
     \/ ~Stable /\ Fails
  /\ UNCHANGED <<candVars, before, frozen, gateVars, logErr, footer, workDir, touched>>

\* A file that cannot be read or copied, or an ended context.
ScanFails ==
  /\ vpc \in {"copy", "again"}
  /\ scan' = <<>> /\ Fails
  /\ UNCHANGED <<candVars, before, frozen, gateVars, logErr, footer, workDir, touched>>

\* The snapshot is recorded, the cache and the sandbox are prepared.
Prepare ==
  /\ vpc = "prepare"
  /\ Records
  /\ Fails \/ (vpc' = "command" /\ UNCHANGED retErr)
  /\ UNCHANGED <<candVars, scan, before, frozen, gateVars, footer, workDir, touched>>

-----------------------------------------------------------------------------
(* The gates.                                                              *)

\* A command may write to the copy it runs on.
Overwrites == {frozen} \cup {[frozen EXCEPT ![f] = (@ + 1) % (MaxEdits + 1)] : f \in VFiles}

\* Mutant: one gate too many.
GateLeftOneMore == gate <= NGates + 1

GateLeft == gate <= NGates

\* goalRunCommand: its records come first, then its exit.
Command ==
  /\ vpc = "command" /\ GateLeft
  /\ frozen' \in Overwrites
  /\ Records
  /\ \/ ~logErr' /\ vpc' = "digest" /\ UNCHANGED retErr
     \/ FailsLate
  /\ UNCHANGED <<candVars, scan, before, gateVars, footer, workDir, touched>>

\* Mutant: nobody looks at what a command did to the copy.
KeptUnread == TRUE

\* verification changed frozen candidate
Kept == frozen = before

Digest ==
  /\ vpc = "digest"
  /\ \/ ~Kept /\ FailsLate /\ UNCHANGED gateVars
     \/ /\ Kept /\ cmd < NCommands
        /\ cmd' = cmd + 1 /\ vpc' = "command" /\ UNCHANGED <<gate, gates, retErr>>
     \/ /\ Kept /\ cmd = NCommands
        /\ gate' = gate + 1 /\ cmd' = 1 /\ gates' = gates + 1
        /\ vpc' = "command" /\ UNCHANGED retErr
  /\ UNCHANGED <<candVars, scan, before, frozen, logErr, footer, workDir, touched>>

\* All gates passed, or the context ended before the next one.
GatesEnd ==
  /\ vpc = "command" /\ cmd = 1
  /\ \/ ~GateLeft /\ vpc' = "last" /\ UNCHANGED retErr
     \/ GateLeft /\ FailsLate
  /\ UNCHANGED <<candVars, scan, before, frozen, gateVars, logErr, footer, workDir, touched>>

-----------------------------------------------------------------------------
(* The deferred functions.                                                 *)

\* Mutant: the candidate is taken for unchanged.
UnchangedUnread == TRUE

\* candidate changed during verification
Unchanged == scan = before

LastScan ==
  /\ vpc = "last"
  /\ scan' = <<>>
  /\ \/ Len(scan) = NFiles /\ retErr' = (retErr \/ ~Unchanged)
     \/ retErr' = TRUE
  /\ vpc' = "footer"
  /\ UNCHANGED <<candVars, before, frozen, gateVars, logErr, footer, workDir, touched>>

\* Mutant: an incomplete file leaves the verdict as it was.
VerdictUnlogged == retErr' = retErr

\* Evidence that is incomplete is no evidence.
Verdict == retErr' = (retErr \/ logErr')

\* The footer is written, unless the file has failed, and the file is closed.
Footer ==
  /\ vpc = "footer"
  /\ \/ logErr /\ logErr' = TRUE /\ footer' = "none"
     \/ /\ ~logErr
        /\ \/ logErr' = TRUE /\ footer' \in {"none", "cut"}
           \/ logErr' \in BOOLEAN /\ footer' = IF retErr THEN "failed" ELSE "passed"
  /\ Verdict
  /\ vpc' = "release"
  /\ UNCHANGED <<candVars, scan, before, frozen, gateVars, workDir, touched>>

\* Mutant: the copy is kept when only the evidence failed.
ReleasesUnlogged == retErr /\ ~logErr

Releases == retErr

Release ==
  /\ vpc = "release"
  /\ workDir' = (workDir /\ ~Releases)
  /\ vpc' = "returned"
  /\ UNCHANGED <<candVars, scan, before, frozen, gateVars, logErr, footer, retErr, touched>>

VerifyNext ==
  \/ Edit \/ Refused \/ Header \/ ReadFile \/ Copied \/ ReadAgain \/ ScanFails \/ Prepare
  \/ Command \/ Digest \/ GatesEnd \/ LastScan \/ Footer \/ Release

VerifySpec == VerifyInit /\ [][VerifyNext]_goalVerifyVars

-----------------------------------------------------------------------------
\* No gate runs on a mixture of two states of the candidate: what the gates see
\* is what the candidate was, as a whole, at some time (goalSnapshot reads twice).
GatesSeeOneState == vpc \in {"prepare", "command"} /\ gates = 0 /\ cmd = 1 => before \in had

Passes == vpc = "returned" /\ ~retErr

\* A verification passes only if nobody edited the candidate from the copy to the
\* last scan, also when the edit touches a file that was read early.
UneditedPasses == Passes => ~touched /\ before \in had

\* What the caller publishes is the copy that every gate has passed on, unchanged
\* by the commands, and all gates have run.
PassedCopyKept == Passes => workDir /\ frozen = before /\ gates = NGates

\* A passing verification has a complete report that says so. A report that says
\* so belongs to a passing verification, unless closing the file failed.
ReportAgrees ==
  /\ Passes => footer = "passed" /\ ~logErr
  /\ vpc = "returned" /\ footer = "passed" => ~retErr \/ logErr

\* An error leaves no copy behind, whichever of the deferred functions found it.
FailedCopyReleased == vpc = "returned" /\ retErr => ~workDir

\* A verdict is about one state of the candidate, the report agrees with it, and
\* the frozen copy is kept unchanged exactly when the candidate passed.
VerdictSound ==
  /\ VerifyTypeOK /\ GatesSeeOneState /\ UneditedPasses
  /\ PassedCopyKept /\ ReportAgrees /\ FailedCopyReleased
=============================================================================
