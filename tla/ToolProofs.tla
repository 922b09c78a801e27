----------------------------- MODULE ToolProofs -----------------------------
(***************************************************************************)
(* Proofs about five components that share no variable: the verification   *)
(* of a candidate (GoalVerify), plans and their application (PlanApply),   *)
(* the typed step (TypedStep), one turn of the CLI (ExecRun) and the       *)
(* publication of a mechanical candidate (SyncPublication). Each has an    *)
(* inductive invariant of its own.                                         *)
(***************************************************************************)
EXTENDS GoalVerify, PlanApply, TypedStep, ExecRun, SyncPublication, SequenceTheorems, TLAPS

-----------------------------------------------------------------------------
(* VerifyGoal reads the candidate file by file, three times. That the      *)
(* scans agree says something about moments between them because an edit   *)
(* never brings old bytes back (OldBytes): a file that differs from its    *)
(* copy differs for good. So there is one state of the candidate that      *)
(* agrees with the copy wherever the candidate still does (WholeBook), and *)
(* an edit since the copy shows somewhere (TouchBook).                     *)

Scans == {s \in Seq(Bytes) : Len(s) <= NFiles}

VerifyTypes ==
  /\ disk \in [VFiles -> Bytes] /\ edits \in 0..MaxEdits /\ had \subseteq [VFiles -> Bytes]
  /\ scan \in Scans /\ before \in Scans /\ frozen \in Scans

VerifyFlags ==
  /\ vpc \in {"header", "copy", "again", "prepare", "command", "digest", "last", "footer",
              "release", "returned"}
  /\ gate \in 1..NGates + 1 /\ cmd \in 1..NCommands /\ gates \in 0..NGates
  /\ logErr \in BOOLEAN /\ footer \in {"none", "passed", "failed", "cut"}
  /\ retErr \in BOOLEAN /\ workDir \in BOOLEAN /\ touched \in BOOLEAN

\* The stages after the copy, and the stages in which it is at stake.
AfterCopy == {"again", "prepare", "command", "digest", "last"}
Deferred == {"footer", "release", "returned"}

\* What every stage has before it.
StageBook ==
  /\ vpc \in AfterCopy => Len(before) = NFiles /\ Len(frozen) = NFiles
  /\ vpc \notin {"copy", "again", "last"} => scan = <<>>
  /\ retErr => vpc \in {"last", "footer", "release", "returned"}
  /\ vpc = "header" <=> ~workDir /\ ~retErr
  /\ vpc = "returned" /\ retErr => ~workDir

\* Where the gates are, and that the copy is what it was after each of them.
GateBook ==
  /\ gates = gate - 1
  /\ vpc \in {"header", "copy", "again", "prepare"} => gates = 0 /\ cmd = 1
  /\ gate = NGates + 1 => cmd = 1
  /\ vpc = "digest" => gate <= NGates
  /\ vpc \in {"again", "prepare", "command"} => frozen = before
  /\ vpc \in {"last"} \cup Deferred /\ ~retErr => frozen = before /\ gates = NGates

ReportBook ==
  /\ vpc \notin {"release", "returned"} => footer = "none"
  /\ vpc \in {"release", "returned"} =>
       /\ ~retErr => footer = "passed" /\ ~logErr
       /\ footer = "passed" => ~retErr \/ logErr

\* Bytes are never older than the edits so far.
OldBytes ==
  /\ \A f \in VFiles : disk[f] <= edits
  /\ \A i \in 1..Len(scan) : scan[i] <= edits
  /\ \A i \in 1..Len(before) : before[i] <= edits

WholeBook ==
  /\ disk \in had
  /\ vpc = "again" =>
       \E d \in had : \A f \in VFiles :
         d[f] = before[f] \/ (disk[f] # before[f] /\ (f <= Len(scan) => scan[f] # before[f]))
  /\ vpc \in {"prepare", "command", "digest", "last"} => before \in had
  /\ vpc \in Deferred /\ ~retErr => before \in had

TouchBook ==
  touched =>
    /\ vpc # "header"
    /\ vpc = "copy" => Len(scan) = NFiles /\ \E f \in VFiles : disk[f] # scan[f]
    /\ vpc \in {"again", "prepare", "command", "digest"} => \E f \in VFiles : disk[f] # before[f]
    /\ vpc = "last" =>
         \E f \in VFiles : disk[f] # before[f] /\ (f <= Len(scan) => scan[f] # before[f])
    /\ vpc \in Deferred => retErr

VerifyIInv ==
  /\ VerifyTypes /\ VerifyFlags /\ StageBook /\ GateBook /\ ReportBook /\ OldBytes
  /\ WholeBook /\ TouchBook

-----------------------------------------------------------------------------
\* The sequences that a scan can have read, as sequences of bounded length.
LEMMA CopiesAreScans == Copies = Scans
<1> USE VerifyAssumption
<1>1. ASSUME NEW s \in Copies PROVE s \in Scans
  <2>1. PICK k \in 0..NFiles : s \in [1..k -> Bytes]  BY DEF Copies
  <2>2. k \in Nat  OBVIOUS
  <2>3. s \in Seq(Bytes) /\ Len(s) = k  BY <2>1, <2>2, IsASeq, LenProperties
  <2> QED BY <2>3 DEF Scans
<1>2. ASSUME NEW s \in Scans PROVE s \in Copies
  <2>1. s \in Seq(Bytes) /\ Len(s) \in 0..NFiles  BY LenProperties DEF Scans
  <2>2. s \in [1..Len(s) -> Bytes]  BY <2>1, LenProperties
  <2> QED BY <2>1, <2>2 DEF Copies
<1> QED BY <1>1, <1>2

\* A scan begins with nothing read.
LEMMA EmptyScan == <<>> \in Scans /\ Len(<<>>) = 0
BY EmptySeq, VerifyAssumption DEF Scans

\* Every edit of the candidate and every step of VerifyGoal keeps the invariant.
LEMMA VerifyStep == VerifyIInv /\ [VerifyNext]_goalVerifyVars => VerifyIInv'
<1> SUFFICES ASSUME VerifyIInv, [VerifyNext]_goalVerifyVars PROVE VerifyIInv'
    OBVIOUS
<1> USE VerifyAssumption, EmptyScan DEF candVars, gateVars
<1>0. /\ VerifyTypes /\ VerifyFlags /\ StageBook /\ GateBook /\ ReportBook /\ OldBytes
      /\ WholeBook /\ TouchBook
      BY DEF VerifyIInv
<1>1. CASE Edit
  <2>a. PICK f \in VFiles : disk' = [disk EXCEPT ![f] = edits']
        BY <1>1 DEF Edit
  <2>0. /\ edits \in Nat /\ edits' = edits + 1 /\ edits' \in 0..MaxEdits
        /\ disk' \in [VFiles -> Bytes] /\ disk'[f] = edits + 1
        /\ \A g \in VFiles \ {f} : disk'[g] = disk[g]
        BY <1>0, <1>1, <2>a DEF Edit, VerifyTypes, Bytes
  <2>1. VerifyTypes'
      BY <1>0, <1>1, <2>0 DEF Edit, VerifyTypes
  <2>2. VerifyFlags'
      BY <1>0, <1>1, <2>0 DEF Edit, VerifyFlags
  <2>3. StageBook'
      BY <1>0, <1>1, <2>0 DEF Edit, StageBook, AfterCopy
  <2>4. GateBook'
      BY <1>0, <1>1, <2>0 DEF Edit, GateBook, Deferred
  <2>5. ReportBook'
      BY <1>0, <1>1, <2>0 DEF Edit, ReportBook
  <2>6. OldBytes'
    <3>1. \A g \in VFiles : disk[g] \in Nat  BY <1>0 DEF VerifyTypes, Bytes
    <3>2. \A i \in 1..Len(scan) : scan[i] \in Nat  BY <1>0, ElementOfSeq DEF VerifyTypes, Scans, Bytes
    <3>3. \A i \in 1..Len(before) : before[i] \in Nat
          BY <1>0, ElementOfSeq DEF VerifyTypes, Scans, Bytes
    <3> QED BY <1>0, <1>1, <2>0, <3>1, <3>2, <3>3 DEF Edit, OldBytes
  <2>7. WholeBook'
    <3>1. vpc = "again" => before[f] <= edits /\ before[f] \in Nat
          BY <1>0, ElementOfSeq DEF StageBook, AfterCopy, OldBytes, VerifyTypes, Scans, Bytes, VFiles
    <3>2. ASSUME vpc = "again"
          PROVE  \E d \in had' : \A g \in VFiles :
                   \/ d[g] = before[g]
                   \/ disk'[g] # before[g] /\ (g <= Len(scan) => scan[g] # before[g])
      <4>1. PICK d \in had : \A g \in VFiles :
                   \/ d[g] = before[g]
                   \/ disk[g] # before[g] /\ (g <= Len(scan) => scan[g] # before[g])
            BY <1>0, <3>2 DEF WholeBook
      <4>2. d \in had'  BY <1>1 DEF Edit
      <4>3. disk'[f] # before[f]  BY <2>0, <3>1, <3>2
      <4> WITNESS d \in had'
      <4> QED BY <2>0, <4>1, <4>3
    <3> QED BY <1>0, <1>1, <3>2 DEF Edit, WholeBook, Deferred
  <2>8. TouchBook'
    <3> SUFFICES ASSUME touched' PROVE TouchBook'
        BY DEF TouchBook
    <3>1. vpc \in AfterCopy => before[f] # edits + 1
      <4>1. vpc \in AfterCopy => f \in 1..Len(before)  BY <1>0 DEF StageBook, VFiles
      <4> QED BY <1>0, <2>0, <4>1, ElementOfSeq DEF OldBytes, VerifyTypes, Scans, Bytes
    <3>2. CASE vpc = "copy"
      <4>1. Len(scan) = NFiles  BY <1>0, <1>1, <3>2 DEF Edit, TouchBook
      <4>2. scan[f] # edits + 1
            BY <1>0, <2>0, <4>1, ElementOfSeq DEF OldBytes, VerifyTypes, Scans, Bytes, VFiles
      <4> QED BY <1>1, <2>0, <3>2, <4>1, <4>2 DEF Edit, TouchBook, Deferred
    <3>3. CASE vpc \in {"again", "prepare", "command", "digest"}
          BY <1>1, <2>0, <3>1, <3>3 DEF Edit, TouchBook, Deferred, AfterCopy
    <3>4. CASE vpc = "last"
      <4>1. disk'[f] # before[f]  BY <2>0, <3>1, <3>4 DEF AfterCopy
      <4>2. CASE touched
        <5>1. PICK g \in VFiles : disk[g] # before[g] /\ (g <= Len(scan) => scan[g] # before[g])
              BY <1>0, <3>4, <4>2 DEF TouchBook
        <5>2. disk'[g] # before[g]  BY <2>0, <4>1, <5>1
        <5> QED BY <1>1, <3>4, <5>1, <5>2 DEF Edit, TouchBook, Deferred
      <4>3. CASE ~touched
        <5>1. scan = <<>>  BY <1>1, <3>4, <4>3 DEF Edit
        <5>2. ~(f <= Len(scan))  BY <5>1 DEF VFiles
        <5> QED BY <1>1, <3>4, <4>1, <5>2 DEF Edit, TouchBook, Deferred
      <4> QED BY <4>2, <4>3
    <3>5. CASE vpc \notin {"copy"} \cup AfterCopy
          BY <1>0, <1>1, <3>5 DEF Edit, TouchBook, AfterCopy, Deferred
    <3> QED BY <3>2, <3>3, <3>4, <3>5 DEF AfterCopy
  <2> QED BY <2>1, <2>2, <2>3, <2>4, <2>5, <2>6, <2>7, <2>8 DEF VerifyIInv
<1>2. CASE Refused
  <2>1. VerifyTypes'
      BY <1>0, <1>2 DEF Refused, VerifyTypes
  <2>2. VerifyFlags'
      BY <1>0, <1>2 DEF Refused, VerifyFlags
  <2>3. StageBook'
      BY <1>0, <1>2 DEF Refused, StageBook, AfterCopy
  <2>4. GateBook'
      BY <1>0, <1>2 DEF Refused, GateBook, Deferred
  <2>5. ReportBook'
      BY <1>0, <1>2 DEF Refused, ReportBook
  <2>6. OldBytes'
      BY <1>0, <1>2 DEF Refused, OldBytes
  <2>7. WholeBook'
      BY <1>0, <1>2 DEF Refused, WholeBook, Deferred
  <2>8. TouchBook'
      BY <1>0, <1>2 DEF Refused, TouchBook, Deferred
  <2> QED BY <2>1, <2>2, <2>3, <2>4, <2>5, <2>6, <2>7, <2>8 DEF VerifyIInv
<1>3. CASE Header
  <2>1. VerifyTypes'
      BY <1>0, <1>3 DEF Header, Records, Fails, VerifyTypes
  <2>2. VerifyFlags'
      BY <1>0, <1>3 DEF Header, Records, Fails, VerifyFlags
  <2>3. StageBook'
      BY <1>0, <1>3 DEF Header, Records, Fails, StageBook, AfterCopy
  <2>4. GateBook'
      BY <1>0, <1>3 DEF Header, Records, Fails, GateBook, Deferred
  <2>5. ReportBook'
      BY <1>0, <1>3 DEF Header, Records, Fails, ReportBook
  <2>6. OldBytes'
      BY <1>0, <1>3 DEF Header, Records, Fails, OldBytes
  <2>7. WholeBook'
      BY <1>0, <1>3 DEF Header, Records, Fails, WholeBook, Deferred
  <2>8. TouchBook'
      BY <1>0, <1>3 DEF Header, Records, Fails, TouchBook, Deferred
  <2> QED BY <2>1, <2>2, <2>3, <2>4, <2>5, <2>6, <2>7, <2>8 DEF VerifyIInv
<1>4. CASE ReadFile
  <2>a. PICK n \in Nat : n = Len(scan)  BY <1>0, LenProperties DEF VerifyTypes, Scans
  <2>0. /\ n + 1 \in VFiles /\ disk[n + 1] \in Bytes
        /\ scan' \in Scans /\ Len(scan) = n /\ Len(scan') = n + 1 /\ scan'[n + 1] = disk[n + 1]
        /\ \A i \in 1..n : scan'[i] = scan[i]
    <3>1. n + 1 \in VFiles /\ disk[n + 1] \in Bytes
          BY <1>0, <1>4, <2>a DEF ReadFile, VerifyTypes, VFiles
    <3> QED BY <1>0, <1>4, <2>a, <3>1, AppendProperties DEF ReadFile, VerifyTypes, Scans, VFiles
  <2>1. VerifyTypes'
      BY <1>0, <1>4, <2>0 DEF ReadFile, VerifyTypes
  <2>2. VerifyFlags'
      BY <1>0, <1>4, <2>0 DEF ReadFile, VerifyFlags
  <2>3. StageBook'
      BY <1>0, <1>4, <2>0 DEF ReadFile, StageBook, AfterCopy
  <2>4. GateBook'
      BY <1>0, <1>4, <2>0 DEF ReadFile, GateBook, Deferred
  <2>5. ReportBook'
      BY <1>0, <1>4, <2>0 DEF ReadFile, ReportBook
  <2>6. OldBytes'
    <3>1. \A i \in 1..n + 1 : i \in 1..n \/ i = n + 1  OBVIOUS
    <3> QED BY <1>0, <1>4, <2>0, <3>1 DEF ReadFile, OldBytes
  <2>7. WholeBook'
    <3>1. ASSUME NEW f \in VFiles, disk[f] # before[f], f <= n => scan[f] # before[f]
          PROVE  f <= n + 1 => scan'[f] # before[f]
      <4>1. f <= n + 1 => f \in 1..n \/ f = n + 1  BY DEF VFiles
      <4> QED BY <2>0, <3>1, <4>1
    <3>2. ASSUME vpc = "again"
          PROVE  \E d \in had : \A f \in VFiles :
                   d[f] = before[f] \/ (disk[f] # before[f] /\ (f <= Len(scan') => scan'[f] # before[f]))
      <4>1. PICK d \in had : \A f \in VFiles :
                   d[f] = before[f] \/ (disk[f] # before[f] /\ (f <= n => scan[f] # before[f]))
            BY <1>0, <2>0, <3>2 DEF WholeBook
      <4> WITNESS d \in had
      <4> QED BY <2>0, <3>1, <4>1
    <3>3. UNCHANGED <<disk, had, vpc, before, retErr>>  BY <1>4 DEF ReadFile
    <3>4. vpc \notin {"prepare", "command", "digest"} \cup Deferred
          BY <1>4 DEF ReadFile, Deferred
    <3> QED BY <1>0, <3>2, <3>3, <3>4 DEF WholeBook, Deferred
  <2>8. TouchBook'
    <3>1. ASSUME NEW f \in VFiles, disk[f] # before[f], f <= n => scan[f] # before[f]
          PROVE  f <= n + 1 => scan'[f] # before[f]
      <4>1. f <= n + 1 => f \in 1..n \/ f = n + 1  BY DEF VFiles
      <4> QED BY <2>0, <3>1, <4>1
    <3>2. ~(touched /\ vpc = "copy")  BY <1>0, <1>4 DEF ReadFile, TouchBook
    <3>3. UNCHANGED <<disk, vpc, before, retErr, touched>>  BY <1>4 DEF ReadFile
    <3>4. ASSUME touched, vpc = "last"
          PROVE  \E f \in VFiles : disk[f] # before[f] /\ (f <= n + 1 => scan'[f] # before[f])
      <4>1. PICK f \in VFiles : disk[f] # before[f] /\ (f <= n => scan[f] # before[f])
            BY <1>0, <2>0, <3>4 DEF TouchBook
      <4> QED BY <3>1, <4>1
    <3> QED BY <1>0, <2>0, <3>2, <3>3, <3>4 DEF TouchBook, Deferred
  <2> QED BY <2>1, <2>2, <2>3, <2>4, <2>5, <2>6, <2>7, <2>8 DEF VerifyIInv
<1>5. CASE Copied
  <2>1. VerifyTypes'
      BY <1>0, <1>5 DEF Copied, VerifyTypes
  <2>2. VerifyFlags'
      BY <1>0, <1>5 DEF Copied, VerifyFlags
  <2>3. StageBook'
      BY <1>0, <1>5 DEF Copied, StageBook, AfterCopy
  <2>4. GateBook'
      BY <1>0, <1>5 DEF Copied, GateBook, Deferred
  <2>5. ReportBook'
      BY <1>0, <1>5 DEF Copied, ReportBook
  <2>6. OldBytes'
      BY <1>0, <1>5 DEF Copied, OldBytes
  <2>7. WholeBook'
      BY <1>0, <1>5 DEF Copied, WholeBook, Deferred, VFiles
  <2>8. TouchBook'
      BY <1>0, <1>5 DEF Copied, TouchBook, Deferred, VFiles
  <2> QED BY <2>1, <2>2, <2>3, <2>4, <2>5, <2>6, <2>7, <2>8 DEF VerifyIInv
<1>6. CASE ReadAgain
  <2>1. VerifyTypes'
      BY <1>0, <1>6 DEF ReadAgain, Stable, Fails, VerifyTypes
  <2>2. VerifyFlags'
      BY <1>0, <1>6 DEF ReadAgain, Stable, Fails, VerifyFlags
  <2>3. StageBook'
      BY <1>0, <1>6 DEF ReadAgain, Stable, Fails, StageBook, AfterCopy
  <2>4. GateBook'
      BY <1>0, <1>6 DEF ReadAgain, Stable, Fails, GateBook, Deferred
  <2>5. ReportBook'
      BY <1>0, <1>6 DEF ReadAgain, Stable, Fails, ReportBook
  <2>6. OldBytes'
      BY <1>0, <1>6 DEF ReadAgain, Stable, Fails, OldBytes
  <2>7. WholeBook'
    <3>1. ASSUME Stable PROVE before \in had
      <4>1. Len(before) = NFiles /\ Len(scan) = NFiles
            BY <1>0, <1>6 DEF ReadAgain, StageBook, AfterCopy
      <4>2. PICK d \in had : \A f \in VFiles : d[f] = before[f]
            BY <1>0, <1>6, <3>1, <4>1 DEF ReadAgain, Stable, WholeBook, VFiles
      <4>3. before \in [1..Len(before) -> Bytes]  BY <1>0, LenProperties DEF VerifyTypes, Scans
      <4>4. d \in [VFiles -> Bytes]  BY <1>0 DEF VerifyTypes
      <4>5. before = d  BY <4>1, <4>2, <4>3, <4>4 DEF VFiles
      <4> QED BY <4>5
    <3> QED BY <1>0, <1>6, <3>1 DEF ReadAgain, Fails, WholeBook, Deferred
  <2>8. TouchBook'
      BY <1>0, <1>6 DEF ReadAgain, Stable, Fails, TouchBook, Deferred
  <2> QED BY <2>1, <2>2, <2>3, <2>4, <2>5, <2>6, <2>7, <2>8 DEF VerifyIInv
<1>7. CASE ScanFails
  <2>1. VerifyTypes'
      BY <1>0, <1>7 DEF ScanFails, Fails, VerifyTypes
  <2>2. VerifyFlags'
      BY <1>0, <1>7 DEF ScanFails, Fails, VerifyFlags
  <2>3. StageBook'
      BY <1>0, <1>7 DEF ScanFails, Fails, StageBook, AfterCopy
  <2>4. GateBook'
      BY <1>0, <1>7 DEF ScanFails, Fails, GateBook, Deferred
  <2>5. ReportBook'
      BY <1>0, <1>7 DEF ScanFails, Fails, ReportBook
  <2>6. OldBytes'
      BY <1>0, <1>7 DEF ScanFails, Fails, OldBytes
  <2>7. WholeBook'
      BY <1>0, <1>7 DEF ScanFails, Fails, WholeBook, Deferred
  <2>8. TouchBook'
      BY <1>0, <1>7 DEF ScanFails, Fails, TouchBook, Deferred
  <2> QED BY <2>1, <2>2, <2>3, <2>4, <2>5, <2>6, <2>7, <2>8 DEF VerifyIInv
<1>8. CASE Prepare
  <2>1. VerifyTypes'
      BY <1>0, <1>8 DEF Prepare, Records, Fails, VerifyTypes
  <2>2. VerifyFlags'
      BY <1>0, <1>8 DEF Prepare, Records, Fails, VerifyFlags
  <2>3. StageBook'
      BY <1>0, <1>8 DEF Prepare, Records, Fails, StageBook, AfterCopy
  <2>4. GateBook'
      BY <1>0, <1>8 DEF Prepare, Records, Fails, GateBook, Deferred
  <2>5. ReportBook'
      BY <1>0, <1>8 DEF Prepare, Records, Fails, ReportBook
  <2>6. OldBytes'
      BY <1>0, <1>8 DEF Prepare, Records, Fails, OldBytes
  <2>7. WholeBook'
      BY <1>0, <1>8 DEF Prepare, Records, Fails, WholeBook, Deferred
  <2>8. TouchBook'
      BY <1>0, <1>8 DEF Prepare, Records, Fails, TouchBook, Deferred
  <2> QED BY <2>1, <2>2, <2>3, <2>4, <2>5, <2>6, <2>7, <2>8 DEF VerifyIInv
<1>9. CASE Command
  <2>0. frozen' \in Scans /\ Len(frozen') = Len(frozen)
    <3>1. CASE frozen' = frozen  BY <1>0, <3>1 DEF VerifyTypes
    <3>2. ASSUME NEW f \in VFiles, frozen' = [frozen EXCEPT ![f] = (@ + 1) % (MaxEdits + 1)]
          PROVE  frozen' \in Scans /\ Len(frozen') = Len(frozen)
      <4>1. f \in 1..Len(frozen) /\ frozen \in Seq(Bytes)
            BY <1>0, <1>9 DEF Command, StageBook, AfterCopy, VFiles, VerifyTypes, Scans
      <4>2. frozen[f] \in 0..MaxEdits  BY <4>1, ElementOfSeq DEF Bytes
      <4>3. (frozen[f] + 1) % (MaxEdits + 1) \in Bytes  BY <4>2 DEF Bytes
      <4>4. frozen' \in Seq(Bytes) /\ Len(frozen') = Len(frozen)
            BY <3>2, <4>1, <4>3, ExceptSeq
      <4> QED BY <1>0, <4>4 DEF VerifyTypes, Scans
    <3> QED BY <1>9, <3>1, <3>2 DEF Command, Overwrites
  <2>1. VerifyTypes'
      BY <1>0, <1>9, <2>0 DEF Command, GateLeft, Records, FailsLate, VerifyTypes
  <2>2. VerifyFlags'
      BY <1>0, <1>9, <2>0 DEF Command, GateLeft, Records, FailsLate, VerifyFlags
  <2>3. StageBook'
      BY <1>0, <1>9, <2>0 DEF Command, GateLeft, Records, FailsLate, StageBook, AfterCopy
  <2>4. GateBook'
      BY <1>0, <1>9, <2>0 DEF Command, GateLeft, Records, FailsLate, GateBook, Deferred
  <2>5. ReportBook'
      BY <1>0, <1>9, <2>0 DEF Command, GateLeft, Records, FailsLate, ReportBook
  <2>6. OldBytes'
      BY <1>0, <1>9, <2>0 DEF Command, GateLeft, Records, FailsLate, OldBytes
  <2>7. WholeBook'
      BY <1>0, <1>9, <2>0 DEF Command, GateLeft, Records, FailsLate, WholeBook, Deferred
  <2>8. TouchBook'
      BY <1>0, <1>9, <2>0 DEF Command, GateLeft, Records, FailsLate, TouchBook, Deferred,
         StageBook, VFiles
  <2> QED BY <2>1, <2>2, <2>3, <2>4, <2>5, <2>6, <2>7, <2>8 DEF VerifyIInv
<1>10. CASE Digest
  <2>1. VerifyTypes'
      BY <1>0, <1>10 DEF Digest, Kept, FailsLate, VerifyTypes
  <2>2. VerifyFlags'
    <3>1. gate' \in 1..NGates + 1 /\ cmd' \in 1..NCommands /\ gates' \in 0..NGates
          BY <1>0, <1>10 DEF Digest, VerifyFlags, GateBook
    <3> QED BY <1>0, <1>10, <3>1 DEF Digest, FailsLate, VerifyFlags
  <2>3. StageBook'
      BY <1>0, <1>10 DEF Digest, Kept, FailsLate, StageBook, AfterCopy
  <2>4. GateBook'
      BY <1>0, <1>10 DEF Digest, Kept, FailsLate, GateBook, Deferred, VerifyFlags
  <2>5. ReportBook'
      BY <1>0, <1>10 DEF Digest, Kept, FailsLate, ReportBook
  <2>6. OldBytes'
      BY <1>0, <1>10 DEF Digest, Kept, FailsLate, OldBytes
  <2>7. WholeBook'
      BY <1>0, <1>10 DEF Digest, Kept, FailsLate, WholeBook, Deferred
  <2>8. TouchBook'
      BY <1>0, <1>10 DEF Digest, Kept, FailsLate, TouchBook, Deferred, StageBook, VFiles
  <2> QED BY <2>1, <2>2, <2>3, <2>4, <2>5, <2>6, <2>7, <2>8 DEF VerifyIInv
<1>11. CASE GatesEnd
  <2>1. VerifyTypes'
      BY <1>0, <1>11 DEF GatesEnd, GateLeft, FailsLate, VerifyTypes
  <2>2. VerifyFlags'
      BY <1>0, <1>11 DEF GatesEnd, GateLeft, FailsLate, VerifyFlags
  <2>3. StageBook'
      BY <1>0, <1>11 DEF GatesEnd, GateLeft, FailsLate, StageBook, AfterCopy
  <2>4. GateBook'
      BY <1>0, <1>11 DEF GatesEnd, GateLeft, FailsLate, GateBook, Deferred, VerifyFlags
  <2>5. ReportBook'
      BY <1>0, <1>11 DEF GatesEnd, GateLeft, FailsLate, ReportBook
  <2>6. OldBytes'
      BY <1>0, <1>11 DEF GatesEnd, GateLeft, FailsLate, OldBytes
  <2>7. WholeBook'
      BY <1>0, <1>11 DEF GatesEnd, GateLeft, FailsLate, WholeBook, Deferred
  <2>8. TouchBook'
      BY <1>0, <1>11 DEF GatesEnd, GateLeft, FailsLate, TouchBook, Deferred, StageBook,
         VFiles
  <2> QED BY <2>1, <2>2, <2>3, <2>4, <2>5, <2>6, <2>7, <2>8 DEF VerifyIInv
<1>12. CASE LastScan
  <2>1. VerifyTypes'
      BY <1>0, <1>12 DEF LastScan, Unchanged, VerifyTypes
  <2>2. VerifyFlags'
      BY <1>0, <1>12 DEF LastScan, Unchanged, VerifyFlags
  <2>3. StageBook'
      BY <1>0, <1>12 DEF LastScan, Unchanged, StageBook, AfterCopy
  <2>4. GateBook'
      BY <1>0, <1>12 DEF LastScan, Unchanged, GateBook, Deferred
  <2>5. ReportBook'
      BY <1>0, <1>12 DEF LastScan, Unchanged, ReportBook
  <2>6. OldBytes'
      BY <1>0, <1>12 DEF LastScan, Unchanged, OldBytes
  <2>7. WholeBook'
      BY <1>0, <1>12 DEF LastScan, Unchanged, WholeBook, Deferred
  <2>8. TouchBook'
    <3> SUFFICES ASSUME touched, ~retErr' PROVE FALSE
        BY <1>12 DEF LastScan, TouchBook, Deferred
    <3>1. scan = before /\ Len(scan) = NFiles  BY <1>0, <1>12 DEF LastScan, Unchanged, VerifyFlags
    <3>2. PICK f \in VFiles : f <= Len(scan) => scan[f] # before[f]
          BY <1>0, <1>12 DEF LastScan, TouchBook
    <3> QED BY <3>1, <3>2 DEF VFiles
  <2> QED BY <2>1, <2>2, <2>3, <2>4, <2>5, <2>6, <2>7, <2>8 DEF VerifyIInv
<1>13. CASE Footer
  <2>1. VerifyTypes'
      BY <1>0, <1>13 DEF Footer, Verdict, VerifyTypes
  <2>2. VerifyFlags'
      BY <1>0, <1>13 DEF Footer, Verdict, VerifyFlags
  <2>3. StageBook'
      BY <1>0, <1>13 DEF Footer, Verdict, StageBook, AfterCopy
  <2>4. GateBook'
      BY <1>0, <1>13 DEF Footer, Verdict, GateBook, Deferred
  <2>5. ReportBook'
      BY <1>0, <1>13 DEF Footer, Verdict, ReportBook
  <2>6. OldBytes'
      BY <1>0, <1>13 DEF Footer, Verdict, OldBytes
  <2>7. WholeBook'
      BY <1>0, <1>13 DEF Footer, Verdict, WholeBook, Deferred
  <2>8. TouchBook'
      BY <1>0, <1>13 DEF Footer, Verdict, TouchBook, Deferred
  <2> QED BY <2>1, <2>2, <2>3, <2>4, <2>5, <2>6, <2>7, <2>8 DEF VerifyIInv
<1>14. CASE Release
  <2>1. VerifyTypes'
      BY <1>0, <1>14 DEF Release, Releases, VerifyTypes
  <2>2. VerifyFlags'
      BY <1>0, <1>14 DEF Release, Releases, VerifyFlags
  <2>3. StageBook'
      BY <1>0, <1>14 DEF Release, Releases, StageBook, AfterCopy
  <2>4. GateBook'
      BY <1>0, <1>14 DEF Release, Releases, GateBook, Deferred
  <2>5. ReportBook'
      BY <1>0, <1>14 DEF Release, Releases, ReportBook
  <2>6. OldBytes'
      BY <1>0, <1>14 DEF Release, Releases, OldBytes
  <2>7. WholeBook'
      BY <1>0, <1>14 DEF Release, Releases, WholeBook, Deferred
  <2>8. TouchBook'
      BY <1>0, <1>14 DEF Release, Releases, TouchBook, Deferred
  <2> QED BY <2>1, <2>2, <2>3, <2>4, <2>5, <2>6, <2>7, <2>8 DEF VerifyIInv
<1>15. CASE UNCHANGED goalVerifyVars
  <2>1. VerifyTypes'
      BY <1>0, <1>15 DEF goalVerifyVars, VerifyTypes
  <2>2. VerifyFlags'
      BY <1>0, <1>15 DEF goalVerifyVars, VerifyFlags
  <2>3. StageBook'
      BY <1>0, <1>15 DEF goalVerifyVars, StageBook, AfterCopy
  <2>4. GateBook'
      BY <1>0, <1>15 DEF goalVerifyVars, GateBook, Deferred
  <2>5. ReportBook'
      BY <1>0, <1>15 DEF goalVerifyVars, ReportBook
  <2>6. OldBytes'
      BY <1>0, <1>15 DEF goalVerifyVars, OldBytes
  <2>7. WholeBook'
      BY <1>0, <1>15 DEF goalVerifyVars, WholeBook, Deferred
  <2>8. TouchBook'
      BY <1>0, <1>15 DEF goalVerifyVars, TouchBook, Deferred
  <2> QED BY <2>1, <2>2, <2>3, <2>4, <2>5, <2>6, <2>7, <2>8 DEF VerifyIInv
<1> QED BY <1>1, <1>2, <1>3, <1>4, <1>5, <1>6, <1>7, <1>8, <1>9, <1>10, <1>11,
   <1>12, <1>13, <1>14, <1>15 DEF VerifyNext

\* A verification passes only for one whole state of the candidate that nobody has
\* edited from the copy to the last scan; the report agrees with the verdict; and the
\* frozen copy is kept, unchanged, exactly when all gates passed: for any number of
\* files, gates, commands and edits in any interleaving (VerifyGoal).
THEOREM VerdictIsSound == VerifySpec => []VerdictSound
<1>1. VerifyInit => VerifyIInv
  <2> SUFFICES ASSUME VerifyInit PROVE VerifyIInv
      OBVIOUS
  <2> USE VerifyAssumption DEF VerifyInit
  <2>1. <<>> \in Scans /\ 0 \in Bytes  BY EmptySeq DEF Scans, Bytes
  <2>2. VerifyTypes  BY <2>1 DEF VerifyTypes
  <2>3. VerifyFlags
    <3>1. gate \in 1..NGates + 1 /\ cmd \in 1..NCommands /\ gates \in 0..NGates  OBVIOUS
    <3> QED BY <3>1 DEF VerifyFlags
  <2>7. StageBook  BY DEF StageBook, AfterCopy
  <2>4. GateBook /\ ReportBook  BY DEF GateBook, ReportBook, Deferred
  <2>5. OldBytes  BY DEF OldBytes
  <2>6. WholeBook /\ TouchBook  BY DEF WholeBook, TouchBook, Deferred
  <2> QED BY <2>2, <2>3, <2>4, <2>5, <2>6, <2>7 DEF VerifyIInv
<1>2. VerifyIInv => VerdictSound
  <2> SUFFICES ASSUME VerifyIInv PROVE VerdictSound
      OBVIOUS
  <2>1. VerifyTypeOK
        BY CopiesAreScans DEF VerifyIInv, VerifyTypes, VerifyFlags, VerifyTypeOK
  <2>2. GatesSeeOneState /\ UneditedPasses
        BY DEF VerifyIInv, WholeBook, TouchBook, Deferred, GatesSeeOneState, UneditedPasses, Passes
  <2>3. PassedCopyKept /\ FailedCopyReleased
        BY DEF VerifyIInv, StageBook, GateBook, Deferred, PassedCopyKept, FailedCopyReleased, Passes
  <2>4. ReportAgrees  BY DEF VerifyIInv, ReportBook, ReportAgrees, Passes
  <2> QED BY <2>1, <2>2, <2>3, <2>4 DEF VerdictSound
<1> QED BY <1>1, <1>2, VerifyStep, PTL DEF VerifySpec

-----------------------------------------------------------------------------
(* Plan reads the baseline and the candidate in turn, three times each.    *)
(* Again no edit brings old bytes back (OldContent). So what construction  *)
(* read is what the first snapshot read, wherever the directory still      *)
(* agrees with that snapshot (CopyBook), and the state of both directories *)
(* in which construction began keeps agreeing with the copies wherever     *)
(* they still agree with the snapshots (PairBook). Apply's operations are  *)
(* those that make the baseline the planned one (TodoBook).                *)

CandNames == {"kept", "new"}

PlanTypes ==
  /\ accepted \in [BaseNames -> Content] /\ candidate \in [CandNames -> Content]
  /\ touches \in 0..MaxTouches /\ applies \in 0..MaxApplies
  /\ at \in Seq(Content) /\ beforeB \in Seq(Content) /\ beforeC \in Seq(Content)
  /\ copyB \in Seq(Content) /\ copyC \in Seq(Content)
  /\ hadBoth \subseteq [BaseNames -> Content] \X [CandNames -> Content]

PlanFlags ==
  /\ goFiles \in {"old", "built"} /\ reports \in {"old", "built"}
  /\ plpc \in ScanSteps \cup {"construct", "over", "apply"}
  /\ status \in {"none", "ready", "semantic_unresolved", "error", "applied"}
  /\ stale \in BOOLEAN /\ disturbed \in BOOLEAN /\ changed \in BOOLEAN

\* Which scans are complete.
LengthBook ==
  /\ plpc # "scanB" => Len(beforeB) = 5
  /\ plpc \notin {"scanB", "scanC"} => Len(beforeC) = 2
  /\ plpc \notin {"scanB", "scanC", "copyB"} => Len(copyB) = 5
  /\ plpc \notin {"scanB", "scanC", "copyB", "copyC"} => Len(copyC) = 2
  /\ plpc \in {"construct", "over", "apply"} => at = <<>>

StatusBook ==
  /\ plpc \in {"scanB", "scanC", "copyB", "copyC", "construct"} => status = "none"
  /\ plpc \in {"againB", "againC"} => status \in {"none", "semantic_unresolved", "error"}
  /\ plpc \in {"current", "apply"} => status = "ready"

\* Contents are never older than the edits so far.
OldContent ==
  /\ \A n \in BaseNames : accepted[n] <= touches + 1
  /\ \A n \in CandNames : candidate[n] <= touches + 1
  /\ \A i \in 1..Len(at) : at[i] <= touches + 1
  /\ \A i \in 1..Len(beforeB) : beforeB[i] <= touches + 1
  /\ \A i \in 1..Len(beforeC) : beforeC[i] <= touches + 1
  /\ \A i \in 1..Len(copyC) : copyC[i] <= touches + 1

\* The files that are still what the snapshots have.
StillB(i) == accepted[BaseOrder[i]] = beforeB[i]
StillC(i) == candidate[CandOrder[i]] = beforeC[i]

CopyBook ==
  /\ plpc = "copyB" => \A i \in 1..5 : i <= Len(at) /\ StillB(i) => at[i] = beforeB[i]
  /\ plpc = "copyC" => \A i \in 1..5 : StillB(i) => copyB[i] = beforeB[i]
  /\ plpc = "copyC" => \A i \in 1..2 : i <= Len(at) /\ StillC(i) => at[i] = beforeC[i]

\* The files that may have been edited since, as far as the scan has got.
GoneB(i) == ~StillB(i) /\ (i <= Len(at) => at[i] # beforeB[i])
GoneC(i) == ~StillC(i) /\ (i <= Len(at) => at[i] # beforeC[i])

PairBook ==
  /\ <<accepted, candidate>> \in hadBoth
  /\ plpc \in {"construct", "againB"} =>
       \E p \in hadBoth :
         /\ \A i \in 1..5 : p[1][BaseOrder[i]] = copyB[i] \/ GoneB(i)
         /\ \A i \in 1..2 : p[2][CandOrder[i]] = copyC[i] \/ ~StillC(i)
  /\ plpc = "againC" =>
       \E p \in hadBoth :
         /\ \A i \in 1..5 : p[1][BaseOrder[i]] = copyB[i]
         /\ \A i \in 1..2 : p[2][CandOrder[i]] = copyC[i] \/ GoneC(i)
  /\ status \in {"ready", "applied"} \/ (plpc = "over" /\ status = "semantic_unresolved") =>
       \E p \in hadBoth :
         /\ \A i \in 1..5 : p[1][BaseOrder[i]] = copyB[i]
         /\ \A i \in 1..2 : p[2][CandOrder[i]] = copyC[i]

StaleBook ==
  /\ plpc = "current" /\ stale => \E i \in 1..5 : GoneB(i)
  /\ plpc = "current" => ~changed
  /\ plpc = "apply" => ~stale
  /\ changed => ~stale

\* The operations that are part of an application of the plan.
PlanOps ==
  {[op |-> "write", name |-> n] : n \in BaseNames}
    \cup {[op |-> o, name |-> n] : o \in {"remove", "retire"},
                                   n \in {m \in BaseNames : Prepared(m) = NoFile}}
    \cup {[op |-> "go", name |-> "go"], [op |-> "reports", name |-> "reports"]}

Has(s, o) == \E k \in 1..Len(s) : s[k] = o

TodoBook ==
  plpc = "apply" =>
    /\ todo \in Seq(PlanOps)
    /\ ~disturbed =>
         /\ \A n \in BaseNames : accepted[n] # Prepared(n) => \E k \in 1..Len(todo) : todo[k].name = n
         /\ goFiles # "built" => \E k \in 1..Len(todo) : todo[k].op = "go"
         /\ reports # "built" => \E k \in 1..Len(todo) : todo[k].op = "reports"

PlanIInv ==
  /\ PlanTypes /\ PlanFlags /\ LengthBook /\ StatusBook /\ OldContent
  /\ CopyBook /\ PairBook /\ StaleBook /\ TodoBook
  /\ AppliedExactly

-----------------------------------------------------------------------------
\* The order in which the files of the baseline are read has each of them once.
LEMMA BaseOrderFacts ==
  /\ DOMAIN BaseOrder = 1..5 /\ Len(BaseOrder) = 5
  /\ \A i \in 1..5 : BaseOrder[i] \in BaseNames
  /\ \A n \in BaseNames : \E i \in 1..5 : BaseOrder[i] = n
  /\ \A i, j \in 1..5 : BaseOrder[i] = BaseOrder[j] => i = j
<1>1. DOMAIN BaseOrder = 1..5 /\ Len(BaseOrder) = 5  BY DEF BaseOrder
<1>2. \A i \in 1..5 : BaseOrder[i] \in BaseNames  BY <1>1 DEF BaseNames
<1>3. \A n \in BaseNames : \E i \in 1..5 : BaseOrder[i] = n  BY <1>1 DEF BaseNames
<1>4. \A i, j \in 1..5 : BaseOrder[i] = BaseOrder[j] => i = j
  <2> SUFFICES ASSUME NEW i \in 1..5, NEW j \in 1..5, BaseOrder[i] = BaseOrder[j] PROVE i = j
      OBVIOUS
  <2>1. i \in {1, 2, 3, 4, 5} /\ j \in {1, 2, 3, 4, 5}  OBVIOUS
  <2> QED BY <2>1 DEF BaseOrder
<1> QED BY <1>1, <1>2, <1>3, <1>4

\* The order in which the files of the candidate are read has each of them once.
LEMMA CandOrderFacts ==
  /\ DOMAIN CandOrder = 1..2 /\ Len(CandOrder) = 2
  /\ CandOrder[1] = "kept" /\ CandOrder[2] = "new"
  /\ \A i \in 1..2 : CandOrder[i] \in CandNames
  /\ \A n \in CandNames : \E i \in 1..2 : CandOrder[i] = n
  /\ \A i, j \in 1..2 : CandOrder[i] = CandOrder[j] => i = j
<1>1. DOMAIN CandOrder = 1..2 /\ Len(CandOrder) = 2 /\ CandOrder[1] = "kept" /\ CandOrder[2] = "new"
      BY DEF CandOrder
<1>2. \A i \in 1..2 : i = 1 \/ i = 2  OBVIOUS
<1> QED BY <1>1, <1>2 DEF CandNames

\* The names of the baseline.
LEMMA BaseNamesAre == BaseNames = {"gone", "kept", "meta", "new", "report"}
<1>1. DOMAIN BaseOrder = {1, 2, 3, 4, 5}  BY DEF BaseOrder
<1>2. BaseNames = {BaseOrder[1], BaseOrder[2], BaseOrder[3], BaseOrder[4], BaseOrder[5]}
      BY <1>1 DEF BaseNames
<1> QED BY <1>2 DEF BaseOrder

\* A scan of a whole directory, read back as a directory.
LEMMA ScannedDirs ==
  ASSUME NEW a \in [BaseNames -> Content], NEW c \in [CandNames -> Content], NEW s, NEW t,
         \A i \in 1..5 : a[BaseOrder[i]] = s[i], \A i \in 1..2 : c[CandOrder[i]] = t[i]
  PROVE  AsDir(s, BaseOrder) = a /\ AsDir(t, CandOrder) = c
<1>1. ASSUME NEW n \in BaseNames PROVE s[CHOOSE i \in DOMAIN BaseOrder : BaseOrder[i] = n] = a[n]
  <2>1. \E i \in DOMAIN BaseOrder : BaseOrder[i] = n  BY BaseOrderFacts
  <2> QED BY <2>1, BaseOrderFacts
<1>2. ASSUME NEW n \in CandNames PROVE t[CHOOSE i \in DOMAIN CandOrder : CandOrder[i] = n] = c[n]
  <2>1. \E i \in DOMAIN CandOrder : CandOrder[i] = n  BY CandOrderFacts
  <2> QED BY <2>1, CandOrderFacts
<1>3. {CandOrder[i] : i \in DOMAIN CandOrder} = CandNames  BY CandOrderFacts
<1>4. AsDir(s, BaseOrder) = a  BY <1>1 DEF AsDir, BaseNames
<1>5. AsDir(t, CandOrder) = c  BY <1>2, <1>3 DEF AsDir
<1> QED BY <1>4, <1>5

\* What is in a sequence of operations is in its concatenations.
LEMMA ConcatHas ==
  ASSUME NEW S, NEW s \in Seq(S), NEW t \in Seq(S)
  PROVE  /\ s \o t \in Seq(S)
         /\ \A o : Has(s, o) \/ Has(t, o) => Has(s \o t, o)
<1>1. /\ s \o t \in Seq(S) /\ Len(s) \in Nat /\ Len(t) \in Nat /\ Len(s \o t) = Len(s) + Len(t)
      /\ \A i \in 1..Len(s) + Len(t) : (s \o t)[i] = IF i <= Len(s) THEN s[i] ELSE t[i - Len(s)]
      BY ConcatProperties, LenProperties
<1>2. ASSUME NEW o, Has(s, o) PROVE Has(s \o t, o)
  <2>1. PICK k \in 1..Len(s) : s[k] = o  BY <1>2 DEF Has
  <2>2. k \in 1..Len(s \o t) /\ (s \o t)[k] = o  BY <1>1, <2>1
  <2> QED BY <2>2 DEF Has
<1>3. ASSUME NEW o, Has(t, o) PROVE Has(s \o t, o)
  <2>1. PICK k \in 1..Len(t) : t[k] = o  BY <1>3 DEF Has
  <2>2. k + Len(s) \in 1..Len(s \o t) /\ (s \o t)[k + Len(s)] = o  BY <1>1, <2>1
  <2> QED BY <2>2 DEF Has
<1> QED BY <1>1, <1>2, <1>3

\* The same for five sequences.
LEMMA FiveHave ==
  ASSUME NEW S, NEW s1 \in Seq(S), NEW s2 \in Seq(S), NEW s3 \in Seq(S), NEW s4 \in Seq(S),
         NEW s5 \in Seq(S)
  PROVE  /\ s1 \o s2 \o s3 \o s4 \o s5 \in Seq(S)
         /\ \A o : Has(s1, o) \/ Has(s2, o) \/ Has(s3, o) \/ Has(s4, o) \/ Has(s5, o)
                     => Has(s1 \o s2 \o s3 \o s4 \o s5, o)
<1>1. PICK t2 : t2 = s1 \o s2  OBVIOUS
<1>2. t2 \in Seq(S) /\ \A o : Has(s1, o) \/ Has(s2, o) => Has(t2, o)  BY <1>1, ConcatHas
<1>3. PICK t3 : t3 = t2 \o s3  OBVIOUS
<1>4. t3 \in Seq(S) /\ \A o : Has(t2, o) \/ Has(s3, o) => Has(t3, o)  BY <1>2, <1>3, ConcatHas
<1>5. PICK t4 : t4 = t3 \o s4  OBVIOUS
<1>6. t4 \in Seq(S) /\ \A o : Has(t3, o) \/ Has(s4, o) => Has(t4, o)  BY <1>4, <1>5, ConcatHas
<1>7. PICK t5 : t5 = t4 \o s5  OBVIOUS
<1>8. t5 \in Seq(S) /\ \A o : Has(t4, o) \/ Has(s5, o) => Has(t5, o)  BY <1>6, <1>7, ConcatHas
<1>9. t5 = s1 \o s2 \o s3 \o s4 \o s5  BY <1>1, <1>3, <1>5, <1>7
<1> QED BY <1>2, <1>4, <1>6, <1>8, <1>9

\* A sequence of at most one operation.
LEMMA ForHas ==
  ASSUME NEW needed \in BOOLEAN, NEW op, NEW n, needed => [op |-> op, name |-> n] \in PlanOps
  PROVE  For(needed, op, n) \in Seq(PlanOps) /\ (needed => Has(For(needed, op, n), [op |-> op, name |-> n]))
<1>1. CASE needed
  <2>1. For(needed, op, n) = <<[op |-> op, name |-> n]>>  BY <1>1 DEF For
  <2>2. Len(<<[op |-> op, name |-> n]>>) = 1 /\ <<[op |-> op, name |-> n]>>[1] = [op |-> op, name |-> n]
        OBVIOUS
  <2>3. <<[op |-> op, name |-> n]>> \in Seq(PlanOps)  BY <1>1
  <2> QED BY <2>1, <2>2, <2>3 DEF Has
<1>2. CASE ~needed  BY <1>2, EmptySeq DEF For
<1> QED BY <1>1, <1>2

\* The operations of a plan, and that each file they must change is among them.
LEMMA OperationsSuffice ==
  /\ Operations \in Seq(PlanOps)
  /\ \A n \in BaseNames : accepted[n] # Prepared(n) => \E k \in 1..Len(Operations) : Operations[k].name = n
  /\ \E k \in 1..Len(Operations) : Operations[k].op = "go"
  /\ \E k \in 1..Len(Operations) : Operations[k].op = "reports"
<1> DEFINE R(n) == [op |-> "remove", name |-> n]
           W(n) == [op |-> "write", name |-> n]
           Last == <<[op |-> "go", name |-> "go"], [op |-> "reports", name |-> "reports"]>>
<1>1. ASSUME NEW n \in BaseNames
      PROVE  /\ Removes(n) \in Seq(PlanOps) /\ Writes(n) \in Seq(PlanOps)
             /\ n \in Schemas /\ accepted[n] # NoFile /\ Prepared(n) = NoFile => Has(Removes(n), R(n))
             /\ Prepared(n) # NoFile => Has(Writes(n), W(n))
  <2>1. W(n) \in PlanOps  BY DEF PlanOps
  <2>2. Prepared(n) = NoFile => R(n) \in PlanOps  BY DEF PlanOps
  <2>3. Writes(n) \in Seq(PlanOps) /\ (Prepared(n) # NoFile => Has(Writes(n), W(n)))
        BY <2>1, ForHas DEF Writes
  <2>4. /\ Removes(n) \in Seq(PlanOps)
        /\ n \in Schemas /\ accepted[n] # NoFile /\ Prepared(n) = NoFile => Has(Removes(n), R(n))
        BY <2>2, ForHas DEF Removes
  <2> QED BY <2>3, <2>4
<1> DEFINE b == BaseOrder
           r5 == Removes(b[1]) \o Removes(b[2]) \o Removes(b[3]) \o Removes(b[4]) \o Removes(b[5])
           w5 == Writes(b[1]) \o Writes(b[2]) \o Writes(b[3]) \o Writes(b[4]) \o Writes(b[5])
<1>2. \A i \in 1..5 : Removes(b[i]) \in Seq(PlanOps) /\ Writes(b[i]) \in Seq(PlanOps)
      BY <1>1, BaseOrderFacts
<1>3. /\ r5 \in Seq(PlanOps)
      /\ \A i \in 1..5 : \A o : Has(Removes(b[i]), o) => Has(r5, o)
  <2>1. PICK f : f = [i \in 1..5 |-> Removes(b[i])]  OBVIOUS
  <2>2. \A i \in 1..5 : f[i] = Removes(b[i]) /\ f[i] \in Seq(PlanOps)  BY <1>2, <2>1
  <2>3. /\ f[1] \in Seq(PlanOps) /\ f[2] \in Seq(PlanOps) /\ f[3] \in Seq(PlanOps)
        /\ f[4] \in Seq(PlanOps) /\ f[5] \in Seq(PlanOps)
        BY <2>2
  <2>4. r5 = f[1] \o f[2] \o f[3] \o f[4] \o f[5]
    <3>1. /\ f[1] = Removes(b[1]) /\ f[2] = Removes(b[2]) /\ f[3] = Removes(b[3])
          /\ f[4] = Removes(b[4]) /\ f[5] = Removes(b[5])
          BY <2>2
    <3> QED BY <3>1, Zenon
  <2>5. /\ r5 \in Seq(PlanOps)
        /\ \A o : (\E i \in 1..5 : Has(f[i], o)) => Has(r5, o)
    <3>1. \A i \in 1..5 : i \in {1, 2, 3, 4, 5}  OBVIOUS
    <3> HIDE DEF r5
    <3> QED BY <2>3, <2>4, <3>1, FiveHave, SMTT(30)
  <2> HIDE DEF r5, b
  <2> QED BY <2>2, <2>5
<1>4. /\ w5 \in Seq(PlanOps)
      /\ \A i \in 1..5 : \A o : Has(Writes(b[i]), o) => Has(w5, o)
  <2>1. PICK f : f = [i \in 1..5 |-> Writes(b[i])]  OBVIOUS
  <2>2. \A i \in 1..5 : f[i] = Writes(b[i]) /\ f[i] \in Seq(PlanOps)  BY <1>2, <2>1
  <2>3. /\ f[1] \in Seq(PlanOps) /\ f[2] \in Seq(PlanOps) /\ f[3] \in Seq(PlanOps)
        /\ f[4] \in Seq(PlanOps) /\ f[5] \in Seq(PlanOps)
        BY <2>2
  <2>4. w5 = f[1] \o f[2] \o f[3] \o f[4] \o f[5]
    <3>1. /\ f[1] = Writes(b[1]) /\ f[2] = Writes(b[2]) /\ f[3] = Writes(b[3])
          /\ f[4] = Writes(b[4]) /\ f[5] = Writes(b[5])
          BY <2>2
    <3> QED BY <3>1, Zenon
  <2>5. /\ w5 \in Seq(PlanOps)
        /\ \A o : (\E i \in 1..5 : Has(f[i], o)) => Has(w5, o)
    <3>1. \A i \in 1..5 : i \in {1, 2, 3, 4, 5}  OBVIOUS
    <3> HIDE DEF w5
    <3> QED BY <2>3, <2>4, <3>1, FiveHave, SMTT(30)
  <2> HIDE DEF w5, b
  <2> QED BY <2>2, <2>5
<1>5. /\ Retires \in Seq(PlanOps) /\ Has(Retires, [op |-> "retire", name |-> "report"])
  <2>1. [op |-> "retire", name |-> "report"] \in PlanOps  BY BaseNamesAre DEF PlanOps, Prepared, NoFile
  <2>2. Retires \in Seq(PlanOps) /\ Len(Retires) = 1 /\ Retires[1] = [op |-> "retire", name |-> "report"]
        BY <2>1 DEF Retires
  <2> QED BY <2>2 DEF Has
<1>6. /\ Last \in Seq(PlanOps) /\ Has(Last, [op |-> "go", name |-> "go"])
      /\ Has(Last, [op |-> "reports", name |-> "reports"])
  <2>1. [op |-> "go", name |-> "go"] \in PlanOps /\ [op |-> "reports", name |-> "reports"] \in PlanOps
        BY DEF PlanOps
  <2>2. Last \in Seq(PlanOps)  BY <2>1
  <2>3. /\ Len(Last) = 2 /\ Last[1] = [op |-> "go", name |-> "go"]
        /\ Last[2] = [op |-> "reports", name |-> "reports"]
        OBVIOUS
  <2> QED BY <2>2, <2>3 DEF Has
<1>7. Operations = ((r5 \o Retires) \o w5) \o Last  BY DEF Operations, Each
<1> HIDE DEF r5, w5, Last
<1>8. /\ r5 \o Retires \in Seq(PlanOps)
      /\ \A o : Has(r5, o) \/ Has(Retires, o) => Has(r5 \o Retires, o)
      BY <1>3, <1>5, ConcatHas
<1>9. /\ (r5 \o Retires) \o w5 \in Seq(PlanOps)
      /\ \A o : Has(r5 \o Retires, o) \/ Has(w5, o) => Has((r5 \o Retires) \o w5, o)
      BY <1>4, <1>8, ConcatHas
<1>10. /\ Operations \in Seq(PlanOps)
       /\ \A o : Has((r5 \o Retires) \o w5, o) \/ Has(Last, o) => Has(Operations, o)
       BY <1>6, <1>7, <1>9, ConcatHas
<1>11. \A o : Has(r5, o) \/ Has(Retires, o) \/ Has(w5, o) \/ Has(Last, o) => Has(Operations, o)
       BY <1>8, <1>9, <1>10
<1>12. ASSUME NEW n \in BaseNames, accepted[n] # Prepared(n)
       PROVE  \E k \in 1..Len(Operations) : Operations[k].name = n
  <2>1. CASE Prepared(n) # NoFile
    <3>1. Has(Operations, W(n))  BY <1>1, <1>4, <1>11, <2>1, BaseOrderFacts
    <3>2. PICK k \in 1..Len(Operations) : Operations[k] = W(n)  BY <3>1 DEF Has
    <3> QED BY <3>2
  <2>2. CASE Prepared(n) = NoFile /\ n = "report"
    <3>1. PICK k \in 1..Len(Operations) : Operations[k] = [op |-> "retire", name |-> "report"]
          BY <1>5, <1>11 DEF Has
    <3> QED BY <2>2, <3>1
  <2>3. CASE Prepared(n) = NoFile /\ n # "report"
    <3>1. n \in Schemas  BY <2>3, BaseNamesAre DEF Schemas, Prepared, NoFile, Built
    <3>2. Has(Operations, R(n))  BY <1>1, <1>3, <1>11, <1>12, <2>3, <3>1, BaseOrderFacts
    <3>3. PICK k \in 1..Len(Operations) : Operations[k] = R(n)  BY <3>2 DEF Has
    <3> QED BY <3>3
  <2> QED BY <2>1, <2>2, <2>3
<1>13. /\ \E k \in 1..Len(Operations) : Operations[k].op = "go"
       /\ \E k \in 1..Len(Operations) : Operations[k].op = "reports"
  <2>1. PICK k \in 1..Len(Operations) : Operations[k] = [op |-> "go", name |-> "go"]
        BY <1>6, <1>11 DEF Has
  <2>2. PICK m \in 1..Len(Operations) : Operations[m] = [op |-> "reports", name |-> "reports"]
        BY <1>6, <1>11 DEF Has
  <2> QED BY <2>1, <2>2
<1> QED BY <1>10, <1>12, <1>13

\* Every edit, every step of Plan and every step of Apply keeps the invariant.
LEMMA PlanStep == PlanIInv /\ [PlanNext]_planVars => PlanIInv'
<1> SUFFICES ASSUME PlanIInv, [PlanNext]_planVars PROVE PlanIInv'
    OBVIOUS
<1> USE PlanAssumption DEF outVars, envVars, readVars
<1>0. /\ PlanTypes /\ PlanFlags /\ LengthBook /\ StatusBook /\ OldContent
      /\ CopyBook /\ PairBook /\ StaleBook /\ TodoBook /\ AppliedExactly
      BY DEF PlanIInv
<1>1. CASE Touch
  <2>0. /\ touches \in Nat /\ touches' = touches + 1 /\ touches' \in 0..MaxTouches
        /\ accepted' \in [BaseNames -> Content] /\ candidate' \in [CandNames -> Content]
        /\ \A n \in BaseNames : accepted'[n] = accepted[n] \/ accepted'[n] = touches + 2
        /\ \A n \in CandNames : candidate'[n] = candidate[n] \/ candidate'[n] = touches + 2
        /\ (accepted' = accepted /\ disturbed' = disturbed) \/ disturbed' = TRUE
    <3>1. touches \in Nat /\ touches' = touches + 1 /\ touches' \in 0..MaxTouches
          BY <1>0, <1>1 DEF Touch, PlanTypes
    <3>2. touches' + 1 \in Content /\ touches' + 1 = touches + 2  BY <3>1 DEF Content
    <3>3. CASE \E n \in BaseNames : /\ accepted' = [accepted EXCEPT ![n] = touches' + 1]
                                    /\ disturbed' = TRUE /\ candidate' = candidate
          BY <1>0, <3>1, <3>2, <3>3 DEF PlanTypes
    <3>4. CASE \E n \in CandNames : /\ candidate' = [candidate EXCEPT ![n] = touches' + 1]
                                    /\ accepted' = accepted /\ disturbed' = disturbed
          BY <1>0, <3>1, <3>2, <3>4 DEF PlanTypes
    <3> QED BY <1>1, <3>3, <3>4 DEF Touch, CandNames
  <2>b. plpc # "scanB" => \A i \in 1..5 : ~StillB(i) => ~StillB(i)'
    <3>1. SUFFICES ASSUME plpc # "scanB", NEW i \in 1..5, ~StillB(i) PROVE ~StillB(i)'
            OBVIOUS
    <3>2. beforeB \in Seq(Content) /\ i \in 1..Len(beforeB)  BY <1>0, <3>1 DEF LengthBook, PlanTypes
    <3>3. beforeB[i] \in Content  BY <3>2, ElementOfSeq
    <3>4. beforeB[i] <= touches + 1 /\ beforeB[i] \in Int  BY <1>0, <3>2, <3>3 DEF OldContent, Content
    <3> QED BY <1>1, <2>0, <3>1, <3>4, BaseOrderFacts DEF Touch, StillB
  <2>c. plpc \notin {"scanB", "scanC"} => \A i \in 1..2 : ~StillC(i) => ~StillC(i)'
    <3>1. SUFFICES ASSUME plpc \notin {"scanB", "scanC"}, NEW i \in 1..2, ~StillC(i)
                     PROVE  ~StillC(i)'
            OBVIOUS
    <3>2. beforeC \in Seq(Content) /\ i \in 1..Len(beforeC)  BY <1>0, <3>1 DEF LengthBook, PlanTypes
    <3>3. beforeC[i] \in Content  BY <3>2, ElementOfSeq
    <3>4. beforeC[i] <= touches + 1 /\ beforeC[i] \in Int  BY <1>0, <3>2, <3>3 DEF OldContent, Content
    <3> QED BY <1>1, <2>0, <3>1, <3>4, CandOrderFacts DEF Touch, StillC
  <2>d. /\ plpc # "scanB" => \A i \in 1..5 : GoneB(i) => GoneB(i)'
        /\ plpc \notin {"scanB", "scanC"} => \A i \in 1..2 : GoneC(i) => GoneC(i)'
          BY <1>1, <2>b, <2>c DEF Touch, GoneB, GoneC
  <2>1. PlanTypes'  BY <1>0, <1>1, <2>0 DEF Touch, PlanTypes
  <2>2. PlanFlags'
      BY <1>0, <1>1, <2>0 DEF Touch, PlanFlags, ScanSteps
  <2>3. LengthBook'
      BY <1>0, <1>1, <2>0 DEF Touch, LengthBook
  <2>4. StatusBook'
      BY <1>0, <1>1, <2>0 DEF Touch, StatusBook, PlanFlags, ScanSteps
  <2>5. OldContent'
    <3>1. \A n \in BaseNames : accepted[n] \in Int  BY <1>0 DEF PlanTypes, Content
    <3>2. \A n \in CandNames : candidate[n] \in Int  BY <1>0 DEF PlanTypes, Content
    <3>3. /\ \A i \in 1..Len(at) : at[i] \in Int
          /\ \A i \in 1..Len(beforeB) : beforeB[i] \in Int
          /\ \A i \in 1..Len(beforeC) : beforeC[i] \in Int
          /\ \A i \in 1..Len(copyC) : copyC[i] \in Int
          BY <1>0, ElementOfSeq, SMTT(30) DEF PlanTypes, Content
    <3>4. /\ \A n \in BaseNames : accepted'[n] <= touches + 2
          /\ \A n \in CandNames : candidate'[n] <= touches + 2
          BY <1>0, <2>0, <3>1, <3>2 DEF OldContent
    <3> QED BY <1>0, <1>1, <2>0, <3>3, <3>4 DEF Touch, OldContent
  <2>6. CopyBook'  BY <1>0, <1>1, <2>b, <2>c DEF Touch, CopyBook, StillB, StillC
  <2>7. PairBook'
    <3>1. <<accepted', candidate'>> \in hadBoth' /\ hadBoth \subseteq hadBoth'  BY <1>1 DEF Touch
    <3>2. plpc' = plpc /\ status' = status /\ copyB' = copyB /\ copyC' = copyC
          BY <1>1 DEF Touch, readVars
    <3>3. ASSUME plpc \in {"construct", "againB"}
          PROVE  \E p \in hadBoth' :
                   /\ \A i \in 1..5 : p[1][BaseOrder[i]] = copyB[i] \/ GoneB(i)'
                   /\ \A i \in 1..2 : p[2][CandOrder[i]] = copyC[i] \/ ~StillC(i)'
      <4>1. PICK p \in hadBoth :
                   /\ \A i \in 1..5 : p[1][BaseOrder[i]] = copyB[i] \/ GoneB(i)
                   /\ \A i \in 1..2 : p[2][CandOrder[i]] = copyC[i] \/ ~StillC(i)
            BY <1>0, <3>3 DEF PairBook
      <4>2. p \in hadBoth'  BY <3>1
      <4> WITNESS p \in hadBoth'
      <4> QED BY <2>c, <2>d, <3>3, <4>1
    <3>4. ASSUME plpc = "againC"
          PROVE  \E p \in hadBoth' :
                   /\ \A i \in 1..5 : p[1][BaseOrder[i]] = copyB[i]
                   /\ \A i \in 1..2 : p[2][CandOrder[i]] = copyC[i] \/ GoneC(i)'
      <4>1. PICK p \in hadBoth :
                   /\ \A i \in 1..5 : p[1][BaseOrder[i]] = copyB[i]
                   /\ \A i \in 1..2 : p[2][CandOrder[i]] = copyC[i] \/ GoneC(i)
            BY <1>0, <3>4 DEF PairBook
      <4>2. p \in hadBoth'  BY <3>1
      <4> WITNESS p \in hadBoth'
      <4> QED BY <2>d, <3>4, <4>1
    <3> QED BY <1>0, <3>1, <3>2, <3>3, <3>4 DEF PairBook
  <2>8. StaleBook'
    <3>1. plpc = "current" /\ stale => \E i \in 1..5 : GoneB(i)'  BY <1>0, <2>d DEF StaleBook
    <3> QED BY <1>0, <1>1, <3>1 DEF Touch, StaleBook
  <2>9. TodoBook'
    <3>1. \A n : Prepared(n)' = Prepared(n)  BY <1>1 DEF Touch, Prepared, readVars
    <3>2. PlanOps' = PlanOps  BY <3>1 DEF PlanOps
    <3> QED BY <1>0, <1>1, <2>0, <3>1, <3>2 DEF Touch, TodoBook
  <2>10. AppliedExactly'
    <3>1. \A n : Prepared(n)' = Prepared(n)  BY <1>1 DEF Touch, Prepared, readVars
    <3> QED BY <1>0, <1>1, <2>0, <3>1 DEF Touch, AppliedExactly
  <2> QED BY <2>1, <2>2, <2>3, <2>4, <2>5, <2>6, <2>7, <2>8, <2>9, <2>10 DEF PlanIInv
<1>2. CASE ReadOne
  <2>a. PICK m \in Nat : m = Len(at)  BY <1>0, LenProperties DEF PlanTypes
  <2>b. ScansBase => /\ m + 1 \in 1..5 /\ at' = Append(at, accepted[BaseOrder[m + 1]])
                     /\ accepted[BaseOrder[m + 1]] \in Content
    <3>a. ScansBase => Order = BaseOrder /\ Dir(BaseOrder[m + 1]) = accepted[BaseOrder[m + 1]]  BY DEF Order, Dir
    <3>b. m < Len(Order) /\ at' = Append(at, Dir(Order[m + 1]))  BY <1>2, <2>a DEF ReadOne
    <3>1. ScansBase => m + 1 \in 1..5 /\ at' = Append(at, accepted[BaseOrder[m + 1]])
      <4>1. ScansBase => at' = Append(at, accepted[BaseOrder[m + 1]])  BY <3>a, <3>b
      <4>2. ScansBase => m < 5  BY <3>a, <3>b, BaseOrderFacts
      <4> QED BY <4>1, <4>2
    <3>2. ScansBase => BaseOrder[m + 1] \in BaseNames  BY <3>1, BaseOrderFacts
    <3> QED BY <1>0, <3>1, <3>2 DEF PlanTypes
  <2>c. ~ScansBase => /\ m + 1 \in 1..2 /\ at' = Append(at, candidate[CandOrder[m + 1]])
                      /\ candidate[CandOrder[m + 1]] \in Content
    <3>a. ~ScansBase => Order = CandOrder /\ Dir(CandOrder[m + 1]) = candidate[CandOrder[m + 1]]  BY DEF Order, Dir
    <3>b. m < Len(Order) /\ at' = Append(at, Dir(Order[m + 1]))  BY <1>2, <2>a DEF ReadOne
    <3>1. ~ScansBase => m + 1 \in 1..2 /\ at' = Append(at, candidate[CandOrder[m + 1]])
      <4>1. ~ScansBase => at' = Append(at, candidate[CandOrder[m + 1]])  BY <3>a, <3>b
      <4>2. ~ScansBase => m < 2  BY <3>a, <3>b, CandOrderFacts
      <4> QED BY <4>1, <4>2
    <3>2. ~ScansBase => CandOrder[m + 1] \in CandNames  BY <3>1, CandOrderFacts
    <3> QED BY <1>0, <3>1, <3>2 DEF PlanTypes
  <2>d. PICK c \in Content : /\ at' = Append(at, c)
                             /\ ScansBase => m + 1 \in 1..5 /\ c = accepted[BaseOrder[m + 1]]
                             /\ ~ScansBase => m + 1 \in 1..2 /\ c = candidate[CandOrder[m + 1]]
        BY <2>b, <2>c
  <2>0. /\ at' \in Seq(Content) /\ Len(at) = m /\ Len(at') = m + 1 /\ at'[m + 1] = c
        /\ \A i \in 1..m : at'[i] = at[i]
        BY <1>0, <2>a, <2>d, AppendProperties DEF PlanTypes
  <2>e. /\ plpc' = plpc /\ accepted' = accepted /\ candidate' = candidate /\ hadBoth' = hadBoth
        /\ beforeB' = beforeB /\ beforeC' = beforeC /\ copyB' = copyB /\ copyC' = copyC
        /\ status' = status /\ touches' = touches /\ plpc \in ScanSteps
        BY <1>2 DEF ReadOne, outVars, envVars
  <2>f. ScansBase => \A i \in 1..5 : GoneB(i) => GoneB(i)'
    <3> SUFFICES ASSUME ScansBase, NEW i \in 1..5, GoneB(i) PROVE GoneB(i)'
        OBVIOUS
    <3>1. CASE i <= m  BY <2>0, <2>e, <3>1 DEF GoneB, StillB
    <3>2. CASE i = m + 1  BY <2>0, <2>d, <2>e, <3>2 DEF GoneB, StillB
    <3>3. CASE i > m + 1  BY <2>0, <2>e, <3>3 DEF GoneB, StillB
    <3> QED BY <3>1, <3>2, <3>3
  <2>g. ~ScansBase => \A i \in 1..2 : GoneC(i) => GoneC(i)'
    <3> SUFFICES ASSUME ~ScansBase, NEW i \in 1..2, GoneC(i) PROVE GoneC(i)'
        OBVIOUS
    <3>1. CASE i <= m  BY <2>0, <2>e, <3>1 DEF GoneC, StillC
    <3>2. CASE i = m + 1  BY <2>0, <2>d, <2>e, <3>2 DEF GoneC, StillC
    <3>3. CASE i > m + 1  BY <2>0, <2>e, <3>3 DEF GoneC, StillC
    <3> QED BY <3>1, <3>2, <3>3
  <2>1. PlanTypes'
      BY <1>0, <1>2, <2>0 DEF ReadOne, PlanTypes
  <2>2. PlanFlags'
      BY <1>0, <1>2, <2>0 DEF ReadOne, PlanFlags, ScanSteps
  <2>3. LengthBook'  BY <1>0, <2>e DEF LengthBook, ScanSteps
  <2>4. StatusBook'
      BY <1>0, <1>2, <2>0 DEF ReadOne, StatusBook, PlanFlags, ScanSteps
  <2>5. OldContent'
    <3>1. c <= touches + 1  BY <1>0, <2>d, BaseOrderFacts, CandOrderFacts DEF OldContent
    <3>2. \A i \in 1..m + 1 : i \in 1..m \/ i = m + 1  OBVIOUS
    <3>3. \A i \in 1..Len(at') : at'[i] <= touches + 1  BY <1>0, <2>0, <3>1, <3>2 DEF OldContent
    <3> QED BY <1>0, <2>e, <3>3 DEF OldContent
  <2>6. CopyBook'
    <3>1. \A i \in Nat : i <= m + 1 => i <= m \/ i = m + 1  OBVIOUS
    <3>2. ASSUME plpc = "copyB", NEW i \in 1..5, i <= m + 1, StillB(i) PROVE at'[i] = beforeB[i]
      <4>1. CASE i <= m  BY <1>0, <2>0, <3>2, <4>1 DEF CopyBook
      <4>2. CASE i = m + 1  BY <2>0, <2>d, <3>2, <4>2 DEF ScansBase, StillB
      <4> QED BY <3>1, <3>2, <4>1, <4>2
    <3>3. ASSUME plpc = "copyC", NEW i \in 1..2, i <= m + 1, StillC(i) PROVE at'[i] = beforeC[i]
      <4>1. CASE i <= m  BY <1>0, <2>0, <3>3, <4>1 DEF CopyBook
      <4>2. CASE i = m + 1  BY <2>0, <2>d, <3>3, <4>2 DEF ScansBase, StillC
      <4> QED BY <3>1, <3>3, <4>1, <4>2
    <3> QED BY <1>0, <2>0, <2>e, <3>2, <3>3 DEF CopyBook, StillB, StillC
  <2>7. PairBook'
    <3>1. ASSUME plpc \in {"construct", "againB"}
          PROVE  \E p \in hadBoth :
                   /\ \A i \in 1..5 : p[1][BaseOrder[i]] = copyB[i] \/ GoneB(i)'
                   /\ \A i \in 1..2 : p[2][CandOrder[i]] = copyC[i] \/ ~StillC(i)'
      <4>1. PICK p \in hadBoth :
                   /\ \A i \in 1..5 : p[1][BaseOrder[i]] = copyB[i] \/ GoneB(i)
                   /\ \A i \in 1..2 : p[2][CandOrder[i]] = copyC[i] \/ ~StillC(i)
            BY <1>0, <3>1 DEF PairBook
      <4>2. ScansBase  BY <2>e, <3>1 DEF ScansBase, ScanSteps
      <4>3. \A i \in 1..5 : GoneB(i) => GoneB(i)'  BY <2>f, <4>2
      <4>4. \A i \in 1..2 : ~StillC(i) => ~StillC(i)'  BY <2>e DEF StillC
      <4> WITNESS p \in hadBoth
      <4> QED BY <4>1, <4>3, <4>4
    <3>2. ASSUME plpc = "againC"
          PROVE  \E p \in hadBoth :
                   /\ \A i \in 1..5 : p[1][BaseOrder[i]] = copyB[i]
                   /\ \A i \in 1..2 : p[2][CandOrder[i]] = copyC[i] \/ GoneC(i)'
      <4>1. PICK p \in hadBoth :
                   /\ \A i \in 1..5 : p[1][BaseOrder[i]] = copyB[i]
                   /\ \A i \in 1..2 : p[2][CandOrder[i]] = copyC[i] \/ GoneC(i)
            BY <1>0, <3>2 DEF PairBook
      <4>2. ~ScansBase  BY <3>2 DEF ScansBase
      <4>3. \A i \in 1..2 : GoneC(i) => GoneC(i)'  BY <2>g, <4>2
      <4> WITNESS p \in hadBoth
      <4> QED BY <4>1, <4>3
    <3> QED BY <1>0, <2>e, <3>1, <3>2 DEF PairBook
  <2>8. StaleBook'
    <3>1. plpc = "current" => ScansBase  BY DEF ScansBase
    <3>2. plpc = "current" /\ stale => \E i \in 1..5 : GoneB(i)'  BY <1>0, <2>f, <3>1 DEF StaleBook
    <3> QED BY <1>0, <1>2, <3>2 DEF ReadOne, StaleBook
  <2>9. TodoBook'  BY <2>e DEF TodoBook, ScanSteps
  <2>10. AppliedExactly'
    <3>1. \A n : Prepared(n)' = Prepared(n)  BY <1>2 DEF ReadOne, Prepared, readVars, planVars
    <3>2. PlanOps' = PlanOps  BY <3>1 DEF PlanOps
    <3> QED BY <1>0, <1>2, <3>1, <3>2 DEF ReadOne, AppliedExactly, StatusBook, outVars, envVars, planRest, planVars
  <2> QED BY <2>1, <2>2, <2>3, <2>4, <2>5, <2>6, <2>7, <2>8, <2>9, <2>10 DEF PlanIInv
<1>3. CASE Snapshots
  <2>0. /\ plpc \in {"scanB", "copyB"} => Len(at) = 5
        /\ plpc \in {"scanC", "copyC"} => Len(at) = 2
        /\ at' = <<>> /\ Len(at') = 0 /\ at' \in Seq(Content)
        BY <1>3, BaseOrderFacts, CandOrderFacts, EmptySeq DEF Snapshots, Scanned, Order, ScansBase
  <2>1. PlanTypes'
      BY <1>0, <1>3, <2>0 DEF Snapshots, Scanned, planRest, PlanTypes, outVars, envVars
  <2>2. PlanFlags'
      BY <1>0, <1>3, <2>0 DEF Snapshots, Scanned, planRest, PlanFlags, ScanSteps
  <2>3. LengthBook'
      BY <1>0, <1>3, <2>0 DEF Snapshots, Scanned, planRest, LengthBook
  <2>4. StatusBook'
      BY <1>0, <1>3, <2>0 DEF Snapshots, Scanned, planRest, StatusBook, PlanFlags,
         ScanSteps
  <2>5. OldContent'
      BY <1>0, <1>3, <2>0 DEF Snapshots, Scanned, planRest, OldContent
  <2>6. CopyBook'
      BY <1>0, <1>3, <2>0 DEF Snapshots, Scanned, planRest, CopyBook, StillB, StillC
  <2>7. PairBook'
    <3>1. /\ accepted' = accepted /\ candidate' = candidate /\ hadBoth' = hadBoth /\ status' = status
          /\ plpc' \in {"scanC", "copyB", "copyC", "construct"} /\ status = "none"
          BY <1>0, <1>3 DEF Snapshots, Scanned, planRest, outVars, envVars, StatusBook
    <3>2. ASSUME plpc' = "construct"
          PROVE  /\ \A i \in 1..5 : accepted[BaseOrder[i]] = copyB'[i] \/ GoneB(i)'
                 /\ \A i \in 1..2 : candidate[CandOrder[i]] = copyC'[i] \/ ~StillC(i)'
      <4>1. /\ plpc = "copyC" /\ copyB' = copyB /\ copyC' = at /\ beforeB' = beforeB /\ beforeC' = beforeC
            BY <1>3, <3>2 DEF Snapshots, Scanned
      <4>2. \A i \in 1..5 : ~(i <= Len(at'))  BY <2>0
      <4>3. \A i \in 1..5 : StillB(i) => copyB[i] = beforeB[i]  BY <1>0, <4>1 DEF CopyBook
      <4>4. \A i \in 1..2 : i <= Len(at)  BY <2>0, <4>1
      <4>5. \A i \in 1..2 : StillC(i) => at[i] = beforeC[i]  BY <1>0, <4>1, <4>4 DEF CopyBook
      <4> QED BY <3>1, <4>1, <4>2, <4>3, <4>5 DEF GoneB, StillB, StillC
    <3>3. PICK p : p = <<accepted, candidate>>  OBVIOUS
    <3>4. p \in hadBoth /\ p[1] = accepted /\ p[2] = candidate  BY <1>0, <3>3 DEF PairBook
    <3>5. plpc' = "construct" =>
            \E q \in hadBoth' :
              /\ \A i \in 1..5 : q[1][BaseOrder[i]] = copyB'[i] \/ GoneB(i)'
              /\ \A i \in 1..2 : q[2][CandOrder[i]] = copyC'[i] \/ ~StillC(i)'
          BY <3>1, <3>2, <3>4
    <3>6. <<accepted, candidate>> \in hadBoth  BY <1>0 DEF PairBook
    <3> QED BY <3>1, <3>5, <3>6 DEF PairBook
  <2>8. StaleBook'  BY <1>0, <1>3 DEF Snapshots, planRest, StaleBook
  <2>9. TodoBook'  BY <1>3 DEF Snapshots, TodoBook
  <2>10. AppliedExactly'  BY <1>0, <1>3 DEF Snapshots, Scanned, AppliedExactly, StatusBook
  <2> QED BY <2>1, <2>2, <2>3, <2>4, <2>5, <2>6, <2>7, <2>8, <2>9, <2>10 DEF PlanIInv
<1>4. CASE ConstructCandidate
  <2>0. /\ status' \in {"none", "semantic_unresolved", "error"} /\ status = "none"
        /\ plpc = "construct" /\ plpc' = "againB" /\ UNCHANGED <<outVars, envVars, readVars>>
        BY <1>0, <1>4 DEF ConstructCandidate, Classified, planRest, StatusBook
  <2>1. PlanTypes'
      BY <1>0, <1>4, <2>0 DEF ConstructCandidate, Classified, planRest, PlanTypes
  <2>2. PlanFlags'
      BY <1>0, <1>4, <2>0 DEF ConstructCandidate, Classified, planRest, PlanFlags,
         ScanSteps
  <2>3. LengthBook'
      BY <1>0, <1>4, <2>0 DEF ConstructCandidate, Classified, planRest, LengthBook
  <2>4. StatusBook'
      BY <1>0, <1>4, <2>0 DEF ConstructCandidate, Classified, planRest, StatusBook,
         PlanFlags, ScanSteps
  <2>5. OldContent'
      BY <1>0, <1>4, <2>0 DEF ConstructCandidate, Classified, planRest, OldContent
  <2>6. CopyBook'
      BY <1>0, <1>4, <2>0 DEF ConstructCandidate, Classified, planRest, CopyBook, StillB,
         StillC
  <2>7. PairBook'  BY <1>0, <2>0 DEF PairBook, GoneB, StillB, StillC, outVars, envVars, readVars
  <2>8. StaleBook'
      BY <1>0, <1>4, <2>0 DEF ConstructCandidate, Classified, planRest, StaleBook, GoneB,
         StillB
  <2>9. TodoBook'
    <3>1. \A n : Prepared(n)' = Prepared(n)  BY <1>4 DEF ConstructCandidate, Prepared, readVars, planVars
    <3>2. PlanOps' = PlanOps  BY <3>1 DEF PlanOps
    <3> QED BY <1>0, <1>4, <3>1, <3>2 DEF ConstructCandidate, TodoBook, outVars, envVars, planRest, planVars
  <2>10. AppliedExactly'  BY <2>0 DEF AppliedExactly
  <2> QED BY <2>1, <2>2, <2>3, <2>4, <2>5, <2>6, <2>7, <2>8, <2>9, <2>10 DEF PlanIInv
<1>5. CASE AgainB
  <2>0. Len(at) = 5 /\ at' = <<>> /\ Len(at') = 0 /\ at' \in Seq(Content)
        BY <1>5, BaseOrderFacts, CandOrderFacts, EmptySeq DEF AgainB, Scanned, Order, ScansBase
  <2>1. PlanTypes'
      BY <1>0, <1>5, <2>0 DEF AgainB, Scanned, SameSnapshotBase, planRest, PlanTypes
  <2>2. PlanFlags'
      BY <1>0, <1>5, <2>0 DEF AgainB, Scanned, SameSnapshotBase, planRest, PlanFlags,
         ScanSteps
  <2>3. LengthBook'
      BY <1>0, <1>5, <2>0 DEF AgainB, Scanned, SameSnapshotBase, planRest, LengthBook
  <2>4. StatusBook'
      BY <1>0, <1>5, <2>0 DEF AgainB, Scanned, SameSnapshotBase, planRest, StatusBook,
         PlanFlags, ScanSteps
  <2>5. OldContent'
      BY <1>0, <1>5, <2>0 DEF AgainB, Scanned, SameSnapshotBase, planRest, OldContent
  <2>6. CopyBook'
      BY <1>0, <1>5, <2>0 DEF AgainB, Scanned, SameSnapshotBase, planRest, CopyBook,
         StillB, StillC
  <2>7. PairBook'
    <3>1. /\ accepted' = accepted /\ candidate' = candidate /\ hadBoth' = hadBoth
          /\ beforeC' = beforeC /\ copyB' = copyB /\ copyC' = copyC /\ plpc = "againB"
          BY <1>5 DEF AgainB, Scanned, planRest, outVars, envVars
    <3>2. CASE at = beforeB /\ plpc' = "againC" /\ status' = status
      <4>1. PICK p \in hadBoth :
                   /\ \A i \in 1..5 : p[1][BaseOrder[i]] = copyB[i] \/ GoneB(i)
                   /\ \A i \in 1..2 : p[2][CandOrder[i]] = copyC[i] \/ ~StillC(i)
            BY <1>0, <3>1 DEF PairBook
      <4>2. \A i \in 1..5 : ~GoneB(i)  BY <2>0, <3>2 DEF GoneB
      <4>3. \A i \in 1..2 : ~(i <= Len(at'))  BY <2>0
      <4>4. \A i \in 1..2 : ~StillC(i) => GoneC(i)'  BY <3>1, <4>3 DEF GoneC, StillC
      <4>5. status \notin {"ready", "applied"}  BY <1>0, <3>1 DEF StatusBook
      <4>6. \E q \in hadBoth : /\ \A i \in 1..5 : q[1][BaseOrder[i]] = copyB[i]
                               /\ \A i \in 1..2 : q[2][CandOrder[i]] = copyC[i] \/ GoneC(i)'
            BY <4>1, <4>2, <4>4
      <4> QED BY <1>0, <3>1, <3>2, <4>5, <4>6 DEF PairBook
    <3>3. CASE plpc' = "over" /\ status' = "error"  BY <1>0, <3>1, <3>3 DEF PairBook
    <3> QED BY <1>5, <3>2, <3>3 DEF AgainB, SameSnapshotBase
  <2>8. StaleBook'
      BY <1>0, <1>5, <2>0 DEF AgainB, Scanned, SameSnapshotBase, planRest, StaleBook,
         GoneB, StillB
  <2>9. TodoBook'
    <3>1. \A n : Prepared(n)' = Prepared(n)  BY <1>5 DEF AgainB, Prepared, readVars, planVars
    <3>2. PlanOps' = PlanOps  BY <3>1 DEF PlanOps
    <3> QED BY <1>0, <1>5, <3>1, <3>2 DEF AgainB, TodoBook, outVars, envVars, planRest, planVars
  <2>10. AppliedExactly'
    <3>1. \A n : Prepared(n)' = Prepared(n)  BY <1>5 DEF AgainB, Prepared, readVars, planVars
    <3>2. PlanOps' = PlanOps  BY <3>1 DEF PlanOps
    <3> QED BY <1>0, <1>5, <3>1, <3>2 DEF AgainB, AppliedExactly, StatusBook, outVars, envVars, planRest, planVars
  <2> QED BY <2>1, <2>2, <2>3, <2>4, <2>5, <2>6, <2>7, <2>8, <2>9, <2>10 DEF PlanIInv
<1>6. CASE AgainC
  <2>0. Len(at) = 2 /\ at' = <<>> /\ Len(at') = 0 /\ at' \in Seq(Content)
        BY <1>6, BaseOrderFacts, CandOrderFacts, EmptySeq DEF AgainC, Scanned, Order, ScansBase
  <2>1. PlanTypes'
      BY <1>0, <1>6, <2>0 DEF AgainC, Scanned, SameSnapshotCand, planRest, PlanTypes
  <2>2. PlanFlags'
      BY <1>0, <1>6, <2>0 DEF AgainC, Scanned, SameSnapshotCand, planRest, PlanFlags,
         ScanSteps
  <2>3. LengthBook'
      BY <1>0, <1>6, <2>0 DEF AgainC, Scanned, SameSnapshotCand, planRest, LengthBook
  <2>4. StatusBook'
      BY <1>0, <1>6, <2>0 DEF AgainC, Scanned, SameSnapshotCand, planRest, StatusBook,
         PlanFlags, ScanSteps
  <2>5. OldContent'
      BY <1>0, <1>6, <2>0 DEF AgainC, Scanned, SameSnapshotCand, planRest, OldContent
  <2>6. CopyBook'
      BY <1>0, <1>6, <2>0 DEF AgainC, Scanned, SameSnapshotCand, planRest, CopyBook,
         StillB, StillC
  <2>7. PairBook'
    <3>1. /\ accepted' = accepted /\ candidate' = candidate /\ hadBoth' = hadBoth
          /\ copyB' = copyB /\ copyC' = copyC /\ plpc = "againC" /\ plpc' = "over"
          BY <1>6 DEF AgainC, Scanned, planRest, outVars, envVars
    <3>2. CASE at = beforeC
      <4>1. PICK p \in hadBoth :
                   /\ \A i \in 1..5 : p[1][BaseOrder[i]] = copyB[i]
                   /\ \A i \in 1..2 : p[2][CandOrder[i]] = copyC[i] \/ GoneC(i)
            BY <1>0, <3>1 DEF PairBook
      <4>2. \A i \in 1..2 : ~GoneC(i)  BY <2>0, <3>2 DEF GoneC
      <4>3. \E q \in hadBoth : /\ \A i \in 1..5 : q[1][BaseOrder[i]] = copyB[i]
                               /\ \A i \in 1..2 : q[2][CandOrder[i]] = copyC[i]
            BY <4>1, <4>2
      <4> QED BY <1>0, <3>1, <4>3 DEF PairBook
    <3>3. CASE at # beforeC
      <4>1. status' = "error"  BY <1>6, <3>3 DEF AgainC, SameSnapshotCand
      <4> QED BY <1>0, <3>1, <4>1 DEF PairBook
    <3> QED BY <3>2, <3>3
  <2>8. StaleBook'
      BY <1>0, <1>6, <2>0 DEF AgainC, Scanned, SameSnapshotCand, planRest, StaleBook,
         GoneB, StillB
  <2>9. TodoBook'
    <3>1. \A n : Prepared(n)' = Prepared(n)  BY <1>6 DEF AgainC, Prepared, readVars, planVars
    <3>2. PlanOps' = PlanOps  BY <3>1 DEF PlanOps
    <3> QED BY <1>0, <1>6, <3>1, <3>2 DEF AgainC, TodoBook, outVars, envVars, planRest, planVars
  <2>10. AppliedExactly'
    <3>1. \A n : Prepared(n)' = Prepared(n)  BY <1>6 DEF AgainC, Prepared, readVars, planVars
    <3>2. PlanOps' = PlanOps  BY <3>1 DEF PlanOps
    <3> QED BY <1>0, <1>6, <3>1, <3>2 DEF AgainC, AppliedExactly, StatusBook, outVars, envVars, planRest, planVars
  <2> QED BY <2>1, <2>2, <2>3, <2>4, <2>5, <2>6, <2>7, <2>8, <2>9, <2>10 DEF PlanIInv
<1>7. CASE Incompatible
  <2>1. PlanTypes'
      BY <1>0, <1>7 DEF Incompatible, planRest, PlanTypes
  <2>2. PlanFlags'
      BY <1>0, <1>7 DEF Incompatible, planRest, PlanFlags, ScanSteps
  <2>3. LengthBook'
      BY <1>0, <1>7 DEF Incompatible, planRest, LengthBook
  <2>4. StatusBook'
      BY <1>0, <1>7 DEF Incompatible, planRest, StatusBook, PlanFlags, ScanSteps
  <2>5. OldContent'
      BY <1>0, <1>7 DEF Incompatible, planRest, OldContent
  <2>6. CopyBook'
      BY <1>0, <1>7 DEF Incompatible, planRest, CopyBook, StillB, StillC
  <2>7. PairBook'
      BY <1>0, <1>7 DEF Incompatible, planRest, PairBook, GoneB, GoneC, StillB, StillC
  <2>8. StaleBook'
      BY <1>0, <1>7 DEF Incompatible, planRest, StaleBook, GoneB, StillB
  <2>9. TodoBook'
    <3>1. \A n : Prepared(n)' = Prepared(n)  BY <1>7 DEF Incompatible, Prepared, readVars, planVars
    <3>2. PlanOps' = PlanOps  BY <3>1 DEF PlanOps
    <3> QED BY <1>0, <1>7, <3>1, <3>2 DEF Incompatible, TodoBook, outVars, envVars, planRest, planVars
  <2>10. AppliedExactly'
    <3>1. \A n : Prepared(n)' = Prepared(n)  BY <1>7 DEF Incompatible, Prepared, readVars, planVars
    <3>2. PlanOps' = PlanOps  BY <3>1 DEF PlanOps
    <3> QED BY <1>0, <1>7, <3>1, <3>2 DEF Incompatible, AppliedExactly, StatusBook, outVars, envVars, planRest, planVars
  <2> QED BY <2>1, <2>2, <2>3, <2>4, <2>5, <2>6, <2>7, <2>8, <2>9, <2>10 DEF PlanIInv
<1>8. CASE Apply
  <2>1. PlanTypes'
      BY <1>0, <1>8 DEF Apply, PlanTypes
  <2>2. PlanFlags'
      BY <1>0, <1>8 DEF Apply, PlanFlags, ScanSteps
  <2>3. LengthBook'
      BY <1>0, <1>8 DEF Apply, LengthBook
  <2>4. StatusBook'
      BY <1>0, <1>8 DEF Apply, StatusBook, PlanFlags, ScanSteps
  <2>5. OldContent'
      BY <1>0, <1>8 DEF Apply, OldContent
  <2>6. CopyBook'
      BY <1>0, <1>8 DEF Apply, CopyBook, StillB, StillC
  <2>7. PairBook'
      BY <1>0, <1>8 DEF Apply, PairBook, GoneB, GoneC, StillB, StillC
  <2>8. StaleBook'
    <3>1. /\ plpc' = "current" /\ ~changed' /\ at' = at /\ at = <<>> /\ accepted' = accepted
          /\ beforeB' = beforeB /\ Len(beforeB) = 5 /\ beforeB \in Seq(Content)
          /\ stale' = ([i \in 1..5 |-> accepted[BaseOrder[i]]] # beforeB)
          BY <1>0, <1>8, BaseOrderFacts DEF Apply, LengthBook, PlanTypes, outVars, readVars
    <3>2. beforeB = [i \in 1..5 |-> beforeB[i]]  BY <3>1, LenProperties
    <3>3. stale' => \E i \in 1..5 : accepted[BaseOrder[i]] # beforeB[i]  BY <3>1, <3>2
    <3>4. \A i \in 1..5 : ~(i <= Len(at'))  BY <3>1, EmptySeq
    <3>5. stale' => \E i \in 1..5 : GoneB(i)'  BY <3>1, <3>3, <3>4 DEF GoneB, StillB
    <3> QED BY <3>1, <3>5 DEF StaleBook
  <2>9. TodoBook'
    <3>1. \A n : Prepared(n)' = Prepared(n)  BY <1>8 DEF Apply, Prepared, readVars, planVars
    <3>2. PlanOps' = PlanOps  BY <3>1 DEF PlanOps
    <3> QED BY <1>0, <1>8, <3>1, <3>2 DEF Apply, TodoBook, outVars, envVars, planRest, planVars
  <2>10. AppliedExactly'
    <3>1. \A n : Prepared(n)' = Prepared(n)  BY <1>8 DEF Apply, Prepared, readVars, planVars
    <3>2. PlanOps' = PlanOps  BY <3>1 DEF PlanOps
    <3> QED BY <1>0, <1>8, <3>1, <3>2 DEF Apply, AppliedExactly, StatusBook, outVars, envVars, planRest, planVars
  <2> QED BY <2>1, <2>2, <2>3, <2>4, <2>5, <2>6, <2>7, <2>8, <2>9, <2>10 DEF PlanIInv
<1>9. CASE CheckCurrent
  <2>0. Len(at) = 5 /\ at' = <<>> /\ Len(at') = 0 /\ at' \in Seq(Content)
        BY <1>9, BaseOrderFacts, CandOrderFacts, EmptySeq DEF CheckCurrent, Scanned, Order, ScansBase
  <2>1. PlanTypes'
      BY <1>0, <1>9, <2>0 DEF CheckCurrent, Scanned, StillPlanned, PlanTypes
  <2>2. PlanFlags'
      BY <1>0, <1>9, <2>0 DEF CheckCurrent, Scanned, StillPlanned, PlanFlags, ScanSteps
  <2>3. LengthBook'
      BY <1>0, <1>9, <2>0 DEF CheckCurrent, Scanned, StillPlanned, LengthBook
  <2>4. StatusBook'
      BY <1>0, <1>9, <2>0 DEF CheckCurrent, Scanned, StillPlanned, StatusBook, PlanFlags,
         ScanSteps
  <2>5. OldContent'
      BY <1>0, <1>9, <2>0 DEF CheckCurrent, Scanned, StillPlanned, OldContent
  <2>6. CopyBook'
      BY <1>0, <1>9, <2>0 DEF CheckCurrent, Scanned, StillPlanned, CopyBook, StillB,
         StillC
  <2>7. PairBook'
    <3>1. /\ accepted' = accepted /\ candidate' = candidate /\ hadBoth' = hadBoth
          /\ copyB' = copyB /\ copyC' = copyC /\ status = "ready" /\ plpc' \in {"over", "apply"}
          BY <1>0, <1>9 DEF CheckCurrent, Scanned, StatusBook, outVars, envVars, readVars
    <3> QED BY <1>0, <3>1 DEF PairBook
  <2>8. StaleBook'
    <3>1. stale' = stale /\ changed' = changed /\ plpc = "current"  BY <1>9 DEF CheckCurrent, Scanned
    <3>2. CASE at = beforeB /\ plpc' = "apply"
      <4>1. \A i \in 1..5 : ~GoneB(i)  BY <2>0, <3>2 DEF GoneB
      <4> QED BY <1>0, <3>1, <3>2, <4>1 DEF StaleBook
    <3>3. CASE plpc' = "over"  BY <1>0, <3>1, <3>3 DEF StaleBook
    <3> QED BY <1>9, <3>2, <3>3 DEF CheckCurrent, StillPlanned
  <2>9. TodoBook'
    <3>1. accepted' = accepted /\ copyC' = copyC /\ (plpc' = "apply" => todo' = Operations)
          BY <1>9 DEF CheckCurrent, Scanned, outVars
    <3>2. \A n : Prepared(n)' = Prepared(n)  BY <3>1 DEF Prepared
    <3>3. PlanOps' = PlanOps  BY <3>2 DEF PlanOps
    <3> QED BY <3>1, <3>2, <3>3, OperationsSuffice DEF TodoBook
  <2>10. AppliedExactly'  BY <1>0, <1>9 DEF CheckCurrent, Scanned, AppliedExactly, StatusBook
  <2> QED BY <2>1, <2>2, <2>3, <2>4, <2>5, <2>6, <2>7, <2>8, <2>9, <2>10 DEF PlanIInv
<1>10. CASE Operate
  <2>a. PICK o : o = Head(todo)  OBVIOUS
  <2>b. PICK l \in Nat : l = Len(todo)  BY <1>0, <1>10, LenProperties DEF Operate, TodoBook
  <2>c. /\ o \in PlanOps /\ Tail(todo) \in Seq(PlanOps) /\ todo' = Tail(todo) /\ Len(todo') = l - 1 /\ l > 0
        /\ \A i \in 1..l - 1 : todo'[i] = todo[i + 1]
        /\ todo[1] = o
        BY <1>0, <1>10, <2>a, <2>b, HeadTailProperties, EmptySeq, LenProperties DEF Operate, TodoBook
  <2>d. /\ o.op \in {"remove", "retire"} => o.name \in BaseNames /\ Prepared(o.name) = NoFile
        /\ o.op = "write" => o.name \in BaseNames
        /\ o.op \in {"remove", "retire", "write"} \/ (o.op \in {"go", "reports"} /\ o.name \notin BaseNames)
        BY <2>c, BaseNamesAre DEF PlanOps
  <2>e. \A n \in BaseNames : Prepared(n) \in Content /\ Prepared(n) <= touches + 1
    <3>0. copyC \in Seq(Content) /\ Len(copyC) = 2  BY <1>0, <1>10 DEF Operate, LengthBook, PlanTypes
    <3>1. copyC[1] \in Content /\ copyC[2] \in Content /\ copyC[1] <= touches + 1 /\ copyC[2] <= touches + 1
          BY <1>0, <3>0, ElementOfSeq DEF OldContent
    <3>2. touches \in Nat /\ Built \in Content /\ NoFile \in Content
          BY <1>0 DEF PlanTypes, Built, NoFile, Content
    <3> QED BY <3>1, <3>2 DEF Prepared, Built, NoFile
  <2>0. /\ accepted' \in [BaseNames -> Content]
        /\ \A n \in BaseNames : accepted'[n] = IF n = o.name THEN Prepared(n) ELSE accepted[n]
    <3>1. CASE o.op \in {"remove", "retire"}
      <4>1. accepted' = [accepted EXCEPT ![o.name] = Prepared(o.name)]  BY <1>10, <2>a, <2>d, <3>1 DEF Operate
      <4> QED BY <1>0, <2>d, <2>e, <3>1, <4>1 DEF PlanTypes
    <3>2. CASE o.op = "write"
      <4>1. accepted' = [accepted EXCEPT ![o.name] = Prepared(o.name)]  BY <1>10, <2>a, <3>2 DEF Operate
      <4> QED BY <1>0, <2>d, <2>e, <3>2, <4>1 DEF PlanTypes
    <3>3. CASE o.op \in {"go", "reports"}
      <4>1. accepted' = accepted  BY <1>10, <2>a, <3>3 DEF Operate
      <4> QED BY <1>0, <2>d, <3>3, <4>1 DEF PlanTypes
    <3> QED BY <2>d, <3>1, <3>2, <3>3
  <2>f. /\ hadBoth' = hadBoth \cup {<<accepted', candidate>>} /\ plpc = "apply" /\ status = "ready"
        /\ UNCHANGED <<candidate, touches, plpc, readVars, status, applies, stale, disturbed>>
        /\ changed' = TRUE
        /\ goFiles' = (IF o.op = "go" THEN "built" ELSE goFiles)
        /\ reports' = (IF o.op = "reports" THEN "built" ELSE reports)
        BY <1>0, <1>10, <2>a DEF Operate, StatusBook
  <2>1. PlanTypes'
    <3>1. hadBoth' \subseteq [BaseNames -> Content] \X [CandNames -> Content]
          BY <1>0, <2>0, <2>f DEF PlanTypes
    <3> QED BY <1>0, <2>0, <2>f, <3>1 DEF PlanTypes, readVars
  <2>2. PlanFlags'  BY <1>0, <2>0, <2>f DEF PlanFlags, readVars
  <2>3. LengthBook'  BY <1>0, <2>0, <2>f DEF LengthBook, readVars
  <2>4. StatusBook'  BY <1>0, <2>0, <2>f DEF StatusBook, readVars
  <2>5. OldContent'
    <3>1. \A n \in BaseNames : accepted'[n] <= touches + 1  BY <1>0, <2>0, <2>e DEF OldContent
    <3> QED BY <1>0, <2>f, <3>1 DEF OldContent, readVars
  <2>6. CopyBook'  BY <1>0, <2>0, <2>f DEF CopyBook, readVars
  <2>7. PairBook'
    <3>1. hadBoth \subseteq hadBoth' /\ <<accepted', candidate'>> \in hadBoth'  BY <2>f
    <3> QED BY <1>0, <2>f, <3>1 DEF PairBook, readVars
  <2>8. StaleBook'  BY <1>0, <2>0, <2>f DEF StaleBook, readVars
  <2>9. TodoBook'
    <3>1. \A n : Prepared(n)' = Prepared(n)  BY <2>f DEF Prepared, readVars
    <3>2. PlanOps' = PlanOps  BY <3>1 DEF PlanOps
    <3>3. ASSUME NEW k \in 1..l, k # 1 PROVE k - 1 \in 1..Len(todo') /\ todo'[k - 1] = todo[k]
          BY <2>c, <3>3
    <3>4. ASSUME ~disturbed, NEW n \in BaseNames, accepted'[n] # Prepared(n)
          PROVE  \E k \in 1..Len(todo') : todo'[k].name = n
      <4>1. n # o.name /\ accepted[n] # Prepared(n)  BY <2>0, <3>4
      <4>2. PICK k \in 1..l : todo[k].name = n  BY <1>0, <2>b, <2>f, <3>4, <4>1 DEF TodoBook
      <4>3. k # 1  BY <2>c, <4>1, <4>2
      <4> QED BY <3>3, <4>2, <4>3
    <3>5. ASSUME ~disturbed, goFiles' # "built" PROVE \E k \in 1..Len(todo') : todo'[k].op = "go"
      <4>1. o.op # "go" /\ goFiles # "built"  BY <2>f, <3>5
      <4>2. PICK k \in 1..l : todo[k].op = "go"  BY <1>0, <2>b, <2>f, <3>5, <4>1 DEF TodoBook
      <4>3. k # 1  BY <2>c, <4>1, <4>2
      <4> QED BY <3>3, <4>2, <4>3
    <3>6. ASSUME ~disturbed, reports' # "built"
          PROVE  \E k \in 1..Len(todo') : todo'[k].op = "reports"
      <4>1. o.op # "reports" /\ reports # "built"  BY <2>f, <3>6
      <4>2. PICK k \in 1..l : todo[k].op = "reports"  BY <1>0, <2>b, <2>f, <3>6, <4>1 DEF TodoBook
      <4>3. k # 1  BY <2>c, <4>1, <4>2
      <4> QED BY <3>3, <4>2, <4>3
    <3> QED BY <2>c, <2>f, <3>1, <3>2, <3>4, <3>5, <3>6 DEF TodoBook
  <2>10. AppliedExactly'  BY <1>0, <2>0, <2>f DEF AppliedExactly, readVars
  <2> QED BY <2>1, <2>2, <2>3, <2>4, <2>5, <2>6, <2>7, <2>8, <2>9, <2>10 DEF PlanIInv
<1>11. CASE OperateFails
  <2>1. PlanTypes'
      BY <1>0, <1>11 DEF OperateFails, PlanTypes
  <2>2. PlanFlags'
      BY <1>0, <1>11 DEF OperateFails, PlanFlags, ScanSteps
  <2>3. LengthBook'
      BY <1>0, <1>11 DEF OperateFails, LengthBook
  <2>4. StatusBook'
      BY <1>0, <1>11 DEF OperateFails, StatusBook, PlanFlags, ScanSteps
  <2>5. OldContent'
      BY <1>0, <1>11 DEF OperateFails, OldContent
  <2>6. CopyBook'
      BY <1>0, <1>11 DEF OperateFails, CopyBook, StillB, StillC
  <2>7. PairBook'
    <3>1. /\ accepted' = accepted /\ candidate' = candidate /\ hadBoth' = hadBoth
          /\ copyB' = copyB /\ copyC' = copyC /\ status = "ready" /\ plpc' \in {"over", "apply"}
          BY <1>0, <1>11 DEF OperateFails, Scanned, StatusBook, outVars, envVars, readVars
    <3> QED BY <1>0, <3>1 DEF PairBook
  <2>8. StaleBook'
      BY <1>0, <1>11 DEF OperateFails, StaleBook, GoneB, StillB
  <2>9. TodoBook'  BY <1>11 DEF OperateFails, TodoBook
  <2>10. AppliedExactly'
    <3>1. \A n : Prepared(n)' = Prepared(n)  BY <1>11 DEF OperateFails, Prepared, readVars, planVars
    <3>2. PlanOps' = PlanOps  BY <3>1 DEF PlanOps
    <3> QED BY <1>0, <1>11, <3>1, <3>2 DEF OperateFails, AppliedExactly, StatusBook, outVars, envVars, planRest, planVars
  <2> QED BY <2>1, <2>2, <2>3, <2>4, <2>5, <2>6, <2>7, <2>8, <2>9, <2>10 DEF PlanIInv
<1>12. CASE Applied
  <2>1. PlanTypes'
      BY <1>0, <1>12 DEF Applied, PlanTypes
  <2>2. PlanFlags'
      BY <1>0, <1>12 DEF Applied, PlanFlags, ScanSteps
  <2>3. LengthBook'
      BY <1>0, <1>12 DEF Applied, LengthBook
  <2>4. StatusBook'
      BY <1>0, <1>12 DEF Applied, StatusBook, PlanFlags, ScanSteps
  <2>5. OldContent'
      BY <1>0, <1>12 DEF Applied, OldContent
  <2>6. CopyBook'
      BY <1>0, <1>12 DEF Applied, CopyBook, StillB, StillC
  <2>7. PairBook'
    <3>1. /\ accepted' = accepted /\ candidate' = candidate /\ hadBoth' = hadBoth
          /\ copyB' = copyB /\ copyC' = copyC /\ status = "ready" /\ plpc' \in {"over", "apply"}
          BY <1>0, <1>12 DEF Applied, Scanned, StatusBook, outVars, envVars, readVars
    <3> QED BY <1>0, <3>1 DEF PairBook
  <2>8. StaleBook'
      BY <1>0, <1>12 DEF Applied, StaleBook, GoneB, StillB
  <2>9. TodoBook'  BY <1>12 DEF Applied, TodoBook
  <2>10. AppliedExactly'
    <3>1. \A n : Prepared(n)' = Prepared(n)  BY <1>12 DEF Applied, Prepared, readVars
    <3>2. \A k \in 1..Len(todo) : FALSE  BY <1>12, EmptySeq DEF Applied
    <3> QED BY <1>0, <1>12, <3>1, <3>2 DEF Applied, AppliedExactly, TodoBook, PlanFlags, outVars
  <2> QED BY <2>1, <2>2, <2>3, <2>4, <2>5, <2>6, <2>7, <2>8, <2>9, <2>10 DEF PlanIInv
<1>13. CASE UNCHANGED planVars
  <2>1. PlanTypes'
      BY <1>0, <1>13 DEF planVars, PlanTypes
  <2>2. PlanFlags'
      BY <1>0, <1>13 DEF planVars, PlanFlags, ScanSteps
  <2>3. LengthBook'
      BY <1>0, <1>13 DEF planVars, LengthBook
  <2>4. StatusBook'
      BY <1>0, <1>13 DEF planVars, StatusBook, PlanFlags, ScanSteps
  <2>5. OldContent'
      BY <1>0, <1>13 DEF planVars, OldContent
  <2>6. CopyBook'
      BY <1>0, <1>13 DEF planVars, CopyBook, StillB, StillC
  <2>7. PairBook'
      BY <1>0, <1>13 DEF planVars, PairBook, GoneB, GoneC, StillB, StillC
  <2>8. StaleBook'
      BY <1>0, <1>13 DEF planVars, StaleBook, GoneB, StillB
  <2>9. TodoBook'
    <3>1. \A n : Prepared(n)' = Prepared(n)  BY <1>13 DEF Prepared, readVars, planVars
    <3>2. PlanOps' = PlanOps  BY <3>1 DEF PlanOps
    <3> QED BY <1>0, <1>13, <3>1, <3>2 DEF TodoBook, outVars, envVars, planRest, planVars
  <2>10. AppliedExactly'
    <3>1. \A n : Prepared(n)' = Prepared(n)  BY <1>13 DEF Prepared, readVars, planVars
    <3>2. PlanOps' = PlanOps  BY <3>1 DEF PlanOps
    <3> QED BY <1>0, <1>13, <3>1, <3>2 DEF AppliedExactly, StatusBook, outVars, envVars, planRest, planVars
  <2> QED BY <2>1, <2>2, <2>3, <2>4, <2>5, <2>6, <2>7, <2>8, <2>9, <2>10 DEF PlanIInv
<1> QED BY <1>1, <1>2, <1>3, <1>4, <1>5, <1>6, <1>7, <1>8, <1>9, <1>10, <1>11,
   <1>12, <1>13 DEF PlanNext

\* A plan that is ready was made from one state of its inputs; an application changes
\* nothing when that state is gone, and makes the baseline exactly the planned one when
\* it succeeds undisturbed: for any number of edits and of applications (planCandidate,
\* PlanResult.Apply).
THEOREM UpgradeIsSound == PlanSpec => []UpgradeSound
<1>1. PlanInit => PlanIInv
  <2> SUFFICES ASSUME PlanInit PROVE PlanIInv
      OBVIOUS
  <2> USE PlanAssumption
  <2>1. <<>> \in Seq(Content) /\ Len(<<>>) = 0 /\ 0 \in Content /\ 1 \in Content
        BY EmptySeq DEF Content
  <2>2. /\ accepted \in [BaseNames -> Content] /\ candidate \in [CandNames -> Content]
        /\ \A n \in BaseNames : accepted[n] <= 1 /\ \A m \in CandNames : candidate[m] <= 1
        BY <2>1 DEF PlanInit, NoFile, CandNames
  <2>3. PlanTypes
    <3>1. hadBoth \subseteq [BaseNames -> Content] \X [CandNames -> Content]  BY <2>2 DEF PlanInit
    <3>2. touches \in 0..MaxTouches /\ applies \in 0..MaxApplies  BY DEF PlanInit
    <3> QED BY <2>1, <2>2, <3>1, <3>2 DEF PlanInit, PlanTypes
  <2>4. PlanFlags /\ LengthBook /\ StatusBook
        BY <2>1 DEF PlanInit, PlanFlags, LengthBook, StatusBook, ScanSteps
  <2>5. OldContent  BY <2>1, <2>2, BaseNamesAre DEF PlanInit, OldContent
  <2>6. CopyBook /\ StaleBook /\ TodoBook /\ AppliedExactly
        BY DEF PlanInit, CopyBook, StaleBook, TodoBook, AppliedExactly
  <2>7. PairBook  BY DEF PlanInit, PairBook
  <2> QED BY <2>3, <2>4, <2>5, <2>6, <2>7 DEF PlanIInv
<1>2. PlanIInv => UpgradeSound
  <2> SUFFICES ASSUME PlanIInv PROVE UpgradeSound
      OBVIOUS
  <2>1. PlanTypeOK  BY DEF PlanIInv, PlanTypes, PlanFlags, PlanTypeOK, CandNames
  <2>2. PlanIsWhole
    <3> SUFFICES ASSUME plpc = "over", status \in {"ready", "semantic_unresolved", "applied"}
                 PROVE  <<AsDir(copyB, BaseOrder), AsDir(copyC, CandOrder)>> \in hadBoth
        BY DEF PlanIsWhole
    <3>1. PICK p \in hadBoth : /\ \A i \in 1..5 : p[1][BaseOrder[i]] = copyB[i]
                               /\ \A i \in 1..2 : p[2][CandOrder[i]] = copyC[i]
          BY DEF PlanIInv, PairBook
    <3>2. p = <<p[1], p[2]>> /\ p[1] \in [BaseNames -> Content] /\ p[2] \in [CandNames -> Content]
          BY DEF PlanIInv, PlanTypes
    <3>3. AsDir(copyB, BaseOrder) = p[1] /\ AsDir(copyC, CandOrder) = p[2]
          BY <3>1, <3>2, ScannedDirs
    <3> QED BY <3>1, <3>2, <3>3
  <2>3. StaleChangesNothing  BY DEF PlanIInv, StaleBook, StaleChangesNothing
  <2> QED BY <2>1, <2>2, <2>3 DEF PlanIInv, UpgradeSound
<1> QED BY <1>1, <1>2, PlanStep, PTL DEF PlanSpec

-----------------------------------------------------------------------------
(* llmstep.Run. What is said of the attempts when Run is over is kept      *)
(* while it goes on: of the attempts of the iterations before (PastBook),  *)
(* of the one under way (AttemptBook), and of the last one (OverBook). A   *)
(* cancelled context lets nothing begin from where a callback or a call    *)
(* has just come back (CancelBook).                                        *)

StepTypes ==
  /\ iter \in Iters /\ repair \in 0..MaxIter
  /\ attempt \in Attempts /\ attempts \in Seq(Attempts) /\ answers \subseteq 1..iter
  /\ Len(attempts) = IF stage = "over" THEN iter ELSE iter - 1
  /\ begun \in {0, 1}

StepFlags ==
  /\ stage \in {"begin", "top", "rendering", "rendered", "start", "running", "closing",
                "called", "decode", "judging", "judged", "projecting", "over"}
  /\ output \in BOOLEAN /\ why \in Stages \cup {"nil", "exhausted"}
  /\ stop \in BOOLEAN /\ turnRun \in {"none", "live", "ended"}
  /\ turnRun = "live" => stage \in {"running", "closing"}
  /\ stage # "over" => ~output /\ why = "nil"

\* The attempts of the iterations before this one.
PastBook ==
  /\ \A k \in 1..(iter - 1) :
       /\ attempts[k].judgment = "rejected" /\ attempts[k].err = "nil"
       /\ attempts[k].next \in {0, k}
       /\ (attempts[k].call # "none") = (k \in answers)
  /\ \A k \in 1..(iter - 2) : attempts[k + 1].repair = attempts[k].next
  /\ repair = IF iter = 1 THEN 0 ELSE attempts[iter - 1].next

\* The attempt under way.
AttemptBook ==
  /\ stage \in {"begin", "top"} => iter \notin answers
  /\ stage \notin {"begin", "top", "over"} =>
       /\ attempt.repair = repair /\ attempt.err = "nil"
       /\ (attempt.call # "none") = (iter \in answers)
  /\ stage \in {"rendering", "rendered", "start", "running", "closing", "called", "decode", "judging"} =>
       attempt.judgment = "none"
  /\ stage = "decode" => attempt.call = "response"
  /\ stage = "projecting" => attempt.judgment = "rejected" /\ iter < MaxIter
  /\ stage = "judged" => attempt.judgment \in {"accepted", "rejected"}

\* The last attempt.
OverBook ==
  stage = "over" =>
    /\ attempts[iter].repair = repair
    /\ (attempts[iter].call # "none") = (iter \in answers)
    /\ output = (attempts[iter].judgment = "accepted" /\ attempts[iter].err = "nil")
    /\ output = (why = "nil")

CancelBook ==
  begun = 1 => stop /\ stage \in {"top", "rendered", "running", "closing", "called", "judged", "over"}

StepIInv == StepTypes /\ StepFlags /\ PastBook /\ AttemptBook /\ OverBook /\ CancelBook

-----------------------------------------------------------------------------
\* An attempt is an attempt whatever is noted of it.
LEMMA AttemptNoted ==
  ASSUME NEW a \in Attempts
  PROVE  /\ \A s \in Stages : [a EXCEPT !.err = s] \in Attempts
         /\ \A c \in {"response", "value"} : [a EXCEPT !.call = c] \in Attempts
         /\ \A j \in {"accepted", "rejected"} : [a EXCEPT !.judgment = j] \in Attempts
         /\ \A n \in 0..MaxIter : [a EXCEPT !.next = n] \in Attempts
BY DEF Attempts

\* An attempt is appended to those before it.
LEMMA AttemptKept ==
  ASSUME StepIInv, stage # "over", NEW x \in Attempts, attempts' = Append(attempts, x)
  PROVE  /\ attempts' \in Seq(Attempts) /\ Len(attempts') = iter /\ attempts'[iter] = x
         /\ \A k \in 1..(iter - 1) : attempts'[k] = attempts[k]
<1>1. PICK i \in Nat : i = iter /\ i > 0  BY IterAssumption DEF StepIInv, StepTypes, Iters
<1>2. attempts \in Seq(Attempts) /\ Len(attempts) = i - 1  BY <1>1 DEF StepIInv, StepTypes
<1> QED BY <1>1, <1>2, AppendProperties

\* Run is over with an attempt that is the evidence of the last iteration.
LEMMA AttemptEnds ==
  ASSUME StepIInv, stage # "over", NEW x \in Attempts, x.repair = repair,
         stage' = "over", attempts' = Append(attempts, x), attempt' \in Attempts,
         iter' = iter, repair' = repair,
         answers' \subseteq 1..iter, \A k \in 1..(iter - 1) : (k \in answers') = (k \in answers),
         (x.call # "none") = (iter \in answers'),
         output' \in BOOLEAN, output' = (x.judgment = "accepted" /\ x.err = "nil"),
         output' = (why' = "nil"), why' \in Stages \cup {"nil", "exhausted"},
         stop' = stop, turnRun' \in {"none", "ended"}, begun' \in {0, 1}, begun' = 1 => stop
  PROVE  StepIInv'
<1>1. PICK i \in Nat : i = iter /\ i > 0 /\ i \in Iters  BY IterAssumption DEF StepIInv, StepTypes, Iters
<1>2. /\ attempts' \in Seq(Attempts) /\ Len(attempts') = i /\ attempts'[i] = x
      /\ \A k \in 1..(i - 1) : attempts'[k] = attempts[k]
      BY <1>1, AttemptKept
<1>3. StepTypes'  BY <1>1, <1>2 DEF StepIInv, StepTypes
<1>4. StepFlags'  BY DEF StepIInv, StepFlags
<1>5. PastBook'
  <2>1. \A k \in 1..(i - 1) : /\ attempts'[k].judgment = "rejected" /\ attempts'[k].err = "nil"
                              /\ attempts'[k].next \in {0, k}
                              /\ (attempts'[k].call # "none") = (k \in answers')
    <3>1. \A k \in 1..(i - 1) : /\ attempts[k].judgment = "rejected" /\ attempts[k].err = "nil"
                                /\ attempts[k].next \in {0, k}
                                /\ (attempts[k].call # "none") = (k \in answers)
      BY <1>1 DEF StepIInv, PastBook
    <3>2. \A k \in 1..(i - 1) : attempts'[k] = attempts[k] /\ (k \in answers') = (k \in answers)
      BY <1>1, <1>2
    <3> QED BY <3>1, <3>2
  <2>2. \A k \in 1..(i - 2) : attempts'[k + 1].repair = attempts'[k].next
    <3> SUFFICES ASSUME NEW k \in 1..(i - 2) PROVE attempts'[k + 1].repair = attempts'[k].next
        OBVIOUS
    <3>1. k \in 1..(i - 1) /\ k + 1 \in 1..(i - 1)  OBVIOUS
    <3> QED BY <1>1, <1>2, <3>1 DEF StepIInv, PastBook
  <2>3. repair = IF i = 1 THEN 0 ELSE attempts'[i - 1].next
    <3>1. i # 1 => i - 1 \in 1..(i - 1)  BY <1>1
    <3> QED BY <1>1, <1>2, <3>1 DEF StepIInv, PastBook
  <2> QED BY <1>1, <2>1, <2>2, <2>3 DEF PastBook
<1>6. AttemptBook' /\ CancelBook'  BY DEF AttemptBook, CancelBook
<1>7. OverBook'  BY <1>1, <1>2 DEF OverBook
<1> QED BY <1>3, <1>4, <1>5, <1>6, <1>7 DEF StepIInv

\* The same when Run fails in a stage.
LEMMA FailEnds ==
  ASSUME StepIInv, stage # "over", NEW s \in Stages, NEW a \in Attempts, a.repair = repair,
         Fail(s, a), iter' = iter, repair' = repair, output' = output,
         answers' \subseteq 1..iter, \A k \in 1..(iter - 1) : (k \in answers') = (k \in answers),
         (a.call # "none") = (iter \in answers'),
         stop' = stop, turnRun' \in {"none", "ended"}, begun' \in {0, 1}, begun' = 1 => stop
  PROVE  StepIInv'
<1>1. PICK x \in Attempts : x = [a EXCEPT !.err = s]  BY AttemptNoted
<1>2. x.repair = a.repair /\ x.call = a.call /\ x.err = s  BY <1>1 DEF Attempts
<1>3. stage' = "over" /\ attempts' = Append(attempts, x) /\ attempt' = x /\ why' = s
      BY <1>1 DEF Fail
<1>4. s # "nil"  BY DEF Stages
<1>5. output' = FALSE  BY DEF StepIInv, StepFlags
<1>6. /\ output' \in BOOLEAN /\ output' = (x.judgment = "accepted" /\ x.err = "nil")
      /\ output' = (why' = "nil") /\ why' \in Stages \cup {"nil", "exhausted"}
      BY <1>2, <1>3, <1>4, <1>5
<1>7. x.repair = repair /\ (x.call # "none") = (iter \in answers')  BY <1>2
<1> QED BY <1>3, <1>6, <1>7, AttemptEnds

\* Run goes on with the same iteration.
LEMMA AttemptGoes ==
  ASSUME StepIInv, stage # "over", stage' # "over", attempts' = attempts, attempt' \in Attempts,
         iter' = iter, repair' = repair,
         answers' \subseteq 1..iter, \A k \in 1..(iter - 1) : (k \in answers') = (k \in answers),
         begun' \in {0, 1}
  PROVE  StepTypes' /\ PastBook' /\ OverBook'
<1>1. StepTypes'  BY DEF StepIInv, StepTypes
<1>2. PastBook'  BY DEF StepIInv, PastBook
<1>3. OverBook'  BY DEF OverBook
<1> QED BY <1>1, <1>2, <1>3

\* Every step of Run and every cancellation keeps the invariant.
LEMMA RunStep == StepIInv /\ [StepNext]_stepVars => StepIInv'
<1> SUFFICES ASSUME StepIInv, [StepNext]_stepVars PROVE StepIInv'
    OBVIOUS
<1>a. StepTypes /\ StepFlags /\ PastBook /\ AttemptBook /\ OverBook /\ CancelBook  BY DEF StepIInv
<1>b. /\ iter \in Iters /\ iter \in Nat /\ iter > 0 /\ attempt \in Attempts /\ answers \subseteq 1..iter
      /\ begun \in {0, 1} /\ repair \in 0..MaxIter
      BY <1>a, IterAssumption DEF StepTypes, Iters
<1>c. /\ \A r \in 0..MaxIter : NewAttempt(r) \in Attempts
      /\ \A r \in 0..MaxIter : /\ NewAttempt(r).repair = r /\ NewAttempt(r).call = "none"
                               /\ NewAttempt(r).err = "nil" /\ NewAttempt(r).judgment = "none"
      BY IterAssumption DEF NewAttempt, Attempts
<1>d. Begins /\ (stop => stage \in {"rendering", "start", "judging", "projecting"})
        => begun' \in {0, 1} /\ (begun' = 1 => stop)
      BY <1>a, <1>b DEF Begins, CancelBook
<1>e. begun = 1 => stop  BY <1>a DEF CancelBook
<1>f. Stages = {"render", "call", "decode", "validate", "project_repair"}  BY DEF Stages
<1>1. CASE BeginStep
  <2>0. stage = "begin" /\ begun' \in {0, 1} /\ (begun' = 1 => stop)
        BY <1>b, <1>e, <1>1 DEF BeginStep
  <2>1. CASE BeginStep
    <3>1. attempt' \in Attempts  BY <1>b, <1>1 DEF BeginStep
    <3>2. /\ attempts' = attempts /\ iter' = iter /\ repair' = repair /\ stage' # "over"
          /\ answers' \subseteq 1..iter /\ \A k \in 1..(iter - 1) : (k \in answers') = (k \in answers)
          BY <1>b, <1>1, <2>0, <2>1 DEF BeginStep, Proceeds
    <3>3. StepTypes' /\ PastBook' /\ OverBook'  BY <2>0, <3>1, <3>2, AttemptGoes
    <3>4. StepFlags'  BY <1>a, <1>1, <2>1 DEF BeginStep, Proceeds, StepFlags
    <3>5. AttemptBook'  BY <1>a, <1>b, <1>c, <1>1, <2>1 DEF BeginStep, Proceeds, AttemptBook, Attempts
    <3>6. CancelBook'  BY <1>a, <1>1, <2>0, <2>1 DEF BeginStep, Proceeds, CancelBook
    <3> QED BY <3>3, <3>4, <3>5, <3>6 DEF StepIInv
  <2> QED BY <1>1, <2>1
<1>2. CASE CancelStep
  <2>0. stage \notin {"begin", "over"} /\ stop' = TRUE /\ begun' \in {0, 1}
        BY <1>b, <1>2 DEF CancelStep
  <2>1. CASE CancelStep
    <3>1. attempt' \in Attempts  BY <1>b, <1>2 DEF CancelStep
    <3>2. /\ attempts' = attempts /\ iter' = iter /\ repair' = repair /\ stage' # "over"
          /\ answers' \subseteq 1..iter /\ \A k \in 1..(iter - 1) : (k \in answers') = (k \in answers)
          BY <1>b, <1>2, <2>0, <2>1 DEF CancelStep, Proceeds
    <3>3. StepTypes' /\ PastBook' /\ OverBook'  BY <2>0, <3>1, <3>2, AttemptGoes
    <3>4. StepFlags'  BY <1>a, <1>2, <2>1 DEF CancelStep, Proceeds, StepFlags
    <3>5. AttemptBook'  BY <1>a, <1>b, <1>c, <1>2, <2>1 DEF CancelStep, Proceeds, AttemptBook, Attempts
    <3>6. CancelBook'  BY <1>a, <1>2, <2>0, <2>1 DEF CancelStep, Proceeds, CancelBook
    <3> QED BY <3>3, <3>4, <3>5, <3>6 DEF StepIInv
  <2> QED BY <1>2, <2>1
<1>3. CASE Top
  <2>0. stage = "top" /\ begun' \in {0, 1} /\ (begun' = 1 => stop)
        BY <1>b, <1>e, <1>3 DEF Top
  <2>1. CASE stop /\ Fail("render", NewAttempt(repair))
    <3>1. NewAttempt(repair) \in Attempts /\ NewAttempt(repair).repair = repair /\ NewAttempt(repair).call = "none"
          BY <1>b, <1>c
    <3>2. turnRun' \in {"none", "ended"}  BY <1>a, <1>3, <2>0, <2>1 DEF StepFlags, Top, CallFails
    <3>3. iter' = iter /\ repair' = repair /\ output' = output /\ stop' = stop /\ Fail("render", NewAttempt(repair))
          BY <1>3, <2>1 DEF Top, CallFails
    <3>4. /\ answers' \subseteq 1..iter /\ \A k \in 1..(iter - 1) : (k \in answers') = (k \in answers)
          /\ (NewAttempt(repair).call # "none") = (iter \in answers')
          BY <1>a, <1>b, <1>3, <2>0, <2>1, <3>1 DEF Top, CallFails, AttemptBook
    <3> QED BY <1>f, <2>0, <3>1, <3>2, <3>3, <3>4, FailEnds
  <2>2. CASE ~stop /\ Proceeds("rendering", NewAttempt(repair))
    <3>1. attempt' \in Attempts  BY <1>b, <1>c, <2>2 DEF Proceeds
    <3>2. /\ attempts' = attempts /\ iter' = iter /\ repair' = repair /\ stage' # "over"
          /\ answers' \subseteq 1..iter /\ \A k \in 1..(iter - 1) : (k \in answers') = (k \in answers)
          BY <1>b, <1>3, <2>0, <2>2 DEF Top, Proceeds
    <3>3. StepTypes' /\ PastBook' /\ OverBook'  BY <2>0, <3>1, <3>2, AttemptGoes
    <3>4. StepFlags'  BY <1>a, <1>3, <2>2 DEF Top, Proceeds, StepFlags
    <3>5. AttemptBook'  BY <1>a, <1>b, <1>c, <1>3, <2>2 DEF Top, Proceeds, AttemptBook, Attempts
    <3>6. CancelBook'  BY <1>a, <1>3, <2>0, <2>2 DEF Top, Proceeds, CancelBook
    <3> QED BY <3>3, <3>4, <3>5, <3>6 DEF StepIInv
  <2> QED BY <1>3, <2>1, <2>2 DEF Top
<1>4. CASE Render
  <2>0. stage = "rendering" /\ begun' \in {0, 1} /\ (begun' = 1 => stop)
        BY <1>b, <1>d, <1>4 DEF Render
  <2>1. CASE Fail("render", attempt)
    <3>1. attempt \in Attempts /\ attempt.repair = repair
          BY <1>a, <1>b, <2>0 DEF AttemptBook
    <3>2. turnRun' \in {"none", "ended"}  BY <1>a, <1>4, <2>0, <2>1 DEF StepFlags, Render, CallFails
    <3>3. iter' = iter /\ repair' = repair /\ output' = output /\ stop' = stop /\ Fail("render", attempt)
          BY <1>4, <2>1 DEF Render, CallFails
    <3>4. /\ answers' \subseteq 1..iter /\ \A k \in 1..(iter - 1) : (k \in answers') = (k \in answers)
          /\ (attempt.call # "none") = (iter \in answers')
          BY <1>a, <1>b, <1>4, <2>0, <2>1, <3>1 DEF Render, CallFails, AttemptBook
    <3> QED BY <1>f, <2>0, <3>1, <3>2, <3>3, <3>4, FailEnds
  <2>2. CASE Proceeds("rendered", attempt)
    <3>1. attempt' \in Attempts  BY <1>b, <2>2 DEF Proceeds
    <3>2. /\ attempts' = attempts /\ iter' = iter /\ repair' = repair /\ stage' # "over"
          /\ answers' \subseteq 1..iter /\ \A k \in 1..(iter - 1) : (k \in answers') = (k \in answers)
          BY <1>b, <1>4, <2>0, <2>2 DEF Render, Proceeds
    <3>3. StepTypes' /\ PastBook' /\ OverBook'  BY <2>0, <3>1, <3>2, AttemptGoes
    <3>4. StepFlags'  BY <1>a, <1>4, <2>2 DEF Render, Proceeds, StepFlags
    <3>5. AttemptBook'  BY <1>a, <1>b, <1>c, <1>4, <2>2 DEF Render, Proceeds, AttemptBook, Attempts
    <3>6. CancelBook'  BY <1>a, <1>4, <2>0, <2>2 DEF Render, Proceeds, CancelBook
    <3> QED BY <3>3, <3>4, <3>5, <3>6 DEF StepIInv
  <2> QED BY <1>4, <2>1, <2>2 DEF Render
<1>5. CASE Rendered
  <2>0. stage = "rendered" /\ begun' \in {0, 1} /\ (begun' = 1 => stop)
        BY <1>b, <1>e, <1>5 DEF Rendered
  <2>1. CASE stop /\ Fail("render", attempt)
    <3>1. attempt \in Attempts /\ attempt.repair = repair
          BY <1>a, <1>b, <2>0 DEF AttemptBook
    <3>2. turnRun' \in {"none", "ended"}  BY <1>a, <1>5, <2>0, <2>1 DEF StepFlags, Rendered, CallFails
    <3>3. iter' = iter /\ repair' = repair /\ output' = output /\ stop' = stop /\ Fail("render", attempt)
          BY <1>5, <2>1 DEF Rendered, CallFails
    <3>4. /\ answers' \subseteq 1..iter /\ \A k \in 1..(iter - 1) : (k \in answers') = (k \in answers)
          /\ (attempt.call # "none") = (iter \in answers')
          BY <1>a, <1>b, <1>5, <2>0, <2>1, <3>1 DEF Rendered, CallFails, AttemptBook
    <3> QED BY <1>f, <2>0, <3>1, <3>2, <3>3, <3>4, FailEnds
  <2>2. CASE ~stop /\ Proceeds("start", attempt)
    <3>1. attempt' \in Attempts  BY <1>b, <2>2 DEF Proceeds
    <3>2. /\ attempts' = attempts /\ iter' = iter /\ repair' = repair /\ stage' # "over"
          /\ answers' \subseteq 1..iter /\ \A k \in 1..(iter - 1) : (k \in answers') = (k \in answers)
          BY <1>b, <1>5, <2>0, <2>2 DEF Rendered, Proceeds
    <3>3. StepTypes' /\ PastBook' /\ OverBook'  BY <2>0, <3>1, <3>2, AttemptGoes
    <3>4. StepFlags'  BY <1>a, <1>5, <2>2 DEF Rendered, Proceeds, StepFlags
    <3>5. AttemptBook'  BY <1>a, <1>b, <1>c, <1>5, <2>2 DEF Rendered, Proceeds, AttemptBook, Attempts
    <3>6. CancelBook'  BY <1>a, <1>5, <2>0, <2>2 DEF Rendered, Proceeds, CancelBook
    <3> QED BY <3>3, <3>4, <3>5, <3>6 DEF StepIInv
  <2> QED BY <1>5, <2>1, <2>2 DEF Rendered
<1>6. CASE StartRun
  <2>0. stage = "start" /\ begun' \in {0, 1} /\ (begun' = 1 => stop)
        BY <1>b, <1>d, <1>6 DEF StartRun
  <2>1. CASE CallFails(FALSE) /\ UNCHANGED turnRun
    <3>1. attempt \in Attempts /\ attempt.repair = repair
          BY <1>a, <1>b, <2>0 DEF AttemptBook
    <3>2. turnRun' \in {"none", "ended"}  BY <1>a, <1>6, <2>0, <2>1 DEF StepFlags, StartRun, CallFails
    <3>3. iter' = iter /\ repair' = repair /\ output' = output /\ stop' = stop /\ Fail("call", attempt)
          BY <1>6, <2>1 DEF StartRun, CallFails
    <3>4. /\ answers' \subseteq 1..iter /\ \A k \in 1..(iter - 1) : (k \in answers') = (k \in answers)
          /\ (attempt.call # "none") = (iter \in answers')
          BY <1>a, <1>b, <1>6, <2>0, <2>1, <3>1 DEF StartRun, CallFails, AttemptBook
    <3> QED BY <1>f, <2>0, <3>1, <3>2, <3>3, <3>4, FailEnds
  <2>2. CASE CallFails(TRUE) /\ UNCHANGED turnRun
    <3>1. PICK a \in Attempts : a = [attempt EXCEPT !.call = "response"]  BY <1>b, AttemptNoted
    <3>2. a.repair = repair /\ a.call = "response"  BY <1>a, <2>0, <3>1 DEF AttemptBook, Attempts
    <3>3. turnRun' \in {"none", "ended"}  BY <1>a, <1>6, <2>0, <2>2 DEF StepFlags, StartRun
    <3>4. /\ iter' = iter /\ repair' = repair /\ output' = output /\ stop' = stop /\ Fail("call", a)
          /\ answers' = answers \cup {iter}
          BY <1>6, <2>2, <3>1 DEF StartRun, CallFails
    <3>5. /\ answers' \subseteq 1..iter /\ \A k \in 1..(iter - 1) : (k \in answers') = (k \in answers)
          /\ (a.call # "none") = (iter \in answers')
          BY <1>b, <3>2, <3>4
    <3> QED BY <1>f, <2>0, <3>2, <3>3, <3>4, <3>5, FailEnds
  <2>3. CASE Proceeds("running", attempt) /\ turnRun' = "live" /\ UNCHANGED answers
    <3>1. attempt' \in Attempts  BY <1>b, <2>3 DEF Proceeds
    <3>2. /\ attempts' = attempts /\ iter' = iter /\ repair' = repair /\ stage' # "over"
          /\ answers' \subseteq 1..iter /\ \A k \in 1..(iter - 1) : (k \in answers') = (k \in answers)
          BY <1>b, <1>6, <2>0, <2>3 DEF StartRun, Proceeds
    <3>3. StepTypes' /\ PastBook' /\ OverBook'  BY <2>0, <3>1, <3>2, AttemptGoes
    <3>4. StepFlags'  BY <1>a, <1>6, <2>3 DEF StartRun, Proceeds, StepFlags
    <3>5. AttemptBook'  BY <1>a, <1>b, <1>c, <1>6, <2>3 DEF StartRun, Proceeds, AttemptBook, Attempts
    <3>6. CancelBook'  BY <1>a, <1>6, <2>0, <2>3 DEF StartRun, Proceeds, CancelBook
    <3> QED BY <3>3, <3>4, <3>5, <3>6 DEF StepIInv
  <2>4. CASE \E r \in BOOLEAN : CallFails(r) /\ UNCHANGED turnRun  BY <2>1, <2>2, <2>4
  <2> QED BY <1>6, <2>3, <2>4 DEF StartRun
<1>7. CASE RunEnds
  <2>0. stage # "over" /\ begun' \in {0, 1}  BY <1>a, <1>b, <1>7 DEF RunEnds, StepFlags
  <2>1. CASE RunEnds
    <3>1. attempt' \in Attempts  BY <1>b, <1>7 DEF RunEnds
    <3>2. /\ attempts' = attempts /\ iter' = iter /\ repair' = repair /\ stage' # "over"
          /\ answers' \subseteq 1..iter /\ \A k \in 1..(iter - 1) : (k \in answers') = (k \in answers)
          BY <1>b, <1>7, <2>0, <2>1 DEF RunEnds, Proceeds
    <3>3. StepTypes' /\ PastBook' /\ OverBook'  BY <2>0, <3>1, <3>2, AttemptGoes
    <3>4. StepFlags'  BY <1>a, <1>7, <2>1 DEF RunEnds, Proceeds, StepFlags
    <3>5. AttemptBook'  BY <1>a, <1>b, <1>c, <1>7, <2>1 DEF RunEnds, Proceeds, AttemptBook, Attempts
    <3>6. CancelBook'  BY <1>a, <1>7, <2>0, <2>1 DEF RunEnds, Proceeds, CancelBook
    <3> QED BY <3>3, <3>4, <3>5, <3>6 DEF StepIInv
  <2> QED BY <1>7, <2>1
<1>8. CASE WaitRun
  <2>0. stage = "running" /\ begun' \in {0, 1} /\ (begun' = 1 => stop)
        BY <1>b, <1>e, <1>8 DEF WaitRun
  <2>1. CASE WaitRun
    <3>1. attempt' \in Attempts  BY <1>b, <1>8 DEF WaitRun, Proceeds
    <3>2. /\ attempts' = attempts /\ iter' = iter /\ repair' = repair /\ stage' # "over"
          /\ answers' \subseteq 1..iter /\ \A k \in 1..(iter - 1) : (k \in answers') = (k \in answers)
          BY <1>b, <1>8, <2>0, <2>1 DEF WaitRun, Proceeds
    <3>3. StepTypes' /\ PastBook' /\ OverBook'  BY <2>0, <3>1, <3>2, AttemptGoes
    <3>4. StepFlags'  BY <1>a, <1>8, <2>1 DEF WaitRun, Proceeds, StepFlags
    <3>5. AttemptBook'  BY <1>a, <1>b, <1>c, <1>8, <2>1 DEF WaitRun, Proceeds, AttemptBook, Attempts
    <3>6. CancelBook'  BY <1>a, <1>8, <2>0, <2>1 DEF WaitRun, Proceeds, CancelBook
    <3> QED BY <3>3, <3>4, <3>5, <3>6 DEF StepIInv
  <2> QED BY <1>8, <2>1
<1>9. CASE CloseRun
  <2>0. stage = "closing" /\ begun' \in {0, 1} /\ (begun' = 1 => stop)
        BY <1>b, <1>e, <1>9 DEF CloseRun
  <2>1. CASE CloseRun
    <3>1. attempt' \in Attempts  BY <1>b, <1>9 DEF CloseRun, Proceeds
    <3>2. /\ attempts' = attempts /\ iter' = iter /\ repair' = repair /\ stage' # "over"
          /\ answers' \subseteq 1..iter /\ \A k \in 1..(iter - 1) : (k \in answers') = (k \in answers)
          BY <1>b, <1>9, <2>0, <2>1 DEF CloseRun, Proceeds
    <3>3. StepTypes' /\ PastBook' /\ OverBook'  BY <2>0, <3>1, <3>2, AttemptGoes
    <3>4. StepFlags'  BY <1>a, <1>9, <2>1 DEF CloseRun, Proceeds, StepFlags
    <3>5. AttemptBook'  BY <1>a, <1>b, <1>c, <1>9, <2>1 DEF CloseRun, Proceeds, AttemptBook, Attempts
    <3>6. CancelBook'  BY <1>a, <1>9, <2>0, <2>1 DEF CloseRun, Proceeds, CancelBook
    <3> QED BY <3>3, <3>4, <3>5, <3>6 DEF StepIInv
  <2> QED BY <1>9, <2>1
<1>10. CASE Called
  <2>0. stage = "called" /\ begun' \in {0, 1} /\ (begun' = 1 => stop)
        BY <1>b, <1>e, <1>10 DEF Called
  <2>1. CASE CallFails(TRUE)
    <3>1. PICK a \in Attempts : a = [attempt EXCEPT !.call = "response"]  BY <1>b, AttemptNoted
    <3>2. a.repair = repair /\ a.call = "response"  BY <1>a, <2>0, <3>1 DEF AttemptBook, Attempts
    <3>3. turnRun' \in {"none", "ended"}  BY <1>a, <1>10, <2>0, <2>1 DEF StepFlags, Called
    <3>4. /\ iter' = iter /\ repair' = repair /\ output' = output /\ stop' = stop /\ Fail("call", a)
          /\ answers' = answers \cup {iter}
          BY <1>10, <2>1, <3>1 DEF Called, CallFails
    <3>5. /\ answers' \subseteq 1..iter /\ \A k \in 1..(iter - 1) : (k \in answers') = (k \in answers)
          /\ (a.call # "none") = (iter \in answers')
          BY <1>b, <3>2, <3>4
    <3> QED BY <1>f, <2>0, <3>2, <3>3, <3>4, <3>5, FailEnds
  <2>2. CASE /\ ~stop /\ Proceeds("decode", [attempt EXCEPT !.call = "response"])
              /\ answers' = answers \cup {iter}
    <3>1. attempt' \in Attempts  BY <1>b, <2>2, AttemptNoted DEF Proceeds
    <3>2. /\ attempts' = attempts /\ iter' = iter /\ repair' = repair /\ stage' # "over"
          /\ answers' \subseteq 1..iter /\ \A k \in 1..(iter - 1) : (k \in answers') = (k \in answers)
          BY <1>b, <1>10, <2>0, <2>2 DEF Called, Proceeds
    <3>3. StepTypes' /\ PastBook' /\ OverBook'  BY <2>0, <3>1, <3>2, AttemptGoes
    <3>4. StepFlags'  BY <1>a, <1>10, <2>2 DEF Called, Proceeds, StepFlags
    <3>5. AttemptBook'  BY <1>a, <1>b, <1>c, <1>10, <2>2 DEF Called, Proceeds, AttemptBook, Attempts
    <3>6. CancelBook'  BY <1>a, <1>10, <2>0, <2>2 DEF Called, Proceeds, CancelBook
    <3> QED BY <3>3, <3>4, <3>5, <3>6 DEF StepIInv
  <2> QED BY <1>10, <2>1, <2>2 DEF Called
<1>11. CASE Decode
  <2>0. stage = "decode" /\ begun' \in {0, 1} /\ (begun' = 1 => stop)
        BY <1>b, <1>e, <1>11 DEF Decode
  <2>1. CASE Fail("decode", attempt)
    <3>1. attempt \in Attempts /\ attempt.repair = repair
          BY <1>a, <1>b, <2>0 DEF AttemptBook
    <3>2. turnRun' \in {"none", "ended"}  BY <1>a, <1>11, <2>0, <2>1 DEF StepFlags, Decode, CallFails
    <3>3. iter' = iter /\ repair' = repair /\ output' = output /\ stop' = stop /\ Fail("decode", attempt)
          BY <1>11, <2>1 DEF Decode, CallFails
    <3>4. /\ answers' \subseteq 1..iter /\ \A k \in 1..(iter - 1) : (k \in answers') = (k \in answers)
          /\ (attempt.call # "none") = (iter \in answers')
          BY <1>a, <1>b, <1>11, <2>0, <2>1, <3>1 DEF Decode, CallFails, AttemptBook
    <3> QED BY <1>f, <2>0, <3>1, <3>2, <3>3, <3>4, FailEnds
  <2>2. CASE Proceeds("judging", [attempt EXCEPT !.call = "value"])
    <3>1. attempt' \in Attempts  BY <1>b, <2>2, AttemptNoted DEF Proceeds
    <3>2. /\ attempts' = attempts /\ iter' = iter /\ repair' = repair /\ stage' # "over"
          /\ answers' \subseteq 1..iter /\ \A k \in 1..(iter - 1) : (k \in answers') = (k \in answers)
          BY <1>b, <1>11, <2>0, <2>2 DEF Decode, Proceeds
    <3>3. StepTypes' /\ PastBook' /\ OverBook'  BY <2>0, <3>1, <3>2, AttemptGoes
    <3>4. StepFlags'  BY <1>a, <1>11, <2>2 DEF Decode, Proceeds, StepFlags
    <3>5. AttemptBook'  BY <1>a, <1>b, <1>c, <1>11, <2>2 DEF Decode, Proceeds, AttemptBook, Attempts
    <3>6. CancelBook'  BY <1>a, <1>11, <2>0, <2>2 DEF Decode, Proceeds, CancelBook
    <3> QED BY <3>3, <3>4, <3>5, <3>6 DEF StepIInv
  <2> QED BY <1>11, <2>1, <2>2 DEF Decode
<1>12. CASE Validate
  <2>0. stage = "judging" /\ begun' \in {0, 1} /\ (begun' = 1 => stop)
        BY <1>b, <1>d, <1>12 DEF Validate
  <2>1. PICK j \in {"accepted", "rejected"} :
          \/ Fail("validate", [attempt EXCEPT !.judgment = j])
          \/ Proceeds("judged", [attempt EXCEPT !.judgment = j])
        BY <1>12 DEF Validate
  <2>2. PICK a \in Attempts : a = [attempt EXCEPT !.judgment = j]  BY <1>b, AttemptNoted
  <2>3. a.repair = repair /\ a.call = attempt.call /\ a.err = attempt.err /\ a.judgment = j
        BY <1>a, <1>b, <2>0, <2>2 DEF AttemptBook, Attempts
  <2>4. CASE Fail("validate", a)
    <3>1. a \in Attempts /\ a.repair = repair
          BY <2>3
    <3>2. turnRun' \in {"none", "ended"}  BY <1>a, <1>12, <2>0, <2>4 DEF StepFlags, Validate, CallFails
    <3>3. iter' = iter /\ repair' = repair /\ output' = output /\ stop' = stop /\ Fail("validate", a)
          BY <1>12, <2>4 DEF Validate, CallFails
    <3>4. /\ answers' \subseteq 1..iter /\ \A k \in 1..(iter - 1) : (k \in answers') = (k \in answers)
          /\ (a.call # "none") = (iter \in answers')
          BY <1>a, <1>b, <1>12, <2>0, <2>3, <2>4, <3>1 DEF Validate, AttemptBook
    <3> QED BY <1>f, <2>0, <3>1, <3>2, <3>3, <3>4, FailEnds
  <2>5. CASE Proceeds("judged", a)
    <3>1. attempt' \in Attempts  BY <2>5 DEF Proceeds
    <3>2. /\ attempts' = attempts /\ iter' = iter /\ repair' = repair /\ stage' # "over"
          /\ answers' \subseteq 1..iter /\ \A k \in 1..(iter - 1) : (k \in answers') = (k \in answers)
          BY <1>b, <1>12, <2>0, <2>5 DEF Validate, Proceeds
    <3>3. StepTypes' /\ PastBook' /\ OverBook'  BY <2>0, <3>1, <3>2, AttemptGoes
    <3>4. StepFlags'  BY <1>a, <1>12, <2>5 DEF Validate, Proceeds, StepFlags
    <3>5. AttemptBook'  BY <1>a, <1>b, <1>c, <1>12, <2>0, <2>3, <2>5 DEF Validate, Proceeds, AttemptBook, Attempts
    <3>6. CancelBook'  BY <1>a, <1>12, <2>0, <2>5 DEF Validate, Proceeds, CancelBook
    <3> QED BY <3>3, <3>4, <3>5, <3>6 DEF StepIInv
  <2> QED BY <2>1, <2>2, <2>4, <2>5
<1>13. CASE Judged
  <2>0. stage = "judged" /\ begun' \in {0, 1} /\ (begun' = 1 => stop)
        BY <1>b, <1>e, <1>13 DEF Judged, JudgedBefore
  <2>1. CASE stop /\ Fail("validate", attempt) /\ UNCHANGED output
    <3>1. attempt \in Attempts /\ attempt.repair = repair
          BY <1>a, <1>b, <2>0 DEF AttemptBook
    <3>2. turnRun' \in {"none", "ended"}  BY <1>a, <1>13, <2>0, <2>1 DEF StepFlags, Judged, JudgedBefore, CallFails
    <3>3. iter' = iter /\ repair' = repair /\ output' = output /\ stop' = stop /\ Fail("validate", attempt)
          BY <1>13, <2>1 DEF Judged, JudgedBefore, CallFails
    <3>4. /\ answers' \subseteq 1..iter /\ \A k \in 1..(iter - 1) : (k \in answers') = (k \in answers)
          /\ (attempt.call # "none") = (iter \in answers')
          BY <1>a, <1>b, <1>13, <2>0, <2>1, <3>1 DEF Judged, JudgedBefore, CallFails, AttemptBook
    <3> QED BY <1>f, <2>0, <3>1, <3>2, <3>3, <3>4, FailEnds
  <2>2. CASE /\ ~stop /\ attempt.judgment = "accepted" /\ output' = TRUE
             /\ stage' = "over" /\ attempts' = Append(attempts, attempt) /\ UNCHANGED <<attempt, why>>
    <3>1. UNCHANGED <<iter, repair, stop, turnRun, answers>>  BY <1>13 DEF Judged, JudgedBefore
    <3>2. why = "nil" /\ turnRun \in {"none", "ended"}  BY <1>a, <2>0 DEF StepFlags
    <3>3. attempt.repair = repair /\ attempt.err = "nil" /\ (attempt.call # "none") = (iter \in answers)
          BY <1>a, <2>0 DEF AttemptBook
    <3> QED BY <1>b, <2>0, <2>2, <3>1, <3>2, <3>3, AttemptEnds
  <2>3. CASE /\ ~stop /\ attempt.judgment = "rejected" /\ stage' = "over" /\ why' = "exhausted"
             /\ attempts' = Append(attempts, attempt) /\ UNCHANGED <<attempt, output>>
    <3>1. UNCHANGED <<iter, repair, stop, turnRun, answers>>  BY <1>13 DEF Judged, JudgedBefore
    <3>2. output = FALSE /\ turnRun \in {"none", "ended"}  BY <1>a, <2>0 DEF StepFlags
    <3>3. attempt.repair = repair /\ attempt.err = "nil" /\ (attempt.call # "none") = (iter \in answers)
          BY <1>a, <2>0 DEF AttemptBook
    <3>4. /\ output' \in BOOLEAN /\ output' = (attempt.judgment = "accepted" /\ attempt.err = "nil")
          /\ output' = (why' = "nil")
          BY <2>3, <3>2
    <3> QED BY <1>b, <2>0, <2>3, <3>1, <3>2, <3>3, <3>4, AttemptEnds
  <2>4. CASE /\ ~stop /\ attempt.judgment = "rejected" /\ iter < MaxIter
             /\ Proceeds("projecting", attempt) /\ UNCHANGED output
    <3>1. attempt' \in Attempts  BY <1>b, <2>4 DEF Proceeds
    <3>2. /\ attempts' = attempts /\ iter' = iter /\ repair' = repair /\ stage' # "over"
          /\ answers' \subseteq 1..iter /\ \A k \in 1..(iter - 1) : (k \in answers') = (k \in answers)
          BY <1>b, <1>13, <2>0, <2>4 DEF Judged, JudgedBefore, Proceeds
    <3>3. StepTypes' /\ PastBook' /\ OverBook'  BY <2>0, <3>1, <3>2, AttemptGoes
    <3>4. StepFlags'  BY <1>a, <1>13, <2>4 DEF Judged, JudgedBefore, Proceeds, StepFlags
    <3>5. AttemptBook'  BY <1>a, <1>b, <1>c, <1>13, <2>4 DEF Judged, JudgedBefore, Proceeds, AttemptBook, Attempts
    <3>6. CancelBook'  BY <1>a, <1>13, <2>0, <2>4 DEF Judged, JudgedBefore, Proceeds, CancelBook
    <3> QED BY <3>3, <3>4, <3>5, <3>6 DEF StepIInv
  <2> QED BY <1>13, <2>1, <2>2, <2>3, <2>4 DEF Judged, JudgedBefore
<1>14. CASE ProjectRepair
  <2>0. stage = "projecting" /\ begun' \in {0, 1} /\ (begun' = 1 => stop)
        BY <1>b, <1>d, <1>14 DEF ProjectRepair
  <2>1. CASE Fail("project_repair", attempt) /\ UNCHANGED <<iter, repair>>
    <3>1. attempt \in Attempts /\ attempt.repair = repair
          BY <1>a, <1>b, <2>0 DEF AttemptBook
    <3>2. turnRun' \in {"none", "ended"}  BY <1>a, <1>14, <2>0, <2>1 DEF StepFlags, ProjectRepair, CallFails
    <3>3. iter' = iter /\ repair' = repair /\ output' = output /\ stop' = stop /\ Fail("project_repair", attempt)
          BY <1>14, <2>1 DEF ProjectRepair, CallFails
    <3>4. /\ answers' \subseteq 1..iter /\ \A k \in 1..(iter - 1) : (k \in answers') = (k \in answers)
          /\ (attempt.call # "none") = (iter \in answers')
          BY <1>a, <1>b, <1>14, <2>0, <2>1, <3>1 DEF ProjectRepair, CallFails, AttemptBook
    <3> QED BY <1>f, <2>0, <3>1, <3>2, <3>3, <3>4, FailEnds
  <2>2. ASSUME NEW n \in {0, iter}, attempts' = Append(attempts, [attempt EXCEPT !.next = n]),
               repair' = n, iter' = iter + 1, stage' = "top", UNCHANGED <<attempt, why>>
        PROVE  StepIInv'
    <3>0. UNCHANGED <<output, stop, turnRun, answers>>  BY <1>14 DEF ProjectRepair
    <3>1. PICK i \in Nat : i = iter /\ i > 0 /\ i + 1 \in Iters /\ i \in 0..MaxIter
          BY <1>a, <1>b, <2>0, IterAssumption DEF AttemptBook, Iters
    <3>a. 0 \in 0..MaxIter /\ n \in {0, i}  BY <3>1, IterAssumption
    <3>b. n \in 0..MaxIter  BY <3>1, <3>a
    <3>2. PICK x \in Attempts : x = [attempt EXCEPT !.next = n]  BY <1>b, <3>b, AttemptNoted
    <3>3. /\ x.next = n /\ x.judgment = "rejected" /\ x.err = "nil" /\ x.repair = repair
          /\ (x.call # "none") = (i \in answers)
          BY <1>a, <1>b, <2>0, <3>1, <3>2 DEF AttemptBook, Attempts
    <3>4. /\ attempts' \in Seq(Attempts) /\ Len(attempts') = i /\ attempts'[i] = x
          /\ \A k \in 1..(i - 1) : attempts'[k] = attempts[k]
          BY <2>0, <2>2, <3>1, <3>2, AttemptKept
    <3>5. StepTypes'
      <4>1. answers' \subseteq 1..(i + 1)  BY <1>b, <3>0, <3>1
      <4> QED BY <1>b, <2>0, <2>2, <3>1, <3>b, <3>4, <4>1 DEF StepTypes
    <3>6. StepFlags' /\ CancelBook'  BY <1>a, <2>0, <2>2, <3>0 DEF StepFlags, CancelBook
    <3>7. PastBook'
      <4>1. \A k \in 1..i : k \in 1..(i - 1) \/ k = i  OBVIOUS
      <4>2. \A k \in 1..i : /\ attempts'[k].judgment = "rejected" /\ attempts'[k].err = "nil"
                            /\ attempts'[k].next \in {0, k}
                            /\ (attempts'[k].call # "none") = (k \in answers')
        <5> SUFFICES ASSUME NEW k \in 1..i
                     PROVE  /\ attempts'[k].judgment = "rejected" /\ attempts'[k].err = "nil"
                            /\ attempts'[k].next \in {0, k}
                            /\ (attempts'[k].call # "none") = (k \in answers')
            OBVIOUS
        <5>1. CASE k \in 1..(i - 1)  BY <1>a, <3>0, <3>1, <3>4, <5>1 DEF PastBook
        <5>2. CASE k = i  BY <3>0, <3>1, <3>3, <3>4, <5>2
        <5> QED BY <4>1, <5>1, <5>2
      <4>3. \A k \in 1..(i - 1) : attempts'[k + 1].repair = attempts'[k].next
        <5> SUFFICES ASSUME NEW k \in 1..(i - 1) PROVE attempts'[k + 1].repair = attempts'[k].next
            OBVIOUS
        <5>1. CASE k \in 1..(i - 2)
          <6>1. k + 1 \in 1..(i - 1)  BY <5>1
          <6> QED BY <1>a, <3>1, <3>4, <5>1, <6>1 DEF PastBook
        <5>2. CASE k = i - 1
          <6>1. i # 1 /\ k + 1 = i /\ attempts'[k] = attempts[k]  BY <3>4, <5>2
          <6>2. repair = attempts[k].next  BY <1>a, <3>1, <5>2, <6>1 DEF PastBook
          <6> QED BY <3>3, <3>4, <6>1, <6>2
        <5> QED BY <5>1, <5>2
      <4>4. repair' = attempts'[i].next /\ i + 1 # 1 /\ (i + 1) - 1 = i /\ (i + 1) - 2 = i - 1
            BY <2>2, <3>1, <3>3, <3>4
      <4> QED BY <2>2, <3>1, <4>2, <4>3, <4>4 DEF PastBook
    <3>8. AttemptBook' /\ OverBook'
      <4>1. iter' \notin answers'  BY <1>b, <2>2, <3>0, <3>1
      <4> QED BY <2>2, <4>1 DEF AttemptBook, OverBook
    <3> QED BY <3>5, <3>6, <3>7, <3>8 DEF StepIInv
  <2> QED BY <1>14, <2>1, <2>2 DEF ProjectRepair
<1>15. CASE UNCHANGED stepVars
      BY <1>a, <1>15 DEF StepIInv, stepVars, StepTypes, StepFlags, PastBook, AttemptBook, OverBook, CancelBook
<1> QED BY <1>1, <1>2, <1>3, <1>4, <1>5, <1>6, <1>7, <1>8, <1>9, <1>10, <1>11,
   <1>12, <1>13, <1>14, <1>15 DEF StepNext

\* The attempts are the whole evidence of a step, in order, with what each of them got
\* and why Run ended; a cancelled step begins at most one thing more; and no run is left
\* behind: for any number of iterations (llmstep.Run, Caller.Call).
THEOREM StepIsSound == StepSpec => []StepSound
<1>1. StepInit => StepIInv
  <2> SUFFICES ASSUME StepInit PROVE StepIInv
      OBVIOUS
  <2> USE IterAssumption
  <2>1. iter \in Iters /\ repair \in 0..MaxIter /\ 0 \in 0..MaxIter  BY DEF StepInit, Iters
  <2>2. attempt \in Attempts /\ attempts \in Seq(Attempts) /\ Len(attempts) = 0
        BY <2>1, EmptySeq DEF StepInit, NewAttempt, Attempts
  <2>3. StepTypes  BY <2>1, <2>2 DEF StepInit, StepTypes
  <2>4. StepFlags  BY DEF StepInit, StepFlags
  <2>6. AttemptBook  BY DEF StepInit, AttemptBook
  <2>7. OverBook /\ CancelBook  BY DEF StepInit, OverBook, CancelBook
  <2>5. PastBook  BY DEF StepInit, PastBook
  <2> QED BY <2>3, <2>4, <2>5, <2>6, <2>7 DEF StepIInv
<1>2. StepIInv => StepSound
  <2> SUFFICES ASSUME StepIInv PROVE StepSound
      OBVIOUS
  <2>1. PICK i \in Nat : i = iter /\ i > 0 /\ i \in Iters /\ i <= MaxIter
        BY IterAssumption DEF StepIInv, StepTypes, Iters
  <2>2. StepTypeOK
    <3>1. answers \subseteq Iters /\ Len(attempts) <= MaxIter /\ begun \in 0..MaxIter
          BY <2>1, IterAssumption DEF StepIInv, StepTypes, Iters
    <3> QED BY <3>1 DEF StepIInv, StepTypes, StepFlags, StepTypeOK
  <2>3. EvidenceComplete
    <3> SUFFICES ASSUME stage = "over" PROVE EvidenceComplete
        BY DEF EvidenceComplete
    <3>1. Len(attempts) = i  BY <2>1 DEF StepIInv, StepTypes
    <3>2. \A k \in 1..i : k \in 1..(i - 1) \/ k = i  OBVIOUS
    <3>3. \A k \in 1..i : (attempts[k].call # "none") = (k \in answers)
          BY <2>1, <3>2 DEF StepIInv, PastBook, OverBook
    <3>4. ASSUME NEW k \in 1..(i - 1) PROVE attempts[k + 1].repair = attempts[k].next
      <4>1. CASE k \in 1..(i - 2)  BY <2>1, <4>1 DEF StepIInv, PastBook
      <4>2. CASE k = i - 1
        <5>1. i # 1 /\ k + 1 = i  BY <4>2
        <5> QED BY <2>1, <4>2, <5>1 DEF StepIInv, PastBook, OverBook
      <4> QED BY <4>1, <4>2
    <3>5. \A k \in 1..(i - 1) : /\ attempts[k].judgment = "rejected" /\ attempts[k].err = "nil"
                                /\ attempts[k + 1].repair = attempts[k].next
                                /\ attempts[k].next \in {0, k}
          BY <2>1, <3>4 DEF StepIInv, PastBook
    <3>6. /\ output = (attempts[i].judgment = "accepted" /\ attempts[i].err = "nil")
          /\ output = (why = "nil")
          BY <2>1 DEF StepIInv, OverBook
    <3> QED BY <2>1, <3>1, <3>3, <3>5, <3>6 DEF EvidenceComplete
  <2>4. CancelStops /\ NoRunLeftBehind
        BY DEF StepIInv, StepTypes, StepFlags, CancelStops, NoRunLeftBehind
  <2> QED BY <2>2, <2>3, <2>4 DEF StepSound
<1> QED BY <1>1, <1>2, RunStep, PTL DEF StepSpec

-----------------------------------------------------------------------------
(* Executor.Run. What the parser knows is what the events it has seen say  *)
(* (StreamBook), as long as WaitDelay has cut nothing, and it has seen     *)
(* them all when Run takes its verdict (WaitBook).                         *)

ExecTypes ==
  /\ written \in Seq(Kinds) /\ Len(written) <= NEvents
  /\ stdout \in Seq(Kinds) /\ Len(stdout) <= StdoutSize

ExecFlags ==
  /\ child \in {"none", "runs", "exit0", "exit1", "killed"}
  /\ heldOpen \in BOOLEAN /\ ctxEnded \in BOOLEAN /\ cut \in BOOLEAN /\ waited \in BOOLEAN
  /\ ppc \in {"scan", "drain", "parsed"}
  /\ sessionStarted \in BOOLEAN /\ turnStarted \in BOOLEAN /\ completed \in BOOLEAN /\ failed \in BOOLEAN

DiagnosticBook ==
  /\ diagnostic \in Diagnostics /\ localFirst \in BOOLEAN
  /\ localFirst => failed /\ diagnostic \in Local

\* The events the parser has seen.
Seen == Len(written) - Len(stdout)
Saw(w, n, e) == \E j \in 1..n : w[j] = e

\* An event that a clean stream does not have at this place.
Wrong(w, i) ==
  \/ w[i] \in {"stranger", "failed", "garbage", "huge"}
  \/ w[i] = "thread" /\ Saw(w, i - 1, "thread")
  \/ w[i] \in {"turn", "completed", "error"} /\ (~Saw(w, i - 1, "thread") \/ Saw(w, i - 1, "completed"))
  \/ w[i] = "turn" /\ Saw(w, i - 1, "turn")

StreamBook ==
  /\ ppc = "drain" => failed
  /\ ~cut =>
       /\ Len(stdout) <= Len(written)
       /\ \A i \in 1..Len(stdout) : stdout[i] = written[Seen + i]
       /\ failed => \E i \in 1..Seen : Wrong(written, i)
       /\ ~failed => /\ \A i \in 1..Seen : ~Wrong(written, i)
                     /\ sessionStarted = Saw(written, Seen, "thread")
                     /\ turnStarted = Saw(written, Seen, "turn")
                     /\ completed = Saw(written, Seen, "completed")

WaitBook ==
  /\ cut => stdout = <<>> /\ child \notin {"none", "runs"}
  /\ waited => stdout = <<>> /\ child \notin {"none", "runs"}
  /\ ppc = "parsed" => waited
  /\ result # NoOutcome => ppc = "parsed"

ResultBook ==
  /\ result.status \in {"running", "completed", "failed", "blocked", "cancelled"}
  /\ CompletedExactly /\ LocalFactKept

ExecIInv == ExecTypes /\ ExecFlags /\ DiagnosticBook /\ StreamBook /\ WaitBook /\ ResultBook

-----------------------------------------------------------------------------
\* Whether an event is wrong depends on the events up to it.
LEMMA WrongByPrefix ==
  ASSUME NEW w, NEW v, NEW i \in Nat \ {0}, \A j \in 1..i : w[j] = v[j]
  PROVE  Wrong(w, i) = Wrong(v, i)
<1>1. \A e : Saw(w, i - 1, e) = Saw(v, i - 1, e)
  <2>1. \A j \in 1..(i - 1) : j \in 1..i  OBVIOUS
  <2> QED BY <2>1 DEF Saw
<1>2. w[i] = v[i]  OBVIOUS
<1> QED BY <1>1, <1>2 DEF Wrong

\* One event more.
LEMMA SawNext ==
  ASSUME NEW w, NEW p \in Nat
  PROVE  \A e : Saw(w, p + 1, e) <=> Saw(w, p, e) \/ w[p + 1] = e
<1>1. \A j \in 1..(p + 1) : j \in 1..p \/ j = p + 1  OBVIOUS
<1>2. p + 1 \in 1..(p + 1) /\ \A j \in 1..p : j \in 1..(p + 1)  OBVIOUS
<1> QED BY <1>1, <1>2 DEF Saw

\* A stream is clean just when it has a session and a completion, and no event is at a
\* wrong place.
LEMMA CleanMeans ==
  ASSUME NEW w \in Seq(Kinds)
  PROVE  CleanStream(w) <=> /\ \A i \in 1..Len(w) : ~Wrong(w, i)
                            /\ Saw(w, Len(w), "thread") /\ Saw(w, Len(w), "completed")
<1>1. DOMAIN w = 1..Len(w) /\ Len(w) \in Nat /\ \A i \in 1..Len(w) : w[i] \in Kinds
      BY LenProperties, ElementOfSeq
<1> DEFINE D == 1..Len(w)
<1>2. ASSUME CleanStream(w)
      PROVE  /\ \A i \in D : ~Wrong(w, i)
             /\ Saw(w, Len(w), "thread") /\ Saw(w, Len(w), "completed")
  <2>1. PICK t \in D, c \in D :
          /\ t < c /\ w[t] = "thread" /\ w[c] = "completed"
          /\ \A i \in D : /\ w[i] \in {"thread", "turn", "item", "completed", "error"}
                          /\ w[i] = "thread" => i = t
                          /\ w[i] = "completed" => i = c
                          /\ w[i] \in {"turn", "error"} => t < i /\ i < c
          /\ \A i, j \in D : w[i] = "turn" /\ w[j] = "turn" => i = j
        BY <1>1, <1>2 DEF CleanStream
  <2>2. ASSUME NEW i \in D, Wrong(w, i) PROVE FALSE
    <3>1. \A j \in 1..(i - 1) : j \in D /\ j < i  BY <1>1
    <3>2. Saw(w, i - 1, "thread") => t < i  BY <2>1, <3>1 DEF Saw
    <3>3. Saw(w, i - 1, "completed") => c < i  BY <2>1, <3>1 DEF Saw
    <3>4. t < i => Saw(w, i - 1, "thread")
      <4>1. t < i => t \in 1..(i - 1)  BY <1>1
      <4> QED BY <2>1, <4>1 DEF Saw
    <3>5. w[i] = "turn" => ~Saw(w, i - 1, "turn")  BY <2>1, <3>1 DEF Saw
    <3>6. w[i] \in {"thread", "turn", "item", "completed", "error"}  BY <2>1
    <3>7. CASE w[i] = "thread"
      <4>1. i = t  BY <2>1, <3>7
      <4> QED BY <1>1, <2>2, <3>2, <3>7, <4>1 DEF Wrong
    <3>8. CASE w[i] = "completed"
      <4>1. i = c  BY <2>1, <3>8
      <4>2. ~Saw(w, i - 1, "completed")  BY <1>1, <3>3, <4>1
      <4>3. Saw(w, i - 1, "thread")  BY <2>1, <3>4, <4>1
      <4> QED BY <2>2, <3>8, <4>2, <4>3 DEF Wrong
    <3>9. CASE w[i] \in {"turn", "error"}
      <4>1. t < i /\ i < c  BY <2>1, <3>9
      <4>2. ~Saw(w, i - 1, "completed")  BY <1>1, <3>3, <4>1
      <4>3. Saw(w, i - 1, "thread")  BY <3>4, <4>1
      <4> QED BY <2>2, <3>5, <3>9, <4>2, <4>3 DEF Wrong
    <3>10. CASE w[i] = "item"  BY <2>2, <3>10 DEF Wrong
    <3> QED BY <3>6, <3>7, <3>8, <3>9, <3>10
  <2> QED BY <2>1, <2>2 DEF Saw
<1>3. ASSUME \A i \in D : ~Wrong(w, i), Saw(w, Len(w), "thread"), Saw(w, Len(w), "completed")
      PROVE  CleanStream(w)
  <2>1. PICK t \in D : w[t] = "thread"  BY <1>3 DEF Saw
  <2>2. PICK c \in D : w[c] = "completed"  BY <1>3 DEF Saw
  <2>3. ASSUME NEW i \in D, NEW j \in D, j < i
        PROVE  /\ j \in 1..(i - 1)
               /\ \A e : w[j] = e => Saw(w, i - 1, e)
    <3>1. j \in 1..(i - 1)  BY <1>1, <2>3
    <3> QED BY <3>1 DEF Saw
  <2>4. \A i, j \in D : i < j \/ j < i \/ i = j  BY <1>1
  <2>5. \A i, j \in D : w[i] = w[j] /\ w[i] \in {"thread", "completed", "turn"} => i = j
    <3>1. ASSUME NEW i \in D, NEW j \in D, j < i, w[i] = w[j], w[i] \in {"thread", "completed", "turn"}
          PROVE  FALSE
      <4>1. Saw(w, i - 1, w[i])  BY <2>3, <3>1
      <4> QED BY <1>3, <3>1, <4>1 DEF Wrong
    <3> QED BY <2>4, <3>1
  <2>6. ASSUME NEW i \in D, w[i] \in {"turn", "completed", "error"} PROVE t < i
    <3>1. Saw(w, i - 1, "thread")  BY <1>3, <2>6 DEF Wrong
    <3>2. PICK j \in 1..(i - 1) : w[j] = "thread"  BY <3>1 DEF Saw
    <3>3. j \in D /\ j < i  BY <1>1, <3>2
    <3>4. j = t  BY <2>1, <2>5, <3>2, <3>3
    <3> QED BY <3>3, <3>4
  <2>7. ASSUME NEW i \in D, w[i] \in {"turn", "error"} PROVE i < c
    <3>1. ~Saw(w, i - 1, "completed")  BY <1>3, <2>7 DEF Wrong
    <3>2. ~(c < i)  BY <2>2, <2>3, <3>1
    <3>3. i # c  BY <2>2, <2>7
    <3> QED BY <2>4, <3>2, <3>3
  <2>8. \A i \in D : w[i] \in {"thread", "turn", "item", "completed", "error"}
        BY <1>1, <1>3 DEF Wrong, Kinds
  <2>9. t < c  BY <2>2, <2>6
  <2>10. \A i \in D : /\ w[i] \in {"thread", "turn", "item", "completed", "error"}
                      /\ w[i] = "thread" => i = t
                      /\ w[i] = "completed" => i = c
                      /\ w[i] \in {"turn", "error"} => t < i /\ i < c
         BY <2>1, <2>2, <2>5, <2>6, <2>7, <2>8
  <2>11. \A i, j \in D : w[i] = "turn" /\ w[j] = "turn" => i = j  BY <2>5
  <2> QED BY <1>1, <2>1, <2>2, <2>9, <2>10, <2>11 DEF CleanStream
<1> QED BY <1>2, <1>3

\* A result stays what it is, with what it is about.
LEMMA ResultStays ==
  ASSUME ExecIInv, result' = result,
         result # NoOutcome => UNCHANGED <<written, child, cut, localFirst>>
  PROVE  ResultBook'
<1>1. CASE result = NoOutcome
  <2>1. result.status = "running"  BY <1>1 DEF NoOutcome
  <2> QED BY <1>1, <2>1 DEF ResultBook, CompletedExactly, LocalFactKept
<1>2. CASE result # NoOutcome
      BY <1>2 DEF ExecIInv, ResultBook, CompletedExactly, LocalFactKept
<1> QED BY <1>1, <1>2

\* When the parser does nothing and the output is not cut, it knows what it knew.
LEMMA StreamStays ==
  ASSUME ExecIInv, UNCHANGED <<written, stdout, ppc, failed, sessionStarted, turnStarted, completed>>,
         cut => cut'
  PROVE  StreamBook'
<1>1. Seen' = Seen  BY DEF Seen
<1> QED BY <1>1 DEF ExecIInv, StreamBook

\* Every step of the child, the parser, the timers and Run keeps the invariant.
LEMMA TurnStep == ExecIInv /\ [ExecNext]_execVars => ExecIInv'
<1> SUFFICES ASSUME ExecIInv, [ExecNext]_execVars PROVE ExecIInv'
    OBVIOUS
<1> USE ExecAssumption DEF flowVars, flagVars
<1>0. ExecTypes /\ ExecFlags /\ DiagnosticBook /\ StreamBook /\ WaitBook /\ ResultBook
      BY DEF ExecIInv
<1>1. CASE Start
  <2>1. ExecTypes'
      BY <1>0, <1>1 DEF Start, ExecTypes
  <2>2. ExecFlags'
      BY <1>0, <1>1 DEF Start, ExecFlags
  <2>3. DiagnosticBook'
      BY <1>0, <1>1 DEF Start, DiagnosticBook
  <2>4. StreamBook'  BY <1>1, StreamStays DEF Start, execVars
  <2>5. WaitBook'
      BY <1>0, <1>1 DEF Start, WaitBook
  <2>6. ResultBook'
    <3>1. result' = result  BY <1>1 DEF Start, execVars
    <3>2. result # NoOutcome => UNCHANGED <<written, child, cut, localFirst>>
          BY <1>0, <1>1 DEF Start, execVars, WaitBook
    <3> QED BY <3>1, <3>2, ResultStays
  <2> QED BY <2>1, <2>2, <2>3, <2>4, <2>5, <2>6 DEF ExecIInv
<1>2. CASE Emit
  <2>a. PICK e \in Kinds : written' = Append(written, e) /\ stdout' = Append(stdout, e)
        BY <1>2 DEF Emit
  <2>b. PICK m \in Nat, q \in Nat : m = Len(written) /\ q = Len(stdout)
        BY <1>0, LenProperties DEF ExecTypes
  <2>0. /\ written' \in Seq(Kinds) /\ Len(written') = m + 1 /\ written'[m + 1] = e
        /\ \A i \in 1..m : written'[i] = written[i]
        /\ stdout' \in Seq(Kinds) /\ Len(stdout') = q + 1 /\ stdout'[q + 1] = e
        /\ \A i \in 1..q : stdout'[i] = stdout[i]
        /\ Len(written) = m /\ Len(stdout) = q /\ m < NEvents /\ q < StdoutSize
        BY <1>0, <1>2, <2>a, <2>b, AppendProperties DEF Emit, ExecTypes
  <2>1. ExecTypes'
      BY <1>0, <1>2, <2>0 DEF Emit, ExecTypes
  <2>2. ExecFlags'
      BY <1>0, <1>2, <2>0 DEF Emit, ExecFlags
  <2>3. DiagnosticBook'
      BY <1>0, <1>2, <2>0 DEF Emit, DiagnosticBook
  <2>4. StreamBook'
    <3>1. ~cut /\ UNCHANGED <<ppc, cut, failed, sessionStarted, turnStarted, completed>>
          BY <1>0, <1>2 DEF Emit, WaitBook
    <3>2. PICK p \in Nat : p = m - q /\ m = p + q  BY <1>0, <2>0, <3>1 DEF StreamBook
    <3>3. Seen = p /\ Seen' = p  BY <2>0, <3>2 DEF Seen
    <3>4. \A i \in 1..(q + 1) : stdout'[i] = written'[p + i]
      <4> SUFFICES ASSUME NEW i \in 1..(q + 1) PROVE stdout'[i] = written'[p + i]
          OBVIOUS
      <4>1. CASE i \in 1..q
        <5>1. p + i \in 1..m  BY <3>2, <4>1
        <5>2. stdout[i] = written[p + i]  BY <1>0, <2>0, <3>1, <3>3, <4>1 DEF StreamBook
        <5> QED BY <2>0, <4>1, <5>1, <5>2
      <4>2. CASE i = q + 1  BY <2>0, <3>2, <4>2
      <4> QED BY <4>1, <4>2
    <3>5. ASSUME NEW i \in 1..p PROVE Wrong(written', i) = Wrong(written, i)
      <4>1. \A j \in 1..i : j \in 1..m  BY <3>2
      <4>2. \A j \in 1..i : written'[j] = written[j]  BY <2>0, <4>1
      <4> QED BY <4>2, WrongByPrefix
    <3>6. ASSUME NEW x PROVE Saw(written', p, x) = Saw(written, p, x)
      <4>1. \A j \in 1..p : j \in 1..m  BY <3>2
      <4> QED BY <2>0, <4>1 DEF Saw
    <3>7. /\ failed => \E i \in 1..p : Wrong(written', i)
          /\ ~failed => /\ \A i \in 1..p : ~Wrong(written', i)
                        /\ sessionStarted = Saw(written', p, "thread")
                        /\ turnStarted = Saw(written', p, "turn")
                        /\ completed = Saw(written', p, "completed")
          BY <1>0, <3>1, <3>3, <3>5, <3>6 DEF StreamBook
    <3>8. Len(stdout') <= Len(written') /\ (ppc = "drain" => failed)
          BY <1>0, <2>0, <3>2 DEF StreamBook
    <3> QED BY <2>0, <3>1, <3>3, <3>4, <3>7, <3>8 DEF StreamBook
  <2>5. WaitBook'
      BY <1>0, <1>2, <2>0 DEF Emit, WaitBook
  <2>6. ResultBook'
    <3>1. result' = result  BY <1>2 DEF Emit, execVars
    <3>2. result # NoOutcome => UNCHANGED <<written, child, cut, localFirst>>
          BY <1>0, <1>2 DEF Emit, execVars, WaitBook
    <3> QED BY <3>1, <3>2, ResultStays
  <2> QED BY <2>1, <2>2, <2>3, <2>4, <2>5, <2>6 DEF ExecIInv
<1>3. CASE Exit
  <2>1. ExecTypes'
      BY <1>0, <1>3 DEF Exit, ExecTypes
  <2>2. ExecFlags'
      BY <1>0, <1>3 DEF Exit, ExecFlags
  <2>3. DiagnosticBook'
      BY <1>0, <1>3 DEF Exit, DiagnosticBook
  <2>4. StreamBook'  BY <1>3, StreamStays DEF Exit, execVars
  <2>5. WaitBook'
      BY <1>0, <1>3 DEF Exit, WaitBook
  <2>6. ResultBook'
    <3>1. result' = result  BY <1>3 DEF Exit, execVars
    <3>2. result # NoOutcome => UNCHANGED <<written, child, cut, localFirst>>
          BY <1>0, <1>3 DEF Exit, execVars, WaitBook
    <3> QED BY <3>1, <3>2, ResultStays
  <2> QED BY <2>1, <2>2, <2>3, <2>4, <2>5, <2>6 DEF ExecIInv
<1>4. CASE Dies
  <2>1. ExecTypes'
      BY <1>0, <1>4 DEF Dies, ExecTypes
  <2>2. ExecFlags'
      BY <1>0, <1>4 DEF Dies, ExecFlags
  <2>3. DiagnosticBook'
      BY <1>0, <1>4 DEF Dies, DiagnosticBook
  <2>4. StreamBook'  BY <1>4, StreamStays DEF Dies, execVars
  <2>5. WaitBook'
      BY <1>0, <1>4 DEF Dies, WaitBook
  <2>6. ResultBook'
    <3>1. result' = result  BY <1>4 DEF Dies, execVars
    <3>2. result # NoOutcome => UNCHANGED <<written, child, cut, localFirst>>
          BY <1>0, <1>4 DEF Dies, execVars, WaitBook
    <3> QED BY <3>1, <3>2, ResultStays
  <2> QED BY <2>1, <2>2, <2>3, <2>4, <2>5, <2>6 DEF ExecIInv
<1>5. CASE Cancel
  <2>1. ExecTypes'
      BY <1>0, <1>5 DEF Cancel, ExecTypes
  <2>2. ExecFlags'
      BY <1>0, <1>5 DEF Cancel, ExecFlags
  <2>3. DiagnosticBook'
      BY <1>0, <1>5 DEF Cancel, DiagnosticBook
  <2>4. StreamBook'  BY <1>5, StreamStays DEF Cancel, execVars
  <2>5. WaitBook'
      BY <1>0, <1>5 DEF Cancel, WaitBook
  <2>6. ResultBook'
    <3>1. result' = result  BY <1>5 DEF Cancel, execVars
    <3>2. result # NoOutcome => UNCHANGED <<written, child, cut, localFirst>>
          BY <1>0, <1>5 DEF Cancel, execVars, WaitBook
    <3> QED BY <3>1, <3>2, ResultStays
  <2> QED BY <2>1, <2>2, <2>3, <2>4, <2>5, <2>6 DEF ExecIInv
<1>6. CASE Kill
  <2>1. ExecTypes'
      BY <1>0, <1>6 DEF Kill, ExecTypes
  <2>2. ExecFlags'
      BY <1>0, <1>6 DEF Kill, ExecFlags
  <2>3. DiagnosticBook'
      BY <1>0, <1>6 DEF Kill, DiagnosticBook
  <2>4. StreamBook'  BY <1>6, StreamStays DEF Kill, execVars
  <2>5. WaitBook'
      BY <1>0, <1>6 DEF Kill, WaitBook
  <2>6. ResultBook'
    <3>1. result' = result  BY <1>6 DEF Kill, execVars
    <3>2. result # NoOutcome => UNCHANGED <<written, child, cut, localFirst>>
          BY <1>0, <1>6 DEF Kill, execVars, WaitBook
    <3> QED BY <3>1, <3>2, ResultStays
  <2> QED BY <2>1, <2>2, <2>3, <2>4, <2>5, <2>6 DEF ExecIInv
<1>7. CASE WaitDelay
  <2>1. ExecTypes'
      BY <1>0, <1>7 DEF WaitDelay, ExecTypes
  <2>2. ExecFlags'
      BY <1>0, <1>7 DEF WaitDelay, ExecFlags
  <2>3. DiagnosticBook'
      BY <1>0, <1>7 DEF WaitDelay, DiagnosticBook
  <2>4. StreamBook'  BY <1>0, <1>7 DEF WaitDelay, StreamBook
  <2>5. WaitBook'
      BY <1>0, <1>7 DEF WaitDelay, WaitBook
  <2>6. ResultBook'
    <3>1. result' = result  BY <1>7 DEF WaitDelay, execVars
    <3>2. result # NoOutcome => UNCHANGED <<written, child, cut, localFirst>>
          BY <1>0, <1>7 DEF WaitDelay, execVars, WaitBook
    <3> QED BY <3>1, <3>2, ResultStays
  <2> QED BY <2>1, <2>2, <2>3, <2>4, <2>5, <2>6 DEF ExecIInv
<1>8. CASE Parse
  <2>a. ~cut /\ stdout # <<>> /\ stdout' = Tail(stdout) /\ written' = written /\ cut' = cut
        BY <1>0, <1>8 DEF Parse, WaitBook
  <2>b. PICK m \in Nat, q \in Nat : m = Len(written) /\ q = Len(stdout)
        BY <1>0, LenProperties DEF ExecTypes
  <2>0. /\ stdout' \in Seq(Kinds) /\ Len(stdout') = q - 1 /\ q > 0
        /\ \A i \in 1..(q - 1) : stdout'[i] = stdout[i + 1]
        /\ Head(stdout) = stdout[1] /\ Head(stdout) \in Kinds
        /\ Len(stdout) = q /\ Len(written) = m
        BY <1>0, <2>a, <2>b, HeadTailProperties, EmptySeq, LenProperties DEF ExecTypes
  <2>c. PICK p \in Nat : p = m - q /\ m = p + q  BY <1>0, <2>0, <2>a DEF StreamBook
  <2>d. /\ Seen = p /\ Seen' = p + 1 /\ Head(stdout) = written[p + 1]
        /\ Len(stdout') <= Len(written')
        /\ \A i \in 1..Len(stdout') : stdout'[i] = written'[Seen' + i]
    <3>1. Seen = p /\ Seen' = p + 1  BY <2>0, <2>a, <2>c DEF Seen
    <3>2. \A i \in 1..q : stdout[i] = written[p + i]  BY <1>0, <2>0, <2>a, <3>1 DEF StreamBook
    <3>3. Head(stdout) = written[p + 1]  BY <2>0, <3>2
    <3>4. ASSUME NEW i \in 1..(q - 1) PROVE stdout'[i] = written[(p + 1) + i]
      <4>1. i + 1 \in 1..q /\ p + (i + 1) = (p + 1) + i  OBVIOUS
      <4> QED BY <2>0, <3>2, <4>1
    <3> QED BY <2>0, <2>a, <2>c, <3>1, <3>3, <3>4
  <2>f. PICK e \in Kinds : e = Head(stdout) /\ e # "huge"  BY <1>8, <2>0 DEF Parse
  <2>e. failed => failed' = TRUE
        BY <1>0, <1>8 DEF ExecFlags, Parse, FailWith, Sequence, TurnFailed, ErrorSeen, flagVars
  <2>g. /\ failed' \in BOOLEAN /\ sessionStarted' \in BOOLEAN /\ turnStarted' \in BOOLEAN
        /\ completed' \in BOOLEAN
        /\ ~failed /\ ~failed' =>
             ~ \/ e \in {"stranger", "failed", "garbage", "huge"}
               \/ e = "thread" /\ sessionStarted
               \/ e \in {"turn", "completed", "error"} /\ (~sessionStarted \/ completed)
               \/ e = "turn" /\ turnStarted
        BY <1>0, <1>8, <2>f DEF ExecFlags, Parse, FailWith, Sequence, TurnFailed, ErrorSeen, OutOfOrder, flagVars
  <2>h. ~failed /\ failed' =>
             \/ e \in {"stranger", "failed", "garbage", "huge"}
             \/ e = "thread" /\ sessionStarted
             \/ e \in {"turn", "completed", "error"} /\ (~sessionStarted \/ completed)
             \/ e = "turn" /\ turnStarted
        BY <1>0, <1>8, <2>f DEF ExecFlags, Parse, FailWith, Sequence, TurnFailed, ErrorSeen, OutOfOrder, flagVars
  <2>i. failed' = FALSE =>
          /\ sessionStarted' = (sessionStarted \/ e = "thread")
          /\ turnStarted' = (turnStarted \/ e = "turn")
          /\ completed' = (completed \/ e = "completed")
        BY <1>0, <1>8, <2>f DEF ExecFlags, Parse, FailWith, flagVars
  <2>j. sessionStarted \in BOOLEAN /\ turnStarted \in BOOLEAN /\ completed \in BOOLEAN
        BY <1>0 DEF ExecFlags
  <2>1. ExecTypes'  BY <1>0, <2>0, <2>a DEF ExecTypes
  <2>2. ExecFlags'  BY <1>0, <1>8, <2>g DEF Parse, ExecFlags
  <2>3. DiagnosticBook'
    <3>1. \/ UNCHANGED <<failed, diagnostic, localFirst>>
          \/ \E d \in Local : FailWith(d)
          \/ ~failed /\ \E d \in {"provider_failed", "execution_failed"} : FailWith(d)
          \/ /\ ~failed /\ diagnostic' \in {"provider_failed", "execution_failed"}
             /\ UNCHANGED <<failed, localFirst>>
          BY <1>8 DEF Parse, Sequence, TurnFailed, ErrorSeen, Local
    <3>2. CASE UNCHANGED <<failed, diagnostic, localFirst>>  BY <1>0, <3>2 DEF DiagnosticBook
    <3>3. ASSUME NEW d \in Local, FailWith(d) PROVE DiagnosticBook'
          BY <1>0, <3>3 DEF FailWith, DiagnosticBook, Diagnostics
    <3>4. ASSUME ~failed, NEW d \in {"provider_failed", "execution_failed"}, FailWith(d)
          PROVE  DiagnosticBook'
      <4>1. d \notin Local /\ d \in Diagnostics  BY DEF Local, Diagnostics
      <4>2. failed' = TRUE /\ diagnostic' = d  BY <3>4 DEF FailWith
      <4>3. localFirst' \in BOOLEAN  BY <3>4 DEF FailWith
      <4>4. ~localFirst'  BY <3>4, <4>1 DEF FailWith
      <4> QED BY <4>1, <4>2, <4>3, <4>4 DEF DiagnosticBook
    <3>5. CASE /\ ~failed /\ diagnostic' \in {"provider_failed", "execution_failed"}
               /\ UNCHANGED <<failed, localFirst>>
          BY <1>0, <3>5 DEF DiagnosticBook, Diagnostics
    <3> QED BY <3>1, <3>2, <3>3, <3>4, <3>5
  <2>4. StreamBook'
    <3>0. ppc = "scan" /\ ppc' = "scan" /\ Head(stdout) # "huge"  BY <1>8 DEF Parse
    <3>1. CASE failed
      <4>1. failed' = TRUE  BY <1>8, <3>1, <2>e
      <4>2. PICK i \in 1..p : Wrong(written, i)  BY <1>0, <2>a, <2>d, <3>1 DEF StreamBook
      <4>3. i \in 1..(p + 1)  OBVIOUS
      <4> QED BY <2>a, <2>d, <4>1, <4>2, <4>3 DEF StreamBook
    <3>2. CASE ~failed
      <4>1. /\ \A i \in 1..p : ~Wrong(written, i)
            /\ sessionStarted = Saw(written, p, "thread")
            /\ turnStarted = Saw(written, p, "turn")
            /\ completed = Saw(written, p, "completed")
            BY <1>0, <2>a, <2>d, <3>2 DEF StreamBook
      <4>2. (p + 1) - 1 = p  OBVIOUS
      <4>3. Wrong(written, p + 1) <=>
              \/ e \in {"stranger", "failed", "garbage", "huge"}
              \/ e = "thread" /\ sessionStarted
              \/ e \in {"turn", "completed", "error"} /\ (~sessionStarted \/ completed)
              \/ e = "turn" /\ turnStarted
            BY <2>d, <2>f, <4>1, <4>2 DEF Wrong
      <4>4. CASE Wrong(written, p + 1)
        <5>1. failed' = TRUE
          <6>1. failed' \in BOOLEAN /\ ~failed' => ~Wrong(written, p + 1)  BY <2>g, <3>2, <4>3
          <6> QED BY <2>g, <4>4, <6>1
        <5>2. p + 1 \in 1..(p + 1)  OBVIOUS
        <5> QED BY <2>a, <2>d, <3>0, <4>4, <5>1, <5>2 DEF StreamBook
      <4>5. CASE ~Wrong(written, p + 1)
        <5>1. failed' = FALSE  BY <2>h, <3>2, <4>3, <4>5
        <5>2. /\ sessionStarted' = (sessionStarted \/ e = "thread")
              /\ turnStarted' = (turnStarted \/ e = "turn")
              /\ completed' = (completed \/ e = "completed")
              BY <2>i, <5>1
        <5>3. \A x : Saw(written, p + 1, x) <=> Saw(written, p, x) \/ e = x  BY <2>d, <2>f, SawNext
        <5>4. /\ sessionStarted' = Saw(written, p + 1, "thread")
              /\ turnStarted' = Saw(written, p + 1, "turn")
              /\ completed' = Saw(written, p + 1, "completed")
          <6>1. \A x : Saw(written, p + 1, x) \in BOOLEAN  BY DEF Saw
          <6> QED BY <2>j, <4>1, <5>2, <5>3, <6>1
        <5>5. \A i \in 1..(p + 1) : i \in 1..p \/ i = p + 1  OBVIOUS
        <5>6. \A i \in 1..(p + 1) : ~Wrong(written, i)  BY <4>1, <4>5, <5>5
        <5> QED BY <2>a, <2>d, <3>0, <5>1, <5>4, <5>6 DEF StreamBook
      <4> QED BY <4>4, <4>5
    <3> QED BY <1>0, <3>1, <3>2 DEF ExecFlags
  <2>5. WaitBook'  BY <1>0, <1>8 DEF Parse, WaitBook, AfterTooLong
  <2>6. ResultBook'
    <3>1. result' = result  BY <1>8 DEF Parse, execVars
    <3>2. result # NoOutcome => UNCHANGED <<written, child, cut, localFirst>>
          BY <1>0, <1>8 DEF Parse, execVars, WaitBook
    <3> QED BY <3>1, <3>2, ResultStays
  <2> QED BY <2>1, <2>2, <2>3, <2>4, <2>5, <2>6 DEF ExecIInv
<1>9. CASE TooLong
  <2>a. ~cut /\ stdout # <<>> /\ stdout' = Tail(stdout) /\ written' = written /\ cut' = cut
        BY <1>0, <1>9 DEF TooLong, WaitBook
  <2>b. PICK m \in Nat, q \in Nat : m = Len(written) /\ q = Len(stdout)
        BY <1>0, LenProperties DEF ExecTypes
  <2>0. /\ stdout' \in Seq(Kinds) /\ Len(stdout') = q - 1 /\ q > 0
        /\ \A i \in 1..(q - 1) : stdout'[i] = stdout[i + 1]
        /\ Head(stdout) = stdout[1] /\ Head(stdout) \in Kinds
        /\ Len(stdout) = q /\ Len(written) = m
        BY <1>0, <2>a, <2>b, HeadTailProperties, EmptySeq, LenProperties DEF ExecTypes
  <2>c. PICK p \in Nat : p = m - q /\ m = p + q  BY <1>0, <2>0, <2>a DEF StreamBook
  <2>d. /\ Seen = p /\ Seen' = p + 1 /\ Head(stdout) = written[p + 1]
        /\ Len(stdout') <= Len(written')
        /\ \A i \in 1..Len(stdout') : stdout'[i] = written'[Seen' + i]
    <3>1. Seen = p /\ Seen' = p + 1  BY <2>0, <2>a, <2>c DEF Seen
    <3>2. \A i \in 1..q : stdout[i] = written[p + i]  BY <1>0, <2>0, <2>a, <3>1 DEF StreamBook
    <3>3. Head(stdout) = written[p + 1]  BY <2>0, <3>2
    <3>4. ASSUME NEW i \in 1..(q - 1) PROVE stdout'[i] = written[(p + 1) + i]
      <4>1. i + 1 \in 1..q /\ p + (i + 1) = (p + 1) + i  OBVIOUS
      <4> QED BY <2>0, <3>2, <4>1
    <3> QED BY <2>0, <2>a, <2>c, <3>1, <3>3, <3>4
  <2>1. ExecTypes'  BY <1>0, <2>0, <2>a DEF ExecTypes
  <2>2. ExecFlags'
      BY <1>0, <1>9, <2>0 DEF TooLong, ExecFlags, FailWith, AfterTooLong
  <2>3. DiagnosticBook'
      BY <1>0, <1>9, <2>0 DEF TooLong, DiagnosticBook, FailWith, Local, Diagnostics,
         ExecFlags
  <2>4. StreamBook'
    <3>1. failed' = TRUE  BY <1>9 DEF TooLong, FailWith
    <3>2. Wrong(written, p + 1)  BY <1>9, <2>d DEF TooLong, Wrong
    <3>3. p + 1 \in 1..(p + 1)  OBVIOUS
    <3> QED BY <2>a, <2>d, <3>1, <3>2, <3>3 DEF StreamBook
  <2>5. WaitBook'  BY <1>0, <1>9 DEF TooLong, WaitBook, AfterTooLong
  <2>6. ResultBook'
    <3>1. result' = result  BY <1>9 DEF TooLong, execVars
    <3>2. result # NoOutcome => UNCHANGED <<written, child, cut, localFirst>>
          BY <1>0, <1>9 DEF TooLong, execVars, WaitBook
    <3> QED BY <3>1, <3>2, ResultStays
  <2> QED BY <2>1, <2>2, <2>3, <2>4, <2>5, <2>6 DEF ExecIInv
<1>10. CASE Drain
  <2>a. ~cut /\ stdout # <<>> /\ stdout' = Tail(stdout) /\ written' = written /\ cut' = cut
        BY <1>0, <1>10 DEF Drain, WaitBook
  <2>b. PICK m \in Nat, q \in Nat : m = Len(written) /\ q = Len(stdout)
        BY <1>0, LenProperties DEF ExecTypes
  <2>0. /\ stdout' \in Seq(Kinds) /\ Len(stdout') = q - 1 /\ q > 0
        /\ \A i \in 1..(q - 1) : stdout'[i] = stdout[i + 1]
        /\ Head(stdout) = stdout[1] /\ Head(stdout) \in Kinds
        /\ Len(stdout) = q /\ Len(written) = m
        BY <1>0, <2>a, <2>b, HeadTailProperties, EmptySeq, LenProperties DEF ExecTypes
  <2>c. PICK p \in Nat : p = m - q /\ m = p + q  BY <1>0, <2>0, <2>a DEF StreamBook
  <2>d. /\ Seen = p /\ Seen' = p + 1 /\ Head(stdout) = written[p + 1]
        /\ Len(stdout') <= Len(written')
        /\ \A i \in 1..Len(stdout') : stdout'[i] = written'[Seen' + i]
    <3>1. Seen = p /\ Seen' = p + 1  BY <2>0, <2>a, <2>c DEF Seen
    <3>2. \A i \in 1..q : stdout[i] = written[p + i]  BY <1>0, <2>0, <2>a, <3>1 DEF StreamBook
    <3>3. Head(stdout) = written[p + 1]  BY <2>0, <3>2
    <3>4. ASSUME NEW i \in 1..(q - 1) PROVE stdout'[i] = written[(p + 1) + i]
      <4>1. i + 1 \in 1..q /\ p + (i + 1) = (p + 1) + i  OBVIOUS
      <4> QED BY <2>0, <3>2, <4>1
    <3> QED BY <2>0, <2>a, <2>c, <3>1, <3>3, <3>4
  <2>1. ExecTypes'  BY <1>0, <2>0, <2>a DEF ExecTypes
  <2>2. ExecFlags'
      BY <1>0, <1>10, <2>0 DEF Drain, ExecFlags
  <2>3. DiagnosticBook'
      BY <1>0, <1>10, <2>0 DEF Drain, DiagnosticBook
  <2>4. StreamBook'
    <3>1. failed /\ failed' = failed  BY <1>0, <1>10 DEF Drain, StreamBook
    <3>2. PICK i \in 1..p : Wrong(written, i)  BY <1>0, <2>a, <2>d, <3>1 DEF StreamBook
    <3>3. i \in 1..(p + 1)  OBVIOUS
    <3> QED BY <2>a, <2>d, <3>1, <3>2, <3>3 DEF StreamBook
  <2>5. WaitBook'  BY <1>0, <1>10 DEF Drain, WaitBook, AfterTooLong
  <2>6. ResultBook'
    <3>1. result' = result  BY <1>10 DEF Drain, execVars
    <3>2. result # NoOutcome => UNCHANGED <<written, child, cut, localFirst>>
          BY <1>0, <1>10 DEF Drain, execVars, WaitBook
    <3> QED BY <3>1, <3>2, ResultStays
  <2> QED BY <2>1, <2>2, <2>3, <2>4, <2>5, <2>6 DEF ExecIInv
<1>11. CASE Parsed
  <2>1. ExecTypes'
      BY <1>0, <1>11 DEF Parsed, ExecTypes
  <2>2. ExecFlags'
      BY <1>0, <1>11 DEF Parsed, ExecFlags
  <2>3. DiagnosticBook'
      BY <1>0, <1>11 DEF Parsed, DiagnosticBook, Local, Diagnostics, ExecFlags
  <2>4. StreamBook'
    <3>1. UNCHANGED <<written, stdout, cut, failed, sessionStarted, turnStarted, completed>> /\ ppc' = "parsed"
          BY <1>11 DEF Parsed, flowVars
    <3>2. Seen' = Seen  BY <3>1 DEF Seen
    <3> QED BY <1>0, <3>1, <3>2 DEF StreamBook
  <2>5. WaitBook'
      BY <1>0, <1>11 DEF Parsed, WaitBook
  <2>6. ResultBook'
    <3>1. result' = result  BY <1>11 DEF Parsed, execVars
    <3>2. result # NoOutcome => UNCHANGED <<written, child, cut, localFirst>>
          BY <1>0, <1>11 DEF Parsed, execVars, WaitBook
    <3> QED BY <3>1, <3>2, ResultStays
  <2> QED BY <2>1, <2>2, <2>3, <2>4, <2>5, <2>6 DEF ExecIInv
<1>12. CASE Wait
  <2>1. ExecTypes'
      BY <1>0, <1>12 DEF Wait, ExecTypes
  <2>2. ExecFlags'
      BY <1>0, <1>12 DEF Wait, ExecFlags
  <2>3. DiagnosticBook'
      BY <1>0, <1>12 DEF Wait, DiagnosticBook
  <2>4. StreamBook'  BY <1>12, StreamStays DEF Wait, execVars
  <2>5. WaitBook'
      BY <1>0, <1>12 DEF Wait, WaitBook
  <2>6. ResultBook'
    <3>1. result' = result  BY <1>12 DEF Wait, execVars
    <3>2. result # NoOutcome => UNCHANGED <<written, child, cut, localFirst>>
          BY <1>0, <1>12 DEF Wait, execVars, WaitBook
    <3> QED BY <3>1, <3>2, ResultStays
  <2> QED BY <2>1, <2>2, <2>3, <2>4, <2>5, <2>6 DEF ExecIInv
<1>13. CASE Report
  <2>1. ExecTypes'
      BY <1>0, <1>13 DEF Report, ExecTypes
  <2>2. ExecFlags'
      BY <1>0, <1>13 DEF Report, ExecFlags
  <2>3. DiagnosticBook'
      BY <1>0, <1>13 DEF Report, DiagnosticBook
  <2>4. StreamBook'  BY <1>13, StreamStays DEF Report, execVars
  <2>5. WaitBook'
      BY <1>0, <1>13 DEF Report, WaitBook
  <2>6. ResultBook'
    <3>1. /\ UNCHANGED <<written, child, cut, localFirst>> /\ stdout = <<>> /\ Len(stdout) = 0
          BY <1>0, <1>13, EmptySeq DEF Report, WaitBook
    <3>2. PICK m \in Nat : m = Len(written)  BY <1>0, LenProperties DEF ExecTypes
    <3>3. Seen = m  BY <3>1, <3>2 DEF Seen
    <3>4. ASSUME ~cut PROVE CleanStream(written) <=> ~ParseErr
      <4>1. CleanStream(written) <=> /\ \A i \in 1..m : ~Wrong(written, i)
                                     /\ Saw(written, m, "thread") /\ Saw(written, m, "completed")
            BY <1>0, <3>2, CleanMeans DEF ExecTypes
      <4>2. failed => ~CleanStream(written)  BY <1>0, <3>3, <3>4, <4>1 DEF StreamBook
      <4>3. ~failed => /\ \A i \in 1..m : ~Wrong(written, i)
                       /\ sessionStarted = Saw(written, m, "thread")
                       /\ completed = Saw(written, m, "completed")
            BY <1>0, <3>3, <3>4 DEF StreamBook
      <4>4. ~failed => (CleanStream(written) <=> sessionStarted /\ completed)  BY <4>1, <4>3
      <4> QED BY <1>0, <4>2, <4>4 DEF ParseErr, ExecFlags
    <3>5. CASE ctxEnded /\ result' = [status |-> "cancelled", diagnostic |-> "cancelled"]
          BY <3>5 DEF ResultBook, CompletedExactly, LocalFactKept
    <3>6. ASSUME NEW d \in Diagnostics, result' = Blocking(d), d = "provider_failed" => ~localFirst,
                 localFirst => d \in Local, ParseErr \/ RunErr
          PROVE  ResultBook'
      <4>1. result'.status \in {"failed", "blocked"} /\ result'.diagnostic = d
            BY <3>6 DEF Blocking
      <4>2. result'.status = "blocked" => d = "provider_failed"  BY <3>6 DEF Blocking
      <4>3. LocalFactKept'  BY <3>1, <3>6, <4>1, <4>2 DEF LocalFactKept
      <4>4. ~(CleanStream(written) /\ child = "exit0" /\ ~cut)  BY <3>4, <3>6 DEF RunErr
      <4>5. CompletedExactly'  BY <3>1, <4>1, <4>4 DEF CompletedExactly
      <4> QED BY <4>1, <4>3, <4>5 DEF ResultBook
    <3>7. localFirst => failed /\ diagnostic \in Local /\ diagnostic # "provider_failed"
          BY <1>0 DEF DiagnosticBook, Local
    <3>8. diagnostic \in Diagnostics /\ "provider_failed" \in Diagnostics /\ "execution_failed" \in Diagnostics
          BY <1>0 DEF DiagnosticBook, Diagnostics
    <3>9. CASE ParseErr /\ result' = Blocking(diagnostic)  BY <3>6, <3>7, <3>8, <3>9
    <3>10. CASE ParseErr /\ StderrDecides(diagnostic) /\ result' = Blocking("provider_failed")
      <4>1. ~localFirst  BY <3>7, <3>10 DEF StderrDecides
      <4> QED BY <3>6, <3>8, <3>10, <4>1
    <3>11. CASE ~ParseErr /\ RunErr /\ \E d \in {"provider_failed", "execution_failed"} : result' = Blocking(d)
      <4>1. ~localFirst  BY <1>0, <3>7, <3>11 DEF ParseErr, ExecFlags
      <4> QED BY <3>6, <3>8, <3>11, <4>1
    <3>12. CASE ~ParseErr /\ ~RunErr /\ result' = [status |-> "completed", diagnostic |-> "completed"]
      <4>1. CleanStream(written) /\ child = "exit0" /\ ~cut  BY <1>0, <3>4, <3>12 DEF RunErr, ExecFlags
      <4>2. result'.status = "completed"  BY <3>12
      <4> QED BY <3>1, <4>1, <4>2 DEF ResultBook, CompletedExactly, LocalFactKept
    <3> QED BY <1>13, <3>5, <3>9, <3>10, <3>11, <3>12 DEF Report
  <2> QED BY <2>1, <2>2, <2>3, <2>4, <2>5, <2>6 DEF ExecIInv
<1>14. CASE UNCHANGED execVars
  <2>1. ExecTypes'
      BY <1>0, <1>14 DEF execVars, ExecTypes
  <2>2. ExecFlags'
      BY <1>0, <1>14 DEF execVars, ExecFlags
  <2>3. DiagnosticBook'
      BY <1>0, <1>14 DEF execVars, DiagnosticBook
  <2>4. StreamBook'  BY <1>14, StreamStays DEF execVars
  <2>5. WaitBook'
      BY <1>0, <1>14 DEF execVars, WaitBook
  <2>6. ResultBook'
    <3>1. result' = result  BY <1>14 DEF execVars
    <3>2. result # NoOutcome => UNCHANGED <<written, child, cut, localFirst>>
          BY <1>0, <1>14 DEF execVars, WaitBook
    <3> QED BY <3>1, <3>2, ResultStays
  <2> QED BY <2>1, <2>2, <2>3, <2>4, <2>5, <2>6 DEF ExecIInv
<1> QED BY <1>1, <1>2, <1>3, <1>4, <1>5, <1>6, <1>7, <1>8, <1>9, <1>10, <1>11,
   <1>12, <1>13, <1>14 DEF ExecNext, Reading

\* Run reports a completed turn exactly when the whole output of the child was a clean
\* stream and the child ended well by itself; and a local failure that came first is
\* reported as one: for any number of events, whatever the interleaving of child, pipe,
\* parser, timers and context (Executor.Run, parseEvents).
THEOREM TurnIsSound == ExecSpec => []TurnSound
<1>1. ExecInit => ExecIInv
  <2> SUFFICES ASSUME ExecInit PROVE ExecIInv
      OBVIOUS
  <2> USE ExecAssumption
  <2>1. ExecTypes  BY EmptySeq DEF ExecInit, ExecTypes
  <2>2. ExecFlags  BY DEF ExecInit, ExecFlags
  <2>3. DiagnosticBook  BY DEF ExecInit, DiagnosticBook, Diagnostics
  <2>4. StreamBook
    <3>1. Seen = 0 /\ Len(stdout) = 0 /\ Len(written) = 0  BY EmptySeq DEF ExecInit, Seen
    <3>2. \A x : ~Saw(written, 0, x)  BY DEF Saw
    <3>3. ~failed /\ ~sessionStarted /\ ~turnStarted /\ ~completed /\ ppc = "scan"  BY DEF ExecInit
    <3>4. sessionStarted \in BOOLEAN /\ turnStarted \in BOOLEAN /\ completed \in BOOLEAN
          BY DEF ExecInit
    <3>5. /\ sessionStarted = Saw(written, 0, "thread") /\ turnStarted = Saw(written, 0, "turn")
          /\ completed = Saw(written, 0, "completed")
          BY <3>2, <3>3, <3>4 DEF Saw
    <3> QED BY <3>1, <3>3, <3>5 DEF StreamBook
  <2>5. WaitBook  BY DEF ExecInit, WaitBook
  <2>6. ResultBook
        BY DEF ExecInit, ResultBook, CompletedExactly, LocalFactKept, NoOutcome
  <2> QED BY <2>1, <2>2, <2>3, <2>4, <2>5, <2>6 DEF ExecIInv
<1>2. ExecIInv => TurnSound
  <2> SUFFICES ASSUME ExecIInv PROVE TurnSound
      OBVIOUS
  <2>1. written \in UNION {[1..k -> Kinds] : k \in 0..NEvents}
    <3>1. Len(written) \in 0..NEvents /\ written \in [1..Len(written) -> Kinds]
          BY LenProperties, ExecAssumption DEF ExecIInv, ExecTypes
    <3> QED BY <3>1
  <2>2. ExecTypeOK
        BY <2>1 DEF ExecIInv, ExecTypes, ExecFlags, DiagnosticBook, ResultBook, ExecTypeOK
  <2> QED BY <2>2 DEF ExecIInv, ResultBook, TurnSound
<1> QED BY <1>1, <1>2, TurnStep, PTL DEF ExecSpec

-----------------------------------------------------------------------------
(* The publication of a mechanical candidate. A branch is live while its   *)
(* first and only pull request is open or is asked for. The argument: at   *)
(* most one branch is live (LiveBook), because an inspection whose list    *)
(* has no open pull request finds every live branch among the orphans      *)
(* (LiveIsOrphan) and goes on only with that one. What a late push may     *)
(* replace was settled when it was sent (PushBook), from the head that was *)
(* inspected (PlanBook) and that the lease compares.                       *)

RefWrite == [to : {"ref"}, branch : Branches, old : SyncCommit, new : SyncCommit]
NewWrite == [to : {"new"}, branch : Branches, new : SyncCommit]
BodyWrite == [to : {"body"}, num : 1..MaxPulls, new : SyncCommit, note : 0..1]
MainType == [ver : Versions \cup {0}, via : SyncCommit]

\* The types, by parts; the writes and the sequences have their whole types here.
MainsTyped == mains \in Seq(MainType) /\ Len(mains) \in 1..MaxMain
RefsTyped == refs \in [Branches -> SyncCommit]
PullsTyped == pulls \in Seq(Pull) /\ Len(pulls) <= MaxPulls
EffectsTyped ==
  /\ effects \subseteq RefWrite \cup NewWrite \cup BodyWrite
  /\ \A e \in effects : e.to = "body" => e.num <= Len(pulls)
PeopleTyped == people \in 0..MaxPeople
Working == {"list", "inspect", "base", "generate", "materialize", "publish", "again", "push",
            "pushed", "pull", "patched", "created", "landing", "final", "reused", "published"}
RunTyped ==
  /\ spc \in Working \cup {"idle"} /\ invocation \in 0..MaxAttempts
  /\ rbase \in 0..MaxMain /\ ver \in Versions \cup {0} /\ repairing \in BOOLEAN
  /\ spc # "idle" => rbase # 0 /\ ver # 0
LookTyped ==
  /\ seen \in Seq(Pull) /\ Len(seen) <= MaxPulls
  /\ planned \in Observation /\ observed \in Observation
  /\ spc \notin {"idle", "list", "inspect"} => planned.branch \in Branches
CandidateTyped == mine \in SyncCommit /\ pubHead \in SyncCommit

SyncParts ==
  /\ MainsTyped /\ RefsTyped /\ PullsTyped /\ EffectsTyped /\ PeopleTyped
  /\ RunTyped /\ LookTyped /\ CandidateTyped

HasPull(b) == \E i \in DOMAIN pulls : pulls[i].branch = b
Asked(b) == ~HasPull(b) /\ \E e \in effects : e.to = "new" /\ e.branch = b
Only(b) == \E i \in DOMAIN pulls : /\ pulls[i].state = "open"
                                   /\ \A j \in DOMAIN pulls : pulls[j].branch = b <=> j = i
\* A branch whose only pull request is open, or has been asked for.
Live(b) == Only(b) \/ Asked(b)

\* No branch has two open pull requests.
OpenBook == \A i, j \in OpenPulls(pulls) : pulls[i].branch = pulls[j].branch => i = j

\* A live branch stays.
BranchBook == \A b \in Branches : Live(b) => refs[b] # Absent

\* What was listed is an earlier state of the same pull requests.
SeenBook ==
  /\ Len(seen) <= Len(pulls)
  /\ \A i \in DOMAIN seen : /\ seen[i].branch = pulls[i].branch
                            /\ pulls[i].state = "open" => seen[i].state = "open"
  /\ observed.num <= Len(seen)

\* Only one branch is live, and who is about to create a pull request is about to
\* do so for that one.
LiveBook ==
  /\ \A b, c \in Branches : Live(b) /\ Live(c) => b = c
  /\ spc \in {"push", "pushed", "pull"} /\ observed.num = 0 =>
       \A b \in Branches : Live(b) => b = planned.branch

AskBook ==
  spc = "pull" /\ observed.num = 0 => refs[planned.branch] # Absent \/ HasPull(planned.branch)

\* The candidate is on the base and for the target of this invocation.
Exactly(c) == c.kind = "single" /\ c.base = rbase /\ c.ver = ver /\ c.tree = mine.tree

\* The head that will be replaced: nobody's commit, and one with merges only by a
\* repair, which keeps its tree.
PlanBook ==
  /\ spc \notin {"idle", "list", "inspect"} =>
       planned.head.kind # "human" /\ (planned.head.kind = "merge" => repairing)
  /\ spc = "generate" => ~repairing
  /\ spc \in {"publish", "again", "push"} =>
       /\ Exactly(mine)
       /\ planned.head.kind = "merge" => mine.tree = planned.head.tree
  /\ spc = "push" => ~Exactly(planned.head)
  /\ spc \in {"push", "pushed", "pull", "patched", "created", "landing", "final"} =>
       Exactly(mine) /\ Exactly(pubHead)

\* What a push keeps until it lands.
PushOK(e) ==
  /\ e.new.kind = "single" /\ e.old.kind # "human"
  /\ e.old.kind = "merge" => e.new.tree = e.old.tree
  /\ ~(/\ e.old.kind = "single" /\ e.old.base = e.new.base
       /\ e.old.ver = e.new.ver /\ e.old.tree = e.new.tree)
PushBook == \A e \in effects : e.to = "ref" => PushOK(e)

SyncBooks ==
  OpenBook /\ BranchBook /\ SeenBook /\ LiveBook /\ AskBook /\ PlanBook /\ PushBook

SyncIInv == SyncParts /\ SyncBooks

LEMMA SyncByPart ==
  ASSUME SyncParts
  PROVE  SyncTypeOK
<1>1. Len(mains) \in 1..MaxMain BY DEF SyncParts, MainsTyped
<1>2. \A i \in DOMAIN mains : mains[i] \in MainType BY DEF SyncParts, MainsTyped
<1>3. \A i \in DOMAIN mains : mains[i].ver \in Versions \cup {0} /\ mains[i].via \in SyncCommit
  BY <1>2 DEF MainType
<1>4. Len(pulls) <= MaxPulls /\ \A i \in DOMAIN pulls : pulls[i] \in Pull
  BY DEF SyncParts, PullsTyped
<1>5. \A e \in effects : e.to \in {"ref", "new", "body"}
  BY DEF SyncParts, EffectsTyped, RefWrite, NewWrite, BodyWrite
<1>6. refs \in [Branches -> SyncCommit] /\ people \in 0..MaxPeople
  BY DEF SyncParts, RefsTyped, PeopleTyped
<1> QED
  BY <1>1, <1>3, <1>4, <1>5, <1>6
  DEF SyncParts, RunTyped, Working, LookTyped, CandidateTyped, SyncTypeOK

LEMMA EffectKinds ==
  ASSUME EffectsTyped, NEW e \in effects
  PROVE  /\ e.to = "ref" => e \in RefWrite
         /\ e.to = "new" => e \in NewWrite
         /\ e.to = "body" => e \in BodyWrite /\ e.num <= Len(pulls)
BY DEF EffectsTyped, RefWrite, NewWrite, BodyWrite

LEMMA AbsentTyped ==
  Absent \in SyncCommit /\ NoObservation \in Observation /\ Absent.kind = "absent"
<1>1. Absent \in SyncCommit /\ Absent.kind = "absent" BY SyncAssumption DEF Absent, SyncCommit
<1>2. 0 \in 0..MaxPulls BY SyncAssumption
<1> QED BY <1>1, <1>2 DEF NoObservation, Observation

-----------------------------------------------------------------------------
(* Pull requests stay, on their branches, and none opens again.            *)

PullsGo ==
  /\ Len(pulls) <= Len(pulls') /\ DOMAIN pulls \subseteq DOMAIN pulls'
  /\ \A i \in DOMAIN pulls : /\ pulls'[i].branch = pulls[i].branch
                             /\ pulls'[i].state = "open" => pulls[i].state = "open"

LEMMA OpenStays ==
  ASSUME PullsGo, DOMAIN pulls' = DOMAIN pulls, OpenBook
  PROVE  OpenBook'
BY DEF PullsGo, OpenBook, OpenPulls

LEMMA PullStays ==
  ASSUME PullsGo, NEW b, HasPull(b)
  PROVE  HasPull(b)'
BY DEF PullsGo, HasPull

\* Without another pull request or another creation, no branch becomes live.
LEMMA NothingLive ==
  ASSUME PullsGo, DOMAIN pulls' = DOMAIN pulls,
         \A e \in effects' : e.to = "new" => e \in effects,
         NEW b, Live(b)'
  PROVE  Live(b)
<1>1. Only(b)' => Only(b) BY DEF PullsGo, Only
<1>2. Asked(b)' => Asked(b) BY PullStays DEF Asked
<1> QED BY <1>1, <1>2 DEF Live

LEMMA OnlyIsOpen ==
  ASSUME NEW b, Only(b)
  PROVE  HasOpen(b)
BY DEF Only, HasOpen

LEMMA PullEdited ==
  ASSUME PullsTyped, NEW i \in DOMAIN pulls, NEW r \in Pull,
         pulls' = [pulls EXCEPT ![i] = r], r.branch = pulls[i].branch,
         r.state = "open" => pulls[i].state = "open"
  PROVE  PullsTyped' /\ PullsGo /\ DOMAIN pulls' = DOMAIN pulls
<1>1. /\ pulls' \in Seq(Pull) /\ Len(pulls') = Len(pulls) /\ DOMAIN pulls' = DOMAIN pulls
      /\ Len(pulls) \in Nat
  BY DEF PullsTyped
<1>2. PullsTyped' BY <1>1 DEF PullsTyped
<1> QED BY <1>1, <1>2 DEF PullsGo

LEMMA PullsRest ==
  ASSUME PullsTyped, pulls' = pulls
  PROVE  PullsTyped' /\ PullsGo /\ DOMAIN pulls' = DOMAIN pulls
<1>1. Len(pulls) \in Nat BY DEF PullsTyped
<1> QED BY <1>1 DEF PullsTyped, PullsGo

-----------------------------------------------------------------------------
(* Steps of people, and writes that land.                                  *)

Away == UNCHANGED <<spc, syncRunVars, lookVars, mine, pubHead>>

LEMMA AwayBooks ==
  ASSUME SyncIInv, Away, PullsGo, OpenBook', effects' \subseteq effects,
         \A b \in Branches : Live(b)' => Live(b),
         \A b \in Branches : Live(b)' => refs'[b] # Absent,
         \A b \in Branches : refs'[b] = Absent => refs[b] = Absent \/ HasPull(b)
  PROVE  SyncBooks'
<1> USE DEF SyncIInv, SyncBooks
<1>1. UNCHANGED <<spc, invocation, rbase, ver, repairing, seen, planned, observed, mine, pubHead>>
  BY DEF Away, syncRunVars, lookVars
<1>2. BranchBook' BY DEF BranchBook, Branches
<1>3. SeenBook'
  <2>1. Len(pulls) \in Nat /\ Len(seen) \in Nat /\ DOMAIN pulls = 1..Len(pulls)
        /\ DOMAIN seen = 1..Len(seen)
    BY DEF SyncParts, PullsTyped, LookTyped
  <2>2. Len(pulls') \in Nat \/ Len(seen) <= Len(pulls') BY <2>1 DEF PullsGo, SeenBook
  <2>3. Len(seen) <= Len(pulls') BY <2>1, <2>2 DEF PullsGo, SeenBook
  <2>4. \A i \in DOMAIN seen : i \in DOMAIN pulls BY <2>1 DEF SeenBook
  <2> QED BY <1>1, <2>3, <2>4 DEF SeenBook, PullsGo
<1>4. LiveBook' BY <1>1 DEF LiveBook, Branches
<1>5. AskBook'
  <2> SUFFICES ASSUME spc = "pull", observed.num = 0,
                      NEW b \in Branches, b = planned.branch
               PROVE  refs'[b] # Absent \/ HasPull(b)'
    <3>1. spc = "pull" => planned.branch \in Branches BY DEF SyncParts, LookTyped
    <3> QED BY <1>1, <3>1 DEF AskBook, HasPull
  <2>1. refs[b] # Absent \/ HasPull(b) BY DEF AskBook
  <2> QED BY <2>1, PullStays
<1>6. PlanBook' BY <1>1 DEF PlanBook, Exactly
<1>7. PushBook' BY DEF PushBook, PushOK
<1> QED BY <1>2, <1>3, <1>4, <1>5, <1>6, <1>7

LEMMA AwayTypes ==
  ASSUME SyncIInv, Away, PullsGo, PullsTyped', MainsTyped', RefsTyped', PeopleTyped',
         effects' \subseteq effects
  PROVE  SyncParts'
<1> USE DEF SyncIInv, SyncParts
<1>1. UNCHANGED <<spc, invocation, rbase, ver, repairing, seen, planned, observed, mine, pubHead>>
  BY DEF Away, syncRunVars, lookVars
<1>2. EffectsTyped'
  <2>1. effects' \subseteq RefWrite \cup NewWrite \cup BodyWrite BY DEF EffectsTyped
  <2>2. ASSUME NEW e \in effects', e.to = "body" PROVE e.num <= Len(pulls')
    <3>1. e \in BodyWrite /\ e.num <= Len(pulls) BY <2>2, EffectKinds
    <3>2. e.num \in Nat BY <3>1 DEF BodyWrite
    <3>3. Len(pulls) \in Nat /\ Len(pulls') \in Nat BY DEF PullsTyped
    <3> QED BY <3>1, <3>2, <3>3 DEF PullsGo
  <2> QED BY <2>1, <2>2 DEF EffectsTyped, RefWrite, NewWrite, BodyWrite, Branches, SyncCommit
<1>3. RunTyped' BY <1>1 DEF RunTyped
<1>4. LookTyped' BY <1>1 DEF LookTyped, Observation, Branches, SyncCommit, Pull
<1>5. CandidateTyped' BY <1>1 DEF CandidateTyped, SyncCommit
<1> QED BY <1>2, <1>3, <1>4, <1>5

LEMMA PeopleKeep ==
  ASSUME SyncIInv, People
  PROVE  SyncIInv'
<1> USE DEF SyncIInv, SyncParts
<1>1. Away /\ effects' = effects /\ PeopleTyped'
  BY SyncAssumption DEF People, Away, PeopleTyped
<1>2. CASE MainAdvances
  <2>1. UNCHANGED <<refs, pulls>> BY <1>2 DEF MainAdvances
  <2>2. MainsTyped'
    <3> DEFINE m == [mains[Len(mains)] EXCEPT !.via = Absent]
    <3>1. mains[Len(mains)] \in MainType BY DEF MainsTyped
    <3>2. m \in MainType BY <3>1, AbsentTyped DEF MainType
    <3>3. mains' = Append(mains, m) /\ Len(mains) < MaxMain BY <1>2 DEF MainAdvances
    <3> HIDE DEF m
    <3> QED BY <3>2, <3>3, SyncAssumption DEF MainsTyped
  <2>3. PullsTyped' /\ PullsGo /\ DOMAIN pulls' = DOMAIN pulls BY <2>1, PullsRest
  <2>4. RefsTyped' BY <2>1 DEF RefsTyped
  <2>5. SyncParts' BY <1>1, <2>2, <2>3, <2>4, AwayTypes
  <2>6. \A b \in Branches : Live(b)' => Live(b) BY <1>1, <2>3, NothingLive
  <2>7. SyncBooks' BY <1>1, <2>1, <2>3, <2>6, OpenStays, AwayBooks DEF SyncBooks, BranchBook
  <2> QED BY <2>5, <2>7
<1>3. CASE PullMerged \/ PullClosed \/ NoteEdited
  <2>1. PICK i \in DOMAIN pulls, r \in Pull :
          /\ pulls' = [pulls EXCEPT ![i] = r] /\ r.branch = pulls[i].branch
          /\ r.state = "open" => pulls[i].state = "open"
    <3>1. CASE PullMerged
      <4>1. PICK i \in DOMAIN pulls :
              pulls' = [pulls EXCEPT ![i].state = "merged", ![i].head = refs[pulls[i].branch]]
        BY <3>1 DEF PullMerged
      <4> DEFINE c == refs[pulls[i].branch]
                 r == [pulls[i] EXCEPT !.state = "merged", !.head = c]
      <4>2. pulls[i] \in Pull BY DEF PullsTyped
      <4>3. c \in SyncCommit BY <4>2 DEF RefsTyped, Pull
      <4>4. pulls' = [pulls EXCEPT ![i] = r] BY <4>1
      <4> HIDE DEF c
      <4>5. r \in Pull /\ r.branch = pulls[i].branch /\ r.state = "merged" BY <4>2, <4>3 DEF Pull
      <4> HIDE DEF r
      <4> QED BY <4>4, <4>5
    <3>2. CASE PullClosed
      <4>1. PICK i \in DOMAIN pulls :
              pulls' = [pulls EXCEPT ![i].state = "closed", ![i].head = refs[pulls[i].branch]]
        BY <3>2 DEF PullClosed
      <4> DEFINE c == refs[pulls[i].branch]
                 r == [pulls[i] EXCEPT !.state = "closed", !.head = c]
      <4>2. pulls[i] \in Pull BY DEF PullsTyped
      <4>3. c \in SyncCommit BY <4>2 DEF RefsTyped, Pull
      <4>4. pulls' = [pulls EXCEPT ![i] = r] BY <4>1
      <4> HIDE DEF c
      <4>5. r \in Pull /\ r.branch = pulls[i].branch /\ r.state = "closed" BY <4>2, <4>3 DEF Pull
      <4> HIDE DEF r
      <4> QED BY <4>4, <4>5
    <3>3. CASE NoteEdited
      <4>1. PICK i \in DOMAIN pulls :
              pulls[i].state = "open" /\ pulls' = [pulls EXCEPT ![i].note = 1 - @]
        BY <3>3 DEF NoteEdited
      <4> DEFINE r == [pulls[i] EXCEPT !.note = 1 - @]
      <4>2. pulls[i] \in Pull BY DEF PullsTyped
      <4>3. pulls' = [pulls EXCEPT ![i] = r] BY <4>1
      <4>4. 1 - pulls[i].note \in 0..1 BY <4>2 DEF Pull
      <4>5. r \in Pull /\ r.branch = pulls[i].branch BY <4>2, <4>4 DEF Pull
      <4> HIDE DEF r
      <4> QED BY <4>1, <4>3, <4>5
    <3> QED BY <1>3, <3>1, <3>2, <3>3
  <2>2. PullsTyped' /\ PullsGo /\ DOMAIN pulls' = DOMAIN pulls BY <2>1, PullEdited
  <2>3. refs' = refs BY <1>3 DEF PullMerged, PullClosed, NoteEdited
  <2>4. RefsTyped' BY <2>3 DEF RefsTyped
  <2>5. MainsTyped'
    <3>1. CASE PullMerged
      <4>1. PICK k \in DOMAIN pulls :
              mains' = Append(mains, [ver |-> refs[pulls[k].branch].ver,
                                      via |-> refs[pulls[k].branch]])
        BY <3>1 DEF PullMerged
      <4> DEFINE c == refs[pulls[k].branch]
                 m == [ver |-> c.ver, via |-> c]
      <4>2. pulls[k] \in Pull BY DEF PullsTyped
      <4>3. c \in SyncCommit BY <4>2 DEF RefsTyped, Pull
      <4>4. mains' = Append(mains, m) /\ Len(mains) < MaxMain BY <3>1, <4>1 DEF PullMerged
      <4> HIDE DEF c
      <4>5. m \in MainType BY <4>3 DEF MainType, SyncCommit
      <4> HIDE DEF m
      <4> QED BY <4>4, <4>5, SyncAssumption DEF MainsTyped
    <3>2. CASE PullClosed \/ NoteEdited BY <3>2 DEF PullClosed, NoteEdited, MainsTyped
    <3> QED BY <1>3, <3>1, <3>2
  <2>6. SyncParts' BY <1>1, <2>2, <2>4, <2>5, AwayTypes
  <2>7. \A b \in Branches : Live(b)' => Live(b) BY <1>1, <2>2, NothingLive
  <2>8. SyncBooks' BY <1>1, <2>2, <2>3, <2>7, OpenStays, AwayBooks DEF SyncBooks, BranchBook
  <2> QED BY <2>6, <2>8
<1>4. CASE BranchChanged \/ BranchDeleted
  <2>1. UNCHANGED <<mains, pulls>> BY <1>4 DEF BranchChanged, BranchDeleted
  <2>2. PullsTyped' /\ PullsGo /\ DOMAIN pulls' = DOMAIN pulls BY <2>1, PullsRest
  <2>3. MainsTyped' BY <2>1 DEF MainsTyped
  <2>4. PICK b \in Branches, r \in SyncCommit :
          /\ refs' = [refs EXCEPT ![b] = r]
          /\ r = Absent => HasPull(b) /\ ~HasOpen(b)
    <3>1. CASE BranchChanged
      <4>1. PICK b \in Branches, k \in {"human", "merge"} : refs' = [refs EXCEPT ![b].kind = k]
        BY <3>1 DEF BranchChanged
      <4> DEFINE r == [refs[b] EXCEPT !.kind = k]
      <4>2. refs[b] \in SyncCommit BY DEF RefsTyped
      <4>3. r \in SyncCommit /\ r.kind = k BY <4>2 DEF SyncCommit
      <4>4. refs' = [refs EXCEPT ![b] = r] BY <4>1
      <4> HIDE DEF r
      <4> QED BY <4>3, <4>4, AbsentTyped
    <3>2. CASE BranchDeleted BY <3>2, AbsentTyped DEF BranchDeleted, HasPull
    <3> QED BY <1>4, <3>1, <3>2
  <2>5. RefsTyped' BY <2>4 DEF RefsTyped
  <2>6. SyncParts' BY <1>1, <2>2, <2>3, <2>5, AwayTypes
  <2>7. \A c \in Branches : Live(c)' => Live(c) BY <1>1, <2>2, NothingLive
  <2>8. \A c \in Branches : Live(c)' => refs'[c] # Absent
    BY <2>4, <2>7, OnlyIsOpen DEF RefsTyped, SyncBooks, BranchBook, Live, Asked
  <2>9. \A c \in Branches : refs'[c] = Absent => refs[c] = Absent \/ HasPull(c)
    BY <2>4 DEF RefsTyped
  <2>10. SyncBooks' BY <1>1, <2>2, <2>7, <2>8, <2>9, OpenStays, AwayBooks DEF SyncBooks
  <2> QED BY <2>6, <2>10
<1> QED BY <1>2, <1>3, <1>4 DEF People

LEMMA EffectKeeps ==
  ASSUME SyncIInv, NEW e \in effects, EffectLands(e) \/ EffectLost(e)
  PROVE  SyncIInv'
<1> USE DEF SyncIInv, SyncParts
<1>1. Away /\ effects' \subseteq effects /\ UNCHANGED <<mains, people>>
  BY DEF EffectLands, EffectLost, Away, syncHubVars
<1>2. PeopleTyped' /\ MainsTyped' BY <1>1 DEF PeopleTyped, MainsTyped
<1>3. CASE EffectLost(e)
  <2>1. UNCHANGED <<refs, pulls>> BY <1>3 DEF EffectLost, syncHubVars
  <2>2. PullsTyped' /\ PullsGo /\ DOMAIN pulls' = DOMAIN pulls BY <2>1, PullsRest
  <2>3. RefsTyped' BY <2>1 DEF RefsTyped
  <2>4. SyncParts' BY <1>1, <1>2, <2>2, <2>3, AwayTypes
  <2>5. \A b \in Branches : Live(b)' => Live(b) BY <1>1, <2>2, NothingLive
  <2>6. SyncBooks' BY <1>1, <2>1, <2>2, <2>5, OpenStays, AwayBooks DEF SyncBooks, BranchBook
  <2> QED BY <2>4, <2>6
<1>4. CASE EffectLands(e) /\ e.to = "ref"
  <2>1. pulls' = pulls /\ refs' = [refs EXCEPT ![e.branch] = e.new] BY <1>4 DEF EffectLands
  <2>2. e \in RefWrite /\ e.new.kind = "single"
    BY <1>4, EffectKinds DEF SyncBooks, PushBook, PushOK
  <2>3. e.branch \in Branches /\ e.new \in SyncCommit /\ e.new # Absent
    BY <2>2, AbsentTyped DEF RefWrite
  <2>4. PullsTyped' /\ PullsGo /\ DOMAIN pulls' = DOMAIN pulls BY <2>1, PullsRest
  <2>5. RefsTyped' BY <2>1, <2>3 DEF RefsTyped
  <2>6. SyncParts' BY <1>1, <1>2, <2>4, <2>5, AwayTypes
  <2>7. \A b \in Branches : Live(b)' => Live(b) BY <1>1, <2>4, NothingLive
  <2>8. \A b \in Branches : refs'[b] = Absent => refs[b] = Absent BY <2>1, <2>3 DEF RefsTyped
  <2>9. SyncBooks' BY <1>1, <2>4, <2>7, <2>8, OpenStays, AwayBooks DEF SyncBooks, BranchBook
  <2> QED BY <2>6, <2>9
<1>5. CASE EffectLands(e) /\ e.to = "body"
  <2>1. refs' = refs /\ pulls' = [pulls EXCEPT ![e.num].proj = e.new, ![e.num].note = e.note]
    BY <1>5 DEF EffectLands
  <2>2. e \in BodyWrite /\ e.num <= Len(pulls) BY <1>5, EffectKinds
  <2>3. e.num \in DOMAIN pulls /\ e.new \in SyncCommit /\ e.note \in 0..1
    BY <2>2 DEF BodyWrite, PullsTyped
  <2> DEFINE r == [pulls[e.num] EXCEPT !.proj = e.new, !.note = e.note]
  <2>4. pulls[e.num] \in Pull BY <2>3 DEF PullsTyped
  <2>5. r \in Pull /\ r.branch = pulls[e.num].branch /\ r.state = pulls[e.num].state
    BY <2>3, <2>4 DEF Pull
  <2>6. pulls' = [pulls EXCEPT ![e.num] = r] BY <2>1, <2>3
  <2> HIDE DEF r
  <2>7. PullsTyped' /\ PullsGo /\ DOMAIN pulls' = DOMAIN pulls BY <2>3, <2>5, <2>6, PullEdited
  <2>8. RefsTyped' BY <2>1 DEF RefsTyped
  <2>9. SyncParts' BY <1>1, <1>2, <2>7, <2>8, AwayTypes
  <2>10. \A b \in Branches : Live(b)' => Live(b) BY <1>1, <2>7, NothingLive
  <2>11. SyncBooks' BY <1>1, <2>1, <2>7, <2>10, OpenStays, AwayBooks DEF SyncBooks, BranchBook
  <2> QED BY <2>9, <2>11
<1>6. CASE EffectLands(e) /\ e.to = "new"
  <2> DEFINE r == [branch |-> e.branch, state |-> "open", proj |-> e.new, note |-> 0,
                  head |-> Absent]
             n == Len(pulls) + 1
  <2>1. /\ refs' = refs /\ pulls' = Append(pulls, r) /\ refs[e.branch] # Absent
        /\ Len(pulls) < MaxPulls
    BY <1>6 DEF EffectLands
  <2>2. e \in NewWrite BY <1>6, EffectKinds
  <2>3. r \in Pull /\ r.branch = e.branch /\ e.branch \in Branches
    BY <2>2, AbsentTyped DEF NewWrite, Pull
  <2> HIDE DEF r
  <2>4. /\ Len(pulls) \in Nat /\ Len(pulls') = n /\ DOMAIN pulls = 1..Len(pulls)
        /\ DOMAIN pulls' = 1..n /\ pulls' \in Seq(Pull) /\ pulls'[n] = r
        /\ \A i \in DOMAIN pulls : pulls'[i] = pulls[i]
    BY <2>1, <2>3 DEF PullsTyped
  <2>5. n \in Nat /\ n \notin DOMAIN pulls /\ DOMAIN pulls' = DOMAIN pulls \cup {n} BY <2>4
  <2>6. PullsTyped' BY <2>1, <2>4, SyncAssumption DEF PullsTyped
  <2>7. PullsGo BY <2>4, <2>5 DEF PullsGo
  <2> HIDE DEF n
  <2>8. RefsTyped' BY <2>1 DEF RefsTyped
  <2>9. SyncParts' BY <1>1, <1>2, <2>6, <2>7, <2>8, AwayTypes
  <2>10. ASSUME NEW b \in Branches, Only(b)' PROVE Live(b)
    <3>1. PICK i \in DOMAIN pulls' : /\ pulls'[i].state = "open"
                                     /\ \A j \in DOMAIN pulls' : pulls'[j].branch = b <=> j = i
      BY <2>10 DEF Only
    <3>2. CASE i \in DOMAIN pulls
      <4>1. pulls[i].state = "open" /\ \A j \in DOMAIN pulls : pulls[j].branch = b <=> j = i
        BY <2>4, <2>5, <3>1, <3>2
      <4> QED BY <3>2, <4>1 DEF Live, Only
    <3>3. CASE i = n
      <4>1. b = e.branch BY <2>3, <2>4, <3>1, <3>3
      <4>2. \A j \in DOMAIN pulls : pulls[j].branch # b BY <2>4, <2>5, <3>1, <3>3
      <4> QED BY <1>6, <4>1, <4>2 DEF Live, Asked, HasPull
    <3> QED BY <2>5, <3>2, <3>3
  <2>11. ASSUME NEW b \in Branches PROVE Asked(b)' => Asked(b)
    BY <1>1, <2>7, PullStays DEF Asked
  <2>12. \A b \in Branches : Live(b)' => Live(b) BY <2>10, <2>11 DEF Live
  <2>13. OpenBook'
    <3>1. \A i \in DOMAIN pulls : pulls[i].state = "open" => pulls[i].branch # e.branch
      BY <1>6 DEF EffectLands, HasOpen
    <3>2. \A i \in OpenPulls(pulls)' : i = n \/ i \in OpenPulls(pulls) BY <2>4, <2>5 DEF OpenPulls
    <3> QED BY <2>3, <2>4, <3>1, <3>2 DEF SyncBooks, OpenBook, OpenPulls
  <2>14. SyncBooks' BY <1>1, <2>1, <2>7, <2>12, <2>13, AwayBooks DEF SyncBooks, BranchBook
  <2> QED BY <2>9, <2>14
<1> QED BY <1>3, <1>4, <1>5, <1>6 DEF EffectLands

-----------------------------------------------------------------------------
(* What an inspection of the list finds.                                   *)

LEMMA FreshTyped ==
  ASSUME RunTyped, spc # "idle"
  PROVE  /\ Fresh \in Observation /\ Fresh.branch \in Branches
         /\ Fresh.num = 0 /\ Fresh.head = Absent
<1>1. <<ver, rbase>> \in Branches BY DEF RunTyped, Branches
<1>2. NoObservation \in Observation BY AbsentTyped
<1> QED BY <1>1, <1>2 DEF Fresh, Observation, NoObservation

\* A branch that is live has no pull request in a list without open ones: it is
\* among the orphans.
LEMMA LiveIsOrphan ==
  ASSUME SyncIInv, OpenPulls(seen) = {}, NEW b \in Branches, Live(b)
  PROVE  refs[b] # Absent /\ \A i \in DOMAIN seen : seen[i].branch # b
<1> USE DEF SyncIInv, SyncParts, SyncBooks
<1>1. refs[b] # Absent BY DEF BranchBook
<1>2. \A i \in DOMAIN seen : i \in DOMAIN pulls /\ seen[i].branch = pulls[i].branch
  BY DEF SeenBook, LookTyped, PullsTyped
<1>3. CASE Only(b)
  <2>1. PICK k \in DOMAIN pulls : /\ pulls[k].state = "open"
                                  /\ \A j \in DOMAIN pulls : pulls[j].branch = b <=> j = k
    BY <1>3 DEF Only
  <2>2. k \notin DOMAIN seen BY <2>1 DEF SeenBook, OpenPulls
  <2> QED BY <1>1, <1>2, <2>1, <2>2
<1>4. CASE Asked(b) BY <1>1, <1>2, <1>4 DEF Asked, HasPull
<1> QED BY <1>3, <1>4 DEF Live

LEMMA Inspected ==
  ASSUME SyncIInv, spc # "idle", NEW o \in InspectPending(seen)
  PROVE  /\ o \in Observation /\ o.branch \in Branches /\ o.num <= Len(seen)
         /\ o.head.kind # "human" /\ (o.head.kind = "merge" => repairing)
         /\ o.head = Absent \/ o.head = refs[o.branch]
         /\ o.num = 0 => \A b \in Branches : Live(b) => b = o.branch
<1> USE DEF SyncIInv, SyncParts
<1>1. /\ Len(seen) \in Nat /\ Len(seen) <= MaxPulls /\ DOMAIN seen = 1..Len(seen)
      /\ \A i \in DOMAIN seen : seen[i] \in Pull
  BY DEF LookTyped
<1>2. CASE OpenPulls(seen) = {}
  <2> DEFINE orphans ==
               {b \in Branches : refs[b] # Absent /\ \A i \in DOMAIN seen : seen[i].branch # b}
  <2>1. o \in InspectOrphan(seen) BY <1>2 DEF InspectPending
  <2>2. ASSUME NEW b \in Branches, Live(b) PROVE b \in orphans
    BY <1>2, <2>2, LiveIsOrphan
  <2>3. Fresh \in Observation /\ Fresh.branch \in Branches /\ Fresh.num = 0 /\ Fresh.head = Absent
    BY FreshTyped
  <2>4. CASE orphans = {}
    <3>1. o = Fresh BY <2>1, <2>4 DEF InspectOrphan
    <3> QED BY <1>1, <2>2, <2>3, <2>4, <3>1, AbsentTyped
  <2>5. CASE orphans # {}
    <3>1. PICK b \in orphans : /\ orphans = {b} /\ OwnCandidate(refs[b])
                               /\ o = [Fresh EXCEPT !.branch = b, !.head = refs[b]]
      BY <2>1, <2>5 DEF InspectOrphan
    <3>2. b \in Branches /\ refs[b] \in SyncCommit /\ refs[b].kind = "single"
      BY <3>1 DEF RefsTyped, OwnCandidate
    <3>3. o \in Observation /\ o.branch = b /\ o.head = refs[b] /\ o.num = 0
      BY <2>3, <3>1, <3>2 DEF Observation
    <3>4. \A c \in Branches : Live(c) => c = b BY <2>2, <3>1
    <3> QED BY <1>1, <3>2, <3>3, <3>4
  <2> QED BY <2>4, <2>5
<1>3. CASE OpenPulls(seen) # {}
  <2>1. o \in InspectPull(seen) BY <1>3 DEF InspectPending
  <2>2. PICK j \in OpenPulls(seen) :
          /\ OwnCandidate(refs[seen[j].branch]) \/ Repairable(refs[seen[j].branch])
          /\ o = [num |-> j, branch |-> seen[j].branch, head |-> refs[seen[j].branch],
                  reusable |-> Current(refs[seen[j].branch]) /\ seen[j].proj = refs[seen[j].branch],
                  repair |-> refs[seen[j].branch].kind = "merge"]
    BY <2>1 DEF InspectPull
  <2> DEFINE c == refs[seen[j].branch]
  <2>3. j \in 1..Len(seen) /\ seen[j] \in Pull BY <1>1 DEF OpenPulls
  <2>4. j \in 0..MaxPulls /\ j # 0 /\ j <= Len(seen) BY <1>1, <2>3, SyncAssumption
  <2>5. seen[j].branch \in Branches BY <2>3 DEF Pull
  <2>6. c \in SyncCommit BY <2>5 DEF RefsTyped
  <2>7. c.kind # "human" /\ (c.kind = "merge" => repairing)
    BY <2>2 DEF OwnCandidate, Repairable
  <2>8. /\ (Current(c) /\ seen[j].proj = c) \in BOOLEAN
        /\ (c.kind = "merge") \in BOOLEAN
    OBVIOUS
  <2> HIDE DEF c
  <2>9. /\ o.num = j /\ o.branch = seen[j].branch /\ o.head = c
        /\ o = [num |-> j, branch |-> seen[j].branch, head |-> c,
                reusable |-> Current(c) /\ seen[j].proj = c, repair |-> c.kind = "merge"]
    BY <2>2 DEF c
  <2>10. o \in Observation BY <2>4, <2>5, <2>6, <2>8, <2>9 DEF Observation
  <2>11. o.head = refs[o.branch] BY <2>9 DEF c
  <2> QED BY <2>4, <2>5, <2>7, <2>9, <2>10, <2>11
<1> QED BY <1>2, <1>3

-----------------------------------------------------------------------------
(* Steps of an invocation.                                                 *)

LEMMA AtHomeTypes ==
  ASSUME SyncIInv, UNCHANGED syncHubVars, RunTyped', LookTyped', CandidateTyped', EffectsTyped'
  PROVE  SyncParts'
<1>1. UNCHANGED <<mains, refs, pulls, people>> BY DEF syncHubVars
<1>2. MainsTyped' /\ RefsTyped' /\ PullsTyped' /\ PeopleTyped'
  BY <1>1 DEF SyncIInv, SyncParts, MainsTyped, RefsTyped, PullsTyped, PeopleTyped
<1> QED BY <1>2 DEF SyncParts

\* The repository rests; what the step has to show is what it may disturb.
LEMMA AtHomeBooks ==
  ASSUME SyncIInv, UNCHANGED syncHubVars,
         \A e \in effects' : e.to = "new" => e \in effects,
         SeenBook', PlanBook', PushBook', AskBook',
         spc' \in {"push", "pushed", "pull"} /\ observed'.num = 0 =>
           \A b \in Branches : Live(b) => b = planned'.branch
  PROVE  SyncBooks'
<1> USE DEF SyncIInv, SyncBooks
<1>1. UNCHANGED <<mains, refs, pulls, people>> BY DEF syncHubVars
<1>2. PullsGo /\ DOMAIN pulls' = DOMAIN pulls BY <1>1, PullsRest DEF SyncParts
<1>3. \A b \in Branches : Live(b)' => Live(b) BY <1>2, NothingLive
<1>4. BranchBook' BY <1>1, <1>3 DEF BranchBook
<1>5. LiveBook' BY <1>3 DEF LiveBook
<1>6. OpenBook' BY <1>2, OpenStays
<1> QED BY <1>4, <1>5, <1>6

\* A step that only moves on.
LEMMA MovesOn ==
  ASSUME SyncIInv, UNCHANGED <<syncHubVars, effects, syncRunVars, lookVars, mine, pubHead>>,
         spc \notin {"idle", "list", "inspect"}, spc' \in Working,
         spc' \in {"push", "pushed"} => spc \in {"push", "pushed"},
         spc' = "pull" => /\ spc = "pushed"
                          /\ refs[planned.branch] # Absent,
         PlanBook'
  PROVE  SyncIInv'
<1> USE DEF SyncIInv
<1>1. UNCHANGED <<refs, pulls, effects, invocation, rbase, ver, repairing, seen, planned, observed,
                  mine, pubHead, syncHubVars>>
  BY DEF syncHubVars, syncRunVars, lookVars
<1>2. RunTyped' BY <1>1 DEF SyncParts, RunTyped
<1>3. LookTyped' BY <1>1 DEF SyncParts, LookTyped
<1>4. CandidateTyped' /\ EffectsTyped' BY <1>1 DEF SyncParts, CandidateTyped, EffectsTyped
<1>5. SyncParts' BY <1>1, <1>2, <1>3, <1>4, AtHomeTypes
<1>6. SeenBook' /\ PushBook' BY <1>1 DEF SyncBooks, SeenBook, PushBook
<1>7. AskBook' BY <1>1 DEF SyncBooks, AskBook, HasPull
<1>8. spc' \in {"push", "pushed", "pull"} /\ observed'.num = 0 =>
        \A b \in Branches : Live(b) => b = planned'.branch
  BY <1>1 DEF SyncBooks, LiveBook
<1>9. SyncBooks' BY <1>1, <1>6, <1>7, <1>8, AtHomeBooks
<1> QED BY <1>5, <1>9

LEMMA WalkKeepsSync ==
  ASSUME SyncIInv, CheckBase \/ ReadPush \/ ReadPull \/ CheckLanding \/ Confirm
  PROVE  SyncIInv'
<1> USE DEF SyncIInv
<1>1. /\ UNCHANGED <<syncHubVars, effects, syncRunVars, lookVars, mine, pubHead>>
      /\ UNCHANGED <<rbase, ver, repairing, planned, mine, pubHead>>
      /\ spc' \in Working /\ spc \notin {"idle", "list", "inspect"}
  BY DEF CheckBase, ReadPush, ReadPull, CheckLanding, Confirm, syncRunVars, lookVars, Working
<1>2. CASE CheckBase
  <2>1. spc = "base" /\ spc' \in {"materialize", "reused", "generate"}
        /\ (spc' = "generate" => ~repairing)
    BY <1>2 DEF CheckBase
  <2>2. PlanBook' BY <1>1, <2>1 DEF SyncBooks, PlanBook
  <2> QED BY <1>1, <2>1, <2>2, MovesOn
<1>3. CASE ReadPush
  <2>1. spc = "pushed" /\ spc' = "pull" /\ refs[planned.branch] = mine BY <1>3 DEF ReadPush
  <2>2. mine.kind = "single" BY <2>1 DEF SyncBooks, PlanBook, Exactly
  <2>3. refs[planned.branch] # Absent BY <2>1, <2>2, AbsentTyped
  <2>4. PlanBook' BY <1>1, <2>1 DEF SyncBooks, PlanBook, Exactly
  <2> QED BY <1>1, <2>1, <2>3, <2>4, MovesOn
<1>4. CASE ReadPull \/ CheckLanding \/ Confirm
  <2>1. /\ spc \in {"patched", "created", "landing", "final"}
        /\ spc' \in {"landing", "final", "published"}
    BY <1>4 DEF ReadPull, CheckLanding, Confirm
  <2>2. PlanBook' BY <1>1, <2>1 DEF SyncBooks, PlanBook, Exactly
  <2> QED BY <1>1, <2>1, <2>2, MovesOn
<1> QED BY <1>2, <1>3, <1>4

\* The ends of an invocation, and its beginning: it forgets what it knew.
LEMMA ForgetKeeps ==
  ASSUME SyncIInv, Sync \/ Stops
  PROVE  SyncIInv'
<1> USE DEF SyncIInv
<1>1. /\ UNCHANGED <<syncHubVars, effects>> /\ UNCHANGED <<pulls, mains, refs>>
      /\ seen' = <<>> /\ planned' = NoObservation /\ observed' = NoObservation
      /\ mine' = Absent /\ pubHead' = Absent /\ spc' \in {"idle", "list"}
  BY DEF Sync, Stops, syncHubVars
<1>2. RunTyped'
  <2>1. CASE Sync
    <3>1. Len(mains) \in 1..MaxMain BY DEF SyncParts, MainsTyped
    <3>2. spc' = "list" /\ rbase' = Len(mains) /\ ver' \in Versions /\ repairing' \in BOOLEAN
          /\ invocation' = invocation + 1 /\ invocation < MaxAttempts
      BY <2>1 DEF Sync
    <3>3. ver' # 0 BY <3>2, SyncAssumption
    <3>4. invocation' \in 0..MaxAttempts BY <3>2, SyncAssumption DEF SyncParts, RunTyped
    <3> QED BY <3>1, <3>2, <3>3, <3>4 DEF RunTyped, Working
  <2>2. CASE Stops
    <3>1. spc' = "idle" /\ rbase' = 0 /\ ver' = 0 /\ repairing' = FALSE /\ invocation' = invocation
      BY <2>2 DEF Stops
    <3>2. 0 \in 0..MaxMain /\ invocation' \in 0..MaxAttempts
      BY <3>1, SyncAssumption DEF SyncParts, RunTyped
    <3>3. repairing' \in BOOLEAN BY <3>1
    <3> QED BY <3>1, <3>2, <3>3 DEF RunTyped
  <2> QED BY <2>1, <2>2
<1>3. LookTyped'
  <2>1. <<>> \in Seq(Pull) /\ Len(<<>>) = 0 OBVIOUS
  <2> QED BY <1>1, <2>1, AbsentTyped, SyncAssumption DEF LookTyped
<1>4. CandidateTyped' /\ EffectsTyped'
  BY <1>1, AbsentTyped DEF SyncParts, CandidateTyped, EffectsTyped
<1>5. SyncParts' BY <1>1, <1>2, <1>3, <1>4, AtHomeTypes
<1>6. SeenBook'
  <2>1. Len(pulls) \in Nat BY DEF SyncParts, PullsTyped
  <2>2. Len(seen') = 0 /\ DOMAIN seen' = {} BY <1>1
  <2>3. observed'.num = 0 BY <1>1 DEF NoObservation
  <2> QED BY <1>1, <2>1, <2>2, <2>3 DEF SeenBook
<1>7. PlanBook' /\ AskBook' BY <1>1 DEF PlanBook, AskBook
<1>8. PushBook' BY <1>1 DEF SyncBooks, PushBook
<1>9. SyncBooks' BY <1>1, <1>6, <1>7, <1>8, AtHomeBooks
<1> QED BY <1>5, <1>9

\* The list is read, by Sync and again by Publish.
LEMMA ListKeeps ==
  ASSUME SyncIInv, ListPulls \/ Publish
  PROVE  SyncIInv'
<1> USE DEF SyncIInv
<1>1. /\ UNCHANGED <<syncHubVars, effects, syncRunVars>>
      /\ UNCHANGED <<pulls, invocation, rbase, ver, repairing, planned, observed, mine, pubHead>>
      /\ seen' = pulls
      /\ \/ spc = "list" /\ spc' = "inspect"
         \/ spc = "publish" /\ spc' = "again"
  BY DEF ListPulls, Publish, syncHubVars, syncRunVars
<1>2. RunTyped' BY <1>1 DEF SyncParts, RunTyped, Working
<1>3. LookTyped' BY <1>1 DEF SyncParts, LookTyped, PullsTyped
<1>4. CandidateTyped' /\ EffectsTyped' BY <1>1 DEF SyncParts, CandidateTyped, EffectsTyped
<1>5. SyncParts' BY <1>1, <1>2, <1>3, <1>4, AtHomeTypes
<1>6. SeenBook'
  <2>1. Len(pulls) \in Nat /\ Len(seen) \in Nat /\ observed.num \in Nat
    BY DEF SyncParts, PullsTyped, LookTyped, Observation
  <2>2. observed.num <= Len(pulls) BY <2>1 DEF SyncBooks, SeenBook
  <2> QED BY <1>1, <2>1, <2>2 DEF SeenBook
<1>7. PlanBook' BY <1>1 DEF SyncBooks, PlanBook, Exactly
<1>8. AskBook' BY <1>1 DEF AskBook
<1>9. PushBook' BY <1>1 DEF SyncBooks, PushBook
<1>10. SyncBooks' BY <1>1, <1>6, <1>7, <1>8, <1>9, AtHomeBooks
<1> QED BY <1>5, <1>10

LEMMA InspectKeeps ==
  ASSUME SyncIInv, Inspect
  PROVE  SyncIInv'
<1> USE DEF SyncIInv
<1>1. /\ UNCHANGED <<syncHubVars, effects, syncRunVars>>
      /\ UNCHANGED <<pulls, invocation, rbase, ver, repairing, seen, observed, mine, pubHead>>
      /\ spc = "inspect" /\ spc' = "base"
  BY DEF Inspect, syncHubVars, syncRunVars
<1>2. PICK o \in InspectPending(seen) : planned' = o BY DEF Inspect
<1>3. /\ o \in Observation /\ o.branch \in Branches
      /\ o.head.kind # "human" /\ (o.head.kind = "merge" => repairing)
  BY <1>1, Inspected
<1>4. RunTyped' BY <1>1 DEF SyncParts, RunTyped, Working
<1>5. LookTyped' BY <1>1, <1>2, <1>3 DEF SyncParts, LookTyped
<1>6. CandidateTyped' /\ EffectsTyped' BY <1>1 DEF SyncParts, CandidateTyped, EffectsTyped
<1>7. SyncParts' BY <1>1, <1>4, <1>5, <1>6, AtHomeTypes
<1>8. SeenBook' /\ PushBook' BY <1>1 DEF SyncBooks, SeenBook, PushBook
<1>9. PlanBook' /\ AskBook' BY <1>1, <1>2, <1>3 DEF PlanBook, AskBook
<1>10. SyncBooks' BY <1>1, <1>8, <1>9, AtHomeBooks
<1> QED BY <1>7, <1>10

\* A candidate is built, from the target or from a head with merges.
LEMMA BuildKeeps ==
  ASSUME SyncIInv, Generate \/ MaterializeRepair
  PROVE  SyncIInv'
<1> USE DEF SyncIInv
<1>1. /\ UNCHANGED <<syncHubVars, effects, syncRunVars, lookVars>>
      /\ UNCHANGED <<pulls, invocation, rbase, ver, repairing, seen, planned, observed, pubHead>>
      /\ spc \in {"generate", "materialize"} /\ spc' = "publish"
  BY DEF Generate, MaterializeRepair, syncHubVars, syncRunVars, lookVars
<1>2. planned.head \in SyncCommit BY DEF SyncParts, LookTyped, Observation
<1>3. PICK t \in 0..1 : /\ mine' = Candidate(t)
                        /\ planned.head.kind = "merge" => t = planned.head.tree
  <2>1. CASE Generate
    <3>1. planned.head.kind # "merge" BY <1>1, <2>1 DEF SyncBooks, PlanBook, Generate
    <3> QED BY <2>1, <3>1 DEF Generate
  <2>2. CASE MaterializeRepair
    <3>1. planned.head.tree \in 0..1 BY <1>2 DEF SyncCommit
    <3> QED BY <2>2, <3>1 DEF MaterializeRepair
  <2> QED BY <2>1, <2>2
<1>4. mine' \in SyncCommit BY <1>3 DEF SyncParts, RunTyped, Candidate, SyncCommit
<1>5. /\ mine'.kind = "single" /\ mine'.base = rbase /\ mine'.ver = ver /\ mine'.tree = t
  BY <1>3 DEF Candidate
<1>6. RunTyped' BY <1>1 DEF SyncParts, RunTyped, Working
<1>7. LookTyped' BY <1>1 DEF SyncParts, LookTyped
<1>8. CandidateTyped' /\ EffectsTyped' BY <1>1, <1>4 DEF SyncParts, CandidateTyped, EffectsTyped
<1>9. SyncParts' BY <1>1, <1>6, <1>7, <1>8, AtHomeTypes
<1>10. SeenBook' /\ PushBook' BY <1>1 DEF SyncBooks, SeenBook, PushBook
<1>11. AskBook' BY <1>1 DEF AskBook
<1>12. PlanBook' BY <1>1, <1>3, <1>5 DEF SyncBooks, PlanBook, Exactly
<1>13. SyncBooks' BY <1>1, <1>10, <1>11, <1>12, AtHomeBooks
<1> QED BY <1>9, <1>13

LEMMA AgainKeeps ==
  ASSUME SyncIInv, InspectAgain
  PROVE  SyncIInv'
<1> USE DEF SyncIInv
<1>1. /\ UNCHANGED <<syncHubVars, effects, syncRunVars>>
      /\ UNCHANGED <<pulls, refs, invocation, rbase, ver, repairing, seen, planned, mine>>
      /\ spc = "again" /\ spc' \in {"pull", "push"}
  BY DEF InspectAgain, syncHubVars, syncRunVars
<1>2. PICK o \in InspectPending(seen) :
        /\ observed' = o /\ o.branch = planned.branch
        /\ \/ AlreadyPublished(o) /\ pubHead' = o.head /\ spc' = "pull"
           \/ /\ ~AlreadyPublished(o) /\ o.head = planned.head
              /\ pubHead' = mine /\ spc' = "push"
  BY DEF InspectAgain
<1>3. /\ o \in Observation /\ o.num <= Len(seen)
      /\ o.head = Absent \/ o.head = refs[o.branch]
      /\ o.num = 0 => \A b \in Branches : Live(b) => b = o.branch
  BY <1>1, Inspected
<1>4. o.head \in SyncCommit BY <1>3 DEF Observation
<1>5. RunTyped' BY <1>1 DEF SyncParts, RunTyped, Working
<1>6. LookTyped' BY <1>1, <1>2, <1>3 DEF SyncParts, LookTyped
<1>7. CandidateTyped' /\ EffectsTyped'
  BY <1>1, <1>2, <1>4 DEF SyncParts, CandidateTyped, EffectsTyped
<1>8. SyncParts' BY <1>1, <1>5, <1>6, <1>7, AtHomeTypes
<1>9. SeenBook' /\ PushBook' BY <1>1, <1>2, <1>3 DEF SyncBooks, SeenBook, PushBook
<1>10. AlreadyPublished(o) <=> Exactly(o.head) BY DEF AlreadyPublished, Current, Exactly
<1>11. AskBook'
  <2>1. spc' = "pull" => o.head.kind = "single" BY <1>2 DEF AlreadyPublished, Current
  <2>2. spc' = "pull" => refs[planned.branch] # Absent BY <1>2, <1>3, <2>1, AbsentTyped
  <2> QED BY <1>1, <2>2 DEF AskBook
<1>12. PlanBook' BY <1>1, <1>2, <1>10 DEF SyncBooks, PlanBook, Exactly
<1>13. SyncBooks' BY <1>1, <1>2, <1>3, <1>9, <1>11, <1>12, AtHomeBooks
<1> QED BY <1>8, <1>13

LEMMA PushKeeps ==
  ASSUME SyncIInv, Push
  PROVE  SyncIInv'
<1> USE DEF SyncIInv
<1>1. /\ UNCHANGED <<syncHubVars, syncRunVars, lookVars, mine, pubHead>>
      /\ UNCHANGED <<pulls, refs, invocation, rbase, ver, repairing, seen, planned, observed>>
      /\ spc = "push" /\ spc' = "pushed"
  BY DEF Push, syncHubVars, syncRunVars, lookVars
<1> DEFINE w == [to |-> "ref", branch |-> planned.branch, old |-> planned.head, new |-> mine]
<1>2. effects' = effects \cup {w} BY DEF Push, ExpectedHead
<1>3. planned.branch \in Branches /\ planned.head \in SyncCommit /\ mine \in SyncCommit
  BY <1>1 DEF SyncParts, LookTyped, Observation, CandidateTyped
<1>4. w \in RefWrite BY <1>3 DEF RefWrite
<1>5. PushOK(w) BY <1>1 DEF SyncBooks, PlanBook, Exactly, PushOK
<1>6. w.to = "ref" OBVIOUS
<1> HIDE DEF w
<1>7. EffectsTyped' BY <1>1, <1>2, <1>4, <1>6 DEF SyncParts, EffectsTyped
<1>8. RunTyped' BY <1>1 DEF SyncParts, RunTyped, Working
<1>9. LookTyped' BY <1>1 DEF SyncParts, LookTyped
<1>10. CandidateTyped' BY <1>1 DEF SyncParts, CandidateTyped
<1>11. SyncParts' BY <1>1, <1>7, <1>8, <1>9, <1>10, AtHomeTypes
<1>12. PushBook' BY <1>2, <1>5 DEF SyncBooks, PushBook
<1>13. SeenBook' /\ AskBook' BY <1>1 DEF SyncBooks, SeenBook, AskBook
<1>14. PlanBook' BY <1>1 DEF SyncBooks, PlanBook, Exactly
<1>15. observed'.num = 0 => \A b \in Branches : Live(b) => b = planned'.branch
  BY <1>1 DEF SyncBooks, LiveBook
<1>16. \A e \in effects' : e.to = "new" => e \in effects BY <1>2, <1>6
<1>17. SyncBooks' BY <1>1, <1>12, <1>13, <1>14, <1>15, <1>16, AtHomeBooks
<1> QED BY <1>11, <1>17

\* The creation of a pull request is asked for: for the live branch, if there is one.
LEMMA CreateBooks ==
  ASSUME SyncIInv, UNCHANGED syncHubVars, spc = "pull", observed.num = 0, spc' = "created",
         NEW w, w.to = "new", NEW p \in Branches, w.branch = p, p = planned.branch,
         effects' = effects \cup {w}
  PROVE  OpenBook' /\ BranchBook' /\ LiveBook'
<1> USE DEF SyncIInv, SyncBooks
<1>1. UNCHANGED <<refs, pulls>> BY DEF syncHubVars
<1>2. ASSUME NEW b \in Branches, Live(b)'
      PROVE  Live(b) \/ (b = p /\ ~HasPull(b))
  <2>1. Only(b)' => Only(b) BY <1>1 DEF Only
  <2>2. HasPull(b)' <=> HasPull(b) BY <1>1 DEF HasPull
  <2>3. Asked(b)' => Asked(b) \/ (b = p /\ ~HasPull(b)) BY <2>2 DEF Asked
  <2> QED BY <1>2, <2>1, <2>3 DEF Live
<1>3. BranchBook' BY <1>1, <1>2 DEF BranchBook, AskBook
<1>4. \A b \in Branches : Live(b)' => b = p BY <1>2 DEF LiveBook
<1>5. LiveBook' BY <1>4 DEF LiveBook
<1>6. OpenBook' BY <1>1 DEF OpenBook, OpenPulls
<1> QED BY <1>3, <1>5, <1>6

LEMMA WritePullKeeps ==
  ASSUME SyncIInv, WritePull
  PROVE  SyncIInv'
<1> USE DEF SyncIInv
<1>1. /\ UNCHANGED <<syncHubVars, syncRunVars, lookVars, mine, pubHead>>
      /\ UNCHANGED <<pulls, refs, invocation, rbase, ver, repairing, seen, planned, observed>>
      /\ spc = "pull" /\ spc' \in {"created", "landing", "patched"}
  BY DEF WritePull, syncHubVars, syncRunVars, lookVars
<1>2. planned.branch \in Branches /\ pubHead \in SyncCommit
  BY <1>1 DEF SyncParts, LookTyped, CandidateTyped
<1>3. RunTyped' BY <1>1 DEF SyncParts, RunTyped, Working
<1>4. LookTyped' BY <1>1 DEF SyncParts, LookTyped
<1>5. CandidateTyped' BY <1>1 DEF SyncParts, CandidateTyped
<1>6. SeenBook' /\ AskBook' BY <1>1 DEF SyncBooks, SeenBook, AskBook
<1>7. PlanBook' BY <1>1 DEF SyncBooks, PlanBook, Exactly
<1>8. CASE observed.num = 0
  <2> DEFINE w == [to |-> "new", branch |-> planned.branch, new |-> pubHead]
  <2>1. effects' = effects \cup {w} /\ spc' = "created" BY <1>8 DEF WritePull
  <2>2. w \in NewWrite /\ w.to = "new" /\ w.branch = planned.branch BY <1>2 DEF NewWrite
  <2> HIDE DEF w
  <2>3. EffectsTyped' BY <1>1, <2>1, <2>2 DEF SyncParts, EffectsTyped
  <2>4. SyncParts' BY <1>1, <1>3, <1>4, <1>5, <2>3, AtHomeTypes
  <2>5. PushBook' BY <2>1, <2>2 DEF SyncBooks, PushBook
  <2>6. OpenBook' /\ BranchBook' /\ LiveBook' BY <1>1, <1>2, <1>8, <2>1, <2>2, CreateBooks
  <2> QED BY <1>6, <1>7, <2>4, <2>5, <2>6 DEF SyncBooks
<1>9. CASE spc' = "landing"
  <2>1. effects' = effects BY <1>9 DEF WritePull
  <2>2. EffectsTyped' BY <1>1, <2>1 DEF SyncParts, EffectsTyped
  <2>3. SyncParts' BY <1>1, <1>3, <1>4, <1>5, <2>2, AtHomeTypes
  <2>4. PushBook' BY <2>1 DEF SyncBooks, PushBook
  <2>5. SyncBooks' BY <1>1, <1>6, <1>7, <1>9, <2>1, <2>4, AtHomeBooks
  <2> QED BY <2>3, <2>5
<1>10. CASE spc' = "patched"
  <2> DEFINE n == observed.num
             w == [to |-> "body", num |-> n, new |-> pubHead, note |-> seen[n].note]
  <2>1. effects' = effects \cup {w} /\ n # 0 BY <1>10 DEF WritePull
  <2>2. /\ n \in 0..MaxPulls /\ n <= Len(seen) /\ Len(seen) \in Nat /\ Len(pulls) \in Nat
        /\ Len(seen) <= Len(pulls) /\ seen \in Seq(Pull)
    BY DEF SyncParts, LookTyped, Observation, PullsTyped, SyncBooks, SeenBook
  <2> HIDE DEF n
  <2>3. n \in 1..MaxPulls /\ n \in DOMAIN seen /\ n <= Len(pulls) BY <2>1, <2>2, SyncAssumption
  <2>4. seen[n] \in Pull BY <2>2, <2>3
  <2>5. seen[n].note \in 0..1 BY <2>4 DEF Pull
  <2>6. w \in BodyWrite /\ w.to = "body" /\ w.num = n BY <1>2, <2>3, <2>5 DEF BodyWrite
  <2> HIDE DEF w
  <2>7. EffectsTyped' BY <1>1, <2>1, <2>3, <2>6 DEF SyncParts, EffectsTyped
  <2>8. SyncParts' BY <1>1, <1>3, <1>4, <1>5, <2>7, AtHomeTypes
  <2>9. PushBook' BY <2>1, <2>6 DEF SyncBooks, PushBook
  <2>10. \A e \in effects' : e.to = "new" => e \in effects BY <2>1, <2>6
  <2>11. SyncBooks' BY <1>1, <1>6, <1>7, <1>10, <2>9, <2>10, AtHomeBooks
  <2> QED BY <2>8, <2>11
<1> QED BY <1>8, <1>9, <1>10 DEF WritePull

-----------------------------------------------------------------------------
(* The invariant, and what it says of a step.                              *)

LEMMA SyncStarts ==
  ASSUME SyncInit
  PROVE  SyncIInv
<1> USE DEF SyncInit
<1>1. MainsTyped
  <2> DEFINE m == [ver |-> 0, via |-> Absent]
  <2>1. m \in MainType BY AbsentTyped DEF MainType
  <2>2. mains = <<m>> OBVIOUS
  <2> HIDE DEF m
  <2> QED BY <2>1, <2>2, SyncAssumption DEF MainsTyped
<1>2. RefsTyped BY AbsentTyped DEF RefsTyped
<1>3. /\ <<>> \in Seq(Pull) /\ Len(<<>>) = 0 /\ DOMAIN pulls = {} /\ DOMAIN seen = {}
  OBVIOUS
<1>4. PullsTyped /\ EffectsTyped /\ PeopleTyped
  BY <1>3, SyncAssumption DEF PullsTyped, EffectsTyped, PeopleTyped
<1>5. RunTyped
  <2>1. 0 \in 0..MaxMain /\ 0 \in 0..MaxAttempts BY SyncAssumption
  <2>2. repairing \in BOOLEAN OBVIOUS
  <2> QED BY <2>1, <2>2 DEF RunTyped
<1>6. LookTyped /\ CandidateTyped
  BY <1>3, AbsentTyped, SyncAssumption DEF LookTyped, CandidateTyped
<1>7. \A b \in Branches : ~Live(b) BY <1>3 DEF Live, Only, Asked
<1>8. OpenBook /\ BranchBook /\ LiveBook
  BY <1>3, <1>7 DEF OpenBook, OpenPulls, BranchBook, LiveBook
<1>9. SeenBook
  <2>1. observed.num = 0 BY DEF NoObservation
  <2> QED BY <1>3, <2>1 DEF SeenBook
<1>10. AskBook /\ PlanBook /\ PushBook BY DEF AskBook, PlanBook, PushBook
<1> QED BY <1>1, <1>2, <1>4, <1>5, <1>6, <1>8, <1>9, <1>10 DEF SyncIInv, SyncParts, SyncBooks

LEMMA SyncStutters ==
  ASSUME SyncIInv, UNCHANGED syncVars
  PROVE  SyncIInv'
<1>1. UNCHANGED <<mains, refs, pulls, people, effects, spc, invocation, rbase, ver, repairing,
                  seen, planned, observed, mine, pubHead>>
  BY DEF syncVars, syncHubVars, syncRunVars, lookVars
<1>2. SyncParts'
  BY <1>1 DEF SyncIInv, SyncParts, MainsTyped, RefsTyped, PullsTyped, EffectsTyped, PeopleTyped,
              RunTyped, LookTyped, CandidateTyped
<1>3. OpenBook' /\ BranchBook' /\ LiveBook' /\ AskBook'
  BY <1>1 DEF SyncIInv, SyncBooks, OpenBook, OpenPulls, BranchBook, LiveBook, AskBook, Live, Only,
              HasPull, Asked
<1>4. SeenBook' /\ PlanBook' /\ PushBook'
  BY <1>1 DEF SyncIInv, SyncBooks, SeenBook, PlanBook, Exactly, PushBook
<1> QED BY <1>2, <1>3, <1>4 DEF SyncIInv, SyncBooks

LEMMA SyncStep ==
  ASSUME SyncIInv, [SyncNext]_syncVars
  PROVE  SyncIInv'
<1>1. CASE UNCHANGED syncVars BY <1>1, SyncStutters
<1>2. CASE People BY <1>2, PeopleKeep
<1>3. CASE \E e \in effects : EffectLands(e) \/ EffectLost(e) BY <1>3, EffectKeeps
<1>4. CASE Sync \/ Stops BY <1>4, ForgetKeeps
<1>5. CASE ListPulls \/ Publish BY <1>5, ListKeeps
<1>6. CASE Inspect BY <1>6, InspectKeeps
<1>7. CASE Generate \/ MaterializeRepair BY <1>7, BuildKeeps
<1>8. CASE InspectAgain BY <1>8, AgainKeeps
<1>9. CASE Push BY <1>9, PushKeeps
<1>10. CASE WritePull BY <1>10, WritePullKeeps
<1>11. CASE CheckBase \/ ReadPush \/ ReadPull \/ CheckLanding \/ Confirm BY <1>11, WalkKeepsSync
<1> QED
  BY <1>1, <1>2, <1>3, <1>4, <1>5, <1>6, <1>7, <1>8, <1>9, <1>10, <1>11 DEF SyncNext

\* Two open pull requests without an earlier one would be two live branches.
LEMMA OnePullHolds ==
  ASSUME SyncIInv
  PROVE  OnePull
<1> SUFFICES ASSUME NEW i \in OpenPulls(pulls), NEW j \in OpenPulls(pulls), i # j,
                    \A k \in DOMAIN pulls \ {i, j} :
                      pulls[k].branch \notin {pulls[i].branch, pulls[j].branch}
             PROVE  FALSE
  BY DEF OnePull
<1>1. i \in DOMAIN pulls /\ j \in DOMAIN pulls /\ pulls[i].state = "open" /\ pulls[j].state = "open"
  BY DEF OpenPulls
<1>2. pulls[i] \in Pull /\ pulls[j] \in Pull BY <1>1 DEF SyncIInv, SyncParts, PullsTyped
<1>3. pulls[i].branch \in Branches /\ pulls[j].branch \in Branches BY <1>2 DEF Pull
<1>4. pulls[i].branch # pulls[j].branch BY DEF SyncIInv, SyncBooks, OpenBook
<1>5. Only(pulls[i].branch) /\ Only(pulls[j].branch) BY <1>1, <1>4 DEF Only
<1> QED BY <1>3, <1>4, <1>5 DEF Live, SyncIInv, SyncBooks, LiveBook

\* Only a push that was sent with these facts puts a commit of the App on a branch.
LEMMA PushedBySender ==
  ASSUME SyncIInv, [SyncNext]_syncVars, NEW b \in Branches, Pushed(b)
  PROVE  \E e \in effects : PushOK(e) /\ e.old = refs[b] /\ e.new = refs'[b]
<1> USE DEF SyncIInv, SyncParts
<1>1. refs'[b] # refs[b] /\ refs'[b].kind = "single" BY DEF Pushed
<1>2. ASSUME People PROVE FALSE
  <2>1. BranchChanged \/ BranchDeleted
    BY <1>1, <1>2 DEF People, MainAdvances, PullMerged, PullClosed, NoteEdited
  <2>2. CASE BranchChanged
    <3>1. PICK c \in Branches, k \in {"human", "merge"} : refs' = [refs EXCEPT ![c].kind = k]
      BY <2>2 DEF BranchChanged
    <3>2. refs[c] \in SyncCommit BY DEF RefsTyped
    <3>3. refs' = [refs EXCEPT ![c] = [refs[c] EXCEPT !.kind = k]] BY <3>1
    <3>4. [refs[c] EXCEPT !.kind = k].kind = k BY <3>2 DEF SyncCommit
    <3>5. b = c BY <1>1, <3>3 DEF RefsTyped
    <3>6. refs'[b] = [refs[c] EXCEPT !.kind = k] BY <3>3, <3>5 DEF RefsTyped
    <3> QED BY <1>1, <3>4, <3>6
  <2>3. CASE BranchDeleted
    <3>1. PICK c \in Branches : refs' = [refs EXCEPT ![c] = Absent] BY <2>3 DEF BranchDeleted
    <3>2. refs'[b] = Absent BY <1>1, <3>1 DEF RefsTyped
    <3> QED BY <1>1, <3>2, AbsentTyped
  <2> QED BY <2>1, <2>2, <2>3
<1>3. \E e \in effects : EffectLands(e)
  BY <1>1, <1>2 DEF SyncNext, EffectLost, Sync, ListPulls, Inspect, CheckBase, Generate,
       MaterializeRepair, Publish, InspectAgain, Push, ReadPush, WritePull, ReadPull, CheckLanding,
       Confirm, Stops, syncVars, syncHubVars
<1>4. PICK e \in effects : EffectLands(e) BY <1>3
<1>5. e.to = "ref" /\ refs[e.branch] = e.old /\ refs' = [refs EXCEPT ![e.branch] = e.new]
  BY <1>1, <1>4 DEF EffectLands
<1>6. PushOK(e) BY <1>5 DEF SyncBooks, PushBook
<1>7. e.branch = b /\ refs'[b] = e.new BY <1>1, <1>5 DEF RefsTyped
<1> QED BY <1>5, <1>6, <1>7

LEMMA StepPublishes ==
  ASSUME SyncIInv, [SyncNext]_syncVars, spc' = "published", spc # spc'
  PROVE  /\ pubHead = refs[planned.branch]
         /\ [pubHead EXCEPT !.run = mine.run] = mine
         /\ mine.base = rbase /\ mine.ver = ver
<1>1. Confirm
  BY DEF SyncNext, People, EffectLands, EffectLost, Sync, ListPulls, Inspect, CheckBase, Generate,
         MaterializeRepair, Publish, InspectAgain, Push, ReadPush, WritePull, ReadPull,
         CheckLanding, Stops, syncVars
<1>2. spc = "final" /\ refs[planned.branch] = pubHead BY <1>1 DEF Confirm
<1>3. Exactly(mine) /\ Exactly(pubHead) BY <1>2 DEF SyncIInv, SyncBooks, PlanBook
<1>4. mine \in SyncCommit /\ pubHead \in SyncCommit BY DEF SyncIInv, SyncParts, CandidateTyped
<1>5. [pubHead EXCEPT !.run = mine.run] = mine BY <1>3, <1>4 DEF Exactly, SyncCommit
<1> QED BY <1>2, <1>3, <1>5 DEF Exactly

\* Publish of a mechanical candidate (PublicationSound): whatever answers are lost or
\* late, wherever invocations end and whatever people do in between, no second pull
\* request opens beside an open one (but for the one that OnePull names), a push that
\* lands replaces neither a commit of a person nor the same bytes, and success is
\* reported only of what is there.
THEOREM PublicationIsSound == SyncSpec => PublicationSound
<1>1. SyncInit => SyncIInv BY SyncStarts
<1>2. SyncIInv /\ [SyncNext]_syncVars => SyncIInv' BY SyncStep
<1>3. SyncIInv => SyncTypeOK /\ OnePull BY SyncByPart, OnePullHolds DEF SyncIInv
<1>4. SyncIInv /\ [SyncNext]_syncVars =>
        [\A b \in Branches :
           Pushed(b) => ~(/\ refs[b].kind = "single" /\ refs[b].base = refs'[b].base
                          /\ refs[b].ver = refs'[b].ver /\ refs[b].tree = refs'[b].tree)]_syncVars
  BY PushedBySender DEF PushOK
<1>5. SyncIInv /\ [SyncNext]_syncVars =>
        [\A b \in Branches :
           Pushed(b) => /\ refs[b].kind # "human"
                        /\ refs[b].kind = "merge" => refs'[b].tree = refs[b].tree]_syncVars
  BY PushedBySender DEF PushOK
<1>6. SyncIInv /\ [SyncNext]_syncVars =>
        [spc' = "published" /\ spc # spc' =>
           /\ pubHead = refs[planned.branch]
           /\ [pubHead EXCEPT !.run = mine.run] = mine
           /\ mine.base = rbase /\ mine.ver = ver]_syncVars
  BY StepPublishes
<1> QED
  BY <1>1, <1>2, <1>3, <1>4, <1>5, <1>6, PTL
  DEF SyncSpec, PublicationSound, OneRevision, PeopleKept, PublishedExact
=============================================================================
