-------------------------- MODULE CheckAcceptance --------------------------
(***************************************************************************)
(* Observing the required checks of one commit on GitHub, and requesting   *)
(* the one retry that is allowed. The listings are read page by page while *)
(* workflow runs start, create their jobs, are cancelled and rerun.        *)
(*                                                                         *)
(* Every job is a check run; its identifier is its place in `checks'. The  *)
(* order in which GitHub lists things is not specified, so a page holds    *)
(* any entries, as many as are left. "stopped" is a job that was cancelled *)
(* after it had started, "cancelled" one that never started.               *)
(***************************************************************************)
EXTENDS Integers, Sequences, FiniteSets

CONSTANTS
  Names,       \* RequiredNames
  LiveName,    \* the one that talks to a model
  NWorkflows,  \* workflow runs of the commit
  PageSize,    \* per_page
  MaxChecks,   \* bound: check runs
  MaxFlowAttempts, \* bound: attempts of a workflow run
  MaxForeign,  \* bound: check runs of other Apps
  MaxTriggers  \* bound: workflow runs and reruns by people, and invocations

ASSUME CheckAssumption ==
  /\ IsFiniteSet(Names) /\ LiveName \in Names /\ NWorkflows \in Nat \ {0} /\ PageSize \in Nat \ {0}
  /\ MaxChecks \in Nat /\ MaxFlowAttempts \in Nat \ {0} /\ MaxForeign \in Nat /\ MaxTriggers \in Nat

VARIABLES
  checks,    \* all check runs
  flows,     \* the workflow runs
  starts,    \* attempts started, the clock of run_started_at
  cpc,       \* the observer
  triggers,  \* what people and callers have begun
  recover,   \* the invocation is RecoverCancelled
  target, wanted,      \* the run and the attempt it was called for
  total, pageNo, got,  \* of the listing that is read
  state,     \* Observation.State
  failedOne, \* a required check failed
  green, begun,        \* the truth when the listing of checks was complete
  autos      \* retries requested, by run

ghVars == <<checks, flows, starts>>
listVars == <<total, pageNo, got>>
seenVars == <<state, failedOne>>
checkVars == <<ghVars, cpc, triggers, recover, target, wanted, listVars, seenVars, green, begun, autos>>

Flows == 1..NWorkflows
JobStates == {"queued", "running", "success", "failure", "cancelled", "stopped"}
CheckStates == {"missing", "pending", "failed", "cancelled", "succeeded"}
NoFlow == [attempt |-> 0, started |-> 0, phase |-> "none", todo |-> {}, verdict |-> ""]
CheckRun == [flow : Flows \cup {0}, attempt : 0..MaxFlowAttempts, name : Names, job : JobStates]

CheckTypeOK ==
  /\ \A i \in DOMAIN checks : checks[i] \in CheckRun
  /\ Len(checks) <= MaxChecks
  /\ \A w \in Flows : flows[w].phase \in {"none", "created", "active", "done"}
  /\ cpc \in {"idle", "checks", "flows", "observed", "jobs", "pull", "run", "again", "post"}
  /\ recover \in BOOLEAN /\ target \in Flows /\ wanted \in 1..MaxFlowAttempts
  /\ total \in -1..MaxChecks + NWorkflows /\ DOMAIN got \subseteq 1..MaxChecks + NWorkflows
  /\ state \in CheckStates /\ failedOne \in BOOLEAN /\ green \in BOOLEAN
  /\ autos \in [Flows -> Nat]

NoPage == [i \in {} |-> "queued"]

CheckInit ==
  /\ checks = <<>> /\ flows = [w \in Flows |-> NoFlow] /\ starts = 0
  /\ cpc = "idle" /\ triggers = 0 /\ recover = FALSE /\ target = 1 /\ wanted = 1
  /\ total = -1 /\ pageNo = 1 /\ got = NoPage
  /\ state = "missing" /\ failedOne = FALSE
  /\ green = FALSE /\ begun = {} /\ autos = [w \in Flows |-> 0]

observer == <<cpc, recover, target, wanted, listVars, seenVars, green, begun>>

-----------------------------------------------------------------------------
(* GitHub.                                                                 *)

\* The newest check run of a name in a workflow run, of whichever attempt.
JobOf(w, n) ==
  LET ids == {i \in DOMAIN checks : checks[i].flow = w /\ checks[i].name = n}
  IN  CHOOSE i \in ids : \A j \in ids : j <= i

\* An attempt starts; it has no jobs yet.
Begin(w, names) ==
  /\ flows[w].attempt < MaxFlowAttempts
  /\ starts' = starts + 1
  /\ flows' = [flows EXCEPT ![w] = [attempt |-> @.attempt + 1, started |-> starts',
                                    phase |-> "created", todo |-> names, verdict |-> ""]]
  /\ UNCHANGED <<checks>>

Trigger == triggers < MaxTriggers /\ triggers' = triggers + 1

\* Workflow runs are numbered in the order in which they start.
FlowStarts(w) ==
  /\ flows[w].phase = "none" /\ Trigger /\ Begin(w, Names)
  /\ \A v \in Flows : v < w => flows[v].phase # "none"
  /\ UNCHANGED <<observer, autos>>

\* A person reruns some of the jobs.
PersonReruns(w) ==
  /\ flows[w].phase = "done" /\ Trigger
  /\ \E names \in SUBSET Names : names # {} /\ Begin(w, names)
  /\ UNCHANGED <<observer, autos>>

\* The order of their identifiers matters only between jobs of one name.
Jobs(w) ==
  CHOOSE s \in [1..Cardinality(flows[w].todo) -> flows[w].todo] :
    {s[i] : i \in DOMAIN s} = flows[w].todo

JobsCreated(w) ==
  /\ flows[w].phase = "created"
  /\ Len(checks) + Len(Jobs(w)) <= MaxChecks
  /\ checks' = checks \o [i \in DOMAIN Jobs(w) |->
                 [flow |-> w, attempt |-> flows[w].attempt, name |-> Jobs(w)[i], job |-> "queued"]]
  /\ flows' = [flows EXCEPT ![w].phase = "active", ![w].todo = {}]
  /\ UNCHANGED <<starts, triggers, observer, autos>>

\* Whether a job has started matters only for the live one.
JobMoves(i) ==
  /\ checks[i].flow # 0
  /\ \/ /\ checks[i].job = "queued" /\ checks[i].name = LiveName
        /\ checks' = [checks EXCEPT ![i].job = "running"]
     \/ /\ checks[i].job = IF checks[i].name = LiveName THEN "running" ELSE "queued"
        /\ \E r \in {"success", "failure"} : checks' = [checks EXCEPT ![i].job = r]
  /\ UNCHANGED <<flows, starts, triggers, observer, autos>>

\* The conclusion counts the jobs that were not rerun, too.
Conclusion(w) ==
  LET ends == {checks[JobOf(w, n)].job : n \in Names}
  IN  CASE "failure" \in ends -> "failure"
        [] ends \subseteq {"success"} -> "success"
        [] OTHER -> "cancelled"

FlowEnds(w) ==
  /\ flows[w].phase = "active"
  /\ \A n \in Names : checks[JobOf(w, n)].job \notin {"queued", "running"}
  /\ flows' = [flows EXCEPT ![w].phase = "done", ![w].verdict = Conclusion(w)]
  /\ UNCHANGED <<checks, starts, triggers, observer, autos>>

Cancelled(w, c) ==
  IF c.flow # w THEN c
  ELSE CASE c.job = "queued" -> [c EXCEPT !.job = "cancelled"]
         [] c.job = "running" -> [c EXCEPT !.job = "stopped"]
         [] OTHER -> c

FlowCancelled(w) ==
  /\ flows[w].phase = "active"
  /\ \E n \in Names : checks[JobOf(w, n)].job \in {"queued", "running"}
  /\ checks' = [i \in DOMAIN checks |-> Cancelled(w, checks[i])]
  /\ flows' = [flows EXCEPT ![w].phase = "done", ![w].verdict = "cancelled"]
  /\ UNCHANGED <<starts, triggers, observer, autos>>

\* Another App reports a success under a required name.
ForeignCheck ==
  /\ Len(checks) < MaxChecks
  /\ Cardinality({i \in DOMAIN checks : checks[i].flow = 0}) < MaxForeign
  /\ \E n \in Names :
       checks' = Append(checks, [flow |-> 0, attempt |-> 0, name |-> n, job |-> "success"])
  /\ UNCHANGED <<flows, starts, triggers, observer, autos>>

\* GitHub rests when nobody will look any more.
GitHub ==
  /\ triggers < MaxTriggers \/ cpc \notin {"idle", "observed"}
  /\ \/ \E w \in Flows : FlowStarts(w) \/ PersonReruns(w) \/ JobsCreated(w) \/ FlowEnds(w) \/ FlowCancelled(w)
     \/ \E i \in DOMAIN checks : JobMoves(i)
     \/ ForeignCheck

-----------------------------------------------------------------------------
(* Observe.                                                                *)

\* Mutant: any attempt may be retried.
RetriedAny == 1..MaxFlowAttempts

\* recovery is limited to one retry of attempt 1
Retried == {1}

Look ==
  /\ cpc \in {"idle", "observed"} /\ Trigger
  /\ recover' \in BOOLEAN /\ target' \in Flows /\ wanted' \in Retried
  /\ recover' \/ (target' = 1 /\ wanted' = 1)
  /\ cpc' = "checks" /\ total' = -1 /\ pageNo' = 1 /\ got' = NoPage
  /\ state' = "missing" /\ failedOne' = FALSE /\ green' = FALSE /\ begun' = {}
  /\ UNCHANGED <<ghVars, autos>>

\* An error: the listing or the state of things is unknown, or not to be retried.
GiveUp ==
  /\ cpc' = "idle" /\ total' = -1 /\ pageNo' = 1 /\ got' = NoPage
  /\ state' = "missing" /\ failedOne' = FALSE /\ green' = FALSE /\ begun' = {}

\* The pages that GitHub may answer with.
PageOf(all) ==
  LET left == Cardinality(all) - (pageNo - 1) * PageSize
  IN  {b \in SUBSET all : Cardinality(b) = IF left < 0 THEN 0 ELSE IF left < PageSize THEN left ELSE PageSize}

\* Mutant: identifiers may repeat.
RepeatedNever(b) == FALSE

Repeated(b) == b \cap DOMAIN got # {}

\* A listing that changes while it is read.
Changed(all) == total # -1 /\ total # Cardinality(all)

Short(b) == Cardinality(b) < PageSize
With(b, val(_)) == [i \in DOMAIN got \cup b |-> IF i \in b THEN val(i) ELSE got[i]]

NextPage(all, new) ==
  /\ got' = new /\ total' = Cardinality(all) /\ pageNo' = pageNo + 1
  /\ UNCHANGED <<cpc, seenVars, green, begun>>

\* The state of one required check: that of its newest check run of our own App.
StateOf(n, runs) ==
  LET own == {i \in DOMAIN runs : checks[i].name = n /\ checks[i].flow # 0}
  IN  IF own = {} THEN "missing"
      ELSE LET job == runs[CHOOSE i \in own : \A j \in own : j <= i]
           IN  CASE job \in {"queued", "running"} -> "pending"
                 [] job = "success" -> "succeeded"
                 [] job \in {"cancelled", "stopped"} -> "cancelled"
                 [] OTHER -> "failed"

\* Terminal failures take precedence.
Evaluate(runs) ==
  LET states == {StateOf(n, runs) : n \in Names}
  IN  CASE "failed" \in states -> "failed"
        [] "failed" \notin states /\ "cancelled" \in states -> "cancelled"
        [] states \cap {"failed", "cancelled"} = {} /\ "missing" \in states -> "missing"
        [] states \cap {"failed", "cancelled", "missing"} = {} /\ "pending" \in states -> "pending"
        [] OTHER -> "succeeded"

Truth == [i \in DOMAIN checks |-> checks[i].job]

CheckPage ==
  /\ cpc = "checks"
  /\ \E b \in PageOf(DOMAIN checks) :
       LET new == With(b, LAMBDA i : checks[i].job) IN
       \/ (Changed(DOMAIN checks) \/ Repeated(b)) /\ GiveUp
       \/ /\ ~Changed(DOMAIN checks) /\ ~Repeated(b)
          /\ \/ ~Short(b) /\ NextPage(DOMAIN checks, new)
             \/ /\ Short(b)
                /\ cpc' = "flows" /\ total' = -1 /\ pageNo' = 1 /\ got' = NoPage
                /\ state' = Evaluate(new)
                /\ failedOne' = (\E n \in Names : StateOf(n, new) = "failed")
                /\ green' = (Evaluate(Truth) = "succeeded")
                /\ begun' = {<<w, flows[w].attempt>> : w \in Flows}
  /\ UNCHANGED <<ghVars, triggers, recover, target, wanted, autos>>

Listed == {w \in Flows : flows[w].phase # "none"}

\* Mutant: the conclusion of a run is taken for its state.
workflowStateRaw(f) == IF f.phase # "done" THEN "pending" ELSE f.verdict

workflowState(f) ==
  IF f.phase # "done" THEN "pending"
  ELSE CASE f.verdict = "success" -> "succeeded"
         [] f.verdict = "cancelled" -> "cancelled"
         [] OTHER -> "failed"

\* Mutant: only the last run that was started counts.
ActiveLatest(runs) == FALSE

\* An older run can itself be active, and may still create its checks.
Active(runs) == \E w \in DOMAIN runs : workflowState(runs[w]) = "pending"

Latest(runs) == CHOOSE w \in DOMAIN runs : \A v \in DOMAIN runs : runs[v].started <= runs[w].started

FlowsState(runs) ==
  CASE DOMAIN runs = {} -> "missing"
    [] DOMAIN runs # {} /\ Active(runs) -> "pending"
    [] OTHER -> workflowState(runs[Latest(runs)])

\* The observation is the cancelled attempt that the caller asked for.
AsAsked(runs) ==
  /\ FlowsState(runs) = "cancelled"
  /\ Latest(runs) = target /\ runs[target].attempt = wanted

FlowsRead(runs) ==
  /\ total' = -1 /\ pageNo' = 1 /\ got' = NoPage
  /\ \/ /\ ~recover /\ cpc' = "observed"
        /\ state' = IF FlowsState(runs) = "succeeded" THEN state ELSE FlowsState(runs)
        /\ failedOne' = FALSE /\ green' = FALSE /\ begun' = {}
     \/ /\ recover /\ AsAsked(runs) /\ ~failedOne
        /\ cpc' = IF cpc = "flows" THEN "jobs" ELSE "post"
        /\ UNCHANGED <<seenVars, green, begun>>
     \/ recover /\ (~AsAsked(runs) \/ failedOne) /\ GiveUp

\* observeWorkflow; RecoverCancelled calls it once more before its effect.
FlowPage ==
  /\ cpc \in {"flows", "again"}
  /\ \E b \in PageOf(Listed) :
       LET new == With(b, LAMBDA w : flows[w]) IN
       \/ (Changed(Listed) \/ Repeated(b)) /\ GiveUp
       \/ /\ ~Changed(Listed) /\ ~Repeated(b)
          /\ IF Short(b) THEN FlowsRead(new) ELSE NextPage(Listed, new)
  /\ UNCHANGED <<ghVars, triggers, recover, target, wanted, autos>>

\* A read that failed twice.
ReadFails ==
  /\ cpc \notin {"idle", "observed", "post"} /\ GiveUp
  /\ UNCHANGED <<ghVars, triggers, recover, target, wanted, autos>>

-----------------------------------------------------------------------------
(* RecoverCancelled.                                                       *)

AttemptJobs == {i \in DOMAIN checks : checks[i].flow = target /\ checks[i].attempt = wanted}

\* Mutant: a cancelled job is retried whether or not it had started.
NeverStartedUnread(i) == TRUE

\* cancelled live job already started
NeverStarted(i) == checks[i].job # "stopped"

\* verifyRecoveryJobs: the jobs of an attempt that has ended stay as they are, so
\* its pages are read in one step.
Replayable ==
  \A i \in AttemptJobs :
    /\ checks[i].job \in {"success", "cancelled", "stopped"}
    /\ checks[i].name = LiveName => NeverStarted(i)

Proceed(ok, next) ==
  /\ \/ ok /\ cpc' = next /\ UNCHANGED <<listVars, seenVars, green, begun>>
     \/ ~ok /\ GiveUp
  /\ UNCHANGED <<ghVars, triggers, recover, target, wanted, autos>>

JobsRead == cpc = "jobs" /\ Proceed(Replayable, "pull")

\* The pull request may have closed or have another head by now.
PullRead == cpc = "pull" /\ \E same \in BOOLEAN : Proceed(same, "run")

\* The run itself, with its attempt, is read back.
RunRead ==
  /\ cpc = "run"
  /\ Proceed(flows[target].attempt = wanted /\ workflowState(flows[target]) = "cancelled", "again")

Unsuccessful(w) == {n \in Names : checks[JobOf(w, n)].job # "success"}

\* The request takes effect if the run is at rest, or is lost; its answer may be lost.
Post ==
  /\ cpc = "post" /\ GiveUp
  /\ \/ UNCHANGED <<ghVars, autos>>
     \/ /\ flows[target].phase = "done" /\ Unsuccessful(target) # {}
        /\ Begin(target, Unsuccessful(target))
        /\ autos' = [autos EXCEPT ![target] = @ + 1]
  /\ UNCHANGED <<triggers, recover, target, wanted>>

CheckNext == GitHub \/ Look \/ CheckPage \/ FlowPage \/ ReadFails \/ JobsRead \/ PullRead \/ RunRead \/ Post

CheckSpec == CheckInit /\ [][CheckNext]_checkVars

-----------------------------------------------------------------------------
(* What an observation and a retry are worth.                              *)

AcceptsCommit == cpc = "flows" /\ cpc' = "observed" /\ state' = "succeeded"

\* A commit is accepted only if all required checks were green, together, at the
\* moment the listing was complete: pages of a listing that moves never make up
\* a green commit that was not (Observe: total, repeated identifiers).
GreenTogether == [][AcceptsCommit => green]_checkVars

\* Old green checks are not inherited by an attempt that has yet to create its
\* own: every attempt begun before the checks were listed has ended when the
\* commit is accepted (observeWorkflow, the barrier).
NoInheritedGreen ==
  [][AcceptsCommit =>
       \A w \in Flows, a \in 1..MaxFlowAttempts :
         <<w, a>> \in begun => flows[w].attempt > a \/ flows[w].phase = "done"]_checkVars

\* A retry that takes effect on the attempt that was examined replays no failed
\* job, and no live job that had started: "a live job that started and did not
\* succeed is never replayed automatically" (verifyRecoveryJobs).
LiveNotReplayed ==
  [][autos' # autos /\ flows[target].attempt = wanted =>
       \A i \in AttemptJobs :
         /\ checks[i].job # "failure"
         /\ checks[i].name = LiveName => checks[i].job \in {"success", "cancelled"}]_checkVars

\* However many invocations there are, and whatever became of their answers, a
\* workflow run is retried at most once (RecoverCancelled, attempt 1 only).
OneRetry == \A w \in Flows : autos[w] <= 1

\* A commit is accepted only when its checks were green together and by their own
\* attempts, and a cancelled run is rerun once, without replaying live jobs.
AcceptanceSound == [](CheckTypeOK /\ OneRetry) /\ GreenTogether /\ NoInheritedGreen /\ LiveNotReplayed
=============================================================================
