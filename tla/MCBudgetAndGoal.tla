---- MODULE MCBudgetAndGoal ----
(***************************************************************************)
(* The retention budget of the client, the runner of a native goal and the *)
(* publication of its candidates, model-checked side by side: they share   *)
(* no variable, and `side' says which one moves while the others rest in   *)
(* their initial states.                                                   *)
(***************************************************************************)
EXTENDS Retention, NativeGoal, GoalPublication, TLC

VARIABLE side

\* Tool calls are alike, and so are the trees of candidates.
SidesSymmetry == Permutations(ToolCalls) \cup Permutations(Trees)

sidesVars == <<side, retentionVars, nativeVars, goalVars>>

SidesInit ==
  /\ side \in {"budget", "native", "publication"}
  /\ RetentionInit /\ NativeInit /\ GoalInit

SidesNext ==
  /\ UNCHANGED side
  /\ \/ side = "budget" /\ RetentionNext /\ UNCHANGED <<nativeVars, goalVars>>
     \/ side = "native" /\ NativeNext /\ UNCHANGED <<retentionVars, goalVars>>
     \/ side = "publication" /\ GoalNext /\ UNCHANGED <<retentionVars, nativeVars>>

SidesSpec == SidesInit /\ [][SidesNext]_sidesVars
====
