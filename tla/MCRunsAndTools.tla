---- MODULE MCRunsAndTools ----
(***************************************************************************)
(* Two runs on one thread and two parts of the repository's tooling,       *)
(* model-checked side by side: the acceptance of checks, and the generator *)
(* of the protocol's types. They share no variable; `acts' says which one  *)
(* moves while the others rest in an initial state, the generator without  *)
(* schemas.                                                                *)
(***************************************************************************)
EXTENDS MCExactRuns, CheckAcceptance, GeneratedTypes

VARIABLE acts

actsVars == <<acts, vars, checkVars, typeVars>>

ActsInit ==
  /\ acts \in {"runs", "checks", "types"}
  /\ Init /\ CheckInit
  /\ IF acts = "types" THEN TypesInit ELSE TypesBegin([i \in SchemaIds |-> NoSchema], {})

ActsNext ==
  /\ UNCHANGED acts
  /\ \/ acts = "runs" /\ Next /\ UNCHANGED <<checkVars, typeVars>>
     \/ acts = "checks" /\ CheckNext /\ UNCHANGED <<vars, typeVars>>
     \/ acts = "types" /\ TypesNext /\ UNCHANGED <<vars, checkVars>>

ActsSpec == ActsInit /\ [][ActsNext]_actsVars
====
