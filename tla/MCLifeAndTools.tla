---- MODULE MCLifeAndTools ----
(***************************************************************************)
(* The life cycle of a client and three parts of the repository's tooling, *)
(* model-checked side by side: the publication of a mechanical candidate,  *)
(* the verification of a candidate, and the way of a candidate to main.    *)
(* They share no variable; `tool' says which one moves while the others    *)
(* rest in an initial state.                                               *)
(***************************************************************************)
EXTENDS Lifecycle, SyncPublication, GoalVerify, AutoForward, TLC

VARIABLE tool

\* Callers of CloseContext are interchangeable.
CallerSymmetry == Permutations(Closers)

toolsVars == <<tool, vars, syncVars, goalVerifyVars, forwardVars>>

ToolsInit ==
  /\ tool \in {"client", "sync", "verify", "forward"}
  /\ Init /\ SyncInit /\ VerifyInit /\ ForwardInit
  /\ tool # "forward" => fixed /\ Controls(Base, Handoff)

ToolsNext ==
  /\ UNCHANGED tool
  /\ \/ /\ tool = "client" /\ Next
        /\ UNCHANGED <<syncVars, goalVerifyVars, forwardVars>>
     \/ /\ tool = "sync" /\ SyncNext
        /\ UNCHANGED <<vars, goalVerifyVars, forwardVars>>
     \/ /\ tool = "verify" /\ VerifyNext
        /\ UNCHANGED <<vars, syncVars, forwardVars>>
     \/ /\ tool = "forward" /\ ForwardNext
        /\ UNCHANGED <<vars, syncVars, goalVerifyVars>>

ToolsSpec == ToolsInit /\ [][ToolsNext]_toolsVars
====
