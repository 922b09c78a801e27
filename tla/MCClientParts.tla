---- MODULE MCClientParts ----
(***************************************************************************)
(* Six parts, model-checked side by side: reaping the child, observing a   *)
(* run, answering requests, the typed step an application runs on top, the *)
(* repair of a candidate by a native goal, and planning and applying an    *)
(* upgrade. They share no variable, so a behaviour of one is checked while *)
(* the others rest in their initial states: `part' says which one moves,   *)
(* and the states are the sum, not the product, of the parts' states.      *)
(***************************************************************************)
EXTENDS ProcessReap, StreamCursors, ServerReplies, TypedStep, IntegrationRepair, PlanApply

VARIABLE part

partsVars == <<part, reapVars, cursorVars, replyVars, stepVars, repairVars, planVars>>

\* All contents of a candidate are alike, so the repair rests in any one of them.
PartsInit ==
  /\ part \in {"reap", "cursors", "replies", "step", "repair", "plan"}
  /\ ReapInit /\ CursorInit /\ ReplyInit /\ StepInit /\ RepairInit /\ PlanInit
  /\ part # "repair" => content = CHOOSE c \in Contents : TRUE

\* The parts that rest while `part' moves.
Rest(moving) ==
  /\ moving # "reap" => UNCHANGED reapVars
  /\ moving # "cursors" => UNCHANGED cursorVars
  /\ moving # "replies" => UNCHANGED replyVars
  /\ moving # "step" => UNCHANGED stepVars
  /\ moving # "repair" => UNCHANGED repairVars
  /\ moving # "plan" => UNCHANGED planVars

PartsNext ==
  /\ UNCHANGED part
  /\ \/ part = "reap" /\ ReapNext
     \/ part = "cursors" /\ CursorNext
     \/ part = "replies" /\ ReplyNext
     \/ part = "step" /\ StepNext
     \/ part = "repair" /\ RepairNext
     \/ part = "plan" /\ PlanNext
  /\ Rest(part)

\* The fairness of a part says nothing while it rests: none of the steps it
\* names is enabled in the part's initial state.
PartsSpec ==
  /\ PartsInit /\ [][PartsNext]_partsVars
  /\ ReapFairness /\ CursorFairness /\ ReplyFairness
====
