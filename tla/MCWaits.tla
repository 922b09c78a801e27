---- MODULE MCWaits ----
(***************************************************************************)
(* The two ways to wait for an answer of a child process, model-checked    *)
(* side by side: calls of an open client, and one turn of the CLI. They    *)
(* share no variable; `waits' says which one moves while the other rests   *)
(* in its initial state.                                                   *)
(***************************************************************************)
EXTENDS RpcCalls, ExecRun

VARIABLE waits

waitsVars == <<waits, vars, execVars>>

WaitsInit == waits \in {"calls", "turn"} /\ Init /\ ExecInit

WaitsNext ==
  /\ UNCHANGED waits
  /\ \/ waits = "calls" /\ Next /\ UNCHANGED execVars
     \/ waits = "turn" /\ ExecNext /\ UNCHANGED vars

\* None of the steps that the fairness names is enabled in an initial state.
WaitsSpec == WaitsInit /\ [][WaitsNext]_waitsVars /\ Fairness /\ ExecFairness
====
