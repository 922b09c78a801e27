----------------------------- MODULE RunHistory -----------------------------
(***************************************************************************)
(* What codexsdk promises about the observable state of Exact Runs: a      *)
(* history only grows, by notifications that were ingested, each at most   *)
(* once; a terminal notification or the end of the run freezes it; a run   *)
(* gets one outcome, which is the verdict of its terminal notification     *)
(* only while the client is open; after the close every run that ends      *)
(* reports the first close cause.                                          *)
(***************************************************************************)
EXTENDS Integers, Sequences

CONSTANTS Runs, None

VARIABLES log, history, outcome, closeReason

vars == <<log, history, outcome, closeReason>>

LocalCauses == {"startErr", "busy", "streamClosed", "requestErr"}
Terminals == {"done", "fail"}

Kind(n) == log[n].kind
Frozen(r) ==
    \/ outcome[r] # None
    \/ \E i \in 1..Len(history[r]) : Kind(history[r][i]) \in Terminals

Init ==
    /\ log = <<>>
    /\ history = [r \in Runs |-> <<>>]
    /\ outcome = [r \in Runs |-> None]
    /\ closeReason = None

LogGrows == Len(log') = Len(log) + 1 /\ SubSeq(log', 1, Len(log)) = log

Ingest ==
    /\ LogGrows
    /\ closeReason = None
    /\ UNCHANGED <<history, outcome, closeReason>>

Observe(r) ==
    /\ ~Frozen(r)
    /\ \E n \in 1..Len(log) :
          /\ \A i \in 1..Len(history[r]) : history[r][i] # n
          /\ history' = [history EXCEPT ![r] = Append(@, n)]
    /\ UNCHANGED <<log, outcome, closeReason>>

(* The outcomes a run may get now.                                         *)
Deserved(r) ==
    IF closeReason # None THEN {closeReason}
    ELSE LocalCauses \cup
         {o \in {"ok", "turnErr"} :
            /\ history[r] # <<>>
            /\ Kind(history[r][Len(history[r])]) = IF o = "ok" THEN "done" ELSE "fail"}

Settle(S) ==
    /\ \A r \in S : outcome[r] = None /\ outcome'[r] \in Deserved(r)
    /\ \A r \in Runs \ S : outcome'[r] = outcome[r]
    /\ UNCHANGED <<log, history, closeReason>>

Close ==
    /\ closeReason = None /\ closeReason' \in {"failure", "closed"}
    /\ UNCHANGED <<history, outcome>>
    /\ log' = log \/ LogGrows      \* the ingested frame may be the cause

Next ==
    \/ Ingest
    \/ \E r \in Runs : Observe(r)
    \/ \E S \in SUBSET Runs : Settle(S)
    \/ Close

Spec == Init /\ [][Next]_vars
=============================================================================
