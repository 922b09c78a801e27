---------------------------- MODULE OneShotCalls ----------------------------
(***************************************************************************)
(* What the call table of codexsdk.Client promises to a caller: a call is  *)
(* admitted only while the client is open, an admitted call gets exactly   *)
(* one verdict, the verdict never changes, and a verdict that blames the   *)
(* close, the caller's context or the app-server is true when it is given. *)
(***************************************************************************)
CONSTANTS Calls, None

Answers == {"result", "respErr", "armErr"}   \* made from a response frame
Causes  == {"failure", "closed"}             \* the first close cause

VARIABLES
    verdict,    \* verdict[c]: "new", "open" or the settled verdict
    cause,      \* None while the client is open
    cancelled,  \* calls whose context has ended
    received    \* requests the app-server has seen

vars == <<verdict, cause, cancelled, received>>

Init ==
    /\ verdict = [c \in Calls |-> "new"]
    /\ cause = None
    /\ cancelled = {}
    /\ received = {}

Settle(c, v) == verdict' = [verdict EXCEPT ![c] = v]

Admit(c) ==
    /\ verdict[c] = "new" /\ cause = None
    /\ Settle(c, "open")
    /\ UNCHANGED <<cause, cancelled, received>>

Refuse(c) ==
    /\ verdict[c] = "new" /\ cause # None
    /\ Settle(c, "refused")
    /\ UNCHANGED <<cause, cancelled, received>>

Answer(c) ==
    /\ verdict[c] = "open" /\ c \in received
    /\ \E v \in Answers : Settle(c, v)
    /\ UNCHANGED <<cause, cancelled, received>>

FailWithCause(c) ==
    /\ verdict[c] = "open" /\ cause # None
    /\ Settle(c, cause)
    /\ UNCHANGED <<cause, cancelled, received>>

GiveUp(c) ==
    /\ verdict[c] = "open"
    /\ \/ Settle(c, "writeErr")
       \/ c \in cancelled /\ Settle(c, "ctxErr")
    /\ UNCHANGED <<cause, cancelled, received>>

Cancel(c) ==
    /\ verdict[c] # "new"
    /\ cancelled' = cancelled \cup {c}
    /\ UNCHANGED <<verdict, cause, received>>

Deliver(c) ==
    /\ verdict[c] # "new"
    /\ received' = received \cup {c}
    /\ UNCHANGED <<verdict, cause, cancelled>>

Close ==
    /\ cause = None
    /\ cause' \in Causes
    /\ UNCHANGED <<verdict, cancelled, received>>

Next ==
    \/ \E c \in Calls :
          \/ Admit(c) \/ Refuse(c) \/ Answer(c) \/ FailWithCause(c)
          \/ GiveUp(c) \/ Cancel(c) \/ Deliver(c)
    \/ Close

Spec == Init /\ [][Next]_vars
=============================================================================
