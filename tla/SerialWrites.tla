---- MODULE SerialWrites ----
(***************************************************************************)
(* What a goal's publication promises of its writes to the draft branch:   *)
(* they come one at a time. A commit is started only when all started      *)
(* before it are on the branch, a started commit lands at most once and    *)
(* stays, and one that never lands is the last.                            *)
(***************************************************************************)
CONSTANT Commits

VARIABLES started, landed

Init == started = {} /\ landed = {}

Start(c) ==
  /\ c \notin started
  /\ landed = started
  /\ started' = started \cup {c}
  /\ UNCHANGED landed

Land ==
  /\ landed # started
  /\ landed' = started
  /\ UNCHANGED started

Next == Land \/ \E c \in Commits : Start(c)

Spec == Init /\ [][Next]_<<started, landed>>
====
