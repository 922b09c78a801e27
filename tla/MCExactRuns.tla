---------------------------- MODULE MCExactRuns ----------------------------
(* Model-checking instances of ExactRuns: all runs are on one thread, the  *)
(* case in which they can disturb one another.                             *)
EXTENDS ExactRuns, TLC

CONSTANT th1

OneThread == [r \in Runs |-> th1]

RunSymmetry == Permutations(Runs) \cup Permutations(Turns)
=============================================================================
