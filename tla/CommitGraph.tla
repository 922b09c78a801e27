---------------------------- MODULE CommitGraph ----------------------------
(***************************************************************************)
(* Commits of a repository as the sequence of all that were ever made: a   *)
(* commit is its place in the sequence, and names its parent, 0 if it has  *)
(* none. Ancestry is git's (merge-base --is-ancestor).                     *)
(***************************************************************************)
EXTENDS Integers, Sequences

\* With a commit, its parent.
ParentClosed(g, S) == \A a \in S : g[a].parent \in S \cup {0}

\* A commit and its ancestors, all older: what no closed set that has it can lack.
Ancestors(g, c) ==
  {a \in 1..c :
     a = c \/ ~\E S \in SUBSET ((1..(c - 1)) \ {a}) : ParentClosed(g, S \cup {c})}
=============================================================================
