---- MODULE MCLifecycle ----
(* Model-checking instance of the client life cycle.                       *)
EXTENDS Lifecycle, TLC
\* Callers of CloseContext are interchangeable.
CloserSymmetry == Permutations(Closers)
====
