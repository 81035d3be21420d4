----------------------------- MODULE MCRunViews -----------------------------
(* Instance of RunViews for TLC.                                           *)
EXTENDS RunViews, TLC

CONSTANTS s1, s2, f, c1, c2

\* A suite below another, and one of another project.
ParentOf == [s \in Suites |-> IF s = s2 THEN s1 ELSE "none"]
HomeOf   == [c \in Cases |-> IF c = c1 THEN s1 ELSE s2]

Symmetry == Permutations(Runs)
=============================================================================
