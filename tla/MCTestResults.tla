--------------------------- MODULE MCTestResults ---------------------------
(* Instances of TestResults for TLC.                                       *)
EXTENDS TestResults, TLC

CONSTANTS c1, c2

RequestSymmetry == Permutations(Requests)

I(c, s, k) == [case |-> c, status |-> s, comment |-> k]
O(k, items) == [kind |-> k, items |-> items]

DeleteAndRestore == {O("delete", <<>>), O("restore", <<>>)}

\* One case, written in every way; the values are few but differ in one
\* column, in both and in none.
OneCase ==
  {O("submit", <<I(c1, "passed", "none")>>), O("submit", <<I(c1, "failed", "why")>>),
   O("submit", <<I(c1, "skipped", "why")>>),
   O("update", <<I(c1, "keep", "none")>>), O("update", <<I(c1, "failed", "keep")>>),
   O("import", <<I(c1, "passed", "why")>>)}

\* The CI endpoint takes a report that names a case twice.
Twice == {O("ci", <<I(c1, "failed", "why"), I(c1, "passed", "none")>>)}

\* Two imports of the same cases in opposite orders.
Crossed ==
  {O("import", <<I(c1, "passed", "none"), I(c2, "passed", "none")>>),
   O("import", <<I(c2, "failed", "why"), I(c1, "failed", "why")>>)}

AllOps  == OneCase \union Twice \union Crossed \union DeleteAndRestore
=============================================================================
