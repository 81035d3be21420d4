----------------------------- MODULE MCCatalog ------------------------------
(* Instances of Catalog for TLC.                                           *)
EXTENDS Catalog, TLC

CONSTANTS p1, p2, s1, s2, s3, s4, c1, r1

RequestSymmetry == Permutations(Requests)

\* Everything belongs to p1, except s4 in Split.
OneProject == [x \in Suites \union Runs |-> p1]
Split      == [x \in Suites \union Runs |-> IF x = s4 THEN p2 ELSE p1]

O(v, x, t) == [verb |-> v, id |-> x, to |-> t]

Homes(x) == IF x \in Suites THEN (Suites \union {NoSuite}) \ {x} ELSE Suites
Placements(v, xs) == {O(v, x, t) : x \in xs, t \in Suites \union {NoSuite}}

SuiteOps == {o \in Placements("create", Suites) \union Placements("move", Suites) :
               o.to \in Homes(o.id)}
CaseOps  == {o \in Placements("create", Cases) \union Placements("move", Cases) :
               o.to \in Suites}
Deletes  == {O("delete", x, NoSuite) : x \in Rows}
Restores == {O("restore", x, NoSuite) : x \in Rows}
RunOps   == {O("create", r, NoSuite) : r \in Runs}

AllOps    == SuiteOps \union CaseOps \union RunOps \union Deletes \union Restores
=============================================================================
