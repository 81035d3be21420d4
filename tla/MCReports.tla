----------------------------- MODULE MCReports ------------------------------
(* Instance of Reports for TLC: a project with two runs and one with one.  *)
EXTENDS Reports, TLC

CONSTANTS p1, p2, s1, s2, c1, c2, c3, r1, r2, r3

ProjectIds == (s1 :> p1) @@ (s2 :> p2) @@ (r1 :> p1) @@ (r2 :> p1) @@ (r3 :> p2)
SuiteIds   == (c1 :> s1) @@ (c2 :> s1) @@ (c3 :> s2)
PickedOf   == r2 :> {c1}
SuiteRuns  == r3 :> s2
CreatedAt  == (r1 :> 0) @@ (r2 :> 1) @@ (r3 :> 1)

\* A late result of c2, which is not in r2, and none of c3.
Results0 ==
  (<<r1, c1>> :> [status |-> "passed", at |-> 0])
  @@ (<<r1, c2>> :> [status |-> "failed", at |-> 1])
  @@ (<<r2, c1>> :> [status |-> "passed", at |-> 2])

Req(kind, ids, window, only) ==
  [kind |-> kind, ids |-> ids, archived |-> FALSE, window |-> window,
   only |-> only]

Win(from, to, offset) == {[from |-> from, to |-> to, offset |-> offset]}

Requests ==
  {Req("dashboard", {p1}, {}, None), Req("analytics", {p1}, {}, None),
   Req("analytics", {p1}, Win(1, 2, 0), "completed"),
   Req("analytics", {p1}, Win(1, 3, 1), None),
   Req("analytics", {p1}, Win(3, 2, 0), None),
   Req("cross", Projects, {}, None), Req("cross", {p2}, Win(0, 3, 0), None),
   Req("report", {r1}, {}, None), Req("report", {r2}, {}, None),
   Req("metrics", {p1}, Win(1, 3, 0), None),
   Req("custom", {p1}, {}, None), Req("custom", {p1}, {}, r1),
   Req("custom", {p1}, {}, s1),
   Req("badge", {r2}, {}, None), Req("stats", {p1}, {}, None),
   Req("bulk", Projects, {}, None),
   [Req("cross", Projects, {}, None) EXCEPT !.archived = TRUE]}
=============================================================================
