------------------------------ MODULE Catalog -------------------------------
(***************************************************************************)
(* Projects, suites, cases and runs: what is below what, and what soft     *)
(* deletion does to it (app/services/project_service.py,                   *)
(* test_suite_service.py, test_case_service.py, and the delete and restore *)
(* of test_run_service.py).                                                *)
(*                                                                         *)
(* A request is a transaction at READ COMMITTED and a step one statement:  *)
(* reads see what is committed, an UPDATE locks its rows until the commit, *)
(* and a write by primary key changes its columns of whatever the row has  *)
(* become.  Requests that change nothing are left out, and so are the      *)
(* columns that place nothing.                                             *)
(***************************************************************************)
EXTENDS Naturals

CONSTANTS
  Projects, Suites, Cases, Runs,
  NoSuite,       \* the parent of a root suite
  ProjectOf,     \* project_id of a suite or a run: nothing changes it
  Requests,      \* request slots: how many requests are in flight at once
  Ops            \* the requests clients may make

Rows   == Projects \union Suites \union Cases \union Runs
Placed == Suites \union Cases
State  == {"absent", "live", "deleted"}

\* `to' is the suite a created or moved row is put under.
Op == [verb : {"create", "move", "delete", "restore"}, id : Rows,
       to : Suites \union {NoSuite}]

ASSUME CatalogAssumption ==
  /\ NoSuite \notin Suites /\ Projects # {}
  /\ Projects \intersect (Suites \union Cases \union Runs) = {}
  /\ Suites \intersect (Cases \union Runs) = {} /\ Cases \intersect Runs = {}
  /\ ProjectOf \in [Suites \union Runs -> Projects]
  /\ Ops \subseteq Op
  /\ \A o \in Ops :
       /\ o.verb = "create" => o.id \notin Projects
       /\ o.verb = "move" => o.id \in Placed
       /\ o.verb \in {"create", "move"} /\ o.id \in Cases => o.to \in Suites

VARIABLES
  state,         \* every row: not there yet, live, or soft-deleted
  above,         \* parent_suite_id of a suite, suite_id of a case
  pc,            \* request: "idle" | "begun" | "checked" | "ready" | "cases"
                 \*          | "runs" | "written"
  op,            \* request: what it asks for
  found,         \* request: the suites its SELECT returned
  aimed,         \* request: the cases its UPDATE matched when it was issued
  held,          \* request: the rows it wrote, locked until it ends
  strayed        \* history: something went live below a deleted suite

rows == <<state, above>>
vars == <<state, above, pc, op, found, aimed, held, strayed>>

NoOp == [verb |-> "restore", id |-> CHOOSE p \in Projects : TRUE, to |-> NoSuite]

Init ==
  /\ state = [x \in Rows |-> IF x \in Projects THEN "live" ELSE "absent"]
  /\ above = [x \in Placed |-> NoSuite]
  /\ pc = [q \in Requests |-> "idle"]
  /\ op = [q \in Requests |-> NoOp]
  /\ found = [q \in Requests |-> {}]
  /\ aimed = [q \in Requests |-> {}]
  /\ held = [q \in Requests |-> {}]
  /\ strayed = FALSE

-----------------------------------------------------------------------------
HeldByOthers(q) == UNION {held[r] : r \in Requests \ {q}}

(* delete_suite and delete_project; every other request writes one row.    *)
Cascades(o) == o.verb = "delete" /\ o.id \in Suites \union Projects

\* Bug: the subtree is the suite and its children only.
ChildrenOnly(s) ==
  {t \in Suites : state[t] = "live" /\ state[s] = "live"
                  /\ (t = s \/ above[t] = s)}

(* The recursive query: a live suite and all live suites reached from it   *)
(* through live ones, which is the least set with s that every live child  *)
(* of a member belongs to.                                                 *)
ClosedBelow(X) == \A t \in Suites : state[t] = "live" /\ above[t] \in X => t \in X
_descendant_suite_ids(s) ==
  {t \in Suites : state[s] = "live"
     /\ \A X \in SUBSET Suites : s \in X /\ ClosedBelow(X) => t \in X}

\* UNION ALL does not end on a suite that is below itself.
Endless(s) == above[s] \in _descendant_suite_ids(s)

End(q) ==
  /\ pc' = [pc EXCEPT ![q] = "idle"]
  /\ op' = [op EXCEPT ![q] = NoOp]
  /\ found' = [found EXCEPT ![q] = {}]
  /\ aimed' = [aimed EXCEPT ![q] = {}]
  /\ held' = [held EXCEPT ![q] = {}]

-----------------------------------------------------------------------------
(* The first SELECT, which answers 404 or, for a restore, 400.  A request  *)
(* that creates something names the project it creates it in.              *)
ProjectFor(o) == ProjectOf[IF o.id \in Cases THEN o.to ELSE o.id]

Admits(o) ==
  /\ o.verb = "create" => state[o.id] = "absent" /\ state[ProjectFor(o)] = "live"
  /\ o.verb \in {"move", "delete"} => state[o.id] = "live"
  /\ o.verb = "restore" => state[o.id] = "deleted"
  /\ o.verb = "move" => above[o.id] # o.to

Begin(q, o) ==
  /\ pc[q] = "idle"
  /\ Admits(o)
  /\ o.verb = "create" => \A r \in Requests : pc[r] # "idle" => op[r].id # o.id
  /\ pc' = [pc EXCEPT ![q] = "begun"]
  /\ op' = [op EXCEPT ![q] = o]
  /\ found' = [found EXCEPT ![q] =
                 IF o.verb = "restore" /\ o.id \in Cases THEN {above[o.id]} ELSE {}]
  /\ UNCHANGED <<rows, aimed, held, strayed>>

\* Bug: a move does not look at the new parent's deleted_at.
ParentExists(o) ==
  o.to # NoSuite => state[o.to] # "absent" /\ ProjectOf[o.to] = ProjectOf[o.id]

ParentFits(o) ==
  o.to # NoSuite => state[o.to] = "live" /\ ProjectOf[o.to] = ProjectOf[o.id]

(* The SELECT of what the row is to be under.                              *)
Fits(q, o) ==
  /\ o.verb \in {"create", "move"} /\ o.id \in Suites => ParentFits(o)
  /\ o.verb = "move" => o.to # o.id
  /\ o.verb = "create" /\ o.id \in Cases => state[o.to] = "live"
  /\ o.verb = "move" /\ o.id \in Cases => state[o.to] # "absent"
  /\ o.verb = "restore" /\ o.id \in Suites \union Runs =>
       state[ProjectOf[o.id]] = "live"
  /\ o.verb = "restore" /\ o.id \in Cases =>
       \A s \in found[q] : state[s] = "live"

MovesSuite(o) == o.verb = "move" /\ o.id \in Suites /\ o.to # NoSuite

Check(q) ==
  /\ pc[q] = "begun" /\ ~ Cascades(op[q])
  /\ Fits(q, op[q])
  /\ pc' = [pc EXCEPT ![q] = IF MovesSuite(op[q]) THEN "checked" ELSE "ready"]
  /\ UNCHANGED <<rows, op, found, aimed, held, strayed>>

(* update_suite asks for the subtree of the suite it moves.                *)
Guard(q) ==
  /\ pc[q] = "checked" /\ MovesSuite(op[q])
  /\ ~ Endless(op[q].id)
  /\ op[q].to \notin _descendant_suite_ids(op[q].id)
  /\ pc' = [pc EXCEPT ![q] = "ready"]
  /\ UNCHANGED <<rows, op, found, aimed, held, strayed>>

(* 400 or 404, and get_db rolls back.                                      *)
Refuse(q) ==
  /\ \/ pc[q] = "begun" /\ ~ Cascades(op[q]) /\ ~ Fits(q, op[q])
     \/ /\ pc[q] = "checked" /\ MovesSuite(op[q])
        /\ ~ Endless(op[q].id)
        /\ op[q].to \in _descendant_suite_ids(op[q].id)
  /\ End(q)
  /\ UNCHANGED <<rows, strayed>>

(* The flush of a request that writes one row.                             *)
Write(q) ==
  /\ pc[q] = "ready"
  /\ op[q].id \notin HeldByOthers(q)
  /\ held' = [held EXCEPT ![q] = {op[q].id}]
  /\ pc' = [pc EXCEPT ![q] = "written"]
  /\ UNCHANGED <<rows, op, found, aimed, strayed>>

-----------------------------------------------------------------------------
(* The suites a cascade is about: the subtree, or all live suites of the   *)
(* project, whose own row the autoflush before that SELECT has written.    *)
CollectSubtree(q) ==
  /\ pc[q] = "begun" /\ Cascades(op[q]) /\ op[q].id \in Suites
  /\ ~ Endless(op[q].id)
  /\ found' = [found EXCEPT ![q] = _descendant_suite_ids(op[q].id)]
  /\ pc' = [pc EXCEPT ![q] = "checked"]
  /\ UNCHANGED <<rows, op, aimed, held, strayed>>

CollectProject(q) ==
  /\ pc[q] = "begun" /\ Cascades(op[q]) /\ op[q].id \in Projects
  /\ op[q].id \notin HeldByOthers(q)
  /\ held' = [held EXCEPT ![q] = {op[q].id}]
  /\ found' = [found EXCEPT ![q] =
                 {s \in Suites : state[s] = "live" /\ ProjectOf[s] = op[q].id}]
  /\ pc' = [pc EXCEPT ![q] = "checked"]
  /\ UNCHANGED <<rows, op, aimed, strayed>>

(* UPDATE of the suites that are still live; then the UPDATE of their      *)
(* cases is issued, and matches what is committed at that moment.          *)
SweepSuites(q) ==
  /\ pc[q] = "checked" /\ Cascades(op[q])
  /\ LET live == {s \in found[q] : state[s] = "live"}
     IN  /\ live \intersect HeldByOthers(q) = {}
         /\ held' = [held EXCEPT ![q] = @ \union live]
  /\ aimed' = [aimed EXCEPT ![q] =
                 {c \in Cases : state[c] = "live" /\ above[c] \in found[q]}]
  /\ pc' = [pc EXCEPT ![q] = "cases"]
  /\ UNCHANGED <<rows, op, found, strayed>>

\* The UPDATE waits for the locks and looks at each case again.
SweepCases(q) ==
  /\ pc[q] = "cases"
  /\ aimed[q] \intersect HeldByOthers(q) = {}
  /\ held' = [held EXCEPT ![q] = @ \union
                {c \in aimed[q] : state[c] = "live" /\ above[c] \in found[q]}]
  /\ pc' = [pc EXCEPT ![q] = IF op[q].id \in Projects THEN "runs" ELSE "written"]
  /\ UNCHANGED <<rows, op, found, aimed, strayed>>

SweepRuns(q) ==
  /\ pc[q] = "runs"
  /\ LET live == {r \in Runs : state[r] = "live" /\ ProjectOf[r] = op[q].id}
     IN  /\ live \intersect HeldByOthers(q) = {}
         /\ held' = [held EXCEPT ![q] = @ \union live]
  /\ pc' = [pc EXCEPT ![q] = "written"]
  /\ UNCHANGED <<rows, op, found, aimed, strayed>>

-----------------------------------------------------------------------------
\* Bug: a move writes deleted_at as its session read it.
AfterWholeRow(o, x) == IF o.verb = "delete" THEN "deleted" ELSE "live"

\* What the request makes of a row it wrote: a move leaves deleted_at.
After(o, x) == IF o.verb = "delete" THEN "deleted"
               ELSE IF o.verb = "move" THEN state[x] ELSE "live"

\* What nothing but a restore or a moved case can do: it does not look at
\* the suite above.
Strays(o) ==
  \/ o.verb = "restore" /\ o.id \in Suites /\ above[o.id] \in Suites
       /\ state[above[o.id]] # "live"
  \/ o.verb = "move" /\ o.id \in Cases /\ state[o.to] # "live"

PlacedBy(o, x) == IF o.verb \in {"create", "move"} /\ x = o.id THEN o.to
                                                               ELSE above[x]

Commit(q) ==
  /\ pc[q] = "written"
  /\ state' = [x \in Rows |-> IF x \in held[q] THEN After(op[q], x) ELSE state[x]]
  /\ above' = [x \in Placed |-> PlacedBy(op[q], x)]
  /\ strayed' = (strayed \/ Strays(op[q]))
  /\ End(q)

Next ==
  \E q \in Requests :
    \/ \E o \in Ops : Begin(q, o)
    \/ Check(q) \/ Guard(q) \/ Refuse(q) \/ Write(q)
    \/ CollectSubtree(q) \/ CollectProject(q)
    \/ SweepSuites(q) \/ SweepCases(q) \/ SweepRuns(q)
    \/ Commit(q)

Spec == Init /\ [][Next]_vars

-----------------------------------------------------------------------------
(* Types of all variables; a case is always in a suite, and a suite under  *)
(* one of its own project.                                                 *)
TypeOK ==
  /\ state \in [Rows -> State]
  /\ above \in [Placed -> Suites \union {NoSuite}]
  /\ \A c \in Cases : state[c] # "absent" => above[c] \in Suites
  /\ \A s \in Suites : above[s] \in Suites => ProjectOf[above[s]] = ProjectOf[s]
  /\ pc \in [Requests -> {"idle", "begun", "checked", "ready", "cases", "runs",
                         "written"}]
  /\ op \in [Requests -> Op]
  /\ found \in [Requests -> SUBSET Suites]
  /\ aimed \in [Requests -> SUBSET Cases]
  /\ held \in [Requests -> SUBSET Rows]
  /\ strayed \in BOOLEAN

Alone == \A q, r \in Requests : q = r

(* Requests one after the other, nothing is live below something deleted:  *)
(* no live suite in a deleted project or under a deleted suite, no live    *)
(* case in a deleted suite, no live run in a deleted project.  The only    *)
(* ways out are the two requests that do not look at the suite above.      *)
Attached(x) ==
  /\ x \in Suites \union Runs => state[ProjectOf[x]] = "live"
  /\ x \in Placed => above[x] = NoSuite \/ state[above[x]] = "live"
NothingLiveBelowDeleted ==
  Alone /\ ~ strayed => \A x \in Rows : state[x] = "live" => Attached(x)

(* Every set of live suites has a member whose parent is not in the set.   *)
Acyclic ==
  \A X \in SUBSET {s \in Suites : state[s] = "live"} :
    X # {} => \E s \in X : above[s] \notin X

(* The guard of update_suite keeps the suites a tree, although it looks    *)
(* only at live descendants: a deleted suite in between does not hide a    *)
(* cycle, as long as nothing was restored below a deleted suite.           *)
MovesKeepTheTree == Alone /\ ~ strayed => Acyclic

(* However requests overlap, a row that a cascade deleted comes back only  *)
(* by its own restore, never by a move that was under way.                 *)
OnlyRestoreRevives ==
  [][\A x \in Rows : state[x] = "deleted" /\ state'[x] = "live" =>
       \E q \in Requests : /\ pc[q] = "written" /\ pc'[q] = "idle"
                           /\ op[q].verb = "restore" /\ op[q].id = x]_vars
=============================================================================
