------------------------------ MODULE RunViews ------------------------------
(***************************************************************************)
(* What the views of test runs say: the progress of one run or of a page   *)
(* of runs, the list of cases, the suite tree, the list of results, the    *)
(* counts in reports (app/services/test_run_service.py,                    *)
(* test_result_service.py, report_service.py).                             *)
(*                                                                         *)
(* A view is a request of several SELECTs; at READ COMMITTED each of them  *)
(* sees what is committed by then.  The other requests are here as what    *)
(* they commit, at once: how they overlap is the subject of Catalog,       *)
(* TestRuns and TestResults.  Pages are not modelled.                      *)
(***************************************************************************)
EXTENDS Integers, FiniteSets

CONSTANTS
  Runs, Cases, Suites,
  Parent,        \* parent_suite_id
  Home,          \* suite_id of the cases at first
  Foreign,       \* suites of other projects than the runs'
  Submits,       \* bound: statuses that are submitted
  MaxWrites      \* bound: requests that write

Status == {"passed", "failed", "blocked", "no_run"}
None   == {"none"}      \* no result; no suite chosen; no parent

(* Suites are a tree: Catalog has the requests that move them.             *)
ASSUME RunViewsAssumption ==
  /\ IsFiniteSet(Cases) /\ IsFiniteSet(Runs)
  /\ Foreign \subseteq Suites
  /\ Suites \intersect {"none", "explicit"} = {}
  /\ Home \in [Cases -> Suites]
  /\ Parent \in [Suites -> Suites \union None]
  /\ \A S \in (SUBSET Suites) \ {{}} : \E s \in S : Parent[s] \notin S
  /\ Submits \subseteq Status
  /\ MaxWrites \in Nat

(* Which cases a run has: the picked ones (explicit; its suite_id is not   *)
(* read then), those of a suite, those of the project ("none").            *)
Scope == Suites \union None \union {"explicit"}
Row   == [scope : Scope, gone : BOOLEAN]
View  == {"progress", "cases", "tree", "results", "report"}

VARIABLES
  caseGone, suiteGone,     \* rows with a deleted_at
  home,                    \* suite_id of a case
  run,                     \* test_runs: cases_mode with suite_id, deleted_at
  picked,                  \* test_run_test_cases
  result,                  \* test_results: status
  hidden,                  \* cases whose result in the run has a deleted_at
  writes,                  \* requests that wrote so far
  view, asked,             \* the request that reads, and the runs it is for
  pc,                      \* "idle" | "total" | "rows" | "suites" | "answered"
  seen,                    \* the run rows it read
  left, group,             \* progress: runs without total; those at hand
  total, counts,           \* progress: of each run
  found,                   \* what the SELECT for rows returned
  nodes,                   \* tree: the suites found for them
  quiet                    \* history: nothing was written since it began

tables == <<caseGone, suiteGone, home, run, picked, result, hidden>>
reader == <<view, asked, pc, seen, left, group, total, counts, found, nodes>>
question == <<view, asked, seen, quiet>>
vars == <<tables, writes, reader, quiet>>

Live(r) == ~ run[r].gone
Zero == [s \in Status |-> 0]

Init ==
  /\ caseGone = {} /\ suiteGone = {}
  /\ home = Home
  /\ run \in [Runs -> Row] /\ \A r \in Runs : Live(r)
  /\ picked \in [Runs -> SUBSET {c \in Cases : home[c] \notin Foreign}]
  /\ \A r \in Runs : run[r].scope # "explicit" => picked[r] = {}
  /\ result = [r \in Runs |-> [c \in Cases |-> "none"]]
  /\ hidden = [r \in Runs |-> {}]
  /\ writes = 0
  /\ view = "progress" /\ asked = {} /\ pc = "idle" /\ seen = run
  /\ left = {} /\ group = {} /\ found = {} /\ nodes = {}
  /\ total = [r \in Runs |-> 0]
  /\ counts = [r \in Runs |-> Zero]
  /\ quiet = TRUE

-----------------------------------------------------------------------------
(* Requests that write, as what they commit.  A behaviour ends with the    *)
(* answer to one view: a reader keeps nothing for the next.                *)
Writes ==
  /\ pc # "answered"
  /\ writes < MaxWrites /\ writes' = writes + 1
  /\ quiet' = FALSE
  /\ UNCHANGED reader

(* Of a set of suites, those that hang below one of them in it.            *)
ClosedIn(T, S) == \A s \in T : Parent[s] \in S => s \in S
Below(T, top) ==
  {s \in T : \A S \in SUBSET T : top \in S /\ ClosedIn(T, S) => s \in S}

DeleteCase(c) ==
  /\ Writes /\ c \notin caseGone
  /\ caseGone' = caseGone \union {c}
  /\ UNCHANGED <<suiteGone, home, run, picked, result, hidden>>

RestoreCase(c) ==
  /\ Writes /\ c \in caseGone /\ home[c] \notin suiteGone
  /\ caseGone' = caseGone \ {c}
  /\ UNCHANGED <<suiteGone, home, run, picked, result, hidden>>

\* The suite may be deleted or of another project.
MoveCase(c, s) ==
  /\ Writes /\ c \notin caseGone
  /\ home' = [home EXCEPT ![c] = s]
  /\ UNCHANGED <<caseGone, suiteGone, run, picked, result, hidden>>

DeleteSuite(s) ==
  /\ Writes /\ s \notin suiteGone
  /\ LET below == Below(Suites \ suiteGone, s)
     IN  /\ suiteGone' = suiteGone \union below
         /\ caseGone' = caseGone \union {c \in Cases : home[c] \in below}
  /\ UNCHANGED <<home, run, picked, result, hidden>>

RestoreSuite(s) ==
  /\ Writes /\ s \in suiteGone
  /\ suiteGone' = suiteGone \ {s}
  /\ UNCHANGED <<caseGone, home, run, picked, result, hidden>>

\* Any live case: that it is in the run is not checked.
Submit(r, c, status) ==
  /\ Writes /\ Live(r) /\ c \notin caseGone \union hidden[r]
  /\ result' = [result EXCEPT ![r][c] = status]
  /\ UNCHANGED <<caseGone, suiteGone, home, run, picked, hidden>>

\* Deleted cases may be picked, those of other projects may not.
SetCases(r, cases) ==
  /\ Writes /\ Live(r)
  /\ \A c \in cases : home[c] \notin Foreign
  /\ picked' = [picked EXCEPT ![r] = cases]
  /\ run' = [run EXCEPT ![r].scope = "explicit"]
  /\ UNCHANGED <<caseGone, suiteGone, home, result, hidden>>

\* PUT of suite_id, which is not checked either.
SetSuite(r, s) ==
  /\ Writes /\ Live(r) /\ run[r].scope # "explicit"
  /\ run' = [run EXCEPT ![r].scope = s]
  /\ UNCHANGED <<caseGone, suiteGone, home, picked, result, hidden>>

Swept(r) == {c \in Cases : result[r][c] # "none"}

DeleteRun(r) ==
  /\ Writes /\ Live(r)
  /\ run' = [run EXCEPT ![r].gone = TRUE]
  /\ hidden' = [hidden EXCEPT ![r] = Swept(r)]
  /\ UNCHANGED <<caseGone, suiteGone, home, picked, result>>

\* The results stay deleted.
RestoreRun(r) ==
  /\ Writes /\ ~ Live(r)
  /\ run' = [run EXCEPT ![r].gone = FALSE]
  /\ UNCHANGED <<caseGone, suiteGone, home, picked, result, hidden>>

-----------------------------------------------------------------------------
(* The cases of a run, for a reader that read its row and then the rest.   *)
Picks(r) == seen[r].scope = "explicit"

InAuto(r, c) ==
  /\ home[c] \notin Foreign
  /\ seen[r].scope \in {home[c]} \union None

(* One rule, written out in get_progress, batch_run_progress and           *)
(* run_scope_case_ids.                                                     *)
ScopeOf(r) ==
  IF Picks(r) THEN picked[r]
  ELSE {c \in Cases : /\ InAuto(r, c)
                      /\ c \notin caseGone /\ home[c] \notin suiteGone}

\* GET cases does not look at deleted_at.
CasesOf(r) ==
  IF Picks(r) THEN picked[r] ELSE {c \in Cases : InAuto(r, c)}

\* Bug: the picked cases are taken as they are.
TreeOfPicked(r) == ScopeOf(r)

\* The tree does, also in an explicit run.
TreeCasesOf(r) ==
  IF Picks(r) THEN picked[r] \ caseGone ELSE ScopeOf(r)

Tested(r) == {c \in Cases : result[r][c] # "none" /\ c \notin hidden[r]}

Counted(r, cases) ==
  [s \in Status |-> Cardinality({c \in cases : result[r][c] = s})]

\* What an outer join with test_results returns; it ignores deleted_at.
Joined(r, cases) ==
  {[run |-> r, case |-> c, suite |-> home[c], status |-> result[r][c]] :
     c \in cases}

-----------------------------------------------------------------------------
(* Views.  All begin with the runs' rows; deleted runs are not found,      *)
(* but a page may include them on request.                                 *)
Ask(v, runs) ==
  /\ pc = "idle"
  /\ runs # {} /\ \A r \in runs : Live(r) \/ v = "progress"
  /\ v \in {"progress", "report"} \/ Cardinality(runs) = 1
  /\ view' = v /\ asked' = runs
  /\ seen' = run
  /\ pc' = IF v \in {"progress", "cases"} THEN "total" ELSE "rows"
  /\ left' = runs
  /\ quiet' = TRUE
  /\ UNCHANGED <<tables, writes, group, total, counts, found, nodes>>

(* A page's explicit runs are counted together, then the others one by one.*)
Together == {r \in left : Picks(r)}
NextGroups == IF Together # {} THEN {Together} ELSE {{r} : r \in left}

ReadTotals ==
  /\ pc = "total" /\ view = "progress"
  /\ group' \in NextGroups
  /\ total' = [r \in Runs |-> IF r \in group' THEN Cardinality(ScopeOf(r))
                              ELSE total[r]]
  /\ pc' = "rows"
  /\ UNCHANGED <<tables, writes, question, left, counts, found, nodes>>

ReadCounts ==
  /\ pc = "rows" /\ view = "progress"
  /\ counts' = [r \in Runs |-> IF r \in group
                               THEN Counted(r, ScopeOf(r) \intersect Tested(r))
                               ELSE counts[r]]
  /\ left' = left \ group
  /\ pc' = IF left' = {} THEN "answered" ELSE "total"
  /\ UNCHANGED <<tables, writes, question, group, total, found, nodes>>

ReadCaseTotal ==
  /\ pc = "total" /\ view = "cases"
  /\ total' = [r \in Runs |-> IF r \in asked THEN Cardinality(CasesOf(r))
                              ELSE total[r]]
  /\ pc' = "rows"
  /\ UNCHANGED <<tables, writes, question, left, group, counts, found, nodes>>

RowsOf(r) ==
  CASE view = "cases"   -> Joined(r, CasesOf(r))
    [] view = "tree"    -> Joined(r, TreeCasesOf(r))
    [] view = "results" -> Joined(r, ScopeOf(r) \intersect Tested(r))
    [] view = "report"  -> Joined(r, Tested(r))

ReadRows ==
  /\ pc = "rows" /\ view # "progress"
  /\ found' = UNION {RowsOf(r) : r \in asked}
  /\ pc' = IF view = "tree" THEN "suites" ELSE "answered"
  /\ UNCHANGED <<tables, writes, question, left, group, total, counts, nodes>>

(* The tree's suites come with a statement of their own.                   *)
ReadSuites ==
  /\ pc = "suites"
  /\ nodes' = {x.suite : x \in found} \ suiteGone
  /\ pc' = "answered"
  /\ UNCHANGED <<tables, writes, question, left, group, total, counts, found>>

Read ==
  \/ \E v \in View, runs \in SUBSET Runs : Ask(v, runs)
  \/ ReadTotals \/ ReadCounts \/ ReadCaseTotal \/ ReadRows \/ ReadSuites

Write ==
  \/ \E c \in Cases : DeleteCase(c) \/ RestoreCase(c)
  \/ \E c \in Cases, s \in Suites : MoveCase(c, s)
  \/ \E s \in Suites : DeleteSuite(s) \/ RestoreSuite(s)
  \/ \E r \in Runs : DeleteRun(r) \/ RestoreRun(r)
  \/ \E r \in Runs, c \in Cases, status \in Submits : Submit(r, c, status)
  \/ \E r \in Runs, cases \in SUBSET Cases : SetCases(r, cases)
  \/ \E r \in Runs, s \in Suites \union None : SetSuite(r, s)

Next == Read \/ Write

Spec == Init /\ [][Next]_vars

-----------------------------------------------------------------------------
(* What is made of the rows in memory.                                     *)
TestedIn(r) == counts[r]["passed"] + counts[r]["failed"]
               + counts[r]["blocked"] + counts[r]["no_run"]

\* Bug: no max(), since tested <= total "by construction".
DenominatorIsTotal(r) == total[r]

Denominator(r) == IF total[r] >= TestedIn(r) THEN total[r] ELSE TestedIn(r)

\* TestRunProgress.no_run: results, and cases without one.
NoRun(r) == counts[r]["no_run"] + (IF total[r] >= TestedIn(r)
                                   THEN total[r] - TestedIn(r) ELSE 0)

Kept == {x \in found : x.suite \in nodes}

\* Bug: only suites without a parent are roots.
TopSuites == {s \in nodes : Parent[s] = "none"}

Roots == {s \in nodes : Parent[s] \notin nodes}

-----------------------------------------------------------------------------
TablesTyped ==
  /\ caseGone \subseteq Cases /\ suiteGone \subseteq Suites
  /\ home \in [Cases -> Suites]
  /\ run \in [Runs -> Row]
  /\ picked \in [Runs -> SUBSET Cases]
  /\ result \in [Runs -> [Cases -> Status \union None]]
  /\ hidden \in [Runs -> SUBSET Cases]
  /\ \A r \in Runs : \A c \in hidden[r] : result[r][c] # "none"

ReaderTyped ==
  /\ view \in View /\ asked \subseteq Runs
  /\ pc \in {"idle", "total", "rows", "suites", "answered"}
  /\ seen \in [Runs -> Row]
  /\ left \subseteq Runs /\ group \subseteq Runs
  /\ total \in [Runs -> Nat] /\ counts \in [Runs -> [Status -> Nat]]
  /\ found \subseteq [run : Runs, case : Cases, suite : Suites,
                      status : Status \union None]
  /\ nodes \subseteq Suites

(* Types of all variables; only results that exist are deleted.            *)
TypeOK ==
  TablesTyped /\ ReaderTyped /\ writes \in 0..MaxWrites /\ quiet \in BOOLEAN

Answered(v) == pc = "answered" /\ view = v

(* The numbers of a progress add up and the rate is a ratio (le=1 in       *)
(* TestRunProgress, or the request fails), however the two SELECTs race    *)
(* with writes; without a write, they add up to total (service-layer.md).  *)
ProgressAddsUp ==
  Answered("progress") => \A r \in asked :
    /\ counts[r]["passed"] + counts[r]["failed"] + counts[r]["blocked"]
         + NoRun(r) = Denominator(r)
    /\ counts[r]["passed"] <= Denominator(r)
    /\ quiet => Denominator(r) = total[r]

(* Every case the tree counts is below exactly one root, although only     *)
(* suites with cases have nodes and suites may go between the two SELECTs. *)
TreeShowsAll ==
  Answered("tree") => \A x \in Kept : \E t \in Roots : \A u \in Roots :
    x.suite \in Below(nodes, u) <=> u = t

Gone == {c \in Cases : c \in caseGone \/ home[c] \in suiteGone}

(* When nothing was written meanwhile, the views agree on the cases of a   *)
(* run and on their results up to deleted rows: the list of cases has      *)
(* deleted ones in addition, the tree leaves out deleted ones that were    *)
(* picked and shows results of a run that was deleted and restored, a      *)
(* report has results of cases that are not in the run.                    *)
ViewsAgree ==
  pc = "answered" /\ quiet => \A r \in asked :
    LET scope == ScopeOf(r)
        shown == {x \in found : x.run = r}
        cases == {x.case : x \in shown}
    IN  CASE view = "progress" ->
               /\ total[r] = Cardinality(scope)
               /\ counts[r] = Counted(r, scope \intersect Tested(r))
          [] view = "cases" ->
               /\ scope \subseteq cases /\ cases \ scope \subseteq Gone
               /\ total[r] = Cardinality(shown)
          [] view = "tree" ->
               /\ {x.case : x \in Kept} = scope \ Gone
               /\ \A x \in Kept : x.status # "none" =>
                    x.case \in Tested(r) \union hidden[r]
          [] view = "results" -> cases = scope \intersect Tested(r)
          [] view = "report" ->
               cases \intersect scope = scope \intersect Tested(r)
=============================================================================
