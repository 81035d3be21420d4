------------------------------ MODULE Reports -------------------------------
(***************************************************************************)
(* What the reports say: dashboard, analytics of one project and of many,  *)
(* run report, daily metrics, custom report, badge and project statistics  *)
(* (app/services/report_service.py, project_service.py, ci_service.py).    *)
(*                                                                         *)
(* A report is up to a dozen SELECTs.  At READ COMMITTED each sees what is *)
(* committed by then.  Requests that write are here as what they commit,   *)
(* at once; the two SELECTs of a run's progress, which RunViews lets race, *)
(* are one here.  A rate is the pair <<passed, denominator>>, a mean is    *)
(* the rates it is made of; rounding is left out.                          *)
(***************************************************************************)
EXTENDS Integers, Sequences, FiniteSets, FiniteSetsExt

CONSTANTS
  Projects, Suites, Cases, Runs,
  ProjectOf,     \* project_id of suites and runs
  SuiteOf,       \* suite_id of cases
  Automated,     \* cases whose type is "automated" at first, else "manual"
  Picked,        \* runs with cases_mode = "explicit", and their cases
  SuiteRun,      \* runs with a suite_id, and their suite
  Created,       \* created_at of runs, an instant
  Tested,        \* the first results: [test_run_id, test_case_id -> row]
  Now, Day,      \* the present instant; instants in a day (UTC)
  Asks,          \* bound: the requests that read
  RecentLimit, PageSize,
  Submits,       \* bound: statuses that are submitted
  MaxWrites      \* bound: requests that write

None   == "none"
Status == {"passed", "failed", "blocked", "no_run"}
RunStatus == {"planned", "active", "completed", "aborted"}
Kind == {"dashboard", "analytics", "cross", "report", "metrics", "custom",
         "badge", "stats", "bulk"}
(* A request: ids of runs ("report", "badge") or projects; include_archived;*)
(* date_from, date_to and their offset from UTC, or {}; a filter by status *)
(* of runs, or, in a custom report, by suite or run.                       *)
Window == [from : 0..Now, to : 0..Now, offset : {0, 1}]
Ask == [kind : Kind, ids : SUBSET (Projects \union Runs), archived : BOOLEAN,
        window : SUBSET Window, only : RunStatus \union Suites \union Runs
                                       \union {None}]

ASSUME ReportsAssumption ==
  /\ \A S \in {Projects, Suites, Cases, Runs} : IsFiniteSet(S)
  /\ ProjectOf \in [Suites \union Runs -> Projects]
  /\ SuiteOf \in [Cases -> Suites] /\ Automated \subseteq Cases
  /\ DOMAIN Picked \subseteq Runs /\ DOMAIN SuiteRun \subseteq Runs
  /\ \A r \in DOMAIN Picked : Picked[r] \subseteq Cases
  /\ Now \in Nat /\ Day \in Nat \ {0}
  /\ Created \in [Runs -> 0..Now]
  /\ DOMAIN Tested \subseteq Runs \X Cases
  /\ \A x \in DOMAIN Tested : Tested[x] \in [status : Status, at : 0..Now]
  /\ Asks \subseteq Ask /\ Asks # {} /\ Submits \subseteq Status
  /\ \A a \in Asks :
       /\ a.ids \subseteq IF a.kind \in {"report", "badge"} THEN Runs ELSE Projects
       /\ a.kind = "report" => \E r \in Runs : a.ids = {r}
  /\ RecentLimit \in Nat /\ PageSize \in Nat \ {0} /\ MaxWrites \in Nat

VARIABLES
  gone,          \* rows of any table with a deleted_at
  archived,      \* projects with is_archived
  automated,     \* test_cases: type = "automated"
  status,        \* test_runs: status
  ended,         \* test_runs: completed_at is set (to Now)
  result,        \* test_results
  writes,        \* requests that wrote so far
  ask, phase,    \* the report; "idle" | "reading" | "answered"
  scope,         \* the projects it is about
  todo,          \* the SELECTs that are left, in order
  got,           \* what the others returned, by their name
  quiet          \* history: nothing was written since it began

tables == <<gone, archived, automated, status, ended, result>>
reader == <<ask, phase, scope, todo, got>>
reportsVars == <<tables, writes, reader, quiet>>

ReportsInit ==
  /\ gone = {} /\ archived = {} /\ automated = Automated
  /\ \E done \in SUBSET Runs :
       /\ status = [r \in Runs |-> IF r \in done THEN "completed" ELSE "active"]
       /\ ended = done
  /\ result = Tested
  /\ writes = 0
  /\ ask = (CHOOSE a \in Asks : TRUE) /\ phase = "idle" /\ scope = {} /\ todo = <<>> /\ got = <<>>
  /\ quiet = TRUE

-----------------------------------------------------------------------------
(* Requests that write, as what they commit.                               *)
Writes ==
  /\ phase # "answered"
  /\ writes < MaxWrites /\ writes' = writes + 1
  /\ quiet' = FALSE
  /\ UNCHANGED reader

\* Bug: also results that do not exist are marked.
ResultsOfAll(runs) == runs \X Cases

ResultsOf(runs) == {x \in DOMAIN result : x[1] \in runs}
SuitesOf(P) == {s \in Suites : ProjectOf[s] \in P}
RunsOf(P)   == {r \in Runs : ProjectOf[r] \in P}
CasesIn(S)  == {c \in Cases : SuiteOf[c] \in S}

Parent(x) ==
  IF x \in Cases THEN {SuiteOf[x]}
  ELSE IF x \in Projects THEN {} ELSE {ProjectOf[x]}

\* The rows that are marked with a row that is deleted.
Cascade(x) ==
  IF x \in Suites THEN {x} \union CasesIn({x})
  ELSE IF x \in Runs THEN {x} \union ResultsOf({x})
  ELSE IF x \in Projects
  THEN LET S == SuitesOf({x}) \ gone
           R == RunsOf({x}) \ gone
       IN  {x} \union S \union CasesIn(S) \union R \union ResultsOf(R)
  ELSE {x}

Deletable == Projects \union Suites \union Cases \union Runs

Delete(x) ==
  /\ Writes /\ x \notin gone
  /\ gone' = gone \union Cascade(x)
  /\ UNCHANGED <<archived, automated, status, ended, result>>

(* What went with the row stays deleted.  A parent must not be deleted.    *)
Restore(x) ==
  /\ Writes /\ x \in gone
  /\ Parent(x) \intersect gone = {}
  /\ gone' = gone \ {x}
  /\ UNCHANGED <<archived, automated, status, ended, result>>

Archive(p) ==
  /\ Writes /\ p \notin gone
  /\ archived' = archived \union {p}
  /\ UNCHANGED <<gone, automated, status, ended, result>>

\* A case becomes manual or automated.
Retype(c) ==
  /\ Writes /\ c \notin gone
  /\ automated' = SymDiff(automated, {c})
  /\ UNCHANGED <<gone, archived, status, ended, result>>

Close(r) ==
  /\ Writes /\ r \notin gone /\ status[r] # "completed"
  /\ status' = [status EXCEPT ![r] = "completed"]
  /\ ended' = ended \union {r}
  /\ UNCHANGED <<gone, archived, automated, result>>

\* A status that is set by hand leaves completed_at alone.
SetStatus(r, s) ==
  /\ Writes /\ r \notin gone /\ status[r] # s
  /\ status' = [status EXCEPT ![r] = s]
  /\ UNCHANGED <<gone, archived, automated, ended, result>>

Submit(r, c, s) ==
  /\ Writes /\ r \notin gone /\ c \notin gone /\ <<r, c>> \notin gone
  /\ result' = [x \in DOMAIN result \union {<<r, c>>} |->
                  IF x = <<r, c>> THEN [status |-> s, at |-> Now] ELSE result[x]]
  /\ status' = [status EXCEPT ![r] = IF @ = "planned" THEN "active" ELSE @]
  /\ UNCHANGED <<gone, archived, automated, ended>>

-----------------------------------------------------------------------------
(* What the SELECTs ask for.                                               *)
LiveRuns(P)   == RunsOf(P) \ gone
LiveSuites(P) == SuitesOf(P) \ gone
LiveCases(P)  == CasesIn(LiveSuites(P)) \ gone
Active(R)     == {r \in R : status[r] \in {"planned", "active"}}
Completed(P)  == {r \in LiveRuns(P) : status[r] = "completed"}
LiveResults(R) == ResultsOf(R) \ gone

\* Results, counted by status.
Distribution(X) ==
  [s \in Status |-> Cardinality({x \in X : result[x].status = s})]

Zero == [s \in Status |-> 0]
Total(f) == MapThenSumSet(LAMBDA x : f[x], DOMAIN f)

InWindow(at, W) == \A w \in W : at \in w.from..w.to

\* func.date(): the day of a result, in UTC.
DayOf(at) == at \div Day
ByDay(X) == [d \in {DayOf(result[x].at) : x \in X} |->
               Distribution({x \in X : DayOf(result[x].at) = d})]

(* The cases of a run and its rate (batch_run_progress); runs without      *)
(* cases and results have none.                                            *)
ScopeOf(r) ==
  IF r \in DOMAIN Picked THEN Picked[r]
  ELSE {c \in LiveCases({ProjectOf[r]}) :
          r \in DOMAIN SuiteRun => SuiteOf[c] = SuiteRun[r]}

Progress(r) ==
  LET tested == {x \in LiveResults({r}) : x[2] \in ScopeOf(r)}
  IN  <<Distribution(tested)["passed"],
        Max({Cardinality(ScopeOf(r)), Cardinality(tested)})>>

Rates(R) == [r \in {r \in R : Progress(r)[2] > 0} |-> Progress(r)]

\* The latest n runs; of equally old ones, any.
Latest(R, n) ==
  {S \in SUBSET R : /\ Cardinality(S) = Min({n, Cardinality(R)})
                    /\ \A x \in S, y \in R \ S : Created[x] >= Created[y]}

\* The first n results, latest first: an order by tested_at alone.
First(X, n) ==
  {S \in SUBSET X : /\ Cardinality(S) = Min({n, Cardinality(X)})
                    /\ \A x \in S, y \in X \ S : result[x].at >= result[y].at}

\* Bug: the first page has number 0.
PagesFromZero(X, k) ==
  UNION {{B \ A : B \in {T \in First(X, (k + 1) * PageSize) : A \subseteq T}} :
           A \in First(X, k * PageSize)}

PagesOf(X, k) ==
  UNION {{B \ A : B \in {T \in First(X, k * PageSize) : A \subseteq T}} :
           A \in First(X, (k - 1) * PageSize)}

-----------------------------------------------------------------------------
(* The SELECTs of each report, in order.                                   *)
DashboardPlan ==
  <<"suites", "cases", "runs", "active", "distribution", "recent", "counts">>
AnalyticsPlan ==
  <<"suites", "cases", "runs", "active", "distribution", "completed", "rates",
    "listed", "counts", "types", "automated", "trend">>
CrossPlan ==
  <<"suites", "cases", "runs", "active", "distribution", "completed", "rates",
    "runs_per", "results_per", "listed", "counts", "types", "automated",
    "trend">>
StatsPlan == <<"suites", "cases", "runs", "completed", "rates">>
BulkPlan  == <<"all_suites", "all_cases", "all_runs", "completed", "rates">>
\* A reader who asks for one page after the other.
CustomPlan == <<"total", "page_1", "total", "page_2">>
BadgePlan  == <<"results", "passed">>

Plan == [dashboard |-> DashboardPlan, analytics |-> AnalyticsPlan,
         cross |-> CrossPlan, report |-> <<"rows">>, metrics |-> <<"days">>,
         custom |-> CustomPlan, badge |-> BadgePlan,
         stats |-> StatsPlan, bulk |-> BulkPlan]

\* The projects a request is about; none: 404, or an empty report.
Chosen(a) == {p \in a.ids : a.archived \/ p \notin archived}
Resolved(a) ==
  CASE a.kind \in {"report", "badge"} -> {ProjectOf[r] : r \in a.ids \ gone}
    [] a.kind = "cross" -> Chosen(a) \ gone
    [] a.kind = "bulk"  -> Chosen(a)
    [] OTHER -> a.ids \ gone

Receive(a) ==
  /\ phase = "idle"
  /\ ask' = a /\ scope' = Resolved(a) /\ got' = <<>> /\ quiet' = TRUE
  /\ todo' = IF scope' = {} THEN <<>> ELSE Plan[a.kind]
  /\ phase' = IF scope' = {} THEN "answered" ELSE "reading"
  /\ UNCHANGED <<tables, writes>>

\* One SELECT; the last one is followed by the answer.
SelectThen(name, value, rest) ==
  /\ phase = "reading" /\ Head(todo) = name
  /\ got' = [n \in DOMAIN got \union {name} |->
               IF n = name THEN value ELSE got[n]]
  /\ todo' = rest
  /\ phase' = IF rest = <<>> THEN "answered" ELSE "reading"
  /\ UNCHANGED <<tables, writes, ask, scope, quiet>>

Select(name, value) == SelectThen(name, value, Tail(todo))

Per(X, Owner(_)) ==
  [p \in scope |-> Cardinality({x \in X : Owner(x) = p})]

RunFilter(r) ==
  /\ ask.only # None => status[r] = ask.only
  /\ InWindow(IF r \in ended THEN Now ELSE Created[r], ask.window)

\* Bug: results of runs that are not completed count as well.
TrendResultsAny(P) == LiveResults(LiveRuns(P))

TrendResults(P) == LiveResults(Completed(P))

CountSuites == Select("suites", Cardinality(LiveSuites(scope)))
CountCases  == Select("cases", Cardinality(LiveCases(scope)))
CountRuns   == Select("runs", Cardinality(LiveRuns(scope)))
CountActive == Select("active", Cardinality(Active(LiveRuns(scope))))
ReadDistribution ==
  Select("distribution", Distribution(LiveResults(Completed(scope))))

ReadRecent ==
  \E R \in Latest(LiveRuns(scope), RecentLimit) : Select("recent", R)

\* The runs of the answer, by the SELECT before.
Listed == got[IF ask.kind = "dashboard" THEN "recent" ELSE "listed"]
ReadCounts ==
  Select("counts", [r \in Listed |-> Distribution(LiveResults({r}))])

ReadCompleted == Select("completed", Completed(scope))
ReadRates     == Select("rates", Rates(got["completed"]))
CountRunsPer  == Select("runs_per", Per(LiveRuns(scope), LAMBDA r : ProjectOf[r]))
CountResultsPer ==
  Select("results_per",
         Per(LiveResults(Completed(scope)), LAMBDA x : ProjectOf[x[1]]))

ReadListed == Select("listed", {r \in LiveRuns(scope) : RunFilter(r)})

ReadTypes ==
  LET of(auto) == Cardinality({c \in LiveCases(scope) : (c \in automated) = auto})
  IN  Select("types", [manual |-> of(FALSE), automated |-> of(TRUE)])
CountAutomated ==
  Select("automated", Cardinality(LiveCases(scope) \intersect automated))

ReadTrend ==
  Select("trend", ByDay({x \in TrendResults(scope) :
                           InWindow(result[x].at, ask.window)}))

(* A run's report is about the cases of its project or suite, also when    *)
(* the run has picked its cases; "none" stands for a case without result.  *)
ReportCases(r) ==
  {c \in LiveCases(scope) : r \in DOMAIN SuiteRun => SuiteOf[c] = SuiteRun[r]}
ReadRows ==
  \E r \in ask.ids :
    Select("rows", [c \in ReportCases(r) |->
                      IF <<r, c>> \in LiveResults({r}) THEN result[<<r, c>>].status
                      ELSE None])

ReadDays ==
  Select("days", ByDay({x \in LiveResults(LiveRuns(scope)) :
                          InWindow(result[x].at, ask.window)}))

CustomRows ==
  {x \in LiveResults(LiveRuns(scope)) :
     /\ x[2] \notin gone
     /\ ask.only \in {None, x[1], SuiteOf[x[2]]}
     /\ InWindow(result[x].at, ask.window)}
CountTotal == Select("total", Cardinality(CustomRows))
ReadPage(name, k) == \E X \in PagesOf(CustomRows, k) : Select(name, X)

\* Without results the badge says 0% and asks no more.
CountResults ==
  LET n == Cardinality(LiveResults(ask.ids))
  IN  SelectThen("results", n, IF n = 0 THEN <<>> ELSE Tail(todo))
CountPassed ==
  Select("passed", Distribution(LiveResults(ask.ids))["passed"])

\* The statistics of many projects look at no deleted_at but the runs'.
CountAllSuites == Select("all_suites", Per(SuitesOf(scope), LAMBDA s : ProjectOf[s]))
CountAllCases ==
  Select("all_cases", Per(CasesIn(SuitesOf(scope)), LAMBDA c : ProjectOf[SuiteOf[c]]))
\* Bug: the count of a status replaces that of another.
CountRunsOfLast ==
  \E s \in RunStatus :
    Select("all_runs", Per({r \in RunsOf(scope) : status[r] = s},
                           LAMBDA r : ProjectOf[r]))

CountAllRuns ==
  Select("all_runs", Per(RunsOf(scope), LAMBDA r : ProjectOf[r]))

Read ==
  \/ \E a \in Asks : Receive(a)
  \/ CountSuites \/ CountCases \/ CountRuns \/ CountActive \/ ReadDistribution
  \/ ReadRecent \/ ReadListed \/ ReadCounts \/ ReadCompleted \/ ReadRates
  \/ CountRunsPer \/ CountResultsPer
  \/ ReadTypes \/ CountAutomated \/ ReadTrend \/ ReadRows \/ ReadDays
  \/ CountTotal \/ ReadPage("page_1", 1) \/ ReadPage("page_2", 2)
  \/ CountResults \/ CountPassed
  \/ CountAllSuites \/ CountAllCases \/ CountAllRuns

Write ==
  \/ \E x \in Deletable : Delete(x) \/ Restore(x)
  \/ \E p \in Projects : Archive(p)
  \/ \E c \in Cases : Retype(c)
  \/ \E r \in Runs : Close(r) \/ \E s \in RunStatus : SetStatus(r, s)
  \/ \E r \in Runs, c \in Cases, s \in Submits : Submit(r, c, s)

ReportsNext == Read \/ Write

ReportsSpec == ReportsInit /\ [][ReportsNext]_reportsVars

-----------------------------------------------------------------------------
(* What is made of the rows in memory.                                     *)
\* Bug: the rates of each project are read again.
MeanReadAgain(p) == Rates(Completed({p}))

\* The rates of a project, out of those of all completed runs.
MeanOf(p) ==
  [r \in DOMAIN got["rates"] \intersect RunsOf({p}) |-> got["rates"][r]]

\* date_from.date(), in the offset the client sent.
LocalDay(at, w) == (at + w.offset) \div Day

\* Bug: the last day is left out.
ZeroFillShort(w) == LocalDay(w.from, w)..(LocalDay(w.to, w) - 1)

\* The days of the trend: a point for each, with or without results.
ZeroFilled(w) == LocalDay(w.from, w)..LocalDay(w.to, w)

Trend(w) ==
  [d \in ZeroFilled(w) |-> IF d \in DOMAIN got["trend"] THEN got["trend"][d]
                           ELSE Zero]

Results(f) == Total([x \in DOMAIN f |-> Total(f[x])])
Answered(kinds) == phase = "answered" /\ scope # {} /\ ask.kind \in kinds

-----------------------------------------------------------------------------
(* Types of the tables, and of the reader's plan.                          *)
ReportsTypeOK ==
  /\ gone \subseteq Deletable \union DOMAIN result
  /\ archived \subseteq Projects /\ automated \subseteq Cases
  /\ status \in [Runs -> RunStatus] /\ ended \subseteq Runs
  /\ DOMAIN result \subseteq Runs \X Cases
  /\ \A x \in DOMAIN result : result[x] \in [status : Status, at : 0..Now]
  /\ ask \in Asks /\ phase \in {"idle", "reading", "answered"}
  /\ scope \subseteq Projects
  /\ (phase = "reading") = (todo # <<>>)

\* The trend of a window in UTC tells of every result in the window and has
\* a point for each of its days (and one if it ends before it begins, in one
\* day).
TrendTellsWindow ==
  Answered({"analytics", "cross"}) =>
    \A w \in ask.window : w.offset = 0 =>
      /\ w.from <= w.to => DOMAIN Trend(w) = {DayOf(at) : at \in w.from..w.to}
      /\ Results(Trend(w)) =
           Cardinality({x \in LiveResults(Completed(scope)) :
                          InWindow(result[x].at, ask.window)})

(* One number, one value: on a page whose SELECTs saw the same data, the   *)
(* distribution, the daily trend, the runs' counts and the results of each *)
(* project are the same results; runs and cases add up as well, and no day *)
(* of a window and no result in it is left out of its trend.  A run's      *)
(* report and its progress show one rate (auto runs).                      *)
TotalsAgree ==
  quiet =>
    /\ TrendTellsWindow
    /\ Answered({"analytics", "cross"}) =>
         /\ got["types"].manual = got["cases"] - got["automated"]
         /\ ask.window = {} => Results(got["trend"]) = Total(got["distribution"])
         /\ ask.window = {} /\ ask.only = None =>
              /\ DOMAIN got["counts"] = LiveRuns(scope)
              /\ Total(got["distribution"]) =
                   Results([r \in got["completed"] |-> got["counts"][r]])
    /\ Answered({"cross"}) => /\ Total(got["results_per"]) = Total(got["distribution"])
                             /\ Total(got["runs_per"]) = got["runs"]
    /\ Answered({"dashboard"}) /\ got["runs"] <= RecentLimit =>
         Total(got["distribution"]) =
           Results([r \in Completed(scope) |-> got["counts"][r]])
    /\ Answered({"report"}) => \A r \in ask.ids \ DOMAIN Picked :
         <<Cardinality({c \in DOMAIN got["rows"] : got["rows"][c] = "passed"}),
           Cardinality(DOMAIN got["rows"])>> = Progress(r)

(* Whatever is written between the SELECTs: every rate is a ratio (le=1 in *)
(* the schemas, or the request fails), the runs that the overall rate      *)
(* averages are those of the projects' rows, each once, and each listed    *)
(* run has its counts.                                                     *)
SoundUnderRaces ==
  /\ Answered({"analytics", "cross", "stats", "bulk"}) =>
       \A r \in DOMAIN got["rates"] : got["rates"][r][1] <= got["rates"][r][2]
  /\ Answered({"analytics", "cross"}) => DOMAIN got["counts"] = got["listed"]
  /\ Answered({"cross", "bulk"}) =>
       \A r \in Runs : LET rows == {p \in scope : r \in DOMAIN MeanOf(p)}
                       IN  IF r \in DOMAIN got["rates"]
                           THEN /\ rows = {ProjectOf[r]}
                                /\ \A p \in rows : MeanOf(p)[r] = got["rates"][r]
                           ELSE rows = {}

(* get_bulk_stats means what get_stats means: one rate for a project, and  *)
(* one set of counts while nothing of the project is deleted; if something *)
(* is, it counts that as well.                                             *)
BulkIsStats ==
  Answered({"bulk"}) /\ quiet => \A p \in scope \ gone :
    LET bulk  == <<got["all_suites"][p], got["all_cases"][p], got["all_runs"][p]>>
        stats == <<Cardinality(LiveSuites({p})), Cardinality(LiveCases({p})),
                   Cardinality(LiveRuns({p}))>>
    IN  /\ MeanOf(p) = Rates(Completed({p}))
        /\ \A i \in 1..3 : bulk[i] >= stats[i]
        /\ gone = {} => bulk = stats

(* A client who reads two pages while nothing is written sees each of the  *)
(* first rows once, provided no two have the same tested_at.               *)
PagesPartition ==
  Answered({"custom"}) /\ quiet
  /\ (\A x, y \in CustomRows : result[x].at = result[y].at => x = y) =>
    /\ got["page_1"] \intersect got["page_2"] = {}
    /\ Cardinality(got["page_1"] \union got["page_2"]) =
         Min({got["total"], 2 * PageSize})
=============================================================================
