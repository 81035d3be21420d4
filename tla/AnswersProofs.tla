--------------------------- MODULE AnswersProofs ---------------------------
(***************************************************************************)
(* What answers say of the tables: the pages of Reports, for any number of *)
(* projects, runs and results, and the answers of CaseImport, for any      *)
(* number of requests, rows and tags.                                      *)
(*                                                                         *)
(* ReportsInv is the inductive invariant of the first.  Sound is that of   *)
(* the second: beside the types it says which tags a request holds for the *)
(* row it is about (Staged), what it has inserted (Drafted), how its rows  *)
(* are accounted for (Accounted), which of them a rollback has taken from  *)
(* it (Left) and what its commit stored (Stores).                          *)
(***************************************************************************)
EXTENDS CaseImport, Reports, FiniteSetTheorems, WellFoundedInduction, TLAPS

-----------------------------------------------------------------------------
(* Sums over finite sets.  Total is a fold, which is a recursive function  *)
(* on the subsets of a set: g sums up f.                                   *)
SumsUp(f, g) ==
  g = [s \in SUBSET DOMAIN f |->
         IF s = {} THEN 0
         ELSE LET x == CHOOSE y \in s : TRUE IN f[x] + g[s \ {x}]]

(* Total is the value of that function at the whole set.                   *)
LEMMA TotalIs ==
  ASSUME NEW f
  PROVE  Total(f) = (CHOOSE g : SumsUp(f, g))[DOMAIN f]
BY DEF Total, MapThenSumSet, MapThenFoldSet, SumsUp

(* Induction over a finite set, as the existence of a smallest             *)
(* counterexample among its subsets.                                       *)
LEMMA SmallestCounterexample ==
  ASSUME NEW S, NEW Bad, Bad \subseteq SUBSET S, IsFiniteSet(S), Bad # {}
  PROVE  \E U \in Bad : \A V \in Bad : ~ (V \subseteq U /\ V # U)
<1> DEFINE R == StrictSubsetOrdering(S)
           F == FiniteSubsetsOf(S)
<1>1. IsWellFoundedOn(R, F)  BY FS_StrictSubsetOrderingWellFounded
<1>2. Bad \subseteq F  BY FS_Subset DEF FiniteSubsetsOf
<1>3. PICK U \in Bad : \A V \in Bad : ~ (<<V, U>> \in R)  
  <2> HIDE DEF R, F
  <2> QED BY <1>1, <1>2, WFMin
<1>4. \A V \in Bad : V \subseteq U /\ V # U => <<V, U>> \in R BY DEF StrictSubsetOrdering
<1> HIDE DEF R
<1>5. \A V \in Bad : ~ (V \subseteq U /\ V # U)
  BY <1>3, <1>4
<1> QED BY <1>5

(* What the parts that are numbered by s have together.                    *)
Joint(P, s) == UNION {P[i] : i \in s}

(* Finitely many finite parts are finite together.                         *)
LEMMA FiniteParts ==
  ASSUME NEW I, IsFiniteSet(I), NEW P, \A i \in I : IsFiniteSet(P[i])
  PROVE  \A s \in SUBSET I : IsFiniteSet(Joint(P, s))
<1> DEFINE Bad == {s \in SUBSET I : ~ IsFiniteSet(Joint(P, s))}
<1> SUFFICES ASSUME Bad # {} PROVE FALSE  OBVIOUS
<1>1. PICK s \in Bad : \A v \in Bad : ~ (v \subseteq s /\ v # s)
  <2>1. Bad \subseteq SUBSET I  OBVIOUS
  <2> HIDE DEF Bad
  <2> QED  BY <2>1, SmallestCounterexample
<1>2. IsFiniteSet({})  BY FS_EmptySet
<1>3. PICK x \in s : TRUE  
  <2>1. CASE s = {}
    <3>1. Joint(P, s) = {}  BY <2>1 DEF Joint
    <3> QED  BY <1>2, <3>1
  <2> QED  BY <2>1
<1>4. IsFiniteSet(Joint(P, s \ {x}))  BY <1>1
<1>5. Joint(P, s) = Joint(P, s \ {x}) \union P[x]  BY DEF Joint
<1>6. IsFiniteSet(Joint(P, s))  
  <2> QED  BY <1>3, <1>4, <1>5, FS_Union
<1> QED  BY <1>6

(* The sizes of disjoint parts add up to the size of the whole.            *)
LEMMA SumOfParts ==
  ASSUME NEW I, IsFiniteSet(I), NEW P, \A i \in I : IsFiniteSet(P[i]),
         \A i, j \in I : i # j => P[i] \intersect P[j] = {}
  PROVE  Total([i \in I |-> Cardinality(P[i])]) = Cardinality(Joint(P, I))
<1> DEFINE f == [i \in I |-> Cardinality(P[i])]
           G == [s \in SUBSET I |-> Cardinality(Joint(P, s))]
<1>1. \A s \in SUBSET I : IsFiniteSet(Joint(P, s))  BY FiniteParts
<1>2. \A s \in SUBSET I : \A x \in s :
        Cardinality(Joint(P, s)) = Cardinality(P[x]) + Cardinality(Joint(P, s \ {x}))
  <2> TAKE s \in SUBSET I
  <2> TAKE x \in s
  <2>1. Joint(P, s) = P[x] \union Joint(P, s \ {x}) /\ P[x] \intersect Joint(P, s \ {x}) = {}
    BY DEF Joint
  <2>2. IsFiniteSet(P[x]) /\ IsFiniteSet(Joint(P, s \ {x}))  BY <1>1
    <2>3. Cardinality(P[x]) \in Nat /\ Cardinality(Joint(P, s \ {x})) \in Nat
    BY <2>2, FS_CardinalityType
  <2>4. Cardinality(Joint(P, s)) = Cardinality(P[x]) + Cardinality(Joint(P, s \ {x})) - Cardinality({})
    <3>1. \A A, B : IsFiniteSet(A) /\ IsFiniteSet(B) =>
            Cardinality(A \union B) = Cardinality(A) + Cardinality(B) - Cardinality(A \intersect B)
      BY FS_Union
    <3>2. Cardinality(P[x] \union Joint(P, s \ {x})) =
            Cardinality(P[x]) + Cardinality(Joint(P, s \ {x}))
              - Cardinality(P[x] \intersect Joint(P, s \ {x}))
      BY <2>2, <3>1
    <3> QED  BY <2>1, <3>2
  <2> QED  BY <2>3, <2>4, FS_EmptySet
<1>3. Joint(P, {}) = {} /\ Cardinality({}) = 0  BY FS_EmptySet DEF Joint
<1>4. SumsUp(f, G)
  <2>1. ASSUME NEW s \in SUBSET I
        PROVE  G[s] = IF s = {} THEN 0
                      ELSE LET x == CHOOSE y \in s : TRUE IN f[x] + G[s \ {x}]
    <3>1. CASE s = {}  BY <3>1, <1>3
    <3>2. CASE s # {}
      <4> DEFINE x == CHOOSE y \in s : TRUE
      <4>1. x \in s  BY <3>2
      <4> HIDE DEF x
      <4>2. G[s] = f[x] + G[s \ {x}]  BY <4>1, <1>2
      <4> QED  BY <3>2, <4>2 DEF x
    <3> QED  BY <3>1, <3>2
  <2> QED  BY <2>1 DEF SumsUp
<1> DEFINE g == CHOOSE h : SumsUp(f, h)
<1>5. SumsUp(f, g)  BY <1>4
<1> HIDE DEF g, G
<1>6. \A s \in SUBSET I : g[s] = Cardinality(Joint(P, s))
  <2> DEFINE Bad == {s \in SUBSET I : g[s] # Cardinality(Joint(P, s))}
  <2> SUFFICES ASSUME Bad # {} PROVE FALSE  OBVIOUS
  <2>1. PICK s \in Bad : \A v \in Bad : ~ (v \subseteq s /\ v # s)
    <3>1. Bad \subseteq SUBSET I  OBVIOUS
    <3> HIDE DEF Bad
    <3> QED  BY <3>1, SmallestCounterexample
  <2>2. g[s] = IF s = {} THEN 0
               ELSE LET x == CHOOSE y \in s : TRUE IN f[x] + g[s \ {x}]
    <3> HIDE DEF f
    <3>1. DOMAIN f = I  BY DEF f
    <3> QED  BY <3>1, <1>5 DEF SumsUp
  <2>3. s # {}  BY <2>2, <1>3
  <2> DEFINE x == CHOOSE y \in s : TRUE
  <2>4. x \in s  BY <2>3
  <2>5. g[s] = f[x] + g[s \ {x}]  BY <2>2, <2>3
  <2> HIDE DEF x
  <2>6. s \ {x} \in SUBSET I /\ s \ {x} \notin Bad
    BY <2>1, <2>4
  <2>7. g[s \ {x}] = Cardinality(Joint(P, s \ {x}))  BY <2>6
  <2> QED  BY <2>4, <2>5, <2>7, <1>2
<1>7. Total(f) = g[I]  BY TotalIs DEF g
<1> QED  BY <1>6, <1>7

(* x is in s, and before every y that is.                                  *)
Before(x, y, s) ==
  /\ \E i \in 1..Len(s) : s[i] = x
  /\ \A i, j \in 1..Len(s) : s[i] = y /\ s[j] = x => j < i

(* The SELECTs of all reports.                                             *)
SelectName ==
  {"suites", "cases", "runs", "active", "distribution", "recent", "counts",
   "completed", "rates", "listed", "runs_per", "results_per", "types",
   "automated", "trend", "rows", "days", "total", "page_1", "page_2",
   "results", "passed", "all_suites", "all_cases", "all_runs"}

(* Each plan is a sequence of SELECTs, and the ones that follow up on      *)
(* others are in few of them.                                              *)
LEMMA Plans ==
  ASSUME NEW k \in Kind
  PROVE  /\ Plan[k] \in Seq(SelectName)
         /\ Len(Plan[k]) > 0
         /\ k # "badge" => \A i \in 1..Len(Plan[k]) : Plan[k][i] # "results"
         /\ \A i \in 1..Len(Plan[k]) :
              /\ Plan[k][i] = "rates" => k \in {"analytics", "cross", "stats", "bulk"}
              /\ Plan[k][i] = "counts" => k \in {"dashboard", "analytics", "cross"}
<1>1. CASE k = "dashboard"  BY <1>1 DEF Plan, SelectName, DashboardPlan
<1>2. CASE k = "analytics"  BY <1>2 DEF Plan, SelectName, AnalyticsPlan
<1>3. CASE k = "cross"  BY <1>3 DEF Plan, SelectName, CrossPlan
<1>4. CASE k = "stats"  BY <1>4 DEF Plan, SelectName, StatsPlan
<1>5. CASE k = "bulk"  BY <1>5 DEF Plan, SelectName, BulkPlan
<1>6. CASE k = "custom"  BY <1>6 DEF Plan, SelectName, CustomPlan
<1>7. CASE k = "report"  BY <1>7 DEF Plan, SelectName
<1>8. CASE k = "metrics"  BY <1>8 DEF Plan, SelectName
<1>9. CASE k = "badge"  BY <1>9 DEF Plan, SelectName, BadgePlan
<1> QED  BY <1>1, <1>2, <1>3, <1>4, <1>5, <1>6, <1>7, <1>8, <1>9 DEF Kind

(* The rates are asked for after the runs they are the rates of.           *)
LEMMA RatesAfterRuns ==
  ASSUME NEW k \in {"analytics", "cross", "stats", "bulk"}
  PROVE  Before("completed", "rates", Plan[k])
<1>2. CASE k = "analytics"  BY <1>2 DEF Plan, AnalyticsPlan, Before
<1>3. CASE k = "cross"  BY <1>3 DEF Plan, CrossPlan, Before
<1>4. CASE k = "stats"  BY <1>4 DEF Plan, StatsPlan, Before
<1>5. CASE k = "bulk"  BY <1>5 DEF Plan, BulkPlan, Before
<1> QED  BY <1>2, <1>3, <1>4, <1>5

(* So are the counts of the runs that are listed.                          *)
LEMMA CountsAfterRuns ==
  /\ \A k \in {"analytics", "cross"} : Before("listed", "counts", Plan[k])
  /\ Before("recent", "counts", Plan["dashboard"])
<1>1. Before("recent", "counts", Plan["dashboard"])
  BY DEF Plan, DashboardPlan, Before
<1>2. Before("listed", "counts", Plan["analytics"])
  BY DEF Plan, AnalyticsPlan, Before
<1>3. Before("listed", "counts", Plan["cross"])
  BY DEF Plan, CrossPlan, Before
<1> QED  BY <1>1, <1>2, <1>3

(* How far a request is: what it has asked for is what got has.            *)
Asked == Len(Plan[ask.kind]) - Len(todo)
Ordered ==
  /\ phase = "reading" => scope # {}
  /\ phase # "idle" /\ scope # {} =>
       /\ todo \in Seq(SelectName) /\ Asked \in Nat
       /\ \A i \in 1..Len(todo) : todo[i] = Plan[ask.kind][Asked + i]
       /\ DOMAIN got \subseteq {Plan[ask.kind][i] : i \in 1..Asked}
       /\ ask.kind # "badge" =>
            DOMAIN got = {Plan[ask.kind][i] : i \in 1..Asked}

Has(n) == n \in DOMAIN got
RatesFit(f) ==
  /\ DOMAIN f \subseteq RunsOf(scope)
  /\ \A r \in DOMAIN f : f[r][1] <= f[r][2]

(* What holds of the values whatever was written between the SELECTs.      *)
Grounded ==
  ask.kind # "badge" /\ phase # "idle" /\ scope # {} =>
    /\ Has("completed") => got["completed"] \subseteq RunsOf(scope)
    /\ Has("rates") => RatesFit(got["rates"])
    /\ Has("counts") /\ ask.kind \in {"analytics", "cross"} =>
         DOMAIN got["counts"] = got["listed"]

(* v is what the SELECT n returns from the tables as they are.             *)
RowsReturned(n, v) ==
  /\ n = "completed" => v = Completed(scope)
  /\ n = "listed" => v = {r \in LiveRuns(scope) : RunFilter(r)}
  /\ n = "recent" => v \in Latest(LiveRuns(scope), RecentLimit)
  /\ n = "rows" => \E r \in ask.ids :
       v = [c \in ReportCases(r) |->
              IF <<r, c>> \in LiveResults({r}) THEN result[<<r, c>>].status
              ELSE None]
  /\ n = "page_1" => v \in PagesOf(CustomRows, 1)
  /\ n = "page_2" => v \in PagesOf(CustomRows, 2)

NumberReturned(n, v) ==
  /\ n = "suites" => v = Cardinality(LiveSuites(scope))
  /\ n = "cases" => v = Cardinality(LiveCases(scope))
  /\ n = "runs" => v = Cardinality(LiveRuns(scope))
  /\ n = "active" => v = Cardinality(Active(LiveRuns(scope)))
  /\ n = "automated" => v = Cardinality(LiveCases(scope) \intersect automated)
  /\ n = "total" => v = Cardinality(CustomRows)
  /\ n = "results" => v = Cardinality(LiveResults(ask.ids))
  /\ n = "passed" => v = Distribution(LiveResults(ask.ids))["passed"]

OfType(auto) == Cardinality({c \in LiveCases(scope) : (c \in automated) = auto})

GroupsReturned(n, v) ==
  /\ n = "distribution" => v = Distribution(LiveResults(Completed(scope)))
  /\ n = "types" => v = [manual |-> OfType(FALSE), automated |-> OfType(TRUE)]
  /\ n = "trend" => v = ByDay({x \in TrendResults(scope) :
                                 InWindow(result[x].at, ask.window)})
  /\ n = "days" => v = ByDay({x \in LiveResults(LiveRuns(scope)) :
                                InWindow(result[x].at, ask.window)})
  /\ n = "runs_per" => v = Per(LiveRuns(scope), LAMBDA r : ProjectOf[r])
  /\ n = "results_per" =>
       v = Per(LiveResults(Completed(scope)), LAMBDA x : ProjectOf[x[1]])
  /\ n = "all_suites" => v = Per(SuitesOf(scope), LAMBDA s : ProjectOf[s])
  /\ n = "all_cases" =>
       v = Per(CasesIn(SuitesOf(scope)), LAMBDA c : ProjectOf[SuiteOf[c]])
  /\ n = "all_runs" => v = Per(RunsOf(scope), LAMBDA r : ProjectOf[r])

(* The two that are about runs which another SELECT returned.              *)
FollowsUp(n, v) ==
  /\ n = "rates" => v = Rates(Completed(scope))
  /\ n = "counts" => \E R :
       /\ v = [r \in R |-> Distribution(LiveResults({r}))]
       /\ IF ask.kind = "dashboard" THEN R \in Latest(LiveRuns(scope), RecentLimit)
          ELSE R = {r \in LiveRuns(scope) : RunFilter(r)}

Alone(n, v) == RowsReturned(n, v) /\ NumberReturned(n, v) /\ GroupsReturned(n, v)
Returned(n, v) == Alone(n, v) /\ FollowsUp(n, v)

Snapshot ==
  quiet /\ phase # "idle" =>
    /\ scope = Resolved(ask)
    /\ \A n \in DOMAIN got : Returned(n, got[n])

ReportsInv == ReportsTypeOK /\ Ordered /\ Grounded /\ Snapshot

-----------------------------------------------------------------------------
(* One SELECT: what its name, its value and the rest of the plan are.      *)
Fetches(n, v, rest) ==
  /\ SelectThen(n, v, rest)
  /\ rest = Tail(todo) \/ (n = "results" /\ rest = <<>>)
  /\ Alone(n, v)
  /\ n = "rates" => v = Rates(got["completed"])
  /\ n = "counts" => v = [r \in Listed |-> Distribution(LiveResults({r}))]

(* Every step of a reader receives a request or makes one SELECT.          *)
LEMMA ReadFetches ==
  ASSUME Read
  PROVE  (\E a \in Asks : Receive(a)) \/ \E n, v, rest : Fetches(n, v, rest)
<1> USE DEF Fetches, Alone, RowsReturned, NumberReturned, GroupsReturned, Select
<1>1. ASSUME NEW n, NEW v, Select(n, v), n # "rates", n # "counts", Alone(n, v)
      PROVE  \E m, w, rest : Fetches(m, w, rest)
  BY <1>1 DEF Fetches, Select
<1> USE DEF Alone, RowsReturned, NumberReturned, GroupsReturned
<1>2. CASE CountSuites  BY <1>1, <1>2 DEF CountSuites
<1>3. CASE CountCases  BY <1>1, <1>3 DEF CountCases
<1>4. CASE CountRuns  BY <1>1, <1>4 DEF CountRuns
<1>5. CASE CountActive  BY <1>1, <1>5 DEF CountActive
<1>6. CASE ReadDistribution  BY <1>1, <1>6 DEF ReadDistribution
<1>7. CASE ReadRecent  BY <1>1, <1>7 DEF ReadRecent
<1>8. CASE ReadListed  BY <1>1, <1>8 DEF ReadListed
<1>9. CASE ReadCompleted  BY <1>1, <1>9 DEF ReadCompleted
<1>10. CASE CountRunsPer  BY <1>1, <1>10 DEF CountRunsPer
<1>11. CASE CountResultsPer  BY <1>1, <1>11 DEF CountResultsPer
<1>12. CASE ReadTypes  BY <1>1, <1>12 DEF ReadTypes, OfType
<1>13. CASE CountAutomated  BY <1>1, <1>13 DEF CountAutomated
<1>14. CASE ReadTrend  BY <1>1, <1>14 DEF ReadTrend
<1>15. CASE ReadRows  BY <1>1, <1>15 DEF ReadRows
<1>16. CASE ReadDays  BY <1>1, <1>16 DEF ReadDays
<1>17. CASE CountTotal  BY <1>1, <1>17 DEF CountTotal
<1>18. CASE ReadPage("page_1", 1)  BY <1>1, <1>18 DEF ReadPage
<1>19. CASE ReadPage("page_2", 2)  BY <1>1, <1>19 DEF ReadPage
<1>20. CASE CountPassed  BY <1>1, <1>20 DEF CountPassed
<1>21. CASE CountAllSuites  BY <1>1, <1>21 DEF CountAllSuites
<1>22. CASE CountAllCases  BY <1>1, <1>22 DEF CountAllCases
<1>23. CASE CountAllRuns  BY <1>1, <1>23 DEF CountAllRuns
<1>24. CASE ReadRates
  <2>1. Fetches("rates", Rates(got["completed"]), Tail(todo))
    BY <1>24 DEF ReadRates, Fetches, Select
  <2> QED  BY <2>1
<1>25. CASE ReadCounts
  <2> DEFINE v == [r \in Listed |-> Distribution(LiveResults({r}))]
  <2>1. Fetches("counts", v, Tail(todo))
    BY <1>25 DEF ReadCounts, Fetches, Select
  <2> QED  BY <2>1
<1>26. CASE CountResults
  <2> DEFINE v == Cardinality(LiveResults(ask.ids))
             rest == IF v = 0 THEN <<>> ELSE Tail(todo)
  <2>1. Fetches("results", v, rest)
    BY <1>26 DEF CountResults, Fetches
  <2> QED  BY <2>1
<1> QED  BY <1>2, <1>3, <1>4, <1>5, <1>6, <1>7, <1>8, <1>9, <1>10, <1>11, <1>12, <1>13, <1>14, <1>15, <1>16, <1>17, <1>18, <1>19, <1>20, <1>21, <1>22, <1>23, <1>24, <1>25, <1>26
     DEF Read

(* What a SELECT returns depends on the tables and the request alone.      *)
LEMMA SameTables ==
  ASSUME UNCHANGED <<tables, ask, scope>>
  PROVE  \A n : Returned(n, got[n])' <=> Returned(n, got'[n])
<1>0. /\ gone' = gone /\ archived' = archived /\ automated' = automated
      /\ status' = status /\ ended' = ended /\ result' = result
      /\ ask' = ask /\ scope' = scope
  BY DEF tables
<1> QED  BY <1>0 DEF Returned, Alone, RowsReturned, NumberReturned, GroupsReturned, FollowsUp,
   LiveSuites, LiveCases, LiveRuns, Active, Completed, LiveResults, Distribution, InWindow, DayOf, ByDay,
   ScopeOf, Progress, Rates, Latest, First, PagesOf, RunFilter, TrendResults, ReportCases, CustomRows, OfType, Per, ResultsOf, SuitesOf, RunsOf, CasesIn

(* There are finitely many results.                                        *)
LEMMA Finite ==
  ASSUME ReportsTypeOK
  PROVE  /\ IsFiniteSet(DOMAIN result)
         /\ \A R : IsFiniteSet(LiveResults(R))
<1>1. IsFiniteSet(Runs \X Cases)  BY ReportsAssumption, FS_Product
<1>2. IsFiniteSet(DOMAIN result)  BY <1>1, FS_Subset DEF ReportsTypeOK
<1>3. \A R : LiveResults(R) \in SUBSET DOMAIN result  BY DEF LiveResults, ResultsOf
<1> QED  BY <1>2, <1>3, FS_Subset

(* The maximum of two numbers.                                             *)
LEMMA Larger ==
  ASSUME NEW a \in Nat, NEW b \in Nat
  PROVE  Max({a, b}) = IF a >= b THEN a ELSE b
<1> DEFINE m == IF a >= b THEN a ELSE b
<1>1. m \in {a, b} /\ \A y \in {a, b} : m >= y  OBVIOUS
<1>2. \A x \in {a, b} : (\A y \in {a, b} : x >= y) => x = m  OBVIOUS
<1> QED  BY <1>1, <1>2 DEF Max

(* A rate is a ratio whatever the tables are: the denominator is at least  *)
(* the number of results in the scope.                                     *)
LEMMA RatesAreRatios ==
  ASSUME ReportsTypeOK, NEW R
  PROVE  /\ DOMAIN Rates(R) \subseteq R
         /\ \A r \in DOMAIN Rates(R) : Rates(R)[r][1] <= Rates(R)[r][2]
<1>1. DOMAIN Rates(R) \subseteq R  BY DEF Rates
<1>2. ASSUME NEW r \in DOMAIN Rates(R)  PROVE Rates(R)[r][1] <= Rates(R)[r][2]
  <2> DEFINE tested == {x \in LiveResults({r}) : x[2] \in ScopeOf(r)}
             passed == {x \in tested : result[x].status = "passed"}
             a == Cardinality(ScopeOf(r))
             b == Cardinality(tested)
  <2>1. Rates(R)[r] = Progress(r) BY DEF Rates
  <2>2. Progress(r) = <<Cardinality(passed), Max({a, b})>>
    BY DEF Progress, Distribution, Status
  <2>3. IsFiniteSet(tested) /\ IsFiniteSet(ScopeOf(r))
    <3>1. IsFiniteSet(tested)  BY Finite, FS_Subset
    <3>2. ScopeOf(r) \subseteq Cases
      BY ReportsAssumption DEF ScopeOf, LiveCases, CasesIn
    <3> QED  BY <3>1, <3>2, ReportsAssumption, FS_Subset
  <2>4. b \in Nat /\ a \in Nat /\ Cardinality(passed) \in Nat /\ Cardinality(passed) <= b
    BY <2>3, FS_CardinalityType, FS_Subset
  <2>5. Max({a, b}) >= b /\ Max({a, b}) \in Nat
    <3> HIDE DEF a, b
    <3> QED  BY <2>4, Larger
  <2> HIDE DEF passed, a, b
  <2> QED  BY <2>1, <2>2, <2>4, <2>5
<1> QED  BY <1>1, <1>2

(* The SELECT that is made is the next one of the plan.                    *)
LEMMA SelectKeepsOrder ==
  ASSUME ReportsTypeOK, Ordered, NEW n, NEW v, NEW rest, Fetches(n, v, rest)
  PROVE  /\ Ordered'
         /\ scope # {} /\ Asked + 1 \in 1..Len(Plan[ask.kind])
         /\ n = Plan[ask.kind][Asked + 1]
<1>1. /\ phase = "reading" /\ phase' \in {"reading", "answered"} /\ n = Head(todo)
      /\ ask' = ask /\ scope' = scope /\ todo' = rest
      /\ DOMAIN got' = DOMAIN got \union {n}
      /\ rest = Tail(todo) \/ (n = "results" /\ rest = <<>>)
  BY DEF Fetches, SelectThen
<1> DEFINE P == Plan[ask.kind]
<1>2. /\ scope # {} /\ todo \in Seq(SelectName) /\ todo # <<>> /\ Asked \in Nat
      /\ \A i \in 1..Len(todo) : todo[i] = P[Asked + i]
      /\ DOMAIN got \subseteq {P[i] : i \in 1..Asked}
      /\ ask.kind # "badge" => DOMAIN got = {P[i] : i \in 1..Asked}
  BY <1>1 DEF Ordered, ReportsTypeOK
<1>3. ask.kind \in Kind  BY ReportsAssumption DEF ReportsTypeOK, Ask
<1>4. /\ P \in Seq(SelectName) /\ Len(P) \in Nat
      /\ ask.kind # "badge" => \A i \in 1..Len(P) : P[i] # "results"
  BY <1>3, Plans
<1> HIDE DEF P
<1>5. Asked = Len(P) - Len(todo)  BY DEF Asked, P
<1>6. Len(todo) \in Nat /\ Len(todo) >= 1  BY <1>2
<1>7. Asked + 1 \in 1..Len(P) /\ n = P[Asked + 1]  BY <1>1, <1>2, <1>4, <1>5, <1>6
<1>8. P' = P /\ Asked' = Len(P) - Len(rest)  BY <1>1 DEF Asked, P
<1>11. Ordered' <=>
         /\ phase' = "reading" => scope' # {}
         /\ phase' # "idle" /\ scope' # {} =>
              /\ todo' \in Seq(SelectName) /\ Asked' \in Nat
              /\ \A i \in 1..Len(todo') : todo'[i] = P[Asked' + i]
              /\ DOMAIN got' \subseteq {P[i] : i \in 1..Asked'}
              /\ ask'.kind # "badge" => DOMAIN got' = {P[i] : i \in 1..Asked'}
  BY <1>8 DEF Ordered, P
<1>9. CASE rest = Tail(todo)
  <2>1. /\ rest \in Seq(SelectName) /\ Len(rest) = Len(todo) - 1
        /\ \A i \in 1..Len(rest) : rest[i] = todo[i + 1]
    BY <1>2, <1>6, <1>9
  <2>2. Asked' = Asked + 1  BY <2>1, <1>8, <1>5, <1>4, <1>6
  <2>3. \A i \in 1..Len(rest) : rest[i] = P[Asked' + i]  BY <2>1, <2>2, <1>2, <1>6
  <2>4. {P[i] : i \in 1..Asked'} = {P[i] : i \in 1..Asked} \union {n}
    BY <2>2, <1>7, <1>2
  <2>5. ask'.kind # "badge" => DOMAIN got' = {P[i] : i \in 1..Asked'}
    BY <2>4, <1>1, <1>2
  <2>6. DOMAIN got' \subseteq {P[i] : i \in 1..Asked'}  BY <2>4, <1>1, <1>2
  <2>7. todo' \in Seq(SelectName) /\ \A i \in 1..Len(todo') : todo'[i] = P[Asked' + i]
    BY <2>1, <2>3, <1>1
  <2>8. Asked' \in Nat /\ scope' # {}  BY <2>2, <1>1, <1>2
  <2> QED  BY <2>5, <2>6, <2>7, <2>8, <1>11, <1>2, <1>7 DEF P
<1>10. CASE n = "results" /\ rest = <<>>
  <2>1. ask.kind = "badge"  BY <1>4, <1>7, <1>10
  <2>2. rest \in Seq(SelectName) /\ Len(rest) = 0 /\ Asked' = Len(P)  BY <1>8, <1>10, <1>4
  <2>3. DOMAIN got' \subseteq {P[i] : i \in 1..Len(P)}  BY <1>1, <1>2, <1>7, <1>4
  <2>4. todo' \in Seq(SelectName) /\ \A i \in 1..Len(todo') : todo'[i] = P[Asked' + i]
    BY <2>2, <1>1
  <2>5. Asked' \in Nat /\ scope' # {} /\ ask'.kind = "badge"  BY <2>1, <2>2, <1>1, <1>2, <1>4
  <2>6. DOMAIN got' \subseteq {P[i] : i \in 1..Asked'}  BY <2>2, <2>3
  <2> QED  BY <2>4, <2>5, <2>6, <1>11, <1>2, <1>7 DEF P
<1> QED  BY <1>1, <1>2, <1>7, <1>9, <1>10 DEF P

(* What comes before a SELECT in the plan is in hand when it is made, and   *)
(* afterwards.                                                             *)
LEMMA InHand ==
  ASSUME ReportsTypeOK, Ordered, phase # "idle", scope # {}, ask.kind # "badge",
         NEW x, NEW y, Before(x, y, Plan[ask.kind]),
         \/ Has(y)
         \/ Asked + 1 \in 1..Len(Plan[ask.kind]) /\ y = Plan[ask.kind][Asked + 1]
         \/ phase = "answered"
  PROVE  Has(x)
<1> DEFINE P == Plan[ask.kind]
<1>1. /\ Asked \in Nat /\ DOMAIN got = {P[i] : i \in 1..Asked}
      /\ (phase = "answered" => todo = <<>>)
  BY DEF Ordered, ReportsTypeOK
<1>2. PICK i \in 1..Len(P) : P[i] = x  BY DEF Before
<1>3. \A k \in 1..Len(P) : P[k] = y => i < k  BY <1>2 DEF Before
<1>4. ask.kind \in Kind  BY ReportsAssumption DEF ReportsTypeOK, Ask
<1>5. Len(P) \in Nat  BY <1>4, Plans
<1>6. Asked = Len(P) - Len(todo) /\ Len(todo) \in Nat  BY DEF Ordered, Asked
<1>7. CASE Has(y)  BY <1>7, <1>1, <1>2, <1>3, <1>5, <1>6 DEF Has
<1>8. CASE Asked + 1 \in 1..Len(P) /\ y = P[Asked + 1]
  BY <1>8, <1>1, <1>2, <1>3, <1>5 DEF Has
<1>9. CASE phase = "answered"
  <2>1. Asked = Len(P)  BY <1>9, <1>1, <1>5, <1>6
  <2> QED  BY <2>1, <1>1, <1>2 DEF Has
<1> QED  BY <1>7, <1>8, <1>9

(* The invariant, step by step.                                            *)
LEMMA SelectKeepsInv ==
  ASSUME ReportsInv, NEW n, NEW v, NEW rest, Fetches(n, v, rest)
  PROVE  ReportsInv'
<1>1. /\ phase = "reading" /\ phase' \in {"reading", "answered"}
      /\ (phase' = "reading") = (todo' # <<>>)
      /\ DOMAIN got' = DOMAIN got \union {n} /\ got'[n] = v
      /\ \A m \in DOMAIN got : m # n => got'[m] = got[m]
      /\ UNCHANGED <<tables, writes, ask, scope, quiet>>
  BY DEF Fetches, SelectThen
<1>2. /\ gone' = gone /\ archived' = archived /\ automated' = automated
      /\ status' = status /\ ended' = ended /\ result' = result
      /\ ask' = ask /\ scope' = scope /\ quiet' = quiet
  BY <1>1 DEF tables
<1>3. ReportsTypeOK'  BY <1>1, <1>2 DEF ReportsInv, ReportsTypeOK
<1>4. /\ Ordered' /\ scope # {} /\ Asked + 1 \in 1..Len(Plan[ask.kind])
      /\ n = Plan[ask.kind][Asked + 1]
  BY SelectKeepsOrder DEF ReportsInv
<1>5. ask.kind \in Kind  BY ReportsAssumption DEF ReportsInv, ReportsTypeOK, Ask
<1>6. /\ n = "rates" => ask.kind \in {"analytics", "cross", "stats", "bulk"}
      /\ n = "counts" => ask.kind \in {"dashboard", "analytics", "cross"}
      /\ \A i \in 1..Len(Plan[ask.kind]) :
           Plan[ask.kind][i] = "counts" => ask.kind \in {"dashboard", "analytics", "cross"}
  BY <1>4, <1>5, Plans
<1>7. n = "rates" => Has("completed")
  BY <1>1, <1>4, <1>6, RatesAfterRuns, InHand DEF ReportsInv
<1>8. n = "counts" => IF ask.kind = "dashboard" THEN Has("recent") ELSE Has("listed")
  BY <1>1, <1>4, <1>6, CountsAfterRuns, InHand DEF ReportsInv
<1>9. Has("counts") /\ ask.kind \in {"analytics", "cross"} => n # "listed"
  <2> SUFFICES ASSUME Has("counts"), ask.kind \in {"analytics", "cross"}, n = "listed"
               PROVE  FALSE
    OBVIOUS
  <2>1. PICK i \in 1..Asked : Plan[ask.kind][i] = "counts"
    BY <1>1, <1>4 DEF ReportsInv, Ordered, Has
  <2>2. Asked \in Nat  BY <1>1, <1>4 DEF ReportsInv, Ordered
  <2>3. Plan[ask.kind] \in Seq(SelectName)  BY <1>5, Plans
  <2>4. i \in 1..Len(Plan[ask.kind]) /\ i < Asked + 1  BY <2>1, <2>2, <2>3, <1>4
  <2> QED  BY <2>1, <2>2, <2>4, <1>4, CountsAfterRuns DEF Before
<1>10. Grounded'
  <2> SUFFICES ASSUME ask.kind # "badge"
               PROVE  /\ Has("completed")' => got'["completed"] \subseteq RunsOf(scope)
                      /\ Has("rates")' => RatesFit(got'["rates"])
                      /\ Has("counts")' /\ ask.kind \in {"analytics", "cross"} =>
                           DOMAIN got'["counts"] = got'["listed"]
    BY <1>2 DEF Grounded, RatesFit, RunsOf
  <2>1. /\ Has("completed") => got["completed"] \subseteq RunsOf(scope)
        /\ Has("rates") => RatesFit(got["rates"])
        /\ Has("counts") /\ ask.kind \in {"analytics", "cross"} =>
             DOMAIN got["counts"] = got["listed"]
    BY <1>1, <1>4 DEF ReportsInv, Grounded
  <2>2. Has("completed")' => got'["completed"] \subseteq RunsOf(scope)
    <3>1. CASE n = "completed"
      BY <3>1, <1>1 DEF Fetches, Alone, RowsReturned, Completed, LiveRuns
    <3> QED  BY <3>1, <2>1, <1>1 DEF Has
  <2>3. Has("rates")' => RatesFit(got'["rates"])
    <3>1. CASE n = "rates"
      <4>1. v = Rates(got["completed"]) /\ got["completed"] \subseteq RunsOf(scope)
        BY <3>1, <1>7, <2>1 DEF Fetches
      <4> QED  BY <4>1, <1>1, <3>1, RatesAreRatios DEF ReportsInv, RatesFit
    <3> QED  BY <3>1, <2>1, <1>1 DEF Has
  <2>4. Has("counts")' /\ ask.kind \in {"analytics", "cross"} =>
          DOMAIN got'["counts"] = got'["listed"]
    <3>1. CASE n = "counts" /\ ask.kind # "dashboard"
      BY <3>1, <1>1, <1>8 DEF Fetches, Listed, Has
    <3>2. CASE n # "counts"
      <4> SUFFICES ASSUME Has("counts"), ask.kind \in {"analytics", "cross"}
                   PROVE  DOMAIN got'["counts"] = got'["listed"]
        BY <3>2, <1>1 DEF Has
      <4>1. Has("listed")
        BY <1>1, <1>4, CountsAfterRuns, InHand DEF ReportsInv
      <4> QED  BY <4>1, <3>2, <2>1, <1>1, <1>9 DEF Has
    <3> QED  BY <3>1, <3>2
  <2> QED  BY <2>2, <2>3, <2>4
<1>11. Snapshot'
  <2> SUFFICES ASSUME quiet
               PROVE  (scope = Resolved(ask) /\ \A m \in DOMAIN got : Returned(m, got[m]))'
    BY <1>2 DEF Snapshot
  <2>1. scope = Resolved(ask) /\ \A m \in DOMAIN got : Returned(m, got[m])
    BY <1>1 DEF ReportsInv, Snapshot
  <2>2. Resolved(ask)' = Resolved(ask)  BY <1>2 DEF Resolved, Chosen
  <2>3. Returned(n, v)
    <3>1. n = "rates" => v = Rates(Completed(scope))
      BY <1>7, <2>1 DEF Fetches, Returned, Alone, RowsReturned, Has
    <3>2. n = "counts" =>
            /\ v = [r \in Listed |-> Distribution(LiveResults({r}))]
            /\ IF ask.kind = "dashboard" THEN Listed \in Latest(LiveRuns(scope), RecentLimit)
               ELSE Listed = {r \in LiveRuns(scope) : RunFilter(r)}
      BY <1>8, <2>1 DEF Fetches, Returned, Alone, RowsReturned, Has, Listed
    <3> QED  BY <3>1, <3>2 DEF Fetches, Returned, FollowsUp
  <2>4. \A m \in DOMAIN got' : Returned(m, got'[m])  BY <2>1, <2>3, <1>1
  <2>5. \A m : Returned(m, got[m])' <=> Returned(m, got'[m])  BY <1>1, SameTables
  <2> QED  BY <1>2, <2>1, <2>2, <2>4, <2>5
<1> QED  BY <1>3, <1>4, <1>10, <1>11 DEF ReportsInv

LEMMA StartInv ==
  ASSUME ReportsInit
  PROVE  ReportsInv
<1>1. ask \in Asks  BY ReportsAssumption DEF ReportsInit
<1>2. ReportsTypeOK
  BY <1>1, ReportsAssumption DEF ReportsInit, ReportsTypeOK, RunStatus
<1> QED  BY <1>2 DEF ReportsInit, ReportsInv, Ordered, Grounded, Snapshot

LEMMA ReceiveKeepsInv ==
  ASSUME ReportsInv, NEW a \in Asks, Receive(a)
  PROVE  ReportsInv'
<1>1. /\ phase = "idle" /\ ask' = a /\ scope' = Resolved(a) /\ got' = <<>> /\ quiet' = TRUE
      /\ todo' = IF scope' = {} THEN <<>> ELSE Plan[a.kind]
      /\ phase' = IF scope' = {} THEN "answered" ELSE "reading"
      /\ gone' = gone /\ archived' = archived /\ automated' = automated
      /\ status' = status /\ ended' = ended /\ result' = result
  BY DEF Receive, tables
<1>2. a \in Ask /\ a.kind \in Kind  BY ReportsAssumption DEF Ask
<1>3. Plan[a.kind] \in Seq(SelectName) /\ Len(Plan[a.kind]) \in Nat /\ Len(Plan[a.kind]) > 0
  BY <1>2, Plans
<1>4. Resolved(a) \subseteq Projects
  <2>1. CASE a.kind \in {"report", "badge"}
    <3>1. a.ids \subseteq Runs  BY <2>1, ReportsAssumption
    <3> QED  BY <2>1, <3>1, ReportsAssumption DEF Resolved
  <2>2. CASE a.kind \notin {"report", "badge"}
    <3>1. a.ids \subseteq Projects  BY <2>2, ReportsAssumption
    <3> QED  BY <2>2, <3>1 DEF Resolved, Chosen
  <2> QED  BY <2>1, <2>2
<1>5. (phase' = "reading") = (todo' # <<>>)
  BY <1>1, <1>3
<1>6. ReportsTypeOK'
  BY <1>1, <1>4, <1>5 DEF ReportsInv, ReportsTypeOK
<1>7. DOMAIN got' = {}  BY <1>1
<1>8. Ordered'
  <2> SUFFICES ASSUME scope' # {} PROVE Ordered'  BY <1>1 DEF Ordered
  <2>1. todo' = Plan[a.kind] /\ Asked' = 0  BY <1>1, <1>3 DEF Asked
  <2>2. {Plan[a.kind][i] : i \in 1..0} = {}  OBVIOUS
  <2>3. \A i \in 1..Len(todo') : todo'[i] = Plan[ask'.kind][Asked' + i]
    BY <2>1, <1>1, <1>3
  <2> QED  BY <2>1, <2>2, <2>3, <1>1, <1>3, <1>7 DEF Ordered
<1>9. Grounded'  BY <1>7 DEF Grounded, Has
<1>10. Snapshot'
  <2>1. Resolved(ask)' = Resolved(a)  BY <1>1 DEF Resolved, Chosen
  <2> QED  BY <2>1, <1>1, <1>7 DEF Snapshot
<1> QED  BY <1>6, <1>8, <1>9, <1>10 DEF ReportsInv

LEMMA ReaderKeepsInv ==
  ASSUME ReportsInv, ReportsTypeOK', UNCHANGED reader, quiet' = FALSE
  PROVE  ReportsInv'
<1>1. ask' = ask /\ phase' = phase /\ scope' = scope /\ todo' = todo /\ got' = got
  BY DEF reader
<1>2. Ordered'  BY <1>1 DEF ReportsInv, Ordered, Asked
<1>3. Grounded'  BY <1>1 DEF ReportsInv, Grounded, Has, RatesFit, RunsOf
<1> QED  BY <1>2, <1>3 DEF ReportsInv, Snapshot

LEMMA WriteKeepsInv ==
  ASSUME ReportsInv, Write
  PROVE  ReportsInv'
<1>1. Writes  BY DEF Write, Delete, Restore, Archive, Retype, Close, SetStatus, Submit
<1>2. /\ UNCHANGED reader /\ quiet' = FALSE
      /\ ask' = ask /\ phase' = phase /\ scope' = scope /\ todo' = todo
  BY <1>1 DEF Writes, reader
<1> SUFFICES ReportsTypeOK'  BY <1>2, ReaderKeepsInv
<1> USE DEF ReportsInv, ReportsTypeOK
<1>3. ASSUME NEW x \in Deletable, Delete(x)  PROVE ReportsTypeOK'
  <2>1. \A R : ResultsOf(R) \subseteq DOMAIN result  BY DEF ResultsOf
  <2>2. Cascade(x) \subseteq Deletable \union DOMAIN result
    BY <2>1 DEF Cascade, Deletable, CasesIn, SuitesOf, RunsOf
  <2> QED  BY <1>2, <1>3, <2>2 DEF Delete
<1>4. ASSUME NEW x \in Deletable, Restore(x)  PROVE ReportsTypeOK'
  BY <1>2, <1>4 DEF Restore
<1>5. ASSUME NEW p \in Projects, Archive(p)  PROVE ReportsTypeOK'
  BY <1>2, <1>5 DEF Archive
<1>6. ASSUME NEW c \in Cases, Retype(c)  PROVE ReportsTypeOK'
  BY <1>2, <1>6 DEF Retype, SymDiff
<1>7. ASSUME NEW r \in Runs, Close(r)  PROVE ReportsTypeOK'
  BY <1>2, <1>7 DEF Close, RunStatus
<1>8. ASSUME NEW r \in Runs, NEW s \in RunStatus, SetStatus(r, s)  PROVE ReportsTypeOK'
  BY <1>2, <1>8 DEF SetStatus
<1>9. ASSUME NEW r \in Runs, NEW c \in Cases, NEW s \in Submits, Submit(r, c, s)
      PROVE ReportsTypeOK'
  <2>1. s \in Status /\ Now \in 0..Now  BY ReportsAssumption
  <2>2. DOMAIN result' = DOMAIN result \union {<<r, c>>}  BY <1>9 DEF Submit
  <2>3. \A x \in DOMAIN result' : result'[x] \in [status : Status, at : 0..Now]
    BY <1>9, <2>1, <2>2 DEF Submit
  <2>4. status' \in [Runs -> RunStatus]  BY <1>9 DEF Submit, RunStatus
  <2>5. /\ gone' = gone /\ archived' = archived /\ automated' = automated
        /\ ended' = ended
    BY <1>9 DEF Submit
  <2>6. gone' \subseteq Deletable \union DOMAIN result' /\ DOMAIN result' \subseteq Runs \X Cases
    BY <2>2, <2>5
  <2> QED  BY <1>2, <2>3, <2>4, <2>5, <2>6
<1> QED  BY <1>3, <1>4, <1>5, <1>6, <1>7, <1>8, <1>9 DEF Write

LEMMA IdleKeepsInv ==
  ASSUME ReportsInv, UNCHANGED reportsVars
  PROVE  ReportsInv'
<1>1. /\ UNCHANGED <<tables, ask, scope>>
      /\ ask' = ask /\ phase' = phase /\ scope' = scope /\ todo' = todo /\ got' = got
      /\ gone' = gone /\ archived' = archived /\ automated' = automated
      /\ status' = status /\ ended' = ended /\ result' = result /\ quiet' = quiet
  BY DEF reportsVars, reader, tables
<1>2. ReportsTypeOK'  BY <1>1 DEF ReportsInv, ReportsTypeOK
<1>3. Ordered'  BY <1>1 DEF ReportsInv, Ordered, Asked
<1>4. Grounded'  BY <1>1 DEF ReportsInv, Grounded, Has, RatesFit, RunsOf
<1>5. Snapshot'
  <2>1. \A m : Returned(m, got[m])' <=> Returned(m, got'[m])  BY <1>1, SameTables
  <2>2. Resolved(ask)' = Resolved(ask)  BY <1>1 DEF Resolved, Chosen
  <2> QED  BY <1>1, <2>1, <2>2 DEF ReportsInv, Snapshot
<1> QED  BY <1>2, <1>3, <1>4, <1>5 DEF ReportsInv

(* The invariant: the plan is kept (Ordered), what was returned fits       *)
(* together whatever is written (Grounded), and while nothing is, a page   *)
(* is a snapshot: each SELECT would return its value again (Snapshot).     *)
THEOREM ReportsInductive == ReportsSpec => []ReportsInv
<1>1. ReportsInit => ReportsInv  BY StartInv
<1>2. ReportsInv /\ [ReportsNext]_reportsVars => ReportsInv'
  BY ReceiveKeepsInv, ReadFetches, SelectKeepsInv, WriteKeepsInv, IdleKeepsInv
     DEF ReportsNext
<1> QED  BY <1>1, <1>2, PTL DEF ReportsSpec

(* The tables and the request of report_service have their types.          *)
THEOREM ReportTypes == ReportsSpec => []ReportsTypeOK
<1>1. ReportsInv => ReportsTypeOK  BY DEF ReportsInv
<1> QED  BY <1>1, ReportsInductive, PTL

(* An answer has the values of all SELECTs of its plan.                    *)
LEMMA AllReturned ==
  ASSUME ReportsInv, phase = "answered", scope # {}, ask.kind # "badge"
  PROVE  \A i \in 1..Len(Plan[ask.kind]) : Has(Plan[ask.kind][i])
<1>1. ask.kind \in Kind  BY ReportsAssumption DEF ReportsInv, ReportsTypeOK, Ask
<1>2. Len(Plan[ask.kind]) \in Nat  BY <1>1, Plans
<1>3. todo = <<>>  BY DEF ReportsInv, ReportsTypeOK
<1>4. Asked = Len(Plan[ask.kind])  BY <1>2, <1>3 DEF Asked
<1> QED  BY <1>4 DEF ReportsInv, Ordered, Has

(* The values that the properties speak of.                                *)
LEMMA PagesHave ==
  ASSUME ReportsInv
  PROVE  /\ Answered({"analytics"}) =>
              \A n \in {"cases", "runs", "distribution", "completed", "rates", "listed",
                        "counts", "types", "automated", "trend"} : Has(n)
         /\ Answered({"cross"}) =>
              \A n \in {"cases", "runs", "distribution", "completed", "rates", "listed",
                        "counts", "types", "automated", "trend", "runs_per",
                        "results_per"} : Has(n)
         /\ Answered({"dashboard"}) =>
              \A n \in {"runs", "distribution", "counts"} : Has(n)
         /\ Answered({"stats"}) => Has("rates")
         /\ Answered({"bulk"}) =>
              Has("rates") /\ Has("all_suites") /\ Has("all_cases") /\ Has("all_runs")
         /\ Answered({"custom"}) => Has("total") /\ Has("page_1") /\ Has("page_2")
         /\ Answered({"report"}) => Has("rows")
<1> DEFINE P == Plan[ask.kind]
<1>1. Answered({"analytics"}) =>
        \A n \in {"cases", "runs", "distribution", "completed", "rates", "listed",
                  "counts", "types", "automated", "trend"} : Has(n)
  <2> SUFFICES ASSUME Answered({"analytics"}) PROVE
        \A n \in {"cases", "runs", "distribution", "completed", "rates", "listed",
                  "counts", "types", "automated", "trend"} : Has(n)
    OBVIOUS
  <2>1. P = AnalyticsPlan /\ \A i \in 1..Len(P) : Has(P[i])
    BY AllReturned DEF Answered, Plan
  <2>2. \A i \in 1..12 : Has(AnalyticsPlan[i])  BY <2>1 DEF AnalyticsPlan
  <2> QED  BY <2>2 DEF AnalyticsPlan
<1>2. Answered({"cross"}) =>
        \A n \in {"cases", "runs", "distribution", "completed", "rates", "listed",
                  "counts", "types", "automated", "trend", "runs_per",
                  "results_per"} : Has(n)
  <2> SUFFICES ASSUME Answered({"cross"}) PROVE
        \A n \in {"cases", "runs", "distribution", "completed", "rates", "listed",
                  "counts", "types", "automated", "trend", "runs_per",
                  "results_per"} : Has(n)
    OBVIOUS
  <2>1. P = CrossPlan /\ \A i \in 1..Len(P) : Has(P[i])
    BY AllReturned DEF Answered, Plan
  <2>2. \A i \in 1..14 : Has(CrossPlan[i])  BY <2>1 DEF CrossPlan
  <2> QED  BY <2>2 DEF CrossPlan
<1>3. Answered({"dashboard"}) => \A n \in {"runs", "distribution", "counts"} : Has(n)
  BY AllReturned DEF Answered, Plan, DashboardPlan
<1>4. Answered({"stats"}) => Has("rates")
  <2> SUFFICES ASSUME Answered({"stats"}) PROVE Has("rates")  OBVIOUS
  <2>1. P = StatsPlan /\ \A i \in 1..Len(P) : Has(P[i])
    BY AllReturned DEF Answered, Plan
  <2>2. Len(StatsPlan) = 5 /\ StatsPlan[5] = "rates"  BY DEF StatsPlan
  <2> QED  BY <2>1, <2>2
<1>5. Answered({"bulk"}) =>
        Has("rates") /\ Has("all_suites") /\ Has("all_cases") /\ Has("all_runs")
  BY AllReturned DEF Answered, Plan, BulkPlan
<1>6. Answered({"custom"}) => Has("total") /\ Has("page_1") /\ Has("page_2")
  BY AllReturned DEF Answered, Plan, CustomPlan
<1>7. Answered({"report"}) => Has("rows")
  BY AllReturned DEF Answered, Plan
<1> QED  BY <1>1, <1>2, <1>3, <1>4, <1>5, <1>6, <1>7

(* Whatever is committed between the SELECTs of a report, each rate is a   *)
(* ratio and each run is averaged once, in its own project.                *)
THEOREM ReportsSoundUnderRaces == ReportsSpec => []SoundUnderRaces
<1>1. ReportsInv => SoundUnderRaces
  <2> SUFFICES ASSUME ReportsInv PROVE SoundUnderRaces  OBVIOUS
  <2>1. ASSUME Answered({"analytics", "cross", "stats", "bulk"})
        PROVE  Has("rates") /\ RatesFit(got["rates"])
    <3>1. Has("rates")  BY <2>1, PagesHave DEF Answered
    <3> QED  BY <2>1, <3>1 DEF ReportsInv, Grounded, Answered
  <2>2. ASSUME Answered({"analytics", "cross"})
        PROVE  DOMAIN got["counts"] = got["listed"]
    <3>1. Has("counts")  BY <2>2, PagesHave DEF Answered
    <3> QED  BY <2>2, <3>1 DEF ReportsInv, Grounded, Answered
  <2>3. ASSUME Answered({"cross", "bulk"}), NEW r \in Runs
        PROVE  LET rows == {p \in scope : r \in DOMAIN MeanOf(p)}
               IN  IF r \in DOMAIN got["rates"]
                   THEN /\ rows = {ProjectOf[r]}
                        /\ \A p \in rows : MeanOf(p)[r] = got["rates"][r]
                   ELSE rows = {}
    <3>1. DOMAIN got["rates"] \subseteq RunsOf(scope)
      BY <2>1, <2>3 DEF Answered, RatesFit
    <3>2. \A p : r \in DOMAIN MeanOf(p) <=> r \in DOMAIN got["rates"] /\ ProjectOf[r] = p
      BY DEF MeanOf, RunsOf
    <3>3. \A p : r \in DOMAIN MeanOf(p) => MeanOf(p)[r] = got["rates"][r]
      BY DEF MeanOf
    <3>4. r \in DOMAIN got["rates"] => ProjectOf[r] \in scope  BY <3>1 DEF RunsOf
    <3> QED  BY <3>2, <3>3, <3>4
  <2> QED  BY <2>1, <2>2, <2>3 DEF SoundUnderRaces, Answered, RatesFit
<1> QED  BY <1>1, ReportsInductive, PTL

(* get_bulk_stats means what get_stats means, and counts what is deleted   *)
(* as well.                                                                *)
THEOREM BulkMeansStats == ReportsSpec => []BulkIsStats
<1>1. ReportsInv => BulkIsStats
  <2> SUFFICES ASSUME ReportsInv, Answered({"bulk"}), quiet, NEW p \in scope \ gone
               PROVE  LET bulk  == <<got["all_suites"][p], got["all_cases"][p], got["all_runs"][p]>>
                          stats == <<Cardinality(LiveSuites({p})), Cardinality(LiveCases({p})),
                                     Cardinality(LiveRuns({p}))>>
                      IN  /\ MeanOf(p) = Rates(Completed({p}))
                          /\ \A i \in 1..3 : bulk[i] >= stats[i]
                          /\ gone = {} => bulk = stats
    BY DEF BulkIsStats
  <2>1. /\ Has("rates") /\ Has("all_suites") /\ Has("all_cases") /\ Has("all_runs")
        /\ \A n \in DOMAIN got : Returned(n, got[n])
    BY PagesHave DEF Answered, ReportsInv, Snapshot
  <2>2. /\ got["rates"] = Rates(Completed(scope))
        /\ got["all_suites"] = Per(SuitesOf(scope), LAMBDA s : ProjectOf[s])
        /\ got["all_cases"] = Per(CasesIn(SuitesOf(scope)), LAMBDA c : ProjectOf[SuiteOf[c]])
        /\ got["all_runs"] = Per(RunsOf(scope), LAMBDA r : ProjectOf[r])
    BY <2>1 DEF Has, Returned, Alone, FollowsUp, GroupsReturned
  <2>3. MeanOf(p) = Rates(Completed({p}))
    <3>1. DOMAIN MeanOf(p) = DOMAIN Rates(Completed({p}))
      BY <2>2 DEF MeanOf, Rates, Completed, LiveRuns, RunsOf
    <3>2. \A r \in DOMAIN MeanOf(p) : MeanOf(p)[r] = Progress(r)
      BY <2>2 DEF MeanOf, Rates
    <3>3. \A r \in DOMAIN Rates(Completed({p})) : Rates(Completed({p}))[r] = Progress(r)
      BY DEF Rates
    <3> QED  BY <3>1, <3>2, <3>3 DEF MeanOf, Rates
  <2>4. /\ got["all_suites"][p] = Cardinality({s \in SuitesOf(scope) : ProjectOf[s] = p})
        /\ got["all_cases"][p] =
             Cardinality({c \in CasesIn(SuitesOf(scope)) : ProjectOf[SuiteOf[c]] = p})
        /\ got["all_runs"][p] = Cardinality({r \in RunsOf(scope) : ProjectOf[r] = p})
    BY <2>2 DEF Per
  <2>5. /\ {s \in SuitesOf(scope) : ProjectOf[s] = p} = SuitesOf({p})
        /\ {c \in CasesIn(SuitesOf(scope)) : ProjectOf[SuiteOf[c]] = p} = CasesIn(SuitesOf({p}))
        /\ {r \in RunsOf(scope) : ProjectOf[r] = p} = RunsOf({p})
    BY DEF SuitesOf, CasesIn, RunsOf
  <2>6. /\ LiveSuites({p}) \in SUBSET SuitesOf({p}) /\ IsFiniteSet(SuitesOf({p}))
        /\ LiveCases({p}) \in SUBSET CasesIn(SuitesOf({p})) /\ IsFiniteSet(CasesIn(SuitesOf({p})))
        /\ LiveRuns({p}) \in SUBSET RunsOf({p}) /\ IsFiniteSet(RunsOf({p}))
    <3>1. /\ SuitesOf({p}) \in SUBSET Suites /\ CasesIn(SuitesOf({p})) \in SUBSET Cases
          /\ RunsOf({p}) \in SUBSET Runs
      BY DEF SuitesOf, CasesIn, RunsOf
    <3>2. IsFiniteSet(Suites) /\ IsFiniteSet(Cases) /\ IsFiniteSet(Runs)
      BY ReportsAssumption
    <3>3. /\ LiveSuites({p}) \in SUBSET SuitesOf({p})
          /\ LiveCases({p}) \in SUBSET CasesIn(SuitesOf({p}))
          /\ LiveRuns({p}) \in SUBSET RunsOf({p})
      BY DEF LiveSuites, LiveCases, LiveRuns, CasesIn
    <3> QED  BY <3>1, <3>2, <3>3, FS_Subset
  <2>7. \A S, T : IsFiniteSet(T) /\ S \in SUBSET T =>
          Cardinality(S) \in Nat /\ Cardinality(T) \in Nat /\ Cardinality(S) <= Cardinality(T)
    BY FS_Subset, FS_CardinalityType
  <2>10. \A S \in {LiveSuites({p}), LiveCases({p}), LiveRuns({p}), SuitesOf({p}),
                   CasesIn(SuitesOf({p})), RunsOf({p})} : Cardinality(S) \in Nat
    BY <2>6, <2>7
  <2>11. /\ Cardinality(LiveSuites({p})) <= Cardinality(SuitesOf({p}))
         /\ Cardinality(LiveCases({p})) <= Cardinality(CasesIn(SuitesOf({p})))
         /\ Cardinality(LiveRuns({p})) <= Cardinality(RunsOf({p}))
    BY <2>6, <2>7
  <2>8. /\ Cardinality(LiveSuites({p})) <= got["all_suites"][p]
        /\ Cardinality(LiveCases({p})) <= got["all_cases"][p]
        /\ Cardinality(LiveRuns({p})) <= got["all_runs"][p]
    BY <2>4, <2>5, <2>11
  <2>9. gone = {} => /\ LiveSuites({p}) = SuitesOf({p})
                     /\ LiveCases({p}) = CasesIn(SuitesOf({p}))
                     /\ LiveRuns({p}) = RunsOf({p})
    BY DEF LiveSuites, LiveCases, LiveRuns
  <2> DEFINE bulk  == <<got["all_suites"][p], got["all_cases"][p], got["all_runs"][p]>>
             stats == <<Cardinality(LiveSuites({p})), Cardinality(LiveCases({p})),
                        Cardinality(LiveRuns({p}))>>
  <2>12. gone = {} => bulk = stats  BY <2>4, <2>5, <2>9
  <2>13. \A i \in 1..3 : bulk[i] >= stats[i]
    <3>1. bulk[1] >= stats[1] /\ bulk[2] >= stats[2] /\ bulk[3] >= stats[3]
      BY <2>4, <2>5, <2>8, <2>10
    <3> HIDE DEF bulk, stats
    <3> QED  BY <3>1
  <2> QED  BY <2>3, <2>12, <2>13
<1> QED  BY <1>1, ReportsInductive, PTL

(* The minimum of two numbers.                                             *)
LEMMA Smaller ==
  ASSUME NEW a \in Nat, NEW b \in Nat
  PROVE  Min({a, b}) = IF a <= b THEN a ELSE b
<1> DEFINE m == IF a <= b THEN a ELSE b
<1>1. m \in {a, b} /\ \A y \in {a, b} : m =< y  OBVIOUS
<1>2. \A x \in {a, b} : (\A y \in {a, b} : x =< y) => x = m  OBVIOUS
<1> QED  BY <1>1, <1>2 DEF Min

(* Rows with different times have one order, so the first n are the same.  *)
LEMMA FirstIsOne ==
  ASSUME NEW X, IsFiniteSet(X), \A x \in X : result[x].at \in Nat,
         \A x, y \in X : result[x].at = result[y].at => x = y,
         NEW n \in Nat, NEW S \in First(X, n), NEW T \in First(X, n)
  PROVE  S = T
<1>1. /\ S \in SUBSET X /\ T \in SUBSET X /\ Cardinality(S) = Cardinality(T)
      /\ \A x \in S, y \in X \ S : result[x].at >= result[y].at
      /\ \A x \in T, y \in X \ T : result[x].at >= result[y].at
  BY DEF First
<1>2. IsFiniteSet(S) /\ IsFiniteSet(T)  BY <1>1, FS_Subset
<1> SUFFICES ASSUME S # T PROVE FALSE  OBVIOUS
<1>3. ~ (S \subseteq T) /\ ~ (T \subseteq S)
  BY <1>1, <1>2, FS_Subset
<1>4. PICK x \in S : x \notin T  BY <1>3
<1>5. PICK y \in T : y \notin S  BY <1>3
<1> QED  BY <1>1, <1>4, <1>5

(* Two pages of the custom report show each of the first rows once, if     *)
(* their times differ.                                                     *)
THEOREM PagesArePartition == ReportsSpec => []PagesPartition
<1>1. ReportsInv => PagesPartition
  <2> DEFINE X == CustomRows
  <2> SUFFICES ASSUME ReportsInv, Answered({"custom"}), quiet,
                      \A x, y \in X : result[x].at = result[y].at => x = y
               PROVE  /\ got["page_1"] \intersect got["page_2"] = {}
                      /\ Cardinality(got["page_1"] \union got["page_2"]) =
                           Min({got["total"], 2 * PageSize})
    BY DEF PagesPartition
  <2>1. /\ Has("total") /\ Has("page_1") /\ Has("page_2")
        /\ \A n \in DOMAIN got : Returned(n, got[n])
    BY PagesHave DEF Answered, ReportsInv, Snapshot
  <2>2. /\ got["total"] = Cardinality(X)
        /\ got["page_1"] \in PagesOf(X, 1) /\ got["page_2"] \in PagesOf(X, 2)
    BY <2>1 DEF Has, Returned, Alone, NumberReturned, RowsReturned
  <2>3. X \subseteq DOMAIN result
    BY DEF CustomRows, LiveResults, ResultsOf
  <2>4. IsFiniteSet(X) /\ Cardinality(X) \in Nat
    BY <2>3, Finite, FS_Subset, FS_CardinalityType DEF ReportsInv
  <2>5. \A x \in X : result[x].at \in Nat
    BY <2>3, ReportsAssumption DEF ReportsInv, ReportsTypeOK
  <2> HIDE DEF X
  <2>6. PageSize \in Nat /\ (1 - 1) * PageSize = 0 /\ 1 * PageSize = PageSize
        /\ (2 - 1) * PageSize = PageSize /\ 2 * PageSize \in Nat
    BY ReportsAssumption
  <2>7. PICK A1 \in First(X, 0), B1 \in First(X, PageSize) : got["page_1"] = B1 \ A1
    BY <2>2, <2>6 DEF PagesOf
  <2>8. PICK A2 \in First(X, PageSize), B2 \in First(X, 2 * PageSize) :
          A2 \subseteq B2 /\ got["page_2"] = B2 \ A2
    BY <2>2, <2>6 DEF PagesOf
  <2>9. A1 = {}
    <3>1. Cardinality(A1) = 0 /\ A1 \in SUBSET X  BY <2>4, <2>7, Smaller DEF First
    <3> QED  BY <3>1, <2>4, FS_Subset, FS_EmptySet
  <2>10. B1 = A2  BY <2>4, <2>5, <2>6, <2>7, <2>8, FirstIsOne
  <2>11. /\ got["page_1"] \intersect got["page_2"] = {}
         /\ got["page_1"] \union got["page_2"] = B2
    BY <2>7, <2>8, <2>9, <2>10
  <2>12. Cardinality(B2) = Min({2 * PageSize, Cardinality(X)})  BY <2>8 DEF First
  <2>13. {2 * PageSize, Cardinality(X)} = {got["total"], 2 * PageSize}  BY <2>2
  <2> QED  BY <2>11, <2>12, <2>13
<1> QED  BY <1>1, ReportsInductive, PTL

(* Days of instants.                                                       *)
LEMMA DivIs ==
  ASSUME NEW a \in Nat, NEW D \in Nat \ {0}
  PROVE  /\ a \div D \in Nat
         /\ (a \div D) * D <= a
         /\ a < (a \div D + 1) * D
<1>1. a = D * (a \div D) + (a % D) /\ a % D \in 0..(D - 1) OBVIOUS
<1>2. a \div D \in Int OBVIOUS
<1>3. a \div D >= 0 OBVIOUS
<1> QED BY <1>1, <1>2, <1>3

LEMMA DivMonotone ==
  ASSUME NEW a \in Nat, NEW b \in Nat, a <= b, NEW D \in Nat \ {0}
  PROVE  a \div D <= b \div D
BY DivIs

(* The days of the instants of a window are consecutive.                   *)
LEMMA DaysBetween ==
  ASSUME NEW a \in Nat, NEW b \in Nat, a <= b
  PROVE  {DayOf(at) : at \in a..b} = (a \div Day)..(b \div Day)
<1>1. Day \in Nat \ {0}  BY ReportsAssumption
<1>2. \A at \in a..b : DayOf(at) \in (a \div Day)..(b \div Day)
  BY <1>1, DivMonotone, DivIs DEF DayOf
<1>3. ASSUME NEW d \in (a \div Day)..(b \div Day)
      PROVE  \E at \in a..b : DayOf(at) = d
  <2>1. d \in Nat /\ a \div Day <= d /\ d <= b \div Day  BY <1>1, DivIs
  <2>2. CASE d * Day >= a
    <3>1. d * Day \in Nat /\ (d * Day) \div Day = d  BY <1>1, <2>1
    <3>2. d * Day <= b  BY <1>1, <2>1, DivIs
    <3> QED  BY <2>2, <3>1, <3>2 DEF DayOf
  <2>3. CASE d * Day < a
    <3>1. d <= a \div Day  BY <1>1, <2>1, <2>3, DivIs
    <3>2. a \in a..b  OBVIOUS
    <3>3. a \div Day \in Nat  BY <1>1, DivIs
    <3>4. a \div Day = d  BY <2>1, <3>1, <3>3
    <3> QED  BY <3>2, <3>4 DEF DayOf
  <2> QED  BY <1>1, <2>1, <2>2, <2>3
<1> QED  BY <1>2, <1>3

(* Results that are counted by status.                                     *)
Countable(X) == IsFiniteSet(X) /\ \A x \in X : result[x].status \in Status

(* Each result has one status.                                             *)
LEMMA DistributionAddsUp ==
  ASSUME NEW X, Countable(X)
  PROVE  Total(Distribution(X)) = Cardinality(X)
<1> DEFINE P == [s \in Status |-> {x \in X : result[x].status = s}]
<1>1. IsFiniteSet(Status)
  <2>1. IsFiniteSet({"passed"})  BY FS_Singleton
  <2>2. IsFiniteSet({"passed"} \union {"failed"})  BY <2>1, FS_AddElement
  <2>3. IsFiniteSet({"passed"} \union {"failed"} \union {"blocked"})  BY <2>2, FS_AddElement
  <2>4. IsFiniteSet({"passed"} \union {"failed"} \union {"blocked"} \union {"no_run"})
    BY <2>3, FS_AddElement
  <2>5. Status = {"passed"} \union {"failed"} \union {"blocked"} \union {"no_run"}
    BY DEF Status
  <2> QED  BY <2>4, <2>5
<1>2. \A s \in Status : IsFiniteSet(P[s])  BY FS_Subset DEF Countable
<1>3. \A s, t \in Status : s # t => P[s] \intersect P[t] = {}  OBVIOUS
<1>4. Joint(P, Status) = X  BY DEF Joint, Countable
<1>5. Distribution(X) = [s \in Status |-> Cardinality(P[s])]  BY DEF Distribution
<1> HIDE DEF P
<1> QED  BY <1>1, <1>2, <1>3, <1>4, <1>5, SumOfParts

(* The results of disjoint parts, each counted by status.                  *)
LEMMA ResultsOfParts ==
  ASSUME NEW I, IsFiniteSet(I), NEW P, \A i \in I : Countable(P[i]),
         \A i, j \in I : i # j => P[i] \intersect P[j] = {}
  PROVE  Results([i \in I |-> Distribution(P[i])]) = Cardinality(Joint(P, I))
<1> DEFINE f == [i \in I |-> Distribution(P[i])]
           g == [i \in I |-> Cardinality(P[i])]
<1>1. \A i \in I : Total(f[i]) = g[i]  BY DistributionAddsUp
<1>2. [i \in DOMAIN f |-> Total(f[i])] = g  BY <1>1
<1>3. Results(f) = Total(g)  BY <1>2 DEF Results
<1> QED  BY <1>3, SumOfParts DEF Countable

(* Each result has one day, one run, and its run one project.              *)
LEMMA DaysAddUp ==
  ASSUME NEW X, Countable(X)
  PROVE  Results(ByDay(X)) = Cardinality(X)
<1> DEFINE I == {DayOf(result[x].at) : x \in X}
           f == [x \in X |-> DayOf(result[x].at)]
           P == [d \in I |-> {x \in X : DayOf(result[x].at) = d}]
<1>1. f \in Surjection(X, I)  BY DEF Surjection
<1>2. IsFiniteSet(I)  BY <1>1, FS_Surjection DEF Countable
<1>3. \A d \in I : Countable(P[d])  BY FS_Subset DEF Countable
<1>4. \A d, e \in I : d # e => P[d] \intersect P[e] = {}  OBVIOUS
<1>5. Joint(P, I) = X
  <2>1. \A x \in X : DayOf(result[x].at) \in I /\ x \in P[DayOf(result[x].at)]  OBVIOUS
  <2>2. \A d \in I : P[d] \subseteq X  OBVIOUS
  <2> HIDE DEF P, I
  <2> QED  BY <2>1, <2>2 DEF Joint
<1>6. ByDay(X) = [d \in I |-> Distribution(P[d])]  BY DEF ByDay
<1> HIDE DEF P, I
<1> QED  BY <1>2, <1>3, <1>4, <1>5, <1>6, ResultsOfParts

(* The results that a SELECT is about can be counted.                      *)
LEMMA ResultsCounted ==
  ASSUME ReportsTypeOK, NEW R, NEW X, X \subseteq LiveResults(R)
  PROVE  /\ Countable(X) /\ X \subseteq DOMAIN result
         /\ \A x \in X : result[x].at \in 0..Now
<1>1. X \in SUBSET DOMAIN result /\ IsFiniteSet(DOMAIN result)
  BY Finite DEF LiveResults, ResultsOf
<1> QED  BY <1>1, FS_Subset DEF Countable, ReportsTypeOK

LEMMA RunsAddUp ==
  ASSUME ReportsTypeOK, NEW R, R \subseteq Runs
  PROVE  Results([r \in R |-> Distribution(LiveResults({r}))]) = Cardinality(LiveResults(R))
<1> DEFINE P == [r \in R |-> LiveResults({r})]
<1>1. IsFiniteSet(R)  BY ReportsAssumption, FS_Subset
<1>2. \A r \in R : Countable(P[r])  BY ResultsCounted
<1>3. \A r, q \in R : r # q => P[r] \intersect P[q] = {}  BY DEF LiveResults, ResultsOf
<1>4. Joint(P, R) = LiveResults(R)  BY DEF Joint, LiveResults, ResultsOf
<1>5. [r \in R |-> Distribution(LiveResults({r}))] = [r \in R |-> Distribution(P[r])]
  OBVIOUS
<1> HIDE DEF P
<1> QED  BY <1>1, <1>2, <1>3, <1>4, <1>5, ResultsOfParts

LEMMA ProjectsAddUp ==
  ASSUME ReportsTypeOK
  PROVE  /\ Total(Per(LiveRuns(scope), LAMBDA r : ProjectOf[r])) = Cardinality(LiveRuns(scope))
         /\ Total(Per(LiveResults(Completed(scope)), LAMBDA x : ProjectOf[x[1]])) =
              Cardinality(LiveResults(Completed(scope)))
<1>1. IsFiniteSet(scope)  BY ReportsAssumption, FS_Subset DEF ReportsTypeOK
<1>2. IsFiniteSet(LiveRuns(scope)) /\ IsFiniteSet(LiveResults(Completed(scope)))
  <2>1. LiveRuns(scope) \in SUBSET Runs  BY DEF LiveRuns, RunsOf
  <2> QED  BY <2>1, ReportsAssumption, FS_Subset, Finite
<1>3. Total(Per(LiveRuns(scope), LAMBDA r : ProjectOf[r])) = Cardinality(LiveRuns(scope))
  <2> DEFINE X == LiveRuns(scope)
             P == [p \in scope |-> {r \in X : ProjectOf[r] = p}]
  <2>1. \A p \in scope : IsFiniteSet(P[p])  BY <1>2, FS_Subset
  <2>2. \A p, q \in scope : p # q => P[p] \intersect P[q] = {}  OBVIOUS
  <2>3. Joint(P, scope) = X  BY DEF Joint, LiveRuns, RunsOf
  <2>4. Per(X, LAMBDA r : ProjectOf[r]) = [p \in scope |-> Cardinality(P[p])]  BY DEF Per
  <2> HIDE DEF P
  <2> QED  BY <1>1, <2>1, <2>2, <2>3, <2>4, SumOfParts
<1>4. Total(Per(LiveResults(Completed(scope)), LAMBDA x : ProjectOf[x[1]])) =
        Cardinality(LiveResults(Completed(scope)))
  <2> DEFINE X == LiveResults(Completed(scope))
             P == [p \in scope |-> {x \in X : ProjectOf[x[1]] = p}]
  <2>1. \A p \in scope : IsFiniteSet(P[p])  BY <1>2, FS_Subset
  <2>2. \A p, q \in scope : p # q => P[p] \intersect P[q] = {}  OBVIOUS
  <2>3. Joint(P, scope) = X  BY DEF Joint, LiveResults, ResultsOf, Completed, LiveRuns, RunsOf
  <2>4. Per(X, LAMBDA x : ProjectOf[x[1]]) = [p \in scope |-> Cardinality(P[p])]  BY DEF Per
  <2> HIDE DEF P
  <2> QED  BY <1>1, <2>1, <2>2, <2>3, <2>4, SumOfParts
<1> QED  BY <1>3, <1>4

(* The zero-filled trend of a window in UTC.                               *)
LEMMA TrendAddsUp ==
  ASSUME ReportsInv, quiet, Answered({"analytics", "cross"}), Has("trend"),
         NEW w \in ask.window, w.offset = 0
  PROVE  /\ w.from <= w.to => DOMAIN Trend(w) = {DayOf(at) : at \in w.from..w.to}
         /\ Results(Trend(w)) =
              Cardinality({x \in LiveResults(Completed(scope)) :
                             InWindow(result[x].at, ask.window)})
<1> DEFINE X == {x \in LiveResults(Completed(scope)) : InWindow(result[x].at, ask.window)}
           I == ZeroFilled(w)
           P == [d \in I |-> {x \in X : DayOf(result[x].at) = d}]
<1>1. /\ w.from \in Nat /\ w.to \in Nat /\ Day \in Nat \ {0} /\ Now \in Nat
      /\ w.from + 0 = w.from /\ w.to + 0 = w.to
  <2>1. ask \in Ask  BY ReportsAssumption DEF ReportsInv, ReportsTypeOK
  <2>2. w \in Window  BY <2>1 DEF Ask
  <2> QED  BY <2>2, ReportsAssumption DEF Window
<1>2. I = (w.from \div Day)..(w.to \div Day)  BY <1>1 DEF ZeroFilled, LocalDay
<1>3. w.from \div Day \in Nat /\ w.to \div Day \in Nat  BY <1>1, DivIs
<1>4. IsFiniteSet(I)  BY <1>2, <1>3, FS_Interval
<1>5. X \subseteq LiveResults(Completed(scope))  OBVIOUS
<1>6. /\ Countable(X) /\ X \subseteq DOMAIN result
      /\ \A x \in X : result[x].at \in Nat
  <2> HIDE DEF X
  <2> QED  BY <1>1, <1>5, ResultsCounted DEF ReportsInv
<1>7. \A x \in X : w.from <= result[x].at /\ result[x].at <= w.to
  BY <1>1, <1>6 DEF InWindow
<1>8. \A x \in X : DayOf(result[x].at) \in I
  <2> TAKE x \in X
  <2> DEFINE at == result[x].at
  <2>1. at \in Nat /\ w.from <= at /\ at <= w.to  BY <1>6, <1>7
  <2> HIDE DEF X, I, at
  <2>2. at \div Day \in Nat /\ w.from \div Day <= at \div Day /\ at \div Day <= w.to \div Day
    BY <2>1, <1>1, DivMonotone, DivIs
  <2>3. at \div Day \in I  BY <2>2, <1>2, <1>3
  <2> QED  BY <2>3 DEF DayOf, at
<1>9. got["trend"] = ByDay(X)
  BY DEF ReportsInv, Snapshot, Answered, Has, Returned, Alone, GroupsReturned, TrendResults
<1>10. Trend(w) = [d \in I |-> Distribution(P[d])]
  <2>1. ASSUME NEW d \in I
        PROVE  Trend(w)[d] = Distribution(P[d])
    <3>1. CASE d \in DOMAIN ByDay(X)  BY <3>1, <1>9 DEF Trend, ByDay
    <3>2. CASE d \notin DOMAIN ByDay(X)
      <4>1. P[d] = {}  BY <3>2 DEF ByDay
      <4>2. Distribution({}) = Zero  BY FS_EmptySet DEF Distribution, Zero
      <4> QED  BY <3>2, <4>1, <4>2, <1>9 DEF Trend
    <3> QED  BY <3>1, <3>2
  <2> QED  BY <2>1 DEF Trend
<1>11. Joint(P, I) = X
  <2>1. \A x \in X : x \in P[DayOf(result[x].at)]  BY <1>8
  <2>2. \A d \in I : P[d] \subseteq X  OBVIOUS
  <2> HIDE DEF P, I, X
  <2> QED  BY <2>1, <2>2, <1>8 DEF Joint
<1>12. Results(Trend(w)) = Cardinality(X)
  <2>1. \A d \in I : Countable(P[d])  BY <1>6, FS_Subset DEF Countable
  <2>2. \A d, e \in I : d # e => P[d] \intersect P[e] = {}  OBVIOUS
  <2> HIDE DEF P, I, X
  <2> QED  BY <2>1, <2>2, <1>4, <1>10, <1>11, ResultsOfParts
<1>13. ASSUME w.from <= w.to
       PROVE  DOMAIN Trend(w) = {DayOf(at) : at \in w.from..w.to}
  <2>1. DOMAIN Trend(w) = I  BY DEF Trend
  <2>2. {DayOf(at) : at \in w.from..w.to} = (w.from \div Day)..(w.to \div Day)
    BY <1>1, <1>13, DaysBetween
  <2> QED  BY <1>2, <2>1, <2>2
<1> QED  BY <1>12, <1>13

(* A row of a run report is a case of the scope, with its result.          *)
LEMMA ReportIsProgress ==
  ASSUME ReportsInv, quiet, Answered({"report"}), NEW r \in ask.ids \ DOMAIN Picked
  PROVE  <<Cardinality({c \in DOMAIN got["rows"] : got["rows"][c] = "passed"}),
           Cardinality(DOMAIN got["rows"])>> = Progress(r)
<1> DEFINE S == ScopeOf(r)
           T == {x \in LiveResults({r}) : x[2] \in S}
           passedRows == {c \in DOMAIN got["rows"] : got["rows"][c] = "passed"}
           passed == {x \in T : result[x].status = "passed"}
<1>1. Has("rows") /\ Returned("rows", got["rows"]) /\ scope = Resolved(ask) /\ scope # {}
      /\ ask.kind = "report"
  <2>1. Has("rows")  BY PagesHave
  <2> QED  BY <2>1 DEF ReportsInv, Snapshot, Answered, Has
<1>2. ask.ids = {r} /\ r \in Runs
  BY <1>1, ReportsAssumption DEF ReportsInv, ReportsTypeOK
<1>3. scope = {ProjectOf[r]}  BY <1>1, <1>2 DEF Resolved
<1>4. got["rows"] = [c \in ReportCases(r) |->
                       IF <<r, c>> \in LiveResults({r}) THEN result[<<r, c>>].status ELSE None]
  BY <1>1, <1>2 DEF Returned, Alone, RowsReturned
<1>5. ReportCases(r) = S /\ S \subseteq Cases
  BY <1>3 DEF ReportCases, ScopeOf, LiveCases, CasesIn
<1>6. /\ LiveResults({r}) \subseteq {r} \X Cases
      /\ \A x \in LiveResults({r}) : x = <<r, x[2]>> /\ result[x].status \in Status
  BY DEF LiveResults, ResultsOf, ReportsInv, ReportsTypeOK
<1>7. IsFiniteSet(S) /\ IsFiniteSet(T) /\ IsFiniteSet(passed)
  <2>1. IsFiniteSet(S)  BY <1>5, ReportsAssumption, FS_Subset
  <2>2. IsFiniteSet(T)  BY Finite, FS_Subset DEF ReportsInv
  <2> HIDE DEF S, T
  <2> QED  BY <2>1, <2>2, FS_Subset
<1>8. Cardinality(T) <= Cardinality(S)
  <2> DEFINE f == [x \in T |-> x[2]]
  <2>1. f \in Injection(T, S)
    <3>1. f \in [T -> S]  OBVIOUS
    <3>2. \A x \in T : x = <<r, f[x]>>  BY <1>6
    <3>3. \A x, y \in T : f[x] = f[y] => x = y
      <4> HIDE DEF f, T
      <4> QED  BY <3>2
    <3> HIDE DEF f, T, S
    <3> QED  BY <3>1, <3>3 DEF Injection, IsInjective
  <2> HIDE DEF f, S, T
  <2> QED  BY <2>1, <1>7, FS_Injection
<1>9. Cardinality(passedRows) = Cardinality(passed)
  <2> DEFINE f == [x \in passed |-> x[2]]
  <2>1. \A c \in passedRows : <<r, c>> \in passed /\ <<r, c>>[2] = c
    BY <1>4, <1>5 DEF None
  <2>2. \A x \in passed : x = <<r, x[2]>> /\ x[2] \in passedRows
    BY <1>4, <1>5, <1>6
  <2> HIDE DEF passed, passedRows
  <2>3. f \in Bijection(passed, passedRows)
    <3>1. f \in [passed -> passedRows]  BY <2>2
    <3>2. \A x, y \in passed : f[x] = f[y] => x = y  BY <2>2
    <3>3. \A c \in passedRows : \E x \in passed : f[x] = c  BY <2>1
    <3> HIDE DEF f
    <3>4. f \in Injection(passed, passedRows)  BY <3>1, <3>2 DEF Injection, IsInjective
    <3>5. f \in Surjection(passed, passedRows)  BY <3>1, <3>3 DEF Surjection
    <3> QED  BY <3>4, <3>5 DEF Bijection
  <2>4. ExistsBijection(passed, passedRows)  BY <2>3 DEF ExistsBijection
  <2> QED  BY <2>4, <1>7, FS_Bijection
<1>10. Progress(r) = <<Cardinality(passed), Max({Cardinality(S), Cardinality(T)})>>
  BY DEF Progress, Distribution, Status
<1>11. Max({Cardinality(S), Cardinality(T)}) = Cardinality(S)
  <2>1. Cardinality(S) \in Nat /\ Cardinality(T) \in Nat  BY <1>7, FS_CardinalityType
  <2> HIDE DEF S, T
  <2> QED  BY <2>1, <1>8, Larger
<1>12. DOMAIN got["rows"] = S  BY <1>4, <1>5
<1> QED  BY <1>9, <1>10, <1>11, <1>12

(* A case is automated or manual.                                          *)
LEMMA TypesAddUp ==
  ASSUME ReportsTypeOK
  PROVE  OfType(FALSE) = Cardinality(LiveCases(scope)) - Cardinality(LiveCases(scope) \intersect automated)
<1> DEFINE L == LiveCases(scope)
<1>1. IsFiniteSet(L)
  <2>1. L \in SUBSET Cases  BY DEF LiveCases, CasesIn
  <2> QED  BY <2>1, ReportsAssumption, FS_Subset
<1>2. {c \in L : (c \in automated) = FALSE} = L \ automated  OBVIOUS
<1> HIDE DEF L
<1>3. Cardinality(L \ automated) = Cardinality(L) - Cardinality(L \intersect automated)
  BY <1>1, FS_Difference
<1> QED  BY <1>2, <1>3 DEF OfType, L

(* A list that is long enough has all runs.                                *)
LEMMA ListedAreAll ==
  ASSUME ReportsTypeOK, Cardinality(LiveRuns(scope)) <= RecentLimit,
         NEW R \in Latest(LiveRuns(scope), RecentLimit)
  PROVE  R = LiveRuns(scope)
<1> DEFINE L == LiveRuns(scope)
<1>1. IsFiniteSet(L)
  <2>1. L \in SUBSET Runs  BY DEF LiveRuns, RunsOf
  <2> QED  BY <2>1, ReportsAssumption, FS_Subset
<1>2. R \in SUBSET L /\ Cardinality(R) = Min({RecentLimit, Cardinality(L)})
  BY DEF Latest
<1>3. Cardinality(L) \in Nat /\ RecentLimit \in Nat  BY <1>1, FS_CardinalityType, ReportsAssumption
<1>4. Cardinality(R) = Cardinality(L)  
  <2>1. Cardinality(L) <= RecentLimit OBVIOUS
  <2> HIDE DEF L
  <2> QED BY <2>1, <1>2, <1>3, Smaller
<1> QED  BY <1>1, <1>2, <1>4, FS_Subset

(* On a page that saw one state of the tables, every number that is shown  *)
(* twice is the same: the distribution, the trend, the runs and the        *)
(* projects of an analytics page count the same results.                   *)
THEOREM ReportsAddUp == ReportsSpec => []TotalsAgree
<1>1. ReportsInv => TotalsAgree
  <2> SUFFICES ASSUME ReportsInv, quiet PROVE TotalsAgree
    BY DEF TotalsAgree
  <2> DEFINE C == LiveResults(Completed(scope))
  <2>0. ReportsTypeOK  BY DEF ReportsInv
  <2>1. phase = "answered" => \A n \in DOMAIN got : Returned(n, got[n])
    BY DEF ReportsInv, Snapshot
  <2>2. Countable(C) /\ IsFiniteSet(LiveRuns(scope)) 
    <3>1. LiveRuns(scope) \in SUBSET Runs  BY DEF LiveRuns, RunsOf
    <3> QED  BY <2>0, <3>1, ResultsCounted, ReportsAssumption, FS_Subset
  <2>3. TrendTellsWindow
    BY TrendAddsUp, PagesHave DEF TrendTellsWindow, Answered
  <2>4. Has("distribution") /\ phase = "answered" => Total(got["distribution"]) = Cardinality(C)
    BY <2>1, <2>2, DistributionAddsUp DEF Has, Returned, Alone, GroupsReturned
  <2>5. ASSUME Answered({"analytics", "cross"})
        PROVE  /\ got["types"].manual = got["cases"] - got["automated"]
               /\ ask.window = {} => Results(got["trend"]) = Total(got["distribution"])
               /\ ask.window = {} /\ ask.only = None =>
                    /\ DOMAIN got["counts"] = LiveRuns(scope)
                    /\ Total(got["distribution"]) =
                         Results([r \in got["completed"] |-> got["counts"][r]])
    <3>1. /\ phase = "answered" /\ ask.kind # "dashboard"
          /\ \A n \in {"cases", "distribution", "completed", "counts", "types",
                       "automated", "trend"} : Has(n)
      BY <2>5, PagesHave DEF Answered
    <3>2. got["types"].manual = got["cases"] - got["automated"]
      <4>1. /\ got["types"] = [manual |-> OfType(FALSE), automated |-> OfType(TRUE)]
            /\ got["cases"] = Cardinality(LiveCases(scope))
            /\ got["automated"] = Cardinality(LiveCases(scope) \intersect automated)
        BY <2>1, <3>1 DEF Has, Returned, Alone, GroupsReturned, NumberReturned
      <4>2. got["types"].manual = OfType(FALSE)  BY <4>1
      <4>3. OfType(FALSE) =
              Cardinality(LiveCases(scope)) - Cardinality(LiveCases(scope) \intersect automated)
        BY <2>0, TypesAddUp
      <4> QED  BY <4>1, <4>2, <4>3
    <3>3. ASSUME ask.window = {}
          PROVE  Results(got["trend"]) = Total(got["distribution"])
      <4>1. got["trend"] = ByDay({x \in C : InWindow(result[x].at, ask.window)})
        BY <2>1, <3>1 DEF Has, Returned, Alone, GroupsReturned, TrendResults
      <4>2. {x \in C : InWindow(result[x].at, ask.window)} = C  BY <3>3 DEF InWindow
      <4> QED  BY <4>1, <4>2, <2>2, <2>4, <3>1, DaysAddUp
    <3>4. ASSUME ask.window = {}, ask.only = None
          PROVE  /\ DOMAIN got["counts"] = LiveRuns(scope)
                 /\ Total(got["distribution"]) =
                      Results([r \in got["completed"] |-> got["counts"][r]])
      <4>1. got["completed"] = Completed(scope)
        BY <2>1, <3>1 DEF Has, Returned, Alone, RowsReturned
      <4>2. {r \in LiveRuns(scope) : RunFilter(r)} = LiveRuns(scope)
        BY <3>4 DEF RunFilter, InWindow
      <4>3. got["counts"] = [r \in LiveRuns(scope) |-> Distribution(LiveResults({r}))]
        BY <2>1, <3>1, <4>2 DEF Has, Returned, FollowsUp
      <4>4. Completed(scope) \subseteq LiveRuns(scope) /\ Completed(scope) \subseteq Runs
        BY DEF Completed, LiveRuns, RunsOf
      <4>5. [r \in got["completed"] |-> got["counts"][r]] =
              [r \in Completed(scope) |-> Distribution(LiveResults({r}))]
        BY <4>1, <4>3, <4>4
      <4> QED  BY <4>3, <4>4, <4>5, <2>0, <2>4, <3>1, RunsAddUp
    <3> QED  BY <3>2, <3>3, <3>4
  <2>6. ASSUME Answered({"cross"})
        PROVE  /\ Total(got["results_per"]) = Total(got["distribution"])
               /\ Total(got["runs_per"]) = got["runs"]
    <3>1. /\ phase = "answered"
          /\ \A n \in {"distribution", "runs", "results_per", "runs_per"} : Has(n)
      BY <2>6, PagesHave DEF Answered
    <3>2. /\ got["runs"] = Cardinality(LiveRuns(scope))
          /\ got["runs_per"] = Per(LiveRuns(scope), LAMBDA r : ProjectOf[r])
          /\ got["results_per"] = Per(LiveResults(Completed(scope)), LAMBDA x : ProjectOf[x[1]])
      BY <2>1, <3>1 DEF Has, Returned, Alone, GroupsReturned, NumberReturned
    <3> QED  BY <3>1, <3>2, <2>0, <2>4, ProjectsAddUp
  <2>7. ASSUME Answered({"dashboard"}), got["runs"] <= RecentLimit
        PROVE  Total(got["distribution"]) =
                 Results([r \in Completed(scope) |-> got["counts"][r]])
    <3>1. /\ phase = "answered" /\ ask.kind = "dashboard"
          /\ Has("runs") /\ Has("distribution") /\ Has("counts")
      BY <2>7, PagesHave DEF Answered
    <3>2. PICK R \in Latest(LiveRuns(scope), RecentLimit) :
            got["counts"] = [r \in R |-> Distribution(LiveResults({r}))]
      BY <2>1, <3>1 DEF Has, Returned, FollowsUp
    <3>3. got["runs"] = Cardinality(LiveRuns(scope))
      BY <2>1, <3>1 DEF Has, Returned, Alone, NumberReturned
    <3>4. R = LiveRuns(scope)  BY <2>0, <2>7, <3>3, ListedAreAll
    <3>5. Completed(scope) \subseteq LiveRuns(scope) /\ Completed(scope) \subseteq Runs
      BY DEF Completed, LiveRuns, RunsOf
    <3>6. [r \in Completed(scope) |-> got["counts"][r]] =
            [r \in Completed(scope) |-> Distribution(LiveResults({r}))]
      BY <3>2, <3>4, <3>5
    <3> QED  BY <3>1, <3>5, <3>6, <2>0, <2>4, RunsAddUp
  <2>8. ASSUME Answered({"report"}), NEW r \in ask.ids \ DOMAIN Picked
        PROVE  <<Cardinality({c \in DOMAIN got["rows"] : got["rows"][c] = "passed"}),
                 Cardinality(DOMAIN got["rows"])>> = Progress(r)
    BY <2>8, ReportIsProgress
  <2> QED  BY <2>3, <2>5, <2>6, <2>7, <2>8 DEF TotalsAgree
<1> QED  BY <1>1, ReportsInductive, PTL

-----------------------------------------------------------------------------
Staging(q) == pc[q] \in {"tag", "create", "insert"}

(* The tags of the row that have been looked at.                           *)
LookedUp(raw, n) == {Norm[raw[j]] : j \in {i \in 1..Len(raw) : i < n}} \ {""}
Looked(q) == LookedUp(RawTags(q), nth[q])

Staged(q) ==
  Staging(q) =>
    /\ ~ broken[q] /\ ~ Rows[q][row[q]].bad
    /\ nth[q] \in 1..(Len(RawTags(q)) + 1)
    /\ At(q, "create") => nth[q] <= Len(RawTags(q)) /\ Tag(q) \notin known[q] \union {""}
    /\ At(q, "insert") => nth[q] = Len(RawTags(q)) + 1
    /\ objs[q] = Looked(q)
    /\ again[q] \subseteq objs[q]
    /\ objs[q] \subseteq DOMAIN tags \union mine[q] \union again[q]

Drafted(q) ==
  \A d \in drafts[q] :
    /\ d.by = q /\ d.row \in counted[q]
    /\ d.tags = TagsOf(q, d.row) /\ d.tags \subseteq DOMAIN tags \union mine[q]

(* The rows a request is through with.                                     *)
Past(q) == IF At(q, "idle") THEN {}
           ELSE IF At(q, "row") \/ Staging(q) THEN {i \in Numbers(q) : i < row[q]}
           ELSE Numbers(q)

Sane(q) == ~ broken[q] /\ ~ At(q, "failed")

Accounted(q) ==
  Sane(q) => /\ errors[q] = {i \in Past(q) : Rows[q][i].bad}
             /\ counted[q] = Past(q) \ errors[q]

DraftRows(q) == {d.row : d \in drafts[q]}

(* The row whose tag somebody else made.                                   *)
LostBefore(q, k) ==
  /\ k \in counted[q] \/ (k = row[q] /\ Staging(q))
  /\ DraftRows(q) = {i \in counted[q] : i >= k}
  /\ \E n \in TagsOf(q, k) \ known[q] : n \in DOMAIN tags /\ tags[n] # q

Left(q) ==
  Sane(q) => DraftRows(q) = counted[q] \/ \E k \in Numbers(q) : LostBefore(q, k)

Begun(q) ==
  /\ At(q, "idle") => ~ broken[q] /\ row[q] = 1 /\ drafts[q] = {}
                      /\ counted[q] = {} /\ errors[q] = {}
  /\ ~ At(q, "idle") => known[q] \subseteq DOMAIN tags
  /\ At(q, "answered") => ~ broken[q] /\ mine[q] \subseteq DOMAIN tags

Stores(q) == {c \in cases : c.by = q} = IF At(q, "answered") THEN drafts[q] ELSE {}

SoundAt(q) == /\ Staged(q) /\ Drafted(q) /\ Accounted(q) /\ Left(q)
              /\ Begun(q) /\ Stores(q)

(* Committed tags were made by requests that have answered.                *)
Makers == \A n \in DOMAIN tags : At(tags[n], "answered")

Sound == TypeOK /\ Makers /\ \A q \in Requests : SoundAt(q)

-----------------------------------------------------------------------------
LEMMA RowsAreTyped ==
  ASSUME NEW q \in Requests
  PROVE  /\ Len(Rows[q]) \in Nat \ {0} /\ 1 \in Numbers(q)
         /\ \A i \in Numbers(q) :
              /\ Rows[q][i].bad \in BOOLEAN /\ Rows[q][i].tags \in Seq(DOMAIN Norm)
              /\ Len(Rows[q][i].tags) \in Nat
              /\ DOMAIN Rows[q][i].tags = 1..Len(Rows[q][i].tags)
              /\ \A j \in 1..Len(Rows[q][i].tags) : Rows[q][i].tags[j] \in DOMAIN Norm
  <1> DEFINE Wish == [tags : Seq(DOMAIN Norm), bad : BOOLEAN]
  <1>1. Rows[q] \in Seq(Wish) /\ Rows[q] # <<>>
    BY CaseImportAssumption
  <1> HIDE DEF Wish
  <1>2. Len(Rows[q]) \in Nat \ {0} /\ \A i \in Numbers(q) : Rows[q][i] \in Wish
    BY <1>1 DEF Numbers
  <1>3. \A w \in Wish : w.bad \in BOOLEAN /\ w.tags \in Seq(DOMAIN Norm)
    BY DEF Wish
  <1>4. \A s \in Seq(DOMAIN Norm) : /\ Len(s) \in Nat /\ DOMAIN s = 1..Len(s)
                                    /\ \A j \in 1..Len(s) : s[j] \in DOMAIN Norm
    OBVIOUS
  <1> QED  BY <1>2, <1>3, <1>4 DEF Numbers

LEMMA TagsAreNames ==
  ASSUME NEW q \in Requests, NEW i \in Numbers(q)
  PROVE  /\ TagsOf(q, i) = {Norm[Rows[q][i].tags[j]] : j \in 1..Len(Rows[q][i].tags)} \ {""}
         /\ TagsOf(q, i) \subseteq Names
         /\ \A j \in 1..Len(Rows[q][i].tags) : Norm[Rows[q][i].tags[j]] \in Names \union {""}
  <1> DEFINE S == Rows[q][i].tags
  <1>1. DOMAIN S = 1..Len(S) /\ \A j \in 1..Len(S) : S[j] \in DOMAIN Norm
    BY RowsAreTyped
  <1>2. TagsOf(q, i) = {Norm[x] : x \in {S[j] : j \in DOMAIN S}} \ {""}
    BY DEF TagsOf
  <1> HIDE DEF S
  <1>3. {Norm[x] : x \in {S[j] : j \in DOMAIN S}} = {Norm[S[j]] : j \in 1..Len(S)}
    BY <1>1
  <1>4. \A j \in 1..Len(S) : Norm[S[j]] \in Names \union {""}
    BY <1>1 DEF Names
  <1>5. /\ TagsOf(q, i) = {Norm[S[j]] : j \in 1..Len(S)} \ {""}
        /\ TagsOf(q, i) \subseteq Names
    BY <1>2, <1>3, <1>4
  <1> QED  BY <1>4, <1>5 DEF S

(* The session of one request; the others keep theirs.                     *)
States == {"idle", "row", "tag", "create", "insert", "commit", "answered", "failed"}

SessionTyped(q) ==
  /\ pc[q] \in States /\ row[q] \in Numbers(q) /\ nth[q] \in Nat \ {0}
  /\ objs[q] \subseteq Names /\ again[q] \subseteq Names /\ mine[q] \subseteq Names
  /\ drafts[q] \subseteq Case
  /\ counted[q] \subseteq Numbers(q) /\ errors[q] \subseteq Numbers(q)
  /\ broken[q] \in BOOLEAN /\ known[q] \subseteq Names

SharedTyped ==
  /\ DOMAIN tags \subseteq Names /\ tags \in [DOMAIN tags -> Requests]
  /\ cases \subseteq Case

Functions ==
  /\ pc = [q \in Requests |-> pc[q]] /\ row = [q \in Requests |-> row[q]]
  /\ nth = [q \in Requests |-> nth[q]] /\ objs = [q \in Requests |-> objs[q]]
  /\ again = [q \in Requests |-> again[q]] /\ mine = [q \in Requests |-> mine[q]]
  /\ drafts = [q \in Requests |-> drafts[q]] /\ counted = [q \in Requests |-> counted[q]]
  /\ errors = [q \in Requests |-> errors[q]] /\ broken = [q \in Requests |-> broken[q]]
  /\ known = [q \in Requests |-> known[q]]

LEMMA TypedParts ==
  TypeOK <=> SharedTyped /\ Functions /\ \A q \in Requests : SessionTyped(q)
  <1>1. ASSUME TypeOK PROVE SharedTyped /\ Functions
    BY <1>1 DEF TypeOK, SharedTyped, Functions
  <1>2. ASSUME TypeOK PROVE \A q \in Requests : SessionTyped(q)
    BY <1>2 DEF TypeOK, SessionTyped, States
  <1>3. ASSUME SharedTyped, Functions, \A q \in Requests : SessionTyped(q)
        PROVE  TypeOK
    <2>1. \A q \in Requests : Numbers(q) \subseteq Nat
      BY RowsAreTyped DEF Numbers
    <2>2. /\ pc \in [Requests -> States] /\ row \in [Requests -> Nat]
          /\ nth \in [Requests -> Nat \ {0}]
      BY <1>3, <2>1 DEF Functions, SessionTyped
    <2>3. /\ objs \in [Requests -> SUBSET Names] /\ again \in [Requests -> SUBSET Names]
          /\ mine \in [Requests -> SUBSET Names] /\ known \in [Requests -> SUBSET Names]
      BY <1>3 DEF Functions, SessionTyped
    <2>4. drafts \in [Requests -> SUBSET Case] /\ broken \in [Requests -> BOOLEAN]
      BY <1>3 DEF Functions, SessionTyped
    <2>5. \A q \in Requests : counted[q] \subseteq Nat /\ errors[q] \subseteq Nat
      BY <1>3, <2>1 DEF SessionTyped
    <2>6. counted \in [Requests -> SUBSET Nat] /\ errors \in [Requests -> SUBSET Nat]
      BY <1>3, <2>5 DEF Functions
    <2> QED  BY <1>3, <2>2, <2>3, <2>4, <2>6 DEF TypeOK, SharedTyped, SessionTyped, States
  <1> QED  BY <1>1, <1>2, <1>3

LEMMA InitSound ==
  ASSUME Init
  PROVE  Sound
  <1>1. Functions /\ SharedTyped /\ Makers
    BY DEF Init, Functions, SharedTyped, Makers, Empty
  <1>2. ASSUME NEW q \in Requests PROVE SessionTyped(q) /\ SoundAt(q)
    <2>1. /\ pc[q] = "idle" /\ row[q] = 1 /\ nth[q] = 1 /\ objs[q] = {} /\ again[q] = {}
          /\ mine[q] = {} /\ drafts[q] = {} /\ counted[q] = {} /\ errors[q] = {}
          /\ broken[q] = FALSE /\ known[q] = {} /\ cases = {}
      BY DEF Init
    <2>2. SessionTyped(q)
      <3>1. row[q] \in Numbers(q)
        BY <2>1, RowsAreTyped
      <3>2. nth[q] \in Nat \ {0}
        BY <2>1
      <3> QED  BY <2>1, <3>1, <3>2 DEF SessionTyped, States
    <2>3. Staged(q) /\ Drafted(q) /\ Accounted(q) /\ Begun(q) /\ Stores(q)
      BY <2>1 DEF Staged, Staging, Drafted, Accounted, Past, At, Begun, Stores
    <2>4. Left(q)
      BY <2>1 DEF Left, DraftRows
    <2> QED  BY <2>2, <2>3, <2>4 DEF SoundAt
  <1> QED  BY <1>1, <1>2, TypedParts DEF Sound

-----------------------------------------------------------------------------
Same(r) ==
  /\ pc'[r] = pc[r] /\ row'[r] = row[r] /\ nth'[r] = nth[r] /\ objs'[r] = objs[r]
  /\ again'[r] = again[r] /\ mine'[r] = mine[r] /\ drafts'[r] = drafts[r]
  /\ counted'[r] = counted[r] /\ errors'[r] = errors[r] /\ broken'[r] = broken[r]
  /\ known'[r] = known[r]

(* A step of q changes its session, and tags and cases at its commit.      *)
Only(q) == Functions' /\ \A r \in Requests \ {q} : Same(r)

Grows(q) ==
  /\ DOMAIN tags \subseteq DOMAIN tags' /\ \A n \in DOMAIN tags : tags'[n] = tags[n]
  /\ cases \subseteq cases' /\ \A c \in cases' \ cases : c.by = q

LEMMA OthersSound ==
  ASSUME Sound, NEW q \in Requests, NEW r \in Requests \ {q}, Same(r), Grows(q)
  PROVE  SessionTyped(r)' /\ SoundAt(r)'
  <1>1. SessionTyped(r) /\ SoundAt(r) /\ Same(r)
    BY TypedParts DEF Sound
  <1>2. SessionTyped(r)'
    BY <1>1 DEF SessionTyped, Same
  <1>3. /\ RawTags(r)' = RawTags(r) /\ Tag(r)' = Tag(r) /\ Looked(r)' = Looked(r)
        /\ (Staging(r)' <=> Staging(r)) /\ Past(r)' = Past(r) /\ (Sane(r)' <=> Sane(r))
        /\ DraftRows(r)' = DraftRows(r) /\ \A p : At(r, p)' <=> At(r, p)
    BY <1>1 DEF Same, RawTags, Tag, Looked, Staging, Past, Sane, DraftRows, At
  <1>4. Staged(r)'
    BY <1>1, <1>3 DEF SoundAt, Staged, Same, Grows
  <1>5. Drafted(r)'
    BY <1>1 DEF SoundAt, Drafted, Same, Grows
  <1>6. Accounted(r)' /\ Begun(r)'
    BY <1>1, <1>3 DEF SoundAt, Accounted, Begun, Same, Grows
  <1>7. \A k \in Numbers(r) : LostBefore(r, k) => LostBefore(r, k)'
    BY <1>1, <1>3 DEF LostBefore, Same, Grows
  <1>8. Left(r)'
    BY <1>1, <1>3, <1>7 DEF SoundAt, Left, Same
  <1>9. Stores(r)'
    BY <1>1, <1>3 DEF SoundAt, Stores, Same, Grows
  <1> QED  BY <1>2, <1>4, <1>5, <1>6, <1>8, <1>9 DEF SoundAt

(* What it takes to show that a step of q keeps the whole.                 *)
LEMMA PartsSound ==
  SharedTyped' /\ Functions' /\ (\A q \in Requests : SessionTyped(q) /\ SoundAt(q))'
    /\ Makers' => Sound'
  <1>1. SharedTyped /\ Functions /\ (\A q \in Requests : SessionTyped(q) /\ SoundAt(q))
          /\ Makers => Sound
    BY TypedParts DEF Sound
  <1> QED  BY <1>1, PTL

LEMMA KeepsSound ==
  ASSUME Sound, NEW q \in Requests, Only(q), SessionTyped(q)', SoundAt(q)',
         UNCHANGED <<tags, cases>>, ~ At(q, "answered")
  PROVE  Sound'
  <1>1. SharedTyped /\ Grows(q)
    BY TypedParts DEF Sound, SharedTyped, Grows
  <1>2. SharedTyped'
    BY <1>1 DEF SharedTyped
  <1>3. Makers'
    BY <1>1 DEF Sound, Makers, Only, Same, At, SharedTyped
  <1>4. \A r \in Requests : SessionTyped(r)' /\ SoundAt(r)'
    BY <1>1, OthersSound DEF Only
  <1> QED  BY <1>2, <1>3, <1>4, PartsSound DEF Only

-----------------------------------------------------------------------------
(* A row ends: it is counted or an error, and the next one follows.        *)
LEMMA RowEndsOnly ==
  ASSUME TypeOK, NEW q \in Requests, NEW ok \in BOOLEAN, RowEnds(q, ok),
         mine' = [mine EXCEPT ![q] = mine'[q]], drafts' = [drafts EXCEPT ![q] = drafts'[q]],
         broken' = [broken EXCEPT ![q] = broken'[q]],
         UNCHANGED <<nth, objs, again, known>>
  PROVE  /\ Only(q)
         /\ nth'[q] = nth[q] /\ objs'[q] = objs[q] /\ again'[q] = again[q] /\ known'[q] = known[q]
         /\ counted'[q] = IF ok THEN counted[q] \union {row[q]} ELSE counted[q]
         /\ errors'[q] = IF ok THEN errors[q] ELSE errors[q] \union {row[q]}
         /\ \/ /\ q \in Imports \/ ok
               /\ \/ row[q] = Len(Rows[q]) /\ pc'[q] = "commit" /\ row'[q] = row[q]
                  \/ row[q] # Len(Rows[q]) /\ pc'[q] = "row" /\ row'[q] = row[q] + 1
            \/ ~ ok /\ pc'[q] = "failed" /\ row'[q] = row[q]
  <1>1. Functions
    BY TypedParts
  <1>2. /\ counted' = [counted EXCEPT ![q] = IF ok THEN counted[q] \union {row[q]} ELSE counted[q]]
        /\ errors' = [errors EXCEPT ![q] = IF ok THEN errors[q] ELSE errors[q] \union {row[q]}]
    BY DEF RowEnds, Counted
  <1>3. CASE q \in Imports \/ ok
    <2>1. /\ pc' = [pc EXCEPT ![q] = IF row[q] = Len(Rows[q]) THEN "commit" ELSE "row"]
          /\ row' = [row EXCEPT ![q] = IF row[q] = Len(Rows[q]) THEN row[q] ELSE row[q] + 1]
      BY <1>3 DEF RowEnds, Advance, Goto
    <2> QED  BY <1>1, <1>2, <1>3, <2>1 DEF Only, Same, Functions
  <1>4. CASE ~ (q \in Imports \/ ok)
    <2>1. pc' = [pc EXCEPT ![q] = "failed"] /\ UNCHANGED row
      BY <1>4 DEF RowEnds, Goto
    <2> QED  BY <1>1, <1>2, <1>4, <2>1 DEF Only, Same, Functions
  <1> QED  BY <1>3, <1>4

LEMMA RowEndsAccounted ==
  ASSUME Sound, NEW q \in Requests, NEW ok \in BOOLEAN, RowEnds(q, ok),
         mine' = [mine EXCEPT ![q] = mine'[q]], drafts' = [drafts EXCEPT ![q] = drafts'[q]],
         broken' = [broken EXCEPT ![q] = broken'[q]],
         UNCHANGED <<nth, objs, again, known>>,
         pc[q] \in {"row", "tag", "create", "insert"},
         broken'[q] \in BOOLEAN,
         ~ broken'[q] => ~ broken[q] /\ (ok <=> ~ Rows[q][row[q]].bad)
  PROVE  /\ Accounted(q)' /\ Staged(q)' /\ pc'[q] \in {"row", "commit", "failed"}
         /\ row'[q] \in Numbers(q)
         /\ counted'[q] \subseteq Numbers(q) /\ errors'[q] \subseteq Numbers(q)
         /\ counted[q] \subseteq counted'[q]
  <1>1. /\ SessionTyped(q) /\ Accounted(q) /\ TypeOK
        /\ Len(Rows[q]) \in Nat \ {0} /\ row[q] \in 1..Len(Rows[q])
        /\ \A i \in 1..Len(Rows[q]) : Rows[q][i].bad \in BOOLEAN
    BY TypedParts, RowsAreTyped DEF Sound, SoundAt, SessionTyped, Numbers
  <1>2. /\ counted'[q] = IF ok THEN counted[q] \union {row[q]} ELSE counted[q]
        /\ errors'[q] = IF ok THEN errors[q] ELSE errors[q] \union {row[q]}
        /\ \/ row[q] = Len(Rows[q]) /\ pc'[q] = "commit" /\ row'[q] = row[q]
           \/ row[q] # Len(Rows[q]) /\ pc'[q] = "row" /\ row'[q] = row[q] + 1
           \/ ~ ok /\ pc'[q] = "failed" /\ row'[q] = row[q]
    BY <1>1, RowEndsOnly
  <1>3. row'[q] \in Numbers(q) /\ pc'[q] \in {"row", "commit", "failed"}
    BY <1>1, <1>2 DEF Numbers
  <1>4. Past(q) = {i \in Numbers(q) : i < row[q]}
    BY DEF Past, At, Staging
  <1>5. pc'[q] # "failed" => Past(q)' = Past(q) \union {row[q]} /\ row[q] \notin Past(q)
    <2>1. CASE pc'[q] = "row" /\ row'[q] = row[q] + 1
      <3>1. Past(q)' = {i \in Numbers(q) : i < row[q] + 1}
        BY <2>1 DEF Past, At
      <3> QED  BY <1>1, <1>4, <3>1 DEF Numbers
    <2>2. CASE pc'[q] = "commit" /\ row[q] = Len(Rows[q])
      <3>1. Past(q)' = Numbers(q)
        BY <2>2 DEF Past, At, Staging
      <3> QED  BY <1>1, <1>4, <2>2, <3>1 DEF Numbers
    <2> QED  BY <1>2, <2>1, <2>2
  <1>6. ASSUME Sane(q)'
        PROVE  /\ errors'[q] = {i \in Past(q)' : Rows[q][i].bad}
               /\ counted'[q] = Past(q)' \ errors'[q]
    <2>1. /\ Sane(q) /\ pc'[q] # "failed" /\ (ok <=> ~ Rows[q][row[q]].bad)
      BY <1>6 DEF Sane, At
    <2>2. /\ errors[q] = {i \in Past(q) : Rows[q][i].bad} /\ counted[q] = Past(q) \ errors[q]
          /\ Past(q)' = Past(q) \union {row[q]} /\ row[q] \notin Past(q)
      BY <1>1, <1>5, <2>1 DEF Accounted
    <2> QED  BY <1>2, <2>1, <2>2
  <1>7. Accounted(q)'
    BY <1>6 DEF Accounted
  <1>8. Staged(q)'
    BY <1>3 DEF Staged, Staging
  <1>9. counted'[q] \subseteq Numbers(q) /\ errors'[q] \subseteq Numbers(q)
    BY <1>1, <1>2 DEF SessionTyped
  <1> QED  BY <1>2, <1>3, <1>7, <1>8, <1>9

\* A session that stores nothing.
LEMMA NothingLeft ==
  ASSUME Sound, NEW q \in Requests, broken'[q] \/ pc'[q] = "failed"
  PROVE  Left(q)' /\ Accounted(q)'
  BY DEF Left, Accounted, Sane, At

LEMMA FlushFailsSound ==
  ASSUME Sound, NEW q \in Requests, FlushFails(q), pc[q] \in {"create", "insert"},
         UNCHANGED <<tags, cases, nth, objs, again, known>>
  PROVE  Sound'
  <1>1. /\ SessionTyped(q) /\ SoundAt(q) /\ TypeOK /\ Functions
    BY TypedParts DEF Sound
  <1>2. mine'[q] = {} /\ drafts'[q] = {} /\ broken'[q] = TRUE /\ RowEnds(q, FALSE)
    BY <1>1 DEF FlushFails, Functions
  <1>3. /\ mine' = [mine EXCEPT ![q] = mine'[q]] /\ drafts' = [drafts EXCEPT ![q] = drafts'[q]]
        /\ broken' = [broken EXCEPT ![q] = broken'[q]]
    BY <1>2 DEF FlushFails
  <1>4. /\ Only(q) /\ nth'[q] = nth[q] /\ objs'[q] = objs[q] /\ again'[q] = again[q]
        /\ known'[q] = known[q]
    BY <1>1, <1>2, <1>3, RowEndsOnly
  <1>5. /\ Accounted(q)' /\ Staged(q)' /\ pc'[q] \in {"row", "commit", "failed"}
        /\ row'[q] \in Numbers(q)
        /\ counted'[q] \subseteq Numbers(q) /\ errors'[q] \subseteq Numbers(q)
    BY <1>2, <1>3, RowEndsAccounted
  <1>6. SessionTyped(q)'
    BY <1>1, <1>2, <1>4, <1>5 DEF SessionTyped, States
  <1>7. Drafted(q)' /\ Left(q)'
    BY <1>2, NothingLeft DEF Drafted
  <1>8. Begun(q)' /\ Stores(q)'
    BY <1>1, <1>4, <1>5 DEF SoundAt, Begun, Stores, At
  <1>9. ~ At(q, "answered")
    BY DEF At
  <1> QED  BY <1>4, <1>5, <1>6, <1>7, <1>8, <1>9, KeepsSound DEF SoundAt

LEMMA OneMore ==
  ASSUME NEW raw, Len(raw) \in Nat, NEW n \in 1..Len(raw)
  PROVE  LookedUp(raw, n + 1) = LookedUp(raw, n) \union ({Norm[raw[n]]} \ {""})
  <1>1. {i \in 1..Len(raw) : i < n + 1} = {i \in 1..Len(raw) : i < n} \union {n}
    OBVIOUS
  <1> QED  BY <1>1 DEF LookedUp

LEMMA AllLooked ==
  ASSUME NEW raw, Len(raw) \in Nat
  PROVE  /\ LookedUp(raw, Len(raw) + 1) = {Norm[raw[j]] : j \in 1..Len(raw)} \ {""}
         /\ LookedUp(raw, 1) = {}
  <1>1. /\ {i \in 1..Len(raw) : i < Len(raw) + 1} = 1..Len(raw)
        /\ {i \in 1..Len(raw) : i < 1} = {}
    OBVIOUS
  <1> QED  BY <1>1 DEF LookedUp

LEMMA StartRowSound ==
  ASSUME Sound, NEW q \in Requests, StartRow(q)
  PROVE  Sound'
  <1>1. /\ SessionTyped(q) /\ SoundAt(q) /\ TypeOK /\ Functions /\ pc[q] = "row"
        /\ UNCHANGED <<tags, cases, mine, drafts, broken, known>> /\ ~ At(q, "answered")
    BY TypedParts DEF Sound, StartRow, At
  <1>2. CASE broken[q] \/ Rows[q][row[q]].bad
    <2>1. RowEnds(q, FALSE) /\ UNCHANGED <<nth, objs, again>>
      BY <1>2 DEF StartRow
    <2>2. /\ mine' = [mine EXCEPT ![q] = mine'[q]] /\ drafts' = [drafts EXCEPT ![q] = drafts'[q]]
          /\ broken' = [broken EXCEPT ![q] = broken'[q]] /\ broken'[q] \in BOOLEAN
      BY <1>1 DEF Functions, SessionTyped
    <2>3. /\ Only(q) /\ nth'[q] = nth[q] /\ objs'[q] = objs[q] /\ again'[q] = again[q]
          /\ known'[q] = known[q] /\ counted'[q] = counted[q]
      BY <1>1, <2>1, <2>2, RowEndsOnly
    <2>4. /\ Accounted(q)' /\ Staged(q)' /\ pc'[q] \in {"row", "commit", "failed"}
          /\ row'[q] \in Numbers(q)
          /\ counted'[q] \subseteq Numbers(q) /\ errors'[q] \subseteq Numbers(q)
      BY <1>1, <1>2, <2>1, <2>2, RowEndsAccounted
    <2>5. SessionTyped(q)'
      BY <1>1, <2>3, <2>4 DEF SessionTyped, States
    <2>6. Drafted(q)' /\ Begun(q)' /\ Stores(q)'
      BY <1>1, <2>3, <2>4 DEF SoundAt, Drafted, Begun, Stores, At
    <2>7. DraftRows(q)' = DraftRows(q) /\ (Sane(q)' => Sane(q)) /\ ~ Staging(q)
      BY <1>1 DEF DraftRows, Sane, At, Staging
    <2>8. \A k \in Numbers(q) : LostBefore(q, k) => LostBefore(q, k)'
      BY <1>1, <2>3, <2>7 DEF LostBefore
    <2>9. Left(q)'
      BY <1>1, <2>3, <2>7, <2>8 DEF SoundAt, Left
    <2> QED  BY <1>1, <2>3, <2>4, <2>5, <2>6, <2>9, KeepsSound DEF SoundAt
  <1>3. CASE ~ broken[q] /\ ~ Rows[q][row[q]].bad
    <2>1. /\ Only(q) /\ pc'[q] = "tag" /\ nth'[q] = 1 /\ objs'[q] = {} /\ again'[q] = {}
          /\ UNCHANGED <<row, counted, errors>>
      BY <1>1, <1>3 DEF StartRow, Goto, Only, Same, Functions
    <2>2. SessionTyped(q)'
      <3>1. 1 \in Nat \ {0}
        OBVIOUS
      <3> QED  BY <1>1, <2>1, <3>1 DEF SessionTyped, States
    <2>3. Staged(q)'
      <3>1. Len(RawTags(q)) \in Nat /\ RawTags(q)' = RawTags(q)
        BY <1>1, <2>1, RowsAreTyped DEF SessionTyped, RawTags
      <3>2. Looked(q)' = {}
        BY <2>1, <3>1, AllLooked DEF Looked
      <3>3. nth'[q] \in 1..(Len(RawTags(q)) + 1)
        BY <2>1, <3>1
      <3> QED  BY <1>1, <1>3, <2>1, <3>2, <3>1, <3>3 DEF Staged, At
    <2>4. /\ Past(q)' = Past(q) /\ (Sane(q)' <=> Sane(q)) /\ DraftRows(q)' = DraftRows(q)
          /\ Staging(q)'
      BY <1>1, <2>1 DEF Past, Sane, DraftRows, At, Staging
    <2>5. Drafted(q)' /\ Begun(q)' /\ Stores(q)' /\ Accounted(q)'
      BY <1>1, <2>1, <2>4 DEF SoundAt, Drafted, Begun, Stores, At, Accounted
    <2>6. \A k \in Numbers(q) : LostBefore(q, k) => LostBefore(q, k)'
      BY <1>1, <2>1, <2>4 DEF LostBefore
    <2>7. Left(q)'
      BY <1>1, <2>1, <2>4, <2>6 DEF SoundAt, Left
    <2> QED  BY <1>1, <2>1, <2>2, <2>3, <2>5, <2>7, KeepsSound DEF SoundAt
  <1> QED  BY <1>2, <1>3

-----------------------------------------------------------------------------
LEMMA Intervals ==
  ASSUME NEW l \in Nat, NEW n \in 1..(l + 1)
  PROVE  /\ n <= l => /\ n \in 1..l /\ n + 1 \in 1..(l + 1) /\ n + 1 \in Nat \ {0}
         /\ n > l <=> n = l + 1
         /\ n > l <=> ~ n <= l
  OBVIOUS

\* The tags looked at, one more, and all of them.
LEMMA LookedAtAll ==
  ASSUME NEW q \in Requests, SessionTyped(q), Staging(q), Staged(q)
  PROVE  /\ RawTags(q) = Rows[q][row[q]].tags /\ Len(RawTags(q)) \in Nat
         /\ nth[q] <= Len(RawTags(q)) =>
              /\ nth[q] \in 1..Len(RawTags(q)) /\ Tag(q) \in Names \union {""}
              /\ Tag(q) \in TagsOf(q, row[q]) \union {""}
              /\ LookedUp(RawTags(q), nth[q] + 1) = Looked(q) \union ({Tag(q)} \ {""})
         /\ nth[q] = Len(RawTags(q)) + 1 => Looked(q) = TagsOf(q, row[q])
  <1> DEFINE N == Len(RawTags(q))
  <1>1. RawTags(q) = Rows[q][row[q]].tags /\ row[q] \in Numbers(q)
    BY DEF RawTags, SessionTyped
  <1>2. /\ N \in Nat
        /\ TagsOf(q, row[q]) = {Norm[RawTags(q)[j]] : j \in 1..N} \ {""}
        /\ \A j \in 1..N : Norm[RawTags(q)[j]] \in Names \union {""}
    BY <1>1, RowsAreTyped, TagsAreNames DEF RawTags
  <1>3. Tag(q) = Norm[RawTags(q)[nth[q]]] /\ nth[q] \in 1..(N + 1)
    BY <1>1 DEF Tag, Staged
  <1>4. ASSUME nth[q] <= N
        PROVE  /\ nth[q] \in 1..N
               /\ LookedUp(RawTags(q), nth[q] + 1) = Looked(q) \union ({Tag(q)} \ {""})
    <2>1. nth[q] \in 1..N
      BY <1>2, <1>3, <1>4, Intervals
    <2> QED  BY <1>2, <1>3, <2>1, OneMore DEF Looked
  <1>5. nth[q] = N + 1 => Looked(q) = TagsOf(q, row[q])
    BY <1>2, AllLooked DEF Looked
  <1>6. nth[q] <= N => Tag(q) \in Names \union {""} /\ Tag(q) \in TagsOf(q, row[q]) \union {""}
    BY <1>2, <1>3, <1>4
  <1> QED  BY <1>1, <1>2, <1>4, <1>5, <1>6

\* What a step keeps that only goes on in a row.
LEMMA GoesOn ==
  ASSUME Sound, NEW q \in Requests, Staging(q), Staging(q)',
         row'[q] = row[q], counted'[q] = counted[q], errors'[q] = errors[q],
         broken'[q] = broken[q], known'[q] = known[q], UNCHANGED <<tags, cases>>
  PROVE  /\ Accounted(q)' /\ Begun(q)' /\ Stores(q)'
         /\ drafts'[q] = drafts[q] => Left(q)'
  <1>1. SoundAt(q) /\ Past(q)' = Past(q) /\ (Sane(q)' <=> Sane(q))
    BY DEF Sound, Past, Sane, At, Staging
  <1>2. Accounted(q)' /\ Begun(q)' /\ Stores(q)'
    BY <1>1 DEF SoundAt, Accounted, Begun, Stores, At, Staging
  <1>3. ASSUME drafts'[q] = drafts[q]
        PROVE  Left(q)'
    <2>1. DraftRows(q)' = DraftRows(q)
      BY <1>3 DEF DraftRows
    <2>2. \A k \in Numbers(q) : LostBefore(q, k) => LostBefore(q, k)'
      BY <2>1 DEF LostBefore
    <2> QED  BY <1>1, <2>1, <2>2 DEF SoundAt, Left
  <1> QED  BY <1>2, <1>3

LEMMA FindTagSound ==
  ASSUME Sound, NEW q \in Requests, FindTag(q)
  PROVE  Sound'
  <1>1. /\ SessionTyped(q) /\ SoundAt(q) /\ TypeOK /\ Functions /\ pc[q] = "tag"
        /\ UNCHANGED <<tags, cases, row, again, mine, drafts, counted, errors, broken, known>>
        /\ ~ At(q, "answered") /\ Staging(q) /\ Staged(q)
    BY TypedParts DEF Sound, SoundAt, FindTag, At, Staging
  <1> DEFINE N == Len(RawTags(q))
  <1>2. N \in Nat /\ nth[q] \in 1..(N + 1) /\ objs[q] = Looked(q)
    BY <1>1, LookedAtAll DEF Staged
  <1>3. RawTags(q)' = RawTags(q) /\ N' = N
    BY <1>1 DEF RawTags
  <1>4. nth[q] <= N => Looked(q) \union ({Tag(q)} \ {""})
                         = LookedUp(RawTags(q), nth[q] + 1)
    BY <1>1, LookedAtAll
  <1>5. nth[q] <= N => Tag(q) \in Names \union {""}
    BY <1>1, LookedAtAll
  <1>6. known[q] \subseteq DOMAIN tags
    BY <1>1 DEF SoundAt, Begun, At
  <1>7. CASE nth[q] > N
    <2>1. pc' = [pc EXCEPT ![q] = "insert"] /\ UNCHANGED <<nth, objs>>
      BY <1>7 DEF FindTag, Goto
    <2>2. Only(q) /\ pc'[q] = "insert"
      BY <1>1, <2>1 DEF Only, Same, Functions
    <2>3. Looked(q)' = Looked(q)
      BY <1>3, <2>1 DEF Looked, LookedUp
    <2>4. nth[q] = N + 1
      BY <1>2, <1>7, Intervals
    <2>5. Staged(q)' /\ Staging(q)'
      BY <1>1, <1>2, <1>3, <2>1, <2>2, <2>4, <2>3 DEF Staged, Staging, At
    <2>6. SessionTyped(q)' /\ Drafted(q)'
      BY <1>1, <2>1, <2>2 DEF SessionTyped, States, SoundAt, Drafted
    <2> QED  BY <1>1, <2>2, <2>5, <2>6, GoesOn, KeepsSound DEF SoundAt
  <1>8. CASE nth[q] <= N /\ (Tag(q) \in objs[q] \union {""}
                                           \/ Tag(q) \in DOMAIN tags \union mine[q])
    <2>1. /\ nth' = [nth EXCEPT ![q] = nth[q] + 1] /\ UNCHANGED pc
          /\ \/ Tag(q) \in objs[q] \union {""} /\ UNCHANGED objs
             \/ /\ Tag(q) \notin objs[q] \union {""} /\ Tag(q) \in DOMAIN tags \union mine[q]
                /\ objs' = [objs EXCEPT ![q] = objs[q] \union {Tag(q)}]
      <3>1. ~ (nth[q] > N)
        BY <1>2, <1>8, Intervals
      <3> QED  BY <1>8, <3>1 DEF FindTag
    <2>2. /\ Only(q) /\ pc'[q] = "tag" /\ nth'[q] = nth[q] + 1
          /\ \/ Tag(q) \in objs[q] \union {""} /\ objs'[q] = objs[q]
             \/ /\ Tag(q) \notin objs[q] \union {""} /\ Tag(q) \in DOMAIN tags \union mine[q]
                /\ objs'[q] = objs[q] \union {Tag(q)}
      BY <1>1, <2>1 DEF Only, Same, Functions
    <2>3. /\ objs'[q] = objs[q] \union ({Tag(q)} \ {""})
          /\ objs'[q] \ objs[q] \subseteq DOMAIN tags \union mine[q]
      BY <2>2
    <2>4. nth'[q] = nth[q] + 1
      BY <2>2
    <2>5. Looked(q)' = objs'[q]
      <3>1. Looked(q)' = LookedUp(RawTags(q), nth[q] + 1)
        BY <1>3, <2>4 DEF Looked, LookedUp
      <3> QED  BY <1>2, <1>8, <1>4, <2>3, <3>1
    <2>6. nth'[q] \in 1..(N + 1) /\ nth'[q] \in Nat \ {0}
      <3>1. nth[q] <= N
        BY <1>8
      <3> QED  BY <1>2, <2>4, <3>1, Intervals
    <2>7. Staged(q)' /\ Staging(q)'
      <3>1. /\ again'[q] \subseteq objs'[q]
            /\ objs'[q] \subseteq DOMAIN tags' \union mine'[q] \union again'[q]
        BY <1>1, <2>3 DEF Staged
      <3> QED  BY <1>1, <1>3, <2>2, <2>5, <2>6, <3>1 DEF Staged, Staging, At
    <2>8. objs'[q] \subseteq Names
      BY <1>1, <1>8, <1>5, <2>3 DEF SessionTyped
    <2>9. SessionTyped(q)' /\ Drafted(q)'
      BY <1>1, <2>2, <2>6, <2>8 DEF SessionTyped, States, SoundAt, Drafted
    <2> QED  BY <1>1, <2>2, <2>7, <2>9, GoesOn, KeepsSound DEF SoundAt
  <1>9. CASE nth[q] <= N /\ Tag(q) \notin objs[q] \union {""}
             /\ Tag(q) \notin DOMAIN tags \union mine[q]
    <2>1. pc' = [pc EXCEPT ![q] = "create"] /\ UNCHANGED <<nth, objs>>
      <3>1. ~ (nth[q] > N)
        BY <1>2, <1>9, Intervals
      <3> QED  BY <1>9, <3>1 DEF FindTag, Goto
    <2>2. Only(q) /\ pc'[q] = "create"
      BY <1>1, <2>1 DEF Only, Same, Functions
    <2>3. Looked(q)' = Looked(q) /\ Tag(q)' = Tag(q)
      BY <1>3, <2>1 DEF Looked, Tag
    <2>4. Staged(q)' /\ Staging(q)'
      BY <1>1, <1>2, <1>6, <1>3, <1>9, <2>1, <2>2, <2>3 DEF Staged, Staging, At
    <2>5. SessionTyped(q)' /\ Drafted(q)'
      BY <1>1, <2>1, <2>2 DEF SessionTyped, States, SoundAt, Drafted
    <2> QED  BY <1>1, <2>2, <2>4, <2>5, GoesOn, KeepsSound DEF SoundAt
  <1>10. nth[q] > N \/ nth[q] <= N
    BY <1>2, Intervals
  <1> QED  BY <1>7, <1>8, <1>9, <1>10

LEMMA CreateTagSound ==
  ASSUME Sound, NEW q \in Requests, CreateTag(q)
  PROVE  Sound'
  <1>1. /\ SessionTyped(q) /\ SoundAt(q) /\ TypeOK /\ Functions /\ pc[q] = "create"
        /\ UNCHANGED <<tags, cases, row, counted, errors, broken, known>>
        /\ ~ At(q, "answered") /\ Staging(q) /\ Staged(q) /\ Drafted(q)
        /\ row[q] \in Numbers(q)
    BY TypedParts DEF Sound, SoundAt, CreateTag, At, Staging, SessionTyped
  <1>2. /\ RawTags(q)' = RawTags(q) /\ Len(RawTags(q)) \in Nat
        /\ nth[q] \in 1..Len(RawTags(q)) /\ objs[q] = Looked(q)
        /\ Tag(q) \in TagsOf(q, row[q]) \ known[q] /\ Tag(q) \in Names
        /\ again[q] \subseteq objs[q] /\ objs[q] \subseteq DOMAIN tags \union mine[q] \union again[q]
    BY <1>1, LookedAtAll DEF RawTags, Staged, At
  <1>3. pc' = [pc EXCEPT ![q] = "tag"] /\ nth' = [nth EXCEPT ![q] = nth[q] + 1]
    BY DEF CreateTag, Goto
  <1>4. pc'[q] = "tag" /\ nth'[q] = nth[q] + 1 /\ Staging(q)'
    BY <1>1, <1>3 DEF Functions, Staging
  <1>5. Looked(q)' = objs[q] \union {Tag(q)}
    <2>1. Looked(q)' = LookedUp(RawTags(q), nth[q] + 1)
      BY <1>2, <1>4 DEF Looked, LookedUp
    <2>2. Tag(q) # "" /\ nth[q] <= Len(RawTags(q))
      BY <1>1 DEF Staged, At
    <2>3. Looked(q)' = Looked(q) \union ({Tag(q)} \ {""})
      BY <1>1, <2>1, <2>2, LookedAtAll
    <2> QED  BY <1>2, <2>2, <2>3
  <1>6. nth'[q] \in 1..(Len(RawTags(q)) + 1) /\ nth'[q] \in Nat \ {0}
    BY <1>2, <1>4, Intervals
  <1>7. CASE Tag(q) \in DOMAIN tags
    <2>1. /\ objs' = [objs EXCEPT ![q] = objs[q] \union {Tag(q)}]
          /\ again' = [again EXCEPT ![q] = again[q] \union (objs[q] \intersect mine[q])]
          /\ mine' = [mine EXCEPT ![q] = {}] /\ drafts' = [drafts EXCEPT ![q] = {}]
      BY <1>7 DEF CreateTag, Kept
    <2>2. /\ Only(q) /\ objs'[q] = objs[q] \union {Tag(q)}
          /\ again'[q] = again[q] \union (objs[q] \intersect mine[q])
          /\ mine'[q] = {} /\ drafts'[q] = {}
      BY <1>1, <1>3, <2>1 DEF Only, Same, Functions
    <2>3. again'[q] \subseteq objs'[q] /\ objs'[q] \subseteq DOMAIN tags \union again'[q]
      BY <1>2, <1>7, <2>2
    <2>4. Staged(q)'
      BY <1>1, <1>2, <1>4, <1>5, <1>6, <2>2, <2>3 DEF Staged, At
    <2>5. SessionTyped(q)' /\ Drafted(q)'
      BY <1>1, <1>2, <1>4, <1>6, <2>2, <2>3 DEF SessionTyped, States, Drafted
    <2>6. Left(q)'
      <3>1. tags[Tag(q)] # q
        BY <1>1, <1>7 DEF Sound, Makers
      <3>2. \A i \in counted[q] : i < row[q]
        <4>1. Sane(q) /\ Past(q) = {i \in Numbers(q) : i < row[q]}
          BY <1>1 DEF Staged, Sane, Past, At, Staging
        <4> QED  BY <1>1, <4>1 DEF SoundAt, Accounted
      <3>3. {i \in counted[q] : i >= row[q]} = {}
        BY <1>1, <3>2 DEF SessionTyped, Numbers
      <3>4. LostBefore(q, row[q])'
        BY <1>1, <1>2, <1>4, <1>7, <2>2, <3>1, <3>3 DEF LostBefore, DraftRows
      <3> QED  BY <1>1, <3>4 DEF Left
    <2> QED  BY <1>1, <1>4, <2>2, <2>4, <2>5, <2>6, GoesOn, KeepsSound DEF SoundAt
  <1>8. CASE Tag(q) \notin DOMAIN tags
    <2>1. /\ objs' = [objs EXCEPT ![q] = objs[q] \union {Tag(q)}]
          /\ mine' = [mine EXCEPT ![q] = mine[q] \union {Tag(q)}]
          /\ UNCHANGED <<again, drafts>>
      BY <1>8 DEF CreateTag
    <2>2. /\ Only(q) /\ objs'[q] = objs[q] \union {Tag(q)}
          /\ mine'[q] = mine[q] \union {Tag(q)}
      BY <1>1, <1>3, <2>1 DEF Only, Same, Functions
    <2>3. again'[q] \subseteq objs'[q] /\ objs'[q] \subseteq DOMAIN tags \union mine'[q] \union again'[q]
      BY <1>2, <2>1, <2>2
    <2>4. Staged(q)'
      BY <1>1, <1>2, <1>4, <1>5, <1>6, <2>2, <2>3 DEF Staged, At
    <2>5. SessionTyped(q)' /\ Drafted(q)'
      BY <1>1, <1>2, <1>4, <1>6, <2>1, <2>2 DEF SessionTyped, States, Drafted
    <2> QED  BY <1>1, <1>4, <2>1, <2>2, <2>4, <2>5, GoesOn, KeepsSound DEF SoundAt
  <1> QED  BY <1>7, <1>8

LEMMA InsertCaseSound ==
  ASSUME Sound, NEW q \in Requests, InsertCase(q)
  PROVE  Sound'
  <1>1. /\ SessionTyped(q) /\ SoundAt(q) /\ TypeOK /\ Functions /\ pc[q] = "insert"
        /\ UNCHANGED <<tags, cases, nth, objs, again, known>>
        /\ ~ At(q, "answered") /\ Staging(q) /\ Staged(q) /\ Drafted(q)
        /\ row[q] \in Numbers(q) /\ Numbers(q) \subseteq Nat
    BY TypedParts DEF Sound, SoundAt, InsertCase, At, Staging, SessionTyped, Numbers
  <1>2. CASE FlushFails(q)
    BY <1>1, <1>2, FlushFailsSound
  <1>3. CASE ~ FlushFails(q)
    <2> DEFINE d == [by |-> q, row |-> row[q], tags |-> objs[q]]
    <2>1. /\ mine' = [mine EXCEPT ![q] = mine[q] \union again[q]]
          /\ drafts' = [drafts EXCEPT ![q] = drafts[q] \union {d}]
          /\ RowEnds(q, TRUE) /\ UNCHANGED broken
      BY <1>3 DEF InsertCase
    <2>2. /\ mine'[q] = mine[q] \union again[q] /\ drafts'[q] = drafts[q] \union {d}
          /\ broken' = [broken EXCEPT ![q] = broken'[q]]
      BY <1>1, <2>1 DEF Functions
    <2>3. mine' = [mine EXCEPT ![q] = mine'[q]] /\ drafts' = [drafts EXCEPT ![q] = drafts'[q]]
      BY <2>1, <2>2
    <2>4. /\ ~ broken[q] /\ ~ Rows[q][row[q]].bad /\ broken'[q] = broken[q]
          /\ broken'[q] \in BOOLEAN /\ Rows[q][row[q]].bad \in BOOLEAN
      BY <1>1, <2>1, RowsAreTyped DEF Staged, SessionTyped
    <2>5. /\ Only(q) /\ nth'[q] = nth[q] /\ objs'[q] = objs[q] /\ again'[q] = again[q]
          /\ known'[q] = known[q] /\ counted'[q] = counted[q] \union {row[q]}
      BY <1>1, <2>1, <2>2, <2>3, RowEndsOnly
    <2>6. /\ Accounted(q)' /\ Staged(q)' /\ pc'[q] \in {"row", "commit", "failed"}
          /\ row'[q] \in Numbers(q)
          /\ counted'[q] \subseteq Numbers(q) /\ errors'[q] \subseteq Numbers(q)
      BY <1>1, <2>1, <2>2, <2>3, <2>4, RowEndsAccounted
    <2>7. objs[q] = TagsOf(q, row[q]) /\ objs[q] \subseteq DOMAIN tags \union mine[q] \union again[q]
      BY <1>1, LookedAtAll DEF Staged, At
    <2>8. d \in Case /\ d.by = q /\ d.row = row[q] /\ d.tags = objs[q]
      BY <1>1 DEF Case, SessionTyped
    <2> HIDE DEF d
    <2>9. SessionTyped(q)'
      BY <1>1, <2>2, <2>4, <2>5, <2>6, <2>8 DEF SessionTyped, States
    <2>10. Drafted(q)'
      <3>1. ASSUME NEW x \in drafts'[q]
            PROVE  /\ x.by = q /\ x.row \in counted'[q] /\ x.tags = TagsOf(q, x.row)
                   /\ x.tags \subseteq DOMAIN tags' \union mine'[q]
        <4>1. CASE x \in drafts[q]
          BY <1>1, <2>2, <2>5, <4>1 DEF Drafted
        <4>2. CASE x = d
          BY <1>1, <2>2, <2>5, <2>7, <2>8, <4>2
        <4> QED  BY <2>2, <3>1, <4>1, <4>2
      <3> QED  BY <3>1 DEF Drafted
    <2>11. DraftRows(q)' = DraftRows(q) \union {row[q]}
      BY <2>2, <2>8 DEF DraftRows
    <2>12. ASSUME NEW k \in Numbers(q), LostBefore(q, k)
           PROVE  LostBefore(q, k)'
      <3>1. k \in counted'[q]
        BY <2>5, <2>12 DEF LostBefore
      <3>2. row[q] >= k
        <4>1. Sane(q) /\ Past(q) = {i \in Numbers(q) : i < row[q]}
          BY <1>1, <2>4 DEF Sane, Past, At, Staging
        <4>2. k \in counted[q] => k < row[q]
          BY <1>1, <4>1 DEF SoundAt, Accounted
        <4> QED  BY <1>1, <2>12, <4>2 DEF LostBefore
      <3>3. DraftRows(q)' = {i \in counted'[q] : i >= k}
        BY <2>5, <2>11, <2>12, <3>2 DEF LostBefore
      <3> QED  BY <1>1, <2>5, <2>12, <3>1, <3>3 DEF LostBefore
    <2>13. Left(q)'
      <3>1. Sane(q)
        BY <1>1, <2>4 DEF Sane, At
      <3>2. CASE DraftRows(q) = counted[q]
        BY <2>5, <2>11, <3>2 DEF Left
      <3>3. CASE \E k \in Numbers(q) : LostBefore(q, k)
        BY <2>12, <3>3 DEF Left
      <3> QED  BY <1>1, <3>1, <3>2, <3>3 DEF SoundAt, Left
    <2>14. Begun(q)' /\ Stores(q)'
      BY <1>1, <2>5, <2>6 DEF SoundAt, Begun, Stores, At
    <2> QED  BY <1>1, <2>5, <2>6, <2>9, <2>10, <2>13, <2>14, KeepsSound DEF SoundAt
  <1> QED  BY <1>2, <1>3

LEMMA DeadlockBrokenSound ==
  ASSUME Sound, NEW q \in Requests, DeadlockBroken(q)
  PROVE  Sound'
  <1>1. Blockers(q) # {}
    <2>1. ASSUME Blockers(q) = {} PROVE FALSE
      <3>1. {} \in SUBSET Requests /\ Blockers(q) \subseteq {} /\ \A s \in {} : Blockers(s) \subseteq {}
        BY <2>1
      <3> QED  BY <3>1 DEF DeadlockBroken, WaitsFor
    <2> QED  BY <2>1
  <1>2. pc[q] \in {"create", "insert"}
    BY <1>1 DEF Blockers, Wanted, At
  <1> QED  BY <1>2, FlushFailsSound DEF DeadlockBroken

LEMMA BeginSound ==
  ASSUME Sound, NEW q \in Requests, Begin(q)
  PROVE  Sound'
  <1>1. /\ SessionTyped(q) /\ SoundAt(q) /\ Functions /\ SharedTyped /\ pc[q] = "idle"
        /\ UNCHANGED <<tags, cases>> /\ UNCHANGED session /\ ~ At(q, "answered")
        /\ pc' = [pc EXCEPT ![q] = "row"] /\ known' = [known EXCEPT ![q] = DOMAIN tags]
    BY TypedParts DEF Sound, Begin, At, Goto
  <1>2. /\ Only(q) /\ pc'[q] = "row" /\ known'[q] = DOMAIN tags
        /\ UNCHANGED <<row, nth, objs, again, mine, drafts, counted, errors, broken>>
    BY <1>1 DEF session, Only, Same, Functions
  <1>3. SessionTyped(q)'
    BY <1>1, <1>2 DEF SessionTyped, States, SharedTyped
  <1>4. /\ ~ broken[q] /\ row[q] = 1 /\ drafts[q] = {} /\ counted[q] = {} /\ errors[q] = {}
    BY <1>1 DEF SoundAt, Begun, At
  <1>5. Staged(q)' /\ Drafted(q)' /\ Begun(q)' /\ Stores(q)'
    BY <1>1, <1>2, <1>4 DEF SoundAt, Staged, Staging, Drafted, Begun, Stores, At
  <1>6. Past(q)' = {}
    <2>1. Past(q)' = {i \in Numbers(q) : i < 1}
      BY <1>2, <1>4 DEF Past, At
    <2> QED  BY <2>1 DEF Numbers
  <1>7. Accounted(q)' /\ Left(q)'
    BY <1>2, <1>4, <1>6 DEF Accounted, Left, DraftRows
  <1> QED  BY <1>1, <1>2, <1>3, <1>5, <1>7, KeepsSound DEF SoundAt

LEMMA FailSound ==
  ASSUME Sound, NEW q \in Requests,
         Fail(q) \/ (Commit(q) /\ broken[q])
  PROVE  Sound'
  <1>1. /\ SessionTyped(q) /\ SoundAt(q) /\ Functions
        /\ UNCHANGED <<tags, cases>> /\ UNCHANGED session /\ UNCHANGED known
        /\ pc' = [pc EXCEPT ![q] = "failed"]
        /\ ~ At(q, "answered") /\ ~ At(q, "idle")
    BY TypedParts DEF Sound, Fail, Commit, At, Goto, Open
  <1>2. /\ Only(q) /\ pc'[q] = "failed"
        /\ UNCHANGED <<row, nth, objs, again, mine, drafts, counted, errors, broken>>
    BY <1>1 DEF session, Only, Same, Functions
  <1>3. SessionTyped(q)'
    BY <1>1, <1>2 DEF SessionTyped, States
  <1>4. Staged(q)' /\ Drafted(q)' /\ Begun(q)' /\ Stores(q)'
    BY <1>1, <1>2 DEF SoundAt, Staged, Staging, Drafted, Begun, Stores, At
  <1>5. Accounted(q)' /\ Left(q)'
    BY <1>2, NothingLeft
  <1> QED  BY <1>1, <1>2, <1>3, <1>4, <1>5, KeepsSound DEF SoundAt

LEMMA CommitSound ==
  ASSUME Sound, NEW q \in Requests, Commit(q), ~ broken[q]
  PROVE  Sound'
  <1>1. /\ SessionTyped(q) /\ SoundAt(q) /\ Functions /\ SharedTyped /\ Makers
        /\ UNCHANGED session /\ UNCHANGED known /\ pc[q] = "commit"
        /\ tags' = [n \in DOMAIN tags \union mine[q] |-> IF n \in DOMAIN tags THEN tags[n] ELSE q]
        /\ cases' = cases \union drafts[q]
        /\ pc' = [pc EXCEPT ![q] = "answered"]
    BY TypedParts DEF Sound, Commit, At, Goto
  <1>2. /\ Only(q) /\ pc'[q] = "answered"
        /\ UNCHANGED <<row, nth, objs, again, mine, drafts, counted, errors, broken>>
    BY <1>1 DEF session, Only, Same, Functions
  <1>3. /\ DOMAIN tags' = DOMAIN tags \union mine[q]
        /\ \A n \in DOMAIN tags : tags'[n] = tags[n]
        /\ \A n \in DOMAIN tags' \ DOMAIN tags : tags'[n] = q
    BY <1>1
  <1>4. \A d \in drafts[q] : d.by = q
    BY <1>1 DEF SoundAt, Drafted
  <1>5. Grows(q)
    BY <1>1, <1>3, <1>4 DEF Grows
  <1>6. SharedTyped'
    <2>1. tags' \in [DOMAIN tags' -> Requests]
      BY <1>1 DEF SharedTyped
    <2> QED  BY <1>1, <1>3, <2>1 DEF SharedTyped, SessionTyped
  <1>7. Makers'
    <2>1. ASSUME NEW n \in DOMAIN tags'
          PROVE  pc'[tags'[n]] = "answered"
      <3>1. CASE n \in DOMAIN tags
        <4>1. tags'[n] = tags[n] /\ tags[n] \in Requests /\ pc[tags[n]] = "answered"
          BY <1>1, <1>3, <3>1 DEF Makers, At, SharedTyped
        <4>2. tags[n] # q
          BY <1>1, <4>1
        <4> QED  BY <1>2, <4>1, <4>2 DEF Only, Same
      <3>2. CASE n \notin DOMAIN tags
        BY <1>2, <1>3, <3>2
      <3> QED  BY <3>1, <3>2
    <2> QED  BY <2>1 DEF Makers, At
  <1>8. SessionTyped(q)'
    BY <1>1, <1>2 DEF SessionTyped, States
  <1>9. Staged(q)' /\ Drafted(q)' /\ Begun(q)'
    BY <1>1, <1>2, <1>3 DEF SoundAt, Staged, Staging, Drafted, Begun, At
  <1>10. Stores(q)'
    <2>1. {c \in cases : c.by = q} = {}
      BY <1>1 DEF SoundAt, Stores, At
    <2>2. {c \in cases' : c.by = q} = drafts[q]
      BY <1>1, <1>4, <2>1
    <2> QED  BY <1>2, <2>2 DEF Stores, At
  <1>11. Past(q)' = Past(q) /\ (Sane(q)' <=> Sane(q)) /\ DraftRows(q)' = DraftRows(q)
         /\ ~ Staging(q)
    BY <1>1, <1>2 DEF Past, Sane, DraftRows, At, Staging
  <1>12. \A k \in Numbers(q) : LostBefore(q, k) => LostBefore(q, k)'
    BY <1>1, <1>2, <1>3, <1>11 DEF LostBefore
  <1>13. Accounted(q)' /\ Left(q)'
    BY <1>1, <1>2, <1>11, <1>12 DEF SoundAt, Accounted, Left
  <1>14. SoundAt(q)'
    BY <1>9, <1>10, <1>13 DEF SoundAt
  <1>15. \A r \in Requests : SessionTyped(r)' /\ SoundAt(r)'
    BY <1>2, <1>5, <1>8, <1>14, OthersSound DEF Only
  <1> QED  BY <1>2, <1>6, <1>7, <1>15, PartsSound DEF Only

LEMMA NextSound ==
  ASSUME Sound, [Next]_vars
  PROVE  Sound'
  <1>1. ASSUME NEW q \in Requests, Begin(q) \/ Step(q) \/ Fail(q)
        PROVE  Sound'
    BY <1>1, BeginSound, StartRowSound, FindTagSound, CreateTagSound, InsertCaseSound,
       DeadlockBrokenSound, CommitSound, FailSound DEF Step
  <1>2. CASE UNCHANGED vars
    <2>1. /\ SharedTyped /\ Functions /\ Makers
          /\ \A q \in Requests : SessionTyped(q) /\ SoundAt(q)
      BY TypedParts DEF Sound
    <2>2. /\ UNCHANGED <<tags, cases, pc, row, nth, objs, again, mine, drafts>>
          /\ UNCHANGED <<counted, errors, broken, known>>
      BY <1>2 DEF vars, session
    <2>3. SharedTyped' /\ Functions' /\ Makers'
      BY <2>1, <2>2 DEF SharedTyped, Functions, Makers, At
    <2>4. ASSUME NEW q \in Requests PROVE SessionTyped(q)' /\ SoundAt(q)'
      <3>1. RawTags(q)' = RawTags(q)
        BY <2>2 DEF RawTags
      <3>2. Looked(q)' = Looked(q) /\ Tag(q)' = Tag(q)
        BY <2>2, <3>1 DEF Looked, Tag
      <3>3. Staged(q)' /\ Drafted(q)'
        BY <2>1, <2>2, <3>1, <3>2 DEF SoundAt, Staged, Staging, Drafted, At
      <3>4. Accounted(q)' /\ Left(q)'
        BY <2>1, <2>2 DEF SoundAt, Accounted, Past, Staging, Sane, At, Left, LostBefore,
                           DraftRows
      <3>5. Begun(q)' /\ Stores(q)' /\ SessionTyped(q)'
        BY <2>1, <2>2 DEF SoundAt, Begun, Stores, At, SessionTyped
      <3> QED  BY <3>3, <3>4, <3>5 DEF SoundAt
    <2> QED  BY <2>3, <2>4, PartsSound
  <1> QED  BY <1>1, <1>2 DEF Next

LEMMA AlwaysSound == Spec => []Sound
  BY InitSound, NextSound, PTL DEF Spec

(* All variables keep their types.                                         *)
THEOREM ImportTypeCorrect == Spec => []TypeOK
  <1>1. Sound => TypeOK
    BY DEF Sound
  <1> QED  BY <1>1, AlwaysSound, PTL

(* Whoever makes the tags and however often a session is rolled back on    *)
(* the way, what is committed has its tags (create_tag, create_test_case,  *)
(* get_or_create_many).                                                    *)
THEOREM TagsAreComplete == Spec => []CasesHaveTheirTags
  <1>1. ASSUME Sound PROVE CasesHaveTheirTags
    <2>1. ASSUME NEW c \in cases
          PROVE  c.by \in Requests /\ c.tags = TagsOf(c.by, c.row) /\ c.tags \subseteq DOMAIN tags
      <3>1. c.by \in Requests /\ SoundAt(c.by)
        BY <1>1, TypedParts DEF Sound, SharedTyped, Case
      <3>2. At(c.by, "answered") /\ c \in drafts[c.by]
        BY <3>1 DEF SoundAt, Stores
      <3> QED  BY <3>1, <3>2 DEF SoundAt, Drafted, Begun
    <2>2. ASSUME NEW c \in cases, NEW d \in cases, c.by = d.by, c.row = d.row
          PROVE  c = d
      <3>1. c \in Case /\ d \in Case /\ c.tags = d.tags
        BY <1>1, <2>1, <2>2, TypedParts DEF Sound, SharedTyped
      <3> QED  BY <2>2, <3>1 DEF Case
    <2> QED  BY <2>1, <2>2 DEF CasesHaveTheirTags
  <1> QED  BY <1>1, AlwaysSound, PTL

(* What an answer tells is stored, but for the rows before one whose tag   *)
(* another request made meanwhile (import_test_cases, create_tag).         *)
THEOREM AnswersTellRows == Spec => []AnswerTellsRows
  <1>1. ASSUME Sound PROVE AnswerTellsRows
    <2>1. ASSUME NEW q \in Requests
          PROVE  /\ Stored(q) # {} => At(q, "answered")
                 /\ At(q, "answered") => Stored(q) = DraftRows(q)
      BY <1>1 DEF Sound, SoundAt, Stores, Stored, DraftRows
    <2>2. ASSUME NEW q \in Requests, At(q, "answered")
          PROVE  /\ errors[q] = {i \in Numbers(q) : Rows[q][i].bad}
                 /\ counted[q] = Numbers(q) \ errors[q]
      <3>1. Sane(q) /\ Past(q) = Numbers(q) /\ Accounted(q)
        BY <1>1, <2>2 DEF Sound, SoundAt, Begun, Sane, Past, At, Staging
      <3> QED  BY <3>1 DEF Accounted
    <2>3. ASSUME NEW q \in Requests, At(q, "answered"), Stored(q) # counted[q]
          PROVE  \E k \in counted[q] :
                   /\ Stored(q) = {i \in counted[q] : i >= k}
                   /\ \E n \in TagsOf(q, k) \ known[q] : tags[n] # q
      <3>1. Sane(q) /\ ~ Staging(q) /\ Left(q) /\ Stored(q) = DraftRows(q)
        BY <1>1, <2>1, <2>3 DEF Sound, SoundAt, Begun, Sane, At, Staging
      <3> QED  BY <2>3, <3>1 DEF Left, LostBefore
    <2> QED  BY <2>1, <2>2, <2>3 DEF AnswerTellsRows
  <1> QED  BY <1>1, AlwaysSound, PTL
=============================================================================
