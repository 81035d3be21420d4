-------------------------- MODULE RunViewsProofs ---------------------------
(***************************************************************************)
(* What RunViews promises for any runs, cases and suites, any tree of      *)
(* suites and any number of writes.                                        *)
(*                                                                         *)
(* Three lemmas on the data come first: results of different statuses are  *)
(* different cases of the scope, rows of a join are as many as its cases,  *)
(* and every node of a tree is below one root.  Then the invariant: what   *)
(* each SELECT returned is what it would return still, as long as nothing  *)
(* was written.                                                            *)
(***************************************************************************)
EXTENDS RunViews, FiniteSetTheorems, TLAPS

-----------------------------------------------------------------------------
(* Trees.                                                                  *)
RootsIn(T) == {s \in T : Parent[s] \notin T}

LEMMA BelowHasTop ==
  ASSUME NEW T, NEW top \in T
  PROVE  top \in Below(T, top)
  BY DEF Below

LEMMA BelowIsLeast ==
  ASSUME NEW T, NEW top, NEW S \in SUBSET T, top \in S, ClosedIn(T, S)
  PROVE  Below(T, top) \subseteq S
  BY DEF Below

LEMMA BelowGoesDown ==
  ASSUME NEW T, NEW top, NEW s \in T, Parent[s] \in Below(T, top)
  PROVE  s \in Below(T, top)
  <1> SUFFICES ASSUME NEW S \in SUBSET T, top \in S, ClosedIn(T, S)
               PROVE  s \in S
    BY DEF Below
  <1>1. Parent[s] \in S
    BY BelowIsLeast
  <1> QED  BY <1>1 DEF ClosedIn

LEMMA BelowGoesUp ==
  ASSUME NEW T, NEW top \in T, NEW s \in Below(T, top), s # top
  PROVE  Parent[s] \in Below(T, top)
  <1> DEFINE B == Below(T, top)
  <1> SUFFICES ASSUME Parent[s] \notin B
               PROVE  FALSE
    OBVIOUS
  <1>1. B \ {s} \in SUBSET T
    BY DEF Below
  <1>2. top \in B \ {s}
    BY BelowHasTop
  <1>3. ClosedIn(T, B \ {s})
    <2> SUFFICES ASSUME NEW t \in T, Parent[t] \in B \ {s}
                 PROVE  t \in B \ {s}
      BY DEF ClosedIn
    <2>1. t \in B
      BY BelowGoesDown
    <2> QED  BY <2>1
  <1>4. B \subseteq B \ {s}
    BY <1>1, <1>2, <1>3, BelowIsLeast
  <1> QED  BY <1>4

\* A root is below no other root.
LEMMA RootsAreApart ==
  ASSUME NEW T, NEW t \in RootsIn(T), NEW u \in RootsIn(T), t \in Below(T, u)
  PROVE  t = u
  <1>1. u \in T /\ t \in T /\ Parent[t] \notin T
    BY DEF RootsIn
  <1>2. Below(T, u) \subseteq T
    BY DEF Below
  <1> QED  BY <1>1, <1>2, BelowGoesUp

LEMMA OneRootEach ==
  ASSUME NEW T \in SUBSET Suites, NEW s0 \in T
  PROVE  \E t \in RootsIn(T) : \A u \in RootsIn(T) :
           s0 \in Below(T, u) <=> u = t
  <1> DEFINE One(s) == \E t \in RootsIn(T) : \A u \in RootsIn(T) :
                         s \in Below(T, u) <=> u = t
             S == {s \in T : ~ One(s)}
  <1> SUFFICES ASSUME S # {}
               PROVE  FALSE
    OBVIOUS
  <1>1. PICK s \in S : Parent[s] \notin S
    <2>1. S \in (SUBSET Suites) \ {{}}
      OBVIOUS
    <2> HIDE DEF S
    <2> QED  BY <2>1, RunViewsAssumption
  <1>2. CASE Parent[s] \notin T
    <2>1. s \in RootsIn(T)
      BY <1>2 DEF RootsIn
    <2>2. \A u \in RootsIn(T) : s \in Below(T, u) <=> u = s
      BY <2>1, RootsAreApart, BelowHasTop
    <2> QED  BY <2>1, <2>2
  <1>3. CASE Parent[s] \in T
    <2>1. PICK t \in RootsIn(T) : \A u \in RootsIn(T) :
                 Parent[s] \in Below(T, u) <=> u = t
      BY <1>1, <1>3
    <2>2. ASSUME NEW u \in RootsIn(T)
          PROVE  s \in Below(T, u) <=> Parent[s] \in Below(T, u)
      <3>1. s # u /\ u \in T
        BY <1>3 DEF RootsIn
      <3>2. s \in Below(T, u) => Parent[s] \in Below(T, u)
        BY <3>1, BelowGoesUp
      <3>3. Parent[s] \in Below(T, u) => s \in Below(T, u)
        BY BelowGoesDown
      <3> QED  BY <3>2, <3>3
    <2> QED  BY <2>1, <2>2
  <1> QED  BY <1>2, <1>3

-----------------------------------------------------------------------------
(* Counting.                                                               *)
LEMMA Sizes ==
  ASSUME NEW S \in SUBSET Cases
  PROVE  IsFiniteSet(S) /\ Cardinality(S) \in Nat
  BY RunViewsAssumption, FS_Subset, FS_CardinalityType

LEMMA Disjoint ==
  ASSUME NEW S, NEW T, IsFiniteSet(S), IsFiniteSet(T), S \intersect T = {}
  PROVE  Cardinality(S \union T) = Cardinality(S) + Cardinality(T)
  <1>1. Cardinality(S) \in Nat /\ Cardinality(T) \in Nat
    BY FS_CardinalityType
  <1>2. Cardinality(S \union T)
          = Cardinality(S) + Cardinality(T) - Cardinality(S \intersect T)
    BY FS_Union
  <1>3. Cardinality(S \intersect T) = 0
    BY FS_EmptySet
  <1> QED  BY <1>1, <1>2, <1>3

LEMMA CountedFits ==
  ASSUME NEW r \in Runs, NEW S \in SUBSET Cases
  PROVE  /\ Counted(r, S) \in [Status -> Nat]
         /\ Counted(r, S)["passed"] + Counted(r, S)["failed"]
              + Counted(r, S)["blocked"] + Counted(r, S)["no_run"]
              <= Cardinality(S)
  <1> DEFINE Of(s) == {c \in S : result[r][c] = s}
             A == Of("passed") \union Of("failed")
             B == Of("blocked") \union Of("no_run")
  <1>1. \A s : Of(s) \in SUBSET S
    OBVIOUS
  <1>2. \A s : IsFiniteSet(Of(s)) /\ Cardinality(Of(s)) \in Nat
    BY <1>1, Sizes
  <1>3. Cardinality(A) = Cardinality(Of("passed")) + Cardinality(Of("failed"))
    BY <1>2, Disjoint
  <1>4. Cardinality(B) = Cardinality(Of("blocked")) + Cardinality(Of("no_run"))
    BY <1>2, Disjoint
  <1>5. A \in SUBSET S /\ B \in SUBSET S /\ A \union B \in SUBSET S
        /\ A \intersect B = {}
    OBVIOUS
  <1>6. /\ IsFiniteSet(A) /\ IsFiniteSet(B)
        /\ Cardinality(A) \in Nat /\ Cardinality(B) \in Nat
    BY <1>5, Sizes
  <1>7. Cardinality(A \union B) = Cardinality(A) + Cardinality(B)
    BY <1>5, <1>6, Disjoint
  <1>8. Cardinality(A \union B) <= Cardinality(S)
    BY <1>5, Sizes, FS_Subset
  <1>9. \A s \in Status : Counted(r, S)[s] = Cardinality(Of(s))
    BY DEF Counted
  <1> HIDE DEF Of, A, B
  <1>10. Counted(r, S) = [s \in Status |-> Counted(r, S)[s]]
    BY DEF Counted
  <1>11. Cardinality(S) \in Nat
    BY Sizes
  <1>12. Counted(r, S) \in [Status -> Nat]
    BY <1>2, <1>9, <1>10
  <1>13. /\ Counted(r, S)["passed"] = Cardinality(Of("passed"))
         /\ Counted(r, S)["failed"] = Cardinality(Of("failed"))
         /\ Counted(r, S)["blocked"] = Cardinality(Of("blocked"))
         /\ Counted(r, S)["no_run"] = Cardinality(Of("no_run"))
    BY <1>9 DEF Status
  <1> QED  BY <1>2, <1>3, <1>4, <1>6, <1>7, <1>8, <1>11, <1>12, <1>13

LEMMA AsManyRows ==
  ASSUME NEW r \in Runs, NEW S \in SUBSET Cases
  PROVE  Cardinality(Joined(r, S)) = Cardinality(S)
  <1> DEFINE At(c) == [run |-> r, case |-> c, suite |-> home[c],
                       status |-> result[r][c]]
             f == [c \in S |-> At(c)]
  <1>1. f \in Bijection(S, Joined(r, S))
    <2>1. f \in [S -> Joined(r, S)]
      BY DEF Joined
    <2>2. \A c, d \in S : f[c] = f[d] => c = d
      OBVIOUS
    <2>3. \A x \in Joined(r, S) : \E c \in S : f[c] = x
      BY DEF Joined
    <2> QED  BY <2>1, <2>2, <2>3 DEF Bijection, Injection, Surjection, IsInjective
  <1>2. ExistsBijection(S, Joined(r, S))
    BY <1>1 DEF ExistsBijection
  <1> QED  BY <1>2, Sizes, FS_Bijection

-----------------------------------------------------------------------------
(* The invariant.                                                          *)
ReaderOK ==
  /\ left \subseteq asked
  /\ pc = "total" => view \in {"progress", "cases"}
  /\ pc = "suites" => view = "tree"
  /\ view = "progress" /\ pc = "rows" => group \subseteq left
  /\ view = "progress" /\ pc = "answered" => left = {}
  /\ view = "tree" => \A r, q \in asked : r = q

TotalsHold ==
  view = "progress" /\ pc # "idle" => \A r \in asked :
    r \notin left \/ (pc = "rows" /\ r \in group)
      => total[r] = Cardinality(ScopeOf(r))

CountsHold ==
  view = "progress" /\ pc # "idle" => \A r \in asked \ left :
    counts[r] = Counted(r, ScopeOf(r) \intersect Tested(r))

ListedHold ==
  view = "cases" /\ pc \in {"rows", "answered"} => \A r \in asked :
    total[r] = Cardinality(CasesOf(r))

RowsHold ==
  view # "progress" /\ pc \in {"suites", "answered"} =>
    found = UNION {RowsOf(r) : r \in asked}

NodesHold ==
  view = "tree" /\ pc = "answered" =>
    nodes = {x.suite : x \in found} \ suiteGone

StillTrue == TotalsHold /\ CountsHold /\ ListedHold /\ RowsHold /\ NodesHold

RunViewsInv == TypeOK /\ ReaderOK /\ (quiet => StillTrue)

-----------------------------------------------------------------------------
LEMMA ScopesAreCases ==
  ASSUME TypeOK, NEW r \in Runs
  PROVE  /\ ScopeOf(r) \in SUBSET Cases
         /\ CasesOf(r) \in SUBSET Cases
         /\ TreeCasesOf(r) \in SUBSET Cases
         /\ Tested(r) \in SUBSET Cases
  BY DEF TypeOK, TablesTyped, ScopeOf, CasesOf, TreeCasesOf, Tested, InAuto

LEMMA RowsAreTyped ==
  ASSUME TypeOK, NEW r \in Runs, NEW S \in SUBSET Cases
  PROVE  Joined(r, S) \subseteq [run : Runs, case : Cases, suite : Suites,
                                 status : Status \union None]
  BY DEF TypeOK, TablesTyped, Joined

(* The cases a SELECT sees depend on the tables and on the row read.       *)
LEMMA SameScopes ==
  ASSUME UNCHANGED <<tables, seen>>, NEW r
  PROVE  /\ ScopeOf(r)' = ScopeOf(r)
         /\ CasesOf(r)' = CasesOf(r)
         /\ TreeCasesOf(r)' = TreeCasesOf(r)
         /\ Tested(r)' = Tested(r)
         /\ Counted(r, ScopeOf(r) \intersect Tested(r))'
              = Counted(r, ScopeOf(r) \intersect Tested(r))
  <1>1. ScopeOf(r)' = ScopeOf(r)
    BY DEF tables, ScopeOf, InAuto, Picks
  <1>2. Tested(r)' = Tested(r)
    BY DEF tables, Tested
  <1> QED
    BY <1>1, <1>2 DEF tables, CasesOf, TreeCasesOf, InAuto, Picks, Counted

LEMMA SameRows ==
  ASSUME UNCHANGED <<tables, seen, view, asked>>
  PROVE  (UNION {RowsOf(r) : r \in asked})' = UNION {RowsOf(r) : r \in asked}
  <1>0. /\ UNCHANGED <<tables, seen>> /\ home' = home /\ result' = result
        /\ view' = view /\ asked' = asked
    BY DEF tables
  <1>1. \A r : RowsOf(r)' = RowsOf(r)
    <2> TAKE r
    <2>1. /\ Joined(r, CasesOf(r))' = Joined(r, CasesOf(r))
          /\ Joined(r, TreeCasesOf(r))' = Joined(r, TreeCasesOf(r))
          /\ Joined(r, ScopeOf(r) \intersect Tested(r))'
               = Joined(r, ScopeOf(r) \intersect Tested(r))
          /\ Joined(r, Tested(r))' = Joined(r, Tested(r))
      <3>1. /\ CasesOf(r)' = CasesOf(r) /\ TreeCasesOf(r)' = TreeCasesOf(r)
            /\ ScopeOf(r)' = ScopeOf(r) /\ Tested(r)' = Tested(r)
        BY <1>0, SameScopes
      <3> QED  BY <1>0, <3>1 DEF Joined
    <2> QED  BY <1>0, <2>1 DEF RowsOf
  <1> QED  BY <1>0, <1>1

-----------------------------------------------------------------------------
LEMMA InitInv ==
  ASSUME Init
  PROVE  RunViewsInv
  <1>1. TypeOK
    BY RunViewsAssumption DEF Init, TypeOK, TablesTyped, ReaderTyped,
       Row, Scope, View, Status, None, Zero, Live
  <1>2. ReaderOK
    BY DEF Init, ReaderOK
  <1>3. StillTrue
    BY DEF Init, StillTrue, TotalsHold, CountsHold, ListedHold, RowsHold, NodesHold
  <1> QED  BY <1>1, <1>2, <1>3 DEF RunViewsInv

(* A write leaves the reader alone and ends the quiet.                     *)
LEMMA WriteFrame ==
  ASSUME Write
  PROVE  Writes
  BY DEF Write, DeleteCase, RestoreCase, MoveCase, DeleteSuite, RestoreSuite,
         DeleteRun, RestoreRun, Submit, SetCases, SetSuite

LEMMA WriteKeepsTables ==
  ASSUME TablesTyped, Write
  PROVE  TablesTyped'
  <1> USE DEF TablesTyped
  <1>1. ASSUME NEW c \in Cases, DeleteCase(c) \/ RestoreCase(c)
        PROVE  TablesTyped'
    BY <1>1 DEF DeleteCase, RestoreCase
  <1>2. ASSUME NEW c \in Cases, NEW s \in Suites, MoveCase(c, s)
        PROVE  TablesTyped'
    BY <1>2 DEF MoveCase
  <1>3. ASSUME NEW s \in Suites, DeleteSuite(s) \/ RestoreSuite(s)
        PROVE  TablesTyped'
    <2>1. Below(Suites \ suiteGone, s) \subseteq Suites
      BY DEF Below
    <2> QED  BY <1>3, <2>1 DEF DeleteSuite, RestoreSuite
  <1>4. ASSUME NEW r \in Runs, DeleteRun(r) \/ RestoreRun(r)
        PROVE  TablesTyped'
    <2>1. run' \in [Runs -> Row] /\ result' = result
      <3>1. \A b \in BOOLEAN : [run EXCEPT ![r].gone = b] \in [Runs -> Row]
        <4>1. run[r] \in Row
          OBVIOUS
        <4>2. ASSUME NEW b \in BOOLEAN
              PROVE  [run[r] EXCEPT !.gone = b] \in Row
          BY <4>1 DEF Row
        <4>3. ASSUME NEW b \in BOOLEAN
              PROVE  [run EXCEPT ![r] = [@ EXCEPT !.gone = b]] \in [Runs -> Row]
          BY <4>2
        <4> QED  BY <4>3
      <3>2. CASE DeleteRun(r)
        BY <3>1, <3>2 DEF DeleteRun
      <3>3. CASE RestoreRun(r)
        BY <3>1, <3>3 DEF RestoreRun
      <3> QED  BY <1>4, <3>2, <3>3
    <2>2. Swept(r) \in SUBSET Cases
      BY DEF Swept
    <2>3. hidden' = hidden \/ hidden' = [hidden EXCEPT ![r] = Swept(r)]
      BY <1>4 DEF DeleteRun, RestoreRun
    <2>4. \A q \in Runs : hidden'[q] = hidden[q] \/ (q = r /\ hidden'[q] = Swept(r))
      BY <2>3
    <2>5. \A q \in Runs : \A c \in hidden'[q] : result'[q][c] # "none"
      BY <2>1, <2>4 DEF Swept
    <2> QED  BY <1>4, <2>1, <2>2, <2>3, <2>5 DEF DeleteRun, RestoreRun
  <1>5. ASSUME NEW r \in Runs, NEW c \in Cases, NEW status \in Submits,
               Submit(r, c, status)
        PROVE  TablesTyped'
    <2>1. status \in Status
      BY RunViewsAssumption
    <2>2. result' \in [Runs -> [Cases -> Status \union None]]
      BY <1>5, <2>1 DEF Submit
    <2>3. \A q \in Runs : \A d \in hidden[q] : result'[q][d] = result[q][d]
      BY <1>5 DEF Submit
    <2> QED  BY <1>5, <2>2, <2>3 DEF Submit
  <1>6. ASSUME NEW r \in Runs, NEW cases \in SUBSET Cases, SetCases(r, cases)
        PROVE  TablesTyped'
    BY <1>6 DEF SetCases, Row, Scope
  <1>7. ASSUME NEW r \in Runs, NEW s \in Suites \union None, SetSuite(r, s)
        PROVE  TablesTyped'
    BY <1>7 DEF SetSuite, Row, Scope
  <1> QED
    BY <1>1, <1>2, <1>3, <1>4, <1>5, <1>6, <1>7 DEF Write

LEMMA WriteKeepsInv ==
  ASSUME RunViewsInv, Write
  PROVE  RunViewsInv'
  <1>1. Writes
    BY WriteFrame
  <1>2. TablesTyped'
    BY WriteKeepsTables DEF RunViewsInv, TypeOK
  <1>3. ReaderTyped' /\ ReaderOK'
    BY <1>1 DEF RunViewsInv, TypeOK, ReaderTyped, ReaderOK, Writes, reader
  <1>4. writes' \in 0..MaxWrites /\ quiet' = FALSE
    BY <1>1, RunViewsAssumption DEF RunViewsInv, TypeOK, Writes
  <1> QED  BY <1>2, <1>3, <1>4 DEF RunViewsInv, TypeOK

LEMMA AskKeepsInv ==
  ASSUME RunViewsInv, NEW v \in View, NEW runs \in SUBSET Runs, Ask(v, runs)
  PROVE  RunViewsInv'
  <1>1. TypeOK'
    <2>1. TablesTyped'
      BY DEF RunViewsInv, TypeOK, TablesTyped, Ask, tables
    <2>2. ReaderTyped'
      BY DEF RunViewsInv, TypeOK, TablesTyped, ReaderTyped, Ask
    <2> QED  BY <2>1, <2>2 DEF RunViewsInv, TypeOK, Ask
  <1>2. view' = "tree" => \A r, q \in asked' : r = q
    <2> SUFFICES ASSUME v = "tree"
                 PROVE  \A r, q \in runs : r = q
      BY DEF Ask
    <2>1. Cardinality(runs) = 1 /\ IsFiniteSet(runs)
      BY RunViewsAssumption, FS_Subset DEF Ask
    <2> QED  BY <2>1, FS_Singleton
  <1>3. ReaderOK'
    BY <1>2 DEF RunViewsInv, ReaderOK, Ask, View
  <1>4. StillTrue'
    BY DEF Ask, StillTrue, TotalsHold, CountsHold, ListedHold, RowsHold, NodesHold
  <1> QED  BY <1>1, <1>3, <1>4 DEF RunViewsInv

(* The steps of a view.  Tables and question stay, so what was read holds  *)
(* as before; each step adds what it read itself.                          *)
LEMMA StepFrame ==
  ASSUME RunViewsInv, UNCHANGED <<tables, writes, question>>
  PROVE  /\ TablesTyped'
         /\ writes' \in 0..MaxWrites /\ quiet' \in BOOLEAN /\ quiet' = quiet
         /\ view' = view /\ asked' = asked /\ seen' = seen
         /\ UNCHANGED <<tables, seen>>
         /\ UNCHANGED <<tables, seen, view, asked>>
  BY DEF RunViewsInv, TypeOK, TablesTyped, tables, question

LEMMA ReadTotalsKeepsInv ==
  ASSUME RunViewsInv, ReadTotals
  PROVE  RunViewsInv'
  <1> USE StepFrame DEF ReadTotals
  <1>1. group' \subseteq left
    BY DEF NextGroups, Together
  <1>2. total' \in [Runs -> Nat]
    BY ScopesAreCases, Sizes DEF RunViewsInv, TypeOK, ReaderTyped
  <1>3. ReaderTyped'
    BY <1>1, <1>2 DEF RunViewsInv, TypeOK, ReaderTyped
  <1>4. ReaderOK'
    BY <1>1 DEF RunViewsInv, ReaderOK
  <1>5. ASSUME quiet
        PROVE  StillTrue'
    <2>1. TotalsHold'
      <3> SUFFICES ASSUME NEW r \in asked, r \notin left \/ r \in group'
                   PROVE  total'[r] = Cardinality(ScopeOf(r)')
        BY DEF TotalsHold
      <3>1. r \in Runs
        BY DEF RunViewsInv, TypeOK, ReaderTyped
      <3>2. r \notin left => total[r] = Cardinality(ScopeOf(r))
        BY <1>5 DEF RunViewsInv, StillTrue, TotalsHold
      <3>3. ScopeOf(r)' = ScopeOf(r)
        BY SameScopes
      <3> QED  BY <1>1, <3>1, <3>2, <3>3
    <2>2. CountsHold'
      BY <1>5, SameScopes DEF RunViewsInv, StillTrue, CountsHold
    <2>3. ListedHold' /\ RowsHold' /\ NodesHold'
      BY DEF ListedHold, RowsHold, NodesHold
    <2> QED  BY <2>1, <2>2, <2>3 DEF StillTrue
  <1> QED  BY <1>3, <1>4, <1>5 DEF RunViewsInv, TypeOK

LEMMA ReadCountsKeepsInv ==
  ASSUME RunViewsInv, ReadCounts
  PROVE  RunViewsInv'
  <1> USE StepFrame DEF ReadCounts
  <1>1. group \subseteq left
    BY DEF RunViewsInv, ReaderOK
  <1>2. \A r \in Runs : Counted(r, ScopeOf(r) \intersect Tested(r)) \in [Status -> Nat]
    <2> TAKE r \in Runs
    <2>1. ScopeOf(r) \intersect Tested(r) \in SUBSET Cases
      BY ScopesAreCases DEF RunViewsInv
    <2> QED  BY <2>1, CountedFits
  <1>3. ReaderTyped'
    BY <1>2 DEF RunViewsInv, TypeOK, ReaderTyped
  <1>4. ReaderOK'
    BY DEF RunViewsInv, ReaderOK
  <1>5. ASSUME quiet
        PROVE  StillTrue'
    <2>1. TotalsHold'
      <3> SUFFICES ASSUME NEW r \in asked, r \notin left'
                   PROVE  total'[r] = Cardinality(ScopeOf(r)')
        BY DEF TotalsHold
      <3>1. r \notin left \/ r \in group
        OBVIOUS
      <3>2. total[r] = Cardinality(ScopeOf(r))
        BY <1>5, <3>1 DEF RunViewsInv, StillTrue, TotalsHold
      <3> QED  BY <3>2, SameScopes
    <2>2. CountsHold'
      <3> SUFFICES ASSUME NEW r \in asked, r \notin left'
                   PROVE  counts'[r] = Counted(r, ScopeOf(r) \intersect Tested(r))'
        BY DEF CountsHold
      <3>1. r \in Runs
        BY DEF RunViewsInv, TypeOK, ReaderTyped
      <3>2. r \notin group =>
              counts[r] = Counted(r, ScopeOf(r) \intersect Tested(r))
        BY <1>5 DEF RunViewsInv, StillTrue, CountsHold
      <3>3. counts'[r] = Counted(r, ScopeOf(r) \intersect Tested(r))
        BY <3>1, <3>2
      <3> QED  BY <3>3, SameScopes
    <2>3. ListedHold' /\ RowsHold' /\ NodesHold'
      BY DEF ListedHold, RowsHold, NodesHold
    <2> QED  BY <2>1, <2>2, <2>3 DEF StillTrue
  <1> QED  BY <1>3, <1>4, <1>5 DEF RunViewsInv, TypeOK

LEMMA ReadCaseTotalKeepsInv ==
  ASSUME RunViewsInv, ReadCaseTotal
  PROVE  RunViewsInv'
  <1> USE StepFrame DEF ReadCaseTotal
  <1>1. total' \in [Runs -> Nat]
    BY ScopesAreCases, Sizes DEF RunViewsInv, TypeOK, ReaderTyped
  <1>2. ReaderTyped'
    BY <1>1 DEF RunViewsInv, TypeOK, ReaderTyped
  <1>3. ReaderOK'
    BY DEF RunViewsInv, ReaderOK
  <1>4. ListedHold'
    <2> SUFFICES ASSUME NEW r \in asked
                 PROVE  total'[r] = Cardinality(CasesOf(r)')
      BY DEF ListedHold
    <2>1. r \in Runs
      BY DEF RunViewsInv, TypeOK, ReaderTyped
    <2> QED  BY <2>1, SameScopes
  <1>5. TotalsHold' /\ CountsHold' /\ RowsHold' /\ NodesHold'
    BY DEF TotalsHold, CountsHold, RowsHold, NodesHold
  <1> QED  BY <1>2, <1>3, <1>4, <1>5 DEF RunViewsInv, TypeOK, StillTrue

LEMMA ReadRowsKeepsInv ==
  ASSUME RunViewsInv, ReadRows
  PROVE  RunViewsInv'
  <1> USE StepFrame DEF ReadRows
  <1>1. view \in View \ {"progress"} /\ asked \subseteq Runs
    BY DEF RunViewsInv, TypeOK, ReaderTyped
  <1>2. found' \subseteq [run : Runs, case : Cases, suite : Suites,
                          status : Status \union None]
    <2> SUFFICES ASSUME NEW r \in asked
                 PROVE  RowsOf(r) \subseteq [run : Runs, case : Cases,
                          suite : Suites, status : Status \union None]
      OBVIOUS
    <2>1. /\ CasesOf(r) \in SUBSET Cases
          /\ TreeCasesOf(r) \in SUBSET Cases
          /\ ScopeOf(r) \intersect Tested(r) \in SUBSET Cases
          /\ Tested(r) \in SUBSET Cases
      BY <1>1, ScopesAreCases DEF RunViewsInv
    <2>2. \E S \in SUBSET Cases : RowsOf(r) = Joined(r, S)
      BY <1>1, <2>1 DEF RowsOf, View
    <2> QED  BY <1>1, <2>2, RowsAreTyped DEF RunViewsInv
  <1>3. ReaderTyped'
    BY <1>2 DEF RunViewsInv, TypeOK, ReaderTyped
  <1>4. ReaderOK'
    BY DEF RunViewsInv, ReaderOK
  <1>5. RowsHold'
    BY SameRows DEF RowsHold
  <1>6. ASSUME quiet
        PROVE  ListedHold'
    BY <1>6, SameScopes DEF RunViewsInv, StillTrue, ListedHold
  <1>7. TotalsHold' /\ CountsHold' /\ NodesHold'
    BY DEF TotalsHold, CountsHold, NodesHold
  <1> QED  BY <1>3, <1>4, <1>5, <1>6, <1>7 DEF RunViewsInv, TypeOK, StillTrue

LEMMA ReadSuitesKeepsInv ==
  ASSUME RunViewsInv, ReadSuites
  PROVE  RunViewsInv'
  <1> USE StepFrame DEF ReadSuites
  <1>1. view = "tree"
    BY DEF RunViewsInv, ReaderOK
  <1>2. nodes' \subseteq Suites
    BY DEF RunViewsInv, TypeOK, ReaderTyped
  <1>3. ReaderTyped'
    BY <1>2 DEF RunViewsInv, TypeOK, ReaderTyped
  <1>4. ReaderOK'
    BY <1>1 DEF RunViewsInv, ReaderOK
  <1>5. ASSUME quiet
        PROVE  RowsHold'
    BY <1>1, <1>5, SameRows DEF RunViewsInv, StillTrue, RowsHold
  <1>6. NodesHold'
    BY DEF NodesHold, tables
  <1>7. TotalsHold' /\ CountsHold' /\ ListedHold'
    BY <1>1 DEF TotalsHold, CountsHold, ListedHold
  <1> QED  BY <1>3, <1>4, <1>5, <1>6, <1>7 DEF RunViewsInv, TypeOK, StillTrue

LEMMA StutterKeepsInv ==
  ASSUME RunViewsInv, UNCHANGED vars
  PROVE  RunViewsInv'
  <1>1. UNCHANGED <<tables, writes, question>> /\ UNCHANGED reader
    BY DEF vars, reader, question
  <1>2. ReaderTyped' /\ ReaderOK'
    BY <1>1 DEF RunViewsInv, TypeOK, ReaderTyped, ReaderOK, reader
  <1>3. ASSUME quiet
        PROVE  StillTrue'
    <2>1. TotalsHold' /\ CountsHold' /\ ListedHold'
      BY <1>1, <1>3, StepFrame, SameScopes
      DEF RunViewsInv, StillTrue, TotalsHold, CountsHold, ListedHold, reader
    <2>2. RowsHold'
      BY <1>1, <1>3, StepFrame, SameRows
      DEF RunViewsInv, StillTrue, RowsHold, reader
    <2>3. NodesHold'
      BY <1>1, <1>3 DEF RunViewsInv, StillTrue, NodesHold, reader, tables
    <2> QED  BY <2>1, <2>2, <2>3 DEF StillTrue
  <1> QED  BY <1>1, <1>2, <1>3, StepFrame DEF RunViewsInv, TypeOK

(* The invariant holds for any runs, cases, tree of suites and bound.      *)
THEOREM RunViewsInvariant == Spec => []RunViewsInv
  <1>1. Init => RunViewsInv
    BY InitInv
  <1>2. ASSUME RunViewsInv, [Next]_vars
        PROVE  RunViewsInv'
    BY <1>2, WriteKeepsInv, AskKeepsInv, ReadTotalsKeepsInv, ReadCountsKeepsInv,
       ReadCaseTotalKeepsInv, ReadRowsKeepsInv, ReadSuitesKeepsInv,
       StutterKeepsInv DEF Next, Read
  <1> QED  BY <1>1, <1>2, PTL DEF Spec

(* Variables keep their types; only results that exist are deleted.        *)
THEOREM RunViewsTypeCorrect == Spec => []TypeOK
  <1>1. RunViewsInv => TypeOK
    BY DEF RunViewsInv
  <1> QED  BY <1>1, RunViewsInvariant, PTL

-----------------------------------------------------------------------------
LEMMA InvAddsUp ==
  ASSUME RunViewsInv
  PROVE  ProgressAddsUp
  <1> SUFFICES ASSUME Answered("progress"), NEW r \in asked
               PROVE  /\ counts[r]["passed"] + counts[r]["failed"]
                           + counts[r]["blocked"] + NoRun(r) = Denominator(r)
                      /\ counts[r]["passed"] <= Denominator(r)
                      /\ quiet => Denominator(r) = total[r]
    BY DEF ProgressAddsUp
  <1>1. r \in Runs /\ total[r] \in Nat /\ counts[r] \in [Status -> Nat]
    BY DEF RunViewsInv, TypeOK, ReaderTyped
  <1>2. /\ counts[r]["passed"] \in Nat /\ counts[r]["failed"] \in Nat
        /\ counts[r]["blocked"] \in Nat /\ counts[r]["no_run"] \in Nat
    BY <1>1 DEF Status
  <1>3. ASSUME quiet
        PROVE  TestedIn(r) <= total[r]
    <2> DEFINE S == ScopeOf(r) \intersect Tested(r)
    <2>1. /\ total[r] = Cardinality(ScopeOf(r)) /\ counts[r] = Counted(r, S)
      BY <1>3 DEF Answered, RunViewsInv, ReaderOK, StillTrue, TotalsHold, CountsHold
    <2>2. ScopeOf(r) \in SUBSET Cases /\ S \in SUBSET ScopeOf(r)
      BY <1>1, ScopesAreCases DEF RunViewsInv
    <2>3. Cardinality(S) <= Cardinality(ScopeOf(r))
      BY <2>2, Sizes, FS_Subset
    <2>4. TestedIn(r) <= Cardinality(S)
      <3>1. S \in SUBSET Cases
        BY <2>2
      <3> HIDE DEF S
      <3> QED  BY <1>1, <2>1, <3>1, CountedFits DEF TestedIn
    <2>5. Cardinality(S) \in Nat
      BY <2>2, Sizes
    <2> HIDE DEF S
    <2> QED  BY <1>1, <1>2, <2>1, <2>3, <2>4, <2>5 DEF TestedIn
  <1> QED  BY <1>1, <1>2, <1>3 DEF NoRun, Denominator, TestedIn

(* The numbers of a progress add up and its rate is a ratio, however many  *)
(* writes come between the SELECTs; without one they add up to total.      *)
THEOREM RateIsARatio == Spec => []ProgressAddsUp
  BY InvAddsUp, RunViewsInvariant, PTL

LEMMA InvShowsAll ==
  ASSUME RunViewsInv
  PROVE  TreeShowsAll
  <1>1. nodes \in SUBSET Suites /\ Roots = RootsIn(nodes)
    BY DEF RunViewsInv, TypeOK, ReaderTyped, Roots, RootsIn
  <1>2. \A x \in Kept : x.suite \in nodes
    BY DEF Kept
  <1> QED  BY <1>1, <1>2, OneRootEach DEF TreeShowsAll

(* Every case the tree counts is shown, once, for any tree of suites and   *)
(* any suites in it that have no cases or are deleted meanwhile.           *)
THEOREM TreeLosesNothing == Spec => []TreeShowsAll
  BY InvShowsAll, RunViewsInvariant, PTL

(* A join has a row for each case, and only those.                         *)
LEMMA JoinedCases ==
  ASSUME NEW r, NEW S
  PROVE  /\ \A x \in Joined(r, S) :
              x.run = r /\ x.case \in S /\ x.suite = home[x.case]
                /\ x.status = result[r][x.case]
         /\ \A c \in S : \E x \in Joined(r, S) : x.case = c
         /\ {x.case : x \in Joined(r, S)} = S
  <1> DEFINE At(c) == [run |-> r, case |-> c, suite |-> home[c],
                       status |-> result[r][c]]
  <1>1. \A c \in S : At(c) \in Joined(r, S)
    BY DEF Joined
  <1>2. \A x \in Joined(r, S) : \E c \in S : x = At(c)
    BY DEF Joined
  <1>3. \A c : /\ At(c).run = r /\ At(c).case = c /\ At(c).suite = home[c]
               /\ At(c).status = result[r][c]
    OBVIOUS
  <1> HIDE DEF At
  <1>4. \A c \in S : \E x \in Joined(r, S) : x.case = c
    BY <1>1, <1>3
  <1>5. \A x \in Joined(r, S) :
          /\ x.run = r /\ x.case \in S /\ x.suite = home[x.case]
          /\ x.status = result[r][x.case]
    BY <1>2, <1>3
  <1> QED  BY <1>4, <1>5

(* The rows of one run among those of all runs that were asked for.        *)
LEMMA RowsOfOneRun ==
  ASSUME RunViewsInv, quiet, view # "progress", pc = "answered",
         NEW r \in asked, NEW S, RowsOf(r) = Joined(r, S)
  PROVE  /\ {x \in found : x.run = r} = Joined(r, S)
         /\ {x.case : x \in {y \in found : y.run = r}} = S
  <1>1. found = UNION {RowsOf(q) : q \in asked}
    BY DEF RunViewsInv, StillTrue, RowsHold
  <1>2. \A q \in asked : \A x \in RowsOf(q) : x.run = q
    <2>1. view \in {"cases", "tree", "results", "report"}
      BY DEF RunViewsInv, TypeOK, ReaderTyped, View
    <2> QED  BY <2>1 DEF RowsOf, Joined
  <1>3. {x \in found : x.run = r} = RowsOf(r)
    BY <1>1, <1>2
  <1>4. {x.case : x \in Joined(r, S)} = S
    BY JoinedCases
  <1> QED  BY <1>3, <1>4

LEMMA InvAgrees ==
  ASSUME RunViewsInv
  PROVE  ViewsAgree
  <1> DEFINE Shown(r) == {x \in found : x.run = r}
  <1> SUFFICES ASSUME pc = "answered", quiet, NEW r \in asked
               PROVE  CASE view = "progress" ->
                             /\ total[r] = Cardinality(ScopeOf(r))
                             /\ counts[r] = Counted(r, ScopeOf(r) \intersect Tested(r))
                        [] view = "cases" ->
                             /\ ScopeOf(r) \subseteq {x.case : x \in Shown(r)}
                             /\ {x.case : x \in Shown(r)} \ ScopeOf(r) \subseteq Gone
                             /\ total[r] = Cardinality(Shown(r))
                        [] view = "tree" ->
                             /\ {x.case : x \in Kept} = ScopeOf(r) \ Gone
                             /\ \A x \in Kept : x.status # "none" =>
                                  x.case \in Tested(r) \union hidden[r]
                        [] view = "results" ->
                             {x.case : x \in Shown(r)} = ScopeOf(r) \intersect Tested(r)
                        [] view = "report" ->
                             {x.case : x \in Shown(r)} \intersect ScopeOf(r)
                               = ScopeOf(r) \intersect Tested(r)
    BY DEF ViewsAgree
  <1>0. r \in Runs /\ view \in View
    BY DEF RunViewsInv, TypeOK, ReaderTyped
  <1>1. CASE view = "progress"
    <2>1. total[r] = Cardinality(ScopeOf(r))
      BY <1>1 DEF RunViewsInv, ReaderOK, StillTrue, TotalsHold
    <2>2. counts[r] = Counted(r, ScopeOf(r) \intersect Tested(r))
      BY <1>1 DEF RunViewsInv, ReaderOK, StillTrue, CountsHold
    <2> QED  BY <1>1, <2>1, <2>2
  <1>2. CASE view = "cases"
    <2>1. RowsOf(r) = Joined(r, CasesOf(r))
      BY <1>2 DEF RowsOf
    <2>2. /\ Shown(r) = Joined(r, CasesOf(r))
          /\ {x.case : x \in Shown(r)} = CasesOf(r)
      BY <1>2, <2>1, RowsOfOneRun
    <2>3. CasesOf(r) \in SUBSET Cases
      BY <1>0, ScopesAreCases DEF RunViewsInv
    <2>4. total[r] = Cardinality(Shown(r))
      BY <1>0, <1>2, <2>2, <2>3, AsManyRows DEF RunViewsInv, StillTrue, ListedHold
    <2>5. ScopeOf(r) \subseteq CasesOf(r) /\ CasesOf(r) \ ScopeOf(r) \subseteq Gone
      BY DEF ScopeOf, CasesOf, Gone
    <2> HIDE DEF Shown
    <2> QED  BY <1>2, <2>2, <2>4, <2>5
  <1>3. CASE view = "tree"
    <2>1. RowsOf(r) = Joined(r, TreeCasesOf(r))
      BY <1>3 DEF RowsOf
    <2>2. asked = {r}
      BY <1>3 DEF RunViewsInv, ReaderOK
    <2>3. found = Joined(r, TreeCasesOf(r))
      BY <1>3, <2>1, <2>2 DEF RunViewsInv, StillTrue, RowsHold
    <2>4. nodes = {x.suite : x \in found} \ suiteGone
      BY <1>3 DEF RunViewsInv, StillTrue, NodesHold
    <2>5. \A x : x \in Kept <=> /\ x \in Joined(r, TreeCasesOf(r))
                                /\ x.suite \notin suiteGone
      BY <2>3, <2>4 DEF Kept
    <2>6. \A c : c \in {x.case : x \in Kept}
                 <=> c \in TreeCasesOf(r) /\ home[c] \notin suiteGone
      <3>1. \A c \in TreeCasesOf(r) : home[c] \notin suiteGone =>
              \E x \in Kept : x.case = c
        BY <2>5, JoinedCases
      <3>2. \A x \in Kept : /\ x.case \in TreeCasesOf(r)
                            /\ home[x.case] \notin suiteGone
        BY <2>5, JoinedCases
      <3> QED  BY <3>1, <3>2
    <2>7. ScopeOf(r) \in SUBSET Cases /\ TreeCasesOf(r) \in SUBSET Cases
      BY <1>0, ScopesAreCases DEF RunViewsInv
    <2>8. \A c : c \in TreeCasesOf(r) /\ home[c] \notin suiteGone
                 <=> c \in ScopeOf(r) \ Gone
      BY <2>7 DEF TreeCasesOf, ScopeOf, Gone
    <2>9. ASSUME NEW x \in Kept, x.status # "none"
          PROVE  x.case \in Tested(r) \union hidden[r]
      <3>1. PICK c \in TreeCasesOf(r) : x.case = c /\ x.status = result[r][c]
        BY <2>5, <2>9, JoinedCases
      <3> QED  BY <2>7, <2>9, <3>1 DEF Tested
    <2> QED  BY <1>3, <2>6, <2>8, <2>9
  <1>4. CASE view = "results"
    <2>1. RowsOf(r) = Joined(r, ScopeOf(r) \intersect Tested(r))
      BY <1>4 DEF RowsOf
    <2> QED  BY <1>4, <2>1, RowsOfOneRun
  <1>5. CASE view = "report"
    <2>1. RowsOf(r) = Joined(r, Tested(r))
      BY <1>5 DEF RowsOf
    <2>2. {x.case : x \in Shown(r)} = Tested(r)
      BY <1>5, <2>1, RowsOfOneRun
    <2> HIDE DEF Shown
    <2> QED  BY <1>5, <2>2
  <1> HIDE DEF Shown
  <1> QED  BY <1>0, <1>1, <1>2, <1>3, <1>4, <1>5 DEF View

(* Without a write meanwhile the views of a run agree, up to the deleted   *)
(* rows that the property names.                                           *)
THEOREM ViewsTellTheSame == Spec => []ViewsAgree
  BY InvAgrees, RunViewsInvariant, PTL
=============================================================================
