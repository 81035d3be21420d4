----------------------------- MODULE UploadProofs -----------------------------
(***************************************************************************)
(* What Upload promises for any number of uploads, cases and files.        *)
(*                                                                         *)
(* The inductive invariant has a part for each upload: Exchange, what the  *)
(* client and its handler know of each other; Once, which requests were    *)
(* carried out; Imports and Indexed, what was imported and by which index; *)
(* SeenSupported, what the handler read; Goes, what the client makes of    *)
(* the answers.                                                            *)
(***************************************************************************)
EXTENDS Upload, FunctionTheorems, FiniteSetTheorems, TLAPS

Files(u) == Script[u].files
Later(u) == {"results", "cases", "close"} \union Files(u)

(* What the client and its handler know of each other.  A request that is  *)
(* not a GET is asked once.                                                *)
Exchange(u) ==
  /\ stage[u] # None => /\ request[u] \in Requests \union Files(u)
                        /\ pc[u] \in {request[u], "done"}
  /\ stage[u] \in {"matched", "compared", "refused"} => request[u] = "import"
  /\ pc[u] # "done" /\ stage[u] = None => tries[u] < MaxAttempts
  /\ pc[u] \in Files(u) => pc[u] \in todo[u]
  /\ stage[u] # None /\ request[u] \in Files(u) => request[u] \in todo[u]

Once(u) ==
  /\ made[u] <= 1
  /\ pc[u] = "create" /\ stage[u] = None => made[u] = 0
  /\ request[u] = "create" /\ stage[u] = "asked" => made[u] = 0
  /\ pc[u] \in {"create", "import", "results", "cases"} =>
       \A f \in Files(u) : attached[u][f] = 0
  /\ \A f \in Files(u) :
       /\ attached[u][f] <= 1
       /\ f \in todo[u] /\ attached[u][f] # 0 => request[u] = f /\ stage[u] = "answered"
       /\ request[u] = f /\ stage[u] = "answered" => attached[u][f] = 1

(* An import is committed once, with the items of one index.               *)
Imports(u) ==
  /\ u \in imported => /\ pc[u] # "create"
                       /\ pc[u] = "import" => stage[u] = "answered"
                       /\ request[u] = "import" => stage[u] \in {"answered", None}
                       /\ \A c \in Targets(u) : result[RunOf(u)][c] # None
  /\ request[u] = "import" /\ stage[u] = "answered" => u \in imported
  /\ pc[u] \in Later(u) \/ exit[u] \in {0, 2} => u \in imported

Indexed(u) ==
  /\ \E S \in SUBSET Cases : /\ Cases \ caseGone \subseteq S
                             /\ items[u] = {} \/ items[u] = Matched(Report[u], S)
  /\ \A x \in items[u] : Report[u][x[1]].status \in Status

\* Somebody imported s for c into r.
Supported(r, c, s) ==
  \E u \in imported : RunOf(u) = r /\ \E x \in items[u] :
    x[2] = c /\ Report[u][x[1]].status = s

ResultsSupported ==
  \A r \in Runs, c \in Cases : result[r][c] # None => Supported(r, c, result[r][c])

SeenSupported(u) ==
  \A c \in Cases : seen[u][c] # None =>
    Supported(RunOf(u), c, seen[u][c]) /\ result[RunOf(u)][c] # None

(* What the client makes of the answers.                                   *)
Complete(u) == Script[u].strict => Unmatched(u) = 0

Covers(u, F) == \A f \in Files(u), c \in Targets(u) \ caseGone :
                  Automation[c] = f => f \in F \/ attached[u][f] = 1

Goes(u) ==
  /\ pc[u] \in Later(u) => missed[u] = Unmatched(u)
  /\ pc[u] = "close" => Script[u].close /\ Complete(u) /\ Covers(u, {})
  /\ pc[u] \in Files(u) => Covers(u, todo[u])
  /\ pc[u] = "cases" \/ (pc[u] = "results" /\ stage[u] = "answered") =>
       Targets(u) \ caseGone \subseteq got[u]
  /\ stage[u] # None /\ request[u] = "close" =>
       u \in imported /\ Script[u].close /\ Complete(u)
  /\ stage[u] = "answered" /\ request[u] = "close" => RunOf(u) \in closed
  /\ exit[u] = 0 => /\ Complete(u) /\ Covers(u, {})
                    /\ Script[u].close => RunOf(u) \in closed
  /\ exit[u] = 2 => Script[u].strict /\ Unmatched(u) > 0

ClosedComplete ==
  \A r \in closed : \E u \in imported : RunOf(u) = r /\ Script[u].close /\ Complete(u)

-----------------------------------------------------------------------------
(* Reports and what is matched.                                            *)
LEMMA ReportTyped ==
  ASSUME NEW u \in Uploads
  PROVE  /\ IsFiniteSet(DOMAIN Report[u]) /\ DOMAIN Report[u] \subseteq Nat
         /\ \A i \in DOMAIN Report[u] : Report[u][i].key # None
  <1>1. Report[u] = Parsed(File[u], Script[u].form)
    BY DEF Report
  <1>2. /\ IsFiniteSet(DOMAIN File[u]) /\ DOMAIN File[u] \subseteq Nat
        /\ \A i \in DOMAIN File[u] : File[u][i].key # None
    BY UploadAssumption
  <1>3. DOMAIN Report[u] = {i \in DOMAIN File[u] : File[u][i].name # None}
    BY <1>1 DEF Parsed
  <1>4. IsFiniteSet(DOMAIN Report[u]) /\ DOMAIN Report[u] \subseteq DOMAIN File[u]
    BY <1>2, <1>3, FS_Subset
  <1>5. \A i \in DOMAIN Report[u] : Report[u][i].key = File[u][i].key
    BY <1>1, <1>3 DEF Parsed
  <1> QED  BY <1>2, <1>4, <1>5

\* An entry has one case, and a case one entry.
OneToOne(M) == \A x, y \in M : x[1] = y[1] \/ x[2] = y[2] => x = y

\* The entries of M, and its cases.
Entries(M) == {x[1] : x \in M}
Taken(M) == {x[2] : x \in M}

LEMMA MatchedOneToOne ==
  ASSUME NEW u \in Uploads, NEW S
  PROVE  /\ Matched(Report[u], S) \subseteq (DOMAIN Report[u]) \X S
         /\ OneToOne(Matched(Report[u], S))
  <1> DEFINE M == Matched(Report[u], S)
  <1>1. M \subseteq (DOMAIN Report[u]) \X S
    BY DEF Matched
  <1>2. ASSUME NEW x \in M
        PROVE  /\ x = <<x[1], x[2]>> /\ x[1] \in DOMAIN Report[u] /\ x[2] \in S
               /\ Found(Report[u][x[1]], S) = {x[2]}
               /\ ~ Claimed(Report[u], x[1], x[2], S)
               /\ x[1] \in Nat
    BY <1>1, <1>2, ReportTyped DEF Matched
  <1>3. ASSUME NEW x \in M, NEW y \in M, x[1] = y[1]
        PROVE  x = y
    BY <1>2, <1>3
  <1>4. ASSUME NEW x \in M, NEW y \in M, x[2] = y[2]
        PROVE  ~ x[1] < y[1]
    BY <1>2, <1>4 DEF Claimed
  <1> HIDE DEF M
  <1>5. ASSUME NEW x \in M, NEW y \in M, x[2] = y[2]
        PROVE  x = y
    BY <1>2, <1>4, <1>5
  <1> QED  BY <1>1, <1>3, <1>5 DEF OneToOne, M

LEMMA OneToOneCounts ==
  ASSUME NEW D, IsFiniteSet(D), NEW C, NEW M \in SUBSET (D \X C), OneToOne(M)
  PROVE  /\ IsFiniteSet(M) /\ Cardinality(M) \in Nat
         /\ Cardinality(M) <= Cardinality(D)
         /\ Cardinality(M) = Cardinality(Taken(M))
         /\ Cardinality(M) = Cardinality(Entries(M))
  <1>1. IsFiniteSet(M) /\ Cardinality(M) <= Cardinality(D)
    <2> DEFINE f == [x \in M |-> x[1]]
    <2>1. f \in [M -> D]
      OBVIOUS
    <2>2. \A x, y \in M : f[x] = f[y] => x = y
      BY DEF OneToOne
    <2>3. f \in Injection(M, D)
      BY <2>1, <2>2 DEF Injection, IsInjective
    <2> QED  BY <2>3, FS_Injection
  <1>2. Cardinality(M) = Cardinality({x[2] : x \in M})
    <2> DEFINE f == [x \in M |-> x[2]]
    <2>1. f \in [M -> {x[2] : x \in M}]
      OBVIOUS
    <2>2. \A x, y \in M : f[x] = f[y] => x = y
      BY DEF OneToOne
    <2>3. \A t \in {x[2] : x \in M} : \E x \in M : f[x] = t
      OBVIOUS
    <2>4. f \in Bijection(M, {x[2] : x \in M})
      BY <2>1, <2>2, <2>3 DEF Bijection, Injection, IsInjective, Surjection
    <2> QED  BY <1>1, <2>4, FS_Bijection DEF ExistsBijection
  <1>3. Cardinality(M) = Cardinality({x[1] : x \in M})
    <2> DEFINE f == [x \in M |-> x[1]]
    <2>1. f \in [M -> {x[1] : x \in M}]
      OBVIOUS
    <2>2. \A x, y \in M : f[x] = f[y] => x = y
      BY DEF OneToOne
    <2>3. \A t \in {x[1] : x \in M} : \E x \in M : f[x] = t
      OBVIOUS
    <2>4. f \in Bijection(M, {x[1] : x \in M})
      BY <2>1, <2>2, <2>3 DEF Bijection, Injection, IsInjective, Surjection
    <2> QED  BY <1>1, <2>4, FS_Bijection DEF ExistsBijection
  <1> QED  BY <1>1, <1>2, <1>3, FS_CardinalityType DEF Taken, Entries

(* What a handler holds.                                                   *)
LEMMA ItemsOneToOne ==
  ASSUME NEW u \in Uploads, Indexed(u)
  PROVE  /\ items[u] \subseteq (DOMAIN Report[u]) \X Cases
         /\ OneToOne(items[u])
         /\ IsFiniteSet(items[u])
         /\ Cardinality(items[u]) = Cardinality(Targets(u))
         /\ Cardinality(items[u]) = Cardinality({x[1] : x \in items[u]})
         /\ Unmatched(u) \in 0..Cardinality(DOMAIN Report[u])
  <1>1. PICK S \in SUBSET Cases : items[u] = {} \/ items[u] = Matched(Report[u], S)
    BY DEF Indexed
  <1>2. items[u] \subseteq (DOMAIN Report[u]) \X Cases /\ OneToOne(items[u])
    <2>1. CASE items[u] = {}
      BY <2>1 DEF OneToOne
    <2>2. CASE items[u] = Matched(Report[u], S)
      <3>1. items[u] \subseteq (DOMAIN Report[u]) \X S /\ OneToOne(items[u])
        BY <2>2, MatchedOneToOne
      <3>2. \A x \in (DOMAIN Report[u]) \X S : x \in (DOMAIN Report[u]) \X Cases
        OBVIOUS
      <3> QED  BY <3>1, <3>2
    <2> QED  BY <1>1, <2>1, <2>2
  <1>3. /\ IsFiniteSet(items[u]) /\ Cardinality(items[u]) \in Nat
        /\ Cardinality(items[u]) <= Cardinality(DOMAIN Report[u])
        /\ Cardinality(items[u]) = Cardinality({x[2] : x \in items[u]})
        /\ Cardinality(items[u]) = Cardinality({x[1] : x \in items[u]})
    <2>1. items[u] \in SUBSET ((DOMAIN Report[u]) \X Cases) /\ OneToOne(items[u])
      BY <1>2
    <2>2. IsFiniteSet(DOMAIN Report[u])
      BY ReportTyped
    <2> DEFINE D == DOMAIN Report[u]
               M == items[u]
    <2>3. IsFiniteSet(D) /\ M \in SUBSET (D \X Cases) /\ OneToOne(M)
      BY <2>1, <2>2
    <2> HIDE DEF D, M
    <2>4. /\ IsFiniteSet(M) /\ Cardinality(M) \in Nat
          /\ Cardinality(M) <= Cardinality(D)
          /\ Cardinality(M) = Cardinality(Taken(M))
          /\ Cardinality(M) = Cardinality(Entries(M))
      BY <2>3, OneToOneCounts
    <2> QED  BY <2>4 DEF D, M, Taken, Entries
  <1>4. Cardinality(DOMAIN Report[u]) \in Nat
    BY ReportTyped, FS_CardinalityType
  <1>5. Unmatched(u) \in 0..Cardinality(DOMAIN Report[u])
    BY <1>3, <1>4 DEF Unmatched
  <1> QED  BY <1>2, <1>3, <1>5 DEF Targets

LEMMA StatusOfItem ==
  ASSUME NEW u \in Uploads, Indexed(u), NEW x \in items[u]
  PROVE  /\ StatusFor(u, x[2]) = Report[u][x[1]].status
         /\ StatusFor(u, x[2]) \in Status
  <1>1. /\ x[1] \in DOMAIN Report[u] /\ x[1] \in Nat
        /\ \A y \in items[u] : y[2] = x[2] => y = x
    BY ItemsOneToOne, ReportTyped DEF OneToOne
  <1>2. {y[1] : y \in {z \in items[u] : z[2] = x[2]}} = {x[1]}
    BY <1>1
  <1>3. Max({x[1]}) = x[1]
    BY <1>1 DEF Max
  <1> QED  BY <1>1, <1>2, <1>3 DEF StatusFor, Indexed

-----------------------------------------------------------------------------
(* The parts of the state that uploads share, and those each owns.         *)
SharedTyped ==
  /\ caseGone \subseteq Cases /\ closed \subseteq Runs /\ imported \subseteq Uploads
  /\ result \in [Runs -> [Cases -> Status \union {None}]]
  /\ history \in [Runs -> [Cases -> Nat]]

Functions ==
  /\ made = [u \in Uploads |-> made[u]] /\ attached = [u \in Uploads |-> attached[u]]
  /\ pc = [u \in Uploads |-> pc[u]] /\ exit = [u \in Uploads |-> exit[u]]
  /\ tries = [u \in Uploads |-> tries[u]] /\ got = [u \in Uploads |-> got[u]]
  /\ todo = [u \in Uploads |-> todo[u]] /\ missed = [u \in Uploads |-> missed[u]]
  /\ request = [u \in Uploads |-> request[u]] /\ stage = [u \in Uploads |-> stage[u]]
  /\ items = [u \in Uploads |-> items[u]] /\ seen = [u \in Uploads |-> seen[u]]

OwnTyped(u) ==
  /\ made[u] \in Nat
  /\ attached[u] \in [Files(u) -> Nat]
  /\ pc[u] \in Requests \union {"done"} \union Files(u)
  /\ exit[u] \in {-1, 0, 1, 2} /\ (exit[u] = -1 <=> pc[u] # "done")
  /\ tries[u] \in 0..MaxAttempts
  /\ got[u] \subseteq Cases /\ todo[u] \subseteq Files(u)
  /\ missed[u] \in 0..Cardinality(DOMAIN Report[u])
  /\ items[u] \subseteq (DOMAIN Report[u]) \X Cases
  /\ seen[u] \in [Cases -> Status \union {None}]
  /\ stage[u] \in {None, "asked", "matched", "compared", "answered", "refused"}

Holds(u) == /\ OwnTyped(u) /\ Exchange(u) /\ Once(u) /\ Imports(u) /\ Indexed(u)
            /\ SeenSupported(u) /\ Goes(u)

IInv == /\ SharedTyped /\ Functions /\ \A u \in Uploads : Holds(u)
        /\ ResultsSupported /\ ClosedComplete

LEMMA TypesFollow ==
  ASSUME IInv
  PROVE  TypeOK
  <1>1. made \in [Uploads -> Nat]
    BY DEF IInv, Functions, Holds, OwnTyped
  <1> QED  BY <1>1 DEF IInv, Holds, SharedTyped, OwnTyped, TypeOK, Files

LEMMA RunOfUpload ==
  ASSUME NEW u \in Uploads
  PROVE  /\ RunOf(u) \in Runs
         /\ Script[u].create => RunOf(u) = u /\ \A v \in Uploads : RunOf(v) = u => v = u
  BY UploadAssumption DEF RunOf, Runs

\* A file is no other request.
LEMMA FilesAreFiles ==
  ASSUME NEW u \in Uploads, NEW f \in Files(u)
  PROVE  f \notin Requests /\ f # "done" /\ f # None
  BY UploadAssumption DEF Files

LEMMA InitHolds ==
  ASSUME Init
  PROVE  IInv
  <1>1. SharedTyped
    BY DEF Init, SharedTyped
  <1>2. Functions
    BY DEF Init, Functions
  <1>3. ResultsSupported /\ ClosedComplete
    BY DEF Init, ResultsSupported, ClosedComplete
  <1>4. ASSUME NEW u \in Uploads PROVE Holds(u)
    <2>1. /\ caseGone = {} /\ imported = {} /\ made[u] = 0
          /\ attached[u] = [f \in Files(u) |-> 0]
          /\ pc[u] = IF Script[u].create THEN "create" ELSE "import"
          /\ exit[u] = -1 /\ tries[u] = 0 /\ got[u] = {} /\ todo[u] = {}
          /\ missed[u] = 0 /\ request[u] = None /\ stage[u] = None /\ items[u] = {}
      BY DEF Init, Files
    <2>2. seen[u] = [c \in Cases |-> None]
      BY RunOfUpload DEF Init
    <2>3. Cardinality(DOMAIN Report[u]) \in Nat
      BY ReportTyped, FS_CardinalityType
    <2>4. MaxAttempts \in Nat \ {0}
      BY UploadAssumption
    <2>5. pc[u] \in {"create", "import"} /\ pc[u] \notin Files(u)
      BY <2>1, FilesAreFiles DEF Requests
    <2>6. OwnTyped(u)
      BY <2>1, <2>2, <2>3, <2>4 DEF OwnTyped, Requests
    <2>7. Exchange(u)
      BY <2>1, <2>4, <2>5 DEF Exchange, None
    <2>8. Once(u)
      BY <2>1 DEF Once, None
    <2>9. Imports(u)
      BY <2>1, <2>5 DEF Imports, Later, None
    <2>10. Indexed(u)
      BY <2>1 DEF Indexed
    <2>11. SeenSupported(u)
      BY <2>2 DEF SeenSupported
    <2>12. Goes(u)
      BY <2>1, <2>5 DEF Goes, Later
    <2> QED  BY <2>6, <2>7, <2>8, <2>9, <2>10, <2>11, <2>12 DEF Holds
  <1> QED  BY <1>1, <1>2, <1>3, <1>4 DEF IInv

-----------------------------------------------------------------------------
(* What the steps of others do to an upload.                               *)
Same(u) ==
  /\ made'[u] = made[u] /\ attached'[u] = attached[u]
  /\ pc'[u] = pc[u] /\ exit'[u] = exit[u] /\ tries'[u] = tries[u]
  /\ got'[u] = got[u] /\ todo'[u] = todo[u] /\ missed'[u] = missed[u]
  /\ request'[u] = request[u] /\ stage'[u] = stage[u]
  /\ items'[u] = items[u] /\ seen'[u] = seen[u]

Grows ==
  /\ caseGone \subseteq caseGone' /\ closed \subseteq closed'
  /\ imported \subseteq imported'
  /\ \A u \in imported : items'[u] = items[u]
  /\ \A r \in Runs, c \in Cases : result[r][c] # None => result'[r][c] # None

LEMMA SupportGrows ==
  ASSUME Grows, NEW r, NEW c, NEW s, Supported(r, c, s)
  PROVE  Supported(r, c, s)'
  BY DEF Grows, Supported, Report

LEMMA CoversGrows ==
  ASSUME Grows, NEW u \in Uploads, NEW F, Covers(u, F), items'[u] = items[u],
         attached'[u] = attached[u]
  PROVE  Covers(u, F)'
  BY DEF Grows, Covers, Targets, Files

LEMMA OthersHold ==
  ASSUME Grows, NEW u \in Uploads, Holds(u), Same(u), u \in imported' => u \in imported
  PROVE  Holds(u)'
  <1>1. /\ OwnTyped(u) /\ Exchange(u) /\ Once(u) /\ Imports(u) /\ Indexed(u)
        /\ SeenSupported(u) /\ Goes(u)
    BY DEF Holds
  <1>2. OwnTyped(u)'
    BY <1>1 DEF OwnTyped, Same, Files, Report
  <1>3. Exchange(u)'
    BY <1>1 DEF Exchange, Same, Files
  <1>4. Once(u)'
    BY <1>1 DEF Once, Same, Files
  <1>5. Imports(u)'
    <2>1. Targets(u)' = Targets(u)
      BY DEF Targets, Same
    <2>2. \A c \in Targets(u) : c \in Cases
      BY <1>1 DEF OwnTyped, Targets
    <2>3. u \in imported' <=> u \in imported
      BY DEF Grows
    <2>4. \A c \in Targets(u) : result[RunOf(u)][c] # None => result'[RunOf(u)][c] # None
      BY <2>2, RunOfUpload DEF Grows
    <2> QED  BY <1>1, <2>1, <2>3, <2>4 DEF Imports, Same, Later, Files, RunOf
  <1>6. Indexed(u)'
    BY <1>1 DEF Indexed, Same, Grows, Report
  <1>7. SeenSupported(u)'
    BY <1>1, SupportGrows, RunOfUpload DEF SeenSupported, Same, Grows, RunOf
  <1>8. Goes(u)'
    <2>1. /\ Targets(u)' = Targets(u) /\ Unmatched(u)' = Unmatched(u)
          /\ Complete(u)' = Complete(u)
      BY DEF Targets, Unmatched, Complete, Same, Report
    <2>2. \A F : Covers(u, F) => Covers(u, F)'
      BY CoversGrows DEF Same
    <2>3. u \in imported' <=> u \in imported
      BY DEF Grows
    <2>4. /\ pc'[u] \in Files(u) => Covers(u, todo[u])' /\ todo'[u] = todo[u]
          /\ Covers(u, {}) => Covers(u, {})'
      BY <1>1, <2>2 DEF Goes, Same
    <2>5. RunOf(u) \in closed => RunOf(u) \in closed'
      BY DEF Grows
    <2>6. Targets(u) \ caseGone' \subseteq Targets(u) \ caseGone
      BY DEF Grows
    <2> QED  BY <1>1, <2>1, <2>3, <2>4, <2>5, <2>6 DEF Goes, Same, Later, Files, RunOf
  <1> QED  BY <1>2, <1>3, <1>4, <1>5, <1>6, <1>7, <1>8 DEF Holds

Only(u) == Functions' /\ \A v \in Uploads \ {u} : Same(v)

\* A step that writes no results and closes no run.
LEMMA QuietStep ==
  ASSUME IInv, NEW u \in Uploads, Only(u), Holds(u)',
         UNCHANGED <<result, history, closed, imported>>, caseGone' = caseGone,
         u \in imported => items'[u] = items[u]
  PROVE  IInv'
  <1>1. Grows
    BY DEF Grows, Only, Same, IInv, SharedTyped
  <1>2. \A v \in Uploads : Holds(v)'
    BY <1>1, OthersHold DEF IInv, Only
  <1>3. ResultsSupported'
    BY <1>1, SupportGrows DEF IInv, ResultsSupported
  <1>4. ClosedComplete'
    BY <1>1 DEF IInv, ClosedComplete, Grows, Complete, Unmatched, RunOf, Report
  <1>5. SharedTyped'
    BY DEF IInv, SharedTyped
  <1> QED  BY <1>2, <1>3, <1>4, <1>5 DEF IInv, Only

-----------------------------------------------------------------------------
(* What a step does to its own upload.  A step that writes no results, no  *)
(* items and closes no run leaves what the invariant says of them.         *)
Calm(u) == /\ Only(u) /\ items'[u] = items[u]
           /\ UNCHANGED <<caseGone, result, history, closed, imported>>

LEMMA CalmFacts ==
  ASSUME IInv, NEW u \in Uploads, Calm(u)
  PROVE  /\ Grows /\ Indexed(u)'
         /\ seen'[u] = seen[u] => SeenSupported(u)'
         /\ Targets(u)' = Targets(u) /\ Unmatched(u)' = Unmatched(u)
         /\ Complete(u)' = Complete(u)
         /\ attached'[u] = attached[u] => \A F : Covers(u, F) => Covers(u, F)'
  <1>1. Grows
    BY DEF Grows, Calm, Only, Same, IInv, SharedTyped
  <1>2. Indexed(u) /\ SeenSupported(u)
    BY DEF IInv, Holds
  <1>3. Indexed(u)'
    BY <1>2 DEF Indexed, Calm, Report
  <1>4. seen'[u] = seen[u] => SeenSupported(u)'
    BY <1>1, <1>2, SupportGrows DEF SeenSupported, Calm, RunOf
  <1>5. /\ Targets(u)' = Targets(u) /\ Unmatched(u)' = Unmatched(u)
        /\ Complete(u)' = Complete(u)
    BY DEF Targets, Unmatched, Complete, Calm, Report
  <1>6. attached'[u] = attached[u] => \A F : Covers(u, F) => Covers(u, F)'
    BY <1>1, CoversGrows DEF Calm
  <1> QED  BY <1>1, <1>3, <1>4, <1>5, <1>6

\* The handler of an import that is not answered has not committed it.
LEMMA NotYetImported ==
  ASSUME NEW u \in Uploads, Holds(u), request[u] = "import",
         stage[u] \in {"asked", "matched", "compared"}
  PROVE  /\ u \notin imported /\ pc[u] \in {"import", "done"} /\ exit[u] \notin {0, 2}
         /\ pc[u] \notin Later(u)
         /\ \A f \in Files(u) : f \in todo[u] => attached[u][f] = 0
  BY FilesAreFiles DEF Holds, Imports, Exchange, Once, Later, None, Requests

LEMMA CreateRunHolds ==
  ASSUME IInv, NEW u \in Uploads, CreateRun(u)
  PROVE  Calm(u) /\ Holds(u)'
  <1>1. Holds(u) /\ Functions
    BY DEF IInv
  <1>2. /\ request[u] = "create" /\ stage[u] = "asked"
        /\ stage'[u] = "answered" /\ made'[u] = made[u] + 1
        /\ attached'[u] = attached[u] /\ pc'[u] = pc[u] /\ exit'[u] = exit[u]
        /\ tries'[u] = tries[u] /\ got'[u] = got[u] /\ todo'[u] = todo[u]
        /\ missed'[u] = missed[u] /\ request'[u] = request[u]
        /\ items'[u] = items[u] /\ seen'[u] = seen[u] /\ imported' = imported
        /\ result' = result /\ closed' = closed
    BY <1>1 DEF CreateRun, Handler, To, client, Functions
  <1>3. Calm(u)
    BY <1>1, <1>2 DEF CreateRun, To, client, Functions, Calm, Only, Same
  <1>4. /\ pc[u] \in {"create", "done"} /\ made[u] = 0
        /\ \A f \in Files(u) : f # "create"
    BY <1>1, <1>2, FilesAreFiles DEF Holds, Exchange, Once, None, Requests
  <1>5. OwnTyped(u)' /\ Exchange(u)'
    BY <1>1, <1>2 DEF Holds, OwnTyped, Exchange, Files, Report, None
  <1>6. Once(u)'
    BY <1>1, <1>2, <1>4 DEF Holds, Once, Files, None
  <1>7. Imports(u)'
    BY <1>1, <1>2, <1>3, <1>4, CalmFacts DEF Holds, Imports, Later, Files, RunOf
  <1>8. Goes(u)'
    <2>1. pc[u] \notin Later(u) /\ pc[u] # "cases" /\ pc[u] # "results" /\ pc[u] # "close"
      BY <1>4, FilesAreFiles DEF Later, Requests
    <2> QED  BY <1>1, <1>2, <1>3, <2>1, CalmFacts DEF Holds, Goes, Later, Files, RunOf
  <1> QED  BY <1>2, <1>3, <1>5, <1>6, <1>7, <1>8, CalmFacts DEF Holds

LEMMA BuildIndexHolds ==
  ASSUME IInv, NEW u \in Uploads, BuildIndex(u)
  PROVE  /\ Only(u) /\ UNCHANGED <<caseGone, result, history, closed, imported>>
         /\ u \notin imported /\ Holds(u)'
  <1>1. Holds(u) /\ Functions
    BY DEF IInv
  <1>2. /\ request[u] = "import" /\ stage[u] = "asked"
        /\ \/ /\ stage'[u] = "matched"
              /\ items'[u] = Matched(Report[u], Cases \ caseGone)
              /\ \A x \in items'[u] : Report[u][x[1]].status \in Status
           \/ stage'[u] = "refused" /\ items'[u] = items[u]
        /\ made'[u] = made[u] /\ attached'[u] = attached[u] /\ pc'[u] = pc[u]
        /\ exit'[u] = exit[u] /\ tries'[u] = tries[u] /\ got'[u] = got[u]
        /\ todo'[u] = todo[u] /\ missed'[u] = missed[u] /\ request'[u] = request[u]
        /\ seen'[u] = seen[u] /\ imported' = imported
        /\ result' = result /\ closed' = closed /\ caseGone' = caseGone
    BY <1>1 DEF BuildIndex, Handler, To, client, server, Functions
  <1>3. Only(u) /\ UNCHANGED <<caseGone, result, history, closed, imported>>
    BY <1>1, <1>2 DEF BuildIndex, To, client, server, Functions, Only, Same
  <1>4. /\ u \notin imported /\ pc[u] \in {"import", "done"} /\ exit[u] \notin {0, 2}
        /\ pc[u] \notin Later(u)
        /\ \A f \in Files(u) : f \in todo[u] => attached[u][f] = 0
    BY <1>1, <1>2, NotYetImported
  <1>5. Grows
    BY <1>3, <1>4 DEF Grows, Only, Same, IInv, SharedTyped
  <1>6. OwnTyped(u)' /\ Exchange(u)'
    <2>1. items'[u] \subseteq (DOMAIN Report[u]) \X Cases
      <3>1. Matched(Report[u], Cases \ caseGone)
              \subseteq (DOMAIN Report[u]) \X (Cases \ caseGone)
        BY MatchedOneToOne
      <3>2. \A x \in (DOMAIN Report[u]) \X (Cases \ caseGone) :
              x \in (DOMAIN Report[u]) \X Cases
        OBVIOUS
      <3>3. items[u] \subseteq (DOMAIN Report[u]) \X Cases
        BY <1>1 DEF Holds, OwnTyped
      <3> QED  BY <1>2, <3>1, <3>2, <3>3
    <2> QED  BY <1>1, <1>2, <2>1 DEF Holds, OwnTyped, Exchange, Files, Report, None
  <1>7. Once(u)'
    BY <1>1, <1>2, <1>4 DEF Holds, Once, Files, None
  <1>8. Imports(u)'
    BY <1>2, <1>4 DEF Imports, Later, Files
  <1>9. Indexed(u)'
    <2>1. CASE items'[u] = items[u]
      BY <1>1, <1>2, <2>1 DEF Holds, Indexed, Report
    <2>2. CASE /\ items'[u] = Matched(Report[u], Cases \ caseGone)
               /\ \A x \in items'[u] : Report[u][x[1]].status \in Status
      BY <1>2, <2>2 DEF Indexed, Report
    <2> QED  BY <1>2, <2>1, <2>2
  <1>10. SeenSupported(u)'
    BY <1>1, <1>2, <1>5, SupportGrows DEF Holds, SeenSupported, RunOf
  <1>11. Goes(u)'
    BY <1>2, <1>4 DEF Goes, Later, Files
  <1> QED  BY <1>3, <1>4, <1>6, <1>7, <1>8, <1>9, <1>10, <1>11 DEF Holds

LEMMA LookUpHolds ==
  ASSUME IInv, NEW u \in Uploads, LookUp(u)
  PROVE  Calm(u) /\ Holds(u)'
  <1>1. Holds(u) /\ Functions
    BY DEF IInv
  <1>2. /\ request[u] = "import" /\ stage[u] = "matched"
        /\ stage'[u] \in {"refused", "compared"}
        /\ seen'[u] = result[RunOf(u)]
        /\ made'[u] = made[u] /\ attached'[u] = attached[u] /\ pc'[u] = pc[u]
        /\ exit'[u] = exit[u] /\ tries'[u] = tries[u] /\ got'[u] = got[u]
        /\ todo'[u] = todo[u] /\ missed'[u] = missed[u] /\ request'[u] = request[u]
        /\ items'[u] = items[u] /\ imported' = imported
        /\ result' = result /\ closed' = closed /\ caseGone' = caseGone
    BY <1>1 DEF LookUp, Handler, To, client, server, Functions
  <1>3. Calm(u)
    BY <1>1, <1>2 DEF LookUp, To, client, server, Functions, Only, Same, Calm
  <1>4. /\ u \notin imported /\ pc[u] \in {"import", "done"} /\ exit[u] \notin {0, 2}
        /\ pc[u] \notin Later(u)
        /\ \A f \in Files(u) : f \in todo[u] => attached[u][f] = 0
    BY <1>1, <1>2, NotYetImported
  <1>5. seen'[u] \in [Cases -> Status \union {None}]
    BY <1>2, RunOfUpload DEF IInv, SharedTyped
  <1>6. OwnTyped(u)' /\ Exchange(u)'
    BY <1>1, <1>2, <1>5 DEF Holds, OwnTyped, Exchange, Files, Report, None
  <1>7. Once(u)'
    BY <1>1, <1>2, <1>4 DEF Holds, Once, Files, None
  <1>8. Imports(u)'
    BY <1>2, <1>4 DEF Imports, Later, Files
  <1>9. SeenSupported(u)'
    <2> SUFFICES ASSUME NEW c \in Cases, seen'[u][c] # None
                 PROVE  /\ Supported(RunOf(u), c, seen[u][c])'
                        /\ result'[RunOf(u)][c] # None
      BY DEF SeenSupported, RunOf
    <2>1. PICK s : s = result[RunOf(u)][c]
      OBVIOUS
    <2>2. Supported(RunOf(u), c, s)
      BY <1>2, <2>1, RunOfUpload DEF IInv, ResultsSupported
    <2>3. Supported(RunOf(u), c, s)'
      BY <1>3, <2>2, CalmFacts, SupportGrows DEF RunOf
    <2> QED  BY <1>2, <2>1, <2>3
  <1>10. Goes(u)'
    BY <1>2, <1>4 DEF Goes, Later, Files
  <1> QED  BY <1>3, <1>6, <1>7, <1>8, <1>9, <1>10, CalmFacts DEF Holds

(* The one step that writes results.                                       *)
LEMMA SubmitManyEffect ==
  ASSUME IInv, NEW u \in Uploads, SubmitMany(u)
  PROVE  /\ request[u] = "import" /\ stage[u] = "compared" /\ Only(u)
         /\ made'[u] = made[u] /\ attached'[u] = attached[u] /\ pc'[u] = pc[u]
         /\ exit'[u] = exit[u] /\ tries'[u] = tries[u] /\ got'[u] = got[u]
         /\ todo'[u] = todo[u] /\ missed'[u] = missed[u] /\ request'[u] = request[u]
         /\ items'[u] = items[u] /\ seen'[u] = seen[u]
         /\ closed' = closed /\ caseGone' = caseGone
         /\ \/ stage'[u] = "refused" /\ UNCHANGED <<result, history, imported>>
            \/ /\ stage'[u] = "answered" /\ imported' = imported \union {u}
               /\ \A c \in Targets(u) : seen[u][c] = None => result[RunOf(u)][c] = None
               /\ result' = [result EXCEPT ![RunOf(u)] =
                    [c \in Cases |->
                       IF c \in Targets(u) /\ seen[u][c] # StatusFor(u, c)
                       THEN StatusFor(u, c) ELSE result[RunOf(u)][c]]]
               /\ history' = [history EXCEPT ![RunOf(u)] =
                    [c \in Cases |-> history[RunOf(u)][c] +
                      (IF c \in Targets(u) /\ seen[u][c] # StatusFor(u, c)
                       THEN 1 ELSE 0)]]
  <1>1. Functions
    BY DEF IInv
  <1>2. /\ request[u] = "import" /\ stage[u] = "compared"
        /\ UNCHANGED <<caseGone, closed, made, attached, client, request, items, seen>>
        /\ stage' = [stage EXCEPT ![u] = stage'[u]]
    BY <1>1 DEF SubmitMany, Handler, To, Functions
  <1>3. Only(u)
    BY <1>1, <1>2 DEF client, Functions, Only, Same
  <1>4. CASE \E c \in Targets(u) : seen[u][c] = None /\ result[RunOf(u)][c] # None
    <2>1. To(u, "refused") /\ UNCHANGED <<result, history, imported>>
      BY <1>4 DEF SubmitMany
    <2>2. stage'[u] = "refused"
      BY <1>1, <2>1 DEF To, Functions
    <2> QED  BY <1>2, <1>3, <2>1, <2>2 DEF client
  <1>5. CASE ~ \E c \in Targets(u) : seen[u][c] = None /\ result[RunOf(u)][c] # None
    <2>1. /\ result' = [result EXCEPT ![RunOf(u)] =
                    [c \in Cases |->
                       IF c \in Targets(u) /\ seen[u][c] # StatusFor(u, c)
                       THEN StatusFor(u, c) ELSE result[RunOf(u)][c]]]
          /\ imported' = imported \union {u} /\ To(u, "answered")
      BY <1>5 DEF SubmitMany
    <2>2. history' = [history EXCEPT ![RunOf(u)] =
                    [c \in Cases |-> history[RunOf(u)][c] +
                      (IF c \in Targets(u) /\ seen[u][c] # StatusFor(u, c)
                       THEN 1 ELSE 0)]]
      BY <1>5 DEF SubmitMany, Records
    <2>3. stage'[u] = "answered"
      BY <1>1, <2>1 DEF To, Functions
    <2> QED  BY <1>2, <1>3, <1>5, <2>1, <2>2, <2>3 DEF client
  <1> QED  BY <1>4, <1>5

LEMMA RefusedImportHolds ==
  ASSUME IInv, NEW u \in Uploads, SubmitMany(u), stage'[u] = "refused"
  PROVE  Calm(u) /\ Holds(u)'
  <1>1. Holds(u)
    BY DEF IInv
  <1>2. /\ request[u] = "import" /\ stage[u] = "compared" /\ Only(u)
        /\ made'[u] = made[u] /\ attached'[u] = attached[u] /\ pc'[u] = pc[u]
        /\ exit'[u] = exit[u] /\ tries'[u] = tries[u] /\ got'[u] = got[u]
        /\ todo'[u] = todo[u] /\ missed'[u] = missed[u] /\ request'[u] = request[u]
        /\ items'[u] = items[u] /\ seen'[u] = seen[u]
        /\ closed' = closed /\ caseGone' = caseGone
        /\ UNCHANGED <<result, history, imported>>
    BY SubmitManyEffect
  <1>3. Calm(u)
    BY <1>2 DEF Calm
  <1>4. /\ u \notin imported /\ pc[u] \in {"import", "done"} /\ exit[u] \notin {0, 2}
        /\ pc[u] \notin Later(u)
        /\ \A f \in Files(u) : f \in todo[u] => attached[u][f] = 0
    BY <1>1, <1>2, NotYetImported
  <1>5. OwnTyped(u)' /\ Exchange(u)'
    BY <1>1, <1>2 DEF Holds, OwnTyped, Exchange, Files, Report, None
  <1>6. Once(u)'
    BY <1>1, <1>2, <1>4 DEF Holds, Once, Files, None
  <1>7. Imports(u)'
    BY <1>2, <1>4 DEF Imports, Later, Files
  <1>8. Goes(u)'
    BY <1>2, <1>4 DEF Goes, Later, Files
  <1> QED  BY <1>2, <1>3, <1>5, <1>6, <1>7, <1>8, CalmFacts DEF Holds

\* What the handler wrote for a case is what its report says.
LEMMA SubmitManyWrites ==
  ASSUME IInv, NEW u \in Uploads, SubmitMany(u), stage'[u] = "answered"
  PROVE  /\ SharedTyped'
         /\ \A r \in Runs, c \in Cases :
              \/ result'[r][c] = result[r][c]
              \/ r = RunOf(u) /\ c \in Targets(u) /\ result'[r][c] = StatusFor(u, c)
                 /\ StatusFor(u, c) \in Status
         /\ \A c \in Targets(u) : result'[RunOf(u)][c] # None
  <1>1. Holds(u) /\ SharedTyped
    BY DEF IInv
  <1>2. /\ stage[u] = "compared" /\ closed' = closed /\ caseGone' = caseGone
        /\ imported' = imported \union {u}
        /\ result' = [result EXCEPT ![RunOf(u)] =
             [c \in Cases |->
                IF c \in Targets(u) /\ seen[u][c] # StatusFor(u, c)
                THEN StatusFor(u, c) ELSE result[RunOf(u)][c]]]
        /\ history' = [history EXCEPT ![RunOf(u)] =
             [c \in Cases |-> history[RunOf(u)][c] +
               (IF c \in Targets(u) /\ seen[u][c] # StatusFor(u, c) THEN 1 ELSE 0)]]
    BY SubmitManyEffect
  <1>3. \A c \in Targets(u) : c \in Cases /\ StatusFor(u, c) \in Status
    <2>1. Indexed(u) /\ \A x \in items[u] : x[2] \in Cases
      BY <1>1 DEF Holds, OwnTyped
    <2> QED  BY <2>1, StatusOfItem DEF Targets
  <1>4. RunOf(u) \in Runs
    BY RunOfUpload
  <1>5. result' \in [Runs -> [Cases -> Status \union {None}]]
    <2>1. [c \in Cases |-> IF c \in Targets(u) /\ seen[u][c] # StatusFor(u, c)
                           THEN StatusFor(u, c) ELSE result[RunOf(u)][c]]
            \in [Cases -> Status \union {None}]
      BY <1>1, <1>3, <1>4 DEF SharedTyped
    <2> QED  BY <1>1, <1>2, <1>4, <2>1 DEF SharedTyped
  <1>6. history' \in [Runs -> [Cases -> Nat]]
    <2>1. [c \in Cases |-> history[RunOf(u)][c] +
               (IF c \in Targets(u) /\ seen[u][c] # StatusFor(u, c) THEN 1 ELSE 0)]
            \in [Cases -> Nat]
      BY <1>1, <1>4 DEF SharedTyped
    <2> QED  BY <1>1, <1>2, <1>4, <2>1 DEF SharedTyped
  <1>7. \A r \in Runs, c \in Cases :
          \/ result'[r][c] = result[r][c]
          \/ r = RunOf(u) /\ c \in Targets(u) /\ result'[r][c] = StatusFor(u, c)
    BY <1>1, <1>2, <1>4 DEF SharedTyped
  <1>8. ASSUME NEW c \in Targets(u) PROVE result'[RunOf(u)][c] # None
    <2>1. c \in Cases /\ StatusFor(u, c) \in Status
      BY <1>3
    <2>2. result'[RunOf(u)][c] = IF seen[u][c] # StatusFor(u, c)
                                 THEN StatusFor(u, c) ELSE result[RunOf(u)][c]
      BY <1>1, <1>2, <1>4, <2>1 DEF SharedTyped
    <2>3. seen[u][c] # None => result[RunOf(u)][c] # None
      BY <1>1, <2>1 DEF Holds, SeenSupported
    <2>4. StatusFor(u, c) # None
      BY <2>1 DEF Status, None
    <2> QED  BY <2>2, <2>3, <2>4
  <1> QED  BY <1>1, <1>2, <1>3, <1>5, <1>6, <1>7, <1>8 DEF SharedTyped

LEMMA SubmitManyHolds ==
  ASSUME IInv, NEW u \in Uploads, SubmitMany(u), stage'[u] = "answered"
  PROVE  IInv'
  <1>1. Holds(u) /\ SharedTyped
    BY DEF IInv
  <1>2. /\ request[u] = "import" /\ stage[u] = "compared" /\ Only(u)
        /\ made'[u] = made[u] /\ attached'[u] = attached[u] /\ pc'[u] = pc[u]
        /\ exit'[u] = exit[u] /\ tries'[u] = tries[u] /\ got'[u] = got[u]
        /\ todo'[u] = todo[u] /\ missed'[u] = missed[u] /\ request'[u] = request[u]
        /\ items'[u] = items[u] /\ seen'[u] = seen[u]
        /\ closed' = closed /\ caseGone' = caseGone
        /\ imported' = imported \union {u}
    BY SubmitManyEffect
  <1>3. /\ SharedTyped'
        /\ \A r \in Runs, c \in Cases :
             \/ result'[r][c] = result[r][c]
             \/ r = RunOf(u) /\ c \in Targets(u) /\ result'[r][c] = StatusFor(u, c)
                /\ StatusFor(u, c) \in Status
        /\ \A c \in Targets(u) : result'[RunOf(u)][c] # None
    BY SubmitManyWrites
  <1>4. /\ u \notin imported /\ pc[u] \in {"import", "done"} /\ exit[u] \notin {0, 2}
        /\ pc[u] \notin Later(u)
        /\ \A f \in Files(u) : f \in todo[u] => attached[u][f] = 0
    BY <1>1, <1>2, NotYetImported
  <1>5. Grows
    <2>1. \A s \in Status : s # None
      BY DEF Status, None
    <2>2. \A v \in imported : items'[v] = items[v]
      BY <1>1, <1>2 DEF Only, Same, SharedTyped
    <2> QED  BY <1>2, <1>3, <2>1, <2>2 DEF Grows
  <1>6. Holds(u)'
    <2>1. OwnTyped(u)' /\ Exchange(u)'
      BY <1>1, <1>2 DEF Holds, OwnTyped, Exchange, Files, Report, None
    <2>2. Once(u)'
      <3>1. \A f \in Files(u) : f # "import"
        BY FilesAreFiles DEF Requests
      <3> QED  BY <1>1, <1>2, <1>4, <3>1 DEF Holds, Once, Files, None
    <2>3. Imports(u)'
      BY <1>2, <1>3, <1>4 DEF Imports, Later, Files, RunOf, Targets
    <2>4. Indexed(u)'
      BY <1>1, <1>2 DEF Holds, Indexed, Report
    <2>5. SeenSupported(u)'
      BY <1>1, <1>2, <1>5, SupportGrows, RunOfUpload
         DEF Holds, SeenSupported, RunOf, Grows
    <2>6. Goes(u)'
      BY <1>2, <1>4 DEF Goes, Later, Files
    <2> QED  BY <2>1, <2>2, <2>3, <2>4, <2>5, <2>6 DEF Holds
  <1>7. \A v \in Uploads : Holds(v)'
    BY <1>2, <1>5, <1>6, OthersHold DEF IInv, Only
  <1>8. ResultsSupported'
    <2> SUFFICES ASSUME NEW r \in Runs, NEW c \in Cases, result'[r][c] # None
                 PROVE  Supported(r, c, result[r][c])'
      BY DEF ResultsSupported
    <2>1. PICK s : s = result'[r][c]
      OBVIOUS
    <2>2. CASE s = result[r][c]
      BY <1>5, <2>1, <2>2, SupportGrows DEF IInv, ResultsSupported
    <2>3. CASE r = RunOf(u) /\ c \in Targets(u) /\ s = StatusFor(u, c)
      <3>1. PICK x \in items[u] : x[2] = c
        BY <2>3 DEF Targets
      <3>2. Report[u][x[1]].status = s
        BY <1>1, <2>3, <3>1, StatusOfItem DEF Holds
      <3>3. Supported(r, c, s)'
        BY <1>2, <2>3, <3>1, <3>2 DEF Supported, RunOf, Report
      <3> QED  BY <2>1, <3>3
    <2> QED  BY <1>3, <2>1, <2>2, <2>3
  <1>9. ClosedComplete'
    BY <1>2, <1>5 DEF IInv, ClosedComplete, Grows, Complete, Unmatched, RunOf, Report
  <1> QED  BY <1>2, <1>3, <1>7, <1>8, <1>9 DEF IInv, Only

LEMMA ReadHolds ==
  ASSUME IInv, NEW u \in Uploads, Read(u)
  PROVE  Calm(u) /\ Holds(u)'
  <1>1. Holds(u) /\ Functions
    BY DEF IInv
  <1>2. /\ request[u] \in {"results", "cases"} /\ stage[u] = "asked"
        /\ stage'[u] = "answered"
        /\ got'[u] = IF request[u] = "results" THEN LiveWithResult(u)
                     ELSE got[u] \ caseGone
        /\ made'[u] = made[u] /\ attached'[u] = attached[u] /\ pc'[u] = pc[u]
        /\ exit'[u] = exit[u] /\ tries'[u] = tries[u]
        /\ todo'[u] = todo[u] /\ missed'[u] = missed[u] /\ request'[u] = request[u]
        /\ items'[u] = items[u] /\ seen'[u] = seen[u] /\ imported' = imported
        /\ result' = result /\ closed' = closed /\ caseGone' = caseGone
    BY <1>1 DEF Read, To, server, Functions
  <1>3. Calm(u)
    BY <1>1, <1>2 DEF Read, To, server, Functions, Only, Same, Calm
  <1>4. /\ pc[u] \in {request[u], "done"}
        /\ \A f \in Files(u) : /\ f # request[u] /\ f # pc[u]
                               /\ f \in todo[u] => attached[u][f] = 0
    BY <1>1, <1>2, FilesAreFiles DEF Holds, Exchange, Once, None, Requests
  <1>5. got'[u] \subseteq Cases
    BY <1>1, <1>2 DEF LiveWithResult, Holds, OwnTyped
  <1>6. OwnTyped(u)' /\ Exchange(u)'
    BY <1>1, <1>2, <1>5 DEF Holds, OwnTyped, Exchange, Files, Report, None
  <1>7. Once(u)'
    BY <1>1, <1>2, <1>4 DEF Holds, Once, Files, None
  <1>8. Imports(u)'
    BY <1>1, <1>2, <1>3, <1>4, CalmFacts DEF Holds, Imports, Later, Files, RunOf
  <1>9. Goes(u)'
    <2>1. pc[u] = "results" => Targets(u) \ caseGone \subseteq LiveWithResult(u)
      <3>1. pc[u] = "results" => \A c \in Targets(u) : result[RunOf(u)][c] # None
        BY <1>1 DEF Holds, Imports, Later
      <3>2. Targets(u) \subseteq Cases
        BY <1>1 DEF Holds, OwnTyped, Targets
      <3> QED  BY <3>1, <3>2 DEF LiveWithResult
    <2>2. pc[u] = "cases" => Targets(u) \ caseGone \subseteq got[u]
      BY <1>1 DEF Holds, Goes
    <2>3. (pc[u] = "cases" \/ pc[u] = "results") => Targets(u) \ caseGone \subseteq got'[u]
      BY <1>2, <1>4, <2>1, <2>2
    <2>4. pc[u] # "close" /\ pc[u] \notin Files(u) /\ request[u] # "close"
      BY <1>2, <1>4
    <2>5. exit[u] = 0 => Covers(u, {})'
      BY <1>1, <1>2, <1>3, CalmFacts DEF Holds, Goes
    <2> QED  BY <1>1, <1>2, <1>3, <2>3, <2>4, <2>5, CalmFacts
             DEF Holds, Goes, Later, Files, RunOf
  <1> QED  BY <1>2, <1>3, <1>6, <1>7, <1>8, <1>9, CalmFacts DEF Holds

LEMMA AttachHolds ==
  ASSUME IInv, NEW u \in Uploads, Attach(u)
  PROVE  Calm(u) /\ Holds(u)'
  <1>1. Holds(u) /\ Functions
    BY DEF IInv
  <1>2. PICK f \in Files(u) : /\ request[u] = f /\ stage[u] = "asked"
                              /\ attached' = [attached EXCEPT ![u][f] = @ + 1]
    BY DEF Attach, Handler, Files
  <1>3. /\ stage'[u] = "answered"
        /\ made'[u] = made[u] /\ pc'[u] = pc[u] /\ got'[u] = got[u]
        /\ exit'[u] = exit[u] /\ tries'[u] = tries[u]
        /\ todo'[u] = todo[u] /\ missed'[u] = missed[u] /\ request'[u] = request[u]
        /\ items'[u] = items[u] /\ seen'[u] = seen[u] /\ imported' = imported
        /\ result' = result /\ closed' = closed /\ caseGone' = caseGone
    BY <1>1 DEF Attach, To, client, Functions
  <1>4. Calm(u)
    BY <1>1, <1>2, <1>3 DEF Attach, To, client, Functions, Only, Same, Calm
  <1>5. /\ pc[u] \in {f, "done"} /\ f \notin Requests /\ f # "done" /\ f # None
        /\ \A g \in todo[u] : attached[u][g] = 0
        /\ f \in todo[u] /\ attached[u] \in [Files(u) -> Nat] /\ todo[u] \subseteq Files(u)
    BY <1>1, <1>2, FilesAreFiles DEF Holds, Exchange, Once, OwnTyped, None
  <1>6. attached'[u] = [attached[u] EXCEPT ![f] = 1]
    <2>1. attached'[u] = [attached[u] EXCEPT ![f] = attached[u][f] + 1]
      BY <1>1, <1>2 DEF Functions
    <2>2. attached[u][f] = 0
      BY <1>5
    <2> QED  BY <2>1, <2>2
  <1>7. OwnTyped(u)' /\ Exchange(u)'
    <2>1. attached'[u] \in [Files(u) -> Nat]
      BY <1>5, <1>6
    <2>2. OwnTyped(u)'
      BY <1>1, <1>3, <2>1 DEF Holds, OwnTyped, Files, Report, None
    <2>3. stage[u] = "asked"
      BY <1>2
    <2>4. Exchange(u)'
      BY <1>1, <1>3, <2>3 DEF Holds, Exchange, Files, None
    <2> QED  BY <2>2, <2>4
  <1>8. Once(u)'
    <2>1. \A g \in Files(u) : /\ attached'[u][g] <= 1
                              /\ g \in todo[u] /\ attached'[u][g] # 0 => g = f
                              /\ g = f => attached'[u][g] = 1
      <3>1. \A g \in Files(u) : attached[u][g] <= 1
        BY <1>1 DEF Holds, Once
      <3> QED  BY <1>2, <1>5, <1>6, <3>1
    <2>2. pc[u] \notin {"create", "import", "results", "cases"} /\ request[u] # "create"
      BY <1>2, <1>5 DEF Requests
    <2> QED  BY <1>1, <1>2, <1>3, <2>1, <2>2 DEF Holds, Once, Files, None
  <1>9. Imports(u)'
    <2>1. request[u] # "import"
      BY <1>2, <1>5 DEF Requests
    <2>2. pc[u] # "import"
      BY <1>5 DEF Requests
    <2> QED  BY <1>1, <1>3, <1>4, <2>1, <2>2, CalmFacts DEF Holds, Imports, Later, Files, RunOf
  <1>10. Goes(u)'
    <2>1. \A F : Covers(u, F) => Covers(u, F)'
      <3>1. \A g \in Files(u) : attached[u][g] = 1 => attached'[u][g] = 1
        BY <1>5, <1>6
      <3> QED  BY <1>3, <1>4, <3>1, CalmFacts DEF Covers, Files
    <2>2. /\ pc[u] \in Files(u) => Covers(u, todo[u])' /\ todo'[u] = todo[u]
          /\ exit[u] = 0 => Covers(u, {})'
      BY <1>1, <1>3, <2>1 DEF Holds, Goes
    <2>3. pc[u] \notin Requests /\ request[u] \notin Requests
      BY <1>2, <1>5 DEF Requests
    <2> QED  BY <1>1, <1>3, <1>4, <2>2, <2>3, CalmFacts
             DEF Holds, Goes, Later, Files, RunOf, Requests
  <1> QED  BY <1>3, <1>4, <1>7, <1>8, <1>9, <1>10, CalmFacts DEF Holds

LEMMA CloseRunHolds ==
  ASSUME IInv, NEW u \in Uploads, CloseRun(u)
  PROVE  IInv'
  <1>1. Holds(u) /\ Functions /\ SharedTyped
    BY DEF IInv
  <1>2. /\ request[u] = "close" /\ stage[u] = "asked" /\ stage'[u] = "answered"
        /\ closed' = closed \union {RunOf(u)}
        /\ made'[u] = made[u] /\ pc'[u] = pc[u] /\ got'[u] = got[u]
        /\ attached'[u] = attached[u]
        /\ exit'[u] = exit[u] /\ tries'[u] = tries[u]
        /\ todo'[u] = todo[u] /\ missed'[u] = missed[u] /\ request'[u] = request[u]
        /\ items'[u] = items[u] /\ seen'[u] = seen[u] /\ imported' = imported
        /\ result' = result /\ caseGone' = caseGone /\ history' = history
    BY <1>1 DEF CloseRun, Handler, To, client, Functions
  <1>3. Only(u)
    BY <1>1, <1>2 DEF CloseRun, To, client, Functions, Only, Same
  <1>4. Grows
    BY <1>1, <1>2, <1>3 DEF Grows, Only, Same, SharedTyped
  <1>5. /\ pc[u] \in {"close", "done"}
        /\ u \in imported /\ Script[u].close /\ Complete(u)
        /\ \A f \in Files(u) : /\ f # request[u] /\ f # pc[u]
                               /\ f \in todo[u] => attached[u][f] = 0
    BY <1>1, <1>2, FilesAreFiles DEF Holds, Exchange, Once, Goes, None, Requests
  <1>6. /\ Targets(u)' = Targets(u) /\ Unmatched(u)' = Unmatched(u)
        /\ Complete(u)' = Complete(u)
    BY <1>2 DEF Targets, Unmatched, Complete, Report
  <1>7. Holds(u)'
    <2>1. OwnTyped(u)' /\ Exchange(u)'
      BY <1>1, <1>2 DEF Holds, OwnTyped, Exchange, Files, Report, None
    <2>2. Once(u)'
      BY <1>1, <1>2, <1>5 DEF Holds, Once, Files, None
    <2>3. Imports(u)'
      BY <1>1, <1>2, <1>5, <1>6 DEF Holds, Imports, Later, Files, RunOf
    <2>4. Indexed(u)'
      BY <1>1, <1>2 DEF Holds, Indexed, Report
    <2>5. SeenSupported(u)'
      BY <1>1, <1>2, <1>4, SupportGrows DEF Holds, SeenSupported, RunOf
    <2>6. Goes(u)'
      <3>1. \A F : Covers(u, F) => Covers(u, F)'
        BY <1>2, <1>4, CoversGrows
      <3>2. /\ pc[u] = "close" => Covers(u, {})'
            /\ exit[u] = 0 => Covers(u, {})'
        BY <1>1, <3>1 DEF Holds, Goes
      <3>3. RunOf(u)' = RunOf(u) /\ RunOf(u) \in closed'
        BY <1>2 DEF RunOf
      <3> QED  BY <1>1, <1>2, <1>5, <1>6, <3>2, <3>3 DEF Holds, Goes, Later, Files
    <2> QED  BY <2>1, <2>2, <2>3, <2>4, <2>5, <2>6 DEF Holds
  <1>8. \A v \in Uploads : Holds(v)'
    BY <1>2, <1>3, <1>4, <1>7, OthersHold DEF IInv, Only
  <1>9. ResultsSupported'
    BY <1>2, <1>4, SupportGrows DEF IInv, ResultsSupported
  <1>10. ClosedComplete'
    <2>1. \A w \in imported : /\ Complete(w) => Complete(w)'
                              /\ w \in imported' /\ RunOf(w)' = RunOf(w)
      BY <1>4 DEF Grows, Complete, Unmatched, RunOf, Report
    <2> QED  BY <1>2, <1>5, <2>1 DEF IInv, ClosedComplete
  <1>11. SharedTyped'
    BY <1>1, <1>2, RunOfUpload DEF SharedTyped
  <1> QED  BY <1>3, <1>8, <1>9, <1>10, <1>11 DEF IInv, Only

LEMMA DeleteCaseHolds ==
  ASSUME IInv, NEW c \in Cases, DeleteCase(c)
  PROVE  IInv'
  <1>1. /\ caseGone' = caseGone \union {c}
        /\ UNCHANGED <<result, history, closed, made, attached, client, handler, imported>>
    BY DEF DeleteCase
  <1>2. Grows
    BY <1>1 DEF Grows, handler
  <1>3. \A u \in Uploads : Same(u)
    BY <1>1 DEF Same, client, handler
  <1>4. \A u \in Uploads : Holds(u)'
    BY <1>1, <1>2, <1>3, OthersHold DEF IInv
  <1>5. ResultsSupported'
    BY <1>1, <1>2, SupportGrows DEF IInv, ResultsSupported
  <1>6. ClosedComplete'
    BY <1>1, <1>2 DEF IInv, ClosedComplete, Grows, Complete, Unmatched, RunOf, Report
  <1>7. SharedTyped' /\ Functions'
    BY <1>1 DEF IInv, SharedTyped, Functions, client, handler
  <1> QED  BY <1>4, <1>5, <1>6, <1>7 DEF IInv

-----------------------------------------------------------------------------
(* The client.                                                             *)
LEMMA AskHolds ==
  ASSUME IInv, NEW u \in Uploads, Ask(u)
  PROVE  Calm(u) /\ Holds(u)'
  <1>1. Holds(u) /\ Functions
    BY DEF IInv
  <1>2. /\ pc[u] # "done" /\ stage[u] = None /\ stage'[u] = "asked"
        /\ request'[u] = pc[u] /\ tries'[u] = tries[u] + 1
        /\ made'[u] = made[u] /\ pc'[u] = pc[u] /\ got'[u] = got[u]
        /\ attached'[u] = attached[u] /\ exit'[u] = exit[u]
        /\ todo'[u] = todo[u] /\ missed'[u] = missed[u]
        /\ items'[u] = items[u] /\ seen'[u] = seen[u] /\ imported' = imported
        /\ result' = result /\ closed' = closed /\ caseGone' = caseGone
    BY <1>1 DEF Ask, To, server, Functions
  <1>3. Calm(u)
    BY <1>1, <1>2 DEF Ask, To, server, Functions, Only, Same, Calm
  <1>4. /\ tries[u] < MaxAttempts /\ tries[u] \in Nat /\ MaxAttempts \in Nat
        /\ pc[u] \in Requests \union Files(u)
    BY <1>1, <1>2, UploadAssumption DEF Holds, Exchange, OwnTyped
  <1>5. OwnTyped(u)'
    <2>1. tries'[u] \in 0..MaxAttempts
      BY <1>2, <1>4
    <2> QED  BY <1>1, <1>2, <2>1 DEF Holds, OwnTyped, Files, Report
  <1>6. Exchange(u)'
    BY <1>1, <1>2, <1>4 DEF Holds, Exchange, Files, None
  <1>7. Once(u)'
    BY <1>1, <1>2 DEF Holds, Once, Files, None
  <1>8. Imports(u)'
    BY <1>1, <1>2, <1>3, CalmFacts DEF Holds, Imports, Later, Files, RunOf, None
  <1>9. Goes(u)'
    <2>1. pc[u] = "close" => u \in imported
      BY <1>1 DEF Holds, Imports, Later
    <2>2. /\ pc[u] \in Files(u) => Covers(u, todo[u])' /\ todo'[u] = todo[u]
          /\ pc[u] = "close" \/ exit[u] = 0 => Covers(u, {})'
      BY <1>1, <1>2, <1>3, CalmFacts DEF Holds, Goes
    <2> QED  BY <1>1, <1>2, <1>3, <2>1, <2>2, CalmFacts
             DEF Holds, Goes, Later, Files, RunOf
  <1> QED  BY <1>2, <1>3, <1>5, <1>6, <1>7, <1>8, <1>9, CalmFacts DEF Holds

\* The answer to an import is refused: the upload ends.
LEMMA RefusedHolds ==
  ASSUME IInv, NEW u \in Uploads, Refused(u)
  PROVE  Calm(u) /\ Holds(u)'
  <1>1. Holds(u) /\ Functions
    BY DEF IInv
  <1>2. /\ stage[u] = "refused" /\ stage'[u] = None
        /\ pc'[u] = "done" /\ exit'[u] = 1
        /\ request'[u] = request[u] /\ tries'[u] = tries[u]
        /\ made'[u] = made[u] /\ got'[u] = got[u] /\ attached'[u] = attached[u]
        /\ todo'[u] = todo[u] /\ missed'[u] = missed[u]
        /\ items'[u] = items[u] /\ seen'[u] = seen[u] /\ imported' = imported
        /\ result' = result /\ closed' = closed /\ caseGone' = caseGone
    BY <1>1 DEF Refused, To, End, server, Functions
  <1>3. Calm(u)
    BY <1>1, <1>2 DEF Refused, To, End, server, Functions, Only, Same, Calm
  <1>4. request[u] = "import" /\ u \notin imported
    BY <1>1, <1>2 DEF Holds, Exchange, Imports, None
  <1>5. OwnTyped(u)' /\ Exchange(u)'
    <2>1. \A f \in Files(u) : f # "done"
      BY FilesAreFiles
    <2> QED  BY <1>1, <1>2, <2>1 DEF Holds, OwnTyped, Exchange, Files, Report, None
  <1>6. Once(u)'
    BY <1>1, <1>2, <1>4 DEF Holds, Once, Files, None
  <1>7. Imports(u)'
    <2>1. pc'[u] \notin Later(u)
      BY <1>2, FilesAreFiles DEF Later
    <2> QED  BY <1>2, <1>4, <2>1 DEF Imports, Later, Files, None
  <1>8. Goes(u)'
    <2>1. pc'[u] \notin Later(u)
      BY <1>2, FilesAreFiles DEF Later
    <2> QED  BY <1>2, <1>4, <2>1 DEF Goes, Later, Files, None
  <1> QED  BY <1>2, <1>3, <1>5, <1>6, <1>7, <1>8, CalmFacts DEF Holds

\* No answer comes to a GET, which is sent again.
LEMMA AskAgainHolds ==
  ASSUME IInv, NEW u \in Uploads, Lose(u), Again(u)
  PROVE  Calm(u) /\ Holds(u)'
  <1>1. Holds(u) /\ Functions
    BY DEF IInv
  <1>2. /\ stage[u] # None /\ stage'[u] = None /\ tries[u] < MaxAttempts
        /\ pc[u] \in {"results", "cases"}
        /\ pc'[u] = pc[u] /\ exit'[u] = exit[u]
        /\ request'[u] = request[u] /\ tries'[u] = tries[u]
        /\ made'[u] = made[u] /\ got'[u] = got[u] /\ attached'[u] = attached[u]
        /\ todo'[u] = todo[u] /\ missed'[u] = missed[u]
        /\ items'[u] = items[u] /\ seen'[u] = seen[u] /\ imported' = imported
        /\ result' = result /\ closed' = closed /\ caseGone' = caseGone
    BY <1>1 DEF Lose, Again, Retried, To, server, Functions
  <1>3. Calm(u)
    BY <1>1, <1>2 DEF Lose, To, server, Functions, Only, Same, Calm
  <1>4. /\ request[u] = pc[u] /\ \A f \in Files(u) : f # pc[u] /\ attached[u][f] = 0
    BY <1>1, <1>2, FilesAreFiles DEF Holds, Exchange, Once, Requests
  <1>5. OwnTyped(u)' /\ Exchange(u)'
    BY <1>1, <1>2 DEF Holds, OwnTyped, Exchange, Files, Report, None
  <1>6. Once(u)'
    BY <1>1, <1>2, <1>4 DEF Holds, Once, Files, None
  <1>7. Imports(u)'
    BY <1>1, <1>2, <1>3, <1>4, CalmFacts DEF Holds, Imports, Later, Files, RunOf
  <1>8. Goes(u)'
    <2>1. exit[u] # 0 /\ exit[u] # 2
      BY <1>1, <1>2 DEF Holds, OwnTyped
    <2> QED  BY <1>1, <1>2, <1>3, <1>4, <2>1, CalmFacts
             DEF Holds, Goes, Later, Files, RunOf, None
  <1> QED  BY <1>2, <1>3, <1>5, <1>6, <1>7, <1>8, CalmFacts DEF Holds

\* No answer comes to anything else: the upload ends, its handler goes on.
LEMMA GiveUpHolds ==
  ASSUME IInv, NEW u \in Uploads, Lose(u), ~ Again(u)
  PROVE  Calm(u) /\ Holds(u)'
  <1>1. Holds(u) /\ Functions
    BY DEF IInv
  <1>2. /\ stage[u] # None /\ stage'[u] = stage[u]
        /\ pc'[u] = "done" /\ exit'[u] = 1
        /\ request'[u] = request[u] /\ tries'[u] = tries[u]
        /\ made'[u] = made[u] /\ got'[u] = got[u] /\ attached'[u] = attached[u]
        /\ todo'[u] = todo[u] /\ missed'[u] = missed[u]
        /\ items'[u] = items[u] /\ seen'[u] = seen[u] /\ imported' = imported
        /\ result' = result /\ closed' = closed /\ caseGone' = caseGone
    BY <1>1 DEF Lose, End, server, Functions
  <1>3. Calm(u)
    BY <1>1, <1>2 DEF Lose, End, server, Functions, Only, Same, Calm
  <1>4. pc'[u] \notin Files(u) /\ pc'[u] \notin Later(u)
    BY <1>2, FilesAreFiles DEF Later
  <1>5. OwnTyped(u)' /\ Exchange(u)'
    BY <1>1, <1>2, <1>4 DEF Holds, OwnTyped, Exchange, Files, Report, None
  <1>6. Once(u)'
    BY <1>1, <1>2 DEF Holds, Once, Files, None
  <1>7. Imports(u)'
    BY <1>1, <1>2, <1>3, <1>4, CalmFacts DEF Holds, Imports, Later, Files, RunOf
  <1>8. Goes(u)'
    BY <1>1, <1>2, <1>3, <1>4, CalmFacts DEF Holds, Goes, Later, Files, RunOf
  <1> QED  BY <1>2, <1>3, <1>5, <1>6, <1>7, <1>8, CalmFacts DEF Holds

(* An answer arrives.                                                      *)
Arrives(u) ==
  /\ pc[u] # "done" /\ stage[u] = "answered" /\ request[u] = pc[u]
  /\ stage'[u] = None /\ tries'[u] = 0
  /\ request'[u] = request[u] /\ made'[u] = made[u] /\ attached'[u] = attached[u]
  /\ got'[u] = got[u] /\ seen'[u] = seen[u]

\* What the client is right to do then.
Justified(u) ==
  /\ pc'[u] \in {"import", "results", "cases", "close", "done"} \union Files(u)
  /\ exit'[u] \in {-1, 0, 2} /\ (exit'[u] = -1 <=> pc'[u] # "done")
  /\ todo'[u] \subseteq Files(u)
  /\ missed'[u] \in 0..Cardinality(DOMAIN Report[u])
  /\ pc'[u] = "import" => u \notin imported
  /\ pc'[u] # "import" => u \in imported
  /\ pc'[u] \in {"import", "results", "cases"} => \A f \in Files(u) : attached[u][f] = 0
  /\ \A f \in todo'[u] : attached[u][f] = 0
  /\ pc'[u] \in Files(u) => pc'[u] \in todo'[u] /\ Covers(u, todo'[u])
  /\ pc'[u] \in Later(u) => missed'[u] = Unmatched(u)
  /\ pc'[u] = "cases" => Targets(u) \ caseGone \subseteq got[u]
  /\ pc'[u] = "close" => Script[u].close /\ Complete(u) /\ Covers(u, {})
  /\ exit'[u] = 0 => /\ Complete(u) /\ Covers(u, {})
                     /\ Script[u].close => RunOf(u) \in closed
  /\ exit'[u] = 2 => Script[u].strict /\ Unmatched(u) > 0

LEMMA JustifiedHolds ==
  ASSUME IInv, NEW u \in Uploads, Calm(u), Arrives(u), Justified(u)
  PROVE  Holds(u)'
  <1>1. Holds(u)
    BY DEF IInv
  <1>2. MaxAttempts \in Nat \ {0}
    BY UploadAssumption
  <1>3. items'[u] = items[u] /\ imported' = imported /\ result' = result
        /\ closed' = closed /\ caseGone' = caseGone
    BY DEF Calm
  <1>4. OwnTyped(u)'
    BY <1>1, <1>2, <1>3 DEF Arrives, Justified, Holds, OwnTyped, Requests, Files, Report, None
  <1>5. Exchange(u)'
    BY <1>1, <1>2 DEF Arrives, Justified, Holds, Exchange, Files, None
  <1>6. Once(u)'
    <2>1. /\ \A f \in Files(u) : f \in todo'[u] => attached'[u][f] = 0
          /\ \A f \in Files(u) : attached'[u][f] <= 1
          /\ pc'[u] # "create" /\ made'[u] <= 1 /\ stage'[u] = None
          /\ pc'[u] \in {"create", "import", "results", "cases"} =>
               \A f \in Files(u) : attached'[u][f] = 0
      BY <1>1, FilesAreFiles DEF Arrives, Justified, Holds, Once, Requests
    <2> QED  BY <2>1 DEF Once, Files, None
  <1>7. Imports(u)'
    <2>1. /\ u \in imported => pc'[u] # "import" /\ pc'[u] # "create"
          /\ pc'[u] \in Later(u) \/ exit'[u] \in {0, 2} => u \in imported
      BY FilesAreFiles DEF Justified, Later, Requests
    <2> QED  BY <1>1, <1>3, <2>1, CalmFacts DEF Arrives, Holds, Imports, Later, Files, RunOf, None
  <1>8. Goes(u)'
    <2>1. \A F : Covers(u, F) => Covers(u, F)'
      BY CalmFacts DEF Arrives
    <2>2. /\ pc'[u] \in Files(u) => Covers(u, todo[u])'
          /\ pc'[u] = "close" \/ exit'[u] = 0 => Covers(u, {})'
      BY <2>1 DEF Justified
    <2> QED  BY <1>3, <2>2, CalmFacts DEF Arrives, Justified, Goes, Later, Files, RunOf, None
  <1> QED  BY <1>4, <1>5, <1>6, <1>7, <1>8, CalmFacts DEF Arrives, Holds

(* When everything is attached.                                            *)
LEMMA FinishJustified ==
  ASSUME IInv, NEW u \in Uploads, u \in imported, pc[u] # "done",
         Finish(u, Unmatched(u)), Covers(u, {}),
         todo'[u] \subseteq Files(u), \A f \in todo'[u] : attached[u][f] = 0,
         missed'[u] = Unmatched(u)
  PROVE  Justified(u)
  <1>1. Holds(u) /\ Functions
    BY DEF IInv
  <1>2. Unmatched(u) \in 0..Cardinality(DOMAIN Report[u]) /\ Unmatched(u) \in Nat
    <2>1. Unmatched(u) \in 0..Cardinality(DOMAIN Report[u])
      BY <1>1, ItemsOneToOne DEF Holds
    <2>2. Cardinality(DOMAIN Report[u]) \in Nat
      BY ReportTyped, FS_CardinalityType
    <2> QED  BY <2>1, <2>2
  <1>3. exit[u] = -1
    BY <1>1 DEF Holds, OwnTyped
  <1>4. Script[u].strict \in BOOLEAN /\ Script[u].close \in BOOLEAN
    BY UploadAssumption
  <1>5. \/ pc'[u] = "done" /\ exit'[u] = 2 /\ Script[u].strict /\ Unmatched(u) > 0
        \/ /\ pc'[u] = "close" /\ exit'[u] = -1 /\ Script[u].close
           /\ ~ (Script[u].strict /\ Unmatched(u) > 0)
        \/ /\ pc'[u] = "done" /\ exit'[u] = 0 /\ ~ Script[u].close
           /\ ~ (Script[u].strict /\ Unmatched(u) > 0)
    BY <1>1, <1>3 DEF Finish, End, Goto, Functions
  <1>6. ~ (Script[u].strict /\ Unmatched(u) > 0) => Complete(u)
    BY <1>2 DEF Complete
  <1>7. pc'[u] \notin Files(u)
    BY <1>5, FilesAreFiles DEF Requests
  <1>8. \/ pc'[u] = "done" /\ exit'[u] = 2 /\ Script[u].strict /\ Unmatched(u) > 0
        \/ pc'[u] = "close" /\ exit'[u] = -1 /\ Script[u].close /\ Complete(u)
        \/ pc'[u] = "done" /\ exit'[u] = 0 /\ ~ Script[u].close /\ Complete(u)
    BY <1>5, <1>6
  <1> QED  BY <1>2, <1>7, <1>8 DEF Justified

\* The files F are left to attach.
LEMMA AttachRestJustified ==
  ASSUME IInv, NEW u \in Uploads, u \in imported, pc[u] # "done",
         NEW F \in SUBSET Files(u), AttachRest(u, F, Unmatched(u)), Covers(u, F),
         todo'[u] = F, \A f \in F : attached[u][f] = 0, missed'[u] = Unmatched(u)
  PROVE  Justified(u)
  <1>1. CASE F = {}
    BY <1>1, FinishJustified DEF AttachRest
  <1>2. CASE F # {}
    <2>1. Holds(u) /\ Functions
      BY DEF IInv
    <2>2. PICK f \in F : Goto(u, f)
      BY <1>2 DEF AttachRest
    <2>3. pc'[u] = f /\ exit'[u] = -1
      BY <2>1, <2>2 DEF Goto, Functions, Holds, OwnTyped
    <2>4. f \in Files(u) /\ f \notin Requests /\ f # "done"
      BY FilesAreFiles
    <2>5. Unmatched(u) \in 0..Cardinality(DOMAIN Report[u])
      BY <2>1, ItemsOneToOne DEF Holds
    <2> QED  BY <2>3, <2>4, <2>5 DEF Justified, Requests
  <1> QED  BY <1>1, <1>2

LEMMA ReceiveHolds ==
  ASSUME IInv, NEW u \in Uploads, Receive(u)
  PROVE  Calm(u) /\ Holds(u)'
  <1>1. Holds(u) /\ Functions
    BY DEF IInv
  <1>2. /\ pc[u] # "done" /\ stage[u] = "answered" /\ To(u, None)
        /\ tries' = [tries EXCEPT ![u] = 0]
        /\ UNCHANGED <<server, got, request, items, seen, imported>>
    BY DEF Receive
  <1>3. Arrives(u)
    <2>1. request[u] = pc[u]
      BY <1>1, <1>2 DEF Holds, Exchange, None
    <2> QED  BY <1>1, <1>2, <2>1 DEF Arrives, To, server, Functions
  <1>4. ASSUME pc' = [pc EXCEPT ![u] = pc'[u]], exit' = [exit EXCEPT ![u] = exit'[u]],
               todo' = [todo EXCEPT ![u] = todo'[u]],
               missed' = [missed EXCEPT ![u] = missed'[u]]
        PROVE  Calm(u)
    BY <1>1, <1>2, <1>4 DEF To, server, Functions, Only, Same, Calm
  <1>5. \A p : Goto(u, p) => /\ pc' = [pc EXCEPT ![u] = pc'[u]]
                             /\ exit' = [exit EXCEPT ![u] = exit'[u]]
                             /\ pc'[u] = p /\ exit'[u] = exit[u]
    BY <1>1 DEF Goto, Functions
  <1>6. \A x : End(u, x) => /\ pc' = [pc EXCEPT ![u] = pc'[u]]
                            /\ exit' = [exit EXCEPT ![u] = exit'[u]]
                            /\ pc'[u] = "done" /\ exit'[u] = x
    BY <1>1 DEF End, Functions
  <1>7. \A n : Finish(u, n) => /\ pc' = [pc EXCEPT ![u] = pc'[u]]
                               /\ exit' = [exit EXCEPT ![u] = exit'[u]]
    BY <1>5, <1>6 DEF Finish
  <1>8. \A F, n : AttachRest(u, F, n) => /\ pc' = [pc EXCEPT ![u] = pc'[u]]
                                         /\ exit' = [exit EXCEPT ![u] = exit'[u]]
    BY <1>5, <1>7 DEF AttachRest
  <1>9. UNCHANGED todo => todo' = [todo EXCEPT ![u] = todo'[u]] /\ todo'[u] = todo[u]
    BY <1>1 DEF Functions
  <1>10. UNCHANGED missed =>
           missed' = [missed EXCEPT ![u] = missed'[u]] /\ missed'[u] = missed[u]
    BY <1>1 DEF Functions
  <1>11. exit[u] = -1 /\ missed[u] \in 0..Cardinality(DOMAIN Report[u])
         /\ todo[u] \subseteq Files(u)
    BY <1>1, <1>2 DEF Holds, OwnTyped
  <1>12. Unmatched(u) \in 0..Cardinality(DOMAIN Report[u])
    BY <1>1, ItemsOneToOne DEF Holds
  <1>13. /\ pc[u] \in {"create", "import", "results", "cases"} =>
              \A f \in Files(u) : attached[u][f] = 0
         /\ pc[u] = "import" \/ pc[u] \in Later(u) => u \in imported
         /\ pc[u] \in Later(u) => missed[u] = Unmatched(u)
    BY <1>1, <1>2, <1>3 DEF Holds, Once, Imports, Goes, Arrives
  <1>14. CASE pc[u] = "create" /\ Goto(u, "import") /\ UNCHANGED <<todo, missed>>
    <2>1. u \notin imported
      BY <1>1, <1>14 DEF Holds, Imports
    <2>2. pc'[u] = "import" /\ exit'[u] = -1 /\ todo'[u] = todo[u] /\ missed'[u] = missed[u]
      BY <1>5, <1>9, <1>10, <1>11, <1>14
    <2>3. pc'[u] \notin Files(u) /\ pc'[u] \notin Later(u)
      BY <2>2, FilesAreFiles DEF Later, Requests
    <2>4. Justified(u)
      BY <1>11, <1>13, <1>14, <2>1, <2>2, <2>3 DEF Justified
    <2> QED  BY <1>3, <1>4, <1>5, <1>9, <1>10, <1>14, <2>4, JustifiedHolds
  <1>15. CASE /\ pc[u] = "import"
              /\ missed' = [missed EXCEPT ![u] = Unmatched(u)]
              /\ IF Script[u].files = {} THEN Finish(u, Unmatched(u)) ELSE Goto(u, "results")
              /\ UNCHANGED todo
    <2>1. missed'[u] = Unmatched(u) /\ missed' = [missed EXCEPT ![u] = missed'[u]]
          /\ todo'[u] = todo[u]
      BY <1>1, <1>9, <1>15 DEF Functions
    <2>2. u \in imported /\ \A f \in Files(u) : attached[u][f] = 0
      BY <1>13, <1>15
    <2>3. CASE Script[u].files = {}
      <3>1. Covers(u, {})
        BY <2>3 DEF Covers, Files
      <3>2. Justified(u)
        BY <1>2, <1>11, <1>15, <2>1, <2>2, <2>3, <3>1, FinishJustified
      <3> QED  BY <1>3, <1>4, <1>7, <1>9, <1>15, <2>1, <2>3, <3>2, JustifiedHolds
    <2>4. CASE Script[u].files # {}
      <3>1. pc'[u] = "results" /\ exit'[u] = -1
        BY <1>5, <1>11, <1>15, <2>4
      <3>2. pc'[u] \notin Files(u)
        BY <3>1, FilesAreFiles DEF Requests
      <3>3. Justified(u)
        BY <1>11, <1>12, <2>1, <2>2, <3>1, <3>2 DEF Justified
      <3> QED  BY <1>3, <1>4, <1>5, <1>9, <1>15, <2>1, <2>4, <3>3, JustifiedHolds
    <2> QED  BY <2>3, <2>4
  <1>16. CASE pc[u] = "results" /\ Goto(u, "cases") /\ UNCHANGED <<todo, missed>>
    <2>1. pc[u] \in Later(u) /\ Targets(u) \ caseGone \subseteq got[u]
      BY <1>1, <1>2, <1>16 DEF Holds, Goes, Later
    <2>2. pc'[u] = "cases" /\ exit'[u] = -1 /\ todo'[u] = todo[u] /\ missed'[u] = missed[u]
      BY <1>5, <1>9, <1>10, <1>11, <1>16
    <2>3. pc'[u] \notin Files(u)
      BY <2>2, FilesAreFiles DEF Requests
    <2>4. Justified(u)
      BY <1>11, <1>13, <1>16, <2>1, <2>2, <2>3 DEF Justified
    <2> QED  BY <1>3, <1>4, <1>5, <1>9, <1>10, <1>16, <2>4, JustifiedHolds
  <1>17. CASE /\ pc[u] = "cases"
              /\ LET F == {f \in Script[u].files :
                             \E c \in got[u] : Automation[c] = f}
                 IN  todo' = [todo EXCEPT ![u] = F] /\ AttachRest(u, F, missed[u])
              /\ UNCHANGED missed
    <2> DEFINE F == {f \in Files(u) : \E c \in got[u] : Automation[c] = f}
    <2>1. todo' = [todo EXCEPT ![u] = F] /\ AttachRest(u, F, missed[u])
      BY <1>17 DEF Files
    <2>2. pc[u] \in Later(u) /\ Targets(u) \ caseGone \subseteq got[u]
      BY <1>1, <1>17 DEF Holds, Goes, Later
    <2>3. u \in imported /\ missed[u] = Unmatched(u) /\ missed'[u] = Unmatched(u)
          /\ \A f \in Files(u) : attached[u][f] = 0
      BY <1>10, <1>13, <1>17, <2>2
    <2>4. F \in SUBSET Files(u) /\ \A f \in F : attached[u][f] = 0
      BY <2>3
    <2>5. Covers(u, F)
      BY <2>2 DEF Covers
    <2>6. todo'[u] = F /\ todo' = [todo EXCEPT ![u] = todo'[u]]
      BY <1>1, <2>1 DEF Functions
    <2> HIDE DEF F
    <2>7. Justified(u)
      BY <1>2, <2>1, <2>3, <2>4, <2>5, <2>6, AttachRestJustified
    <2> QED  BY <1>3, <1>4, <1>8, <1>10, <1>17, <2>1, <2>6, <2>7, JustifiedHolds
  <1>18. CASE /\ pc[u] \in todo[u]
              /\ todo' = [todo EXCEPT ![u] = @ \ {pc[u]}]
              /\ AttachRest(u, todo[u] \ {pc[u]}, missed[u]) /\ UNCHANGED missed
    <2> DEFINE F == todo[u] \ {pc[u]}
    <2>1. todo'[u] = F /\ todo' = [todo EXCEPT ![u] = todo'[u]]
          /\ AttachRest(u, F, missed[u])
      BY <1>1, <1>18 DEF Functions
    <2>2. pc[u] \in Files(u) /\ pc[u] \in Later(u)
      BY <1>11, <1>18 DEF Later
    <2>3. u \in imported /\ missed[u] = Unmatched(u) /\ missed'[u] = Unmatched(u)
      BY <1>10, <1>13, <1>18, <2>2
    <2>4. /\ attached[u][pc[u]] = 1 /\ Covers(u, todo[u])
          /\ \A f \in Files(u) : f \in todo[u] /\ attached[u][f] # 0 => f = pc[u]
      BY <1>1, <1>2, <1>3, <2>2 DEF Holds, Once, Goes, Arrives
    <2>5. F \in SUBSET Files(u) /\ \A f \in F : attached[u][f] = 0
      BY <1>11, <2>4
    <2>6. Covers(u, F)
      BY <2>4 DEF Covers
    <2> HIDE DEF F
    <2>7. Justified(u)
      BY <1>2, <2>1, <2>3, <2>5, <2>6, AttachRestJustified
    <2> QED  BY <1>3, <1>4, <1>8, <1>10, <1>18, <2>1, <2>7, JustifiedHolds
  <1>19. CASE pc[u] = "close" /\ End(u, 0) /\ UNCHANGED <<todo, missed>>
    <2>1. /\ u \in imported /\ Complete(u) /\ Covers(u, {}) /\ RunOf(u) \in closed
          /\ \A f \in todo[u] : attached[u][f] = 0
      <3>1. pc[u] \in Later(u) /\ request[u] = "close"
        BY <1>3, <1>19 DEF Later, Arrives
      <3>2. \A f \in Files(u) : f # "close"
        BY FilesAreFiles DEF Requests
      <3> QED  BY <1>1, <1>2, <1>11, <1>13, <1>19, <3>1, <3>2 DEF Holds, Goes, Once
    <2>2. pc'[u] = "done" /\ exit'[u] = 0 /\ todo'[u] = todo[u] /\ missed'[u] = missed[u]
      BY <1>6, <1>9, <1>10, <1>19
    <2>3. pc'[u] \notin Files(u) /\ pc'[u] \notin Later(u)
      BY <2>2, FilesAreFiles DEF Later
    <2>4. Justified(u)
      BY <1>11, <2>1, <2>2, <2>3 DEF Justified
    <2> QED  BY <1>3, <1>4, <1>6, <1>9, <1>10, <1>19, <2>4, JustifiedHolds
  <1> QED  BY <1>14, <1>15, <1>16, <1>17, <1>18, <1>19 DEF Receive

-----------------------------------------------------------------------------
LEMMA NextHolds ==
  ASSUME IInv, [Next]_vars
  PROVE  IInv'
  <1>1. ASSUME NEW u \in Uploads, Calm(u), Holds(u)' PROVE IInv'
    BY <1>1, QuietStep DEF Calm
  <1>2. ASSUME NEW u \in Uploads, Client(u) PROVE IInv'
    <2>1. CASE Ask(u)
      BY <1>1, <2>1, AskHolds
    <2>2. CASE Receive(u)
      BY <1>1, <2>2, ReceiveHolds
    <2>3. CASE Refused(u)
      BY <1>1, <2>3, RefusedHolds
    <2>4. CASE Lose(u)
      BY <1>1, <2>4, AskAgainHolds, GiveUpHolds
    <2> QED  BY <1>2, <2>1, <2>2, <2>3, <2>4 DEF Client
  <1>3. ASSUME NEW u \in Uploads, Handles(u) PROVE IInv'
    <2>1. CASE CreateRun(u)
      BY <1>1, <2>1, CreateRunHolds
    <2>2. CASE BuildIndex(u)
      BY <2>2, BuildIndexHolds, QuietStep
    <2>3. CASE LookUp(u)
      BY <1>1, <2>3, LookUpHolds
    <2>4. CASE SubmitMany(u)
      <3>1. stage'[u] \in {"refused", "answered"}
        BY <2>4, SubmitManyEffect
      <3> QED  BY <1>1, <2>4, <3>1, RefusedImportHolds, SubmitManyHolds
    <2>5. CASE Read(u)
      BY <1>1, <2>5, ReadHolds
    <2>6. CASE Attach(u)
      BY <1>1, <2>6, AttachHolds
    <2>7. CASE CloseRun(u)
      BY <2>7, CloseRunHolds
    <2> QED  BY <1>3, <2>1, <2>2, <2>3, <2>4, <2>5, <2>6, <2>7 DEF Handles
  <1>4. ASSUME UNCHANGED vars PROVE IInv'
    <2>1. Grows /\ \A u \in Uploads : Same(u)
      BY <1>4 DEF vars, server, client, handler, Grows, Same
    <2>2. \A u \in Uploads : Holds(u)'
      BY <1>4, <2>1, OthersHold DEF IInv, vars
    <2>3. ResultsSupported'
      BY <1>4, <2>1, SupportGrows DEF IInv, ResultsSupported, vars, server
    <2>4. ClosedComplete'
      BY <1>4, <2>1 DEF IInv, ClosedComplete, Grows, Complete, Unmatched, RunOf, Report,
                        vars, server
    <2>5. SharedTyped' /\ Functions'
      BY <1>4 DEF IInv, SharedTyped, Functions, vars, server, client, handler
    <2> QED  BY <2>2, <2>3, <2>4, <2>5 DEF IInv
  <1> QED  BY <1>2, <1>3, <1>4, DeleteCaseHolds DEF Next

THEOREM Inductive == Spec => []IInv
  BY InitHolds, NextHolds, PTL DEF Spec

(* The types of Upload, and that the client stops asking after             *)
(* MaxAttempts (client._request).                                          *)
THEOREM UploadTypes == Spec => []TypeOK
  BY Inductive, TypesFollow, PTL

(* However requests and answers are lost, nothing that writes is sent      *)
(* twice: an upload makes one run at most, and attaches a file at most     *)
(* once (client._request, upload).                                         *)
THEOREM OneEffectEach == Spec => []PostsOnce
  <1>1. IInv => PostsOnce
    BY DEF IInv, Holds, Once, PostsOnce, Files
  <1> QED  BY <1>1, Inductive, PTL

(* The exit code of an upload says what became of its run (upload,         *)
(* errors.py).                                                             *)
THEOREM ExitCodesTellRuns == Spec => []ExitTellsRun
  <1>1. ASSUME IInv PROVE ExitTellsRun
    <2>1. ASSUME NEW u \in Uploads, exit[u] = 0
          PROVE  /\ u \in imported
                 /\ Script[u].strict => Unmatched(u) = 0
                 /\ Script[u].close => RunOf(u) \in closed
                 /\ \A f \in Script[u].files, c \in Targets(u) \ caseGone :
                      Automation[c] = f => attached[u][f] = 1
      BY <1>1, <2>1 DEF IInv, Holds, Imports, Goes, Complete, Covers, Files
    <2>2. ASSUME NEW u \in Uploads, exit[u] = 2
          PROVE  /\ u \in imported /\ Script[u].strict /\ Unmatched(u) > 0
                 /\ Script[u].create => u \notin closed
      <3>1. u \in imported /\ Script[u].strict /\ Unmatched(u) > 0
        BY <1>1, <2>2 DEF IInv, Holds, Imports, Goes
      <3>2. ASSUME Script[u].create, u \in closed PROVE FALSE
        <4>1. PICK v \in imported : RunOf(v) = u /\ Complete(v)
          BY <1>1, <3>2, UploadAssumption DEF IInv, SharedTyped, ClosedComplete, Runs
        <4>2. v = u
          BY <1>1, <3>2, <4>1, RunOfUpload DEF IInv, SharedTyped
        <4> QED  BY <3>1, <4>1, <4>2 DEF Complete
      <3> QED  BY <3>1, <3>2
    <2>3. \A r \in closed : \E u \in imported :
            RunOf(u) = r /\ Script[u].close /\ (Script[u].strict => Unmatched(u) = 0)
      BY <1>1 DEF IInv, ClosedComplete, Complete
    <2> QED  BY <2>1, <2>2, <2>3 DEF ExitTellsRun
  <1> QED  BY <1>1, Inductive, PTL

-----------------------------------------------------------------------------
(* The first rule with a hit.                                              *)
LEMMA FoundFirst ==
  ASSUME NEW e, NEW S, NEW c, Found(e, S) = {c}
  PROVE  \E i \in DOMAIN Rules :
           /\ Hits(Rules[i], e, S) = {c}
           /\ \A j \in DOMAIN Rules : j < i => Hits(Rules[j], e, S) = {}
  <1> DEFINE hit == {i \in DOMAIN Rules : Hits(Rules[i], e, S) # {}}
  <1>1. DOMAIN Rules = 1..5
    BY DEF Rules
  <1>2. hit # {} /\ Found(e, S) = Hits(Rules[Min(hit)], e, S)
    BY DEF Found
  <1>3. \E n \in hit : \A m \in hit : n <= m
    <2>1. CASE 1 \in hit
      BY <1>1, <2>1
    <2>2. CASE 1 \notin hit /\ 2 \in hit
      BY <1>1, <2>2
    <2>3. CASE 1 \notin hit /\ 2 \notin hit /\ 3 \in hit
      BY <1>1, <2>3
    <2>4. CASE 1 \notin hit /\ 2 \notin hit /\ 3 \notin hit /\ 4 \in hit
      BY <1>1, <2>4
    <2>5. CASE 1 \notin hit /\ 2 \notin hit /\ 3 \notin hit /\ 4 \notin hit
      BY <1>1, <1>2, <2>5
    <2> QED  BY <2>1, <2>2, <2>3, <2>4, <2>5
  <1>4. Min(hit) \in hit /\ \A m \in hit : Min(hit) <= m
    BY <1>3 DEF Min
  <1>5. ASSUME NEW j \in DOMAIN Rules, j < Min(hit) PROVE Hits(Rules[j], e, S) = {}
    <2>1. Min(hit) \in 1..5
      BY <1>1, <1>4
    <2>2. j \notin hit
      <3> HIDE DEF hit
      <3>1. j \in hit => Min(hit) <= j
        BY <1>4
      <3>2. j \in 1..5
        BY <1>1
      <3>3. PICK n \in 1..5 : n = Min(hit)
        BY <2>1
      <3> QED  BY <1>5, <3>1, <3>2, <3>3
    <2> QED  BY <2>2
  <1> QED  BY <1>2, <1>4, <1>5

(* An entry whose automation_id two cases claim goes to neither; one that  *)
(* has it in the dotted form, to neither unless a case has that form       *)
(* itself.                                                                 *)
LEMMA AmbiguousUnmatched ==
  ASSUME NEW u \in Uploads, NEW S \in SUBSET Cases, NEW x \in Matched(Report[u], S),
         NEW c \in S, NEW d \in S, c # d, Automation[c] = Automation[d],
         Automation[c] # None
  PROVE  /\ Report[u][x[1]].key # Automation[c]
         /\ Report[u][x[1]].key = Dotted[Automation[c]] =>
              Automation[x[2]] = Report[u][x[1]].key
  <1> DEFINE e == Report[u][x[1]]
  <1>1. Found(e, S) = {x[2]} /\ e.key # None
    BY ReportTyped DEF Matched
  <1>2. /\ DOMAIN Rules = 1..5 /\ Rules[1] = "automation_id"
        /\ Rules[2] = "automation_id_dotted"
    BY DEF Rules
  <1> HIDE DEF e
  <1>3. PICK i \in DOMAIN Rules :
          /\ Hits(Rules[i], e, S) = {x[2]}
          /\ \A j \in DOMAIN Rules : j < i => Hits(Rules[j], e, S) = {}
    BY <1>1, FoundFirst
  <1>4. Hits(Rules[1], e, S) = {a \in S : e.key = Automation[a]}
    <2>1. \A a : Keys("automation_id", a) = {Automation[a]} \ {None}
      BY DEF Keys
    <2> QED  BY <1>1, <1>2, <2>1 DEF Hits
  <1>5. \A a \in S : Automation[a] # None /\ e.key = Dotted[Automation[a]] =>
          a \in Hits(Rules[2], e, S)
    <2>1. \A a : Keys("automation_id_dotted", a) =
                   {Dotted[k] : k \in {Automation[a]} \ {None}} \ {None}
      BY DEF Keys
    <2> QED  BY <1>1, <1>2, <2>1 DEF Hits
  <1>6. e.key # Automation[c]
    <2> SUFFICES ASSUME e.key = Automation[c] PROVE FALSE
      OBVIOUS
    <2>1. c \in Hits(Rules[1], e, S) /\ d \in Hits(Rules[1], e, S)
      BY <1>4
    <2>2. i = 1
      BY <1>2, <1>3, <2>1
    <2> QED  BY <1>3, <2>1, <2>2
  <1>7. ASSUME e.key = Dotted[Automation[c]] PROVE Automation[x[2]] = e.key
    <2>1. c \in Hits(Rules[2], e, S) /\ d \in Hits(Rules[2], e, S)
      BY <1>5, <1>7
    <2>2. i = 1
      <3>1. i # 2
        BY <1>3, <2>1
      <3> QED  BY <1>2, <1>3, <2>1, <3>1
    <2> QED  BY <1>3, <1>4, <2>2
  <1> QED  BY <1>6, <1>7 DEF e

(* What an import did can be defended: its items are one to one, none of   *)
(* them is a guess, and every result has an import to answer for it        *)
(* (import_results).                                                       *)
THEOREM EntriesAreAccounted == Spec => []EntriesAccounted
  <1>1. ASSUME IInv PROVE EntriesAccounted
    <2>1. ASSUME NEW u \in Uploads
          PROVE  /\ Cardinality(items[u]) = Cardinality(Targets(u))
                 /\ Cardinality(items[u]) = Cardinality({x[1] : x \in items[u]})
      BY <1>1, ItemsOneToOne DEF IInv, Holds
    <2>2. ASSUME NEW u \in Uploads, NEW x \in items[u],
                 NEW c \in Cases \ caseGone, NEW d \in Cases \ caseGone,
                 c # d, Automation[c] = Automation[d], Automation[c] # None
          PROVE  /\ Report[u][x[1]].key # Automation[c]
                 /\ Report[u][x[1]].key = Dotted[Automation[c]] =>
                      Automation[x[2]] = Report[u][x[1]].key
      <3>1. PICK S \in SUBSET Cases :
              Cases \ caseGone \subseteq S /\ items[u] = Matched(Report[u], S)
        BY <1>1, <2>2 DEF IInv, Holds, Indexed
      <3>2. c \in S /\ d \in S /\ x \in Matched(Report[u], S)
        BY <2>2, <3>1
      <3> QED  BY <2>2, <3>2, AmbiguousUnmatched
    <2>3. \A r \in Runs, c \in Cases : result[r][c] # None =>
            \E u \in imported : RunOf(u) = r /\ \E x \in items[u] :
              x[2] = c /\ Report[u][x[1]].status = result[r][c]
      BY <1>1 DEF IInv, ResultsSupported, Supported
    <2> QED  BY <2>1, <2>2, <2>3 DEF EntriesAccounted
  <1> QED  BY <1>1, Inductive, PTL

-----------------------------------------------------------------------------
(* Only the handler of u imports for u.                                    *)
LEMMA OnlySubmitImports ==
  ASSUME IInv, Next, imported' # imported
  PROVE  \E u \in Uploads : SubmitMany(u)
  <1>1. \A u \in Uploads : Client(u) => imported' = imported
    BY DEF Client, Ask, Receive, Refused, Lose
  <1>2. \A u \in Uploads : Handles(u) => imported' = imported \/ SubmitMany(u)
    BY DEF Handles, CreateRun, BuildIndex, LookUp, Read, Attach, CloseRun
  <1>3. \A c \in Cases : DeleteCase(c) => imported' = imported
    BY DEF DeleteCase
  <1> QED  BY <1>1, <1>2, <1>3 DEF Next

(* Whatever others delete or upload meanwhile: a report that goes into a   *)
(* run in which only the same report is in, with the same matches, leaves  *)
(* the run's results and their history as they are (submit_many).          *)
THEOREM RerunsAreIdle == Spec => RerunChangesNothing
  <1> DEFINE Others(u) == {v \in imported : RunOf(v) = RunOf(u)}
             Idle == \A u \in imported' \ imported :
                       /\ Others(u) # {}
                       /\ \A v \in Others(u) : Report[v] = Report[u] /\ items[v] = items[u]
                       => UNCHANGED <<result, history>>
  <1>1. ASSUME IInv, Next PROVE Idle
    <2> SUFFICES ASSUME NEW u \in imported' \ imported, Others(u) # {},
                        \A v \in Others(u) : Report[v] = Report[u] /\ items[v] = items[u]
                 PROVE  UNCHANGED <<result, history>>
      OBVIOUS
    <2>1. PICK w \in Uploads : SubmitMany(w)
      BY <1>1, OnlySubmitImports
    <2>2. u = w /\ imported' = imported \union {w} /\ imported' # imported
      BY <1>1, <2>1, SubmitManyEffect
    <2>3. SubmitMany(u) /\ u \in Uploads /\ Holds(u)
      BY <1>1, <2>1, <2>2 DEF IInv
    <2>4. /\ \A c \in Targets(u) : seen[u][c] = None => result[RunOf(u)][c] = None
          /\ result' = [result EXCEPT ![RunOf(u)] =
               [c \in Cases |->
                  IF c \in Targets(u) /\ seen[u][c] # StatusFor(u, c)
                  THEN StatusFor(u, c) ELSE result[RunOf(u)][c]]]
          /\ history' = [history EXCEPT ![RunOf(u)] =
               [c \in Cases |-> history[RunOf(u)][c] +
                 (IF c \in Targets(u) /\ seen[u][c] # StatusFor(u, c) THEN 1 ELSE 0)]]
      BY <1>1, <2>2, <2>3, SubmitManyEffect
    <2>5. ASSUME NEW c \in Targets(u)
          PROVE  c \in Cases /\ seen[u][c] = StatusFor(u, c)
      <3>1. c \in Cases
        BY <2>3 DEF Holds, OwnTyped, Targets
      <3>2. PICK v \in Others(u) : TRUE
        OBVIOUS
      <3>3. v \in Uploads /\ v \in imported /\ RunOf(v) = RunOf(u) /\ items[v] = items[u]
        BY <1>1, <3>2 DEF IInv, SharedTyped
      <3>4. result[RunOf(u)][c] # None
        BY <1>1, <3>3 DEF IInv, Holds, Imports, Targets
      <3>5. seen[u][c] # None
        BY <2>4, <3>4
      <3>6. Supported(RunOf(u), c, seen[u][c])
        BY <2>3, <3>1, <3>5 DEF Holds, SeenSupported
      <3>7. PICK y \in imported : /\ RunOf(y) = RunOf(u)
                                  /\ \E x \in items[y] :
                                       x[2] = c /\ Report[y][x[1]].status = seen[u][c]
        BY <3>6 DEF Supported
      <3>8. Report[y] = Report[u] /\ items[y] = items[u]
        BY <3>7
      <3>9. PICK x \in items[u] : x[2] = c /\ Report[u][x[1]].status = seen[u][c]
        BY <3>7, <3>8
      <3>10. StatusFor(u, x[2]) = Report[u][x[1]].status
        BY <2>3, StatusOfItem DEF Holds
      <3> QED  BY <3>1, <3>9, <3>10
    <2>6. RunOf(u) \in Runs /\ SharedTyped
      BY <1>1, <2>3, RunOfUpload DEF IInv
    <2>7. result' = result
      <3>1. [c \in Cases |-> IF c \in Targets(u) /\ seen[u][c] # StatusFor(u, c)
                             THEN StatusFor(u, c) ELSE result[RunOf(u)][c]]
              = result[RunOf(u)]
        BY <2>5, <2>6 DEF SharedTyped
      <3> QED  BY <2>4, <2>6, <3>1 DEF SharedTyped
    <2>8. history' = history
      <3>1. [c \in Cases |-> history[RunOf(u)][c] +
               (IF c \in Targets(u) /\ seen[u][c] # StatusFor(u, c) THEN 1 ELSE 0)]
              = history[RunOf(u)]
        BY <2>5, <2>6 DEF SharedTyped
      <3> QED  BY <2>4, <2>6, <3>1 DEF SharedTyped
    <2> QED  BY <2>7, <2>8
  <1>2. IInv /\ [Next]_vars => [Idle]_vars
    BY <1>1
  <1>3. RerunChangesNothing <=> [][Idle]_vars
    BY DEF RerunChangesNothing
  <1> HIDE DEF Idle
  <1> QED  BY <1>2, <1>3, Inductive, PTL DEF Spec

-----------------------------------------------------------------------------
(* The refinement.  An upload whose end was told has no handler at work,   *)
(* and whatever comes after its first request comes after its effect.      *)
Linked(u) ==
  /\ exit[u] \in {0, 2} => stage[u] = None
  /\ stage[u] # None /\ request[u] \in Later(u) => u \in imported
  /\ "create" \in {pc[u], request[u]} => Script[u].create
  /\ Script[u].create =>
       /\ pc[u] \notin {"create", "done"} => made[u] = 1
       /\ request[u] = "create" /\ stage[u] = "answered" => made[u] = 1
       /\ stage[u] # None /\ request[u] # "create" => made[u] = 1

LEMMA CloseRunEffect ==
  ASSUME IInv, NEW u \in Uploads, CloseRun(u)
  PROVE  /\ Only(u) /\ request[u] = "close" /\ stage[u] = "asked"
         /\ closed' = closed \union {RunOf(u)}
         /\ UNCHANGED <<result, made, attached, client, request, items, imported>>
  <1>1. Functions
    BY DEF IInv
  <1>2. /\ request[u] = "close" /\ stage[u] = "asked"
        /\ stage' = [stage EXCEPT ![u] = "answered"]
        /\ closed' = closed \union {RunOf(u)}
        /\ UNCHANGED <<result, made, attached, client, request, items, seen, imported>>
    BY DEF CloseRun, Handler, To
  <1>3. Only(u)
    BY <1>1, <1>2 DEF Only, Same, Functions, client
  <1> QED  BY <1>2, <1>3

\* An upload's step leaves what other uploads own.
LEMMA OnlyActs ==
  ASSUME IInv, NEW u \in Uploads, Client(u) \/ Handles(u)
  PROVE  Only(u)
  <1>1. CASE Client(u)
    BY <1>1, AskHolds, ReceiveHolds, RefusedHolds, AskAgainHolds, GiveUpHolds DEF Client, Calm
  <1>2. CASE Handles(u)
    BY <1>2, CreateRunHolds, BuildIndexHolds, LookUpHolds, SubmitManyEffect, ReadHolds,
       AttachHolds, CloseRunEffect DEF Handles, Calm
  <1> QED  BY <1>1, <1>2

LEMMA ImportsStay ==
  ASSUME Next
  PROVE  imported \subseteq imported'
  BY DEF Next, Client, Handles, Ask, Receive, Refused, Lose, CreateRun, BuildIndex, LookUp,
         SubmitMany, Read, Attach, CloseRun, DeleteCase

LEMMA InitLinked ==
  ASSUME Init, NEW u \in Uploads
  PROVE  Linked(u)
  BY DEF Init, Linked, None

\* Nobody goes back to the first request.
LEMMA ReceiveGoesOn ==
  ASSUME IInv, NEW u \in Uploads, Receive(u)
  PROVE  pc'[u] # "create"
  <1>1. Functions /\ todo[u] \subseteq Files(u)
    BY DEF IInv, Holds, OwnTyped
  <1>2. \A p : Goto(u, p) => pc'[u] = p
    BY <1>1 DEF Goto, Functions
  <1>3. \A x : End(u, x) => pc'[u] = "done"
    BY <1>1 DEF End, Functions
  <1>4. \A n : Finish(u, n) => pc'[u] # "create"
    BY <1>2, <1>3 DEF Finish
  <1>5. \A F \in SUBSET Files(u) : \A n : AttachRest(u, F, n) => pc'[u] # "create"
    <2> SUFFICES ASSUME NEW F \in SUBSET Files(u), NEW n, AttachRest(u, F, n)
                 PROVE  pc'[u] # "create"
      OBVIOUS
    <2>1. CASE F = {}
      BY <1>4, <2>1 DEF AttachRest
    <2>2. CASE F # {}
      <3>1. PICK f \in F : Goto(u, f)
        BY <2>2 DEF AttachRest
      <3> QED  BY <1>2, <3>1, FilesAreFiles DEF Requests
    <2> QED  BY <2>1, <2>2
  <1>6. CASE pc[u] = "create" /\ Goto(u, "import")
    BY <1>2, <1>6
  <1>7. CASE pc[u] = "import" /\ (Finish(u, Unmatched(u)) \/ Goto(u, "results"))
    BY <1>2, <1>4, <1>7
  <1>8. CASE pc[u] = "results" /\ Goto(u, "cases")
    BY <1>2, <1>8
  <1>9. CASE \E F \in SUBSET Files(u) : AttachRest(u, F, missed[u])
    BY <1>5, <1>9
  <1>10. CASE End(u, 0)
    BY <1>3, <1>10
  <1> QED  BY <1>1, <1>6, <1>7, <1>8, <1>9, <1>10 DEF Receive, Files

LEMMA ClientLinked ==
  ASSUME IInv, NEW u \in Uploads, Linked(u), Client(u)
  PROVE  Linked(u)'
  <1>1. Holds(u) /\ Functions
    BY DEF IInv
  <1>2. made' = made /\ imported' = imported
    BY DEF Client, Ask, Receive, Refused, Lose, server
  <1>3. CASE Ask(u)
    <2>1. /\ pc[u] # "done" /\ stage[u] = None /\ request'[u] = pc[u] /\ pc'[u] = pc[u]
          /\ exit'[u] = exit[u]
      BY <1>1, <1>3 DEF Ask, Functions
    <2>2. exit[u] = -1 /\ (pc[u] \in Later(u) => u \in imported)
      BY <1>1, <2>1 DEF Holds, OwnTyped, Imports
    <2>3. stage'[u] = "asked"
      BY <1>1, <1>3 DEF Ask, To, Functions
    <2> QED  BY <1>2, <2>1, <2>2, <2>3 DEF Linked, Later, Files
  <1>4. CASE Receive(u)
    <2>1. pc[u] # "done" /\ stage[u] = "answered" /\ request'[u] = request[u]
      BY <1>4 DEF Receive
    <2>2. stage'[u] = None
      BY <1>1, <1>4 DEF Receive, To, Functions
    <2>3. pc[u] = request[u]
      BY <1>1, <2>1 DEF Holds, Exchange, None
    <2>4. pc'[u] # "create"
      BY <1>4, ReceiveGoesOn
    <2> QED  BY <1>2, <2>1, <2>2, <2>3, <2>4 DEF Linked, None
  <1>5. CASE Refused(u)
    <2>1. stage'[u] = None /\ pc'[u] = "done" /\ request' = request
      BY <1>1, <1>5 DEF Refused, To, End, Functions
    <2> QED  BY <1>2, <2>1 DEF Linked, None
  <1>6. CASE Lose(u) /\ Again(u)
    <2>1. stage'[u] = None /\ pc'[u] = pc[u] /\ request' = request
      BY <1>1, <1>6 DEF Lose, To, Functions
    <2> QED  BY <1>2, <2>1 DEF Linked, None
  <1>7. CASE Lose(u) /\ ~ Again(u)
    <2>1. /\ stage'[u] = stage[u] /\ request'[u] = request[u]
          /\ pc'[u] = "done" /\ exit'[u] = 1
      BY <1>1, <1>7 DEF Lose, End, Functions
    <2> QED  BY <1>2, <2>1 DEF Linked, Later, Files
  <1> QED  BY <1>3, <1>4, <1>5, <1>6, <1>7 DEF Client

LEMMA HandlerLinked ==
  ASSUME IInv, NEW u \in Uploads, Linked(u), Handles(u)
  PROVE  Linked(u)'
  <1>1. Holds(u) /\ Functions
    BY DEF IInv
  <1>2. pc' = pc /\ exit' = exit /\ request' = request /\ stage[u] # None
    BY DEF Handles, CreateRun, BuildIndex, LookUp, SubmitMany, Read, Attach, CloseRun,
           Handler, client, None
  <1>3. imported \subseteq imported' /\ stage[u] # None /\ exit[u] \notin {0, 2}
    BY <1>2, ImportsStay DEF Next, Linked
  <1>4. CASE CreateRun(u)
    <2>1. request[u] = "create" /\ made'[u] = made[u] + 1 /\ made[u] = 0
      BY <1>1, <1>4 DEF CreateRun, Handler, Functions, Holds, Once
    <2> QED  BY <1>2, <1>3, <2>1 DEF Linked, Later, Files
  <1>5. CASE ~ CreateRun(u)
    <2>1. made' = made /\ request[u] # "create"
      BY <1>5, FilesAreFiles DEF Handles, BuildIndex, LookUp, SubmitMany, Read, Attach,
                                 CloseRun, Handler, server, Files, Requests
    <2> QED  BY <1>2, <1>3, <2>1 DEF Linked, Later, Files
  <1> QED  BY <1>4, <1>5

LEMMA NextLinked ==
  ASSUME IInv, \A u \in Uploads : Linked(u), [Next]_vars
  PROVE  \A u \in Uploads : Linked(u)'
  <1> SUFFICES ASSUME NEW u \in Uploads PROVE Linked(u)'
    OBVIOUS
  <1>1. ASSUME NEW w \in Uploads, Client(w) \/ Handles(w) PROVE Linked(u)'
    <2>1. CASE w = u
      BY <1>1, <2>1, ClientLinked, HandlerLinked
    <2>2. CASE w # u
      <3>1. Same(u) /\ imported \subseteq imported'
        BY <1>1, <2>2, OnlyActs, ImportsStay DEF Only, Next
      <3> QED  BY <3>1 DEF Linked, Same, Later, Files
    <2> QED  BY <2>1, <2>2
  <1>2. ASSUME NEW c \in Cases, DeleteCase(c) PROVE Linked(u)'
    BY <1>2 DEF DeleteCase, Linked, client, handler, Later, Files
  <1>3. ASSUME UNCHANGED vars PROVE Linked(u)'
    BY <1>3 DEF vars, server, client, handler, Linked, Later, Files
  <1> QED  BY <1>1, <1>2, <1>3 DEF Next

(* The state as ReportDelivery sees it.                                    *)
Missing == [u \in Uploads |-> IF u \in imported THEN Unmatched(u) ELSE 0]
Seen == <<made, result, imported, Missing, attached, closed, exit>>

LEMMA MissingStays ==
  ASSUME imported' = imported, \A u \in imported : items'[u] = items[u]
  PROVE  Missing' = Missing
  BY DEF Missing, Unmatched, Report

\* Of a step that has no effect on the server only the exit code is seen.
LEMMA Unseen ==
  ASSUME IInv, UNCHANGED <<made, result, imported, attached, closed>>,
         NEW u \in Uploads, Only(u), u \in imported => items'[u] = items[u]
  PROVE  /\ Missing' = Missing
         /\ exit'[u] = exit[u] => UNCHANGED Seen
         /\ exit'[u] # exit[u] => exit' = [exit EXCEPT ![u] = exit'[u]]
  <1>1. Missing' = Missing
    BY MissingStays DEF Only, Same, IInv, SharedTyped
  <1>2. /\ exit = [v \in Uploads |-> exit[v]] /\ exit' = [v \in Uploads |-> exit'[v]]
        /\ \A v \in Uploads \ {u} : exit'[v] = exit[v]
    BY DEF IInv, Only, Same, Functions
  <1>3. exit'[u] = exit[u] => exit' = exit
    BY <1>2
  <1> QED  BY <1>1, <1>2, <1>3 DEF Seen

LEMMA InitDelivers ==
  ASSUME Init
  PROVE  Delivery!Init
  BY DEF Init, Delivery!Init, None

LEMMA ClientDelivers ==
  ASSUME IInv, IInv', NEW u \in Uploads, Client(u)
  PROVE  Delivery!Next \/ UNCHANGED Seen
  <1>1. /\ UNCHANGED <<made, result, imported, attached, closed, items>> /\ Only(u)
    BY OnlyActs DEF Client, Ask, Receive, Refused, Lose, server
  <1>2. /\ Missing' = Missing
        /\ exit'[u] = exit[u] => UNCHANGED Seen
        /\ exit'[u] # exit[u] => exit' = [exit EXCEPT ![u] = exit'[u]]
    BY <1>1, Unseen
  <1>3. Holds(u) /\ Holds(u)' /\ (imported' = imported)
    BY <1>1 DEF IInv
  <1>4. CASE exit'[u] # exit[u]
    <2>1. exit[u] = -1 /\ exit'[u] \in {0, 1, 2}
      <3>1. pc[u] # "done"
        BY DEF Client, Ask, Receive, Refused, Lose
      <3> QED  BY <1>3, <1>4, <3>1 DEF Holds, OwnTyped
    <2>2. UNCHANGED <<made, result, imported, Missing, attached, closed>>
      BY <1>1, <1>2
    <2>3. CASE exit'[u] = 1
      <3>1. Delivery!Fail(u)
        BY <1>2, <1>4, <2>1, <2>2, <2>3 DEF Delivery!Fail, Delivery!Tell, Delivery!effects,
                                           Missing
      <3> QED  BY <3>1 DEF Delivery!Next
    <2>4. CASE exit'[u] = 0
      <3>1. /\ u \in imported /\ (Script[u].strict => Unmatched(u) = 0)
            /\ Script[u].close => RunOf(u) \in closed
        <4>1. /\ u \in imported' /\ (Script[u].strict => Unmatched(u)' = 0)
              /\ Script[u].close => RunOf(u)' \in closed'
          BY <1>3, <2>4 DEF Holds, Imports, Goes, Complete
        <4>2. Unmatched(u)' = Unmatched(u) /\ RunOf(u)' = RunOf(u)
          BY <1>1 DEF Unmatched, Report, RunOf
        <4> QED  BY <1>1, <4>1, <4>2
      <3>2. Delivery!Succeed(u)
        BY <1>2, <1>4, <2>1, <2>2, <2>4, <3>1
           DEF Delivery!Succeed, Delivery!Complete, Delivery!Tell, Delivery!effects, Missing
      <3> QED  BY <3>2 DEF Delivery!Next
    <2>5. CASE exit'[u] = 2
      <3>1. u \in imported /\ Script[u].strict /\ Unmatched(u) # 0
        <4>1. u \in imported' /\ Script[u].strict /\ Unmatched(u)' > 0
          BY <1>3, <2>5 DEF Holds, Imports, Goes
        <4>2. Unmatched(u)' = Unmatched(u)
          BY <1>1 DEF Unmatched, Report
        <4> QED  BY <1>1, <4>1, <4>2
      <3>2. Delivery!Incomplete(u)
        BY <1>2, <1>4, <2>1, <2>2, <2>5, <3>1
           DEF Delivery!Incomplete, Delivery!Complete, Delivery!Tell, Delivery!effects, Missing
      <3> QED  BY <3>2 DEF Delivery!Next
    <2> QED  BY <2>1, <2>3, <2>4, <2>5
  <1> QED  BY <1>2, <1>4

\* A handler at work is one of an upload whose end was not told.
LEMMA HandlerAtWork ==
  ASSUME IInv, NEW u \in Uploads, Linked(u), stage[u] # None
  PROVE  Delivery!AtWork(u)
  <1>1. exit[u] \in {-1, 1}
    BY DEF Linked, IInv, Holds, OwnTyped
  <1> QED  BY <1>1 DEF Delivery!AtWork

LEMMA CreateDelivers ==
  ASSUME IInv, NEW u \in Uploads, Linked(u), CreateRun(u)
  PROVE  Delivery!Create(u)
  <1>1. /\ request[u] = "create" /\ stage[u] = "asked"
        /\ made' = [made EXCEPT ![u] = @ + 1]
        /\ UNCHANGED <<result, attached, closed, exit, items, imported>>
    BY DEF CreateRun, Handler, client
  <1>2. made[u] = 0 /\ Delivery!AtWork(u)
    BY <1>1, HandlerAtWork DEF IInv, Holds, Once, None
  <1>3. Script[u].create
    BY <1>1 DEF Linked
  <1>4. Missing' = Missing
    BY <1>1, MissingStays
  <1> QED  BY <1>1, <1>2, <1>3, <1>4 DEF Delivery!Create, Missing

LEMMA SubmitDelivers ==
  ASSUME IInv, NEW u \in Uploads, Linked(u), SubmitMany(u), stage'[u] = "answered"
  PROVE  Delivery!Store(u)
  <1>1. /\ request[u] = "import" /\ stage[u] = "compared"
        /\ imported' = imported \union {u} /\ items' = items
        /\ UNCHANGED <<made, attached, closed, exit>>
    <2>1. request[u] = "import" /\ stage[u] = "compared" /\ imported' = imported \union {u}
      BY SubmitManyEffect
    <2> QED  BY <2>1 DEF SubmitMany, client
  <1>2. Delivery!AtWork(u) /\ u \notin imported /\ (Script[u].create => made[u] = 1)
    BY <1>1, HandlerAtWork, NotYetImported DEF IInv, Linked, None
  <1>3. \A v \in Uploads : Unmatched(v)' = Unmatched(v) /\ Unmatched(v) \in Nat
    <2> SUFFICES ASSUME NEW v \in Uploads
                 PROVE  Unmatched(v)' = Unmatched(v) /\ Unmatched(v) \in Nat
      OBVIOUS
    <2>1. Unmatched(v) \in 0..Cardinality(DOMAIN Report[v])
      BY ItemsOneToOne DEF IInv, Holds
    <2>2. Cardinality(DOMAIN Report[v]) \in Nat
      BY ReportTyped, FS_CardinalityType
    <2> QED  BY <1>1, <2>1, <2>2 DEF Unmatched, Report
  <1>4. /\ Missing' \in [Uploads -> Nat]
        /\ \A v \in Uploads \ {u} : Missing'[v] = Missing[v]
    BY <1>1, <1>3 DEF Missing
  <1> DEFINE S(v) == {Report[v][i].status : i \in DOMAIN Report[v]} \intersect Status
             Says == [v \in Uploads |-> S(v)]
  <1>5. ASSUME NEW c \in Targets(u) PROVE StatusFor(u, c) \in S(u)
    <2>1. PICK x \in items[u] : x[2] = c
      BY <1>5 DEF Targets
    <2>2. Indexed(u) /\ x[1] \in DOMAIN Report[u]
      BY ItemsOneToOne DEF IInv, Holds
    <2> QED  BY <2>1, <2>2, StatusOfItem
  <1>6. \A r \in Runs, c \in Cases : result'[r][c] # result[r][c] =>
          r = RunOf(u) /\ result'[r][c] \in S(u)
    BY <1>5, SubmitManyWrites
  <1>7. result' \in [Runs -> [Cases -> {"none"} \union UNION {S(v) : v \in Uploads}]]
    <2>1. ASSUME NEW r \in Runs, NEW c \in Cases
          PROVE  result'[r][c] \in {"none"} \union UNION {S(v) : v \in Uploads}
      <3>1. result'[r][c] # result[r][c] => result'[r][c] \in UNION {S(v) : v \in Uploads}
        BY <1>6
      <3>2. result[r][c] = "none" \/ result[r][c] \in UNION {S(v) : v \in Uploads}
        <4>1. CASE result[r][c] # None
          <5>1. PICK v \in imported : \E x \in items[v] :
                  Report[v][x[1]].status = result[r][c]
            BY <4>1 DEF IInv, ResultsSupported, Supported
          <5>2. PICK x \in items[v] : Report[v][x[1]].status = result[r][c]
            BY <5>1
          <5>3. /\ v \in Uploads /\ x[1] \in DOMAIN Report[v]
                /\ Report[v][x[1]].status \in Status
            <6>1. v \in Uploads
              BY DEF IInv, SharedTyped
            <6>2. Indexed(v)
              BY <6>1 DEF IInv, Holds
            <6> QED  BY <6>1, <6>2, ItemsOneToOne DEF Indexed
          <5> QED  BY <5>2, <5>3
        <4> QED  BY <4>1 DEF None
      <3> QED  BY <3>1, <3>2
    <2>2. /\ result' = [r \in Runs |-> result'[r]]
          /\ \A r \in Runs : result'[r] = [c \in Cases |-> result'[r][c]]
      BY SubmitManyWrites DEF SharedTyped
    <2> HIDE DEF S
    <2> QED  BY <2>1, <2>2
  <1>8. /\ \A v \in Uploads : Says[v] = S(v)
        /\ {Says[v] : v \in Uploads} = {S(v) : v \in Uploads}
    OBVIOUS
  <1> HIDE DEF S
  <1>9. /\ result' \in [Runs -> [Cases -> {"none"} \union UNION {Says[v] : v \in Uploads}]]
        /\ \A r \in Runs, c \in Cases : result'[r][c] # result[r][c] =>
             r = [v \in Uploads |-> RunOf(v)][u] /\ result'[r][c] \in Says[u]
    BY <1>6, <1>7, <1>8
  <1>10. u \in {v \in Uploads : Script[v].create} => made[u] = 1
    BY <1>2
  <1> QED  BY <1>1, <1>2, <1>4, <1>9, <1>10 DEF Delivery!Store, Missing, S

LEMMA AttachDelivers ==
  ASSUME IInv, NEW u \in Uploads, Linked(u), Attach(u)
  PROVE  \E f \in Files(u) : Delivery!Attach(u, f)
  <1>1. PICK f \in Files(u) : /\ request[u] = f /\ stage[u] = "asked"
                              /\ attached' = [attached EXCEPT ![u][f] = @ + 1]
    BY DEF Attach, Handler, Files
  <1>2. UNCHANGED <<result, closed, made, exit, items, imported>>
    BY DEF Attach, client
  <1>3. u \in imported /\ Delivery!AtWork(u)
    BY <1>1, HandlerAtWork DEF Linked, Later, None
  <1>4. f \in todo[u] /\ attached[u] \in [Files(u) -> Nat]
    BY <1>1 DEF IInv, Holds, Exchange, OwnTyped, None
  <1>5. attached[u][f] = 0
    BY <1>1, <1>4 DEF IInv, Holds, Once
  <1>6. attached' = [attached EXCEPT ![u][f] = 1]
    BY <1>1, <1>5
  <1>7. Missing' = Missing
    BY <1>2, MissingStays
  <1>8. Delivery!Attach(u, f)
    BY <1>2, <1>3, <1>5, <1>6, <1>7 DEF Delivery!Attach, Missing
  <1> QED  BY <1>8

LEMMA CloseDelivers ==
  ASSUME IInv, NEW u \in Uploads, Linked(u), CloseRun(u)
  PROVE  Delivery!Close(u)
  <1>1. /\ request[u] = "close" /\ stage[u] = "asked"
        /\ closed' = closed \union {RunOf(u)}
        /\ UNCHANGED <<result, made, attached, items, imported, exit>>
    BY CloseRunEffect DEF client
  <1>2. u \in imported /\ Script[u].close /\ Complete(u) /\ Delivery!AtWork(u)
    BY <1>1, HandlerAtWork DEF IInv, Holds, Goes, None
  <1>3. Missing' = Missing
    BY <1>1, MissingStays
  <1>4. Delivery!Complete(u)
    BY <1>2 DEF Complete, Delivery!Complete, Missing
  <1> QED  BY <1>1, <1>2, <1>3, <1>4 DEF Delivery!Close, Missing

\* The other steps of a handler are not seen.
LEMMA QuietHandlers ==
  ASSUME IInv, NEW u \in Uploads,
         \/ BuildIndex(u) \/ LookUp(u) \/ Read(u)
         \/ SubmitMany(u) /\ stage'[u] # "answered"
  PROVE  UNCHANGED Seen
  <1>1. /\ UNCHANGED <<made, result, imported, attached, closed, exit>>
        /\ u \in imported => items'[u] = items[u]
    <2>1. CASE BuildIndex(u)
      BY <2>1, BuildIndexHolds DEF BuildIndex, server, client
    <2>2. CASE LookUp(u)
      BY <2>2 DEF LookUp, server, client
    <2>3. CASE Read(u)
      BY <2>3 DEF Read, server
    <2>4. CASE SubmitMany(u) /\ stage'[u] # "answered"
      BY <2>4, SubmitManyEffect DEF SubmitMany, client
    <2> QED  BY <2>1, <2>2, <2>3, <2>4
  <1>2. Only(u)
    BY OnlyActs DEF Handles
  <1> QED  BY <1>1, <1>2, Unseen

LEMMA HandlerDelivers ==
  ASSUME IInv, NEW u \in Uploads, Linked(u), Handles(u)
  PROVE  Delivery!Next \/ UNCHANGED Seen
  <1>1. CASE CreateRun(u)
    BY <1>1, CreateDelivers DEF Delivery!Next
  <1>2. CASE SubmitMany(u) /\ stage'[u] = "answered"
    BY <1>2, SubmitDelivers DEF Delivery!Next
  <1>3. CASE Attach(u)
    <2>1. \E f \in [v \in Uploads |-> Script[v].files][u] : Delivery!Attach(u, f)
      BY <1>3, AttachDelivers DEF Files
    <2> QED  BY <2>1 DEF Delivery!Next
  <1>4. CASE CloseRun(u)
    BY <1>4, CloseDelivers DEF Delivery!Next
  <1> QED  BY <1>1, <1>2, <1>3, <1>4, QuietHandlers DEF Handles

LEMMA NextDelivers ==
  ASSUME IInv, IInv', \A u \in Uploads : Linked(u), [Next]_vars
  PROVE  [Delivery!Next]_Seen
  <1>1. ASSUME NEW u \in Uploads, Client(u) PROVE Delivery!Next \/ UNCHANGED Seen
    BY <1>1, ClientDelivers
  <1>2. ASSUME NEW u \in Uploads, Handles(u) PROVE Delivery!Next \/ UNCHANGED Seen
    BY <1>2, HandlerDelivers
  <1>3. ASSUME NEW c \in Cases, DeleteCase(c) PROVE UNCHANGED Seen
    BY <1>3, MissingStays DEF DeleteCase, Seen, client, handler
  <1>4. ASSUME UNCHANGED vars PROVE UNCHANGED Seen
    BY <1>4, MissingStays DEF vars, server, client, handler, Seen
  <1> QED  BY <1>1, <1>2, <1>3, <1>4 DEF Next

(* Each step of a client or a handler is one of ReportDelivery or none:    *)
(* whatever is lost and however late a handler is, an upload takes effect  *)
(* once, in the order of its script, and never after an exit code that     *)
(* says how it ended (upload, client._request, import_results).            *)
THEOREM ReportsAreDelivered == Spec => DeliverySpec
  <1>1. Init => Delivery!Init /\ \A u \in Uploads : Linked(u)
    BY InitDelivers, InitLinked
  <1>2. IInv /\ (\A u \in Uploads : Linked(u)) /\ [Next]_vars
          => (\A u \in Uploads : Linked(u))'
    BY NextLinked
  <1>3. IInv /\ IInv' /\ (\A u \in Uploads : Linked(u)) /\ [Next]_vars
          => [Delivery!Next]_<<Delivery!effects, exit>>
    BY NextDelivers DEF Seen, Missing, Delivery!effects
  <1> QED  BY <1>1, <1>2, <1>3, Inductive, PTL DEF Spec, DeliverySpec, Delivery!Spec
=============================================================================
