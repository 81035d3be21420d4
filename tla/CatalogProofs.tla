--------------------------- MODULE CatalogProofs ---------------------------
(***************************************************************************)
(* What Catalog promises for any projects, suites, cases and runs.         *)
(*                                                                         *)
(* First for any number of requests in flight: the types, and that only a  *)
(* restore brings a deleted row back.  Then for requests one after the     *)
(* other: nothing is live below something deleted and the suites are a     *)
(* tree.  What a request found is then still so when it commits, and that  *)
(* is the invariant: Justified says, for every point of a transaction,     *)
(* what its SELECTs and UPDATEs have established.                          *)
(***************************************************************************)
EXTENDS Catalog, TLAPS

(* Where a request can be, by what it does.                                *)
Staged(q) ==
  /\ pc[q] # "idle" => op[q] \in Ops
  /\ Cascades(op[q]) =>
       pc[q] \in {"idle", "begun", "checked", "cases", "runs", "written"}
  /\ ~ Cascades(op[q]) =>
       pc[q] \in {"idle", "begun", "checked", "ready", "written"}
  /\ pc[q] = "checked" /\ ~ Cascades(op[q]) => MovesSuite(op[q])

(* The row a request creates is not there yet, any other row it is about   *)
(* is.                                                                     *)
Fresh(q) ==
  pc[q] # "idle" => (op[q].verb = "create" <=> state[op[q].id] = "absent")

(* What it has written: its own row or, if it cascades, rows that exist.   *)
Holds(q) ==
  \A x \in held[q] : /\ pc[q] # "idle"
                     /\ x = op[q].id \/ (Cascades(op[q]) /\ state[x] # "absent")

(* A suite it places goes under a suite of the same project.               *)
Places(q) ==
  pc[q] \in {"checked", "ready", "written"} /\ op[q].verb \in {"create", "move"}
    /\ op[q].id \in Suites /\ op[q].to \in Suites
    => ProjectOf[op[q].to] = ProjectOf[op[q].id]

OneCreator ==
  \A q, r \in Requests :
    pc[q] # "idle" /\ pc[r] # "idle" /\ op[q].verb = "create"
      /\ op[r].verb = "create" /\ op[q].id = op[r].id => q = r

InFlight(q) == Staged(q) /\ Fresh(q) /\ Holds(q) /\ Places(q)

CatalogInv == TypeOK /\ OneCreator /\ \A q \in Requests : InFlight(q)

-----------------------------------------------------------------------------
LEMMA NoOpIsNothing ==
  /\ NoOp \in Op
  /\ NoOp.verb = "restore" /\ NoOp.id \in Projects
  /\ ~ Cascades(NoOp) /\ ~ MovesSuite(NoOp)
  <1>1. (CHOOSE p \in Projects : TRUE) \in Projects
    BY CatalogAssumption
  <1> QED  BY <1>1 DEF NoOp, Op, Rows, Cascades, MovesSuite

LEMMA InitInv ==
  ASSUME Init
  PROVE  CatalogInv
  <1>1. TypeOK
    BY NoOpIsNothing, CatalogAssumption DEF Init, TypeOK, State, Rows, Placed
  <1>2. OneCreator
    BY DEF Init, OneCreator
  <1>3. ASSUME NEW q \in Requests
        PROVE  InFlight(q)
    BY NoOpIsNothing DEF Init, InFlight, Staged, Fresh, Holds, Places
  <1> QED  BY <1>1, <1>2, <1>3 DEF CatalogInv

\* A step that leaves the rows alone and touches one request.
LEMMA QuietStep ==
  ASSUME CatalogInv, NEW q \in Requests,
         UNCHANGED <<rows, op, aimed, strayed>>,
         NEW at \in {"begun", "checked", "ready", "cases", "runs", "written"},
         pc' = [pc EXCEPT ![q] = at],
         found' \in [Requests -> SUBSET Suites],
         held' \in [Requests -> SUBSET Rows],
         \A r \in Requests : r # q => held'[r] = held[r],
         pc[q] # "idle",
         Staged(q)', Holds(q)', Places(q)'
  PROVE  CatalogInv'
  <1>1. TypeOK'
    BY DEF CatalogInv, TypeOK, rows
  <1>2. \A r \in Requests : r # q => pc'[r] = pc[r]
    BY DEF CatalogInv, TypeOK
  <1>3. pc'[q] = at
    BY DEF CatalogInv, TypeOK
  <1>4. OneCreator'
    BY <1>2, <1>3 DEF CatalogInv, OneCreator
  <1>5. ASSUME NEW r \in Requests
        PROVE  InFlight(r)'
    <2>1. CASE r = q
      BY <2>1, <1>3 DEF CatalogInv, InFlight, Fresh, rows
    <2>2. CASE r # q
      BY <2>2, <1>2 DEF CatalogInv, InFlight, Staged, Fresh, Holds, Places, rows
    <2> QED  BY <2>1, <2>2
  <1> QED  BY <1>1, <1>4, <1>5 DEF CatalogInv

LEMMA BeginStep ==
  ASSUME CatalogInv, NEW q \in Requests, NEW o \in Ops, Begin(q, o)
  PROVE  CatalogInv'
  <1>1. o \in Op /\ o.id \in Rows /\ o.verb \in {"create", "move", "delete", "restore"}
    BY CatalogAssumption DEF Op
  <1>2. o.verb = "restore" /\ o.id \in Cases => above[o.id] \in Suites
    BY <1>1 DEF CatalogInv, TypeOK, Begin, Admits, Placed
  <1>3. TypeOK'
    BY <1>1, <1>2 DEF CatalogInv, TypeOK, Begin, rows
  <1>4. \A r \in Requests : r # q => pc'[r] = pc[r] /\ op'[r] = op[r]
    BY DEF CatalogInv, TypeOK, Begin
  <1>5. pc'[q] = "begun" /\ op'[q] = o
    BY DEF CatalogInv, TypeOK, Begin
  <1>6. OneCreator'
    BY <1>4, <1>5 DEF CatalogInv, OneCreator, Begin
  <1>7. ASSUME NEW r \in Requests
        PROVE  InFlight(r)'
    <2>1. CASE r = q
      <3>1. held'[q] = {}
        BY DEF CatalogInv, InFlight, Holds, Begin
      <3>2. o.verb = "create" <=> state[o.id] = "absent"
        BY <1>1 DEF Begin, Admits
      <3> QED  BY <2>1, <1>5, <3>1, <3>2
                 DEF InFlight, Staged, Fresh, Holds, Places, Begin, rows
    <2>2. CASE r # q
      BY <2>2, <1>4 DEF CatalogInv, InFlight, Staged, Fresh, Holds, Places, Begin, rows
    <2> QED  BY <2>1, <2>2
  <1> QED  BY <1>3, <1>6, <1>7 DEF CatalogInv

LEMMA EndStep ==
  ASSUME CatalogInv, NEW q \in Requests, Refuse(q)
  PROVE  CatalogInv'
  <1>1. TypeOK'
    BY NoOpIsNothing DEF CatalogInv, TypeOK, Refuse, End, rows
  <1>2. \A r \in Requests :
          r # q => pc'[r] = pc[r] /\ op'[r] = op[r] /\ held'[r] = held[r]
    BY DEF CatalogInv, TypeOK, Refuse, End
  <1>3. pc'[q] = "idle" /\ op'[q] = NoOp /\ held'[q] = {}
    BY DEF CatalogInv, TypeOK, Refuse, End
  <1>4. OneCreator'
    BY <1>2, <1>3 DEF CatalogInv, OneCreator
  <1>5. ASSUME NEW r \in Requests
        PROVE  InFlight(r)'
    <2>1. CASE r = q
      BY <2>1, <1>3, NoOpIsNothing DEF InFlight, Staged, Fresh, Holds, Places
    <2>2. CASE r # q
      BY <2>2, <1>2
         DEF CatalogInv, InFlight, Staged, Fresh, Holds, Places, Refuse, rows
    <2> QED  BY <2>1, <2>2
  <1> QED  BY <1>1, <1>4, <1>5 DEF CatalogInv

LEMMA CheckStep ==
  ASSUME CatalogInv, NEW q \in Requests, Check(q)
  PROVE  CatalogInv'
  <1> DEFINE at == IF MovesSuite(op[q]) THEN "checked" ELSE "ready"
  <1>1. pc'[q] = at /\ held' = held /\ op' = op
    BY DEF Check, CatalogInv, TypeOK
  <1>2. Staged(q)'
    BY <1>1 DEF Check, CatalogInv, InFlight, Staged
  <1>3. Holds(q)'
    BY <1>1 DEF Check, CatalogInv, InFlight, Holds, rows
  <1>4. Places(q)'
    <2>1. op[q].verb \in {"create", "move"} /\ op[q].id \in Suites
            => ParentFits(op[q])
      BY DEF Check, Fits
    <2>2. NoSuite \notin Suites
      BY CatalogAssumption
    <2> QED  BY <1>1, <2>1, <2>2 DEF Places, ParentFits
  <1> QED  BY <1>1, <1>2, <1>3, <1>4, QuietStep DEF Check, CatalogInv, TypeOK

LEMMA GuardStep ==
  ASSUME CatalogInv, NEW q \in Requests, Guard(q)
  PROVE  CatalogInv'
  <1>1. pc'[q] = "ready" /\ held' = held /\ op' = op
    BY DEF Guard, CatalogInv, TypeOK
  <1>2. Staged(q)'
    BY <1>1 DEF Guard, CatalogInv, InFlight, Staged, MovesSuite, Cascades
  <1>3. Holds(q)'
    BY <1>1 DEF Guard, CatalogInv, InFlight, Holds, rows
  <1>4. Places(q)'
    BY <1>1 DEF Guard, CatalogInv, InFlight, Places
  <1> QED  BY <1>1, <1>2, <1>3, <1>4, QuietStep DEF Guard, CatalogInv, TypeOK

LEMMA WriteStep ==
  ASSUME CatalogInv, NEW q \in Requests, Write(q)
  PROVE  CatalogInv'
  <1>1. pc'[q] = "written" /\ held'[q] = {op[q].id} /\ op' = op
    BY DEF Write, CatalogInv, TypeOK
  <1>2. op[q].id \in Rows
    BY DEF CatalogInv, TypeOK, Op
  <1>3. Staged(q)'
    BY <1>1 DEF Write, CatalogInv, InFlight, Staged
  <1>4. Holds(q)'
    BY <1>1 DEF Holds
  <1>5. Places(q)'
    BY <1>1 DEF Write, CatalogInv, InFlight, Places
  <1>6. /\ held' \in [Requests -> SUBSET Rows]
        /\ \A r \in Requests : r # q => held'[r] = held[r]
    BY <1>2 DEF Write, CatalogInv, TypeOK
  <1> QED  BY <1>1, <1>3, <1>4, <1>5, <1>6, QuietStep DEF Write, CatalogInv, TypeOK

\* The steps of a cascade lock rows that exist.
LEMMA CascadeStep ==
  ASSUME CatalogInv, NEW q \in Requests, Cascades(op[q]), pc[q] # "idle",
         UNCHANGED <<rows, op, strayed>>,
         NEW at \in {"checked", "cases", "runs", "written"},
         pc' = [pc EXCEPT ![q] = at],
         found' \in [Requests -> SUBSET Suites],
         aimed' \in [Requests -> SUBSET Cases],
         NEW mine \in SUBSET Rows,
         held' = [held EXCEPT ![q] = mine],
         \A x \in mine : x = op[q].id \/ state[x] # "absent"
  PROVE  CatalogInv'
  <1>1. TypeOK'
    BY DEF CatalogInv, TypeOK, rows
  <1>2. \A r \in Requests : r # q => pc'[r] = pc[r] /\ held'[r] = held[r]
    BY DEF CatalogInv, TypeOK
  <1>3. pc'[q] = at /\ held'[q] = mine
    BY DEF CatalogInv, TypeOK
  <1>4. OneCreator'
    BY <1>2, <1>3 DEF CatalogInv, OneCreator
  <1>5. ASSUME NEW r \in Requests
        PROVE  InFlight(r)'
    <2>1. CASE r = q
      <3>1. Staged(q)'
        BY <1>3 DEF CatalogInv, InFlight, Staged
      <3>2. Fresh(q)' /\ Holds(q)'
        BY <1>3 DEF CatalogInv, InFlight, Fresh, Holds, rows
      <3>3. Places(q)'
        BY <1>3 DEF Places, Cascades
      <3> QED  BY <2>1, <3>1, <3>2, <3>3 DEF InFlight
    <2>2. CASE r # q
      BY <2>2, <1>2 DEF CatalogInv, InFlight, Staged, Fresh, Holds, Places, rows
    <2> QED  BY <2>1, <2>2
  <1> QED  BY <1>1, <1>4, <1>5 DEF CatalogInv

LEMMA CascadeSteps ==
  ASSUME CatalogInv, NEW q \in Requests,
         \/ CollectSubtree(q) \/ CollectProject(q)
         \/ SweepSuites(q) \/ SweepCases(q) \/ SweepRuns(q)
  PROVE  CatalogInv'
  <1>0. /\ found \in [Requests -> SUBSET Suites]
        /\ aimed \in [Requests -> SUBSET Cases]
        /\ held \in [Requests -> SUBSET Rows]
        /\ op[q].id \in Rows
    BY DEF CatalogInv, TypeOK, Op
  <1>a. \A x \in held[q] : x = op[q].id \/ state[x] # "absent"
    BY DEF CatalogInv, InFlight, Holds
  <1>b. Suites \subseteq Rows /\ Cases \subseteq Rows /\ Runs \subseteq Rows
    BY DEF Rows
  <1>c. CASE CollectSubtree(q)
    <2>1. held' = [held EXCEPT ![q] = held[q]]
      BY <1>0, <1>c DEF CollectSubtree
    <2>2. found' \in [Requests -> SUBSET Suites]
      BY <1>0, <1>c DEF CollectSubtree, _descendant_suite_ids
    <2>3. UNCHANGED <<rows, op, strayed>> /\ Cascades(op[q]) /\ pc[q] # "idle"
      BY <1>c DEF CollectSubtree
    <2>4. pc' = [pc EXCEPT ![q] = "checked"] /\ aimed' = aimed
      BY <1>c DEF CollectSubtree
    <2> QED  BY <1>0, <1>a, <2>1, <2>2, <2>3, <2>4, CascadeStep
  <1>d. CASE CollectProject(q)
    <2>1. held' = [held EXCEPT ![q] = {op[q].id}] /\ {op[q].id} \in SUBSET Rows
      BY <1>0, <1>d DEF CollectProject
    <2>2. found' \in [Requests -> SUBSET Suites]
      BY <1>0, <1>d DEF CollectProject
    <2>3. UNCHANGED <<rows, op, strayed>> /\ Cascades(op[q]) /\ pc[q] # "idle"
      BY <1>d DEF CollectProject
    <2>4. pc' = [pc EXCEPT ![q] = "checked"] /\ aimed' = aimed
      BY <1>d DEF CollectProject
    <2> QED  BY <1>0, <2>1, <2>2, <2>3, <2>4, CascadeStep
  <1>e. CASE SweepSuites(q)
    <2> DEFINE mine == held[q] \union {s \in found[q] : state[s] = "live"}
    <2>1. held' = [held EXCEPT ![q] = mine]
      BY <1>e DEF SweepSuites
    <2>2. /\ mine \in SUBSET Rows
          /\ \A x \in mine : x = op[q].id \/ state[x] # "absent"
      BY <1>0, <1>a, <1>b
    <2>3. UNCHANGED <<rows, op, strayed>> /\ Cascades(op[q]) /\ pc[q] # "idle"
      BY <1>e DEF SweepSuites
    <2>4. pc' = [pc EXCEPT ![q] = "cases"] /\ found' = found
      BY <1>e DEF SweepSuites
    <2>5. aimed' \in [Requests -> SUBSET Cases]
      BY <1>0, <1>e DEF SweepSuites
    <2> HIDE DEF mine
    <2> QED  BY <1>0, <2>1, <2>2, <2>3, <2>4, <2>5, CascadeStep
  <1>f. CASE SweepCases(q)
    <2> DEFINE mine == held[q] \union
               {c \in aimed[q] : state[c] = "live" /\ above[c] \in found[q]}
               at == IF op[q].id \in Projects THEN "runs" ELSE "written"
    <2>1. held' = [held EXCEPT ![q] = mine]
      BY <1>f DEF SweepCases
    <2>2. /\ mine \in SUBSET Rows
          /\ \A x \in mine : x = op[q].id \/ state[x] # "absent"
      BY <1>0, <1>a, <1>b
    <2>3. UNCHANGED <<rows, op, strayed>> /\ Cascades(op[q]) /\ pc[q] # "idle"
      BY <1>f DEF SweepCases, CatalogInv, InFlight, Staged
    <2>4. /\ pc' = [pc EXCEPT ![q] = at] /\ at \in {"runs", "written"}
          /\ found' = found /\ aimed' = aimed
      BY <1>f DEF SweepCases
    <2> HIDE DEF mine, at
    <2> QED  BY <1>0, <2>1, <2>2, <2>3, <2>4, CascadeStep
  <1>g. CASE SweepRuns(q)
    <2> DEFINE mine == held[q] \union
               {r \in Runs : state[r] = "live" /\ ProjectOf[r] = op[q].id}
    <2>1. held' = [held EXCEPT ![q] = mine]
      BY <1>g DEF SweepRuns
    <2>2. /\ mine \in SUBSET Rows
          /\ \A x \in mine : x = op[q].id \/ state[x] # "absent"
      BY <1>0, <1>a, <1>b
    <2>3. UNCHANGED <<rows, op, strayed>> /\ Cascades(op[q]) /\ pc[q] # "idle"
      BY <1>g DEF SweepRuns, CatalogInv, InFlight, Staged
    <2>4. pc' = [pc EXCEPT ![q] = "written"] /\ found' = found /\ aimed' = aimed
      BY <1>g DEF SweepRuns
    <2> HIDE DEF mine
    <2> QED  BY <1>0, <2>1, <2>2, <2>3, <2>4, CascadeStep
  <1> QED  BY <1>c, <1>d, <1>e, <1>f, <1>g

-----------------------------------------------------------------------------
\* What a commit leaves: rows exist or not as before, but for a created one.
LEMMA CommitExists ==
  ASSUME CatalogInv, NEW q \in Requests, Commit(q)
  PROVE  /\ state' \in [Rows -> State]
         /\ op[q].verb = "create" => held[q] \subseteq {op[q].id}
         /\ \A x \in Rows : state[x] = "absent" /\ state'[x] # "absent" =>
              op[q].verb = "create" /\ x = op[q].id
         /\ \A x \in Rows : state[x] # "absent" => state'[x] # "absent"
  <1>1. op[q].verb \in {"create", "move", "delete", "restore"}
    BY DEF CatalogInv, TypeOK, Op
  <1>2. state \in [Rows -> State]
    BY DEF CatalogInv, TypeOK
  <1>3. /\ Fresh(q) /\ Holds(q) /\ pc[q] = "written"
        /\ state' = [x \in Rows |-> IF x \in held[q] THEN After(op[q], x)
                                                     ELSE state[x]]
    BY DEF CatalogInv, InFlight, Commit
  <1>4. \A x \in Rows : After(op[q], x) \in State
    BY <1>2 DEF After, State
  <1>5. state' \in [Rows -> State]
    BY <1>2, <1>3, <1>4
  <1>6. op[q].verb = "create" => held[q] \subseteq {op[q].id}
    BY <1>3 DEF Holds, Cascades
  <1>7. ASSUME NEW x \in Rows, state[x] = "absent", state'[x] # "absent"
        PROVE  op[q].verb = "create" /\ x = op[q].id
    <2>1. x \in held[q]
      BY <1>3, <1>7
    <2> QED  BY <1>3, <1>7, <2>1 DEF Holds, Fresh
  <1>8. ASSUME NEW x \in Rows, state[x] # "absent"
        PROVE  state'[x] # "absent"
    BY <1>1, <1>3, <1>8 DEF After
  <1> QED  BY <1>5, <1>6, <1>7, <1>8

LEMMA CommitStep ==
  ASSUME CatalogInv, NEW q \in Requests, Commit(q)
  PROVE  CatalogInv'
  <1>0. /\ pc[q] = "written" /\ InFlight(q) /\ op[q] \in Ops /\ op[q] \in Op
        /\ above' = [x \in Placed |-> PlacedBy(op[q], x)]
        /\ above \in [Placed -> Suites \union {NoSuite}]
        /\ op[q].to \in Suites \union {NoSuite}
    BY CatalogAssumption DEF CatalogInv, InFlight, Staged, Commit, TypeOK, Op
  <1>1. above' \in [Placed -> Suites \union {NoSuite}]
    BY <1>0 DEF PlacedBy
  <1>2. \A c \in Cases : state'[c] # "absent" => above'[c] \in Suites
    <2> SUFFICES ASSUME NEW c \in Cases, state'[c] # "absent"
                 PROVE  above'[c] \in Suites
      OBVIOUS
    <2>1. c \in Rows /\ c \in Placed
      BY DEF Rows, Placed
    <2>2. CASE op[q].verb \in {"create", "move"} /\ c = op[q].id
      BY <1>0, <2>1, <2>2, CatalogAssumption DEF PlacedBy
    <2>3. CASE ~ (op[q].verb \in {"create", "move"} /\ c = op[q].id)
      <3>1. state[c] # "absent"
        BY <2>1, <2>3, CommitExists
      <3> QED  BY <1>0, <2>1, <2>3, <3>1 DEF PlacedBy, CatalogInv, TypeOK
    <2> QED  BY <2>2, <2>3
  <1>3. \A s \in Suites : above'[s] \in Suites => ProjectOf[above'[s]] = ProjectOf[s]
    <2> SUFFICES ASSUME NEW s \in Suites, above'[s] \in Suites
                 PROVE  ProjectOf[above'[s]] = ProjectOf[s]
      OBVIOUS
    <2>1. above'[s] = PlacedBy(op[q], s)
      BY <1>0 DEF Placed
    <2> QED  BY <1>0, <2>1 DEF PlacedBy, CatalogInv, TypeOK, InFlight, Places
  <1>4. TypeOK'
    BY <1>1, <1>2, <1>3, CommitExists, NoOpIsNothing DEF CatalogInv, TypeOK, Commit, End
  <1>5. \A r \in Requests :
          r # q => pc'[r] = pc[r] /\ op'[r] = op[r] /\ held'[r] = held[r]
    BY DEF CatalogInv, TypeOK, Commit, End
  <1>6. pc'[q] = "idle" /\ op'[q] = NoOp /\ held'[q] = {}
    BY DEF CatalogInv, TypeOK, Commit, End
  <1>7. OneCreator'
    BY <1>5, <1>6 DEF CatalogInv, OneCreator
  <1>8. ASSUME NEW r \in Requests
        PROVE  InFlight(r)'
    <2>1. CASE r = q
      BY <2>1, <1>6, NoOpIsNothing DEF InFlight, Staged, Fresh, Holds, Places
    <2>2. CASE r # q
      <3>1. op[r].id \in Rows /\ InFlight(r)
        BY DEF CatalogInv, TypeOK, Op
      <3>2. Staged(r)' /\ Places(r)'
        BY <2>2, <1>5, <3>1 DEF InFlight, Staged, Places
      <3>3. Fresh(r)'
        <4> SUFFICES ASSUME pc[r] # "idle"
                     PROVE  op[r].verb = "create" <=> state'[op[r].id] = "absent"
          BY <2>2, <1>5 DEF Fresh
        <4>1. CASE op[r].verb = "create"
          <5>1. state[op[r].id] = "absent"
            BY <3>1, <4>1 DEF InFlight, Fresh
          <5>2. ~ (op[q].verb = "create" /\ op[r].id = op[q].id)
            BY <1>0, <2>2, <4>1 DEF CatalogInv, OneCreator
          <5> QED  BY <3>1, <4>1, <5>1, <5>2, CommitExists
        <4>2. CASE op[r].verb # "create"
          BY <3>1, <4>2, CommitExists DEF InFlight, Fresh
        <4> QED  BY <4>1, <4>2
      <3>4. Holds(r)'
        <4>1. held[r] \subseteq Rows
          BY DEF CatalogInv, TypeOK
        <4> QED  BY <2>2, <1>5, <3>1, <4>1, CommitExists DEF InFlight, Holds
      <3> QED  BY <2>2, <3>2, <3>3, <3>4 DEF InFlight
    <2> QED  BY <2>1, <2>2
  <1> QED  BY <1>4, <1>7, <1>8 DEF CatalogInv

LEMMA NextInv ==
  ASSUME CatalogInv, [Next]_vars
  PROVE  CatalogInv'
  <1>1. CASE UNCHANGED vars
    BY <1>1 DEF CatalogInv, TypeOK, OneCreator, InFlight, Staged, Fresh, Holds,
                Places, vars
  <1>2. CASE Next
    BY <1>2, BeginStep, CheckStep, GuardStep, EndStep, WriteStep, CascadeSteps,
       CommitStep DEF Next
  <1> QED  BY <1>1, <1>2

-----------------------------------------------------------------------------
(* However requests overlap, rows in flight are what they were when the    *)
(* request was admitted (get_db's transactions over the four services).    *)
THEOREM CatalogInvariant == Spec => []CatalogInv
  <1> QED  BY InitInv, NextInv, PTL DEF Spec

(* All variables have their types, a case is always in a suite, and a      *)
(* suite under one of its own project (the checks of create_suite and      *)
(* update_suite).                                                          *)
THEOREM CatalogTypeCorrect == Spec => []TypeOK
  <1>1. CatalogInv => TypeOK
    BY DEF CatalogInv
  <1> QED  BY <1>1, CatalogInvariant, PTL

LEMMA ReviveStep ==
  ASSUME CatalogInv, Next, NEW x \in Rows, state[x] = "deleted", state'[x] = "live"
  PROVE  \E q \in Requests : /\ pc[q] = "written" /\ pc'[q] = "idle"
                             /\ op[q].verb = "restore" /\ op[q].id = x
  <1>1. PICK q \in Requests : Commit(q)
    BY DEF Next, Begin, Check, Guard, Refuse, Write, CollectSubtree,
           CollectProject, SweepSuites, SweepCases, SweepRuns, rows
  <1>2. /\ pc[q] = "written" /\ pc'[q] = "idle" /\ InFlight(q)
        /\ op[q].verb \in {"create", "move", "delete", "restore"}
        /\ state'[x] = IF x \in held[q] THEN After(op[q], x) ELSE state[x]
    BY <1>1 DEF Commit, End, CatalogInv, TypeOK, Op
  <1>3. x \in held[q] /\ op[q].verb \notin {"delete", "move"}
    BY <1>2 DEF After
  <1>4. x = op[q].id
    BY <1>2, <1>3 DEF InFlight, Holds, Cascades
  <1>5. op[q].verb # "create"
    BY <1>2, <1>4 DEF InFlight, Fresh
  <1> QED  BY <1>2, <1>3, <1>4, <1>5

(* However requests overlap, only the restore of a row makes it live again:*)
(* a move, which writes the row by its key, does not undo the cascade that *)
(* deleted it meanwhile (update_suite and update_test_case against         *)
(* delete_suite and delete_project).                                       *)
THEOREM RevivedByRestore == Spec => OnlyRestoreRevives
  <1>1. CatalogInv /\ [Next]_vars =>
          [\A x \in Rows : state[x] = "deleted" /\ state'[x] = "live" =>
             \E q \in Requests : /\ pc[q] = "written" /\ pc'[q] = "idle"
                                 /\ op[q].verb = "restore" /\ op[q].id = x]_vars
    BY ReviveStep
  <1> QED  BY <1>1, CatalogInvariant, PTL DEF Spec, OnlyRestoreRevives

-----------------------------------------------------------------------------
(* One request at a time.  What the SELECTs and UPDATEs of a transaction   *)
(* established is still so: no other request has changed the rows.         *)
Doomed(o) ==
  IF o.id \in Suites THEN _descendant_suite_ids(o.id)
  ELSE {s \in Suites : state[s] = "live" /\ ProjectOf[s] = o.id}

CasesIn(S) == {c \in Cases : state[c] = "live" /\ above[c] \in S}
RunsOf(p)  == {r \in Runs : state[r] = "live" /\ ProjectOf[r] = p}

OneRow(q) ==
  ~ Cascades(op[q]) =>
    /\ pc[q] \in {"checked", "ready", "written"} => Fits(q, op[q])
    /\ pc[q] \in {"ready", "written"} /\ MovesSuite(op[q])
         => op[q].to \notin _descendant_suite_ids(op[q].id)
    /\ pc[q] = "written" => held[q] = {op[q].id}

Cascade(q) ==
  Cascades(op[q]) =>
    /\ pc[q] \in {"checked", "cases", "runs", "written"} =>
         /\ found[q] = Doomed(op[q])
         /\ op[q].id \in Projects => op[q].id \in held[q]
         /\ held[q] \intersect (Suites \union Projects) \subseteq found[q] \union {op[q].id}
    /\ pc[q] \in {"cases", "runs", "written"} =>
         /\ {s \in found[q] : state[s] = "live"} \subseteq held[q]
         /\ aimed[q] = CasesIn(found[q])
    /\ pc[q] \in {"runs", "written"} => CasesIn(found[q]) \subseteq held[q]
    /\ pc[q] = "written" /\ op[q].id \in Projects => RunsOf(op[q].id) \subseteq held[q]

Justified(q) ==
  /\ pc[q] # "idle" => Admits(op[q])
  /\ pc[q] = "begun" => held[q] = {}
  /\ pc[q] # "idle" /\ op[q].verb = "restore" /\ op[q].id \in Cases
       => found[q] = {above[op[q].id]}
  /\ OneRow(q) /\ Cascade(q)

AllAttached == \A x \in Rows : state[x] = "live" => Attached(x)

AloneInv ==
  Alone => /\ \A q \in Requests : Justified(q)
           /\ ~ strayed => AllAttached /\ Acyclic

\* While the rows stay, what is below what stays.
LEMMA SameBelow ==
  ASSUME UNCHANGED rows
  PROVE  \A s : _descendant_suite_ids(s)' = _descendant_suite_ids(s)
  BY DEF rows, _descendant_suite_ids, ClosedBelow

LEMMA BeginJustified ==
  ASSUME CatalogInv, NEW q \in Requests, NEW o \in Ops, Begin(q, o)
  PROVE  Justified(q)'
  <1>1. pc'[q] = "begun" /\ op'[q] = o /\ held'[q] = {}
    BY DEF CatalogInv, TypeOK, Begin, InFlight, Holds
  <1>2. Admits(o)'
    BY DEF Begin, Admits, rows, ProjectFor
  <1>3. o.verb = "restore" /\ o.id \in Cases => found'[q] = {above'[o.id]}
    BY DEF Begin, rows, CatalogInv, TypeOK
  <1> QED  BY <1>1, <1>2, <1>3 DEF Justified, OneRow, Cascade

LEMMA OneRowJustified ==
  ASSUME CatalogInv, NEW q \in Requests, Justified(q),
         Check(q) \/ Guard(q) \/ Write(q)
  PROVE  Justified(q)'
  <1>1. UNCHANGED <<rows, op, found, aimed>> /\ op'[q] = op[q] /\ found'[q] = found[q]
    BY DEF Check, Guard, Write
  <1>2. pc[q] # "idle" /\ ~ Cascades(op[q])
    BY DEF Check, Guard, Write, CatalogInv, InFlight, Staged, MovesSuite, Cascades
  <1>3. Admits(op[q])' /\ (Fits(q, op[q])' <=> Fits(q, op[q]))
    BY <1>1, <1>2 DEF Justified, Admits, ProjectFor, Fits, ParentFits, rows
  <1>4. _descendant_suite_ids(op[q].id)' = _descendant_suite_ids(op[q].id)
    BY <1>1, SameBelow
  <1>5. pc'[q] # "begun" /\ (pc'[q] = "written" => held'[q] = {op[q].id})
    BY DEF Check, Guard, Write, CatalogInv, TypeOK
  <1>6. pc'[q] \in {"checked", "ready", "written"} => Fits(q, op[q])
    BY <1>2 DEF Check, Guard, Write, CatalogInv, TypeOK, Justified, OneRow
  <1>7. pc'[q] \in {"ready", "written"} /\ MovesSuite(op[q])
          => op[q].to \notin _descendant_suite_ids(op[q].id)
    BY <1>2 DEF Check, Guard, Write, CatalogInv, TypeOK, Justified, OneRow
  <1> QED  BY <1>1, <1>2, <1>3, <1>4, <1>5, <1>6, <1>7
             DEF Justified, OneRow, Cascade, MovesSuite, Cascades, rows

LEMMA CascadeJustified ==
  ASSUME CatalogInv, NEW q \in Requests, Justified(q),
         \/ CollectSubtree(q) \/ CollectProject(q)
         \/ SweepSuites(q) \/ SweepCases(q) \/ SweepRuns(q)
  PROVE  Justified(q)'
  <1>1. UNCHANGED <<rows, op>> /\ op'[q] = op[q]
    BY DEF CollectSubtree, CollectProject, SweepSuites, SweepCases, SweepRuns
  <1>2. pc[q] # "idle" /\ Cascades(op[q]) /\ pc'[q] # "begun"
    BY DEF CollectSubtree, CollectProject, SweepSuites, SweepCases, SweepRuns,
           CatalogInv, InFlight, Staged, TypeOK
  <1>3. Admits(op[q])' /\ op[q].verb = "delete"
    BY <1>1, <1>2 DEF Justified, Admits, ProjectFor, rows, Cascades
  <1>4. /\ Doomed(op[q])' = Doomed(op[q])
        /\ \A S : CasesIn(S)' = CasesIn(S)
        /\ \A p : RunsOf(p)' = RunsOf(p)
    BY <1>1, SameBelow DEF Doomed, CasesIn, RunsOf, rows
  <1>5. Cascade(q)'
    <2>1. CASE CollectSubtree(q)
      BY <2>1, <1>1, <1>2, <1>4, CatalogAssumption
         DEF CollectSubtree, Cascade, Doomed, CatalogInv, TypeOK, Justified, rows
    <2>2. CASE CollectProject(q)
      BY <2>2, <1>1, <1>2, <1>4, CatalogAssumption
         DEF CollectProject, Cascade, Doomed, CatalogInv, TypeOK, rows
    <2>3. CASE SweepSuites(q)
      BY <2>3, <1>1, <1>2, <1>4
         DEF SweepSuites, Cascade, CasesIn, CatalogInv, TypeOK, Justified, rows
    <2>4. CASE SweepCases(q)
      BY <2>4, <1>1, <1>2, <1>4, CatalogAssumption
         DEF SweepCases, Cascade, CasesIn, CatalogInv, TypeOK, Justified, rows
    <2>5. CASE SweepRuns(q)
      BY <2>5, <1>1, <1>2, <1>4, CatalogAssumption
         DEF SweepRuns, Cascade, RunsOf, CatalogInv, TypeOK, Justified, rows
    <2> QED  BY <2>1, <2>2, <2>3, <2>4, <2>5
  <1> QED  BY <1>1, <1>2, <1>3, <1>5 DEF Justified, OneRow, Cascades

LEMMA EndJustified ==
  ASSUME CatalogInv, NEW q \in Requests, End(q)
  PROVE  Justified(q)'
  <1>1. pc'[q] = "idle" /\ op'[q] = NoOp
    BY DEF End, CatalogInv, TypeOK
  <1> QED  BY <1>1, NoOpIsNothing DEF Justified, OneRow, Cascade

-----------------------------------------------------------------------------
\* A live child of a member of the subtree is in the subtree.
LEMMA BelowClosed ==
  ASSUME NEW s \in Suites, NEW t \in Suites, state[t] = "live",
         above[t] \in _descendant_suite_ids(s)
  PROVE  t \in _descendant_suite_ids(s)
  <1>1. state[s] = "live"
    BY DEF _descendant_suite_ids
  <1>2. ASSUME NEW X \in SUBSET Suites, s \in X, ClosedBelow(X)
        PROVE  t \in X
    <2>1. above[t] \in X
      BY <1>2 DEF _descendant_suite_ids
    <2> QED  BY <1>2, <2>1 DEF ClosedBelow
  <1> QED  BY <1>1, <1>2 DEF _descendant_suite_ids

LEMMA BelowItself ==
  ASSUME NEW s \in Suites, state[s] = "live"
  PROVE  s \in _descendant_suite_ids(s)
  BY DEF _descendant_suite_ids

\* What a commit does to the rows.
LEMMA CommitRows ==
  ASSUME CatalogInv, NEW q \in Requests, Commit(q), Justified(q)
  PROVE  /\ \A x \in Rows :
              state'[x] = IF x \in held[q] THEN After(op[q], x) ELSE state[x]
         /\ \A x \in Placed : above'[x] = PlacedBy(op[q], x)
         /\ op[q] \in Ops /\ op[q] \in Op /\ Admits(op[q])
         /\ op[q].verb \in {"create", "move", "delete", "restore"}
         /\ op[q].id \in Rows /\ op[q].to \in Suites \union {NoSuite}
         /\ OneRow(q) /\ Cascade(q) /\ pc[q] = "written" /\ TypeOK
  BY CatalogAssumption
     DEF Commit, CatalogInv, InFlight, Staged, Justified, TypeOK, Op

\* A commit of one row leaves every live row attached.
LEMMA OneRowAttached ==
  ASSUME CatalogInv, NEW q \in Requests, Commit(q), Justified(q),
         ~ Cascades(op[q]), AllAttached, ~ Strays(op[q])
  PROVE  AllAttached'
  <1> DEFINE o == op[q]
  <1>1. /\ held[q] = {o.id}
        /\ \A x \in Rows : state'[x] = IF x = o.id THEN After(o, x) ELSE state[x]
        /\ Fits(q, o) /\ Admits(o) /\ o \in Ops /\ TypeOK
        /\ o.verb \in {"create", "move", "delete", "restore"}
        /\ o.id \in Rows /\ o.to \in Suites \union {NoSuite}
        /\ \A x \in Placed : above'[x] = PlacedBy(o, x)
    BY CommitRows DEF OneRow
  <1>2. /\ Suites \subseteq Rows /\ Projects \subseteq Rows
        /\ Suites \subseteq Placed /\ Cases \subseteq Placed
        /\ \A x \in Suites \union Runs : ProjectOf[x] \in Projects
    BY CatalogAssumption DEF Rows, Placed
  <1>3. \A p \in Projects : state[p] = "live" => state'[p] = "live"
    BY <1>1, <1>2, CatalogAssumption DEF Cascades, After
  <1>4. \A s \in Suites : state[s] = "live" => state'[s] = "live"
    BY <1>1, <1>2 DEF Cascades, After
  <1>5. ASSUME NEW x \in Rows, state'[x] = "live", x # o.id
        PROVE  Attached(x)'
    <2>1. state[x] = "live" /\ Attached(x)
      BY <1>1, <1>5 DEF AllAttached
    <2>2. x \in Placed => above'[x] = above[x]
      BY <1>1, <1>5 DEF PlacedBy
    <2>3. x \in Placed => above[x] \in Suites \union {NoSuite}
      BY <1>1 DEF TypeOK
    <2> QED  BY <1>2, <1>3, <1>4, <2>1, <2>2, <2>3 DEF Attached
  <1>6. o.verb # "delete" /\ o.id \in Suites \union Runs
          => state[ProjectOf[o.id]] = "live"
    <2>1. o.verb = "create" /\ o.id \in Suites \union Runs => ProjectFor(o) = ProjectOf[o.id]
      BY CatalogAssumption DEF ProjectFor
    <2>2. o.verb = "move" => state[o.id] = "live"
      BY <1>1 DEF Admits
    <2> QED  BY <1>1, <2>1, <2>2 DEF Admits, Fits, AllAttached, Attached
  <1>7. ASSUME o.verb # "delete", o.id \in Placed, above'[o.id] # NoSuite
        PROVE  above'[o.id] \in Suites /\ state[above'[o.id]] = "live"
    <2>1. above'[o.id] \in Suites
      BY <1>1, <1>7 DEF PlacedBy, TypeOK
    <2>2. CASE o.verb \in {"create", "move"}
      <3>1. above'[o.id] = o.to
        BY <1>1, <1>7, <2>2 DEF PlacedBy
      <3>2. o.id \in Suites => ParentFits(o)
        BY <1>1, <2>2 DEF Fits
      <3>3. o.id \in Cases => state[o.to] = "live"
        BY <1>1, <2>1, <2>2, <3>1 DEF Fits, Strays
      <3> QED  BY <1>7, <2>1, <3>1, <3>2, <3>3, CatalogAssumption DEF ParentFits, Placed
    <2>3. CASE o.verb = "restore"
      <3>1. above'[o.id] = above[o.id]
        BY <1>1, <1>7, <2>3 DEF PlacedBy
      <3>2. o.id \in Suites => state[above[o.id]] = "live"
        BY <2>1, <2>3, <3>1 DEF Strays
      <3>3. o.id \in Cases => found[q] = {above[o.id]}
        BY <2>3, CommitRows DEF Justified
      <3>4. o.id \in Cases => state[above[o.id]] = "live"
        BY <1>1, <2>3, <3>3 DEF Fits
      <3> QED  BY <1>7, <2>1, <3>1, <3>2, <3>4 DEF Placed
    <2> QED  BY <1>1, <1>7, <2>2, <2>3
  <1>8. ASSUME NEW x \in Rows, state'[x] = "live", x = o.id
        PROVE  Attached(x)'
    <2>1. o.verb # "delete"
      BY <1>1, <1>8 DEF After
    <2> QED  BY <1>1, <1>2, <1>3, <1>4, <1>6, <1>7, <1>8, <2>1 DEF Attached
  <1> QED  BY <1>5, <1>8 DEF AllAttached

\* What a cascade leaves live was live, is where it was, and is not below.
LEMMA CascadeLeaves ==
  ASSUME CatalogInv, NEW q \in Requests, Commit(q), Justified(q),
         Cascades(op[q]), NEW x \in Rows, state'[x] = "live"
  PROVE  /\ state[x] = "live" /\ x \notin held[q]
         /\ x \in Placed => above'[x] = above[x]
  BY CommitRows DEF Cascades, After, PlacedBy

\* The commit of a cascade leaves every live row attached.
LEMMA CascadeAttached ==
  ASSUME CatalogInv, NEW q \in Requests, Commit(q), Justified(q),
         Cascades(op[q]), AllAttached
  PROVE  AllAttached'
  <1> SUFFICES ASSUME NEW x \in Rows, state'[x] = "live"
               PROVE  Attached(x)'
    BY DEF AllAttached
  <1> DEFINE o == op[q]
  <1>1. /\ state[x] = "live" /\ x \notin held[q] /\ Attached(x)
        /\ x \in Placed => above'[x] = above[x]
    BY CascadeLeaves DEF AllAttached
  <1>2. /\ found[q] = Doomed(o) /\ state[o.id] = "live"
        /\ o.id \in Projects => o.id \in held[q] /\ RunsOf(o.id) \subseteq held[q]
        /\ held[q] \intersect (Suites \union Projects) \subseteq found[q] \union {o.id}
        /\ {s \in found[q] : state[s] = "live"} \subseteq held[q]
        /\ CasesIn(found[q]) \subseteq held[q]
        /\ o.id \in Suites \union Projects /\ TypeOK
        /\ \A y \in Rows : state'[y] = IF y \in held[q] THEN After(o, y) ELSE state[y]
    BY CommitRows DEF Cascade, Cascades, Admits
  <1>3. /\ Suites \subseteq Rows /\ Projects \subseteq Rows
        /\ Projects \intersect Suites = {}
        /\ Suites \subseteq Placed /\ Cases \subseteq Placed
        /\ \A y \in Suites \union Runs : ProjectOf[y] \in Projects
    BY CatalogAssumption DEF Rows, Placed
  <1>4. found[q] \subseteq Suites /\ (o.id \in Suites => o.id \in found[q])
    BY <1>2, BelowItself DEF TypeOK, Doomed
  <1>5. x \in Suites => x \notin found[q]
    BY <1>1, <1>2
  <1>6. x \in Cases => above[x] \notin found[q]
    BY <1>1, <1>2 DEF CasesIn
  <1>7. x \in Suites => above[x] \notin found[q]
    <2> SUFFICES ASSUME x \in Suites, above[x] \in found[q]
                 PROVE  FALSE
      OBVIOUS
    <2>1. CASE o.id \in Suites
      BY <1>1, <1>2, <1>5, <2>1, BelowClosed DEF Doomed
    <2>2. CASE o.id \in Projects
      <3>1. above[x] \in Suites /\ ProjectOf[above[x]] = o.id
        BY <1>2, <1>3, <2>2 DEF Doomed
      <3>2. ProjectOf[x] = o.id
        BY <1>2, <3>1 DEF TypeOK
      <3> QED  BY <1>1, <1>2, <1>3, <1>5, <2>2, <3>2 DEF Doomed
    <2> QED  BY <1>2, <2>1, <2>2
  <1>8. x \in Suites \union Runs => state'[ProjectOf[x]] = "live"
    <2> SUFFICES ASSUME x \in Suites \union Runs
                 PROVE  ProjectOf[x] \notin held[q]
      BY <1>1, <1>2, <1>3 DEF Attached
    <2>1. SUFFICES ASSUME o.id \in Projects, ProjectOf[x] = o.id
                   PROVE  FALSE
      BY <1>2, <1>3, <1>4
    <2>2. CASE x \in Suites
      BY <1>1, <1>2, <1>3, <1>5, <2>1, <2>2 DEF Doomed
    <2>3. CASE x \in Runs
      BY <1>1, <1>2, <2>1, <2>3 DEF RunsOf
    <2> QED  BY <2>2, <2>3
  <1>9. x \in Placed => above[x] = NoSuite \/ state'[above[x]] = "live"
    <2> SUFFICES ASSUME x \in Placed, above[x] # NoSuite
                 PROVE  state'[above[x]] = "live"
      OBVIOUS
    <2>1. above[x] \in Suites /\ state[above[x]] = "live"
      BY <1>1, <1>2 DEF TypeOK, Attached
    <2>2. above[x] \notin found[q]
      BY <1>6, <1>7 DEF Placed
    <2>3. above[x] \notin held[q]
      BY <1>2, <1>3, <1>4, <2>1, <2>2
    <2> QED  BY <1>2, <1>3, <2>1, <2>3
  <1> QED  BY <1>1, <1>8, <1>9 DEF Attached

-----------------------------------------------------------------------------
\* A suite that goes live under nothing or a live suite closes no cycle:
\* nothing live was below it.
LEMMA RevivedKeepsTree ==
  ASSUME TypeOK, Acyclic, AllAttached, NEW s \in Suites, state[s] # "live",
         \A t \in Suites : t # s => above'[t] = above[t]
                                    /\ (state'[t] = "live" => state[t] = "live"),
         above'[s] = NoSuite \/ state[above'[s]] = "live"
  PROVE  Acyclic'
  <1> SUFFICES ASSUME NEW X \in SUBSET Suites, X # {},
                      \A t \in X : state'[t] = "live" /\ above'[t] \in X
               PROVE  FALSE
    BY DEF Acyclic
  <1> DEFINE Y == X \ {s}
  <1>1. \A t \in Y : state[t] = "live" /\ above[t] \in Y
    <2> SUFFICES ASSUME NEW t \in Y
                 PROVE  state[t] = "live" /\ above[t] \in Y
      OBVIOUS
    <2>1. state[t] = "live" /\ above[t] \in X /\ t \in Rows /\ t \in Placed
      BY DEF Rows, Placed
    <2>2. above[t] # s
      BY <2>1, CatalogAssumption DEF AllAttached, Attached
    <2> QED  BY <2>1, <2>2
  <1>2. Y # {}
    <2>1. s \in X => above'[s] \in X /\ above'[s] # s
      BY CatalogAssumption
    <2> QED  BY <2>1
  <1>3. Y \in SUBSET {t \in Suites : state[t] = "live"}
    BY <1>1
  <1> QED  BY <1>1, <1>2, <1>3 DEF Acyclic

\* Nor does a suite that moves under one outside its subtree.
LEMMA MovedKeepsTree ==
  ASSUME TypeOK, Acyclic, NEW s \in Suites, state[s] = "live",
         \A t \in Suites : t # s => above'[t] = above[t],
         \A t \in Suites : state'[t] = "live" => state[t] = "live",
         above'[s] \notin _descendant_suite_ids(s)
  PROVE  Acyclic'
  <1> SUFFICES ASSUME NEW X \in SUBSET Suites, X # {},
                      \A t \in X : state'[t] = "live" /\ above'[t] \in X
               PROVE  FALSE
    BY DEF Acyclic
  <1>1. CASE s \notin X
    <2>1. \A t \in X : state[t] = "live" /\ above[t] \in X
      BY <1>1
    <2> QED  BY <2>1 DEF Acyclic
  <1>2. CASE s \in X
    <2> DEFINE Y == X \ _descendant_suite_ids(s)
    <2>1. s \notin Y
      BY BelowItself
    <2>2. \A t \in Y : state[t] = "live" /\ above[t] \in Y
      BY <2>1, BelowClosed
    <2>3. Y # {}
      BY <1>2
    <2>4. Y \in SUBSET {t \in Suites : state[t] = "live"}
      BY <2>2
    <2> HIDE DEF Y
    <2> QED  BY <2>2, <2>3, <2>4 DEF Acyclic
  <1> QED  BY <1>1, <1>2

\* Taking suites away leaves a tree.
LEMMA FewerKeepTree ==
  ASSUME Acyclic, \A t \in Suites : state'[t] = "live" =>
                                      state[t] = "live" /\ above'[t] = above[t]
  PROVE  Acyclic'
  <1> SUFFICES ASSUME NEW X \in SUBSET Suites, X # {},
                      \A t \in X : state'[t] = "live" /\ above'[t] \in X
               PROVE  FALSE
    BY DEF Acyclic
  <1>1. \A t \in X : state[t] = "live" /\ above[t] \in X
    OBVIOUS
  <1> QED  BY <1>1 DEF Acyclic

LEMMA CommitKeepsTree ==
  ASSUME CatalogInv, NEW q \in Requests, Commit(q), Justified(q),
         AllAttached, Acyclic, ~ Strays(op[q])
  PROVE  Acyclic'
  <1>1. CASE Cascades(op[q])
    <2>1. \A t \in Suites : t \in Rows /\ t \in Placed
      BY DEF Rows, Placed
    <2> QED  BY <1>1, <2>1, CascadeLeaves, FewerKeepTree
  <1>2. CASE ~ Cascades(op[q])
    <2> PICK o \in Ops : o = op[q]
      BY CommitRows
    <2>1. /\ \A t \in Rows : state'[t] = IF t = o.id THEN After(o, t) ELSE state[t]
          /\ \A t \in Placed : above'[t] = PlacedBy(o, t)
          /\ Fits(q, o) /\ Admits(o) /\ TypeOK
          /\ MovesSuite(o) => o.to \notin _descendant_suite_ids(o.id)
          /\ o.verb \in {"create", "move", "delete", "restore"}
          /\ o.to \in Suites \union {NoSuite}
      BY <1>2, CommitRows DEF OneRow
    <2>2. \A t \in Suites : t \in Rows /\ t \in Placed
      BY DEF Rows, Placed
    <2>3. \A t \in Suites : t # o.id => above'[t] = above[t] /\ state'[t] = state[t]
      BY <2>1, <2>2 DEF PlacedBy
    <2>4. CASE o.id \notin Suites
      BY <2>3, <2>4, FewerKeepTree
    <2>5. CASE o.id \in Suites /\ o.verb = "move"
      <3>1. above'[o.id] = o.to /\ state'[o.id] = state[o.id] /\ state[o.id] = "live"
        BY <2>1, <2>2, <2>5 DEF PlacedBy, After, Admits
      <3>2. above'[o.id] \notin _descendant_suite_ids(o.id)
        BY <2>1, <2>5, <3>1, CatalogAssumption
           DEF MovesSuite, _descendant_suite_ids
      <3> QED  BY <2>1, <2>3, <2>5, <3>1, <3>2, MovedKeepsTree
    <2>6. CASE o.id \in Suites /\ o.verb \in {"create", "restore"}
      <3>1. state[o.id] # "live"
        BY <2>1, <2>6 DEF Admits
      <3>2. o.verb = "create" => above'[o.id] = o.to /\ ParentFits(o)
        BY <2>1, <2>2, <2>6 DEF PlacedBy, Fits
      <3>3. o.verb = "restore" => above'[o.id] = above[o.id]
        BY <2>1, <2>2, <2>6 DEF PlacedBy
      <3>4. above[o.id] \in Suites \union {NoSuite}
        BY <2>1, <2>2, <2>6 DEF TypeOK
      <3>5. above'[o.id] = NoSuite \/ state[above'[o.id]] = "live"
        BY <2>6, <3>2, <3>3, <3>4 DEF ParentFits, Strays
      <3> QED  BY <2>1, <2>3, <2>6, <3>1, <3>5, RevivedKeepsTree
    <2>7. CASE o.id \in Suites /\ o.verb = "delete"
      BY <1>2, <2>7 DEF Cascades
    <2> QED  BY <2>1, <2>4, <2>5, <2>6, <2>7
  <1> QED  BY <1>1, <1>2

-----------------------------------------------------------------------------
LEMMA InitAlone ==
  ASSUME Init
  PROVE  AloneInv
  <1>1. \A q \in Requests : Justified(q)
    BY NoOpIsNothing DEF Init, Justified, OneRow, Cascade
  <1>2. \A x \in Rows : state[x] = "live" => x \in Projects
    BY DEF Init
  <1>3. AllAttached
    BY <1>2, CatalogAssumption DEF AllAttached, Attached, Placed
  <1>4. {s \in Suites : state[s] = "live"} = {}
    BY <1>2, CatalogAssumption DEF Rows
  <1>5. Acyclic
    BY <1>4 DEF Acyclic
  <1> QED  BY <1>1, <1>3, <1>5 DEF AloneInv

LEMMA NextAlone ==
  ASSUME CatalogInv, AloneInv, [Next]_vars
  PROVE  AloneInv'
  <1> SUFFICES ASSUME Alone
               PROVE  /\ \A q \in Requests : Justified(q)'
                      /\ ~ strayed' => AllAttached' /\ Acyclic'
    BY DEF AloneInv, Alone
  <1>1. CASE UNCHANGED vars
    <2>1. UNCHANGED rows /\ \A s : _descendant_suite_ids(s)' = _descendant_suite_ids(s)
      BY <1>1, SameBelow DEF vars, rows
    <2>2. AllAttached' <=> AllAttached
      BY <2>1 DEF AllAttached, Attached, rows
    <2>3. Acyclic' <=> Acyclic
      BY <2>1 DEF Acyclic, rows
    <2>4. ASSUME NEW q \in Requests
          PROVE  Justified(q)'
      <3>1. Justified(q)
        BY DEF AloneInv
      <3>2. UNCHANGED <<pc, op, found, aimed, held>>
        BY <1>1 DEF vars
      <3>3. OneRow(q)'
        BY <2>1, <3>1, <3>2 DEF Justified, OneRow, Fits, ParentFits, rows
      <3>4. Cascade(q)'
        BY <2>1, <3>1, <3>2 DEF Justified, Cascade, Doomed, CasesIn, RunsOf, rows
      <3> QED  BY <2>1, <3>1, <3>2, <3>3, <3>4
                 DEF Justified, Admits, ProjectFor, rows
    <2> QED  BY <1>1, <2>2, <2>3, <2>4 DEF AloneInv, vars
  <1>2. CASE Next
    <2>1. PICK q \in Requests :
            \/ \E o \in Ops : Begin(q, o)
            \/ Check(q) \/ Guard(q) \/ Refuse(q) \/ Write(q)
            \/ CollectSubtree(q) \/ CollectProject(q)
            \/ SweepSuites(q) \/ SweepCases(q) \/ SweepRuns(q)
            \/ Commit(q)
      BY <1>2 DEF Next
    <2>2. Justified(q) /\ (~ strayed => AllAttached /\ Acyclic)
      BY DEF AloneInv
    <2>3. \A r \in Requests : r = q
      BY DEF Alone
    <2>4. Justified(q)'
      BY <2>1, <2>2, BeginJustified, OneRowJustified, CascadeJustified, EndJustified
         DEF Refuse, Commit
    <2>5. CASE Commit(q)
      <3>1. ~ strayed' => ~ strayed /\ ~ Strays(op[q])
        BY <2>5 DEF Commit
      <3>2. ~ strayed' => AllAttached'
        BY <2>2, <2>5, <3>1, OneRowAttached, CascadeAttached
      <3>3. ~ strayed' => Acyclic'
        BY <2>2, <2>5, <3>1, CommitKeepsTree
      <3> QED  BY <2>3, <2>4, <3>2, <3>3
    <2>6. CASE ~ Commit(q)
      <3>1. UNCHANGED <<rows, strayed>>
        BY <2>1, <2>6 DEF Begin, Check, Guard, Refuse, Write, CollectSubtree,
             CollectProject, SweepSuites, SweepCases, SweepRuns
      <3>2. (AllAttached' <=> AllAttached) /\ (Acyclic' <=> Acyclic)
        BY <3>1 DEF AllAttached, Attached, Acyclic, rows
      <3> QED  BY <2>2, <2>3, <2>4, <3>1, <3>2
    <2> QED  BY <2>5, <2>6
  <1> QED  BY <1>1, <1>2

LEMMA AloneInvariant == Spec => []AloneInv
  <1> QED  BY InitAlone, NextAlone, CatalogInvariant, PTL DEF Spec

(* Requests one after the other: nothing is live below something deleted,  *)
(* unless a suite was restored, or a case moved, below a deleted suite     *)
(* (delete_suite, delete_project, and the parent checks of every create,   *)
(* move and restore).                                                      *)
THEOREM NothingStranded == Spec => []NothingLiveBelowDeleted
  <1>1. AloneInv => NothingLiveBelowDeleted
    BY DEF AloneInv, NothingLiveBelowDeleted, AllAttached
  <1> QED  BY <1>1, AloneInvariant, PTL

(* Under the same condition the live suites are a tree: looking at the     *)
(* live descendants only is enough for update_suite, because the ancestors *)
(* of a live suite are live.                                               *)
THEOREM SuitesAreATree == Spec => []MovesKeepTheTree
  <1>1. AloneInv => MovesKeepTheTree
    BY DEF AloneInv, MovesKeepTheTree
  <1> QED  BY <1>1, AloneInvariant, PTL
=============================================================================
