------------------------- MODULE TestResultsProofs -------------------------
(***************************************************************************)
(* What TestResults promises for any requests, cases and comments: no two  *)
(* transactions hold a row at once, and every value of a committed result  *)
(* has its line in the history.  The invariant says it of the open         *)
(* transactions too: a column a session has written is in its entries with *)
(* the value the session has, and a session writes all the columns of a    *)
(* row the table does not have.  Serial adds what a request knows as long  *)
(* as no two overlap; the history then ends with what the row says, and a  *)
(* deleted run has no live result.                                         *)
(***************************************************************************)
EXTENDS TestResults, TLAPS

(* Rows are present or NoRow, in the table and in the sessions.            *)
ProperRow(r) == r = NoRow \/ r.status \in Status
ProperRows ==
  /\ \A c \in Cases : ProperRow(row[c])
  /\ \A q \in Requests, c \in Cases : ProperRow(mine[q][c])

(* A request in flight was asked for, and is at one of its items.          *)
Writers == {"submit", "ci", "import", "update"}
Progress(q) ==
  /\ pc[q] # "idle" => op[q] \in Ops
  /\ pc[q] = "idle" => next[q] = 1 /\ mine[q] = NoRows
  /\ pc[q] \in {"writing", "recheck"} => op[q].kind \in Writers
  /\ pc[q] \in {"checked", "writing", "recheck"} /\ op[q].kind \in Writers
       => next[q] \in 1..Len(op[q].items)
  /\ pc[q] = "writing" /\ op[q].kind = "update"
       => mine[q][Current(q).case] # NoRow
  /\ pc[q] = "checked" /\ op[q].kind = "delete"
       => \A c \in Cases : ~ mine[q][c].live
InFlight == \A q \in Requests : Progress(q)

(* What a session has written it has recorded.                             *)
DirtyIsRecorded(q, c) ==
  /\ <<c, "status">> \in dirty[q] =>
       /\ mine[q][c].live
       /\ \E e \in entries[q] : e.case = c /\ e.status = mine[q][c].status
  /\ <<c, "comment">> \in dirty[q] =>
       /\ mine[q][c].live
       /\ \E e \in entries[q] : e.case = c /\ e.comment = mine[q][c].comment
DirtyRecorded == \A q \in Requests, c \in Cases : DirtyIsRecorded(q, c)

(* A session's row that the table does not have was written as a whole.    *)
NewRowsWhole ==
  \A q \in Requests, c \in Cases :
    mine[q][c] # NoRow /\ row[c] = NoRow =>
      <<c, "status">> \in dirty[q] /\ <<c, "comment">> \in dirty[q]

(* No two transactions hold the same row.                                  *)
RowsExclusive ==
  \A q, r \in Requests : q # r => held[q] \intersect held[r] = {}

ResultsInv ==
  /\ TypeOK
  /\ ProperRows
  /\ InFlight
  /\ DirtyRecorded
  /\ NewRowsWhole
  /\ RowsExclusive
  /\ EveryValueRecorded

-----------------------------------------------------------------------------
LEMMA NoRowType == NoRow \in Row
  BY ResultsAssumption DEF NoRow, Row

LEMMA NoRowsType == NoRows \in [Cases -> Row]
  BY NoRowType DEF NoRows

LEMMA FoundType ==
  ASSUME ResultsInv, NEW c \in Cases
  PROVE  Found(c) \in Row /\ ProperRow(Found(c))
  BY NoRowType DEF Found, ResultsInv, TypeOK, ProperRows, ProperRow

LEMMA InitInv ==
  ASSUME Init
  PROVE  ResultsInv
  <1>1. TypeOK
    <2>1. [kind |-> "restore", items |-> <<>>] \in Op
      BY DEF Op, Kind
    <2> QED  BY <2>1, NoRowsType DEF Init, TypeOK
  <1>2. ProperRows /\ InFlight /\ DirtyRecorded /\ NewRowsWhole /\ RowsExclusive
                   /\ EveryValueRecorded
    BY DEF Init, ProperRows, ProperRow, InFlight, Progress, DirtyRecorded,
       DirtyIsRecorded, NewRowsWhole, RowsExclusive, EveryValueRecorded, NoRows
  <1> QED  BY <1>1, <1>2 DEF ResultsInv

\* The item a request is at is one of its items.
LEMMA CurrentType ==
  ASSUME ResultsInv, NEW q \in Requests, pc[q] \in {"checked", "writing", "recheck"},
         op[q].kind \in Writers
  PROVE  /\ Current(q) \in Item
         /\ Current(q).case \in Cases
         /\ next[q] \in 1..Len(op[q].items)
  <1>1. op[q] \in Op /\ op[q].items \in Seq(Item)
    BY DEF ResultsInv, TypeOK, Op
  <1>2. next[q] \in 1..Len(op[q].items)
    BY DEF ResultsInv, InFlight, Progress
  <1>3. Current(q) \in Item
    BY <1>1, <1>2 DEF Current
  <1> QED  BY <1>2, <1>3 DEF Item

\* What a new session has: the row of its result, when it loads one.
LEMMA LoadedByType ==
  ASSUME ResultsInv, NEW o \in Ops,
         o.kind = "update" => row[o.items[1].case].live
  PROVE  /\ LoadedBy(o) \in [Cases -> Row]
         /\ \A c \in Cases : LoadedBy(o)[c] = NoRow \/ LoadedBy(o)[c] = row[c]
         /\ o.kind \in Writers => 1 \in 1..Len(o.items)
         /\ o.kind = "update" => /\ o.items[1].case \in Cases
                                /\ LoadedBy(o)[o.items[1].case] # NoRow
         /\ o.kind # "update" => \A c \in Cases : ~ LoadedBy(o)[c].live
  <1>1. o \in Op /\ o.kind \in Kind /\ o.items \in Seq(Item)
    BY ResultsAssumption DEF Op
  <1>2. o.kind \in Writers => 1 \in 1..Len(o.items)
    BY <1>1, ResultsAssumption DEF Writers, Kind
  <1>3. o.kind = "update" => o.items[1] \in Item
    BY <1>1, <1>2 DEF Writers
  <1>4. o.kind = "update" => o.items[1].case \in Cases
    BY <1>3 DEF Item
  <1>5. row \in [Cases -> Row]
    BY DEF ResultsInv, TypeOK
  <1>6. LoadedBy(o) \in [Cases -> Row]
    BY <1>5, NoRowType DEF LoadedBy
  <1>7. o.kind = "update" => row[o.items[1].case] # NoRow
    BY DEF NoRow
  <1>8. o.kind # "update" => \A c \in Cases : ~ LoadedBy(o)[c].live
    BY DEF LoadedBy, NoRow
  <1> QED  BY <1>2, <1>4, <1>6, <1>7, <1>8 DEF LoadedBy

LEMMA BeginKeeps ==
  ASSUME ResultsInv, NEW q \in Requests, NEW o \in Ops, Begin(q, o)
  PROVE  ResultsInv'
  <1>1. /\ mine' = [mine EXCEPT ![q] = LoadedBy(o)]
        /\ op' = [op EXCEPT ![q] = o]
        /\ pc' = [pc EXCEPT ![q] = IF o.kind = "update" THEN "writing" ELSE "checked"]
        /\ o.kind = "update" => row[o.items[1].case].live
        /\ UNCHANGED <<runLive, row, history, next, dirty, held, entries>>
    BY DEF Begin, data
  <1>2. /\ LoadedBy(o) \in [Cases -> Row]
        /\ \A c \in Cases : LoadedBy(o)[c] = NoRow \/ LoadedBy(o)[c] = row[c]
        /\ o.kind \in Writers => 1 \in 1..Len(o.items)
        /\ o.kind = "update" => LoadedBy(o)[o.items[1].case] # NoRow
        /\ o.kind # "update" => \A c \in Cases : ~ LoadedBy(o)[c].live
    BY <1>1, LoadedByType
  <1>3. TypeOK
    BY DEF ResultsInv
  <1>4. mine' \in [Requests -> [Cases -> Row]]
    BY <1>1, <1>2, <1>3 DEF TypeOK
  <1>5. TypeOK'
    <2>1. op' \in [Requests -> Op]
      BY <1>1, <1>3, ResultsAssumption DEF TypeOK
    <2>2. at' \in [Requests -> Nat] /\ begun' \in Nat
      <3>1. begun' = begun + 1 /\ at' = [at EXCEPT ![q] = begun + 1]
        BY DEF Begin
      <3>2. begun \in Nat /\ at \in [Requests -> Nat]
        BY <1>3 DEF TypeOK
      <3> QED  BY <3>1, <3>2
    <2>3. pc' \in [Requests -> {"idle", "checked", "writing", "recheck",
                               "sweeping", "written"}]
      BY <1>1, <1>3 DEF TypeOK
    <2>4. /\ rejected' \in [Requests -> {"no", "integrity", "not found", "deadlock"}]
          /\ overlapped' \in BOOLEAN
      BY <1>3 DEF Begin, TypeOK
    <2> QED  BY <1>1, <1>3, <1>4, <2>1, <2>2, <2>3, <2>4 DEF TypeOK
  <1>6. /\ mine'[q] = LoadedBy(o)
        /\ \A r \in Requests \ {q} : mine'[r] = mine[r]
    BY <1>1, <1>3 DEF TypeOK
  <1>7. ProperRows'
    BY <1>1, <1>2, <1>6 DEF ResultsInv, ProperRows, ProperRow
  <1>8. pc[q] = "idle" /\ next[q] = 1 /\ mine[q] = NoRows
    BY DEF Begin, ResultsInv, InFlight, Progress
  <1>9. InFlight'
    <2>1. ASSUME NEW r \in Requests \ {q}
          PROVE  Progress(r)'
      <3>1. /\ pc'[r] = pc[r] /\ op'[r] = op[r] /\ mine'[r] = mine[r]
            /\ next'[r] = next[r]
        BY <1>1, <1>3, <1>6 DEF TypeOK
      <3>2. Progress(r)
        BY DEF ResultsInv, InFlight
      <3> QED  BY <3>1, <3>2 DEF Progress, Current
    <2>2. Progress(q)'
      <3>1. /\ op'[q] = o /\ next'[q] = 1
            /\ pc'[q] = IF o.kind = "update" THEN "writing" ELSE "checked"
        BY <1>1, <1>3, <1>8 DEF TypeOK
      <3> QED  BY <3>1, <1>2, <1>6 DEF Progress, Current, Writers
    <2> QED  BY <2>1, <2>2 DEF InFlight
  <1>10. DirtyRecorded'
    <2>1. \A c \in Cases : ~ mine[q][c].live
      BY <1>8 DEF NoRows, NoRow
    <2>2. \A c \in Cases : <<c, "status">> \notin dirty[q]
                       /\ <<c, "comment">> \notin dirty[q]
      BY <2>1 DEF ResultsInv, DirtyRecorded, DirtyIsRecorded
    <2>3. \A r \in Requests \ {q}, c \in Cases : mine'[r][c] = mine[r][c]
      BY <1>6
    <2>4. DirtyRecorded /\ dirty' = dirty /\ entries' = entries
      BY <1>1 DEF ResultsInv
    <2> SUFFICES ASSUME NEW r \in Requests, NEW c \in Cases
                 PROVE  DirtyIsRecorded(r, c)'
      BY DEF DirtyRecorded
    <2>5. CASE r = q
      BY <2>2, <2>4, <2>5 DEF DirtyIsRecorded
    <2>6. CASE r # q
      BY <2>3, <2>4, <2>6 DEF DirtyRecorded, DirtyIsRecorded
    <2> QED  BY <2>5, <2>6
  <1>11. NewRowsWhole'
    BY <1>1, <1>2, <1>6 DEF ResultsInv, NewRowsWhole
  <1>12. RowsExclusive' /\ EveryValueRecorded'
    BY <1>1 DEF ResultsInv, RowsExclusive, EveryValueRecorded
  <1> QED  BY <1>5, <1>7, <1>9, <1>10, <1>11, <1>12 DEF ResultsInv

\* A request that ends without a commit leaves nothing behind.
LEMMA RejectKeeps ==
  ASSUME ResultsInv, NEW q \in Requests,
         NEW how \in {"integrity", "not found", "deadlock"}, Reject(q, how)
  PROVE  ResultsInv'
  <1> USE DEF Reject, End, Released, data, clock
  <1>1. TypeOK'
    <2> USE DEF ResultsInv, TypeOK
    <2>1. row' \in [Cases -> Row] /\ mine' \in [Requests -> [Cases -> Row]]
      BY NoRowsType
    <2>2. dirty' \in [Requests -> SUBSET (Cases \X Columns)]
      OBVIOUS
    <2>3. entries' \in [Requests -> SUBSET [case : Cases, status : Status,
                                          comment : Comments]]
      OBVIOUS
    <2>4. pc' \in [Requests -> {"idle", "checked", "writing", "recheck",
                               "sweeping", "written"}]
      OBVIOUS
    <2>5. rejected' \in [Requests -> {"no", "integrity", "not found", "deadlock"}]
      OBVIOUS
    <2>6. held' \in [Requests -> SUBSET Cases]
      OBVIOUS
    <2>7. next' \in [Requests -> Nat]
      OBVIOUS
    <2> QED  BY <2>1, <2>2, <2>3, <2>4, <2>5, <2>6, <2>7
  <1>2. \A r \in Requests : r # q =>
          /\ pc'[r] = pc[r] /\ next'[r] = next[r] /\ mine'[r] = mine[r]
          /\ dirty'[r] = dirty[r] /\ held'[r] = held[r] /\ entries'[r] = entries[r]
    <2>1. /\ pc \in [Requests -> {"idle", "checked", "writing", "recheck",
                                  "sweeping", "written"}]
          /\ next \in [Requests -> Nat]
      BY DEF ResultsInv, TypeOK
    <2>2. /\ mine \in [Requests -> [Cases -> Row]]
          /\ dirty \in [Requests -> SUBSET (Cases \X Columns)]
          /\ held \in [Requests -> SUBSET Cases]
          /\ entries \in [Requests -> SUBSET [case : Cases, status : Status,
                                              comment : Comments]]
      BY DEF ResultsInv, TypeOK
    <2> QED  BY <2>1, <2>2
  <1>3. /\ pc'[q] = "idle" /\ next'[q] = 1 /\ mine'[q] = NoRows
        /\ dirty'[q] = {} /\ held'[q] = {} /\ entries'[q] = {}
    <2>1. /\ pc \in [Requests -> {"idle", "checked", "writing", "recheck",
                                  "sweeping", "written"}]
          /\ next \in [Requests -> Nat]
      BY DEF ResultsInv, TypeOK
    <2>2. /\ mine \in [Requests -> [Cases -> Row]]
          /\ dirty \in [Requests -> SUBSET (Cases \X Columns)]
          /\ held \in [Requests -> SUBSET Cases]
          /\ entries \in [Requests -> SUBSET [case : Cases, status : Status,
                                              comment : Comments]]
      BY DEF ResultsInv, TypeOK
    <2> QED  BY <2>1, <2>2
  <1>4. ProperRows'
    <2>1. \A c \in Cases : mine'[q][c] = NoRow
      BY <1>3 DEF NoRows
    <2>2. row' = row
      OBVIOUS
    <2> HIDE DEF Reject, End, Released, data, clock
    <2>3. ProperRows
      BY DEF ResultsInv
    <2> QED  BY <1>2, <2>1, <2>2, <2>3 DEF ProperRows, ProperRow
  <1>5. InFlight'
    <2>1. ASSUME NEW r \in Requests \ {q}
          PROVE  Progress(r)'
      <3>1. op' = op
        OBVIOUS
      <3> HIDE DEF Reject, End, Released, data, clock
      <3>2. Progress(r)
        BY DEF ResultsInv, InFlight
      <3>3. pc'[r] = pc[r] /\ next'[r] = next[r] /\ mine'[r] = mine[r]
        BY <1>2
      <3> QED  BY <3>1, <3>2, <3>3 DEF Progress, Current
    <2>2. Progress(q)'
      BY <1>3 DEF Progress
    <2> QED  BY <2>1, <2>2 DEF InFlight
  <1>6. DirtyRecorded' /\ NewRowsWhole'
    <2>1. row' = row
      OBVIOUS
    <2>2. \A c \in Cases : mine'[q][c] = NoRow
      BY <1>3 DEF NoRows
    <2> HIDE DEF Reject, End, Released, data, clock
    <2>3. DirtyRecorded'
      <3>1. ASSUME NEW c \in Cases
            PROVE  DirtyIsRecorded(q, c)'
        BY <1>3 DEF DirtyIsRecorded
      <3>2. ASSUME NEW r \in Requests \ {q}, NEW c \in Cases
            PROVE  DirtyIsRecorded(r, c)'
        <4>1. DirtyIsRecorded(r, c)
          BY DEF ResultsInv, DirtyRecorded
        <4> QED  BY <4>1, <1>2 DEF DirtyIsRecorded
      <3> QED  BY <3>1, <3>2 DEF DirtyRecorded
    <2>4. NewRowsWhole'
      BY <1>2, <2>1, <2>2 DEF ResultsInv, NewRowsWhole
    <2> QED  BY <2>3, <2>4
  <1>7. RowsExclusive' /\ EveryValueRecorded'
    <2>1. row' = row /\ history' = history
      OBVIOUS
    <2> HIDE DEF Reject, End, Released, data, clock
    <2>2. RowsExclusive /\ EveryValueRecorded
      BY DEF ResultsInv
    <2>3. \A r \in Requests : held'[r] \subseteq held[r]
      BY <1>2, <1>3
    <2>4. RowsExclusive'
      BY <2>2, <2>3 DEF RowsExclusive
    <2>5. EveryValueRecorded'
      BY <2>1, <2>2 DEF EveryValueRecorded
    <2> QED  BY <2>4, <2>5
  <1> QED  BY <1>1, <1>4, <1>5, <1>6, <1>7 DEF ResultsInv

\* A request that goes on, and touches neither its session's rows nor the
\* tables.
LEMMA MoveKeeps ==
  ASSUME ResultsInv, NEW q \in Requests, pc[q] # "idle",
         NEW s \in {"checked", "sweeping", "written"},
         pc' = [pc EXCEPT ![q] = s],
         next' \in [Requests -> Nat],
         \A r \in Requests \ {q} : next'[r] = next[r],
         s = "checked" => /\ op[q].kind \in Writers
                          /\ next'[q] \in 1..Len(op[q].items),
         held' \in [Requests -> SUBSET Cases],
         RowsExclusive',
         UNCHANGED <<data, op, at, mine, dirty, entries, rejected, begun, overlapped>>
  PROVE  ResultsInv'
  <1>1. TypeOK'
    BY DEF ResultsInv, TypeOK, data
  <1>2. InFlight'
    <2>1. ASSUME NEW r \in Requests \ {q}
          PROVE  Progress(r)'
      <3>1. pc'[r] = pc[r] /\ next'[r] = next[r] /\ mine' = mine /\ op' = op
        BY DEF ResultsInv, TypeOK
      <3>2. Progress(r)
        BY DEF ResultsInv, InFlight
      <3> QED  BY <3>1, <3>2 DEF Progress, Current
    <2>2. Progress(q)'
      <3>1. pc'[q] = s /\ op' = op
        BY DEF ResultsInv, TypeOK
      <3>2. op[q] \in Ops
        BY DEF ResultsInv, InFlight, Progress
      <3> QED  BY <3>1, <3>2 DEF Progress, Writers
    <2> QED  BY <2>1, <2>2 DEF InFlight
  <1>3. ProperRows' /\ DirtyRecorded' /\ NewRowsWhole' /\ EveryValueRecorded'
    BY DEF ResultsInv, ProperRows, ProperRow, DirtyRecorded, DirtyIsRecorded, NewRowsWhole,
       EveryValueRecorded, data
  <1> QED  BY <1>1, <1>2, <1>3 DEF ResultsInv

\* A request that loads rows into its session; it has the rows it wrote.
LoadStep(q, loaded, s) ==
  /\ pc[q] = "checked"
  /\ s = "writing" => op[q].kind \in Writers \ {"update"}
  /\ \A c \in Cases : \/ loaded[c] = mine[q][c]
                      \/ ~ mine[q][c].live /\ loaded[c] = NoRow
                      \/ ~ mine[q][c].live /\ loaded[c] = row[c]
  /\ pc' = [pc EXCEPT ![q] = s]
  /\ mine' = [mine EXCEPT ![q] = loaded]
  /\ UNCHANGED <<data, op, at, next, dirty, held, entries, rejected, begun, overlapped>>

LEMMA LoadKeeps ==
  ASSUME ResultsInv, NEW q \in Requests, NEW loaded \in [Cases -> Row],
         NEW s \in {"writing", "sweeping"}, LoadStep(q, loaded, s)
  PROVE  ResultsInv'
  <1> USE DEF LoadStep
  <1>1. TypeOK
    BY DEF ResultsInv
  <1>2. TypeOK'
    BY <1>1 DEF TypeOK, data
  <1>3. /\ mine'[q] = loaded
        /\ \A r \in Requests \ {q} : mine'[r] = mine[r]
    BY <1>1 DEF TypeOK
  <1>4. row' = row /\ dirty' = dirty /\ entries' = entries /\ held' = held
    BY DEF data
  <1>5. ProperRows'
    BY <1>3, <1>4 DEF ResultsInv, ProperRows, ProperRow
  <1>6. InFlight'
    <2>1. ASSUME NEW r \in Requests \ {q}
          PROVE  Progress(r)'
      <3>1. pc'[r] = pc[r] /\ mine'[r] = mine[r]
        BY <1>1, <1>3 DEF TypeOK
      <3>2. Progress(r)
        BY DEF ResultsInv, InFlight
      <3> QED  BY <3>1, <3>2 DEF Progress, Current
    <2>2. Progress(q)'
      <3>1. pc'[q] = s
        BY <1>1 DEF TypeOK
      <3>2. Progress(q)
        BY DEF ResultsInv, InFlight
      <3> QED  BY <3>1, <3>2 DEF Progress
    <2> QED  BY <2>1, <2>2 DEF InFlight
  <1>7. DirtyRecorded'
    <2>1. ASSUME NEW c \in Cases
          PROVE  DirtyIsRecorded(q, c)'
      <3>1. DirtyIsRecorded(q, c)
        BY DEF ResultsInv, DirtyRecorded
      <3>2. CASE mine[q][c].live
        BY <3>1, <3>2, <1>3, <1>4 DEF DirtyIsRecorded
      <3>3. CASE ~ mine[q][c].live
        BY <3>1, <3>3, <1>3, <1>4 DEF DirtyIsRecorded
      <3> QED  BY <3>2, <3>3
    <2>2. ASSUME NEW r \in Requests \ {q}, NEW c \in Cases
          PROVE  DirtyIsRecorded(r, c)'
      <3>1. DirtyIsRecorded(r, c)
        BY DEF ResultsInv, DirtyRecorded
      <3> QED  BY <3>1, <1>3, <1>4 DEF DirtyIsRecorded
    <2> QED  BY <2>1, <2>2 DEF DirtyRecorded
  <1>8. NewRowsWhole'
    BY <1>3, <1>4 DEF ResultsInv, NewRowsWhole
  <1>9. RowsExclusive' /\ EveryValueRecorded'
    BY <1>4 DEF ResultsInv, RowsExclusive, EveryValueRecorded, data
  <1> QED  BY <1>2, <1>5, <1>6, <1>7, <1>8, <1>9 DEF ResultsInv

LEMMA ReadKeeps ==
  ASSUME ResultsInv, NEW q \in Requests, Read(q)
  PROVE  ResultsInv'
  <1>1. \A c \in Cases : Found(c) \in Row /\ (Found(c) = NoRow \/ Found(c) = row[c])
    BY FoundType DEF Found
  <1>2. mine[q] \in [Cases -> Row]
    BY DEF ResultsInv, TypeOK
  <1>3. Loaded(q) \in [Cases -> Row]
    BY <1>1, <1>2 DEF Loaded
  <1>4. \A c \in Cases : \/ Loaded(q)[c] = mine[q][c]
                         \/ ~ mine[q][c].live /\ Loaded(q)[c] = NoRow
                         \/ ~ mine[q][c].live /\ Loaded(q)[c] = row[c]
    BY <1>1 DEF Loaded
  <1>5. LoadStep(q, Loaded(q), "writing")
    BY <1>4 DEF Read, Writers, LoadStep, clock
  <1> QED  BY <1>3, <1>5, LoadKeeps

LEMMA IssueSweepKeeps ==
  ASSUME ResultsInv, NEW q \in Requests, IssueSweep(q)
  PROVE  ResultsInv'
  <1>1. \A c \in Cases : Found(c) \in Row /\ (Found(c) = NoRow \/ Found(c) = row[c])
    BY FoundType DEF Found
  <1>2. AllFound \in [Cases -> Row]
    BY <1>1 DEF AllFound
  <1>3. \A c \in Cases : ~ mine[q][c].live
    BY DEF ResultsInv, InFlight, Progress, IssueSweep
  <1>4. \A c \in Cases : AllFound[c] = NoRow \/ AllFound[c] = row[c]
    BY <1>1 DEF AllFound
  <1>5. LoadStep(q, AllFound, "sweeping")
    BY <1>3, <1>4 DEF IssueSweep, LoadStep, clock
  <1> QED  BY <1>2, <1>5, LoadKeeps

LEMMA RecheckKeeps ==
  ASSUME ResultsInv, NEW q \in Requests, Recheck(q)
  PROVE  ResultsInv'
  <1>1. /\ op[q].kind \in Writers
        /\ next[q] \in 1..Len(op[q].items)
        /\ op[q].items \in Seq(Item)
    BY DEF Recheck, ResultsInv, TypeOK, Op, InFlight, Progress
  <1>2. ~ Last(q) => next[q] + 1 \in 1..Len(op[q].items)
    BY <1>1 DEF Last
  <1>3. /\ next' \in [Requests -> Nat]
        /\ \A r \in Requests \ {q} : next'[r] = next[r]
        /\ ~ Last(q) => next'[q] = next[q] + 1
    <2>1. next' = [next EXCEPT ![q] = IF Last(q) THEN next[q] ELSE next[q] + 1]
      BY DEF Recheck
    <2>2. next \in [Requests -> Nat]
      BY DEF ResultsInv, TypeOK
    <2> QED  BY <2>1, <2>2
  <1>4. RowsExclusive' /\ held' \in [Requests -> SUBSET Cases]
    BY DEF Recheck, ResultsInv, TypeOK, RowsExclusive
  <1>5. CASE Last(q)
    BY <1>3, <1>4, <1>5, MoveKeeps DEF Recheck, clock
  <1>6. CASE ~ Last(q)
    BY <1>1, <1>2, <1>3, <1>4, <1>6, MoveKeeps DEF Recheck, clock
  <1> QED  BY <1>5, <1>6

LEMMA SweepKeeps ==
  ASSUME ResultsInv, NEW q \in Requests, Sweep(q)
  PROVE  ResultsInv'
  <1> DEFINE doomed == {c \in Cases : mine[q][c].live}
  <1>1. /\ doomed \intersect HeldByOthers(q) = {}
        /\ held' = [held EXCEPT ![q] = doomed]
    BY DEF Sweep
  <1>2. held' \in [Requests -> SUBSET Cases]
    BY <1>1 DEF ResultsInv, TypeOK
  <1>3. RowsExclusive'
    <2>1. \A r \in Requests \ {q} : doomed \intersect held[r] = {}
      BY <1>1 DEF HeldByOthers
    <2>2. held'[q] = doomed /\ \A r \in Requests \ {q} : held'[r] = held[r]
      BY <1>1 DEF ResultsInv, TypeOK
    <2> HIDE DEF doomed
    <2> QED  BY <2>1, <2>2 DEF ResultsInv, RowsExclusive
  <1>4. next' \in [Requests -> Nat] /\ \A r \in Requests \ {q} : next'[r] = next[r]
    BY DEF Sweep, ResultsInv, TypeOK
  <1> QED  BY <1>2, <1>3, <1>4, MoveKeeps DEF Sweep, clock

LEMMA RestoreKeeps ==
  ASSUME ResultsInv, NEW q \in Requests, Restore(q)
  PROVE  ResultsInv'
  <1>1. RowsExclusive' /\ held' \in [Requests -> SUBSET Cases]
    BY DEF Restore, ResultsInv, TypeOK, RowsExclusive
  <1>2. next' \in [Requests -> Nat] /\ \A r \in Requests \ {q} : next'[r] = next[r]
    BY DEF Restore, ResultsInv, TypeOK
  <1> QED  BY <1>1, <1>2, MoveKeeps DEF Restore, clock

\* The row a flush leaves in the session, and the entries it adds.
LEMMA NewType ==
  ASSUME ResultsInv, NEW q \in Requests, pc[q] = "writing"
  PROVE  /\ Current(q).case \in Cases
         /\ Old(q) \in Row
         /\ New(q) \in Row /\ New(q).status \in Status /\ New(q).live
         /\ NewEntries(q) \subseteq [case : Cases, status : Status,
                                    comment : Comments]
         /\ FlushedColumns(q) \subseteq Cases \X Columns
  <1>1. op[q].kind \in Writers /\ op[q] \in Ops
    BY DEF ResultsInv, InFlight, Progress
  <1>2. Current(q) \in Item /\ Current(q).case \in Cases
        /\ next[q] \in 1..Len(op[q].items)
    BY <1>1, CurrentType
  <1>3. Old(q) \in Row /\ (Old(q) = NoRow \/ Old(q).status \in Status)
    BY <1>2 DEF Old, ResultsInv, TypeOK, ProperRows, ProperRow
  <1>4. /\ Current(q).status \in Status \union {"skipped", "keep"}
        /\ Current(q).comment \in Comments \union {"keep"}
    BY <1>2 DEF Item
  <1>5. Current(q).status = "keep" => Old(q).status \in Status
    <2>1. CASE op[q].kind = "update"
      <3>1. Old(q) # NoRow
        BY <2>1 DEF ResultsInv, InFlight, Progress, Old
      <3> QED  BY <3>1, <1>3
    <2>2. CASE op[q].kind # "update"
      <3>1. op[q].items \in Seq(Item)
        BY DEF ResultsInv, TypeOK, Op
      <3>2. next[q] \in DOMAIN op[q].items
        BY <1>2, <3>1
      <3> QED  BY <1>1, <2>2, <3>2, ResultsAssumption DEF Current
    <2> QED  BY <2>1, <2>2
  <1>6. New(q).status \in Status
    BY <1>4, <1>5 DEF New, Assigned, _normalise_status, Status
  <1>7. New(q).comment \in Comments
    BY <1>3, <1>4 DEF New, Assigned, Row
  <1>8. New(q).live = TRUE
    BY DEF New, Assigned
  <1>9. New(q) = [status |-> New(q).status, comment |-> New(q).comment,
                  live |-> New(q).live]
    BY DEF New, Assigned
  <1>10. New(q) \in Row
    BY <1>6, <1>7, <1>8, <1>9 DEF Row
  <1>11. NewEntries(q) \subseteq [case : Cases, status : Status, comment : Comments]
    BY <1>2, <1>6, <1>7 DEF NewEntries
  <1>12. FlushedColumns(q) \subseteq Cases \X Columns
    BY <1>2 DEF FlushedColumns, Changed
  <1> QED  BY <1>2, <1>3, <1>6, <1>8, <1>10, <1>11, <1>12

\* The flush keeps what the session wrote and what it recorded together.
LEMMA WriteKeeps ==
  ASSUME ResultsInv, NEW q \in Requests, Write(q)
  PROVE  ResultsInv'
  <1>1. TypeOK
    BY DEF ResultsInv
  <1>0. PICK cur \in Cases : cur = Current(q).case
    BY NewType DEF Write
  <1>2. /\ Old(q) \in Row
        /\ New(q) \in Row /\ New(q).status \in Status /\ New(q).live
        /\ NewEntries(q) \subseteq [case : Cases, status : Status,
                                   comment : Comments]
        /\ FlushedColumns(q) \subseteq Cases \X Columns
    BY NewType DEF Write
  <1>3. /\ mine' = [mine EXCEPT ![q][cur] = New(q)]
        /\ dirty' = [dirty EXCEPT ![q] = dirty[q] \union FlushedColumns(q)]
        /\ held' = [held EXCEPT ![q] = held[q] \union {cur}]
        /\ entries' = [entries EXCEPT ![q] = entries[q] \union NewEntries(q)]
        /\ UNCHANGED <<runLive, row, history, op, at, rejected, begun, overlapped>>
    BY <1>0 DEF Write, Flush, data, clock
  <1>4. /\ cur \notin HeldByOthers(q)
        /\ Old(q) = NoRow => row[cur] = NoRow
    BY <1>0 DEF Write, Accepts
  <1>5. /\ op[q].kind \in Writers
        /\ next[q] \in 1..Len(op[q].items)
        /\ op[q] \in Ops
        /\ op[q].items \in Seq(Item)
        /\ pc[q] = "writing"
    BY <1>1 DEF Write, ResultsInv, InFlight, Progress, TypeOK, Op
  <1>6. /\ pc' \in [Requests -> {"idle", "checked", "writing", "recheck",
                               "sweeping", "written"}]
        /\ pc'[q] \in {"writing", "recheck", "written"}
        /\ pc'[q] = "writing" => op[q].kind \notin {"submit", "ci"} /\ ~ Last(q)
        /\ \A r \in Requests \ {q} : pc'[r] = pc[r]
    BY <1>1 DEF Write, TypeOK
  <1>7. /\ next' \in [Requests -> Nat]
        /\ next'[q] \in 1..Len(op[q].items)
        /\ op[q].kind # "import" => next'[q] = next[q]
        /\ \A r \in Requests \ {q} : next'[r] = next[r]
    <2>1. next' = [next EXCEPT ![q] = IF op[q].kind = "import" /\ ~ Last(q)
                                     THEN next[q] + 1 ELSE next[q]]
      BY DEF Write
    <2>2. next \in [Requests -> Nat]
      BY <1>1 DEF TypeOK
    <2>3. ~ Last(q) => next[q] + 1 \in 1..Len(op[q].items)
      BY <1>5 DEF Last
    <2> QED  BY <2>1, <2>2, <2>3, <1>5
  <1>8. /\ mine' \in [Requests -> [Cases -> Row]]
        /\ mine'[q][cur] = New(q)
        /\ \A c \in Cases \ {cur} : mine'[q][c] = mine[q][c]
        /\ \A r \in Requests \ {q} : mine'[r] = mine[r]
    BY <1>1, <1>2, <1>3 DEF TypeOK
  <1>9. /\ dirty' \in [Requests -> SUBSET (Cases \X Columns)]
        /\ dirty'[q] = dirty[q] \union FlushedColumns(q)
        /\ \A r \in Requests \ {q} : dirty'[r] = dirty[r]
    BY <1>1, <1>2, <1>3 DEF TypeOK
  <1>10. /\ entries' \in [Requests -> SUBSET [case : Cases, status : Status,
                                             comment : Comments]]
         /\ entries'[q] = entries[q] \union NewEntries(q)
         /\ \A r \in Requests \ {q} : entries'[r] = entries[r]
    BY <1>1, <1>2, <1>3 DEF TypeOK
  <1>11. /\ held' \in [Requests -> SUBSET Cases]
         /\ held'[q] = held[q] \union {cur}
         /\ \A r \in Requests \ {q} : held'[r] = held[r]
    BY <1>1, <1>2, <1>3 DEF TypeOK
  <1>12. TypeOK'
    BY <1>1, <1>3, <1>6, <1>7, <1>8, <1>9, <1>10, <1>11 DEF TypeOK
  <1>13. ProperRows'
    <2>1. \A c \in Cases : ProperRow(mine'[q][c])
      BY <1>2, <1>8 DEF ResultsInv, ProperRows, ProperRow
    <2>2. \A r \in Requests \ {q}, c \in Cases : ProperRow(mine'[r][c])
      BY <1>8 DEF ResultsInv, ProperRows, ProperRow
    <2>3. \A c \in Cases : ProperRow(row'[c])
      BY <1>3 DEF ResultsInv, ProperRows
    <2> QED  BY <2>1, <2>2, <2>3 DEF ProperRows, ProperRow
  <1>14. InFlight'
    <2>1. ASSUME NEW r \in Requests \ {q}
          PROVE  Progress(r)'
      <3>1. Progress(r)
        BY DEF ResultsInv, InFlight
      <3> QED  BY <3>1, <1>3, <1>6, <1>7, <1>8 DEF Progress, Current
    <2>2. Progress(q)'
      <3>1. op[q].kind = "update" => Len(op[q].items) = 1
        BY <1>5, ResultsAssumption
      <3>2. op[q].kind = "update" => Last(q)
        <4>1. ASSUME op[q].kind = "update"
              PROVE  next[q] = 1
          BY <4>1, <3>1, <1>5
        <4> QED  BY <4>1, <3>1 DEF Last
      <3>3. pc'[q] = "writing" => op[q].kind # "update"
        BY <3>2, <1>6
      <3>4. pc'[q] # "idle" /\ pc'[q] # "checked"
        BY <1>6
      <3> QED  BY <3>3, <3>4, <1>3, <1>5, <1>7 DEF Progress
    <2> QED  BY <2>1, <2>2 DEF InFlight
  <1>15. DirtyRecorded'
    <2>1. ASSUME NEW r \in Requests \ {q}, NEW c \in Cases
          PROVE  DirtyIsRecorded(r, c)'
      <3>1. DirtyIsRecorded(r, c)
        BY DEF ResultsInv, DirtyRecorded
      <3> QED  BY <3>1, <1>8, <1>9, <1>10 DEF DirtyIsRecorded
    <2>2. ASSUME NEW c \in Cases \ {cur}
          PROVE  DirtyIsRecorded(q, c)'
      <3>1. DirtyIsRecorded(q, c)
        BY DEF ResultsInv, DirtyRecorded
      <3>2. \A k \in Columns : <<c, k>> \in dirty'[q] => <<c, k>> \in dirty[q]
        BY <1>0, <1>9, <2>2 DEF FlushedColumns
      <3> QED  BY <3>1, <3>2, <1>8, <1>10 DEF DirtyIsRecorded, Columns
    <2>3. DirtyIsRecorded(q, cur)'
      <3>1. DirtyIsRecorded(q, cur)
        BY DEF ResultsInv, DirtyRecorded
      <3>2. CASE _should_record_history(Old(q), New(q))
        <4>1. [case |-> cur, status |-> New(q).status, comment |-> New(q).comment]
                \in entries'[q]
          BY <3>2, <1>0, <1>10 DEF NewEntries
        <4> QED  BY <4>1, <1>2, <1>8 DEF DirtyIsRecorded
      <3>3. CASE ~ _should_record_history(Old(q), New(q))
        <4>1. New(q).status = Old(q).status /\ New(q).comment = Old(q).comment
          BY <3>3 DEF _should_record_history
        <4>2. Old(q) # NoRow
          BY <4>1, <1>2 DEF NoRow, Status
        <4>3. Changed(Old(q), New(q)) = {}
          BY <4>1 DEF Changed, Columns
        <4>4. dirty'[q] = dirty[q]
          BY <4>2, <4>3, <1>9 DEF FlushedColumns
        <4> QED  BY <3>1, <4>1, <4>4, <1>0, <1>2, <1>8, <1>10 DEF DirtyIsRecorded, Old
      <3> QED  BY <3>2, <3>3
    <2> QED  BY <2>1, <2>2, <2>3 DEF DirtyRecorded
  <1>16. NewRowsWhole'
    <2> SUFFICES ASSUME NEW r \in Requests, NEW c \in Cases,
                        mine'[r][c] # NoRow, row[c] = NoRow
                 PROVE  <<c, "status">> \in dirty'[r] /\ <<c, "comment">> \in dirty'[r]
      BY <1>3 DEF NewRowsWhole
    <2>1. CASE r # q \/ c # cur
      BY <2>1, <1>8, <1>9 DEF ResultsInv, NewRowsWhole
    <2>2. CASE r = q /\ c = cur /\ Old(q) # NoRow
      BY <2>2, <1>0, <1>9 DEF ResultsInv, NewRowsWhole, Old
    <2>3. CASE r = q /\ c = cur /\ Old(q) = NoRow
      <3>1. FlushedColumns(q) = {cur} \X Columns
        BY <2>3, <1>0 DEF FlushedColumns
      <3> QED  BY <3>1, <2>3, <1>9 DEF Columns
    <2> QED  BY <2>1, <2>2, <2>3
  <1>17. RowsExclusive'
    <2>1. \A r \in Requests \ {q} : cur \notin held[r]
      BY <1>4 DEF HeldByOthers
    <2> QED  BY <2>1, <1>11 DEF ResultsInv, RowsExclusive
  <1>18. EveryValueRecorded'
    BY <1>3 DEF ResultsInv, EveryValueRecorded
  <1> QED
    BY <1>12, <1>13, <1>14, <1>15, <1>16, <1>17, <1>18 DEF ResultsInv

\* The row a commit leaves, from the rows and columns the session wrote.
LEMMA CommittedRow ==
  ASSUME ResultsInv, NEW q \in Requests, Commit(q), NEW c \in Cases
  PROVE  /\ row'[c] \in Row
         /\ ProperRow(row'[c])
         /\ row[c] # NoRow => row'[c] # NoRow
         /\ row'[c] # NoRow =>
              /\ \/ row[c] # NoRow /\ row'[c].status = row[c].status
                 \/ <<c, "status">> \in dirty[q] /\ row'[c].status = mine[q][c].status
              /\ \/ row[c] # NoRow /\ row'[c].comment = row[c].comment
                 \/ <<c, "comment">> \in dirty[q] /\ row'[c].comment = mine[q][c].comment
  <1>1. /\ row[c] \in Row /\ ProperRow(row[c])
        /\ mine[q][c] \in Row /\ ProperRow(mine[q][c])
    BY DEF ResultsInv, TypeOK, ProperRows
  <1>2. row'[c] = IF c \notin held[q] THEN row[c]
                  ELSE IF op[q].kind = "delete" THEN Swept(q, c) ELSE Merged(q, c)
    BY DEF Commit
  <1>3. CASE row'[c] = row[c]
    BY <1>1, <1>3
  <1>8. Swept(q, c) = [status |-> row[c].status, comment |-> row[c].comment,
                       live |-> FALSE]
    BY DEF Swept
  <1>4. CASE row'[c] = Swept(q, c) /\ row[c] # NoRow
    <2>1. row[c].status \in Status
      BY <1>1, <1>4 DEF ProperRow
    <2>2. row[c].comment \in Comments
      BY <1>1 DEF Row
    <2>3. row'[c] \in Row
      BY <1>4, <1>8, <2>1, <2>2 DEF Row
    <2>4. row'[c].status = row[c].status /\ row'[c].comment = row[c].comment
      BY <1>4, <1>8
    <2>5. row'[c] # NoRow
      BY <2>1, <2>4 DEF NoRow, Status
    <2> QED  BY <1>4, <2>1, <2>3, <2>4, <2>5 DEF ProperRow
  <1>5. CASE row'[c] = Swept(q, c) /\ row[c] = NoRow
    <2>1. row'[c] = NoRow
      BY <1>5, <1>8 DEF NoRow
    <2> QED  BY <1>1, <2>1, <1>5
  <1>6. CASE row'[c] = Merged(q, c) /\ row[c] = NoRow
    <2>1. row'[c] = mine[q][c]
      BY <1>6 DEF Merged
    <2>2. mine[q][c] # NoRow =>
            <<c, "status">> \in dirty[q] /\ <<c, "comment">> \in dirty[q]
      BY <1>6 DEF ResultsInv, NewRowsWhole
    <2> QED  BY <1>1, <1>6, <2>1, <2>2
  <1>7. CASE row'[c] = Merged(q, c) /\ row[c] # NoRow
    <2>1. /\ row'[c] = [status |-> row'[c].status, comment |-> row'[c].comment,
                        live |-> row[c].live]
          /\ row'[c].status = IF <<c, "status">> \in dirty[q]
                              THEN mine[q][c].status ELSE row[c].status
          /\ row'[c].comment = IF <<c, "comment">> \in dirty[q]
                               THEN mine[q][c].comment ELSE row[c].comment
      BY <1>7 DEF Merged
    <2>2. <<c, "status">> \in dirty[q] => mine[q][c].status \in Status
      <3>1. <<c, "status">> \in dirty[q] => mine[q][c].live
        BY DEF ResultsInv, DirtyRecorded, DirtyIsRecorded
      <3> QED  BY <1>1, <3>1 DEF ProperRow, NoRow
    <2>3. row'[c].status \in Status
      BY <1>1, <1>7, <2>1, <2>2 DEF ProperRow
    <2>4. row'[c].comment \in Comments /\ row[c].live \in BOOLEAN
      BY <1>1, <2>1 DEF Row
    <2>5. row'[c] \in Row
      BY <2>1, <2>3, <2>4 DEF Row
    <2> QED  BY <1>7, <2>1, <2>3, <2>5 DEF ProperRow, NoRow, Status
  <1> QED  BY <1>2, <1>3, <1>4, <1>5, <1>6, <1>7

LEMMA CommitKeeps ==
  ASSUME ResultsInv, NEW q \in Requests, Commit(q)
  PROVE  ResultsInv'
  <1>1. TypeOK
    BY DEF ResultsInv
  <1>2. /\ row' = [c \in Cases |-> row'[c]]
        /\ history' = [c \in Cases |-> history[c] \union Recorded(q, c)]
        /\ runLive' \in BOOLEAN
        /\ pc' = [pc EXCEPT ![q] = "idle"]
        /\ next' = [next EXCEPT ![q] = 1]
        /\ mine' = [mine EXCEPT ![q] = NoRows]
        /\ dirty' = [dirty EXCEPT ![q] = {}]
        /\ held' = [held EXCEPT ![q] = {}]
        /\ entries' = [entries EXCEPT ![q] = {}]
        /\ rejected' = [rejected EXCEPT ![q] = "no"]
        /\ UNCHANGED <<op, at, begun, overlapped>>
    BY <1>1 DEF Commit, End, Released, TypeOK, clock
  <1>3. \A c \in Cases : Recorded(q, c) \subseteq
                          [at : Nat, status : Status, comment : Comments]
    <2>1. /\ at[q] \in Nat
          /\ entries[q] \subseteq [case : Cases, status : Status, comment : Comments]
      BY <1>1 DEF TypeOK
    <2>2. \A e \in entries[q] : e.status \in Status /\ e.comment \in Comments
      BY <2>1
    <2> QED  BY <2>1, <2>2 DEF Recorded
  <1>4. TypeOK'
    <2>1. row' \in [Cases -> Row]
      BY <1>2, CommittedRow
    <2>2. \A c \in Cases : history'[c] \subseteq
                            [at : Nat, status : Status, comment : Comments]
      BY <1>1, <1>2, <1>3 DEF TypeOK
    <2>3. mine' \in [Requests -> [Cases -> Row]]
      BY <1>1, <1>2, NoRowsType DEF TypeOK
    <2>4. pc' \in [Requests -> {"idle", "checked", "writing", "recheck",
                               "sweeping", "written"}]
      BY <1>1, <1>2 DEF TypeOK
    <2>5. next' \in [Requests -> Nat]
      BY <1>1, <1>2 DEF TypeOK
    <2>6. dirty' \in [Requests -> SUBSET (Cases \X Columns)]
      BY <1>1, <1>2 DEF TypeOK
    <2>7. held' \in [Requests -> SUBSET Cases]
      BY <1>1, <1>2 DEF TypeOK
    <2>8. entries' \in [Requests -> SUBSET [case : Cases, status : Status,
                                          comment : Comments]]
      BY <1>1, <1>2 DEF TypeOK
    <2>9. rejected' \in [Requests -> {"no", "integrity", "not found", "deadlock"}]
      BY <1>1, <1>2 DEF TypeOK
    <2> QED
      BY <1>1, <1>2, <2>1, <2>2, <2>3, <2>4, <2>5, <2>6, <2>7, <2>8, <2>9 DEF TypeOK
  <1>5. /\ pc'[q] = "idle" /\ next'[q] = 1 /\ mine'[q] = NoRows
        /\ dirty'[q] = {} /\ held'[q] = {} /\ entries'[q] = {}
    BY <1>1, <1>2 DEF TypeOK
  <1>6. \A r \in Requests \ {q} :
          /\ pc'[r] = pc[r] /\ next'[r] = next[r] /\ mine'[r] = mine[r]
          /\ dirty'[r] = dirty[r] /\ held'[r] = held[r] /\ entries'[r] = entries[r]
    BY <1>1, <1>2 DEF TypeOK
  <1>7. \A c \in Cases : mine'[q][c] = NoRow
    BY <1>5 DEF NoRows
  <1>8. ProperRows'
    <2>1. \A c \in Cases : ProperRow(row'[c])
      BY CommittedRow
    <2>2. \A r \in Requests, c \in Cases : ProperRow(mine'[r][c])
      BY <1>6, <1>7 DEF ResultsInv, ProperRows, ProperRow
    <2> QED  BY <2>1, <2>2 DEF ProperRows, ProperRow
  <1>9. InFlight'
    <2>1. ASSUME NEW r \in Requests \ {q}
          PROVE  Progress(r)'
      <3>1. Progress(r)
        BY DEF ResultsInv, InFlight
      <3> QED  BY <3>1, <1>2, <1>6 DEF Progress, Current
    <2>2. Progress(q)'
      BY <1>5 DEF Progress
    <2> QED  BY <2>1, <2>2 DEF InFlight
  <1>10. DirtyRecorded'
    <2>1. ASSUME NEW c \in Cases
          PROVE  DirtyIsRecorded(q, c)'
      BY <1>5 DEF DirtyIsRecorded
    <2>2. ASSUME NEW r \in Requests \ {q}, NEW c \in Cases
          PROVE  DirtyIsRecorded(r, c)'
      <3>1. DirtyIsRecorded(r, c)
        BY DEF ResultsInv, DirtyRecorded
      <3> QED  BY <3>1, <1>6 DEF DirtyIsRecorded
    <2> QED  BY <2>1, <2>2 DEF DirtyRecorded
  <1>11. NewRowsWhole'
    <2>1. \A c \in Cases : row'[c] = NoRow => row[c] = NoRow
      BY CommittedRow
    <2> QED  BY <2>1, <1>6, <1>7 DEF ResultsInv, NewRowsWhole
  <1>12. RowsExclusive'
    BY <1>5, <1>6 DEF ResultsInv, RowsExclusive
  <1>13. EveryValueRecorded'
    <2> SUFFICES ASSUME NEW c \in Cases, row'[c] # NoRow
                 PROVE  /\ \E e \in history'[c] : e.status = row'[c].status
                        /\ \E e \in history'[c] : e.comment = row'[c].comment
      BY DEF EveryValueRecorded
    <2>1. history'[c] = history[c] \union Recorded(q, c)
      BY <1>2
    <2>2. \A e \in entries[q] : e.case = c =>
            [at |-> at[q], status |-> e.status, comment |-> e.comment]
              \in Recorded(q, c)
      BY DEF Recorded
    <2>3. row[c] # NoRow => /\ \E e \in history[c] : e.status = row[c].status
                           /\ \E e \in history[c] : e.comment = row[c].comment
      BY DEF ResultsInv, EveryValueRecorded
    <2>4. DirtyIsRecorded(q, c)
      BY DEF ResultsInv, DirtyRecorded
    <2>5. <<c, "status">> \in dirty[q] =>
            \E e \in Recorded(q, c) : e.status = mine[q][c].status
      <3> SUFFICES ASSUME <<c, "status">> \in dirty[q]
                   PROVE  \E e \in Recorded(q, c) : e.status = mine[q][c].status
        OBVIOUS
      <3>1. PICK e \in entries[q] : e.case = c /\ e.status = mine[q][c].status
        BY <2>4 DEF DirtyIsRecorded
      <3> QED  BY <3>1, <2>2
    <2>6. <<c, "comment">> \in dirty[q] =>
            \E e \in Recorded(q, c) : e.comment = mine[q][c].comment
      <3> SUFFICES ASSUME <<c, "comment">> \in dirty[q]
                   PROVE  \E e \in Recorded(q, c) : e.comment = mine[q][c].comment
        OBVIOUS
      <3>1. PICK e \in entries[q] : e.case = c /\ e.comment = mine[q][c].comment
        BY <2>4 DEF DirtyIsRecorded
      <3> QED  BY <3>1, <2>2
    <2>7. /\ \/ row[c] # NoRow /\ row'[c].status = row[c].status
             \/ <<c, "status">> \in dirty[q] /\ row'[c].status = mine[q][c].status
          /\ \/ row[c] # NoRow /\ row'[c].comment = row[c].comment
             \/ <<c, "comment">> \in dirty[q] /\ row'[c].comment = mine[q][c].comment
      BY CommittedRow
    <2> QED  BY <2>1, <2>3, <2>5, <2>6, <2>7
  <1> QED
    BY <1>4, <1>8, <1>9, <1>10, <1>11, <1>12, <1>13 DEF ResultsInv

LEMMA StepKeeps ==
  ASSUME ResultsInv, [Next]_vars
  PROVE  ResultsInv'
  <1>1. CASE UNCHANGED vars
    <2> USE <1>1 DEF vars, ResultsInv
    <2>1. TypeOK'
      BY DEF TypeOK
    <2>2. ProperRows' /\ NewRowsWhole'
      BY DEF ProperRows, ProperRow, NewRowsWhole
    <2>3. InFlight'
      BY DEF InFlight, Progress, Current
    <2>4. DirtyRecorded'
      <3>1. ASSUME NEW r \in Requests, NEW c \in Cases
            PROVE  DirtyIsRecorded(r, c)'
        <4>1. DirtyIsRecorded(r, c)
          BY DEF DirtyRecorded
        <4> QED  BY <4>1 DEF DirtyIsRecorded
      <3> QED  BY <3>1 DEF DirtyRecorded
    <2>5. RowsExclusive' /\ EveryValueRecorded'
      BY DEF RowsExclusive, EveryValueRecorded
    <2> QED  BY <2>1, <2>2, <2>3, <2>4, <2>5
  <1>2. CASE Next
    <2>1. PICK q \in Requests : Step(q) \/ \E o \in Ops : Begin(q, o)
      BY <1>2 DEF Next
    <2>2. CASE \E o \in Ops : Begin(q, o)
      BY <2>2, BeginKeeps
    <2>3. CASE Read(q)
      BY <2>3, ReadKeeps
    <2>4. CASE Write(q)
      BY <2>4, WriteKeeps
    <2>5. CASE Conflict(q) \/ Gone(q) \/ RunGone(q) \/ DeadlockBroken(q)
      BY <2>5, RejectKeeps DEF Conflict, Gone, RunGone, DeadlockBroken
    <2>6. CASE Recheck(q)
      BY <2>6, RecheckKeeps
    <2>7. CASE IssueSweep(q)
      BY <2>7, IssueSweepKeeps
    <2>8. CASE Sweep(q)
      BY <2>8, SweepKeeps
    <2>9. CASE Restore(q)
      BY <2>9, RestoreKeeps
    <2>10. CASE Commit(q)
      BY <2>10, CommitKeeps
    <2> QED
      BY <2>1, <2>2, <2>3, <2>4, <2>5, <2>6, <2>7, <2>8, <2>9, <2>10 DEF Step
  <1> QED  BY <1>1, <1>2

-----------------------------------------------------------------------------
(* Every reachable state satisfies the invariant.                          *)
THEOREM ResultsInvariant == Spec => []ResultsInv
  <1>1. Init => ResultsInv
    BY InitInv
  <1>2. ResultsInv /\ [Next]_vars => ResultsInv'
    BY StepKeeps
  <1> QED  BY <1>1, <1>2, PTL DEF Spec

(* All variables keep their types.                                         *)
THEOREM ResultsTypeCorrect == Spec => []TypeOK
  <1>1. ResultsInv => TypeOK
    BY DEF ResultsInv
  <1> QED  BY <1>1, ResultsInvariant, PTL

(* No two open transactions have written the same result.                  *)
THEOREM ResultsExclusive == Spec => []RowsExclusive
  <1>1. ResultsInv => RowsExclusive
    BY DEF ResultsInv
  <1> QED  BY <1>1, ResultsInvariant, PTL

(* However requests overlap, the history names every value a result has.   *)
THEOREM ResultsRecorded == Spec => []EveryValueRecorded
  <1>1. ResultsInv => EveryValueRecorded
    BY DEF ResultsInv
  <1> QED  BY <1>1, ResultsInvariant, PTL

-----------------------------------------------------------------------------
(* Requests one after the other.  As long as no two transactions were open *)
(* at once, what the open one has read is still there: its rows are those  *)
(* of the table with its own changes (Knows), its last entry for a case    *)
(* says what its row says, and it is newer than all the history (Session). *)

Knows(q, c) ==
  IF c \in held[q]
  THEN /\ mine[q][c].live /\ Merged(q, c) = mine[q][c]
       /\ \/ mine[q][c] = row[c] /\ \A e \in entries[q] : e.case # c
          \/ \E e \in entries[q] : /\ e.case = c /\ e.status = mine[q][c].status
                                   /\ e.comment = mine[q][c].comment
  ELSE /\ \A e \in entries[q] : e.case # c
       /\ \A k \in Columns : <<c, k>> \notin dirty[q]
       /\ mine[q][c] = NoRow \/ (mine[q][c] = row[c] /\ row[c].live)

Clean(q) == held[q] = {} /\ entries[q] = {} /\ dirty[q] = {}

Sweeps(q) ==
  /\ entries[q] = {}
  /\ pc[q] = "sweeping" => mine[q] = AllFound
  /\ IF pc[q] = "written" /\ op[q].kind = "delete"
     THEN held[q] = {c \in Cases : row[c].live} ELSE held[q] = {}

Session(q) ==
  IF pc[q] = "idle" THEN Clean(q)
  ELSE /\ \A r \in Requests \ {q} : pc[r] = "idle"
       /\ at[q] = begun /\ \A c \in Cases : \A e \in history[c] : e.at < begun
       /\ pc[q] = "sweeping" => op[q].kind = "delete"
       /\ runLive <=> op[q].kind # "restore"
       /\ IF op[q].kind \in Writers THEN \A c \in Cases : Knows(q, c) ELSE Sweeps(q)

Told(c) == row[c] # NoRow =>
  \E e \in Newest(c) : e.status = row[c].status /\ e.comment = row[c].comment

Serial ==
  /\ \A q \in Requests : Session(q)
  /\ \A c \in Cases : Told(c) /\ \A e \in history[c] : e.at <= begun
  /\ ~ runLive => \A c \in Cases : ~ row[c].live

SerialInv == ~ overlapped => Serial

-----------------------------------------------------------------------------
\* A step of one request leaves those without a transaction alone.
LEMMA OthersStayClean ==
  ASSUME Serial, NEW q \in Requests, \A r \in Requests \ {q} : pc[r] = "idle",
         \A r \in Requests \ {q} :
           /\ pc'[r] = pc[r] /\ held'[r] = held[r]
           /\ entries'[r] = entries[r] /\ dirty'[r] = dirty[r]
  PROVE  \A r \in Requests \ {q} : pc'[r] = "idle" /\ Session(r)'
  BY DEF Serial, Session, Clean

\* A step that changes no table, in the middle of a transaction.
LEMMA SessionGoesOn ==
  ASSUME Serial, NEW q \in Requests, pc[q] # "idle", pc'[q] # "idle",
         pc'[q] = "sweeping" => op[q].kind = "delete",
         UNCHANGED <<runLive, row, history, op, at, begun>>,
         \A r \in Requests \ {q} :
           /\ pc'[r] = pc[r] /\ held'[r] = held[r]
           /\ entries'[r] = entries[r] /\ dirty'[r] = dirty[r],
         IF op[q].kind \in Writers THEN \A c \in Cases : Knows(q, c)'
                                   ELSE Sweeps(q)'
  PROVE  Serial'
  <1>1. \A r \in Requests \ {q} : pc[r] = "idle"
    BY DEF Serial, Session
  <1>2. \A r \in Requests \ {q} : pc'[r] = "idle" /\ Session(r)'
    BY <1>1, OthersStayClean
  <1>3. Session(q)'
    <2>1. Session(q)
      BY DEF Serial
    <2> QED  BY <2>1, <1>2 DEF Session
  <1>4. \A c \in Cases : Told(c)' /\ \A e \in history'[c] : e.at <= begun'
    <2>1. \A c \in Cases : Newest(c)' = Newest(c)
      BY DEF Newest
    <2> QED  BY <2>1 DEF Serial, Told
  <1> QED  BY <1>2, <1>3, <1>4 DEF Serial

\* A transaction that ends without a commit.
LEMMA SessionRejected ==
  ASSUME ResultsInv, Serial, NEW q \in Requests, pc[q] # "idle",
         NEW how \in {"integrity", "not found", "deadlock"}, Reject(q, how)
  PROVE  Serial'
  <1>1. /\ pc' = [pc EXCEPT ![q] = "idle"]
        /\ held' = [held EXCEPT ![q] = {}] /\ entries' = [entries EXCEPT ![q] = {}]
        /\ dirty' = [dirty EXCEPT ![q] = {}]
        /\ UNCHANGED <<runLive, row, history, begun>>
    BY DEF Reject, End, Released, data, clock
  <1>2. \A r \in Requests \ {q} : pc[r] = "idle"
    BY DEF Serial, Session
  <1>3. /\ pc'[q] = "idle" /\ held'[q] = {} /\ entries'[q] = {} /\ dirty'[q] = {}
        /\ \A r \in Requests \ {q} :
             /\ pc'[r] = pc[r] /\ held'[r] = held[r]
             /\ entries'[r] = entries[r] /\ dirty'[r] = dirty[r]
    BY <1>1 DEF ResultsInv, TypeOK
  <1>4. \A r \in Requests \ {q} : Session(r)'
    BY <1>2, <1>3, OthersStayClean
  <1>5. Session(q)'
    BY <1>3 DEF Session, Clean
  <1>6. \A c \in Cases : Told(c)' /\ \A e \in history'[c] : e.at <= begun'
    <2>1. \A c \in Cases : Newest(c)' = Newest(c)
      BY <1>1 DEF Newest
    <2> QED  BY <1>1, <2>1 DEF Serial, Told
  <1> QED  BY <1>1, <1>4, <1>5, <1>6 DEF Serial

\* The first SELECT of a request that is alone: an update finds its result
\* live, so the run is.
LEMMA SessionBegins ==
  ASSUME ResultsInv, Serial, NEW q \in Requests, NEW o \in Ops, Begin(q, o),
         ~ overlapped'
  PROVE  Serial'
  <1>1. /\ pc[q] = "idle"
        /\ o.kind # "update" => (runLive <=> o.kind # "restore")
        /\ o.kind = "update" => row[o.items[1].case].live
        /\ mine' = [mine EXCEPT ![q] = LoadedBy(o)]
        /\ pc' = [pc EXCEPT ![q] = IF o.kind = "update" THEN "writing" ELSE "checked"]
        /\ op' = [op EXCEPT ![q] = o]
        /\ begun' = begun + 1 /\ at' = [at EXCEPT ![q] = begun + 1]
        /\ UNCHANGED <<runLive, row, history, dirty, held, entries>>
        /\ \A r \in Requests \ {q} : pc[r] = "idle"
    BY DEF Begin, data
  <1>2. TypeOK
    BY DEF ResultsInv
  <1>3. /\ pc'[q] \in {"writing", "checked"} /\ mine'[q] = LoadedBy(o)
        /\ op'[q] = o /\ at'[q] = begun + 1
        /\ \A r \in Requests \ {q} : pc'[r] = pc[r]
    BY <1>1, <1>2 DEF TypeOK
  <1>4. \A r \in Requests \ {q} : pc'[r] = "idle" /\ Session(r)'
    BY <1>1, <1>3, OthersStayClean
  <1>5. begun \in Nat /\ \A c \in Cases : \A e \in history[c] :
                           e.at \in Nat /\ e.at < begun + 1 /\ e.at <= begun + 1
    <2>1. begun \in Nat /\ \A c \in Cases : \A e \in history[c] : e.at \in Nat
      BY <1>2 DEF TypeOK
    <2>2. \A c \in Cases : \A e \in history[c] : e.at <= begun
      BY DEF Serial
    <2> QED  BY <2>1, <2>2
  <1>6. Clean(q) /\ Clean(q)'
    BY <1>1 DEF Serial, Session, Clean
  <1>7. /\ \A c \in Cases : LoadedBy(o)[c] = NoRow \/ LoadedBy(o)[c] = row[c]
        /\ o.kind = "update" => o.items[1].case \in Cases
    BY <1>1, LoadedByType
  <1>8. runLive <=> o.kind # "restore"
    BY <1>1, <1>7 DEF Serial
  <1>9. Session(q)'
    <2>1. ASSUME NEW c \in Cases
          PROVE  Knows(q, c)'
      <3>1. c \notin held'[q] /\ entries'[q] = {} /\ dirty'[q] = {}
        BY <1>6 DEF Clean
      <3>2. mine'[q][c] = NoRow \/ (mine'[q][c] = row'[c] /\ row'[c].live)
        <4>1. mine'[q][c] = IF o.kind = "update" /\ c = o.items[1].case
                            THEN row[c] ELSE NoRow
          BY <1>3 DEF LoadedBy
        <4> QED  BY <4>1, <1>1
      <3> QED  BY <3>1, <3>2 DEF Knows
    <2>2. Sweeps(q)'
      BY <1>3, <1>6 DEF Sweeps, Clean
    <2> QED  BY <1>1, <1>3, <1>4, <1>5, <1>8, <2>1, <2>2 DEF Session
  <1>10. \A c \in Cases : Told(c)' /\ \A e \in history'[c] : e.at <= begun'
    <2>1. \A c \in Cases : Newest(c)' = Newest(c)
      BY <1>1 DEF Newest
    <2> QED  BY <1>1, <1>5, <2>1 DEF Serial, Told
  <1> QED  BY <1>1, <1>4, <1>9, <1>10 DEF Serial

\* A SELECT of a request that is alone.
LEMMA SessionReads ==
  ASSUME ResultsInv, Serial, NEW q \in Requests, Read(q)
  PROVE  Serial'
  <1>1. /\ pc[q] = "checked" /\ op[q].kind \in Writers
        /\ mine' = [mine EXCEPT ![q] = Loaded(q)]
        /\ pc' = [pc EXCEPT ![q] = "writing"]
        /\ UNCHANGED <<runLive, row, history, op, at, dirty, held, entries, begun>>
    BY DEF Read, data, clock, Writers
  <1>2. /\ pc'[q] = "writing" /\ mine'[q] = Loaded(q)
        /\ \A r \in Requests \ {q} : pc'[r] = pc[r]
    BY <1>1 DEF ResultsInv, TypeOK
  <1>3. ASSUME NEW c \in Cases
        PROVE  Knows(q, c)'
    <2>1. Knows(q, c)
      BY <1>1 DEF Serial, Session
    <2>2. mine'[q][c] = IF c \in Wanted(q) /\ ~ mine[q][c].live
                        THEN Found(c) ELSE mine[q][c]
      BY <1>2 DEF Loaded
    <2>3. CASE c \in held[q]
      <3>1. mine'[q][c] = mine[q][c]
        BY <2>1, <2>2, <2>3 DEF Knows
      <3>2. Merged(q, c)' = Merged(q, c)
        BY <1>1, <3>1 DEF Merged
      <3> QED  BY <1>1, <2>1, <2>3, <3>1, <3>2 DEF Knows
    <2>4. CASE c \notin held[q]
      BY <1>1, <2>1, <2>2, <2>4 DEF Knows, Found
    <2> QED  BY <2>3, <2>4
  <1> QED  BY <1>1, <1>2, <1>3, SessionGoesOn

\* A flush of a request that is alone: columns it leaves as they are, in the
\* session, are so in the table.
LEMMA SessionWrites ==
  ASSUME ResultsInv, Serial, NEW q \in Requests, Write(q)
  PROVE  Serial'
  <1>1. pc[q] = "writing" /\ op[q].kind \in Writers
    BY DEF Write, ResultsInv, InFlight, Progress
  <1>2. Current(q) \in Item /\ Current(q).case \in Cases
    BY <1>1, CurrentType
  <1>3. PICK d \in Cases : d = Current(q).case
    BY <1>2
  <1>4. TypeOK /\ ProperRows
    BY DEF ResultsInv
  <1>5. /\ Accepts(q)
        /\ mine' = [mine EXCEPT ![q][d] = New(q)]
        /\ dirty' = [dirty EXCEPT ![q] = @ \union FlushedColumns(q)]
        /\ held' = [held EXCEPT ![q] = @ \union {d}]
        /\ entries' = [entries EXCEPT ![q] = @ \union NewEntries(q)]
        /\ \E s \in {"recheck", "written", "writing"} : pc' = [pc EXCEPT ![q] = s]
        /\ UNCHANGED <<runLive, row, history, op, at, begun>>
    BY <1>3 DEF Write, Flush, data, clock
  <1>6. /\ pc'[q] \notin {"idle", "sweeping"}
        /\ \A r \in Requests \ {q} : pc'[r] = pc[r]
        /\ \A r \in Requests \ {q} :
             held'[r] = held[r] /\ entries'[r] = entries[r] /\ dirty'[r] = dirty[r]
    BY <1>1, <1>4, <1>5 DEF TypeOK
  <1>7. /\ mine'[q][d] = New(q)
        /\ \A c \in Cases \ {d} : mine'[q][c] = mine[q][c]
    BY <1>1, <1>2, <1>3, <1>4, <1>5 DEF TypeOK
  <1>8. /\ dirty'[q] = dirty[q] \union FlushedColumns(q)
        /\ held'[q] = held[q] \union {d}
        /\ entries'[q] = entries[q] \union NewEntries(q)
    BY <1>1, <1>4, <1>5 DEF TypeOK
  <1>9. /\ \A x \in FlushedColumns(q) : x[1] = d
        /\ \A e \in NewEntries(q) : e.case = d
    BY <1>3 DEF FlushedColumns, NewEntries
  <1>10. ASSUME NEW c \in Cases \ {d}
         PROVE  Knows(q, c)'
    <2>1. Knows(q, c)
      BY <1>1 DEF Serial, Session
    <2>2. \A k : <<c, k>> \in dirty'[q] <=> <<c, k>> \in dirty[q]
      BY <1>8, <1>9
    <2>3. Merged(q, c)' = Merged(q, c)
      BY <1>5, <1>7, <2>2 DEF Merged
    <2>4. \A e : e.case = c => (e \in entries'[q] <=> e \in entries[q])
      BY <1>8, <1>9
    <2>5. c \in held'[q] <=> c \in held[q]
      BY <1>8
    <2>6. mine'[q][c] = mine[q][c] /\ row' = row
      BY <1>5, <1>7
    <2>7. CASE c \in held[q]
      BY <2>1, <2>3, <2>4, <2>5, <2>6, <2>7 DEF Knows
    <2>8. CASE c \notin held[q]
      BY <2>1, <2>2, <2>4, <2>5, <2>6, <2>8 DEF Knows
    <2> QED  BY <2>7, <2>8
  <1>11. Knows(q, d)'
    <2>1. Knows(q, d)
      BY <1>1 DEF Serial, Session
    <2>2. /\ New(q).live
          /\ New(q) = [status |-> New(q).status, comment |-> New(q).comment,
                       live |-> TRUE]
      BY DEF New, Assigned
    <2>3. /\ Old(q) = mine[q][d] /\ Old(q) \in Row /\ ProperRow(Old(q))
          /\ row[d] \in Row
      BY <1>2, <1>3, <1>4 DEF Old, TypeOK, ProperRows
    <2>4. Old(q) = NoRow => row[d] = NoRow
      BY <1>3, <1>5 DEF Accepts
    <2>5. Old(q) = NoRow => New(q).status # Old(q).status
      <3>1. Old(q) = NoRow => Current(q).status # "keep"
        <4>1. Old(q) = NoRow => op[q].kind # "update"
          BY <1>1, <1>3, <2>3 DEF ResultsInv, InFlight, Progress
        <4>2. op[q] \in Ops
          BY <1>1 DEF ResultsInv, InFlight, Progress
        <4>3. next[q] \in 1..Len(op[q].items) /\ op[q].items \in Seq(Item)
          BY <1>1, <1>4, CurrentType DEF TypeOK, Op
        <4> QED  BY <4>1, <4>2, <4>3, ResultsAssumption DEF Current
      <3>2. Current(q).status \in Status \union {"skipped", "keep"}
        BY <1>2 DEF Item
      <3> QED  BY <3>1, <3>2 DEF New, Assigned, _normalise_status, NoRow, Status
    <2>6. CASE _should_record_history(Old(q), New(q))
      <3>1. \E e \in entries'[q] : /\ e.case = d /\ e.status = mine'[q][d].status
                                   /\ e.comment = mine'[q][d].comment
        <4>1. NewEntries(q) = {[case |-> d, status |-> New(q).status,
                                comment |-> New(q).comment]}
          BY <1>3, <2>6 DEF NewEntries
        <4>2. PICK e \in entries'[q] : e = [case |-> d, status |-> New(q).status,
                                            comment |-> New(q).comment]
          BY <1>8, <4>1
        <4>3. e.case = d /\ e.status = New(q).status /\ e.comment = New(q).comment
          BY <4>2
        <4> QED  BY <1>7, <4>3
      <3>2. Merged(q, d)' = New(q)
        <4>1. CASE Old(q) = NoRow
          BY <1>5, <1>7, <2>4, <4>1 DEF Merged
        <4>2. CASE Old(q) # NoRow /\ row[d] = NoRow
          BY <1>5, <1>7, <4>2 DEF Merged
        <4>3. CASE Old(q) # NoRow /\ row[d] # NoRow
          <5>1. Old(q).live /\ row[d].live
            BY <2>1, <2>3, <4>3 DEF Knows, Merged
          <5>2. \A k \in Columns :
                  <<d, k>> \in dirty'[q] \/ (Old(q)[k] = New(q)[k] /\ <<d, k>> \notin dirty[q])
            BY <1>3, <1>8, <4>3 DEF FlushedColumns, Changed
          <5>3. \A k \in Columns : <<d, k>> \notin dirty[q] => row[d][k] = Old(q)[k]
            BY <2>1, <2>3, <4>3 DEF Knows, Merged, Columns, Row
          <5>4. /\ <<d, "status">> \in dirty'[q] \/ row[d].status = New(q).status
                /\ <<d, "comment">> \in dirty'[q] \/ row[d].comment = New(q).comment
            BY <5>2, <5>3 DEF Columns
          <5> QED  BY <1>5, <1>7, <2>2, <4>3, <5>1, <5>4 DEF Merged
        <4> QED  BY <4>1, <4>2, <4>3
      <3> QED  BY <1>7, <1>8, <2>2, <3>1, <3>2 DEF Knows
    <2>7. CASE ~ _should_record_history(Old(q), New(q))
      <3>1. Old(q).status = New(q).status /\ Old(q).comment = New(q).comment
        BY <2>7 DEF _should_record_history
      <3>2. Old(q) # NoRow
        BY <2>5, <3>1
      <3>3. Old(q).live
        BY <2>1, <2>3, <3>2 DEF Knows
      <3>4. New(q) = Old(q)
        BY <2>2, <2>3, <3>1, <3>3 DEF Row
      <3>5. entries'[q] = entries[q] /\ dirty'[q] = dirty[q]
        <4>1. FlushedColumns(q) = {}
          BY <3>2, <3>4 DEF FlushedColumns, Changed
        <4>2. NewEntries(q) = {}
          BY <2>7 DEF NewEntries
        <4> QED  BY <1>8, <4>1, <4>2
      <3>6. mine'[q][d] = mine[q][d]
        BY <1>7, <2>3, <3>4
      <3>7. Merged(q, d)' = Merged(q, d)
        BY <1>5, <3>5, <3>6 DEF Merged
      <3>8. CASE d \in held[q]
        BY <1>5, <1>8, <2>1, <3>5, <3>6, <3>7, <3>8 DEF Knows
      <3>9. CASE d \notin held[q]
        <4>1. /\ mine[q][d] = row[d] /\ row[d].live /\ row[d] # NoRow
              /\ \A e \in entries[q] : e.case # d
              /\ \A k \in Columns : <<d, k>> \notin dirty[q]
          BY <2>1, <2>3, <3>2, <3>9 DEF Knows
        <4>2. Merged(q, d) = row[d]
          BY <2>3, <4>1 DEF Merged, Columns, Row
        <4> QED  BY <1>5, <1>8, <3>5, <3>6, <3>7, <4>1, <4>2 DEF Knows
      <3> QED  BY <3>8, <3>9
    <2> QED  BY <2>6, <2>7
  <1>12. \A c \in Cases : Knows(q, c)'
    BY <1>10, <1>11
  <1> QED  BY <1>1, <1>5, <1>6, <1>12, SessionGoesOn

\* Between two items of a CI report.
LEMMA SessionRechecks ==
  ASSUME ResultsInv, Serial, NEW q \in Requests, Recheck(q)
  PROVE  Serial'
  <1>1. /\ pc[q] = "recheck"
        /\ \E s \in {"written", "checked"} : pc' = [pc EXCEPT ![q] = s]
        /\ UNCHANGED <<runLive, row, history, op, at, mine, dirty, held, entries,
                       begun>>
    BY DEF Recheck, data, clock
  <1>2. op[q].kind \in Writers
    BY <1>1 DEF ResultsInv, InFlight, Progress
  <1>3. pc'[q] \notin {"idle", "sweeping"} /\ \A r \in Requests \ {q} : pc'[r] = pc[r]
    BY <1>1 DEF ResultsInv, TypeOK
  <1>4. \A c \in Cases : Knows(q, c)'
    <2>1. \A c \in Cases : Knows(q, c)
      BY <1>1, <1>2 DEF Serial, Session
    <2>2. \A c \in Cases : Merged(q, c)' = Merged(q, c)
      BY <1>1 DEF Merged
    <2> QED  BY <1>1, <2>1, <2>2 DEF Knows
  <1> QED  BY <1>1, <1>2, <1>3, <1>4, SessionGoesOn

\* The deletion and the restore of the run.
LEMMA SessionSweeps ==
  ASSUME ResultsInv, Serial, NEW q \in Requests,
         IssueSweep(q) \/ Sweep(q) \/ Restore(q)
  PROVE  Serial'
  <1>1. /\ pc[q] \in {"checked", "sweeping"}
        /\ UNCHANGED <<runLive, row, history, op, at, dirty, entries, begun>>
    BY DEF IssueSweep, Sweep, Restore, data, clock
  <1>2. TypeOK
    BY DEF ResultsInv
  <1>3. /\ pc'[q] \in {"sweeping", "written"}
        /\ \A r \in Requests \ {q} : pc'[r] = pc[r] /\ held'[r] = held[r]
    BY <1>2 DEF IssueSweep, Sweep, Restore, TypeOK
  <1>4. /\ op[q].kind \notin Writers
        /\ Sweeps(q)
    <2>1. op[q].kind \in {"delete", "restore"} => op[q].kind \notin Writers
      BY DEF Writers
    <2>2. CASE IssueSweep(q) \/ Restore(q)
      BY <1>1, <2>1, <2>2 DEF IssueSweep, Restore, Serial, Session
    <2>3. CASE Sweep(q)
      <3>1. pc[q] = "sweeping"
        BY <2>3 DEF Sweep
      <3>2. op[q].kind = "delete"
        BY <3>1 DEF Serial, Session
      <3> QED  BY <2>1, <3>1, <3>2 DEF Serial, Session
    <2> QED  BY <2>2, <2>3
  <1>5. Sweeps(q)'
    <2>1. CASE IssueSweep(q)
      <3>1. /\ pc'[q] = "sweeping" /\ op[q].kind = "delete" /\ held' = held
            /\ mine'[q] = AllFound /\ pc[q] = "checked"
        BY <1>2, <2>1 DEF IssueSweep, TypeOK
      <3>2. AllFound' = AllFound
        BY <1>1 DEF AllFound, Found
      <3> QED  BY <1>1, <1>4, <3>1, <3>2 DEF Sweeps
    <2>2. CASE Sweep(q)
      <3>1. /\ pc[q] = "sweeping" /\ pc'[q] = "written"
            /\ held'[q] = {c \in Cases : mine[q][c].live}
        BY <1>2, <2>2 DEF Sweep, TypeOK
      <3>2. \A c \in Cases : mine[q][c].live <=> row[c].live
        BY <1>4, <3>1 DEF Sweeps, AllFound, Found, NoRow
      <3>3. held'[q] = {c \in Cases : row'[c].live}
        BY <1>1, <3>1, <3>2
      <3>4. op[q].kind = "delete"
        BY <3>1 DEF Serial, Session
      <3> QED  BY <1>1, <1>4, <3>1, <3>3, <3>4 DEF Sweeps
    <2>3. CASE Restore(q)
      <3>1. /\ pc[q] = "checked" /\ pc'[q] = "written" /\ op[q].kind = "restore"
            /\ held' = held
        BY <1>2, <2>3 DEF Restore, TypeOK
      <3> QED  BY <1>1, <1>4, <3>1 DEF Sweeps
    <2> QED  BY <2>1, <2>2, <2>3
  <1>6. pc'[q] = "sweeping" => op[q].kind = "delete"
    BY <1>2 DEF IssueSweep, Sweep, Restore, TypeOK
  <1> QED  BY <1>1, <1>3, <1>4, <1>5, <1>6, SessionGoesOn

\* The commit of a request that is alone.
LEMMA SessionCommits ==
  ASSUME ResultsInv, Serial, NEW q \in Requests, Commit(q)
  PROVE  Serial'
  <1>1. /\ pc[q] = "written"
        /\ runLive' = IF op[q].kind = "delete" THEN FALSE
                      ELSE IF op[q].kind = "restore" THEN TRUE ELSE runLive
        /\ row' = [c \in Cases |-> IF c \notin held[q] THEN row[c]
                                   ELSE IF op[q].kind = "delete" THEN Swept(q, c)
                                   ELSE Merged(q, c)]
        /\ history' = [c \in Cases |-> history[c] \union Recorded(q, c)]
        /\ pc' = [pc EXCEPT ![q] = "idle"]
        /\ held' = [held EXCEPT ![q] = {}] /\ entries' = [entries EXCEPT ![q] = {}]
        /\ dirty' = [dirty EXCEPT ![q] = {}] /\ begun' = begun
    BY DEF Commit, End, Released, clock
  <1>2. /\ Session(q) /\ pc[q] # "idle" /\ TypeOK
        /\ \A r \in Requests \ {q} : pc[r] = "idle"
    BY <1>1 DEF Serial, Session, ResultsInv
  <1>3. /\ at[q] = begun /\ begun \in Nat
        /\ \A c \in Cases : \A e \in history[c] : e.at < begun /\ e.at \in Nat
        /\ runLive <=> op[q].kind # "restore"
    BY <1>2 DEF Session, TypeOK
  <1>4. /\ pc'[q] = "idle" /\ held'[q] = {} /\ entries'[q] = {} /\ dirty'[q] = {}
        /\ \A r \in Requests \ {q} :
             /\ pc'[r] = pc[r] /\ held'[r] = held[r]
             /\ entries'[r] = entries[r] /\ dirty'[r] = dirty[r]
    BY <1>1, <1>2 DEF TypeOK
  <1>5. \A r \in Requests \ {q} : Session(r)'
    BY <1>2, <1>4, OthersStayClean
  <1>6. Session(q)'
    BY <1>4 DEF Session, Clean
  <1>7. \A c \in Cases : /\ \A e \in Recorded(q, c) : e.at = begun
                         /\ history'[c] = history[c] \union Recorded(q, c)
    BY <1>1, <1>3 DEF Recorded
  <1>8. \A c \in Cases : \A e \in history'[c] : e.at <= begun'
    BY <1>1, <1>3, <1>7
  <1>9. \A c \in Cases :
          /\ Recorded(q, c) = {}
          /\ row'[c] = row[c] \/ (row'[c] = Swept(q, c) /\ row[c] # NoRow)
          => Told(c)'
    <2> SUFFICES ASSUME NEW c \in Cases, Recorded(q, c) = {},
                        row'[c] = row[c] \/ (row'[c] = Swept(q, c) /\ row[c] # NoRow)
                 PROVE  Told(c)'
      OBVIOUS
    <2>1. Newest(c)' = Newest(c)
      BY <1>7 DEF Newest
    <2>2. row'[c] # NoRow =>
            row[c] # NoRow /\ row'[c].status = row[c].status
                           /\ row'[c].comment = row[c].comment
      BY DEF Swept
    <2> QED  BY <2>1, <2>2 DEF Serial, Told
  <1>10. ASSUME NEW c \in Cases, NEW e \in entries[q], e.case = c,
                e.status = row'[c].status, e.comment = row'[c].comment
         PROVE  Told(c)'
    <2>1. [at |-> at[q], status |-> e.status, comment |-> e.comment] \in Recorded(q, c)
      BY <1>10 DEF Recorded
    <2>2. PICK f \in history'[c] : f.at = begun /\ f.status = e.status
                                                /\ f.comment = e.comment
      BY <1>3, <1>7, <2>1
    <2>3. f \in Newest(c)'
      BY <1>1, <1>8, <2>2 DEF Newest
    <2> QED  BY <1>10, <2>2, <2>3 DEF Told
  <1>11. CASE op[q].kind \in Writers
    <2>1. \A c \in Cases : Knows(q, c)
      BY <1>2, <1>11 DEF Session
    <2>2. op[q].kind \notin {"delete", "restore"}
      BY <1>11 DEF Writers
    <2>3. ASSUME NEW c \in Cases
          PROVE  Told(c)'
      <3>1. CASE c \notin held[q]
        <4>1. Recorded(q, c) = {}
          BY <2>1, <3>1 DEF Knows, Recorded
        <4> QED  BY <1>1, <1>9, <3>1, <4>1
      <3>2. CASE c \in held[q]
        <4>1. row'[c] = mine[q][c]
          BY <1>1, <2>1, <2>2, <3>2 DEF Knows
        <4>2. CASE mine[q][c] = row[c] /\ \A e \in entries[q] : e.case # c
          <5>1. Recorded(q, c) = {}
            BY <4>2 DEF Recorded
          <5> QED  BY <1>9, <4>1, <4>2, <5>1
        <4>3. CASE \E e \in entries[q] : /\ e.case = c /\ e.status = mine[q][c].status
                                         /\ e.comment = mine[q][c].comment
          BY <1>10, <4>1, <4>3
        <4> QED  BY <2>1, <3>2, <4>2, <4>3 DEF Knows
      <3> QED  BY <3>1, <3>2
    <2>4. runLive'
      BY <1>1, <1>3, <2>2
    <2> QED  BY <1>5, <1>6, <1>8, <2>3, <2>4 DEF Serial
  <1>12. CASE op[q].kind \notin Writers
    <2>1. Sweeps(q) /\ entries[q] = {}
      BY <1>2, <1>12 DEF Session, Sweeps
    <2>2. \A c \in Cases : Recorded(q, c) = {}
      BY <2>1 DEF Recorded
    <2>3. op[q].kind \in {"delete", "restore"}
      BY <1>2, <1>12 DEF TypeOK, Op, Kind, Writers
    <2>4. CASE op[q].kind = "delete"
      <3>1. \A c \in Cases : /\ c \in held[q] <=> row[c].live
                             /\ c \in held[q] => row'[c] = Swept(q, c)
                             /\ c \notin held[q] => row'[c] = row[c]
        BY <1>1, <2>1, <2>4 DEF Sweeps
      <3>2. \A c \in Cases : ~ row'[c].live
        <4>1. \A c \in Cases : row[c].live \in BOOLEAN
          BY <1>2 DEF TypeOK, Row
        <4>2. \A c \in Cases : Swept(q, c).live = FALSE
          BY DEF Swept
        <4> SUFFICES ASSUME NEW c \in Cases
                     PROVE  row'[c].live = FALSE
          OBVIOUS
        <4>3. CASE c \in held[q]
          BY <3>1, <4>2, <4>3
        <4>4. CASE c \notin held[q]
          BY <3>1, <4>1, <4>4
        <4> QED  BY <4>3, <4>4
      <3>3. ASSUME NEW c \in Cases
            PROVE  Told(c)'
        BY <1>9, <2>2, <3>1 DEF NoRow
      <3> QED  BY <1>5, <1>6, <1>8, <3>2, <3>3 DEF Serial
    <2>5. CASE op[q].kind = "restore"
      <3>1. runLive' /\ \A c \in Cases : row'[c] = row[c]
        BY <1>1, <2>1, <2>5 DEF Sweeps
      <3> QED  BY <1>5, <1>6, <1>8, <1>9, <2>2, <3>1 DEF Serial
    <2> QED  BY <2>3, <2>4, <2>5
  <1> QED  BY <1>11, <1>12

\* Steps belong to an open transaction and begin no other.
LEMMA StepIsOpen ==
  ASSUME NEW q \in Requests, Step(q)
  PROVE  pc[q] # "idle" /\ overlapped' = overlapped
  <1>1. CASE DeadlockBroken(q)
    BY <1>1 DEF DeadlockBroken, WaitsFor, Reject, End, clock
  <1>2. CASE Conflict(q) \/ Gone(q) \/ RunGone(q) \/ Commit(q)
    BY <1>2 DEF Conflict, Gone, RunGone, Commit, Reject, End, clock
  <1>3. CASE Read(q) \/ Write(q) \/ Recheck(q) \/ IssueSweep(q) \/ Sweep(q) \/ Restore(q)
    BY <1>3 DEF Read, Write, Recheck, IssueSweep, Sweep, Restore, clock
  <1> QED  BY <1>1, <1>2, <1>3 DEF Step

LEMMA SerialInit ==
  ASSUME Init
  PROVE  SerialInv
  BY DEF Init, SerialInv, Serial, Session, Clean, Told, NoRows, NoRow

LEMMA SerialStep ==
  ASSUME ResultsInv, SerialInv, [Next]_vars
  PROVE  SerialInv'
  <1> SUFFICES ASSUME ~ overlapped'
               PROVE  Serial'
    BY DEF SerialInv
  <1>1. CASE UNCHANGED vars
    <2>1. Serial
      BY <1>1 DEF SerialInv, vars
    <2>2. /\ \A q \in Requests, c \in Cases : Merged(q, c)' = Merged(q, c)
          /\ \A c \in Cases : Newest(c)' = Newest(c)
          /\ AllFound' = AllFound
      BY <1>1 DEF vars, Merged, Newest, AllFound, Found
    <2>3. ASSUME NEW q \in Requests
          PROVE  Session(q)'
      <3>1. Session(q)
        BY <2>1 DEF Serial
      <3>2. \A c \in Cases : Knows(q, c) => Knows(q, c)'
        BY <1>1, <2>2 DEF vars, Knows
      <3>3. Sweeps(q) => Sweeps(q)'
        BY <1>1, <2>2 DEF vars, Sweeps
      <3> QED  BY <1>1, <3>1, <3>2, <3>3 DEF vars, Session, Clean
    <2>4. \A c \in Cases : Told(c)' /\ \A e \in history'[c] : e.at <= begun'
      BY <1>1, <2>1, <2>2 DEF vars, Serial, Told
    <2> QED  BY <1>1, <2>1, <2>3, <2>4 DEF vars, Serial
  <1>2. CASE Next
    <2>1. PICK q \in Requests : Step(q) \/ \E o \in Ops : Begin(q, o)
      BY <1>2 DEF Next
    <2>2. ~ overlapped
      BY <2>1, StepIsOpen DEF Begin
    <2>3. Serial
      BY <2>2 DEF SerialInv
    <2>4. CASE \E o \in Ops : Begin(q, o)
      BY <2>3, <2>4, SessionBegins
    <2>5. CASE Read(q)
      BY <2>3, <2>5, SessionReads
    <2>6. CASE Write(q)
      BY <2>3, <2>6, SessionWrites
    <2>7. CASE Conflict(q) \/ Gone(q) \/ RunGone(q) \/ DeadlockBroken(q)
      <3>1. pc[q] # "idle"
        BY <2>7, StepIsOpen DEF Step
      <3> QED  BY <2>3, <2>7, <3>1, SessionRejected DEF Conflict, Gone, RunGone,
               DeadlockBroken
    <2>8. CASE Recheck(q)
      BY <2>3, <2>8, SessionRechecks
    <2>9. CASE IssueSweep(q) \/ Sweep(q) \/ Restore(q)
      BY <2>3, <2>9, SessionSweeps
    <2>10. CASE Commit(q)
      BY <2>3, <2>10, SessionCommits
    <2> QED  BY <2>1, <2>4, <2>5, <2>6, <2>7, <2>8, <2>9, <2>10 DEF Step
  <1> QED  BY <1>1, <1>2

(* While no two requests overlap, the open one knows the table.            *)
THEOREM SerialInvariant == Spec => []SerialInv
  <1>1. Init => SerialInv
    BY SerialInit
  <1>2. ResultsInv /\ SerialInv /\ [Next]_vars => SerialInv'
    BY SerialStep
  <1> QED  BY <1>1, <1>2, ResultsInvariant, PTL DEF Spec

(* Requests one after the other: a last line of the history is the result. *)
THEOREM HistoryIsCurrent == Spec => []HistoryTellsRow
  <1>1. SerialInv => HistoryTellsRow
    BY DEF SerialInv, Serial, Told, HistoryTellsRow
  <1> QED  BY <1>1, SerialInvariant, PTL

(* Requests one after the other: a deleted run has no live result.         *)
THEOREM DeletedRunIsEmpty == Spec => []DeletedRunHasNoLiveResults
  <1>1. SerialInv => DeletedRunHasNoLiveResults
    BY DEF SerialInv, Serial, DeletedRunHasNoLiveResults
  <1> QED  BY <1>1, SerialInvariant, PTL
=============================================================================
