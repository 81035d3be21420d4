---------------------------- MODULE TestResults ----------------------------
(***************************************************************************)
(* The results of one run and their history                                *)
(* (app/services/test_result_service.py, with import_junit_xml of          *)
(* ci_service.py, which submits many times in one transaction, and         *)
(* delete_run and restore_run of test_run_service.py).                     *)
(*                                                                         *)
(* A request is a transaction at READ COMMITTED.  Its session keeps the    *)
(* row it read first; a flush updates the columns in which the session's   *)
(* row changed, by primary key, and holds the row's lock until the commit. *)
(* There is one row for a case, deleted or not: the unique constraint on   *)
(* (test_run_id, test_case_id) does not look at deleted_at.                *)
(*                                                                         *)
(* The run is past its first result: the transition to active is TestRuns. *)
(* Its cases are live, and a result is its status and its comment.         *)
(***************************************************************************)
EXTENDS Naturals, Sequences, FiniteSets

CONSTANTS
  Requests,      \* request slots: how many requests are in flight at once
  Cases,         \* test cases of the run
  Comments,      \* comments testers write
  Ops,           \* the requests clients may make
  MaxRequests    \* bound: requests in a behaviour

Status == {"passed", "failed", "blocked", "no_run"}
Columns == {"status", "comment"}

\* An absent row has no status; a request may leave a column as it is.
Row  == [status : Status \union {"absent"}, comment : Comments, live : BOOLEAN]
Item == [case : Cases, status : Status \union {"skipped", "keep"},
         comment : Comments \union {"keep"}]
Kind == {"submit", "ci", "import", "update", "delete", "restore"}
Op   == [kind : Kind, items : Seq(Item)]

ASSUME ResultsAssumption ==
  /\ "none" \in Comments
  /\ Ops \subseteq Op
  /\ \A o \in Ops : o.kind \notin {"delete", "restore"} => o.items # <<>>
  /\ \A o \in Ops : o.kind \in {"submit", "update"} => Len(o.items) = 1
  /\ \A o \in Ops : o.kind # "update" =>
       \A i \in DOMAIN o.items : o.items[i].status # "keep"
                                 /\ o.items[i].comment # "keep"
  /\ MaxRequests \in Nat

NoRow == [status |-> "absent", comment |-> "none", live |-> FALSE]
NoRows == [c \in Cases |-> NoRow]

VARIABLES
  runLive,       \* the test_runs row is not soft-deleted
  row,           \* committed test_results rows, by case
  history,       \* committed result_history entries, by case
  pc,            \* request: "idle" | "checked" | "writing" | "recheck"
                 \*          | "sweeping" | "written"
  op,            \* request: what it asks for
  at,            \* request: when its transaction began, which is now() in it
  next,          \* request: the item it is at
  mine,          \* request: the session's rows
  dirty,         \* request: the columns its UPDATEs and INSERTs wrote
  held,          \* request: the rows whose locks it holds
  entries,       \* request: history entries it added
  rejected,      \* request: how its last transaction ended, if not committed
  begun,         \* transactions so far: the clock
  overlapped     \* history: two transactions were open at once

data == <<runLive, row, history>>
clock == <<begun, overlapped>>
vars == <<runLive, row, history, pc, op, at, next, mine, dirty, held, entries,
          rejected, begun, overlapped>>

Init ==
  /\ runLive = TRUE
  /\ row = NoRows
  /\ history = [c \in Cases |-> {}]
  /\ pc = [q \in Requests |-> "idle"]
  /\ op = [q \in Requests |-> [kind |-> "restore", items |-> <<>>]]
  /\ at = [q \in Requests |-> 0]
  /\ next = [q \in Requests |-> 1]
  /\ mine = [q \in Requests |-> NoRows]
  /\ dirty = [q \in Requests |-> {}]
  /\ held = [q \in Requests |-> {}]
  /\ entries = [q \in Requests |-> {}]
  /\ rejected = [q \in Requests |-> "no"]
  /\ begun = 0
  /\ overlapped = FALSE

-----------------------------------------------------------------------------
Current(q) == op[q].items[next[q]]
Targets(q) == {op[q].items[i].case : i \in DOMAIN op[q].items}

HeldByOthers(q) == UNION {held[r] : r \in Requests \ {q}}
RunHeldByOthers(q) ==
  \E r \in Requests \ {q} : /\ pc[r] \in {"sweeping", "written"}
                            /\ op[r].kind \in {"delete", "restore"}

(* What a session without the row of c finds: only live rows.              *)
Found(c) == IF row[c].live THEN row[c] ELSE NoRow
AllFound == [c \in Cases |-> Found(c)]

\* Bug: a failed handler's transaction is not rolled back, its locks stay.
ReleasedNot(q) == held

Released(q) == [held EXCEPT ![q] = {}]

(* The end of a transaction: get_db commits or rolls back, locks go.       *)
End(q, how) ==
  /\ pc' = [pc EXCEPT ![q] = "idle"]
  /\ next' = [next EXCEPT ![q] = 1]
  /\ mine' = [mine EXCEPT ![q] = NoRows]
  /\ dirty' = [dirty EXCEPT ![q] = {}]
  /\ held' = Released(q)
  /\ entries' = [entries EXCEPT ![q] = {}]
  /\ rejected' = [rejected EXCEPT ![q] = how]
  /\ UNCHANGED <<op, at, clock>>

Reject(q, how) == End(q, how) /\ UNCHANGED data

-----------------------------------------------------------------------------
(* The first SELECT and its 404 or 400: update_result loads the result     *)
(* (and never looks at the run), every other request loads the run.        *)
LoadedBy(o) ==
  [c \in Cases |-> IF o.kind = "update" /\ c = o.items[1].case THEN row[c]
                                                              ELSE NoRow]

Begin(q, o) ==
  /\ pc[q] = "idle"
  /\ begun < MaxRequests
  /\ o.kind = "update" => row[o.items[1].case].live
  /\ o.kind # "update" => (runLive <=> o.kind # "restore")
  /\ mine' = [mine EXCEPT ![q] = LoadedBy(o)]
  /\ pc' = [pc EXCEPT ![q] = IF o.kind = "update" THEN "writing" ELSE "checked"]
  /\ op' = [op EXCEPT ![q] = o]
  /\ begun' = begun + 1
  /\ at' = [at EXCEPT ![q] = begun + 1]
  /\ rejected' = [rejected EXCEPT ![q] = "no"]
  /\ overlapped' = (overlapped \/ \E r \in Requests \ {q} : pc[r] # "idle")
  /\ UNCHANGED <<data, next, dirty, held, entries>>

(* submit reads the row of its case, submit_many those of all its cases.   *)
(* A row the session has is not read over.                                 *)
Wanted(q) == IF op[q].kind = "import" THEN Targets(q) ELSE {Current(q).case}
Loaded(q) == [c \in Cases |-> IF c \in Wanted(q) /\ ~ mine[q][c].live
                              THEN Found(c) ELSE mine[q][c]]

Read(q) ==
  /\ pc[q] = "checked" /\ op[q].kind \in {"submit", "ci", "import"}
  /\ mine' = [mine EXCEPT ![q] = Loaded(q)]
  /\ pc' = [pc EXCEPT ![q] = "writing"]
  /\ UNCHANGED <<data, op, at, next, dirty, held, entries, rejected, clock>>

_normalise_status(s) == IF s = "skipped" THEN "no_run" ELSE s

(* The session's row with the item's values set.                           *)
Assigned(old, item) ==
  [status  |-> IF item.status = "keep" THEN old.status
                                       ELSE _normalise_status(item.status),
   comment |-> IF item.comment = "keep" THEN old.comment ELSE item.comment,
   live    |-> TRUE]

Changed(old, new) == {k \in Columns : old[k] # new[k]}

\* Bug: a changed comment alone is not recorded.
RecordStatusOnly(old, new) == old.status # new.status

\* An absent row has no status, so a created one always differs.
_should_record_history(old, new) ==
  old.status # new.status \/ old.comment # new.comment

(* The flush of the current item: INSERT if the session has no row, else   *)
(* UPDATE; then the history entry.                                         *)
Old(q) == mine[q][Current(q).case]
New(q) == Assigned(Old(q), Current(q))

FlushedColumns(q) ==
  {Current(q).case} \X (IF Old(q) = NoRow THEN Columns ELSE Changed(Old(q), New(q)))

NewEntries(q) ==
  IF _should_record_history(Old(q), New(q))
  THEN {[case |-> Current(q).case, status |-> New(q).status,
         comment |-> New(q).comment]}
  ELSE {}

Flush(q) ==
  /\ mine' = [mine EXCEPT ![q][Current(q).case] = New(q)]
  /\ dirty' = [dirty EXCEPT ![q] = @ \union FlushedColumns(q)]
  /\ held' = [held EXCEPT ![q] = @ \union {Current(q).case}]
  /\ entries' = [entries EXCEPT ![q] = @ \union NewEntries(q)]

\* A flush waits for a transaction that has the row; an INSERT needs that
\* there is none.
Accepts(q) ==
  /\ Current(q).case \notin HeldByOthers(q)
  /\ Old(q) = NoRow => row[Current(q).case] = NoRow

\* After its flush, every request but an import loads the result again: a
\* row that was deleted meanwhile is not found.
StillThere(q) ==
  \/ op[q].kind = "import"
  \/ Old(q) = NoRow
  \/ Current(q).case \in held[q]
  \/ row[Current(q).case].live

Last(q) == next[q] = Len(op[q].items)

Write(q) ==
  /\ pc[q] = "writing"
  /\ Accepts(q) /\ StillThere(q)
  /\ Flush(q)
  /\ pc' = [pc EXCEPT ![q] = IF op[q].kind \in {"submit", "ci"} THEN "recheck"
                             ELSE IF Last(q) THEN "written" ELSE "writing"]
  /\ next' = [next EXCEPT ![q] =
                IF op[q].kind = "import" /\ ~ Last(q) THEN @ + 1 ELSE @]
  /\ UNCHANGED <<data, op, at, rejected, clock>>

(* The row of an INSERT exists: IntegrityError on uq_result_run_case.      *)
Conflict(q) ==
  /\ pc[q] = "writing"
  /\ Current(q).case \notin HeldByOthers(q)
  /\ Old(q) = NoRow /\ row[Current(q).case] # NoRow
  /\ Reject(q, "integrity")

(* The row of an UPDATE was deleted: 404 from get_result.                  *)
Gone(q) ==
  /\ pc[q] = "writing"
  /\ Accepts(q) /\ ~ StillThere(q)
  /\ Reject(q, "not found")

(* submit loads the run again before it publishes, and an import of the CI *)
(* endpoint goes on with its next test case.                               *)
Recheck(q) ==
  /\ pc[q] = "recheck" /\ runLive
  /\ pc' = [pc EXCEPT ![q] = IF Last(q) THEN "written" ELSE "checked"]
  /\ next' = [next EXCEPT ![q] = IF Last(q) THEN @ ELSE @ + 1]
  /\ UNCHANGED <<data, op, at, mine, dirty, held, entries, rejected, clock>>

\* The run is found deleted: after a flush, or before the next CI test case.
RunGone(q) ==
  /\ pc[q] = "recheck" /\ ~ runLive
  /\ Reject(q, "not found")

(* delete_run flushes the run's deleted_at and issues the UPDATE of its    *)
(* live results: those that are committed when it starts.                  *)
IssueSweep(q) ==
  /\ pc[q] = "checked" /\ op[q].kind = "delete"
  /\ ~ RunHeldByOthers(q)
  /\ pc' = [pc EXCEPT ![q] = "sweeping"]
  /\ mine' = [mine EXCEPT ![q] = AllFound]
  /\ UNCHANGED <<data, op, at, next, dirty, held, entries, rejected, clock>>

\* It waits for the locks of those rows.
Sweep(q) ==
  /\ pc[q] = "sweeping"
  /\ LET doomed == {c \in Cases : mine[q][c].live}
     IN  /\ doomed \intersect HeldByOthers(q) = {}
         /\ held' = [held EXCEPT ![q] = doomed]
  /\ pc' = [pc EXCEPT ![q] = "written"]
  /\ UNCHANGED <<data, op, at, next, mine, dirty, entries, rejected, clock>>

\* restore_run clears the run's deleted_at and nothing else.
Restore(q) ==
  /\ pc[q] = "checked" /\ op[q].kind = "restore"
  /\ ~ RunHeldByOthers(q)
  /\ pc' = [pc EXCEPT ![q] = "written"]
  /\ UNCHANGED <<data, op, at, next, mine, dirty, held, entries, rejected, clock>>

(* The columns that were written replace the row's, the others stay; the   *)
(* row of an INSERT is the session's.                                      *)
Merged(q, c) ==
  IF row[c] = NoRow THEN mine[q][c]
  ELSE [status  |-> IF <<c, "status">> \in dirty[q] THEN mine[q][c].status
                                                    ELSE row[c].status,
        comment |-> IF <<c, "comment">> \in dirty[q] THEN mine[q][c].comment
                                                     ELSE row[c].comment,
        live    |-> row[c].live]

\* Bug: the cascade forgets the results.
SweptNot(q, c) == row[c]

Swept(q, c) ==
  [status |-> row[c].status, comment |-> row[c].comment, live |-> FALSE]

Recorded(q, c) ==
  {[at |-> at[q], status |-> e.status, comment |-> e.comment] :
     e \in {f \in entries[q] : f.case = c}}

Commit(q) ==
  /\ pc[q] = "written"
  /\ runLive' = IF op[q].kind = "delete" THEN FALSE
                ELSE IF op[q].kind = "restore" THEN TRUE ELSE runLive
  /\ row' = [c \in Cases |-> IF c \notin held[q] THEN row[c]
                             ELSE IF op[q].kind = "delete" THEN Swept(q, c)
                             ELSE Merged(q, c)]
  /\ history' = [c \in Cases |-> history[c] \union Recorded(q, c)]
  /\ End(q, "no")

(* Two requests that wait for each other's rows: PostgreSQL ends one.      *)
WaitsFor(q, r) ==
  \/ pc[q] = "writing" /\ Current(q).case \in held[r]
  \/ pc[q] = "sweeping" /\ \E c \in held[r] : mine[q][c].live

DeadlockBroken(q) ==
  /\ \E r \in Requests \ {q} : WaitsFor(q, r) /\ WaitsFor(r, q)
  /\ Reject(q, "deadlock")

Step(q) ==
  \/ Read(q) \/ Write(q) \/ Conflict(q) \/ Gone(q) \/ Recheck(q) \/ RunGone(q)
  \/ IssueSweep(q) \/ Sweep(q) \/ Restore(q) \/ Commit(q) \/ DeadlockBroken(q)

Next == \E q \in Requests : Step(q) \/ \E o \in Ops : Begin(q, o)

Spec == Init /\ [][Next]_vars

(* A handler that can go on does; a waiting one goes on when the lock is   *)
(* released.                                                               *)
FairSpec == Spec /\ \A q \in Requests : WF_vars(Step(q))

-----------------------------------------------------------------------------
(* Types of all variables.                                                 *)
TypeOK ==
  /\ runLive \in BOOLEAN
  /\ row \in [Cases -> Row]
  /\ \A c \in Cases : history[c] \subseteq
       [at : Nat, status : Status, comment : Comments]
  /\ pc \in [Requests -> {"idle", "checked", "writing", "recheck", "sweeping",
                         "written"}]
  /\ op \in [Requests -> Op]
  /\ at \in [Requests -> Nat]
  /\ next \in [Requests -> Nat]
  /\ mine \in [Requests -> [Cases -> Row]]
  /\ dirty \in [Requests -> SUBSET (Cases \X Columns)]
  /\ held \in [Requests -> SUBSET Cases]
  /\ entries \in [Requests -> SUBSET [case : Cases, status : Status,
                                      comment : Comments]]
  /\ rejected \in [Requests -> {"no", "integrity", "not found", "deadlock"}]
  /\ begun \in Nat
  /\ overlapped \in BOOLEAN

(* Whatever transactions overlap, the history names the status and the     *)
(* comment a row has: no value gets into a result without an entry that    *)
(* says who put it there.  (The entry need not be one entry: two updates   *)
(* may each leave one column.)                                             *)
EveryValueRecorded ==
  \A c \in Cases : row[c] # NoRow =>
    /\ \E e \in history[c] : e.status = row[c].status
    /\ \E e \in history[c] : e.comment = row[c].comment

(* The last entries of get_history, which orders by changed_at.            *)
Newest(c) == {e \in history[c] : \A f \in history[c] : f.at <= e.at}

(* Requests one after the other: a last line of the history is what the    *)
(* result says.  A CI report that names a case twice writes two lines with *)
(* the same changed_at, in no order a reader can tell.                     *)
HistoryTellsRow ==
  ~ overlapped => \A c \in Cases : row[c] # NoRow =>
    \E e \in Newest(c) : e.status = row[c].status /\ e.comment = row[c].comment

(* Requests one after the other: no live result is left in a run that was  *)
(* deleted, restored and written to in any order.                          *)
DeletedRunHasNoLiveResults ==
  ~ overlapped /\ ~ runLive => \A c \in Cases : ~ row[c].live

(* Every request ends: rows that two imports lock in opposite orders do    *)
(* not keep both waiting.                                                  *)
EveryRequestEnds == \A q \in Requests : pc[q] # "idle" ~> pc[q] = "idle"
=============================================================================
