------------------------------ MODULE TestRuns ------------------------------
(***************************************************************************)
(* One test run and the API requests that change it                        *)
(* (app/services/test_run_service.py, called from app/api/v1/test_runs.py  *)
(* and, for the first result, from test_result_service.py).  A "result"    *)
(* request is what submit does to the run; the result row itself is in     *)
(* TestResults.                                                            *)
(*                                                                         *)
(* A request is a transaction of get_db (app/database.py): it reads the    *)
(* run, writes, publishes to Centrifugo and commits when the handler is    *)
(* done.  PostgreSQL runs it at READ COMMITTED: a statement sees what was  *)
(* committed when it started, an UPDATE waits for the row's lock, and the  *)
(* lock is held until the commit.  The ORM writes only the columns that    *)
(* differ from what the session read, and never checks the row again.      *)
(***************************************************************************)
EXTENDS Naturals, FiniteSets

CONSTANTS
  Requests,      \* request slots: how many requests are in flight at once
  Cases,         \* the test cases of the run's project
  Ops,           \* the requests clients may make
  MaxRequests    \* bound: requests in a behaviour

RunStatus == {"planned", "active", "completed", "aborted"}

\* What a client may write for a status: "in_progress" is the old name.
InputStatus == RunStatus \union {"in_progress"}

Request(statuses) ==
  [kind : {"result", "close", "delete", "restore"}]
    \union [kind : {"put"}, status : statuses]
    \union [kind : {"cases"}, ids : SUBSET Cases]
OpType == Request(RunStatus)

ASSUME RunsAssumption ==
  /\ Ops \subseteq Request(InputStatus)
  /\ MaxRequests \in Nat

Run == [status : RunStatus, stamped : BOOLEAN, live : BOOLEAN,
        mode : {"auto", "explicit"}]

VARIABLES
  run,           \* the test_runs row; stamped: completed_at is set
  picked,        \* the run's rows of test_run_test_cases
  news,          \* the last test_run_status a subscriber received
  audited,       \* the newest status in the run's audit log
  activations,   \* audit log entries "status: active"
  pc,            \* request: "idle" | "read" | "deleting" | "written"
  op,            \* request: what it asks for
  seen,          \* request: the run row its session read
  hit,           \* request: the guarded UPDATE matched the row
  doomed,        \* request: the junction rows its DELETE saw
  begun,         \* requests so far
  byHand,        \* history: a client asked for a status by PUT
  torn           \* history: a transaction failed after it published

runVars == <<run, picked, audited, activations>>
reqVars == <<pc, op, seen, hit, doomed>>
history == <<byHand, torn>>
vars == <<run, picked, news, audited, activations, pc, op, seen, hit, doomed,
          begun, byHand, torn>>

Init ==
  /\ \E mode \in {"auto", "explicit"} :
       /\ run = [status |-> "planned", stamped |-> FALSE, live |-> TRUE,
                 mode |-> mode]
       /\ picked \in IF mode = "auto" THEN {{}} ELSE SUBSET Cases
  /\ news = "planned"
  /\ audited = "planned"
  /\ activations = 0
  /\ pc = [q \in Requests |-> "idle"]
  /\ op = [q \in Requests |-> [kind |-> "close"]]
  /\ seen = [q \in Requests |-> run]
  /\ hit = [q \in Requests |-> FALSE]
  /\ doomed = [q \in Requests |-> {}]
  /\ begun = 0
  /\ byHand = FALSE
  /\ torn = FALSE

-----------------------------------------------------------------------------
(* The ORM writes the run row only where the session's value changed.      *)
WritesRun(q) ==
  /\ op[q].kind = "result" => hit[q]
  /\ op[q].kind = "put" => op[q].status # seen[q].status
  /\ op[q].kind = "cases" => seen[q].mode # "explicit"

\* The run row is locked by the request that wrote it until it ends.
Locks(q) == pc[q] = "written" /\ WritesRun(q)
RunLocked == \E q \in Requests : Locks(q)

(* The run row after the request's UPDATE.                                 *)
Written(q) ==
  [status  |-> IF op[q].kind = "result" THEN "active"
               ELSE IF op[q].kind = "close" THEN "completed"
               ELSE IF op[q].kind = "put" THEN op[q].status ELSE run.status,
   stamped |-> run.stamped \/ op[q].kind = "close",
   live    |-> (run.live \/ op[q].kind = "restore") /\ op[q].kind # "delete",
   mode    |-> IF op[q].kind = "cases" THEN "explicit" ELSE run.mode]

\* The junction rows other requests deleted or inserted and did not commit.
Deleting(q) == {c \in Cases : \E r \in Requests \ {q} :
                  pc[r] = "written" /\ op[r].kind = "cases" /\ c \in doomed[r]}
Inserting(q) == {c \in Cases : \E r \in Requests \ {q} :
                   pc[r] = "written" /\ op[r].kind = "cases" /\ c \in op[r].ids}

-----------------------------------------------------------------------------
(* The handler's first SELECT and the early returns that follow it: 404 on *)
(* a deleted run, close_run on a completed one, 400 on restoring a live    *)
(* one, 409 on editing the cases of a completed one.                       *)
Admits(o) ==
  /\ run.live <=> o.kind # "restore"
  /\ o.kind \in {"close", "cases"} => run.status # "completed"

Normalised(status) == IF status = "in_progress" THEN "active" ELSE status

(* The schema's validator has renamed the status before the handler runs.  *)
Validated(o) ==
  IF o.kind = "put" THEN [o EXCEPT !.status = Normalised(@)] ELSE o

Begin(q, o) ==
  /\ pc[q] = "idle"
  /\ begun < MaxRequests
  /\ Admits(o)
  /\ pc' = [pc EXCEPT ![q] = "read"]
  /\ op' = [op EXCEPT ![q] = Validated(o)]
  /\ seen' = [seen EXCEPT ![q] = run]
  /\ begun' = begun + 1
  /\ byHand' = (byHand \/ o.kind = "put")
  /\ UNCHANGED <<runVars, news, hit, doomed, torn>>

\* Bug: transition_to_active checks the run it read instead of the row.
PlannedWhenRead(q) == seen[q].status = "planned"

\* The WHERE of transition_to_active: the row as it is, not as it was read.
Plannable(q) == run.status = "planned" /\ run.live

(* transition_to_active: UPDATE ... WHERE status = 'planned' AND not       *)
(* deleted.  It waits only for a row that matches; when none does, nothing *)
(* is written and nothing is published.                                    *)
Activate(q) ==
  /\ pc[q] = "read" /\ op[q].kind = "result"
  /\ Plannable(q) => ~ RunLocked
  /\ hit' = [hit EXCEPT ![q] = Plannable(q)]
  /\ news' = IF Plannable(q) THEN "active" ELSE news
  /\ pc' = [pc EXCEPT ![q] = "written"]
  /\ UNCHANGED <<runVars, op, seen, doomed, begun, history>>

\* Bug: close_run publishes what it read.
CloseNewsStale(q) == seen[q].status

CloseNews(q) == "completed"

(* close_run: flush (status and completed_at), then publish.               *)
Close(q) ==
  /\ pc[q] = "read" /\ op[q].kind = "close"
  /\ ~ RunLocked
  /\ news' = CloseNews(q)
  /\ pc' = [pc EXCEPT ![q] = "written"]
  /\ UNCHANGED <<runVars, op, seen, hit, doomed, begun, history>>

(* update_run: flush, refresh the row, publish if its status is not the    *)
(* one that was read.  Without a change of its own nothing is locked, and  *)
(* the refresh brings in what another request committed.                   *)
Put(q) ==
  /\ pc[q] = "read" /\ op[q].kind = "put"
  /\ LET mine == op[q].status # seen[q].status
         refreshed == IF mine THEN op[q].status ELSE run.status
     IN  /\ mine => ~ RunLocked
         /\ news' = IF refreshed # seen[q].status THEN refreshed ELSE news
  /\ pc' = [pc EXCEPT ![q] = "written"]
  /\ UNCHANGED <<runVars, op, seen, hit, doomed, begun, history>>

(* delete_run and restore_run: the row's deleted_at.                       *)
SetDeleted(q) ==
  /\ pc[q] = "read" /\ op[q].kind \in {"delete", "restore"}
  /\ ~ RunLocked
  /\ pc' = [pc EXCEPT ![q] = "written"]
  /\ UNCHANGED <<runVars, news, op, seen, hit, doomed, begun, history>>

(* set_run_cases issues its DELETE, which sees the committed junction rows.*)
IssueDelete(q) ==
  /\ pc[q] = "read" /\ op[q].kind = "cases"
  /\ pc' = [pc EXCEPT ![q] = "deleting"]
  /\ doomed' = [doomed EXCEPT ![q] = picked]
  /\ UNCHANGED <<runVars, news, op, seen, hit, begun, history>>

(* The DELETE has its locks, the INSERT follows, then the flush of         *)
(* cases_mode.                                                             *)
Replace(q) ==
  /\ pc[q] = "deleting"
  /\ doomed[q] \intersect Deleting(q) = {}
  /\ op[q].ids \intersect Inserting(q) = {}
  /\ op[q].ids \intersect (picked \ doomed[q]) = {}
  /\ WritesRun(q) => ~ RunLocked
  /\ pc' = [pc EXCEPT ![q] = "written"]
  /\ doomed' = [doomed EXCEPT ![q] = @ \intersect picked]
  /\ UNCHANGED <<runVars, news, op, seen, hit, begun, history>>

(* The INSERT meets a row another request committed after the DELETE:      *)
(* IntegrityError, the request is rolled back.                             *)
ReplaceConflict(q) ==
  /\ pc[q] = "deleting"
  /\ doomed[q] \intersect Deleting(q) = {}
  /\ op[q].ids \intersect (picked \ doomed[q]) # {}
  /\ pc' = [pc EXCEPT ![q] = "idle"]
  /\ UNCHANGED <<runVars, news, op, seen, hit, doomed, begun, history>>

(* get_db commits: the row, the junction rows and the audit entry.         *)
Commit(q) ==
  /\ pc[q] = "written"
  /\ run' = IF WritesRun(q) THEN Written(q) ELSE run
  /\ picked' = IF op[q].kind = "cases" THEN (picked \ doomed[q]) \union op[q].ids
                                       ELSE picked
  /\ audited' = IF op[q].kind = "close" THEN "completed"
                ELSE IF op[q].kind = "result" /\ hit[q] THEN "active" ELSE audited
  /\ activations' = IF op[q].kind = "result" /\ hit[q] THEN activations + 1
                                                       ELSE activations
  /\ pc' = [pc EXCEPT ![q] = "idle"]
  /\ UNCHANGED <<news, op, seen, hit, doomed, begun, history>>

(* The handler or the commit raises: get_db rolls back; what was published *)
(* stays published.                                                        *)
Abort(q) ==
  /\ pc[q] # "idle"
  /\ pc' = [pc EXCEPT ![q] = "idle"]
  /\ torn' = (torn \/ pc[q] = "written")
  /\ UNCHANGED <<runVars, news, op, seen, hit, doomed, begun, byHand>>

Next ==
  \E q \in Requests :
    \/ \E o \in Ops : Begin(q, o)
    \/ Activate(q) \/ Close(q) \/ Put(q) \/ SetDeleted(q)
    \/ IssueDelete(q) \/ Replace(q) \/ ReplaceConflict(q)
    \/ Commit(q) \/ Abort(q)

Spec == Init /\ [][Next]_vars

-----------------------------------------------------------------------------
(* Types of all variables.                                                 *)
TypeOK ==
  /\ run \in Run
  /\ picked \in SUBSET Cases
  /\ news \in RunStatus
  /\ audited \in RunStatus
  /\ activations \in Nat
  /\ pc \in [Requests -> {"idle", "read", "deleting", "written"}]
  /\ op \in [Requests -> OpType]
  /\ seen \in [Requests -> Run]
  /\ hit \in [Requests -> BOOLEAN]
  /\ doomed \in [Requests -> SUBSET Cases]
  /\ begun \in Nat
  /\ byHand \in BOOLEAN /\ torn \in BOOLEAN

(* A result write starts a planned run and does nothing else: it never     *)
(* reopens a run that another request closed or aborted meanwhile, and     *)
(* never touches a deleted one (transition_to_active is one guarded UPDATE *)
(* instead of a check and a write).                                        *)
ResultOnlyActivates ==
  [][\A q \in Requests :
       pc[q] = "written" /\ pc'[q] = "idle" /\ op[q].kind = "result"
         => \/ UNCHANGED run
            \/ run.status = "planned" /\ run.live /\ run'.status = "active"]_vars

(* Unless a client sets the status by hand, the audit log tells the run's  *)
(* status, and the run is activated at most once, whichever results and    *)
(* closes race and whichever of them fail.                                 *)
AuditTellsStatus ==
  ~ byHand => /\ audited = run.status
              /\ activations <= 1
              /\ run.status = "planned" => activations = 0

(* Subscribers end up with the run's status: once nothing is in flight,    *)
(* the last event published is what was committed.  Events are published   *)
(* before the commit, so this rests on the row lock taken by the flush,    *)
(* and it is lost for good when a transaction fails after it published.    *)
NewsTellsStatus ==
  ~ byHand /\ ~ torn /\ ~ RunLocked => news = run.status
=============================================================================
