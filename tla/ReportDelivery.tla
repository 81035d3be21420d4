--------------------------- MODULE ReportDelivery ---------------------------
(***************************************************************************)
(* What a pipeline may rely on when it uploads a test report, without      *)
(* requests, handlers, retries or lost answers.  Every effect of an upload *)
(* is one atomic step, taken once at most and in the order of its script.  *)
(* The exit code is told once.  After 0 or 2 the upload has no effect any  *)
(* more; after 1 it may still have those that it had not got to.           *)
(***************************************************************************)
EXTENDS Integers

CONSTANTS
  Jobs, Runs, Cases,
  RunFor,        \* the run of a job
  Says,          \* the statuses a job's report has
  Files,         \* the files a job may attach
  Creates, Strict, Closes   \* jobs with these options

VARIABLES
  made,          \* runs created, per job
  rows,          \* results of each run, "none" where there is none
  stored,        \* jobs whose report was imported
  missing,       \* entries of a job's report that the import left out
  attached,      \* attachments, per job and file
  closed,        \* runs that are completed
  told           \* exit code of a job, -1 while there is none

effects == <<made, rows, stored, missing, attached, closed>>

Init ==
  /\ made = [j \in Jobs |-> 0]
  /\ rows = [r \in Runs |-> [c \in Cases |-> "none"]]
  /\ stored = {} /\ missing = [j \in Jobs |-> 0]
  /\ attached = [j \in Jobs |-> [f \in Files[j] |-> 0]]
  /\ closed = {} /\ told = [j \in Jobs |-> -1]

\* A job that was not said to have ended well or incomplete.
AtWork(j) == told[j] \in {-1, 1}

Complete(j) == j \in Strict => missing[j] = 0

Create(j) ==
  /\ AtWork(j) /\ j \in Creates /\ made[j] = 0
  /\ made' = [made EXCEPT ![j] = 1]
  /\ UNCHANGED <<rows, stored, missing, attached, closed, told>>

(* The whole report at once, into the job's run and no other; no result    *)
(* goes away, and each that changes is one of the report.                  *)
Store(j) ==
  /\ AtWork(j) /\ j \notin stored
  /\ j \in Creates => made[j] = 1
  /\ stored' = stored \union {j}
  /\ rows' \in [Runs -> [Cases -> {"none"} \union UNION {Says[k] : k \in Jobs}]]
  /\ \A r \in Runs, c \in Cases : rows'[r][c] # rows[r][c] =>
       r = RunFor[j] /\ rows'[r][c] \in Says[j]
  /\ missing' \in [Jobs -> Nat]
  /\ \A k \in Jobs \ {j} : missing'[k] = missing[k]
  /\ UNCHANGED <<made, attached, closed, told>>

Attach(j, f) ==
  /\ AtWork(j) /\ j \in stored /\ attached[j][f] = 0
  /\ attached' = [attached EXCEPT ![j][f] = 1]
  /\ UNCHANGED <<made, rows, stored, missing, closed, told>>

Close(j) ==
  /\ AtWork(j) /\ j \in stored \intersect Closes /\ Complete(j)
  /\ closed' = closed \union {RunFor[j]}
  /\ UNCHANGED <<made, rows, stored, missing, attached, told>>

Tell(j, code) ==
  /\ told[j] = -1
  /\ told' = [told EXCEPT ![j] = code]
  /\ UNCHANGED effects

Succeed(j) ==
  /\ j \in stored /\ Complete(j)
  /\ j \in Closes => RunFor[j] \in closed
  /\ Tell(j, 0)

Incomplete(j) == j \in stored /\ ~ Complete(j) /\ Tell(j, 2)

Fail(j) == Tell(j, 1)

Next ==
  \E j \in Jobs :
    \/ Create(j) \/ Store(j) \/ (\E f \in Files[j] : Attach(j, f)) \/ Close(j)
    \/ Succeed(j) \/ Incomplete(j) \/ Fail(j)

Spec == Init /\ [][Next]_<<effects, told>>
=============================================================================
