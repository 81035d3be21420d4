---------------------------- MODULE EmailOutbox -----------------------------
(***************************************************************************)
(* The durable e-mail outbox: the email_outbox table                       *)
(* (app/models/email_outbox.py), the service that moves its rows           *)
(* (app/services/email_outbox_service.py) and the drain loop every API     *)
(* process runs (app/core/email_worker.py) over one SMTP connection per    *)
(* batch (app/core/email.py).                                              *)
(*                                                                         *)
(* A step is one database transaction or one SMTP exchange of a worker, so *)
(* workers interleave wherever the coroutine awaits.  The row is shared;   *)
(* batch and loaded are the worker's own memory: the ORM objects it claimed*)
(* with expire_on_commit=False, which it never reads again.                *)
(***************************************************************************)
EXTENDS Naturals, FiniteSets

CONSTANTS
  Emails,        \* the rows, numbered in created_at order
  Workers,       \* API processes, each with one drain loop
  BatchSize,     \* EMAIL_OUTBOX_BATCH_SIZE
  MaxAttempts,   \* EMAIL_MAX_ATTEMPTS
  Faults,        \* the failures the environment may inject
  Overlap,       \* may a process start while another one is up?
  MaxStarts      \* bound: process starts in a behaviour

ASSUME OutboxAssumption ==
  /\ Emails \subseteq Nat
  /\ BatchSize \in Nat \ {0}
  /\ MaxAttempts \in Nat \ {0}
  /\ MaxStarts \in Nat
  /\ Overlap \in BOOLEAN
  /\ Faults \subseteq {"halt", "connect", "refuse", "lost_reply", "db"}

VARIABLES
  status,        \* row: status column, "absent" until its INSERT commits
  attempts,      \* row: attempts column
  due,           \* row: next_attempt_at <= now()
  copies,        \* mail server: times it accepted the message
  phase,         \* worker: where its coroutine stands
  batch,         \* worker: claimed rows it has not recorded yet
  loaded,        \* worker: attempts as the claim's SELECT loaded them
  starts,        \* how many processes were started
  contested      \* history: rows a start-up requeued under a live claim

rowVars    == <<status, attempts, due>>
workerVars == <<phase, batch, loaded>>
outboxVars == <<status, attempts, due, copies, phase, batch, loaded, starts, contested>>

Status == {"absent", "pending", "sending", "sent", "failed"}
Phase  == {"down", "polling", "claiming", "connecting", "sending",
           "accepted", "refused"}

\* Phases in which the worker's claim is committed: its rows were `sending'.
Claimed == {"connecting", "sending", "accepted", "refused"}

Holders(e) == {w \in Workers : e \in batch[w]}

\* Bug: the claim's SELECT without FOR UPDATE.
LockedNever(e) == FALSE

\* Rows an uncommitted claim has locked (FOR UPDATE) and others skip.
Locked(e) == \E w \in Holders(e) : phase[w] = "claiming"

Ready == {e \in Emails : status[e] = "pending" /\ due[e] /\ ~ Locked(e)}

\* The batch is worked off in the order it was claimed.
Current(w, e) == e \in batch[w] /\ \A f \in batch[w] : e <= f

OutboxInit ==
  /\ status = [e \in Emails |-> "absent"]
  /\ attempts = [e \in Emails |-> 0]
  /\ due = [e \in Emails |-> TRUE]
  /\ copies = [e \in Emails |-> 0]
  /\ phase = [w \in Workers |-> "down"]
  /\ batch = [w \in Workers |-> {}]
  /\ loaded = [w \in Workers |-> [e \in Emails |-> 0]]
  /\ starts = 0
  /\ contested = {}

-----------------------------------------------------------------------------
(* The transaction that triggers the mail commits, its outbox row with it. *)
Enqueue(e) ==
  /\ status[e] = "absent"
  /\ status' = [status EXCEPT ![e] = "pending"]
  /\ UNCHANGED <<attempts, due, copies, workerVars, starts, contested>>

(* The wall clock reaches next_attempt_at.                                 *)
BackoffElapses(e) ==
  /\ ~ due[e]
  /\ due' = [due EXCEPT ![e] = TRUE]
  /\ UNCHANGED <<status, attempts, copies, workerVars, starts, contested>>

\* Bug: start() without its "task is None" guard.
MayStartTwice(w) == starts < MaxStarts

MayStart(w) ==
  /\ phase[w] = "down"
  /\ starts < MaxStarts
  /\ Overlap \/ \A v \in Workers : phase[v] = "down"

\* Bugs: the requeue is missing, or matches rows it should not.
RequeuedNot == status
RequeuedSent == [e \in Emails |-> IF status[e] \in {"sending", "sent"}
                                    THEN "pending" ELSE status[e]]

(* requeue_orphaned_sending: every `sending' row goes back to `pending',   *)
(* whoever is sending it; attempts and next_attempt_at stay.               *)
Requeued == [e \in Emails |-> IF status[e] = "sending" THEN "pending"
                                                       ELSE status[e]]

(* A process boots; its drain loop first runs the requeue transaction.     *)
Start(w) ==
  /\ MayStart(w)
  /\ phase' = [phase EXCEPT ![w] = "polling"]
  /\ status' = Requeued
  /\ contested' = contested \union
                    {e \in Emails : status[e] = "sending" /\ Holders(e) # {}}
  /\ starts' = starts + 1
  /\ UNCHANGED <<attempts, due, copies, batch, loaded>>

(* The same, but the requeue raises: logged, and the loop starts anyway.   *)
StartUnrecovered(w) ==
  /\ "db" \in Faults
  /\ MayStart(w)
  /\ phase' = [phase EXCEPT ![w] = "polling"]
  /\ starts' = starts + 1
  /\ UNCHANGED <<rowVars, copies, batch, loaded, contested>>

(* Return to the polling loop (or exit), forgetting the rest of the batch. *)
Abandon(w, next) ==
  /\ phase' = [phase EXCEPT ![w] = next]
  /\ batch' = [batch EXCEPT ![w] = {}]
  /\ loaded' = [loaded EXCEPT ![w] = [e \in Emails |-> 0]]

(* The process is killed, or stop() cancels the task at an await: an       *)
(* uncommitted claim rolls back, a committed one stays as it is.  A halt   *)
(* is always followed by another start within the bound.                   *)
Halt(w) ==
  /\ "halt" \in Faults
  /\ phase[w] # "down"
  /\ starts < MaxStarts
  /\ Abandon(w, "down")
  /\ UNCHANGED <<rowVars, copies, starts, contested>>

-----------------------------------------------------------------------------
(* claim_batch, up to its flush: the first BatchSize ready rows, locked.   *)
ClaimBatch(w) ==
  /\ phase[w] = "polling"
  /\ \E b \in SUBSET Ready :
       /\ b # {}
       /\ \A e \in b, f \in Ready \ b : e < f
       /\ Cardinality(b) <= BatchSize
       /\ b # Ready => Cardinality(b) = BatchSize
       /\ batch' = [batch EXCEPT ![w] = b]
       /\ loaded' = [loaded EXCEPT ![w] =
                       [e \in Emails |-> IF e \in b THEN attempts[e] ELSE 0]]
  /\ phase' = [phase EXCEPT ![w] = "claiming"]
  /\ UNCHANGED <<rowVars, copies, starts, contested>>

\* Bug: the claim is committed without the new status.
FlippedNot(w) == status

\* The rows of the claim, flipped to `sending'.
Flipped(w) == [e \in Emails |-> IF e \in batch[w] THEN "sending" ELSE status[e]]

(* db.commit() of the claim.                                               *)
CommitClaim(w) ==
  /\ phase[w] = "claiming"
  /\ phase' = [phase EXCEPT ![w] = "connecting"]
  /\ status' = Flipped(w)
  /\ UNCHANGED <<attempts, due, copies, batch, loaded, starts, contested>>

(* The commit raises: the claim is rolled back.                            *)
ClaimFails(w) ==
  /\ "db" \in Faults
  /\ phase[w] = "claiming"
  /\ Abandon(w, "polling")
  /\ UNCHANGED <<rowVars, copies, starts, contested>>

(* EmailSender.__aenter__: connect and login.                              *)
Connect(w) ==
  /\ phase[w] = "connecting"
  /\ phase' = [phase EXCEPT ![w] = "sending"]
  /\ UNCHANGED <<rowVars, copies, batch, loaded, starts, contested>>

(* connect or login raises outside the per-row try: the iteration ends and *)
(* nothing is recorded for the claimed rows.                               *)
ConnectFails(w) ==
  /\ "connect" \in Faults
  /\ phase[w] = "connecting"
  /\ Abandon(w, "polling")
  /\ UNCHANGED <<rowVars, copies, starts, contested>>

(* sender.send returns: the server has taken the message.                  *)
Send(w) ==
  /\ phase[w] = "sending"
  /\ \E e \in Emails :
       /\ Current(w, e)
       /\ copies' = [copies EXCEPT ![e] = @ + 1]
  /\ phase' = [phase EXCEPT ![w] = "accepted"]
  /\ UNCHANGED <<rowVars, batch, loaded, starts, contested>>

(* sender.send (or the template) raises; with "lost_reply" the server took *)
(* the message and the answer timed out.                                   *)
SendFails(w) ==
  /\ phase[w] = "sending"
  /\ \/ "refuse" \in Faults /\ UNCHANGED copies
     \/ /\ "lost_reply" \in Faults
        /\ \E e \in Emails :
             /\ Current(w, e)
             /\ copies' = [copies EXCEPT ![e] = @ + 1]
  /\ phase' = [phase EXCEPT ![w] = "refused"]
  /\ UNCHANGED <<rowVars, batch, loaded, starts, contested>>

(* The row's outcome is committed and the loop moves to the next row.      *)
Advance(w, e) ==
  /\ batch' = [batch EXCEPT ![w] = @ \ {e}]
  /\ loaded' = [loaded EXCEPT ![w][e] = 0]
  /\ phase' = [phase EXCEPT ![w] =
                 IF batch[w] = {e} THEN "polling" ELSE "sending"]

(* mark_sent and its commit: the UPDATE names the row by id, not by status,*)
(* and waits while another worker's uncommitted claim holds its lock.      *)
MarkSent(w, e) ==
  /\ phase[w] = "accepted"
  /\ Current(w, e) /\ ~ Locked(e)
  /\ status' = [status EXCEPT ![e] = "sent"]
  /\ Advance(w, e)
  /\ UNCHANGED <<attempts, due, copies, starts, contested>>

\* Bug: the failed attempt is not counted.
CountedNot(w, e) == loaded[w][e]

\* row.attempts += 1, on the value the claim loaded.
Counted(w, e) == loaded[w][e] + 1

\* Bug: one retry too many.
NoRetryLeftLate(n) == n > MaxAttempts

NoRetryLeft(n) == n >= MaxAttempts

(* mark_failed and its commit: give up, or retry after the backoff.        *)
MarkFailed(w, e) ==
  /\ phase[w] = "refused"
  /\ Current(w, e) /\ ~ Locked(e)
  /\ attempts' = [attempts EXCEPT ![e] = Counted(w, e)]
  /\ IF NoRetryLeft(Counted(w, e))
       THEN /\ status' = [status EXCEPT ![e] = "failed"]
            /\ UNCHANGED due
       ELSE /\ status' = [status EXCEPT ![e] = "pending"]
            /\ due' = [due EXCEPT ![e] = FALSE]
  /\ Advance(w, e)
  /\ UNCHANGED <<copies, starts, contested>>

(* The outcome's flush or commit raises: the iteration ends there.         *)
RecordFails(w) ==
  /\ "db" \in Faults
  /\ phase[w] \in {"accepted", "refused"}
  /\ Abandon(w, "polling")
  /\ UNCHANGED <<rowVars, copies, starts, contested>>

-----------------------------------------------------------------------------
(* One iteration of _drain_once, step by step.                             *)
Drain(w) ==
  \/ ClaimBatch(w) \/ CommitClaim(w) \/ ClaimFails(w)
  \/ Connect(w) \/ ConnectFails(w)
  \/ Send(w) \/ SendFails(w)
  \/ \E e \in Emails : MarkSent(w, e) \/ MarkFailed(w, e)
  \/ RecordFails(w)

OutboxNext ==
  \/ \E e \in Emails : Enqueue(e) \/ BackoffElapses(e)
  \/ \E w \in Workers : Start(w) \/ StartUnrecovered(w) \/ Halt(w) \/ Drain(w)

OutboxSpec == OutboxInit /\ [][OutboxNext]_outboxVars

(* The event loop keeps running a live task, the clock advances, and the   *)
(* container is restarted (restart: unless-stopped in docker-compose).     *)
Fairness ==
  /\ \A e \in Emails : WF_outboxVars(BackoffElapses(e))
  /\ \A w \in Workers : WF_outboxVars(Drain(w)) /\ WF_outboxVars(Start(w))

FairSpec == OutboxSpec /\ Fairness

-----------------------------------------------------------------------------
(* Types of all variables.                                                 *)
OutboxTypeOK ==
  /\ status \in [Emails -> Status]
  /\ attempts \in [Emails -> Nat]
  /\ due \in [Emails -> BOOLEAN]
  /\ copies \in [Emails -> Nat]
  /\ phase \in [Workers -> Phase]
  /\ batch \in [Workers -> SUBSET Emails]
  /\ loaded \in [Workers -> [Emails -> Nat]]
  /\ starts \in Nat
  /\ contested \in SUBSET Emails

(* Two workers never work on the same row, unless a third process's        *)
(* start-up requeue took the row from under one of them: SKIP LOCKED and   *)
(* the committed `sending' state make claims exclusive.                    *)
ClaimsExclusive ==
  \A e \in Emails \ contested : \A v, w \in Holders(e) : v = w

(* A worker writes outcomes from memory, without re-reading the row.  That *)
(* is right because, until a requeue contests it, the row a worker holds   *)
(* is still in the state in which it claimed it.                           *)
ClaimIsCurrent ==
  \A e \in Emails \ contested : \A w \in Holders(e) :
    /\ status[e] = IF phase[w] \in Claimed THEN "sending" ELSE "pending"
    /\ loaded[w][e] = attempts[e]

(* Retries end: a row still to be sent has attempts left, and a row is     *)
(* given up only when all of them were used, whatever workers overlapped.  *)
RetriesExhausted ==
  \A e \in Emails :
    /\ status[e] \in {"pending", "sending"} => attempts[e] < MaxAttempts
    /\ status[e] = "failed" => attempts[e] = MaxAttempts

(* A recipient gets one copy, plus one for every attempt that was recorded *)
(* as failed and one for every restart: delivery is at least once, and     *)
(* only those two events repeat it.                                        *)
CopiesBounded ==
  \A e \in Emails \ contested : copies[e] <= 1 + attempts[e] + starts

(* Without overlapping processes no row is ever contested.                 *)
RequeueIsSafeAlone == ~ Overlap => contested = {}

(* What a row says about its message: it is owed while it can still be     *)
(* claimed or is being sent.                                               *)
Owed(s) == IF s = "absent" THEN "none"
           ELSE IF s \in {"pending", "sending"} THEN "owed" ELSE s

Delivery == INSTANCE MailDelivery WITH owed <- [e \in Emails |-> Owed(status[e])]

(* The outbox of one process at a time implements the abstract promise: a  *)
(* settled message is never sent again, and "sent" is only said of one the *)
(* mail server accepted (mark_sent, mark_failed, requeue_orphaned_sending).*)
DeliverySpec == Delivery!Spec

(* Every queued message is settled, however its sends fail and its process *)
(* is restarted, as long as connecting and the database work.              *)
EveryMailSettles ==
  \A e \in Emails : status[e] = "pending" ~> status[e] \in {"sent", "failed"}
=============================================================================
