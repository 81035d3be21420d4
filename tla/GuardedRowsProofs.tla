-------------------------- MODULE GuardedRowsProofs --------------------------
(***************************************************************************)
(* What is promised of the two kinds of rows that concurrent writers take  *)
(* with a guard: the mails that workers claim (EmailOutbox), for any rows, *)
(* workers and faults, and the run that requests activate and close        *)
(* (TestRuns), for any requests, cases and operations.  The two have no    *)
(* state in common and are proved one after the other.                     *)
(***************************************************************************)
EXTENDS EmailOutbox, TestRuns, TLAPS

-----------------------------------------------------------------------------
(* The inductive invariant.  Claims are exclusive and current only because *)
(* of what is true between the steps of a claim, so the invariant follows  *)
(* a row through them.                                                     *)

(* A worker that is between batches holds nothing.                         *)
IdleHoldsNothing ==
  \A w \in Workers : phase[w] \in {"down", "polling"} => batch[w] = {}

(* Nobody touches a row before it is committed.                            *)
AbsentIsUntouched ==
  \A e \in Emails :
    status[e] = "absent" => attempts[e] = 0 /\ copies[e] = 0 /\ Holders(e) = {}

(* The lock of an uncommitted claim keeps its row as it was read, even     *)
(* when a worker with a stale claim wants to record an outcome; and only   *)
(* one worker has it.                                                      *)
LockedIsPending ==
  \A w \in Workers : \A e \in batch[w] :
    phase[w] = "claiming" =>
      /\ status[e] = "pending"
      /\ loaded[w][e] = attempts[e]
      /\ \A v \in Holders(e) : phase[v] = "claiming" => v = w

(* Even a stale claim was taken of a row that had attempts left.           *)
LoadedHasRetry ==
  \A w \in Workers : \A e \in batch[w] : loaded[w][e] < MaxAttempts

(* Before its next transmission a row has not used up its copies yet.      *)
CopiesBeforeSend ==
  \A e \in Emails \ contested :
    /\ status[e] = "pending" => copies[e] <= attempts[e] + starts
    /\ \A w \in Holders(e) :
         \/ phase[w] \in {"accepted", "refused"} /\ Current(w, e)
         \/ copies[e] <= attempts[e] + starts

(* The row whose transmission was accepted is at the mail server.          *)
AcceptedIsThere ==
  \A w \in Workers : \A e \in Emails :
    phase[w] = "accepted" /\ Current(w, e) => copies[e] > 0

OutboxInv ==
  /\ IdleHoldsNothing
  /\ LockedIsPending
  /\ AbsentIsUntouched
  /\ LoadedHasRetry
  /\ RetriesExhausted
  /\ ClaimsExclusive
  /\ ClaimIsCurrent
  /\ CopiesBeforeSend
  /\ CopiesBounded
  /\ AcceptedIsThere
  /\ RequeueIsSafeAlone
-----------------------------------------------------------------------------
(* Every variable keeps its type: rows, workers' memory and the history.   *)
THEOREM TypeCorrect == OutboxSpec => []OutboxTypeOK
<1>1. OutboxInit => OutboxTypeOK
  BY OutboxAssumption DEF OutboxInit, OutboxTypeOK, Status, Phase
<1>2. OutboxTypeOK /\ [OutboxNext]_outboxVars => OutboxTypeOK'
  <2> SUFFICES ASSUME OutboxTypeOK, [OutboxNext]_outboxVars PROVE OutboxTypeOK'
    OBVIOUS
  <2> USE OutboxAssumption DEF OutboxTypeOK, Status, Phase, rowVars, workerVars
  <2>1. ASSUME NEW e \in Emails, Enqueue(e) PROVE OutboxTypeOK'
    BY <2>1 DEF Enqueue
  <2>2. ASSUME NEW e \in Emails, BackoffElapses(e) PROVE OutboxTypeOK'
    BY <2>2 DEF BackoffElapses
  <2>3. ASSUME NEW w \in Workers, Start(w) PROVE OutboxTypeOK'
    <3>1. status' \in [Emails -> Status] /\ phase' \in [Workers -> Phase]
      BY <2>3 DEF Start, Requeued
    <3>2. contested' \subseteq Emails
      BY <2>3 DEF Start
    <3> QED
      BY <2>3, <3>1, <3>2 DEF Start
  <2>4. ASSUME NEW w \in Workers, StartUnrecovered(w) PROVE OutboxTypeOK'
    BY <2>4 DEF StartUnrecovered, MayStart
  <2>5. ASSUME NEW w \in Workers, Halt(w) PROVE OutboxTypeOK'
    BY <2>5 DEF Halt, Abandon
  <2>6. ASSUME NEW w \in Workers, ClaimBatch(w) PROVE OutboxTypeOK'
    BY <2>6 DEF ClaimBatch, Ready, Locked
  <2>7. ASSUME NEW w \in Workers, CommitClaim(w) PROVE OutboxTypeOK'
    BY <2>7 DEF CommitClaim, Flipped
  <2>8. ASSUME NEW w \in Workers, ClaimFails(w) PROVE OutboxTypeOK'
    BY <2>8 DEF ClaimFails, Abandon
  <2>9. ASSUME NEW w \in Workers, Connect(w) PROVE OutboxTypeOK'
    BY <2>9 DEF Connect
  <2>10. ASSUME NEW w \in Workers, ConnectFails(w) PROVE OutboxTypeOK'
    BY <2>10 DEF ConnectFails, Abandon
  <2>11. ASSUME NEW w \in Workers, Send(w) PROVE OutboxTypeOK'
    BY <2>11 DEF Send
  <2>12. ASSUME NEW w \in Workers, SendFails(w) PROVE OutboxTypeOK'
    BY <2>12 DEF SendFails
  <2>13. ASSUME NEW w \in Workers, NEW e \in Emails, MarkSent(w, e) PROVE OutboxTypeOK'
    BY <2>13 DEF MarkSent, Advance, Locked
  <2>14. ASSUME NEW w \in Workers, NEW e \in Emails, MarkFailed(w, e) PROVE OutboxTypeOK'
    <3>1. Counted(w, e) \in Nat
      BY DEF Counted
    <3>2. status' \in [Emails -> Status] /\ due' \in [Emails -> BOOLEAN]
      BY <2>14 DEF MarkFailed
    <3>3. attempts' \in [Emails -> Nat]
      BY <2>14, <3>1 DEF MarkFailed
    <3>4. /\ batch' \in [Workers -> SUBSET Emails]
          /\ phase' \in [Workers -> Phase]
          /\ loaded' \in [Workers -> [Emails -> Nat]]
      BY <2>14 DEF MarkFailed, Advance
    <3> QED
      BY <2>14, <3>2, <3>3, <3>4 DEF MarkFailed
  <2>15. ASSUME NEW w \in Workers, RecordFails(w) PROVE OutboxTypeOK'
    BY <2>15 DEF RecordFails, Abandon
  <2>16. CASE UNCHANGED outboxVars
    BY <2>16 DEF outboxVars
  <2> QED
    BY <2>1, <2>2, <2>3, <2>4, <2>5, <2>6, <2>7, <2>8, <2>9, <2>10,
       <2>11, <2>12, <2>13, <2>14, <2>15, <2>16 DEF OutboxNext, Drain
<1> QED
  BY <1>1, <1>2, PTL DEF OutboxSpec

-----------------------------------------------------------------------------
(* Each action keeps the invariant.                                        *)

(* A new row has had no attempt and no copy. *)
LEMMA EnqueueKeeps ==
  ASSUME OutboxTypeOK, OutboxTypeOK', OutboxInv, NEW e \in Emails, Enqueue(e)
  PROVE  OutboxInv'
<1> USE OutboxAssumption DEF OutboxTypeOK, OutboxInv, Status, Phase, Claimed,
          rowVars, workerVars, Holders, Current
<1>1. /\ IdleHoldsNothing'
      /\ LockedIsPending'
      /\ AbsentIsUntouched'
      /\ LoadedHasRetry'
      /\ ClaimsExclusive'
      /\ ClaimIsCurrent'
      /\ CopiesBounded'
      /\ AcceptedIsThere'
      /\ RequeueIsSafeAlone'
  BY DEF Enqueue, IdleHoldsNothing, LockedIsPending, AbsentIsUntouched,
         LoadedHasRetry, ClaimsExclusive, ClaimIsCurrent, CopiesBounded,
         AcceptedIsThere, RequeueIsSafeAlone
<1>2. RetriesExhausted'
  BY DEF Enqueue, RetriesExhausted, AbsentIsUntouched
<1>3. CopiesBeforeSend'
  BY DEF Enqueue, CopiesBeforeSend, AbsentIsUntouched
<1> QED
  BY <1>1, <1>2, <1>3 DEF OutboxInv

(* The invariant does not depend on next_attempt_at. *)
LEMMA BackoffKeeps ==
  ASSUME OutboxTypeOK, OutboxTypeOK', OutboxInv, NEW e \in Emails, BackoffElapses(e)
  PROVE  OutboxInv'
<1> USE OutboxAssumption DEF OutboxTypeOK, OutboxInv, Status, Phase, Claimed,
          rowVars, workerVars, Holders, Current
<1>1. /\ IdleHoldsNothing'
      /\ LockedIsPending'
      /\ AbsentIsUntouched'
      /\ LoadedHasRetry'
      /\ RetriesExhausted'
      /\ ClaimsExclusive'
      /\ ClaimIsCurrent'
      /\ CopiesBeforeSend'
      /\ CopiesBounded'
      /\ AcceptedIsThere'
      /\ RequeueIsSafeAlone'
  BY DEF BackoffElapses, IdleHoldsNothing, LockedIsPending, AbsentIsUntouched,
         LoadedHasRetry, RetriesExhausted, ClaimsExclusive, ClaimIsCurrent,
         CopiesBeforeSend, CopiesBounded, AcceptedIsThere, RequeueIsSafeAlone
<1> QED
  BY <1>1 DEF OutboxInv

(* A requeue contests exactly the rows it takes from a live claim. *)
LEMMA StartKeeps ==
  ASSUME OutboxTypeOK, OutboxTypeOK', OutboxInv, NEW w \in Workers, Start(w)
  PROVE  OutboxInv'
<1> USE OutboxAssumption DEF OutboxTypeOK, OutboxInv, Status, Phase, Claimed,
          rowVars, workerVars, Holders, Current
<1>1. /\ IdleHoldsNothing'
      /\ LockedIsPending'
      /\ AbsentIsUntouched'
      /\ LoadedHasRetry'
      /\ RetriesExhausted'
      /\ ClaimsExclusive'
      /\ ClaimIsCurrent'
      /\ CopiesBounded'
      /\ AcceptedIsThere'
  BY DEF Start, MayStart, Requeued, IdleHoldsNothing, LockedIsPending,
         AbsentIsUntouched, LoadedHasRetry, RetriesExhausted, ClaimsExclusive,
         ClaimIsCurrent, CopiesBounded, AcceptedIsThere
<1>2. CopiesBeforeSend'
  BY DEF Start, MayStart, Requeued, CopiesBeforeSend, CopiesBounded
<1>3. RequeueIsSafeAlone'
  <2> SUFFICES ASSUME ~ Overlap PROVE contested' = {}
    BY DEF Start, RequeueIsSafeAlone
  <2>1. contested = {} /\ \A e \in Emails : Holders(e) = {}
    BY DEF Start, MayStart, IdleHoldsNothing, RequeueIsSafeAlone
  <2> HIDE DEF Holders
  <2>2. {e \in Emails : status[e] = "sending" /\ Holders(e) # {}} = {}
    BY <2>1
  <2> QED
    BY <2>1, <2>2 DEF Start
<1> QED
  BY <1>1, <1>2, <1>3 DEF OutboxInv

(* A start without requeue only adds an idle worker. *)
LEMMA StartUnrecoveredKeeps ==
  ASSUME OutboxTypeOK, OutboxTypeOK', OutboxInv, NEW w \in Workers, StartUnrecovered(w)
  PROVE  OutboxInv'
<1> USE OutboxAssumption DEF OutboxTypeOK, OutboxInv, Status, Phase, Claimed,
          rowVars, workerVars, Holders, Current
<1>1. /\ IdleHoldsNothing'
      /\ LockedIsPending'
      /\ AbsentIsUntouched'
      /\ LoadedHasRetry'
      /\ RetriesExhausted'
      /\ ClaimsExclusive'
      /\ ClaimIsCurrent'
      /\ CopiesBeforeSend'
      /\ CopiesBounded'
      /\ AcceptedIsThere'
      /\ RequeueIsSafeAlone'
  BY DEF StartUnrecovered, MayStart, IdleHoldsNothing, LockedIsPending,
         AbsentIsUntouched, LoadedHasRetry, RetriesExhausted, ClaimsExclusive,
         ClaimIsCurrent, CopiesBeforeSend, CopiesBounded, AcceptedIsThere,
         RequeueIsSafeAlone
<1> QED
  BY <1>1 DEF OutboxInv

(* Forgetting a batch leaves its rows as they are. *)
LEMMA AbandonKeeps ==
  ASSUME OutboxTypeOK, OutboxTypeOK', OutboxInv, NEW w \in Workers,
         NEW next \in {"down", "polling"}, Abandon(w, next),
         UNCHANGED <<rowVars, copies, starts, contested>>
  PROVE  OutboxInv'
<1> USE OutboxAssumption DEF OutboxTypeOK, OutboxInv, Status, Phase, Claimed,
          rowVars, workerVars, Holders, Current
<1>1. /\ IdleHoldsNothing'
      /\ LockedIsPending'
      /\ AbsentIsUntouched'
      /\ LoadedHasRetry'
      /\ RetriesExhausted'
      /\ ClaimsExclusive'
      /\ ClaimIsCurrent'
      /\ CopiesBeforeSend'
      /\ CopiesBounded'
      /\ AcceptedIsThere'
      /\ RequeueIsSafeAlone'
  BY DEF Abandon, IdleHoldsNothing, LockedIsPending, AbsentIsUntouched,
         LoadedHasRetry, RetriesExhausted, ClaimsExclusive, ClaimIsCurrent,
         CopiesBeforeSend, CopiesBounded, AcceptedIsThere, RequeueIsSafeAlone
<1> QED
  BY <1>1 DEF OutboxInv

(* Only ready rows are claimed, and nobody holds an uncontested ready row. *)
LEMMA ClaimBatchKeeps ==
  ASSUME OutboxTypeOK, OutboxTypeOK', OutboxInv, NEW w \in Workers, ClaimBatch(w)
  PROVE  OutboxInv'
<1> USE OutboxAssumption DEF OutboxTypeOK, OutboxInv, Status, Phase, Claimed,
          rowVars, workerVars, Holders, Current
<1>1. /\ IdleHoldsNothing'
      /\ LockedIsPending'
      /\ AbsentIsUntouched'
      /\ RetriesExhausted'
      /\ ClaimIsCurrent'
      /\ CopiesBeforeSend'
      /\ CopiesBounded'
      /\ AcceptedIsThere'
      /\ RequeueIsSafeAlone'
  BY DEF ClaimBatch, Ready, Locked, IdleHoldsNothing, LockedIsPending,
         AbsentIsUntouched, RetriesExhausted, ClaimIsCurrent,
         CopiesBeforeSend, CopiesBounded, AcceptedIsThere, RequeueIsSafeAlone
<1>2. LoadedHasRetry'
  BY DEF ClaimBatch, Ready, Locked, LoadedHasRetry, RetriesExhausted
<1>3. ClaimsExclusive'
  BY DEF ClaimBatch, Ready, Locked, ClaimsExclusive, IdleHoldsNothing,
         ClaimIsCurrent
<1> QED
  BY <1>1, <1>2, <1>3 DEF OutboxInv

(* The lock kept the claimed rows pending until the commit. *)
LEMMA CommitClaimKeeps ==
  ASSUME OutboxTypeOK, OutboxTypeOK', OutboxInv, NEW w \in Workers, CommitClaim(w)
  PROVE  OutboxInv'
<1> USE OutboxAssumption DEF OutboxTypeOK, OutboxInv, Status, Phase, Claimed,
          rowVars, workerVars, Holders, Current
<1>1. /\ IdleHoldsNothing'
      /\ AbsentIsUntouched'
      /\ LoadedHasRetry'
      /\ ClaimsExclusive'
      /\ CopiesBeforeSend'
      /\ CopiesBounded'
      /\ AcceptedIsThere'
      /\ RequeueIsSafeAlone'
  BY DEF CommitClaim, Flipped, IdleHoldsNothing, AbsentIsUntouched,
         LoadedHasRetry, ClaimsExclusive, CopiesBeforeSend, CopiesBounded,
         AcceptedIsThere, RequeueIsSafeAlone
<1>2. LockedIsPending'
  BY DEF CommitClaim, Flipped, LockedIsPending
<1>3. RetriesExhausted'
  BY DEF CommitClaim, Flipped, RetriesExhausted, LockedIsPending
<1>4. ClaimIsCurrent'
  BY DEF CommitClaim, Flipped, ClaimIsCurrent, ClaimsExclusive
<1> QED
  BY <1>1, <1>2, <1>3, <1>4 DEF OutboxInv

(* A connection changes no row. *)
LEMMA ConnectKeeps ==
  ASSUME OutboxTypeOK, OutboxTypeOK', OutboxInv, NEW w \in Workers, Connect(w)
  PROVE  OutboxInv'
<1> USE OutboxAssumption DEF OutboxTypeOK, OutboxInv, Status, Phase, Claimed,
          rowVars, workerVars, Holders, Current
<1>1. /\ IdleHoldsNothing'
      /\ LockedIsPending'
      /\ AbsentIsUntouched'
      /\ LoadedHasRetry'
      /\ RetriesExhausted'
      /\ ClaimsExclusive'
      /\ ClaimIsCurrent'
      /\ CopiesBeforeSend'
      /\ CopiesBounded'
      /\ AcceptedIsThere'
      /\ RequeueIsSafeAlone'
  BY DEF Connect, IdleHoldsNothing, LockedIsPending, AbsentIsUntouched,
         LoadedHasRetry, RetriesExhausted, ClaimsExclusive, ClaimIsCurrent,
         CopiesBeforeSend, CopiesBounded, AcceptedIsThere, RequeueIsSafeAlone
<1> QED
  BY <1>1 DEF OutboxInv

(* A copy is transmitted of the current row, whose budget has room. *)
LEMMA TransmitKeeps ==
  ASSUME OutboxTypeOK, OutboxTypeOK', OutboxInv, NEW w \in Workers, NEW e \in Emails,
         phase[w] = "sending", Current(w, e),
         NEW p \in {"accepted", "refused"}, phase' = [phase EXCEPT ![w] = p],
         copies' = [copies EXCEPT ![e] = @ + 1],
         UNCHANGED <<rowVars, batch, loaded, starts, contested>>
  PROVE  OutboxInv'
<1> USE OutboxAssumption DEF OutboxTypeOK, OutboxInv, Status, Phase, Claimed,
          rowVars, workerVars, Holders, Current
<1>1. /\ IdleHoldsNothing'
      /\ LockedIsPending'
      /\ AbsentIsUntouched'
      /\ LoadedHasRetry'
      /\ RetriesExhausted'
      /\ ClaimsExclusive'
      /\ ClaimIsCurrent'
      /\ AcceptedIsThere'
      /\ RequeueIsSafeAlone'
  BY DEF IdleHoldsNothing, LockedIsPending, AbsentIsUntouched, LoadedHasRetry,
         RetriesExhausted, ClaimsExclusive, ClaimIsCurrent, AcceptedIsThere,
         RequeueIsSafeAlone
<1>2. CopiesBeforeSend'
  BY DEF CopiesBeforeSend, ClaimsExclusive, ClaimIsCurrent
<1>3. CopiesBounded'
  BY DEF CopiesBounded, CopiesBeforeSend
<1> QED
  BY <1>1, <1>2, <1>3 DEF OutboxInv

(* A refused message leaves no copy. *)
LEMMA RefuseKeeps ==
  ASSUME OutboxTypeOK, OutboxTypeOK', OutboxInv, NEW w \in Workers,
         phase[w] = "sending", phase' = [phase EXCEPT ![w] = "refused"],
         UNCHANGED <<rowVars, copies, batch, loaded, starts, contested>>
  PROVE  OutboxInv'
<1> USE OutboxAssumption DEF OutboxTypeOK, OutboxInv, Status, Phase, Claimed,
          rowVars, workerVars, Holders, Current
<1>1. /\ IdleHoldsNothing'
      /\ LockedIsPending'
      /\ AbsentIsUntouched'
      /\ LoadedHasRetry'
      /\ RetriesExhausted'
      /\ ClaimsExclusive'
      /\ ClaimIsCurrent'
      /\ CopiesBeforeSend'
      /\ CopiesBounded'
      /\ AcceptedIsThere'
      /\ RequeueIsSafeAlone'
  BY DEF IdleHoldsNothing, LockedIsPending, AbsentIsUntouched, LoadedHasRetry,
         RetriesExhausted, ClaimsExclusive, ClaimIsCurrent, CopiesBeforeSend,
         CopiesBounded, AcceptedIsThere, RequeueIsSafeAlone
<1> QED
  BY <1>1 DEF OutboxInv

(* A row recorded as sent leaves the worker's batch. *)
LEMMA MarkSentKeeps ==
  ASSUME OutboxTypeOK, OutboxTypeOK', OutboxInv, NEW w \in Workers,
         NEW e \in Emails, MarkSent(w, e)
  PROVE  OutboxInv'
<1> USE OutboxAssumption DEF OutboxTypeOK, OutboxInv, Status, Phase, Claimed,
          rowVars, workerVars, Holders, Current
<1>1. /\ IdleHoldsNothing'
      /\ LockedIsPending'
      /\ AbsentIsUntouched'
      /\ LoadedHasRetry'
      /\ RetriesExhausted'
      /\ ClaimsExclusive'
      /\ CopiesBeforeSend'
      /\ CopiesBounded'
      /\ AcceptedIsThere'
      /\ RequeueIsSafeAlone'
  BY DEF MarkSent, Advance, Locked, IdleHoldsNothing, LockedIsPending,
         AbsentIsUntouched, LoadedHasRetry, RetriesExhausted, ClaimsExclusive,
         CopiesBeforeSend, CopiesBounded, AcceptedIsThere, RequeueIsSafeAlone
<1>2. ClaimIsCurrent'
  BY DEF MarkSent, Advance, Locked, ClaimIsCurrent, ClaimsExclusive
<1> QED
  BY <1>1, <1>2 DEF OutboxInv

(* A failed attempt buys one more copy, or ends the retries. *)
LEMMA MarkFailedKeeps ==
  ASSUME OutboxTypeOK, OutboxTypeOK', OutboxInv, NEW w \in Workers,
         NEW e \in Emails, MarkFailed(w, e)
  PROVE  OutboxInv'
<1> USE OutboxAssumption DEF OutboxTypeOK, OutboxInv, Status, Phase, Claimed,
          rowVars, workerVars, Holders, Current
<1>1. /\ IdleHoldsNothing'
      /\ LockedIsPending'
      /\ AbsentIsUntouched'
      /\ LoadedHasRetry'
      /\ ClaimsExclusive'
      /\ AcceptedIsThere'
      /\ RequeueIsSafeAlone'
  BY DEF MarkFailed, Advance, Locked, Counted, NoRetryLeft, IdleHoldsNothing,
         LockedIsPending, AbsentIsUntouched, LoadedHasRetry, ClaimsExclusive,
         AcceptedIsThere, RequeueIsSafeAlone
<1>2. RetriesExhausted'
  <2>1. loaded[w][e] \in Nat /\ loaded[w][e] < MaxAttempts
    BY DEF MarkFailed, LoadedHasRetry
  <2>2. attempts'[e] = loaded[w][e] + 1
    BY DEF MarkFailed, Counted
  <2>3. /\ attempts'[e] < MaxAttempts => status'[e] = "pending"
        /\ attempts'[e] >= MaxAttempts => status'[e] = "failed"
    BY <2>1, <2>2 DEF MarkFailed, Counted, NoRetryLeft
  <2>4. \A f \in Emails \ {e} : status'[f] = status[f] /\ attempts'[f] = attempts[f]
    BY DEF MarkFailed
  <2>5. ASSUME NEW f \in Emails
        PROVE  /\ status'[f] \in {"pending", "sending"} => attempts'[f] < MaxAttempts
               /\ status'[f] = "failed" => attempts'[f] = MaxAttempts
    <3>1. CASE f = e
      <4>1. attempts'[e] \in Nat /\ attempts'[e] <= MaxAttempts
        BY <2>1, <2>2
      <4>2. \A m, n \in Nat : m <= n => m < n \/ m = n
        OBVIOUS
      <4>3. attempts'[e] < MaxAttempts \/ attempts'[e] = MaxAttempts
        BY <4>1, <4>2, Zenon
      <4> QED
        BY <2>3, <3>1, <4>1, <4>3
    <3>2. CASE f # e
      BY <2>4, <3>2 DEF RetriesExhausted
    <3> QED
      BY <3>1, <3>2
  <2> QED
    BY <2>5 DEF RetriesExhausted
<1>3. ClaimIsCurrent'
  BY DEF MarkFailed, Advance, Locked, Counted, NoRetryLeft, ClaimIsCurrent,
         ClaimsExclusive
<1>4. CopiesBeforeSend'
  BY DEF MarkFailed, Advance, Locked, Counted, NoRetryLeft, CopiesBeforeSend,
         ClaimIsCurrent, CopiesBounded
<1>5. CopiesBounded'
  BY DEF MarkFailed, Advance, Locked, Counted, NoRetryLeft, CopiesBounded,
         ClaimIsCurrent
<1> QED
  BY <1>1, <1>2, <1>3, <1>4, <1>5 DEF OutboxInv

(* The invariant holds in every reachable state.                           *)
THEOREM OutboxInvariant == OutboxSpec => []OutboxInv
<1>1. OutboxInit => OutboxInv
  BY OutboxAssumption
  DEF OutboxInit, OutboxInv, IdleHoldsNothing, LockedIsPending, AbsentIsUntouched,
      LoadedHasRetry, RetriesExhausted, ClaimsExclusive, ClaimIsCurrent,
      CopiesBeforeSend, CopiesBounded, AcceptedIsThere, RequeueIsSafeAlone,
      Holders
<1>2. OutboxTypeOK /\ OutboxTypeOK' /\ OutboxInv /\ [OutboxNext]_outboxVars => OutboxInv'
  <2> SUFFICES ASSUME OutboxTypeOK, OutboxTypeOK', OutboxInv, [OutboxNext]_outboxVars
               PROVE  OutboxInv'
    OBVIOUS
  <2>1. ASSUME NEW e \in Emails, Enqueue(e) \/ BackoffElapses(e)
        PROVE  OutboxInv'
    BY <2>1, EnqueueKeeps, BackoffKeeps
  <2>2. ASSUME NEW w \in Workers, Start(w) \/ StartUnrecovered(w)
        PROVE  OutboxInv'
    BY <2>2, StartKeeps, StartUnrecoveredKeeps
  <2>3. ASSUME NEW w \in Workers,
               Halt(w) \/ ClaimFails(w) \/ ConnectFails(w) \/ RecordFails(w)
        PROVE  OutboxInv'
    BY <2>3, AbandonKeeps DEF Halt, ClaimFails, ConnectFails, RecordFails
  <2>4. ASSUME NEW w \in Workers,
               ClaimBatch(w) \/ CommitClaim(w) \/ Connect(w)
        PROVE  OutboxInv'
    BY <2>4, ClaimBatchKeeps, CommitClaimKeeps, ConnectKeeps
  <2>5. ASSUME NEW w \in Workers, Send(w)
        PROVE  OutboxInv'
    BY <2>5, TransmitKeeps DEF Send
  <2>6. ASSUME NEW w \in Workers, SendFails(w)
        PROVE  OutboxInv'
    <3>1. CASE UNCHANGED copies
      BY <2>6, <3>1, RefuseKeeps DEF SendFails
    <3>2. CASE ~ UNCHANGED copies
      BY <2>6, <3>2, TransmitKeeps DEF SendFails
    <3> QED
      BY <3>1, <3>2
  <2>7. ASSUME NEW w \in Workers, NEW e \in Emails,
               MarkSent(w, e) \/ MarkFailed(w, e)
        PROVE  OutboxInv'
    BY <2>7, MarkSentKeeps, MarkFailedKeeps
  <2>8. CASE UNCHANGED outboxVars
    BY <2>8 DEF outboxVars, OutboxInv, IdleHoldsNothing, LockedIsPending,
                AbsentIsUntouched, LoadedHasRetry, RetriesExhausted,
                ClaimsExclusive, ClaimIsCurrent, CopiesBeforeSend,
                CopiesBounded, AcceptedIsThere, RequeueIsSafeAlone,
                Holders, Current
  <2> QED
    BY <2>1, <2>2, <2>3, <2>4, <2>5, <2>6, <2>7, <2>8 DEF OutboxNext, Drain
<1> QED
  BY <1>1, <1>2, TypeCorrect, PTL DEF OutboxSpec

(* Claims never overlap on a row that no start-up requeue contested.       *)
THEOREM ExclusiveClaims == OutboxSpec => []ClaimsExclusive
BY OutboxInvariant, PTL DEF OutboxInv

(* What a worker remembers of a claimed row is the state the row is in.    *)
THEOREM ClaimsCurrent == OutboxSpec => []ClaimIsCurrent
BY OutboxInvariant, PTL DEF OutboxInv

(* Retries end, and end in `failed' only when they are used up.            *)
THEOREM RetriesEnd == OutboxSpec => []RetriesExhausted
BY OutboxInvariant, PTL DEF OutboxInv

(* Extra copies are accounted for by failed attempts and restarts.         *)
THEOREM BoundedCopies == OutboxSpec => []CopiesBounded
BY OutboxInvariant, PTL DEF OutboxInv

(* With one process at a time the start-up requeue disturbs nobody.        *)
THEOREM RequeueAlone == OutboxSpec => []RequeueIsSafeAlone
BY OutboxInvariant, PTL DEF OutboxInv

-----------------------------------------------------------------------------
(* Refinement: one process at a time keeps the abstract promise.           *)

(* What every step does to a message, seen through the refinement mapping. *)
LEMMA StepRefines ==
  ASSUME ~ Overlap, OutboxTypeOK, OutboxTypeOK', OutboxInv, [OutboxNext]_outboxVars
  PROVE  [Delivery!Next]_<<[e \in Emails |-> Owed(status[e])], copies>>
<1> DEFINE owed == [e \in Emails |-> Owed(status[e])]
<1> USE DEF OutboxTypeOK, rowVars, workerVars
<1>1. \A e \in Emails : \A w \in Holders(e) :
        status[e] = IF phase[w] \in Claimed THEN "sending" ELSE "pending"
  BY DEF OutboxInv, RequeueIsSafeAlone, ClaimIsCurrent
<1>2. ASSUME owed' = owed, UNCHANGED copies
      PROVE  [Delivery!Next]_<<owed, copies>>
  BY <1>2
<1>3. ASSUME NEW e \in Emails, Enqueue(e)
      PROVE  Delivery!Accept(e)
  BY <1>3 DEF Enqueue, Delivery!Accept, Owed
<1>4. ASSUME NEW w \in Workers, Start(w) \/ CommitClaim(w)
      PROVE  owed' = owed /\ UNCHANGED copies
  <2>1. CASE Start(w)
    BY <2>1 DEF Start, Requeued, Owed
  <2>2. CASE CommitClaim(w)
    BY <1>1, <2>2 DEF CommitClaim, Flipped, Owed, Holders, Claimed
  <2> QED
    BY <1>4, <2>1, <2>2
<1>5. ASSUME NEW w \in Workers, NEW e \in Emails,
             phase[w] = "sending", Current(w, e),
             copies' = [copies EXCEPT ![e] = @ + 1], UNCHANGED status
      PROVE  Delivery!Transmit(e)
  BY <1>1, <1>5 DEF Delivery!Transmit, Current, Holders, Claimed, Owed
<1>6. ASSUME NEW w \in Workers, NEW e \in Emails, MarkSent(w, e)
      PROVE  Delivery!Confirm(e)
  BY <1>1, <1>6 DEF MarkSent, Delivery!Confirm, Current, Holders, Claimed, Owed,
                    OutboxInv, AcceptedIsThere
<1>7. ASSUME NEW w \in Workers, NEW e \in Emails, MarkFailed(w, e)
      PROVE  Delivery!GiveUp(e) \/ (owed' = owed /\ UNCHANGED copies)
  <2>1. e \in Emails /\ status[e] = "sending" /\ UNCHANGED copies
    BY <1>1, <1>7 DEF MarkFailed, Current, Holders, Claimed
  <2>2. \/ status' = [status EXCEPT ![e] = "failed"]
        \/ status' = [status EXCEPT ![e] = "pending"]
    BY <1>7 DEF MarkFailed
  <2> QED
    BY <2>1, <2>2 DEF Delivery!GiveUp, Owed
<1>8. ASSUME UNCHANGED <<status, copies>>
      PROVE  owed' = owed /\ UNCHANGED copies
  BY <1>8
<1> QED
  <2> HIDE DEF owed
  <2>1. ASSUME NEW w \in Workers, SendFails(w)
        PROVE  [Delivery!Next]_<<owed, copies>>
    BY <1>2, <1>5, <1>8, <2>1 DEF SendFails, Delivery!Next
  <2>2. ASSUME NEW w \in Workers, Send(w)
        PROVE  [Delivery!Next]_<<owed, copies>>
    BY <1>5, <2>2 DEF Send, Delivery!Next
  <2>3. ASSUME NEW w \in Workers, Drain(w)
        PROVE  [Delivery!Next]_<<owed, copies>>
    BY <1>2, <1>4, <1>6, <1>7, <1>8, <2>1, <2>2, <2>3
    DEF Drain, ClaimBatch, ClaimFails, Connect, ConnectFails, RecordFails,
        Delivery!Next
  <2>4. ASSUME NEW w \in Workers, Start(w) \/ StartUnrecovered(w) \/ Halt(w)
        PROVE  [Delivery!Next]_<<owed, copies>>
    BY <1>2, <1>4, <1>8, <2>4 DEF StartUnrecovered, Halt
  <2>5. ASSUME NEW e \in Emails, Enqueue(e) \/ BackoffElapses(e)
        PROVE  [Delivery!Next]_<<owed, copies>>
    BY <1>2, <1>3, <1>8, <2>5 DEF BackoffElapses, Delivery!Next
  <2>6. CASE UNCHANGED outboxVars
    BY <1>2, <1>8, <2>6 DEF outboxVars
  <2> QED
    BY <2>3, <2>4, <2>5, <2>6 DEF OutboxNext, owed

(* mark_sent, mark_failed and the requeue together keep the promise the    *)
(* services rely on, whatever fails in between.                            *)
THEOREM OutboxDelivers ==
  ASSUME ~ Overlap
  PROVE  OutboxSpec => DeliverySpec
<1>1. OutboxInit => Delivery!Init
  BY DEF OutboxInit, Delivery!Init, Owed
<1>2. OutboxTypeOK /\ OutboxTypeOK' /\ OutboxInv /\ [OutboxNext]_outboxVars
        => [Delivery!Next]_<<[e \in Emails |-> Owed(status[e])], copies>>
  BY StepRefines
<1> QED
  BY <1>1, <1>2, TypeCorrect, OutboxInvariant, PTL
  DEF OutboxSpec, DeliverySpec, Delivery!Spec

-----------------------------------------------------------------------------
(* A run.  The key is the lock on its row: at most one request has written *)
(* the row and not committed, and while a result write holds it the row is *)
(* still planned and live, so what its guarded UPDATE found is what its    *)
(* commit changes.                                                         *)

(* Only the holder of the row lock has written the run.                    *)
OneWriter ==
  \A q, r \in Requests : Locks(q) /\ Locks(r) => q = r

(* A result that has matched the row finds it unchanged at its commit.     *)
HitStaysTrue ==
  \A q \in Requests :
    Locks(q) /\ op[q].kind = "result" => run.status = "planned" /\ run.live

(* A request that sets the status by hand has been noticed.                *)
NoPutInFlight == ~ byHand => \A q \in Requests : op[q].kind # "put"

(* The last event is the status of the writer in flight, or of the row.    *)
NewsOfWriter ==
  ~ byHand /\ ~ torn =>
    /\ ~ RunLocked => news = run.status
    /\ \A q \in Requests : Locks(q) => news = Written(q).status

(* Only the replacement of the case set deletes junction rows.             *)
PickersDelete ==
  \A q \in Requests : pc[q] = "deleting" => op[q].kind = "cases"

RunInv ==
  /\ TypeOK
  /\ PickersDelete
  /\ OneWriter
  /\ HitStaysTrue
  /\ NoPutInFlight
  /\ AuditTellsStatus
  /\ NewsOfWriter

-----------------------------------------------------------------------------
\* The request a handler sees has a valid status.
LEMMA ValidatedType ==
  ASSUME NEW o \in Ops
  PROVE  /\ Validated(o) \in OpType
         /\ Validated(o).kind = o.kind
  <1>1. o \in Request(InputStatus)
    BY RunsAssumption
  <1>2. CASE o \in [kind : {"put"}, status : InputStatus]
    <2>1. Validated(o) = [kind |-> "put", status |-> Normalised(o.status)]
      BY <1>2 DEF Validated
    <2>2. Normalised(o.status) \in RunStatus
      BY <1>2 DEF Normalised, InputStatus, RunStatus
    <2> QED  BY <1>2, <2>1, <2>2 DEF OpType, Request
  <1>3. CASE o \notin [kind : {"put"}, status : InputStatus]
    <2>1. o.kind # "put"
      BY <1>1, <1>3 DEF Request
    <2> QED  BY <1>1, <1>3, <2>1 DEF Validated, OpType, Request
  <1> QED  BY <1>2, <1>3

\* The run row a request writes is a run row.
LEMMA WrittenType ==
  ASSUME TypeOK, NEW q \in Requests
  PROVE  Written(q) \in Run
  <1>1. run \in Run /\ op[q] \in OpType
    BY DEF TypeOK
  <1>2. op[q].kind = "put" => op[q].status \in RunStatus
    BY <1>1 DEF OpType, Request
  <1>3. op[q].kind \in {"result", "close", "put", "delete", "restore", "cases"}
    BY <1>1 DEF OpType, Request
  <1> QED  BY <1>1, <1>2, <1>3 DEF Written, Run, RunStatus

LEMMA InitInv ==
  ASSUME Init
  PROVE  RunInv
  <1>1. run \in Run
    BY DEF Init, Run, RunStatus
  <1>2. TypeOK
    BY <1>1 DEF Init, TypeOK, OpType, Request, RunStatus
  <1>3. \A q \in Requests : ~ Locks(q)
    BY DEF Init, Locks
  <1>4. run.status = "planned"
    BY DEF Init
  <1> QED
    BY <1>2, <1>3, <1>4 DEF Init, RunInv, OneWriter, HitStaysTrue, NoPutInFlight,
       AuditTellsStatus, NewsOfWriter, PickersDelete

\* A step that moves one request among its unlocked states disturbs nothing.
LEMMA BeginKeeps ==
  ASSUME RunInv, NEW q \in Requests, NEW o \in Ops, Begin(q, o)
  PROVE  RunInv'
  <1>1. /\ Validated(o) \in OpType
        /\ Validated(o).kind = o.kind
    BY ValidatedType
  <1>2. TypeOK'
    BY <1>1 DEF RunInv, TypeOK, Begin, runVars
  <1>3. \A r \in Requests : Locks(r)' <=> Locks(r)
    BY DEF RunInv, TypeOK, Begin, Locks, WritesRun
  <1>4. \A r \in Requests : Locks(r) => r # q
    BY DEF Begin, Locks
  <1>5. \A r \in Requests : r # q => op'[r] = op[r]
    BY DEF RunInv, TypeOK, Begin
  <1>6. run' = run /\ news' = news /\ audited' = audited
                   /\ activations' = activations /\ torn' = torn
                   /\ (~ byHand' => ~ byHand)
    BY DEF RunInv, TypeOK, Begin, runVars
  <1>7. OneWriter'
    BY <1>3 DEF RunInv, OneWriter
  <1>8. HitStaysTrue'
    BY <1>3, <1>4, <1>5, <1>6 DEF RunInv, HitStaysTrue
  <1>9. NoPutInFlight'
    BY <1>1 DEF RunInv, TypeOK, NoPutInFlight, Begin
  <1>10. AuditTellsStatus'
    BY <1>6 DEF RunInv, AuditTellsStatus
  <1>11. NewsOfWriter'
    BY <1>3, <1>4, <1>5, <1>6 DEF RunInv, NewsOfWriter, RunLocked, Written
  <1>12. PickersDelete'
    BY DEF RunInv, TypeOK, PickersDelete, Begin
  <1> QED  BY <1>2, <1>7, <1>8, <1>9, <1>10, <1>11, <1>12 DEF RunInv

\* A request that ends, or goes on without writing, disturbs nothing.
LEMMA QuietKeeps ==
  ASSUME RunInv, NEW q \in Requests, NEW s \in {"idle", "deleting"},
         pc' = [pc EXCEPT ![q] = s],
         byHand' = byHand, torn' = (torn \/ pc[q] = "written"),
         s = "deleting" => op[q].kind = "cases",
         doomed' \in [Requests -> SUBSET Cases],
         UNCHANGED <<runVars, news, op, seen, hit, begun>>
  PROVE  RunInv'
  <1>1. TypeOK'
    BY DEF RunInv, TypeOK, runVars, history
  <1>2. \A r \in Requests : Locks(r)' => Locks(r) /\ r # q
    BY DEF RunInv, TypeOK, Locks, WritesRun
  <1>3. \A r \in Requests \ {q} : Locks(r)' <=> Locks(r)
    BY DEF RunInv, TypeOK, Locks, WritesRun
  <1>4. OneWriter'
    BY <1>2 DEF RunInv, OneWriter
  <1>5. HitStaysTrue'
    BY <1>2 DEF RunInv, HitStaysTrue, runVars
  <1>6. NoPutInFlight' /\ AuditTellsStatus'
    BY DEF RunInv, NoPutInFlight, AuditTellsStatus, runVars, history
  <1>7. NewsOfWriter'
    <2>1. CASE torn'
      BY <2>1 DEF NewsOfWriter
    <2>2. CASE pc[q] # "written"
      <3>1. ~ Locks(q)
        BY <2>2 DEF Locks
      <3>2. RunLocked' <=> RunLocked
        BY <1>2, <1>3, <3>1 DEF RunLocked
      <3> QED  BY <1>2, <3>2 DEF RunInv, NewsOfWriter, Written, runVars
    <2> QED  BY <2>1, <2>2
  <1>8. PickersDelete'
    BY DEF RunInv, TypeOK, PickersDelete
  <1> QED  BY <1>1, <1>4, <1>5, <1>6, <1>7, <1>8 DEF RunInv

\* The step in which a request writes: it takes the lock if it changes the
\* row, which it may only if no other request has it, and publishes then.
LEMMA WriteKeeps ==
  ASSUME RunInv, NEW q \in Requests,
         pc[q] # "written",
         pc' = [pc EXCEPT ![q] = "written"],
         UNCHANGED <<runVars, op, seen, begun, history>>,
         hit' \in [Requests -> BOOLEAN],
         \A r \in Requests \ {q} : hit'[r] = hit[r],
         doomed' \in [Requests -> SUBSET Cases],
         news' \in RunStatus,
         WritesRun(q)' => ~ RunLocked,
         WritesRun(q)' /\ op[q].kind = "result"
            => run.status = "planned" /\ run.live,
         ~ byHand /\ ~ torn => news' = IF WritesRun(q)' THEN Written(q).status
                                                         ELSE news
  PROVE  RunInv'
  <1>1. TypeOK'
    BY DEF RunInv, TypeOK, runVars, history
  <1>2. \A r \in Requests \ {q} : Locks(r)' <=> Locks(r)
    BY DEF RunInv, TypeOK, Locks, WritesRun
  <1>3. ~ Locks(q) /\ (Locks(q)' <=> WritesRun(q)')
    BY DEF RunInv, TypeOK, Locks
  <1>4. Locks(q)' => \A r \in Requests : ~ Locks(r)
    BY <1>3 DEF RunLocked
  <1>5. OneWriter'
    BY <1>2, <1>4 DEF RunInv, OneWriter
  <1>6. HitStaysTrue'
    BY <1>2, <1>3 DEF RunInv, HitStaysTrue, runVars
  <1>7. NoPutInFlight' /\ AuditTellsStatus'
    BY DEF RunInv, NoPutInFlight, AuditTellsStatus, runVars, history
  <1>8. \A r \in Requests : Written(r)' = Written(r)
    BY DEF Written, runVars
  <1>9. NewsOfWriter'
    <2> SUFFICES ASSUME ~ byHand, ~ torn
                 PROVE  /\ ~ RunLocked' => news' = run.status
                        /\ \A r \in Requests : Locks(r)' => news' = Written(r).status
      BY <1>8 DEF NewsOfWriter, runVars, history
    <2>1. CASE Locks(q)'
      <3>1. RunLocked'
        BY <2>1 DEF RunLocked
      <3>2. \A r \in Requests : Locks(r)' => r = q
        BY <2>1, <1>2, <1>4
      <3>3. news' = Written(q).status
        BY <2>1, <1>3
      <3> QED  BY <3>1, <3>2, <3>3
    <2>2. CASE ~ Locks(q)'
      <3>1. news' = news
        BY <2>2, <1>3
      <3>2. RunLocked' <=> RunLocked
        BY <2>2, <1>2, <1>3 DEF RunLocked
      <3>3. \A r \in Requests : Locks(r)' => Locks(r)
        BY <2>2, <1>2
      <3> QED  BY <3>1, <3>2, <3>3 DEF RunInv, NewsOfWriter
    <2> QED  BY <2>1, <2>2
  <1>10. PickersDelete'
    BY DEF RunInv, TypeOK, PickersDelete
  <1> QED  BY <1>1, <1>5, <1>6, <1>7, <1>9, <1>10 DEF RunInv

-----------------------------------------------------------------------------
LEMMA ActivateKeeps ==
  ASSUME RunInv, NEW q \in Requests, Activate(q)
  PROVE  RunInv'
  <1>1. WritesRun(q)' <=> Plannable(q)
    BY DEF RunInv, TypeOK, Activate, WritesRun
  <1>2. news' \in RunStatus
    BY DEF RunInv, TypeOK, Activate, RunStatus
  <1>3. news' = IF WritesRun(q)' THEN Written(q).status ELSE news
    BY <1>1 DEF Activate, Written
  <1>4. hit' \in [Requests -> BOOLEAN]
    BY DEF RunInv, TypeOK, Activate, Plannable
  <1>5. doomed' \in [Requests -> SUBSET Cases]
    BY DEF RunInv, TypeOK, Activate
  <1>6. \A r \in Requests \ {q} : hit'[r] = hit[r]
    BY DEF RunInv, TypeOK, Activate
  <1> QED
    BY <1>1, <1>2, <1>3, <1>4, <1>5, <1>6, WriteKeeps DEF Activate, Plannable

LEMMA CloseKeeps ==
  ASSUME RunInv, NEW q \in Requests, Close(q)
  PROVE  RunInv'
  <1>1. news' \in RunStatus /\ news' = Written(q).status
    BY DEF Close, CloseNews, Written, RunStatus
  <1>2. WritesRun(q)'
    BY DEF Close, WritesRun
  <1>3. hit' \in [Requests -> BOOLEAN] /\ doomed' \in [Requests -> SUBSET Cases]
    BY DEF RunInv, TypeOK, Close
  <1> QED
    BY <1>1, <1>2, <1>3, WriteKeeps DEF Close

LEMMA PutKeeps ==
  ASSUME RunInv, NEW q \in Requests, Put(q)
  PROVE  RunInv'
  <1>1. byHand
    BY DEF RunInv, NoPutInFlight, Put
  <1>2. op[q] \in OpType /\ run \in Run
    BY DEF RunInv, TypeOK
  <1>3. news' \in RunStatus
    <2>1. op[q].status \in RunStatus /\ run.status \in RunStatus
      BY <1>2 DEF Put, OpType, Request, Run
    <2> QED  BY <2>1 DEF Put, RunInv, TypeOK
  <1>4. WritesRun(q)' => ~ RunLocked
    BY DEF Put, WritesRun
  <1>5. hit' \in [Requests -> BOOLEAN] /\ doomed' \in [Requests -> SUBSET Cases]
    BY DEF RunInv, TypeOK, Put
  <1> QED
    BY <1>1, <1>3, <1>4, <1>5, WriteKeeps DEF Put

\* A request that writes the row but not its status publishes nothing, and
\* nothing is needed: with the row unlocked the last event is its status.
LEMMA SetDeletedKeeps ==
  ASSUME RunInv, NEW q \in Requests, SetDeleted(q)
  PROVE  RunInv'
  <1>1. ~ byHand /\ ~ torn
          => news' = IF WritesRun(q)' THEN Written(q).status ELSE news
    BY DEF RunInv, NewsOfWriter, SetDeleted, Written
  <1>2. news' \in RunStatus /\ hit' \in [Requests -> BOOLEAN]
                          /\ doomed' \in [Requests -> SUBSET Cases]
    BY DEF RunInv, TypeOK, SetDeleted
  <1> QED
    BY <1>1, <1>2, WriteKeeps DEF SetDeleted

LEMMA ReplaceKeeps ==
  ASSUME RunInv, NEW q \in Requests, Replace(q)
  PROVE  RunInv'
  <1>1. op[q].kind = "cases"
    BY DEF RunInv, PickersDelete, Replace
  <1>2. WritesRun(q)' <=> WritesRun(q)
    BY DEF Replace, WritesRun
  <1>3. ~ byHand /\ ~ torn
          => news' = IF WritesRun(q)' THEN Written(q).status ELSE news
    BY <1>1, <1>2 DEF RunInv, NewsOfWriter, Replace, Written
  <1>4. news' \in RunStatus /\ hit' \in [Requests -> BOOLEAN]
                          /\ doomed' \in [Requests -> SUBSET Cases]
    BY DEF RunInv, TypeOK, Replace
  <1> QED
    BY <1>1, <1>2, <1>3, <1>4, WriteKeeps DEF Replace

LEMMA IssueDeleteKeeps ==
  ASSUME RunInv, NEW q \in Requests, IssueDelete(q)
  PROVE  RunInv'
  BY QuietKeeps DEF IssueDelete, RunInv, TypeOK, history

\* The commit writes what its holder of the lock announced.
LEMMA CommitKeeps ==
  ASSUME RunInv, NEW q \in Requests, Commit(q)
  PROVE  RunInv'
  <1>1. Locks(q) <=> WritesRun(q)
    BY DEF Commit, Locks
  <1>2. run' = IF Locks(q) THEN Written(q) ELSE run
    BY <1>1 DEF Commit
  <1>3. TypeOK'
    <2>1. run' \in Run
      BY <1>2, WrittenType DEF RunInv, TypeOK
    <2>2. op[q] \in OpType
      BY DEF RunInv, TypeOK
    <2>3. picked' \in SUBSET Cases
      BY <2>2 DEF Commit, RunInv, TypeOK, OpType, Request
    <2>4. audited' \in RunStatus /\ activations' \in Nat
      BY DEF Commit, RunInv, TypeOK, RunStatus
    <2> QED  BY <2>1, <2>3, <2>4 DEF Commit, RunInv, TypeOK, history
  <1>4. \A r \in Requests : Locks(r)' <=> Locks(r) /\ r # q
    BY DEF Commit, RunInv, TypeOK, Locks, WritesRun
  <1>5. Locks(q) => \A r \in Requests : ~ Locks(r)'
    BY <1>4 DEF RunInv, OneWriter
  <1>6. OneWriter'
    BY <1>4 DEF RunInv, OneWriter
  <1>7. HitStaysTrue'
    BY <1>2, <1>4, <1>5 DEF RunInv, HitStaysTrue, Commit
  <1>8. NoPutInFlight'
    BY DEF RunInv, NoPutInFlight, Commit, history
  <1>9. AuditTellsStatus'
    <2> SUFFICES ASSUME ~ byHand
                 PROVE  /\ audited' = run'.status
                        /\ activations' <= 1
                        /\ run'.status = "planned" => activations' = 0
      BY DEF AuditTellsStatus, Commit, history
    <2>1. /\ audited = run.status
          /\ activations \in Nat
          /\ activations <= 1
          /\ run.status = "planned" => activations = 0
      BY DEF RunInv, TypeOK, AuditTellsStatus
    <2>2. CASE op[q].kind = "result" /\ hit[q]
      <3>1. Locks(q)
        BY <2>2, <1>1 DEF WritesRun
      <3>2. run.status = "planned" /\ run'.status = "active"
        BY <2>2, <3>1, <1>2 DEF RunInv, HitStaysTrue, Written
      <3> QED  BY <2>1, <2>2, <3>2 DEF Commit
    <2>3. CASE op[q].kind = "close"
      <3>1. run'.status = "completed"
        BY <2>3, <1>1, <1>2 DEF WritesRun, Written
      <3> QED  BY <2>1, <2>3, <3>1 DEF Commit
    <2>4. CASE ~ (op[q].kind = "result" /\ hit[q]) /\ op[q].kind # "close"
      <3>1. op[q].kind # "put"
        BY DEF RunInv, NoPutInFlight
      <3>2. run'.status = run.status
        BY <2>4, <3>1, <1>1, <1>2 DEF WritesRun, Written
      <3> QED  BY <2>1, <2>4, <3>2 DEF Commit
    <2> QED  BY <2>2, <2>3, <2>4
  <1>10. NewsOfWriter'
    <2> SUFFICES ASSUME ~ byHand, ~ torn
                 PROVE  /\ ~ RunLocked' => news' = run'.status
                        /\ \A r \in Requests : Locks(r)' => news' = Written(r)'.status
      BY DEF NewsOfWriter, Commit, history
    <2>1. news' = news
      BY DEF Commit
    <2>2. CASE Locks(q)
      <3>1. news = Written(q).status
        BY <2>2 DEF RunInv, NewsOfWriter
      <3> QED  BY <2>1, <2>2, <3>1, <1>2, <1>5
    <2>3. CASE ~ Locks(q)
      <3>1. run' = run /\ op' = op
        BY <2>3, <1>2 DEF Commit
      <3>2. RunLocked' <=> RunLocked
        BY <2>3, <1>4 DEF RunLocked
      <3> QED  BY <2>1, <3>1, <3>2, <1>4 DEF RunInv, NewsOfWriter, Written
    <2> QED  BY <2>2, <2>3
  <1>11. PickersDelete'
    BY DEF RunInv, TypeOK, PickersDelete, Commit
  <1> QED  BY <1>3, <1>6, <1>7, <1>8, <1>9, <1>10, <1>11 DEF RunInv

LEMMA StepKeeps ==
  ASSUME RunInv, [Next]_vars
  PROVE  RunInv'
  <1>1. CASE UNCHANGED vars
    BY <1>1 DEF vars, RunInv, TypeOK, PickersDelete, OneWriter, HitStaysTrue,
       NoPutInFlight, AuditTellsStatus, NewsOfWriter, RunLocked, Locks,
       WritesRun, Written
  <1>2. CASE Next
    <2>1. PICK q \in Requests :
            \/ \E o \in Ops : Begin(q, o)
            \/ Activate(q) \/ Close(q) \/ Put(q) \/ SetDeleted(q)
            \/ IssueDelete(q) \/ Replace(q) \/ ReplaceConflict(q)
            \/ Commit(q) \/ Abort(q)
      BY <1>2 DEF Next
    <2>2. CASE \E o \in Ops : Begin(q, o)
      BY <2>2, BeginKeeps
    <2>3. CASE Activate(q)
      BY <2>3, ActivateKeeps
    <2>4. CASE Close(q)
      BY <2>4, CloseKeeps
    <2>5. CASE Put(q)
      BY <2>5, PutKeeps
    <2>6. CASE SetDeleted(q)
      BY <2>6, SetDeletedKeeps
    <2>7. CASE IssueDelete(q)
      BY <2>7, IssueDeleteKeeps
    <2>8. CASE Replace(q)
      BY <2>8, ReplaceKeeps
    <2>9. CASE ReplaceConflict(q)
      BY <2>9, QuietKeeps DEF ReplaceConflict, RunInv, TypeOK, history
    <2>10. CASE Commit(q)
      BY <2>10, CommitKeeps
    <2>11. CASE Abort(q)
      BY <2>11, QuietKeeps DEF Abort, RunInv, TypeOK
    <2> QED
      BY <2>1, <2>2, <2>3, <2>4, <2>5, <2>6, <2>7, <2>8, <2>9, <2>10, <2>11
  <1> QED  BY <1>1, <1>2

-----------------------------------------------------------------------------
(* Every reachable state satisfies the invariant.                          *)
THEOREM RunInvariant == Spec => []RunInv
  <1>1. Init => RunInv
    BY InitInv
  <1>2. RunInv /\ [Next]_vars => RunInv'
    BY StepKeeps
  <1> QED  BY <1>1, <1>2, PTL DEF Spec

(* All variables keep their types.                                         *)
THEOREM RunTypeCorrect == Spec => []TypeOK
  <1>1. RunInv => TypeOK
    BY DEF RunInv
  <1> QED  BY <1>1, RunInvariant, PTL

(* At most one request has written the run and not committed.              *)
THEOREM RunHasOneWriter == Spec => []OneWriter
  <1>1. RunInv => OneWriter
    BY DEF RunInv
  <1> QED  BY <1>1, RunInvariant, PTL

(* However many results and closes race, the audit log tells the status    *)
(* and names at most one activation (nobody setting the status by hand).   *)
THEOREM RunAudited == Spec => []AuditTellsStatus
  <1>1. RunInv => AuditTellsStatus
    BY DEF RunInv
  <1> QED  BY <1>1, RunInvariant, PTL

(* Subscribers end up with the committed status as long as no transaction  *)
(* fails after it published.                                               *)
THEOREM RunAnnounced == Spec => []NewsTellsStatus
  <1>1. RunInv => NewsTellsStatus
    BY DEF RunInv, NewsOfWriter, NewsTellsStatus
  <1> QED  BY <1>1, RunInvariant, PTL

(* A result write activates a planned, live run or leaves the run alone.   *)
THEOREM ResultsOnlyActivate == Spec => ResultOnlyActivates
  <1> DEFINE Harmless(q) ==
        pc[q] = "written" /\ pc'[q] = "idle" /\ op[q].kind = "result"
          => \/ UNCHANGED run
             \/ run.status = "planned" /\ run.live /\ run'.status = "active"
  <1>1. ASSUME RunInv, [Next]_vars, NEW q \in Requests
        PROVE  Harmless(q)
    <2>1. CASE UNCHANGED run
      BY <2>1
    <2>2. CASE run' # run
      <3>1. PICK r \in Requests : Commit(r)
        BY <1>1, <2>2 DEF Next, vars, runVars, Begin, Activate, Close, Put,
           SetDeleted, IssueDelete, Replace, ReplaceConflict, Abort
      <3>2. CASE r # q
        BY <3>1, <3>2, <1>1 DEF Commit, RunInv, TypeOK
      <3>3. CASE r = q /\ op[q].kind = "result"
        <4>1. WritesRun(q) /\ run' = Written(q)
          BY <3>1, <3>3, <2>2 DEF Commit
        <4>2. Locks(q)
          BY <4>1, <3>1, <3>3 DEF Locks, Commit
        <4>3. run.status = "planned" /\ run.live
          BY <4>2, <3>3, <1>1 DEF RunInv, HitStaysTrue
        <4> QED  BY <4>1, <4>3, <3>3 DEF Written
      <3> QED  BY <3>2, <3>3
    <2> QED  BY <2>1, <2>2
  <1>2. RunInv /\ [Next]_vars => [\A q \in Requests : Harmless(q)]_vars
    BY <1>1
  <1> HIDE DEF Harmless
  <1>3. Spec => [][\A q \in Requests : Harmless(q)]_vars
    BY <1>2, RunInvariant, PTL DEF Spec
  <1> QED  BY <1>3 DEF ResultOnlyActivates, Harmless
=============================================================================
