---------------------------- MODULE MailDelivery ----------------------------
(***************************************************************************)
(* What the e-mail outbox promises the services that use it, without       *)
(* workers, claims or retries.  A message that was accepted is owed to its *)
(* recipient until the outbox settles it, once and for good, as sent or as *)
(* failed.  Copies reach the mail server only while the message is owed,   *)
(* and the outbox says "sent" only of a message the server has.            *)
(***************************************************************************)
EXTENDS Naturals

CONSTANT Emails

VARIABLES
  owed,      \* "none" | "owed" | "sent" | "failed", per message
  copies     \* how many times the mail server took the message

Init ==
  /\ owed = [e \in Emails |-> "none"]
  /\ copies = [e \in Emails |-> 0]

Accept(e) ==
  /\ owed[e] = "none"
  /\ owed' = [owed EXCEPT ![e] = "owed"]
  /\ UNCHANGED copies

Transmit(e) ==
  /\ owed[e] = "owed"
  /\ copies' = [copies EXCEPT ![e] = @ + 1]
  /\ UNCHANGED owed

Confirm(e) ==
  /\ owed[e] = "owed"
  /\ copies[e] > 0
  /\ owed' = [owed EXCEPT ![e] = "sent"]
  /\ UNCHANGED copies

GiveUp(e) ==
  /\ owed[e] = "owed"
  /\ owed' = [owed EXCEPT ![e] = "failed"]
  /\ UNCHANGED copies

Next == \E e \in Emails : Accept(e) \/ Transmit(e) \/ Confirm(e) \/ GiveUp(e)

Spec == Init /\ [][Next]_<<owed, copies>>
=============================================================================
