-------------------------- MODULE InvitationsProofs --------------------------
(***************************************************************************)
(* What Invitations promises for any number of requests and people.        *)
(*                                                                         *)
(* Inductive invariants, one on top of the other: Typed, the types and     *)
(* where a request can be, by what it does (Placed); Spendable, what       *)
(* becomes of tokens that are spent; RowsInv, what a request that creates  *)
(* users holds before it commits (Pending); Owners, whose a token is;      *)
(* Tallied, what a bulk request is through with; EntitledAll, what a       *)
(* request was allowed when it looked.                                     *)
(***************************************************************************)
EXTENDS Invitations, FiniteSetTheorems, TLAPS

Creates(q) == op[q].kind \in CreateKinds

(* Where a request can be, by what it does.                                *)
Placed(q) ==
  /\ pc[q] \in {"check", "insert"} => Creates(q)
  /\ pc[q] \in {"mint", "enqueue"} => cur[q] # 0 /\ (Creates(q) \/ op[q].kind = "forgot")
  /\ pc[q] \in {"check", "insert", "mint", "enqueue"} /\ Creates(q) =>
       row[q] \in 1..Len(op[q].rows)
  /\ pc[q] \in {"consume", "set"} => op[q].kind = "reset"
  /\ pc[q] # "idle" /\ op[q].kind = "reset" => held[q] # 0 \/ pc[q] = "answered"
  /\ ~ Creates(q) => mine[q] = Empty
  /\ \A m \in sent[q] : m.token <= lastToken

Typed == /\ TypeOK
         /\ \A q \in Requests : Placed(q)
         /\ \A m \in mails : m.token <= lastToken

-----------------------------------------------------------------------------
LEMMA OpsAreTyped ==
  ASSUME NEW o \in Ops
  PROVE  /\ o.kind \in CreateKinds \union UserKinds \union {"reset"}
         /\ o.rows \in Seq(People) /\ o.strict \in BOOLEAN
         /\ o.kind \in CreateKinds => o.rows # <<>>
         /\ o.role \in Roles \union {None}
         /\ o.active \in BOOLEAN
         /\ Len(o.rows) \in Nat
         /\ \A i \in 1..Len(o.rows) : o.rows[i] \in People
         /\ o.kind \in CreateKinds => 1 \in 1..Len(o.rows)
  <1>1. o.rows \in Seq(People)
    BY InvitationsAssumption
  <1>2. Len(o.rows) \in Nat /\ \A i \in 1..Len(o.rows) : o.rows[i] \in People
    BY <1>1
  <1>3. o.rows # <<>> => Len(o.rows) # 0
    BY <1>1
  <1> QED  BY <1>1, <1>2, <1>3, InvitationsAssumption

LEMMA EmptyIsEmpty == DOMAIN Empty = {} /\ Empty \in [{} -> People] /\ Empty \in [{} -> Row]
                      /\ Empty \in [{} -> {0}]
  BY DEF Empty

-----------------------------------------------------------------------------
(* The parts of the state that a request does not own.                     *)
Shared == <<users, password, lastId, tokens, lastToken, mails, begun, overlapped>>

SharedTyped ==
  /\ lastId \in Nat /\ lastToken \in Nat /\ begun \in Nat
  /\ DOMAIN users \subseteq 1..lastId /\ users \in [DOMAIN users -> Row]
  /\ password \in [DOMAIN users -> 0..lastToken]
  /\ DOMAIN tokens \subseteq 1..lastToken
  /\ tokens \in [DOMAIN tokens -> [user : 1..lastId, purpose : Purposes]]
  /\ mails \subseteq Mail
  /\ \A m \in mails : m.token <= lastToken
  /\ overlapped \in BOOLEAN

(* What it owns: the session of one request, as its steps may change it.   *)
SessionTyped(q) ==
  /\ pc[q] \in {"idle", "check", "insert", "mint", "enqueue", "consume",
                "set", "commit", "answered"}
  /\ op[q] \in Ops
  /\ row[q] \in Nat \ {0} /\ cur[q] \in 0..lastId
  /\ seen[q] \in Row \union {NoUser}
  /\ held[q] \in 0..lastToken
  /\ DOMAIN mine[q] \subseteq 1..lastId
  /\ mine[q] \in [DOMAIN mine[q] -> People]
  /\ sent[q] \subseteq Mail
  /\ errors[q] \subseteq 1..row[q]
  /\ Placed(q)

Functions ==
  /\ pc = [q \in Requests |-> pc[q]] /\ op = [q \in Requests |-> op[q]]
  /\ row = [q \in Requests |-> row[q]] /\ cur = [q \in Requests |-> cur[q]]
  /\ seen = [q \in Requests |-> seen[q]] /\ held = [q \in Requests |-> held[q]]
  /\ sent = [q \in Requests |-> sent[q]] /\ errors = [q \in Requests |-> errors[q]]
  /\ DOMAIN mine = Requests

LEMMA TypedParts ==
  Typed <=> SharedTyped /\ Functions /\ \A q \in Requests : SessionTyped(q)
  <1>1. ASSUME Typed PROVE SharedTyped /\ \A q \in Requests : SessionTyped(q)
    BY <1>1 DEF Typed, TypeOK, SharedTyped, SessionTyped
  <1>2. ASSUME Typed PROVE Functions
    BY <1>2 DEF Typed, TypeOK, Functions
  <1>3. ASSUME SharedTyped, Functions, \A q \in Requests : SessionTyped(q)
        PROVE  Typed
    <2>1. /\ pc \in [Requests -> {"idle", "check", "insert", "mint", "enqueue", "consume",
                          "set", "commit", "answered"}]
          /\ op \in [Requests -> Ops]
      BY <1>3 DEF Functions, SessionTyped
    <2>2. row \in [Requests -> Nat \ {0}] /\ cur \in [Requests -> 0..lastId]
      BY <1>3 DEF Functions, SessionTyped
    <2>3. seen \in [Requests -> Row \union {NoUser}] /\ held \in [Requests -> 0..lastToken]
      BY <1>3 DEF Functions, SessionTyped
    <2>4. sent \in [Requests -> SUBSET Mail]
      BY <1>3 DEF Functions, SessionTyped
    <2>5. errors \in [Requests -> SUBSET (Nat \ {0})]
      <3>1. \A q \in Requests : errors[q] \subseteq Nat \ {0}
        BY <1>3 DEF SessionTyped
      <3> QED  BY <1>3, <3>1 DEF Functions
    <2> QED  BY <1>3, <2>1, <2>2, <2>3, <2>4, <2>5
             DEF Typed, TypeOK, SharedTyped, SessionTyped, Functions
  <1> QED  BY <1>1, <1>2, <1>3

LEMMA InitTyped ==
  ASSUME Init
  PROVE  Typed
  <1>1. (CHOOSE o \in Ops : TRUE) \in Ops
    BY InvitationsAssumption
  <1>2. Functions
    BY DEF Init, Functions
  <1>3. SharedTyped
    BY EmptyIsEmpty DEF Init, SharedTyped
  <1>4. ASSUME NEW q \in Requests PROVE SessionTyped(q)
    <2>1. /\ pc[q] = "idle" /\ op[q] \in Ops /\ row[q] = 1 /\ cur[q] = 0
          /\ seen[q] = NoUser /\ held[q] = 0 /\ mine[q] = Empty /\ sent[q] = {}
          /\ errors[q] = {} /\ lastId = 0 /\ lastToken = 0
      BY <1>1 DEF Init
    <2> QED  BY <2>1, EmptyIsEmpty DEF SessionTyped, Placed
  <1> QED  BY <1>2, <1>3, <1>4, TypedParts

-----------------------------------------------------------------------------
(* A step changes the session of one request.                              *)
Same(r) ==
  /\ pc'[r] = pc[r] /\ op'[r] = op[r] /\ row'[r] = row[r] /\ cur'[r] = cur[r]
  /\ seen'[r] = seen[r] /\ held'[r] = held[r] /\ mine'[r] = mine[r]
  /\ sent'[r] = sent[r] /\ errors'[r] = errors[r]

Only(q) == Functions' /\ \A r \in Requests \ {q} : Same(r)

LEMMA SameTyped ==
  ASSUME Typed, NEW r \in Requests, Same(r), lastId' \in Nat, lastToken' \in Nat,
         lastId <= lastId', lastToken <= lastToken'
  PROVE  SessionTyped(r)'
  <1>1. SessionTyped(r) /\ lastId \in Nat /\ lastToken \in Nat
    BY TypedParts DEF SharedTyped
  <1>2. 1..lastId \subseteq 1..lastId' /\ 0..lastId \subseteq 0..lastId'
        /\ 0..lastToken \subseteq 0..lastToken'
    BY <1>1
  <1>3. \A m \in sent[r] : m.token <= lastToken'
    BY <1>1 DEF SessionTyped, Placed, Mail
  <1> QED  BY <1>1, <1>2, <1>3 DEF SessionTyped, Placed, Same, Creates

(* The ways a session goes on.                                             *)
LEMMA RejectOnly ==
  ASSUME Typed, NEW q \in Requests, Reject(q), UNCHANGED op
  PROVE  /\ Only(q)
         /\ pc'[q] = "idle" /\ op'[q] = op[q] /\ row'[q] = 1 /\ cur'[q] = 0
         /\ seen'[q] = NoUser /\ held'[q] = 0 /\ mine'[q] = Empty /\ sent'[q] = {}
         /\ errors'[q] = {}
  BY TypedParts DEF Reject, Forget, Only, Same, Functions

LEMMA AdvanceOnly ==
  ASSUME Typed, NEW q \in Requests, NEW F, Advance(q, F),
         DOMAIN mine' = Requests, \A r \in Requests \ {q} : mine'[r] = mine[r],
         sent' = [sent EXCEPT ![q] = sent'[q]],
         UNCHANGED <<op, seen, held>>
  PROVE  /\ Only(q)
         /\ pc'[q] = IF Done(q, F) THEN "commit" ELSE "check"
         /\ row'[q] = IF Done(q, F) THEN row[q] ELSE row[q] + 1
         /\ op'[q] = op[q] /\ cur'[q] = 0 /\ errors'[q] = F
         /\ seen'[q] = seen[q] /\ held'[q] = held[q]
  BY TypedParts DEF Advance, Only, Same, Functions

LEMMA RowFailsOnly ==
  ASSUME Typed, NEW q \in Requests, RowFails(q), UNCHANGED op
  PROVE  /\ Only(q) /\ op'[q] = op[q] /\ cur'[q] = 0
         /\ \/ /\ op[q].kind = "bulk"
               /\ mine'[q] = BackToSavepoint(q)
               /\ errors'[q] = errors[q] \union {row[q]}
               /\ \/ pc'[q] = "commit" /\ row'[q] = row[q]
                  \/ pc'[q] = "check" /\ row'[q] = row[q] + 1
                     /\ row[q] # Len(op[q].rows)
               /\ seen'[q] = seen[q] /\ held'[q] = held[q] /\ sent'[q] = sent[q]
            \/ /\ op[q].kind # "bulk"
               /\ pc'[q] = "idle" /\ row'[q] = 1 /\ seen'[q] = NoUser /\ held'[q] = 0
               /\ mine'[q] = Empty /\ sent'[q] = {} /\ errors'[q] = {}
  <1>1. CASE op[q].kind = "bulk"
    <2>1. /\ mine' = [mine EXCEPT ![q] = BackToSavepoint(q)]
          /\ Advance(q, errors[q] \union {row[q]})
          /\ UNCHANGED <<seen, held, sent>>
      BY <1>1 DEF RowFails
    <2>2. /\ mine'[q] = BackToSavepoint(q) /\ DOMAIN mine' = Requests
          /\ \A r \in Requests \ {q} : mine'[r] = mine[r]
      BY <2>1, TypedParts DEF Functions
    <2>3. sent' = [sent EXCEPT ![q] = sent'[q]] /\ sent'[q] = sent[q]
      BY <2>1, TypedParts DEF Functions
    <2> QED  BY <1>1, <2>1, <2>2, <2>3, AdvanceOnly DEF Done
  <1>2. CASE op[q].kind # "bulk"
    BY <1>2, RejectOnly DEF RowFails
  <1> QED  BY <1>1, <1>2

LEMMA RowFailsTyped ==
  ASSUME Typed, NEW q \in Requests, RowFails(q), UNCHANGED <<op, lastId, lastToken>>,
         pc[q] \in {"check", "insert", "mint", "enqueue"}
  PROVE  SessionTyped(q)'
  <1>1. SessionTyped(q) /\ lastId \in Nat /\ lastToken \in Nat
    BY TypedParts DEF SharedTyped
  <1>2. /\ Only(q) /\ op'[q] = op[q] /\ cur'[q] = 0
    BY RowFailsOnly
  <1>3. CASE /\ op[q].kind = "bulk"
             /\ mine'[q] = BackToSavepoint(q)
             /\ errors'[q] = errors[q] \union {row[q]}
             /\ \/ pc'[q] = "commit" /\ row'[q] = row[q]
                \/ pc'[q] = "check" /\ row'[q] = row[q] + 1
                   /\ row[q] # Len(op[q].rows)
             /\ seen'[q] = seen[q] /\ held'[q] = held[q] /\ sent'[q] = sent[q]
    <2>1. DOMAIN mine'[q] \subseteq DOMAIN mine[q] /\ mine'[q] \in [DOMAIN mine'[q] -> People]
      BY <1>1, <1>3 DEF BackToSavepoint, Without, SessionTyped
    <2>2. Creates(q) /\ row[q] \in 1..Len(op[q].rows) /\ Len(op[q].rows) \in Nat
      BY <1>1, <1>3, OpsAreTyped DEF SessionTyped, Placed, Creates, CreateKinds
    <2>3. row'[q] \in Nat \ {0} /\ (pc'[q] = "check" => row'[q] \in 1..Len(op[q].rows))
      BY <1>3, <2>2
    <2>4. errors'[q] \subseteq 1..row'[q]
      BY <1>1, <1>3, <2>2 DEF SessionTyped
    <2>5. (Creates(q))'
      BY <1>2, <2>2 DEF Creates
    <2>6. Placed(q)'
      BY <1>1, <1>2, <1>3, <2>3, <2>5 DEF SessionTyped, Placed
    <2>7. DOMAIN mine'[q] \subseteq 1..lastId'
      BY <1>1, <2>1 DEF SessionTyped
    <2> QED  BY <1>1, <1>2, <1>3, <2>1, <2>3, <2>4, <2>6, <2>7 DEF SessionTyped
  <1>4. CASE /\ pc'[q] = "idle" /\ row'[q] = 1 /\ seen'[q] = NoUser /\ held'[q] = 0
             /\ mine'[q] = Empty /\ sent'[q] = {} /\ errors'[q] = {}
    BY <1>1, <1>2, <1>4, EmptyIsEmpty DEF SessionTyped, Placed
  <1> QED  BY <1>3, <1>4, RowFailsOnly

LEMMA BeginTyped ==
  ASSUME Typed, NEW q \in Requests, NEW o \in Ops, NEW u \in DOMAIN users \union {0},
         NEW t \in Known \union {0}, Begin(q, o, u, t)
  PROVE  Only(q) /\ SessionTyped(q)' /\ SharedTyped'
  <1>1. Only(q)
    BY TypedParts DEF Begin, Only, Same, Functions
  <1>2. /\ pc'[q] = First(o, u) /\ op'[q] = o /\ row'[q] = 1 /\ errors'[q] = {}
        /\ cur'[q] = IF First(o, u) = "idle" THEN 0 ELSE u
        /\ seen'[q] = IF First(o, u) # "idle" /\ Live(u) THEN users[u] ELSE NoUser
        /\ held'[q] = t /\ mine'[q] = Empty /\ sent'[q] = {}
    BY TypedParts DEF Begin, Functions
  <1>3. SharedTyped /\ UNCHANGED data /\ begun' = begun + 1
        /\ overlapped' = (overlapped \/ \E r \in Requests \ {q} : Open(r))
    BY TypedParts DEF Begin
  <1>4. SharedTyped'
    BY <1>3 DEF SharedTyped, data
  <1>5. t \in 0..lastToken
    BY <1>3 DEF Known, SharedTyped, Mail
  <1>6. u \in 0..lastId /\ (Live(u) => users[u] \in Row)
    BY <1>3 DEF SharedTyped, Live
  <1>7. /\ First(o, u) \in {"check", "mint", "idle", "consume", "commit"}
        /\ First(o, u) = "check" => o.kind \in CreateKinds
        /\ First(o, u) = "mint" => o.kind = "forgot" /\ u # 0
        /\ First(o, u) = "consume" => o.kind = "reset"
    <2>1. o.kind \in CreateKinds \union UserKinds \union {"reset"}
      BY OpsAreTyped
    <2>2. o.kind = "forgot" => u # 0
      BY DEF Begin, UserKinds
    <2>3. CASE o.kind \in CreateKinds
      BY <2>3 DEF First, CreateKinds
    <2>4. CASE o.kind = "forgot"
      BY <2>2, <2>4 DEF First, CreateKinds
    <2>5. CASE o.kind = "reset"
      BY <2>5 DEF First, CreateKinds
    <2>6. CASE o.kind \in {"edit", "delete"}
      BY <2>6 DEF First, CreateKinds
    <2> QED  BY <2>1, <2>3, <2>4, <2>5, <2>6 DEF UserKinds
  <1>8. UNCHANGED <<lastId, lastToken>>
    BY <1>3 DEF data
  <1>9. Placed(q)'
    <2>1. o.kind = "reset" => t # 0
      BY DEF Begin
    <2> QED  BY <1>2, <1>7, <1>8, <2>1, OpsAreTyped, EmptyIsEmpty DEF Placed, Creates
  <1>10. SessionTyped(q)'
    <2>1. cur'[q] \in 0..lastId' /\ held'[q] \in 0..lastToken'
      BY <1>2, <1>3, <1>5, <1>6, <1>8 DEF SharedTyped
    <2>2. seen'[q] \in Row \union {NoUser}
      BY <1>2, <1>6
    <2>3. DOMAIN mine'[q] \subseteq 1..lastId' /\ mine'[q] \in [DOMAIN mine'[q] -> People]
      BY <1>2, EmptyIsEmpty
    <2> QED  BY <1>2, <1>7, <1>9, <2>1, <2>2, <2>3 DEF SessionTyped
  <1> QED  BY <1>1, <1>4, <1>10

LEMMA CheckTyped ==
  ASSUME Typed, NEW q \in Requests, Check(q) \/ DeadlockBroken(q) \/ MailFails(q)
  PROVE  Only(q) /\ SessionTyped(q)' /\ SharedTyped'
  <1>1. SharedTyped /\ SessionTyped(q) /\ UNCHANGED <<data, op, begun, overlapped>>
    BY TypedParts DEF Check, DeadlockBroken, MailFails
  <1>2. SharedTyped' /\ UNCHANGED <<lastId, lastToken>>
    BY <1>1 DEF SharedTyped, data
  <1>3. CASE RowFails(q)
    <2>1. pc[q] \in {"check", "insert", "mint", "enqueue"}
      BY DEF Check, DeadlockBroken, MailFails, Blocked
    <2> QED  BY <1>1, <1>2, <1>3, <2>1, RowFailsTyped, RowFailsOnly
  <1>4. CASE ~ RowFails(q)
    <2>1. pc[q] = "check" /\ pc' = [pc EXCEPT ![q] = "insert"] /\ UNCHANGED session
      BY <1>4 DEF Check, DeadlockBroken, MailFails
    <2>2. Only(q) /\ pc'[q] = "insert"
      BY <1>1, <2>1, TypedParts DEF Only, Same, Functions, session
    <2> QED  BY <1>1, <1>2, <2>1, <2>2 DEF SessionTyped, Placed, Creates, session
  <1> QED  BY <1>3, <1>4

LEMMA InsertTyped ==
  ASSUME Typed, NEW q \in Requests, Insert(q)
  PROVE  Only(q) /\ SessionTyped(q)' /\ SharedTyped' /\ lastId <= lastId'
  <1>1. /\ SharedTyped /\ SessionTyped(q) /\ pc[q] = "insert"
        /\ UNCHANGED <<users, password, tokens, lastToken, mails, op, begun, overlapped>>
    BY TypedParts DEF Insert
  <1>2. CASE RowFails(q) /\ UNCHANGED lastId
    <2>1. SharedTyped'
      BY <1>1, <1>2 DEF SharedTyped
    <2> QED  BY <1>1, <1>2, <2>1, RowFailsTyped, RowFailsOnly DEF SharedTyped
  <1>3. CASE ~ (RowFails(q) /\ UNCHANGED lastId)
    <2>1. /\ lastId' = lastId + 1
          /\ cur' = [cur EXCEPT ![q] = lastId + 1]
          /\ mine' = [mine EXCEPT ![q] = With(mine[q], lastId + 1, Person(q))]
          /\ pc' = [pc EXCEPT ![q] = "mint"]
          /\ UNCHANGED <<row, seen, held, sent, errors>>
      BY <1>3 DEF Insert, NextId
    <2>2. /\ Only(q) /\ pc'[q] = "mint" /\ cur'[q] = lastId + 1
          /\ mine'[q] = With(mine[q], lastId + 1, Person(q))
      BY <1>1, <2>1, TypedParts DEF Only, Same, Functions
    <2>3. lastId \in Nat
      BY <1>1 DEF SharedTyped
    <2>4. SharedTyped'
      BY <1>1, <2>1, <2>3 DEF SharedTyped
    <2>5. Person(q) \in People /\ Creates(q) /\ row[q] \in 1..Len(op[q].rows)
      BY <1>1, OpsAreTyped DEF SessionTyped, Placed, Person, Creates
    <2>6. /\ DOMAIN mine'[q] = DOMAIN mine[q] \union {lastId + 1}
          /\ mine'[q] \in [DOMAIN mine'[q] -> People]
      BY <1>1, <2>2, <2>5 DEF With, SessionTyped
    <2>7. DOMAIN mine'[q] \subseteq 1..lastId'
      BY <1>1, <2>1, <2>3, <2>6 DEF SessionTyped
    <2>8. Placed(q)'
      BY <1>1, <2>1, <2>2, <2>3, <2>5 DEF SessionTyped, Placed, Creates
    <2>9. cur'[q] \in 0..lastId'
      BY <2>1, <2>2, <2>3
    <2> QED  BY <1>1, <2>1, <2>2, <2>3, <2>4, <2>6, <2>7, <2>8, <2>9 DEF SessionTyped
  <1> QED  BY <1>2, <1>3

LEMMA MintTyped ==
  ASSUME Typed, NEW q \in Requests, Mint(q)
  PROVE  /\ Only(q) /\ SessionTyped(q)' /\ SharedTyped' /\ lastToken <= lastToken'
         /\ pc'[q] = "enqueue" /\ held'[q] = lastToken + 1
  <1>1. /\ SharedTyped /\ SessionTyped(q) /\ pc[q] = "mint"
        /\ lastToken \in Nat /\ lastId \in Nat
    BY TypedParts DEF Mint, SharedTyped
  <1>2. Only(q) /\ pc'[q] = "enqueue" /\ held'[q] = lastToken + 1
    BY TypedParts DEF Mint, Only, Same, Functions
  <1>3. cur[q] \in 1..lastId
    BY <1>1 DEF SessionTyped, Placed
  <1>4. tokens' \in [DOMAIN tokens' -> [user : 1..lastId', purpose : Purposes]]
        /\ DOMAIN tokens' = DOMAIN tokens \union {lastToken + 1}
    BY <1>1, <1>3 DEF Mint, With, SharedTyped, Purpose, Purposes
  <1>5. DOMAIN tokens' \subseteq 1..lastToken'
    BY <1>1, <1>4 DEF Mint, SharedTyped
  <1>6. password' \in [DOMAIN users' -> 0..lastToken']
    <2>1. 0..lastToken \subseteq 0..lastToken'
      BY <1>1 DEF Mint
    <2> QED  BY <1>1, <2>1 DEF Mint, SharedTyped
  <1>7. \A m \in mails' : m.token <= lastToken'
    BY <1>1 DEF Mint, SharedTyped, Mail
  <1>8. SharedTyped'
    BY <1>1, <1>4, <1>5, <1>6, <1>7 DEF Mint, SharedTyped
  <1>9. \A m \in sent'[q] : m.token <= lastToken'
    BY <1>1 DEF Mint, SessionTyped, Placed, Mail
  <1>10. Placed(q)'
    BY <1>1, <1>2, <1>9 DEF Mint, SessionTyped, Placed, Creates
  <1>11. held'[q] \in 0..lastToken'
    BY <1>1, <1>2 DEF Mint
  <1>12. SessionTyped(q)'
    BY <1>1, <1>2, <1>10, <1>11 DEF Mint, SessionTyped
  <1> QED  BY <1>1, <1>2, <1>8, <1>12 DEF Mint

LEMMA EnqueueTyped ==
  ASSUME Typed, NEW q \in Requests, Enqueue(q)
  PROVE  /\ Only(q) /\ SessionTyped(q)' /\ SharedTyped'
         /\ sent'[q] = sent[q] \union {[user |-> cur[q], token |-> held[q], kind |-> Purpose(q)]}
         /\ \/ op[q].kind = "forgot" /\ pc'[q] = "commit" /\ cur'[q] = cur[q]
            \/ Creates(q) /\ pc'[q] \in {"commit", "check"} /\ cur'[q] = 0
  <1>1. /\ SharedTyped /\ SessionTyped(q) /\ pc[q] = "enqueue"
        /\ UNCHANGED <<data, op, seen, held, mine, begun, overlapped>>
        /\ lastToken \in Nat
    BY TypedParts DEF Enqueue, SharedTyped
  <1>2. sent'[q] = sent[q] \union {[user |-> cur[q], token |-> held[q], kind |-> Purpose(q)]}
        /\ sent' = [sent EXCEPT ![q] = sent'[q]]
    BY TypedParts DEF Enqueue, Functions
  <1>3. SharedTyped' /\ UNCHANGED <<lastId, lastToken>>
    BY <1>1 DEF SharedTyped, data
  <1>4. sent'[q] \subseteq Mail /\ \A m \in sent'[q] : m.token <= lastToken'
    BY <1>1, <1>2, <1>3 DEF SessionTyped, Placed, Mail, Purpose, Purposes
  <1>5. CASE op[q].kind = "forgot"
    <2>1. pc' = [pc EXCEPT ![q] = "commit"] /\ UNCHANGED <<row, cur, errors>>
      BY <1>5 DEF Enqueue
    <2>2. Only(q) /\ pc'[q] = "commit"
      BY <1>1, <1>2, <2>1, TypedParts DEF Only, Same, Functions
    <2>3. Placed(q)'
      BY <1>1, <1>4, <1>5, <2>2 DEF SessionTyped, Placed, Creates, CreateKinds
    <2> QED  BY <1>1, <1>2, <1>3, <1>4, <1>5, <2>1, <2>2, <2>3 DEF SessionTyped
  <1>6. CASE op[q].kind # "forgot"
    <2>1. Advance(q, errors[q])
      BY <1>6 DEF Enqueue
    <2>2. UNCHANGED mine /\ DOMAIN mine = Requests
      BY <1>1, TypedParts DEF Functions
    <2>3. /\ Only(q)
          /\ pc'[q] = IF Done(q, errors[q]) THEN "commit" ELSE "check"
          /\ row'[q] = IF Done(q, errors[q]) THEN row[q] ELSE row[q] + 1
          /\ op'[q] = op[q] /\ cur'[q] = 0 /\ errors'[q] = errors[q]
          /\ seen'[q] = seen[q] /\ held'[q] = held[q]
      BY <1>1, <1>2, <2>1, <2>2, AdvanceOnly
    <2>4. Creates(q) /\ row[q] \in 1..Len(op[q].rows) /\ Len(op[q].rows) \in Nat
      BY <1>1, <1>6, OpsAreTyped DEF SessionTyped, Placed
    <2>5. row'[q] \in Nat \ {0} /\ (pc'[q] = "check" => row'[q] \in 1..Len(op[q].rows))
      BY <2>3, <2>4 DEF Done
    <2>6. errors'[q] \subseteq 1..row'[q]
      BY <1>1, <2>3, <2>4 DEF SessionTyped
    <2>7. Placed(q)'
      BY <1>4, <2>3, <2>4, <2>5 DEF Placed, Creates, CreateKinds
    <2>8. pc'[q] \in {"commit", "check"} /\ cur'[q] \in 0..lastId'
      BY <1>1, <1>3, <2>3 DEF SharedTyped
    <2>9. SessionTyped(q)'
      BY <1>1, <1>3, <1>4, <2>2, <2>3, <2>5, <2>6, <2>7, <2>8 DEF SessionTyped
    <2> QED  BY <1>2, <1>3, <2>3, <2>4, <2>8, <2>9
  <1> QED  BY <1>5, <1>6

LEMMA ConsumeTyped ==
  ASSUME Typed, NEW q \in Requests, Consume(q)
  PROVE  /\ Only(q) /\ SessionTyped(q)' /\ SharedTyped'
         /\ \/ /\ held[q] \in DOMAIN tokens /\ tokens' = Without(tokens, held[q])
               /\ pc'[q] = "set" /\ cur'[q] = tokens[held[q]].user
               /\ held'[q] = held[q] /\ sent'[q] = sent[q]
            \/ UNCHANGED tokens /\ pc'[q] = "idle" /\ sent'[q] = {}
  <1>1. /\ SharedTyped /\ SessionTyped(q) /\ pc[q] = "consume"
        /\ UNCHANGED <<users, password, lastId, lastToken, mails, op, begun, overlapped>>
    BY TypedParts DEF Consume
  <1>2. CASE held[q] \in DOMAIN tokens
    <2>1. /\ cur' = [cur EXCEPT ![q] = tokens[held[q]].user]
          /\ tokens' = Without(tokens, held[q])
          /\ pc' = [pc EXCEPT ![q] = "set"]
          /\ UNCHANGED <<row, seen, held, mine, sent, errors>>
      BY <1>2 DEF Consume, Taken
    <2>2. Only(q) /\ pc'[q] = "set" /\ cur'[q] = tokens[held[q]].user
      BY <1>1, <2>1, TypedParts DEF Only, Same, Functions
    <2>3. cur'[q] \in 0..lastId'
      BY <1>1, <1>2, <2>2 DEF SharedTyped
    <2>4. /\ DOMAIN tokens' \subseteq DOMAIN tokens
          /\ tokens' \in [DOMAIN tokens' -> [user : 1..lastId, purpose : Purposes]]
      BY <1>1, <2>1 DEF Without, SharedTyped
    <2>5. SharedTyped'
      BY <1>1, <2>4 DEF SharedTyped
    <2>6. Placed(q)'
      BY <1>1, <2>1, <2>2 DEF SessionTyped, Placed, Creates
    <2> QED  BY <1>1, <1>2, <2>1, <2>2, <2>3, <2>5, <2>6 DEF SessionTyped
  <1>3. CASE held[q] \notin DOMAIN tokens
    <2>1. Reject(q) /\ UNCHANGED tokens
      BY <1>3 DEF Consume
    <2>2. SharedTyped'
      BY <1>1, <2>1 DEF SharedTyped
    <2>3. /\ Only(q) /\ pc'[q] = "idle" /\ op'[q] = op[q] /\ row'[q] = 1 /\ cur'[q] = 0
          /\ seen'[q] = NoUser /\ held'[q] = 0 /\ mine'[q] = Empty /\ sent'[q] = {}
          /\ errors'[q] = {}
      BY <1>1, <2>1, RejectOnly
    <2> QED  BY <1>1, <2>1, <2>2, <2>3, EmptyIsEmpty DEF SessionTyped, Placed, SharedTyped
  <1> QED  BY <1>2, <1>3

LEMMA SetTyped ==
  ASSUME Typed, NEW q \in Requests, SetPassword(q) \/ Fail(q)
  PROVE  Only(q) /\ SessionTyped(q)' /\ SharedTyped'
  <1>1. SharedTyped /\ SessionTyped(q) /\ UNCHANGED <<data, op, begun, overlapped>>
    BY TypedParts DEF SetPassword, Fail
  <1>2. SharedTyped' /\ UNCHANGED <<lastId, lastToken>>
    BY <1>1 DEF SharedTyped, data
  <1>3. CASE Reject(q)
    <2>1. /\ Only(q) /\ pc'[q] = "idle" /\ op'[q] = op[q] /\ row'[q] = 1 /\ cur'[q] = 0
          /\ seen'[q] = NoUser /\ held'[q] = 0 /\ mine'[q] = Empty /\ sent'[q] = {}
          /\ errors'[q] = {}
      BY <1>1, <1>3, RejectOnly
    <2> QED  BY <1>1, <1>2, <2>1, EmptyIsEmpty DEF SessionTyped, Placed, SharedTyped
  <1>4. CASE ~ Reject(q)
    <2>1. pc[q] = "set" /\ pc' = [pc EXCEPT ![q] = "commit"] /\ UNCHANGED session
      BY <1>4 DEF SetPassword, Fail
    <2>2. Only(q) /\ pc'[q] = "commit"
      BY <1>1, <2>1, TypedParts DEF Only, Same, Functions, session
    <2> QED  BY <1>1, <1>2, <2>1, <2>2 DEF SessionTyped, Placed, Creates, session
  <1> QED  BY <1>3, <1>4

\* What Commit makes of the rows.
LEMMA CommitRows ==
  ASSUME Typed, NEW q \in Requests, Commit(q)
  PROVE  /\ DOMAIN users' = DOMAIN users \union DOMAIN mine[q]
         /\ users' \in [DOMAIN users' -> Row]
         /\ DOMAIN password' = DOMAIN users'
         /\ password' \in [DOMAIN users' -> 0..lastToken]
         /\ \A u \in DOMAIN users' :
              /\ password'[u] = IF u = cur[q] /\ op[q].kind = "reset" THEN held[q]
                                ELSE IF u \in DOMAIN users THEN password[u] ELSE 0
              /\ users'[u].person = IF u \in DOMAIN mine[q] THEN mine[q][u]
                                    ELSE users[u].person
  <1>1. SharedTyped /\ SessionTyped(q) /\ lastToken \in Nat
    BY TypedParts DEF SharedTyped
  <1>2. op[q].role \in Roles \union {None} /\ op[q].active \in BOOLEAN
    BY <1>1, OpsAreTyped DEF SessionTyped
  <1>3. ASSUME NEW u \in DOMAIN users \union DOMAIN mine[q]
        PROVE  /\ Written(q, u) \in Row
               /\ Written(q, u).person = IF u \in DOMAIN mine[q] THEN mine[q][u]
                                         ELSE users[u].person
    <2>1. CASE u \in DOMAIN mine[q]
      <3>1. mine[q][u] \in People /\ RoleOf[mine[q][u]] \in Roles
        BY <1>1, <2>1, InvitationsAssumption DEF SessionTyped
      <3>2. op[q].kind \notin {"edit", "delete"}
        BY <1>1, <2>1, EmptyIsEmpty DEF SessionTyped, Placed, Creates, CreateKinds
      <3>3. Written(q, u) = NewUser(mine[q][u])
        BY <2>1, <3>2 DEF Written
      <3> QED  BY <2>1, <3>1, <3>3 DEF NewUser, Row
    <2>2. CASE u \notin DOMAIN mine[q]
      <3>1. users[u] \in Row
        BY <1>1, <2>2 DEF SharedTyped
      <3>2. Edited(q, users[u]) \in Row /\ Edited(q, users[u]).person = users[u].person
        BY <1>2, <3>1 DEF Edited, Row
      <3>3. /\ [users[u] EXCEPT !.gone = TRUE] \in Row
            /\ [users[u] EXCEPT !.gone = TRUE].person = users[u].person
        BY <3>1 DEF Row
      <3>4. CASE u = cur[q] /\ op[q].kind = "edit"
        BY <2>2, <3>2, <3>4 DEF Written
      <3>5. CASE u = cur[q] /\ op[q].kind = "delete"
        BY <2>2, <3>3, <3>5 DEF Written
      <3>6. CASE ~ (u = cur[q] /\ op[q].kind \in {"edit", "delete"})
        BY <2>2, <3>1, <3>6 DEF Written
      <3> QED  BY <3>4, <3>5, <3>6
    <2> QED  BY <2>1, <2>2
  <1>4. users' = [u \in DOMAIN users \union DOMAIN mine[q] |-> Written(q, u)]
    BY DEF Commit
  <1>5. password' = [u \in DOMAIN users' |->
                       IF u = cur[q] /\ op[q].kind = "reset" THEN held[q]
                       ELSE IF u \in DOMAIN users THEN password[u] ELSE 0]
    BY DEF Commit
  <1>6. password' \in [DOMAIN users' -> 0..lastToken]
    BY <1>1, <1>5 DEF SharedTyped, SessionTyped
  <1> QED  BY <1>3, <1>4, <1>5, <1>6

LEMMA CommitTyped ==
  ASSUME Typed, NEW q \in Requests, Commit(q)
  PROVE  /\ Only(q) /\ SessionTyped(q)' /\ SharedTyped'
         /\ pc'[q] = "answered" /\ cur'[q] = 0 /\ held'[q] = 0 /\ sent'[q] = {}
         /\ op'[q] = op[q] /\ mine'[q] = mine[q]
  <1>1. /\ SharedTyped /\ SessionTyped(q)
        /\ UNCHANGED <<lastId, tokens, lastToken, op, row, mine, errors, begun, overlapped>>
    BY TypedParts DEF Commit
  <1>2. /\ Only(q) /\ pc'[q] = "answered" /\ op'[q] = op[q] /\ row'[q] = row[q]
        /\ cur'[q] = 0 /\ seen'[q] = NoUser /\ held'[q] = 0 /\ mine'[q] = mine[q]
        /\ sent'[q] = {} /\ errors'[q] = errors[q]
    BY <1>1, TypedParts DEF Commit, Forget, Only, Same, Functions
  <1>3. mails' \subseteq Mail /\ \A m \in mails' : m.token <= lastToken'
    BY <1>1 DEF Commit, SharedTyped, SessionTyped, Placed
  <1>4. DOMAIN users' \subseteq 1..lastId'
    BY <1>1, CommitRows DEF SharedTyped, SessionTyped
  <1>5. SharedTyped'
    BY <1>1, <1>3, <1>4, CommitRows DEF SharedTyped
  <1>6. SessionTyped(q)'
    BY <1>1, <1>2 DEF SessionTyped, Placed, Creates, SharedTyped
  <1> QED  BY <1>2, <1>5, <1>6

LEMMA ExpireTyped ==
  ASSUME Typed, NEW t \in DOMAIN tokens, Expire(t)
  PROVE  /\ SharedTyped' /\ Functions' /\ \A r \in Requests : Same(r)
         /\ UNCHANGED <<users, password, lastId, lastToken, mails>>
         /\ tokens' = Without(tokens, t)
  <1>1. SharedTyped /\ Functions
    BY TypedParts
  <1>2. /\ DOMAIN tokens' \subseteq DOMAIN tokens
        /\ tokens' \in [DOMAIN tokens' -> [user : 1..lastId, purpose : Purposes]]
    BY <1>1 DEF Expire, Without, SharedTyped
  <1>3. SharedTyped'
    BY <1>1, <1>2 DEF Expire, SharedTyped
  <1> QED  BY <1>1, <1>3 DEF Expire, session, Functions, Same

\* Every step is one of these.
Acts(q) ==
  \/ \E o \in Ops, u \in DOMAIN users \union {0}, t \in Known \union {0} : Begin(q, o, u, t)
  \/ Check(q) \/ DeadlockBroken(q) \/ MailFails(q)
  \/ Insert(q) \/ Mint(q) \/ Enqueue(q) \/ Consume(q)
  \/ SetPassword(q) \/ Fail(q) \/ Commit(q)

LEMMA NextActs ==
  Next <=> (\E q \in Requests : Acts(q)) \/ \E t \in DOMAIN tokens : Expire(t)
  BY DEF Next, Step, Acts

LEMMA ActsTyped ==
  ASSUME Typed, NEW q \in Requests, Acts(q)
  PROVE  /\ Only(q) /\ SessionTyped(q)' /\ SharedTyped'
         /\ lastId <= lastId' /\ lastToken <= lastToken'
  <1>1. Only(q) /\ SessionTyped(q)' /\ SharedTyped'
    BY BeginTyped, CheckTyped, InsertTyped, MintTyped, EnqueueTyped, ConsumeTyped,
       SetTyped, CommitTyped DEF Acts
  <1>2. lastId \in Nat /\ lastToken \in Nat
    BY TypedParts DEF SharedTyped
  <1>3. CASE Insert(q)
    BY <1>1, <1>2, <1>3, InsertTyped DEF Insert
  <1>4. CASE Mint(q)
    BY <1>1, <1>2, <1>4, MintTyped DEF Mint
  <1>5. CASE ~ Insert(q) /\ ~ Mint(q)
    <2>1. UNCHANGED <<lastId, lastToken>>
      BY <1>5 DEF Acts, Begin, Check, DeadlockBroken, MailFails, Enqueue, Consume,
                  SetPassword, Fail, Commit, data
    <2> QED  BY <1>1, <1>2, <2>1
  <1> QED  BY <1>3, <1>4, <1>5

LEMMA PartsTyped ==
  SharedTyped' /\ Functions' /\ (\A q \in Requests : SessionTyped(q))' => Typed'
  BY TypedParts, PTL

LEMMA NextTyped ==
  ASSUME Typed, [Next]_vars
  PROVE  Typed'
  <1>1. ASSUME NEW q \in Requests, Acts(q)
        PROVE  Typed'
    <2>1. /\ Only(q) /\ SessionTyped(q)' /\ SharedTyped'
          /\ lastId <= lastId' /\ lastToken <= lastToken'
      BY <1>1, ActsTyped
    <2>2. \A r \in Requests \ {q} : SessionTyped(r)'
      BY <2>1, SameTyped DEF Only, SharedTyped
    <2> QED  BY <2>1, <2>2, PartsTyped DEF Only
  <1>2. ASSUME NEW t \in DOMAIN tokens, Expire(t)
        PROVE  Typed'
    <2>1. /\ SharedTyped' /\ Functions' /\ \A r \in Requests : Same(r)
          /\ UNCHANGED <<lastId, lastToken>> /\ lastId \in Nat /\ lastToken \in Nat
      BY <1>2, ExpireTyped, TypedParts DEF SharedTyped
    <2> QED  BY <2>1, SameTyped, PartsTyped
  <1>3. CASE UNCHANGED vars
    BY <1>3 DEF vars, data, session, Typed, TypeOK, Placed, Creates
  <1> QED  BY <1>1, <1>2, <1>3, NextActs

(* All variables keep their types; ids and tokens are drawn in order.      *)
THEOREM UsersTypeCorrect == Spec => []TypeOK
  <1>1. Spec => []Typed
    BY InitTyped, NextTyped, PTL DEF Spec
  <1>2. Typed => TypeOK
    BY DEF Typed
  <1> QED  BY <1>1, <1>2, PTL

-----------------------------------------------------------------------------
(* A token that can be spent has set no password, and those who spend one  *)
(* have it for themselves.                                                 *)
Spends(q) == op[q].kind = "reset" /\ pc[q] \in {"set", "commit"}

Spendable ==
  /\ SpentStaysSpent
  /\ \A t \in DOMAIN tokens, u \in DOMAIN users : password[u] # t

LEMMA WhoSpends ==
  ASSUME Typed, NEW q \in Requests, Acts(q), Spends(q)'
  PROVE  Consume(q) \/ (Spends(q) /\ held'[q] = held[q] /\ UNCHANGED <<tokens, users, password>>)
  <1>1. SessionTyped(q)
    BY TypedParts
  <1>2. CASE Consume(q)
    BY <1>2
  <1>3. CASE SetPassword(q)
    <2>1. ~ Reject(q)
      BY <1>3, RejectOnly DEF SetPassword, Spends
    <2> QED  BY <1>1, <1>3, <2>1 DEF SetPassword, Spends, SessionTyped, Placed, session, data
  <1>4. CASE Commit(q)
    BY <1>4, CommitTyped DEF Spends
  <1>5. CASE Fail(q)
    BY <1>5, RejectOnly DEF Fail, Spends
  <1>6. CASE \E o \in Ops, u \in DOMAIN users \union {0}, t \in Known \union {0} :
               Begin(q, o, u, t)
    <2>1. PICK o \in Ops, u \in DOMAIN users \union {0}, t \in Known \union {0} :
                 Begin(q, o, u, t)
      BY <1>6
    <2>2. pc'[q] = First(o, u) /\ op'[q] = o
      BY <2>1, TypedParts DEF Begin, Functions
    <2>3. o.kind = "reset" => First(o, u) = "consume"
      BY DEF First, CreateKinds
    <2> QED  BY <2>2, <2>3 DEF Spends
  <1>7. CASE Check(q) \/ DeadlockBroken(q) \/ MailFails(q) \/ Insert(q) \/ Mint(q) \/ Enqueue(q)
    <2>1. UNCHANGED op
      BY <1>7 DEF Check, DeadlockBroken, MailFails, Insert, Mint, Enqueue
    <2>2. op[q].kind # "reset"
      BY <1>1, <1>7 DEF Check, DeadlockBroken, Blocked, MailFails, Insert, Mint, Enqueue,
           SessionTyped, Placed, Creates, CreateKinds
    <2> QED  BY <2>1, <2>2 DEF Spends
  <1> QED  BY <1>2, <1>3, <1>4, <1>5, <1>6, <1>7 DEF Acts

\* Tokens come from Mint only, passwords from Commit.
LEMMA WhatChanges ==
  ASSUME Typed, NEW q \in Requests, Acts(q)
  PROVE  /\ \/ Mint(q) /\ DOMAIN tokens' = DOMAIN tokens \union {lastToken + 1}
            \/ DOMAIN tokens' \subseteq DOMAIN tokens
         /\ Commit(q) \/ UNCHANGED <<users, password, mails>>
  <1>1. CASE Mint(q)
    BY <1>1 DEF Mint, With
  <1>2. CASE Consume(q)
    BY <1>2, ConsumeTyped DEF Consume, Without
  <1>3. CASE ~ Mint(q) /\ ~ Consume(q)
    BY <1>3 DEF Acts, Begin, Check, DeadlockBroken, MailFails, Insert, Enqueue,
                SetPassword, Fail, Commit, data
  <1> QED  BY <1>1, <1>2, <1>3

LEMMA ActsSpendable ==
  ASSUME Typed, Spendable, NEW q \in Requests, Acts(q)
  PROVE  Spendable'
  <1>1. /\ SharedTyped /\ \A r \in Requests : SessionTyped(r)
        /\ lastToken \in Nat
    BY TypedParts DEF SharedTyped
  <1>2. /\ \A r \in Requests : Spends(r) =>
             /\ held[r] \notin DOMAIN tokens
             /\ \A u \in DOMAIN users : password[u] # held[r]
             /\ \A p \in Requests \ {r} : Spends(p) => held[p] # held[r]
        /\ \A t \in DOMAIN tokens, u \in DOMAIN users : password[u] # t
    BY DEF Spendable, SpentStaysSpent, Spends
  <1>3. \A r \in Requests \ {q} : Same(r) /\ (Spends(r)' => Spends(r) /\ held'[r] = held[r])
    BY ActsTyped DEF Only, Same, Spends
  <1>4. \A r \in Requests : held[r] # lastToken + 1
    BY <1>1 DEF SessionTyped
  <1>5. \A u \in DOMAIN users : password[u] # lastToken + 1
    BY <1>1 DEF SharedTyped
  <1>6. CASE Consume(q) /\ Spends(q)'
    <2>1. /\ held[q] \in DOMAIN tokens /\ tokens' = Without(tokens, held[q])
          /\ held'[q] = held[q] /\ UNCHANGED <<users, password>>
      BY <1>6, ConsumeTyped DEF Spends, Consume
    <2>2. DOMAIN tokens' = DOMAIN tokens \ {held[q]}
      BY <2>1 DEF Without
    <2>3. \A r \in Requests : Spends(r)' =>
             /\ held'[r] \notin DOMAIN tokens'
             /\ \A u \in DOMAIN users' : password'[u] # held'[r]
             /\ \A p \in Requests \ {r} : Spends(p)' => held'[p] # held'[r]
      BY <1>2, <1>3, <2>1, <2>2
    <2> QED  BY <1>2, <2>1, <2>2, <2>3 DEF Spendable, SpentStaysSpent, Spends
  <1>7. CASE Commit(q)
    <2>1. ~ Spends(q)' /\ UNCHANGED tokens
      BY <1>7, CommitTyped DEF Commit, Spends
    <2>2. Spends(q) \/ op[q].kind # "reset"
      BY <1>7 DEF Commit, Spends
    <2>3. ASSUME NEW u \in DOMAIN users', NEW x, x \in DOMAIN tokens \/
                   (\E r \in Requests \ {q} : Spends(r) /\ x = held[r])
          PROVE  password'[u] # x
      <3>1. x # 0
        <4>1. \A t \in DOMAIN tokens : t # 0
          BY <1>1 DEF SharedTyped
        <4>2. ASSUME NEW r \in Requests, Spends(r) PROVE held[r] # 0
          BY <4>2, <1>1 DEF SessionTyped, Placed, Spends
        <4> QED  BY <2>3, <4>1, <4>2
      <3>2. password'[u] = IF u = cur[q] /\ op[q].kind = "reset" THEN held[q]
                            ELSE IF u \in DOMAIN users THEN password[u] ELSE 0
        BY <1>7, CommitRows
      <3>3. CASE u = cur[q] /\ op[q].kind = "reset"
        <4>1. Spends(q) /\ held[q] \notin DOMAIN tokens
          BY <1>2, <2>2, <3>3
        <4>2. \A r \in Requests \ {q} : Spends(r) => held[r] # held[q]
          BY <1>2, <4>1
        <4> QED  BY <2>3, <3>2, <3>3, <4>1, <4>2
      <3>4. CASE u \in DOMAIN users /\ ~ (u = cur[q] /\ op[q].kind = "reset")
        <4>1. password'[u] = password[u]
          BY <3>2, <3>4
        <4> QED  BY <1>2, <2>3, <3>4, <4>1
      <3> QED  BY <3>1, <3>2, <3>3, <3>4
    <2>4. \A r \in Requests : Spends(r)' =>
             /\ held'[r] \notin DOMAIN tokens'
             /\ \A u \in DOMAIN users' : password'[u] # held'[r]
             /\ \A p \in Requests \ {r} : Spends(p)' => held'[p] # held'[r]
      BY <1>2, <1>3, <2>1, <2>3
    <2>5. \A t \in DOMAIN tokens', u \in DOMAIN users' : password'[u] # t
      BY <2>1, <2>3
    <2> QED  BY <2>4, <2>5 DEF Spendable, SpentStaysSpent, Spends
  <1>8. CASE ~ (Consume(q) /\ Spends(q)') /\ ~ Commit(q)
    <2>1. Spends(q)' => Spends(q) /\ held'[q] = held[q]
      BY <1>8, WhoSpends
    <2>2. /\ DOMAIN tokens' \subseteq DOMAIN tokens \union {lastToken + 1}
          /\ UNCHANGED <<users, password>>
      BY <1>8, WhatChanges
    <2>3. \A r \in Requests : Spends(r)' =>
             /\ held'[r] \notin DOMAIN tokens'
             /\ \A u \in DOMAIN users' : password'[u] # held'[r]
             /\ \A p \in Requests \ {r} : Spends(p)' => held'[p] # held'[r]
      BY <1>2, <1>3, <1>4, <2>1, <2>2
    <2>4. \A t \in DOMAIN tokens', u \in DOMAIN users' : password'[u] # t
      BY <1>2, <1>5, <2>2
    <2> QED  BY <2>3, <2>4 DEF Spendable, SpentStaysSpent, Spends
  <1> QED  BY <1>6, <1>7, <1>8

LEMMA NextSpendable ==
  ASSUME Typed, Spendable, [Next]_vars
  PROVE  Spendable'
  <1>1. ASSUME NEW t \in DOMAIN tokens, Expire(t)
        PROVE  Spendable'
    <2>1. /\ \A r \in Requests : Same(r)
          /\ UNCHANGED <<users, password>> /\ tokens' = Without(tokens, t)
      BY <1>1, ExpireTyped
    <2>2. DOMAIN tokens' \subseteq DOMAIN tokens
      BY <2>1 DEF Without
    <2> QED  BY <2>1, <2>2 DEF Same, Spendable, SpentStaysSpent
  <1>2. CASE UNCHANGED vars
    BY <1>2 DEF vars, data, session, Spendable, SpentStaysSpent
  <1> QED  BY <1>1, <1>2, ActsSpendable, NextActs

(* A token sets one password, however often and whenever it is sent, also  *)
(* after a request that took it has failed (consume_token, reset_password).*)
THEOREM TokensSpentOnce == Spec => []SpentStaysSpent
  <1>1. Init => Spendable
    BY EmptyIsEmpty DEF Init, Spendable, SpentStaysSpent
  <1>2. Spec => [](Typed /\ Spendable)
    BY <1>1, InitTyped, NextTyped, NextSpendable, PTL DEF Spec
  <1>3. Spendable => SpentStaysSpent
    BY DEF Spendable
  <1> QED  BY <1>2, <1>3, PTL

-----------------------------------------------------------------------------
(* The rows a request has inserted and not committed, with their tokens    *)
(* and mails; cur is the row whose invitation is not complete yet.         *)
InvitesOf(S, u) == {m \in S : m.user = u /\ m.kind = "invite"}
OneInvite(S, u) == \E m \in S : InvitesOf(S, u) = {m}

Pending(q) ==
  /\ Open(q) /\ Creates(q) =>
       /\ cur[q] # 0 <=> pc[q] \in {"mint", "enqueue"}
       /\ cur[q] # 0 => cur[q] \in DOMAIN mine[q]
       /\ DOMAIN mine[q] \intersect DOMAIN users = {}
       /\ \A m \in sent[q] : m.user \in DOMAIN mine[q] \ {cur[q]} /\ m.kind = "invite"
       /\ \A u \in DOMAIN mine[q] \ {cur[q]} : OneInvite(sent[q], u)
  /\ ~ (Open(q) /\ Creates(q)) =>
       \A m \in sent[q] : m.user \in DOMAIN users /\ m.kind = "reset"
  /\ pc[q] \in {"mint", "enqueue"} /\ op[q].kind = "forgot" => cur[q] \in DOMAIN users

Apart ==
  \A q, r \in Requests :
    q # r /\ Open(q) /\ Open(r) => DOMAIN mine[q] \intersect DOMAIN mine[r] = {}

Invited ==
  /\ \A m \in mails : m.user \in DOMAIN users
  /\ \A u \in DOMAIN users : OneInvite(mails, u)

(* Nobody inserts a row that clashes with a committed or a pending one.    *)
Clashes(p, s) == <<p, s>> \in Clash

Unclashing ==
  /\ \A u, v \in DOMAIN users : Clashes(users[u].person, users[v].person) => u = v
  /\ \A q \in Requests : Open(q) =>
       \A i \in DOMAIN mine[q] :
         /\ \A u \in DOMAIN users : ~ Clashes(users[u].person, mine[q][i])
         /\ pc[q] = "insert" => ~ Clashes(mine[q][i], Person(q))
         /\ \A r \in Requests : Open(r) => \A j \in DOMAIN mine[r] :
              Clashes(mine[q][i], mine[r][j]) => q = r /\ i = j

LEMMA RowFailsPending ==
  ASSUME Typed, NEW q \in Requests, Pending(q), RowFails(q), UNCHANGED <<op, users>>,
         pc[q] \in {"check", "insert", "mint", "enqueue"}
  PROVE  Pending(q)'
  <1>1. SessionTyped(q) /\ Open(q)
    BY TypedParts DEF Open
  <1>2. CASE op[q].kind = "bulk"
    <2>1. /\ op'[q] = op[q] /\ cur'[q] = 0 /\ mine'[q] = Without(mine[q], cur[q])
          /\ pc'[q] \in {"commit", "check"} /\ sent'[q] = sent[q]
      BY <1>2, RowFailsOnly DEF BackToSavepoint
    <2>2. DOMAIN mine'[q] = DOMAIN mine[q] \ {cur[q]} /\ 0 \notin DOMAIN mine'[q]
      BY <1>1, <2>1 DEF Without, SessionTyped
    <2>3. Creates(q) /\ Creates(q)' /\ Open(q)'
      BY <1>2, <2>1 DEF Creates, CreateKinds, Open
    <2> QED  BY <1>1, <1>2, <2>1, <2>2, <2>3 DEF Pending, OneInvite, InvitesOf
  <1>3. CASE op[q].kind # "bulk"
    <2>1. pc'[q] = "idle" /\ sent'[q] = {}
      BY <1>3, RejectOnly DEF RowFails
    <2> QED  BY <2>1 DEF Pending, Open
  <1> QED  BY <1>2, <1>3

LEMMA BeginPending ==
  ASSUME Typed, NEW q \in Requests, NEW o \in Ops, NEW u \in DOMAIN users \union {0},
         NEW t \in Known \union {0}, Begin(q, o, u, t)
  PROVE  Pending(q)'
  <1>1. /\ pc'[q] = First(o, u) /\ op'[q] = o
        /\ cur'[q] = IF First(o, u) = "idle" THEN 0 ELSE u
        /\ mine'[q] = Empty /\ sent'[q] = {} /\ UNCHANGED users
    BY TypedParts DEF Begin, Functions, data
  <1>2. o.kind \in CreateKinds => u = 0 /\ First(o, u) = "check"
    BY DEF Begin, First, CreateKinds, UserKinds
  <1>3. o.kind = "forgot" /\ First(o, u) # "idle" => Usable(u)
    BY DEF First, CreateKinds
  <1> QED  BY <1>1, <1>2, <1>3, EmptyIsEmpty DEF Pending, Open, Creates, Usable, Live

LEMMA InsertPending ==
  ASSUME Typed, NEW q \in Requests, Pending(q), Insert(q), ~ RowFails(q) \/ lastId' # lastId
  PROVE  /\ Pending(q)' /\ lastId' = lastId + 1 /\ pc'[q] = "mint"
         /\ mine'[q] = With(mine[q], lastId + 1, Person(q))
         /\ Clashing(PersonOf, Person(q)) = {}
  <1>1. /\ SharedTyped /\ SessionTyped(q) /\ pc[q] = "insert" /\ lastId \in Nat
        /\ UNCHANGED <<users, op>>
    BY TypedParts DEF Insert, SharedTyped
  <1>2. /\ Clashing(PersonOf, Person(q)) = {}
        /\ lastId' = lastId + 1
        /\ cur' = [cur EXCEPT ![q] = lastId + 1]
        /\ mine' = [mine EXCEPT ![q] = With(mine[q], lastId + 1, Person(q))]
        /\ pc' = [pc EXCEPT ![q] = "mint"]
        /\ UNCHANGED sent
    BY DEF Insert, NextId
  <1>3. /\ cur'[q] = lastId + 1 /\ pc'[q] = "mint"
        /\ mine'[q] = With(mine[q], lastId + 1, Person(q))
    BY <1>2, TypedParts DEF Functions
  <1>4. Creates(q) /\ Creates(q)' /\ Open(q) /\ Open(q)'
    BY <1>1, <1>3 DEF SessionTyped, Placed, Creates, Open
  <1>5. DOMAIN mine'[q] = DOMAIN mine[q] \union {lastId + 1}
    BY <1>3 DEF With
  <1>6. lastId + 1 \notin DOMAIN mine[q] /\ lastId + 1 \notin DOMAIN users /\ cur[q] = 0
        /\ 0 \notin DOMAIN mine[q]
    BY <1>1, <1>4 DEF SharedTyped, SessionTyped, Pending
  <1>7. DOMAIN mine'[q] \ {cur'[q]} = DOMAIN mine[q] \ {cur[q]}
    BY <1>3, <1>5, <1>6
  <1>8. Pending(q)'
    <2>1. /\ cur'[q] # 0 /\ cur'[q] \in DOMAIN mine'[q]
          /\ DOMAIN mine'[q] \intersect DOMAIN users' = {}
      BY <1>1, <1>3, <1>4, <1>5, <1>6 DEF Pending
    <2>2. /\ \A m \in sent'[q] : m.user \in DOMAIN mine'[q] \ {cur'[q]} /\ m.kind = "invite"
          /\ \A u \in DOMAIN mine'[q] \ {cur'[q]} : OneInvite(sent'[q], u)
      BY <1>2, <1>4, <1>7 DEF Pending
    <2>3. op'[q].kind # "forgot"
      BY <1>4 DEF Creates, CreateKinds
    <2> QED  BY <1>3, <1>4, <2>1, <2>2, <2>3 DEF Pending
  <1> QED  BY <1>2, <1>3, <1>8

LEMMA EnqueuePending ==
  ASSUME Typed, NEW q \in Requests, Pending(q), Enqueue(q)
  PROVE  Pending(q)'
  <1>1. /\ SessionTyped(q) /\ pc[q] = "enqueue" /\ UNCHANGED <<users, mine, op>>
        /\ Open(q)
    BY TypedParts DEF Enqueue, data, Open
  <1> DEFINE m == [user |-> cur[q], token |-> held[q], kind |-> Purpose(q)]
  <1>2. sent'[q] = sent[q] \union {m}
    BY EnqueueTyped
  <1>3. CASE op[q].kind = "forgot" /\ pc'[q] = "commit" /\ cur'[q] = cur[q]
    <2>1. ~ Creates(q) /\ ~ Creates(q)' /\ m.kind = "reset" /\ m.user \in DOMAIN users
      BY <1>1, <1>3 DEF Creates, CreateKinds, Purpose, Pending
    <2> QED  BY <1>1, <1>2, <1>3, <2>1 DEF Pending
  <1>4. CASE Creates(q) /\ pc'[q] \in {"commit", "check"} /\ cur'[q] = 0
    <2>1. /\ Creates(q)' /\ Open(q)' /\ m.kind = "invite" /\ m.user = cur[q]
          /\ cur[q] # 0 /\ cur[q] \in DOMAIN mine[q]
      BY <1>1, <1>4 DEF Creates, CreateKinds, Purpose, Pending, Open
    <2>2. 0 \notin DOMAIN mine[q]
      BY <1>1 DEF SessionTyped
    <2>3. ASSUME NEW u \in DOMAIN mine[q]
          PROVE  OneInvite(sent'[q], u)
      <3>1. CASE u = cur[q]
        <4>1. InvitesOf(sent[q], u) = {}
          BY <1>1, <1>4, <3>1 DEF Pending, InvitesOf
        <4>2. InvitesOf(sent'[q], u) = {m}
          BY <1>2, <2>1, <3>1, <4>1 DEF InvitesOf
        <4> QED  BY <1>2, <4>2 DEF OneInvite
      <3>2. CASE u # cur[q]
        <4>1. InvitesOf(sent'[q], u) = InvitesOf(sent[q], u)
          BY <1>2, <2>1, <3>2 DEF InvitesOf
        <4> QED  BY <1>1, <1>2, <1>4, <3>2, <4>1 DEF Pending, OneInvite
      <3> QED  BY <3>1, <3>2
    <2>4. \A x \in sent'[q] : x.user \in DOMAIN mine[q] /\ x.kind = "invite"
      BY <1>1, <1>2, <1>4, <2>1 DEF Pending
    <2> QED  BY <1>1, <1>4, <2>1, <2>2, <2>3, <2>4 DEF Pending
  <1> HIDE DEF m
  <1> QED  BY <1>3, <1>4, EnqueueTyped

LEMMA ActsPending ==
  ASSUME Typed, NEW q \in Requests, Pending(q), Acts(q)
  PROVE  Pending(q)'
  <1>1. SessionTyped(q)
    BY TypedParts
  <1>2. CASE \E o \in Ops, u \in DOMAIN users \union {0}, t \in Known \union {0} :
               Begin(q, o, u, t)
    BY <1>2, BeginPending
  <1>3. CASE Check(q) \/ DeadlockBroken(q) \/ MailFails(q)
    <2>1. UNCHANGED <<op, users>> /\ pc[q] \in {"check", "insert", "mint", "enqueue"}
      BY <1>3 DEF Check, DeadlockBroken, MailFails, Blocked, data
    <2>2. CASE RowFails(q)
      BY <2>1, <2>2, RowFailsPending
    <2>3. CASE ~ RowFails(q)
      <3>1. pc[q] = "check" /\ pc' = [pc EXCEPT ![q] = "insert"] /\ UNCHANGED session
        BY <1>3, <2>3 DEF Check, DeadlockBroken, MailFails
      <3>2. pc'[q] = "insert"
        BY <3>1, TypedParts DEF Functions
      <3> QED  BY <1>1, <2>1, <3>1, <3>2
               DEF session, Pending, Open, Creates, SessionTyped, Placed, OneInvite, InvitesOf
    <2> QED  BY <2>2, <2>3
  <1>4. CASE Insert(q)
    <2>1. CASE ~ RowFails(q) \/ lastId' # lastId
      BY <1>4, <2>1, InsertPending
    <2>2. CASE RowFails(q)
      BY <1>4, <2>2, RowFailsPending DEF Insert
    <2> QED  BY <2>1, <2>2
  <1>5. CASE Mint(q)
    <2>1. /\ pc[q] = "mint" /\ pc'[q] = "enqueue"
          /\ UNCHANGED <<users, op, cur, mine, sent>>
      BY <1>5, MintTyped DEF Mint
    <2> QED  BY <1>1, <2>1 DEF Pending, Open, Creates, OneInvite, InvitesOf
  <1>6. CASE Enqueue(q)
    BY <1>6, EnqueuePending
  <1>7. CASE Consume(q) \/ SetPassword(q)
    <2>1. pc[q] \in {"consume", "set"} /\ op[q].kind = "reset" /\ UNCHANGED <<op, users>>
      BY <1>1, <1>7 DEF Consume, SetPassword, SessionTyped, Placed, data
    <2>2. sent'[q] = sent[q] \/ sent'[q] = {}
      BY <1>7, ConsumeTyped, RejectOnly DEF SetPassword, session
    <2>3. ~ Creates(q) /\ ~ Creates(q)'
      BY <2>1 DEF Creates, CreateKinds
    <2> QED  BY <2>1, <2>2, <2>3 DEF Pending
  <1>8. CASE Fail(q)
    <2>1. pc'[q] = "idle" /\ sent'[q] = {}
      BY <1>8, RejectOnly DEF Fail
    <2> QED  BY <2>1 DEF Pending, Open
  <1>9. CASE Commit(q)
    BY <1>9, CommitTyped DEF Pending, Open
  <1> QED  BY <1>2, <1>3, <1>4, <1>5, <1>6, <1>7, <1>8, <1>9 DEF Acts

-----------------------------------------------------------------------------
(* How the rows a request holds change: one is inserted, or some are given *)
(* up, or they become users.                                               *)
Inserts(q) == Insert(q) /\ (~ RowFails(q) \/ lastId' # lastId)

Keeps(q) ==
  /\ UNCHANGED users
  /\ DOMAIN mine'[q] = {} \/ Open(q)
  /\ DOMAIN mine'[q] \subseteq DOMAIN mine[q]
  /\ \A i \in DOMAIN mine'[q] : mine'[q][i] = mine[q][i]
  /\ pc'[q] = "insert" => /\ pc[q] = "check" /\ UNCHANGED <<op, row, mine>>
                          /\ Clashing(mine[q], Person(q)) = {}

LEMMA MineChanges ==
  ASSUME Typed, NEW q \in Requests, Acts(q), Open(q)', ~ Inserts(q)
  PROVE  Keeps(q)
  <1>1. SessionTyped(q)
    BY TypedParts
  <1>2. CASE \E o \in Ops, u \in DOMAIN users \union {0}, t \in Known \union {0} :
               Begin(q, o, u, t)
    <2>1. /\ mine'[q] = Empty /\ UNCHANGED users /\ pc'[q] # "insert"
      BY <1>2, TypedParts DEF Begin, Functions, data, First
    <2> QED  BY <2>1, EmptyIsEmpty DEF Keeps
  <1>3. CASE RowFails(q) /\ UNCHANGED <<op, users>>
              /\ pc[q] \in {"check", "insert", "mint", "enqueue"}
    <2>1. mine'[q] = Without(mine[q], cur[q]) \/ mine'[q] = Empty
      BY <1>3, RowFailsOnly DEF BackToSavepoint
    <2>2. pc'[q] # "insert"
      BY <1>3, RowFailsOnly
    <2> QED  BY <1>3, <2>1, <2>2, EmptyIsEmpty DEF Without, Open, Keeps
  <1>4. CASE Check(q) /\ ~ RowFails(q)
    BY <1>4 DEF Check, Open, data, session, Keeps
  <1>5. CASE Mint(q) \/ Enqueue(q) \/ (Consume(q) /\ pc'[q] # "idle")
    <2>1. UNCHANGED <<users, mine>> /\ pc'[q] # "insert" /\ Open(q)
      BY <1>5, MintTyped, EnqueueTyped, ConsumeTyped
         DEF Mint, Enqueue, Consume, data, Open, Reject
    <2> QED  BY <2>1 DEF Keeps
  <1>6. CASE SetPassword(q) /\ ~ Reject(q)
    <2>1. UNCHANGED <<users, mine>> /\ pc' = [pc EXCEPT ![q] = "commit"] /\ Open(q)
      BY <1>6 DEF SetPassword, data, session, Open
    <2> QED  BY <2>1, TypedParts DEF Functions, Keeps
  <1>7. CASE Reject(q) /\ UNCHANGED op
    BY <1>7, RejectOnly DEF Open
  <1>8. CASE Commit(q)
    BY <1>8, CommitTyped DEF Open
  <1>9. CASE Insert(q)
    <2>1. RowFails(q) /\ UNCHANGED <<op, users>> /\ pc[q] = "insert"
      BY <1>9 DEF Inserts, Insert
    <2> QED  BY <1>3, <2>1
  <1>10. CASE Check(q) \/ DeadlockBroken(q) \/ MailFails(q)
    <2>1. /\ UNCHANGED <<op, users>> /\ pc[q] \in {"check", "insert", "mint", "enqueue"}
          /\ RowFails(q) \/ Check(q)
      BY <1>10 DEF Check, DeadlockBroken, MailFails, Blocked, data
    <2> QED  BY <1>3, <1>4, <2>1
  <1>11. CASE Fail(q) \/ SetPassword(q)
    BY <1>6, <1>7, <1>11 DEF Fail, SetPassword
  <1>12. CASE Consume(q)
    BY <1>5, <1>12 DEF Open
  <1>13. CASE Mint(q) \/ Enqueue(q)
    BY <1>5, <1>13
  <1> QED  BY <1>2, <1>8, <1>9, <1>10, <1>11, <1>12, <1>13 DEF Acts

Rows == Apart /\ Invited /\ \A q \in Requests : Pending(q)

LEMMA OpenChanges ==
  ASSUME Typed, NEW q \in Requests, Acts(q)
  PROVE  /\ \A r \in Requests \ {q} : Same(r) /\ (Open(r)' <=> Open(r))
         /\ Commit(q) \/ UNCHANGED <<users, mails>>
         /\ Commit(q) => ~ Open(q)' /\ DOMAIN users' = DOMAIN users \union DOMAIN mine[q]
  <1>1. \A r \in Requests \ {q} : Same(r) /\ (Open(r)' <=> Open(r))
    <2>1. Only(q)
      BY ActsTyped
    <2> QED  BY <2>1 DEF Only, Same, Open
  <1>2. Commit(q) \/ UNCHANGED <<users, mails>>
    BY WhatChanges
  <1>3. ASSUME Commit(q)
        PROVE  ~ Open(q)' /\ DOMAIN users' = DOMAIN users \union DOMAIN mine[q]
    <2>1. pc'[q] = "answered"
      BY <1>3, CommitTyped
    <2>2. DOMAIN users' = DOMAIN users \union DOMAIN mine[q]
      BY <1>3, CommitRows
    <2> QED  BY <2>1, <2>2 DEF Open
  <1> QED  BY <1>1, <1>2, <1>3

LEMMA ActsApart ==
  ASSUME Typed, Apart, NEW q \in Requests, Acts(q),
         \A r \in Requests : Pending(r)
  PROVE  Apart'
  <1>1. \A r \in Requests \ {q} : mine'[r] = mine[r] /\ (Open(r)' <=> Open(r))
    BY OpenChanges DEF Same
  <1>2. SUFFICES ASSUME Open(q)', NEW r \in Requests \ {q}, Open(r)
                 PROVE  DOMAIN mine'[q] \intersect DOMAIN mine[r] = {}
    BY <1>1 DEF Apart
  <1>3. CASE Inserts(q)
    <2>1. mine'[q] = With(mine[q], lastId + 1, Person(q)) /\ lastId \in Nat /\ Open(q)
      BY <1>3, InsertPending, TypedParts DEF Inserts, SharedTyped, Insert, Open
    <2>2. DOMAIN mine'[q] = DOMAIN mine[q] \union {lastId + 1}
      BY <2>1 DEF With
    <2>3. lastId + 1 \notin DOMAIN mine[r]
      BY <2>1, TypedParts DEF SessionTyped
    <2> QED  BY <1>2, <2>1, <2>2, <2>3 DEF Apart
  <1>4. CASE ~ Inserts(q)
    <2>1. /\ DOMAIN mine'[q] = {} \/ Open(q)
          /\ DOMAIN mine'[q] \subseteq DOMAIN mine[q]
      BY <1>2, <1>4, MineChanges DEF Keeps
    <2> QED  BY <1>2, <2>1 DEF Apart
  <1> QED  BY <1>3, <1>4

LEMMA OthersPending ==
  ASSUME Typed, Rows, NEW q \in Requests, Acts(q), NEW r \in Requests \ {q}
  PROVE  Pending(r)'
  <1>1. Same(r) /\ (Open(r)' <=> Open(r)) /\ (Creates(r)' <=> Creates(r)) /\ Pending(r)
    BY OpenChanges DEF Same, Creates, Rows
  <1>2. \/ UNCHANGED users
        \/ Open(q) /\ DOMAIN users' = DOMAIN users \union DOMAIN mine[q]
    BY OpenChanges DEF Commit, Open
  <1>3. /\ DOMAIN users \subseteq DOMAIN users'
        /\ Open(r) => DOMAIN mine[r] \intersect DOMAIN users' \subseteq
                        DOMAIN mine[r] \intersect DOMAIN users
    BY <1>2 DEF Rows, Apart
  <1> QED  BY <1>1, <1>3 DEF Pending, Same, OneInvite, InvitesOf

LEMMA ActsInvited ==
  ASSUME Typed, Rows, NEW q \in Requests, Acts(q)
  PROVE  Invited'
  <1>1. CASE ~ Commit(q)
    BY <1>1, OpenChanges DEF Rows, Invited, OneInvite, InvitesOf
  <1>2. CASE Commit(q)
    <2>1. /\ mails' = mails \union sent[q] /\ pc[q] = "commit" /\ Open(q)
          /\ DOMAIN users' = DOMAIN users \union DOMAIN mine[q]
          /\ SessionTyped(q) /\ Pending(q) /\ Invited
      BY <1>2, CommitRows, TypedParts DEF Commit, Rows, Open
    <2>2. CASE Creates(q)
      <3>1. /\ DOMAIN mine[q] \intersect DOMAIN users = {}
            /\ \A m \in sent[q] : m.user \in DOMAIN mine[q]
            /\ \A u \in DOMAIN mine[q] : OneInvite(sent[q], u)
        <4>1. cur[q] = 0 /\ 0 \notin DOMAIN mine[q]
          BY <2>1, <2>2 DEF Pending, SessionTyped
        <4> QED  BY <2>1, <2>2, <4>1 DEF Pending
      <3>2. \A m \in mails : m.user \in DOMAIN users
        BY <2>1 DEF Invited
      <3>3. \A u \in DOMAIN users : InvitesOf(mails', u) = InvitesOf(mails, u)
        BY <2>1, <3>1 DEF InvitesOf
      <3>4. \A u \in DOMAIN mine[q] : InvitesOf(mails', u) = InvitesOf(sent[q], u)
        BY <2>1, <3>1, <3>2 DEF InvitesOf
      <3>5. \A u \in DOMAIN users' : OneInvite(mails', u)
        BY <2>1, <3>1, <3>3, <3>4 DEF OneInvite, Invited
      <3> QED  BY <2>1, <3>1, <3>2, <3>5 DEF Invited
    <2>3. CASE ~ Creates(q)
      <3>1. mine[q] = Empty /\ \A m \in sent[q] : m.user \in DOMAIN users /\ m.kind = "reset"
        BY <2>1, <2>3 DEF Pending, SessionTyped, Placed
      <3>2. \A u \in DOMAIN users : InvitesOf(mails', u) = InvitesOf(mails, u)
        BY <2>1, <3>1 DEF InvitesOf
      <3>3. DOMAIN users' = DOMAIN users
        BY <2>1, <3>1, EmptyIsEmpty
      <3>4. \A u \in DOMAIN users' : OneInvite(mails', u)
        BY <2>1, <3>2, <3>3 DEF OneInvite, Invited
      <3> QED  BY <2>1, <3>1, <3>3, <3>4 DEF Invited
    <2> QED  BY <2>2, <2>3
  <1> QED  BY <1>1, <1>2

LEMMA ClashSymmetric ==
  ASSUME NEW p \in People, NEW s \in People
  PROVE  Clashes(p, s) <=> Clashes(s, p)
  BY InvitationsAssumption DEF Clashes

LEMMA ActsUnclashing ==
  ASSUME Typed, Rows, Unclashing, NEW q \in Requests, Acts(q)
  PROVE  Unclashing'
  <1>1. /\ SharedTyped /\ \A r \in Requests : SessionTyped(r)
        /\ \A r \in Requests \ {q} : Same(r) /\ (Open(r)' <=> Open(r))
    BY TypedParts, OpenChanges
  <1>2. \A r \in Requests \ {q} : mine'[r] = mine[r] /\ (Person(r))' = Person(r) /\ pc'[r] = pc[r]
    BY <1>1 DEF Same, Person
  <1>3. /\ \A u \in DOMAIN users : users[u].person \in People
        /\ \A r \in Requests : \A i \in DOMAIN mine[r] : mine[r][i] \in People
    BY <1>1 DEF SharedTyped, SessionTyped, Row
  <1>4. CASE Inserts(q)
    <2>1. /\ mine'[q] = With(mine[q], lastId + 1, Person(q)) /\ pc'[q] = "mint"
          /\ Clashing(PersonOf, Person(q)) = {}
          /\ pc[q] = "insert" /\ Open(q) /\ UNCHANGED users
          /\ \A r \in Requests \ {q} : Open(r) => Clashing(mine[r], Person(q)) = {}
          /\ lastId \in Nat
      BY <1>1, <1>4, InsertPending
         DEF Inserts, Insert, Blocked, Blockers, Open, Rows, SharedTyped
    <2>2. /\ DOMAIN mine'[q] = DOMAIN mine[q] \union {lastId + 1}
          /\ lastId + 1 \notin DOMAIN mine[q]
          /\ mine'[q][lastId + 1] = Person(q)
          /\ \A i \in DOMAIN mine[q] : mine'[q][i] = mine[q][i]
      BY <1>1, <2>1 DEF With, SessionTyped
    <2>3. Person(q) \in People
      <3>1. row[q] \in 1..Len(op[q].rows)
        BY <1>1, <2>1 DEF SessionTyped, Placed
      <3> QED  BY <1>1, <3>1, OpsAreTyped DEF SessionTyped, Person
    <2>4. /\ \A u \in DOMAIN users : ~ Clashes(users[u].person, Person(q))
          /\ \A r \in Requests \ {q} : Open(r) =>
               \A j \in DOMAIN mine[r] : ~ Clashes(mine[r][j], Person(q))
          /\ \A j \in DOMAIN mine[q] : ~ Clashes(mine[q][j], Person(q))
      BY <2>1 DEF Clashing, PersonOf, Clashes, Unclashing
    <2>5. ASSUME NEW r \in Requests, Open(r)', NEW i \in DOMAIN mine'[r]
          PROVE  /\ \A u \in DOMAIN users' : ~ Clashes(users'[u].person, mine'[r][i])
                 /\ pc'[r] = "insert" => ~ Clashes(mine'[r][i], (Person(r))')
                 /\ \A p \in Requests : Open(p)' => \A j \in DOMAIN mine'[p] :
                      Clashes(mine'[r][i], mine'[p][j]) => r = p /\ i = j
      <3>1. \A p \in Requests : Open(p)' => Open(p)
        BY <1>1, <2>1
      <3>2. CASE r = q /\ i = lastId + 1
        <4>1. mine'[r][i] = Person(q)
          BY <2>2, <3>2
        <4>2. ASSUME NEW p \in Requests, Open(p), NEW j \in DOMAIN mine[p]
              PROVE  ~ Clashes(Person(q), mine[p][j])
          BY <1>3, <2>3, <2>4, <4>2, ClashSymmetric
        <4> QED  BY <1>2, <2>1, <2>2, <2>4, <3>1, <3>2, <4>1, <4>2
      <3>3. CASE ~ (r = q /\ i = lastId + 1)
        <4>1. i \in DOMAIN mine[r] /\ mine'[r][i] = mine[r][i]
          BY <1>2, <2>2, <3>3
        <4>2. /\ \A u \in DOMAIN users : ~ Clashes(users[u].person, mine[r][i])
              /\ pc[r] = "insert" => ~ Clashes(mine[r][i], Person(r))
              /\ \A p \in Requests : Open(p) => \A j \in DOMAIN mine[p] :
                   Clashes(mine[r][i], mine[p][j]) => r = p /\ i = j
              /\ ~ Clashes(mine[r][i], Person(q))
          BY <2>4, <2>5, <3>1, <4>1 DEF Unclashing
        <4> QED  BY <1>2, <2>1, <2>2, <3>1, <4>1, <4>2
      <3> QED  BY <3>2, <3>3
    <2> QED  BY <2>1, <2>5 DEF Unclashing
  <1>5. CASE Commit(q)
    <2>1. /\ pc[q] = "commit" /\ Open(q) /\ ~ Open(q)'
          /\ DOMAIN users' = DOMAIN users \union DOMAIN mine[q]
          /\ \A u \in DOMAIN users' : users'[u].person =
               IF u \in DOMAIN mine[q] THEN mine[q][u] ELSE users[u].person
      <3>1. pc[q] = "commit" /\ Open(q)
        BY <1>5 DEF Commit, Open
      <3>2. ~ Open(q)' /\ DOMAIN users' = DOMAIN users \union DOMAIN mine[q]
        BY <1>5, OpenChanges
      <3>3. \A u \in DOMAIN users' : users'[u].person =
              IF u \in DOMAIN mine[q] THEN mine[q][u] ELSE users[u].person
        BY <1>5, CommitRows
      <3> QED  BY <3>1, <3>2, <3>3
    <2>2. ASSUME NEW u \in DOMAIN users', NEW v \in DOMAIN users',
                 Clashes(users'[u].person, users'[v].person)
          PROVE  u = v
      <3>1. CASE u \in DOMAIN mine[q] /\ v \in DOMAIN mine[q]
        BY <2>1, <2>2, <3>1 DEF Unclashing
      <3>2. CASE u \in DOMAIN mine[q] /\ v \notin DOMAIN mine[q]
        BY <1>3, <2>1, <2>2, <3>2, ClashSymmetric DEF Unclashing
      <3>3. CASE u \notin DOMAIN mine[q] /\ v \in DOMAIN mine[q]
        BY <1>3, <2>1, <2>2, <3>3, ClashSymmetric DEF Unclashing
      <3>4. CASE u \notin DOMAIN mine[q] /\ v \notin DOMAIN mine[q]
        BY <2>1, <2>2, <3>4 DEF Unclashing
      <3> QED  BY <3>1, <3>2, <3>3, <3>4
    <2>3. ASSUME NEW r \in Requests, Open(r)', NEW i \in DOMAIN mine'[r]
          PROVE  /\ \A u \in DOMAIN users' : ~ Clashes(users'[u].person, mine'[r][i])
                 /\ pc'[r] = "insert" => ~ Clashes(mine'[r][i], (Person(r))')
                 /\ \A p \in Requests : Open(p)' => \A j \in DOMAIN mine'[p] :
                      Clashes(mine'[r][i], mine'[p][j]) => r = p /\ i = j
      <3>1. r # q /\ Open(r) /\ mine'[r] = mine[r] /\ pc'[r] = pc[r] /\ (Person(r))' = Person(r)
        BY <1>1, <1>2, <2>1, <2>3
      <3>2. \A p \in Requests : Open(p)' => Open(p) /\ mine'[p] = mine[p]
        BY <1>1, <1>2, <2>1
      <3>3. \A j \in DOMAIN mine[q] : ~ Clashes(mine[q][j], mine[r][i])
        BY <2>1, <2>3, <3>1 DEF Unclashing
      <3>4. \A u \in DOMAIN users' : ~ Clashes(users'[u].person, mine[r][i])
        BY <2>1, <2>3, <3>1, <3>3 DEF Unclashing
      <3> QED  BY <2>3, <3>1, <3>2, <3>4 DEF Unclashing
    <2> QED  BY <2>2, <2>3 DEF Unclashing
  <1>6. CASE ~ Inserts(q) /\ ~ Commit(q)
    <2>1. UNCHANGED users
      BY <1>6, OpenChanges
    <2>2. Open(q)' => Keeps(q)
      BY <1>6, MineChanges
    <2>3. ASSUME NEW r \in Requests, Open(r)', NEW i \in DOMAIN mine'[r]
          PROVE  Open(r) /\ i \in DOMAIN mine[r] /\ mine'[r][i] = mine[r][i]
      BY <1>1, <1>2, <2>2, <2>3 DEF Keeps
    <2>4. ASSUME Open(q)', pc'[q] = "insert", NEW i \in DOMAIN mine[q]
          PROVE  ~ Clashes(mine[q][i], (Person(q))')
      BY <2>2, <2>4 DEF Keeps, Clashing, Clashes, Person
    <2>5. ASSUME NEW r \in Requests, Open(r)', NEW i \in DOMAIN mine'[r]
          PROVE  /\ \A u \in DOMAIN users' : ~ Clashes(users'[u].person, mine'[r][i])
                 /\ pc'[r] = "insert" => ~ Clashes(mine'[r][i], (Person(r))')
                 /\ \A p \in Requests : Open(p)' => \A j \in DOMAIN mine'[p] :
                      Clashes(mine'[r][i], mine'[p][j]) => r = p /\ i = j
      <3>1. Open(r) /\ i \in DOMAIN mine[r] /\ mine'[r][i] = mine[r][i]
        BY <2>3, <2>5
      <3>2. \A u \in DOMAIN users' : ~ Clashes(users'[u].person, mine'[r][i])
        BY <2>1, <3>1 DEF Unclashing
      <3>3. pc'[r] = "insert" => ~ Clashes(mine'[r][i], (Person(r))')
        BY <1>2, <2>4, <2>5, <3>1 DEF Unclashing
      <3>4. ASSUME NEW p \in Requests, Open(p)', NEW j \in DOMAIN mine'[p],
                   Clashes(mine'[r][i], mine'[p][j])
            PROVE  r = p /\ i = j
        <4>1. Open(p) /\ j \in DOMAIN mine[p] /\ mine'[p][j] = mine[p][j]
          BY <2>3, <3>4
        <4> QED  BY <3>1, <3>4, <4>1 DEF Unclashing
      <3> QED  BY <3>2, <3>3, <3>4
    <2> QED  BY <2>1, <2>5 DEF Unclashing
  <1> QED  BY <1>4, <1>5, <1>6

RowsInv == Typed /\ Rows /\ Unclashing

LEMMA NextRows ==
  ASSUME RowsInv, [Next]_vars
  PROVE  RowsInv'
  <1>1. Typed'
    BY NextTyped DEF RowsInv
  <1>2. ASSUME NEW q \in Requests, Acts(q)
        PROVE  Rows' /\ Unclashing'
    <2>1. \A r \in Requests : Pending(r)'
      BY <1>2, ActsPending, OthersPending DEF RowsInv, Rows
    <2>2. Apart' /\ Invited' /\ Unclashing'
      BY <1>2, ActsApart, ActsInvited, ActsUnclashing DEF RowsInv, Rows
    <2> QED  BY <2>1, <2>2 DEF Rows
  <1>3. ASSUME NEW t \in DOMAIN tokens, Expire(t)
        PROVE  Rows' /\ Unclashing'
    BY <1>3 DEF Expire, session, RowsInv, Rows, Apart, Invited, Pending, Unclashing, Open,
                Creates, OneInvite, InvitesOf, Person
  <1>4. ASSUME UNCHANGED vars
        PROVE  Rows' /\ Unclashing'
    <2>1. UNCHANGED <<users, mails, pc, op, row, cur, mine, sent>>
      BY <1>4 DEF vars, data, session
    <2>2. Apart' /\ Invited' /\ Unclashing'
      BY <2>1 DEF RowsInv, Rows, Apart, Invited, Unclashing, Open, OneInvite, InvitesOf,
                  Person
    <2>3. \A q \in Requests : Pending(q)'
      BY <2>1 DEF RowsInv, Rows, Pending, Open, Creates, OneInvite, InvitesOf
    <2> QED  BY <2>2, <2>3 DEF Rows
  <1>5. CASE Next
    BY <1>1, <1>2, <1>3, <1>5, NextActs DEF RowsInv
  <1> QED  BY <1>1, <1>4, <1>5 DEF RowsInv

LEMMA RowsInvariant == Spec => []RowsInv
  <1>1. ASSUME Init PROVE Rows /\ Unclashing
    BY <1>1, EmptyIsEmpty DEF Init, Rows, Apart, Invited, Pending, Unclashing, Open
  <1> QED  BY <1>1, InitTyped, NextRows, PTL DEF Spec, RowsInv

(* Whatever fails between INSERT, token, mail and COMMIT: each user has    *)
(* one invitation, each mail a user, and no two users clash                *)
(* (create_user, bulk_create_users, queue_invite).                         *)
THEOREM UsersAreInvited == Spec => []InviteIffUser
  <1>1. ASSUME RowsInv PROVE InviteIffUser
    <2>1. \A u \in DOMAIN users :
            Cardinality({m \in mails : m.user = u /\ m.kind = "invite"}) = 1
      <3>1. ASSUME NEW u \in DOMAIN users
            PROVE  Cardinality({m \in mails : m.user = u /\ m.kind = "invite"}) = 1
        <4>1. PICK m \in mails : InvitesOf(mails, u) = {m}
          BY <1>1 DEF RowsInv, Rows, Invited, OneInvite
        <4> QED  BY <4>1, FS_Singleton DEF InvitesOf
      <3> QED  BY <3>1
    <2> QED  BY <1>1, <2>1 DEF RowsInv, Rows, Invited, Unclashing, Clashes, InviteIffUser
  <1> QED  BY <1>1, RowsInvariant, PTL

-----------------------------------------------------------------------------
(* Whose a token is: of the mails that tell of it and of the row it was    *)
(* minted for.                                                             *)
Good(m) == m.token \in DOMAIN tokens => tokens[m.token].user = m.user
Invites(t, u) == tokens[t].purpose = "invite" /\ tokens[t].user = u

OwnedBy(q) ==
  /\ \A m \in sent[q] : Good(m)
  /\ pc[q] = "enqueue" /\ held[q] \in DOMAIN tokens => tokens[held[q]].user = cur[q]
  /\ pc[q] = "consume" => \E m \in mails : m.token = held[q]
  /\ Spends(q) => \E m \in mails : m.token = held[q] /\ m.user = cur[q]
  /\ Open(q) /\ Creates(q) => \A u \in DOMAIN mine[q], t \in DOMAIN tokens :
       Invites(t, u) =>
         IF u = cur[q] THEN pc[q] = "enqueue" /\ t = held[q]
                       ELSE \E m \in sent[q] : m.user = u /\ m.token = t

Owned ==
  /\ \A m \in mails : Good(m)
  /\ \A t \in DOMAIN tokens, u \in DOMAIN users :
       Invites(t, u) => \E m \in mails : m.user = u /\ m.token = t
  /\ \A u \in DOMAIN users : password[u] # 0 =>
       \E m \in mails : m.user = u /\ m.token = password[u]

Owners == Owned /\ \A q \in Requests : OwnedBy(q)

\* Tokens come or go, what they say does not change.
LEMMA TokensStay ==
  ASSUME Typed, NEW q \in Requests, Acts(q)
  PROVE  /\ \A t \in DOMAIN tokens' :
              \/ t \in DOMAIN tokens /\ tokens'[t] = tokens[t]
              \/ /\ Mint(q) /\ t = lastToken + 1 /\ t \notin DOMAIN tokens
                 /\ tokens'[t] = [user |-> cur[q], purpose |-> Purpose(q)]
         /\ mails \subseteq mails'
  <1>1. lastToken + 1 \notin DOMAIN tokens
    BY TypedParts DEF SharedTyped
  <1>2. mails \subseteq mails'
    <2>1. CASE Commit(q)
      BY <2>1 DEF Commit
    <2> QED  BY <2>1, OpenChanges
  <1>3. CASE Mint(q)
    BY <1>1, <1>2, <1>3 DEF Mint, With
  <1>4. CASE Consume(q)
    BY <1>2, <1>4, ConsumeTyped DEF Without
  <1>5. CASE ~ Mint(q) /\ ~ Consume(q)
    <2>1. UNCHANGED tokens
      BY <1>5 DEF Acts, Begin, Check, DeadlockBroken, MailFails, Insert, Enqueue,
                  SetPassword, Fail, Commit, data
    <2> QED  BY <1>2, <2>1
  <1> QED  BY <1>3, <1>4, <1>5

\* What is said of known tokens stays true.
LEMMA GoodStays ==
  ASSUME Typed, NEW q \in Requests, Acts(q), NEW m, Good(m), m.token <= lastToken
  PROVE  Good(m)'
  <1>1. lastToken \in Nat
    BY TypedParts DEF SharedTyped
  <1>2. m.token # lastToken + 1
    BY <1>1
  <1> QED  BY <1>2, TokensStay DEF Good

LEMMA OthersOwn ==
  ASSUME RowsInv, Owners, NEW q \in Requests, Acts(q), NEW r \in Requests \ {q}
  PROVE  OwnedBy(r)'
  <1>1. /\ Typed /\ Same(r) /\ (Open(r)' <=> Open(r)) /\ OwnedBy(r)
        /\ SharedTyped /\ SessionTyped(r) /\ lastToken \in Nat
    BY OpenChanges, TypedParts DEF Owners, RowsInv, SharedTyped
  <1>2. (Creates(r)' <=> Creates(r)) /\ (Spends(r)' <=> Spends(r)) /\ mails \subseteq mails'
    BY <1>1, TokensStay DEF Same, Creates, Spends
  <1>3. \A m \in sent'[r] : Good(m)'
    BY <1>1, GoodStays DEF Same, OwnedBy, SessionTyped, Placed
  <1>4. held[r] # lastToken + 1
    BY <1>1 DEF SessionTyped
  <1>5. pc'[r] = "enqueue" /\ held'[r] \in DOMAIN tokens' => tokens'[held'[r]].user = cur'[r]
    BY <1>1, <1>4, TokensStay DEF Same, OwnedBy
  <1>6. ASSUME Open(r), Creates(r), NEW u \in DOMAIN mine[r], NEW t \in DOMAIN tokens',
               Invites(t, u)'
        PROVE  t \in DOMAIN tokens /\ Invites(t, u)
    <2>1. CASE t \in DOMAIN tokens /\ tokens'[t] = tokens[t]
      BY <1>6, <2>1 DEF Invites
    <2>2. CASE Mint(q) /\ tokens'[t] = [user |-> cur[q], purpose |-> Purpose(q)]
      <3>1. Purpose(q) = "invite" /\ u = cur[q] /\ pc[q] = "mint" /\ SessionTyped(q)
        BY <1>1, <1>6, <2>2, TypedParts DEF Invites, Mint
      <3>2. Open(q) /\ Creates(q)
        BY <3>1 DEF Open, Purpose, SessionTyped, Placed
      <3>3. cur[q] \in DOMAIN mine[q]
        BY <3>1, <3>2 DEF RowsInv, Rows, Pending
      <3> QED  BY <1>6, <3>1, <3>2, <3>3 DEF RowsInv, Rows, Apart
    <2> QED  BY <1>1, <2>1, <2>2, TokensStay
  <1> QED  BY <1>1, <1>2, <1>3, <1>5, <1>6 DEF Same, OwnedBy

\* What becomes of the session that acts.
Opened(q) == \A u \in DOMAIN mine[q], t \in DOMAIN tokens :
  Invites(t, u) => IF u = cur[q] THEN pc[q] = "enqueue" /\ t = held[q]
                                 ELSE \E m \in sent[q] : m.user = u /\ m.token = t

LEMMA OldTokens ==
  ASSUME Typed, NEW q \in Requests, Acts(q), ~ Mint(q), NEW t \in DOMAIN tokens', NEW u,
         Invites(t, u)'
  PROVE  t \in DOMAIN tokens /\ Invites(t, u)
  BY TokensStay DEF Invites

LEMMA RowFailsOwn ==
  ASSUME Typed, NEW q \in Requests, OwnedBy(q), RowFails(q), UNCHANGED <<op, tokens, mails>>,
         pc[q] \in {"check", "insert", "mint", "enqueue"}
  PROVE  OwnedBy(q)'
  <1>1. SessionTyped(q) /\ Open(q)
    BY TypedParts DEF Open
  <1>2. CASE op[q].kind = "bulk"
    <2>1. /\ op'[q] = op[q] /\ cur'[q] = 0 /\ mine'[q] = Without(mine[q], cur[q])
          /\ pc'[q] \in {"commit", "check"} /\ sent'[q] = sent[q]
      BY <1>2, RowFailsOnly DEF BackToSavepoint
    <2>2. DOMAIN mine'[q] = DOMAIN mine[q] \ {cur[q]} /\ 0 \notin DOMAIN mine'[q]
      BY <1>1, <2>1 DEF Without, SessionTyped
    <2>3. Creates(q) /\ Creates(q)' /\ ~ Spends(q)'
      BY <1>2, <2>1 DEF Creates, CreateKinds, Spends
    <2>4. Opened(q)'
      BY <1>1, <2>1, <2>2, <2>3 DEF OwnedBy, Opened, Invites
    <2>5. \A m \in sent'[q] : Good(m)'
      BY <2>1 DEF OwnedBy, Good
    <2> QED  BY <2>1, <2>3, <2>4, <2>5 DEF OwnedBy, Opened
  <1>3. CASE op[q].kind # "bulk"
    <2>1. pc'[q] = "idle" /\ sent'[q] = {}
      BY <1>3, RejectOnly DEF RowFails
    <2> QED  BY <2>1 DEF OwnedBy, Open, Spends
  <1> QED  BY <1>2, <1>3

LEMMA InsertOwn ==
  ASSUME RowsInv, NEW q \in Requests, OwnedBy(q), Inserts(q)
  PROVE  OwnedBy(q)'
  <1>1. /\ SharedTyped /\ SessionTyped(q) /\ Pending(q) /\ Typed
        /\ pc[q] = "insert" /\ UNCHANGED <<op, tokens, mails>>
    BY TypedParts DEF RowsInv, Rows, Inserts, Insert
  <1>2. /\ pc'[q] = "mint" /\ cur'[q] = lastId + 1 /\ sent'[q] = sent[q]
        /\ mine'[q] = With(mine[q], lastId + 1, Person(q))
    <2>1. /\ cur' = [cur EXCEPT ![q] = lastId + 1] /\ UNCHANGED sent
      BY DEF Inserts, Insert, NextId
    <2>2. cur'[q] = lastId + 1
      BY <2>1, TypedParts DEF Functions, RowsInv
    <2> QED  BY <1>1, <2>1, <2>2, InsertPending DEF Inserts
  <1>3. Creates(q) /\ Open(q) /\ cur[q] = 0 /\ 0 \notin DOMAIN mine[q]
    BY <1>1 DEF SessionTyped, Placed, Open, Pending
  <1>4. \A t \in DOMAIN tokens : ~ Invites(t, lastId + 1)
    BY <1>1 DEF SharedTyped, Invites
  <1>5. DOMAIN mine'[q] = DOMAIN mine[q] \union {lastId + 1}
    BY <1>2 DEF With
  <1>6. Opened(q)'
    BY <1>1, <1>2, <1>3, <1>4, <1>5 DEF OwnedBy, Opened, Invites
  <1>7. \A m \in sent'[q] : Good(m)'
    BY <1>1, <1>2 DEF OwnedBy, Good
  <1> QED  BY <1>2, <1>6, <1>7 DEF OwnedBy, Opened, Spends

LEMMA MintOwn ==
  ASSUME RowsInv, NEW q \in Requests, OwnedBy(q), Mint(q)
  PROVE  OwnedBy(q)'
  <1>1. /\ Typed /\ SharedTyped /\ SessionTyped(q) /\ Acts(q)
        /\ pc[q] = "mint" /\ UNCHANGED <<cur, mine, sent, op>>
    BY TypedParts DEF RowsInv, Mint, Acts
  <1>2. /\ pc'[q] = "enqueue" /\ held'[q] = lastToken + 1
        /\ tokens' = With(tokens, lastToken + 1, [user |-> cur[q], purpose |-> Purpose(q)])
    BY <1>1, MintTyped DEF Mint
  <1>3. tokens'[held'[q]].user = cur'[q]
    BY <1>1, <1>2 DEF With
  <1>4. \A m \in sent'[q] : Good(m)'
    BY <1>1, GoodStays DEF OwnedBy, SessionTyped, Placed
  <1>5. ASSUME Creates(q), NEW u \in DOMAIN mine[q], NEW t \in DOMAIN tokens', Invites(t, u)'
        PROVE  IF u = cur[q] THEN t = lastToken + 1
                             ELSE \E m \in sent[q] : m.user = u /\ m.token = t
    <2>1. CASE t = lastToken + 1
      <3>1. tokens'[t].user = cur[q]
        BY <1>2, <2>1 DEF With
      <3> QED  BY <1>5, <2>1, <3>1 DEF Invites
    <2>2. CASE t # lastToken + 1
      <3>1. t \in DOMAIN tokens /\ Invites(t, u) /\ Open(q)
        BY <1>1, <1>2, <1>5, <2>2 DEF With, Invites, Open
      <3> QED  BY <1>1, <1>5, <3>1 DEF OwnedBy
    <2> QED  BY <2>1, <2>2
  <1>6. Creates(q)' => Opened(q)'
    BY <1>1, <1>2, <1>5 DEF Creates, Opened
  <1> QED  BY <1>2, <1>3, <1>4, <1>6 DEF OwnedBy, Opened, Spends

LEMMA EnqueueOwn ==
  ASSUME Typed, NEW q \in Requests, OwnedBy(q), Enqueue(q)
  PROVE  OwnedBy(q)'
  <1>1. /\ SharedTyped /\ SessionTyped(q) /\ pc[q] = "enqueue" /\ Open(q)
        /\ UNCHANGED <<mine, op, held, tokens, mails>>
    BY TypedParts DEF Enqueue, data, Open
  <1> DEFINE x == [user |-> cur[q], token |-> held[q], kind |-> Purpose(q)]
  <1>2. sent'[q] = sent[q] \union {x}
    BY EnqueueTyped
  <1>3. Good(x)
    BY <1>1 DEF OwnedBy, Good
  <1>4. \A m \in sent'[q] : Good(m)'
    BY <1>1, <1>2, <1>3 DEF OwnedBy, Good
  <1>5. x.user = cur[q] /\ x.token = held[q]
    OBVIOUS
  <1> HIDE DEF x
  <1>6. op[q].kind \in CreateKinds \union {"forgot"}
    BY <1>1 DEF SessionTyped, Placed, Creates
  <1>7. ~ Spends(q)' /\ pc'[q] \in {"commit", "check"}
    BY <1>1, <1>6, EnqueueTyped DEF Spends, CreateKinds
  <1>8. Creates(q)' => Opened(q)'
    <2>1. SUFFICES ASSUME Creates(q) PROVE Opened(q)'
      BY <1>1 DEF Creates
    <2>2. cur'[q] = 0 /\ 0 \notin DOMAIN mine[q]
      BY <1>1, <2>1, EnqueueTyped DEF SessionTyped, Creates, CreateKinds
    <2>3. ASSUME NEW u \in DOMAIN mine[q], NEW t \in DOMAIN tokens, Invites(t, u)
          PROVE  \E m \in sent'[q] : m.user = u /\ m.token = t
      BY <1>1, <1>2, <1>5, <2>1, <2>3 DEF OwnedBy
    <2> QED  BY <1>1, <2>2, <2>3 DEF Opened, Invites
  <1> QED  BY <1>4, <1>7, <1>8 DEF OwnedBy, Opened

LEMMA ActsOwn ==
  ASSUME RowsInv, Owners, NEW q \in Requests, Acts(q)
  PROVE  OwnedBy(q)'
  <1>1. /\ Typed /\ OwnedBy(q) /\ SharedTyped /\ SessionTyped(q)
        /\ \A m \in mails : Good(m)
    BY TypedParts DEF RowsInv, Owners, Owned
  <1>2. ASSUME NEW o \in Ops, NEW u \in DOMAIN users \union {0}, NEW t \in Known \union {0},
               Begin(q, o, u, t)
        PROVE  OwnedBy(q)'
    <2>1. /\ pc'[q] = First(o, u) /\ op'[q] = o /\ held'[q] = t
          /\ mine'[q] = Empty /\ sent'[q] = {} /\ UNCHANGED <<mails, tokens>>
      BY <1>1, <1>2, TypedParts DEF Begin, Functions, data
    <2>2. /\ First(o, u) \notin {"enqueue", "set"}
          /\ First(o, u) = "consume" => o.kind = "reset"
          /\ First(o, u) = "commit" => o.kind # "reset"
      <3>1. o.kind \in CreateKinds \union UserKinds \union {"reset"}
        BY OpsAreTyped
      <3> QED  BY <3>1 DEF First, CreateKinds, UserKinds
    <2>3. o.kind = "reset" => \E m \in mails : m.token = t
      BY <1>2 DEF Begin, Known
    <2> QED  BY <2>1, <2>2, <2>3, EmptyIsEmpty DEF OwnedBy, Spends
  <1>3. CASE Check(q) \/ DeadlockBroken(q) \/ MailFails(q)
    <2>1. /\ UNCHANGED <<op, tokens, mails>>
          /\ pc[q] \in {"check", "insert", "mint", "enqueue"}
      BY <1>3 DEF Check, DeadlockBroken, MailFails, Blocked, data
    <2>2. CASE RowFails(q)
      BY <1>1, <2>1, <2>2, RowFailsOwn
    <2>3. CASE ~ RowFails(q)
      <3>1. pc[q] = "check" /\ pc' = [pc EXCEPT ![q] = "insert"] /\ UNCHANGED session
        BY <1>3, <2>3 DEF Check, DeadlockBroken, MailFails
      <3>2. pc'[q] = "insert"
        BY <1>1, <3>1, TypedParts DEF Functions
      <3>3. Creates(q) /\ Open(q)
        BY <1>1, <3>1 DEF SessionTyped, Placed, Open
      <3>4. Opened(q)'
        <4>1. cur[q] = 0 /\ 0 \notin DOMAIN mine[q]
          BY <1>1, <3>1, <3>3 DEF RowsInv, Rows, Pending, SessionTyped
        <4> QED  BY <1>1, <2>1, <3>1, <3>3, <4>1 DEF OwnedBy, Opened, Invites, session
      <3>5. \A m \in sent'[q] : Good(m)'
        BY <1>1, <2>1, <3>1 DEF OwnedBy, Good, session
      <3> QED  BY <3>2, <3>4, <3>5 DEF OwnedBy, Opened, Spends
    <2> QED  BY <2>2, <2>3
  <1>4. CASE Insert(q)
    <2>1. CASE ~ RowFails(q) \/ lastId' # lastId
      BY <1>1, <1>4, <2>1, InsertOwn DEF Inserts
    <2>2. CASE RowFails(q)
      BY <1>1, <1>4, <2>2, RowFailsOwn DEF Insert
    <2> QED  BY <2>1, <2>2
  <1>5. CASE Mint(q)
    BY <1>1, <1>5, MintOwn
  <1>6. CASE Enqueue(q)
    BY <1>1, <1>6, EnqueueOwn
  <1>7. CASE Consume(q)
    <2>1. /\ op'[q] = op[q] /\ op[q].kind = "reset" /\ pc[q] = "consume" /\ UNCHANGED mails
      BY <1>1, <1>7 DEF Consume, SessionTyped, Placed
    <2>2. ~ Creates(q)' /\ \E m \in mails : m.token = held[q]
      BY <1>1, <2>1 DEF Creates, CreateKinds, OwnedBy
    <2>3. \A m \in sent[q] : Good(m)'
      BY <1>1, GoodStays DEF OwnedBy, SessionTyped, Placed
    <2>4. CASE /\ held[q] \in DOMAIN tokens
               /\ pc'[q] = "set" /\ cur'[q] = tokens[held[q]].user
               /\ held'[q] = held[q] /\ sent'[q] = sent[q]
      <3>1. \E m \in mails : m.token = held[q] /\ m.user = cur'[q]
        BY <1>1, <2>2, <2>4 DEF Good
      <3> QED  BY <2>1, <2>2, <2>3, <2>4, <3>1 DEF OwnedBy
    <2>5. CASE pc'[q] = "idle" /\ sent'[q] = {}
      BY <2>5 DEF OwnedBy, Open, Spends
    <2> QED  BY <1>1, <1>7, <2>4, <2>5, ConsumeTyped
  <1>8. CASE SetPassword(q) \/ Fail(q)
    <2>1. CASE Reject(q)
      <3>1. pc'[q] = "idle" /\ sent'[q] = {}
        BY <1>1, <1>8, <2>1, RejectOnly DEF SetPassword, Fail
      <3> QED  BY <3>1 DEF OwnedBy, Open, Spends
    <2>2. CASE ~ Reject(q)
      <3>1. /\ pc[q] = "set" /\ pc' = [pc EXCEPT ![q] = "commit"]
            /\ UNCHANGED <<session, data, op>>
        BY <1>8, <2>2 DEF SetPassword, Fail
      <3>2. pc'[q] = "commit" /\ op[q].kind = "reset"
        BY <1>1, <3>1, TypedParts DEF Functions, SessionTyped, Placed
      <3>3. ~ Creates(q)' /\ (Spends(q)' => Spends(q))
        BY <3>1, <3>2 DEF Creates, CreateKinds, Spends
      <3>4. UNCHANGED <<sent, held, cur, tokens, mails>>
        BY <3>1 DEF session, data
      <3>5. \A m \in sent'[q] : Good(m)'
        BY <1>1, <3>4 DEF OwnedBy, Good
      <3> QED  BY <1>1, <3>2, <3>3, <3>4, <3>5 DEF OwnedBy
    <2> QED  BY <2>1, <2>2
  <1>9. CASE Commit(q)
    <2>1. pc'[q] = "answered" /\ sent'[q] = {}
      BY <1>1, <1>9, CommitTyped
    <2> QED  BY <2>1 DEF OwnedBy, Open, Spends
  <1> QED  BY <1>2, <1>3, <1>4, <1>5, <1>6, <1>7, <1>8, <1>9 DEF Acts

LEMMA ActsOwned ==
  ASSUME RowsInv, Owners, NEW q \in Requests, Acts(q)
  PROVE  Owned'
  <1>1. /\ Typed /\ SharedTyped /\ SessionTyped(q) /\ Pending(q) /\ Owned /\ OwnedBy(q)
    BY TypedParts DEF RowsInv, Owners, Rows
  <1>2. \A m \in mails : Good(m)'
    BY <1>1, GoodStays DEF Owned, SharedTyped
  <1>3. CASE Commit(q)
    <2>1. /\ UNCHANGED tokens /\ mails' = mails \union sent[q] /\ pc[q] = "commit" /\ Open(q)
          /\ DOMAIN users' = DOMAIN users \union DOMAIN mine[q]
      BY <1>1, <1>3, CommitRows DEF Commit, Open
    <2>2. \A m \in mails' : Good(m)'
      BY <1>1, <1>2, <2>1 DEF OwnedBy, Good
    <2>3. ASSUME NEW t \in DOMAIN tokens, NEW u \in DOMAIN mine[q], Invites(t, u)
          PROVE  \E m \in mails' : m.user = u /\ m.token = t
      <3>1. Creates(q)
        BY <1>1, <2>3, EmptyIsEmpty DEF SessionTyped, Placed
      <3>2. u # cur[q]
        BY <1>1, <2>1, <2>3, <3>1 DEF OwnedBy
      <3> QED  BY <1>1, <2>1, <2>3, <3>1, <3>2 DEF OwnedBy
    <2>4. \A t \in DOMAIN tokens', u \in DOMAIN users' :
            Invites(t, u)' => \E m \in mails' : m.user = u /\ m.token = t
      BY <1>1, <2>1, <2>3 DEF Owned, Invites
    <2>5. ASSUME NEW u \in DOMAIN users', password'[u] # 0
          PROVE  \E m \in mails' : m.user = u /\ m.token = password'[u]
      <3>1. password'[u] = IF u = cur[q] /\ op[q].kind = "reset" THEN held[q]
                           ELSE IF u \in DOMAIN users THEN password[u] ELSE 0
        BY <1>1, <1>3, CommitRows
      <3>2. CASE u = cur[q] /\ op[q].kind = "reset"
        BY <1>1, <2>1, <3>1, <3>2 DEF OwnedBy, Spends
      <3>3. CASE ~ (u = cur[q] /\ op[q].kind = "reset")
        BY <1>1, <2>1, <2>5, <3>1, <3>3 DEF Owned
      <3> QED  BY <3>2, <3>3
    <2> QED  BY <2>2, <2>4, <2>5 DEF Owned
  <1>4. CASE ~ Commit(q)
    <2>1. UNCHANGED <<users, password, mails>>
      BY <1>1, <1>4, WhatChanges
    <2>2. ASSUME NEW t \in DOMAIN tokens', NEW u \in DOMAIN users, Invites(t, u)'
          PROVE  \E m \in mails : m.user = u /\ m.token = t
      <3>1. CASE ~ Mint(q)
        BY <1>1, <2>2, <3>1, OldTokens DEF Owned
      <3>2. CASE Mint(q) /\ t \in DOMAIN tokens /\ tokens'[t] = tokens[t]
        BY <1>1, <2>2, <3>2 DEF Owned, Invites
      <3>3. CASE Mint(q) /\ tokens'[t] = [user |-> cur[q], purpose |-> Purpose(q)]
        <4>1. Purpose(q) = "invite" /\ u = cur[q] /\ pc[q] = "mint"
          BY <2>2, <3>3 DEF Invites, Mint
        <4>2. Creates(q) /\ Open(q)
          BY <1>1, <4>1 DEF Purpose, SessionTyped, Placed, Open
        <4> QED  BY <1>1, <2>2, <4>1, <4>2 DEF Pending
      <3> QED  BY <1>1, <3>1, <3>2, <3>3, TokensStay
    <2>3. \A t \in DOMAIN tokens', u \in DOMAIN users' :
            Invites(t, u)' => \E m \in mails' : m.user = u /\ m.token = t
      BY <2>1, <2>2
    <2> QED  BY <1>1, <1>2, <2>1, <2>3 DEF Owned
  <1> QED  BY <1>3, <1>4

LEMMA NextOwners ==
  ASSUME RowsInv, Owners, [Next]_vars
  PROVE  Owners'
  <1>1. ASSUME NEW q \in Requests, Acts(q)
        PROVE  Owners'
    <2>1. \A r \in Requests : OwnedBy(r)'
      BY <1>1, ActsOwn, OthersOwn
    <2> QED  BY <1>1, <2>1, ActsOwned DEF Owners
  <1>2. ASSUME NEW t \in DOMAIN tokens, Expire(t)
        PROVE  Owners'
    <2>1. /\ DOMAIN tokens' \subseteq DOMAIN tokens
          /\ \A x \in DOMAIN tokens' : tokens'[x] = tokens[x]
          /\ UNCHANGED <<users, password, mails, pc, op, cur, held, mine, sent>>
      BY <1>2 DEF Expire, Without, session
    <2>2. \A m : Good(m) => Good(m)'
      BY <2>1 DEF Good
    <2>3. \A x \in DOMAIN tokens' : \A u : Invites(x, u)' => x \in DOMAIN tokens /\ Invites(x, u)
      BY <2>1 DEF Invites
    <2>4. Owned'
      BY <2>1, <2>2, <2>3 DEF Owners, Owned
    <2>5. ASSUME NEW q \in Requests PROVE OwnedBy(q)'
      BY <2>1, <2>2, <2>3 DEF Owners, OwnedBy, Open, Creates, Spends
    <2> QED  BY <2>4, <2>5 DEF Owners
  <1>3. CASE UNCHANGED vars
    <2>1. UNCHANGED <<users, password, tokens, mails, pc, op, cur, held, mine, sent>>
      BY <1>3 DEF vars, data, session
    <2>2. Owned'
      BY <2>1 DEF Owners, Owned, Good, Invites
    <2>3. ASSUME NEW q \in Requests PROVE OwnedBy(q)'
      BY <2>1 DEF Owners, OwnedBy, Open, Creates, Spends, Good, Invites
    <2> QED  BY <2>2, <2>3 DEF Owners
  <1> QED  BY <1>1, <1>2, <1>3, NextActs

(* A token is good for the user its mail is about and for nobody else, the *)
(* one of an invitation that was rolled back for nobody at all; passwords  *)
(* are set with tokens of the user's own mails (queue_invite, queue_reset, *)
(* create_token, consume_token).                                           *)
THEOREM TokensHaveOwners == Spec => []TokenNamesItsOwner
  <1>1. ASSUME Init PROVE Owners
    BY <1>1, EmptyIsEmpty DEF Init, Owners, Owned, OwnedBy, Open, Spends
  <1>2. Spec => [](RowsInv /\ Owners)
    BY <1>1, RowsInvariant, NextOwners, PTL DEF Spec
  <1>3. Owners => TokenNamesItsOwner
    BY DEF Owners, Owned, Good, Invites, TokenNamesItsOwner
  <1> QED  BY <1>2, <1>3, PTL

-----------------------------------------------------------------------------
(* What a bulk request has made of the rows it is through with: each is an *)
(* error or a row it holds.                                                *)
Ended(q)   == pc[q] \in {"commit", "answered"}
Through(q) == 1..(IF Ended(q) THEN row[q] ELSE row[q] - 1)
Settled(q) == DOMAIN mine[q] \ {cur[q]}

Tally(q) ==
  op[q].kind = "bulk" /\ pc[q] # "idle" =>
    /\ errors[q] \subseteq Through(q)
    /\ {op[q].rows[k] : k \in Through(q) \ errors[q]} = {mine[q][i] : i \in Settled(q)}
    /\ IsFiniteSet(Settled(q))
    /\ Cardinality(Settled(q)) + Cardinality(errors[q]) = Cardinality(Through(q))
    /\ cur[q] # 0 => mine[q][cur[q]] = Person(q)
    /\ op[q].strict => errors[q] \subseteq (IF Ended(q) THEN {row[q]} ELSE {})
    /\ Ended(q) => row[q] = Len(op[q].rows) \/ (op[q].strict /\ errors[q] # {})

Kept(q) ==
  pc[q] = "answered" =>
    /\ cur[q] = 0
    /\ \A i \in DOMAIN mine[q] : i \in DOMAIN users /\ users[i].person = mine[q][i]

Tallied == \A q \in Requests : Tally(q) /\ Kept(q)

Works(q) == pc[q] \in {"check", "insert", "mint", "enqueue"}

LEMMA ErrorsFinite ==
  ASSUME Typed, NEW q \in Requests
  PROVE  IsFiniteSet(errors[q]) /\ Cardinality(errors[q]) \in Nat
  <1>1. errors[q] \subseteq 1..row[q] /\ row[q] \in Nat
    BY TypedParts DEF SessionTyped
  <1>2. IsFiniteSet(1..row[q])
    BY <1>1, FS_Interval
  <1> QED  BY <1>1, <1>2, FS_Subset, FS_CardinalityType

(* The row it is about is the next it is through with.                     *)
LEMMA ThroughGrows ==
  ASSUME Typed, NEW q \in Requests, Works(q),
         \/ pc'[q] = "commit" /\ row'[q] = row[q]
         \/ pc'[q] = "check" /\ row'[q] = row[q] + 1
  PROVE  /\ Through(q)' = Through(q) \union {row[q]} /\ row[q] \notin Through(q)
         /\ Cardinality(Through(q)') = Cardinality(Through(q)) + 1
         /\ Cardinality(Through(q)) \in Nat
  <1>1. row[q] \in Nat \ {0}
    BY TypedParts DEF SessionTyped
  <1>2. Through(q) = 1..(row[q] - 1) /\ Through(q)' = 1..row[q]
    BY <1>1 DEF Works, Through, Ended
  <1>3. /\ 1..row[q] = (1..(row[q] - 1)) \union {row[q]}
        /\ row[q] \notin 1..(row[q] - 1)
    BY <1>1
  <1>4. /\ IsFiniteSet(1..(row[q] - 1)) /\ Cardinality(1..(row[q] - 1)) \in Nat
    <2>1. 1 \in Int /\ row[q] - 1 \in Int
      BY <1>1
    <2>2. IsFiniteSet(1..(row[q] - 1))
      BY <2>1, FS_Interval
    <2> QED  BY <2>2, FS_CardinalityType
  <1>5. Cardinality((1..(row[q] - 1)) \union {row[q]}) = Cardinality(1..(row[q] - 1)) + 1
    BY <1>3, <1>4, FS_AddElement
  <1> QED  BY <1>2, <1>3, <1>4, <1>5

(* A row fails: it is an error, and what it inserted is given up.          *)
LEMMA RowFailsTally ==
  ASSUME Typed, NEW q \in Requests, Tally(q), RowFails(q), UNCHANGED op, Works(q)
  PROVE  Tally(q)'
  <1>1. SUFFICES ASSUME op[q].kind = "bulk" PROVE Tally(q)'
    BY RowFailsOnly DEF Tally
  <1>2. /\ errors[q] \subseteq Through(q)
        /\ {op[q].rows[k] : k \in Through(q) \ errors[q]} = {mine[q][i] : i \in Settled(q)}
        /\ IsFiniteSet(Settled(q))
        /\ Cardinality(Settled(q)) + Cardinality(errors[q]) = Cardinality(Through(q))
        /\ op[q].strict => errors[q] = {}
    BY <1>1 DEF Tally, Works, Ended
  <1>3. /\ op'[q] = op[q] /\ cur'[q] = 0
        /\ mine'[q] = Without(mine[q], cur[q])
        /\ errors'[q] = errors[q] \union {row[q]}
    BY <1>1, RowFailsOnly DEF BackToSavepoint
  <1>4. \/ pc'[q] = "commit" /\ row'[q] = row[q] /\ Done(q, errors'[q])
        \/ pc'[q] = "check" /\ row'[q] = row[q] + 1 /\ ~ Done(q, errors'[q])
    BY <1>1, <1>3, TypedParts DEF RowFails, Advance, Functions
  <1>5. /\ Through(q)' = Through(q) \union {row[q]} /\ row[q] \notin Through(q)
        /\ Cardinality(Through(q)') = Cardinality(Through(q)) + 1
        /\ Cardinality(Through(q)) \in Nat
    BY <1>4, ThroughGrows
  <1>6. /\ Settled(q)' = Settled(q)
        /\ \A i \in Settled(q) : mine'[q][i] = mine[q][i]
    <2>1. 0 \notin DOMAIN mine[q]
      BY TypedParts DEF SessionTyped
    <2> QED  BY <1>3, <2>1 DEF Settled, Without
  <1>7. /\ Through(q)' \ errors'[q] = Through(q) \ errors[q]
        /\ Cardinality(errors'[q]) = Cardinality(errors[q]) + 1
    <2>1. row[q] \notin errors[q]
      BY <1>2, <1>5
    <2>2. Cardinality(errors[q] \union {row[q]}) = Cardinality(errors[q]) + 1
      BY <2>1, ErrorsFinite, FS_AddElement
    <2> QED  BY <1>3, <1>5, <2>1, <2>2
  <1>8. {mine'[q][i] : i \in Settled(q)} = {mine[q][i] : i \in Settled(q)}
    BY <1>6
  <1>9. Cardinality(Settled(q)) \in Nat /\ Cardinality(errors[q]) \in Nat
    BY <1>2, ErrorsFinite, FS_CardinalityType
  <1>10. Cardinality(Settled(q)') + Cardinality(errors'[q]) = Cardinality(Through(q)')
    BY <1>2, <1>5, <1>6, <1>7, <1>9
  <1>11. /\ op'[q].strict => errors'[q] \subseteq (IF Ended(q)' THEN {row'[q]} ELSE {})
         /\ Ended(q)' => row'[q] = Len(op'[q].rows) \/ (op'[q].strict /\ errors'[q] # {})
    BY <1>2, <1>3, <1>4 DEF Done, Ended
  <1>12. /\ errors'[q] \subseteq Through(q)'
         /\ {op'[q].rows[k] : k \in Through(q)' \ errors'[q]} = {mine'[q][i] : i \in Settled(q)'}
         /\ IsFiniteSet(Settled(q)')
    BY <1>2, <1>3, <1>5, <1>6, <1>7, <1>8
  <1> QED  BY <1>3, <1>10, <1>11, <1>12 DEF Tally

(* The invitation of a row is queued: the row is settled.                  *)
LEMMA EnqueueTally ==
  ASSUME Typed, NEW q \in Requests, Pending(q), Tally(q), Enqueue(q)
  PROVE  Tally(q)'
  <1>1. SUFFICES ASSUME op[q].kind = "bulk" PROVE Tally(q)'
    BY DEF Enqueue, Tally
  <1>2. pc[q] = "enqueue" /\ Works(q) /\ Open(q) /\ Creates(q)
    BY <1>1 DEF Enqueue, Works, Open, Creates, CreateKinds
  <1>3. /\ errors[q] \subseteq Through(q)
        /\ {op[q].rows[k] : k \in Through(q) \ errors[q]} = {mine[q][i] : i \in Settled(q)}
        /\ IsFiniteSet(Settled(q))
        /\ Cardinality(Settled(q)) + Cardinality(errors[q]) = Cardinality(Through(q))
        /\ op[q].strict => errors[q] = {}
        /\ cur[q] \in DOMAIN mine[q] /\ mine[q][cur[q]] = op[q].rows[row[q]]
    BY <1>1, <1>2 DEF Tally, Ended, Pending, Person
  <1>4. /\ op'[q] = op[q] /\ mine'[q] = mine[q] /\ errors'[q] = errors[q] /\ cur'[q] = 0
        /\ \/ pc'[q] = "commit" /\ row'[q] = row[q] /\ Done(q, errors'[q])
           \/ pc'[q] = "check" /\ row'[q] = row[q] + 1 /\ ~ Done(q, errors'[q])
    BY <1>1, TypedParts DEF Enqueue, Advance, Functions
  <1>5. /\ Through(q)' = Through(q) \union {row[q]} /\ row[q] \notin Through(q)
        /\ Cardinality(Through(q)') = Cardinality(Through(q)) + 1
        /\ Cardinality(Through(q)) \in Nat
    BY <1>2, <1>4, ThroughGrows
  <1>6. /\ Settled(q)' = Settled(q) \union {cur[q]} /\ cur[q] \notin Settled(q)
    <2>1. 0 \notin DOMAIN mine[q]
      BY TypedParts DEF SessionTyped
    <2> QED  BY <1>3, <1>4, <2>1 DEF Settled
  <1>7. /\ IsFiniteSet(Settled(q)')
        /\ Cardinality(Settled(q)') = Cardinality(Settled(q)) + 1
        /\ Cardinality(Settled(q)) \in Nat /\ Cardinality(errors[q]) \in Nat
    BY <1>3, <1>6, FS_AddElement, FS_CardinalityType, ErrorsFinite
  <1>8. {op'[q].rows[k] : k \in Through(q)' \ errors'[q]} = {mine'[q][i] : i \in Settled(q)'}
    <2>1. Through(q)' \ errors'[q] = (Through(q) \ errors[q]) \union {row[q]}
      BY <1>3, <1>4, <1>5
    <2>2. {op[q].rows[k] : k \in (Through(q) \ errors[q]) \union {row[q]}}
            = {op[q].rows[k] : k \in Through(q) \ errors[q]} \union {op[q].rows[row[q]]}
      OBVIOUS
    <2>3. {mine[q][i] : i \in Settled(q) \union {cur[q]}}
            = {mine[q][i] : i \in Settled(q)} \union {mine[q][cur[q]]}
      OBVIOUS
    <2> QED  BY <1>3, <1>4, <1>6, <2>1, <2>2, <2>3
  <1>9. Cardinality(Settled(q)') + Cardinality(errors'[q]) = Cardinality(Through(q)')
    BY <1>3, <1>4, <1>5, <1>7
  <1>10. /\ op'[q].strict => errors'[q] \subseteq (IF Ended(q)' THEN {row'[q]} ELSE {})
         /\ Ended(q)' => row'[q] = Len(op'[q].rows) \/ (op'[q].strict /\ errors'[q] # {})
    BY <1>3, <1>4 DEF Done, Ended
  <1> QED  BY <1>3, <1>4, <1>5, <1>7, <1>8, <1>9, <1>10 DEF Tally

LEMMA InsertTally ==
  ASSUME Typed, NEW q \in Requests, Pending(q), Tally(q), Inserts(q)
  PROVE  Tally(q)'
  <1>1. /\ pc[q] = "insert" /\ pc'[q] = "mint" /\ lastId' = lastId + 1
        /\ mine'[q] = With(mine[q], lastId + 1, Person(q))
        /\ SessionTyped(q) /\ lastId \in Nat
    BY InsertPending, TypedParts DEF Inserts, Insert, SharedTyped
  <1>2. /\ UNCHANGED <<op, row, errors>> /\ cur'[q] = lastId + 1
    BY TypedParts DEF Inserts, Insert, Functions, NextId
  <1>3. Creates(q) /\ Open(q) /\ cur[q] = 0
    BY <1>1 DEF SessionTyped, Placed, Open, Pending
  <1>4. lastId + 1 \notin DOMAIN mine[q] /\ 0 \notin DOMAIN mine[q]
    BY <1>1 DEF SessionTyped
  <1>5. Settled(q)' = Settled(q) /\ \A i \in Settled(q) : mine'[q][i] = mine[q][i]
    BY <1>1, <1>2, <1>3, <1>4 DEF Settled, With
  <1>6. mine'[q][cur'[q]] = Person(q)'
    BY <1>1, <1>2 DEF With, Person
  <1>7. Through(q)' = Through(q) /\ ~ Ended(q)' /\ ~ Ended(q)
    BY <1>1, <1>2 DEF Through, Ended
  <1>8. {mine'[q][i] : i \in Settled(q)} = {mine[q][i] : i \in Settled(q)}
    BY <1>5
  <1>9. CASE op[q].kind = "bulk"
    BY <1>1, <1>2, <1>5, <1>6, <1>7, <1>8, <1>9 DEF Tally
  <1> QED  BY <1>2, <1>9 DEF Tally

LEMMA BeginTally ==
  ASSUME Typed, NEW q \in Requests, NEW o \in Ops, NEW u \in DOMAIN users \union {0},
         NEW t \in Known \union {0}, Begin(q, o, u, t)
  PROVE  Tally(q)'
  <1>1. SUFFICES ASSUME op'[q].kind = "bulk" PROVE Tally(q)'
    BY DEF Tally
  <1>2. /\ pc'[q] = First(o, u) /\ op'[q] = o /\ row'[q] = 1
        /\ errors'[q] = {} /\ mine'[q] = Empty
        /\ cur'[q] = IF First(o, u) = "idle" THEN 0 ELSE u
    BY TypedParts DEF Begin, Functions
  <1>3. pc'[q] = "check" /\ cur'[q] = 0
    BY <1>1, <1>2 DEF Begin, First, CreateKinds, UserKinds
  <1>4. Settled(q)' = {} /\ Through(q)' = {}
    BY <1>2, <1>3, EmptyIsEmpty DEF Settled, Through, Ended
  <1>5. IsFiniteSet({}) /\ Cardinality({}) = 0
    BY FS_EmptySet
  <1> QED  BY <1>2, <1>3, <1>4, <1>5 DEF Tally, Ended

(* The request goes on with the row, or ends, and nothing is settled.      *)
LEMMA PassesTally ==
  ASSUME NEW q \in Requests, Tally(q),
         op'[q] = op[q] /\ row'[q] = row[q] /\ cur'[q] = cur[q],
         mine'[q] = mine[q] /\ errors'[q] = errors[q],
         pc[q] # "idle" \/ pc'[q] = "idle", Ended(q)' <=> Ended(q)
  PROVE  Tally(q)'
  <1>1. Through(q)' = Through(q) /\ Settled(q)' = Settled(q) /\ Person(q)' = Person(q)
    BY DEF Through, Settled, Person
  <1>2. /\ {op'[q].rows[k] : k \in Through(q)' \ errors'[q]}
             = {op[q].rows[k] : k \in Through(q) \ errors[q]}
        /\ {mine'[q][i] : i \in Settled(q)'} = {mine[q][i] : i \in Settled(q)}
    BY <1>1
  <1>3. CASE op[q].kind = "bulk" /\ pc[q] # "idle"
    BY <1>1, <1>2, <1>3 DEF Tally
  <1>4. CASE ~ (op[q].kind = "bulk" /\ pc[q] # "idle")
    BY <1>4 DEF Tally
  <1> QED  BY <1>3, <1>4

LEMMA ActsTally ==
  ASSUME Typed, NEW q \in Requests, Pending(q), Tally(q), Acts(q)
  PROVE  Tally(q)'
  <1>1. SessionTyped(q)
    BY TypedParts
  <1>2. CASE \E o \in Ops, u \in DOMAIN users \union {0}, t \in Known \union {0} :
               Begin(q, o, u, t)
    BY <1>2, BeginTally
  <1>3. CASE Check(q) \/ DeadlockBroken(q) \/ MailFails(q)
    <2>1. UNCHANGED op /\ Works(q)
      BY <1>3 DEF Check, DeadlockBroken, MailFails, Blocked, Works
    <2>2. CASE RowFails(q)
      BY <2>1, <2>2, RowFailsTally
    <2>3. CASE ~ RowFails(q)
      <3>1. pc[q] = "check" /\ pc'[q] = "insert" /\ UNCHANGED session
        BY <1>3, <2>3, TypedParts DEF Check, DeadlockBroken, MailFails, Functions
      <3> QED  BY <2>1, <3>1, PassesTally DEF session, Ended
    <2> QED  BY <2>2, <2>3
  <1>4. CASE Insert(q)
    <2>1. CASE Inserts(q)
      BY <2>1, InsertTally
    <2>2. CASE ~ Inserts(q)
      BY <1>4, <2>2, RowFailsTally DEF Inserts, Insert, Works
    <2> QED  BY <2>1, <2>2
  <1>5. CASE Mint(q)
    <2>1. /\ pc[q] = "mint" /\ pc'[q] = "enqueue"
          /\ UNCHANGED <<op, row, cur, mine, errors>>
      BY <1>5, MintTyped DEF Mint
    <2> QED  BY <2>1, PassesTally DEF Ended
  <1>6. CASE Enqueue(q)
    BY <1>6, EnqueueTally
  <1>7. CASE Consume(q) \/ SetPassword(q)
    <2>1. op[q].kind # "bulk" /\ UNCHANGED op
      BY <1>1, <1>7 DEF Consume, SetPassword, SessionTyped, Placed
    <2> QED  BY <2>1 DEF Tally
  <1>8. CASE Fail(q)
    <2>1. pc'[q] = "idle"
      BY <1>8, RejectOnly DEF Fail
    <2> QED  BY <2>1 DEF Tally
  <1>9. CASE Commit(q)
    <2>1. CASE op[q].kind = "bulk"
      <3>1. pc[q] = "commit" /\ Open(q) /\ Creates(q)
        BY <1>9, <2>1 DEF Commit, Open, Creates, CreateKinds
      <3>2. cur[q] = 0 /\ cur'[q] = 0 /\ pc'[q] = "answered"
            /\ UNCHANGED <<op, row, mine, errors>>
        BY <1>9, <3>1, CommitTyped DEF Pending, Commit
      <3> QED  BY <3>1, <3>2, PassesTally DEF Ended
    <2>2. CASE op[q].kind # "bulk"
      BY <1>9, <2>2, CommitTyped DEF Tally
    <2> QED  BY <2>1, <2>2
  <1> QED  BY <1>2, <1>3, <1>4, <1>5, <1>6, <1>7, <1>8, <1>9 DEF Acts

(* No commit changes who a user is.                                        *)
LEMMA PersonsStay ==
  ASSUME Typed, Rows, NEW q \in Requests, Acts(q), NEW u \in DOMAIN users
  PROVE  u \in DOMAIN users' /\ users'[u].person = users[u].person
  <1>1. CASE ~ Commit(q)
    BY <1>1, OpenChanges
  <1>2. CASE Commit(q)
    <2>1. DOMAIN users' = DOMAIN users \union DOMAIN mine[q]
      BY <1>2, CommitRows
    <2>2. u \notin DOMAIN mine[q]
      <3>1. Open(q) /\ SessionTyped(q) /\ Pending(q)
        BY <1>2, TypedParts DEF Commit, Open, Rows
      <3> QED  BY <3>1, EmptyIsEmpty DEF Pending, SessionTyped, Placed
    <2> QED  BY <1>2, <2>1, <2>2, CommitRows
  <1> QED  BY <1>1, <1>2

(* The answer comes with the commit.                                       *)
LEMMA AnsweredByCommit ==
  ASSUME Typed, NEW q \in Requests, Acts(q), pc'[q] = "answered"
  PROVE  Commit(q)
  <1>1. CASE \E o \in Ops, u \in DOMAIN users \union {0}, t \in Known \union {0} :
               Begin(q, o, u, t)
    BY <1>1, TypedParts DEF Begin, Functions, First
  <1>2. CASE RowFails(q) /\ UNCHANGED op
    BY <1>2, RowFailsOnly
  <1>3. CASE Reject(q) /\ UNCHANGED op
    BY <1>3, RejectOnly
  <1>4. CASE Mint(q) \/ Enqueue(q)
    BY <1>4, MintTyped, EnqueueTyped
  <1>5. CASE pc' = [pc EXCEPT ![q] = "insert"] \/ pc' = [pc EXCEPT ![q] = "mint"]
             \/ pc' = [pc EXCEPT ![q] = "set"] \/ pc' = [pc EXCEPT ![q] = "commit"]
    BY <1>5, TypedParts DEF Functions
  <1> QED  BY <1>1, <1>2, <1>3, <1>4, <1>5
           DEF Acts, Check, DeadlockBroken, MailFails, Insert, Consume, SetPassword, Fail

LEMMA ActsKept ==
  ASSUME Typed, Rows, NEW q \in Requests, Acts(q), NEW r \in Requests, Kept(r)
  PROVE  Kept(r)'
  <1>1. CASE r # q
    <2>1. Same(r)
      BY <1>1, OpenChanges
    <2> QED  BY <2>1, PersonsStay DEF Kept, Same
  <1>2. CASE r = q /\ pc'[q] = "answered"
    <2>1. Commit(q)
      BY <1>2, AnsweredByCommit
    <2>2. \A i \in DOMAIN mine[q] : i \in DOMAIN users' /\ users'[i].person = mine[q][i]
      BY <2>1, CommitRows
    <2> QED  BY <1>2, <2>1, <2>2, CommitTyped DEF Kept
  <1>3. CASE r = q /\ pc'[q] # "answered"
    BY <1>3 DEF Kept
  <1> QED  BY <1>1, <1>2, <1>3

LEMMA NextTallied ==
  ASSUME RowsInv, Tallied, [Next]_vars
  PROVE  Tallied'
  <1>1. ASSUME NEW q \in Requests, Acts(q), NEW r \in Requests
        PROVE  Tally(r)' /\ Kept(r)'
    <2>1. Tally(r)'
      <3>1. CASE r = q
        BY <1>1, <3>1, ActsTally DEF RowsInv, Rows, Tallied
      <3>2. CASE r # q
        <4>1. Same(r)
          BY <1>1, <3>2, OpenChanges DEF RowsInv
        <4> QED  BY <4>1, PassesTally DEF Tallied, Same, Ended
      <3> QED  BY <3>1, <3>2
    <2> QED  BY <1>1, <2>1, ActsKept DEF RowsInv, Tallied
  <1>2. ASSUME UNCHANGED <<users, pc, op, session>>
        PROVE  Tallied'
    <2>1. ASSUME NEW q \in Requests PROVE Tally(q)'
      BY <1>2, PassesTally DEF Tallied, Ended, session
    <2>2. ASSUME NEW q \in Requests PROVE Kept(q)'
      BY <1>2 DEF Tallied, Kept, session
    <2> QED  BY <2>1, <2>2 DEF Tallied
  <1>3. ASSUME NEW t \in DOMAIN tokens, Expire(t)
        PROVE  Tallied'
    BY <1>2, <1>3 DEF Expire
  <1>4. CASE UNCHANGED vars
    BY <1>2, <1>4 DEF vars, data
  <1> QED  BY <1>1, <1>3, <1>4, NextActs DEF Tallied

(* The answer to a bulk request tells what is in the table: its rows are   *)
(* committed users with their invitations and errors, each is one of them  *)
(* (bulk_create_users), also if rows fail between INSERT and mail.         *)
THEOREM BulkAnswersTellRows == Spec => []AnswerTellsRows
  <1>1. ASSUME RowsInv, Tallied PROVE AnswerTellsRows
    <2>1. ASSUME NEW q \in Requests, op[q].kind = "bulk", pc[q] = "answered"
          PROVE  /\ \A i \in DOMAIN mine[q] :
                      /\ i \in DOMAIN users /\ users[i].person = mine[q][i]
                      /\ \E m \in mails : m.user = i /\ m.kind = "invite"
                 /\ {op[q].rows[k] : k \in (1..row[q]) \ errors[q]} =
                      {mine[q][i] : i \in DOMAIN mine[q]}
                 /\ Cardinality(DOMAIN mine[q]) + Cardinality(errors[q]) = row[q]
                 /\ IF op[q].strict THEN errors[q] \subseteq {row[q]}
                    ELSE row[q] = Len(op[q].rows)
                 /\ errors[q] = {} => row[q] = Len(op[q].rows)
      <3>1. Ended(q) /\ Through(q) = 1..row[q] /\ row[q] \in Nat \ {0} /\ cur[q] = 0
            /\ 0 \notin DOMAIN mine[q]
        BY <1>1, <2>1, TypedParts DEF Ended, Through, RowsInv, SessionTyped, Tallied, Kept
      <3>2. Settled(q) = DOMAIN mine[q]
        BY <3>1 DEF Settled
      <3>3. Cardinality(1..row[q]) = row[q]
        BY <3>1, FS_Interval
      <3>4. \A i \in DOMAIN mine[q] : i \in DOMAIN users /\ users[i].person = mine[q][i]
        BY <1>1, <2>1 DEF Tallied, Kept
      <3>5. \A i \in DOMAIN users : \E m \in mails : m.user = i /\ m.kind = "invite"
        BY <1>1 DEF RowsInv, Rows, Invited, OneInvite, InvitesOf
      <3> QED  BY <1>1, <2>1, <3>1, <3>2, <3>3, <3>4, <3>5 DEF Tallied, Tally
    <2> QED  BY <2>1 DEF AnswerTellsRows
  <1>2. Init => Tallied
    BY DEF Init, Tallied, Tally, Kept
  <1>3. Spec => []Tallied
    BY <1>2, NextTallied, RowsInvariant, PTL DEF Spec
  <1> QED  BY <1>1, <1>3, RowsInvariant, PTL

-----------------------------------------------------------------------------
(* What a request was allowed when it looked; it is current while no other *)
(* one is open.                                                            *)
Edits(q) == op[q].kind \in {"edit", "delete"}

Entitled(q) ==
  /\ Open(q) /\ Creates(q) =>
       \A i \in DOMAIN mine[q] : MayManage(op[q].actor, RoleOf[mine[q][i]])
  /\ pc[q] = "insert" => MayManage(op[q].actor, RoleOf[Person(q)])
  /\ pc[q] = "commit" /\ Edits(q) =>
       /\ op[q].role # None => MayManage(op[q].actor, op[q].role)
       /\ ~ overlapped => /\ Live(cur[q])
                          /\ MayManage(op[q].actor, users[cur[q]].role)
                          /\ op[q].kind = "delete" => users[cur[q]].role # "lead"

Alone == ~ overlapped => \A q, r \in Requests : Open(q) /\ Open(r) => q = r

LEMMA RowFailsEntitled ==
  ASSUME Typed, NEW q \in Requests, Entitled(q), RowFails(q), UNCHANGED op, Works(q)
  PROVE  Entitled(q)'
  <1>1. Open(q) /\ op'[q] = op[q]
    BY RowFailsOnly DEF Works, Open
  <1>2. CASE op[q].kind = "bulk"
    <2>1. mine'[q] = Without(mine[q], cur[q]) /\ pc'[q] \in {"commit", "check"}
      BY <1>2, RowFailsOnly DEF BackToSavepoint
    <2>2. Creates(q) /\ Creates(q)' /\ ~ Edits(q)'
      BY <1>1, <1>2 DEF Creates, CreateKinds, Edits
    <2> QED  BY <1>1, <2>1, <2>2 DEF Entitled, Without
  <1>3. CASE op[q].kind # "bulk"
    <2>1. pc'[q] = "idle"
      BY <1>3, RejectOnly DEF RowFails
    <2> QED  BY <2>1 DEF Entitled, Open
  <1> QED  BY <1>2, <1>3

LEMMA BeginEntitled ==
  ASSUME Typed, NEW q \in Requests, NEW o \in Ops, NEW u \in DOMAIN users \union {0},
         NEW t \in Known \union {0}, Begin(q, o, u, t)
  PROVE  Entitled(q)'
  <1>1. /\ pc'[q] = First(o, u) /\ op'[q] = o /\ mine'[q] = Empty /\ UNCHANGED users
        /\ cur'[q] = IF First(o, u) = "idle" THEN 0 ELSE u
    BY TypedParts DEF Begin, Functions, data
  <1>2. pc'[q] # "insert"
    BY <1>1 DEF First
  <1>3. CASE pc'[q] = "commit" /\ Edits(q)'
    <2>1. cur'[q] = u /\ o.kind \in {"edit", "delete"}
      BY <1>1, <1>3 DEF Edits
    <2>2. /\ Live(u) /\ MayManage(o.actor, users[u].role)
          /\ o.kind = "delete" => users[u].role # "lead"
          /\ o.role # None => MayManage(o.actor, o.role)
      BY <1>1, <1>3, <2>1 DEF First, CreateKinds
    <2> QED  BY <1>1, <1>2, <2>1, <2>2, EmptyIsEmpty DEF Entitled, Live
  <1>4. CASE ~ (pc'[q] = "commit" /\ Edits(q)')
    BY <1>1, <1>2, <1>4, EmptyIsEmpty DEF Entitled
  <1> QED  BY <1>3, <1>4

LEMMA ActsEntitled ==
  ASSUME Typed, NEW q \in Requests, Entitled(q), Acts(q)
  PROVE  Entitled(q)'
  <1>1. SessionTyped(q)
    BY TypedParts
  <1>2. CASE \E o \in Ops, u \in DOMAIN users \union {0}, t \in Known \union {0} :
               Begin(q, o, u, t)
    BY <1>2, BeginEntitled
  <1>3. CASE Check(q) \/ DeadlockBroken(q) \/ MailFails(q)
    <2>1. UNCHANGED op /\ Works(q)
      BY <1>3 DEF Check, DeadlockBroken, MailFails, Blocked, Works
    <2>2. CASE RowFails(q)
      BY <2>1, <2>2, RowFailsEntitled
    <2>3. CASE ~ RowFails(q)
      <3>1. /\ pc[q] = "check" /\ pc'[q] = "insert" /\ UNCHANGED session
            /\ MayManage(op[q].actor, RoleOf[Person(q)])
        BY <1>3, <2>3, TypedParts DEF Check, DeadlockBroken, MailFails, Functions
      <3>2. UNCHANGED <<op, row, mine>> /\ Open(q) /\ Person(q)' = Person(q)
        BY <2>1, <3>1 DEF session, Open, Person
      <3> QED  BY <3>1, <3>2 DEF Entitled, Creates
    <2> QED  BY <2>2, <2>3
  <1>4. CASE Insert(q)
    <2>1. CASE Inserts(q)
      <3>1. /\ pc[q] = "insert" /\ pc'[q] = "mint" /\ UNCHANGED op /\ Open(q)
            /\ mine'[q] = With(mine[q], lastId + 1, Person(q))
        BY <2>1, TypedParts DEF Inserts, Insert, NextId, Functions, Open
      <3> QED  BY <3>1 DEF Entitled, With, Creates
    <2>2. CASE ~ Inserts(q)
      BY <1>4, <2>2, RowFailsEntitled DEF Inserts, Insert, Works
    <2> QED  BY <2>1, <2>2
  <1>5. CASE Mint(q) \/ Enqueue(q)
    <2>1. /\ Open(q) /\ UNCHANGED <<op, mine>> /\ pc'[q] # "insert"
          /\ op[q].kind \in {"create", "bulk", "forgot"}
      BY <1>1, <1>5, MintTyped, EnqueueTyped
         DEF Mint, Enqueue, Open, SessionTyped, Placed, Creates, CreateKinds
    <2> QED  BY <2>1 DEF Entitled, Creates, Edits
  <1>6. CASE Consume(q) \/ SetPassword(q)
    <2>1. op[q].kind = "reset" /\ UNCHANGED op
      BY <1>1, <1>6 DEF Consume, SetPassword, SessionTyped, Placed
    <2>2. pc'[q] # "insert"
      BY <1>6, ConsumeTyped, RejectOnly, TypedParts DEF Consume, SetPassword, Functions
    <2> QED  BY <2>1, <2>2 DEF Entitled, Creates, CreateKinds, Edits
  <1>7. CASE Fail(q)
    <2>1. pc'[q] = "idle"
      BY <1>7, RejectOnly DEF Fail
    <2> QED  BY <2>1 DEF Entitled, Open
  <1>8. CASE Commit(q)
    BY <1>8, CommitTyped DEF Entitled, Open
  <1> QED  BY <1>2, <1>3, <1>4, <1>5, <1>6, <1>7, <1>8 DEF Acts

(* Requests overlap when the second begins.                                *)
LEMMA ActsAlone ==
  ASSUME Typed, NEW q \in Requests, Acts(q), Alone
  PROVE  Alone' /\ (overlapped => overlapped')
  <1>1. \A r \in Requests \ {q} : Open(r)' <=> Open(r)
    BY OpenChanges
  <1>2. CASE \E o \in Ops, u \in DOMAIN users \union {0}, t \in Known \union {0} :
               Begin(q, o, u, t)
    <2>1. overlapped' = (overlapped \/ \E r \in Requests \ {q} : Open(r))
      BY <1>2 DEF Begin
    <2> QED  BY <1>1, <2>1 DEF Alone
  <1>3. CASE ~ \E o \in Ops, u \in DOMAIN users \union {0}, t \in Known \union {0} :
               Begin(q, o, u, t)
    <2>1. Open(q) /\ UNCHANGED overlapped
      BY <1>3 DEF Acts, Check, DeadlockBroken, MailFails, Insert, Mint, Enqueue, Consume,
                  SetPassword, Fail, Commit, Blocked, Open
    <2> QED  BY <1>1, <2>1 DEF Alone
  <1> QED  BY <1>2, <1>3

LEMMA OthersEntitled ==
  ASSUME Typed, NEW q \in Requests, Acts(q), Alone, NEW r \in Requests \ {q}, Entitled(r)
  PROVE  Entitled(r)'
  <1>1. Same(r) /\ (Open(r)' <=> Open(r))
    BY OpenChanges
  <1>2. Same(r) /\ (Open(r)' <=> Open(r)) /\ Person(r)' = Person(r)
    BY <1>1 DEF Same, Person
  <1>3. Open(r) => UNCHANGED users \/ overlapped'
    <2>1. Commit(q) => Open(q)
      BY DEF Commit, Open
    <2> QED  BY <2>1, OpenChanges, ActsAlone DEF Alone
  <1>4. overlapped => overlapped'
    BY ActsAlone
  <1>5. pc[r] = "commit" => Open(r)
    BY DEF Open
  <1> QED  BY <1>2, <1>3, <1>4, <1>5 DEF Entitled, Same, Creates, Edits, Live

EntitledAll == Alone /\ \A q \in Requests : Entitled(q)

LEMMA NextEntitled ==
  ASSUME Typed, EntitledAll, [Next]_vars
  PROVE  EntitledAll'
  <1>1. ASSUME NEW q \in Requests, Acts(q)
        PROVE  EntitledAll'
    BY <1>1, ActsEntitled, OthersEntitled, ActsAlone DEF EntitledAll
  <1>2. ASSUME UNCHANGED <<users, pc, op, session, overlapped>>
        PROVE  EntitledAll'
    BY <1>2 DEF EntitledAll, Alone, Entitled, Open, Creates, Edits, Live, Person, session
  <1>3. CASE \E t \in DOMAIN tokens : Expire(t)
    BY <1>2, <1>3 DEF Expire
  <1>4. CASE UNCHANGED vars
    BY <1>2, <1>4 DEF vars, data
  <1> QED  BY <1>1, <1>3, <1>4, NextActs

(* What a commit makes of a user it changes.                               *)
LEMMA CommitProtects ==
  ASSUME Typed, Rows, EntitledAll, NEW q \in Requests, Commit(q),
         NEW u \in DOMAIN users', op[q].actor # "admin"
  PROVE  /\ u \notin DOMAIN users => users'[u].role # "admin" /\ ~ users'[u].gone
         /\ u \in DOMAIN users /\ users'[u] # users[u] =>
              /\ users[u].role = "admin" \/ users'[u].role # "admin"
              /\ ~ overlapped => users[u].role # "admin"
  <1>1. /\ pc[q] = "commit" /\ Open(q) /\ SessionTyped(q) /\ SharedTyped
        /\ Entitled(q) /\ Pending(q)
        /\ users' = [x \in DOMAIN users \union DOMAIN mine[q] |-> Written(q, x)]
    BY TypedParts DEF Commit, Open, EntitledAll, Rows
  <1>2. ASSUME u \in DOMAIN mine[q]
        PROVE  users'[u].role # "admin" /\ ~ users'[u].gone /\ u \notin DOMAIN users
    <2>1. Creates(q)
      BY <1>1, <1>2, EmptyIsEmpty DEF SessionTyped, Placed
    <2>2. users'[u] = NewUser(mine[q][u])
      BY <1>1, <1>2, <2>1 DEF Written, Creates, CreateKinds
    <2>3. u \notin DOMAIN users
      BY <1>1, <1>2, <2>1 DEF Pending
    <2>4. MayManage(op[q].actor, RoleOf[mine[q][u]])
      BY <1>1, <1>2, <2>1 DEF Entitled
    <2> QED  BY <2>2, <2>3, <2>4 DEF NewUser, MayManage
  <1>3. ASSUME u \notin DOMAIN mine[q], users'[u] # users[u]
        PROVE  /\ u \in DOMAIN users /\ u = cur[q] /\ Edits(q)
               /\ users[u].role = "admin" \/ users'[u].role # "admin"
               /\ ~ overlapped => users[u].role # "admin"
    <2>1. users'[u] = Written(q, u) /\ u \in DOMAIN users /\ users[u] \in Row
      BY <1>1, <1>3 DEF SharedTyped
    <2>2. u = cur[q] /\ Edits(q)
      BY <1>3, <2>1 DEF Written, Edits
    <2>3. op[q].kind = "edit" => users'[u].role \in {users[u].role, op[q].role}
                                 /\ (users'[u].role = op[q].role => op[q].role # None
                                       \/ users'[u].role = users[u].role)
      BY <1>3, <2>1, <2>2 DEF Written, Edited, Row
    <2>4. op[q].kind = "delete" => users'[u].role = users[u].role
      BY <1>3, <2>1, <2>2 DEF Written, Row
    <2>5. op[q].role # None => op[q].role # "admin"
      BY <1>1, <2>2 DEF Entitled, MayManage
    <2>6. ~ overlapped => users[u].role # "admin"
      BY <1>1, <2>2 DEF Entitled, MayManage
    <2>7. users[u].role = "admin" \/ users'[u].role # "admin"
      BY <2>2, <2>3, <2>4, <2>5 DEF Edits, None
    <2> QED  BY <2>1, <2>2, <2>6, <2>7
  <1>4. u \in DOMAIN users \/ u \in DOMAIN mine[q]
    BY <1>1
  <1> QED  BY <1>2, <1>3, <1>4

LEMMA DeletesNoLead ==
  ASSUME Typed, Rows, EntitledAll, NEW q \in Requests, Commit(q), ~ overlapped,
         NEW u \in DOMAIN users', u \in DOMAIN users, users'[u] # users[u], users'[u].gone
  PROVE  users[u].role # "lead"
  <1>1. /\ pc[q] = "commit" /\ Open(q) /\ SessionTyped(q) /\ SharedTyped
        /\ Entitled(q) /\ Pending(q)
        /\ users' = [x \in DOMAIN users \union DOMAIN mine[q] |-> Written(q, x)]
    BY TypedParts DEF Commit, Open, EntitledAll, Rows
  <1>2. u \notin DOMAIN mine[q]
    BY <1>1, EmptyIsEmpty DEF Pending, SessionTyped, Placed
  <1>3. users'[u] = Written(q, u) /\ users[u] \in Row
    BY <1>1 DEF SharedTyped
  <1>4. u = cur[q] /\ Edits(q)
    BY <1>2, <1>3 DEF Written, Edits
  <1>5. ~ users[u].gone
    BY <1>1, <1>4 DEF Entitled, Live
  <1>6. op[q].kind = "delete"
    BY <1>2, <1>3, <1>4, <1>5 DEF Written, Edited, Edits, Row
  <1> QED  BY <1>1, <1>4, <1>6 DEF Entitled

(* Nobody but an admin makes an admin; while requests do not overlap,      *)
(* nobody but an admin changes one, and no lead is deleted                 *)
(* (_assert_can_manage_role, _assert_can_manage_user, delete_user).        *)
THEOREM AdminsByAdmins == Spec => RolesProtected
  <1> DEFINE By == {op[q].actor : q \in {r \in Requests : pc'[r] # pc[r]}}
             Was(u) == IF u \in DOMAIN users THEN users[u] ELSE NoUser
             Step1 == \A u \in DOMAIN users' :
                        Was(u) # users'[u] =>
                          /\ Was(u).role # "admin" /\ users'[u].role = "admin" => By = {"admin"}
                          /\ ~ overlapped /\ Was(u).role = "admin" => By = {"admin"}
                          /\ ~ overlapped /\ users'[u].gone => Was(u).role # "lead"
  <1>1. ASSUME RowsInv, EntitledAll, [Next]_vars
        PROVE  Step1 \/ UNCHANGED vars
    <2>1. ASSUME NEW q \in Requests, Commit(q), NEW u \in DOMAIN users', Was(u) # users'[u]
          PROVE  /\ Was(u).role # "admin" /\ users'[u].role = "admin" => By = {"admin"}
                 /\ ~ overlapped /\ Was(u).role = "admin" => By = {"admin"}
                 /\ ~ overlapped /\ users'[u].gone => Was(u).role # "lead"
      <3>1. By = {op[q].actor}
        <4>1. pc[q] = "commit" /\ pc'[q] = "answered" /\ \A r \in Requests \ {q} : pc'[r] = pc[r]
          BY <1>1, <2>1, CommitTyped DEF RowsInv, Commit, Only, Same
        <4>2. {r \in Requests : pc'[r] # pc[r]} = {q}
          BY <4>1
        <4> QED  BY <4>2
      <3>2. NoUser.role = None /\ None # "admin" /\ None # "lead"
        BY DEF NoUser, None
      <3>3. op[q].actor # "admin" =>
              /\ Was(u).role = "admin" \/ users'[u].role # "admin"
              /\ ~ overlapped => Was(u).role # "admin"
        BY <1>1, <2>1, <3>2, CommitProtects DEF RowsInv
      <3>4. ~ overlapped /\ users'[u].gone => Was(u).role # "lead"
        BY <1>1, <2>1, <3>2, DeletesNoLead DEF RowsInv
      <3> HIDE DEF By, Was
      <3> QED  BY <3>1, <3>3, <3>4
    <2>2. ASSUME UNCHANGED users PROVE Step1
      BY <2>2
    <2>3. ASSUME NEW q \in Requests, Acts(q) PROVE Step1
      BY <1>1, <2>1, <2>2, <2>3, WhatChanges DEF RowsInv
    <2>4. ASSUME NEW t \in DOMAIN tokens, Expire(t) PROVE Step1
      BY <2>2, <2>4 DEF Expire
    <2> HIDE DEF Step1
    <2> QED  BY <1>1, <2>3, <2>4, NextActs
  <1>2. Init => EntitledAll
    BY EmptyIsEmpty DEF Init, EntitledAll, Alone, Entitled, Open
  <1>3. Typed /\ EntitledAll /\ [Next]_vars => EntitledAll'
    BY NextEntitled
  <1>4. RowsInv => Typed
    BY DEF RowsInv
  <1>5. Spec => []EntitledAll
    BY <1>2, <1>3, <1>4, RowsInvariant, PTL DEF Spec
  <1>6. RowsInv /\ EntitledAll /\ [Next]_vars => [Step1]_vars
    BY <1>1
  <1> HIDE DEF Step1
  <1>7. Spec => [][Step1]_vars
    BY <1>5, <1>6, RowsInvariant, PTL DEF Spec
  <1> QED  BY <1>7 DEF RolesProtected, Step1
=============================================================================
