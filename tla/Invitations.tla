---------------------------- MODULE Invitations -----------------------------
(***************************************************************************)
(* Users, their invitations and password tokens                            *)
(* (app/services/user_service.py, email_service.py,                        *)
(* password_token_service.py, the password routes of app/api/v1/auth.py).  *)
(*                                                                         *)
(* A user's row, its welcome mail and the audit entry are one transaction  *)
(* in PostgreSQL; the token in the mail is a key in Redis, written and     *)
(* deleted outside of it.  A bulk request has a savepoint for each row and *)
(* turns whatever happens to a row into an entry of its answer.  An INSERT *)
(* waits for open transactions that inserted a row it would clash with.    *)
(***************************************************************************)
EXTENDS Integers, Sequences, FiniteSets

CONSTANTS
  Requests,      \* sessions that serve requests
  People,        \* who can be created: username and e-mail
  Clash,         \* pairs of people with one username or one e-mail
  RoleOf,        \* the role each is created with
  Ops,           \* bound: what is asked for
  MaxOps,        \* bound: requests in all
  MaxTokens      \* bound: tokens in all

Roles == {"tester", "lead", "admin"}
None  == "none"
CreateKinds == {"create", "bulk"}
UserKinds   == {"forgot", "edit", "delete"}

ASSUME InvitationsAssumption ==
  /\ Clash \subseteq People \X People
  /\ \A p \in People : <<p, p>> \in Clash
  /\ \A p, s \in People : <<p, s>> \in Clash => <<s, p>> \in Clash
  /\ RoleOf \in [People -> Roles]
  /\ MaxOps \in Nat /\ MaxTokens \in Nat
  /\ Ops # {}
  /\ \A o \in Ops : /\ o.kind \in CreateKinds \union UserKinds \union {"reset"}
                    /\ o.rows \in Seq(People) /\ o.strict \in BOOLEAN
                    /\ o.kind \in CreateKinds => o.rows # <<>>
                    /\ o.actor \in Roles /\ o.role \in Roles \union {None}
                    /\ o.active \in BOOLEAN

VARIABLES
  users,         \* committed rows: id -> person, role, active, gone
  password,      \* id -> the token its password was set with; 0: none yet
  lastId,        \* the sequence of ids, which no rollback turns back
  tokens,        \* Redis: token -> user_id, purpose
  lastToken,     \* tokens minted so far
  mails,         \* committed outbox rows: user, token, kind
  pc, op,        \* request: where it is, what was asked
  row,           \* request: index of the row it creates
  cur,           \* request: the user it is about; 0: none
  seen,          \* request: the row of that user, as read
  held,          \* request: the token it minted or consumed last; 0: none
  mine,          \* request: rows it inserted: id -> person
  sent,          \* request: mails it enqueued
  errors,        \* request: rows that became entries of the answer
  begun,         \* requests so far
  overlapped     \* history: two requests were served at once

data == <<users, password, lastId, tokens, lastToken, mails>>
session == <<row, cur, seen, held, mine, sent, errors>>
vars == <<data, pc, op, session, begun, overlapped>>

Empty == [i \in {} |-> None]
NoUser == [person |-> None, role |-> None, active |-> FALSE, gone |-> TRUE]

Init ==
  /\ users = Empty /\ password = Empty /\ lastId = 0
  /\ tokens = Empty /\ lastToken = 0 /\ mails = {}
  /\ pc = [q \in Requests |-> "idle"]
  /\ op = [q \in Requests |-> CHOOSE o \in Ops : TRUE]
  /\ row = [q \in Requests |-> 1] /\ cur = [q \in Requests |-> 0]
  /\ seen = [q \in Requests |-> NoUser] /\ held = [q \in Requests |-> 0]
  /\ mine = [q \in Requests |-> Empty] /\ sent = [q \in Requests |-> {}]
  /\ errors = [q \in Requests |-> {}]
  /\ begun = 0 /\ overlapped = FALSE

-----------------------------------------------------------------------------
Open(q) == pc[q] \notin {"idle", "answered"}
Live(u) == u \in DOMAIN users /\ ~ users[u].gone
Usable(u) == Live(u) /\ users[u].active
With(f, x, y) == [z \in DOMAIN f \union {x} |-> IF z = x THEN y ELSE f[z]]
Without(f, x) == [z \in DOMAIN f \ {x} |-> f[z]]

\* Bug: leads may manage admins as well.
MayManageAny(actor, role) == TRUE

\* _assert_can_manage_role and _assert_can_manage_user
MayManage(actor, role) == actor = "admin" \/ role # "admin"

Person(q) == op[q].rows[row[q]]
Clashing(f, p) == {i \in DOMAIN f : <<f[i], p>> \in Clash}
PersonOf == [u \in DOMAIN users |-> users[u].person]

\* What a session forgets when its request ends.
Forget(q) ==
  /\ cur' = [cur EXCEPT ![q] = 0] /\ held' = [held EXCEPT ![q] = 0]
  /\ seen' = [seen EXCEPT ![q] = NoUser] /\ sent' = [sent EXCEPT ![q] = {}]

\* An answer other than 2xx: get_db rolls back.
Reject(q) ==
  /\ pc' = [pc EXCEPT ![q] = "idle"]
  /\ row' = [row EXCEPT ![q] = 1] /\ errors' = [errors EXCEPT ![q] = {}]
  /\ mine' = [mine EXCEPT ![q] = Empty]
  /\ Forget(q)

(* A request reads the user it is about, if any, and may end there; the    *)
(* others find it out in the steps that follow.                            *)
First(o, u) ==
  CASE o.kind \in CreateKinds -> "check"
    [] o.kind = "forgot" -> IF Usable(u) THEN "mint" ELSE "idle"
    [] o.kind = "reset"  -> "consume"
    [] OTHER -> IF /\ Live(u) /\ MayManage(o.actor, users[u].role)
                   /\ o.kind = "delete" => users[u].role # "lead"
                   /\ o.role # None => MayManage(o.actor, o.role)
                THEN "commit" ELSE "idle"

\* A token reaches its user by mail only.
Known == {m.token : m \in mails}

Begin(q, o, u, t) ==
  /\ ~ Open(q) /\ begun < MaxOps
  /\ u = 0 <=> o.kind \notin UserKinds
  /\ t = 0 <=> o.kind # "reset"
  /\ pc' = [pc EXCEPT ![q] = First(o, u)]
  /\ op' = [op EXCEPT ![q] = o]
  /\ row' = [row EXCEPT ![q] = 1] /\ errors' = [errors EXCEPT ![q] = {}]
  /\ cur' = [cur EXCEPT ![q] = IF First(o, u) = "idle" THEN 0 ELSE u]
  /\ seen' = [seen EXCEPT ![q] = IF First(o, u) # "idle" /\ Live(u) THEN users[u]
                                ELSE NoUser]
  /\ held' = [held EXCEPT ![q] = t]
  /\ begun' = begun + 1
  /\ overlapped' = (overlapped \/ \E r \in Requests \ {q} : Open(r))
  /\ mine' = [mine EXCEPT ![q] = Empty] /\ sent' = [sent EXCEPT ![q] = {}]
  /\ UNCHANGED data

-----------------------------------------------------------------------------
(* Creating users, row by row.                                             *)
Done(q, failed) ==
  row[q] = Len(op[q].rows) \/ (op[q].strict /\ failed # {})

Advance(q, failed) ==
  /\ errors' = [errors EXCEPT ![q] = failed]
  /\ row' = [row EXCEPT ![q] = IF Done(q, failed) THEN @ ELSE @ + 1]
  /\ pc' = [pc EXCEPT ![q] = IF Done(q, failed) THEN "commit" ELSE "check"]
  /\ cur' = [cur EXCEPT ![q] = 0]

\* Bug: the whole session is rolled back, not the savepoint.
BackAll(q) == Empty

\* Bug: an error in the middle of a row rolls nothing back.
KeptRow(q) == mine[q]

\* ROLLBACK TO SAVEPOINT: the rows of the request without the present one.
BackToSavepoint(q) == Without(mine[q], cur[q])

(* Whatever is raised for a row: a bulk request notes it and goes on, any  *)
(* other one fails.                                                        *)
RowFails(q) ==
  IF op[q].kind = "bulk"
  THEN /\ mine' = [mine EXCEPT ![q] = BackToSavepoint(q)]
       /\ Advance(q, errors[q] \union {row[q]})
       /\ UNCHANGED <<seen, held, sent>>
  ELSE Reject(q)

Check(q) ==
  /\ pc[q] = "check"
  /\ IF /\ MayManage(op[q].actor, RoleOf[Person(q)])
        /\ Clashing(PersonOf, Person(q)) \union Clashing(mine[q], Person(q)) = {}
     THEN /\ pc' = [pc EXCEPT ![q] = "insert"]
          /\ UNCHANGED session
     ELSE RowFails(q)
  /\ UNCHANGED <<data, op, begun, overlapped>>

Blockers(q) ==
  {r \in Requests \ {q} : Open(r) /\ Clashing(mine[r], Person(q)) # {}}
Blocked(q)  == pc[q] = "insert" /\ Blockers(q) # {}

\* Bug: the id is one more than the highest there is.
NextFree(q) == 1 + Cardinality(DOMAIN users)

\* nextval(): an id that was never drawn before.
NextId(q) == lastId + 1

(* The unique indexes see what was committed since the check.  The id of a *)
(* row that is refused is drawn and never used, so it is not counted here. *)
Insert(q) ==
  /\ pc[q] = "insert" /\ ~ Blocked(q)
  /\ IF Clashing(PersonOf, Person(q)) = {}
     THEN /\ lastId' = NextId(q)
          /\ cur' = [cur EXCEPT ![q] = NextId(q)]
          /\ mine' = [mine EXCEPT ![q] = With(@, NextId(q), Person(q))]
          /\ pc' = [pc EXCEPT ![q] = "mint"]
          /\ UNCHANGED <<row, seen, held, sent, errors>>
     ELSE RowFails(q) /\ UNCHANGED lastId
  /\ UNCHANGED <<users, password, tokens, lastToken, mails, op, begun, overlapped>>

\* Bug: nobody breaks a deadlock.
WaitsForNobody(q) == {}

WaitsFor(q) == {r \in Blockers(q) : Blocked(r) /\ q \in Blockers(r)}

(* PostgreSQL breaks a deadlock: one of the two INSERTs fails (a longer    *)
(* cycle takes three bulk requests).                                       *)
DeadlockBroken(q) ==
  /\ Blocked(q) /\ WaitsFor(q) # {}
  /\ RowFails(q)
  /\ UNCHANGED <<data, op, begun, overlapped>>

-----------------------------------------------------------------------------
(* Token and mail, for a new user and for a forgotten password.            *)
Purpose(q) == IF op[q].kind = "forgot" THEN "reset" ELSE "invite"

Mint(q) ==
  /\ pc[q] = "mint" /\ lastToken < MaxTokens
  /\ lastToken' = lastToken + 1
  /\ tokens' = With(tokens, lastToken + 1, [user |-> cur[q], purpose |-> Purpose(q)])
  /\ held' = [held EXCEPT ![q] = lastToken + 1]
  /\ pc' = [pc EXCEPT ![q] = "enqueue"]
  /\ UNCHANGED <<users, password, lastId, mails, op, row, cur, seen, mine, sent,
                 errors, begun, overlapped>>

Enqueue(q) ==
  /\ pc[q] = "enqueue"
  /\ sent' = [sent EXCEPT ![q] = @ \union
                {[user |-> cur[q], token |-> held[q], kind |-> Purpose(q)]}]
  /\ IF op[q].kind = "forgot"
     THEN pc' = [pc EXCEPT ![q] = "commit"] /\ UNCHANGED <<row, cur, errors>>
     ELSE Advance(q, errors[q])
  /\ UNCHANGED <<data, op, seen, held, mine, begun, overlapped>>

\* Redis or the INSERT fails; the token, if there is one, stays.
MailFails(q) ==
  /\ pc[q] \in {"mint", "enqueue"}
  /\ RowFails(q)
  /\ UNCHANGED <<data, op, begun, overlapped>>

-----------------------------------------------------------------------------
(* Setting a password with a token.                                        *)
\* Bug: GET, and DEL once the password is set.
KeptUntilSet(t) == tokens

\* GETDEL
Taken(t) == Without(tokens, t)

Consume(q) ==
  /\ pc[q] = "consume"
  /\ LET t == held[q]
     IN  IF t \in DOMAIN tokens
         THEN /\ cur' = [cur EXCEPT ![q] = tokens[t].user]
              /\ tokens' = Taken(t)
              /\ pc' = [pc EXCEPT ![q] = "set"]
              /\ UNCHANGED <<row, seen, held, mine, sent, errors>>
         ELSE Reject(q) /\ UNCHANGED tokens
  /\ UNCHANGED <<users, password, lastId, lastToken, mails, op, begun, overlapped>>

\* The token is gone, also if the user is, or no longer active.
SetPassword(q) ==
  /\ pc[q] = "set"
  /\ IF Usable(cur[q])
     THEN pc' = [pc EXCEPT ![q] = "commit"] /\ UNCHANGED session
     ELSE Reject(q)
  /\ UNCHANGED <<data, op, begun, overlapped>>

\* TTL
Expire(t) ==
  /\ t \in DOMAIN tokens
  /\ tokens' = Without(tokens, t)
  /\ UNCHANGED <<users, password, lastId, lastToken, mails, pc, op, session,
                 begun, overlapped>>

-----------------------------------------------------------------------------
(* The end of a request.                                                   *)
NewUser(p) == [person |-> p, role |-> RoleOf[p], active |-> TRUE, gone |-> FALSE]

(* UPDATE writes the columns that differ from what the session read.       *)
Edited(q, u) ==
  [u EXCEPT !.role   = IF op[q].role \in {None, seen[q].role} THEN @ ELSE op[q].role,
            !.active = IF op[q].active = seen[q].active THEN @ ELSE op[q].active]

Written(q, u) ==
  CASE u \in DOMAIN mine[q] -> NewUser(mine[q][u])
    [] u = cur[q] /\ op[q].kind = "edit" -> Edited(q, users[u])
    [] u = cur[q] /\ op[q].kind = "delete" -> [users[u] EXCEPT !.gone = TRUE]
    [] OTHER -> users[u]

Commit(q) ==
  /\ pc[q] = "commit"
  /\ users' = [u \in DOMAIN users \union DOMAIN mine[q] |-> Written(q, u)]
  /\ password' = [u \in DOMAIN users' |->
                    IF u = cur[q] /\ op[q].kind = "reset" THEN held[q]
                    ELSE IF u \in DOMAIN users THEN password[u] ELSE 0]
  /\ mails' = mails \union sent[q]
  /\ pc' = [pc EXCEPT ![q] = "answered"]
  /\ Forget(q)
  /\ UNCHANGED <<lastId, tokens, lastToken, op, row, mine, errors, begun,
                 overlapped>>

\* The COMMIT or the process fails; what Redis did is not undone.
Fail(q) ==
  /\ Open(q)
  /\ Reject(q)
  /\ UNCHANGED <<data, op, begun, overlapped>>

Step(q) ==
  \/ Check(q) \/ Insert(q) \/ DeadlockBroken(q)
  \/ Mint(q) \/ Enqueue(q) \/ MailFails(q)
  \/ Consume(q) \/ SetPassword(q) \/ Commit(q)

Next ==
  \/ \E q \in Requests, o \in Ops, u \in DOMAIN users \union {0},
        t \in Known \union {0} : Begin(q, o, u, t)
  \/ \E q \in Requests : Step(q) \/ Fail(q)
  \/ \E t \in DOMAIN tokens : Expire(t)

Spec == Init /\ [][Next]_vars

(* A handler runs on; requests need not fail and tokens need not expire.   *)
FairSpec == Spec /\ \A q \in Requests : WF_vars(Step(q))

-----------------------------------------------------------------------------
(* Types; ids and tokens are drawn in order.                               *)
Row == [person : People, role : Roles, active : BOOLEAN, gone : BOOLEAN]
Purposes == {"invite", "reset"}
Mail == [user : Nat, token : Nat, kind : Purposes]

TypeOK ==
  /\ lastId \in Nat /\ lastToken \in Nat /\ begun \in Nat
  /\ DOMAIN users \subseteq 1..lastId /\ users \in [DOMAIN users -> Row]
  /\ password \in [DOMAIN users -> 0..lastToken]
  /\ DOMAIN tokens \subseteq 1..lastToken
  /\ tokens \in [DOMAIN tokens -> [user : 1..lastId, purpose : Purposes]]
  /\ mails \subseteq Mail
  /\ pc \in [Requests -> {"idle", "check", "insert", "mint", "enqueue", "consume",
                          "set", "commit", "answered"}]
  /\ op \in [Requests -> Ops]
  /\ row \in [Requests -> Nat \ {0}] /\ cur \in [Requests -> 0..lastId]
  /\ seen \in [Requests -> Row \union {NoUser}]
  /\ held \in [Requests -> 0..lastToken]
  /\ DOMAIN mine = Requests /\ sent \in [Requests -> SUBSET Mail]
  /\ errors \in [Requests -> SUBSET (Nat \ {0})]
  /\ \A q \in Requests : /\ DOMAIN mine[q] \subseteq 1..lastId
                         /\ mine[q] \in [DOMAIN mine[q] -> People]
                         /\ errors[q] \subseteq 1..row[q]
  /\ overlapped \in BOOLEAN

(* A welcome mail is sent iff the user was created (email_service.py), one *)
(* each, however rows fail and requests die between INSERT, token, mail    *)
(* and COMMIT; usernames and e-mails stay unique among all rows.           *)
InviteIffUser ==
  /\ {m.user : m \in mails} \subseteq DOMAIN users
  /\ \A u \in DOMAIN users :
       Cardinality({m \in mails : m.user = u /\ m.kind = "invite"}) = 1
  /\ \A u, v \in DOMAIN users :
       <<users[u].person, users[v].person>> \in Clash => u = v

(* The token in a mail is good for the user the mail is about; the token   *)
(* of an invitation that was rolled back stays in Redis, but never becomes *)
(* good for a user who was created later; a password was set with a token  *)
(* of that user's own mails.                                               *)
TokenNamesItsOwner ==
  /\ \A m \in mails : m.token \in DOMAIN tokens => tokens[m.token].user = m.user
  /\ \A t \in DOMAIN tokens :
       tokens[t].purpose = "invite" /\ tokens[t].user \in DOMAIN users =>
         \E m \in mails : m.user = tokens[t].user /\ m.token = t
  /\ \A u \in DOMAIN users : password[u] # 0 =>
       \E m \in mails : m.user = u /\ m.token = password[u]

(* A token is spent once: of two requests with one token, sent one after   *)
(* the other or at once, one sets the password; a token that set one is    *)
(* never good again (consume_token: "can only succeed once").              *)
SpentStaysSpent ==
  \A q \in Requests : op[q].kind = "reset" /\ pc[q] \in {"set", "commit"} =>
    /\ held[q] \notin DOMAIN tokens
    /\ \A u \in DOMAIN users : password[u] # held[q]
    /\ \A r \in Requests \ {q} : op[r].kind = "reset" /\ held[r] = held[q] =>
         pc[r] \notin {"set", "commit"}

(* The answer to a bulk request tells what is in the table: the rows it    *)
(* counts as created are committed with their invitations, the others are  *)
(* its errors; strict stops at the first error and keeps the rows before.  *)
AnswerTellsRows ==
  \A q \in Requests : op[q].kind = "bulk" /\ pc[q] = "answered" =>
    /\ \A i \in DOMAIN mine[q] : /\ i \in DOMAIN users
                                /\ users[i].person = mine[q][i]
                                /\ \E m \in mails : m.user = i /\ m.kind = "invite"
    /\ {op[q].rows[k] : k \in (1..row[q]) \ errors[q]} =
         {mine[q][i] : i \in DOMAIN mine[q]}
    /\ Cardinality(DOMAIN mine[q]) + Cardinality(errors[q]) = row[q]
    /\ IF op[q].strict THEN errors[q] \subseteq {row[q]} ELSE row[q] = Len(op[q].rows)
    /\ errors[q] = {} => row[q] = Len(op[q].rows)

(* Admins are made by admins only.  They are changed by admins only and    *)
(* leads are not deleted, unless the role changed while the request that   *)
(* looked at it was under way.                                             *)
RolesProtected ==
  [][\A u \in DOMAIN users' :
       LET was == IF u \in DOMAIN users THEN users[u] ELSE NoUser
           by  == {op[q].actor : q \in {r \in Requests : pc'[r] # pc[r]}}
       IN  was # users'[u] =>
             /\ was.role # "admin" /\ users'[u].role = "admin" => by = {"admin"}
             /\ ~ overlapped /\ was.role = "admin" => by = {"admin"}
             /\ ~ overlapped /\ users'[u].gone => was.role # "lead"]_vars

(* Every request ends, also if two bulk requests insert people who clash   *)
(* in opposite orders.                                                     *)
EveryRequestEnds == \A q \in Requests : Open(q) ~> ~ Open(q)
=============================================================================
