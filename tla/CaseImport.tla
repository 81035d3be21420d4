----------------------------- MODULE CaseImport -----------------------------
(***************************************************************************)
(* Creating test cases with their tags, one by one or by an import         *)
(* (app/services/import_service.py, test_case_service.create_test_case,    *)
(* tag_service.py).                                                        *)
(*                                                                         *)
(* A tag is made by whoever needs it first; its name is unique.  A request *)
(* is one transaction.  If another one made the tag meanwhile, create_tag  *)
(* rolls back the whole session and reads the tag; objects of tags that    *)
(* were rolled back are inserted again with the case they belong to.  An   *)
(* import turns what is raised for a row into an entry of its answer; an   *)
(* error of the database leaves a session that can only be rolled back.    *)
(***************************************************************************)
EXTENDS Integers, Sequences, FiniteSets

CONSTANTS
  Requests,
  Rows,          \* what each is asked to create: raw tag names, bad: no suite
  Imports,       \* requests that import; the others create one case
  Norm           \* _normalize of a raw name, "" if nothing is left

ASSUME CaseImportAssumption ==
  /\ Imports \subseteq Requests
  /\ \A q \in Requests :
       /\ Rows[q] \in Seq([tags : Seq(DOMAIN Norm), bad : BOOLEAN]) \ {<<>>}
       /\ q \notin Imports => Len(Rows[q]) = 1

Names == {Norm[x] : x \in DOMAIN Norm} \ {""}
Numbers(q) == 1..Len(Rows[q])

VARIABLES
  tags,          \* committed tags: name -> the request that made it
  cases,         \* committed cases: request, row, tags
  pc,
  row, nth,      \* request: the row and the tag it is about
  objs,          \* request: tags of that row it holds
  again,         \* request: those of them that were rolled back
  mine,          \* request: tags it inserted
  drafts,        \* request: cases it inserted
  counted,       \* request: rows it counts as created
  errors,        \* request: rows that are errors
  broken,        \* request: its session must be rolled back
  known          \* history: the tags there were when the request began

session == <<row, nth, objs, again, mine, drafts, counted, errors, broken>>
vars == <<tags, cases, pc, session, known>>

Empty == [n \in {} |-> {}]

Init ==
  /\ tags = Empty /\ cases = {}
  /\ pc = [q \in Requests |-> "idle"]
  /\ row = [q \in Requests |-> 1] /\ nth = [q \in Requests |-> 1]
  /\ objs = [q \in Requests |-> {}] /\ again = [q \in Requests |-> {}]
  /\ mine = [q \in Requests |-> {}] /\ drafts = [q \in Requests |-> {}]
  /\ counted = [q \in Requests |-> {}] /\ errors = [q \in Requests |-> {}]
  /\ broken = [q \in Requests |-> FALSE]
  /\ known = [q \in Requests |-> {}]

-----------------------------------------------------------------------------
At(q, p)   == pc[q] = p
Goto(q, p) == pc' = [pc EXCEPT ![q] = p]
Open(q)    == pc[q] \notin {"idle", "answered", "failed"}

RawTags(q) == Rows[q][row[q]].tags
Tag(q)     == Norm[RawTags(q)[nth[q]]]
TagsOf(q, i) == {Norm[x] : x \in {Rows[q][i].tags[j] : j \in DOMAIN Rows[q][i].tags}} \ {""}

Begin(q) ==
  /\ At(q, "idle") /\ Goto(q, "row")
  /\ known' = [known EXCEPT ![q] = DOMAIN tags]
  /\ UNCHANGED <<tags, cases, session>>

\* The next row, or the end.
Advance(q) ==
  /\ Goto(q, IF row[q] = Len(Rows[q]) THEN "commit" ELSE "row")
  /\ row' = [row EXCEPT ![q] = IF @ = Len(Rows[q]) THEN @ ELSE @ + 1]

\* Bug: a row is counted before it is created.
CountedAll(q, ok) == counted[q] \union {row[q]}

Counted(q, ok) == IF ok THEN counted[q] \union {row[q]} ELSE counted[q]

RowEnds(q, ok) ==
  /\ counted' = [counted EXCEPT ![q] = Counted(q, ok)]
  /\ errors' = [errors EXCEPT ![q] = IF ok THEN @ ELSE @ \union {row[q]}]
  /\ IF q \in Imports \/ ok THEN Advance(q) ELSE Goto(q, "failed") /\ UNCHANGED row

\* Project and suite are read; a broken session raises at once.
StartRow(q) ==
  /\ At(q, "row")
  /\ IF broken[q] \/ Rows[q][row[q]].bad
     THEN RowEnds(q, FALSE) /\ UNCHANGED <<nth, objs, again>>
     ELSE /\ Goto(q, "tag")
          /\ nth' = [nth EXCEPT ![q] = 1]
          /\ objs' = [objs EXCEPT ![q] = {}] /\ again' = [again EXCEPT ![q] = {}]
          /\ UNCHANGED <<row, counted, errors>>
  /\ UNCHANGED <<tags, cases, mine, drafts, broken, known>>

\* get_or_create_many and the SELECT of create_tag
FindTag(q) ==
  /\ At(q, "tag")
  /\ IF nth[q] > Len(RawTags(q))
     THEN Goto(q, "insert") /\ UNCHANGED <<nth, objs>>
     ELSE IF Tag(q) \in objs[q] \union {""}
     THEN nth' = [nth EXCEPT ![q] = @ + 1] /\ UNCHANGED <<pc, objs>>
     ELSE IF Tag(q) \in DOMAIN tags \union mine[q]
     THEN /\ nth' = [nth EXCEPT ![q] = @ + 1]
          /\ objs' = [objs EXCEPT ![q] = @ \union {Tag(q)}]
          /\ UNCHANGED pc
     ELSE Goto(q, "create") /\ UNCHANGED <<nth, objs>>
  /\ UNCHANGED <<tags, cases, row, again, mine, drafts, counted, errors, broken, known>>

-----------------------------------------------------------------------------
(* A flush inserts tags and waits for whoever inserted one of them before. *)
Wanted(q) == IF At(q, "create") THEN {Tag(q)}
             ELSE IF At(q, "insert") THEN again[q] ELSE {}

Blockers(q) == {r \in Requests \ {q} : Open(r) /\ mine[r] \intersect Wanted(q) # {}}

\* Bug: what the rollback took from the row stays lost.
KeptCommitted(q) == objs[q] \ mine[q]

\* The tags of a row outlive the rollback as objects.
Kept(q) == objs[q]

CreateTag(q) ==
  /\ At(q, "create") /\ Blockers(q) = {}
  /\ Goto(q, "tag") /\ nth' = [nth EXCEPT ![q] = @ + 1]
  /\ IF Tag(q) \in DOMAIN tags
     THEN /\ objs' = [objs EXCEPT ![q] = Kept(q) \union {Tag(q)}]
          /\ again' = [again EXCEPT ![q] = @ \union (Kept(q) \intersect mine[q])]
          /\ mine' = [mine EXCEPT ![q] = {}] /\ drafts' = [drafts EXCEPT ![q] = {}]
     ELSE /\ objs' = [objs EXCEPT ![q] = @ \union {Tag(q)}]
          /\ mine' = [mine EXCEPT ![q] = @ \union {Tag(q)}]
          /\ UNCHANGED <<again, drafts>>
  /\ UNCHANGED <<tags, cases, row, counted, errors, broken, known>>

\* An error create_tag does not catch: PostgreSQL rolls back.
FlushFails(q) ==
  /\ mine' = [mine EXCEPT ![q] = {}] /\ drafts' = [drafts EXCEPT ![q] = {}]
  /\ broken' = [broken EXCEPT ![q] = TRUE]
  /\ RowEnds(q, FALSE)

InsertCase(q) ==
  /\ At(q, "insert") /\ Blockers(q) = {}
  /\ IF again[q] \intersect DOMAIN tags # {}
     THEN FlushFails(q)
     ELSE /\ mine' = [mine EXCEPT ![q] = @ \union again[q]]
          /\ drafts' = [drafts EXCEPT ![q] = @ \union
                          {[by |-> q, row |-> row[q], tags |-> objs[q]]}]
          /\ RowEnds(q, TRUE)
          /\ UNCHANGED broken
  /\ UNCHANGED <<tags, cases, nth, objs, again, known>>

\* Bug: only pairs are seen.
WaitsForPair(q) == {r \in Requests : \E s \in Blockers(q) : r \in Blockers(s)}

\* Those that q waits for, directly or not.
WaitsFor(q) ==
  {r \in Requests : \A S \in SUBSET Requests :
     Blockers(q) \subseteq S /\ (\A s \in S : Blockers(s) \subseteq S) => r \in S}

DeadlockBroken(q) ==
  /\ q \in WaitsFor(q)
  /\ FlushFails(q)
  /\ UNCHANGED <<tags, cases, nth, objs, again, known>>

Commit(q) ==
  /\ At(q, "commit")
  /\ IF broken[q]
     THEN Goto(q, "failed") /\ UNCHANGED <<tags, cases>>
     ELSE /\ tags' = [n \in DOMAIN tags \union mine[q] |->
                        IF n \in DOMAIN tags THEN tags[n] ELSE q]
          /\ cases' = cases \union drafts[q]
          /\ Goto(q, "answered")
  /\ UNCHANGED <<session, known>>

\* The COMMIT or the process fails.
Fail(q) ==
  /\ Open(q) /\ Goto(q, "failed")
  /\ UNCHANGED <<tags, cases, session, known>>

Step(q) == \/ StartRow(q) \/ FindTag(q) \/ CreateTag(q) \/ InsertCase(q)
           \/ DeadlockBroken(q) \/ Commit(q)

Next == \E q \in Requests : Begin(q) \/ Step(q) \/ Fail(q)

Spec == Init /\ [][Next]_vars

(* A handler runs on; it need not begin and need not fail.                 *)
FairSpec == Spec /\ \A q \in Requests : WF_vars(Step(q))

-----------------------------------------------------------------------------
Case == [by : Requests, row : Nat, tags : SUBSET Names]

TypeOK ==
  /\ DOMAIN tags \subseteq Names /\ tags \in [DOMAIN tags -> Requests]
  /\ cases \subseteq Case
  /\ pc \in [Requests -> {"idle", "row", "tag", "create", "insert", "commit",
                          "answered", "failed"}]
  /\ row \in [Requests -> Nat] /\ nth \in [Requests -> Nat \ {0}]
  /\ objs \in [Requests -> SUBSET Names] /\ again \in [Requests -> SUBSET Names]
  /\ mine \in [Requests -> SUBSET Names] /\ drafts \in [Requests -> SUBSET Case]
  /\ counted \in [Requests -> SUBSET Nat] /\ errors \in [Requests -> SUBSET Nat]
  /\ broken \in [Requests -> BOOLEAN] /\ known \in [Requests -> SUBSET Names]
  /\ \A q \in Requests : /\ row[q] \in Numbers(q)
                         /\ counted[q] \union errors[q] \subseteq Numbers(q)

(* A case is stored once, with exactly the tags its row names, all of      *)
(* which exist, whoever made them and however often the session was rolled *)
(* back on the way (create_tag, create_test_case).                         *)
CasesHaveTheirTags ==
  /\ \A c \in cases : c.tags = TagsOf(c.by, c.row) /\ c.tags \subseteq DOMAIN tags
  /\ \A c, d \in cases : c.by = d.by /\ c.row = d.row => c = d

Stored(q) == {c.row : c \in {x \in cases : x.by = q}}

(* An answer accounts for every row: errors are rows without a suite, and  *)
(* what is counted is stored, except that the rows before some row are     *)
(* lost if that row has a tag which another request made meanwhile.  A     *)
(* request that failed stored nothing (import_test_cases, create_tag).     *)
AnswerTellsRows ==
  \A q \in Requests :
    /\ Stored(q) # {} => At(q, "answered")
    /\ At(q, "answered") =>
         /\ errors[q] = {i \in Numbers(q) : Rows[q][i].bad}
         /\ counted[q] = Numbers(q) \ errors[q]
         /\ \/ Stored(q) = counted[q]
            \/ \E k \in counted[q] :
                 /\ Stored(q) = {i \in counted[q] : i >= k}
                 /\ \E n \in TagsOf(q, k) \ known[q] : tags[n] # q

(* Every request ends, also if two want each other's tags.                 *)
EveryRequestEnds == \A q \in Requests : Open(q) ~> ~ Open(q)
=============================================================================
