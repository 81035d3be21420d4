------------------------------- MODULE Upload -------------------------------
(***************************************************************************)
(* The upload of a test report by the command line client                  *)
(* (cli/testoria_cli/commands/upload.py, client.py) and what the server    *)
(* makes of it (app/services/result_import_service.py): a run is created   *)
(* or given, the report is matched to cases and submitted, files are       *)
(* attached, the run is closed.                                            *)
(*                                                                         *)
(* A request or its answer can be lost; the client gives up while the      *)
(* handler may still be at work.  Only a GET is sent again.  An upload     *)
(* that is repeated is a second upload with the same report.               *)
(***************************************************************************)
EXTENDS Integers, FiniteSets, FiniteSetsExt

CONSTANTS
  Uploads,       \* invocations of "testoria upload"
  Script,        \* their arguments
  File,          \* the entries of each report: key (classname.name), name, and
                 \* mark: the kind of child element that tells the outcome of a
                 \* JUnit testcase, or the status that a JSON entry states
  Cases,
  Automation,    \* automation_id of a case, "none" if it has none
  Title,
  Dotted,        \* a node id in the form JUnit reports it
  MaxAttempts,   \* _MAX_ATTEMPTS
  MaxDeletes     \* bound: cases that are deleted

None   == "none"
Shared == "shared"                  \* the run that --run names
Runs   == Uploads \union {Shared}   \* and those that uploads create
Marks  == {"failure", "error", "skipped", None}
Status == {"passed", "failed", "blocked", "no_run"}

Requests == {"create", "import", "results", "cases", "close"}

(* create: --project and --create-run; close: --close-on-finish; form: the *)
(* parser that --format, the file's name or its first character picks,     *)
(* "other" if it cannot read the file; files: the stems --attach finds,    *)
(* none if it is not given.  A stem is also the name of the request that   *)
(* attaches it, so it is none of the others.                               *)
ASSUME UploadAssumption ==
  /\ Shared \notin Uploads
  /\ \A u \in Uploads :
       /\ Script[u].create \in BOOLEAN /\ Script[u].strict \in BOOLEAN
       /\ Script[u].close \in BOOLEAN /\ IsFiniteSet(Script[u].files)
       /\ Script[u].form \in {"junit", "json", "other"}
       /\ Script[u].files \intersect (Requests \union {"done", None}) = {}
       /\ DOMAIN File[u] \subseteq Nat /\ IsFiniteSet(DOMAIN File[u])
       /\ \A i \in DOMAIN File[u] :
            File[u][i].key # None /\ (Script[u].form = "junit" => File[u][i].mark \in Marks)
  /\ MaxAttempts \in Nat \ {0} /\ MaxDeletes \in Nat

\* A report as parsed, by the places in its file: entries without a name are
\* left out.
Outcome(e) == CASE e.mark \in {"failure", "error"} -> "failed"
                [] e.mark = "skipped" -> "no_run"
                [] e.mark = None -> "passed"
\* _normalise_status
Stated(e) == IF e.mark = "skipped" THEN "no_run" ELSE e.mark
Parsed(file, form) ==
  [i \in {i \in DOMAIN file : file[i].name # None} |->
     [key |-> file[i].key, name |-> file[i].name,
      status |-> IF form = "junit" THEN Outcome(file[i]) ELSE Stated(file[i])]]
Report == [u \in Uploads |-> Parsed(File[u], Script[u].form)]

\* Every JSON entry must have a name.
Readable(u) ==
  \/ Script[u].form = "junit"
  \/ Script[u].form = "json" /\ \A i \in DOMAIN File[u] : File[u][i].name # None

VARIABLES
  caseGone,      \* cases with a deleted_at
  result,        \* test_results of each run: status
  history,       \* result_history: entries per result
  closed,        \* runs that are completed
  made,          \* runs each upload created
  attached,      \* attachments each upload made of each file
  pc,            \* client: the request it is about, "done"
  exit,          \* client: exit code
  tries,         \* client: attempts of the present request
  got,           \* client: cases of which it knows a result
  todo,          \* client: files it still has to attach
  missed,        \* client: "unmatched" of the import's answer
  request, stage,\* handler: what it was asked; "none" | "asked" | "matched"
                 \* | "compared" | "answered" | "refused"
  items,         \* handler: entries that it matched
  seen,          \* handler: the statuses it read, to compare with
  imported       \* history: uploads whose import was committed

server == <<caseGone, result, history, closed, made, attached>>
client == <<pc, exit, tries, got, todo, missed>>
handler == <<request, stage, items, seen>>
vars == <<server, client, handler, imported>>

RunOf(u) == IF Script[u].create THEN u ELSE Shared

Init ==
  /\ caseGone = {} /\ closed = {}
  /\ result = [r \in Runs |-> [c \in Cases |-> None]]
  /\ history = [r \in Runs |-> [c \in Cases |-> 0]]
  /\ made = [u \in Uploads |-> 0]
  /\ attached = [u \in Uploads |-> [f \in Script[u].files |-> 0]]
  /\ pc = [u \in Uploads |-> IF Script[u].create THEN "create" ELSE "import"]
  /\ exit = [u \in Uploads |-> -1] /\ tries = [u \in Uploads |-> 0]
  /\ got = [u \in Uploads |-> {}] /\ todo = [u \in Uploads |-> {}]
  /\ missed = [u \in Uploads |-> 0]
  /\ request = [u \in Uploads |-> None] /\ stage = [u \in Uploads |-> None]
  /\ items = [u \in Uploads |-> {}] /\ imported = {}
  /\ seen = [u \in Uploads |-> result[RunOf(u)]]

-----------------------------------------------------------------------------
(* Matching: the first rule that finds a case decides, also if it finds    *)
(* two.                                                                    *)
Rules == <<"automation_id", "automation_id_dotted", "automation_id_name",
           "title", "title_dotted">>

Keys(rule, c) ==
  (CASE rule \in {"automation_id", "automation_id_name"} -> {Automation[c]}
     [] rule = "automation_id_dotted" -> {Dotted[k] : k \in {Automation[c]} \ {None}}
     [] rule = "title"        -> {Title[c]}
     [] rule = "title_dotted" -> {Dotted[Title[c]]}) \ {None}

Hits(rule, e, S) ==
  {c \in S : (IF rule = "automation_id_name" THEN e.name ELSE e.key) \in Keys(rule, c)}

\* Bug: a rule that finds two cases leaves it to the next.
FoundOne(e, S) ==
  LET hit == {i \in DOMAIN Rules : Cardinality(Hits(Rules[i], e, S)) = 1}
  IN  IF hit = {} THEN {} ELSE Hits(Rules[Min(hit)], e, S)

Found(e, S) ==
  LET hit == {i \in DOMAIN Rules : Hits(Rules[i], e, S) # {}}
  IN  IF hit = {} THEN {} ELSE Hits(Rules[Min(hit)], e, S)

\* An earlier entry has the case.
Claimed(report, i, c, S) ==
  \E j \in DOMAIN report : j < i /\ Found(report[j], S) = {c}

Matched(report, S) ==
  {x \in (DOMAIN report) \X S :
     Found(report[x[1]], S) = {x[2]} /\ ~ Claimed(report, x[1], x[2], S)}

-----------------------------------------------------------------------------
(* Handlers.  An import runs three SELECTs that can see different tables:   *)
(* the index, the cases it submits for, the results they have.             *)
Handler(u, req, from) == request[u] = req /\ stage[u] = from
To(u, s) == stage' = [stage EXCEPT ![u] = s]

CreateRun(u) ==
  /\ Handler(u, "create", "asked") /\ To(u, "answered")
  /\ made' = [made EXCEPT ![u] = @ + 1]
  /\ UNCHANGED <<caseGone, result, history, closed, attached, client, request,
                 items, seen, imported>>

(* A status that is none fails the import (TestResultCreate), unless its   *)
(* entry is unmatched.                                                     *)
BuildIndex(u) ==
  /\ Handler(u, "import", "asked")
  /\ LET M == Matched(Report[u], Cases \ caseGone)
     IN  IF Readable(u) /\ \A x \in M : Report[u][x[1]].status \in Status
         THEN To(u, "matched") /\ items' = [items EXCEPT ![u] = M]
         ELSE To(u, "refused") /\ UNCHANGED items
  /\ UNCHANGED <<server, client, request, seen, imported>>

Targets(u) == {x[2] : x \in items[u]}

\* A case deleted meanwhile is 404.
LookUp(u) ==
  /\ Handler(u, "import", "matched")
  /\ To(u, IF Targets(u) \intersect caseGone # {} THEN "refused" ELSE "compared")
  /\ seen' = [seen EXCEPT ![u] = result[RunOf(u)]]
  /\ UNCHANGED <<server, client, request, items, imported>>

\* There is one item per case; were there two, the later would win.
StatusFor(u, c) == Report[u][Max({x[1] : x \in {y \in items[u] : y[2] = c}})].status

\* Bug: every submission is recorded.
RecordsAll(old, new) == TRUE

\* _should_record_history, without comments
Records(old, new) == old # new

(* A row inserted meanwhile violates uq_result_run_case and rolls          *)
(* everything back; of a row read before, only what differs is written.    *)
SubmitMany(u) ==
  /\ Handler(u, "import", "compared")
  /\ LET r == RunOf(u)
         new(c) == StatusFor(u, c)
         hit == {c \in Targets(u) : Records(seen[u][c], new(c))}
     IN  IF \E c \in Targets(u) : seen[u][c] = None /\ result[r][c] # None
         THEN To(u, "refused") /\ UNCHANGED <<result, history, imported>>
         ELSE /\ result' = [result EXCEPT ![r] =
                   [c \in Cases |-> IF c \in Targets(u) /\ seen[u][c] # new(c)
                                    THEN new(c) ELSE @[c]]]
              /\ history' = [history EXCEPT ![r] =
                   [c \in Cases |-> @[c] + (IF c \in hit THEN 1 ELSE 0)]]
              /\ imported' = imported \union {u}
              /\ To(u, "answered")
  /\ UNCHANGED <<caseGone, closed, made, attached, client, request, items, seen>>

LiveWithResult(u) == {c \in Cases \ caseGone : result[RunOf(u)][c] # None}

\* GET results, then GET cases, which leaves those that are still live.
Read(u) ==
  /\ stage[u] = "asked" /\ To(u, "answered")
  /\ \/ request[u] = "results" /\ got' = [got EXCEPT ![u] = LiveWithResult(u)]
     \/ request[u] = "cases" /\ got' = [got EXCEPT ![u] = @ \ caseGone]
  /\ UNCHANGED <<server, pc, exit, tries, todo, missed, request, items, seen,
                 imported>>

Attach(u) ==
  /\ \E f \in Script[u].files :
       /\ Handler(u, f, "asked")
       /\ attached' = [attached EXCEPT ![u][f] = @ + 1]
  /\ To(u, "answered")
  /\ UNCHANGED <<caseGone, result, history, closed, made, client, request, items,
                 seen, imported>>

CloseRun(u) ==
  /\ Handler(u, "close", "asked") /\ To(u, "answered")
  /\ closed' = closed \union {RunOf(u)}
  /\ UNCHANGED <<caseGone, result, history, made, attached, client, request, items,
                 seen, imported>>

\* Someone deletes a case; its results stay.
DeleteCase(c) ==
  /\ c \notin caseGone /\ Cardinality(caseGone) < MaxDeletes
  /\ caseGone' = caseGone \union {c}
  /\ UNCHANGED <<result, history, closed, made, attached, client, handler, imported>>

-----------------------------------------------------------------------------
(* The client.  pc is the request it is about: a file stands for the POST  *)
(* that attaches it.                                                       *)
Ask(u) ==
  /\ pc[u] # "done" /\ stage[u] = None
  /\ request' = [request EXCEPT ![u] = pc[u]] /\ To(u, "asked")
  /\ tries' = [tries EXCEPT ![u] = @ + 1]
  /\ UNCHANGED <<server, pc, exit, got, todo, missed, items, seen, imported>>

End(u, code) ==
  /\ pc' = [pc EXCEPT ![u] = "done"] /\ exit' = [exit EXCEPT ![u] = code]

Goto(u, p) == pc' = [pc EXCEPT ![u] = p] /\ UNCHANGED exit

\* Bug: an upload that missed something closes its run.
ClosesFirst(u, unmatched) ==
  IF Script[u].close THEN Goto(u, "close")
  ELSE End(u, IF Script[u].strict /\ unmatched > 0 THEN 2 ELSE 0)

Finish(u, unmatched) ==
  IF Script[u].strict /\ unmatched > 0 THEN End(u, 2)
  ELSE IF Script[u].close THEN Goto(u, "close") ELSE End(u, 0)

\* The files of F, one by one, then the end.
AttachRest(u, F, unmatched) ==
  IF F = {} THEN Finish(u, unmatched) ELSE \E f \in F : Goto(u, f)

Unmatched(u) == Cardinality(DOMAIN Report[u]) - Cardinality(items[u])

Receive(u) ==
  /\ pc[u] # "done" /\ stage[u] = "answered" /\ To(u, None)
  /\ tries' = [tries EXCEPT ![u] = 0]
  /\ \/ pc[u] = "create" /\ Goto(u, "import") /\ UNCHANGED <<todo, missed>>
     \/ /\ pc[u] = "import"
        /\ missed' = [missed EXCEPT ![u] = Unmatched(u)]
        /\ IF Script[u].files = {} THEN Finish(u, Unmatched(u)) ELSE Goto(u, "results")
        /\ UNCHANGED todo
     \/ pc[u] = "results" /\ Goto(u, "cases") /\ UNCHANGED <<todo, missed>>
     \/ /\ pc[u] = "cases"
        /\ LET F == {f \in Script[u].files :
                       \E c \in got[u] : Automation[c] = f}
           IN  todo' = [todo EXCEPT ![u] = F] /\ AttachRest(u, F, missed[u])
        /\ UNCHANGED missed
     \/ /\ pc[u] \in todo[u]
        /\ todo' = [todo EXCEPT ![u] = @ \ {pc[u]}]
        /\ AttachRest(u, todo[u] \ {pc[u]}, missed[u]) /\ UNCHANGED missed
     \/ pc[u] = "close" /\ End(u, 0) /\ UNCHANGED <<todo, missed>>
  /\ UNCHANGED <<server, got, request, items, seen, imported>>

Refused(u) ==
  /\ pc[u] # "done" /\ stage[u] = "refused" /\ To(u, None) /\ End(u, 1)
  /\ UNCHANGED <<server, tries, got, todo, missed, request, items, seen, imported>>

\* Bug: every request is tried again.
RetriedAll(req) == TRUE

Retried(req) == req \in {"results", "cases"}

Again(u) == Retried(pc[u]) /\ tries[u] < MaxAttempts

\* Bug: a run whose close was not answered counts as closed.
LoseGently(u) ==
  /\ pc[u] # "done" /\ stage[u] # None
  /\ IF Again(u)
     THEN To(u, None) /\ UNCHANGED <<pc, exit>>
     ELSE End(u, IF pc[u] = "close" THEN 0 ELSE 1) /\ UNCHANGED stage
  /\ UNCHANGED <<server, tries, got, todo, missed, request, items, seen, imported>>

(* No answer comes, or a 5xx: a GET is sent again, anything else ends the  *)
(* upload.  What the handler does then is its own affair: it may never     *)
(* have been asked, have died, or go on.                                   *)
Lose(u) ==
  /\ pc[u] # "done" /\ stage[u] # None
  /\ IF Again(u)
     THEN To(u, None) /\ UNCHANGED <<pc, exit>>
     ELSE End(u, 1) /\ UNCHANGED stage
  /\ UNCHANGED <<server, tries, got, todo, missed, request, items, seen, imported>>

Client(u)  == Ask(u) \/ Receive(u) \/ Refused(u) \/ Lose(u)
Handles(u) == \/ CreateRun(u) \/ BuildIndex(u) \/ LookUp(u) \/ SubmitMany(u)
              \/ Read(u) \/ Attach(u) \/ CloseRun(u)

Next == \/ \E u \in Uploads : Client(u) \/ Handles(u)
        \/ \E c \in Cases : DeleteCase(c)

Spec == Init /\ [][Next]_vars

-----------------------------------------------------------------------------
TypeOK ==
  /\ caseGone \subseteq Cases /\ closed \subseteq Runs /\ imported \subseteq Uploads
  /\ result \in [Runs -> [Cases -> Status \union {None}]]
  /\ history \in [Runs -> [Cases -> Nat]]
  /\ made \in [Uploads -> Nat]
  /\ \A u \in Uploads :
       /\ attached[u] \in [Script[u].files -> Nat]
       /\ pc[u] \in Requests \union {"done"} \union Script[u].files
       /\ exit[u] \in {-1, 0, 1, 2} /\ (exit[u] = -1 <=> pc[u] # "done")
       /\ tries[u] \in 0..MaxAttempts
       /\ got[u] \subseteq Cases /\ todo[u] \subseteq Script[u].files
       /\ missed[u] \in 0..Cardinality(DOMAIN Report[u])
       /\ items[u] \subseteq (DOMAIN Report[u]) \X Cases
       /\ seen[u] \in [Cases -> Status \union {None}]
       /\ stage[u] \in {None, "asked", "matched", "compared", "answered", "refused"}

(* What an import writes can be defended: no two entries go to one case,   *)
(* no entry goes to two, none is decided by an automation_id that two      *)
(* cases claim, and every result of a run was in a report that was         *)
(* imported into it (result_import_service, the loop of import_results).   *)
EntriesAccounted ==
  /\ \A u \in Uploads :
       /\ Cardinality(items[u]) = Cardinality(Targets(u))
       /\ Cardinality(items[u]) = Cardinality({x[1] : x \in items[u]})
       /\ \A x \in items[u], c, d \in Cases \ caseGone :
            c # d /\ Automation[c] = Automation[d] /\ Automation[c] # None =>
              /\ Report[u][x[1]].key # Automation[c]
              /\ Report[u][x[1]].key = Dotted[Automation[c]] =>
                   Automation[x[2]] = Report[u][x[1]].key
  /\ \A r \in Runs, c \in Cases : result[r][c] # None =>
       \E u \in imported : RunOf(u) = r /\ \E x \in items[u] :
         x[2] = c /\ Report[u][x[1]].status = result[r][c]

(* What a pipeline gates on is true: 0 says that the report was imported,  *)
(* nothing of it was missed under --strict, the run is closed if that was  *)
(* asked and every file of a matched case is attached; 2 says that the     *)
(* report is in, entries are missing and a run of its own is still open; a *)
(* closed run is one whose upload got that far (errors.py, upload).        *)
ExitTellsRun ==
  /\ \A u \in Uploads : exit[u] = 0 =>
       /\ u \in imported
       /\ Script[u].strict => Unmatched(u) = 0
       /\ Script[u].close => RunOf(u) \in closed
       /\ \A f \in Script[u].files, c \in Targets(u) \ caseGone :
            Automation[c] = f => attached[u][f] = 1
  /\ \A u \in Uploads : exit[u] = 2 =>
       /\ u \in imported /\ Script[u].strict /\ Unmatched(u) > 0
       /\ Script[u].create => u \notin closed
  /\ \A r \in closed : \E u \in imported :
       RunOf(u) = r /\ Script[u].close /\ (Script[u].strict => Unmatched(u) = 0)

(* One upload makes at most one run and attaches a file at most once,      *)
(* whatever is lost: only what reads is sent again (client._request).      *)
PostsOnce ==
  \A u \in Uploads :
    made[u] <= 1 /\ \A f \in Script[u].files : attached[u][f] <= 1

(* All of this, as one atomic step each: an upload does nothing more after *)
(* an exit code that says how it ended, imports after it made its run,     *)
(* attaches and closes after it imported.                                  *)
Delivery ==
  INSTANCE ReportDelivery WITH
    Jobs <- Uploads, RunFor <- [u \in Uploads |-> RunOf(u)],
    Says <- [u \in Uploads |->
               {Report[u][i].status : i \in DOMAIN Report[u]} \intersect Status],
    Files <- [u \in Uploads |-> Script[u].files],
    Creates <- {u \in Uploads : Script[u].create},
    Strict <- {u \in Uploads : Script[u].strict},
    Closes <- {u \in Uploads : Script[u].close},
    rows <- result, stored <- imported, told <- exit,
    missing <- [u \in Uploads |-> IF u \in imported THEN Unmatched(u) ELSE 0]

(* Whatever is lost and however late a handler is, the upload command      *)
(* implements ReportDelivery (upload, client._request, import_results).    *)
DeliverySpec == Delivery!Spec

(* A report that is uploaded again, the answer to the first having been    *)
(* lost or not, changes no status and adds no history (submit_many).       *)
RerunChangesNothing ==
  [][\A u \in imported' \ imported :
       LET others == {v \in imported : RunOf(v) = RunOf(u)}
       IN  /\ others # {}
           /\ \A v \in others : Report[v] = Report[u] /\ items[v] = items[u]
           => UNCHANGED <<result, history>>]_vars
=============================================================================
