# Testoria: a TLA+ model of the backend

Testoria (`api-testoria`) is a FastAPI backend for test management: projects hold
suites of test cases, test runs collect results, and e-mails, attachments and
realtime events leave the database for other systems. This directory models the
parts whose correctness depends on the order of things: concurrent requests on
PostgreSQL, a mail worker that crashes and restarts, cascades of soft deletion,
tokens in Redis, uploads whose answers are lost, reports read SELECT by SELECT.

Every definition is translated from the source; `PROJECT.json` maps each to the
lines it stands for. Definitions introduced by a comment "Bug:" are deliberate
mutations of the definition that follows them: every property is shown to fail
under one of them.

## The system

| component | state | operations | interacts with |
|---|---|---|---|
| E-mail outbox (`email_outbox_service`, `core/email_worker`, `core/email`) | `email_outbox` rows; each process's claimed batch | enqueue, claim, send, mark sent/failed, requeue at start | every service that sends mail; SMTP |
| Test runs (`test_run_service`) | `test_runs`, `test_run_test_cases` | create, update, close, activate, delete, restore, set cases; progress and tree queries | results activate runs; audit log; realtime |
| Results and history (`test_result_service`) | `test_results`, `result_history`, `attachments` | submit, bulk import, update, attachments, history | runs, object storage, CI import |
| CI import (`ci_service`, `result_import_service`) | none of its own | JUnit/JSON parsing, matching, submit | results |
| Projects, suites, cases | `projects`, `test_suites`, `test_cases` | create, move, delete (cascades), restore, statistics, import/export | one another, runs, results |
| Milestones, tags, defects | one table each | create, update, delete | projects, cases, results |
| Accounts (`user_service`, `email_service`, `password_token_service`, `api_key_service`, `core/security`) | `users`, `api_keys`; tokens in Redis | login, invite, reset, roles, mint/revoke keys | outbox, every request |
| Audit log, realtime | `audit_logs`; Centrifugo channels | append; publish | every writing service |
| Storage (`core/storage`, `core/uploads`) | MinIO objects | put, get, delete | attachments |
| Reports (`report_service`, `get_stats`, the badge) | none of its own | dashboard, analytics, run report, metrics, custom report | reads all tables |
| Case import and export (`import_service`, `tag_service`) | `test_cases`, `tags` | import rows, create tags on the way | catalogue |
| CLI uploader (`cli/testoria_cli`) | exit code of a pipeline | create a run, import, attach, close; retries | runs, results, attachments over HTTP |
| Migrations | the schema | run once, offline | |

What is hard here is common to all writing services. A request is one database
transaction (`get_db`, `app/database.py:25-32`): it commits after the handler
returned and rolls back when it raises. PostgreSQL runs it at READ COMMITTED, so
two SELECTs of one handler see different states; the ORM session keeps the row it
read first and writes, by primary key, only the columns that differ from that
read; a flush holds the row's lock until the commit. Events go out before the
commit, and Redis, SMTP and MinIO take no part in it.

What makes each part correct:

* outbox: a message is sent at least once and settled once; copies only after a
  recorded failure or a restart; no row is lost or retried for ever;
* runs: first results activate once and never reopen a run; the audit log and
  the event stream tell the status; a completed run's cases are frozen;
* results: one row per case, the last submit is what is stored, every value has
  its history entry;
* catalogue: nothing live below something deleted, the suites are a tree, only a
  restore brings a row back;
* accounts: a token works once, a key never carries more than its owner's role;
* attachments: a row has its object and an object its row;
* counting and matching: all queries agree on what a run's cases are; one number
  has one value on a page; an entry of a report goes to one case or to none;
* uploads and imports: what an exit code or an answer tells is in the database.

## Modules

| module | models | state of the model, and the code it is |
|---|---|---|
| `MailDelivery` | what the outbox promises | `owed`, `copies`: an abstract message |
| `EmailOutbox` | table, service, drain loop, SMTP session | `status`, `attempts`, `due` are columns; `phase` is where the worker's coroutine stands; `batch`, `loaded` are the ORM objects it claimed; `copies` is the mail server; one action per transaction or SMTP exchange |
| `TestRuns` | one run and its requests | `run`, `picked` are rows; `seen` is the session's copy; `pc` stands between the statements of a handler; `news` is the last event, `audited` and `activations` the audit log |
| `TestResults` | the results of one run | `row`, `history`; `mine`, `dirty`, `held`, `entries` are a session's rows, changed columns, locks and pending history |
| `Catalog` | projects, suites, cases, runs | `state` is `deleted_at`, `above` is `parent_suite_id` or `suite_id`; `found` and `aimed` are what the statements of a cascade have selected |
| `Attachments` | attachment rows, object store, local disk, migration script | `row` is `storage_backend` and `object_key`; `objects` and `disk` are the stores; `todo`, `at`, `broken` are where a request stands in its files; `writes` is what its transaction has flushed |
| `RunViews` | what the views of runs answer while other requests write | the tables as sets and functions; `pc` stands between the SELECTs of a view, `seen`, `total`, `counts`, `found`, `nodes` are what they returned; a write is one step, as committed |
| `Reports` | every report, the statistics of one and many projects, the badge | the tables as in `RunViews`; `ask` is the request, `todo` the SELECTs that its service function has still to make, in order, `got` what the others returned; what is made of them in memory (`Trend`, `MeanOf`) are operators |
| `Invitations` | users, bulk creation, invitations, password tokens | `users`, `mails` are committed rows, `tokens` is Redis; `mine`, `sent` are what a transaction has flushed, `row`, `cur`, `errors` the loop of `bulk_create_users`; one action per statement, Redis call or commit |
| `Upload` | the client's `upload` command and the server's import | `pc`, `tries`, `exit` are the client; `request`, `stage`, `items`, `seen` the handler of the request it waits for, which may go on after the client gave up; `result`, `history` are the tables |
| `ReportDelivery` | what a pipeline may rely on when it uploads | `made`, `rows`, `stored`, `missing`, `attached`, `closed`: effects, atomic and in the order of the script; `told` the exit code |
| `CaseImport` | case creation and import with their tags | `tags`, `cases` are committed; `objs`, `again`, `mine`, `drafts`, `broken` the ORM session; `counted`, `errors` the answer |
| `*Proofs` | theorems about the module | |
| `MC*` | instances for TLC | sets of requests, symmetry |

A step of a model is one SQL statement with its lock wait, one SMTP exchange, or
a commit. A commit makes all of a transaction's changes at once, since no other
statement sees an uncommitted one. `held`, `Locks` and `Locked` are the row
locks; a statement that would wait is not enabled. Where the code checks and
writes in separate statements, so does the model.

Composition: `EmailOutbox` instantiates `MailDelivery` as the specification it
implements. `TestResults` treats the run as past its first result, because
`TestRuns` has the activation, and both have the run's deletion, seen from their
own rows. `Catalog` has the same transactions on the rows above. `Attachments` has
the stores below: the deletion of a run or a result leaves its attachments where
they are, so the two share no state. `RunViews` is the reading side of all of
them: it takes the commits of `TestRuns`, `TestResults` and `Catalog` as single
steps, in any order, since how their transactions overlap is settled there.
`Reports` reads the same commits for the pages that span projects, and takes the
two SELECTs of a run's progress, which `RunViews` lets race, as one. `Upload` is
the composition of the client with the run, the import and the attachments it
calls: here each handler is as coarse as what the client can tell apart, and what
overlapping transactions do to one result is in `TestResults`. It instantiates
`ReportDelivery`, where there are no requests, handlers, retries or lost answers:
a handler's commit is an effect there, the client's end is the exit code, and all
else is a stutter. `Invitations`
ends at the outbox: a mail that is committed is a message of `EmailOutbox`.

## What TLC checks

| run | instance | shows |
|---|---|---|
| `outbox_alone` | 2 processes, 3 starts, never two at once; 3 messages, batches of 2, 2 attempts; kills, refused sends, lost replies | no claim is contested; `CopiesBounded`; the refinement `DeliverySpec`; `EveryMailSettles` |
| `outbox_overlap` | 3 processes at once, 2 messages; failing connections, sends and database | `ClaimsExclusive`, `ClaimIsCurrent`, `RetriesExhausted` |
| `runs_all` | 2 requests at a time, 4 in all, of all kinds and all status values; 2 cases; any may fail | `AuditTellsStatus`, `NewsTellsStatus` |
| `results_race` | 2 requests at a time, 3 in all: submits, updates, crossed imports, a CI report that names a case twice, delete, restore | `EveryValueRecorded`, `HistoryTellsRow`, `DeletedRunHasNoLiveResults`, `EveryRequestEnds` |
| `catalog_alone` | 1 request at a time, any number of them; 2 projects, 4 suites, 1 case, 1 run | `NothingLiveBelowDeleted`, `MovesKeepTheTree` |
| `catalog_race` | 2 requests at a time, any number; 2 suites, 1 case, 1 run | `OnlyRestoreRevives` |
| `attachments` | 3 requests at once: bulk uploads, deletions, runs of the migration script; 2 old attachments on disk, 2 new ones; every call may fail, every process may die | `RowsHaveContent`, `NoOrphans` |
| `run_views` | one view of 1 or 2 runs, up to 3 writes before or among its SELECTs; 2 cases, 3 suites, one of them below another, one of another project | `ProgressAddsUp`, `TreeShowsAll`, `ViewsAgree` |
| `reports` | 17 requests (all kinds; windows in and off UTC, and one that ends before it begins; filters) for 2 projects, 3 runs, 3 cases; up to 2 writes before or among the SELECTs | `TotalsAgree`, `SoundUnderRaces`, `BulkIsStats`, `PagesPartition`; types |
| `invitations` | 2 requests at a time, 3 in all; 3 people, two of whom share an e-mail; 3 tokens; every step may fail | `InviteIffUser`, `TokenNamesItsOwner`, `SpentStaysSpent`, `AnswerTellsRows`, `RolesProtected`, `EveryRequestEnds` |
| `upload` | 3 uploads at once: one of a JUnit report into a run of its own, `--strict` and closing it, two of one JSON report into a common run; 3 cases, two with one `automation_id`; lost requests and answers, a deleted case | `EntriesAccounted`, `ExitTellsRun`, `PostsOnce`, `RerunChangesNothing`; the refinement `DeliverySpec` |
| `case_import` | 2 imports and 1 single case at once, that want 3 new tags in opposite orders; every request may fail | `CasesHaveTheirTags`, `AnswerTellsRows`, `EveryRequestEnds` |

All type invariants are theorems. Only that of `Reports`, which has the most
state, is checked by a run as well.

Bounds, and why they are enough. Two requests at a time show every conflict of
two transactions; a third would only repeat one of them or close a longer cycle
of lock waits, which PostgreSQL breaks the same way. `MaxRequests` and
`MaxStarts` bound the length of a behaviour: four requests are a pair before or
after a pair, and three starts are a start, a crash and a recovery that crashes
again. Three messages and batches of two have a full batch, a partial one and a
message left over. Four suites allow a deleted suite between two live ones on a
path of three with a bystander in another project. Two old and two new
attachments make a bulk and a migration of two, so that one file can fail after
the other succeeded; three requests are a migration that dies, its second run
and a deletion. The script is run by hand, one at a time. Three writes are a
submit, a deletion and a restore of one run, or two writes between two SELECTs
after one that set the stage; a view keeps nothing for the next, so a behaviour
of `run_views` ends with one answer. `Catalog` and `CaseImport` have no bound:
their state is finite. In `reports` one page holds two results and the recent
list one run, so that a second page and a run that is not listed exist, and a
day has two instants, so that a window can begin and end inside one. In
`invitations` two bulk requests insert people who clash in opposite orders, or
one request's token is spent by the other while it is sent again; a third
request is the edit or deletion in between. In `upload` the reports have an
element without a name, one case named twice and two cases for one name; three
attempts are the client's own number. Deadlock checking is off because a bounded client stops; a
request that waits for ever is found by `EveryRequestEnds`.

Fairness. `outbox_alone` assumes that a live coroutine goes on, that the clock
reaches `next_attempt_at`, and that a dead process is started again
(`restart: unless-stopped` in `docker-compose.prod.yml`). Kills are bounded by
`MaxStarts`. Connection and database failures are left out of this run because a
server that never answers settles nothing. `results_race` assumes that a handler
that can go on does, which asyncio and PostgreSQL's lock queue give, and that
PostgreSQL ends one of two requests that wait for each other. In `invitations` and
`case_import` a handler that can go on does, and the broken-off side of a
deadlock is chosen by PostgreSQL after `deadlock_timeout`; requests need not
begin and need not fail, tokens need not expire. A mail that cannot be queued
belongs to the handler's own step there: it is what happens after a failing
Redis call, not a fault one waits for. Nothing assumes that clients send requests.

History variables (`contested`, `byHand`, `torn`, `overlapped`, `strayed` and others) record
the events that end a guarantee, so a property says exactly how far it goes:

* `contested`: a start-up requeue took a row from a live process;
* `byHand`: a client wrote the status by PUT, which leaves no audit entry of it;
* `torn`: a transaction failed after its event was published;
* `overlapped`: two transactions on the results, or on the users, were open at once;
* `oops`: the calls of a request on attachments that failed;
* `quiet`: nothing was written since the view or report began;
* `known`: the tags there were when a request began;
* `strayed`: a restore or a moved case went below a deleted suite.

## What TLAPS proves

All theorems hold for any number of processes, requests, rows, suites and cases.
They assume only the named ASSUME of the module, and rest on inductive
invariants.

* `GuardedRowsProofs`, about mails and runs: rows which concurrent writers take
  by an UPDATE with a guard. `RequeueIsSafeAlone` and `CopiesBounded` are not
  inductive: a copy may be on its way while the attempt is not yet counted.
  `OutboxInvariant` adds what a worker in each phase knows of its rows (claimed
  rows are `sending` with the attempts it loaded, holders are unique unless the
  row is contested) and a sharper bound for a message that has just been
  accepted. From it follow all safety properties and, for one process at a time,
  `OutboxDelivers`: each step of the outbox is a step of `MailDelivery` or none.
  Of runs, the key is the lock: `OneWriter`, and `HitStaysTrue`, that a row
  matched by the guarded UPDATE is still planned and live when it commits.
  `NewsOfWriter` ties the last event to the writer in flight; with it
  `NewsTellsStatus` is inductive. `ResultsOnlyActivate` is about steps: a result
  takes a run from planned to active and nowhere else.
* `TestResultsProofs`. `EveryValueRecorded` needs that each column a session
  wrote has an entry among those it will commit (`DirtyRecorded`), that a row
  without a predecessor is written whole (`NewRowsWhole`), and that one open
  transaction writes a row (`RowsExclusive`).
  `HistoryIsCurrent` and `DeletedRunIsEmpty` are about requests that do not
  overlap: `Serial` says that the open one has the table's rows with its own
  changes (`Knows`: what its commit will merge is what it has), and that its
  last entry for a case, newer than all the history, says what its row says.
* `CatalogProofs`. `CatalogInv` holds for any concurrency and gives
  `OnlyRestoreRevives`: a row is held by one request, and a move commits the
  `deleted_at` that is there. `AloneInv` adds that what a request's statements
  established still holds when it commits (`Justified`), that live rows are
  attached to live ones, and that the suites are a tree, stated as: every
  nonempty set of live suites has a member whose parent is outside it. The
  subtree query is its least closed set, so no recursion is needed.
* `AttachmentsProofs`. The invariant follows an object from its put to the end
  of its request: `Held` by the request that still has to name it, `Followed`
  once its row is flushed, and afterwards named, removed or explained; `Content`
  says the same of what a row names. It needs that a file is in the hands of one
  uploader (`OneUploader`) and that one script runs (`OneScript`).
* `RunViewsProofs`. The invariant is `StillTrue`: what each SELECT returned it
  would return still, while nothing is written. `RateIsARatio` needs that
  results of different statuses are different cases of the scope
  (`CountedFits`), and `ViewsTellTheSame` that a join has one row for each case
  (`JoinedCases`). `TreeLosesNothing` is about any forest of which any suites
  are missing: a node below no root, or below two, would be in a nonempty set of
  suites that contains the parents of all its members (`OneRootEach`).
* `InvitationsProofs`. Six invariants, most on top of the one before. `Typed` adds to
  the types where a request can be by what it does. `Spendable` follows a token
  from the GETDEL to the commit: it is gone from Redis, set no password, and is
  in no other request's hands. `RowsInv` says what a transaction has flushed and
  not committed (`Pending`: each of its rows but the last has its invitation),
  that ids in different hands differ (`Apart`), and that rows which clash are in
  one transaction's way (`Unclashing`). `Owners` needs the sequence: an id is
  never drawn twice, so the token of a user who was rolled back stays nobody's.
  `Tallied` counts the answer of a bulk request while its transaction is open: its
  errors and its users are as many as the rows it is through with, whatever a
  row's savepoint took back; `BulkAnswersTellRows` follows. `EntitledAll` says
  that the users a request inserts, and the role it gives, are such as its actor
  may manage, and, while no two requests overlapped, that the user it edits is
  still one whom it may. `AdminsByAdmins` is a property of steps and follows from it.
* `UploadProofs`. Client and handler go on without each other once an answer is
  lost, so the invariant says what each knows of the other (`Exchange`): a
  handler that is at work has the request the client is at, or the client has
  given up. `Once` needs it: a file is still to be attached unless the handler of
  its one request has committed. `Imports` and `Indexed` say that an import was
  committed once, with the matches of one set of cases, which has all that live
  now; `ResultsSupported` and `SeenSupported` that each result, also one that a
  handler has read and not yet compared, is one that some import had for its
  case. `Goes` says what is true at each place of the client's script, and
  `ClosedComplete` that nothing else closes a run. `RerunChangesNothing` is about
  steps: it needs that what the handler saw is what its own report says.
  `ReportsAreDelivered` is the refinement of `ReportDelivery`. It takes `Linked`
  on top of the invariant: an upload that ended with 0 or 2 has no handler at
  work, so nothing follows such an end, and a handler of a later request comes
  after the commit of the run and of the import. What makes a match no guess is in `AmbiguousUnmatched`, about the five rules, which
  are a finite sequence and need no induction.
* `AnswersProofs`, about the answers of reports and imports. `ReportsInv` says
  that the SELECTs which are left are an end of the plan (`Ordered`), so a SELECT
  finds what it uses; that rows are of the request's projects and rates are
  ratios (`Grounded`), whatever is written between; and that each SELECT returned
  what it would return now while nothing is written (`Snapshot`).
  `ReportsSoundUnderRaces`, `BulkMeansStats` and `PagesArePartition` follow.
  `ReportsAddUp` also needs that a set is as large as its parts together
  (`SumOfParts`): results by status, by day, by run, by project. That would be an
  induction on a finite set. It is done without an operator parameter: a set of
  sets that has a member has a smallest one (`SmallestCounterexample`, from
  `FS_StrictSubsetOrderingWellFounded`), and the sum over it is the sum without
  one of its elements and that element.
  Of imports, `Sound` says which tags of its row a request holds and that
  each is committed, its own or to be inserted again (`Staged`), what it has
  inserted (`Drafted`), that it accounts for all rows it is through with
  (`Accounted`), and that only a tag which another request made takes rows from
  it, and takes all before that one (`Left`). `Makers`, that a committed tag's
  maker has answered, is what names that other request.

Only model-checked: liveness (`EveryMailSettles` and the `EveryRequestEnds` of
three modules), which is beyond the prover. Every other property of every run is
stated by a theorem.

## Seen in the models

Where the code does other than its documents say, or what a reader might not
expect. No run is about these; the definition that shows each is named.

Runs and results:

* `operations/email.md:61` says replicas never double-send. The start-up requeue
  takes the rows another process is sending (`Start`); `contested` marks them.
* `004-test-execution.md:13` says closing a run freezes its case set.
  `set_run_cases` checks the status it read and writes several awaits later, so a
  close in between leaves a completed run whose cases are then replaced.
* `004-test-execution.md:56` says a second submit updates the row. The UPDATE has
  only the columns that differ from what the session read: a submit that repeats
  the status it read writes nothing, although another one is stored meanwhile.
* Plan 045, line 70, says the tree is acyclic and `update_suite` guards it. The
  guard sees live descendants only and a restore does not look at its parent:
  create, delete, restore and move close a cycle. The suites are then no forest,
  and `get_suite_tree` counts cases that are below no root.
* Two `set_run_cases` at once can leave the union of both sets, or fail on the
  primary key (`Replace`, `ReplaceConflict`).
* A failing connect or login leaves the claimed rows `sending` until a restart
  (`ConnectFails`), although `email.md:87` says only a crash does.
* After a run was deleted and restored, a submit for a case with a result fails
  on `uq_result_run_case` (`Conflict`): the lookup skips the deleted row.
* Overlapping submits can be listed in the wrong order by `get_history`, because
  `changed_at` is the start of the transaction (`Newest`).
* An import that overlaps `delete_run` leaves live results in a deleted run, and
  `create_test_case` that overlaps `delete_suite` a live case in a deleted suite.
* `delete_project` misses the live cases of suites that were deleted before
  (`update_test_case` moves cases there).

Attachments:

* `delete_attachment` removes the content before the row, so a failing flush or
  commit leaves a row without content (`Erase`, `CommitFails`) and no log entry
  that names it, although plan 042, line 69, wants that never to happen unseen.
* The migration script with `--delete-local` removes files before its only
  commit. If it dies, the rows say local, the files are gone, and a second run
  skips them (`Skip`); the content is in objects that no row names.
* In a bulk upload the objects of earlier files stay when a later flush fails:
  the compensating delete (`Clean`) is for the last one only.

Views and reports:

* `service-layer.md:93` says that all five views derive the same case set. They
  agree up to what `ViewsAgree` names: the list of cases has deleted cases of an
  automatic run (`CasesOf`), although `run_scope_case_ids` says it mirrors it;
  the tree drops deleted cases that were picked (`TreeCasesOf`) and shows the
  results of a run that was deleted and restored (`Joined`); reports count
  results of cases that left the run (`Tested`).
* The sum it promises, passed + failed + blocked + no_run = total, is
  max(total, tested) when a write comes between the two SELECTs.
* `get_bulk_stats` says "Semantics match get_stats()", but counts deleted suites,
  cases and runs and lists deleted projects (`CountAllSuites`, `CountAllCases`,
  `CountAllRuns`); `BulkIsStats` says how far the two agree.
* A write between the SELECTs of one page makes the badge exceed 100 %
  (`CountPassed` after `CountResults`), `manual_count` negative
  (`CountAutomated`), or more runs completed than there are.
* The run report ignores an explicit case set (`ReportCases`). The dashboard's
  pass rate is over results, everywhere else it is the mean of the runs' rates.
* The points of a zero-filled trend are the days of the caller's offset, the
  database groups by days in UTC: results at the edge of a window in another
  offset are in no point (`ZeroFilled`). A window that ends before it begins is
  accepted, and has one point if both instants are in one day.
* The custom report sorts by `tested_at` alone; pages of results with one time
  may repeat and skip rows (`PagesOf`).

Accounts:

* The role of the user is looked at once: under overlapping requests a lead can
  edit or delete somebody who has just become an admin (`RolesProtected` is
  restricted to requests that do not overlap for that).
* A reset token is consumed before the password is committed: a commit that
  fails burns it (`Consume`, `Fail`). An invitation that is rolled back leaves
  its token in Redis, for an id that no user will have.
* Of two bulk requests in each other's way, PostgreSQL ends one INSERT, and that
  row becomes an ordinary error entry of its answer (`DeadlockBroken`).

Uploads and imports:

* After a lost answer to a POST or a 5xx the client exits with 1, while the
  handler may go on: `--create-run` that is repeated makes a second run, and files
  are attached a second time (`PostsOnce` is about one invocation).
* A JSON entry may have any status. If it goes to a case and its status is no
  result's, the whole import fails with a 500 (`BuildIndex`); if it goes to none,
  it is one unmatched case.
* An element of a report without a name is left out of the upload's totals as
  well (`Parsed`), so `--strict` does not notice it.
* If another request makes a tag while an import needs it, `create_tag` rolls
  back the whole session: the rows before are lost and still counted as created.
  Any other database error is an entry of the answer that nobody receives, since
  the commit then fails with a 500 (`broken`).

## Not modelled, and why

* Layout: PDF and workbook, the screenshots fetched for them, `include_trend`,
  priorities (counted as types are), rounding, the list and export of users, the
  export of cases. Reading XML, JSON, CSV and spreadsheets: rows and entries are
  the models' inputs.
* Pages and sorting, except in the custom report. Descriptive columns; a change
  of e-mail or password by an edit.
* A change of a case's tags by `update_test_case`, `POST /tags`: they call the
  same `get_or_create_many` and `create_tag` that `CaseImport` models, from a
  request with one case.
* JWT and password hashing: stateless, in libraries. API keys: a key and its owner
  are read, and compared, once by the request that presents the key; a property
  would restate those comparisons.
* Milestones: a row that is deleted and restored by itself. No cascade reaches it:
  `delete_project` leaves milestones live, and only a restore looks at the project.
  Defects: one row per request, no protocol.
* Realtime tokens and the best-effort publish; pooling; migrations, run once and
  offline.

## Plan

1. `update_test_case` with tags in `CaseImport`: unlike a creation it has a row
   to lose when `create_tag` rolls back.
2. Milestones in `Catalog`.
