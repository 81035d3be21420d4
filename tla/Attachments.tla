---------------------------- MODULE Attachments ----------------------------
(***************************************************************************)
(* Attachments of test results: rows in PostgreSQL, content in the object  *)
(* store or, for old ones, on local disk                                   *)
(* (app/services/test_result_service.py, app/core/storage.py,              *)
(* scripts/migrate_attachments_to_minio.py).                               *)
(*                                                                         *)
(* A request is a transaction; the stores take no part in it and keep      *)
(* what was done to them when it is rolled back.  Each put uses a fresh    *)
(* key, so an object is named by the attachment and the request that put   *)
(* it.  A single upload is a bulk upload of one file: it differs in its    *)
(* answer, not in what it leaves.                                          *)
(***************************************************************************)
EXTENDS FiniteSets

CONSTANTS
  Requests,      \* requests, and runs of the migration script
  Atts,          \* primary keys of result_attachments
  Legacy,        \* those that were on local disk from the start
  Faults         \* calls that may fail: see Fault

Fault == {"put", "flush", "clean", "erase", "commit", "crash"}
\* "move" is the script with --delete-local.
Kind  == {"none", "upload", "delete", "migrate", "move"}

ASSUME AttachmentsAssumption ==
  /\ Legacy \subseteq Atts
  /\ Faults \subseteq Fault
  /\ Requests \intersect {"new", "disk", "gone", "kept"} = {}
  /\ "none" \notin Atts

(* Where a row says its content is: in the object put by a request, on     *)
(* disk, or there is no row (yet, or any more).                            *)
Place == Requests \union {"new", "disk", "gone"}

VARIABLES
  row,           \* committed rows
  objects,       \* objects in the store: <<attachment, request that put it>>
  disk,          \* attachments whose file is on disk
  op,            \* request: what it does
  pc,            \* request: "idle" | "ready" | "flush" | "clean" | "unlink"
                 \*          | "erase" | "drop" | "done" | "failed"
  todo,          \* request: files to upload, or rows to migrate
  at,            \* request: the attachment it is at, or was at last
  saw,           \* delete: the row it read
  writes,        \* request: uncommitted rows, whose locks it holds
  broken,        \* request: a flush failed, the session takes no statement
  oops           \* history: the calls of a request that failed

stores == <<row, objects, disk>>
vars == <<row, objects, disk, op, pc, todo, at, saw, writes, broken, oops>>

NoWrites == [a \in Atts |-> "kept"]

Init ==
  /\ row = [a \in Atts |-> IF a \in Legacy THEN "disk" ELSE "new"]
  /\ objects = {}
  /\ disk = Legacy
  /\ op = [r \in Requests |-> "none"]
  /\ pc = [r \in Requests |-> "idle"]
  /\ todo = [r \in Requests |-> {}]
  /\ at = [r \in Requests |-> "none"]
  /\ saw = [r \in Requests |-> "new"]
  /\ writes = [r \in Requests |-> NoWrites]
  /\ broken = [r \in Requests |-> FALSE]
  /\ oops = [r \in Requests |-> {}]

-----------------------------------------------------------------------------
Migrates(r) == op[r] \in {"migrate", "move"}
Ended(r)    == pc[r] \in {"done", "failed"}
Wrote(r)    == {a \in Atts : writes[r][a] # "kept"}
Locked(r, a) == \E q \in Requests \ {r} : a \in Wrote(q)

\* The session ends, its locks go.
Closed(r) == [writes EXCEPT ![r] = NoWrites]

(* A request or the script dies, or its handler raises: rolled back.       *)
Fail(r, what) ==
  /\ pc' = [pc EXCEPT ![r] = "failed"]
  /\ writes' = Closed(r)
  /\ todo' = [todo EXCEPT ![r] = {}]
  /\ oops' = [oops EXCEPT ![r] = @ \union what]
  /\ UNCHANGED <<row, op, at, saw, broken>>

Goto(r, there) == pc' = [pc EXCEPT ![r] = there]
Failing(r, call) ==
  call \in Faults /\ oops' = [oops EXCEPT ![r] = @ \union {call}]

-----------------------------------------------------------------------------
(* Files of an upload get new rows, those no other request is creating.    *)
Fresh == {a \in Atts : row[a] = "new"} \ UNION {todo[r] : r \in Requests}
Creating == {a \in Atts : \E r \in Requests : op[r] = "upload" /\ ~ Ended(r)
                                              /\ (a = at[r] \/ a \in Wrote(r))}

BeginUpload(r, files) ==
  /\ pc[r] = "idle"
  /\ files # {} /\ files \subseteq Fresh \ Creating
  /\ op' = [op EXCEPT ![r] = "upload"]
  /\ todo' = [todo EXCEPT ![r] = files]
  /\ Goto(r, "ready")
  /\ UNCHANGED <<stores, at, saw, writes, broken, oops>>

(* The script reads all rows that are on disk; one runs at a time.         *)
BeginMigration(r, kind) ==
  /\ pc[r] = "idle"
  /\ \A q \in Requests : Migrates(q) => Ended(q)
  /\ op' = [op EXCEPT ![r] = kind]
  /\ todo' = [todo EXCEPT ![r] = {a \in Atts : row[a] = "disk"}]
  /\ todo'[r] # {}
  /\ Goto(r, "ready")
  /\ UNCHANGED <<stores, at, saw, writes, broken, oops>>

(* The files are taken one by one, read first and then put.  The script    *)
(* skips a row whose file is missing; after a failed flush get_result      *)
(* raises for each file that is left.                                      *)
Taken(r, a) ==
  /\ pc[r] = "ready" /\ ~ broken[r]
  /\ a \in todo[r]
  /\ todo' = [todo EXCEPT ![r] = @ \ {a}]

Skip(r, a) ==
  /\ Taken(r, a)
  /\ Migrates(r) /\ a \notin disk
  /\ UNCHANGED <<stores, op, pc, at, saw, writes, broken, oops>>

Put(r, a) ==
  /\ Taken(r, a)
  /\ Migrates(r) => a \in disk
  /\ at' = [at EXCEPT ![r] = a]
  /\ objects' = objects \union {<<a, r>>}
  /\ Goto(r, "flush")
  /\ UNCHANGED <<row, disk, op, saw, writes, broken, oops>>

(* The put raises, the object may be there all the same; the next file.    *)
PutFails(r, a) ==
  /\ Taken(r, a) /\ Failing(r, "put")
  /\ Migrates(r) => a \in disk
  /\ at' = [at EXCEPT ![r] = a]
  /\ \E stored \in SUBSET {<<a, r>>} : objects' = objects \union stored
  /\ UNCHANGED <<row, disk, op, pc, saw, writes, broken>>

\* Bug: the local file goes although --delete-local was not given.
RemovesAlways(r) == Migrates(r)

RemovesLocal(r) == op[r] = "move"

(* INSERT of the uploaded row, or UPDATE of the migrated one.              *)
Flush(r) ==
  /\ pc[r] = "flush" /\ ~ Locked(r, at[r])
  /\ row[at[r]] # "gone"
  /\ writes' = [writes EXCEPT ![r][at[r]] = r]
  /\ Goto(r, IF RemovesLocal(r) THEN "unlink" ELSE "ready")
  /\ UNCHANGED <<stores, op, todo, at, saw, broken, oops>>

(* The row was deleted while the script had it: StaleDataError ends it.    *)
FlushStale(r) ==
  /\ pc[r] = "flush" /\ ~ Locked(r, at[r])
  /\ row[at[r]] = "gone"
  /\ Fail(r, {"flush"})
  /\ UNCHANGED <<objects, disk>>

(* A failed flush rolls the transaction back.  An upload then deletes its  *)
(* object, the script ends.                                                *)
FlushFails(r) ==
  /\ pc[r] = "flush" /\ "flush" \in Faults
  /\ IF Migrates(r) THEN Fail(r, {"flush"})
     ELSE /\ Failing(r, "flush")
          /\ writes' = [writes EXCEPT ![r] = NoWrites]
          /\ broken' = [broken EXCEPT ![r] = TRUE]
          /\ Goto(r, "clean")
          /\ UNCHANGED <<row, op, todo, at, saw>>
  /\ UNCHANGED <<objects, disk>>

\* Bug: no compensating delete.
CleanedNot(r) == objects

Cleaned(r) == objects \ {<<at[r], r>>}

Clean(r) ==
  /\ pc[r] = "clean"
  /\ objects' = Cleaned(r)
  /\ Goto(r, "ready")
  /\ UNCHANGED <<row, disk, op, todo, at, saw, writes, broken, oops>>

CleanFails(r) ==
  /\ pc[r] = "clean" /\ Failing(r, "clean")
  /\ Goto(r, "ready")
  /\ UNCHANGED <<stores, op, todo, at, saw, writes, broken>>

\* An error is logged and the file stays.
Unlink(r) ==
  /\ pc[r] = "unlink"
  /\ \E removed \in SUBSET {at[r]} : disk' = disk \ removed
  /\ Goto(r, "ready")
  /\ UNCHANGED <<row, objects, op, todo, at, saw, writes, broken, oops>>

-----------------------------------------------------------------------------
BeginDelete(r, a) ==
  /\ pc[r] = "idle"
  /\ row[a] \notin {"new", "gone"}
  /\ op' = [op EXCEPT ![r] = "delete"]
  /\ at' = [at EXCEPT ![r] = a]
  /\ saw' = [saw EXCEPT ![r] = row[a]]
  /\ Goto(r, "erase")
  /\ UNCHANGED <<stores, todo, writes, broken, oops>>

(* The content goes first, from where the row was when it was read.        *)
EraseContent(r) ==
  IF saw[r] = "disk"
  THEN disk' = disk \ {at[r]} /\ UNCHANGED objects
  ELSE objects' = objects \ {<<at[r], saw[r]>>} /\ UNCHANGED disk

Erase(r) ==
  /\ pc[r] = "erase"
  /\ EraseContent(r)
  /\ Goto(r, "drop")
  /\ UNCHANGED <<row, op, todo, at, saw, writes, broken, oops>>

\* The store refuses, or its answer is lost: the row is kept.
EraseFails(r) ==
  /\ pc[r] = "erase" /\ "erase" \in Faults
  /\ EraseContent(r) \/ UNCHANGED <<objects, disk>>
  /\ Fail(r, {"erase"})

\* DELETE by primary key, whatever the row says by now.
Drop(r) ==
  /\ pc[r] = "drop" /\ ~ Locked(r, at[r])
  /\ writes' = [writes EXCEPT ![r][at[r]] = "gone"]
  /\ Goto(r, "ready")
  /\ UNCHANGED <<stores, op, todo, at, saw, broken, oops>>

DropFails(r) ==
  /\ pc[r] = "drop" /\ "flush" \in Faults
  /\ Fail(r, {"flush"})
  /\ UNCHANGED <<objects, disk>>

-----------------------------------------------------------------------------
AllDone(r) == pc[r] = "ready" /\ (broken[r] \/ todo[r] = {})

Commit(r) ==
  /\ AllDone(r) /\ ~ broken[r]
  /\ row' = [a \in Atts |-> IF a \in Wrote(r) THEN writes[r][a] ELSE row[a]]
  /\ Goto(r, "done")
  /\ writes' = Closed(r)
  /\ UNCHANGED <<objects, disk, op, todo, at, saw, broken, oops>>

\* A session with a failed flush refuses the commit.
CommitFails(r) ==
  /\ AllDone(r)
  /\ \/ broken[r] /\ Fail(r, {})
     \/ "commit" \in Faults /\ Fail(r, {"commit"})
  /\ UNCHANGED <<objects, disk>>

Crash(r) ==
  /\ pc[r] # "idle" /\ ~ Ended(r) /\ "crash" \in Faults
  /\ Fail(r, {"crash"})
  /\ UNCHANGED <<objects, disk>>

Step(r) ==
  \/ \E a \in Atts : Skip(r, a) \/ Put(r, a) \/ PutFails(r, a)
  \/ Flush(r) \/ FlushStale(r)
  \/ FlushFails(r) \/ Clean(r) \/ CleanFails(r) \/ Unlink(r) \/ Erase(r)
  \/ EraseFails(r) \/ Drop(r) \/ DropFails(r) \/ Commit(r) \/ CommitFails(r)

Begin(r) ==
  \/ \E files \in SUBSET Atts : BeginUpload(r, files)
  \/ \E kind \in {"migrate", "move"} : BeginMigration(r, kind)
  \/ \E a \in Atts : BeginDelete(r, a)

Next == \E r \in Requests : Begin(r) \/ Step(r) \/ Crash(r)

Spec == Init /\ [][Next]_vars

-----------------------------------------------------------------------------
(* Types of all variables; a session that ended has nothing uncommitted.   *)
TypeOK ==
  /\ row \in [Atts -> Place]
  /\ objects \subseteq Atts \X Requests
  /\ disk \subseteq Legacy
  /\ op \in [Requests -> Kind]
  /\ pc \in [Requests -> {"idle", "ready", "flush", "clean", "unlink",
                         "erase", "drop", "done", "failed"}]
  /\ todo \in [Requests -> SUBSET Atts]
  /\ at \in [Requests -> Atts \union {"none"}]
  /\ saw \in [Requests -> Place]
  /\ writes \in [Requests -> [Atts -> Place \union {"kept"}]]
  /\ \A r \in Requests : Ended(r) => Wrote(r) = {}
  /\ broken \in [Requests -> BOOLEAN]
  /\ oops \in [Requests -> SUBSET Fault]

(* What a download finds: the shim for legacy files serves the disk, the   *)
(* presigned link the object.                                              *)
Served(a) == IF row[a] = "disk" THEN a \in disk ELSE <<a, row[a]>> \in objects

ErasedByRequest(a) ==
  \E r \in Requests : op[r] = "delete" /\ at[r] = a /\ pc[r] # "erase"

(* Content in the store that a move put there and whose row does not say   *)
(* so: the move is under way or failed after it removed the file.          *)
StrandedByMove(a) ==
  row[a] = "disk" /\ \E r \in Requests :
                       op[r] = "move" /\ pc[r] # "done" /\ <<a, r>> \in objects

(* An attachment that is listed can be downloaded, whatever fails and      *)
(* whatever overlaps, unless somebody asked for its deletion; and where    *)
(* --delete-local loses the file, the content is still in the store.       *)
RowsHaveContent ==
  \A a \in Atts : row[a] \notin {"new", "gone"} =>
    Served(a) \/ ErasedByRequest(a) \/ StrandedByMove(a)

(* "so MinIO doesn't accumulate orphans" (test_result_service.py:438): an  *)
(* object that no row names when its request has ended is explained by a   *)
(* failed call other than the flush, by a flush that failed for a later    *)
(* file or in the script, or by a delete that read the row before it was   *)
(* migrated.                                                               *)
Explained(a, r) ==
  \/ oops[r] \intersect {"put", "clean", "commit", "crash"} # {}
  \/ "flush" \in oops[r] /\ (a # at[r] \/ Migrates(r))
  \/ \E d \in Requests : op[d] = "delete" /\ at[d] = a /\ saw[d] # r

NoOrphans ==
  \A a \in Atts, r \in Requests :
    <<a, r>> \in objects /\ Ended(r) => row[a] = r \/ Explained(a, r)
=============================================================================
