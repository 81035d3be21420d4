------------------------- MODULE AttachmentsProofs -------------------------
(***************************************************************************)
(* What Attachments promises for any requests, attachments and failures:   *)
(* the types, that listed attachments have their content, and that objects *)
(* without a row have an explanation.  The invariant follows an object     *)
(* from its put to the end of the request: it is in the request's hands,   *)
(* among its uncommitted rows, or a failed call has already explained it.  *)
(***************************************************************************)
EXTENDS Attachments, TLAPS

Puts(r)  == op[r] \in {"upload", "migrate", "move"}
Hands(r) == todo[r] \union Wrote(r)
              \union (IF pc[r] = "flush" THEN {at[r]} ELSE {})

(* Where a request can be, by what it does, and what it has written.       *)
Staged(r) ==
  /\ op[r] = "none" <=> pc[r] = "idle"
  /\ op[r] = "delete" => /\ pc[r] \in {"erase", "drop", "ready", "done", "failed"}
                         /\ at[r] \in Atts /\ todo[r] = {}
  /\ Puts(r) => pc[r] \in {"ready", "flush", "clean", "unlink", "done", "failed"}
  /\ pc[r] = "idle" => todo[r] = {} /\ Wrote(r) = {}
  /\ pc[r] \in {"flush", "clean", "unlink"} => at[r] \in Atts
  /\ pc[r] = "flush" => ~ broken[r]
  /\ pc[r] = "clean" => broken[r]
  /\ pc[r] = "unlink" => op[r] = "move" /\ at[r] \in Wrote(r)
  /\ pc[r] = "done" => todo[r] = {}

Written(r) ==
  /\ op[r] = "delete" => /\ Wrote(r) \subseteq {at[r]}
                         /\ \A a \in Wrote(r) : writes[r][a] = "gone"
  /\ Puts(r) => \A a \in Wrote(r) : writes[r][a] = r /\ <<a, r>> \in objects
  /\ pc[r] = "flush" => <<at[r], r>> \in objects
  /\ broken[r] => /\ Wrote(r) = {}
                  /\ op[r] = "upload" /\ "flush" \in oops[r]
                  /\ pc[r] \in {"ready", "clean", "failed"}

(* A migrated row is on disk until the script commits or a delete takes    *)
(* it; an uploaded one is not there.                                       *)
InHand(r) ==
  \A a \in Hands(r) : ~ Ended(r) =>
    /\ Migrates(r) => row[a] \in {"disk", "gone"}
    /\ op[r] = "upload" => row[a] = "new"

OneScript ==
  \A q, r \in Requests : Migrates(q) /\ Migrates(r) /\ ~ Ended(q) /\ ~ Ended(r) => q = r

OneUploader ==
  \A q, r \in Requests :
    op[q] = "upload" /\ op[r] = "upload" /\ ~ Ended(q) /\ ~ Ended(r) /\ q # r
      => Hands(q) \intersect Hands(r) = {}

(* What a delete has done to the object it saw.                            *)
Deletes(d) ==
  op[d] = "delete" =>
    /\ row[at[d]] # "new"
    /\ saw[d] \in Requests \union {"disk"}
    /\ saw[d] \in Requests => /\ pc[saw[d]] = "done" /\ Puts(saw[d])
                              /\ pc[d] \in {"drop", "ready", "done"}
                                   => <<at[d], saw[d]>> \notin objects

(* The whereabouts of an object.                                           *)
Held(a, r) ==
  \/ a = at[r] /\ pc[r] \in {"flush", "clean"}
  \/ a \in Wrote(r)
  \/ oops[r] \intersect {"put", "clean"} # {}
  \/ broken[r] /\ a # at[r]

Followed(a, r) ==
  <<a, r>> \in objects =>
    /\ Puts(r)
    /\ ~ Ended(r) => Held(a, r)
    /\ Ended(r) => row[a] = r \/ Explained(a, r)

(* A row and its content.                                                  *)
MovedBy(a, r) ==
  /\ op[r] = "move" /\ <<a, r>> \in objects
  /\ pc[r] = "failed" \/ (~ Ended(r) /\ a \in Wrote(r))

Content(a) ==
  /\ row[a] \in Requests => /\ pc[row[a]] = "done" /\ Puts(row[a])
                            /\ <<a, row[a]>> \in objects \/ ErasedByRequest(a)
  /\ row[a] = "disk" =>
       a \in disk \/ ErasedByRequest(a) \/ \E r \in Requests : MovedBy(a, r)

AttachmentsInv ==
  /\ TypeOK
  /\ OneScript
  /\ OneUploader
  /\ \A r \in Requests : Staged(r) /\ Written(r) /\ InHand(r) /\ Deletes(r)
  /\ \A a \in Atts, r \in Requests : Followed(a, r)
  /\ \A a \in Atts : Content(a)
-----------------------------------------------------------------------------
Same(q) ==
  /\ op'[q] = op[q] /\ pc'[q] = pc[q] /\ todo'[q] = todo[q] /\ at'[q] = at[q]
  /\ saw'[q] = saw[q] /\ writes'[q] = writes[q] /\ Wrote(q)' = Wrote(q) /\ broken'[q] = broken[q]
  /\ oops'[q] = oops[q]

(* What no step takes back: the end of a request, that a deletion was      *)
(* asked for, and an explanation.                                          *)
Lasting(r) ==
  /\ ~ Ended(r)
  /\ \A q \in Requests : pc[q] = "done" => pc'[q] = "done" /\ op'[q] = op[q]
  /\ \A q \in Requests : pc[q] = "failed" => pc'[q] = "failed" /\ op'[q] = op[q]
  /\ \A a \in Atts : ErasedByRequest(a) => ErasedByRequest(a)'
  /\ \A a \in Atts, q \in Requests : Ended(q) /\ Explained(a, q) => Explained(a, q)'

\* Each lemma below has the same steps: the types, that other requests are left
\* alone, what changed for this one, what lasts, and a step for each part of
\* the invariant.
LEMMA Lasts ==
  ASSUME NEW r \in Requests,
         \A q \in Requests : q # r => Same(q),
         ~ Ended(r),
         op[r] = "delete" => op'[r] = "delete" /\ at'[r] = at[r] /\ saw'[r] = saw[r],
         op[r] = "delete" /\ pc[r] # "erase" => pc'[r] # "erase"
  PROVE  Lasting(r)
  <1>1. \A a \in Atts : ErasedByRequest(a) => ErasedByRequest(a)'
    BY DEF Same, ErasedByRequest
  <1>2. \A a \in Atts, q \in Requests : Ended(q) /\ Explained(a, q) => Explained(a, q)'
    BY DEF Same, Explained, Migrates
  <1> QED  BY <1>1, <1>2 DEF Lasting, Same, Ended

LEMMA BeginUploadStep ==
  ASSUME AttachmentsInv, NEW r \in Requests, NEW files \in SUBSET Atts,
           BeginUpload(r, files)
  PROVE  AttachmentsInv'
  <1> USE AttachmentsAssumption
  <1>0. op[r] = "none"
    BY DEF AttachmentsInv, Staged, BeginUpload, Goto, stores
  <1>1. TypeOK'
    BY <1>0 DEF AttachmentsInv, TypeOK, Place, Kind, Fault, Ended, NoWrites,
       Wrote, BeginUpload, Goto, stores
  <1>2. \A q \in Requests : q # r => Same(q)
    BY DEF AttachmentsInv, TypeOK, Wrote, Same, BeginUpload, Goto, stores
  <1>3. /\ pc[r] = "idle" /\ files # {} /\ files \subseteq Fresh \ Creating
        /\ op'[r] = "upload"
        /\ pc'[r] = "ready"
        /\ todo'[r] = files
        /\ UNCHANGED <<at, saw, writes, broken, oops, row, objects, disk>>
        /\ Wrote(r)' = Wrote(r)
    BY <1>0 DEF AttachmentsInv, TypeOK, Wrote, NoWrites, BeginUpload, Goto,
       stores
  <1>4. Lasting(r)
    BY <1>2, <1>3, Lasts DEF AttachmentsInv, Staged, Puts, Ended
  <1>5. OneScript'
    BY <1>2, <1>3, <1>4, <1>0 DEF AttachmentsInv, TypeOK, Same, OneScript,
       Migrates, Ended, Staged
  <1>6. OneUploader'
    <2>1. \A q \in Requests : q # r /\ op'[q] = "upload" /\ ~ Ended(q)'
             => op[q] = "upload" /\ ~ Ended(q) /\ Hands(q)' = Hands(q)
                /\ Hands(q) \intersect files = {}
      BY <1>2, <1>3 DEF Same, Hands, Ended, Fresh, Creating
    <2>2. Hands(r)' = files
      BY <1>3 DEF AttachmentsInv, Staged, Hands, NoWrites
    <2> QED BY <2>1, <2>2 DEF AttachmentsInv, OneUploader
  <1>7. ASSUME NEW q \in Requests PROVE Staged(q)'
    <2>1. CASE q = r
      BY <2>1, <1>3, <1>0 DEF AttachmentsInv, TypeOK, Staged, Puts
    <2>2. CASE q # r
      BY <2>2, <1>2, <1>3 DEF AttachmentsInv, TypeOK, Same, Staged, Puts
    <2> QED BY <2>1, <2>2
  <1>8. ASSUME NEW q \in Requests PROVE Written(q)'
    <2> Written(q) /\ Staged(q) /\ (Ended(q) => Wrote(q) = {})
      BY DEF AttachmentsInv, TypeOK
    <2>1. CASE q = r
      BY <2>1, <1>3, <1>0 DEF Written, Staged, Puts, Ended
    <2>2. CASE q # r
      BY <2>2, <1>2, <1>3 DEF Written, Same, Puts, Ended
    <2> QED BY <2>1, <2>2
  <1>9. ASSUME NEW q \in Requests PROVE InHand(q)'
    <2>1. CASE q = r
      BY <2>1, <1>3, <1>0 DEF AttachmentsInv, TypeOK, Staged, InHand, Hands,
         Migrates, Ended, Fresh
    <2>2. CASE q # r
      BY <2>2, <1>2, <1>3 DEF AttachmentsInv, TypeOK, Same, Staged, InHand,
         Hands, Migrates, Ended, Fresh
    <2> QED BY <2>1, <2>2
  <1>10. ASSUME NEW q \in Requests PROVE Deletes(q)'
    <2> Deletes(q)
      BY DEF AttachmentsInv
    <2>1. CASE q = r
      BY <2>1, <1>3, <1>4, <1>0 DEF AttachmentsInv, Deletes, Puts, Lasting
    <2>2. CASE q # r
      BY <2>2, <1>2, <1>3, <1>4, Deletes(q) DEF Same, Deletes, Puts, Lasting
    <2> QED BY <2>1, <2>2
  <1>11. ASSUME NEW a \in Atts, NEW q \in Requests PROVE Followed(a, q)'
    <2> Followed(a, q)
      BY DEF AttachmentsInv
    <2>1. CASE q = r
      BY <2>1, <1>3, <1>4, <1>0 DEF AttachmentsInv, TypeOK, Followed, Held,
         Staged, Written, Explained, Puts, Ended, Migrates, Lasting
    <2>2. CASE q # r
      BY <2>2, <1>2, <1>3, <1>4, Followed(a, q) DEF Same, Followed, Held,
         Puts, Ended, Lasting
    <2> QED BY <2>1, <2>2
  <1>12. ASSUME NEW a \in Atts PROVE Content(a)'
    <2>1. Content(a)
      BY DEF AttachmentsInv
    <2>2. \A q \in Requests : MovedBy(a, q) => MovedBy(a, q)'
      BY <1>2, <1>3, <1>4, <1>0 DEF AttachmentsInv, Same, MovedBy, Ended,
         Staged, Written, Puts
    <2> QED BY <2>1, <2>2, <1>2, <1>3, <1>4, <1>0 DEF Content, Puts, Lasting
  <1> QED BY <1>1, <1>5, <1>6, <1>7, <1>8, <1>9, <1>10, <1>11, <1>12
      DEF AttachmentsInv

LEMMA BeginMigrationStep ==
  ASSUME AttachmentsInv, NEW r \in Requests, NEW kind \in {"migrate",
           "move"}, BeginMigration(r, kind)
  PROVE  AttachmentsInv'
  <1> USE AttachmentsAssumption
  <1>0. op[r] = "none"
    BY DEF AttachmentsInv, Staged, BeginMigration, Goto, stores
  <1>1. TypeOK'
    BY <1>0 DEF AttachmentsInv, TypeOK, Place, Kind, Fault, Ended, NoWrites,
       Wrote, BeginMigration, Goto, stores
  <1>2. \A q \in Requests : q # r => Same(q)
    BY DEF AttachmentsInv, TypeOK, Wrote, Same, BeginMigration, Goto, stores
  <1>3. /\ pc[r] = "idle" /\ \A q \in Requests : Migrates(q) => Ended(q)
        /\ op'[r] = kind
        /\ pc'[r] = "ready"
        /\ todo'[r] = {a \in Atts : row[a] = "disk"}
        /\ UNCHANGED <<at, saw, writes, broken, oops, row, objects, disk>>
        /\ Wrote(r)' = Wrote(r)
    BY <1>0 DEF AttachmentsInv, TypeOK, Wrote, NoWrites, BeginMigration,
       Goto, stores
  <1>4. Lasting(r)
    BY <1>2, <1>3, Lasts DEF AttachmentsInv, Staged, Puts, Ended
  <1>5. OneScript'
    BY <1>2, <1>3, <1>4, <1>0 DEF AttachmentsInv, TypeOK, Same, OneScript,
       Migrates, Ended, Staged
  <1>6. OneUploader'
    <2>1. \A q \in Requests : op'[q] = "upload" /\ ~ Ended(q)'
             => op[q] = "upload" /\ ~ Ended(q) /\ Hands(q)' \subseteq Hands(q)
      BY <1>2, <1>3, <1>0 DEF AttachmentsInv, Staged, Same, Hands, Ended,
         NoWrites
    <2> QED BY <2>1 DEF AttachmentsInv, OneUploader
  <1>7. ASSUME NEW q \in Requests PROVE Staged(q)'
    <2>1. CASE q = r
      BY <2>1, <1>3, <1>0 DEF AttachmentsInv, TypeOK, Staged, Puts
    <2>2. CASE q # r
      BY <2>2, <1>2, <1>3 DEF AttachmentsInv, TypeOK, Same, Staged, Puts
    <2> QED BY <2>1, <2>2
  <1>8. ASSUME NEW q \in Requests PROVE Written(q)'
    <2> Written(q) /\ Staged(q) /\ (Ended(q) => Wrote(q) = {})
      BY DEF AttachmentsInv, TypeOK
    <2>1. CASE q = r
      BY <2>1, <1>3, <1>0 DEF Written, Staged, Puts, Ended
    <2>2. CASE q # r
      BY <2>2, <1>2, <1>3 DEF Written, Same, Puts, Ended
    <2> QED BY <2>1, <2>2
  <1>9. ASSUME NEW q \in Requests PROVE InHand(q)'
    <2>1. CASE q = r
      BY <2>1, <1>3, <1>0 DEF AttachmentsInv, TypeOK, Staged, InHand, Hands,
         Migrates, Ended
    <2>2. CASE q # r
      BY <2>2, <1>2, <1>3 DEF AttachmentsInv, TypeOK, Same, Staged, InHand,
         Hands, Migrates, Ended
    <2> QED BY <2>1, <2>2
  <1>10. ASSUME NEW q \in Requests PROVE Deletes(q)'
    <2> Deletes(q)
      BY DEF AttachmentsInv
    <2>1. CASE q = r
      BY <2>1, <1>3, <1>4, <1>0 DEF AttachmentsInv, Deletes, Puts, Lasting
    <2>2. CASE q # r
      BY <2>2, <1>2, <1>3, <1>4, Deletes(q) DEF Same, Deletes, Puts, Lasting
    <2> QED BY <2>1, <2>2
  <1>11. ASSUME NEW a \in Atts, NEW q \in Requests PROVE Followed(a, q)'
    <2> Followed(a, q)
      BY DEF AttachmentsInv
    <2>1. CASE q = r
      BY <2>1, <1>3, <1>4, <1>0 DEF AttachmentsInv, TypeOK, Followed, Held,
         Staged, Written, Explained, Puts, Ended, Migrates, Lasting
    <2>2. CASE q # r
      BY <2>2, <1>2, <1>3, <1>4, Followed(a, q) DEF Same, Followed, Held,
         Puts, Ended, Lasting
    <2> QED BY <2>1, <2>2
  <1>12. ASSUME NEW a \in Atts PROVE Content(a)'
    <2>1. Content(a)
      BY DEF AttachmentsInv
    <2>2. \A q \in Requests : MovedBy(a, q) => MovedBy(a, q)'
      BY <1>2, <1>3, <1>4, <1>0 DEF AttachmentsInv, Same, MovedBy, Ended,
         Staged, Written, Puts
    <2> QED BY <2>1, <2>2, <1>2, <1>3, <1>4, <1>0 DEF Content, Puts, Lasting
  <1> QED BY <1>1, <1>5, <1>6, <1>7, <1>8, <1>9, <1>10, <1>11, <1>12
      DEF AttachmentsInv

LEMMA BeginDeleteStep ==
  ASSUME AttachmentsInv, NEW r \in Requests, NEW x \in Atts, BeginDelete(r, x)
  PROVE  AttachmentsInv'
  <1> USE AttachmentsAssumption
  <1>0. op[r] = "none"
    BY DEF AttachmentsInv, Staged, BeginDelete, Goto, stores
  <1>1. TypeOK'
    BY <1>0 DEF AttachmentsInv, TypeOK, Place, Kind, Fault, Ended, NoWrites,
       Wrote, BeginDelete, Goto, stores, Staged
  <1>2. \A q \in Requests : q # r => Same(q)
    BY DEF AttachmentsInv, TypeOK, Wrote, Same, BeginDelete, Goto, stores
  <1>3. /\ pc[r] = "idle" /\ row[x] \notin {"new", "gone"}
        /\ op'[r] = "delete"
        /\ pc'[r] = "erase"
        /\ at'[r] = x
        /\ saw'[r] = row[x]
        /\ UNCHANGED <<todo, writes, broken, oops, row, objects, disk>>
        /\ Wrote(r)' = Wrote(r)
    BY <1>0 DEF AttachmentsInv, TypeOK, Wrote, NoWrites, BeginDelete, Goto,
       stores
  <1>4. Lasting(r)
    BY <1>2, <1>3, Lasts DEF AttachmentsInv, Staged, Puts, Ended
  <1>5. OneScript'
    BY <1>2, <1>3, <1>4, <1>0 DEF AttachmentsInv, TypeOK, Same, OneScript,
       Migrates, Ended, Staged
  <1>6. OneUploader'
    <2>1. \A q \in Requests : op'[q] = "upload" /\ ~ Ended(q)'
             => op[q] = "upload" /\ ~ Ended(q) /\ Hands(q)' \subseteq Hands(q)
      BY <1>2, <1>3, <1>0 DEF AttachmentsInv, Staged, Same, Hands, Ended,
         NoWrites
    <2> QED BY <2>1 DEF AttachmentsInv, OneUploader
  <1>7. ASSUME NEW q \in Requests PROVE Staged(q)'
    <2>1. CASE q = r
      BY <2>1, <1>3, <1>0 DEF AttachmentsInv, TypeOK, Staged, Puts
    <2>2. CASE q # r
      BY <2>2, <1>2, <1>3 DEF AttachmentsInv, TypeOK, Same, Staged, Puts
    <2> QED BY <2>1, <2>2
  <1>8. ASSUME NEW q \in Requests PROVE Written(q)'
    <2> Written(q) /\ Staged(q) /\ (Ended(q) => Wrote(q) = {})
      BY DEF AttachmentsInv, TypeOK
    <2>1. CASE q = r
      BY <2>1, <1>3, <1>0 DEF Written, Staged, Puts, Ended
    <2>2. CASE q # r
      BY <2>2, <1>2, <1>3 DEF Written, Same, Puts, Ended
    <2> QED BY <2>1, <2>2
  <1>9. ASSUME NEW q \in Requests PROVE InHand(q)'
    <2>1. CASE q = r
      BY <2>1, <1>3, <1>0 DEF AttachmentsInv, TypeOK, Staged, InHand, Hands,
         Migrates, Ended
    <2>2. CASE q # r
      BY <2>2, <1>2, <1>3 DEF AttachmentsInv, TypeOK, Same, Staged, InHand,
         Hands, Migrates, Ended
    <2> QED BY <2>1, <2>2
  <1>10. ASSUME NEW q \in Requests PROVE Deletes(q)'
    <2> Deletes(q)
      BY DEF AttachmentsInv
    <2>a. Content(x) /\ row[x] \in Place
      BY DEF AttachmentsInv, TypeOK
    <2>c. \A p \in Requests : pc[p] = "done" => pc'[p] = "done" /\ op'[p] = op[p]
      BY <1>4 DEF Lasting
    <2>b. row[x] \in Requests => Puts(row[x])' /\ pc'[row[x]] = "done"
      BY <2>a, <2>c, <1>3 DEF Content, Puts
    <2>1. CASE q = r
      BY <2>1, <1>3, <1>4, <1>0, <2>a, <2>b DEF Deletes, Place
    <2>2. CASE q # r
      BY <2>2, <1>2, <1>3, <1>4, Deletes(q) DEF Same, Deletes, Puts, Lasting
    <2> QED BY <2>1, <2>2
  <1>11. ASSUME NEW a \in Atts, NEW q \in Requests PROVE Followed(a, q)'
    <2> Followed(a, q)
      BY DEF AttachmentsInv
    <2>1. CASE q = r
      BY <2>1, <1>3, <1>4, <1>0 DEF AttachmentsInv, TypeOK, Followed, Held,
         Staged, Written, Explained, Puts, Ended, Migrates, Lasting
    <2>2. CASE q # r
      BY <2>2, <1>2, <1>3, <1>4, Followed(a, q) DEF Same, Followed, Held,
         Puts, Ended, Lasting
    <2> QED BY <2>1, <2>2
  <1>12. ASSUME NEW a \in Atts PROVE Content(a)'
    <2>1. Content(a)
      BY DEF AttachmentsInv
    <2>2. \A q \in Requests : MovedBy(a, q) => MovedBy(a, q)'
      BY <1>2, <1>3, <1>4, <1>0 DEF AttachmentsInv, Same, MovedBy, Ended,
         Staged, Written, Puts
    <2> QED BY <2>1, <2>2, <1>2, <1>3, <1>4, <1>0 DEF Content, Puts, Lasting
  <1> QED BY <1>1, <1>5, <1>6, <1>7, <1>8, <1>9, <1>10, <1>11, <1>12
      DEF AttachmentsInv

LEMMA SkipStep ==
  ASSUME AttachmentsInv, NEW r \in Requests, NEW x \in Atts, Skip(r, x)
  PROVE  AttachmentsInv'
  <1> USE AttachmentsAssumption
  <1>0. Puts(r)
    BY DEF AttachmentsInv, TypeOK, Kind, Staged, Puts, Skip, Taken, stores
  <1>1. TypeOK'
    BY <1>0 DEF AttachmentsInv, TypeOK, Place, Kind, Fault, Ended, NoWrites,
       Wrote, Skip, Taken, stores
  <1>2. \A q \in Requests : q # r => Same(q)
    BY DEF AttachmentsInv, TypeOK, Wrote, Same, Skip, Taken, stores
  <1>3. /\ pc[r] = "ready" /\ x \in todo[r]
        /\ todo'[r] = todo[r] \ {x}
        /\ UNCHANGED <<op, pc, at, saw, writes, broken, oops, row, objects, disk>>
        /\ Wrote(r)' = Wrote(r)
    BY <1>0 DEF AttachmentsInv, TypeOK, Wrote, NoWrites, Skip, Taken, stores
  <1>4. Lasting(r)
    BY <1>2, <1>3, Lasts DEF AttachmentsInv, Staged, Puts, Ended
  <1>5. OneScript'
    BY <1>2, <1>3, <1>4, <1>0 DEF AttachmentsInv, TypeOK, Same, OneScript,
       Migrates, Ended, Staged
  <1>6. OneUploader'
    <2>1. \A q \in Requests : op'[q] = "upload" /\ ~ Ended(q)'
             => op[q] = "upload" /\ ~ Ended(q) /\ Hands(q)' \subseteq Hands(q)
      BY <1>2, <1>3, <1>0 DEF AttachmentsInv, Staged, Same, Hands, Ended,
         NoWrites
    <2> QED BY <2>1 DEF AttachmentsInv, OneUploader
  <1>7. ASSUME NEW q \in Requests PROVE Staged(q)'
    <2>1. CASE q = r
      BY <2>1, <1>3, <1>0 DEF AttachmentsInv, TypeOK, Staged, Puts
    <2>2. CASE q # r
      BY <2>2, <1>2, <1>3 DEF AttachmentsInv, TypeOK, Same, Staged, Puts
    <2> QED BY <2>1, <2>2
  <1>8. ASSUME NEW q \in Requests PROVE Written(q)'
    <2> Written(q) /\ Staged(q) /\ (Ended(q) => Wrote(q) = {})
      BY DEF AttachmentsInv, TypeOK
    <2>1. CASE q = r
      BY <2>1, <1>3, <1>0 DEF Written, Staged, Puts, Ended
    <2>2. CASE q # r
      BY <2>2, <1>2, <1>3 DEF Written, Same, Puts, Ended
    <2> QED BY <2>1, <2>2
  <1>9. ASSUME NEW q \in Requests PROVE InHand(q)'
    <2>1. CASE q = r
      BY <2>1, <1>3, <1>0 DEF AttachmentsInv, TypeOK, Staged, InHand, Hands,
         Migrates, Ended
    <2>2. CASE q # r
      BY <2>2, <1>2, <1>3 DEF AttachmentsInv, TypeOK, Same, Staged, InHand,
         Hands, Migrates, Ended
    <2> QED BY <2>1, <2>2
  <1>10. ASSUME NEW q \in Requests PROVE Deletes(q)'
    <2> Deletes(q)
      BY DEF AttachmentsInv
    <2>1. CASE q = r
      BY <2>1, <1>3, <1>4, <1>0 DEF Puts, Deletes
    <2>2. CASE q # r
      BY <2>2, <1>2, <1>3, <1>4, Deletes(q) DEF Same, Deletes, Puts, Lasting
    <2> QED BY <2>1, <2>2
  <1>11. ASSUME NEW a \in Atts, NEW q \in Requests PROVE Followed(a, q)'
    <2> Followed(a, q)
      BY DEF AttachmentsInv
    <2>1. CASE q = r
      BY <2>1, <1>3, <1>4, <1>0 DEF AttachmentsInv, Followed, Held, Staged,
         Written, Explained, Puts, Ended, Migrates, Lasting
    <2>2. CASE q # r
      BY <2>2, <1>2, <1>3, <1>4, Followed(a, q) DEF Same, Followed, Held,
         Puts, Ended, Lasting
    <2> QED BY <2>1, <2>2
  <1>12. ASSUME NEW a \in Atts PROVE Content(a)'
    <2>1. Content(a)
      BY DEF AttachmentsInv
    <2>2. \A q \in Requests : MovedBy(a, q) => MovedBy(a, q)'
      BY <1>2, <1>3, <1>4, <1>0 DEF AttachmentsInv, Same, MovedBy, Ended,
         Staged, Written, Puts
    <2> QED BY <2>1, <2>2, <1>2, <1>3, <1>4, <1>0 DEF Content, Puts, Lasting
  <1> QED BY <1>1, <1>5, <1>6, <1>7, <1>8, <1>9, <1>10, <1>11, <1>12
      DEF AttachmentsInv

LEMMA PutStep ==
  ASSUME AttachmentsInv, NEW r \in Requests, NEW x \in Atts, Put(r, x)
  PROVE  AttachmentsInv'
  <1> USE AttachmentsAssumption
  <1>0. Puts(r)
    BY DEF AttachmentsInv, TypeOK, Kind, Staged, Puts, Put, Taken, Goto
  <1>1. TypeOK'
    BY <1>0 DEF AttachmentsInv, TypeOK, Place, Kind, Fault, Ended, NoWrites,
       Wrote, Put, Taken, Goto
  <1>2. \A q \in Requests : q # r => Same(q)
    BY DEF AttachmentsInv, TypeOK, Wrote, Same, Put, Taken, Goto
  <1>3. /\ pc[r] = "ready" /\ ~ broken[r] /\ x \in todo[r]
        /\ pc'[r] = "flush"
        /\ todo'[r] = todo[r] \ {x}
        /\ at'[r] = x
        /\ objects' = objects \union {<<x, r>>}
        /\ UNCHANGED <<op, saw, writes, broken, oops, row, disk>>
        /\ Wrote(r)' = Wrote(r)
    BY <1>0 DEF AttachmentsInv, TypeOK, Wrote, NoWrites, Put, Taken, Goto
  <1>4. Lasting(r)
    BY <1>2, <1>3, Lasts DEF AttachmentsInv, Staged, Puts, Ended
  <1>5. OneScript'
    BY <1>2, <1>3, <1>4, <1>0 DEF AttachmentsInv, TypeOK, Same, OneScript,
       Migrates, Ended, Staged
  <1>6. OneUploader'
    <2>1. \A q \in Requests : op'[q] = "upload" /\ ~ Ended(q)'
             => op[q] = "upload" /\ ~ Ended(q) /\ Hands(q)' \subseteq Hands(q)
      BY <1>2, <1>3, <1>0 DEF AttachmentsInv, Staged, Same, Hands, Ended,
         NoWrites
    <2> QED BY <2>1 DEF AttachmentsInv, OneUploader
  <1>7. ASSUME NEW q \in Requests PROVE Staged(q)'
    <2>1. CASE q = r
      BY <2>1, <1>3, <1>0 DEF AttachmentsInv, TypeOK, Staged, Puts
    <2>2. CASE q # r
      BY <2>2, <1>2, <1>3 DEF AttachmentsInv, TypeOK, Same, Staged, Puts
    <2> QED BY <2>1, <2>2
  <1>8. ASSUME NEW q \in Requests PROVE Written(q)'
    <2> Written(q) /\ Staged(q) /\ (Ended(q) => Wrote(q) = {})
      BY DEF AttachmentsInv, TypeOK
    <2>1. CASE q = r
      BY <2>1, <1>3, <1>0 DEF Written, Staged, Puts, Ended
    <2>2. CASE q # r
      BY <2>2, <1>2, <1>3 DEF Written, Same, Puts, Ended
    <2> QED BY <2>1, <2>2
  <1>9. ASSUME NEW q \in Requests PROVE InHand(q)'
    <2>1. CASE q = r
      BY <2>1, <1>3, <1>0 DEF AttachmentsInv, TypeOK, Staged, InHand, Hands,
         Migrates, Ended
    <2>2. CASE q # r
      BY <2>2, <1>2, <1>3 DEF AttachmentsInv, TypeOK, Same, Staged, InHand,
         Hands, Migrates, Ended
    <2> QED BY <2>1, <2>2
  <1>10. ASSUME NEW q \in Requests PROVE Deletes(q)'
    <2> Deletes(q)
      BY DEF AttachmentsInv
    <2>1. CASE q = r
      BY <2>1, <1>3, <1>4, <1>0 DEF Puts, Deletes
    <2>2. CASE q # r
      BY <2>2, <1>2, <1>3, <1>4, Deletes(q) DEF Same, Deletes, Puts, Lasting
    <2> QED BY <2>1, <2>2
  <1>11. ASSUME NEW a \in Atts, NEW q \in Requests PROVE Followed(a, q)'
    <2> Followed(a, q)
      BY DEF AttachmentsInv
    <2>1. CASE q = r
      BY <2>1, <1>3, <1>4, <1>0 DEF AttachmentsInv, Followed, Held, Staged,
         Written, Explained, Puts, Ended, Migrates, Lasting
    <2>2. CASE q # r
      BY <2>2, <1>2, <1>3, <1>4, Followed(a, q) DEF Same, Followed, Held,
         Puts, Ended, Lasting
    <2> QED BY <2>1, <2>2
  <1>12. ASSUME NEW a \in Atts PROVE Content(a)'
    <2>1. Content(a)
      BY DEF AttachmentsInv
    <2>2. \A q \in Requests : MovedBy(a, q) => MovedBy(a, q)'
      BY <1>2, <1>3, <1>4, <1>0 DEF AttachmentsInv, Same, MovedBy, Ended,
         Staged, Written, Puts
    <2> QED BY <2>1, <2>2, <1>2, <1>3, <1>4, <1>0 DEF Content, Puts, Lasting
  <1> QED BY <1>1, <1>5, <1>6, <1>7, <1>8, <1>9, <1>10, <1>11, <1>12
      DEF AttachmentsInv

LEMMA PutFailsStep ==
  ASSUME AttachmentsInv, NEW r \in Requests, NEW x \in Atts, PutFails(r, x)
  PROVE  AttachmentsInv'
  <1> USE AttachmentsAssumption
  <1>0. Puts(r)
    BY DEF AttachmentsInv, TypeOK, Kind, Staged, Puts, PutFails, Taken, Failing
  <1>1. TypeOK'
    BY <1>0 DEF AttachmentsInv, TypeOK, Place, Kind, Fault, Ended, NoWrites,
       Wrote, PutFails, Taken, Failing
  <1>2. \A q \in Requests : q # r => Same(q)
    BY DEF AttachmentsInv, TypeOK, Wrote, Same, PutFails, Taken, Failing
  <1>3. /\ pc[r] = "ready" /\ ~ broken[r] /\ x \in todo[r]
        /\ todo'[r] = todo[r] \ {x}
        /\ at'[r] = x
        /\ oops'[r] = oops[r] \union {"put"}
        /\ objects' \subseteq objects \union {<<x, r>>}
        /\ objects \subseteq objects'
        /\ UNCHANGED <<op, pc, saw, writes, broken, row, disk>>
        /\ Wrote(r)' = Wrote(r)
    BY <1>0 DEF AttachmentsInv, TypeOK, Wrote, NoWrites, PutFails, Taken,
       Failing
  <1>4. Lasting(r)
    BY <1>2, <1>3, Lasts DEF AttachmentsInv, Staged, Puts, Ended
  <1>5. OneScript'
    BY <1>2, <1>3, <1>4, <1>0 DEF AttachmentsInv, TypeOK, Same, OneScript,
       Migrates, Ended, Staged
  <1>6. OneUploader'
    <2>1. \A q \in Requests : op'[q] = "upload" /\ ~ Ended(q)'
             => op[q] = "upload" /\ ~ Ended(q) /\ Hands(q)' \subseteq Hands(q)
      BY <1>2, <1>3, <1>0 DEF AttachmentsInv, Staged, Same, Hands, Ended,
         NoWrites
    <2> QED BY <2>1 DEF AttachmentsInv, OneUploader
  <1>7. ASSUME NEW q \in Requests PROVE Staged(q)'
    <2>1. CASE q = r
      BY <2>1, <1>3, <1>0 DEF AttachmentsInv, TypeOK, Staged, Puts
    <2>2. CASE q # r
      BY <2>2, <1>2, <1>3 DEF AttachmentsInv, TypeOK, Same, Staged, Puts
    <2> QED BY <2>1, <2>2
  <1>8. ASSUME NEW q \in Requests PROVE Written(q)'
    <2> Written(q) /\ Staged(q) /\ (Ended(q) => Wrote(q) = {})
      BY DEF AttachmentsInv, TypeOK
    <2>1. CASE q = r
      BY <2>1, <1>3, <1>0 DEF Written, Staged, Puts, Ended
    <2>2. CASE q # r
      BY <2>2, <1>2, <1>3 DEF Written, Same, Puts, Ended
    <2> QED BY <2>1, <2>2
  <1>9. ASSUME NEW q \in Requests PROVE InHand(q)'
    <2>1. CASE q = r
      BY <2>1, <1>3, <1>0 DEF AttachmentsInv, TypeOK, Staged, InHand, Hands,
         Migrates, Ended
    <2>2. CASE q # r
      BY <2>2, <1>2, <1>3 DEF AttachmentsInv, TypeOK, Same, Staged, InHand,
         Hands, Migrates, Ended
    <2> QED BY <2>1, <2>2
  <1>10. ASSUME NEW q \in Requests PROVE Deletes(q)'
    <2> Deletes(q)
      BY DEF AttachmentsInv
    <2>1. CASE q = r
      BY <2>1, <1>3, <1>4, <1>0 DEF Puts, Deletes
    <2>2. CASE q # r
      BY <2>2, <1>2, <1>3, <1>4, Deletes(q) DEF Same, Deletes, Puts, Lasting
    <2> QED BY <2>1, <2>2
  <1>11. ASSUME NEW a \in Atts, NEW q \in Requests PROVE Followed(a, q)'
    <2> Followed(a, q)
      BY DEF AttachmentsInv
    <2>1. CASE q = r
      BY <2>1, <1>3, <1>4, <1>0 DEF AttachmentsInv, Followed, Held, Staged,
         Written, Explained, Puts, Ended, Migrates, Lasting
    <2>2. CASE q # r
      BY <2>2, <1>2, <1>3, <1>4, Followed(a, q) DEF Same, Followed, Held,
         Puts, Ended, Lasting
    <2> QED BY <2>1, <2>2
  <1>12. ASSUME NEW a \in Atts PROVE Content(a)'
    <2>1. Content(a)
      BY DEF AttachmentsInv
    <2>2. \A q \in Requests : MovedBy(a, q) => MovedBy(a, q)'
      BY <1>2, <1>3, <1>4, <1>0 DEF AttachmentsInv, Same, MovedBy, Ended,
         Staged, Written, Puts
    <2> QED BY <2>1, <2>2, <1>2, <1>3, <1>4, <1>0 DEF Content, Puts, Lasting
  <1> QED BY <1>1, <1>5, <1>6, <1>7, <1>8, <1>9, <1>10, <1>11, <1>12
      DEF AttachmentsInv

LEMMA FlushStep ==
  ASSUME AttachmentsInv, NEW r \in Requests, Flush(r)
  PROVE  AttachmentsInv'
  <1> USE AttachmentsAssumption
  <1>0. Puts(r)
    BY DEF AttachmentsInv, TypeOK, Kind, Staged, Puts, Flush, Goto, stores,
       RemovesLocal
  <1>t. at[r] \in Atts
    BY DEF AttachmentsInv, Staged, Flush, Goto, stores, RemovesLocal
  <1>1. TypeOK'
    BY <1>0, <1>t DEF AttachmentsInv, TypeOK, Place, Kind, Fault, Ended,
       NoWrites, Wrote, Flush, Goto, stores, RemovesLocal, Staged
  <1>2. \A q \in Requests : q # r => Same(q)
    BY DEF AttachmentsInv, TypeOK, Wrote, Same, Flush, Goto, stores,
       RemovesLocal
  <1>3. /\ pc[r] = "flush" /\ row[at[r]] # "gone"
        /\ pc'[r] = IF op[r] = "move" THEN "unlink" ELSE "ready"
        /\ Wrote(r)' = Wrote(r) \union {at[r]} /\ writes'[r][at[r]] = r /\ \A a \in Atts : a # at[r] => writes'[r][a] = writes[r][a]
        /\ UNCHANGED <<op, todo, at, saw, broken, oops, row, objects, disk>>
    BY <1>0, <1>t DEF AttachmentsInv, TypeOK, Wrote, NoWrites, Flush, Goto,
       stores, RemovesLocal, Staged
  <1>4. Lasting(r)
    BY <1>2, <1>3, Lasts DEF AttachmentsInv, Staged, Puts, Ended
  <1>5. OneScript'
    BY <1>2, <1>3, <1>4, <1>0, <1>t DEF AttachmentsInv, TypeOK, Same,
       OneScript, Migrates, Ended, Staged
  <1>6. OneUploader'
    <2>1. \A q \in Requests : op'[q] = "upload" /\ ~ Ended(q)'
             => op[q] = "upload" /\ ~ Ended(q) /\ Hands(q)' \subseteq Hands(q)
      BY <1>2, <1>3, <1>0, <1>t DEF AttachmentsInv, Staged, Same, Hands,
         Ended, NoWrites
    <2> QED BY <2>1 DEF AttachmentsInv, OneUploader
  <1>7. ASSUME NEW q \in Requests PROVE Staged(q)'
    <2>1. CASE q = r
      BY <2>1, <1>3, <1>0, <1>t DEF AttachmentsInv, TypeOK, Staged, Puts
    <2>2. CASE q # r
      BY <2>2, <1>2, <1>3 DEF AttachmentsInv, TypeOK, Same, Staged, Puts
    <2> QED BY <2>1, <2>2
  <1>8. ASSUME NEW q \in Requests PROVE Written(q)'
    <2> Written(q) /\ Staged(q) /\ (Ended(q) => Wrote(q) = {})
      BY DEF AttachmentsInv, TypeOK
    <2>a. ASSUME NEW a \in Wrote(r)' PROVE q = r => writes'[r][a] = r /\ <<a, r>> \in objects'
      <3>1. CASE a = at[r]
        BY <3>1, <1>3 DEF Written
      <3>2. CASE a # at[r]
        BY <3>2, <2>a, <1>3, <1>0 DEF Written, Wrote
      <3> QED BY <3>1, <3>2
    <2>1. CASE q = r
      BY <2>1, <1>3, <1>0, <1>t, <2>a DEF Written, Staged, Puts, Ended
    <2>2. CASE q # r
      BY <2>2, <1>2, <1>3 DEF Written, Same, Puts, Ended
    <2> QED BY <2>1, <2>2
  <1>9. ASSUME NEW q \in Requests PROVE InHand(q)'
    <2>1. CASE q = r
      BY <2>1, <1>3, <1>0, <1>t DEF AttachmentsInv, TypeOK, Staged, InHand,
         Hands, Migrates, Ended
    <2>2. CASE q # r
      BY <2>2, <1>2, <1>3 DEF AttachmentsInv, TypeOK, Same, Staged, InHand,
         Hands, Migrates, Ended
    <2> QED BY <2>1, <2>2
  <1>10. ASSUME NEW q \in Requests PROVE Deletes(q)'
    <2> Deletes(q)
      BY DEF AttachmentsInv
    <2>1. CASE q = r
      BY <2>1, <1>3, <1>4, <1>0, <1>t DEF Puts, Deletes
    <2>2. CASE q # r
      BY <2>2, <1>2, <1>3, <1>4, Deletes(q) DEF Same, Deletes, Puts, Lasting
    <2> QED BY <2>1, <2>2
  <1>11. ASSUME NEW a \in Atts, NEW q \in Requests PROVE Followed(a, q)'
    <2> Followed(a, q)
      BY DEF AttachmentsInv
    <2>1. CASE q = r
      BY <2>1, <1>3, <1>4, <1>0, <1>t DEF AttachmentsInv, Followed, Held,
         Staged, Written, Explained, Puts, Ended, Migrates, Lasting
    <2>2. CASE q # r
      BY <2>2, <1>2, <1>3, <1>4, Followed(a, q) DEF Same, Followed, Held,
         Puts, Ended, Lasting
    <2> QED BY <2>1, <2>2
  <1>12. ASSUME NEW a \in Atts PROVE Content(a)'
    <2>1. Content(a)
      BY DEF AttachmentsInv
    <2>2. \A q \in Requests : MovedBy(a, q) => MovedBy(a, q)'
      BY <1>2, <1>3, <1>4, <1>0, <1>t DEF AttachmentsInv, Same, MovedBy,
         Ended, Staged, Written, Puts
    <2> QED BY <2>1, <2>2, <1>2, <1>3, <1>4, <1>0, <1>t DEF Content, Puts,
        Lasting
  <1> QED BY <1>1, <1>5, <1>6, <1>7, <1>8, <1>9, <1>10, <1>11, <1>12
      DEF AttachmentsInv

LEMMA FlushFailsStep ==
  ASSUME AttachmentsInv, NEW r \in Requests, ~ Migrates(r), FlushFails(r)
  PROVE  AttachmentsInv'
  <1> USE AttachmentsAssumption
  <1>0. Puts(r)
    BY DEF AttachmentsInv, TypeOK, Kind, Staged, Puts, FlushFails, Failing,
       Goto
  <1>u. op[r] = "upload"
    BY <1>0 DEF Puts, Migrates
  <1>1. TypeOK'
    <2>1. /\ row' \in [Atts -> Place] /\ objects' \subseteq Atts \X Requests
          /\ disk' \subseteq Legacy /\ UNCHANGED <<op, todo, at, saw>>
      BY DEF AttachmentsInv, TypeOK, FlushFails
    <2>2. /\ pc' = [pc EXCEPT ![r] = "clean"] /\ broken' = [broken EXCEPT ![r] = TRUE]
          /\ oops' = [oops EXCEPT ![r] = @ \union {"flush"}]
          /\ writes' = [writes EXCEPT ![r] = NoWrites]
      BY DEF FlushFails, Failing, Goto
    <2>3. /\ pc' \in [Requests -> {"idle", "ready", "flush", "clean", "unlink",
                         "erase", "drop", "done", "failed"}]
          /\ broken' \in [Requests -> BOOLEAN] /\ oops' \in [Requests -> SUBSET Fault]
      BY <2>2 DEF AttachmentsInv, TypeOK, Fault
    <2>4. writes' \in [Requests -> [Atts -> Place \union {"kept"}]]
      BY <2>2 DEF AttachmentsInv, TypeOK, NoWrites
    <2>5. \A q \in Requests : Ended(q)' => Wrote(q)' = {}
      BY <2>2 DEF AttachmentsInv, TypeOK, Ended, Wrote
    <2> QED BY <2>1, <2>3, <2>4, <2>5 DEF AttachmentsInv, TypeOK
  <1>2. \A q \in Requests : q # r => Same(q)
    BY DEF AttachmentsInv, TypeOK, Wrote, Same, FlushFails, Failing, Goto
  <1>3. /\ pc[r] = "flush"
        /\ pc'[r] = "clean"
        /\ Wrote(r)' = {}
        /\ broken'[r] = TRUE
        /\ oops'[r] = oops[r] \union {"flush"}
        /\ UNCHANGED <<op, todo, at, saw, row, objects, disk>>
    BY <1>0, <1>u DEF AttachmentsInv, TypeOK, Wrote, NoWrites, FlushFails,
       Failing, Goto
  <1>4. Lasting(r)
    BY <1>2, <1>3, Lasts DEF AttachmentsInv, Staged, Puts, Ended
  <1>5. OneScript'
    BY <1>2, <1>3, <1>4, <1>0, <1>u DEF AttachmentsInv, TypeOK, Same,
       OneScript, Migrates, Ended, Staged
  <1>6. OneUploader'
    <2>1. \A q \in Requests : op'[q] = "upload" /\ ~ Ended(q)'
             => op[q] = "upload" /\ ~ Ended(q) /\ Hands(q)' \subseteq Hands(q)
      BY <1>2, <1>3, <1>0, <1>u DEF AttachmentsInv, Staged, Same, Hands,
         Ended, NoWrites
    <2> QED BY <2>1 DEF AttachmentsInv, OneUploader
  <1>7. ASSUME NEW q \in Requests PROVE Staged(q)'
    <2>1. CASE q = r
      BY <2>1, <1>3, <1>0, <1>u DEF AttachmentsInv, TypeOK, Staged, Puts
    <2>2. CASE q # r
      BY <2>2, <1>2, <1>3 DEF AttachmentsInv, TypeOK, Same, Staged, Puts
    <2> QED BY <2>1, <2>2
  <1>8. ASSUME NEW q \in Requests PROVE Written(q)'
    <2> Written(q) /\ Staged(q) /\ (Ended(q) => Wrote(q) = {})
      BY DEF AttachmentsInv, TypeOK
    <2>1. CASE q = r
      BY <2>1, <1>3, <1>0, <1>u DEF Written, Staged, Puts, Ended
    <2>2. CASE q # r
      BY <2>2, <1>2, <1>3 DEF Written, Same, Puts, Ended
    <2> QED BY <2>1, <2>2
  <1>9. ASSUME NEW q \in Requests PROVE InHand(q)'
    <2>1. CASE q = r
      BY <2>1, <1>3, <1>0, <1>u DEF AttachmentsInv, TypeOK, Staged, InHand,
         Hands, Migrates, Ended
    <2>2. CASE q # r
      BY <2>2, <1>2, <1>3 DEF AttachmentsInv, TypeOK, Same, Staged, InHand,
         Hands, Migrates, Ended
    <2> QED BY <2>1, <2>2
  <1>10. ASSUME NEW q \in Requests PROVE Deletes(q)'
    <2> Deletes(q)
      BY DEF AttachmentsInv
    <2>1. CASE q = r
      BY <2>1, <1>3, <1>4, <1>0, <1>u DEF Puts, Deletes
    <2>2. CASE q # r
      BY <2>2, <1>2, <1>3, <1>4, Deletes(q) DEF Same, Deletes, Puts, Lasting
    <2> QED BY <2>1, <2>2
  <1>11. ASSUME NEW a \in Atts, NEW q \in Requests PROVE Followed(a, q)'
    <2> Followed(a, q)
      BY DEF AttachmentsInv
    <2>1. CASE q = r
      BY <2>1, <1>3, <1>4, <1>0, <1>u DEF AttachmentsInv, Followed, Held,
         Staged, Written, Explained, Puts, Ended, Migrates, Lasting
    <2>2. CASE q # r
      BY <2>2, <1>2, <1>3, <1>4, Followed(a, q) DEF Same, Followed, Held,
         Puts, Ended, Lasting
    <2> QED BY <2>1, <2>2
  <1>12. ASSUME NEW a \in Atts PROVE Content(a)'
    <2>1. Content(a)
      BY DEF AttachmentsInv
    <2>2. \A q \in Requests : MovedBy(a, q) => MovedBy(a, q)'
      BY <1>2, <1>3, <1>4, <1>0, <1>u DEF AttachmentsInv, Same, MovedBy,
         Ended, Staged, Written, Puts
    <2> QED BY <2>1, <2>2, <1>2, <1>3, <1>4, <1>0, <1>u DEF Content, Puts,
        Lasting
  <1> QED BY <1>1, <1>5, <1>6, <1>7, <1>8, <1>9, <1>10, <1>11, <1>12
      DEF AttachmentsInv

LEMMA CleanStep ==
  ASSUME AttachmentsInv, NEW r \in Requests, Clean(r)
  PROVE  AttachmentsInv'
  <1> USE AttachmentsAssumption
  <1>0. Puts(r)
    BY DEF AttachmentsInv, TypeOK, Kind, Staged, Puts, Clean, Cleaned, Goto
  <1>t. at[r] \in Atts
    BY DEF AttachmentsInv, Staged, Clean, Cleaned, Goto
  <1>1. TypeOK'
    BY <1>0, <1>t DEF AttachmentsInv, TypeOK, Place, Kind, Fault, Ended,
       NoWrites, Wrote, Clean, Cleaned, Goto, Staged
  <1>2. \A q \in Requests : q # r => Same(q)
    BY DEF AttachmentsInv, TypeOK, Wrote, Same, Clean, Cleaned, Goto
  <1>3. /\ pc[r] = "clean"
        /\ pc'[r] = "ready"
        /\ objects' = objects \ {<<at[r], r>>}
        /\ UNCHANGED <<op, todo, at, saw, writes, broken, oops, row, disk>>
        /\ Wrote(r)' = Wrote(r)
    BY <1>0, <1>t DEF AttachmentsInv, TypeOK, Wrote, NoWrites, Clean,
       Cleaned, Goto
  <1>4. Lasting(r)
    BY <1>2, <1>3, Lasts DEF AttachmentsInv, Staged, Puts, Ended
  <1>5. OneScript'
    BY <1>2, <1>3, <1>4, <1>0, <1>t DEF AttachmentsInv, TypeOK, Same,
       OneScript, Migrates, Ended, Staged
  <1>6. OneUploader'
    <2>1. \A q \in Requests : op'[q] = "upload" /\ ~ Ended(q)'
             => op[q] = "upload" /\ ~ Ended(q) /\ Hands(q)' \subseteq Hands(q)
      BY <1>2, <1>3, <1>0, <1>t DEF AttachmentsInv, Staged, Same, Hands,
         Ended, NoWrites
    <2> QED BY <2>1 DEF AttachmentsInv, OneUploader
  <1>7. ASSUME NEW q \in Requests PROVE Staged(q)'
    <2>1. CASE q = r
      BY <2>1, <1>3, <1>0, <1>t DEF AttachmentsInv, TypeOK, Staged, Puts
    <2>2. CASE q # r
      BY <2>2, <1>2, <1>3 DEF AttachmentsInv, TypeOK, Same, Staged, Puts
    <2> QED BY <2>1, <2>2
  <1>8. ASSUME NEW q \in Requests PROVE Written(q)'
    <2> Written(q) /\ Staged(q) /\ (Ended(q) => Wrote(q) = {})
      BY DEF AttachmentsInv, TypeOK
    <2>1. CASE q = r
      BY <2>1, <1>3, <1>0, <1>t DEF Written, Staged, Puts, Ended
    <2>2. CASE q # r
      BY <2>2, <1>2, <1>3 DEF Written, Same, Puts, Ended
    <2> QED BY <2>1, <2>2
  <1>9. ASSUME NEW q \in Requests PROVE InHand(q)'
    <2>1. CASE q = r
      BY <2>1, <1>3, <1>0, <1>t DEF AttachmentsInv, TypeOK, Staged, InHand,
         Hands, Migrates, Ended
    <2>2. CASE q # r
      BY <2>2, <1>2, <1>3 DEF AttachmentsInv, TypeOK, Same, Staged, InHand,
         Hands, Migrates, Ended
    <2> QED BY <2>1, <2>2
  <1>10. ASSUME NEW q \in Requests PROVE Deletes(q)'
    <2> Deletes(q)
      BY DEF AttachmentsInv
    <2>1. CASE q = r
      BY <2>1, <1>3, <1>4, <1>0, <1>t DEF Puts, Deletes
    <2>2. CASE q # r
      BY <2>2, <1>2, <1>3, <1>4, Deletes(q) DEF Same, Deletes, Puts, Lasting
    <2> QED BY <2>1, <2>2
  <1>11. ASSUME NEW a \in Atts, NEW q \in Requests PROVE Followed(a, q)'
    <2> Followed(a, q)
      BY DEF AttachmentsInv
    <2>1. CASE q = r
      BY <2>1, <1>3, <1>4, <1>0, <1>t DEF AttachmentsInv, Followed, Held,
         Staged, Written, Explained, Puts, Ended, Migrates, Lasting
    <2>2. CASE q # r
      BY <2>2, <1>2, <1>3, <1>4, Followed(a, q) DEF Same, Followed, Held,
         Puts, Ended, Lasting
    <2> QED BY <2>1, <2>2
  <1>12. ASSUME NEW a \in Atts PROVE Content(a)'
    <2>1. Content(a)
      BY DEF AttachmentsInv
    <2>2. \A q \in Requests : MovedBy(a, q) => MovedBy(a, q)'
      BY <1>2, <1>3, <1>4, <1>0, <1>t DEF AttachmentsInv, Same, MovedBy,
         Ended, Staged, Written, Puts
    <2> QED BY <2>1, <2>2, <1>2, <1>3, <1>4, <1>0, <1>t DEF Content, Puts,
        Lasting
  <1> QED BY <1>1, <1>5, <1>6, <1>7, <1>8, <1>9, <1>10, <1>11, <1>12
      DEF AttachmentsInv

LEMMA CleanFailsStep ==
  ASSUME AttachmentsInv, NEW r \in Requests, CleanFails(r)
  PROVE  AttachmentsInv'
  <1> USE AttachmentsAssumption
  <1>0. Puts(r)
    BY DEF AttachmentsInv, TypeOK, Kind, Staged, Puts, CleanFails, Failing,
       Goto, stores
  <1>1. TypeOK'
    BY <1>0 DEF AttachmentsInv, TypeOK, Place, Kind, Fault, Ended, NoWrites,
       Wrote, CleanFails, Failing, Goto, stores
  <1>2. \A q \in Requests : q # r => Same(q)
    BY DEF AttachmentsInv, TypeOK, Wrote, Same, CleanFails, Failing, Goto,
       stores
  <1>3. /\ pc[r] = "clean"
        /\ pc'[r] = "ready"
        /\ oops'[r] = oops[r] \union {"clean"}
        /\ UNCHANGED <<op, todo, at, saw, writes, broken, row, objects, disk>>
        /\ Wrote(r)' = Wrote(r)
    BY <1>0 DEF AttachmentsInv, TypeOK, Wrote, NoWrites, CleanFails, Failing,
       Goto, stores
  <1>4. Lasting(r)
    BY <1>2, <1>3, Lasts DEF AttachmentsInv, Staged, Puts, Ended
  <1>5. OneScript'
    BY <1>2, <1>3, <1>4, <1>0 DEF AttachmentsInv, TypeOK, Same, OneScript,
       Migrates, Ended, Staged
  <1>6. OneUploader'
    <2>1. \A q \in Requests : op'[q] = "upload" /\ ~ Ended(q)'
             => op[q] = "upload" /\ ~ Ended(q) /\ Hands(q)' \subseteq Hands(q)
      BY <1>2, <1>3, <1>0 DEF AttachmentsInv, Staged, Same, Hands, Ended,
         NoWrites
    <2> QED BY <2>1 DEF AttachmentsInv, OneUploader
  <1>7. ASSUME NEW q \in Requests PROVE Staged(q)'
    <2>1. CASE q = r
      BY <2>1, <1>3, <1>0 DEF AttachmentsInv, TypeOK, Staged, Puts
    <2>2. CASE q # r
      BY <2>2, <1>2, <1>3 DEF AttachmentsInv, TypeOK, Same, Staged, Puts
    <2> QED BY <2>1, <2>2
  <1>8. ASSUME NEW q \in Requests PROVE Written(q)'
    <2> Written(q) /\ Staged(q) /\ (Ended(q) => Wrote(q) = {})
      BY DEF AttachmentsInv, TypeOK
    <2>1. CASE q = r
      BY <2>1, <1>3, <1>0 DEF Written, Staged, Puts, Ended
    <2>2. CASE q # r
      BY <2>2, <1>2, <1>3 DEF Written, Same, Puts, Ended
    <2> QED BY <2>1, <2>2
  <1>9. ASSUME NEW q \in Requests PROVE InHand(q)'
    <2>1. CASE q = r
      BY <2>1, <1>3, <1>0 DEF AttachmentsInv, TypeOK, Staged, InHand, Hands,
         Migrates, Ended
    <2>2. CASE q # r
      BY <2>2, <1>2, <1>3 DEF AttachmentsInv, TypeOK, Same, Staged, InHand,
         Hands, Migrates, Ended
    <2> QED BY <2>1, <2>2
  <1>10. ASSUME NEW q \in Requests PROVE Deletes(q)'
    <2> Deletes(q)
      BY DEF AttachmentsInv
    <2>1. CASE q = r
      BY <2>1, <1>3, <1>4, <1>0 DEF Puts, Deletes
    <2>2. CASE q # r
      BY <2>2, <1>2, <1>3, <1>4, Deletes(q) DEF Same, Deletes, Puts, Lasting
    <2> QED BY <2>1, <2>2
  <1>11. ASSUME NEW a \in Atts, NEW q \in Requests PROVE Followed(a, q)'
    <2> Followed(a, q)
      BY DEF AttachmentsInv
    <2>1. CASE q = r
      BY <2>1, <1>3, <1>4, <1>0 DEF AttachmentsInv, Followed, Held, Staged,
         Written, Explained, Puts, Ended, Migrates, Lasting
    <2>2. CASE q # r
      BY <2>2, <1>2, <1>3, <1>4, Followed(a, q) DEF Same, Followed, Held,
         Puts, Ended, Lasting
    <2> QED BY <2>1, <2>2
  <1>12. ASSUME NEW a \in Atts PROVE Content(a)'
    <2>1. Content(a)
      BY DEF AttachmentsInv
    <2>2. \A q \in Requests : MovedBy(a, q) => MovedBy(a, q)'
      BY <1>2, <1>3, <1>4, <1>0 DEF AttachmentsInv, Same, MovedBy, Ended,
         Staged, Written, Puts
    <2> QED BY <2>1, <2>2, <1>2, <1>3, <1>4, <1>0 DEF Content, Puts, Lasting
  <1> QED BY <1>1, <1>5, <1>6, <1>7, <1>8, <1>9, <1>10, <1>11, <1>12
      DEF AttachmentsInv

LEMMA UnlinkStep ==
  ASSUME AttachmentsInv, NEW r \in Requests, Unlink(r)
  PROVE  AttachmentsInv'
  <1> USE AttachmentsAssumption
  <1>0. Puts(r)
    BY DEF AttachmentsInv, TypeOK, Kind, Staged, Puts, Unlink, Goto
  <1>t. at[r] \in Atts
    BY DEF AttachmentsInv, Staged, Unlink, Goto
  <1>1. TypeOK'
    BY <1>0, <1>t DEF AttachmentsInv, TypeOK, Place, Kind, Fault, Ended,
       NoWrites, Wrote, Unlink, Goto, Staged
  <1>2. \A q \in Requests : q # r => Same(q)
    BY DEF AttachmentsInv, TypeOK, Wrote, Same, Unlink, Goto
  <1>3. /\ pc[r] = "unlink"
        /\ pc'[r] = "ready"
        /\ disk' \subseteq disk /\ disk \subseteq disk' \union {at[r]}
        /\ UNCHANGED <<op, todo, at, saw, writes, broken, oops, row, objects>>
        /\ Wrote(r)' = Wrote(r)
    BY <1>0, <1>t DEF AttachmentsInv, TypeOK, Wrote, NoWrites, Unlink, Goto
  <1>4. Lasting(r)
    BY <1>2, <1>3, Lasts DEF AttachmentsInv, Staged, Puts, Ended
  <1>5. OneScript'
    BY <1>2, <1>3, <1>4, <1>0, <1>t DEF AttachmentsInv, TypeOK, Same,
       OneScript, Migrates, Ended, Staged
  <1>6. OneUploader'
    <2>1. \A q \in Requests : op'[q] = "upload" /\ ~ Ended(q)'
             => op[q] = "upload" /\ ~ Ended(q) /\ Hands(q)' \subseteq Hands(q)
      BY <1>2, <1>3, <1>0, <1>t DEF AttachmentsInv, Staged, Same, Hands,
         Ended, NoWrites
    <2> QED BY <2>1 DEF AttachmentsInv, OneUploader
  <1>e. MovedBy(at[r], r)'
    BY <1>3, <1>0, <1>t DEF AttachmentsInv, Staged, Written, MovedBy, Ended
  <1>7. ASSUME NEW q \in Requests PROVE Staged(q)'
    <2>1. CASE q = r
      BY <2>1, <1>3, <1>0, <1>t DEF AttachmentsInv, TypeOK, Staged, Puts
    <2>2. CASE q # r
      BY <2>2, <1>2, <1>3 DEF AttachmentsInv, TypeOK, Same, Staged, Puts
    <2> QED BY <2>1, <2>2
  <1>8. ASSUME NEW q \in Requests PROVE Written(q)'
    <2> Written(q) /\ Staged(q) /\ (Ended(q) => Wrote(q) = {})
      BY DEF AttachmentsInv, TypeOK
    <2>1. CASE q = r
      BY <2>1, <1>3, <1>0, <1>t, <1>e DEF Written, Staged, Puts, Ended
    <2>2. CASE q # r
      BY <2>2, <1>2, <1>3, <1>e DEF Written, Same, Puts, Ended
    <2> QED BY <2>1, <2>2
  <1>9. ASSUME NEW q \in Requests PROVE InHand(q)'
    <2>1. CASE q = r
      BY <2>1, <1>3, <1>0, <1>t DEF AttachmentsInv, TypeOK, Staged, InHand,
         Hands, Migrates, Ended
    <2>2. CASE q # r
      BY <2>2, <1>2, <1>3 DEF AttachmentsInv, TypeOK, Same, Staged, InHand,
         Hands, Migrates, Ended
    <2> QED BY <2>1, <2>2
  <1>10. ASSUME NEW q \in Requests PROVE Deletes(q)'
    <2> Deletes(q)
      BY DEF AttachmentsInv
    <2>1. CASE q = r
      BY <2>1, <1>3, <1>4, <1>0, <1>t DEF Puts, Deletes
    <2>2. CASE q # r
      BY <2>2, <1>2, <1>3, <1>4, Deletes(q) DEF Same, Deletes, Puts, Lasting
    <2> QED BY <2>1, <2>2
  <1>11. ASSUME NEW a \in Atts, NEW q \in Requests PROVE Followed(a, q)'
    <2> Followed(a, q)
      BY DEF AttachmentsInv
    <2>1. CASE q = r
      BY <2>1, <1>3, <1>4, <1>0, <1>t DEF AttachmentsInv, Followed, Held,
         Staged, Written, Explained, Puts, Ended, Migrates, Lasting
    <2>2. CASE q # r
      BY <2>2, <1>2, <1>3, <1>4, Followed(a, q) DEF Same, Followed, Held,
         Puts, Ended, Lasting
    <2> QED BY <2>1, <2>2
  <1>12. ASSUME NEW a \in Atts PROVE Content(a)'
    <2>1. Content(a)
      BY DEF AttachmentsInv
    <2>2. \A q \in Requests : MovedBy(a, q) => MovedBy(a, q)'
      BY <1>2, <1>3, <1>4, <1>0, <1>t, <1>e DEF AttachmentsInv, Same,
         MovedBy, Ended, Staged, Written, Puts
    <2> QED BY <2>1, <2>2, <1>2, <1>3, <1>4, <1>0, <1>t, <1>e DEF Content,
        Puts, Lasting
  <1> QED BY <1>1, <1>5, <1>6, <1>7, <1>8, <1>9, <1>10, <1>11, <1>12
      DEF AttachmentsInv

LEMMA EraseStep ==
  ASSUME AttachmentsInv, NEW r \in Requests, Erase(r)
  PROVE  AttachmentsInv'
  <1> USE AttachmentsAssumption
  <1>0. op[r] = "delete" /\ at[r] \in Atts /\ ~ Puts(r)
    BY DEF AttachmentsInv, TypeOK, Kind, Staged, Puts, Erase, EraseContent,
       Goto
  <1>1. TypeOK'
    BY <1>0 DEF AttachmentsInv, TypeOK, Place, Kind, Fault, Ended, NoWrites,
       Wrote, Erase, EraseContent, Goto, Staged
  <1>2. \A q \in Requests : q # r => Same(q)
    BY DEF AttachmentsInv, TypeOK, Wrote, Same, Erase, EraseContent, Goto
  <1>3. /\ pc[r] = "erase"
        /\ pc'[r] = "drop"
        /\ objects' = (IF saw[r] = "disk" THEN objects ELSE objects \ {<<at[r], saw[r]>>})
        /\ disk' \subseteq disk /\ disk \subseteq disk' \union {at[r]}
        /\ UNCHANGED <<op, todo, at, saw, writes, broken, oops, row>>
        /\ Wrote(r)' = Wrote(r)
    BY <1>0 DEF AttachmentsInv, TypeOK, Wrote, NoWrites, Erase, EraseContent,
       Goto
  <1>4. Lasting(r)
    BY <1>2, <1>3, Lasts DEF AttachmentsInv, Staged, Puts, Ended
  <1>5. OneScript'
    BY <1>2, <1>3, <1>4, <1>0 DEF AttachmentsInv, TypeOK, Same, OneScript,
       Migrates, Ended, Staged
  <1>6. OneUploader'
    <2>1. \A q \in Requests : op'[q] = "upload" /\ ~ Ended(q)'
             => op[q] = "upload" /\ ~ Ended(q) /\ Hands(q)' \subseteq Hands(q)
      BY <1>2, <1>3, <1>0 DEF AttachmentsInv, Staged, Same, Hands, Ended,
         NoWrites
    <2> QED BY <2>1 DEF AttachmentsInv, OneUploader
  <1>e. \A a \in Atts, q \in Requests : <<a, q>> \in objects /\ pc[q] # "done" => <<a, q>> \in objects'
    BY <1>3, <1>0 DEF AttachmentsInv, Deletes
  <1>f. ErasedByRequest(at[r])'
    BY <1>3, <1>0 DEF ErasedByRequest
  <1>g. \A a \in Atts, q \in Requests : a # at[r] /\ <<a, q>> \in objects => <<a, q>> \in objects'
    BY <1>3
  <1>7. ASSUME NEW q \in Requests PROVE Staged(q)'
    <2>1. CASE q = r
      BY <2>1, <1>3, <1>0 DEF AttachmentsInv, TypeOK, Staged, Puts
    <2>2. CASE q # r
      BY <2>2, <1>2, <1>3 DEF AttachmentsInv, TypeOK, Same, Staged, Puts
    <2> QED BY <2>1, <2>2
  <1>8. ASSUME NEW q \in Requests PROVE Written(q)'
    <2> Written(q) /\ Staged(q) /\ (Ended(q) => Wrote(q) = {})
      BY DEF AttachmentsInv, TypeOK
    <2>1. CASE q = r
      BY <2>1, <1>3, <1>0, <1>e, <1>f, <1>g DEF Written, Staged, Puts, Ended
    <2>2. CASE q # r
      BY <2>2, <1>2, <1>3, <1>e, <1>f, <1>g DEF Written, Same, Puts, Ended,
         Staged, Wrote
    <2> QED BY <2>1, <2>2
  <1>9. ASSUME NEW q \in Requests PROVE InHand(q)'
    <2>1. CASE q = r
      BY <2>1, <1>3, <1>0 DEF AttachmentsInv, TypeOK, Staged, InHand, Hands,
         Migrates, Ended
    <2>2. CASE q # r
      BY <2>2, <1>2, <1>3 DEF AttachmentsInv, TypeOK, Same, Staged, InHand,
         Hands, Migrates, Ended
    <2> QED BY <2>1, <2>2
  <1>10. ASSUME NEW q \in Requests PROVE Deletes(q)'
    <2> Deletes(q)
      BY DEF AttachmentsInv
    <2>1. CASE q = r
      BY <2>1, <1>3, <1>4, <1>0 DEF AttachmentsInv, Deletes, Puts, Lasting
    <2>2. CASE q # r
      BY <2>2, <1>2, <1>3, <1>4, Deletes(q) DEF Same, Deletes, Puts, Lasting
    <2> QED BY <2>1, <2>2
  <1>11. ASSUME NEW a \in Atts, NEW q \in Requests PROVE Followed(a, q)'
    <2> Followed(a, q)
      BY DEF AttachmentsInv
    <2>1. CASE q = r
      BY <2>1, <1>3, <1>4, <1>0 DEF AttachmentsInv, TypeOK, Followed, Held,
         Staged, Written, Explained, Puts, Ended, Migrates, Lasting
    <2>2. CASE q # r
      BY <2>2, <1>2, <1>3, <1>4, Followed(a, q) DEF Same, Followed, Held,
         Puts, Ended, Lasting
    <2> QED BY <2>1, <2>2
  <1>12. ASSUME NEW a \in Atts PROVE Content(a)'
    <2>1. Content(a)
      BY DEF AttachmentsInv
    <2>2. \A q \in Requests : MovedBy(a, q) => MovedBy(a, q)'
      BY <1>2, <1>3, <1>4, <1>0, <1>e DEF AttachmentsInv, Same, MovedBy,
         Ended, Staged, Written, Puts
    <2> QED BY <2>1, <2>2, <1>2, <1>3, <1>4, <1>0, <1>e, <1>f, <1>g
        DEF Content, Puts, Lasting
  <1> QED BY <1>1, <1>5, <1>6, <1>7, <1>8, <1>9, <1>10, <1>11, <1>12
      DEF AttachmentsInv

LEMMA DropStep ==
  ASSUME AttachmentsInv, NEW r \in Requests, Drop(r)
  PROVE  AttachmentsInv'
  <1> USE AttachmentsAssumption
  <1>0. op[r] = "delete" /\ at[r] \in Atts /\ ~ Puts(r)
    BY DEF AttachmentsInv, TypeOK, Kind, Staged, Puts, Drop, Goto, stores
  <1>1. TypeOK'
    BY <1>0 DEF AttachmentsInv, TypeOK, Place, Kind, Fault, Ended, NoWrites,
       Wrote, Drop, Goto, stores, Staged
  <1>2. \A q \in Requests : q # r => Same(q)
    BY DEF AttachmentsInv, TypeOK, Wrote, Same, Drop, Goto, stores
  <1>3. /\ pc[r] = "drop"
        /\ pc'[r] = "ready"
        /\ Wrote(r)' = Wrote(r) \union {at[r]} /\ writes'[r][at[r]] = "gone" /\ \A a \in Atts : a # at[r] => writes'[r][a] = writes[r][a]
        /\ UNCHANGED <<op, todo, at, saw, broken, oops, row, objects, disk>>
    BY <1>0 DEF AttachmentsInv, TypeOK, Wrote, NoWrites, Drop, Goto, stores,
       Staged
  <1>4. Lasting(r)
    BY <1>2, <1>3, Lasts DEF AttachmentsInv, Staged, Puts, Ended
  <1>5. OneScript'
    BY <1>2, <1>3, <1>4, <1>0 DEF AttachmentsInv, TypeOK, Same, OneScript,
       Migrates, Ended, Staged
  <1>6. OneUploader'
    <2>1. \A q \in Requests : op'[q] = "upload" /\ ~ Ended(q)'
             => op[q] = "upload" /\ ~ Ended(q) /\ Hands(q)' \subseteq Hands(q)
      BY <1>2, <1>3, <1>0 DEF AttachmentsInv, Staged, Same, Hands, Ended,
         NoWrites
    <2> QED BY <2>1 DEF AttachmentsInv, OneUploader
  <1>7. ASSUME NEW q \in Requests PROVE Staged(q)'
    <2>1. CASE q = r
      BY <2>1, <1>3, <1>0 DEF AttachmentsInv, TypeOK, Staged, Puts
    <2>2. CASE q # r
      BY <2>2, <1>2, <1>3 DEF AttachmentsInv, TypeOK, Same, Staged, Puts
    <2> QED BY <2>1, <2>2
  <1>8. ASSUME NEW q \in Requests PROVE Written(q)'
    <2> Written(q) /\ Staged(q) /\ (Ended(q) => Wrote(q) = {})
      BY DEF AttachmentsInv, TypeOK
    <2>1. CASE q = r
      BY <2>1, <1>3, <1>0 DEF Written, Staged, Puts, Ended
    <2>2. CASE q # r
      BY <2>2, <1>2, <1>3 DEF Written, Same, Puts, Ended
    <2> QED BY <2>1, <2>2
  <1>9. ASSUME NEW q \in Requests PROVE InHand(q)'
    <2>1. CASE q = r
      BY <2>1, <1>3, <1>0 DEF AttachmentsInv, TypeOK, Staged, InHand, Hands,
         Migrates, Ended
    <2>2. CASE q # r
      BY <2>2, <1>2, <1>3 DEF AttachmentsInv, TypeOK, Same, Staged, InHand,
         Hands, Migrates, Ended
    <2> QED BY <2>1, <2>2
  <1>10. ASSUME NEW q \in Requests PROVE Deletes(q)'
    <2> Deletes(q)
      BY DEF AttachmentsInv
    <2>1. CASE q = r
      BY <2>1, <1>3, <1>4, <1>0 DEF AttachmentsInv, Deletes, Puts, Lasting
    <2>2. CASE q # r
      BY <2>2, <1>2, <1>3, <1>4, Deletes(q) DEF Same, Deletes, Puts, Lasting
    <2> QED BY <2>1, <2>2
  <1>11. ASSUME NEW a \in Atts, NEW q \in Requests PROVE Followed(a, q)'
    <2> Followed(a, q)
      BY DEF AttachmentsInv
    <2>1. CASE q = r
      BY <2>1, <1>3, <1>4, <1>0 DEF AttachmentsInv, TypeOK, Followed, Held,
         Staged, Written, Explained, Puts, Ended, Migrates, Lasting
    <2>2. CASE q # r
      BY <2>2, <1>2, <1>3, <1>4, Followed(a, q) DEF Same, Followed, Held,
         Puts, Ended, Lasting
    <2> QED BY <2>1, <2>2
  <1>12. ASSUME NEW a \in Atts PROVE Content(a)'
    <2>1. Content(a)
      BY DEF AttachmentsInv
    <2>2. \A q \in Requests : MovedBy(a, q) => MovedBy(a, q)'
      BY <1>2, <1>3, <1>4, <1>0 DEF AttachmentsInv, Same, MovedBy, Ended,
         Staged, Written, Puts
    <2> QED BY <2>1, <2>2, <1>2, <1>3, <1>4, <1>0 DEF Content, Puts, Lasting
  <1> QED BY <1>1, <1>5, <1>6, <1>7, <1>8, <1>9, <1>10, <1>11, <1>12
      DEF AttachmentsInv

LEMMA CommitStep ==
  ASSUME AttachmentsInv, NEW r \in Requests, Commit(r)
  PROVE  AttachmentsInv'
  <1> USE AttachmentsAssumption
  <1>1. TypeOK'
    <2>1. /\ pc' = [pc EXCEPT ![r] = "done"] /\ writes' = [writes EXCEPT ![r] = NoWrites]
          /\ UNCHANGED <<objects, disk, op, todo, at, saw, broken, oops>>
      BY DEF Commit, Goto, Closed
    <2>2. row' \in [Atts -> Place]
      BY DEF AttachmentsInv, TypeOK, Commit, Wrote
    <2>3. writes' \in [Requests -> [Atts -> Place \union {"kept"}]]
      BY <2>1 DEF AttachmentsInv, TypeOK, NoWrites
    <2>4. \A q \in Requests : Ended(q)' => Wrote(q)' = {}
      BY <2>1 DEF AttachmentsInv, TypeOK, Ended, Wrote, NoWrites
    <2>5. pc' \in [Requests -> {"idle", "ready", "flush", "clean", "unlink",
                                "erase", "drop", "done", "failed"}]
      BY <2>1 DEF AttachmentsInv, TypeOK
    <2> QED  BY <2>1, <2>2, <2>3, <2>4, <2>5 DEF AttachmentsInv, TypeOK
  <1>2. \A q \in Requests : q # r => Same(q)
    BY DEF AttachmentsInv, TypeOK, Wrote, Same, Commit, Goto, Closed
  <1>3. /\ pc[r] = "ready" /\ ~ broken[r] /\ todo[r] = {}
        /\ pc'[r] = "done" /\ Wrote(r)' = {}
        /\ UNCHANGED <<objects, disk, op, todo, at, saw, broken, oops>>
    BY DEF AttachmentsInv, TypeOK, Wrote, NoWrites, Commit, AllDone, Goto,
       Closed
  <1>4. Lasting(r)
    BY <1>2, <1>3, Lasts DEF Ended
  <1>5. op[r] = "delete" \/ op[r] = "upload" \/ Migrates(r)
    BY <1>3 DEF AttachmentsInv, TypeOK, Kind, Staged, Migrates
  <1> DEFINE Dropped(a) == /\ a \in Wrote(r) /\ op[r] = "delete" /\ a = at[r]
                           /\ row'[a] = "gone" /\ row[a] # "new"
             Stored(a)  == /\ a \in Wrote(r) /\ Puts(r) /\ row'[a] = r
                           /\ <<a, r>> \in objects
                           /\ op[r] = "upload" => row[a] = "new"
                           /\ Migrates(r) => row[a] \in {"disk", "gone"}
             Left(a)    == a \notin Wrote(r) /\ row'[a] = row[a]
  <1>6. ASSUME NEW a \in Atts
        PROVE  Left(a) \/ Dropped(a) \/ Stored(a)
    <2>1. row'[a] = IF a \in Wrote(r) THEN writes[r][a] ELSE row[a]
      BY DEF Commit
    <2>2. Written(r) /\ InHand(r) /\ Deletes(r)
      BY DEF AttachmentsInv
    <2>3. CASE a \in Wrote(r) /\ op[r] = "delete"
      BY <2>1, <2>2, <2>3 DEF Written, Deletes
    <2>4. CASE a \in Wrote(r) /\ op[r] # "delete"
      BY <2>1, <2>2, <2>4, <1>3, <1>5 DEF Written, InHand, Hands, Puts,
         Migrates, Ended
    <2> QED  BY <2>1, <2>3, <2>4
  <1>7. OneScript' /\ OneUploader'
    <2>1. \A q \in Requests : ~ Ended(q)' =>
            q # r /\ ~ Ended(q) /\ Hands(q)' = Hands(q) /\ Same(q)
      BY <1>2, <1>3 DEF Same, Hands, Ended
    <2> QED  BY <2>1 DEF AttachmentsInv, OneScript, OneUploader, Migrates, Same
  <1>8. ASSUME NEW q \in Requests
        PROVE  Staged(q)' /\ Written(q)'
    <2>1. Staged(q) /\ Written(q)
      BY DEF AttachmentsInv
    <2>2. CASE q = r
      BY <2>1, <2>2, <1>3 DEF Staged, Written, Puts
    <2>3. CASE q # r
      BY <2>1, <2>3, <1>2, <1>3 DEF Same, Staged, Written, Puts
    <2> QED  BY <2>2, <2>3
  <1>9. ASSUME NEW q \in Requests
        PROVE  InHand(q)'
    <2>1. SUFFICES ASSUME NEW a \in Hands(q)', ~ Ended(q)'
                   PROVE  /\ Migrates(q)' => row'[a] \in {"disk", "gone"}
                          /\ op'[q] = "upload" => row'[a] = "new"
      BY DEF InHand
    <2>2. q # r
      BY <2>1, <1>3 DEF Ended
    <2>3. a \in Hands(q) /\ ~ Ended(q) /\ op'[q] = op[q] /\ InHand(q)
      BY <2>1, <2>2, <1>2 DEF AttachmentsInv, Same, Hands, Ended
    <2>4. a \in Atts
      BY <2>3 DEF AttachmentsInv, TypeOK, Staged, Hands, Wrote
    <2>5. CASE Left(a)
      BY <2>5, <2>3 DEF InHand, Migrates
    <2>6. CASE Dropped(a)
      BY <2>6, <2>3 DEF InHand, Migrates
    <2>7. CASE Stored(a)
      <3>1. ~ Ended(r) /\ a \in Hands(r)
        BY <2>7, <1>3 DEF Ended, Hands
      <3>2. ~ (op[q] = "upload" /\ op[r] = "upload")
        BY <3>1, <2>2, <2>3 DEF AttachmentsInv, OneUploader
      <3>3. ~ (Migrates(q) /\ Migrates(r))
        BY <3>1, <2>2, <2>3 DEF AttachmentsInv, OneScript
      <3> QED  BY <3>2, <3>3, <2>3, <2>7, <1>5 DEF InHand, Migrates, Puts
    <2> QED  BY <2>4, <2>5, <2>6, <2>7, <1>6
  <1>10. ASSUME NEW q \in Requests
         PROVE  Deletes(q)'
    <2>1. Deletes(q) /\ Staged(q)
      BY DEF AttachmentsInv
    <2>2. op[q] = "delete" => row'[at[q]] # "new"
      BY <2>1, <1>6 DEF Deletes, Staged
    <2>3. op'[q] = op[q] /\ at'[q] = at[q] /\ saw'[q] = saw[q]
      BY <1>3
    <2>4. pc'[q] \in {"drop", "ready", "done"} => pc[q] \in {"drop", "ready", "done"}
      BY <1>2, <1>3 DEF Same
    <2>5. saw[q] \in Requests /\ pc[saw[q]] = "done" => pc'[saw[q]] = "done"
      BY <1>4 DEF Lasting
    <2> QED  BY <2>1, <2>2, <2>3, <2>4, <2>5, <1>3 DEF Deletes, Puts
  <1>11. ASSUME NEW a \in Atts, NEW q \in Requests
         PROVE  Followed(a, q)'
    <2>1. Followed(a, q)
      BY DEF AttachmentsInv
    <2>2. CASE q = r
      <3>1. SUFFICES ASSUME <<a, r>> \in objects
                     PROVE  Puts(r)' /\ (row'[a] = r \/ Explained(a, r)')
        BY <2>2, <1>3 DEF Followed, Ended
      <3>2. Puts(r) /\ Held(a, r)
        BY <2>1, <2>2, <3>1, <1>3 DEF Followed, Ended
      <3>3. CASE a \in Wrote(r)
        BY <3>2, <3>3, <1>3, <1>6 DEF Puts
      <3>4. CASE oops[r] \intersect {"put", "clean"} # {}
        BY <3>2, <3>4, <1>3 DEF Puts, Explained
      <3> QED  BY <3>2, <3>3, <3>4, <1>3 DEF Held
    <2>3. CASE q # r
      <3>1. CASE ~ Ended(q) \/ <<a, q>> \notin objects
        BY <2>1, <2>3, <3>1, <1>2, <1>3 DEF Followed, Same, Ended, Held, Puts
      <3>2. CASE Ended(q) /\ <<a, q>> \in objects
        <4>1. Puts(q)' /\ Ended(q)' /\ (row[a] = q \/ Explained(a, q)')
          BY <2>1, <2>3, <3>2, <1>2, <1>4 DEF Followed, Same, Ended, Puts,
             Lasting
        <4>2. CASE Left(a)
          BY <4>1, <4>2 DEF Followed
        <4>3. CASE Dropped(a) /\ row[a] = q
          <5>1. saw[r] # q
            BY <3>2, <4>3, <1>3 DEF AttachmentsInv, Deletes
          <5>2. Explained(a, q)'
            BY <5>1, <4>3, <1>3 DEF Explained
          <5> QED  BY <4>1, <5>2 DEF Followed
        <4>4. CASE Stored(a)
          BY <4>1, <4>4, <1>5 DEF Followed, Puts
        <4> QED  BY <4>1, <4>2, <4>3, <4>4, <1>6 DEF Followed
      <3> QED  BY <3>1, <3>2
    <2> QED  BY <2>2, <2>3
  <1>12. ASSUME NEW a \in Atts
         PROVE  Content(a)'
    <2>1. Content(a)
      BY DEF AttachmentsInv
    <2>2. CASE Left(a)
      <3>1. \A q \in Requests : MovedBy(a, q) => MovedBy(a, q)'
        BY <2>2, <1>2, <1>3 DEF MovedBy, Same, Ended
      <3>2. ErasedByRequest(a) => ErasedByRequest(a)'
        BY <1>4 DEF Lasting
      <3>3. row[a] \in Requests /\ pc[row[a]] = "done" => pc'[row[a]] = "done"
        BY <1>4 DEF Lasting
      <3> QED  BY <2>1, <2>2, <3>1, <3>2, <3>3, <1>3 DEF Content, Puts
    <2>3. CASE Dropped(a)
      BY <2>3 DEF Content
    <2>4. CASE Stored(a)
      BY <2>4, <1>3 DEF Content, Puts
    <2> QED  BY <2>2, <2>3, <2>4, <1>6
  <1> QED  BY <1>1, <1>7, <1>8, <1>9, <1>10, <1>11, <1>12 DEF AttachmentsInv

\* A request that ends without a commit, for a reason that explains what it
\* leaves.
LEMMA FailStep ==
  ASSUME AttachmentsInv, NEW r \in Requests, NEW what \in SUBSET Fault,
         pc[r] # "idle", ~ Ended(r), Fail(r, what),
         UNCHANGED <<objects, disk>> \/ (pc[r] = "erase" /\ EraseContent(r)),
         \/ what \intersect {"commit", "crash"} # {}
         \/ "flush" \in what /\ Migrates(r)
         \/ broken[r] /\ pc[r] = "ready"
         \/ op[r] = "delete"
  PROVE  AttachmentsInv'
  <1> USE AttachmentsAssumption
  <1>1. TypeOK'
    <2>1. /\ pc' = [pc EXCEPT ![r] = "failed"] /\ writes' = [writes EXCEPT ![r] = NoWrites]
          /\ todo' = [todo EXCEPT ![r] = {}] /\ oops' = [oops EXCEPT ![r] = @ \union what]
          /\ UNCHANGED <<row, op, at, saw, broken>>
      BY DEF Fail, Closed
    <2>2. objects' \subseteq objects /\ disk' \subseteq disk
      BY DEF EraseContent
    <2>3. writes' \in [Requests -> [Atts -> Place \union {"kept"}]]
      BY <2>1 DEF AttachmentsInv, TypeOK, NoWrites
    <2>4. \A q \in Requests : Ended(q)' => Wrote(q)' = {}
      BY <2>1 DEF AttachmentsInv, TypeOK, Ended, Wrote, NoWrites
    <2>5. /\ pc' \in [Requests -> {"idle", "ready", "flush", "clean", "unlink",
                                   "erase", "drop", "done", "failed"}]
          /\ todo' \in [Requests -> SUBSET Atts] /\ oops' \in [Requests -> SUBSET Fault]
      BY <2>1 DEF AttachmentsInv, TypeOK
    <2> QED  BY <2>1, <2>2, <2>3, <2>4, <2>5 DEF AttachmentsInv, TypeOK
  <1>2. \A q \in Requests : q # r => Same(q)
    BY DEF AttachmentsInv, TypeOK, Wrote, Same, Fail, Closed
  <1>3. /\ pc'[r] = "failed" /\ Wrote(r)' = {} /\ todo'[r] = {}
        /\ oops'[r] = oops[r] \union what
        /\ UNCHANGED <<row, op, at, saw, broken>>
    BY DEF AttachmentsInv, TypeOK, Wrote, NoWrites, Fail, Closed
  <1>4. Lasting(r)
    BY <1>2, <1>3, Lasts DEF Ended
  <1>5. \A a \in Atts, q \in Requests :
          <<a, q>> \in objects /\ (a # at[r] \/ pc[q] # "done" \/ op[r] # "delete")
            => <<a, q>> \in objects'
    <2>1. pc[r] = "erase" => op[r] = "delete"
      BY DEF AttachmentsInv, TypeOK, Kind, Staged, Puts
    <2> QED  BY <2>1 DEF AttachmentsInv, Deletes, EraseContent
  <1>6. /\ objects' \subseteq objects /\ disk' \subseteq disk
        /\ disk \subseteq disk' \union {at[r]}
        /\ disk' # disk => op[r] = "delete"
    <2>1. pc[r] = "erase" => op[r] = "delete"
      BY DEF AttachmentsInv, TypeOK, Kind, Staged, Puts
    <2> QED  BY <2>1 DEF EraseContent
  <1>7. OneScript' /\ OneUploader'
    <2>1. \A q \in Requests : ~ Ended(q)' =>
            q # r /\ ~ Ended(q) /\ Hands(q)' = Hands(q) /\ Same(q)
      BY <1>2, <1>3 DEF Same, Hands, Ended
    <2> QED  BY <2>1 DEF AttachmentsInv, OneScript, OneUploader, Migrates, Same
  <1>8. ASSUME NEW q \in Requests
        PROVE  Staged(q)' /\ Written(q)' /\ InHand(q)'
    <2>1. Staged(q) /\ Written(q) /\ InHand(q) /\ (Ended(q) => Wrote(q) = {})
      BY DEF AttachmentsInv, TypeOK
    <2>2. Staged(q)'
      BY <2>1, <1>2, <1>3 DEF Same, Staged, Puts, Ended
    <2>3. Written(q)'
      <3>1. CASE q = r
        BY <2>1, <3>1, <1>3 DEF Written, Puts
      <3>2. CASE q # r
        BY <2>1, <3>2, <1>2, <1>5 DEF Written, Same, Puts, Ended, Staged, Wrote
      <3> QED  BY <3>1, <3>2
    <2>4. InHand(q)'
      BY <2>1, <1>2, <1>3 DEF InHand, Same, Hands, Ended, Migrates
    <2> QED  BY <2>2, <2>3, <2>4
  <1>9. ASSUME NEW q \in Requests
        PROVE  Deletes(q)'
    <2>1. Deletes(q)
      BY DEF AttachmentsInv
    <2>2. pc'[q] \in {"drop", "ready", "done"} => pc[q] \in {"drop", "ready", "done"}
      BY <1>2, <1>3 DEF Same
    <2>3. saw[q] \in Requests /\ pc[saw[q]] = "done" => pc'[saw[q]] = "done"
      BY <1>4 DEF Lasting
    <2> QED  BY <2>1, <2>2, <2>3, <1>3, <1>6 DEF Deletes, Puts
  <1>10. ASSUME NEW a \in Atts, NEW q \in Requests
         PROVE  Followed(a, q)'
    <2>1. Followed(a, q)
      BY DEF AttachmentsInv
    <2>2. CASE q # r
      BY <2>1, <2>2, <1>2, <1>3, <1>4, <1>6 DEF Followed, Same, Held, Puts,
         Ended, Lasting
    <2>3. CASE q = r
      <3>1. SUFFICES ASSUME <<a, r>> \in objects
                     PROVE  Puts(r)' /\ Explained(a, r)'
        BY <2>3, <1>3, <1>6 DEF Followed, Ended
      <3>2. Puts(r) /\ Held(a, r) /\ Written(r)
        BY <2>1, <2>3, <3>1 DEF AttachmentsInv, Followed
      <3>3. CASE what \intersect {"commit", "crash"} # {}
        BY <3>2, <3>3, <1>3 DEF Puts, Explained
      <3>4. CASE "flush" \in what /\ Migrates(r)
        BY <3>2, <3>4, <1>3 DEF Puts, Explained, Migrates
      <3>5. CASE broken[r] /\ pc[r] = "ready"
        BY <3>2, <3>5, <1>3 DEF Puts, Explained, Held, Written
      <3> QED  BY <3>2, <3>3, <3>4, <3>5 DEF Puts
    <2> QED  BY <2>2, <2>3
  <1>11. ASSUME NEW a \in Atts
         PROVE  Content(a)'
    <2>1. Content(a)
      BY DEF AttachmentsInv
    <2>2. ASSUME NEW q \in Requests, MovedBy(a, q)
          PROVE  MovedBy(a, q)'
      <3>1. CASE q = r
        BY <2>2, <3>1, <1>3, <1>5 DEF MovedBy
      <3>2. CASE q # r
        BY <2>2, <3>2, <1>2, <1>5 DEF MovedBy, Same, Ended
      <3> QED  BY <3>1, <3>2
    <2>3. ErasedByRequest(a) => ErasedByRequest(a)'
      BY <1>4 DEF Lasting
    <2>4. row[a] \in Requests /\ pc[row[a]] = "done" => pc'[row[a]] = "done"
      BY <1>4 DEF Lasting
    <2>5. CASE op[r] = "delete" /\ a = at[r]
      <3>1. ErasedByRequest(a)'
        BY <2>5, <1>3 DEF ErasedByRequest
      <3> QED  BY <2>1, <2>4, <3>1, <1>3 DEF Content, Puts
    <2>6. CASE ~ (op[r] = "delete" /\ a = at[r])
      BY <2>1, <2>2, <2>3, <2>4, <2>6, <1>3, <1>5, <1>6 DEF Content, Puts
    <2> QED  BY <2>5, <2>6
  <1> QED  BY <1>1, <1>7, <1>8, <1>9, <1>10, <1>11 DEF AttachmentsInv

-----------------------------------------------------------------------------
LEMMA InitInv == Init => AttachmentsInv
  <1> USE AttachmentsAssumption
  <1>1. SUFFICES ASSUME Init PROVE AttachmentsInv
    OBVIOUS
  <1>2. TypeOK
    BY <1>1 DEF Init, TypeOK, Place, Kind, Ended, NoWrites, Wrote
  <1>3. \A r \in Requests : /\ op[r] = "none" /\ pc[r] = "idle" /\ todo[r] = {}
                            /\ Wrote(r) = {} /\ ~ broken[r]
    BY <1>1 DEF Init, Wrote, NoWrites
  <1>4. \A r \in Requests : Staged(r) /\ Written(r) /\ InHand(r) /\ Deletes(r)
    BY <1>3 DEF Staged, Written, InHand, Hands, Deletes, Puts
  <1>5. OneScript /\ OneUploader
    BY <1>3 DEF OneScript, OneUploader, Migrates
  <1>6. \A a \in Atts, r \in Requests : Followed(a, r)
    BY <1>1 DEF Init, Followed
  <1>7. \A a \in Atts : Content(a)
    BY <1>1 DEF Init, Content
  <1> QED  BY <1>2, <1>4, <1>5, <1>6, <1>7 DEF AttachmentsInv

LEMMA StepInv ==
  ASSUME AttachmentsInv, NEW r \in Requests, Begin(r) \/ Step(r) \/ Crash(r)
  PROVE  AttachmentsInv'
  <1>1. CASE Begin(r)
    BY <1>1, BeginUploadStep, BeginMigrationStep, BeginDeleteStep DEF Begin
  <1>2. CASE \E a \in Atts : Skip(r, a) \/ Put(r, a) \/ PutFails(r, a)
    BY <1>2, SkipStep, PutStep, PutFailsStep
  <1>3. CASE Flush(r) \/ Clean(r) \/ CleanFails(r) \/ Unlink(r)
    BY <1>3, FlushStep, CleanStep, CleanFailsStep, UnlinkStep
  <1>4. CASE Erase(r) \/ Drop(r) \/ Commit(r)
    BY <1>4, EraseStep, DropStep, CommitStep
  <1>5. CASE FlushFails(r) /\ ~ Migrates(r)
    BY <1>5, FlushFailsStep
  <1>6. CASE FlushFails(r) /\ Migrates(r)
    <2>1. Fail(r, {"flush"}) /\ UNCHANGED <<objects, disk>> /\ pc[r] = "flush"
      BY <1>6 DEF FlushFails
    <2> QED  BY <2>1, <1>6, FailStep DEF Ended, Fault
  <1>7. CASE FlushStale(r)
    <2>1. Fail(r, {"flush"}) /\ UNCHANGED <<objects, disk>> /\ pc[r] = "flush"
      BY <1>7 DEF FlushStale
    <2>2. op[r] # "upload" /\ op[r] # "none" /\ op[r] # "delete"
      BY <1>7, <2>1 DEF FlushStale, AttachmentsInv, Staged, InHand, Hands,
         Ended
    <2>3. Migrates(r)
      BY <2>2 DEF AttachmentsInv, TypeOK, Kind, Migrates
    <2> QED  BY <2>1, <2>3, FailStep DEF Ended, Fault
  <1>8. CASE EraseFails(r) \/ DropFails(r)
    <2>1. PICK what \in {{"erase"}, {"flush"}} : Fail(r, what)
      BY <1>8 DEF EraseFails, DropFails
    <2>2. pc[r] \in {"erase", "drop"}
      BY <1>8 DEF EraseFails, DropFails
    <2>3. UNCHANGED <<objects, disk>> \/ (pc[r] = "erase" /\ EraseContent(r))
      BY <1>8 DEF EraseFails, DropFails
    <2>4. op[r] = "delete"
      BY <2>2 DEF AttachmentsInv, TypeOK, Kind, Staged, Puts
    <2> QED  BY <2>1, <2>2, <2>3, <2>4, FailStep DEF Ended, Fault
  <1>9. CASE CommitFails(r)
    <2>1. pc[r] = "ready" /\ UNCHANGED <<objects, disk>>
      BY <1>9 DEF CommitFails, AllDone
    <2>2. CASE broken[r] /\ Fail(r, {})
      BY <2>1, <2>2, FailStep DEF Ended, Fault
    <2>3. CASE Fail(r, {"commit"})
      BY <2>1, <2>3, FailStep DEF Ended, Fault
    <2> QED  BY <1>9, <2>2, <2>3 DEF CommitFails
  <1>10. CASE Crash(r)
    <2>1. Fail(r, {"crash"}) /\ pc[r] # "idle" /\ ~ Ended(r) /\ UNCHANGED <<objects, disk>>
      BY <1>10 DEF Crash
    <2> QED  BY <2>1, FailStep DEF Fault
  <1> QED  BY <1>1, <1>2, <1>3, <1>4, <1>5, <1>6, <1>7, <1>8, <1>9, <1>10
      DEF Step

LEMMA StutterInv ==
  ASSUME AttachmentsInv, UNCHANGED vars
  PROVE  AttachmentsInv'
  <1> USE DEF AttachmentsInv, vars, stores
  <1>1. TypeOK' /\ OneScript' /\ OneUploader'
    BY DEF TypeOK, OneScript, OneUploader, Hands, Migrates, Ended, Wrote
  <1>2. ASSUME NEW q \in Requests PROVE Staged(q)' /\ Written(q)' /\ InHand(q)'
    BY DEF Staged, Written, InHand, Hands, Puts, Migrates, Ended, Wrote
  <1>3. ASSUME NEW q \in Requests PROVE Deletes(q)'
    <2>1. Deletes(q)
      OBVIOUS
    <2> QED  BY <2>1 DEF Deletes, Puts
  <1>4. ASSUME NEW a \in Atts, NEW q \in Requests PROVE Followed(a, q)'
    <2>1. Followed(a, q)
      OBVIOUS
    <2> QED  BY <2>1 DEF Followed, Held, Explained, Puts, Migrates, Ended,
        Wrote
  <1>5. ASSUME NEW a \in Atts PROVE Content(a)'
    <2>1. Content(a)
      OBVIOUS
    <2> QED  BY <2>1 DEF Content, MovedBy, ErasedByRequest, Puts, Ended, Wrote
  <1> QED  BY <1>1, <1>2, <1>3, <1>4, <1>5

-----------------------------------------------------------------------------
(* The inductive invariant, whatever fails and whatever overlaps.          *)
THEOREM AttachmentsInvariant == Spec => []AttachmentsInv
  <1>1. AttachmentsInv /\ [Next]_vars => AttachmentsInv'
    BY StepInv, StutterInv DEF Next
  <1> QED  BY InitInv, <1>1, PTL DEF Spec

(* All variables keep their types.                                         *)
THEOREM AttachmentsTypeCorrect == Spec => []TypeOK
  <1>1. AttachmentsInv => TypeOK
    BY DEF AttachmentsInv
  <1> QED  BY AttachmentsInvariant, <1>1, PTL

(* What is listed can be downloaded unless its deletion was asked for; and *)
(* a file that --delete-local removed in vain is in the store.             *)
THEOREM ListedIsServed == Spec => []RowsHaveContent
  <1>1. ASSUME AttachmentsInv PROVE RowsHaveContent
    <2>1. SUFFICES ASSUME NEW a \in Atts, row[a] \notin {"new", "gone"}
                   PROVE  Served(a) \/ ErasedByRequest(a) \/ StrandedByMove(a)
      BY DEF RowsHaveContent
    <2>2. Content(a) /\ (row[a] = "disk" \/ row[a] \in Requests)
      BY <1>1, <2>1 DEF AttachmentsInv, TypeOK, Place
    <2>3. CASE row[a] = "disk"
      BY <2>2, <2>3 DEF Content, Served, StrandedByMove, MovedBy, Ended
    <2>4. CASE row[a] \in Requests
      BY <2>2, <2>4, AttachmentsAssumption DEF Content, Served
    <2> QED  BY <2>2, <2>3, <2>4
  <1> QED  BY AttachmentsInvariant, <1>1, PTL

(* An object no row names has an explanation.                              *)
THEOREM OrphansExplained == Spec => []NoOrphans
  <1>1. AttachmentsInv => NoOrphans
    BY DEF AttachmentsInv, Followed, NoOrphans
  <1> QED  BY AttachmentsInvariant, <1>1, PTL

=============================================================================
