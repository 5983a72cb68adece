--------------------------- MODULE PhotoPipeline ---------------------------
(***************************************************************************)
(* The publish pipeline of one album: the handlers that upload, replace    *)
(* and delete photos, the background worker that renders display variants, *)
(* the photos table they share and the files under photos/<album>/.        *)
(*                                                                         *)
(* Every database statement and every file operation of a handler or of    *)
(* the worker is a step of its own: requests run in goroutines of their    *)
(* own, next to the worker, and nothing locks a photo.  One statement is   *)
(* atomic (the pool has one connection, db.Open), and so is one file       *)
(* operation of the store.                                                 *)
(***************************************************************************)
EXTENDS Naturals, FiniteSets

CONSTANTS
  PhotoIds,       \* the photo ids uuid.NewString may draw
  LrIds,          \* photo uuids of the Lightroom catalog
  Contents,       \* JPEG files; a content stands for its sha256 as well
  BigContents,    \* the contents whose long side exceeds the large variant
  Deferred,       \* the variants the worker renders
  Large,          \* the one of them that a small original does without
  Original,       \* the uploaded file
  None,           \* no file, no photo
  Posts, Puts, Deletes, AlbumDeletes,  \* the publish calls, each made once
  StoredPhotos,   \* photos visible at the start: a function to their LrIds
  StoredContent,  \* the file they were uploaded with
  MaxRestarts,    \* bound on process restarts
  MaxFaults       \* bound on the errors met by the worker or a removal of files

Files    == Deferred \cup {Original}
Requests == Posts \cup Puts \cup Deletes \cup AlbumDeletes

ASSUME ConstantsAssumption ==
  /\ BigContents \subseteq Contents
  /\ Large \in Deferred
  /\ Original \notin Deferred
  /\ None \notin PhotoIds \cup LrIds \cup Contents
  /\ StoredContent \in Contents
  /\ DOMAIN StoredPhotos \subseteq PhotoIds
  /\ \A p \in DOMAIN StoredPhotos : StoredPhotos[p] \in LrIds
  /\ \A p, q \in DOMAIN StoredPhotos :
        StoredPhotos[p] = StoredPhotos[q] => p = q
  /\ MaxRestarts \in Nat /\ MaxFaults \in Nat

ASSUME RequestsAreDisjoint ==
  /\ Posts \cap (Puts \cup Deletes \cup AlbumDeletes) = {}
  /\ Puts \cap (Deletes \cup AlbumDeletes) = {}
  /\ Deletes \cap AlbumDeletes = {}

VARIABLES
  album,     \* the album's row exists
  photos,    \* the photos table: a function from the ids that have a row
  disk,      \* disk[p][f]: what file f of photo p shows, None if not there
  fresh,     \* the ids not drawn yet
  req,       \* req[r]: where request r is and what it works on
  wake,      \* a token is in the worker's wake channel
  wpc,       \* where the worker is
  queue,     \* the snapshots left in this drain
  job,       \* the snapshot it generates variants for
  unrendered,\* the variants of job still to render
  staged,    \* the variants rendered and not committed, None where there is none
  failed,    \* the snapshots whose generation failed in this process
  leftover,  \* photo directories the code knowingly leaves to "smugbox gc"
  stored,    \* the snapshots of the drain whose very file was put in place meanwhile
  restarts, faults

table  == <<album, photos>>
worker == <<wpc, queue, job, unrendered, staged, failed>>
bounds == <<stored, restarts, faults>>
vars   == <<table, disk, fresh, req, wake, worker, leftover, bounds>>

(***************************************************************************)
(* The photos table and the files.                                         *)
(***************************************************************************)
Row      == [lr : LrIds, hash : Contents, ready : BOOLEAN]
Snapshot == [id : PhotoIds, hash : Contents]
NoJob    == [id |-> None, hash |-> None]
NoFiles  == [f \in Files |-> None]
NoStaged == [v \in Deferred |-> None]

Rows         == DOMAIN photos
Pending      == {p \in Rows : ~photos[p].ready}
HasFiles(p)  == \E f \in Files : disk[p][f] # None
Produced(h)  == IF h \in BigContents THEN Deferred ELSE Deferred \ {Large}

\* The row functions of db/photos.go, as the table they leave.
WithRow(p, row) == [q \in Rows \cup {p} |-> IF q = p THEN row ELSE photos[q]]
WithoutRow(p)   == [q \in Rows \ {p} |-> photos[q]]
NoRows          == [p \in {} |-> None]

\* os.RemoveAll of one photo's directory.
RemovePhoto(p) == disk' = [disk EXCEPT ![p] = NoFiles]

(***************************************************************************)
(* A request in flight: hash is what it will write to the row, file what   *)
(* it stores (None for a call that changes metadata only), isNew that it   *)
(* inserts the row.  An ended request keeps nothing.                       *)
(***************************************************************************)
Call == [pc    : {"idle", "lookup", "hide", "commit", "write", "undo", "kick",
                  "erase", "dropAlbum", "eraseAlbum", "done"},
         id    : PhotoIds \cup {None},
         lr    : LrIds \cup {None},
         file  : Contents \cup {None},
         hash  : Contents \cup {None},
         isNew : BOOLEAN]

At(pc) == [pc |-> pc, id |-> None, lr |-> None, file |-> None, hash |-> None,
           isNew |-> FALSE]

Becomes(r, call) == req' = [req EXCEPT ![r] = call]
Goto(r, pc)      == req' = [req EXCEPT ![r].pc = pc]
End(r)           == Becomes(r, At("done"))

InFlight(r) == req[r].pc \notin {"idle", "done"}

Init ==
  /\ album = TRUE
  /\ photos = [p \in DOMAIN StoredPhotos |->
                 [lr |-> StoredPhotos[p], hash |-> StoredContent, ready |-> TRUE]]
  /\ disk = [p \in PhotoIds |->
               [f \in Files |->
                  IF p \in DOMAIN StoredPhotos /\ f \in Produced(StoredContent) \cup {Original}
                  THEN StoredContent ELSE None]]
  /\ fresh = PhotoIds \ DOMAIN StoredPhotos
  /\ req = [r \in Requests |-> At("idle")]
  /\ wake = TRUE        \* newVariantWorker kicks itself
  /\ wpc = "wait" /\ queue = {} /\ job = NoJob /\ unrendered = {}
  /\ staged = NoStaged /\ failed = {}
  /\ leftover = {} /\ stored = {} /\ restarts = 0 /\ faults = 0

-----------------------------------------------------------------------------
(***************************************************************************)
(* Uploads and replacements (publish_photos.go).                           *)
(***************************************************************************)

\* Where ingest goes once the target row is known: a call without a file
\* writes metadata at once, a replacement hides the photo first.
AfterTarget(call) == IF call.file = None THEN "write"
                     ELSE IF call.isNew THEN "commit" ELSE "hide"

Ingest(r, call) == Becomes(r, [call EXCEPT !.pc = AfterTarget(call)])

\* The hash ingest writes: the new file's, or the one the row had when the
\* request read it.
NoFileNoHash(file, known) == file   \* mutant: metadata alone blanks the hash
HashToWrite(file, known) == IF file # None THEN file ELSE known

\* POST .../photos: the album is looked up, then the body is read.
UploadPhoto(r) ==
  /\ req[r].pc = "idle" /\ album
  /\ \E lr \in LrIds, file \in Contents \cup {None} :
        Becomes(r, [At("lookup") EXCEPT !.lr = lr, !.file = file])
  /\ UNCHANGED <<table, disk, fresh, wake, worker, leftover, bounds>>

\* The lr uuid is known: the upload is an update of that row, as read here.
FindPhoto(r) ==
  /\ req[r].pc = "lookup"
  /\ \E p \in Rows :
        /\ photos[p].lr = req[r].lr
        /\ Ingest(r, [req[r] EXCEPT !.id = p,
                        !.hash = HashToWrite(req[r].file, photos[p].hash)])
  /\ UNCHANGED <<table, disk, fresh, wake, worker, leftover, bounds>>

\* The lr uuid is unknown: a new id is drawn, or the call without a file refused.
DrawId(r) ==
  /\ req[r].pc = "lookup"
  /\ \A p \in Rows : photos[p].lr # req[r].lr
  /\ IF req[r].file = None
     THEN End(r) /\ UNCHANGED fresh
     ELSE \E p \in fresh :
            /\ fresh' = fresh \ {p}
            /\ Ingest(r, [req[r] EXCEPT !.id = p, !.hash = req[r].file, !.isNew = TRUE])
  /\ UNCHANGED <<table, disk, wake, worker, leftover, bounds>>

\* PUT .../photos/{photo_id}: the row is read before the body.
ReplacePhoto(r) ==
  /\ req[r].pc = "idle" /\ album
  /\ \E p \in Rows, file \in Contents \cup {None} :
        Ingest(r, [At("idle") EXCEPT !.id = p, !.file = file,
                     !.hash = HashToWrite(file, photos[p].hash)])
  /\ UNCHANGED <<table, disk, fresh, wake, worker, leftover, bounds>>

MarkVariantsPending(r) ==
  /\ req[r].pc = "hide"
  /\ IF req[r].id \in Rows
     THEN photos' = [photos EXCEPT ![req[r].id].ready = FALSE] /\ Goto(r, "commit")
     ELSE UNCHANGED photos /\ End(r)
  /\ UNCHANGED <<album, disk, fresh, wake, worker, leftover, bounds>>

CommitOriginal(r) ==
  /\ req[r].pc = "commit"
  /\ disk' = [disk EXCEPT ![req[r].id][Original] = req[r].file]
  /\ stored' = stored \cup ({[id |-> req[r].id, hash |-> req[r].file]} \cap (queue \cup {job}))
  /\ Goto(r, "write")
  /\ UNCHANGED <<table, fresh, wake, worker, leftover, restarts, faults>>

\* What the album_id foreign key and UNIQUE(album_id, lr_photo_uuid) demand.
Insertable(lr) == album /\ \A p \in Rows : photos[p].lr # lr

\* A new row is pending; one that is refused has its files taken back.
InsertPhoto(r) ==
  /\ req[r].pc = "write" /\ req[r].isNew
  /\ IF Insertable(req[r].lr)
     THEN /\ photos' = WithRow(req[r].id, [lr |-> req[r].lr, hash |-> req[r].hash, ready |-> FALSE])
          /\ Goto(r, "kick")
     ELSE UNCHANGED photos /\ Goto(r, "undo")
  /\ UNCHANGED <<album, disk, fresh, wake, worker, leftover, bounds>>

\* A row that is gone leaves the committed original to gc.
AbandonIfGone(r) ==
  leftover' = IF req[r].id \notin Rows /\ req[r].file # None
              THEN leftover \cup {req[r].id} ELSE leftover

\* Mutant: the update inserts a row it does not find.
UpsertPhoto(r) ==
  /\ req[r].pc = "write" /\ ~req[r].isNew
  /\ photos' = IF req[r].id \in Rows
               THEN [photos EXCEPT ![req[r].id].hash = req[r].hash]
               ELSE WithRow(req[r].id, [lr |-> req[r].lr, hash |-> req[r].hash, ready |-> FALSE])
  /\ IF req[r].file = None THEN End(r) ELSE Goto(r, "kick")
  /\ UNCHANGED <<album, disk, fresh, wake, worker, leftover, bounds>>

\* The row takes the request's hash and metadata; whether it is ready stays.
UpdatePhoto(r) ==
  /\ req[r].pc = "write" /\ ~req[r].isNew
  /\ IF req[r].id \in Rows
     THEN /\ photos' = [photos EXCEPT ![req[r].id].hash = req[r].hash]
          /\ IF req[r].file = None THEN End(r) ELSE Goto(r, "kick")
     ELSE UNCHANGED photos /\ End(r)
  /\ AbandonIfGone(r)
  /\ UNCHANGED <<album, disk, fresh, wake, worker, bounds>>

Kick(r) ==
  /\ req[r].pc = "kick"
  /\ wake' = TRUE
  /\ End(r)
  /\ UNCHANGED <<table, disk, fresh, worker, leftover, bounds>>

\* A rejected body, a client that hung up or an error ends the request where
\* it is, with no statement of that step executed.
Fail(r) ==
  /\ req[r].pc \in {"lookup", "hide", "commit", "write", "dropAlbum"}
  /\ IF req[r].pc = "write" /\ req[r].isNew
     THEN Goto(r, "undo") /\ UNCHANGED leftover
     ELSE /\ End(r)
          /\ IF req[r].pc = "write" THEN AbandonIfGone(r) ELSE UNCHANGED leftover
  /\ UNCHANGED <<table, disk, fresh, wake, worker, bounds>>

RemoveUpload(r) ==
  /\ req[r].pc = "undo"
  /\ RemovePhoto(req[r].id)
  /\ End(r)
  /\ UNCHANGED <<table, fresh, wake, worker, leftover, bounds>>

-----------------------------------------------------------------------------
(***************************************************************************)
(* Deletions: the row first, then the files.                               *)
(***************************************************************************)
DeletePhoto(r) ==
  /\ req[r].pc = "idle"
  /\ \E p \in Rows :
        /\ photos' = WithoutRow(p)
        /\ Becomes(r, [At("erase") EXCEPT !.id = p])
  /\ UNCHANGED <<album, disk, fresh, wake, worker, leftover, bounds>>

RemovePhotoFiles(r) ==
  /\ req[r].pc = "erase"
  /\ RemovePhoto(req[r].id)
  /\ End(r)
  /\ UNCHANGED <<table, fresh, wake, worker, leftover, bounds>>

FindAlbum(r) ==
  /\ req[r].pc = "idle" /\ album
  /\ Goto(r, "dropAlbum")
  /\ UNCHANGED <<table, disk, fresh, wake, worker, leftover, bounds>>

\* The photos' rows go with the album's (ON DELETE CASCADE).  An album that
\* another call deleted meanwhile is no error.
DeleteAlbum(r) ==
  /\ req[r].pc = "dropAlbum"
  /\ album' = FALSE
  /\ photos' = NoRows
  /\ Goto(r, "eraseAlbum")
  /\ UNCHANGED <<disk, fresh, wake, worker, leftover, bounds>>

RemoveAlbumFiles(r) ==
  /\ req[r].pc = "eraseAlbum"
  /\ disk' = [p \in PhotoIds |-> NoFiles]
  /\ End(r)
  /\ UNCHANGED <<table, fresh, wake, worker, leftover, bounds>>

RowlessDirs == {p \in PhotoIds \ Rows : HasFiles(p)}

\* Files that cannot be removed are logged about at most, and left to gc.
RemoveFails(r) ==
  /\ req[r].pc \in {"undo", "erase", "eraseAlbum"}
  /\ faults < MaxFaults /\ faults' = faults + 1
  /\ leftover' = leftover \cup IF req[r].pc = "eraseAlbum" THEN RowlessDirs ELSE {req[r].id}
  /\ End(r)
  /\ UNCHANGED <<table, disk, fresh, wake, worker, stored, restarts>>

-----------------------------------------------------------------------------
(***************************************************************************)
(* The variant worker (variants.go).  The rows with variants_ready = 0 are *)
(* its queue; a drain works through a snapshot of them.  Snapshots are     *)
(* taken in any order: updated_at is not modelled.                         *)
(***************************************************************************)
StartDrain ==
  /\ wpc = "wait"
  /\ wpc' = "list"
  /\ UNCHANGED <<table, disk, fresh, req, queue, job, unrendered, staged, leftover, bounds>>

WakeUp == StartDrain /\ wake /\ wake' = FALSE /\ UNCHANGED failed

\* Mutant: the tick does not forget the failures.
TickOnly == StartDrain /\ UNCHANGED <<failed, wake>>

\* Every retryInterval.
Tick == StartDrain /\ failed' = {} /\ UNCHANGED wake

PendingSnapshots == {[id |-> p, hash |-> photos[p].hash] : p \in Pending}

ListPending ==
  /\ wpc = "list"
  /\ queue' = PendingSnapshots
  /\ stored' = {}
  /\ wpc' = "next"
  /\ UNCHANGED <<table, disk, fresh, req, wake, job, unrendered, staged, failed, leftover, restarts, faults>>

EndDrain ==
  /\ wpc = "next" /\ queue = {}
  /\ wpc' = "wait"
  /\ UNCHANGED <<table, disk, fresh, req, wake, queue, job, unrendered, staged, failed, leftover, bounds>>

\* The next snapshot is skipped when it failed before, else generated.
TakeNext ==
  /\ wpc = "next"
  /\ \E s \in queue :
        /\ queue' = queue \ {s}
        /\ IF s \in failed
           THEN UNCHANGED <<wpc, job, unrendered>>
           ELSE wpc' = "render" /\ job' = s /\ unrendered' = Produced(s.hash)
  /\ UNCHANGED <<table, disk, fresh, req, wake, staged, failed, leftover, bounds>>

\* The snapshot is done with; what is staged and not committed is aborted.
JobDone == wpc' = "next" /\ job' = NoJob /\ unrendered' = {} /\ staged' = NoStaged

\* Each variant is rendered from the original file as it is at that moment.
Render ==
  /\ wpc = "render"
  /\ disk[job.id][Original] # None
  /\ \E v \in unrendered :
        /\ unrendered' = unrendered \ {v}
        /\ staged' = [staged EXCEPT ![v] = disk[job.id][Original]]
        /\ wpc' = IF unrendered = {v} THEN "commit" ELSE "render"
  /\ UNCHANGED <<table, disk, fresh, req, wake, queue, job, failed, leftover, bounds>>

NeverGone  == FALSE  \* mutant: nothing is ever taken back
AlwaysGone == TRUE   \* mutant: a replaced photo counts as gone
PhotoGone  == job.id \notin Rows

\* No original to render from: nothing to do if the row is gone, else a failure.
RenderWithoutOriginal ==
  /\ wpc = "render"
  /\ disk[job.id][Original] = None
  /\ JobDone
  /\ failed' = IF PhotoGone THEN failed ELSE failed \cup {job}
  /\ UNCHANGED <<table, disk, fresh, req, wake, queue, leftover, bounds>>

\* The staged variants are moved into place one by one.
CommitVariant ==
  /\ wpc = "commit"
  /\ \E v \in {u \in Deferred : staged[u] # None} :
        /\ disk' = [disk EXCEPT ![job.id][v] = staged[v]]
        /\ staged' = [staged EXCEPT ![v] = None]
  /\ UNCHANGED <<table, fresh, req, wake, wpc, queue, job, unrendered, failed, leftover, bounds>>

JustProduced(h) == Produced(h)  \* mutant: the condition is negated
Unproduced(h)   == Deferred \ Produced(h)

SomeCommitted == \E v \in Produced(job.hash) : staged[v] = None  \* mutant
AllCommitted  == staged = NoStaged

\* What this original did not produce is removed: large falls back to it.
RemoveUnproduced ==
  /\ wpc = "commit" /\ AllCommitted
  /\ disk' = [disk EXCEPT ![job.id] =
                [f \in Files |-> IF f \in Unproduced(job.hash) THEN None ELSE @[f]]]
  /\ wpc' = "mark"
  /\ UNCHANGED <<table, fresh, req, wake, queue, job, unrendered, staged, failed, leftover, bounds>>

\* The condition of db.MarkVariantsReady: the row still has the snapshot's hash.
StillThere   == job.id \in Rows  \* mutant: the hash is not compared
StillCurrent == job.id \in Rows /\ photos[job.id].hash = job.hash

MarkVariantsReady ==
  /\ wpc = "mark"
  /\ IF StillCurrent
     THEN photos' = [photos EXCEPT ![job.id].ready = TRUE] /\ JobDone
     ELSE wpc' = "takeback" /\ UNCHANGED <<photos, job, unrendered, staged>>
  /\ UNCHANGED <<album, disk, fresh, req, wake, queue, failed, leftover, bounds>>

\* The row did not match.  A photo that is gone had its directory recreated
\* by the commits, and loses it again; one that was replaced is left as it is.
TakeBack ==
  /\ wpc = "takeback"
  /\ IF PhotoGone THEN RemovePhoto(job.id) ELSE UNCHANGED disk
  /\ JobDone
  /\ UNCHANGED <<table, fresh, req, wake, queue, failed, leftover, bounds>>

\* libvips, the disk or the database fails.  Up to the mark that is a failure
\* of the snapshot, which is skipped until the next tick, unless rendering
\* finds its row gone.  Past the first commit no error path takes files back.
GenerateFails ==
  /\ wpc \in {"render", "commit", "mark", "takeback"}
  /\ faults < MaxFaults /\ faults' = faults + 1
  /\ JobDone
  /\ failed' = IF wpc = "takeback" \/ (wpc = "render" /\ PhotoGone)
               THEN failed ELSE failed \cup {job}
  /\ leftover' = IF wpc # "render" /\ job.id \notin Rows
                 THEN leftover \cup {job.id} ELSE leftover
  /\ UNCHANGED <<table, disk, fresh, req, wake, queue, stored, restarts>>

ListFails ==
  /\ wpc = "list"
  /\ faults < MaxFaults /\ faults' = faults + 1
  /\ wpc' = "wait"
  /\ UNCHANGED <<table, disk, fresh, req, wake, queue, job, unrendered, staged, failed, leftover, stored, restarts>>

-----------------------------------------------------------------------------
(***************************************************************************)
(* The process (cmd/smugbox/main.go).  On shutdown the worker stops        *)
(* between two photos while requests still finish; a crash may come at any *)
(* step.  Either way the next start begins with the table, the files and   *)
(* a kick.                                                                 *)
(***************************************************************************)
Stop ==
  /\ wpc \in {"wait", "next"}
  /\ restarts < MaxRestarts
  /\ wpc' = "stopped" /\ queue' = {}
  /\ UNCHANGED <<table, disk, fresh, req, wake, job, unrendered, staged, failed, leftover, bounds>>

Restart ==
  /\ restarts < MaxRestarts /\ restarts' = restarts + 1
  /\ req' = [r \in Requests |-> IF InFlight(r) THEN At("done") ELSE req[r]]
  /\ wake' = TRUE /\ wpc' = "wait" /\ queue' = {} /\ job' = NoJob
  /\ unrendered' = {} /\ staged' = NoStaged /\ failed' = {}
  /\ leftover' = leftover \cup RowlessDirs
  /\ UNCHANGED <<table, disk, fresh, stored, faults>>

-----------------------------------------------------------------------------
Upload(r) == FindPhoto(r) \/ DrawId(r)

Store(r) == \/ MarkVariantsPending(r) \/ CommitOriginal(r) \/ InsertPhoto(r)
            \/ UpdatePhoto(r) \/ Kick(r) \/ Fail(r) \/ RemoveUpload(r)

Generate == \/ Render \/ RenderWithoutOriginal \/ CommitVariant
            \/ RemoveUnproduced \/ MarkVariantsReady \/ TakeBack

\* The worker with nothing failing and nobody stopping it.
WorkerStep == WakeUp \/ Tick \/ ListPending \/ EndDrain \/ TakeNext \/ Generate

Next == \/ \E r \in Posts : UploadPhoto(r) \/ Upload(r) \/ Store(r)
        \/ \E r \in Puts : ReplacePhoto(r) \/ Store(r)
        \/ \E r \in Deletes : DeletePhoto(r) \/ RemovePhotoFiles(r)
        \/ \E r \in AlbumDeletes : \/ FindAlbum(r) \/ DeleteAlbum(r) \/ Fail(r)
                                  \/ RemoveAlbumFiles(r)
        \/ \E r \in Requests : RemoveFails(r)
        \/ WorkerStep
        \/ GenerateFails \/ ListFails
        \/ Stop \/ Restart

Spec == Init /\ [][Next]_vars

(***************************************************************************)
(* The worker's goroutine keeps running and its ticker keeps ticking; a    *)
(* stopped server is started again.  Nothing is asked of the requests: a   *)
(* client may stall for ever.                                              *)
(***************************************************************************)
FairSpec == Spec /\ WF_vars(WorkerStep) /\ WF_vars(wpc = "stopped" /\ Restart)

-----------------------------------------------------------------------------
(***************************************************************************)
(* Properties.                                                             *)
(***************************************************************************)

\* The types of the variables.
TypeOK ==
  /\ album \in BOOLEAN
  /\ Rows \subseteq PhotoIds
  /\ photos \in [Rows -> Row]
  /\ disk \in [PhotoIds -> [Files -> Contents \cup {None}]]
  /\ fresh \subseteq PhotoIds
  /\ req \in [Requests -> Call]
  /\ wake \in BOOLEAN
  /\ wpc \in {"wait", "list", "next", "render", "commit", "mark", "takeback", "stopped"}
  /\ queue \subseteq Snapshot
  /\ job \in Snapshot \cup {NoJob}
  /\ unrendered \subseteq Deferred
  /\ staged \in [Deferred -> Contents \cup {None}]
  /\ failed \subseteq Snapshot
  /\ leftover \subseteq PhotoIds /\ stored \subseteq Snapshot
  /\ restarts \in 0..MaxRestarts /\ faults \in 0..MaxFaults

\* Every row has its original on disk, so the worker, a download and the
\* fallback of the large variant always find it: no undo, deletion, take-back
\* or restart ever removes the files of a photo that has a row.
RowHasOriginal == \A p \in Rows : disk[p][Original] # None

\* What visitors see can be served: a photo that is ready has the variants
\* every original produces (large falls back to the original), whatever
\* replacements, failures and restarts did to its directory.
AlwaysProduced == Deferred \ {Large}

VisibleIsServable ==
  \A p \in Rows : photos[p].ready => \A v \in AlwaysProduced : disk[p][v] # None

\* A directory without a row has somebody who is about to insert the row or
\* to remove the directory: the upload that created it, the deletion that
\* took its row, or the worker whose commits recreated it.  All others are
\* left to gc knowingly: by a replacement whose row was deleted underneath
\* it, by a removal or a generation that failed, or by a restart.
InCharge(r, p) ==
  /\ req[r].id = p
  /\ req[r].pc \in {"undo", "erase"} \/ (req[r].pc = "write" /\ req[r].file # None)

FilesHaveAnOwner ==
  \A p \in RowlessDirs :
     \/ p \in leftover
     \/ \E r \in Requests : InCharge(r, p) \/ req[r].pc = "eraseAlbum"
     \/ job.id = p /\ wpc \in {"commit", "mark", "takeback"}

\* When the worker shows a photo whose row names the stored original, all its
\* variants show that original as well: variants generated from a file that
\* has since been replaced never mark the new one ready.  One excuse: the
\* snapshot's own file was stored again after the snapshot was taken (A-B-A).
ShownVariantsAreCurrent ==
  [][\A p \in Rows \cap DOMAIN photos' :
       ~photos[p].ready /\ photos'[p].ready =>
         LET h == photos[p].hash
         IN  disk[p][Original] = h /\ [id |-> p, hash |-> h] \notin stored =>
               \A v \in Deferred : disk[p][v] \in {h, None}]_vars

\* The photo ids live as PhotoLifecycle promises: shown only after having
\* been stored, and never again once gone, whoever still works on them.
Promised(p) == \E r \in Requests : /\ req[r].id = p /\ req[r].isNew
                                   /\ req[r].pc \in {"commit", "write"}

Life == [p \in PhotoIds |->
           CASE p \in Pending -> "pending"
             [] p \in Rows \ Pending -> "visible"
             [] p \notin Rows /\ (p \in fresh \/ Promised(p)) -> "absent"
             [] OTHER -> "gone"]

Lifecycle == INSTANCE PhotoLifecycle WITH life <- Life

LivesAsPromised == Lifecycle!Spec

\* A stored photo does not stay hidden: the worker shows it, unless it is
\* deleted, even if requests stall after hiding it, kicks are lost with the
\* process and rendering fails now and then.
PendingIsShown == \A p \in PhotoIds : p \in Pending ~> p \notin Pending

Quiet == wpc = "wait" /\ ~wake /\ \A r \in Requests : ~InFlight(r)

\* A photo is hidden while its stored variants describe the old original, and
\* shown again once they are regenerated (the comment in ingest): when nothing
\* is in flight and the row names the stored original, a visible photo's
\* variants show that original.
VisibleShowsOriginal ==
  Quiet => \A p \in Rows :
             photos[p].ready /\ photos[p].hash = disk[p][Original] =>
               \A v \in Deferred : disk[p][v] \in {disk[p][Original], None}

\* When a snapshot no longer matches its row and the photo is not gone, the
\* original was replaced and the replacing request kicks again (the comment in
\* generate): there is a kick, or a request that has still to give it.
MismatchIsKicked ==
  wpc = "takeback" /\ ~PhotoGone =>
    \/ wake
    \/ \E r \in Requests : req[r].id = job.id /\ req[r].file # None
=============================================================================
