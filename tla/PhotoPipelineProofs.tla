------------------------ MODULE PhotoPipelineProofs ------------------------
(***************************************************************************)
(* Proofs about PhotoPipeline: type correctness and the safety invariants, *)
(* for any number of photos, requests, restarts and faults.                *)
(*                                                                         *)
(* None of the invariants is inductive by itself.  What holds them up is a *)
(* discipline of ids: an id is drawn once, the upload that drew it is      *)
(* alone in knowing it until the row is inserted, and an id that lost its  *)
(* row never gets one again.  So nobody who removes files by id (an undo,  *)
(* a deletion, the worker's take-back) can remove those of a row.  Beside  *)
(* it the invariant follows one generation: which variants are rendered,   *)
(* staged and in place at each point of it, and what they show.            *)
(***************************************************************************)
EXTENDS PhotoPipeline, TLAPS

\* The table and the files have their types.
TableType ==
  /\ album \in BOOLEAN
  /\ Rows \subseteq PhotoIds
  /\ photos \in [Rows -> Row]
  /\ disk \in [PhotoIds -> [Files -> Contents \cup {None}]]
  /\ fresh \subseteq PhotoIds
  /\ wake \in BOOLEAN
  /\ leftover \subseteq PhotoIds /\ stored \subseteq Snapshot
  /\ restarts \in 0..MaxRestarts /\ faults \in 0..MaxFaults

\* What a call knows at each step, beyond its type.
Shape(c) ==
  /\ c.pc \in {"hide", "commit", "write", "undo", "kick", "erase"} => c.id \in PhotoIds
  /\ c.pc \in {"hide", "commit", "write", "kick"} => c.hash \in Contents
  /\ c.pc \in {"hide", "commit"} => c.file \in Contents
  /\ c.pc \in {"idle", "lookup", "hide", "erase"} => ~c.isNew
  /\ c.pc = "lookup" \/ c.isNew => c.lr \in LrIds
  /\ c.pc = "undo" => c.isNew
  /\ c.isNew => c.file \in Contents

RequestType ==
  /\ req \in [Requests -> Call]
  /\ \A r \in Requests : Shape(req[r])

\* The worker holds a snapshot exactly while it generates from it, and staged
\* variants at most until they are committed.
WorkerType ==
  /\ wpc \in {"wait", "list", "next", "render", "commit", "mark", "takeback", "stopped"}
  /\ queue \subseteq Snapshot
  /\ IF wpc \in {"render", "commit", "mark", "takeback"} THEN job \in Snapshot ELSE job = NoJob
  /\ unrendered \subseteq Deferred
  /\ staged \in [Deferred -> Contents \cup {None}]
  /\ wpc \notin {"render", "commit"} => staged = NoStaged
  /\ failed \subseteq Snapshot

TypeInv == TableType /\ RequestType /\ WorkerType

\* An id in use was drawn.
Drawn ==
  /\ Rows \cap fresh = {}
  /\ \A r \in Requests : req[r].id \notin fresh
  /\ \A s \in queue : s.id \notin fresh
  /\ job.id \notin fresh

\* The id of an upload whose row is still to be inserted, or was refused.
Private(r) == req[r].isNew /\ req[r].pc \in {"commit", "write", "undo"}

PrivateIds ==
  \A r \in Requests : Private(r) =>
    /\ req[r].id \notin Rows
    /\ \A q \in Requests \ {r} : req[q].id # req[r].id
    /\ \A s \in queue : s.id # req[r].id
    /\ job.id # req[r].id

\* What a deletion has taken from the table is not in it again.
DeletedStaysOut ==
  /\ \A r \in Requests : req[r].pc = "erase" => req[r].id \notin Rows
  /\ \A r \in Requests : req[r].pc = "eraseAlbum" => ~album
  /\ ~album => Rows = {}

Ids == Drawn /\ PrivateIds /\ DeletedStaysOut

\* An upload about to insert its row has its original in place, unless the
\* album was deleted, which makes the insert fail.
UploadHasOriginal ==
  \A r \in Requests : req[r].isNew /\ req[r].pc = "write" /\ album =>
                         disk[req[r].id][Original] # None

Originals == RowHasOriginal /\ UploadHasOriginal

\* Every variant an original always has is on its way to the directory of the
\* photo the worker generates, as long as that photo has a row.
Generating ==
  /\ wpc = "render" => \A v \in AlwaysProduced : v \in unrendered \/ staged[v] # None
  /\ wpc \in {"commit", "mark"} /\ job.id \in Rows =>
       \A v \in AlwaysProduced :
          disk[job.id][v] # None \/ (wpc = "commit" /\ staged[v] # None)

Variants == VisibleIsServable /\ Generating

\* While the photo being generated has the original its snapshot names, and
\* that file was not stored again since, whatever was rendered shows it.
JobIsCurrent ==
  /\ wpc \in {"render", "commit", "mark"} /\ job.id \in Rows
  /\ disk[job.id][Original] = job.hash /\ job \notin stored

CurrentVariants ==
  JobIsCurrent => \A v \in Deferred :
    /\ staged[v] \in {job.hash, None}
    /\ wpc = "render" /\ v \in Produced(job.hash) => v \in unrendered \/ staged[v] = job.hash
    /\ wpc = "commit" /\ v \in Produced(job.hash) => staged[v] = job.hash \/ disk[job.id][v] = job.hash
    /\ wpc = "mark" => disk[job.id][v] \in {job.hash, None}

IInv == TypeInv /\ Ids /\ Originals /\ Variants /\ FilesHaveAnOwner /\ CurrentVariants

-----------------------------------------------------------------------------
(***************************************************************************)
(* Which actions change the table, the files and what is left over.        *)
(***************************************************************************)

\* A step leaves the table alone or is one of the statements that write it.
LEMMA TableFrame ==
  ASSUME [Next]_vars
  PROVE  \/ UNCHANGED table
         \/ \E r \in Requests : \/ MarkVariantsPending(r) \/ InsertPhoto(r) \/ UpdatePhoto(r)
                                \/ DeletePhoto(r) \/ DeleteAlbum(r)
         \/ MarkVariantsReady
BY DEF Next, RemoveFails, Upload, Store, WorkerStep, Generate, WakeUp, Tick, StartDrain, ListPending, EndDrain,
       TakeNext, Render, RenderWithoutOriginal, CommitVariant, RemoveUnproduced, TakeBack,
       GenerateFails, ListFails, Stop, Restart, vars, Requests,
       UploadPhoto, FindPhoto, DrawId, ReplacePhoto, CommitOriginal, Kick, Fail, RemoveUpload,
       RemovePhotoFiles, FindAlbum, RemoveAlbumFiles

\* A step leaves the files alone or is one of the operations on them.
LEMMA DiskFrame ==
  ASSUME [Next]_vars
  PROVE  \/ UNCHANGED disk
         \/ \E r \in Requests : \/ CommitOriginal(r) \/ RemoveUpload(r)
                                \/ RemovePhotoFiles(r) \/ RemoveAlbumFiles(r)
         \/ CommitVariant \/ RemoveUnproduced \/ TakeBack
BY DEF Next, RemoveFails, Upload, Store, WorkerStep, Generate, WakeUp, Tick, StartDrain, ListPending, EndDrain,
       TakeNext, Render, RenderWithoutOriginal, MarkVariantsReady, GenerateFails, ListFails,
       Stop, Restart, vars, Requests,
       UploadPhoto, FindPhoto, DrawId, ReplacePhoto, MarkVariantsPending, InsertPhoto, UpdatePhoto,
       Kick, Fail, DeletePhoto, FindAlbum, DeleteAlbum

\* A step leaves the worker alone or is one of its own.
LEMMA WorkerFrame ==
  ASSUME [Next]_vars
  PROVE  UNCHANGED worker \/ WorkerStep \/ GenerateFails \/ ListFails \/ Stop \/ Restart
BY DEF Next, RemoveFails, Upload, Store, vars,
       UploadPhoto, FindPhoto, DrawId, ReplacePhoto, MarkVariantsPending, CommitOriginal, InsertPhoto,
       UpdatePhoto, Kick, Fail, RemoveUpload, DeletePhoto, RemovePhotoFiles, FindAlbum, DeleteAlbum,
       RemoveAlbumFiles

\* What a request may do.
Acts(r) ==
  \/ UploadPhoto(r) \/ FindPhoto(r) \/ DrawId(r) \/ ReplacePhoto(r) \/ Store(r)
  \/ DeletePhoto(r) \/ RemovePhotoFiles(r)
  \/ FindAlbum(r) \/ DeleteAlbum(r) \/ RemoveAlbumFiles(r) \/ RemoveFails(r)

\* A step leaves the requests alone, or is one of theirs, or a restart.
LEMMA RequestFrame ==
  ASSUME [Next]_vars
  PROVE  \/ UNCHANGED req
         \/ \E r \in Requests : Acts(r)
         \/ Restart
BY DEF Acts, Next, Upload, Store, Requests, WorkerStep, Generate, WakeUp, Tick, StartDrain, ListPending, EndDrain,
       TakeNext, Render, RenderWithoutOriginal, CommitVariant, RemoveUnproduced,
       MarkVariantsReady, TakeBack, GenerateFails, ListFails, Stop, vars

\* Steps only count restarts and faults up, within their bounds.
LEMMA BoundsFrame ==
  ASSUME [Next]_vars
  PROVE  /\ restarts' = restarts \/ (restarts < MaxRestarts /\ restarts' = restarts + 1)
         /\ faults' = faults \/ (faults < MaxFaults /\ faults' = faults + 1)
BY DEF Next, RemoveFails, Upload, Store, WorkerStep, Generate, WakeUp, Tick, StartDrain, ListPending, EndDrain,
       TakeNext, Render, RenderWithoutOriginal, CommitVariant, RemoveUnproduced,
       MarkVariantsReady, TakeBack, GenerateFails, ListFails, Stop, Restart, vars, bounds, Requests,
       UploadPhoto, FindPhoto, DrawId, ReplacePhoto, MarkVariantsPending, CommitOriginal, InsertPhoto,
       UpdatePhoto, Kick, Fail, RemoveUpload, DeletePhoto, RemovePhotoFiles, FindAlbum, DeleteAlbum,
       RemoveAlbumFiles

\* Ids are only taken from fresh, and few actions leave something over.
LEMMA RestFrame ==
  ASSUME [Next]_vars
  PROVE  /\ wake' \in {wake, TRUE, FALSE}
         /\ fresh' \subseteq fresh
         /\ \/ UNCHANGED leftover
            \/ \E r \in Requests : (req[r].pc = "write" /\ AbandonIfGone(r)) \/ RemoveFails(r)
            \/ GenerateFails \/ Restart
BY DEF Next, RemoveFails, Upload, Store, WorkerStep, Generate, WakeUp, Tick, StartDrain, ListPending, EndDrain,
       TakeNext, Render, RenderWithoutOriginal, CommitVariant, RemoveUnproduced,
       MarkVariantsReady, TakeBack, GenerateFails, ListFails, Stop, Restart, vars, Requests,
       UploadPhoto, FindPhoto, DrawId, ReplacePhoto, MarkVariantsPending, CommitOriginal, InsertPhoto,
       UpdatePhoto, Kick, Fail, RemoveUpload, DeletePhoto, RemovePhotoFiles, FindAlbum, DeleteAlbum,
       RemoveAlbumFiles

\* What is remembered as stored changes with a commit or a new listing.
LEMMA StoredFrame ==
  ASSUME [Next]_vars
  PROVE  UNCHANGED stored \/ (wpc = "list" /\ stored' = {}) \/ \E r \in Requests : CommitOriginal(r)
BY DEF Next, RemoveFails, Upload, Store, WorkerStep, Generate, WakeUp, Tick, StartDrain, ListPending, EndDrain,
       TakeNext, Render, RenderWithoutOriginal, CommitVariant, RemoveUnproduced,
       MarkVariantsReady, TakeBack, GenerateFails, ListFails, Stop, Restart, vars, bounds, Requests,
       UploadPhoto, FindPhoto, DrawId, ReplacePhoto, MarkVariantsPending, InsertPhoto,
       UpdatePhoto, Kick, Fail, RemoveUpload, DeletePhoto, RemovePhotoFiles, FindAlbum, DeleteAlbum,
       RemoveAlbumFiles

-----------------------------------------------------------------------------
(***************************************************************************)
(* The requests' types.                                                    *)
(***************************************************************************)

\* A request record put in place is well typed when its fields are.
LEMMA CallMade ==
  ASSUME RequestType, NEW r \in Requests, NEW c \in Call, Shape(c), Becomes(r, c)
  PROVE  RequestType'
BY DEF RequestType, Becomes, Shape

\* A request that ends leaves a well-typed, well-shaped record behind.
LEMMA Ended ==
  ASSUME RequestType, NEW r \in Requests, End(r)
  PROVE  RequestType'
<1>1. At("done") \in Call /\ Shape(At("done"))
  BY DEF At, Call, Shape
<1>2. QED
  BY <1>1, CallMade DEF End

\* A request that only moves its program counter stays a call.
LEMMA Went ==
  ASSUME RequestType, NEW r \in Requests, NEW pc,
         [req[r] EXCEPT !.pc = pc] \in Call, Shape([req[r] EXCEPT !.pc = pc]),
         Goto(r, pc)
  PROVE  RequestType'
<1>1. Becomes(r, [req[r] EXCEPT !.pc = pc])
  BY DEF Goto, Becomes
<1>2. QED
  BY <1>1, CallMade

\* What Ingest leaves of a typed call is one, with what its step needs.
LEMMA Ingested ==
  ASSUME RequestType, NEW r \in Requests, NEW c \in Call,
         c.id \in PhotoIds, c.hash \in Contents,
         c.isNew => c.lr \in LrIds /\ c.file \in Contents,
         Ingest(r, c)
  PROVE  RequestType'
<1> DEFINE d == [c EXCEPT !.pc = AfterTarget(c)]
<1>1. d \in Call
  BY DEF Call, AfterTarget
<1>2. Shape(d)
  BY DEF Call, Shape, AfterTarget
<1>3. Becomes(r, d)
  BY DEF Ingest
<1> HIDE DEF d
<1>4. QED
  BY <1>1, <1>2, <1>3, CallMade

\* A row read from the table gives a hash to write.
LEMMA HashKnown ==
  ASSUME TableType, NEW p \in Rows, NEW file \in Contents \cup {None}
  PROVE  p \in PhotoIds /\ photos[p] \in Row /\ HashToWrite(file, photos[p].hash) \in Contents
BY ConstantsAssumption DEF TableType, Row, HashToWrite

\* The requests keep their types over every step.
LEMMA RequestTypeStep == TypeInv /\ [Next]_vars => RequestType'
<1> SUFFICES ASSUME TypeInv, [Next]_vars PROVE RequestType'
  OBVIOUS
<1> USE ConstantsAssumption DEF TypeInv
<1>1. ASSUME NEW r \in Requests, UploadPhoto(r) PROVE RequestType'
  <2>1. PICK lr \in LrIds, file \in Contents \cup {None} :
           Becomes(r, [At("lookup") EXCEPT !.lr = lr, !.file = file])
    BY <1>1 DEF UploadPhoto
  <2> DEFINE c == [At("lookup") EXCEPT !.lr = lr, !.file = file]
  <2>2. c \in Call /\ Shape(c)
    BY DEF At, Call, Shape
  <2> HIDE DEF c
  <2>3. QED
    BY <2>1, <2>2, CallMade DEF c
<1>2. ASSUME NEW r \in Requests, FindPhoto(r) PROVE RequestType'
  <2>1. PICK p \in Rows : Ingest(r, [req[r] EXCEPT !.id = p,
                            !.hash = HashToWrite(req[r].file, photos[p].hash)])
    BY <1>2 DEF FindPhoto
  <2> DEFINE c == [req[r] EXCEPT !.id = p, !.hash = HashToWrite(req[r].file, photos[p].hash)]
  <2>2. req[r] \in Call /\ ~req[r].isNew
    BY <1>2 DEF FindPhoto, RequestType, Shape
  <2>3. p \in PhotoIds /\ HashToWrite(req[r].file, photos[p].hash) \in Contents
    BY <2>2, HashKnown DEF Call
  <2>4. c \in Call /\ c.id \in PhotoIds /\ c.hash \in Contents /\ ~c.isNew
    BY <2>2, <2>3 DEF Call
  <2> HIDE DEF c
  <2>5. QED
    BY <2>1, <2>4, Ingested DEF c
<1>3. ASSUME NEW r \in Requests, DrawId(r) PROVE RequestType'
  <2>1. CASE req[r].file = None
    BY <1>3, <2>1, Ended DEF DrawId
  <2>2. CASE req[r].file # None
    <3>1. PICK p \in fresh :
            Ingest(r, [req[r] EXCEPT !.id = p, !.hash = req[r].file, !.isNew = TRUE])
      BY <1>3, <2>2 DEF DrawId
    <3> DEFINE c == [req[r] EXCEPT !.id = p, !.hash = req[r].file, !.isNew = TRUE]
    <3>2. req[r] \in Call /\ req[r].lr \in LrIds /\ req[r].file \in Contents
      BY <1>3, <2>2 DEF DrawId, RequestType, Shape, Call
    <3>3. p \in PhotoIds
      BY DEF TableType
    <3>4. c \in Call /\ c.id \in PhotoIds /\ c.hash \in Contents
             /\ c.lr \in LrIds /\ c.file \in Contents
      BY <3>2, <3>3 DEF Call
    <3> HIDE DEF c
    <3>5. QED
      BY <3>1, <3>4, Ingested DEF c
  <2>3. QED
    BY <2>1, <2>2
<1>4. ASSUME NEW r \in Requests, ReplacePhoto(r) PROVE RequestType'
  <2>1. PICK p \in Rows, file \in Contents \cup {None} :
           Ingest(r, [At("idle") EXCEPT !.id = p, !.file = file,
                        !.hash = HashToWrite(file, photos[p].hash)])
    BY <1>4 DEF ReplacePhoto
  <2> DEFINE c == [At("idle") EXCEPT !.id = p, !.file = file,
                        !.hash = HashToWrite(file, photos[p].hash)]
  <2>2. p \in PhotoIds /\ HashToWrite(file, photos[p].hash) \in Contents
    BY HashKnown
  <2>3. c \in Call /\ c.id \in PhotoIds /\ c.hash \in Contents /\ ~c.isNew
    BY <2>2 DEF Call, At
  <2> HIDE DEF c
  <2>4. QED
    BY <2>1, <2>3, Ingested DEF c
<1>5. ASSUME NEW r \in Requests, NEW pc, Goto(r, pc),
             <<req[r].pc, pc>> \in {<<"hide", "commit">>, <<"commit", "write">>,
                 <<"write", "kick">>, <<"idle", "dropAlbum">>, <<"dropAlbum", "eraseAlbum">>}
      PROVE  RequestType'
  <2>1. [req[r] EXCEPT !.pc = pc] \in Call
    BY <1>5 DEF RequestType, Call
  <2>2. Shape([req[r] EXCEPT !.pc = pc])
    BY <1>5 DEF RequestType, Call, Shape
  <2>3. QED
    BY <1>5, <2>1, <2>2, Went
<1>6. ASSUME NEW r \in Requests, req[r].pc = "write", req[r].isNew, Goto(r, "undo")
      PROVE  RequestType'
  <2>1. [req[r] EXCEPT !.pc = "undo"] \in Call
    BY <1>6 DEF RequestType, Call
  <2>2. Shape([req[r] EXCEPT !.pc = "undo"])
    BY <1>6 DEF RequestType, Call, Shape
  <2>3. QED
    BY <1>6, <2>1, <2>2, Went
<1>7. ASSUME NEW r \in Requests, Store(r) PROVE RequestType'
  <2>1. CASE MarkVariantsPending(r)
    BY <2>1, <1>5, Ended DEF MarkVariantsPending
  <2>2. CASE CommitOriginal(r)
    BY <2>2, <1>5 DEF CommitOriginal
  <2>3. CASE InsertPhoto(r)
    BY <2>3, <1>5, <1>6 DEF InsertPhoto
  <2>4. CASE UpdatePhoto(r)
    BY <2>4, <1>5, Ended DEF UpdatePhoto
  <2>5. CASE Kick(r)
    BY <2>5, Ended DEF Kick
  <2>6. CASE Fail(r)
    BY <2>6, <1>6, Ended DEF Fail
  <2>7. CASE RemoveUpload(r)
    BY <2>7, Ended DEF RemoveUpload
  <2>8. QED
    BY <1>7, <2>1, <2>2, <2>3, <2>4, <2>5, <2>6, <2>7 DEF Store
<1>8. ASSUME NEW r \in Requests, DeletePhoto(r) PROVE RequestType'
  <2>1. PICK p \in Rows : Becomes(r, [At("erase") EXCEPT !.id = p])
    BY <1>8 DEF DeletePhoto
  <2> DEFINE c == [At("erase") EXCEPT !.id = p]
  <2>2. c \in Call /\ Shape(c)
    BY DEF At, Call, Shape, TableType
  <2> HIDE DEF c
  <2>3. QED
    BY <2>1, <2>2, CallMade DEF c
<1>9. ASSUME NEW r \in Requests, RemovePhotoFiles(r) PROVE RequestType'
  BY <1>9, Ended DEF RemovePhotoFiles
<1>10. ASSUME NEW r \in Requests, FindAlbum(r) PROVE RequestType'
  BY <1>10, <1>5 DEF FindAlbum
<1>11. ASSUME NEW r \in Requests, DeleteAlbum(r) PROVE RequestType'
  BY <1>11, <1>5 DEF DeleteAlbum
<1>12. ASSUME NEW r \in Requests, RemoveAlbumFiles(r) PROVE RequestType'
  BY <1>12, Ended DEF RemoveAlbumFiles
<1>13. CASE Restart
  <2>1. At("done") \in Call /\ Shape(At("done"))
    BY DEF At, Call, Shape
  <2>2. QED
    BY <1>13, <2>1 DEF Restart, RequestType, Shape
<1>14. ASSUME NEW r \in Requests, RemoveFails(r) PROVE RequestType'
  BY <1>14, Ended DEF RemoveFails
<1>15. CASE UNCHANGED req
  BY <1>15 DEF RequestType, Shape
<1>16. QED
  BY RequestFrame, <1>1, <1>2, <1>3, <1>4, <1>7, <1>8, <1>9, <1>10, <1>11, <1>12, <1>13, <1>14, <1>15 DEF Acts

-----------------------------------------------------------------------------
(***************************************************************************)
(* The worker's types.                                                     *)
(***************************************************************************)

\* JobDone leaves the worker well typed.
LEMMA JobDoneType ==
  ASSUME JobDone, queue' \subseteq Snapshot, failed' \subseteq Snapshot
  PROVE  WorkerType'
BY DEF JobDone, WorkerType, NoStaged

\* The worker's variables keep their types over every step.
LEMMA WorkerTypeStep == TypeInv /\ [Next]_vars => WorkerType'
<1> SUFFICES ASSUME TypeInv, [Next]_vars PROVE WorkerType'
  OBVIOUS
<1> USE ConstantsAssumption DEF TypeInv
<1>1. CASE UNCHANGED worker
  BY <1>1 DEF worker, WorkerType
<1>2. ASSUME StartDrain, failed' \in {failed, {}} PROVE WorkerType'
  BY <1>2 DEF StartDrain, WorkerType
<1>3. CASE ListPending
  <2>1. PendingSnapshots \subseteq Snapshot
    <3>1. ASSUME NEW p \in Pending PROVE [id |-> p, hash |-> photos[p].hash] \in Snapshot
      BY DEF Pending, TableType, Row, Snapshot
    <3>2. QED
      BY <3>1 DEF PendingSnapshots
  <2>2. QED
    BY <1>3, <2>1 DEF ListPending, WorkerType
<1>4. CASE EndDrain
  BY <1>4 DEF EndDrain, WorkerType
<1>5. CASE TakeNext
  BY <1>5 DEF TakeNext, WorkerType, Produced
<1>6. CASE Render
  <2>1. job \in Snapshot /\ job.id \in PhotoIds
    BY <1>6 DEF Render, WorkerType, Snapshot
  <2>2. disk[job.id][Original] \in Contents \cup {None}
    BY <2>1 DEF TableType, Files
  <2>3. QED
    BY <1>6, <2>1, <2>2 DEF Render, WorkerType
<1>7. CASE RenderWithoutOriginal
  BY <1>7, JobDoneType DEF RenderWithoutOriginal, WorkerType
<1>8. CASE CommitVariant
  BY <1>8 DEF CommitVariant, WorkerType
<1>9. CASE RemoveUnproduced
  BY <1>9 DEF RemoveUnproduced, AllCommitted, WorkerType
<1>10. CASE MarkVariantsReady
  BY <1>10, JobDoneType DEF MarkVariantsReady, WorkerType
<1>11. CASE TakeBack
  BY <1>11, JobDoneType DEF TakeBack, WorkerType
<1>12. CASE GenerateFails
  BY <1>12, JobDoneType DEF GenerateFails, WorkerType
<1>13. CASE ListFails
  BY <1>13 DEF ListFails, WorkerType
<1>14. CASE Stop
  BY <1>14 DEF Stop, WorkerType
<1>15. CASE Restart
  BY <1>15 DEF Restart, WorkerType, NoStaged
<1>16. QED
  BY WorkerFrame, <1>1, <1>2, <1>3, <1>4, <1>5, <1>6, <1>7, <1>8, <1>9, <1>10, <1>11, <1>12, <1>13, <1>14, <1>15
     DEF WorkerStep, Generate, WakeUp, Tick

-----------------------------------------------------------------------------
(***************************************************************************)
(* The types of the table, the files and the rest.                         *)
(***************************************************************************)

\* Every variable of TableType is changed on its own, so each has a lemma.
DiskType == disk \in [PhotoIds -> [Files -> Contents \cup {None}]]

PhotosType == Rows \subseteq PhotoIds /\ photos \in [Rows -> Row]

RestType ==
  /\ album \in BOOLEAN /\ wake \in BOOLEAN
  /\ fresh \subseteq PhotoIds /\ leftover \subseteq PhotoIds /\ stored \subseteq Snapshot
  /\ restarts \in 0..MaxRestarts /\ faults \in 0..MaxFaults

\* What the row functions leave is a table.
LEMMA WithRowType ==
  ASSUME PhotosType, NEW p \in PhotoIds, NEW row \in Row, photos' = WithRow(p, row)
  PROVE  PhotosType' /\ Rows' = Rows \cup {p}
BY DEF PhotosType, Rows, WithRow

\* The table without one of its rows is a table.
LEMMA WithoutRowType ==
  ASSUME PhotosType, NEW p \in Rows, photos' = WithoutRow(p)
  PROVE  PhotosType' /\ Rows' = Rows \ {p}
BY DEF PhotosType, Rows, WithoutRow

\* The empty table is a table.
LEMMA NoRowsType ==
  ASSUME photos' = NoRows
  PROVE  PhotosType' /\ Rows' = {}
BY DEF PhotosType, Rows, NoRows

\* A table stays one when a row's hash or ready flag changes.
LEMMA RowUpdateType ==
  ASSUME PhotosType, NEW p \in Rows, NEW h \in Contents, NEW b \in BOOLEAN,
         \/ photos' = [photos EXCEPT ![p].hash = h]
         \/ photos' = [photos EXCEPT ![p].ready = b]
  PROVE  PhotosType' /\ Rows' = Rows
<1>1. photos[p] \in Row
  BY DEF PhotosType
<1>2. [photos[p] EXCEPT !.hash = h] \in Row /\ [photos[p] EXCEPT !.ready = b] \in Row
  BY <1>1 DEF Row
<1>3. QED
  BY <1>2 DEF PhotosType, Rows

\* The photos table keeps its type over every step.
LEMMA PhotosTypeStep == TypeInv /\ [Next]_vars => PhotosType'
<1> SUFFICES ASSUME TypeInv, [Next]_vars PROVE PhotosType'
  OBVIOUS
<1> USE DEF TypeInv
<1>0. PhotosType
  BY DEF TableType, PhotosType
<1>1. CASE UNCHANGED photos
  BY <1>0, <1>1 DEF PhotosType, Rows
<1>2. ASSUME NEW r \in Requests, MarkVariantsPending(r) PROVE PhotosType'
  BY <1>0, <1>1, <1>2, RowUpdateType DEF MarkVariantsPending, RequestType, Shape, PhotosType, Row
<1>3. ASSUME NEW r \in Requests, InsertPhoto(r) PROVE PhotosType'
  <2>1. CASE Insertable(req[r].lr)
    <3>1. req[r].id \in PhotoIds /\ req[r].hash \in Contents /\ req[r].lr \in LrIds
      BY <1>3 DEF InsertPhoto, RequestType, Shape
    <3>2. [lr |-> req[r].lr, hash |-> req[r].hash, ready |-> FALSE] \in Row
      BY <3>1 DEF Row
    <3>3. QED
      BY <1>0, <1>3, <2>1, <3>1, <3>2, WithRowType DEF InsertPhoto
  <2>2. CASE ~Insertable(req[r].lr)
    BY <1>1, <1>3, <2>2 DEF InsertPhoto
  <2>3. QED
    BY <2>1, <2>2
<1>4. ASSUME NEW r \in Requests, UpdatePhoto(r) PROVE PhotosType'
  <2>1. req[r].hash \in Contents
    BY <1>4 DEF UpdatePhoto, RequestType, Shape
  <2>2. QED
    BY <1>0, <1>1, <1>4, <2>1, RowUpdateType DEF UpdatePhoto
<1>5. ASSUME NEW r \in Requests, DeletePhoto(r) PROVE PhotosType'
  BY <1>0, <1>5, WithoutRowType DEF DeletePhoto
<1>6. ASSUME NEW r \in Requests, DeleteAlbum(r) PROVE PhotosType'
  BY <1>6, NoRowsType DEF DeleteAlbum
<1>7. CASE MarkVariantsReady
  <2>1. CASE StillCurrent
    <3>1. job.id \in Rows /\ photos' = [photos EXCEPT ![job.id].ready = TRUE]
      BY <1>7, <2>1 DEF MarkVariantsReady, StillCurrent
    <3>2. photos[job.id].hash \in Contents
      BY <1>0, <3>1 DEF PhotosType, Row
    <3>3. QED
      BY <1>0, <3>1, <3>2, RowUpdateType
  <2>2. CASE ~StillCurrent
    BY <1>1, <1>7, <2>2 DEF MarkVariantsReady
  <2>3. QED
    BY <2>1, <2>2
<1>8. QED
  BY TableFrame, <1>1, <1>2, <1>3, <1>4, <1>5, <1>6, <1>7 DEF table

\* An empty directory is a directory.
LEMMA NoFilesType == NoFiles \in [Files -> Contents \cup {None}]
BY DEF NoFiles

\* The files keep their type over every step.
LEMMA DiskTypeStep == TypeInv /\ [Next]_vars => DiskType'
<1> SUFFICES ASSUME TypeInv, [Next]_vars PROVE DiskType'
  OBVIOUS
<1> USE ConstantsAssumption DEF TypeInv
<1>0. DiskType
  BY DEF TableType, DiskType
<1>1. CASE UNCHANGED disk
  BY <1>0, <1>1 DEF DiskType
<1>2. ASSUME NEW p, RemovePhoto(p) PROVE DiskType'
  BY <1>0, <1>2, NoFilesType DEF RemovePhoto, DiskType
<1>3. ASSUME NEW p \in PhotoIds, NEW f \in Files, NEW c \in Contents \cup {None},
             disk' = [disk EXCEPT ![p][f] = c]
      PROVE  DiskType'
  BY <1>0, <1>3 DEF DiskType
<1>4. ASSUME NEW r \in Requests, CommitOriginal(r) PROVE DiskType'
  <2>1. req[r].id \in PhotoIds /\ req[r].file \in Contents /\ Original \in Files
    BY <1>4 DEF CommitOriginal, RequestType, Shape, Files
  <2>2. QED
    BY <1>3, <1>4, <2>1 DEF CommitOriginal
<1>5. ASSUME NEW r \in Requests, RemoveAlbumFiles(r) PROVE DiskType'
  BY <1>5, NoFilesType DEF RemoveAlbumFiles, DiskType
<1>6. CASE CommitVariant
  <2>1. PICK v \in Deferred : disk' = [disk EXCEPT ![job.id][v] = staged[v]]
    BY <1>6 DEF CommitVariant
  <2>2. v \in Files /\ staged[v] \in Contents \cup {None} /\ job.id \in PhotoIds
    BY <1>6 DEF CommitVariant, WorkerType, Files, Snapshot
  <2>3. QED
    BY <1>3, <2>1, <2>2
<1>7. CASE RemoveUnproduced
  <2>1. [f \in Files |-> IF f \in Unproduced(job.hash) THEN None ELSE disk[job.id][f]]
           \in [Files -> Contents \cup {None}]
    BY <1>0, <1>7 DEF RemoveUnproduced, WorkerType, Snapshot, DiskType
  <2>2. QED
    BY <1>0, <1>7, <2>1 DEF RemoveUnproduced, DiskType
<1>8. QED
  BY DiskFrame, <1>1, <1>2, <1>4, <1>5, <1>6, <1>7 DEF RemoveUpload, RemovePhotoFiles, TakeBack

\* The other variables keep their types over every step.
LEMMA RestTypeStep == TypeInv /\ [Next]_vars => RestType'
<1> SUFFICES ASSUME TypeInv, [Next]_vars PROVE RestType'
  OBVIOUS
<1> USE ConstantsAssumption DEF TypeInv, TableType
<1>1. leftover' \subseteq PhotoIds
  <2>1. ASSUME NEW r \in Requests, req[r].pc = "write", AbandonIfGone(r) PROVE leftover' \subseteq PhotoIds
    BY <2>1 DEF AbandonIfGone, RequestType, Shape
  <2>2. CASE GenerateFails
    BY <2>2 DEF GenerateFails, WorkerType, Snapshot
  <2>3. CASE Restart
    BY <2>3 DEF Restart, RowlessDirs
  <2>4. ASSUME NEW r \in Requests, RemoveFails(r) PROVE leftover' \subseteq PhotoIds
    BY <2>4 DEF RemoveFails, RowlessDirs, RequestType, Shape
  <2>5. QED
    BY RestFrame, <2>1, <2>2, <2>3, <2>4
<1>2. restarts' \in 0..MaxRestarts /\ faults' \in 0..MaxFaults
  BY BoundsFrame
<1>3. album' \in BOOLEAN
  BY TableFrame DEF table, MarkVariantsPending, InsertPhoto, UpdatePhoto, DeletePhoto, DeleteAlbum,
                    MarkVariantsReady
<1>4. wake' \in BOOLEAN
  BY RestFrame, Zenon
<1>5. fresh' \subseteq PhotoIds
  BY RestFrame
<1>6. stored' \subseteq Snapshot
  <2>1. queue \subseteq Snapshot
    BY DEF WorkerType
  <2>2. ASSUME NEW r \in Requests, CommitOriginal(r) PROVE stored' \subseteq Snapshot
    BY <2>2 DEF CommitOriginal, RequestType, Shape, Snapshot
  <2>3. QED
    BY <2>2, StoredFrame
<1>7. QED
  BY <1>1, <1>2, <1>3, <1>4, <1>5, <1>6 DEF RestType

\* Type correctness is inductive.
LEMMA TypeStep == TypeInv /\ [Next]_vars => TypeInv'
<1> SUFFICES ASSUME TypeInv, [Next]_vars PROVE TypeInv'
  OBVIOUS
<1>1. TableType'
  BY PhotosTypeStep, DiskTypeStep, RestTypeStep DEF PhotosType, DiskType, RestType, TableType
<1>2. QED
  BY <1>1, RequestTypeStep, WorkerTypeStep DEF TypeInv

-----------------------------------------------------------------------------
(***************************************************************************)
(* Where ids come from.                                                    *)
(***************************************************************************)

\* Only an insert adds a row, and only the row of its own id.
LEMMA RowsFrame ==
  ASSUME TypeInv, [Next]_vars
  PROVE  \/ Rows' \subseteq Rows
         \/ \E r \in Requests : /\ req[r].pc = "write" /\ req[r].isNew /\ album
                                /\ Goto(r, "kick")
                                /\ UNCHANGED <<album, disk, worker>>
                                /\ Rows' = Rows \cup {req[r].id}
<1>1. CASE UNCHANGED table
  BY <1>1 DEF table, Rows
<1>2. ASSUME NEW r \in Requests, MarkVariantsPending(r) \/ UpdatePhoto(r) PROVE Rows' = Rows
  BY <1>2 DEF MarkVariantsPending, UpdatePhoto, Rows, TypeInv, TableType
<1>3. ASSUME NEW r \in Requests, InsertPhoto(r)
      PROVE  \/ Rows' \subseteq Rows
             \/ /\ req[r].pc = "write" /\ req[r].isNew /\ album
                /\ Goto(r, "kick")
                /\ UNCHANGED <<album, disk, worker>>
                /\ Rows' = Rows \cup {req[r].id}
  BY <1>3 DEF InsertPhoto, Insertable, WithRow, Rows
<1>4. ASSUME NEW r \in Requests, DeletePhoto(r) \/ DeleteAlbum(r) PROVE Rows' \subseteq Rows
  BY <1>4 DEF DeletePhoto, DeleteAlbum, WithoutRow, NoRows, Rows
<1>5. CASE MarkVariantsReady
  BY <1>5 DEF MarkVariantsReady, Rows, TypeInv, TableType
<1>6. QED
  BY TableFrame, <1>1, <1>2, <1>3, <1>4, <1>5

\* Each request works on its own record.
LEMMA OthersWait ==
  ASSUME TypeInv, NEW q \in Requests, NEW r \in Requests, q # r, Acts(q)
  PROVE  req'[r] = req[r]
<1>1. ASSUME NEW c, Becomes(q, c) PROVE req'[r] = req[r]
  BY <1>1 DEF Becomes, TypeInv, RequestType
<1>2. ASSUME NEW pc, Goto(q, pc) PROVE req'[r] = req[r]
  BY <1>2 DEF Goto, TypeInv, RequestType
<1>3. QED
  BY <1>1, <1>2 DEF Acts, UploadPhoto, FindPhoto, DrawId, ReplacePhoto, Store, MarkVariantsPending,
       CommitOriginal, InsertPhoto, UpdatePhoto, Kick, Fail, RemoveUpload, DeletePhoto, RemovePhotoFiles,
       FindAlbum, DeleteAlbum, RemoveAlbumFiles, RemoveFails, Ingest, End

\* A request keeps its id, drops it, takes one from the table or draws one.
LEMMA IdFrame ==
  ASSUME TypeInv, [Next]_vars, NEW q \in Requests
  PROVE  /\ req'[q].id \in {None, req[q].id} \cup Rows \cup (fresh \ fresh')
         /\ Private(q)' => \/ Private(q) /\ req'[q].id = req[q].id
                           \/ DrawId(q) /\ req'[q].id \in fresh \ fresh'
<1> USE DEF TypeInv, Private
<1>1. CASE req'[q] = req[q]
  BY <1>1
<1>2. ASSUME NEW r \in Requests, NEW c, Becomes(r, c)
      PROVE  req'[q] = IF q = r THEN c ELSE req[q]
  BY <1>2 DEF Becomes, RequestType
<1>3. ASSUME NEW r \in Requests, NEW pc, Goto(r, pc)
      PROVE  req'[q] = IF q = r THEN [req[r] EXCEPT !.pc = pc] ELSE req[q]
  BY <1>3 DEF Goto, RequestType
<1>4. ASSUME NEW r \in Requests, End(r)
      PROVE  req'[q] = req[q] \/ (req'[q].id = None /\ ~req'[q].isNew)
  BY <1>2, <1>4 DEF End, At
<1>5. ASSUME NEW r \in Requests, NEW pc, Goto(r, pc)
      PROVE  /\ req'[q].id = req[q].id /\ req'[q].isNew = req[q].isNew
             /\ req'[q] = req[q] \/ (q = r /\ req'[q].pc = pc)
  <2>1. req[r] \in Call
    BY DEF RequestType
  <2>2. /\ [req[r] EXCEPT !.pc = pc].id = req[r].id
        /\ [req[r] EXCEPT !.pc = pc].isNew = req[r].isNew
        /\ [req[r] EXCEPT !.pc = pc].pc = pc
    BY <2>1 DEF Call
  <2>3. QED
    BY <1>3, <1>5, <2>2
<1>6. ASSUME NEW r \in Requests, UploadPhoto(r) PROVE req'[q] = req[q] \/ (req'[q].id = None /\ ~req'[q].isNew)
  <2>1. PICK lr \in LrIds, file \in Contents \cup {None} :
           Becomes(r, [At("lookup") EXCEPT !.lr = lr, !.file = file])
    BY <1>6 DEF UploadPhoto
  <2> DEFINE c == [At("lookup") EXCEPT !.lr = lr, !.file = file]
  <2>2. c.id = None /\ ~c.isNew
    BY DEF At
  <2>3. Becomes(r, c)
    BY <2>1
  <2> HIDE DEF c
  <2>4. QED
    BY <1>2, <2>2, <2>3
<1>7. ASSUME NEW r \in Requests, FindPhoto(r) PROVE req'[q] = req[q] \/ (req'[q].id \in Rows /\ ~req'[q].isNew)
  <2>1. PICK p \in Rows : Ingest(r, [req[r] EXCEPT !.id = p,
                            !.hash = HashToWrite(req[r].file, photos[p].hash)])
    BY <1>7 DEF FindPhoto
  <2> DEFINE c == [req[r] EXCEPT !.id = p, !.hash = HashToWrite(req[r].file, photos[p].hash)]
             d == [c EXCEPT !.pc = AfterTarget(c)]
  <2>2. req[r] \in Call /\ ~req[r].isNew
    BY <1>7 DEF FindPhoto, RequestType, Shape
  <2>3. d.id = p /\ ~d.isNew
    BY <2>2 DEF Call
  <2>4. Becomes(r, d)
    BY <2>1 DEF Ingest
  <2> HIDE DEF d
  <2>5. QED
    BY <1>2, <2>3, <2>4
<1>8. ASSUME NEW r \in Requests, DrawId(r), req'[q] # req[q], ~End(r)
      PROVE  DrawId(q) /\ req'[q].id \in fresh \ fresh'
  <2>1. PICK p \in fresh :
          /\ fresh' = fresh \ {p}
          /\ Ingest(r, [req[r] EXCEPT !.id = p, !.hash = req[r].file, !.isNew = TRUE])
    BY <1>8 DEF DrawId
  <2> DEFINE c == [req[r] EXCEPT !.id = p, !.hash = req[r].file, !.isNew = TRUE]
             d == [c EXCEPT !.pc = AfterTarget(c)]
  <2>2. d.id = p
    BY DEF RequestType, Call
  <2>3. Becomes(r, d)
    BY <2>1 DEF Ingest
  <2> HIDE DEF d
  <2>4. q = r /\ req'[q].id = p
    BY <1>2, <1>8, <2>2, <2>3
  <2>5. QED
    BY <1>8, <2>1, <2>4
<1>9. ASSUME NEW r \in Requests, ReplacePhoto(r) PROVE req'[q] = req[q] \/ (req'[q].id \in Rows /\ ~req'[q].isNew)
  <2>1. PICK p \in Rows, file \in Contents \cup {None} :
           Ingest(r, [At("idle") EXCEPT !.id = p, !.file = file,
                        !.hash = HashToWrite(file, photos[p].hash)])
    BY <1>9 DEF ReplacePhoto
  <2> DEFINE c == [At("idle") EXCEPT !.id = p, !.file = file,
                        !.hash = HashToWrite(file, photos[p].hash)]
             d == [c EXCEPT !.pc = AfterTarget(c)]
  <2>2. d.id = p /\ ~d.isNew
    BY DEF At
  <2>3. Becomes(r, d)
    BY <2>1 DEF Ingest
  <2> HIDE DEF d
  <2>4. QED
    BY <1>2, <2>2, <2>3
<1>10. ASSUME NEW r \in Requests, MarkVariantsPending(r), ~End(r)
       PROVE  req'[q].id = req[q].id /\ (Private(q)' => Private(q))
  BY <1>5, <1>10 DEF MarkVariantsPending, RequestType, Shape
<1>11. ASSUME NEW r \in Requests, CommitOriginal(r) PROVE req'[q].id = req[q].id /\ (Private(q)' => Private(q))
  BY <1>5, <1>11 DEF CommitOriginal
<1>12. ASSUME NEW r \in Requests, InsertPhoto(r) PROVE req'[q].id = req[q].id /\ (Private(q)' => Private(q))
  BY <1>5, <1>12 DEF InsertPhoto
<1>13. ASSUME NEW r \in Requests, UpdatePhoto(r), ~End(r)
       PROVE  req'[q].id = req[q].id /\ (Private(q)' => Private(q))
  BY <1>5, <1>13 DEF UpdatePhoto
<1>14. ASSUME NEW r \in Requests, Fail(r), ~End(r)
       PROVE  req'[q].id = req[q].id /\ (Private(q)' => Private(q))
  BY <1>5, <1>14 DEF Fail
<1>15. ASSUME NEW r \in Requests, DeletePhoto(r) PROVE req'[q] = req[q] \/ (req'[q].id \in Rows /\ ~req'[q].isNew)
  BY <1>2, <1>15 DEF DeletePhoto, At
<1>16. ASSUME NEW r \in Requests, FindAlbum(r) \/ DeleteAlbum(r)
       PROVE  req'[q].id = req[q].id /\ (Private(q)' => Private(q))
  BY <1>5, <1>16 DEF FindAlbum, DeleteAlbum
<1>17. CASE Restart
  BY <1>17 DEF Restart, At
<1>18. QED
  BY RequestFrame, <1>1, <1>4, <1>6, <1>7, <1>8, <1>9, <1>10, <1>11, <1>12, <1>13, <1>14, <1>15, <1>16, <1>17
     DEF Acts, Store, Kick, RemoveUpload, RemovePhotoFiles, RemoveAlbumFiles, RemoveFails

\* The worker takes its ids from the table, by way of the queue.
LEMMA WorkerIds ==
  ASSUME TypeInv, [Next]_vars
  PROVE  /\ \A s \in queue' : s \in queue \/ s.id \in Rows
         /\ job'.id \in {None, job.id} \cup {s.id : s \in queue}
<1>1. CASE UNCHANGED worker
  BY <1>1 DEF worker
<1>2. CASE ListPending
  BY <1>2 DEF ListPending, PendingSnapshots, Pending
<1>3. CASE TakeNext
  BY <1>3 DEF TakeNext
<1>4. ASSUME JobDone PROVE job'.id = None
  BY <1>4 DEF JobDone, NoJob
<1>5. CASE MarkVariantsReady
  BY <1>4, <1>5 DEF MarkVariantsReady
<1>6. CASE RenderWithoutOriginal \/ TakeBack \/ GenerateFails
  BY <1>4, <1>6 DEF RenderWithoutOriginal, TakeBack, GenerateFails
<1>7. CASE WakeUp \/ Tick \/ EndDrain \/ Render \/ CommitVariant \/ RemoveUnproduced \/ ListFails \/ Stop
  BY <1>7 DEF WakeUp, Tick, StartDrain, EndDrain, Render, CommitVariant, RemoveUnproduced, ListFails, Stop
<1>8. CASE Restart
  BY <1>8 DEF Restart, NoJob
<1>9. QED
  BY WorkerFrame, <1>1, <1>2, <1>3, <1>5, <1>6, <1>7, <1>8 DEF WorkerStep, Generate

\* How a request comes to erase files or rows, or to insert a row for an
\* original it has committed.
LEMMA Arrivals ==
  ASSUME TypeInv, [Next]_vars, NEW q \in Requests, req'[q] # req[q]
  PROVE  /\ req'[q].pc = "erase" => DeletePhoto(q)
         /\ req'[q].pc = "eraseAlbum" => DeleteAlbum(q)
         /\ req'[q].pc = "write" /\ req'[q].isNew => CommitOriginal(q)
<1> USE DEF TypeInv
<1>1. ASSUME NEW r \in Requests, NEW c, Becomes(r, c)
      PROVE  q = r /\ req'[q] = c
  BY <1>1 DEF Becomes, RequestType
<1>2. ASSUME NEW r \in Requests, End(r)
      PROVE  req'[q].pc = "done"
  BY <1>1, <1>2 DEF End, At
<1>3. ASSUME NEW r \in Requests, NEW pc, Goto(r, pc)
      PROVE  q = r /\ req'[q].pc = pc /\ req'[q].isNew = req[q].isNew
  BY <1>3 DEF Goto, RequestType, Call
<1>4. ASSUME NEW r \in Requests, NEW c, Ingest(r, c), c \in Call, c.isNew => c.file # None
      PROVE  /\ req'[q].pc \in {"write", "commit", "hide"}
             /\ req'[q].isNew => req'[q].pc # "write"
  <2> DEFINE d == [c EXCEPT !.pc = AfterTarget(c)]
  <2>1. d.pc \in {"write", "commit", "hide"} /\ (d.isNew => d.pc # "write")
    BY <1>4 DEF Call, AfterTarget
  <2>2. Becomes(r, d)
    BY <1>4 DEF Ingest
  <2> HIDE DEF d
  <2>3. QED
    BY <1>1, <2>1, <2>2
<1>5. ASSUME NEW r \in Requests, UploadPhoto(r) PROVE req'[q].pc = "lookup"
  <2>1. PICK lr \in LrIds, file \in Contents \cup {None} :
           Becomes(r, [At("lookup") EXCEPT !.lr = lr, !.file = file])
    BY <1>5 DEF UploadPhoto
  <2> DEFINE c == [At("lookup") EXCEPT !.lr = lr, !.file = file]
  <2>2. c.pc = "lookup"
    BY DEF At
  <2>3. Becomes(r, c)
    BY <2>1
  <2> HIDE DEF c
  <2>4. QED
    BY <1>1, <2>2, <2>3
<1>6. ASSUME NEW r \in Requests, FindPhoto(r)
      PROVE  /\ req'[q].pc \in {"write", "commit", "hide"}
             /\ req'[q].isNew => req'[q].pc # "write"
  <2>1. PICK p \in Rows : Ingest(r, [req[r] EXCEPT !.id = p,
                            !.hash = HashToWrite(req[r].file, photos[p].hash)])
    BY <1>6 DEF FindPhoto
  <2> DEFINE c == [req[r] EXCEPT !.id = p, !.hash = HashToWrite(req[r].file, photos[p].hash)]
  <2>2. req[r] \in Call /\ ~req[r].isNew
    BY <1>6 DEF FindPhoto, RequestType, Shape
  <2>3. p \in PhotoIds /\ HashToWrite(req[r].file, photos[p].hash) \in Contents
    BY <2>2, HashKnown DEF Call
  <2>4. c \in Call /\ ~c.isNew
    BY <2>2, <2>3 DEF Call
  <2>5. Ingest(r, c)
    BY <2>1
  <2> HIDE DEF c
  <2>6. QED
    BY <1>4, <2>4, <2>5
<1>7. ASSUME NEW r \in Requests, DrawId(r), ~End(r)
      PROVE  /\ req'[q].pc \in {"write", "commit", "hide"}
             /\ req'[q].isNew => req'[q].pc # "write"
  <2>1. PICK p \in fresh :
          Ingest(r, [req[r] EXCEPT !.id = p, !.hash = req[r].file, !.isNew = TRUE])
    BY <1>7 DEF DrawId
  <2> DEFINE c == [req[r] EXCEPT !.id = p, !.hash = req[r].file, !.isNew = TRUE]
  <2>2. req[r] \in Call /\ req[r].file # None /\ p \in PhotoIds
    BY <1>7 DEF DrawId, RequestType, TableType
  <2>3. c \in Call /\ c.file # None
    BY <2>2 DEF Call
  <2>4. Ingest(r, c)
    BY <2>1
  <2> HIDE DEF c
  <2>5. QED
    BY <1>4, <2>3, <2>4
<1>8. ASSUME NEW r \in Requests, ReplacePhoto(r)
      PROVE  /\ req'[q].pc \in {"write", "commit", "hide"}
             /\ req'[q].isNew => req'[q].pc # "write"
  <2>1. PICK p \in Rows, file \in Contents \cup {None} :
           Ingest(r, [At("idle") EXCEPT !.id = p, !.file = file,
                        !.hash = HashToWrite(file, photos[p].hash)])
    BY <1>8 DEF ReplacePhoto
  <2> DEFINE c == [At("idle") EXCEPT !.id = p, !.file = file,
                        !.hash = HashToWrite(file, photos[p].hash)]
  <2>2. p \in PhotoIds /\ HashToWrite(file, photos[p].hash) \in Contents
    BY HashKnown
  <2>3. c \in Call /\ ~c.isNew
    BY <2>2 DEF Call, At
  <2>4. Ingest(r, c)
    BY <2>1
  <2> HIDE DEF c
  <2>5. QED
    BY <1>4, <2>3, <2>4
<1>9. ASSUME NEW r \in Requests, Store(r)
      PROVE  req'[q].pc \in {"commit", "write", "kick", "undo", "done"}
             /\ (req'[q].pc = "write" => CommitOriginal(q))
  BY <1>2, <1>3, <1>9 DEF Store, MarkVariantsPending, CommitOriginal, InsertPhoto, UpdatePhoto, Kick, Fail,
                          RemoveUpload
<1>10. ASSUME NEW r \in Requests, DeletePhoto(r) PROVE DeletePhoto(q) /\ req'[q].pc = "erase"
  <2>1. PICK p \in Rows : Becomes(r, [At("erase") EXCEPT !.id = p])
    BY <1>10 DEF DeletePhoto
  <2> DEFINE c == [At("erase") EXCEPT !.id = p]
  <2>2. c.pc = "erase" /\ Becomes(r, c)
    BY <2>1 DEF At
  <2> HIDE DEF c
  <2>3. QED
    BY <1>1, <1>10, <2>2
<1>11. ASSUME NEW r \in Requests, FindAlbum(r) \/ DeleteAlbum(r)
       PROVE  \/ req'[q].pc = "dropAlbum"
              \/ req'[q].pc = "eraseAlbum" /\ DeleteAlbum(q)
  BY <1>3, <1>11 DEF FindAlbum, DeleteAlbum
<1>12. CASE Restart
  BY <1>12 DEF Restart, At
<1>13. QED
  BY RequestFrame, <1>2, <1>5, <1>6, <1>7, <1>8, <1>9, <1>10, <1>11, <1>12
     DEF Acts, RemovePhotoFiles, RemoveAlbumFiles, RemoveFails

\* Ids with a row or in somebody's hands stay drawn.
LEMMA DrawnStep == TypeInv /\ Ids /\ [Next]_vars => Drawn'
<1> SUFFICES ASSUME TypeInv, Ids, [Next]_vars PROVE Drawn'
  OBVIOUS
<1> USE ConstantsAssumption DEF Ids, Drawn
<1>1. fresh' \subseteq fresh /\ None \notin fresh
  BY RestFrame DEF TypeInv, TableType
<1>2. Rows' \cap fresh' = {}
  BY <1>1, RowsFrame
<1>3. \A q \in Requests : req'[q].id \notin fresh'
  BY <1>1, IdFrame
<1>4. \A s \in queue' : s.id \notin fresh'
  BY <1>1, WorkerIds
<1>5. job'.id \notin fresh'
  BY <1>1, WorkerIds
<1>6. QED
  BY <1>2, <1>3, <1>4, <1>5

\* The id of an upload in flight stays its own until it has a row.
LEMMA PrivateIdsStep == TypeInv /\ Ids /\ [Next]_vars => PrivateIds'
<1> SUFFICES ASSUME TypeInv, Ids, [Next]_vars, NEW r \in Requests, Private(r)'
             PROVE  /\ req'[r].id \notin Rows'
                    /\ \A q \in Requests \ {r} : req'[q].id # req'[r].id
                    /\ \A s \in queue' : s.id # req'[r].id
                    /\ job'.id # req'[r].id
  BY DEF PrivateIds, Private
<1> USE ConstantsAssumption DEF Ids
<1>1. None \notin fresh
  BY DEF TypeInv, TableType
<1>2. CASE Private(r) /\ req'[r].id = req[r].id
  <2> DEFINE p == req[r].id
  <2>1. /\ p \in PhotoIds /\ p \notin fresh
        /\ p \notin Rows /\ job.id # p
        /\ \A s \in queue : s.id # p
        /\ \A q \in Requests \ {r} : req[q].id # p
    BY <1>2 DEF PrivateIds, Drawn, Private, TypeInv, RequestType, Shape
  <2> HIDE DEF p
  <2>2. p \notin Rows'
    <3>1. ASSUME NEW s \in Requests, req[s].pc = "write", Goto(s, "kick"), req[s].id = p
          PROVE  FALSE
      <4>1. s = r
        BY <2>1, <3>1
      <4>2. req'[r].pc = "kick"
        BY <3>1, <4>1 DEF Goto, TypeInv, RequestType, Call
      <4>3. QED
        BY <4>2 DEF Private
    <3>2. QED
      BY <2>1, <3>1, RowsFrame
  <2>3. \A q \in Requests \ {r} : req'[q].id # p
    BY <2>1, IdFrame
  <2>4. (\A s \in queue' : s.id # p) /\ job'.id # p
    BY <2>1, WorkerIds
  <2>5. QED
    BY <1>2, <2>2, <2>3, <2>4 DEF p
<1>3. CASE DrawId(r) /\ req'[r].id \in fresh \ fresh'
  <2>1. UNCHANGED <<table, worker>>
    BY <1>3 DEF DrawId
  <2>2. \A q \in Requests \ {r} : req'[q] = req[q]
    BY <1>3 DEF DrawId, End, Ingest, Becomes, TypeInv, RequestType
  <2>3. QED
    BY <1>3, <2>1, <2>2 DEF Drawn, table, worker, Rows
<1>4. QED
  BY IdFrame, <1>2, <1>3

\* An id being erased never has a row again.
LEMMA DeletedStaysOutStep == TypeInv /\ Ids /\ [Next]_vars => DeletedStaysOut'
<1> SUFFICES ASSUME TypeInv, Ids, [Next]_vars PROVE DeletedStaysOut'
  OBVIOUS
<1> USE DEF Ids
<1>1. ~album => ~album' /\ Rows' = {}
  <2>1. ~album => ~album'
    BY TableFrame DEF table, MarkVariantsPending, InsertPhoto, UpdatePhoto, DeletePhoto, DeleteAlbum,
                      MarkVariantsReady
  <2>2. ~album => Rows' = {}
    BY RowsFrame DEF DeletedStaysOut
  <2>3. QED
    BY <2>1, <2>2
<1>2. album /\ ~album' => Rows' = {}
  BY TableFrame DEF table, MarkVariantsPending, InsertPhoto, UpdatePhoto, DeletePhoto, DeleteAlbum,
                    MarkVariantsReady, NoRows, Rows
<1>3. ASSUME NEW r \in Requests, req'[r].pc = "erase" PROVE req'[r].id \notin Rows'
  <2>1. CASE req'[r] = req[r]
    <3>1. req[r].id \notin Rows /\ req[r].pc = "erase"
      BY <1>3, <2>1 DEF DeletedStaysOut
    <3>2. ASSUME NEW s \in Requests, req[s].pc = "write", req[s].isNew PROVE req[s].id # req[r].id
      BY <3>1, <3>2 DEF PrivateIds, Private
    <3>3. QED
      BY <2>1, <3>1, <3>2, RowsFrame
  <2>2. CASE DeletePhoto(r)
    <3>1. PICK p \in Rows : photos' = WithoutRow(p) /\ Becomes(r, [At("erase") EXCEPT !.id = p])
      BY <2>2 DEF DeletePhoto
    <3>2. Rows' = Rows \ {p}
      BY <3>1 DEF WithoutRow, Rows
    <3>3. req'[r].id = p
      BY <3>1 DEF Becomes, At, TypeInv, RequestType
    <3>4. QED
      BY <3>2, <3>3
  <2>3. QED
    BY <1>3, <2>1, <2>2, Arrivals
<1>4. ASSUME NEW r \in Requests, req'[r].pc = "eraseAlbum" PROVE ~album'
  <2>1. CASE req'[r] = req[r]
    BY <1>1, <1>4, <2>1 DEF DeletedStaysOut
  <2>2. CASE DeleteAlbum(r)
    BY <2>2 DEF DeleteAlbum
  <2>3. QED
    BY <1>4, <2>1, <2>2, Arrivals
<1>5. QED
  BY <1>1, <1>2, <1>3, <1>4 DEF DeletedStaysOut

\* The discipline of ids is inductive.
LEMMA IdsStep == TypeInv /\ Ids /\ [Next]_vars => Ids'
BY DrawnStep, PrivateIdsStep, DeletedStaysOutStep DEF Ids

-----------------------------------------------------------------------------
(***************************************************************************)
(* The files of the photos.                                                *)
(***************************************************************************)

\* Whatever a step does to the files, it takes the original only from a photo
\* that has no row, and that no upload has still to insert in a live album.
LEMMA OriginalKept ==
  ASSUME TypeInv, Ids, [Next]_vars, NEW p \in PhotoIds,
         disk[p][Original] # None, disk'[p][Original] = None
  PROVE  /\ p \notin Rows
         /\ album => \A r \in Requests : Private(r) /\ req[r].pc = "write" => req[r].id # p
<1> USE ConstantsAssumption DEF TypeInv, Ids
<1>0. disk \in [PhotoIds -> [Files -> Contents \cup {None}]] /\ Original \in Files
  BY DEF TableType, Files
<1>1. ASSUME NEW q, RemovePhoto(q) PROVE q = p
  BY <1>0, <1>1 DEF RemovePhoto
<1>2. ASSUME NEW r \in Requests, CommitOriginal(r) PROVE FALSE
  BY <1>0, <1>2 DEF CommitOriginal, RequestType, Shape
<1>3. ASSUME NEW r \in Requests, RemoveUpload(r) PROVE p \notin Rows /\ (\A s \in Requests : Private(s) /\ req[s].pc = "write" => req[s].id # p)
  <2>1. Private(r) /\ req[r].id = p /\ req[r].pc = "undo"
    BY <1>1, <1>3 DEF RemoveUpload, RequestType, Shape, Private
  <2>2. QED
    BY <2>1 DEF PrivateIds
<1>4. ASSUME NEW r \in Requests, RemovePhotoFiles(r) PROVE p \notin Rows /\ (\A s \in Requests : Private(s) /\ req[s].pc = "write" => req[s].id # p)
  <2>1. req[r].id = p /\ req[r].pc = "erase"
    BY <1>1, <1>4 DEF RemovePhotoFiles
  <2>2. QED
    BY <2>1 DEF PrivateIds, DeletedStaysOut
<1>5. ASSUME NEW r \in Requests, RemoveAlbumFiles(r) PROVE ~album /\ p \notin Rows
  BY <1>5 DEF RemoveAlbumFiles, DeletedStaysOut
<1>6. CASE CommitVariant
  BY <1>0, <1>6 DEF CommitVariant
<1>7. CASE RemoveUnproduced
  BY <1>0, <1>7 DEF RemoveUnproduced, Unproduced
<1>8. CASE TakeBack
  <2>1. PhotoGone /\ job.id = p
    BY <1>1, <1>8 DEF TakeBack
  <2>2. QED
    BY <2>1 DEF PhotoGone, PrivateIds
<1>9. QED
  BY DiskFrame, <1>2, <1>3, <1>4, <1>5, <1>6, <1>7, <1>8

\* Every row keeps its original: inductive with the discipline of ids.
LEMMA OriginalsStep == TypeInv /\ Ids /\ Originals /\ [Next]_vars => Originals'
<1> SUFFICES ASSUME TypeInv, Ids, Originals, [Next]_vars PROVE Originals'
  OBVIOUS
<1> USE ConstantsAssumption DEF Originals
<1>1. ASSUME NEW p \in Rows' PROVE disk'[p][Original] # None
  <2>1. CASE p \in Rows
    BY <2>1, OriginalKept DEF RowHasOriginal, TypeInv, TableType
  <2>2. CASE p \notin Rows
    <3>1. PICK r \in Requests : /\ req[r].pc = "write" /\ req[r].isNew /\ album
                                /\ UNCHANGED disk /\ p = req[r].id
      BY <2>2, RowsFrame
    <3>2. QED
      BY <3>1 DEF UploadHasOriginal
  <2>3. QED
    BY <2>1, <2>2
<1>2. ASSUME NEW r \in Requests, req'[r].isNew, req'[r].pc = "write", album'
      PROVE  disk'[req'[r].id][Original] # None
  <2>0. album
    BY <1>2, TableFrame DEF table, MarkVariantsPending, InsertPhoto, UpdatePhoto, DeletePhoto, DeleteAlbum,
                            MarkVariantsReady
  <2>1. CASE req'[r] = req[r]
    <3>1. req[r].isNew /\ req[r].pc = "write" /\ req[r].id \in PhotoIds /\ Private(r)
      BY <1>2, <2>1 DEF TypeInv, RequestType, Shape, Private
    <3>2. disk[req[r].id][Original] # None
      BY <2>0, <3>1 DEF UploadHasOriginal
    <3>3. QED
      BY <2>0, <2>1, <3>1, <3>2, OriginalKept
  <2>2. CASE CommitOriginal(r)
    <3>1. req[r].id \in PhotoIds /\ req[r].file \in Contents /\ req'[r].id = req[r].id
      BY <2>2 DEF CommitOriginal, Goto, TypeInv, RequestType, Shape, Call
    <3>2. disk'[req[r].id][Original] = req[r].file
      BY <2>2, <3>1 DEF CommitOriginal, TypeInv, TableType, Files
    <3>3. QED
      BY <3>1, <3>2
  <2>3. QED
    BY <1>2, <2>1, <2>2, Arrivals
<1>3. QED
  BY <1>1, <1>2 DEF RowHasOriginal, UploadHasOriginal

\* A variant that every original produces is taken only from a photo that has
\* no row.
LEMMA VariantKept ==
  ASSUME TypeInv, Ids, [Next]_vars, NEW p \in Rows, NEW v \in AlwaysProduced, disk[p][v] # None
  PROVE  disk'[p][v] # None
<1> USE ConstantsAssumption DEF TypeInv, Ids
<1>0. /\ disk \in [PhotoIds -> [Files -> Contents \cup {None}]]
      /\ v \in Files /\ v # Original /\ v \in Deferred /\ v # Large /\ p \in PhotoIds
  BY DEF TableType, Files, AlwaysProduced
<1>1. ASSUME NEW q, RemovePhoto(q), q \notin Rows PROVE disk'[p] = disk[p]
  BY <1>0, <1>1 DEF RemovePhoto
<1>2. ASSUME NEW r \in Requests, CommitOriginal(r) PROVE disk'[p][v] = disk[p][v]
  BY <1>0, <1>2 DEF CommitOriginal
<1>3. ASSUME NEW r \in Requests, RemoveUpload(r) PROVE disk'[p] = disk[p]
  BY <1>1, <1>3 DEF RemoveUpload, RequestType, Shape, Private, PrivateIds
<1>4. ASSUME NEW r \in Requests, RemovePhotoFiles(r) PROVE disk'[p] = disk[p]
  BY <1>1, <1>4 DEF RemovePhotoFiles, DeletedStaysOut
<1>5. ASSUME NEW r \in Requests, RemoveAlbumFiles(r) PROVE FALSE
  BY <1>5 DEF RemoveAlbumFiles, DeletedStaysOut
<1>6. CASE CommitVariant
  BY <1>0, <1>6 DEF CommitVariant
<1>7. CASE RemoveUnproduced
  BY <1>0, <1>7 DEF RemoveUnproduced, Unproduced, Produced
<1>8. CASE TakeBack
  BY <1>1, <1>8 DEF TakeBack, PhotoGone
<1>9. QED
  BY DiskFrame, <1>2, <1>3, <1>4, <1>5, <1>6, <1>7, <1>8

\* The worker's own steps on the way to the mark.
LEMMA GeneratingStep == TypeInv /\ Ids /\ Generating /\ [Next]_vars => Generating'
<1> SUFFICES ASSUME TypeInv, Ids, Generating, [Next]_vars PROVE Generating'
  OBVIOUS
<1> USE ConstantsAssumption DEF TypeInv
<1>1. ASSUME wpc' = wpc, job' = job, staged' = staged, unrendered' = unrendered PROVE Generating'
  <2>1. ASSUME wpc \in {"commit", "mark"}, job.id \in Rows' PROVE job.id \in Rows
    BY <2>1, RowsFrame DEF Ids, PrivateIds, Private
  <2>2. QED
    BY <1>1, <2>1, VariantKept DEF Generating
<1>2. ASSUME wpc' \notin {"render", "commit", "mark"} PROVE Generating'
  BY <1>2 DEF Generating
<1>3. CASE TakeNext
  <2>1. CASE wpc' = "next"
    BY <1>2, <2>1
  <2>2. CASE wpc' = "render"
    BY <1>3, <2>2 DEF TakeNext, Generating, Produced, AlwaysProduced
  <2>3. QED
    BY <1>3, <2>1, <2>2 DEF TakeNext
<1>4. CASE Render
  <2>1. PICK v \in unrendered : /\ unrendered' = unrendered \ {v}
                                /\ staged' = [staged EXCEPT ![v] = disk[job.id][Original]]
                                /\ wpc' = IF unrendered = {v} THEN "commit" ELSE "render"
    BY <1>4 DEF Render
  <2>2. \A u \in AlwaysProduced : u \in unrendered' \/ staged'[u] # None
    BY <1>4, <2>1 DEF Render, Generating, WorkerType, AlwaysProduced
  <2>3. QED
    BY <2>1, <2>2 DEF Generating
<1>5. CASE CommitVariant
  <2>1. PICK v \in Deferred : /\ staged[v] # None
                              /\ disk' = [disk EXCEPT ![job.id][v] = staged[v]]
                              /\ staged' = [staged EXCEPT ![v] = None]
    BY <1>5 DEF CommitVariant
  <2>2. job.id \in PhotoIds /\ wpc = "commit" /\ wpc' = "commit" /\ job' = job /\ Rows' = Rows
    BY <1>5 DEF CommitVariant, WorkerType, Snapshot, table, Rows
  <2>3. ASSUME job.id \in Rows, NEW u \in AlwaysProduced PROVE disk'[job.id][u] # None \/ staged'[u] # None
    <3>1. u \in Deferred /\ u \in Files /\ v \in Files
      BY DEF AlwaysProduced, Files
    <3>2. CASE u = v
      BY <2>1, <2>2, <3>1, <3>2 DEF TableType
    <3>3. CASE u # v
      BY <2>1, <2>2, <2>3, <3>1, <3>3 DEF TableType, Generating, WorkerType
    <3>4. QED
      BY <3>2, <3>3
  <2>4. QED
    BY <2>2, <2>3 DEF Generating
<1>6. CASE RemoveUnproduced
  <2>1. wpc = "commit" /\ wpc' = "mark" /\ job' = job /\ Rows' = Rows /\ staged = NoStaged
    BY <1>6 DEF RemoveUnproduced, AllCommitted, table, Rows
  <2>2. ASSUME job.id \in Rows, NEW u \in AlwaysProduced PROVE disk'[job.id][u] # None
    <3>1. disk[job.id][u] # None
      BY <2>1, <2>2 DEF Generating, NoStaged, AlwaysProduced
    <3>2. QED
      BY <2>2, <3>1, VariantKept
  <2>3. QED
    BY <2>1, <2>2 DEF Generating
<1>7. CASE MarkVariantsReady \/ RenderWithoutOriginal \/ TakeBack \/ GenerateFails
  BY <1>2, <1>7 DEF MarkVariantsReady, RenderWithoutOriginal, TakeBack, GenerateFails, JobDone
<1>8. CASE WakeUp \/ Tick \/ ListPending \/ EndDrain \/ ListFails \/ Stop \/ Restart
  BY <1>2, <1>8 DEF WakeUp, Tick, StartDrain, ListPending, EndDrain, ListFails, Stop, Restart
<1>9. QED
  BY WorkerFrame, <1>1, <1>3, <1>4, <1>5, <1>6, <1>7, <1>8 DEF WorkerStep, Generate, worker

\* Only the mark shows a photo that was not visible.
LEMMA ShownByMark ==
  ASSUME TypeInv, [Next]_vars, NEW p \in Rows', photos'[p].ready
  PROVE  \/ p \in Rows /\ photos[p].ready
         \/ MarkVariantsReady /\ StillCurrent /\ p = job.id
<1> USE DEF TypeInv, TableType, Rows
<1>1. CASE UNCHANGED table
  BY <1>1 DEF table
<1>2. ASSUME NEW r \in Requests, MarkVariantsPending(r) PROVE p \in Rows /\ photos[p].ready
  BY <1>2 DEF MarkVariantsPending, Row
<1>3. ASSUME NEW r \in Requests, InsertPhoto(r) PROVE p \in Rows /\ photos[p].ready
  BY <1>3 DEF InsertPhoto, WithRow
<1>4. ASSUME NEW r \in Requests, UpdatePhoto(r) PROVE p \in Rows /\ photos[p].ready
  BY <1>4 DEF UpdatePhoto, Row
<1>5. ASSUME NEW r \in Requests, DeletePhoto(r) \/ DeleteAlbum(r) PROVE p \in Rows /\ photos[p].ready
  BY <1>5 DEF DeletePhoto, DeleteAlbum, WithoutRow, NoRows
<1>6. CASE MarkVariantsReady
  BY <1>6 DEF MarkVariantsReady, StillCurrent, Row
<1>7. QED
  BY TableFrame, <1>1, <1>2, <1>3, <1>4, <1>5, <1>6

\* What is visible stays servable: inductive with the discipline of ids.
LEMMA VariantsStep == TypeInv /\ Ids /\ Variants /\ [Next]_vars => Variants'
<1> SUFFICES ASSUME TypeInv, Ids, Variants, [Next]_vars PROVE Variants'
  OBVIOUS
<1> USE ConstantsAssumption DEF Variants
<1>1. ASSUME NEW p \in Rows', photos'[p].ready, NEW v \in AlwaysProduced PROVE disk'[p][v] # None
  <2>1. CASE p \in Rows /\ photos[p].ready
    BY <2>1, VariantKept DEF VisibleIsServable
  <2>2. CASE MarkVariantsReady /\ StillCurrent /\ p = job.id
    BY <2>2 DEF MarkVariantsReady, StillCurrent, Generating
  <2>3. QED
    BY <1>1, <2>1, <2>2, ShownByMark
<1>2. VisibleIsServable'
  BY <1>1 DEF VisibleIsServable, AlwaysProduced
<1>3. QED
  BY <1>2, GeneratingStep

-----------------------------------------------------------------------------
(***************************************************************************)
(* What the variants show.                                                 *)
(***************************************************************************)

\* Nobody but the worker writes the variants of a photo that has a row.
LEMMA VariantsUntouched ==
  ASSUME TypeInv, Ids, [Next]_vars, NEW p \in Rows, UNCHANGED worker, NEW v \in Deferred
  PROVE  disk'[p][v] = disk[p][v]
<1> USE ConstantsAssumption DEF TypeInv, Ids
<1>0. /\ disk \in [PhotoIds -> [Files -> Contents \cup {None}]]
      /\ v \in Files /\ v # Original /\ p \in PhotoIds
  BY DEF TableType, Files
<1>1. ASSUME NEW q, RemovePhoto(q), q \notin Rows PROVE disk'[p] = disk[p]
  BY <1>0, <1>1 DEF RemovePhoto
<1>2. ASSUME NEW r \in Requests, CommitOriginal(r) PROVE disk'[p][v] = disk[p][v]
  BY <1>0, <1>2 DEF CommitOriginal
<1>3. ASSUME NEW r \in Requests, RemoveUpload(r) PROVE disk'[p] = disk[p]
  BY <1>1, <1>3 DEF RemoveUpload, RequestType, Shape, Private, PrivateIds
<1>4. ASSUME NEW r \in Requests, RemovePhotoFiles(r) PROVE disk'[p] = disk[p]
  BY <1>1, <1>4 DEF RemovePhotoFiles, DeletedStaysOut
<1>5. ASSUME NEW r \in Requests, RemoveAlbumFiles(r) PROVE FALSE
  BY <1>5 DEF RemoveAlbumFiles, DeletedStaysOut
<1>6. CASE CommitVariant
  <2>1. PICK u \in Deferred : staged[u] # None /\ staged' = [staged EXCEPT ![u] = None]
    BY <1>6 DEF CommitVariant
  <2>2. QED
    BY <2>1 DEF worker, WorkerType
<1>7. CASE RemoveUnproduced
  BY <1>7 DEF RemoveUnproduced, worker
<1>8. CASE TakeBack
  BY <1>8 DEF TakeBack, JobDone, worker
<1>9. QED
  BY DiskFrame, <1>2, <1>3, <1>4, <1>5, <1>6, <1>7, <1>8

\* A snapshot that is current now was current before, as long as the worker
\* keeps generating it: its file is not put in place without being recorded.
LEMMA JobWasCurrent ==
  ASSUME TypeInv, Ids, [Next]_vars, JobIsCurrent', job' = job, wpc # "list"
  PROVE  job.id \in Rows /\ disk[job.id][Original] = job.hash /\ job \notin stored
<1> USE ConstantsAssumption DEF TypeInv, Ids
<1>0. /\ disk \in [PhotoIds -> [Files -> Contents \cup {None}]] /\ Original \in Files
      /\ job.id \in Rows' /\ disk'[job.id][Original] = job.hash /\ job \notin stored'
      /\ job \in Snapshot /\ job.id \in PhotoIds /\ job.hash \in Contents
  <2>1. job' \in Snapshot
    BY WorkerTypeStep DEF JobIsCurrent, WorkerType
  <2>2. QED
    BY <2>1 DEF TableType, Files, JobIsCurrent, Snapshot
<1>1. job.id \in Rows
  BY <1>0, RowsFrame DEF PrivateIds, Private
<1>2. job \notin stored
  BY <1>0, StoredFrame DEF CommitOriginal
<1>3. disk[job.id][Original] = job.hash
  <2>1. ASSUME NEW q, RemovePhoto(q) PROVE disk'[job.id][Original] = disk[job.id][Original]
    BY <1>0, <2>1 DEF RemovePhoto, NoFiles
  <2>2. ASSUME NEW r \in Requests, CommitOriginal(r)
        PROVE  disk'[job.id][Original] = disk[job.id][Original]
    <3>1. CASE req[r].id # job.id
      BY <1>0, <2>2, <3>1 DEF CommitOriginal
    <3>2. CASE req[r].id = job.id
      <4>1. req[r].file = job.hash
        BY <1>0, <2>2, <3>2 DEF CommitOriginal
      <4>2. [id |-> req[r].id, hash |-> req[r].file] = job
        BY <1>0, <3>2, <4>1 DEF Snapshot
      <4>3. QED
        BY <1>0, <2>2, <4>2 DEF CommitOriginal
    <3>3. QED
      BY <3>1, <3>2
  <2>3. ASSUME NEW r \in Requests, RemoveAlbumFiles(r) PROVE FALSE
    BY <1>0, <2>3 DEF RemoveAlbumFiles, NoFiles
  <2>4. CASE CommitVariant
    BY <1>0, <2>4 DEF CommitVariant
  <2>5. CASE RemoveUnproduced
    BY <1>0, <2>5 DEF RemoveUnproduced, Unproduced
  <2>6. QED
    BY <1>0, DiskFrame, <2>1, <2>2, <2>3, <2>4, <2>5 DEF RemoveUpload, RemovePhotoFiles, TakeBack
<1>4. QED
  BY <1>1, <1>2, <1>3

\* What the worker holds of a job agrees with the stored original.
LEMMA CurrentStep == TypeInv /\ Ids /\ CurrentVariants /\ [Next]_vars => CurrentVariants'
<1> SUFFICES ASSUME TypeInv, Ids, CurrentVariants, [Next]_vars, JobIsCurrent' PROVE CurrentVariants'
  BY DEF CurrentVariants
<1> USE ConstantsAssumption DEF TypeInv
<1>0. wpc' \in {"render", "commit", "mark"}
  BY DEF JobIsCurrent
<1>1. CASE UNCHANGED worker
  <2>1. JobIsCurrent
    BY <1>1, <1>0, JobWasCurrent DEF worker, JobIsCurrent
  <2>2. job.id \in Rows /\ \A v \in Deferred : disk'[job.id][v] = disk[job.id][v]
    BY <1>1, <2>1, VariantsUntouched DEF JobIsCurrent
  <2>3. QED
    BY <1>1, <2>1, <2>2 DEF CurrentVariants, worker
<1>2. CASE TakeNext
  <2>1. wpc' = "render" /\ unrendered' = Produced(job'.hash) /\ staged' = staged
    BY <1>0, <1>2 DEF TakeNext
  <2>2. \A v \in Deferred : staged[v] = None
    BY <1>2 DEF TakeNext, WorkerType, NoStaged
  <2>3. QED
    BY <2>1, <2>2 DEF CurrentVariants
<1>3. CASE Render
  <2>1. job' = job /\ wpc = "render"
    BY <1>3 DEF Render
  <2>2. JobIsCurrent
    BY <2>1, JobWasCurrent DEF JobIsCurrent
  <2>3. PICK v \in unrendered : /\ unrendered' = unrendered \ {v}
                                /\ staged' = [staged EXCEPT ![v] = disk[job.id][Original]]
                                /\ wpc' = IF unrendered = {v} THEN "commit" ELSE "render"
    BY <1>3 DEF Render
  <2>4. disk[job.id][Original] = job.hash /\ v \in Deferred
    BY <2>2 DEF JobIsCurrent, WorkerType
  <2>5. staged'[v] = job.hash /\ \A u \in Deferred \ {v} : staged'[u] = staged[u]
    BY <2>3, <2>4 DEF WorkerType
  <2>6. ASSUME NEW u \in Deferred
        PROVE  /\ staged'[u] \in {job.hash, None}
               /\ u \in Produced(job.hash) => u \in unrendered' \/ staged'[u] = job.hash
    BY <2>1, <2>2, <2>3, <2>5 DEF CurrentVariants
  <2>7. QED
    BY <2>1, <2>3, <2>6 DEF CurrentVariants
<1>4. CASE CommitVariant
  <2>1. job' = job /\ wpc = "commit" /\ wpc' = "commit"
    BY <1>4 DEF CommitVariant
  <2>2. JobIsCurrent
    BY <2>1, JobWasCurrent DEF JobIsCurrent
  <2>3. PICK v \in Deferred : /\ staged[v] # None
                              /\ disk' = [disk EXCEPT ![job.id][v] = staged[v]]
                              /\ staged' = [staged EXCEPT ![v] = None]
    BY <1>4 DEF CommitVariant
  <2>4. job.id \in PhotoIds /\ staged[v] = job.hash
    BY <2>1, <2>2, <2>3 DEF CurrentVariants, WorkerType, Snapshot
  <2>5. disk'[job.id][v] = job.hash /\ staged'[v] = None
    BY <2>3, <2>4 DEF TableType, Files, WorkerType
  <2>6. \A u \in Deferred \ {v} : disk'[job.id][u] = disk[job.id][u] /\ staged'[u] = staged[u]
    BY <2>3, <2>4 DEF TableType, Files, WorkerType
  <2>7. QED
    BY <2>1, <2>2, <2>5, <2>6 DEF CurrentVariants
<1>5. CASE RemoveUnproduced
  <2>1. job' = job /\ wpc = "commit" /\ wpc' = "mark" /\ staged' = NoStaged /\ staged = NoStaged
    BY <1>5 DEF RemoveUnproduced, AllCommitted
  <2>2. JobIsCurrent
    BY <2>1, JobWasCurrent DEF JobIsCurrent
  <2>3. job.id \in PhotoIds /\ job.hash \in Contents
    BY <2>1 DEF WorkerType, Snapshot
  <2>4. ASSUME NEW v \in Deferred PROVE disk'[job.id][v] \in {job.hash, None}
    <3>1. v \in Files
      BY DEF Files
    <3>2. CASE v \in Produced(job.hash)
      BY <1>5, <2>1, <2>2, <2>3, <3>1, <3>2
         DEF RemoveUnproduced, Unproduced, CurrentVariants, NoStaged, TableType
    <3>3. CASE v \notin Produced(job.hash)
      BY <1>5, <2>3, <3>1, <3>3 DEF RemoveUnproduced, Unproduced, TableType
    <3>4. QED
      BY <3>2, <3>3
  <2>5. \A v \in Deferred : staged'[v] = None
    BY <2>1 DEF NoStaged
  <2>6. QED
    BY <2>1, <2>4, <2>5 DEF CurrentVariants
<1>6. CASE MarkVariantsReady \/ RenderWithoutOriginal \/ TakeBack \/ GenerateFails
  BY <1>0, <1>6 DEF MarkVariantsReady, RenderWithoutOriginal, TakeBack, GenerateFails, JobDone
<1>7. CASE WakeUp \/ Tick \/ ListPending \/ EndDrain \/ ListFails \/ Stop \/ Restart
  BY <1>0, <1>7 DEF WakeUp, Tick, StartDrain, ListPending, EndDrain, ListFails, Stop, Restart
<1>8. QED
  BY WorkerFrame, <1>1, <1>2, <1>3, <1>4, <1>5, <1>6, <1>7 DEF WorkerStep, Generate

-----------------------------------------------------------------------------
(***************************************************************************)
(* The directories without a row.                                          *)
(***************************************************************************)

\* Who looks after the directory of p.
Owned(p) ==
  \/ p \in leftover
  \/ \E r \in Requests : InCharge(r, p) \/ req[r].pc = "eraseAlbum"
  \/ job.id = p /\ wpc \in {"commit", "mark", "takeback"}

\* Files appear for the request that commits an original, or the worker.
LEMMA NewFilesOwned ==
  ASSUME TypeInv, [Next]_vars, NEW p \in PhotoIds, ~HasFiles(p), HasFiles(p)'
  PROVE  Owned(p)'
<1> USE ConstantsAssumption DEF TypeInv
<1>0. disk \in [PhotoIds -> [Files -> Contents \cup {None}]]
  BY DEF TableType
<1>1. disk'[p] # disk[p]
  BY DEF HasFiles
<1>2. ASSUME NEW q, RemovePhoto(q) PROVE FALSE
  BY <1>0, <1>2 DEF RemovePhoto, HasFiles, NoFiles
<1>3. ASSUME NEW r \in Requests, CommitOriginal(r) PROVE Owned(p)'
  <2>1. p = req[r].id /\ req[r].file # None /\ Goto(r, "write")
    BY <1>0, <1>1, <1>3 DEF CommitOriginal, RequestType, Shape
  <2>2. req'[r].id = p /\ req'[r].pc = "write" /\ req'[r].file # None
    BY <2>1 DEF Goto, RequestType, Call
  <2>3. QED
    BY <2>2 DEF Owned, InCharge
<1>4. ASSUME NEW r \in Requests, RemoveAlbumFiles(r) PROVE FALSE
  BY <1>4 DEF RemoveAlbumFiles, HasFiles, NoFiles
<1>5. CASE CommitVariant
  BY <1>0, <1>1, <1>5 DEF CommitVariant, Owned
<1>6. CASE RemoveUnproduced
  BY <1>0, <1>1, <1>6 DEF RemoveUnproduced, Owned
<1>7. QED
  BY DiskFrame, <1>1, <1>2, <1>3, <1>4, <1>5, <1>6 DEF RemoveUpload, RemovePhotoFiles, TakeBack

\* A row leaves its directory to the deletion that took it.
LEMMA LostRowOwned ==
  ASSUME TypeInv, [Next]_vars, NEW p \in Rows, p \notin Rows'
  PROVE  Owned(p)'
<1> USE DEF TypeInv
<1>1. CASE UNCHANGED table \/ MarkVariantsReady
  BY <1>1 DEF table, Rows, MarkVariantsReady, TableType
<1>2. ASSUME NEW r \in Requests, MarkVariantsPending(r) \/ UpdatePhoto(r) \/ InsertPhoto(r) PROVE FALSE
  BY <1>2 DEF MarkVariantsPending, UpdatePhoto, InsertPhoto, WithRow, Rows, TableType
<1>3. ASSUME NEW r \in Requests, DeletePhoto(r) PROVE Owned(p)'
  <2>1. PICK q \in Rows : photos' = WithoutRow(q) /\ Becomes(r, [At("erase") EXCEPT !.id = q])
    BY <1>3 DEF DeletePhoto
  <2>2. q = p
    BY <2>1 DEF WithoutRow, Rows
  <2>3. req'[r].id = p /\ req'[r].pc = "erase"
    BY <2>1, <2>2 DEF Becomes, At, RequestType
  <2>4. QED
    BY <2>3 DEF Owned, InCharge
<1>4. ASSUME NEW r \in Requests, DeleteAlbum(r) PROVE Owned(p)'
  <2>1. req'[r].pc = "eraseAlbum"
    BY <1>4 DEF DeleteAlbum, Goto, RequestType, Call
  <2>2. QED
    BY <2>1 DEF Owned
<1>5. QED
  BY TableFrame, <1>1, <1>2, <1>3, <1>4

\* A request stays in charge until the row is there, the files are gone, or it
\* leaves them over.
LEMMA ChargeKept ==
  ASSUME TypeInv, [Next]_vars, NEW p \in PhotoIds, p \notin Rows', HasFiles(p)',
         NEW r \in Requests, InCharge(r, p) \/ req[r].pc = "eraseAlbum"
  PROVE  Owned(p)'
<1> USE ConstantsAssumption DEF TypeInv
<1>1. CASE UNCHANGED req
  BY <1>1 DEF Owned, InCharge
<1>2. ASSUME req'[r] = req[r] PROVE Owned(p)'
  BY <1>2 DEF Owned, InCharge
<1>3. CASE Restart
  <2>1. p \in RowlessDirs
    BY <1>3 DEF Restart, RowlessDirs, HasFiles, table, Rows
  <2>2. QED
    BY <1>3, <2>1 DEF Restart, Owned
<1>4. ASSUME NEW q \in Requests, q # r, Acts(q) PROVE Owned(p)'
  BY <1>2, <1>4, OthersWait
<1>5. CASE InsertPhoto(r)
  <2>1. InCharge(r, p) /\ req[r].id = p
    BY <1>5 DEF InsertPhoto, InCharge
  <2>2. ~Insertable(req[r].lr)
    BY <1>5, <2>1 DEF InsertPhoto, WithRow, Rows
  <2>3. Goto(r, "undo")
    BY <1>5, <2>2 DEF InsertPhoto
  <2>4. req'[r].id = p /\ req'[r].pc = "undo"
    BY <2>1, <2>3 DEF Goto, RequestType, Call
  <2>5. QED
    BY <2>4 DEF Owned, InCharge
<1>6. ASSUME AbandonIfGone(r), InCharge(r, p), req[r].pc = "write", p \notin Rows PROVE Owned(p)'
  BY <1>6 DEF AbandonIfGone, InCharge, Owned
<1>7. CASE UpdatePhoto(r)
  <2>1. Rows' = Rows /\ req[r].pc = "write" /\ InCharge(r, p)
    BY <1>7 DEF UpdatePhoto, Rows, TableType, InCharge
  <2>2. QED
    BY <1>6, <1>7, <2>1 DEF UpdatePhoto
<1>8. CASE Fail(r)
  <2>1. req[r].pc = "write" /\ InCharge(r, p) /\ Rows' = Rows
    BY <1>8 DEF Fail, InCharge, table, Rows
  <2>2. CASE req[r].isNew
    <3>1. req'[r].id = p /\ req'[r].pc = "undo"
      BY <1>8, <2>1, <2>2 DEF Fail, Goto, RequestType, Call, InCharge
    <3>2. QED
      BY <3>1 DEF Owned, InCharge
  <2>3. CASE ~req[r].isNew
    BY <1>6, <1>8, <2>1, <2>3 DEF Fail
  <2>4. QED
    BY <2>2, <2>3
<1>9. CASE RemoveUpload(r) \/ RemovePhotoFiles(r)
  <2>1. disk' = [disk EXCEPT ![p] = NoFiles]
    BY <1>9 DEF RemoveUpload, RemovePhotoFiles, RemovePhoto, InCharge
  <2>2. QED
    BY <2>1 DEF TableType, HasFiles, NoFiles
<1>10. CASE RemoveAlbumFiles(r)
  BY <1>10 DEF RemoveAlbumFiles, HasFiles, NoFiles
<1>11. CASE RemoveFails(r)
  <2>1. Rows' = Rows /\ HasFiles(p)
    BY <1>11 DEF RemoveFails, table, Rows, HasFiles
  <2>2. p \in leftover'
    BY <1>11, <2>1 DEF RemoveFails, RowlessDirs, InCharge
  <2>3. QED
    BY <2>2 DEF Owned
<1>12. req[r].pc \in {"write", "undo", "erase", "eraseAlbum"}
  BY DEF InCharge
<1>13. CASE Acts(r)
  <2>1. ~(UploadPhoto(r) \/ FindPhoto(r) \/ DrawId(r) \/ ReplacePhoto(r) \/ DeletePhoto(r))
    BY <1>12 DEF UploadPhoto, FindPhoto, DrawId, ReplacePhoto, DeletePhoto
  <2>2. ~(MarkVariantsPending(r) \/ CommitOriginal(r) \/ Kick(r) \/ FindAlbum(r) \/ DeleteAlbum(r))
    BY <1>12 DEF MarkVariantsPending, CommitOriginal, Kick, FindAlbum, DeleteAlbum
  <2>3. QED
    BY <1>13, <1>5, <1>7, <1>8, <1>9, <1>10, <1>11, <2>1, <2>2 DEF Acts, Store
<1>14. QED
  BY RequestFrame, <1>1, <1>3, <1>4, <1>13

\* So does the worker.
LEMMA WorkerCharge ==
  ASSUME TypeInv, [Next]_vars, NEW p \in PhotoIds, p \notin Rows, p \notin Rows', HasFiles(p)',
         job.id = p, wpc \in {"commit", "mark", "takeback"}
  PROVE  Owned(p)'
<1> USE ConstantsAssumption DEF TypeInv
<1>1. CASE UNCHANGED worker \/ CommitVariant \/ RemoveUnproduced
  BY <1>1 DEF worker, CommitVariant, RemoveUnproduced, Owned
<1>2. CASE MarkVariantsReady
  BY <1>2 DEF MarkVariantsReady, StillCurrent, Owned
<1>3. CASE TakeBack
  BY <1>3 DEF TakeBack, PhotoGone, RemovePhoto, HasFiles, NoFiles, TableType
<1>4. CASE GenerateFails
  BY <1>4 DEF GenerateFails, Owned
<1>5. CASE Restart
  BY <1>5 DEF Restart, RowlessDirs, HasFiles, Owned
<1>6. QED
  BY WorkerFrame, <1>1, <1>2, <1>3, <1>4, <1>5
     DEF WorkerStep, Generate, WakeUp, Tick, StartDrain, ListPending, EndDrain, TakeNext, Render,
         RenderWithoutOriginal, ListFails, Stop

\* A directory without a row keeps its owner over every step.
LEMMA OwnersStep == TypeInv /\ FilesHaveAnOwner /\ [Next]_vars => FilesHaveAnOwner'
<1> SUFFICES ASSUME TypeInv, FilesHaveAnOwner, [Next]_vars,
                    NEW p \in PhotoIds, p \notin Rows', HasFiles(p)'
             PROVE  Owned(p)'
  BY DEF FilesHaveAnOwner, RowlessDirs, Owned
<1>1. CASE ~HasFiles(p)
  BY <1>1, NewFilesOwned
<1>2. CASE HasFiles(p) /\ p \in Rows
  BY <1>2, LostRowOwned
<1>3. CASE HasFiles(p) /\ p \notin Rows
  <2>1. Owned(p)
    BY <1>3 DEF FilesHaveAnOwner, RowlessDirs, Owned
  <2>2. CASE p \in leftover
    <3>1. p \in leftover'
      BY <2>2, RestFrame DEF AbandonIfGone, RemoveFails, GenerateFails, Restart
    <3>2. QED
      BY <3>1 DEF Owned
  <2>3. QED
    BY <1>3, <2>1, <2>2, ChargeKept, WorkerCharge DEF Owned
<1>4. QED
  BY <1>1, <1>2, <1>3

-----------------------------------------------------------------------------
(***************************************************************************)
(* The theorems.                                                           *)
(***************************************************************************)

\* The inductive invariant holds at the start.
LEMMA InitIInv == Init => IInv
<1> SUFFICES ASSUME Init PROVE IInv
  OBVIOUS
<1> USE ConstantsAssumption DEF Init
<1>1. At("idle") \in Call /\ Shape(At("idle")) /\ At("idle").id = None
         /\ At("idle").pc = "idle" /\ ~At("idle").isNew
  BY DEF At, Call, Shape
<1>2. RequestType
  BY <1>1 DEF RequestType
<1>3. WorkerType
  BY DEF WorkerType, NoStaged
<1>4. /\ restarts \in 0..MaxRestarts /\ faults \in 0..MaxFaults
      /\ album = TRUE /\ wake = TRUE /\ fresh \subseteq PhotoIds /\ leftover \subseteq PhotoIds /\ stored \subseteq Snapshot
  OBVIOUS
<1>5. Rows = DOMAIN StoredPhotos
  BY DEF Rows
<1>6. photos \in [Rows -> Row]
  BY <1>5 DEF Row
<1>7. disk \in [PhotoIds -> [Files -> Contents \cup {None}]]
  OBVIOUS
<1>8. TypeInv
  BY <1>2, <1>3, <1>4, <1>5, <1>6, <1>7 DEF TypeInv, TableType
<1>9. \A r \in Requests : req[r] = At("idle")
  OBVIOUS
<1>10. Ids
  BY <1>1, <1>5, <1>9 DEF Ids, Drawn, PrivateIds, Private, DeletedStaysOut, NoJob
<1>11. Originals
  BY <1>1, <1>5, <1>9 DEF Originals, RowHasOriginal, UploadHasOriginal, Files
<1>12. Variants
  BY <1>5 DEF Variants, VisibleIsServable, Generating, AlwaysProduced, Files, Produced
<1>13. FilesHaveAnOwner
  BY <1>5 DEF FilesHaveAnOwner, RowlessDirs, HasFiles
<1>14. CurrentVariants
  BY DEF CurrentVariants, JobIsCurrent
<1>15. QED
  BY <1>8, <1>10, <1>11, <1>12, <1>13, <1>14 DEF IInv

\* The inductive invariant is kept by every step.
LEMMA NextIInv == IInv /\ [Next]_vars => IInv'
BY TypeStep, IdsStep, OriginalsStep, VariantsStep, OwnersStep, CurrentStep DEF IInv

\* The inductive invariant holds always.
LEMMA AlwaysIInv == Spec => []IInv
BY InitIInv, NextIInv, PTL DEF Spec

\* The variables keep their types.
THEOREM TypeOKAlways == Spec => []TypeOK
<1>1. IInv => TypeOK
  BY DEF IInv, TypeInv, TableType, RequestType, WorkerType, TypeOK
<1>2. QED
  BY <1>1, AlwaysIInv, PTL

\* A photo that has a row has its original, whatever uploads, replacements,
\* deletions, take-backs, faults and restarts interleave.
THEOREM RowHasOriginalAlways == Spec => []RowHasOriginal
<1>1. IInv => RowHasOriginal
  BY DEF IInv, Originals
<1>2. QED
  BY <1>1, AlwaysIInv, PTL

\* A visible photo has the variants visitors are served.
THEOREM VisibleIsServableAlways == Spec => []VisibleIsServable
<1>1. IInv => VisibleIsServable
  BY DEF IInv, Variants
<1>2. QED
  BY <1>1, AlwaysIInv, PTL

\* No directory without a row is forgotten, except for those left to gc.
THEOREM FilesHaveAnOwnerAlways == Spec => []FilesHaveAnOwner
<1>1. IInv => FilesHaveAnOwner
  BY DEF IInv
<1>2. QED
  BY <1>1, AlwaysIInv, PTL

\* When the worker shows a photo whose row names the stored original, all its
\* variants show that original, unless that file was stored again meanwhile.
THEOREM ShownVariantsAreCurrentAlways == Spec => ShownVariantsAreCurrent
<1>1. ASSUME IInv, [Next]_vars, NEW p \in Rows \cap DOMAIN photos', ~photos[p].ready, photos'[p].ready,
             disk[p][Original] = photos[p].hash, [id |-> p, hash |-> photos[p].hash] \notin stored,
             NEW v \in Deferred
      PROVE  disk[p][v] \in {photos[p].hash, None}
  <2>1. MarkVariantsReady /\ StillCurrent /\ p = job.id
    BY <1>1, ShownByMark DEF IInv, Rows
  <2>2. wpc = "mark" /\ job \in Snapshot /\ photos[p].hash = job.hash
    BY <2>1, <1>1 DEF MarkVariantsReady, StillCurrent, IInv, TypeInv, WorkerType
  <2>3. [id |-> p, hash |-> photos[p].hash] = job
    BY <2>1, <2>2 DEF Snapshot
  <2>4. JobIsCurrent
    BY <1>1, <2>1, <2>2, <2>3 DEF JobIsCurrent
  <2>5. QED
    BY <1>1, <2>1, <2>2, <2>4 DEF IInv, CurrentVariants
<1>2. IInv /\ [Next]_vars =>
        [\A p \in Rows \cap DOMAIN photos' :
           ~photos[p].ready /\ photos'[p].ready =>
             LET h == photos[p].hash
             IN  disk[p][Original] = h /\ [id |-> p, hash |-> h] \notin stored =>
                   \A v \in Deferred : disk[p][v] \in {h, None}]_vars
  BY <1>1
<1>3. QED
  BY <1>2, AlwaysIInv, PTL DEF Spec, ShownVariantsAreCurrent

-----------------------------------------------------------------------------
(***************************************************************************)
(* The pipeline implements PhotoLifecycle.                                 *)
(***************************************************************************)

\* A refused upload does not go back to inserting.
LEMMA UndoStays ==
  ASSUME TypeInv, [Next]_vars, NEW q \in Requests, req[q].pc = "undo"
  PROVE  req'[q] = req[q] \/ req'[q].pc = "done"
<1> USE DEF TypeInv
<1>1. CASE UNCHANGED req
  BY <1>1
<1>2. CASE Restart
  BY <1>2 DEF Restart, At
<1>3. ASSUME NEW r \in Requests, Acts(r), q # r PROVE req'[q] = req[q]
  BY <1>3, OthersWait
<1>4. ASSUME End(q) PROVE req'[q].pc = "done"
  BY <1>4 DEF End, Becomes, At, RequestType
<1>5. CASE Acts(q)
  BY <1>4, <1>5 DEF Acts, UploadPhoto, FindPhoto, DrawId, ReplacePhoto, Store, MarkVariantsPending,
       CommitOriginal, InsertPhoto, UpdatePhoto, Kick, Fail, RemoveUpload, DeletePhoto, RemovePhotoFiles,
       FindAlbum, DeleteAlbum, RemoveAlbumFiles, RemoveFails
<1>6. QED
  BY RequestFrame, <1>1, <1>2, <1>3, <1>5

\* The stage of one photo id, as a condition on the table and the requests.
LEMMA LifeOf ==
  ASSUME NEW p \in PhotoIds
  PROVE  Life[p] = IF p \in Rows THEN IF photos[p].ready THEN "visible" ELSE "pending"
                   ELSE IF p \in fresh \/ Promised(p) THEN "absent" ELSE "gone"
BY DEF Life, Pending

\* The same of the next state.
LEMMA LifeNext ==
  ASSUME NEW p \in PhotoIds
  PROVE  Life'[p] = IF p \in Rows' THEN IF photos'[p].ready THEN "visible" ELSE "pending"
                    ELSE IF p \in fresh' \/ Promised(p)' THEN "absent" ELSE "gone"
BY DEF Life, Pending, Rows

\* Life is the function of the stages it gives.
LEMMA LifeDomains ==
  /\ Life = [p \in PhotoIds |-> Life[p]]
  /\ Life' = [p \in PhotoIds |-> Life'[p]]
BY DEF Life

\* A promise is made for a fresh id only.
LEMMA PromiseFrame ==
  ASSUME TypeInv, [Next]_vars, NEW p \in PhotoIds, Promised(p)'
  PROVE  Promised(p) \/ p \in fresh \ fresh'
<1>1. PICK r \in Requests : req'[r].id = p /\ req'[r].isNew /\ req'[r].pc \in {"commit", "write"}
  BY DEF Promised
<1>2. Private(r)'
  BY <1>1 DEF Private
<1>3. CASE Private(r) /\ req'[r].id = req[r].id
  <2>1. req[r].pc # "undo"
    BY <1>1, UndoStays
  <2>2. QED
    BY <1>1, <1>3, <2>1 DEF Promised, Private
<1>4. QED
  BY <1>1, <1>2, <1>3, IdFrame

\* An id with a row is neither fresh nor promised.
LEMMA RowNotPromised ==
  ASSUME Ids, NEW p \in Rows
  PROVE  p \notin fresh /\ ~Promised(p)
BY DEF Ids, Drawn, PrivateIds, Private, Promised

\* A step that adds no row and shows or hides no photo forgets some, or none.
LEMMA ForgetStep ==
  ASSUME TypeInv, Ids, [Next]_vars,
         \A p \in Rows' : p \in Rows /\ (photos'[p].ready <=> photos[p].ready)
  PROVE  Lifecycle!Forget
<1>1. ASSUME NEW p \in PhotoIds PROVE Life'[p] \in {Life[p], "gone"}
  <2>1. CASE p \in Rows'
    BY <2>1, LifeOf, LifeNext
  <2>2. CASE p \notin Rows'
    <3>1. fresh' \subseteq fresh
      BY RestFrame
    <3>2. p \in fresh' \/ Promised(p)' => p \notin Rows /\ (p \in fresh \/ Promised(p))
      BY <3>1, PromiseFrame, RowNotPromised
    <3>3. QED
      BY <2>2, <3>2, LifeOf, LifeNext
  <2>3. QED
    BY <2>1, <2>2
<1>2. ASSUME NEW p \in PhotoIds PROVE Life'[p] \in Lifecycle!Stages
  BY LifeNext DEF Lifecycle!Stages
<1>3. Life' \in [PhotoIds -> Lifecycle!Stages]
  BY <1>2, LifeDomains
<1>4. QED
  BY <1>1, <1>3 DEF Lifecycle!Forget

\* A step after which one photo is at another stage, and the others are not.
LEMMA OneMoves ==
  ASSUME NEW p \in PhotoIds, NEW stage, Life'[p] = stage,
         \A q \in PhotoIds \ {p} : Life'[q] = Life[q]
  PROVE  Life' = [Life EXCEPT ![p] = stage]
BY LifeDomains DEF Life

\* Every step of the pipeline is a step of the lifecycle, or none.
LEMMA LifeStep == IInv /\ [Next]_vars => Lifecycle!Next \/ UNCHANGED Life
<1> SUFFICES ASSUME IInv, [Next]_vars PROVE Lifecycle!Next \/ UNCHANGED Life
  OBVIOUS
<1> USE DEF IInv
<1>0. /\ Rows \subseteq PhotoIds /\ photos \in [Rows -> Row]
      /\ req \in [Requests -> Call]
  BY DEF TypeInv, TableType, RequestType
<1>1. ASSUME \A p \in Rows' : p \in Rows /\ (photos'[p].ready <=> photos[p].ready)
      PROVE  Lifecycle!Next
  BY <1>1, ForgetStep DEF Lifecycle!Next
<1>2. CASE UNCHANGED table
  BY <1>1, <1>2 DEF table, Rows
<1>3. ASSUME NEW r \in Requests, UpdatePhoto(r) \/ DeletePhoto(r) \/ DeleteAlbum(r) PROVE Lifecycle!Next
  <2>1. CASE UpdatePhoto(r)
    BY <1>0, <1>1, <2>1 DEF UpdatePhoto, Row, Rows
  <2>2. CASE DeletePhoto(r)
    BY <1>0, <1>1, <2>2 DEF DeletePhoto, WithoutRow, Rows
  <2>3. CASE DeleteAlbum(r)
    BY <1>0, <1>1, <2>3 DEF DeleteAlbum, NoRows, Rows
  <2>4. QED
    BY <1>3, <2>1, <2>2, <2>3
<1>4. ASSUME NEW r \in Requests, MarkVariantsPending(r) PROVE Lifecycle!Next \/ UNCHANGED Life
  <2> DEFINE p == req[r].id
  <2>1. CASE p \notin Rows
    BY <1>2, <1>4, <2>1 DEF MarkVariantsPending, table
  <2>2. CASE p \in Rows /\ ~photos[p].ready
    <3>1. photos' = [photos EXCEPT ![p].ready = FALSE]
      BY <1>4, <2>2 DEF MarkVariantsPending
    <3>2. Rows' = Rows /\ ~photos'[p].ready /\ \A q \in Rows \ {p} : photos'[q] = photos[q]
      BY <1>0, <2>2, <3>1 DEF Rows, Row
    <3>3. QED
      BY <1>1, <2>2, <3>2
  <2>3. CASE p \in Rows /\ photos[p].ready
    <3>1. photos' = [photos EXCEPT ![p].ready = FALSE] /\ fresh' = fresh /\ Goto(r, "commit")
      BY <1>4, <2>3 DEF MarkVariantsPending
    <3>2. Rows' = Rows /\ ~photos'[p].ready /\ \A q \in Rows \ {p} : photos'[q] = photos[q]
      BY <1>0, <2>3, <3>1 DEF Rows, Row
    <3>3. ASSUME NEW q \in PhotoIds PROVE Promised(q)' <=> Promised(q)
      <4>1. ~req[r].isNew
        BY <1>4 DEF MarkVariantsPending, TypeInv, RequestType, Shape
      <4>2. ~req'[r].isNew /\ \A s \in Requests \ {r} : req'[s] = req[s]
        BY <1>0, <3>1, <4>1 DEF Goto, Call
      <4>3. QED
        BY <4>1, <4>2 DEF Promised
    <3>4. Life[p] = "visible" /\ Life'[p] = "pending"
      BY <1>0, <2>3, <3>2, LifeOf, LifeNext
    <3>5. \A q \in PhotoIds \ {p} : Life'[q] = Life[q]
      BY <3>1, <3>2, <3>3, LifeOf, LifeNext
    <3>6. p \in PhotoIds
      BY <1>0, <2>3
    <3> HIDE DEF p
    <3>7. Lifecycle!Hide(p)
      BY <3>4, <3>5, <3>6, OneMoves DEF Lifecycle!Hide
    <3>8. QED
      BY <3>6, <3>7 DEF Lifecycle!Next
  <2>4. QED
    BY <2>1, <2>2, <2>3
<1>5. ASSUME NEW r \in Requests, InsertPhoto(r) PROVE Lifecycle!Next \/ UNCHANGED Life
  <2> DEFINE p == req[r].id
  <2>1. CASE ~Insertable(req[r].lr)
    BY <1>2, <1>5, <2>1 DEF InsertPhoto, table
  <2>2. CASE Insertable(req[r].lr)
    <3>1. /\ photos' = WithRow(p, [lr |-> req[r].lr, hash |-> req[r].hash, ready |-> FALSE])
          /\ fresh' = fresh /\ Goto(r, "kick") /\ Private(r) /\ req[r].pc = "write" /\ req[r].isNew
      BY <1>5, <2>2 DEF InsertPhoto, Private
    <3>2. p \in PhotoIds /\ p \notin Rows /\ Promised(p)
      BY <3>1 DEF TypeInv, RequestType, Shape, Ids, PrivateIds, Promised
    <3>3. Rows' = Rows \cup {p} /\ ~photos'[p].ready /\ \A q \in Rows : photos'[q] = photos[q]
      BY <3>1, <3>2 DEF WithRow, Rows
    <3>4. ASSUME NEW q \in PhotoIds \ {p} PROVE Promised(q)' <=> Promised(q)
      <4>1. req'[r].id = p /\ \A s \in Requests \ {r} : req'[s] = req[s]
        BY <1>0, <3>1 DEF Goto, Call
      <4>2. QED
        BY <4>1 DEF Promised
    <3>5. Life[p] = "absent" /\ Life'[p] = "pending"
      BY <3>2, <3>3, LifeOf, LifeNext
    <3>6. \A q \in PhotoIds \ {p} : Life'[q] = Life[q]
      BY <3>1, <3>3, <3>4, LifeOf, LifeNext
    <3> HIDE DEF p
    <3>7. Lifecycle!Store(p)
      BY <3>2, <3>5, <3>6, OneMoves DEF Lifecycle!Store
    <3>8. QED
      BY <3>2, <3>7 DEF Lifecycle!Next
  <2>3. QED
    BY <2>1, <2>2
<1>6. CASE MarkVariantsReady
  <2> DEFINE p == job.id
  <2>1. CASE ~StillCurrent
    BY <1>2, <1>6, <2>1 DEF MarkVariantsReady, table
  <2>2. CASE StillCurrent /\ photos[p].ready
    <3>1. photos' = [photos EXCEPT ![p].ready = TRUE] /\ p \in Rows
      BY <1>6, <2>2 DEF MarkVariantsReady, StillCurrent
    <3>2. Rows' = Rows /\ photos'[p].ready /\ \A q \in Rows \ {p} : photos'[q] = photos[q]
      BY <1>0, <3>1 DEF Rows, Row
    <3>3. QED
      BY <1>1, <2>2, <3>2
  <2>3. CASE StillCurrent /\ ~photos[p].ready
    <3>1. /\ photos' = [photos EXCEPT ![p].ready = TRUE] /\ p \in Rows
          /\ fresh' = fresh /\ req' = req
      BY <1>6, <2>3 DEF MarkVariantsReady, StillCurrent
    <3>2. Rows' = Rows /\ photos'[p].ready /\ \A q \in Rows \ {p} : photos'[q] = photos[q]
      BY <1>0, <3>1 DEF Rows, Row
    <3>3. ASSUME NEW q \in PhotoIds PROVE Promised(q)' <=> Promised(q)
      BY <3>1 DEF Promised
    <3>4. Life[p] = "pending" /\ Life'[p] = "visible"
      BY <1>0, <2>3, <3>1, <3>2, LifeOf, LifeNext
    <3>5. \A q \in PhotoIds \ {p} : Life'[q] = Life[q]
      BY <3>1, <3>2, <3>3, LifeOf, LifeNext
    <3>6. p \in PhotoIds
      BY <1>0, <3>1
    <3> HIDE DEF p
    <3>7. Lifecycle!Show(p)
      BY <3>4, <3>5, <3>6, OneMoves DEF Lifecycle!Show
    <3>8. QED
      BY <3>6, <3>7 DEF Lifecycle!Next
  <2>4. QED
    BY <2>1, <2>2, <2>3
<1>7. QED
  BY TableFrame, <1>2, <1>3, <1>4, <1>5, <1>6

\* The pipeline implements the life of a photo: ids are shown only after they
\* were stored and never come back once gone, whoever still works on them.
THEOREM LivesAsPromisedAlways == Spec => LivesAsPromised
<1>1. Init => Lifecycle!Init
  <2> SUFFICES ASSUME Init PROVE Lifecycle!Init
    OBVIOUS
  <2>1. ASSUME NEW p \in PhotoIds PROVE Life[p] \in {"absent", "visible"}
    BY <2>1, LifeOf DEF Init, Rows
  <2>2. QED
    BY <2>1, LifeDomains DEF Lifecycle!Init
<1>2. IInv /\ [Next]_vars => [Lifecycle!Next]_Life
  BY LifeStep
<1>3. QED
  BY <1>1, <1>2, AlwaysIInv, PTL DEF Spec, LivesAsPromised, Lifecycle!Spec
=============================================================================
