------------------------- MODULE VisitorReadsProofs -------------------------
(***************************************************************************)
(* Proofs about VisitorReads, for any number of visits, photos, requests,  *)
(* restarts and faults.  The pipeline's own invariant goes on holding,     *)
(* since a visit changes nothing of it.                                    *)
(*                                                                         *)
(* What a visit finds rests on two things.  A row that is there keeps its  *)
(* files, which PhotoPipelineProofs shows.  And the row and the files of a *)
(* photo agree unless the photo is torn: whoever writes the row has stored *)
(* the file whose hash it writes, or has read the hash from the row; and   *)
(* the worker holds no snapshot of a photo that visitors see.              *)
(***************************************************************************)
EXTENDS VisitorReads, PhotoPipelineProofs, FiniteSetTheorems

\* The worker lists what is hidden, each photo once.
SnapshotsArePending ==
  /\ \A s \in queue : /\ s.id \notin Visible /\ s.id # job.id
                      /\ \A t \in queue : s.id = t.id => s = t
  /\ job.id \notin Visible

\* A request between the file it stored and the row it will write.
Storing(r, p) == req[r].id = p /\ req[r].pc = "write" /\ req[r].file # None

TornIsNoted == Overlapping \subseteq torn /\ \A s \in stored : s.id \in torn

WritesItsFile ==
  \A r \in Requests : req[r].pc \in {"hide", "commit", "write"} /\ req[r].file # None =>
                        req[r].hash = req[r].file

FileIsStored ==
  \A r \in Requests :
    LET p == req[r].id
    IN  Storing(r, p) /\ p \notin torn /\ (p \in Rows \/ (req[r].isNew /\ album)) =>
          disk[p][Original] = req[r].file

\* A call without a file writes the hash that the row has.
HashIsKnown ==
  \A r \in Requests : req[r].pc = "write" /\ req[r].file = None /\ req[r].id \in Rows \ torn =>
                        req[r].hash = photos[req[r].id].hash

RowNamesOriginal ==
  \A p \in Rows \ torn :
    (\A r \in Requests : ~Storing(r, p)) => disk[p][Original] = photos[p].hash

\* What visitors see shows what its row names, and nobody is storing a file for
\* it: a replacement has hidden it first.
VisibleIsCurrent ==
  \A p \in Visible \ torn :
    /\ \A r \in Requests : ~(req[r].id = p /\ req[r].file # None /\ req[r].pc \in {"commit", "write"})
    /\ \A f \in Files : disk[p][f] \in {photos[p].hash, None}

Agreement == /\ SnapshotsArePending /\ TornIsNoted /\ WritesItsFile /\ FileIsStored
             /\ HashIsKnown /\ RowNamesOriginal /\ VisibleIsCurrent

\* What a visit that has read q can rely on.
Found(q) ==
  LET p == q.id
  IN  /\ q.pc = "idle" => q.todo = {}
      /\ q.pc \in {"stat", "open", "cover"} =>
           /\ p \in Rows \cup q.gone
           /\ p \notin q.gone \cup q.busy => p \in Visible
      /\ q.pc = "open" => q.file \in Files
      /\ q.pc = "open" /\ q.file \in AlwaysProduced /\ p \notin q.gone => disk[p][q.file] # None
      /\ q.pc = "open" /\ q.file = Large /\ p \notin q.gone \cup q.busy => disk[p][Large] # None
      /\ q.pc = "cover" /\ p \notin q.gone => disk[p][Thumb] # None
      /\ q.pc \in {"stat", "open"} /\ p \notin torn \cup q.gone \cup q.busy => q.hash = photos[p].hash
      /\ q.todo \subseteq Rows \cup q.gone

Packing == {v \in Visits : visit[v].pc \in {"zipList", "zip"}}

VisitInv == /\ VisitsTypeOK
            /\ IsFiniteSet(Packing) /\ SlotsGivenBack
            /\ \A v \in Visits : Found(visit[v])

ReadIInv == IInv /\ Agreement /\ VisitInv

-----------------------------------------------------------------------------
(***************************************************************************)
(* What a step does to a photo that has a row.                             *)
(***************************************************************************)

\* Its files: only the request that stores another original, and the worker's
\* job, write them.
LEMMA FilesOfRow ==
  ASSUME TypeInv, Ids, [Next]_vars, NEW p \in Rows
  PROVE  \/ disk'[p] = disk[p]
         \/ \E r \in Requests : CommitOriginal(r) /\ req[r].id = p
         \/ (CommitVariant \/ RemoveUnproduced) /\ job.id = p
<1> USE ConstantsAssumption DEF TypeInv, Ids
<1>0. disk \in [PhotoIds -> [Files -> Contents \cup {None}]] /\ p \in PhotoIds
  BY DEF TableType
<1>1. ASSUME NEW q, RemovePhoto(q), q \notin Rows PROVE disk'[p] = disk[p]
  BY <1>0, <1>1 DEF RemovePhoto
<1>2. ASSUME NEW r \in Requests, CommitOriginal(r), req[r].id # p PROVE disk'[p] = disk[p]
  BY <1>0, <1>2 DEF CommitOriginal
<1>3. ASSUME NEW r \in Requests, RemoveUpload(r) PROVE disk'[p] = disk[p]
  BY <1>1, <1>3 DEF RemoveUpload, RequestType, Shape, Private, PrivateIds
<1>4. ASSUME NEW r \in Requests, RemovePhotoFiles(r) PROVE disk'[p] = disk[p]
  BY <1>1, <1>4 DEF RemovePhotoFiles, DeletedStaysOut
<1>5. ASSUME NEW r \in Requests, RemoveAlbumFiles(r) PROVE FALSE
  BY <1>5 DEF RemoveAlbumFiles, DeletedStaysOut
<1>6. ASSUME CommitVariant \/ RemoveUnproduced, job.id # p PROVE disk'[p] = disk[p]
  BY <1>0, <1>6 DEF CommitVariant, RemoveUnproduced
<1>7. CASE TakeBack
  BY <1>1, <1>7 DEF TakeBack, PhotoGone
<1>8. QED
  BY DiskFrame, <1>2, <1>3, <1>4, <1>5, <1>6, <1>7

\* Neither does the worker touch an original.
LEMMA OriginalOfRow ==
  ASSUME TypeInv, Ids, [Next]_vars, NEW p \in Rows
  PROVE  \/ disk'[p][Original] = disk[p][Original]
         \/ \E r \in Requests : CommitOriginal(r) /\ req[r].id = p
<1> USE ConstantsAssumption DEF TypeInv
<1>1. disk \in [PhotoIds -> [Files -> Contents \cup {None}]] /\ p \in PhotoIds /\ Original \in Files
  BY DEF TableType, Files
<1>2. CASE CommitVariant
  BY <1>1, <1>2 DEF CommitVariant
<1>3. CASE RemoveUnproduced
  BY <1>1, <1>3 DEF RemoveUnproduced, Unproduced
<1>4. QED
  BY <1>2, <1>3, FilesOfRow

\* The files of an upload that is about to insert its row are its own.
LEMMA FilesOfUpload ==
  ASSUME TypeInv, Ids, [Next]_vars, NEW r \in Requests, req[r].isNew, req[r].pc = "write", album
  PROVE  disk'[req[r].id] = disk[req[r].id]
<1> USE ConstantsAssumption DEF TypeInv, Ids
<1>0. /\ disk \in [PhotoIds -> [Files -> Contents \cup {None}]] /\ Private(r)
      /\ req[r].id \in PhotoIds
  BY DEF TableType, Private, RequestType, Shape
<1>1. ASSUME NEW q \in Requests, q # r PROVE req[q].id # req[r].id
  BY <1>0, <1>1 DEF PrivateIds
<1>2. ASSUME NEW q \in Requests, CommitOriginal(q) \/ RemoveUpload(q) \/ RemovePhotoFiles(q)
      PROVE  disk'[req[r].id] = disk[req[r].id]
  BY <1>0, <1>1, <1>2 DEF CommitOriginal, RemoveUpload, RemovePhotoFiles, RemovePhoto
<1>3. ASSUME NEW q \in Requests, RemoveAlbumFiles(q) PROVE FALSE
  BY <1>3 DEF RemoveAlbumFiles, DeletedStaysOut
<1>4. CASE CommitVariant \/ RemoveUnproduced \/ TakeBack
  BY <1>0, <1>4 DEF CommitVariant, RemoveUnproduced, TakeBack, RemovePhoto, PrivateIds
<1>5. QED
  BY DiskFrame, <1>2, <1>3, <1>4

\* Its hash.
LEMMA HashOfRow ==
  ASSUME TypeInv, Ids, [Next]_vars, NEW p \in Rows, p \in Rows'
  PROVE  \/ photos'[p].hash = photos[p].hash
         \/ \E r \in Requests : /\ UpdatePhoto(r) /\ req[r].id = p
                                /\ photos'[p].hash = req[r].hash
<1> USE DEF TypeInv, TableType, Rows
<1>1. CASE UNCHANGED table
  BY <1>1 DEF table
<1>0. photos[p] \in Row
  OBVIOUS
<1>2. ASSUME NEW r \in Requests, MarkVariantsPending(r) PROVE photos'[p].hash = photos[p].hash
  <2>1. CASE req[r].id = p
    BY <1>0, <1>2, <2>1 DEF MarkVariantsPending, Row
  <2>2. CASE req[r].id # p
    BY <1>2, <2>2 DEF MarkVariantsPending
  <2>3. QED
    BY <2>1, <2>2
<1>3. ASSUME NEW r \in Requests, InsertPhoto(r) PROVE photos'[p].hash = photos[p].hash
  BY <1>3 DEF InsertPhoto, WithRow, Ids, PrivateIds, Private
<1>4. ASSUME NEW r \in Requests, UpdatePhoto(r)
      PROVE  photos'[p].hash = photos[p].hash \/ (req[r].id = p /\ photos'[p].hash = req[r].hash)
  BY <1>4 DEF UpdatePhoto, Row
<1>5. ASSUME NEW r \in Requests, DeletePhoto(r) \/ DeleteAlbum(r) PROVE photos'[p].hash = photos[p].hash
  BY <1>5 DEF DeletePhoto, DeleteAlbum, WithoutRow, NoRows
<1>6. CASE MarkVariantsReady
  BY <1>6 DEF MarkVariantsReady, Row
<1>7. QED
  BY TableFrame, <1>1, <1>2, <1>3, <1>4, <1>5, <1>6

\* A row that was not there before is that of an upload, which it hides.
LEMMA NewRow ==
  ASSUME TypeInv, Ids, [Next]_vars, NEW p \in Rows', p \notin Rows
  PROVE  \E r \in Requests :
           /\ InsertPhoto(r) /\ album /\ req[r].id = p /\ req'[r].pc = "kick" /\ UNCHANGED disk
           /\ photos'[p].hash = req[r].hash /\ ~photos'[p].ready
<1> USE DEF TypeInv, TableType, Rows
<1>1. CASE UNCHANGED table
  BY <1>1 DEF table
<1>2. ASSUME NEW r \in Requests, MarkVariantsPending(r) \/ UpdatePhoto(r) PROVE FALSE
  BY <1>2 DEF MarkVariantsPending, UpdatePhoto
<1>3. ASSUME NEW r \in Requests, InsertPhoto(r)
      PROVE  /\ album /\ req[r].id = p /\ req'[r].pc = "kick" /\ UNCHANGED disk
             /\ photos'[p].hash = req[r].hash /\ ~photos'[p].ready
  BY <1>3 DEF InsertPhoto, Insertable, WithRow, Goto, RequestType, Call
<1>5. ASSUME NEW r \in Requests, DeletePhoto(r) \/ DeleteAlbum(r) PROVE FALSE
  BY <1>5 DEF DeletePhoto, DeleteAlbum, WithoutRow, NoRows
<1>6. CASE MarkVariantsReady
  BY <1>6 DEF MarkVariantsReady
<1>7. QED
  BY TableFrame, <1>1, <1>2, <1>3, <1>5, <1>6

\* A request comes to store a file, or to write a row, one step at a time.
LEMMA WorkSteps ==
  ASSUME TypeInv, [Next]_vars, NEW r \in Requests, req'[r].pc \in {"hide", "commit", "write"}
  PROVE  \/ req'[r] = req[r]
         \/ /\ \/ MarkVariantsPending(r) /\ req[r].id \in Rows /\ req'[r].pc = "commit"
               \/ CommitOriginal(r) /\ req'[r].pc = "write"
            /\ req'[r].id = req[r].id /\ req'[r].file = req[r].file /\ req'[r].hash = req[r].hash
         \/ /\ UNCHANGED <<table, disk, stored>>
            /\ req'[r].id \in Rows
            /\ req'[r].hash = HashToWrite(req'[r].file, photos[req'[r].id].hash)
            /\ req'[r].pc = IF req'[r].file = None THEN "write" ELSE "hide"
         \/ /\ UNCHANGED table
            /\ req'[r].id \in fresh /\ req'[r].pc = "commit"
            /\ req'[r].hash = req'[r].file
<1> USE DEF TypeInv
<1>0. req[r] \in Call
  BY DEF RequestType
<1>1. ASSUME NEW c, Becomes(r, c) PROVE req'[r] = c
  BY <1>1 DEF Becomes, RequestType
<1>2. ASSUME NEW pc, Goto(r, pc)
      PROVE  /\ req'[r].pc = pc
             /\ req'[r].id = req[r].id /\ req'[r].file = req[r].file /\ req'[r].hash = req[r].hash
  BY <1>0, <1>2 DEF Goto, RequestType, Call
<1>3. ~End(r)
  BY <1>1 DEF End, At
<1>4. ASSUME NEW p \in Rows, NEW file, NEW hash, NEW c \in Call, ~c.isNew, c.id = p, c.file = file,
             c.hash = hash, hash = HashToWrite(file, photos[p].hash), Ingest(r, c)
      PROVE  /\ req'[r].id \in Rows
             /\ req'[r].hash = HashToWrite(req'[r].file, photos[req'[r].id].hash)
             /\ req'[r].pc = IF req'[r].file = None THEN "write" ELSE "hide"
  <2> DEFINE d == [c EXCEPT !.pc = AfterTarget(c)]
  <2>1. /\ d.id = p /\ d.file = file /\ d.hash = hash
        /\ d.pc = IF file = None THEN "write" ELSE "hide"
    BY <1>4 DEF Call, AfterTarget
  <2>2. Becomes(r, d)
    BY <1>4 DEF Ingest
  <2> HIDE DEF d
  <2>3. QED
    BY <1>1, <1>4, <2>1, <2>2
<1>5. CASE UploadPhoto(r)
  <2>1. PICK lr \in LrIds, file \in Contents \cup {None} :
           Becomes(r, [At("lookup") EXCEPT !.lr = lr, !.file = file])
    BY <1>5 DEF UploadPhoto
  <2> DEFINE c == [At("lookup") EXCEPT !.lr = lr, !.file = file]
  <2>2. c.pc = "lookup" /\ Becomes(r, c)
    BY <2>1 DEF At
  <2> HIDE DEF c
  <2>3. QED
    BY <1>1, <2>2
<1>6. CASE FindPhoto(r)
  <2>1. PICK p \in Rows : Ingest(r, [req[r] EXCEPT !.id = p,
                            !.hash = HashToWrite(req[r].file, photos[p].hash)])
    BY <1>6 DEF FindPhoto
  <2> DEFINE h == HashToWrite(req[r].file, photos[p].hash)
             c == [req[r] EXCEPT !.id = p, !.hash = h]
  <2>2. p \in PhotoIds /\ h \in Contents /\ ~req[r].isNew
    BY <1>0, <1>6, HashKnown DEF Call, FindPhoto, RequestType, Shape
  <2>3. Ingest(r, c)
    BY <2>1
  <2> HIDE DEF h
  <2>4. c \in Call /\ ~c.isNew /\ c.id = p /\ c.file = req[r].file /\ c.hash = h
    BY <1>0, <2>2 DEF Call
  <2> HIDE DEF c
  <2>5. QED
    BY <1>4, <1>6, <2>3, <2>4 DEF h, FindPhoto, bounds
<1>7. CASE DrawId(r)
  <2>1. PICK p \in fresh : Ingest(r, [req[r] EXCEPT !.id = p, !.hash = req[r].file, !.isNew = TRUE])
    BY <1>3, <1>7 DEF DrawId
  <2> DEFINE c == [req[r] EXCEPT !.id = p, !.hash = req[r].file, !.isNew = TRUE]
             d == [c EXCEPT !.pc = AfterTarget(c)]
  <2>2. req[r].file # None
    BY <1>3, <1>7 DEF DrawId
  <2>3. d.id = p /\ d.pc = "commit" /\ d.hash = d.file
    BY <1>0, <2>2 DEF Call, AfterTarget
  <2>4. Becomes(r, d)
    BY <2>1 DEF Ingest
  <2> HIDE DEF d
  <2>5. QED
    BY <1>1, <1>7, <2>3, <2>4 DEF DrawId
<1>8. CASE ReplacePhoto(r)
  <2>1. PICK p \in Rows, file \in Contents \cup {None} :
           Ingest(r, [At("idle") EXCEPT !.id = p, !.file = file,
                        !.hash = HashToWrite(file, photos[p].hash)])
    BY <1>8 DEF ReplacePhoto
  <2> DEFINE h == HashToWrite(file, photos[p].hash)
             c == [At("idle") EXCEPT !.id = p, !.file = file, !.hash = h]
  <2>2. p \in PhotoIds /\ h \in Contents
    BY HashKnown
  <2>3. Ingest(r, c)
    BY <2>1
  <2> HIDE DEF h
  <2>4. c \in Call /\ ~c.isNew /\ c.id = p /\ c.file = file /\ c.hash = h
    BY <2>2 DEF Call, At
  <2> HIDE DEF c
  <2>5. QED
    BY <1>4, <1>8, <2>3, <2>4 DEF h, ReplacePhoto, bounds
<1>9. CASE MarkVariantsPending(r)
  BY <1>2, <1>3, <1>9 DEF MarkVariantsPending
<1>10. CASE CommitOriginal(r)
  BY <1>2, <1>10 DEF CommitOriginal
<1>11. CASE InsertPhoto(r) \/ UpdatePhoto(r) \/ Fail(r) \/ FindAlbum(r) \/ DeleteAlbum(r)
  BY <1>2, <1>3, <1>11 DEF InsertPhoto, UpdatePhoto, Fail, FindAlbum, DeleteAlbum
<1>12. CASE DeletePhoto(r)
  BY <1>1, <1>12 DEF DeletePhoto, At
<1>13. CASE Restart
  BY <1>13 DEF Restart, At, InFlight
<1>14. CASE \E q \in Requests \ {r} : Acts(q)
  BY <1>14, OthersWait
<1>15. CASE Acts(r)
  BY <1>3, <1>5, <1>6, <1>7, <1>8, <1>9, <1>10, <1>11, <1>12, <1>15
     DEF Acts, Store, Kick, RemoveUpload, RemovePhotoFiles, RemoveAlbumFiles, RemoveFails
<1>16. QED
  BY RequestFrame, <1>13, <1>14, <1>15

\* A request that stored a file for a photo with a row writes the row, or ends
\* without having done it.
LEMMA WriteEnds ==
  ASSUME TypeInv, Ids, [Next]_vars, NEW r \in Requests, NEW p \in Rows, Storing(r, p)
  PROVE  req'[r] = req[r] \/ UpdatePhoto(r) \/ req'[r].pc = "done"
<1> USE DEF TypeInv
<1>1. req[r].pc = "write" /\ ~req[r].isNew
  BY DEF Storing, Ids, PrivateIds, Private
<1>2. ASSUME End(r) PROVE req'[r].pc = "done"
  BY <1>2 DEF End, Becomes, At, RequestType
<1>3. CASE \E q \in Requests \ {r} : Acts(q)
  BY <1>3, OthersWait
<1>4. CASE Acts(r)
  BY <1>1, <1>2, <1>4 DEF Acts, UploadPhoto, FindPhoto, DrawId, ReplacePhoto, Store, MarkVariantsPending,
       CommitOriginal, InsertPhoto, Kick, Fail, RemoveUpload, DeletePhoto, RemovePhotoFiles,
       FindAlbum, DeleteAlbum, RemoveAlbumFiles, RemoveFails
<1>5. CASE Restart
  BY <1>1, <1>5 DEF Restart, InFlight, At
<1>6. QED
  BY RequestFrame, <1>3, <1>4, <1>5

\* The worker's snapshots are those it had, or those it lists now.
LEMMA WorkerLists ==
  ASSUME TypeInv, [Next]_vars
  PROVE  \/ queue' \subseteq queue /\ job' \in {job, NoJob}
         \/ queue' = PendingSnapshots /\ job = NoJob /\ UNCHANGED <<table, job>>
         \/ UNCHANGED table /\ \E s \in queue : queue' = queue \ {s} /\ job' \in {s, job}
<1>1. CASE ListPending
  BY <1>1 DEF ListPending, TypeInv, WorkerType
<1>2. CASE TakeNext
  BY <1>2 DEF TakeNext
<1>3. QED
  BY WorkerFrame, <1>1, <1>2 DEF worker, WorkerStep, Generate, WakeUp, Tick, StartDrain, EndDrain,
       Render, RenderWithoutOriginal, CommitVariant, RemoveUnproduced, MarkVariantsReady, TakeBack,
       GenerateFails, ListFails, Stop, Restart, JobDone

-----------------------------------------------------------------------------
(***************************************************************************)
(* The row and the files of a photo agree.                                 *)
(***************************************************************************)

\* A photo that two requests work on, one of them with a file, is torn.
LEMMA Alone ==
  ASSUME TypeInv, TornIsNoted, NEW r \in Requests, NEW q \in Requests, NEW p \in PhotoIds \ torn,
         r \in Working(p), q \in Working(p), req[r].file # None
  PROVE  q = r
BY DEF TornIsNoted, Overlapping, Replacing

\* A photo whose file a request has stored was its own, or had a row, before.
LEMMA StoredForRow ==
  ASSUME TypeInv, Ids, [Next]_vars, NEW r \in Requests, req[r].pc = "write", req'[r] = req[r],
         req[r].id \in Rows'
  PROVE  req[r].id \in Rows
<1> SUFFICES ASSUME req[r].id \notin Rows PROVE FALSE
  OBVIOUS
<1>1. PICK q \in Requests : InsertPhoto(q) /\ req[q].id = req[r].id /\ req'[q].pc = "kick"
  BY NewRow
<1>2. Private(q) /\ q # r
  BY <1>1 DEF InsertPhoto, Private
<1>3. QED
  BY <1>1, <1>2 DEF Ids, PrivateIds

\* No step brings an album back.
LEMMA AlbumStaysGone == ASSUME [Next]_vars, TypeInv, album' PROVE album
BY TableFrame DEF table, MarkVariantsPending, InsertPhoto, UpdatePhoto, DeletePhoto, DeleteAlbum,
     MarkVariantsReady

\* What tears a photo is noted by every step.
LEMMA TornStep ==
  ASSUME Publishing
  PROVE  TornIsNoted' /\ torn \subseteq torn' /\ GivenUp \subseteq torn' /\ (Shown \cap Replacing) \subseteq torn'
BY DEF Publishing, Torn, TornIsNoted

\* The hash a call with a file writes is that file's.
LEMMA WritesItsFileStep ==
  ASSUME TypeInv, WritesItsFile, [Next]_vars
  PROVE  WritesItsFile'
<1> SUFFICES ASSUME NEW r \in Requests, req'[r].pc \in {"hide", "commit", "write"}, req'[r].file # None
             PROVE  req'[r].hash = req'[r].file
  BY DEF WritesItsFile
<1>1. QED
  BY WorkSteps DEF WritesItsFile, MarkVariantsPending, CommitOriginal, HashToWrite

\* Nobody else stores a file for a photo between a request's two steps.
LEMMA FileIsStoredStep ==
  ASSUME TypeInv, Ids, TornIsNoted, FileIsStored, Publishing
  PROVE  FileIsStored'
<1> SUFFICES ASSUME NEW r \in Requests, NEW p, p = req'[r].id, Storing(r, p)', p \notin torn',
                    p \in Rows' \/ (req'[r].isNew /\ album')
             PROVE  disk'[p][Original] = req'[r].file
  BY DEF FileIsStored
<1>0. [Next]_vars
  BY DEF Publishing
<1>1. /\ req'[r].pc = "write" /\ req'[r].file # None
      /\ p \notin torn
  BY TornStep DEF Storing
<1>2. CASE req'[r] = req[r]
  <2>1. req[r].pc = "write" /\ req[r].file # None /\ req[r].id = p /\ p \in PhotoIds
    BY <1>1, <1>2 DEF TypeInv, RequestType, Shape
  <2>2. p \in Rows \/ (req[r].isNew /\ album)
    BY <1>0, <1>2, <2>1, StoredForRow, AlbumStaysGone
  <2>3. disk[p][Original] = req[r].file
    BY <1>1, <2>1, <2>2 DEF FileIsStored, Storing
  <2>4. CASE p \in Rows
    <3>1. ASSUME NEW q \in Requests, CommitOriginal(q), req[q].id = p PROVE FALSE
      <4>1. q \in Working(p) /\ r \in Working(p)
        BY <2>1, <3>1 DEF Working, CommitOriginal
      <4>2. q = r
        BY <1>1, <2>1, <4>1, Alone
      <4>3. QED
        BY <2>1, <3>1, <4>2 DEF CommitOriginal
    <3>2. QED
      BY <1>0, <1>2, <2>3, <2>4, <3>1, OriginalOfRow
  <2>5. CASE req[r].isNew /\ album
    BY <1>0, <1>2, <2>1, <2>3, <2>5, FilesOfUpload
  <2>6. QED
    BY <2>2, <2>4, <2>5
<1>3. CASE CommitOriginal(r) /\ req'[r].id = req[r].id /\ req'[r].file = req[r].file
  <2>1. req[r].id \in PhotoIds
    BY <1>3 DEF CommitOriginal, TypeInv, RequestType, Shape
  <2>2. QED
    BY <1>3, <2>1 DEF CommitOriginal, TypeInv, TableType, Files
<1>4. QED
  BY <1>0, <1>1, <1>2, <1>3, WorkSteps

\* A hash that a call knows stays the row's.
LEMMA HashIsKnownStep ==
  ASSUME TypeInv, Ids, TornIsNoted, HashIsKnown, Publishing
  PROVE  HashIsKnown'
<1> SUFFICES ASSUME NEW r \in Requests, req'[r].pc = "write", req'[r].file = None,
                    NEW p, p = req'[r].id, p \in Rows', p \notin torn'
             PROVE  req'[r].hash = photos'[p].hash
  BY DEF HashIsKnown
<1>0. [Next]_vars /\ p \notin torn
  BY TornStep DEF Publishing
<1>1. CASE req'[r] = req[r]
  <2>1. p \in Rows
    BY <1>0, <1>1, StoredForRow
  <2>2. req[r].hash = photos[p].hash
    BY <1>0, <1>1, <2>1 DEF HashIsKnown
  <2>3. ASSUME NEW q \in Requests, UpdatePhoto(q), req[q].id = p PROVE req[q].hash = photos[p].hash
    <3>1. CASE req[q].file = None
      BY <1>0, <2>1, <2>3, <3>1 DEF HashIsKnown, UpdatePhoto
    <3>2. CASE req[q].file # None
      <4>1. q \in Working(p) /\ r \in Working(p)
        BY <1>1, <2>3 DEF Working, UpdatePhoto
      <4>2. p \in PhotoIds
        BY <2>1 DEF TypeInv, TableType
      <4>3. r = q
        BY <1>0, <3>2, <4>1, <4>2, Alone
      <4>4. QED
        BY <1>1, <3>2, <4>3
    <3>3. QED
      BY <3>1, <3>2
  <2>4. QED
    BY <1>0, <1>1, <2>1, <2>2, <2>3, HashOfRow
<1>2. CASE CommitOriginal(r) /\ req'[r].file = req[r].file
  BY <1>2, ConstantsAssumption DEF CommitOriginal, TypeInv, RequestType, Shape
<1>3. QED
  BY <1>0, <1>1, <1>2, WorkSteps DEF HashToWrite, table

\* A row names its original but while a request is about to write it.
LEMMA RowNamesOriginalStep ==
  ASSUME TypeInv, Ids, TornIsNoted, WritesItsFile, FileIsStored, HashIsKnown, RowNamesOriginal, Publishing
  PROVE  RowNamesOriginal'
<1> SUFFICES ASSUME NEW p, p \in Rows', p \notin torn', \A r \in Requests : ~Storing(r, p)'
             PROVE  disk'[p][Original] = photos'[p].hash
  BY DEF RowNamesOriginal
<1>0. [Next]_vars /\ p \notin torn
  BY TornStep DEF Publishing
<1>1. CASE p \notin Rows
  <2>1. PICK r \in Requests :
          /\ InsertPhoto(r) /\ album /\ req[r].id = p /\ UNCHANGED disk
          /\ photos'[p].hash = req[r].hash
    BY <1>0, <1>1, NewRow
  <2>2. /\ req[r].isNew /\ req[r].pc = "write" /\ req[r].file # None
    BY <2>1, ConstantsAssumption DEF InsertPhoto, TypeInv, RequestType, Shape
  <2>3. disk[p][Original] = req[r].file /\ req[r].hash = req[r].file
    BY <1>0, <2>1, <2>2 DEF FileIsStored, Storing, WritesItsFile
  <2>4. QED
    BY <2>1, <2>3
<1>2. ASSUME p \in Rows, NEW r \in Requests, Storing(r, p) PROVE disk'[p][Original] = photos'[p].hash
  <2>1. disk[p][Original] = req[r].file /\ req[r].hash = req[r].file
    BY <1>0, <1>2 DEF FileIsStored, Storing, WritesItsFile
  <2>2. CASE req'[r] = req[r]
    BY <1>2, <2>2 DEF Storing
  <2>3. CASE UpdatePhoto(r)
    BY <1>2, <2>1, <2>3 DEF UpdatePhoto, Storing, TypeInv, TableType, Row
  <2>4. CASE req'[r].pc = "done"
    <3>1. p \in GivenUp
      BY <1>2, <2>4 DEF GivenUp, Storing, TypeInv, TableType
    <3>2. QED
      BY <3>1, TornStep
  <2>5. QED
    BY <1>0, <1>2, <2>2, <2>3, <2>4, WriteEnds
<1>3. CASE p \in Rows /\ \A r \in Requests : ~Storing(r, p)
  <2>1. disk[p][Original] = photos[p].hash
    BY <1>0, <1>3 DEF RowNamesOriginal
  <2>2. ASSUME NEW r \in Requests, CommitOriginal(r), req[r].id = p PROVE FALSE
    <3>1. req[r].file # None /\ req[r] \in Call
      BY <2>2, ConstantsAssumption DEF CommitOriginal, TypeInv, RequestType, Shape
    <3>2. Storing(r, p)'
      BY <2>2, <3>1 DEF CommitOriginal, Goto, Storing, TypeInv, RequestType, Call
    <3>3. QED
      BY <3>2
  <2>3. ASSUME NEW r \in Requests, UpdatePhoto(r), req[r].id = p PROVE req[r].hash = photos[p].hash
    BY <1>0, <1>3, <2>3 DEF UpdatePhoto, Storing, HashIsKnown
  <2>4. QED
    BY <1>0, <1>3, <2>1, <2>2, <2>3, OriginalOfRow, HashOfRow
<1>4. QED
  BY <1>1, <1>2, <1>3

\* A photo that becomes visible is the one the worker marks.
LEMMA VisibleFrame ==
  ASSUME TypeInv, [Next]_vars, NEW p \in Visible'
  PROVE  \/ p \in Visible
         \/ MarkVariantsReady /\ StillCurrent /\ p = job.id
<1>1. p \in Rows' /\ photos'[p].ready
  BY DEF Visible, Pending
<1>2. QED
  BY <1>1, ShownByMark DEF Visible, Pending

\* What visitors see goes on showing what its row names.
LEMMA VisibleIsCurrentStep ==
  ASSUME IInv, Agreement, Publishing
  PROVE  VisibleIsCurrent'
<1> USE DEF Agreement
<1>0. TypeInv /\ Ids /\ CurrentVariants /\ [Next]_vars /\ torn \subseteq torn'
  BY TornStep DEF IInv, Publishing
<1>a. ASSUME NEW p \in Visible', p \notin torn', p \notin Visible
      PROVE  /\ MarkVariantsReady /\ StillCurrent /\ p = job.id /\ p \in Rows
             /\ p \notin Replacing
  <2>1. MarkVariantsReady /\ StillCurrent /\ p = job.id /\ p \in Rows
    BY <1>0, <1>a, VisibleFrame DEF StillCurrent
  <2>2. p \in Shown
    BY <1>a, <2>1 DEF Shown, Visible
  <2>3. QED
    BY <1>a, <2>1, <2>2, TornStep
<1>b. ASSUME NEW p \in Visible', NEW r \in Requests, req[r].id = p, req[r].file # None,
             req[r].pc \in {"commit", "write"}
      PROVE  p \in torn'
  <2>1. CASE p \in Visible
    BY <1>0, <1>b, <2>1 DEF VisibleIsCurrent
  <2>2. CASE p \notin Visible
    <3>1. p \in Replacing \/ p \notin PhotoIds
      BY <1>b DEF Replacing, Working
    <3>2. ASSUME p \notin torn' PROVE p \in PhotoIds
      BY <1>0, <1>a, <2>2, <3>2 DEF TypeInv, TableType
    <3>3. QED
      BY <1>a, <2>2, <3>1, <3>2
  <2>3. QED
    BY <2>1, <2>2
<1>1. ASSUME NEW p \in Visible', p \notin torn', NEW r \in Requests,
             req'[r].id = p, req'[r].file # None, req'[r].pc \in {"commit", "write"}
      PROVE  FALSE
  <2>1. CASE req'[r] = req[r]
    BY <1>1, <1>b, <2>1
  <2>2. CASE MarkVariantsPending(r) /\ req[r].id \in Rows /\ req'[r].id = req[r].id
    <3>1. ~photos'[p].ready
      BY <1>0, <1>1, <2>2 DEF MarkVariantsPending, TypeInv, TableType, Row
    <3>2. QED
      BY <1>1, <3>1 DEF Visible, Pending
  <2>3. CASE CommitOriginal(r) /\ req'[r].id = req[r].id /\ req'[r].file = req[r].file
    BY <1>1, <1>b, <2>3 DEF CommitOriginal
  <2>4. CASE UNCHANGED table /\ req'[r].id \in fresh
    BY <1>0, <1>1, <2>4 DEF table, Visible, Rows, Ids, Drawn
  <2>5. QED
    BY <1>0, <1>1, <2>1, <2>2, <2>3, <2>4, WorkSteps
<1>2. ASSUME NEW p \in Visible', p \notin torn', NEW f \in Files
      PROVE  disk'[p][f] \in {photos'[p].hash, None}
  <2>1. CASE p \in Visible
    <3>0. p \in Rows /\ p \in Rows'
      BY <1>2, <2>1 DEF Visible
    <3>1. disk[p][f] \in {photos[p].hash, None}
      BY <1>0, <1>2, <2>1 DEF VisibleIsCurrent
    <3>2. ASSUME NEW r \in Requests, CommitOriginal(r), req[r].id = p PROVE FALSE
      <4>1. req[r].file # None /\ req[r].pc = "commit"
        BY <1>0, <3>2, ConstantsAssumption DEF CommitOriginal, TypeInv, RequestType, Shape
      <4>2. QED
        BY <1>2, <1>b, <3>2, <4>1
    <3>3. disk'[p] = disk[p]
      BY <1>0, <2>1, <3>0, <3>2, FilesOfRow DEF SnapshotsArePending
    <3>4. ASSUME NEW r \in Requests, UpdatePhoto(r), req[r].id = p PROVE req[r].hash = photos[p].hash
      <4>1. req[r].pc = "write"
        BY <3>4 DEF UpdatePhoto
      <4>2. req[r].file = None
        BY <1>2, <1>b, <3>4, <4>1
      <4>3. QED
        BY <1>0, <1>2, <3>0, <3>4, <4>1, <4>2 DEF HashIsKnown
    <3>5. photos'[p].hash = photos[p].hash
      BY <1>0, <3>0, <3>4, HashOfRow
    <3>6. QED
      BY <3>1, <3>3, <3>5
  <2>2. CASE p \notin Visible
    <3>1. /\ MarkVariantsReady /\ StillCurrent /\ p = job.id /\ p \in Rows
          /\ p \notin Replacing /\ p \in PhotoIds
      BY <1>0, <1>2, <1>a, <2>2 DEF TypeInv, TableType
    <3>2. \A r \in Requests : ~Storing(r, p)
      BY <3>1 DEF Replacing, Working, Storing
    <3>3. photos[p].hash = job.hash /\ disk[p][Original] = photos[p].hash
      BY <1>0, <1>2, <3>1, <3>2 DEF StillCurrent, RowNamesOriginal
    <3>4. job \notin stored
      BY <1>0, <1>2, <3>1 DEF TornIsNoted
    <3>5. JobIsCurrent /\ wpc = "mark"
      BY <3>1, <3>3, <3>4 DEF JobIsCurrent, MarkVariantsReady
    <3>6. \A v \in Deferred : disk[p][v] \in {job.hash, None}
      BY <1>0, <3>1, <3>5 DEF CurrentVariants
    <3>7. disk' = disk /\ photos'[p].hash = photos[p].hash
      BY <1>0, <3>1 DEF MarkVariantsReady, TypeInv, TableType, Row
    <3>8. QED
      BY <3>3, <3>6, <3>7 DEF Files
  <2>3. QED
    BY <2>1, <2>2
<1>3. QED
  BY <1>1, <1>2 DEF VisibleIsCurrent

\* A photo that the worker has a snapshot of stays hidden until it is marked.
LEMMA SnapshotsStep ==
  ASSUME IInv, SnapshotsArePending, [Next]_vars
  PROVE  SnapshotsArePending'
<1>0. TypeInv /\ TypeInv'
  BY TypeStep DEF IInv
<1>1. None \notin Visible' /\ \A s \in queue : s.id # None
  BY <1>0, ConstantsAssumption DEF TypeInv, TableType, WorkerType, Snapshot, Visible
<1>2. ASSUME NEW p \in Visible', p \notin Visible PROVE p = job.id /\ job' = NoJob /\ queue' = queue
  BY <1>0, <1>2, VisibleFrame DEF MarkVariantsReady, JobDone
<1>3. CASE queue' \subseteq queue /\ job' \in {job, NoJob}
  <2>1. \A s \in queue' : s.id \notin Visible'
    BY <1>2, <1>3 DEF SnapshotsArePending
  <2>2. job'.id \notin Visible'
    BY <1>1, <1>2, <1>3 DEF SnapshotsArePending, NoJob
  <2>3. \A s \in queue' : s.id # job'.id
    BY <1>1, <1>3 DEF SnapshotsArePending, NoJob
  <2>4. QED
    BY <1>3, <2>1, <2>2, <2>3 DEF SnapshotsArePending
<1>4. CASE queue' = PendingSnapshots /\ job = NoJob /\ UNCHANGED <<table, job>>
  <2>1. Visible' = Visible
    BY <1>4 DEF table, Visible, Pending, Rows
  <2>2. \A s \in queue' : s.id \notin Visible'
    BY <1>4, <2>1 DEF PendingSnapshots, Visible
  <2>3. \A s, t \in queue' : s.id = t.id => s = t
    BY <1>4 DEF PendingSnapshots
  <2>4. job'.id = None /\ \A s \in queue' : s.id # None
    BY <1>0, <1>4, ConstantsAssumption DEF TypeInv, WorkerType, Snapshot, NoJob
  <2>5. QED
    BY <1>1, <2>2, <2>3, <2>4 DEF SnapshotsArePending
<1>5. ASSUME UNCHANGED table, NEW s \in queue, queue' = queue \ {s}, job' \in {s, job}
      PROVE  SnapshotsArePending'
  <2>1. Visible' = Visible
    BY <1>5 DEF table, Visible, Pending, Rows
  <2>2. QED
    BY <1>5, <2>1 DEF SnapshotsArePending
<1>6. QED
  BY <1>0, <1>3, <1>4, <1>5, WorkerLists

\* Rows and files go on agreeing over every step of the pipeline.
LEMMA AgreementStep ==
  ASSUME IInv, Agreement, Publishing
  PROVE  IInv' /\ Agreement'
<1>1. [Next]_vars /\ TypeInv /\ Ids
  BY DEF Publishing, IInv
<1>2. QED
  BY <1>1, NextIInv, TornStep, WritesItsFileStep, FileIsStoredStep, HashIsKnownStep, RowNamesOriginalStep,
     VisibleIsCurrentStep, SnapshotsStep DEF Agreement

-----------------------------------------------------------------------------
(***************************************************************************)
(* A step of the pipeline leaves a visit what it can rely on.              *)
(***************************************************************************)

\* What a visit that has read q becomes by a step of the pipeline.
Onward(q, n) ==
  /\ n.pc = q.pc /\ n.id = q.id /\ n.file = q.file /\ n.hash = q.hash
  /\ n.todo = q.todo
  /\ n.gone = q.gone \cup (Rows \ Rows') /\ n.busy = q.busy \cup Hidden \cup Shown

\* A photo that is neither hidden nor deleted stays visible.
LEMMA VisibleKept ==
  ASSUME NEW p \in Visible, p \notin Rows \ Rows', p \notin Hidden
  PROVE  p \in Visible'
BY DEF Visible, Hidden

\* Where no photo is hidden, shown or deleted, the same are visible.
LEMMA VisibleSame ==
  ASSUME TypeInv, Ids, [Next]_vars, Rows \ Rows' = {}, Hidden = {}, Shown = {}
  PROVE  Visible' = Visible
<1>1. ASSUME NEW p \in Visible PROVE p \in Visible'
  BY <1>1, VisibleKept
<1>2. ASSUME NEW p \in Visible', p \notin Visible PROVE FALSE
  <2>1. p \in Rows
    BY <1>2, VisibleFrame DEF StillCurrent
  <2>2. p \in Shown
    BY <1>2, <2>1 DEF Shown, Visible
  <2>3. QED
    BY <2>2
<1>3. QED
  BY <1>1, <1>2

\* What was found stays found.
LEMMA FoundKept ==
  ASSUME IInv, Agreement, Publishing, NEW q \in Visit, Found(q), NEW n, Onward(q, n)
  PROVE  Found(n)'
<1> USE DEF Onward
<1> DEFINE p == q.id
<1>0. TypeInv /\ Ids /\ [Next]_vars /\ torn \subseteq torn'
  BY TornStep DEF IInv, Publishing
<1>1. ASSUME q.pc \in {"stat", "open", "cover"}
      PROVE  /\ p \in Rows' \cup n.gone
             /\ p \notin n.gone => p \in Rows
             /\ p \notin n.gone \cup n.busy => p \in Visible /\ p \in Visible'
  BY <1>1, VisibleKept DEF Found
<1>2. ASSUME q.pc \in {"open", "cover"}, p \notin n.gone, NEW v \in AlwaysProduced, disk[p][v] # None
      PROVE  disk'[p][v] # None
  BY <1>0, <1>1, <1>2, VariantKept
<1>3. ASSUME q.pc = "open", q.file = Large, p \notin n.gone \cup n.busy PROVE disk'[p][Large] # None
  <2>1. p \in Visible /\ p \in Rows /\ p \in PhotoIds /\ disk[p][Large] # None
    BY <1>0, <1>1, <1>3 DEF Found, TypeInv, TableType
  <2>2. ASSUME NEW r \in Requests, CommitOriginal(r) PROVE disk'[p][Large] = disk[p][Large]
    BY <1>0, <2>1, <2>2, ConstantsAssumption DEF CommitOriginal, TypeInv, TableType, Files
  <2>3. job.id # p
    BY <2>1 DEF Agreement, SnapshotsArePending
  <2>4. QED
    BY <1>0, <2>1, <2>2, <2>3, FilesOfRow
<1>4. ASSUME q.pc \in {"stat", "open"}, p \notin torn' \cup n.gone \cup n.busy PROVE q.hash = photos'[p].hash
  <2>1. p \in Visible /\ p \in Rows /\ p \in Rows' /\ p \notin torn /\ q.hash = photos[p].hash
    BY <1>0, <1>1, <1>4 DEF Found
  <2>2. ASSUME NEW r \in Requests, UpdatePhoto(r), req[r].id = p PROVE req[r].hash = photos[p].hash
    <3>1. req[r].pc = "write"
      BY <2>2 DEF UpdatePhoto
    <3>2. req[r].file = None
      BY <2>1, <2>2, <3>1 DEF Agreement, VisibleIsCurrent
    <3>3. QED
      BY <2>1, <2>2, <3>1, <3>2 DEF Agreement, HashIsKnown
  <2>3. QED
    BY <1>0, <2>1, <2>2, HashOfRow
<1>5. Thumb \in AlwaysProduced
  BY VisitConstants DEF AlwaysProduced
<1>6. q.todo \subseteq Rows' \cup n.gone
  BY DEF Found
<1>7. QED
  BY <1>1, <1>2, <1>3, <1>4, <1>5, <1>6 DEF Found

\* The pipeline's steps keep what visits rely on.
LEMMA PublishingStep ==
  ASSUME IInv, Agreement, VisitInv, Publishing
  PROVE  VisitInv'
<1>0. /\ TypeInv /\ Ids /\ [Next]_vars
      /\ visit \in [Visits -> Visit] /\ cover' \in PhotoIds \cup {None}
      /\ IsFiniteSet(Packing) /\ slots = Cardinality(Packing) /\ slots \in 0..MaxZips
  BY DEF IInv, Publishing, VisitInv, VisitsTypeOK, SlotsGivenBack, Packing
<1>1. torn' \subseteq PhotoIds
  <2>1. TypeInv'
    BY <1>0, TypeStep
  <2>2. {s.id : s \in stored'} \subseteq PhotoIds
    BY <2>1 DEF TypeInv, TableType, Snapshot
  <2>3. torn \subseteq PhotoIds
    BY DEF VisitInv, VisitsTypeOK
  <2>4. QED
    BY <2>2, <2>3 DEF Publishing, Torn, Overlapping, Replacing, GivenUp
<1>2. CASE restarts' # restarts
  <2>1. slots' = 0 /\ visit' = [v \in Visits |-> NoVisit]
    BY <1>2 DEF Publishing
  <2>2. NoVisit \in Visit /\ NoVisit.pc = "idle" /\ NoVisit.todo = {}
    BY DEF NoVisit, Visit
  <2>3. Packing' = {}
    BY <2>1, <2>2 DEF Packing
  <2>4. IsFiniteSet(Packing') /\ slots' = Cardinality(Packing')
    BY <2>1, <2>3, FS_EmptySet
  <2>5. VisitsTypeOK'
    BY <1>0, <1>1, <2>1, <2>2, VisitConstants DEF VisitsTypeOK
  <2>6. ASSUME NEW v \in Visits PROVE Found(visit[v])'
    BY <2>1, <2>2 DEF Found
  <2>7. QED
    BY <2>4, <2>5, <2>6 DEF VisitInv, SlotsGivenBack, Packing
<1>3. CASE restarts' = restarts
  <2>1. /\ slots' = slots /\ visit' \in [Visits -> Visit]
        /\ \A v \in Visits : visit'[v] = visit[v] \/ Onward(visit[v], visit'[v])
        /\ \A v \in Visits : visit[v].pc # "idle" => Onward(visit[v], visit'[v])
    <3>1. slots' = slots /\ visit' = [v \in Visits |->
            IF Under(v) THEN [visit[v] EXCEPT !.gone = @ \cup (Rows \ Rows'),
                                !.busy = @ \cup Hidden \cup Shown]
            ELSE visit[v]]
      BY <1>3 DEF Publishing
    <3>2. Rows \ Rows' \subseteq PhotoIds /\ Hidden \cup Shown \subseteq PhotoIds
      BY <1>0 DEF TypeInv, TableType, Hidden, Shown, Visible, Pending
    <3>3. ASSUME NEW q \in Visit
          PROVE  LET n == [q EXCEPT !.gone = @ \cup (Rows \ Rows'), !.busy = @ \cup Hidden \cup Shown]
                 IN  n \in Visit /\ Onward(q, n)
      BY <3>2 DEF Visit, Onward
    <3>4. QED
      BY <1>0, <3>1, <3>3 DEF Under
  <2>2. ASSUME NEW v \in Visits PROVE Found(visit[v])'
    <3>1. PICK q \in Visit, n \in Visit : q = visit[v] /\ n = visit'[v]
      BY <1>0, <2>1
    <3>2. Found(q)
      BY <3>1 DEF VisitInv
    <3>3. CASE Onward(visit[v], visit'[v])
      <4>1. Onward(q, n)
        BY <3>1, <3>3
      <4>2. Found(n)'
        BY <1>0, <3>2, <4>1, FoundKept
      <4>3. QED
        BY <3>1, <4>2 DEF Found
    <3>4. CASE visit[v].pc = "idle" /\ visit'[v] = visit[v]
      BY <3>1, <3>2, <3>4 DEF Found
    <3>5. QED
      BY <2>1, <3>3, <3>4
  <2>3. Packing' = Packing
    BY <2>1 DEF Packing, Onward
  <2>4. VisitsTypeOK'
    BY <1>0, <1>1, <2>1 DEF VisitsTypeOK
  <2>5. QED
    BY <1>0, <2>1, <2>2, <2>3, <2>4 DEF VisitInv, SlotsGivenBack, Packing
<1>4. QED
  BY <1>2, <1>3

-----------------------------------------------------------------------------
(***************************************************************************)
(* A visit's own steps.                                                    *)
(***************************************************************************)

\* A visit's step leaves everything but itself as it is.
LEMMA Became ==
  ASSUME VisitInv, NEW v \in Visits, NEW c \in Visit, Found(c), Becoming(v, c),
         slots' \in 0..MaxZips
  PROVE  VisitsTypeOK' /\ \A u \in Visits : Found(visit[u])'
<1>1. /\ visit' = [visit EXCEPT ![v] = c] /\ visit \in [Visits -> Visit]
      /\ UNCHANGED <<cover, torn, photos, disk>>
  BY DEF VisitInv, VisitsTypeOK, Becoming, vars, table
<1>2. VisitsTypeOK'
  BY <1>1 DEF VisitInv, VisitsTypeOK
<1>3. Rows' = Rows /\ Visible' = Visible
  BY <1>1 DEF Rows, Visible, Pending
<1>4. ASSUME NEW q, Found(q) PROVE Found(q)'
  BY <1>1, <1>3, <1>4 DEF Found, ReadyPhotos
<1>5. ASSUME NEW u \in Visits PROVE Found(visit[u])'
  <2>1. PICK q : q = visit'[u]
    OBVIOUS
  <2>2. Found(q)
    BY <1>1, <2>1 DEF VisitInv
  <2>3. Found(q)'
    BY <1>4, <2>2
  <2>4. QED
    BY <2>1, <2>3 DEF Found
<1>6. QED
  BY <1>2, <1>5

\* A step that neither starts nor ends a download leaves the slots alone.
LEMMA Stepped ==
  ASSUME VisitInv, NEW v \in Visits, NEW c \in Visit, Found(c), Step(v, c),
         visit[v].pc \in {"zipList", "zip"} <=> c.pc \in {"zipList", "zip"}
  PROVE  VisitInv'
<1>1. slots' = slots /\ slots \in 0..MaxZips /\ Becoming(v, c)
  BY DEF Step, VisitInv, VisitsTypeOK
<1>2. Packing' = Packing
  BY <1>1 DEF Packing, Becoming, VisitInv, VisitsTypeOK
<1>3. QED
  BY <1>1, <1>2, Became DEF VisitInv, SlotsGivenBack, Packing

\* A visit that is over keeps nothing.
LEMMA NoVisitFound == NoVisit \in Visit /\ Found(NoVisit) /\ NoVisit.pc = "idle"
BY DEF NoVisit, Visit, Found

\* A visit that ends gives back the slot it has, if it has one.
LEMMA VisitEnded ==
  ASSUME VisitInv, NEW v \in Visits,
         \/ Over(v) /\ visit[v].pc \notin {"zipList", "zip"}
         \/ Becoming(v, NoVisit) /\ Release /\ visit[v].pc \in {"zipList", "zip"}
  PROVE  VisitInv'
<1>1. CASE Over(v) /\ visit[v].pc \notin {"zipList", "zip"}
  BY <1>1, NoVisitFound, Stepped DEF Over
<1>2. CASE Becoming(v, NoVisit) /\ Release /\ visit[v].pc \in {"zipList", "zip"}
  <2>1. Packing' = Packing \ {v} /\ v \in Packing
    BY <1>2, NoVisitFound DEF Packing, Becoming, VisitInv, VisitsTypeOK
  <2>2. IsFiniteSet(Packing) /\ slots = Cardinality(Packing) /\ slots \in 0..MaxZips
    BY DEF VisitInv, VisitsTypeOK, SlotsGivenBack, Packing
  <2>3. IsFiniteSet(Packing \ {v}) /\ slots' = Cardinality(Packing \ {v})
    BY <1>2, <2>1, <2>2, FS_RemoveElement DEF Release
  <2>4. Cardinality(Packing \ {v}) \in Nat
    BY <2>3, FS_CardinalityType
  <2>5. slots' \in 0..MaxZips
    BY <1>2, <2>2, <2>3, <2>4, VisitConstants DEF Release
  <2>6. QED
    BY <1>2, <2>1, <2>3, <2>5, NoVisitFound, Became DEF VisitInv, SlotsGivenBack, Packing
<1>3. QED
  BY <1>1, <1>2

\* A photo that visitors see has its thumbnail, and what else is always there.
LEMMA VisibleHas ==
  ASSUME IInv, NEW p \in Visible
  PROVE  /\ p \in PhotoIds /\ p \in Rows /\ photos[p].hash \in Contents
         /\ \A f \in AlwaysProduced : disk[p][f] # None
         /\ Thumb \in AlwaysProduced
BY VisitConstants DEF IInv, TypeInv, TableType, Row, Variants, VisibleIsServable, Visible, Pending,
     AlwaysProduced

\* A visit's step keeps what visits rely on.
LEMMA VisitingStep ==
  ASSUME IInv, VisitInv, NEW v \in Visits, Visiting(v)
  PROVE  VisitInv'
<1>0. /\ visit \in [Visits -> Visit] /\ visit[v] \in Visit
      /\ Found(visit[v])
  BY DEF VisitInv, VisitsTypeOK
<1>1. CASE GetPhotoVariant(v)
  <2>1. PICK p \in Visible, f \in Files :
          Step(v, [Starts(IF f = Large THEN "stat" ELSE "open") EXCEPT
                      !.id = p, !.file = f, !.hash = photos[p].hash])
    BY <1>1 DEF GetPhotoVariant, ShownTo
  <2> DEFINE c == [Starts(IF f = Large THEN "stat" ELSE "open") EXCEPT
                      !.id = p, !.file = f, !.hash = photos[p].hash]
  <2>2. p \in PhotoIds /\ p \in Rows /\ photos[p].hash \in Contents /\ \A g \in AlwaysProduced : disk[p][g] # None
    BY VisibleHas
  <2>3. /\ c \in Visit /\ c.id = p /\ c.file = f /\ c.hash = photos[p].hash /\ c.todo = {}
        /\ c.pc = IF f = Large THEN "stat" ELSE "open"
    BY <2>2 DEF Starts, NoVisit, Visit
  <2>4. Step(v, c) /\ visit[v].pc = "idle"
    BY <1>1, <2>1 DEF GetPhotoVariant
  <2> HIDE DEF c
  <2>5. Found(c)
    BY <2>2, <2>3 DEF Found, AlwaysProduced
  <2>6. QED
    BY <2>3, <2>4, <2>5, Stepped
<1>2. CASE StatLarge(v)
  <2> DEFINE f == Fallback(visit[v].id)
             c == [visit[v] EXCEPT !.pc = "open", !.file = f]
  <2>1. f \in {Large, Original} /\ (f = Large => disk[visit[v].id][Large] # None)
        /\ f \notin AlwaysProduced /\ f \in Files
    BY ConstantsAssumption DEF Fallback, AlwaysProduced, Files
  <2>2. Step(v, c) /\ visit[v].pc = "stat"
    BY <1>2 DEF StatLarge
  <2> HIDE DEF f
  <2>3. /\ c \in Visit /\ c.pc = "open" /\ c.file = f /\ c.id = visit[v].id
        /\ c.hash = visit[v].hash /\ c.gone = visit[v].gone /\ c.busy = visit[v].busy
        /\ c.todo = visit[v].todo
    BY <1>0, <2>1 DEF Visit
  <2> HIDE DEF c
  <2>4. Found(c)
    BY <1>0, <2>1, <2>2, <2>3 DEF Found
  <2>5. QED
    BY <2>2, <2>3, <2>4, Stepped
<1>3. CASE OpenFile(v) \/ ListPage(v)
  BY <1>3, VisitEnded DEF OpenFile, ListPage
<1>4. CASE GetSummary(v)
  <2>1. PICK pc \in {"page", "cover"}, p \in ResolvedCover :
          /\ pc = "cover" => p # None
          /\ Step(v, [Starts(pc) EXCEPT !.id = p])
    BY <1>4 DEF GetSummary
  <2> DEFINE c == [Starts(pc) EXCEPT !.id = p]
  <2>2. p \in PhotoIds \cup {None} /\ (p \in Visible \/ (p = None /\ Visible = {}))
    BY VisibleHas DEF ResolvedCover
  <2>3. /\ c \in Visit /\ c.pc = pc /\ c.id = p /\ c.todo = {}
        /\ c.gone = {} /\ c.busy = {}
    BY <2>2 DEF Starts, NoVisit, Visit
  <2>4. Step(v, c) /\ visit[v].pc = "idle"
    BY <1>4, <2>1 DEF GetSummary
  <2> HIDE DEF c
  <2>5. Found(c)
    BY <2>1, <2>2, <2>3, VisibleHas DEF Found
  <2>6. QED
    BY <2>3, <2>4, <2>5, Stepped
<1>5. CASE GetCover(v)
  <2>1. CASE visit[v].id \notin Rows
    BY <1>5, <2>1, VisitEnded DEF GetCover
  <2>2. CASE visit[v].id \in Rows
    <3> DEFINE h == photos[visit[v].id].hash
               c == [visit[v] EXCEPT !.pc = "open", !.file = Thumb, !.hash = h]
    <3>1. h \in Contents /\ Thumb \in Files /\ Thumb \in AlwaysProduced /\ Thumb # Large
      BY <2>2, VisitConstants DEF IInv, TypeInv, TableType, Row, Files, AlwaysProduced
    <3>2. Step(v, c) /\ visit[v].pc = "cover"
      BY <1>5, <2>2 DEF GetCover
    <3> HIDE DEF h
    <3>3. /\ c \in Visit /\ c.pc = "open" /\ c.file = Thumb /\ c.id = visit[v].id
          /\ c.hash = h /\ c.gone = visit[v].gone /\ c.busy = visit[v].busy
          /\ c.todo = visit[v].todo
      BY <1>0, <3>1 DEF Visit
    <3> HIDE DEF c
    <3>4. Found(c)
      BY <1>0, <3>1, <3>2, <3>3 DEF Found, h
    <3>5. QED
      BY <3>2, <3>3, <3>4, Stepped
  <2>3. QED
    BY <2>1, <2>2
<1>6. CASE TakeSlot(v)
  <2> DEFINE c == [Starts("zip") EXCEPT !.pc = "zipList"]
  <2>1. c \in Visit /\ c.pc = "zipList" /\ c.todo = {}
    BY DEF Starts, NoVisit, Visit
  <2>2. /\ Becoming(v, c) /\ visit[v].pc = "idle"
        /\ slots < MaxZips /\ slots' = slots + 1
    BY <1>6 DEF TakeSlot
  <2> HIDE DEF c
  <2>3. Found(c)
    BY <2>1 DEF Found
  <2>4. Packing' = Packing \cup {v} /\ v \notin Packing
    BY <1>0, <2>1, <2>2 DEF Packing, Becoming
  <2>5. IsFiniteSet(Packing) /\ slots = Cardinality(Packing) /\ slots \in 0..MaxZips
    BY DEF VisitInv, VisitsTypeOK, SlotsGivenBack, Packing
  <2>6. IsFiniteSet(Packing \cup {v}) /\ slots' = Cardinality(Packing \cup {v})
    BY <2>2, <2>4, <2>5, FS_AddElement
  <2>7. slots' \in 0..MaxZips
    BY <2>2, <2>5, VisitConstants
  <2>8. QED
    BY <2>1, <2>2, <2>3, <2>4, <2>6, <2>7, Became DEF VisitInv, SlotsGivenBack, Packing
<1>7. CASE ListForZip(v)
  <2> DEFINE c == [visit[v] EXCEPT !.pc = "zip", !.todo = ReadyPhotos, !.gone = {}]
  <2>1. Visible \subseteq PhotoIds
    BY VisibleHas
  <2>2. c \in Visit /\ c.pc = "zip" /\ c.todo = Visible
    BY <1>0, <2>1 DEF Visit, ReadyPhotos
  <2>3. Step(v, c) /\ visit[v].pc = "zipList"
    BY <1>7 DEF ListForZip
  <2> HIDE DEF c
  <2>4. Found(c)
    BY <2>2 DEF Found, Visible
  <2>5. QED
    BY <2>2, <2>3, <2>4, Stepped
<1>8. CASE AddToZip(v)
  <2>1. PICK p : Step(v, [visit[v] EXCEPT !.todo = @ \ {p}])
    BY <1>8 DEF AddToZip
  <2> DEFINE c == [visit[v] EXCEPT !.todo = @ \ {p}]
  <2>2. /\ c \in Visit /\ c.pc = visit[v].pc /\ c.todo = visit[v].todo \ {p}
        /\ c.gone = visit[v].gone
    BY <1>0 DEF Visit
  <2>3. Step(v, c) /\ visit[v].pc = "zip"
    BY <1>8, <2>1 DEF AddToZip
  <2> HIDE DEF c
  <2>4. Found(c)
    BY <1>0, <2>2, <2>3 DEF Found
  <2>5. QED
    BY <2>2, <2>3, <2>4, Stepped
<1>9. CASE FinishZip(v) \/ AbortZip(v)
  BY <1>9, VisitEnded DEF FinishZip, AbortZip
<1>10. QED
  BY <1>1, <1>2, <1>3, <1>4, <1>5, <1>6, <1>7, <1>8, <1>9 DEF Visiting

-----------------------------------------------------------------------------
(***************************************************************************)
(* The invariant, and what follows from it.                                *)
(***************************************************************************)

\* The invariant holds before anything was asked for.
LEMMA InitReadIInv == ReadInit => ReadIInv
<1> SUFFICES ASSUME ReadInit PROVE ReadIInv
  OBVIOUS
<1> USE DEF ReadInit
<1>1. IInv
  BY InitIInv
<1>2. \A r \in Requests : req[r].pc = "idle" /\ req[r].id = None /\ req[r].file = None
  BY DEF Init, At
<1>3. TornIsNoted
  BY <1>2 DEF TornIsNoted, Overlapping, Replacing, Working, Init
<1>4. SnapshotsArePending
  BY <1>1, ConstantsAssumption DEF SnapshotsArePending, Init, NoJob, Visible, IInv, TypeInv, TableType
<1>5. WritesItsFile /\ FileIsStored /\ HashIsKnown
  BY <1>2 DEF WritesItsFile, FileIsStored, HashIsKnown, Storing
<1>6. ASSUME NEW p \in Rows
      PROVE  disk[p][Original] = photos[p].hash /\ \A f \in Files : disk[p][f] \in {photos[p].hash, None}
  BY ConstantsAssumption DEF Init, Rows, Files
<1>7. RowNamesOriginal /\ VisibleIsCurrent
  BY <1>2, <1>6 DEF RowNamesOriginal, VisibleIsCurrent, Visible
<1>8. VisitsTypeOK
  BY NoVisitFound, VisitConstants DEF VisitsTypeOK
<1>9. Packing = {} /\ \A v \in Visits : Found(visit[v])
  BY NoVisitFound DEF Packing
<1>10. QED
  BY <1>1, <1>3, <1>4, <1>5, <1>7, <1>8, <1>9, FS_EmptySet
     DEF ReadIInv, Agreement, VisitInv, SlotsGivenBack, Packing

\* Where the pipeline and what is torn stay, agreement does.
LEMMA AgreementSame ==
  ASSUME Agreement, UNCHANGED <<vars, torn>>
  PROVE  Agreement'
BY DEF Agreement, SnapshotsArePending, TornIsNoted, WritesItsFile, FileIsStored, HashIsKnown,
     RowNamesOriginal, VisibleIsCurrent, vars, table, worker, bounds, Visible, Pending, Rows,
     Overlapping, Replacing, Working, Storing

\* The invariant is inductive.
LEMMA NextReadIInv == ReadIInv /\ [ReadNext]_allVars => ReadIInv'
<1> SUFFICES ASSUME ReadIInv, [ReadNext]_allVars PROVE ReadIInv'
  OBVIOUS
<1> USE DEF ReadIInv
<1>1. CASE Publishing
  BY <1>1, AgreementStep, PublishingStep
<1>2. ASSUME UNCHANGED <<vars, torn>> PROVE IInv' /\ Agreement'
  BY <1>2, NextIInv, AgreementSame
<1>3. ASSUME NEW v \in Visits, Visiting(v) PROVE ReadIInv'
  <2>1. UNCHANGED <<vars, torn>>
    BY <1>3 DEF Visiting, GetPhotoVariant, StatLarge, OpenFile, GetSummary, ListPage, GetCover, TakeSlot,
         ListForZip, AddToZip, FinishZip, AbortZip, Step, Over, Becoming
  <2>2. QED
    BY <1>2, <1>3, <2>1, VisitingStep
<1>4. ASSUME UNCHANGED <<vars, torn, visit, slots>>, cover' \in PhotoIds \cup {None} PROVE ReadIInv'
  <2>1. photos' = photos /\ disk' = disk /\ visit' = visit /\ slots' = slots /\ torn' = torn
    BY <1>4 DEF vars, table
  <2>2. Rows' = Rows /\ Visible' = Visible
    BY <2>1 DEF Rows, Visible, Pending
  <2>3. VisitInv'
    BY <1>4, <2>1, <2>2 DEF VisitInv, VisitsTypeOK, SlotsGivenBack, Packing, Found, ReadyPhotos
  <2>4. QED
    BY <1>2, <1>4, <2>3
<1>5. CASE SetCover
  BY <1>4, <1>5 DEF SetCover
<1>6. CASE UNCHANGED allVars
  BY <1>4, <1>6 DEF allVars, visits, VisitInv, VisitsTypeOK
<1>7. QED
  BY <1>1, <1>3, <1>5, <1>6 DEF ReadNext

\* It holds always.
LEMMA AlwaysReadIInv == ReadSpec => []ReadIInv
BY InitReadIInv, NextReadIInv, PTL DEF ReadSpec

\* The visits' variables keep their types: more downloads than slots are never
\* served at a time.
THEOREM VisitsTypeOKAlways == ReadSpec => []VisitsTypeOK
<1>1. ReadIInv => VisitsTypeOK
  BY DEF ReadIInv, VisitInv
<1>2. QED
  BY <1>1, AlwaysReadIInv, PTL

\* A visit that read a photo's row finds the file it opens, and a cover's row is
\* found, but for the changes that the property names.
THEOREM FoundUnlessChangedAlways == ReadSpec => []FoundUnlessChanged
<1>1. ReadIInv => FoundUnlessChanged
  <2> SUFFICES ASSUME ReadIInv, NEW v \in Visits, NEW q, q = visit[v]
               PROVE  /\ q.pc = "open" =>
                           (disk[q.id][q.file] # None \/ q.id \in q.gone \/ (q.file = Large /\ q.id \in q.busy))
                      /\ q.pc = "cover" => q.id \in Rows \cup q.gone
    BY DEF FoundUnlessChanged
  <2>1. Found(q)
    BY DEF ReadIInv, VisitInv
  <2>2. ASSUME q.pc = "open", q.id \notin q.gone PROVE disk[q.id][q.file] # None \/ (q.file = Large /\ q.id \in q.busy)
    <3>1. q.id \in Rows /\ q.file \in Files
      BY <2>1, <2>2 DEF Found
    <3>2. CASE q.file = Original
      BY <3>1, <3>2 DEF ReadIInv, IInv, Originals, RowHasOriginal
    <3>3. CASE q.file # Original
      BY <2>1, <2>2, <3>1, <3>3 DEF Found, Files, AlwaysProduced
    <3>4. QED
      BY <3>2, <3>3
  <2>3. QED
    BY <2>1, <2>2 DEF Found
<1>2. QED
  BY <1>1, AlwaysReadIInv, PTL

\* What is sent under an ETag shows the content whose hash the ETag names, or
\* is not there at all, unless the photo is torn or was changed during the visit.
THEOREM ETagNamesBodyAlways == ReadSpec => []ETagNamesBody
<1>1. ReadIInv => ETagNamesBody
  <2> SUFFICES ASSUME ReadIInv, NEW v \in Visits, NEW q, q = visit[v],
                      q.pc = "open", q.id \notin torn \cup q.busy \cup q.gone
               PROVE  disk[q.id][q.file] \in {q.hash, None}
    BY DEF ETagNamesBody
  <2>1. Found(q)
    BY DEF ReadIInv, VisitInv
  <2>2. q.id \in Visible \ torn /\ q.file \in Files /\ q.hash = photos[q.id].hash
    BY <2>1 DEF Found
  <2>3. QED
    BY <2>2 DEF ReadIInv, Agreement, VisibleIsCurrent
<1>2. QED
  BY <1>1, AlwaysReadIInv, PTL

\* A zip leaves out only what was deleted since it was listed.
THEOREM ZipSkipsOnlyDeletedAlways == ReadSpec => []ZipSkipsOnlyDeleted
<1>1. ReadIInv => ZipSkipsOnlyDeleted
  BY DEF ReadIInv, VisitInv, Found, IInv, Originals, RowHasOriginal, ZipSkipsOnlyDeleted
<1>2. QED
  BY <1>1, AlwaysReadIInv, PTL

\* The slots taken are those of the downloads under way, however the others ended.
THEOREM SlotsGivenBackAlways == ReadSpec => []SlotsGivenBack
<1>1. ReadIInv => SlotsGivenBack
  BY DEF ReadIInv, VisitInv
<1>2. QED
  BY <1>1, AlwaysReadIInv, PTL
=============================================================================
