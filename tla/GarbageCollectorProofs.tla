----------------------- MODULE GarbageCollectorProofs -----------------------
(***************************************************************************)
(* Proofs about GarbageCollector, for any number of albums, photos, calls, *)
(* crashes and runs of gc.                                                 *)
(*                                                                         *)
(* gc trusts a table it reads after it has listed the disk, and removes    *)
(* what it listed even later.  What makes that safe is the age: a photo    *)
(* whose directory is old belongs to no upload in progress, because an     *)
(* upload's directory is made and its row inserted without an hour's pause *)
(* between them.  Since ids are drawn once, what was unclaimed and without *)
(* a row when gc looked can never get a row again.                         *)
(***************************************************************************)
EXTENDS GarbageCollector, TLAPS

\* What a call works on, by where it is.
OnPhoto == {"receive", "mkdir", "rename", "record", "erase", "prune"}

CallsFit ==
  \A c \in Calls :
    /\ call[c].pc \in {"idle", "done"} => call[c].kind = None /\ call[c].id = None
    /\ call[c].pc \in OnPhoto => call[c].id \in PhotoIds /\ call[c].kind # "deleteAlbum"
    /\ call[c].pc = "eraseAlbum" => call[c].id \in Albums /\ call[c].kind = "deleteAlbum"

\* An id that was not drawn yet is nowhere.
FreshIsUnused ==
  \A p \in fresh : /\ p \notin rows /\ photoDir[p] = None
                   /\ \A c \in Calls : call[c].id # p

\* The upload that drew an id is alone in knowing it until it has inserted the
\* row, and its directory, once made, is young.
ClaimIsExclusive ==
  \A c \in Calls, p \in PhotoIds : Claims(c, p) =>
    /\ p \notin rows
    /\ photoDir[p] # "old"
    /\ call[c].pc \in {"receive", "mkdir"} => photoDir[p] = None
    /\ \A d \in Calls \ {c} : call[d].id # p

\* A call that erases a photo or an album took its row before, for good.
ErasedIsGone ==
  /\ \A c \in Calls : call[c].pc = "erase" => call[c].id \notin rows
  /\ \A c \in Calls : call[c].pc = "eraseAlbum" => call[c].id \notin albumRows
  /\ \A p \in rows : AlbumOf[p] \in albumRows

\* What gc has listed as old, or is about to remove, belongs to no upload.
ListedIsUnclaimed ==
  \A p \in (oldPhotos \cup doomed) \cap PhotoIds :
    p \notin fresh /\ \A c \in Calls : ~Claims(c, p)

DoomedHasNoRow == \A p \in doomed \cap PhotoIds : p \notin rows

\* A photo's directory is in its album's.
DirsNest == \A p \in PhotoIds : photoDir[p] # None => albumDir[AlbumOf[p]] # None

\* Which of gc's lists are in use, by where it is.
ListsInUse ==
  /\ gpc = "idle" => due = {}
  /\ gpc \in {"idle", "walk"} => doomed = {}
  /\ gpc # "walk" => statsLeft = {} /\ oldPhotos = {} /\ oldEmpty = {}
  /\ gpc \notin {"walk", "parent"} => albumsLeft = {}
  /\ gpc = "parent" => \E a \in Albums : albumsLeft = {a}

\* What was orphaned or empty when gc started, and still is, is ahead of it.
DueIsAhead ==
  /\ \A p \in due \cap PhotoIds : photoDir[p] = "old" =>
       /\ p \notin rows
       /\ IF gpc = "walk" THEN AlbumOf[p] \in albumsLeft \/ p \in statsLeft \cup oldPhotos
          ELSE p \in doomed
  /\ \A a \in due \cap Albums : IsEmpty(a) /\ albumDir[a] = "old" =>
       IF gpc = "walk" THEN a \in albumsLeft \cup statsLeft \cup oldEmpty ELSE a \in doomed

Ids   == CallsFit /\ FreshIsUnused /\ ClaimIsExclusive /\ ErasedIsGone
Lists == ListedIsUnclaimed /\ DoomedHasNoRow /\ ListsInUse /\ DirsNest /\ DueIsAhead

IInv == TypeOK /\ Ids /\ Lists

-----------------------------------------------------------------------------
(***************************************************************************)
(* Type correctness.                                                       *)
(***************************************************************************)

\* The server's steps, and what they are made of.
LEMMA WorkType ==
  ASSUME TypeOK, CallsFit, NEW c \in Calls, Work(c)
  PROVE  TypeOK'
<1> USE GCConstants DEF TypeOK, server, gc, tables, files, lists, Call, At, Goto, End, Unstage, Touch
<1>1. CASE NewStaged(c)
  BY <1>1 DEF NewStaged, Kinds, Age
<1>2. CASE Write(c)
  BY <1>2 DEF Write, Age
<1>3. CASE Abort(c)
  BY <1>3 DEF Abort
<1>4. CASE MakeAlbumDir(c)
  BY <1>4 DEF MakeAlbumDir, CallsFit, OnPhoto, Age
<1>5. CASE MakePhotoDir(c)
  BY <1>5 DEF MakePhotoDir, CallsFit, OnPhoto, Age
<1>6. CASE Rename(c)
  BY <1>6 DEF Rename, CallsFit, OnPhoto, Age
<1>7. CASE Record(c)
  BY <1>7 DEF Record, CallsFit, OnPhoto
<1>8. CASE DeletePhoto(c)
  BY <1>8 DEF DeletePhoto, Kinds
<1>9. CASE RemovePhoto(c)
  BY <1>9 DEF RemovePhoto, RemoveDir, CallsFit, OnPhoto, Age
<1>10. CASE RemoveParent(c)
  BY <1>10 DEF RemoveParent, RemoveIfEmpty
<1>11. CASE DeleteAlbum(c)
  BY <1>11 DEF DeleteAlbum, Kinds
<1>12. CASE RemoveAlbum(c)
  BY <1>12 DEF RemoveAlbum, RemoveAll
<1>13. QED
  BY <1>1, <1>2, <1>3, <1>4, <1>5, <1>6, <1>7, <1>8, <1>9, <1>10, <1>11, <1>12 DEF Work, Progress

\* gc's steps.
LEMMA GcType ==
  ASSUME TypeOK, ListsInUse, GcStep
  PROVE  TypeOK'
<1> USE GCConstants DEF TypeOK, server, gc, tables, files, lists
<1>1. CASE ReadPhotosDir
  BY <1>1 DEF ReadPhotosDir, Orphans, Empties
<1>2. CASE ReadAlbumDir
  BY <1>2 DEF ReadAlbumDir, Entries, DirsIn, PhotosIn
<1>3. CASE Info
  BY <1>3 DEF Info
<1>4. CASE ListPhotoRefs
  BY <1>4 DEF ListPhotoRefs
<1>5. CASE StaleIncoming
  BY <1>5 DEF StaleIncoming
<1>6. CASE RemovePhotoDir
  BY <1>6 DEF RemovePhotoDir, RemoveDir, Touch, Age
<1>7. CASE RemoveEmptyParent
  BY <1>7 DEF RemoveEmptyParent, RemoveIfEmpty, ListsInUse
<1>8. CASE RemoveEmptyDir
  BY <1>8 DEF RemoveEmptyDir, RemoveAll
<1>9. CASE RemoveStaged
  BY <1>9 DEF RemoveStaged, Unstage
<1>10. CASE Finish
  BY <1>10 DEF Finish
<1>11. QED
  BY <1>1, <1>2, <1>3, <1>4, <1>5, <1>6, <1>7, <1>8, <1>9, <1>10 DEF GcStep

\* Every step.
LEMMA TypeStep ==
  ASSUME TypeOK, CallsFit, ListsInUse, [Next]_vars
  PROVE  TypeOK'
<1> USE GCConstants DEF TypeOK, server, gc, tables, files, lists
<1>1. CASE Crash
  BY <1>1 DEF Crash, At, Call
<1>2. CASE HourPasses
  BY <1>2 DEF HourPasses, Older, Age
<1>3. CASE GcStops
  BY <1>3 DEF GcStops
<1>4. CASE UNCHANGED vars
  BY <1>4 DEF vars
<1>5. QED
  BY <1>1, <1>2, <1>3, <1>4, WorkType, GcType DEF Next

-----------------------------------------------------------------------------
(***************************************************************************)
(* What a step may do to a call, to the rows and to a directory.           *)
(***************************************************************************)
Goes(c) == /\ call'[c].id = call[c].id /\ call'[c].kind = call[c].kind
           /\ call'[c].pc = "receive" => call[c].pc = "receive"
           /\ call'[c].pc = "mkdir" => call[c].pc \in {"receive", "mkdir"}
Ends(c) == call'[c] = At("done")

\* An upload draws an id; everything else stays.
Draws(c) == /\ call'[c].kind = "upload" /\ call'[c].id \in fresh
            /\ fresh' = fresh \ {call'[c].id}
            /\ \A d \in Calls \ {c} : call'[d] = call[d]
            /\ UNCHANGED <<tables, files>>
\* Any other call takes the id of a row.
Takes(c) == /\ call'[c].kind # "upload" /\ call'[c].id \in rows \cup albumRows

\* Every call goes on, ends or begins.
LEMMA CallStep ==
  ASSUME TypeOK, CallsFit, [Next]_vars
  PROVE  /\ fresh' \subseteq fresh
         /\ \A c \in Calls : Goes(c) \/ Ends(c) \/ Draws(c) \/ Takes(c)
<1> USE GCConstants DEF TypeOK, server, gc, tables, files, lists, Goes, Ends, Draws, Takes
<1>1. ASSUME NEW c \in Calls, Work(c)
      PROVE  /\ fresh' \subseteq fresh
             /\ \A d \in Calls \ {c} : call'[d] = call[d]
             /\ Goes(c) \/ Ends(c) \/ Draws(c) \/ Takes(c)
  <2>1. CASE NewStaged(c)
    BY <2>1 DEF NewStaged
  <2>2. CASE Write(c) \/ Abort(c)
    BY <2>2 DEF Write, Abort, End
  <2>3. CASE MakeAlbumDir(c) \/ MakePhotoDir(c)
    BY <2>3 DEF MakeAlbumDir, MakePhotoDir, End, Goto, Call
  <2>4. CASE Rename(c) \/ Record(c)
    BY <2>4 DEF Rename, Record, End, Goto, Call
  <2>5. CASE DeletePhoto(c) \/ DeleteAlbum(c)
    BY <2>5 DEF DeletePhoto, DeleteAlbum
  <2>6. CASE RemovePhoto(c) \/ RemoveParent(c) \/ RemoveAlbum(c)
    BY <2>6 DEF RemovePhoto, RemoveParent, RemoveAlbum, End, Goto, Call
  <2>7. QED
    BY <1>1, <2>1, <2>2, <2>3, <2>4, <2>5, <2>6 DEF Work, Progress
<1>2. CASE Crash
  BY <1>2 DEF Crash
<1>3. CASE UNCHANGED <<call, fresh>>
  BY <1>3
<1>4. CASE HourPasses \/ GcStops
  BY <1>3, <1>4 DEF HourPasses, GcStops
<1>5. CASE GcStep
  BY <1>3, <1>5 DEF GcStep, ReadPhotosDir, ReadAlbumDir, Info, ListPhotoRefs, StaleIncoming,
     RemovePhotoDir, RemoveEmptyParent, RemoveEmptyDir, RemoveStaged, Finish
<1>6. QED
  BY <1>1, <1>2, <1>3, <1>4, <1>5 DEF Next, vars

\* A row is inserted by the upload that claims its id, which ends with that.
Inserts(c, p) == Claims(c, p) /\ call[c].pc = "record" /\ Ends(c) /\ AlbumOf[p] \in albumRows

LEMMA RowStep ==
  ASSUME TypeOK, CallsFit, [Next]_vars
  PROVE  /\ albumRows' \subseteq albumRows
         /\ \A p \in rows' \ rows : \E c \in Calls : Inserts(c, p)
<1> USE GCConstants DEF TypeOK, server, gc, tables, files, lists
<1>1. ASSUME NEW c \in Calls, Work(c)
      PROVE  /\ albumRows' \subseteq albumRows
             /\ \A p \in rows' \ rows : Inserts(c, p)
  <2>1. CASE Record(c)
    BY <2>1 DEF Record, End, Inserts, Claims, Ends
  <2>2. CASE DeletePhoto(c) \/ DeleteAlbum(c)
    BY <2>2 DEF DeletePhoto, DeleteAlbum
  <2>3. CASE UNCHANGED tables
    BY <2>3
  <2>4. QED
    BY <1>1, <2>1, <2>2, <2>3 DEF Work, Progress, NewStaged, Write, Abort, MakeAlbumDir, MakePhotoDir,
       Rename, RemovePhoto, RemoveParent, RemoveAlbum
<1>2. CASE UNCHANGED tables
  BY <1>2
<1>3. CASE Crash \/ HourPasses \/ GcStops
  BY <1>2, <1>3 DEF Crash, HourPasses, GcStops
<1>4. CASE GcStep
  BY <1>2, <1>4 DEF GcStep, ReadPhotosDir, ReadAlbumDir, Info, ListPhotoRefs, StaleIncoming,
     RemovePhotoDir, RemoveEmptyParent, RemoveEmptyDir, RemoveStaged, Finish
<1>5. QED
  BY <1>1, <1>2, <1>3, <1>4 DEF Next, vars

\* The statements that write the tables.
LEMMA TablesFrame ==
  ASSUME [Next]_vars
  PROVE  \/ UNCHANGED tables
         \/ \E c \in Calls : Record(c) \/ DeletePhoto(c) \/ DeleteAlbum(c)
BY DEF Next, Work, Progress, NewStaged, Write, Abort, MakeAlbumDir, MakePhotoDir,
   Rename, RemovePhoto, RemoveParent, RemoveAlbum, Crash, HourPasses, GcStops,
   GcStep, ReadPhotosDir, ReadAlbumDir, Info, ListPhotoRefs, StaleIncoming,
   RemovePhotoDir, RemoveEmptyParent, RemoveEmptyDir, RemoveStaged, Finish, vars, server

\* How a call comes to erase a photo or an album.
LEMMA EraseStep ==
  ASSUME TypeOK, CallsFit, [Next]_vars, NEW c \in Calls
  PROVE  /\ call'[c].pc = "erase" =>
              (call[c].pc = "erase" /\ call'[c] = call[c]) \/ Record(c) \/ DeletePhoto(c)
         /\ call'[c].pc = "eraseAlbum" =>
              (call[c].pc = "eraseAlbum" /\ call'[c] = call[c]) \/ DeleteAlbum(c)
<1> USE GCConstants DEF TypeOK, server, tables, files, At, Goto, End, Call
<1>1. ASSUME NEW d \in Calls, Work(d), d # c PROVE call'[c] = call[c]
  BY <1>1 DEF Work, Progress, NewStaged, Write, Abort, MakeAlbumDir, MakePhotoDir, DeletePhoto,
     DeleteAlbum, Rename, Record, RemovePhoto, RemoveParent, RemoveAlbum
<1>2. CASE Work(c)
  <2>1. CASE NewStaged(c) \/ Write(c) \/ Abort(c) \/ MakeAlbumDir(c) \/ MakePhotoDir(c) \/ Rename(c)
    BY <2>1 DEF NewStaged, Write, Abort, MakeAlbumDir, MakePhotoDir, Rename
  <2>2. CASE Record(c)
    BY <2>2 DEF Record
  <2>3. CASE DeletePhoto(c) \/ DeleteAlbum(c)
    BY <2>3 DEF DeletePhoto, DeleteAlbum
  <2>4. CASE RemovePhoto(c) \/ RemoveParent(c) \/ RemoveAlbum(c)
    BY <2>4 DEF RemovePhoto, RemoveParent, RemoveAlbum
  <2>5. QED
    BY <1>2, <2>1, <2>2, <2>3, <2>4 DEF Work, Progress
<1>3. CASE Crash
  BY <1>3 DEF Crash
<1>4. CASE UNCHANGED call
  BY <1>4
<1>5. CASE HourPasses \/ GcStops
  BY <1>4, <1>5 DEF HourPasses, GcStops
<1>6. CASE GcStep
  BY <1>4, <1>6 DEF GcStep, ReadPhotosDir, ReadAlbumDir, Info, ListPhotoRefs, StaleIncoming,
     RemovePhotoDir, RemoveEmptyParent, RemoveEmptyDir, RemoveStaged, Finish
<1>7. QED
  BY <1>1, <1>2, <1>3, <1>4, <1>5, <1>6 DEF Next, vars

\* A photo's directory is made by MkdirAll, and grows old only in an hour in
\* which no call is past the receipt of its body and gc does not run.
Makes(c, p) == call[c].id = p /\ call[c].pc = "mkdir" /\ call'[c].pc = "rename"

LEMMA DirStep ==
  ASSUME TypeOK, CallsFit, ListsInUse, [Next]_vars, NEW p \in PhotoIds
  PROVE  /\ photoDir'[p] # None => photoDir[p] # None \/ \E c \in Calls : Makes(c, p)
         /\ photoDir'[p] = "old" => photoDir[p] = "old" \/ HourPasses
<1> USE GCConstants DEF TypeOK, server, gc, tables, files, lists, Touch, Age
<1>1. ASSUME NEW c \in Calls, Work(c)
      PROVE  /\ photoDir'[p] # None => photoDir[p] # None \/ Makes(c, p)
             /\ photoDir'[p] = "old" => photoDir[p] = "old"
  <2>1. CASE MakePhotoDir(c)
    BY <2>1 DEF MakePhotoDir, Goto, Makes, Call, CallsFit, OnPhoto
  <2>2. CASE Rename(c)
    BY <2>2 DEF Rename, CallsFit, OnPhoto
  <2>3. CASE RemovePhoto(c) \/ RemoveAlbum(c)
    BY <2>3 DEF RemovePhoto, RemoveAlbum, RemoveDir, RemoveAll, CallsFit, OnPhoto
  <2>4. CASE UNCHANGED photoDir
    BY <2>4
  <2>5. QED
    BY <1>1, <2>1, <2>2, <2>3, <2>4 DEF Work, Progress, NewStaged, Write, Abort, MakeAlbumDir,
       Record, DeletePhoto, RemoveParent, DeleteAlbum
<1>2. CASE UNCHANGED photoDir
  BY <1>2
<1>3. CASE HourPasses
  BY <1>3 DEF HourPasses, Older
<1>4. CASE RemovePhotoDir \/ RemoveEmptyDir
  BY <1>4 DEF RemovePhotoDir, RemoveEmptyDir, RemoveDir, RemoveAll
<1>5. CASE Crash \/ GcStops
  BY <1>2, <1>5 DEF Crash, GcStops
<1>6. CASE GcStep
  BY <1>2, <1>4, <1>6 DEF GcStep, ReadPhotosDir, ReadAlbumDir, Info, ListPhotoRefs, StaleIncoming,
     RemoveEmptyParent, RemoveStaged, Finish
<1>7. QED
  BY <1>1, <1>2, <1>3, <1>5, <1>6 DEF Next, vars

-----------------------------------------------------------------------------
(***************************************************************************)
(* The server's part of the invariant.                                     *)
(***************************************************************************)

\* A call is on a photo, on an album or on nothing, by where it is.
LEMMA CallsFitStep ==
  ASSUME TypeOK, CallsFit, [Next]_vars
  PROVE  CallsFit'
<1> USE GCConstants DEF TypeOK, CallsFit, OnPhoto, server, tables, files, At, Goto, End, Call
<1>1. ASSUME NEW c \in Calls, Work(c) PROVE CallsFit'
  <2>1. CASE NewStaged(c)
    BY <2>1 DEF NewStaged
  <2>2. CASE Write(c) \/ Abort(c)
    BY <2>2 DEF Write, Abort
  <2>3. CASE MakeAlbumDir(c)
    BY <2>3 DEF MakeAlbumDir
  <2>4. CASE MakePhotoDir(c)
    BY <2>4 DEF MakePhotoDir
  <2>5. CASE Rename(c)
    BY <2>5 DEF Rename
  <2>6. CASE Record(c)
    BY <2>6 DEF Record
  <2>7. CASE DeletePhoto(c)
    BY <2>7 DEF DeletePhoto
  <2>8. CASE RemovePhoto(c)
    BY <2>8 DEF RemovePhoto
  <2>9. CASE RemoveParent(c) \/ RemoveAlbum(c)
    BY <2>9 DEF RemoveParent, RemoveAlbum
  <2>10. CASE DeleteAlbum(c)
    BY <2>10 DEF DeleteAlbum
  <2>11. QED
    BY <1>1, <2>1, <2>2, <2>3, <2>4, <2>5, <2>6, <2>7, <2>8, <2>9, <2>10 DEF Work, Progress
<1>2. CASE Crash
  BY <1>2 DEF Crash
<1>3. CASE UNCHANGED call
  BY <1>3
<1>4. CASE HourPasses \/ GcStops
  BY <1>3, <1>4 DEF HourPasses, GcStops
<1>5. CASE GcStep
  BY <1>3, <1>5 DEF GcStep, ReadPhotosDir, ReadAlbumDir, Info, ListPhotoRefs, StaleIncoming,
     RemovePhotoDir, RemoveEmptyParent, RemoveEmptyDir, RemoveStaged, Finish
<1>6. QED
  BY <1>1, <1>2, <1>3, <1>4, <1>5 DEF Next, vars

\* Nobody but the call that draws it gets to know a fresh id.
LEMMA FreshStep ==
  ASSUME TypeOK, Ids, Lists, [Next]_vars
  PROVE  FreshIsUnused'
<1> USE GCConstants DEF Ids, Lists
<1> SUFFICES ASSUME NEW p \in fresh'
             PROVE  p \notin rows' /\ photoDir'[p] = None /\ \A c \in Calls : call'[c].id # p
  BY DEF FreshIsUnused
<1>1. p \in fresh /\ p \in PhotoIds
  BY CallStep DEF TypeOK
<1>2. /\ p \notin rows /\ photoDir[p] = None
      /\ \A c \in Calls : call[c].id # p
  BY <1>1 DEF FreshIsUnused
<1>3. p \notin rows'
  BY <1>2, RowStep DEF Inserts, Claims
<1>4. photoDir'[p] = None
  BY <1>1, <1>2, DirStep DEF Makes
<1>5. \A c \in Calls : call'[c].id # p
  BY <1>1, <1>2, CallStep DEF Goes, Ends, Draws, Takes, At, TypeOK
<1>6. QED
  BY <1>3, <1>4, <1>5

\* A claim stays exclusive until the row is inserted.
LEMMA ClaimStep ==
  ASSUME TypeOK, Ids, Lists, [Next]_vars
  PROVE  ClaimIsExclusive'
<1> USE GCConstants DEF Ids, Lists
<1> SUFFICES ASSUME NEW c \in Calls, NEW p \in PhotoIds, Claims(c, p)'
             PROVE  /\ p \notin rows' /\ photoDir'[p] # "old"
                    /\ call'[c].pc \in {"receive", "mkdir"} => photoDir'[p] = None
                    /\ \A d \in Calls \ {c} : call'[d].id # p
  BY DEF ClaimIsExclusive
<1>1. ~Ends(c) /\ ~Takes(c)
  BY DEF Claims, Ends, Takes, At, Kinds
<1>2. CASE Draws(c)
  <2>1. p \in fresh
    BY <1>2 DEF Draws, Claims
  <2>2. QED
    BY <1>2, <2>1 DEF Draws, FreshIsUnused, tables, files, Age
<1>3. CASE Goes(c)
  <2>1. Claims(c, p)
    BY <1>3 DEF Goes, Claims
  <2>2. /\ p \notin rows /\ photoDir[p] # "old"
        /\ call[c].pc \in {"receive", "mkdir"} => photoDir[p] = None
        /\ \A d \in Calls \ {c} : call[d].id # p
    BY <2>1 DEF ClaimIsExclusive
  <2>3. p \notin rows'
    <3> SUFFICES ASSUME NEW d \in Calls, Inserts(d, p) PROVE FALSE
      BY <2>2, RowStep
    <3>1. d = c
      BY <2>2 DEF Inserts, Claims
    <3>2. QED
      BY <1>1, <3>1 DEF Inserts
  <2>4. call'[c].pc \in {"receive", "mkdir"} => photoDir'[p] = None
    <3> SUFFICES ASSUME call'[c].pc \in {"receive", "mkdir"} PROVE photoDir'[p] = None
      OBVIOUS
    <3>1. photoDir[p] = None
      BY <1>3, <2>2 DEF Goes
    <3>2. ASSUME NEW d \in Calls, Makes(d, p) PROVE FALSE
      BY <2>2, <3>2 DEF Makes
    <3>3. QED
      BY <3>1, <3>2, DirStep
  <2>5. photoDir'[p] # "old"
    <3>1. CASE HourPasses
      <4>1. call[c].pc = "receive"
        BY <2>1, <3>1 DEF HourPasses, Waiting, CallsFit, Claims, Kinds
      <4>2. QED
        BY <2>2, <3>1, <4>1 DEF HourPasses, Older, Age, TypeOK
    <3>2. QED
      BY <2>2, <3>1, DirStep
  <2>6. ASSUME NEW d \in Calls \ {c} PROVE call'[d].id # p
    <3>1. p \notin fresh
      BY <2>1 DEF FreshIsUnused, Claims
    <3>2. QED
      BY <2>2, <3>1, CallStep DEF Goes, Ends, Draws, Takes, At, TypeOK
  <2>7. QED
    BY <2>3, <2>4, <2>5, <2>6
<1>4. QED
  BY <1>1, <1>2, <1>3, CallStep

\* What a call erases has lost its row, and no call inserts it again.
LEMMA ErasedStep ==
  ASSUME TypeOK, Ids, Lists, [Next]_vars
  PROVE  ErasedIsGone'
<1> USE GCConstants DEF Ids, Lists, TypeOK
<1>1. ASSUME NEW p \in rows' PROVE AlbumOf[p] \in albumRows'
  <2>1. CASE UNCHANGED tables
    BY <2>1 DEF ErasedIsGone, tables
  <2>2. ASSUME NEW c \in Calls, Record(c) \/ DeletePhoto(c) \/ DeleteAlbum(c)
        PROVE  AlbumOf[p] \in albumRows'
    BY <2>2 DEF Record, DeletePhoto, DeleteAlbum, PhotosIn, ErasedIsGone
  <2>3. QED
    BY <2>1, <2>2, TablesFrame
<1>2. ASSUME NEW c \in Calls, call'[c].pc = "erase" PROVE call'[c].id \notin rows'
  <2>1. CASE Record(c)
    BY <1>2, <2>1 DEF Record, End, Goto, At, CallsFit, OnPhoto, ClaimIsExclusive, Claims, Call, Kinds
  <2>2. CASE DeletePhoto(c)
    BY <2>2 DEF DeletePhoto
  <2>3. CASE call[c].pc = "erase" /\ call'[c] = call[c]
    <3>1. call[c].id \notin rows
      BY <2>3 DEF ErasedIsGone
    <3>2. ASSUME NEW d \in Calls, Inserts(d, call[c].id) PROVE FALSE
      BY <2>3, <3>2 DEF Inserts, ClaimIsExclusive, Claims, CallsFit, OnPhoto
    <3>3. QED
      BY <2>3, <3>1, <3>2, RowStep
  <2>4. QED
    BY <1>2, <2>1, <2>2, <2>3, EraseStep
<1>3. ASSUME NEW c \in Calls, call'[c].pc = "eraseAlbum" PROVE call'[c].id \notin albumRows'
  <2>1. CASE DeleteAlbum(c)
    BY <2>1 DEF DeleteAlbum
  <2>2. CASE call[c].pc = "eraseAlbum" /\ call'[c] = call[c]
    BY <2>2, RowStep DEF ErasedIsGone
  <2>3. QED
    BY <1>3, <2>1, <2>2, EraseStep
<1>4. QED
  BY <1>1, <1>2, <1>3 DEF ErasedIsGone

-----------------------------------------------------------------------------
(***************************************************************************)
(* gc's part of the invariant.                                             *)
(***************************************************************************)

\* The system calls that make or remove directories, and the passing of time.
LEMMA FilesFrame ==
  ASSUME [Next]_vars
  PROVE  \/ UNCHANGED files
         \/ \E c \in Calls : \/ MakeAlbumDir(c) \/ MakePhotoDir(c) \/ Rename(c)
                            \/ RemovePhoto(c) \/ RemoveParent(c) \/ RemoveAlbum(c)
         \/ HourPasses \/ RemovePhotoDir \/ RemoveEmptyParent \/ RemoveEmptyDir
BY DEF Next, Work, Progress, NewStaged, Write, Abort, Record, DeletePhoto, DeleteAlbum,
   Crash, GcStops, GcStep, ReadPhotosDir, ReadAlbumDir, Info, ListPhotoRefs, StaleIncoming,
   RemoveStaged, Finish, vars, server

\* gc's own steps.
LEMMA GcFrame ==
  ASSUME [Next]_vars
  PROVE  UNCHANGED gc \/ GcStep \/ GcStops
BY DEF Next, Work, Progress, NewStaged, Write, Abort, MakeAlbumDir, MakePhotoDir, Rename, Record,
   DeletePhoto, DeleteAlbum, RemovePhoto, RemoveParent, RemoveAlbum, Crash, HourPasses, vars

\* A photo gets on gc's lists when its directory is old, and on the list of
\* what is to be removed when it has no row.
LEMMA ListStep ==
  ASSUME TypeOK, [Next]_vars, NEW p \in PhotoIds
  PROVE  /\ p \in oldPhotos' => p \in oldPhotos \/ photoDir[p] = "old"
         /\ p \in doomed' => p \in doomed \/ (p \in oldPhotos /\ p \notin rows)
<1> USE GCConstants DEF TypeOK
<1>1. CASE UNCHANGED gc
  BY <1>1 DEF gc, lists
<1>2. CASE GcStops
  BY <1>2 DEF GcStops
<1>3. CASE GcStep
  BY <1>3 DEF GcStep, lists, ReadPhotosDir, ReadAlbumDir, Info, TooOld, ListPhotoRefs, Known,
     StaleIncoming, RemovePhotoDir, RemoveEmptyParent, RemoveEmptyDir, RemoveStaged, Finish
<1>4. QED
  BY <1>1, <1>2, <1>3, GcFrame

\* What is old when gc looks at it is unclaimed, and stays so.
LEMMA ListedStep ==
  ASSUME TypeOK, Ids, Lists, [Next]_vars
  PROVE  ListedIsUnclaimed' /\ DoomedHasNoRow'
<1> USE GCConstants DEF Ids, Lists, TypeOK
<1>1. ASSUME NEW p \in PhotoIds, p \in oldPhotos \cup doomed \/ photoDir[p] = "old"
      PROVE  p \notin fresh /\ \A c \in Calls : ~Claims(c, p)
  BY <1>1 DEF ListedIsUnclaimed, FreshIsUnused, ClaimIsExclusive, Age
<1>2. ASSUME NEW p \in PhotoIds, p \notin fresh, \A c \in Calls : ~Claims(c, p)
      PROVE  p \notin fresh' /\ \A c \in Calls : ~Claims(c, p)'
  BY <1>2, CallStep DEF Goes, Ends, Draws, Takes, Claims, At, Kinds
<1>3. ASSUME NEW p \in PhotoIds, p \in oldPhotos' \cup doomed'
      PROVE  p \in oldPhotos \cup doomed \/ photoDir[p] = "old"
  BY <1>3, ListStep
<1>4. ListedIsUnclaimed'
  BY <1>1, <1>2, <1>3 DEF ListedIsUnclaimed
<1>5. ASSUME NEW p \in PhotoIds, p \in doomed' PROVE p \notin rows'
  <2>1. p \notin rows
    BY <1>5, ListStep DEF DoomedHasNoRow
  <2>2. QED
    BY <1>1, <1>3, <1>5, <2>1, RowStep DEF Inserts
<1>6. QED
  BY <1>4, <1>5 DEF DoomedHasNoRow

\* gc fills and empties its lists in order.
LEMMA ListsInUseStep ==
  ASSUME TypeOK, ListsInUse, [Next]_vars
  PROVE  ListsInUse'
<1> USE GCConstants DEF TypeOK, ListsInUse, lists
<1>1. CASE UNCHANGED gc
  BY <1>1 DEF gc
<1>2. CASE GcStops
  BY <1>2 DEF GcStops
<1>3. CASE ReadPhotosDir \/ ReadAlbumDir \/ Info
  BY <1>3 DEF ReadPhotosDir, ReadAlbumDir, Info
<1>4. CASE ListPhotoRefs \/ StaleIncoming
  BY <1>4 DEF ListPhotoRefs, StaleIncoming
<1>5. CASE RemovePhotoDir
  BY <1>5 DEF RemovePhotoDir
<1>6. CASE RemoveEmptyParent \/ RemoveEmptyDir \/ RemoveStaged \/ Finish
  BY <1>6 DEF RemoveEmptyParent, RemoveEmptyDir, RemoveStaged, Finish
<1>7. QED
  BY <1>1, <1>2, <1>3, <1>4, <1>5, <1>6, GcFrame DEF GcStep

\* Directories are made from above and removed from below, and an album's
\* directory becomes empty only by a removal, which makes it young.
OldAndEmpty(a) == IsEmpty(a) /\ albumDir[a] = "old"
GrowsFromAbove == DirsNest' /\ \A a \in Albums : OldAndEmpty(a)' => OldAndEmpty(a)

LEMMA AlbumDirStep ==
  ASSUME TypeOK, CallsFit, ListsInUse, DirsNest, [Next]_vars
  PROVE  DirsNest' /\ (HourPasses \/ GrowsFromAbove)
<1> USE GCConstants DEF TypeOK, DirsNest, OldAndEmpty, GrowsFromAbove, IsEmpty, DirsIn, PhotosIn,
                        Touch, Age, CallsFit, OnPhoto
<1>1. CASE UNCHANGED files
  BY <1>1 DEF files
<1>2. ASSUME NEW c \in Calls, MakeAlbumDir(c) PROVE GrowsFromAbove
  BY <1>2 DEF MakeAlbumDir
<1>3. ASSUME NEW c \in Calls, MakePhotoDir(c) PROVE GrowsFromAbove
  BY <1>3 DEF MakePhotoDir
<1>4. ASSUME NEW c \in Calls, Rename(c) PROVE GrowsFromAbove
  BY <1>4 DEF Rename
<1>5. ASSUME NEW c \in Calls, RemovePhoto(c) PROVE GrowsFromAbove
  BY <1>5 DEF RemovePhoto, RemoveDir
<1>6. ASSUME NEW c \in Calls, RemoveParent(c) PROVE GrowsFromAbove
  BY <1>6 DEF RemoveParent, RemoveIfEmpty
<1>7. ASSUME NEW c \in Calls, RemoveAlbum(c) PROVE GrowsFromAbove
  BY <1>7 DEF RemoveAlbum, RemoveAll
<1>8. CASE RemovePhotoDir
  BY <1>8 DEF RemovePhotoDir, RemoveDir
<1>9. CASE RemoveEmptyParent
  BY <1>9 DEF RemoveEmptyParent, RemoveIfEmpty, ListsInUse
<1>10. CASE RemoveEmptyDir
  <2>1. PICK a \in Albums : RemoveAll(a)
    BY <1>10 DEF RemoveEmptyDir
  <2>2. DirsNest'
    BY <2>1 DEF RemoveAll
  <2>3. QED
    BY <2>1, <2>2 DEF RemoveAll
<1>11. ASSUME HourPasses PROVE DirsNest'
  BY <1>11 DEF HourPasses, Older
<1>12. QED
  BY <1>1, <1>2, <1>3, <1>4, <1>5, <1>6, <1>7, <1>8, <1>9, <1>10, <1>11, FilesFrame
     DEF GrowsFromAbove

\* gc reaches everything that was due when it started, unless the server is
\* there first.
LEMMA DueStep ==
  ASSUME TypeOK, Ids, Lists, [Next]_vars
  PROVE  DueIsAhead'
<1> USE GCConstants DEF TypeOK, OldAndEmpty
<1>1. ASSUME NEW p \in PhotoIds, photoDir[p] = "old", p \notin rows
      PROVE  p \notin rows'
  BY <1>1, RowStep DEF Inserts, ClaimIsExclusive, Ids
<1>2. CASE UNCHANGED gc
  <2>1. CASE HourPasses
    BY <1>2, <2>1 DEF HourPasses, gc, ListsInUse, DueIsAhead, Lists
  <2>2. CASE ~HourPasses
    <3>1. ASSUME NEW p \in due' \cap PhotoIds, photoDir'[p] = "old"
          PROVE  /\ p \notin rows'
                 /\ IF gpc' = "walk" THEN AlbumOf[p] \in albumsLeft' \/ p \in statsLeft' \cup oldPhotos'
                    ELSE p \in doomed'
      <4>1. photoDir[p] = "old"
        BY <2>2, <3>1, DirStep DEF Ids, Lists
      <4>2. QED
        BY <1>1, <1>2, <3>1, <4>1 DEF gc, lists, DueIsAhead, Lists
    <3>2. \A a \in Albums : OldAndEmpty(a)' => OldAndEmpty(a)
      BY <2>2, AlbumDirStep DEF Ids, Lists, GrowsFromAbove
    <3>3. QED
      BY <1>2, <3>1, <3>2 DEF gc, lists, DueIsAhead, Lists
  <2>3. QED
    BY <2>1, <2>2
<1>3. CASE GcStops
  BY <1>3 DEF GcStops, DueIsAhead
<1> USE DEF Lists, ListsInUse, DueIsAhead
<1>4. CASE ReadPhotosDir
  BY <1>4 DEF ReadPhotosDir, Orphans, Empties, IsEmpty, DirsIn, PhotosIn, DirsNest, Age, server, tables, files
<1>5. CASE ReadAlbumDir
  BY <1>5 DEF ReadAlbumDir, Entries, IsEmpty, DirsIn, PhotosIn, DirsNest, Age, server, tables, files
<1>6. CASE Info
  BY <1>6 DEF Info, TooOld, IsEmpty, DirsIn, PhotosIn, server, tables, files
<1>7. CASE ListPhotoRefs
  BY <1>7 DEF ListPhotoRefs, Known, IsEmpty, DirsIn, PhotosIn, server, tables, files
<1>8. CASE StaleIncoming
  BY <1>8 DEF StaleIncoming, IsEmpty, DirsIn, PhotosIn, server, tables, files, lists
<1>9. CASE RemovePhotoDir
  BY <1>9 DEF RemovePhotoDir, RemoveDir, Touch, Age, IsEmpty, DirsIn, PhotosIn, tables
<1>10. CASE RemoveEmptyParent
  BY <1>10 DEF RemoveEmptyParent, RemoveIfEmpty, Age, IsEmpty, DirsIn, PhotosIn, tables
<1>11. CASE RemoveEmptyDir
  BY <1>11 DEF RemoveEmptyDir, RemoveAll, Age, IsEmpty, DirsIn, PhotosIn, tables, lists
<1>12. CASE RemoveStaged
  BY <1>12 DEF RemoveStaged, IsEmpty, DirsIn, PhotosIn, tables, files, lists
<1>13. CASE Finish
  BY <1>13 DEF Finish
<1>14. QED
  BY <1>2, <1>3, <1>4, <1>5, <1>6, <1>7, <1>8, <1>9, <1>10, <1>11, <1>12, <1>13, GcFrame DEF GcStep

-----------------------------------------------------------------------------
(***************************************************************************)
(* The theorems.                                                           *)
(***************************************************************************)

\* The inductive invariant holds at the start.
LEMMA InitIInv == Init => IInv
<1> SUFFICES ASSUME Init PROVE IInv
  OBVIOUS
<1> USE GCConstants DEF Init
<1>1. TypeOK
  BY DEF TypeOK, At, Call, Age
<1>2. Ids
  BY DEF Ids, CallsFit, FreshIsUnused, ClaimIsExclusive, ErasedIsGone, Claims, At, OnPhoto, Kinds
<1>3. Lists
  BY DEF Lists, ListedIsUnclaimed, DoomedHasNoRow, ListsInUse, DirsNest, DueIsAhead, PhotosIn
<1>4. QED
  BY <1>1, <1>2, <1>3 DEF IInv

\* The inductive invariant is kept by every step.
LEMMA NextIInv == IInv /\ [Next]_vars => IInv'
<1> SUFFICES ASSUME IInv, [Next]_vars PROVE IInv'
  OBVIOUS
<1>1. TypeOK /\ Ids /\ Lists
  BY DEF IInv
<1>2. TypeOK' /\ CallsFit'
  BY <1>1, TypeStep, CallsFitStep DEF Ids, Lists
<1>3. Ids'
  BY <1>1, <1>2, FreshStep, ClaimStep, ErasedStep DEF Ids
<1>4. Lists'
  BY <1>1, ListedStep, ListsInUseStep, AlbumDirStep, DueStep DEF Ids, Lists
<1>5. QED
  BY <1>2, <1>3, <1>4 DEF IInv

\* The inductive invariant holds always.
LEMMA AlwaysIInv == Spec => []IInv
  BY InitIInv, NextIInv, PTL DEF Spec

\* The tables, the directories, the calls and gc's lists keep their types.
THEOREM TypeOKAlways == Spec => []TypeOK
<1>1. IInv => TypeOK
  BY DEF IInv
<1>2. QED
  BY <1>1, AlwaysIInv, PTL

\* Whatever the server does between gc's walk, its reading of the table and a
\* removal, a photo directory that gc is about to remove has no row and no
\* upload that could still insert one.
THEOREM DoomedStayOrphansAlways == Spec => []DoomedStayOrphans
<1>1. IInv => DoomedStayOrphans
  BY DEF IInv, Lists, DoomedHasNoRow, ListedIsUnclaimed, DoomedStayOrphans
<1>2. QED
  BY <1>1, AlwaysIInv, PTL

\* No step takes the original of a photo that keeps its row, except gc's
\* removal of an album directory it had listed as empty.
THEOREM OnlyEmptyDirsLoseOriginalsAlways == Spec => OnlyEmptyDirsLoseOriginals
<1>1. ASSUME IInv, [Next]_vars, NEW p \in rows \cap rows', p \in original \ original'
      PROVE  gpc = "remove" /\ AlbumOf[p] \in doomed /\ AlbumOf[p] \notin doomed'
  <2> USE <1>1, GCConstants DEF IInv, Ids, Lists, TypeOK
  <2>1. ASSUME NEW c \in Calls, RemovePhoto(c) PROVE FALSE
    BY <2>1 DEF RemovePhoto, RemoveDir, ErasedIsGone
  <2>2. ASSUME NEW c \in Calls, RemoveAlbum(c) PROVE FALSE
    BY <2>2 DEF RemoveAlbum, RemoveAll, PhotosIn, ErasedIsGone
  <2>3. ~RemovePhotoDir
    BY DEF RemovePhotoDir, RemoveDir, DoomedHasNoRow
  <2>4. CASE RemoveEmptyDir
    BY <2>4 DEF RemoveEmptyDir, RemoveAll, PhotosIn
  <2>5. CASE \E c \in Calls : MakeAlbumDir(c) \/ MakePhotoDir(c) \/ Rename(c) \/ RemoveParent(c)
    BY <2>5 DEF MakeAlbumDir, MakePhotoDir, Rename, RemoveParent
  <2>6. CASE HourPasses \/ RemoveEmptyParent \/ UNCHANGED files
    BY <2>6 DEF HourPasses, RemoveEmptyParent, files
  <2>7. QED
    BY <2>1, <2>2, <2>3, <2>4, <2>5, <2>6, FilesFrame
<1>2. IInv /\ [Next]_vars =>
        [\A p \in rows \cap rows' :
           p \in original \ original' => /\ gpc = "remove" /\ AlbumOf[p] \in doomed
                                         /\ AlbumOf[p] \notin doomed']_vars
  BY <1>1
<1>3. QED
  BY <1>2, AlwaysIInv, PTL DEF Spec, OnlyEmptyDirsLoseOriginals

\* A run of gc that reaches its end leaves nothing of what was orphaned and old
\* when it started.
THEOREM DoneMeansCleanAlways == Spec => []DoneMeansClean
<1>1. IInv => DoneMeansClean
  BY DEF IInv, Lists, DueIsAhead, DoneMeansClean
<1>2. QED
  BY <1>1, AlwaysIInv, PTL
=============================================================================
