---------------------------- MODULE VisitorReads ----------------------------
(***************************************************************************)
(* Visitors of the album whose photos PhotoPipeline publishes: its page,   *)
(* its cover, one image of a photo, the zip of all originals.  A visit     *)
(* reads rows in one step and opens files in later ones, while requests    *)
(* replace and delete photos and the worker renders them.                  *)
(***************************************************************************)
EXTENDS PhotoPipeline

CONSTANTS
  Visits,      \* the visits, each made once
  Thumb,       \* the variant a cover is
  MaxZips      \* downloads served at a time

ASSUME VisitConstants ==
  /\ Thumb \in Deferred \ {Large}
  /\ MaxZips \in Nat \ {0}

VARIABLES
  visit,   \* visit[v]: where a visit is and what it has read
  cover,   \* the album's cover_photo_id
  slots,   \* downloads that hold a slot
  torn     \* photos whose replacement did not run alone and to its end

visits  == <<visit, cover, slots, torn>>
allVars == <<vars, visits>>

(***************************************************************************)
(* What a visit has read: a photo's id and hash, or the photos it lists    *)
(* and has still to pack.  Noted as well: what happened to the photos      *)
(* since it read them.  A visit that is over keeps nothing.                *)
(***************************************************************************)
Visit == [pc    : {"idle", "stat", "open", "cover", "page", "zipList", "zip"},
          id    : PhotoIds \cup {None},
          file  : Files \cup {None},
          hash  : Contents \cup {None},
          todo  : SUBSET PhotoIds,
          gone  : SUBSET PhotoIds,      \* the row was deleted
          busy  : SUBSET PhotoIds]      \* the photo was hidden or shown
NoVisit == [pc |-> "idle", id |-> None, file |-> None, hash |-> None,
            todo |-> {}, gone |-> {}, busy |-> {}]

Under(v)    == visit[v].pc # "idle"
Visible     == Rows \ Pending

\* Photos that a request is about to store a file for, or has stored it for and
\* not yet written the row.
Working(p)  == {r \in Requests : req[r].id = p /\ req[r].pc \in {"hide", "commit", "write"}}
Replacing   == {p \in PhotoIds : \E r \in Working(p) : req[r].file # None}

ReadInit ==
  /\ Init
  /\ visit = [v \in Visits |-> NoVisit]
  /\ cover = None /\ slots = 0 /\ torn = {}

-----------------------------------------------------------------------------
(***************************************************************************)
(* One photo's image (photos.go).                                          *)
(***************************************************************************)
Becoming(v, new) == /\ visit' = [visit EXCEPT ![v] = new]
                    /\ UNCHANGED <<vars, cover, torn>>
Step(v, new)     == Becoming(v, new) /\ UNCHANGED slots
Over(v)          == Step(v, NoVisit)
Starts(pc)       == [NoVisit EXCEPT !.pc = pc]

\* getPhotoVariant: a photo that is not ready does not exist for visitors.
ShownTo(p) == p \in Visible

GetPhotoVariant(v) ==
  /\ visit[v].pc = "idle" /\ album
  /\ \E p \in Rows, f \in Files :
        /\ ShownTo(p)
        /\ Step(v, [Starts(IF f = Large THEN "stat" ELSE "open") EXCEPT
                      !.id = p, !.file = f, !.hash = photos[p].hash])

\* serveVariant: large falls back to the original when it is not there.
NoFallback(p) == Large   \* mutant
Fallback(p)   == IF disk[p][Large] = None THEN Original ELSE Large

StatLarge(v) ==
  /\ visit[v].pc = "stat"
  /\ Step(v, [visit[v] EXCEPT !.pc = "open", !.file = Fallback(visit[v].id)])

\* What is opened stays readable, whatever happens to the directory; what is not
\* there is answered file_missing.
OpenFile(v) ==
  /\ visit[v].pc = "open"
  /\ Over(v)

-----------------------------------------------------------------------------
(***************************************************************************)
(* The album's page and its cover (albums.go).                             *)
(***************************************************************************)
\* updateAlbum looked the photo up before; it may be gone by now.  Chosen once, a
\* bound.
SetCover ==
  /\ album /\ cover = None
  /\ \E p \in PhotoIds \ fresh : cover' = p
  /\ UNCHANGED <<vars, visit, slots, torn>>

\* ListReadyPhotos.
ReadyPhotos == Visible

\* The summary's cover: the chosen photo if it is visible, else the first that
\* is.  Which one is first is left open.
ResolvedCover == IF cover \in Visible THEN {cover}
                 ELSE IF Visible = {} THEN {None} ELSE Visible

GetSummary(v) ==
  /\ visit[v].pc = "idle" /\ album
  /\ \E pc \in {"page", "cover"}, p \in ResolvedCover :
        /\ pc = "cover" => p # None
        /\ Step(v, [Starts(pc) EXCEPT !.id = p])

ListPage(v) ==
  /\ visit[v].pc = "page"
  /\ Over(v)

\* albumCover: a photo deleted since the summary is an internal error.
GetCover(v) ==
  /\ visit[v].pc = "cover"
  /\ IF visit[v].id \in Rows
     THEN Step(v, [visit[v] EXCEPT !.pc = "open", !.file = Thumb,
                                   !.hash = photos[visit[v].id].hash])
     ELSE Over(v)

-----------------------------------------------------------------------------
(***************************************************************************)
(* The zip of the originals (download.go).                                 *)
(***************************************************************************)
\* A download that finds no slot is turned away and leaves nothing behind.
TakeSlot(v) ==
  /\ visit[v].pc = "idle" /\ album
  /\ slots < MaxZips /\ slots' = slots + 1
  /\ Becoming(v, [Starts("zip") EXCEPT !.pc = "zipList"])

ListForZip(v) ==
  /\ visit[v].pc = "zipList"
  /\ Step(v, [visit[v] EXCEPT !.pc = "zip", !.todo = ReadyPhotos, !.gone = {}])

\* An original that cannot be opened is logged about and left out.
AddToZip(v) ==
  /\ visit[v].pc = "zip"
  /\ \E p \in visit[v].todo :
        Step(v, [visit[v] EXCEPT !.todo = @ \ {p}])

ReleaseTwice == slots' = slots - 2   \* mutant
Release      == slots' = slots - 1

FinishZip(v) ==
  /\ visit[v].pc = "zip" /\ visit[v].todo = {}
  /\ Release
  /\ Becoming(v, NoVisit)

\* The listing fails, or the client is gone while an entry is copied.
AbortAndKeep(v) ==   \* mutant: the slot is given back at the end only
  /\ visit[v].pc \in {"zipList", "zip"}
  /\ UNCHANGED slots
  /\ Becoming(v, NoVisit)
AbortZip(v) ==
  /\ visit[v].pc \in {"zipList", "zip"}
  /\ Release
  /\ Becoming(v, NoVisit)

-----------------------------------------------------------------------------
(***************************************************************************)
(* A step of the pipeline, seen by the visits.  A photo is torn by calls   *)
(* that overlap, by one that stored the file and never wrote the row, by a *)
(* file stored again that the worker has a snapshot of, and by being shown *)
(* while its file is being replaced: what its row says and what its files  *)
(* show may then differ, as PhotoPipeline's properties allow.              *)
(***************************************************************************)
Overlapping == {p \in Replacing : \E r, q \in Working(p) : r # q}
GivenUp     == {p \in PhotoIds : \E r \in Requests :
                  /\ req[r].id = p /\ req[r].pc = "write" /\ req[r].file # None
                  /\ req'[r].pc = "done"}
Hidden      == {p \in Visible : p \in Pending'}
Shown       == {p \in Pending : p \in Visible'}
Torn        == Overlapping' \cup GivenUp \cup {s.id : s \in stored'} \cup (Shown \cap Replacing)

Publishing ==
  /\ Next
  /\ torn' = torn \cup Torn
  /\ IF restarts' # restarts
     THEN slots' = 0 /\ visit' = [v \in Visits |-> NoVisit]
     ELSE UNCHANGED slots /\ visit' = [v \in Visits |->
            IF Under(v) THEN [visit[v] EXCEPT !.gone = @ \cup (Rows \ Rows'),
                                !.busy = @ \cup Hidden \cup Shown]
            ELSE visit[v]]
  /\ UNCHANGED cover

Visiting(v) ==
  \/ GetPhotoVariant(v) \/ StatLarge(v) \/ OpenFile(v)
  \/ GetSummary(v) \/ ListPage(v) \/ GetCover(v)
  \/ TakeSlot(v) \/ ListForZip(v) \/ AddToZip(v) \/ FinishZip(v) \/ AbortZip(v)

ReadNext == Publishing \/ SetCover \/ \E v \in Visits : Visiting(v)

ReadSpec == ReadInit /\ [][ReadNext]_allVars

-----------------------------------------------------------------------------
\* The types of the visits' variables.
VisitsTypeOK ==
  /\ visit \in [Visits -> Visit]
  /\ cover \in PhotoIds \cup {None}
  /\ slots \in 0..MaxZips
  /\ torn \subseteq PhotoIds

\* A visit that has read a photo's row finds the file it is about to open (no
\* file_missing), and a cover's row is found (no internal error), unless the
\* photo was deleted since, or a large image went with a replacement between
\* Stat and Open.
FoundUnlessChanged ==
  \A v \in Visits :
    LET p == visit[v].id f == visit[v].file IN
    /\ visit[v].pc = "open" =>
          (disk[p][f] # None \/ p \in visit[v].gone \/ (f = Large /\ p \in visit[v].busy))
    /\ visit[v].pc = "cover" => p \in Rows \cup visit[v].gone

\* The file about to be sent under an ETag shows the content whose hash the ETag
\* names, for every photo whose replacements ran one at a time and to their end,
\* and that was not hidden during the visit: no cache keeps a wrong image.
ETagNamesBody ==
  \A v \in Visits :
    LET p == visit[v].id IN
    (visit[v].pc = "open" /\ p \notin torn \cup visit[v].busy \cup visit[v].gone)
    => disk[p][visit[v].file] \in {visit[v].hash, None}

\* A zip holds every photo it listed, but for those deleted since: each one that
\* is still to be packed can be opened, whatever replacements and the worker do.
ZipSkipsOnlyDeleted ==
  \A v \in Visits : \A p \in visit[v].todo \ visit[v].gone : disk[p][Original] # None

\* A download that ended in whatever way holds no slot, one that goes on holds
\* one: visitors who go away never use the slots up.
SlotsGivenBack == slots = Cardinality({v \in Visits : visit[v].pc \in {"zipList", "zip"}})

\* The cover that a page names is one of the photos it lists (the comment on
\* CoverPhotoID), whenever the photos are listed after the summary was read.
CoverIsListed ==
  \A v \in Visits : visit[v].pc = "page" => visit[v].id \in ReadyPhotos \cup {None}
=============================================================================
