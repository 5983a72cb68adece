-------------------------- MODULE GarbageCollector --------------------------
(***************************************************************************)
(* "smugbox admin gc" next to a running server.  The two are processes of  *)
(* their own that share the database and the directory photos/<album>/     *)
(* <photo>/; gc lists the disk, then reads the table, then removes what no *)
(* row references and what it saw to be older than an hour.                *)
(*                                                                         *)
(* A directory is absent, "young" or "old": gc reads the clock once, when  *)
(* it starts, so nothing grows old while it runs, and whatever is touched  *)
(* then is young.  The server's calls (uploads, replacements, the worker's *)
(* generations, deletions) are split at every system call that makes or    *)
(* removes a directory.                                                    *)
(***************************************************************************)
EXTENDS Naturals, FiniteSets

CONSTANTS
  Albums, PhotoIds,
  AlbumOf,       \* the album a photo id is drawn for
  Stored,        \* the photos that have a row at the start
  Calls,         \* what the server does, each once
  None,
  MaxCrashes,    \* bound on the server's crashes
  MaxFailures    \* bound on the runs of gc that stop early

Age   == {"young", "old"}
Kinds == {"upload", "replace", "generate", "delete", "deleteAlbum"}

\* gc's list of what to remove holds three kinds of paths, which never meet:
\* photos/<album>/<photo>, photos/<album> and incoming/<file>.
ASSUME GCConstants ==
  /\ AlbumOf \in [PhotoIds -> Albums]
  /\ Stored \subseteq PhotoIds
  /\ None \notin PhotoIds \cup Albums \cup Age \cup Kinds
  /\ Albums \cap PhotoIds = {} /\ Calls \cap (Albums \cup PhotoIds) = {}
  /\ MaxCrashes \in Nat /\ MaxFailures \in Nat

VARIABLES
  albumRows, rows,     \* the tables: albums and photos that have a row
  albumDir, photoDir,  \* the directories: None, "young" or "old"
  original,            \* the photos whose directory holds the original
  fresh,               \* ids not drawn yet
  call,                \* call[c]: where the call is and its photo or album
  staging,             \* staging[c]: the age of its file in incoming/
  gpc,                 \* where gc is
  albumsLeft,          \* albums of ReadDir(photos/) still to be listed
  statsLeft,           \* directories listed whose Info is still to be taken
  oldPhotos, oldEmpty, \* the Listing: photo directories, empty album directories
  doomed,              \* what gc has still to remove
  due,                 \* the orphans and the empty directories there when gc started
  crashes, failures

tables == <<albumRows, rows>>
files  == <<albumDir, photoDir, original>>
server == <<tables, files, fresh, call, staging, crashes>>
lists  == <<albumsLeft, statsLeft, oldPhotos, oldEmpty>>
gc     == <<gpc, lists, doomed, due, failures>>
vars   == <<server, gc>>

Call  == [pc : {"idle", "receive", "mkdir", "rename", "record", "erase",
                "prune", "eraseAlbum", "done"},
          kind : Kinds \cup {None}, id : PhotoIds \cup Albums \cup {None}]
At(pc) == [pc |-> pc, kind |-> None, id |-> None]

PhotosIn(a)  == {p \in PhotoIds : AlbumOf[p] = a}
DirsIn(a)    == {p \in PhotosIn(a) : photoDir[p] # None}
IsEmpty(a)   == albumDir[a] # None /\ DirsIn(a) = {}
Waiting(c)   == call[c].pc \in {"idle", "receive", "done"}

Init ==
  /\ albumRows = Albums /\ rows = Stored
  /\ albumDir = [a \in Albums |-> IF PhotosIn(a) \cap Stored # {} THEN "old" ELSE None]
  /\ photoDir = [p \in PhotoIds |-> IF p \in Stored THEN "old" ELSE None]
  /\ original = Stored /\ fresh = PhotoIds \ Stored
  /\ call = [c \in Calls |-> At("idle")]
  /\ staging = [c \in Calls |-> None]
  /\ gpc = "idle" /\ albumsLeft = {} /\ statsLeft = {}
  /\ oldPhotos = {} /\ oldEmpty = {} /\ doomed = {} /\ due = {}
  /\ crashes = 0 /\ failures = 0

-----------------------------------------------------------------------------
(***************************************************************************)
(* The server's calls.                                                     *)
(***************************************************************************)
Goto(c, pc) == call' = [call EXCEPT ![c].pc = pc]
End(c)      == call' = [call EXCEPT ![c] = At("done")]
Unstage(c)  == staging' = [staging EXCEPT ![c] = None]
Touch(dir, d) == [dir EXCEPT ![d] = "young"]

\* An upload draws an id; a replacement and a generation read a row.  Then
\* the staging file is created.
NewStaged(c) ==
  /\ call[c].pc = "idle"
  /\ \E kind \in {"upload", "replace", "generate"}, p \in PhotoIds :
        /\ IF kind = "upload" THEN p \in fresh /\ AlbumOf[p] \in albumRows ELSE p \in rows
        /\ fresh' = fresh \ {p}
        /\ call' = [call EXCEPT ![c] = [pc |-> "receive", kind |-> kind, id |-> p]]
  /\ staging' = [staging EXCEPT ![c] = "young"]
  /\ UNCHANGED <<tables, files, gc, crashes>>

\* The body arrives, or rendering makes progress.
Write(c) ==
  /\ call[c].pc = "receive" /\ staging[c] # None
  /\ staging' = [staging EXCEPT ![c] = "young"]
  /\ UNCHANGED <<tables, files, fresh, call, crashes, gc>>

\* A client that hangs up, a body that is refused, a rendering that fails.
Abort(c) ==
  /\ call[c].pc = "receive"
  /\ Unstage(c) /\ End(c)
  /\ UNCHANGED <<tables, files, fresh, crashes, gc>>

\* Commit begins with MkdirAll: the album's directory if it is not there...
MakeAlbumDir(c) ==
  /\ call[c].pc = "receive"
  /\ LET a == AlbumOf[call[c].id]
     IN  albumDir' = IF albumDir[a] = None THEN Touch(albumDir, a) ELSE albumDir
  /\ Goto(c, "mkdir")
  /\ UNCHANGED <<tables, photoDir, original, fresh, staging, crashes, gc>>

\* ... then the photo's, which fails if the album's has been removed again.
MakePhotoDir(c) ==
  /\ call[c].pc = "mkdir"
  /\ LET p == call[c].id
         a == AlbumOf[p]
     IN  IF photoDir[p] = None /\ albumDir[a] = None
         THEN End(c) /\ Unstage(c) /\ UNCHANGED <<albumDir, photoDir>>
         ELSE /\ Goto(c, "rename") /\ UNCHANGED staging
              /\ IF photoDir[p] # None THEN UNCHANGED <<albumDir, photoDir>>
                 ELSE /\ photoDir' = Touch(photoDir, p)
                      /\ albumDir' = Touch(albumDir, a)
  /\ UNCHANGED <<tables, original, fresh, crashes, gc>>

\* The staged file is renamed into the directory.
Rename(c) ==
  /\ call[c].pc = "rename"
  /\ LET p == call[c].id
     IN  IF photoDir[p] = None \/ staging[c] = None
         THEN End(c) /\ UNCHANGED <<photoDir, original>>
         ELSE /\ photoDir' = Touch(photoDir, p)
              /\ original' = IF call[c].kind = "generate" THEN original ELSE original \cup {p}
              /\ Goto(c, "record")
  /\ Unstage(c)
  /\ UNCHANGED <<tables, albumDir, fresh, crashes, gc>>

\* The statement that follows the commit.  An insert that fails, for want of
\* the album or otherwise, and a generation whose photo is gone, take the
\* directory back.
Record(c) ==
  /\ call[c].pc = "record"
  /\ LET p == call[c].id
     IN  \/ /\ call[c].kind = "upload" /\ AlbumOf[p] \in albumRows
            /\ rows' = rows \cup {p} /\ End(c)
         \/ call[c].kind = "upload" /\ Goto(c, "erase") /\ UNCHANGED rows
         \/ call[c].kind = "replace" /\ End(c) /\ UNCHANGED rows
         \/ /\ call[c].kind = "generate" /\ UNCHANGED rows
            /\ IF p \in rows THEN End(c) ELSE Goto(c, "erase")
  /\ UNCHANGED <<albumRows, files, fresh, staging, crashes, gc>>

\* Deletions take the row first, then the directory.
DeletePhoto(c) ==
  /\ call[c].pc = "idle"
  /\ \E p \in rows :
        /\ rows' = rows \ {p}
        /\ call' = [call EXCEPT ![c] = [pc |-> "erase", kind |-> "delete", id |-> p]]
  /\ UNCHANGED <<albumRows, files, fresh, staging, crashes, gc>>

\* os.RemoveAll of a photo's directory.
RemoveDir(p) ==
  /\ photoDir' = [photoDir EXCEPT ![p] = None]
  /\ original' = original \ {p}
  /\ albumDir' = IF photoDir[p] = None THEN albumDir ELSE Touch(albumDir, AlbumOf[p])

\* os.Remove of an album's directory, which succeeds only when it is empty.
RemoveIfEmpty(a) ==
  albumDir' = IF IsEmpty(a) THEN [albumDir EXCEPT ![a] = None] ELSE albumDir

\* os.RemoveAll of an album's directory.
RemoveAll(a) ==
  /\ albumDir' = [albumDir EXCEPT ![a] = None]
  /\ photoDir' = [p \in PhotoIds |-> IF AlbumOf[p] = a THEN None ELSE photoDir[p]]
  /\ original' = original \ PhotosIn(a)

RemovePhoto(c) ==
  /\ call[c].pc = "erase"
  /\ RemoveDir(call[c].id)
  /\ Goto(c, "prune")
  /\ UNCHANGED <<tables, fresh, staging, crashes, gc>>

RemoveParent(c) ==
  /\ call[c].pc = "prune"
  /\ RemoveIfEmpty(AlbumOf[call[c].id])
  /\ End(c)
  /\ UNCHANGED <<tables, photoDir, original, fresh, staging, crashes, gc>>

DeleteAlbum(c) ==
  /\ call[c].pc = "idle"
  /\ \E a \in albumRows :
        /\ albumRows' = albumRows \ {a}
        /\ rows' = rows \ PhotosIn(a)
        /\ call' = [call EXCEPT ![c] = [pc |-> "eraseAlbum", kind |-> "deleteAlbum", id |-> a]]
  /\ UNCHANGED <<files, fresh, staging, crashes, gc>>

RemoveAlbum(c) ==
  /\ call[c].pc = "eraseAlbum"
  /\ RemoveAll(call[c].id)
  /\ End(c)
  /\ UNCHANGED <<tables, fresh, staging, crashes, gc>>

\* The process dies: directories and staging files stay as they are.
Crash ==
  /\ crashes < MaxCrashes /\ crashes' = crashes + 1
  /\ call' = [c \in Calls |-> IF call[c].pc = "idle" THEN call[c] ELSE At("done")]
  /\ UNCHANGED <<tables, files, fresh, staging, gc>>

\* An hour without a write.  Only a client, or libvips, may take that long:
\* from MkdirAll to the statement a call just makes a few system calls.
Older(dir) == [d \in DOMAIN dir |-> IF dir[d] = None THEN None ELSE "old"]

HourPasses ==
  /\ gpc = "idle" /\ \A c \in Calls : Waiting(c)
  /\ albumDir' = Older(albumDir) /\ photoDir' = Older(photoDir)
  /\ staging' = Older(staging)
  /\ UNCHANGED <<tables, original, fresh, call, crashes, gc>>

-----------------------------------------------------------------------------
(***************************************************************************)
(* gc: store.Walk, db.ListPhotoRefs, Listing.Orphans, StaleIncoming, and   *)
(* the removals one by one.                                                *)
(***************************************************************************)
Orphans == {p \in PhotoIds : photoDir[p] = "old" /\ p \notin rows}
Empties == {a \in Albums : IsEmpty(a) /\ albumDir[a] = "old"}

\* ReadDir of photos/.
ReadPhotosDir ==
  /\ gpc = "idle"
  /\ albumsLeft' = {a \in Albums : albumDir[a] # None}
  /\ due' = Orphans \cup Empties
  /\ gpc' = "walk"
  /\ UNCHANGED <<server, statsLeft, oldPhotos, oldEmpty, doomed, failures>>

PhotosOnly(a)      == DirsIn(a)    \* mutant: empty directories are passed over
NamelessEntries(a) == IF IsEmpty(a) THEN {None} ELSE DirsIn(a)  \* mutant: no path
Entries(a)         == IF IsEmpty(a) THEN {a} ELSE DirsIn(a)

\* ReadDir of the next album's directory; one without entries is looked at
\* itself.  A directory removed meanwhile is passed over.
ReadAlbumDir ==
  /\ gpc = "walk" /\ statsLeft = {}
  /\ \E a \in albumsLeft :
        /\ albumsLeft' = albumsLeft \ {a}
        /\ statsLeft' = IF albumDir[a] = None THEN {} ELSE Entries(a)
  /\ UNCHANGED <<server, gpc, oldPhotos, oldEmpty, doomed, due, failures>>

\* Info, taken after the directory was read: the guard of Listing.Orphans.
AnyAge(age) == age # None     \* mutant: the grace period is not asked for
TooOld(age) == age = "old"

Info ==
  /\ gpc = "walk"
  /\ \E d \in statsLeft :
        /\ statsLeft' = statsLeft \ {d}
        /\ oldPhotos' = oldPhotos \cup {p \in {d} \cap PhotoIds : TooOld(photoDir[p])}
        /\ oldEmpty' = oldEmpty \cup {a \in {d} \cap Albums : TooOld(albumDir[a])}
  /\ UNCHANGED <<server, gpc, albumsLeft, doomed, due, failures>>

\* The table is read when the disk has been listed.
NothingKnown == {}    \* mutant: the table is not asked
AlbumsKnown  == {p \in PhotoIds : AlbumOf[p] \in albumRows}  \* mutant
Known        == rows

ListPhotoRefs ==
  /\ gpc = "walk" /\ albumsLeft = {} /\ statsLeft = {}
  /\ doomed' = (oldPhotos \ Known) \cup oldEmpty
  /\ oldPhotos' = {} /\ oldEmpty' = {}
  /\ gpc' = "incoming"
  /\ UNCHANGED <<server, albumsLeft, statsLeft, due, failures>>

\* The staging files; nothing but a call's own Rename asks for them.
StaleIncoming ==
  /\ gpc = "incoming"
  /\ doomed' = doomed \cup {c \in Calls : staging[c] = "old"}
  /\ gpc' = "remove"
  /\ UNCHANGED <<server, lists, due, failures>>

\* A photo directory; then, if that was the last one, its album's.
RemovePhotoDir ==
  /\ gpc = "remove"
  /\ \E p \in doomed \cap PhotoIds :
        /\ RemoveDir(p)
        /\ doomed' = doomed \ {p}
        /\ gpc' = "parent" /\ albumsLeft' = {AlbumOf[p]}
  /\ UNCHANGED <<tables, fresh, call, staging, crashes, statsLeft, oldPhotos, oldEmpty, due, failures>>

RemoveEmptyParent ==
  /\ gpc = "parent"
  /\ \A a \in albumsLeft : RemoveIfEmpty(a)
  /\ gpc' = "remove" /\ albumsLeft' = {}
  /\ UNCHANGED <<tables, photoDir, original, fresh, call, staging, crashes, statsLeft,
                 oldPhotos, oldEmpty, doomed, due, failures>>

\* An album directory that was empty when it was listed.
RemoveEmptyDir ==
  /\ gpc = "remove" /\ doomed \cap PhotoIds = {}
  /\ \E a \in doomed \cap Albums :
        RemoveAll(a) /\ doomed' = doomed \ {a}
  /\ UNCHANGED <<tables, fresh, call, staging, crashes, gpc, lists, due, failures>>

RemoveStaged ==
  /\ gpc = "remove" /\ doomed \cap (PhotoIds \cup Albums) = {}
  /\ \E c \in doomed \cap Calls :
        Unstage(c) /\ doomed' = doomed \ {c}
  /\ UNCHANGED <<tables, files, fresh, call, crashes, gpc, lists, due, failures>>

Finish ==
  /\ gpc = "remove" /\ doomed = {}
  /\ gpc' = "idle" /\ due' = {}
  /\ UNCHANGED <<server, lists, doomed, failures>>

\* An error, an interruption, or a dry run, which removes nothing.
GcStops ==
  /\ gpc # "idle" /\ failures < MaxFailures /\ failures' = failures + 1
  /\ gpc' = "idle" /\ due' = {} /\ doomed' = {}
  /\ albumsLeft' = {} /\ statsLeft' = {} /\ oldPhotos' = {} /\ oldEmpty' = {}
  /\ UNCHANGED server

-----------------------------------------------------------------------------
Progress(c) == \/ MakePhotoDir(c) \/ Rename(c) \/ Record(c) \/ RemovePhoto(c)
               \/ RemoveParent(c) \/ RemoveAlbum(c)

Work(c) == \/ NewStaged(c) \/ Write(c) \/ Abort(c) \/ MakeAlbumDir(c) \/ DeletePhoto(c)
           \/ DeleteAlbum(c) \/ Progress(c)

GcStep == \/ ReadPhotosDir \/ ReadAlbumDir \/ Info \/ ListPhotoRefs \/ StaleIncoming
          \/ RemovePhotoDir \/ RemoveEmptyParent \/ RemoveEmptyDir \/ RemoveStaged \/ Finish

Next == \/ \E c \in Calls : Work(c)
        \/ Crash \/ HourPasses \/ GcStep \/ GcStops

Spec == Init /\ [][Next]_vars

\* The operator runs gc again and again, hours apart (a photo directory
\* is fit for it an hour after its last write), and a call that has started
\* to change the disk goes on.
FairSpec == /\ Spec /\ WF_vars(GcStep) /\ SF_vars(HourPasses)
            /\ \A c \in Calls : WF_vars(Progress(c))

-----------------------------------------------------------------------------
(***************************************************************************)
(* Properties.                                                             *)
(***************************************************************************)

\* The types of the variables.
TypeOK ==
  /\ albumRows \subseteq Albums /\ rows \subseteq PhotoIds
  /\ albumDir \in [Albums -> Age \cup {None}]
  /\ photoDir \in [PhotoIds -> Age \cup {None}]
  /\ original \subseteq PhotoIds /\ fresh \subseteq PhotoIds
  /\ call \in [Calls -> Call]
  /\ staging \in [Calls -> Age \cup {None}]
  /\ gpc \in {"idle", "walk", "incoming", "remove", "parent"}
  /\ albumsLeft \subseteq Albums /\ statsLeft \subseteq Albums \cup PhotoIds
  /\ oldPhotos \subseteq PhotoIds /\ oldEmpty \subseteq Albums
  /\ doomed \subseteq PhotoIds \cup Albums \cup Calls
  /\ due \subseteq PhotoIds \cup Albums
  /\ crashes \in 0..MaxCrashes /\ failures \in 0..MaxFailures

\* gc is "safe to run while the server is up" (the comment on gc): no photo
\* that has a row loses its original.
RowHasOriginal == rows \subseteq original

\* A photo directory gc is about to remove has no row and gets none before it
\* is removed, whatever the server did between the walk, the reading of the
\* table and the removal: nor is an upload about to insert it.
Claims(c, p) == call[c].kind = "upload" /\ call[c].id = p

DoomedStayOrphans ==
  \A p \in doomed \cap PhotoIds : p \notin rows /\ \A c \in Calls : ~Claims(c, p) \/ Waiting(c)

\* The only step that ever takes the original of a photo that keeps its row is
\* gc's removal of an album directory that it had listed as empty.
OnlyEmptyDirsLoseOriginals ==
  [][\A p \in rows \cap rows' :
       p \in original \ original' => /\ gpc = "remove" /\ AlbumOf[p] \in doomed
                                     /\ AlbumOf[p] \notin doomed']_vars

\* A run of gc that reaches its end leaves nothing of what was orphaned and old
\* when it started: it is gone, or the server touched it meanwhile.
DoneMeansClean ==
  gpc = "remove" /\ doomed = {} =>
    /\ \A p \in due \cap PhotoIds : photoDir[p] # "old"
    /\ \A a \in due \cap Albums : ~(IsEmpty(a) /\ albumDir[a] = "old")

\* What crashes, lost races and failed removals leave on the disk (directories
\* without a row, empty album directories) does not stay.
LeftoversGo ==
  /\ \A p \in PhotoIds : photoDir[p] # None /\ p \notin rows
                           ~> photoDir[p] = None \/ p \in rows
  /\ \A a \in Albums : IsEmpty(a) ~> ~IsEmpty(a)
=============================================================================
