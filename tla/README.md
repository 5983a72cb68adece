# A TLA+ model of smugbox

smugbox is a photo gallery: a Go server with an SQLite database and a directory
of files, a Lightroom plugin that publishes into it, and a web frontend for
visitors. This directory holds TLA+ modules that model its core, the TLC
configurations that check them on small instances, and proofs, checked by the
TLA+ proof system, that the main results hold for instances of any size.
`PROJECT.json` lists the runs, the source lines each definition translates, the
hazards the properties are aimed at, and the theorems.

Paths below are relative to `src/`; `api/`, `db/`, `storage/`, `image/` and
`auth/` stand for `backend/internal/api/` and so on.

## The system

| Component | State | Operations | Talks to |
|---|---|---|---|
| Publish handlers for photos (`api/publish_photos.go`, `api/publish_albums.go`) | none of their own; local variables of a request | upload, replace, metadata update, delete, order | table, files, worker (kick) |
| Photos table (`db/photos.go`) | one row per photo: catalog uuid, content hash, `variants_ready`, metadata | single SQL statements | handlers, worker, visitors, gc |
| File store (`storage/storage.go`) | `photos/<album>/<photo>/<variant>.jpg`, `incoming/` | stage, commit (rename), remove a file, a photo or an album, walk | handlers, worker, visitors, gc |
| Variant worker (`api/variants.go`) | wake channel, `kicked`, `busy`, `failed` | run, drain, generate, kick, idle | table, files |
| Process (`cmd/smugbox/main.go`) | lifetime | start, shutdown | worker, HTTP server |
| Garbage collector (`cmd/smugbox/admin.go`) | none | list disk, read table, remove | files, table, from another process |
| Albums (`api/publish_albums.go`, `db/albums.go`, `api/slug.go`) | rows with slug, cover, password hash and version, idempotency key | create, update, delete | handlers, plugin, admin commands |
| Folders (`api/publish_folders.go`, `db/folders.go`) | a tree of rows | create, move, delete with everything below | albums, files |
| Unlocking (`api/unlock.go`, `api/access.go`, `auth/`) | signed cookie with up to 20 grants, rate limiter's buckets, session secret | unlock, check, evict, sweep | albums |
| Visitor reads (`api/albums.go`, `api/photos.go`, `api/download.go`) | two slots for zip files | album, cover, variant, zip | table, files |
| API keys (`db/apikeys.go`, `api/publish_auth.go`) | rows | create, check, revoke | all publish calls |
| Lightroom plugin (`PublishTask.lua`, `SmugboxAPI.lua`) | ids recorded in the catalog, the pending create key | publish run, retries, settings, deletions | the HTTP API |
| Frontend, deployment, load test | -- | -- | the HTTP API |

What is hard here:

* **No lock on a photo.** A replacement is three writes (hide the row, move the
  file, write the row), a generation reads a snapshot and makes one write per
  variant and then one to the row, a deletion is a statement and a removal.
  All of them interleave, and each decides on what it read earlier.
* **Files and table are two stores.** A crash, an error or a client that hangs up
  falls between a write to one and a write to the other; the code chooses the
  order of each pair so that what remains is at worst a directory for gc.
* **The worker's wake protocol.** Kicks are coalesced in a channel of capacity one
  beside two flags, a drain may fail to read the table, and only a ticker brings
  it back.
* **Reads that span statements**, in the folder tree, in partial updates, in gc
  and in what visitors see: no handler but `setPhotoOrder` uses a transaction.
* **Two processes.** `smugbox admin` works on the same table and files as the
  server, with nothing but SQLite's lock and the age of a directory between them.
* **Retries**: a lost answer makes the plugin repeat a call that took effect.

What makes each component correct:

* photos: a row always has its original; what visitors see can be served and
  shows the right picture; a stored photo is shown in the end; a deleted one
  never comes back; no directory is lost track of;
* worker: no kick is lost; `idle()` does not lie about what was listed;
* gc: never removes what a row refers to, now or in a moment;
* folders: stay a forest, deletion reaches exactly the subtree;
* albums and access: one album per idempotency key and per slug, an old password
  opens nothing, a grant is forgotten only for newer ones;
* rate limiter: no client gets more than its burst and rate, whatever is swept;
* plugin: a run that is repeated after any interruption ends with one album and
  each photo in it once.

## The modules

| Module | What it is |
|---|---|
| `PhotoLifecycle` | the abstract promise about photo ids: absent, pending, visible, gone |
| `PhotoPipeline` | uploads, replacements, deletions, the worker, the table, the files, restarts |
| `MCPhotoPipeline` | its instances for TLC |
| `PhotoPipelineProofs` | the inductive invariant of `PhotoPipeline` and the theorems |
| `WorkerWake` | `kick`, the wake channel, the flags, the loop, the ticker, `idle` |
| `WorkerWakeProofs` | its inductive invariant and theorems |
| `GarbageCollector` | `admin gc` next to the server's calls, system call by system call |
| `GarbageCollectorProofs` | its inductive invariant and theorems |
| `Catalog` | the tree of folders and albums, the handlers that change it, the plug-in's creates |
| `CatalogProofs` | its inductive invariant and theorems |
| `RateLimiter` | the token buckets, as operators on their state; no behaviour of its own |
| `RateLimiterProofs` | lemmas: what these operators do to the level of a client's bucket |
| `AlbumAccess` | passwords, versions, the API key, unlocking, cookies; extends `RateLimiter` |
| `AlbumAccessProofs` | its inductive invariant and theorems; extends `RateLimiterProofs` |
| `VisitorReads` | visitors of the album of `PhotoPipeline`, which it extends: the two are composed |
| `VisitorReadsProofs` | its inductive invariant, on top of the pipeline's, and theorems |
| `ZipNames` | the names that the entries of a zip get, photo by photo |
| `ZipNamesProofs` | its inductive invariant, that the search for a name ends, and theorems |
| `MC...` | the instances of each for TLC |

### PhotoPipeline

One album. Each request runs through the steps of its handler, and each SQL
statement and each file operation is a step of its own:

| `req[r].pc` | Next step | Code |
|---|---|---|
| `idle` | `UploadPhoto`, `ReplacePhoto`: the album or the row is looked up, the body is read | `uploadPhoto`, `replacePhoto`, `readUpload` |
| `lookup` | `FindPhoto`, `DrawId`: `GetPhotoByLrUUID`, new id or existing row | `ingest` 183-205 |
| `hide` | `MarkVariantsPending` | `ingest` 247-254 |
| `commit` | `CommitOriginal` | `ingest` 255-258 |
| `write` | `InsertPhoto`, `UpdatePhoto` | `ingest` 264-269 |
| `undo` | `RemoveUpload` | `ingest` 270-276 |
| `kick` | `Kick` | `ingest` 277-279 |
| `erase` | `RemovePhotoFiles`, after `DeletePhoto` | `deletePhoto` |
| `dropAlbum`, `eraseAlbum` | `DeleteAlbum`, `RemoveAlbumFiles`, after `FindAlbum` | `deleteAlbum`; `admin delete-album` does the same |

`Fail(r)` is everything that ends a request early: a rejected body or image, a
client that hangs up (which cancels the next statement), an error. `RemoveFails`
is a removal of files that fails, which the handlers log or ignore.

The worker's `wpc` follows `run`, `drain` and `generate`: `wait`, `list` the
pending rows, take the `next` snapshot, `render` each variant from the file as
it is at that moment, `commit` the staged variants one by one and remove what
was not produced, `mark` the row ready if it still has the snapshot's hash,
else `takeback` the directory if the row is gone.

A file's content stands for its sha256 too, so `disk[p][f]` says which original
file `f` of photo `p` shows, and the row's `hash` names one. `Produced(h)` is
the set of variants an original has: a small one has no `large`.

Two variables are not in the code. `leftover` collects the directories that the
code knowingly leaves to gc, so that `FilesHaveAnOwner` can demand an owner for
all others; it is set where the error paths and `Restart` abandon files.
`stored` remembers, for the current drain, the snapshots whose own file was
moved into place after they were read; it is the excuse in
`ShownVariantsAreCurrent`. No action's guard reads either.

### WorkerWake

The lock-protected sections of `kick`, `run` and `idle`, and the operations on
the channel between them, each as a step. What a drain does is reduced to
listing the photos stored so far; a drain may fail to list. A kick of
`PhotoPipeline` sets `wake` in one step because it keeps no flags; the two steps
of the code are this module's subject.

### PhotoLifecycle

The specification `PhotoPipeline` implements. `Life` in `PhotoPipeline` is the
refinement mapping: an id is *absent* while it may still be inserted, *pending*
or *visible* by its row, and *gone* when it has no row and can have none again.

### GarbageCollector

What `PhotoPipeline` takes to be one step is split here at each system call that
makes or removes a directory, because that is what gc may see or hit: `Commit` is
`MakeAlbumDir`, `MakePhotoDir` (`MkdirAll`) and `Rename`; `RemovePhoto` is the removal of
the directory and then `RemoveParent`. Before it a call creates and writes its
staging file (`NewStaged`, `Write`), after it comes the row (`Record`). Variants are
left out: a directory has the original or not.

gc follows `gcTargets` and `gc`: `ReadPhotosDir`, `ReadAlbumDir` and `Info` are the system
calls of `Walk`; `ListPhotoRefs` reads the table and decides; `StaleIncoming` adds
staging files; then one removal at a time, a photo's directory followed by an
attempt at its album's. `GcStops` is an error, an interruption or a dry run.

A directory or a staging file is absent, young or old. gc reads the clock once,
so nothing becomes old while it runs, and every write makes young again.
`HourPasses` makes everything old; it needs every call to be waiting for its client
or libvips, which is the model's reading of the hour: nothing else in a request
takes that long. `due` notes what was fit for removal when gc started and is read
by `DoneMeansClean` alone.

### Catalog

Folders and albums are two tables with two sets of handlers; both are nodes here,
and where the handlers agree one definition stands for both (their parents,
creation, deletion). `req[r].pc` follows a request through `createAlbum` and `createFolder`
(`lookup` the key, `parent`, `insert`, `which` index was violated, `reread`), `updateFolder`
and `updateAlbum` (`parent`, `chain`, `write`), `deleteFolder` and `deleteAlbum` (`list`, `drop`,
`erase`). A slug that somebody else has is a choice of `Insert`. The plug-in is at
`cpc`: it has its create key (`send`), waits for an answer (`wait`), records the id
(`record`), clears the key (`clear`), and may give up anywhere (`Quit`), keeping what the
catalog holds; `Retry` sends again while the first request may still run.

`Chain(n)` is what `FolderChain` reads: the least set of rows with `n` and, with a folder,
its parent. It is finite on a cycle too, where the code's recursion (`UNION ALL`)
would not end: `EndlessChain` says when that is. The walk down of `SubtreeAlbumIDs` does not
end for a folder on a cycle (`OnCycle`).

`escaped` and `entered` note the albums that left, or came into, a subtree between its
listing and its deletion; `forGc` what a crash or a failed removal leaves to gc;
`late` that a keyed node was deleted while a create with its key was going on. They
are the excuses of the properties and no guard reads them.

### RateLimiter and AlbumAccess

A tick refills one unit and an attempt costs `PerToken`: the code's fractions of a
token, scaled. `Allow` is one step, as its mutex makes it. `Attempt` is the part of
`unlockAlbum` up to the limiter, `CheckPassword` reads the album and compares, `Answer`
sets the cookie in the browser, or is lost; so two tabs can be between any of
these with the same old cookie. The editors are publish requests (`Publish` checks
the key, `Touch` notes its use, `ReadAlbum`, `UpdateAlbum`, `CreateAlbum`) and runs of
`smugbox admin` (`Command`, `Revoke`, `DeleteAlbum`): what one has read it writes back,
whole, at some later time. `Stop` and `Boot` lose the buckets and keep the secret.

`Add` is `Session.Add`: `Without` the album's earlier grant, the new one last, the
`Latest` of them. `Without` drops one grant because a cookie never has two for an
album, which is part of `TypeOK` and proved.

A grant also notes the password it was given for; `raced` the albums that somebody
wrote without having read the row he wrote over; `promised` what each unlocking
may count on; `admitted` and `retryAt` what the limiter let through and told. These
are for the properties only.

### VisitorReads

Extends `PhotoPipeline`: `Publishing` is any step of it, and the visits read its
`photos` and `disk`. A visit reads a row or a listing in one step and opens files in
later ones: `GetPhotoVariant`, `StatLarge`, `OpenFile`; `GetSummary` and then `ListPage` or
`GetCover`; `TakeSlot`, `ListForZip`, `AddToZip` for each photo, `FinishZip` or `AbortZip`.

`gone` and `busy` note, per visit, the photos that were deleted, and those that were
hidden or shown, since it began; `torn` the photos whose replacement overlapped another call, was given up between file and
row, or was stored while the worker had a snapshot: the cases in which the runs
`Stale` and `Unkicked` show that row and files may differ anyway.

### ZipNames

The loop of `downloadAlbum` that `AddToZip` of `VisitorReads` takes a photo at a time,
here for what it does with names: `seen` is the map of that name, `given` the names
put into the archive. `Pack`, `Skip` and `Abort` are the ways a turn ends, `UniqueName` is
`uniqueZipName`. A name is a stem with its extension and the numbers behind the
stem, so that a photo may be called what another one's numbered name is; `Fold`
is `strings.ToLower` on stems, any function, since it leaves numbers alone. The
branch for a photo without a name is left out: `ingest` stores none. As the two
modules share no state, `MCVisitorReads` runs one or the other, from the same
initial states, and not their interleavings.

## What the runs check

| Run | Instance | States | Shows |
|---|---|---|---|
| `Uploads` | 2 uploads, 2 ids, 2 catalog uuids, 2 contents, one photo deletion, one album deletion, 1 restart, 1 fault; symmetric | 1.2 million | `TypeOK`, `RowHasOriginal`, `VisibleIsServable`, `FilesHaveAnOwner`, `LivesAsPromised` |
| `Replace` | 1 stored photo, 2 replacements with or without a file, a deletion, 1 restart, 1 fault | 0.5 million | `VisibleIsServable`, `FilesHaveAnOwner`, `ShownVariantsAreCurrent`, `PendingIsShown` |
| `WorkerWake` | 3 uploads, 1 failed read, shutdown | 41 thousand | `TypeOK`, `IdleMeansSeen`, `KickIsKept`, `StoredIsSeen` |
| `Stale` | 1 stored photo, 1 replacement | | `VisibleShowsOriginal` is violated |
| `Unkicked` | 1 stored photo, 2 replacements | | `MismatchIsKicked` is violated |
| `Collector` | 1 album, 2 ids of which 1 stored, 2 calls of any kind, 1 crash, 1 gc that stops early | 121 thousand | `TypeOK`, `DoomedStayOrphans`, `DoneMeansClean`, `OnlyEmptyDirsLoseOriginals`, `LeftoversGo` |
| `CollectorSafe` | the same | | `RowHasOriginal` is violated |
| `Catalog` | an album in a folder in a folder, 2 updates one after the other, 1 deletion, 1 create; or an empty tree, 3 creates, 1 deletion, 2 keys; 1 fault | 1.3 million | `TypeOK`, `NoFolderInItself`, `Reachable`, `FilesHaveAnOwner`, `SameKeySameNode`, `OneNodePerCollection`, `RecordedIsMade`, `RowsKeepFiles` |
| `FolderCycle` | 2 folders side by side, 2 updates at once | | `NoFolderInItself` is violated |
| `Access` | four scenarios, below | 1.7 million | `TypeOK`, `GrantMeansPassword`, `StaysUnlocked`, `AttemptsBounded`, `RetryAfterHolds`, `RevokedStartsNothing` |
| `Visitors` | 2 stored photos, 1 replacement, 1 deletion, 1 restart, 1 visit at a time, any number of them; or the names of an archive of up to 5 photos, 5 names that get in each other's way, 2 spellings of a stem | 2.2 million | `VisitsTypeOK`, `FoundUnlessChanged`, `ETagNamesBody`, `ZipSkipsOnlyDeleted`, `SlotsGivenBack`, `NamesTypeOK`, `ZipNamesDistinct` |
| `CoverGone` | 2 stored photos, 1 replacement, 1 visit | | `CoverIsListed` is violated |

* `RowHasOriginal`: no undo, deletion, take-back or restart removes the files of a
  photo that has a row.
* `VisibleIsServable`: a photo that is ready has every variant that has no fallback.
* `FilesHaveAnOwner`: a directory without a row has somebody about to give it a row
  or to remove it, or it was left to gc knowingly.
* `ShownVariantsAreCurrent`: at the moment a photo is shown, if its row names the
  stored original, its variants show that original. The exception is A-B-A: the
  photo was replaced, and replaced back, while the worker held the first
  snapshot. Without the exception the property does not hold of the code.
* `LivesAsPromised`: the refinement.
* `PendingIsShown`: a hidden photo is shown or deleted in the end, even if requests
  stall after hiding it.
* `IdleMeansSeen`, `KickIsKept`, `StoredIsSeen`: see `WorkerWake`.
* `DoomedStayOrphans`: what gc is about to remove has no row and will not get one,
  whatever happened since the walk. `OnlyEmptyDirsLoseOriginals`: the one way in which
  a photo with a row ever loses its original is that of `CollectorSafe`.
* `DoneMeansClean`, `LeftoversGo`: a run of gc that ends has removed all that was fit
  for it, and whatever is left behind goes in the end.
* `NoFolderInItself`, `Reachable`: the tree stays a tree, if updates come one at a time,
  against a deletion at any moment.
* `FilesHaveAnOwner`, `RowsKeepFiles`: a deletion removes the files of the albums it
  deletes and of no other; the albums that moved between its listing and the
  `DELETE` are the exception, in either direction, and the first kind is gc's.
* `SameKeySameNode`, `OneNodePerCollection`, `RecordedIsMade`: two answers to one key are one
  node; a collection has one album, the one it records, after any number of
  retries, lost answers and restarts of Lightroom. The exception is a create
  that is still running when the node of its key is deleted.
* `GrantMeansPassword`: a cookie opens a protected album only to those who gave the
  password it has now.
* `StaysUnlocked`: a grant is not lost before its time, over restarts and unlocking
  of up to `MaxGrants - 1` other albums, one tab at a time.
* `AttemptsBounded`, `RetryAfterHolds`: the limiter, over every stretch of time.
* `RevokedStartsNothing`: no request passes the check once the key was revoked.
* `FoundUnlessChanged`, `ETagNamesBody`: no `file_missing`, no image under another's ETag.
* `ZipSkipsOnlyDeleted`, `SlotsGivenBack`, `ZipNamesDistinct`: the archive is complete and its
  names distinct, capitals or not; slots are returned.

What the exceptions leave out, each a case in which the code
does not keep the property:
albums that leave a folder or come into it between the listing and the `DELETE` of
its deletion (`FilesHaveAnOwner` and `RowsKeepFiles` of `Catalog`); albums whose password
was written by two calls that overlap (`GrantMeansPassword`); photos whose
replacements overlap, were interrupted after the file was stored, or that were
hidden or shown during the visit (`ETagNamesBody`, `torn` and `busy`). `PendingIsShown`
promises that a photo appears, not that its hash is its file's: after a
replacement that was interrupted before `UpdatePhoto` it is not. `StoredIsSeen` does
not speak of a server that stops; that its photos are shown after the next start
is in `PendingIsShown`.

Bounds. Two uploads are enough for a race over a catalog uuid and for a loser's
undo; two replacements for a replacement overtaken by another, or by a metadata
update, and for A-B-A; one deletion of each kind meets every step of the others.
The deferred variants are two, `thumb` and `large`, because the code tells apart
only those with a fallback and those without; two staged files give every order
of commits and failures in between. Two contents, one big and one small, give
both a lost and a gained `large`. `MaxRestarts` and `MaxFaults` are 1 each: after a
restart everything in memory is gone, so a second adds only what the first left
on disk, and the theorems below hold for any number of either.
Two calls next to gc are enough for one to leave something behind and another to
use it while gc runs; three ages distinguish all that gc asks. In `Catalog` three
creates allow a first, its retry and one more after Lightroom was restarted, and
two keys are what a restart can use up; one update at a time is what
`NoFolderInItself` needs (`FolderCycle` is the same with two). The scenarios of `Access`:
two requests and a command that change one password while two tabs unlock it;
requests one after another that delete an album and use its slug again; three
albums unlocked from two tabs over three ticks and a restart, with a cookie that
holds two grants and lasts three ticks; five attempts at three slugs with two
buckets over five ticks, so that the table is full, swept and refilled. In
`Visitors` one visit at a time is enough because visits share only the slots; that
a visit finds no slot is a guard that this instance does not exercise. The
excuses of `ETagNamesBody` for overlapping replacements, and for a file stored again
under the worker, are needed only with two replacements of one photo; that
instance is not among the runs. Five photos are enough for a name to be used
twice, its numbered name to be taken by another's own, and the next one too.

`Catalog` takes the keys as symmetric (they occur in no temporal formula but the
action property `RowsKeepFiles`, which does not name them).
The ids, uuids and uploads of `Uploads` are symmetric (no photo is stored at the
start, and the only temporal formula checked there is the safety property
`LivesAsPromised`, whose mapping does not tell ids apart); `Replace`, which checks
liveness, uses no symmetry.
`CHECK_DEADLOCK FALSE` everywhere: a server whose requests are finished may stop.

Fairness. `FairSpec` of `PhotoPipeline` asks weak fairness of the worker's steps as a
whole (a goroutine that is scheduled, and a ticker that ticks while it waits)
and that a stopped server is started again. Of `WorkerWake` it asks that the loop
runs on. `FairSpec` of `GarbageCollector` asks that gc's steps go on and that it is run
again with an hour between (strong fairness of `HourPasses`: an operator's cron
job does not always coincide with a request), and that a call which has begun to
change the disk goes on to its end or crashes; a call that waits for its client
may wait for ever. `Catalog`, `AlbumAccess` and `VisitorReads` have no liveness property:
every request ends when its statements do.
For the pipeline nothing is asked of the requests: clients stall, and handlers may
wait for a body for ever. Faults are not fair, and bounded: a disk that always
fails never shows a photo.

Each property of each passing run is also checked against a mutant of the code
(`PROJECT.json`, "mutants"): the operators marked *mutant* in the modules, each a
plausible bug, make TLC report that property violated.

## What the violated runs show

* **Stale** (`api/publish_photos.go:247-269`). Between the moment a replacement hides
  the photo and the moment it writes the new hash, the row still has the old
  one. A worker that generates from the old snapshot passes the check of
  `MarkVariantsReady` in that gap, and `UpdatePhoto` leaves `variants_ready` as it is.
  The photo is then visible for good, with variants that all or in part show
  the old original; the kick that follows finds nothing pending. The comments in
  `ingest` ("the worker shows it again once they are regenerated"), on
  `MarkVariantsReady` and on `image.Validate` say otherwise. (If the
  `UPDATE` that writes a new hash also hid the photo, the drain that follows the
  kick would repair it.)
* **Unkicked** (`api/variants.go:207`). A metadata update writes back the hash it read
  before its body arrived, undoing that of a replacement that finished
  meanwhile, and does not kick. The worker's mark then fails although no
  replacing request "kicked again": the photo stays hidden until the ticker, and
  its row names a file it no longer has.
* **CollectorSafe** (`cmd/smugbox/admin.go:283`). gc lists album directories that are
  empty and old, and removes them later with `os.RemoveAll`, without another look.
  An upload that commits and inserts its row in between loses its original: a row
  without files, which nothing repairs. The directory must have stayed empty for
  an hour, which happens when a deletion is cut off between the removal of the
  last photo and that of its album's directory. The comment on `gc` and
  `deploy/README.md` call it safe next to a running server. (`os.Remove`, which the
  code uses on the parents, would fail instead.)
* **FolderCycle** (`api/publish_folders.go:162`). The chain check and the `UPDATE` are two
  statements; two moves that overlap each see the tree before the other. The two
  folders are then beneath each other, reachable from nowhere, and the recursive
  queries that walk them (`UNION ALL`) run until the request's 30 s are over, on the
  only connection the server has.
* **CoverGone** (`api/albums.go:131`). `getAlbum` reads the album's summary, its cover
  included, and then its photos, without a transaction. A replacement that hides
  the cover photo in between leaves an answer whose `cover_photo_id` is not among its
  photos, which the comment at `api/albums.go:53` says it is; a deletion does the same.
  The frontend then shows no cover.

Three more disagreements came up that no run is spent on. A grant's comment
(`auth/cookie.go:21`) says that changing the password voids it; when `updateAlbum` or
`set-password` overlap, two passwords can get the same version, and a grant for
the overwritten one then opens the album. `GrantMeansPassword` excuses exactly the
albums in `raced`, and fails without that. And `deleteFolder` removes the files of an
album that was moved out of the folder after it was listed: the album lives on
without files (`escaped` in `RowsKeepFiles`). Last, `idle` (`api/variants.go:116-119`) says that
its flag covers "the moment after the loop has taken the token but before it has
set busy". A drain may have cleared the flag before: one that the ticker starts
while a token is in the channel, or one that starts between the two halves of a
kick. When the loop then takes the token `idle()` is true for that moment. No photo
is missed by it, as `IdleMeansSeen` shows, and only the tests call `idle`.

## What is proved

For every value of the constants that satisfies the modules' assumptions, for
every safety property that a passing run checks:

| Theorem | Statement |
|---|---|
| `PhotoPipelineProofs!TypeOKAlways` | `Spec => []TypeOK` |
| `RowHasOriginalAlways` | `Spec => []RowHasOriginal` |
| `VisibleIsServableAlways` | `Spec => []VisibleIsServable` |
| `FilesHaveAnOwnerAlways` | `Spec => []FilesHaveAnOwner` |
| `ShownVariantsAreCurrentAlways` | `Spec => ShownVariantsAreCurrent` |
| `LivesAsPromisedAlways` | `Spec => LivesAsPromised`: the refinement |
| `WorkerWakeProofs!TypeOKAlways` | `Spec => []TypeOK` |
| `IdleMeansSeenAlways` | `Spec => []IdleMeansSeen` |
| `KickIsKeptAlways` | `Spec => []KickIsKept` |
| `GarbageCollectorProofs!TypeOKAlways` | `Spec => []TypeOK` |
| `DoomedStayOrphansAlways` | `Spec => []DoomedStayOrphans` |
| `OnlyEmptyDirsLoseOriginalsAlways` | `Spec => OnlyEmptyDirsLoseOriginals` |
| `DoneMeansCleanAlways` | `Spec => []DoneMeansClean` |
| `CatalogProofs!TypeOKAlways` | `Spec => []TypeOK` |
| `ReachableAlways` | `Spec => []Reachable` |
| `FilesHaveAnOwnerAlways`, `RowsKeepFilesAlways` | `Spec => []FilesHaveAnOwner`, `Spec => RowsKeepFiles` |
| `SameKeySameNodeAlways` | `Spec => []SameKeySameNode` |
| `OneNodePerCollectionAlways`, `RecordedIsMadeAlways` | `Spec => []OneNodePerCollection`, `Spec => []RecordedIsMade` |
| `NoFolderInItselfAlways` | with at most one mover, `Spec => []NoFolderInItself` |
| `AlbumAccessProofs!TypeOKAlways` | `Spec => []TypeOK` |
| `GrantMeansPasswordAlways` | `Spec => []GrantMeansPassword` |
| `StaysUnlockedAlways` | `Spec => []StaysUnlocked` |
| `AttemptsBoundedAlways` | `Spec => []AttemptsBounded` |
| `RetryAfterHoldsAlways` | `Spec => RetryAfterHolds` |
| `RevokedStartsNothingAlways` | `Spec => RevokedStartsNothing` |
| `VisitorReadsProofs!VisitsTypeOKAlways` | `ReadSpec => []VisitsTypeOK` |
| `FoundUnlessChangedAlways`, `ETagNamesBodyAlways` | `ReadSpec => []FoundUnlessChanged`, `ReadSpec => []ETagNamesBody` |
| `ZipSkipsOnlyDeletedAlways` | `ReadSpec => []ZipSkipsOnlyDeleted` |
| `SlotsGivenBackAlways` | `ReadSpec => []SlotsGivenBack` |
| `ZipNamesProofs!AlwaysNamesTypeOK` | `ZipSpec => []NamesTypeOK` |
| `AlwaysZipNamesDistinct` | `ZipSpec => []ZipNamesDistinct` |

The assumptions on the constants say that the sentinels are not values and that
kinds of ids and of requests are disjoint; that what exists at the start is what
the schema allows (distinct catalog uuids, a tree of folders whose parents
exist); and that bounds and rates are natural numbers, a
cookie holds at least one grant, lasts at least one tick, and a bucket at least
one attempt, as the code's constants do. `NoFolderInItselfAlways` has the one
hypothesis that there is one mover, which `FolderCycle` shows to be needed;
creations and deletions go on beside it in any number. TLC evaluates all of the
named assumptions on the runs' instances.

**The argument for the pipeline.** Nothing here is inductive alone, because
whoever removes files does so by id: `RowHasOriginal` needs that an undo, a
deletion or a take-back never names an id with a row. `IInv` gets this from a
discipline of ids (`Ids`): an id is drawn once (`Drawn`); the upload that drew it is
alone in knowing it until the row is inserted, or for good if the insert is
refused (`PrivateIds`); and a deleted id never has a row again (`DeletedStaysOut`).
On top of it, `UploadHasOriginal` carries the original from the commit to the insert
(unless the album goes, in which case the foreign key refuses the row);
`Generating` carries the variants from `render` over the staged files to the
directory, so that the mark shows a complete photo; and `CurrentVariants` follows
which original they show as long as the file was not replaced. `FilesHaveAnOwner` is
inductive given the types. The proof has a frame lemma per variable (which
actions may change it) and then one lemma per conjunct with a step per action.

The refinement maps every step to a lifecycle step or a stutter: an insertion is
`Store`, a mark that matches is `Show`, a hide is `Hide`, and everything that only loses
ids (deletions, refused uploads, restarts) is `Forget`. That a deleted id cannot be
re-promised is `PrivateIds` and `Drawn` again.

**The argument for the wake protocol.** `BusyDuringDrain` ties the flag to the loop;
`FlagIsKept` says that an upload with its flag set and its photo not listed still
has the flag up, or the drain that cleared it is still to list, or could not.

**The argument for gc.** The same discipline of ids, one process further: an old
directory belongs to no upload, because no hour passes between an upload's
`MkdirAll` and its row, and an id is drawn once, so that what had neither an upload
nor a row when gc looked never gets a row again. `Ids` follows each id from the call that drew it (`ClaimIsExclusive`) to its row
and out of it (`ErasedIsGone`). `Lists` follows what gc listed: an old
directory is no upload's (`ListedIsUnclaimed`), what survived the reading of
the table is without a row for good (`DoomedHasNoRow`), and what was due when gc
started is still ahead of it, gone or touched (`DueIsAhead`). `DoneMeansClean` is
the end of that list; `OnlyEmptyDirsLoseOriginals` takes one step per action that
removes.

**The argument for the catalog.** Three invariants side by side. `Shapes`: a request's
fields fit its step, ids not drawn are nowhere, and the foreign keys keep every
parent in place (`Reachable`). `Subtrees`: between its listing and its statement a
deletion knows every album of the subtree, but for those that `entered`, and its
list has none outside it, but for those that `escaped`; since both `Below` and the
list change with every move and creation, this rests on lemmas about what a
changed row does to `Chain`. `KeysInv`: a key names one node (the unique index), an
answer names the node of its key, and while no create has outlived its node,
every create under way carries the key of the present attempt or of a node that
exists (`OneKeyAtATime`). For `NoFolderInItself`, `MoveIsChecked` keeps the outcome of the
chain check until the statement: only another mover could spoil it.

**The argument for access.** A version stands for one password: `Holds` says of each
grant, in a cookie, on its way or about to be given, that it is not above its
album's version and names the album's password where it is equal, and that its
id was used, so that a new album is not opened by an old grant. `StaysUnlocked` is
not inductive: the cookie must hold, behind the promised grant, exactly the
albums unlocked since (`KeptAt`), so that its place tells when it is dropped.
`WithoutOne`, `AppendKeeps` and `LatestKeeps` say what `Add` does to that place; the secret is
drawn once, so the cookie verifies after any restart. `AttemptsBounded` follows from
`Spent`: since any tick, the tokens taken and the bucket's present `Level` are together
at most a full bucket and its refill. `RateLimiterProofs` shows that a sweep or
another's attempt leaves `Level` as it is, because what is swept is full and a
missing bucket counts as full. `WaitIsEnough` says that the level, plus what time
adds, makes a token when the told time is up; with it follows `RetryAfterHolds`.

**The argument for visitors.** `ReadIInv` is the pipeline's invariant, which goes on
holding since a visit changes nothing of it, and two parts more. `Agreement`: but
for `torn` photos, the row names the stored original, a request that will write a
hash has stored that file or read that hash, and the worker has no snapshot of
a photo that visitors see. `VisitInv`: what each visit has read is still so, or is noted
in its `gone` or `busy`. Proving it showed that the excuse of a photo "being
replaced" was wider than needed: a replacement hides the photo before it touches
its files, so `busy` is now what was hidden or shown during the visit and nothing
else.

`ZipNames`. The invariant is `NamesTypeOK`, which says that the map has an entry for just the
names in the archive, `ZipNamesDistinct`, and that the map is finite. The step needs
that the search for a number finds one (`SearchEnds`), which the code leaves to a
loop without a bound: different numbers make different names, so one more
candidate than there are entries cannot all be seen (`FS_Injection`); and of the
free ones there is a first (`LeastOf`, from the well-founded order of the subsets
of an interval, since induction over a predicate is not at hand).

Only model-checked: `PendingIsShown`, `StoredIsSeen` and `LeftoversGo`, which are liveness
under fairness; and the violated properties, which a trace
refutes.

## Assumptions and abstractions

* One SQL statement is atomic: the pool has one connection (`db.Open`), and other
  processes write under SQLite's lock. It has taken effect and reports
  success, or reports an error and has not. A driver that reports a cancelled
  context after the commit would break the second half; `ingest` would then remove
  the directory of an inserted row.
* One store operation is atomic: a commit is a rename, and `os.RemoveAll` of a photo
  or an album happens at once or fails without removing anything.
  `GarbageCollector` splits a commit and a removal at each system call, but takes
  `RemoveAll` of one photo's or album's directory to be one.
* gc: between `MkdirAll` and the statement that follows a commit less than an hour
  passes, and so between any two system calls of a removal; the clocks of the
  file system and of gc agree; nobody but smugbox writes below its data directory.
* A crash is that of the process; a loss of power may take back transactions that
  SQLite (`synchronous=NORMAL`) had committed, and is not modelled.
* One album: the pipeline of another shares only the worker, which treats
  snapshots one at a time.
* The worker takes the snapshots of a drain in any order; the code's order by
  `updated_at` is one of them.
* The dimensions a snapshot carries belong to its hash. Rows from before hashes
  were stored are left out.
* The image probe of an upload only decides whether the request fails.
* The failure keys of the worker are kept as in the code, per id and hash.
* `Stop` happens between two photos; a generation under way is finished
  (`context.WithoutCancel`).

* The plug-in's catalog writes succeed and a collection has an identity; without
  either it uses a key per call (`PublishTask.lua:96-99`) and promises nothing.
* bcrypt and HMAC: a password matches its own hash only, a cookie verifies under
  the secret it was signed with only. The seconds of the code are ticks.
* `Catalog` gives an album one bit of files; `VisitorReads` leaves access to the album
  to `AlbumAccess`, lets the cover be chosen once, and leaves out the count
  of photos that is read with it.

## Not modelled

* The listings for visitors (`getFolder`, `listAlbums`, `ListChildFolders`): single
  `SELECT`s over aggregates, no state of their own.
* `setPhotoOrder`: one transaction, whose result nothing else depends on;
  `listPublishedPhotos`: one `SELECT`.
* The plug-in's upload loop, its dialogs and its repair of albums that vanished
  while photos were sent: the server's side of repeated uploads is `PhotoPipeline`.
* Creation and listing of API keys: one statement each.
* Foreign entries in `photos/` that gc removes whatever their age: the server makes none.
* Spelling and cutting of slugs, file names, headers, range requests.
* The frontend (it renders what the API returns), static files, routing, logging
  and configuration (stateless input and output), the pixels of variants
  (libvips), opening and migrating the database (sequential, once per start),
  deployment and load-test scripts, and the vendored JSON library.

## Next

`VisitorReads` leaves out the password: with `AlbumAccess` beside it, a zip that outlives
the grant it was started with could be stated. The order of the worker's queue
(`updated_at`) would let `PendingIsShown` say in which order photos appear. Of the
proofs, what moves preserve when they overlap but none crosses another's chain
is open.
