------------------------------ MODULE Catalog -------------------------------
(***************************************************************************)
(* The tree of folders and albums, the publish calls that create, move and *)
(* delete them, and the Lightroom plug-in that creates one node (an album  *)
(* for a published collection, a folder for a collection set) and retries. *)
(*                                                                         *)
(* Each statement is atomic and each handler issues several, so what one   *)
(* has read may no longer hold when it writes.  Albums and folders are     *)
(* kept by two tables and two sets of handlers; what they share is one     *)
(* definition here.                                                        *)
(***************************************************************************)
EXTENDS Naturals, FiniteSets

CONSTANTS
  FolderIds, AlbumIds, Keys,
  Root, None,
  Creators,        \* requests the plug-in creates with
  Movers,          \* requests that move or rename
  Deleters,        \* requests that delete
  Scenarios,       \* the trees to start with, and the calls to be made then
  SlugRetries,     \* bound on the suffixes tried for a slug
  MaxFaults        \* bound on crashes and on removals that fail

Nodes    == FolderIds \cup AlbumIds
Requests == Creators \cup Movers \cup Deleters

\* The sentinels are values of their own; a scenario is a tree beneath Root.
ASSUME CatalogConstants ==
  /\ FolderIds \cap AlbumIds = {}
  /\ {Root, None} \cap (Nodes \cup Keys) = {} /\ Root # None
  /\ None \notin {"create", "move", "delete"}
  /\ \A s \in Scenarios :
        /\ s.parents \in [DOMAIN s.parents -> (FolderIds \cap DOMAIN s.parents) \cup {Root}]
        /\ \A S \in SUBSET DOMAIN s.parents : S # {} => \E n \in S : s.parents[n] \notin S
        /\ DOMAIN s.parents \subseteq Nodes
        /\ s.files \subseteq DOMAIN s.parents \cap AlbumIds
        /\ s.calls \in [Requests -> Nat]
  /\ SlugRetries \in Nat /\ MaxFaults \in Nat

VARIABLES
  rows,      \* the two tables: a function from the ids that have a row
  files,     \* the albums that have files
  fresh,     \* ids not drawn yet
  req,       \* req[r]: the call that request r carries
  left,      \* left[r]: the calls still to be made with it
  kind,      \* what the plug-in creates: FolderIds or AlbumIds
  cpc,       \* where the plug-in is
  savedKey,  \* the create key in the catalog
  unused,    \* keys not minted yet
  remote,    \* the remote id recorded for the collection
  sent, got, \* the request it waits for, the id it was answered
  escaped,   \* albums that left a subtree between its listing and its deletion
  entered,   \* albums that came into one then
  forGc,     \* albums whose files are knowingly left to "smugbox gc"
  late,      \* a keyed node was deleted while a create with its key went on
  faults

tree   == <<rows, files, fresh>>
client == <<kind, cpc, savedKey, unused, remote, sent, got>>
notes  == <<escaped, entered, forGc, late, faults>>
vars   == <<tree, req, left, client, notes>>

Row  == [parent : FolderIds \cup {Root}, key : Keys \cup {None}]
Call == [pc   : {"idle", "lookup", "parent", "insert", "which", "reread",
                 "chain", "write", "list", "drop", "erase", "done"},
         op   : {"create", "move", "delete", None},
         id   : Nodes \cup {None},
         to   : FolderIds \cup {Root, None},
         key  : Keys \cup {None},
         tries : 0..SlugRetries,
         list : SUBSET AlbumIds]
Idle == [pc |-> "idle", op |-> None, id |-> None, to |-> None, key |-> None,
         tries |-> 0, list |-> {}]

Existing == DOMAIN rows
Folders  == Existing \cap FolderIds

(***************************************************************************)
(* FolderChain and SubtreeAlbumIDs walk parent_id with UNION ALL: the rows *)
(* of a node's chain are the least set that holds it and, with a folder,   *)
(* the folder's parent.  On a cycle the walk never ends: the statement     *)
(* runs until its request times out.                                       *)
(***************************************************************************)
Closed(S) == \A n \in S : rows[n].parent \in Existing => rows[n].parent \in S
Chain(n)  == {m \in Existing : \A S \in SUBSET Existing :
                                 Closed(S) /\ {n} \cap Existing \subseteq S => m \in S}

OnCycle(f)      == f \in Folders /\ f \in Chain(rows[f].parent)
EndlessChain(n) == \E x \in Chain(n) : OnCycle(x)
Below(f)        == {n \in Existing : f \in Chain(n)}

Init ==
  /\ \E s \in Scenarios :
        /\ rows = [n \in DOMAIN s.parents |-> [parent |-> s.parents[n], key |-> None]]
        /\ files = s.files
        /\ fresh = Nodes \ DOMAIN s.parents
        /\ left = s.calls
  /\ req = [r \in Requests |-> Idle]
  /\ kind \in {FolderIds, AlbumIds}
  /\ cpc = "idle" /\ savedKey = None /\ unused = Keys
  /\ remote = None /\ sent = None /\ got = None
  /\ escaped = {} /\ entered = {} /\ forGc = {} /\ late = FALSE /\ faults = 0

Free(r)      == req[r].pc \in {"idle", "done"} /\ left[r] > 0
Begin(r, c)  == /\ req' = [req EXCEPT ![r] = c]
                /\ left' = [left EXCEPT ![r] = @ - 1]
Becomes(r, c) == req' = [req EXCEPT ![r] = c] /\ UNCHANGED left
Goto(r, pc)  == Becomes(r, [req[r] EXCEPT !.pc = pc])

\* A call ends, answered with a node's id or with an error.
Done         == [Idle EXCEPT !.pc = "done"]
Answer(r, n) == Becomes(r, [Done EXCEPT !.id = n, !.key = req[r].key])
End(r)       == Becomes(r, Done)
Refuse(r)    == End(r)

\* The albums that a step takes into, or out of, the subtree of a deletion that
\* has listed it and not deleted it yet.
Inside(d) == IF req[d].pc = "drop" THEN Below(req[d].id) \cap AlbumIds ELSE {}
Entering  == UNION {Inside(d)' \ Inside(d) : d \in Deleters}
Escaping  == UNION {Inside(d) \ Inside(d)' : d \in Deleters}

-----------------------------------------------------------------------------
(***************************************************************************)
(* createAlbum and createFolder.                                           *)
(***************************************************************************)
ByKey(k) == {n \in Existing \cap kind : rows[n].key = k}

\* The unique indexes of idempotency_key; the foreign keys of the parents.
AnyKey(k)  == TRUE     \* mutant: no unique index
KeyFree(k) == ByKey(k) = {}

NoForeignKey(f) == TRUE     \* mutant: foreign keys are off
IsParent(f)     == f \in Folders \cup {Root}

\* GetAlbumByIdempotencyKey: a key that was used answers with its node.
LookupKey(r) ==
  /\ req[r].pc = "lookup"
  /\ IF ByKey(req[r].key) = {} THEN Goto(r, "parent")
     ELSE \E n \in ByKey(req[r].key) : Answer(r, n)
  /\ UNCHANGED <<tree, client, notes>>

\* resolveParentFolder, for creations and moves: the parent exists, now.
ResolveParent(r) ==
  /\ req[r].pc = "parent"
  /\ IF ~IsParent(req[r].to) THEN Refuse(r)
     ELSE Goto(r, CASE req[r].op = "create" -> "insert"
                    [] req[r].op = "move" /\ req[r].id \in FolderIds /\ req[r].to # Root -> "chain"
                    [] OTHER -> "write")
  /\ UNCHANGED <<tree, client, notes>>

\* uuid.NewString: which one does not matter.
NewId == CHOOSE n \in fresh \cap kind : TRUE

\* INSERT: the unique indexes (the key's, the slug's) are checked before the
\* foreign key.  Any slug may be taken by somebody else's album.
Insert(r) ==
  /\ req[r].pc = "insert"
  /\ \/ Goto(r, "which") /\ UNCHANGED tree
     \/ /\ KeyFree(req[r].key)
        /\ IF ~IsParent(req[r].to) THEN Refuse(r) /\ UNCHANGED tree
           ELSE LET n == NewId IN
                  /\ fresh \cap kind # {}
                  /\ rows' = [m \in Existing \cup {n} |->
                                IF m = n THEN [parent |-> req[r].to, key |-> req[r].key]
                                ELSE rows[m]]
                  /\ fresh' = fresh \ {n}
                  /\ Answer(r, n)
                  /\ UNCHANGED files
  /\ entered' = entered \cup Entering
  /\ UNCHANGED <<client, escaped, forGc, late, faults>>

OnceMore(r)   == req[r].tries <= SlugRetries   \* mutant: off by one
TriesLeft(r)  == req[r].tries < SlugRetries

\* hasIdempotencyKey decides what the unique violation was about; a slug gets
\* a new suffix.
WhichIndex(r) ==
  /\ req[r].pc = "which"
  /\ IF ByKey(req[r].key) # {} THEN Goto(r, "reread")
     ELSE IF TriesLeft(r)
          THEN Becomes(r, [req[r] EXCEPT !.pc = "insert", !.tries = @ + 1])
          ELSE Refuse(r)
  /\ UNCHANGED <<tree, client, notes>>

\* The race with a retry was lost: answer with the winner's node.
Reread(r) ==
  /\ req[r].pc = "reread"
  /\ IF ByKey(req[r].key) = {} THEN Refuse(r)
     ELSE \E n \in ByKey(req[r].key) : Answer(r, n)
  /\ UNCHANGED <<tree, client, notes>>

-----------------------------------------------------------------------------
(***************************************************************************)
(* updateFolder and updateAlbum: the row is read, the fields given are     *)
(* changed, and the row is written, with its parent.                       *)
(***************************************************************************)
\* A rename writes back the parent it has read.
StartUpdate(r) ==
  /\ Free(r)
  /\ \E n \in Existing :
        \/ Begin(r, [Idle EXCEPT !.pc = "write", !.op = "move", !.id = n,
                       !.to = rows[n].parent])
        \/ \E f \in (Folders \cup {Root}) \ {n} :
              Begin(r, [Idle EXCEPT !.pc = "parent", !.op = "move", !.id = n, !.to = f])
  /\ UNCHANGED <<tree, client, notes>>

Unchecked(r) == TRUE     \* mutant: any parent will do
MayHold(r)   == req[r].id \notin Chain(req[r].to)

\* FolderChain of the new parent: not into its own subtree.
CheckChain(r) ==
  /\ req[r].pc = "chain"
  /\ IF MayHold(r) /\ ~EndlessChain(req[r].to) THEN Goto(r, "write") ELSE Refuse(r)
  /\ UNCHANGED <<tree, client, notes>>

Update(r) ==
  /\ req[r].pc = "write"
  /\ IF req[r].id \in Existing /\ IsParent(req[r].to)
     THEN rows' = [rows EXCEPT ![req[r].id].parent = req[r].to]
     ELSE UNCHANGED rows
  /\ End(r)
  /\ escaped' = escaped \cup Escaping /\ entered' = entered \cup Entering
  /\ UNCHANGED <<files, fresh, client, forGc, late, faults>>

\* Uploads give an album files while it has a row.
PublishPhotos ==
  /\ \E a \in (Existing \cap AlbumIds) \ files : files' = files \cup {a}
  /\ UNCHANGED <<rows, fresh, req, left, client, notes>>

-----------------------------------------------------------------------------
(***************************************************************************)
(* deleteFolder and deleteAlbum: the albums' files are listed, the rows    *)
(* deleted (ON DELETE CASCADE takes everything beneath a folder), then the *)
(* files removed.                                                          *)
(***************************************************************************)
StartDelete(r) ==
  /\ Free(r)
  /\ \E n \in Existing :
        Begin(r, [Idle EXCEPT !.op = "delete", !.id = n,
                    !.pc = IF n \in FolderIds THEN "list" ELSE "drop",
                    !.list = IF n \in FolderIds THEN {} ELSE {n}])
  /\ UNCHANGED <<tree, client, notes>>

JustInside(f)     == {a \in Existing \cap AlbumIds : rows[a].parent = f}  \* mutant
SubtreeAlbumIDs(f) == Below(f) \cap AlbumIds

\* A walk down from a folder does not end if the folder is on a cycle: what is
\* above a cycle is on it, and what hangs beneath one is not reached by it.
ListAlbums(r) ==
  /\ req[r].pc = "list"
  /\ IF OnCycle(req[r].id) THEN Refuse(r)
     ELSE Becomes(r, [req[r] EXCEPT !.pc = "drop", !.list = SubtreeAlbumIDs(req[r].id)])
  /\ UNCHANGED <<tree, client, notes>>

\* Creates that have looked their key up, or may not even have, and go on.
GoingOn(k) == \E r \in Creators : /\ req[r].key = k
                                  /\ req[r].pc \notin {"idle", "done"}

NoCascade(n) == {n} \cap Existing     \* mutant: ON DELETE is missing
Cascade(n)   == Below(n)

\* A node that another call deleted is no error.
Drop(r) ==
  /\ req[r].pc = "drop"
  /\ LET gone == Cascade(req[r].id)
     IN  /\ rows' = [n \in Existing \ gone |-> rows[n]]
         /\ late' = (late \/ \E n \in gone : rows[n].key # None /\ GoingOn(rows[n].key))
  /\ Goto(r, "erase")
  /\ UNCHANGED <<files, fresh, client, escaped, entered, forGc, faults>>

EraseAlbum(r) ==
  /\ req[r].pc = "erase"
  /\ \E a \in req[r].list :
        /\ Becomes(r, [req[r] EXCEPT !.list = @ \ {a}])
        /\ \/ files' = files \ {a} /\ UNCHANGED <<forGc, faults>>
           \/ /\ faults < MaxFaults /\ faults' = faults + 1
              /\ forGc' = forGc \cup {a} /\ UNCHANGED files
  /\ UNCHANGED <<rows, fresh, client, escaped, entered, late>>

EndDelete(r) ==
  /\ req[r].pc = "erase" /\ req[r].list = {}
  /\ End(r)
  /\ UNCHANGED <<tree, client, notes>>

\* The server dies.
Crash ==
  /\ faults < MaxFaults /\ faults' = faults + 1
  /\ req' = [r \in Requests |->
               IF req[r].pc \in {"idle", "done"} THEN req[r]
               ELSE Done]
  /\ forGc' = forGc \cup UNION {req[r].list : r \in {q \in Requests : req[q].pc = "erase"}}
  /\ UNCHANGED <<tree, left, client, escaped, entered, late>>

-----------------------------------------------------------------------------
(***************************************************************************)
(* The plug-in (PublishTask.lua, SmugboxAPI.lua), publishing one           *)
(* collection.  The create key is in the catalog before the request is     *)
(* sent and leaves it when the answer has been recorded.                   *)
(***************************************************************************)
\* Mutant: every create has a key of its own.
FreshKey(k) == k \in unused /\ unused' = unused \ {k} /\ UNCHANGED savedKey

\* pendingCreateKey
PendingCreateKey(k) ==
  IF savedKey # None THEN k = savedKey /\ UNCHANGED <<savedKey, unused>>
  ELSE k \in unused /\ savedKey' = k /\ unused' = unused \ {k}

\* The collection has no album, or the server says it is gone.
Publish(k) ==
  /\ cpc = "idle" /\ (remote = None \/ remote \notin Existing)
  /\ PendingCreateKey(k)
  /\ got' = k /\ cpc' = "send"
  /\ UNCHANGED <<tree, req, left, kind, remote, sent, notes>>

\* The parent is the set's folder as the plug-in knows it, perhaps repaired.
SendCreate(r) ==
  /\ cpc = "send" /\ Free(r)
  /\ \E f \in Folders \cup {Root} :
        Begin(r, [Idle EXCEPT !.pc = "lookup", !.op = "create", !.to = f, !.key = got])
  /\ sent' = r /\ cpc' = "wait"
  /\ UNCHANGED <<tree, kind, savedKey, unused, remote, got, notes>>

\* An error, or no answer in time: sendWithRetry sends the same body again,
\* while the first request may still be running.
Retry ==
  /\ cpc = "wait"
  /\ cpc' = "send" /\ sent' = None
  /\ UNCHANGED <<tree, req, left, kind, savedKey, unused, remote, got, notes>>

\* Mutant: the key is forgotten before the answer is recorded.
ForgetFirst ==
  /\ cpc = "wait" /\ req[sent].pc = "done" /\ req[sent].id # None
  /\ got' = req[sent].id /\ cpc' = "record" /\ sent' = None /\ savedKey' = None
  /\ UNCHANGED <<tree, req, left, kind, unused, remote, notes>>

Answered ==
  /\ cpc = "wait" /\ req[sent].pc = "done" /\ req[sent].id # None
  /\ got' = req[sent].id /\ cpc' = "record" /\ sent' = None
  /\ UNCHANGED <<tree, req, left, kind, savedKey, unused, remote, notes>>

RecordRemoteId ==
  /\ cpc = "record"
  /\ remote' = got /\ cpc' = "clear" /\ got' = None
  /\ UNCHANGED <<tree, req, left, kind, savedKey, unused, sent, notes>>

ClearPendingCreateKey ==
  /\ cpc = "clear"
  /\ savedKey' = None /\ cpc' = "idle"
  /\ UNCHANGED <<tree, req, left, kind, unused, remote, sent, got, notes>>

\* The user cancels, the retries are used up, or Lightroom is closed.
Quit ==
  /\ cpc # "idle"
  /\ cpc' = "idle" /\ sent' = None /\ got' = None
  /\ UNCHANGED <<tree, req, left, kind, savedKey, unused, remote, notes>>

-----------------------------------------------------------------------------
Create(r) == LookupKey(r) \/ Insert(r) \/ WhichIndex(r) \/ Reread(r)
Move(r)   == StartUpdate(r) \/ CheckChain(r) \/ Update(r)
Delete(r) == StartDelete(r) \/ ListAlbums(r) \/ Drop(r) \/ EraseAlbum(r) \/ EndDelete(r)

Next == \/ \E r \in Creators : SendCreate(r) \/ Create(r) \/ ResolveParent(r)
        \/ \E r \in Movers : Move(r) \/ ResolveParent(r)
        \/ \E r \in Deleters : Delete(r)
        \/ \E k \in Keys : Publish(k)
        \/ Retry \/ Answered \/ RecordRemoteId \/ ClearPendingCreateKey \/ Quit
        \/ PublishPhotos \/ Crash

Spec == Init /\ [][Next]_vars

-----------------------------------------------------------------------------
(***************************************************************************)
(* Properties.                                                             *)
(***************************************************************************)

\* The types of the variables.
TypeOK ==
  /\ Existing \subseteq Nodes /\ rows \in [Existing -> Row]
  /\ files \subseteq AlbumIds /\ fresh \subseteq Nodes
  /\ req \in [Requests -> Call]
  /\ left \in [Requests -> Nat]
  /\ kind \in {FolderIds, AlbumIds}
  /\ cpc \in {"idle", "send", "wait", "record", "clear"}
  /\ savedKey \in Keys \cup {None} /\ unused \subseteq Keys
  /\ remote \in Nodes \cup {None} /\ sent \in Creators \cup {None}
  /\ got \in Keys \cup Nodes \cup {None}
  /\ escaped \subseteq AlbumIds /\ entered \subseteq AlbumIds /\ forGc \subseteq AlbumIds
  /\ late \in BOOLEAN /\ faults \in 0..MaxFaults

\* Whoever creates, moves and deletes, no folder ends up beneath itself ("cannot
\* move a folder into its own subtree"): holds while updates come one at a
\* time; two that overlap can each pass the check and close a cycle.
NoFolderInItself == \A f \in Folders : ~OnCycle(f)

\* Every parent exists: a folder deleted between a check and the write that
\* relies on it leaves no node behind that nobody can reach or delete.
Reachable == \A n \in Existing : rows[n].parent \in Folders \cup {Root}

\* An album that keeps its row keeps its files, except where it left the
\* subtree after deleteFolder had listed it.
RowsKeepFiles ==
  [][\A a \in files \ files' : a \in DOMAIN rows' => a \in escaped]_vars

\* Files without a row are about to be removed by the deletion that took the
\* row, or left to gc: by a crash or a failed removal, or because the album
\* came into the folder after deleteFolder had listed it.
FilesHaveAnOwner ==
  \A a \in files \ Existing :
     a \in forGc \cup entered \/ \E r \in Deleters : req[r].pc = "erase" /\ a \in req[r].list

\* A create that is retried with the same key answers with the same node, unless
\* the first was deleted in between: also when both run at once, meet a taken
\* slug, or lose their answers.
SameKeySameNode ==
  \A r, s \in Creators :
     /\ req[r].pc = "done" /\ req[s].pc = "done"
     /\ req[r].key = req[s].key /\ {req[r].id, req[s].id} \subseteq Existing
     => req[r].id = req[s].id

\* Publishing a collection makes one album, however often it is retried, even
\* after Lightroom was closed in between: the server never has two, except
\* where a create outlived the deletion of the album of its key.
Made == {n \in Existing : rows[n].key # None}

OneNodePerCollection == late \/ Cardinality(Made) <= 1

\* The node the collection records is the one that was made for it: recorded
\* while another exists, it would never be updated or deleted from Lightroom.
RecordedIsMade ==
  ~late /\ remote \in Existing => Made = {remote}
=============================================================================
