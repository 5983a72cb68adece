--------------------------- MODULE CatalogProofs ----------------------------
(***************************************************************************)
(* Proofs about Catalog, for any tree, any number of requests, keys and    *)
(* faults.                                                                 *)
(*                                                                         *)
(* Three arguments stand side by side.  The foreign keys keep every parent *)
(* in place.  A deletion and the albums that come into its subtree, or     *)
(* leave it, between its listing and its statement are followed until the  *)
(* files are removed.  And a create key belongs to one node at a time: a   *)
(* request that still carries it is the plug-in's present attempt, or      *)
(* meets the node that was made with it.                                   *)
(***************************************************************************)
EXTENDS Catalog, FiniteSetTheorems, TLAPS

\* What a request carries, by what it does.
Fits(r) ==
  LET q == req[r]
  IN  /\ q.pc \in {"idle", "done"} => q.op = None
      /\ q.pc \in {"lookup", "insert", "which", "reread"} => q.op = "create"
      /\ q.pc = "parent" => q.op \in {"create", "move"}
      /\ q.pc \in {"chain", "write"} => q.op = "move"
      /\ q.pc \in {"list", "drop", "erase"} => q.op = "delete"
      /\ q.op = "create" => r \in Creators /\ q.key \in Keys /\ q.to # None
      /\ q.op = "move" => r \in Movers /\ q.id # None /\ q.to # None
      /\ q.op = "delete" => r \in Deleters /\ q.id # None
      /\ q.op \in {"move", "delete"} => q.key = None
      /\ q.op = None => (q.key = None <=> q.id = None)

RequestsFit == \A r \in Requests : Fits(r)

\* Ids that were not drawn yet are nowhere.
FreshIsUnused ==
  /\ Existing \cap fresh = {}
  /\ remote \notin fresh
  /\ cpc = "record" => got \notin fresh
  /\ \A r \in Requests : /\ req[r].id \notin fresh /\ req[r].to \notin fresh
                         /\ req[r].list \cap fresh = {}

Shapes == TypeOK /\ RequestsFit /\ FreshIsUnused /\ Reachable

\* The albums of a subtree to be deleted are on the deletion's list or came in
\* since; those on the list are still in it, or have left.
DeletionKnows ==
  \A d \in Deleters :
    /\ req[d].pc = "drop" =>
         /\ Below(req[d].id) \cap AlbumIds \subseteq req[d].list \cup entered
         /\ req[d].list \cap Existing \subseteq Below(req[d].id) \cup escaped
    /\ req[d].pc = "erase" => req[d].list \cap Existing \subseteq escaped

Subtrees == DeletionKnows /\ FilesHaveAnOwner

\* A key names one node, of the kind that is created; keys not minted yet name
\* nothing.
KeyIsUnique ==
  /\ \A n \in Made : n \in kind
  /\ \A n, m \in Made : rows[n].key = rows[m].key => n = m
  /\ \A n \in Made : rows[n].key \notin unused
  /\ savedKey \notin unused /\ (cpc \in {"send", "wait"} => got \notin unused)
  /\ \A r \in Requests : req[r].key \notin unused

\* An answer names the node of the request's key, as long as it exists.
AnswerIsKeyed ==
  \A r \in Requests : req[r].pc = "done" /\ req[r].id \in Existing =>
                         rows[req[r].id].key = req[r].key

\* What the plug-in holds at each point.
ClientFits ==
  /\ cpc \in {"send", "wait"} => got = savedKey
  /\ cpc # "idle" => savedKey \in Keys
  /\ cpc = "wait" => sent \in Creators /\ req[sent].key \in {savedKey, None}
  /\ cpc = "record" => got \in Nodes /\ (got \in Existing => rows[got].key = savedKey)
  /\ cpc = "clear" => remote \in Nodes
  /\ remote \in Existing => remote \in Made

Creating(r, k) == req[r].op = "create" /\ req[r].key = k

\* The node an answer names is there, or its key has come to an end.
Settled(x) ==
  \/ x \in Existing
  \/ /\ \A n \in Existing : rows[n].key # savedKey
     /\ \A r \in Creators : ~Creating(r, savedKey)

\* While no create has outlived the node of its key, every create still going on
\* carries the key of the present attempt or that of a node which exists, and
\* every node that was made is that of the present attempt or the recorded one.
OneKeyAtATime ==
  /\ \A r \in Creators, k \in Keys :
       Creating(r, k) => k = savedKey \/ \E n \in Existing : rows[n].key = k
  /\ \A n \in Made : rows[n].key = savedKey \/ n = remote
  /\ savedKey # None /\ remote \in Existing => rows[remote].key = savedKey
  /\ cpc = "wait" /\ req[sent].pc = "done" /\ req[sent].id # None => Settled(req[sent].id)
  /\ cpc = "record" => Settled(got)
  /\ cpc = "clear" => Settled(remote)

KeysInv == KeyIsUnique /\ AnswerIsKeyed /\ ClientFits /\ (late \/ OneKeyAtATime)

IInv == Shapes /\ Subtrees /\ KeysInv

\* A folder a request is about to move is not above its new parent.  Only with
\* one mover does that stay true until the statement.
MoveIsChecked ==
  \A r \in Movers : req[r].pc = "write" => req[r].id \notin Chain(req[r].to)

Order == NoFolderInItself /\ MoveIsChecked

-----------------------------------------------------------------------------
(***************************************************************************)
(* Type correctness.                                                       *)
(***************************************************************************)

\* The calls a request passes through.
Pcs == {"idle", "lookup", "parent", "insert", "which", "reread",
        "chain", "write", "list", "drop", "erase", "done"}

\* What the steps make of a call is a call.
LEMMA CallType ==
  /\ Idle \in Call /\ Done \in Call
  /\ \A q \in Call, pc \in Pcs : [q EXCEPT !.pc = pc] \in Call
  /\ \A q \in Call, n \in Nodes \cup {None} : [Done EXCEPT !.id = n, !.key = q.key] \in Call
  /\ \A q \in Call, l \in SUBSET AlbumIds :
        [q EXCEPT !.pc = "drop", !.list = l] \in Call /\ [q EXCEPT !.list = l] \in Call
  /\ \A q \in Call : q.tries < SlugRetries =>
        [q EXCEPT !.pc = "insert", !.tries = @ + 1] \in Call
  /\ \A n \in Nodes, f \in FolderIds \cup {Root} :
        /\ [Idle EXCEPT !.pc = "write", !.op = "move", !.id = n, !.to = f] \in Call
        /\ [Idle EXCEPT !.pc = "parent", !.op = "move", !.id = n, !.to = f] \in Call
  /\ \A f \in FolderIds \cup {Root}, k \in Keys :
        [Idle EXCEPT !.pc = "lookup", !.op = "create", !.to = f, !.key = k] \in Call
  /\ \A n \in Nodes, pc \in Pcs, l \in SUBSET AlbumIds :
        [Idle EXCEPT !.op = "delete", !.id = n, !.pc = pc, !.list = l] \in Call
<1> USE CatalogConstants DEF Call, Pcs
<1>1. Idle \in Call /\ Done \in Call
  BY DEF Idle, Done
<1>2. ASSUME NEW q \in Call, NEW pc \in Pcs PROVE [q EXCEPT !.pc = pc] \in Call
  OBVIOUS
<1>3. ASSUME NEW n \in Nodes \cup {None}, NEW k \in Keys \cup {None}
      PROVE  [Done EXCEPT !.id = n, !.key = k] \in Call
  <2>1. ASSUME NEW q \in Call PROVE [q EXCEPT !.id = n, !.key = k] \in Call
    OBVIOUS
  <2>2. QED
    BY <1>1, <2>1
<1>4. ASSUME NEW q \in Call, NEW l \in SUBSET AlbumIds
      PROVE  [q EXCEPT !.pc = "drop", !.list = l] \in Call
  OBVIOUS
<1>5. ASSUME NEW q \in Call, NEW l \in SUBSET AlbumIds
      PROVE  [q EXCEPT !.list = l] \in Call
  OBVIOUS
<1>6. ASSUME NEW q \in Call, q.tries < SlugRetries
      PROVE  [q EXCEPT !.pc = "insert", !.tries = @ + 1] \in Call
  <2>1. q.tries + 1 \in 0..SlugRetries
    BY <1>6
  <2>2. ASSUME NEW t \in 0..SlugRetries PROVE [q EXCEPT !.pc = "insert", !.tries = t] \in Call
    OBVIOUS
  <2>3. QED
    BY <2>1, <2>2
<1>7. ASSUME NEW n \in Nodes, NEW f \in FolderIds \cup {Root}
      PROVE  [Idle EXCEPT !.pc = "write", !.op = "move", !.id = n, !.to = f] \in Call
  <2>1. ASSUME NEW q \in Call PROVE [q EXCEPT !.pc = "write", !.op = "move", !.id = n, !.to = f] \in Call
    OBVIOUS
  <2>2. QED
    BY <1>1, <2>1
<1>8. ASSUME NEW n \in Nodes, NEW f \in FolderIds \cup {Root}
      PROVE  [Idle EXCEPT !.pc = "parent", !.op = "move", !.id = n, !.to = f] \in Call
  <2>1. ASSUME NEW q \in Call PROVE [q EXCEPT !.pc = "parent", !.op = "move", !.id = n, !.to = f] \in Call
    OBVIOUS
  <2>2. QED
    BY <1>1, <2>1
<1>9. ASSUME NEW f \in FolderIds \cup {Root}, NEW k \in Keys
      PROVE  [Idle EXCEPT !.pc = "lookup", !.op = "create", !.to = f, !.key = k] \in Call
  <2>1. ASSUME NEW q \in Call PROVE [q EXCEPT !.pc = "lookup", !.op = "create", !.to = f, !.key = k] \in Call
    OBVIOUS
  <2>2. QED
    BY <1>1, <2>1
<1>10. ASSUME NEW n \in Nodes, NEW pc \in Pcs, NEW l \in SUBSET AlbumIds
       PROVE  [Idle EXCEPT !.op = "delete", !.id = n, !.pc = pc, !.list = l] \in Call
  <2>1. ASSUME NEW q \in Call PROVE [q EXCEPT !.op = "delete", !.id = n, !.pc = pc, !.list = l] \in Call
    OBVIOUS
  <2>2. QED
    BY <1>1, <2>1
<1>11. \A q \in Call : q.key \in Keys \cup {None}
  OBVIOUS
<1> HIDE DEF Call, Pcs
<1>12. QED
  BY <1>1, <1>2, <1>3, <1>4, <1>5, <1>6, <1>7, <1>8, <1>9, <1>10, <1>11

\* A request goes from one call to the next.
Turns(r) == \E q \in Call : Becomes(r, q)

\* A request that goes on keeps its type.
LEMMA TurnType ==
  ASSUME TypeOK, NEW r \in Requests, Turns(r)
  PROVE  req' \in [Requests -> Call] /\ left' = left
BY DEF TypeOK, Turns, Becomes

\* Each way a call goes on is one.
LEMMA TurnOf ==
  ASSUME TypeOK, NEW r \in Requests
  PROVE  /\ \A pc \in Pcs : Goto(r, pc) => Turns(r)
         /\ \A n \in Nodes \cup {None} : Answer(r, n) => Turns(r)
         /\ End(r) => Turns(r)
         /\ Refuse(r) => Turns(r)
<1>1. req[r] \in Call
  BY DEF TypeOK
<1>2. QED
  BY <1>1, CallType, CatalogConstants DEF Turns, Goto, Answer, End, Refuse

\* A request that begins a call keeps its type.
LEMMA BeginType ==
  ASSUME TypeOK, NEW r \in Requests, Free(r), NEW q \in Call, Begin(r, q)
  PROVE  req' \in [Requests -> Call] /\ left' \in [Requests -> Nat]
<1>1. left[r] - 1 \in Nat
  BY DEF Free, TypeOK
<1>2. QED
  BY <1>1 DEF Begin, TypeOK

\* The creates.
LEMMA CreateType ==
  ASSUME TypeOK, RequestsFit, NEW r \in Requests, Create(r) \/ ResolveParent(r)
  PROVE  TypeOK'
<1>1. CASE LookupKey(r)
  <2>1. Turns(r)
    BY <1>1, TurnOf DEF LookupKey, ByKey, Pcs, TypeOK
  <2>2. QED
    BY <1>1, <2>1, TurnType DEF LookupKey, TypeOK, Existing, tree, client, notes
<1>2. CASE ResolveParent(r)
  <2>1. Turns(r)
    BY <1>2, TurnOf DEF ResolveParent, Pcs
  <2>2. QED
    BY <1>2, <2>1, TurnType DEF ResolveParent, TypeOK, Existing, tree, client, notes
<1>3. CASE Insert(r)
  <2>1. (UNCHANGED tree /\ Turns(r)) \/ \E n \in fresh \cap kind :
          /\ rows' = [m \in Existing \cup {n} |->
                        IF m = n THEN [parent |-> req[r].to, key |-> req[r].key] ELSE rows[m]]
          /\ fresh' = fresh \ {n} /\ files' = files
          /\ IsParent(req[r].to)
          /\ Turns(r)
    <3>1. NewId \in fresh \cap kind \/ fresh \cap kind = {}
      BY DEF NewId
    <3>2. fresh \subseteq Nodes
      BY DEF TypeOK
    <3>3. QED
      BY <1>3, <3>1, <3>2, TurnOf DEF Insert, Pcs
  <2>2. rows' \in [Existing' -> Row] /\ Existing' \subseteq Nodes
    <3>1. CASE UNCHANGED tree
      BY <3>1 DEF TypeOK, tree, Existing
    <3>2. ASSUME NEW n \in fresh, IsParent(req[r].to),
                 rows' = [m \in Existing \cup {n} |->
                           IF m = n THEN [parent |-> req[r].to, key |-> req[r].key] ELSE rows[m]]
          PROVE  rows' \in [Existing' -> Row] /\ Existing' \subseteq Nodes
      <4>1. [parent |-> req[r].to, key |-> req[r].key] \in Row
        BY <3>2 DEF TypeOK, Call, Row, IsParent, Folders
      <4>2. Existing' = Existing \cup {n} /\ n \in Nodes
        BY <3>2 DEF Existing, TypeOK
      <4>3. QED
        BY <3>2, <4>1, <4>2 DEF TypeOK
    <3>3. QED
      BY <2>1, <3>1, <3>2
  <2>3. files' \subseteq AlbumIds /\ fresh' \subseteq Nodes
    BY <2>1 DEF TypeOK, tree
  <2>4. req' \in [Requests -> Call] /\ left' = left
    BY <2>1, TurnType
  <2>5. entered' \subseteq AlbumIds
    BY <1>3 DEF Insert, Entering, Inside, TypeOK
  <2>6. QED
    BY <1>3, <2>2, <2>3, <2>4, <2>5 DEF Insert, TypeOK, client
<1>4. CASE WhichIndex(r)
  <2>1. Turns(r)
    <3>1. req[r] \in Call
      BY DEF TypeOK
    <3>2. CASE TriesLeft(r) /\ Becomes(r, [req[r] EXCEPT !.pc = "insert", !.tries = @ + 1])
      BY <3>1, <3>2, CallType, CatalogConstants DEF TriesLeft, Turns
    <3>3. QED
      BY <1>4, <3>2, TurnOf DEF WhichIndex, Pcs
  <2>2. QED
    BY <1>4, <2>1, TurnType DEF WhichIndex, TypeOK, Existing, tree, client, notes
<1>5. CASE Reread(r)
  <2>1. Turns(r)
    BY <1>5, TurnOf DEF Reread, ByKey, TypeOK
  <2>2. QED
    BY <1>5, <2>1, TurnType DEF Reread, TypeOK, Existing, tree, client, notes
<1>6. QED
  BY <1>1, <1>2, <1>3, <1>4, <1>5 DEF Create

\* The updates.
LEMMA MoveType ==
  ASSUME TypeOK, RequestsFit, NEW r \in Movers, Move(r)
  PROVE  TypeOK'
<1> r \in Requests
  BY DEF Requests
<1>1. CASE StartUpdate(r)
  <2>1. PICK q \in Call : Begin(r, q)
    <3>1. PICK n \in Existing :
            \/ Begin(r, [Idle EXCEPT !.pc = "write", !.op = "move", !.id = n, !.to = rows[n].parent])
            \/ \E f \in (Folders \cup {Root}) \ {n} :
                  Begin(r, [Idle EXCEPT !.pc = "parent", !.op = "move", !.id = n, !.to = f])
      BY <1>1 DEF StartUpdate
    <3>2. n \in Nodes /\ rows[n].parent \in FolderIds \cup {Root}
      BY DEF TypeOK, Row
    <3>3. QED
      BY <3>1, <3>2, CallType DEF Folders
  <2>2. req' \in [Requests -> Call] /\ left' \in [Requests -> Nat]
    BY <1>1, <2>1, BeginType DEF StartUpdate
  <2>3. QED
    BY <1>1, <2>2 DEF StartUpdate, TypeOK, Existing, tree, client, notes
<1>2. CASE CheckChain(r)
  <2>1. Turns(r)
    BY <1>2, TurnOf DEF CheckChain, Pcs
  <2>2. QED
    BY <1>2, <2>1, TurnType DEF CheckChain, TypeOK, Existing, tree, client, notes
<1>3. CASE Update(r)
  <2>1. rows' \in [Existing' -> Row] /\ Existing' = Existing
    BY <1>3 DEF Update, Row, IsParent, Existing, Folders, TypeOK
  <2>2. escaped' \subseteq AlbumIds /\ entered' \subseteq AlbumIds
    BY <1>3 DEF Update, Escaping, Entering, Inside, TypeOK
  <2>3. req' \in [Requests -> Call] /\ left' = left
    BY <1>3, TurnOf, TurnType DEF Update
  <2>4. QED
    BY <1>3, <2>1, <2>2, <2>3 DEF Update, TypeOK, client
<1>4. QED
  BY <1>1, <1>2, <1>3 DEF Move

\* The deletions.
LEMMA DeleteType ==
  ASSUME TypeOK, RequestsFit, NEW r \in Deleters, Delete(r)
  PROVE  TypeOK'
<1> r \in Requests
  BY DEF Requests
<1>1. CASE StartDelete(r)
  <2>1. PICK q \in Call : Begin(r, q)
    <3>1. PICK n \in Existing :
            Begin(r, [Idle EXCEPT !.op = "delete", !.id = n,
                        !.pc = IF n \in FolderIds THEN "list" ELSE "drop",
                        !.list = IF n \in FolderIds THEN {} ELSE {n}])
      BY <1>1 DEF StartDelete
    <3> DEFINE pc == IF n \in FolderIds THEN "list" ELSE "drop"
               l  == IF n \in FolderIds THEN {} ELSE {n}
    <3>2. n \in Nodes /\ pc \in Pcs /\ l \in SUBSET AlbumIds
      BY <3>1 DEF TypeOK, Nodes, Pcs
    <3>3. Begin(r, [Idle EXCEPT !.op = "delete", !.id = n, !.pc = pc, !.list = l])
      BY <3>1
    <3> HIDE DEF pc, l
    <3>4. QED
      BY <3>2, <3>3, CallType
  <2>2. req' \in [Requests -> Call] /\ left' \in [Requests -> Nat]
    BY <1>1, <2>1, BeginType DEF StartDelete
  <2>3. QED
    BY <1>1, <2>2 DEF StartDelete, TypeOK, Existing, tree, client, notes
<1>2. CASE ListAlbums(r)
  <2>1. Turns(r)
    <3>1. req[r] \in Call /\ SubtreeAlbumIDs(req[r].id) \in SUBSET AlbumIds
      BY DEF TypeOK, SubtreeAlbumIDs
    <3>2. QED
      BY <1>2, <3>1, TurnOf, CallType, CatalogConstants DEF ListAlbums, Turns, Pcs
  <2>2. QED
    BY <1>2, <2>1, TurnType DEF ListAlbums, TypeOK, Existing, tree, client, notes
<1>3. CASE Drop(r)
  <2>1. req' \in [Requests -> Call] /\ left' = left
    BY <1>3, TurnOf, TurnType DEF Drop, Pcs
  <2>2. rows' \in [Existing' -> Row] /\ Existing' \subseteq Nodes
    BY <1>3 DEF Drop, TypeOK, Existing
  <2>3. QED
    BY <1>3, <2>1, <2>2 DEF Drop, TypeOK, client
<1>4. CASE EraseAlbum(r)
  <2>1. Turns(r)
    <3>1. req[r] \in Call /\ \A a : req[r].list \ {a} \in SUBSET AlbumIds
      BY DEF TypeOK, Call
    <3>2. QED
      BY <1>4, <3>1, CallType, CatalogConstants DEF EraseAlbum, Turns
  <2>2. /\ files' \subseteq AlbumIds /\ forGc' \subseteq AlbumIds
        /\ faults' \in 0..MaxFaults
    BY <1>4, CatalogConstants DEF EraseAlbum, TypeOK, Call, CatalogConstants
  <2>3. QED
    BY <1>4, <2>1, <2>2, TurnType DEF EraseAlbum, TypeOK, Existing, client
<1>5. CASE EndDelete(r)
  BY <1>5, TurnOf, TurnType DEF EndDelete, TypeOK, Existing, tree, client, notes
<1>6. QED
  BY <1>1, <1>2, <1>3, <1>4, <1>5 DEF Delete

\* The plug-in's steps.
PluginStep == \/ \E k \in Keys : Publish(k)
              \/ Retry \/ Answered \/ RecordRemoteId \/ ClearPendingCreateKey \/ Quit

\* None of them changes a type.
LEMMA PluginType ==
  ASSUME TypeOK, ClientFits, PluginStep
  PROVE  TypeOK'
<1> USE DEF TypeOK, Existing, tree, notes
<1>1. CASE \E k \in Keys : Publish(k)
  BY <1>1 DEF Publish, PendingCreateKey
<1>2. CASE Retry
  BY <1>2 DEF Retry
<1>3. CASE Answered
  <2>1. got' \in Nodes
    BY <1>3 DEF Answered, Call, Requests, ClientFits
  <2>2. QED
    BY <1>3, <2>1 DEF Answered
<1>4. CASE RecordRemoteId
  BY <1>4 DEF RecordRemoteId, ClientFits
<1>5. CASE ClearPendingCreateKey \/ Quit
  BY <1>5 DEF ClearPendingCreateKey, Quit
<1>6. QED
  BY <1>1, <1>2, <1>3, <1>4, <1>5 DEF PluginStep

\* Nor does sending a create.
LEMMA SendType ==
  ASSUME TypeOK, ClientFits, NEW r \in Creators, SendCreate(r)
  PROVE  TypeOK'
<1> r \in Requests
  BY DEF Requests
<1>1. PICK q \in Call : Begin(r, q)
  BY CallType DEF SendCreate, Folders, ClientFits
<1>2. req' \in [Requests -> Call] /\ left' \in [Requests -> Nat]
  BY <1>1, BeginType DEF SendCreate
<1>3. QED
  BY <1>2 DEF SendCreate, TypeOK, Existing, tree, notes

\* Every step.
LEMMA TypeStep ==
  ASSUME TypeOK, RequestsFit, ClientFits, [Next]_vars
  PROVE  TypeOK'
<1>1. CASE PublishPhotos
  BY <1>1 DEF PublishPhotos, TypeOK, Existing, client, notes
<1>2. CASE Crash
  <2>1. req' \in [Requests -> Call]
    BY <1>2, CallType DEF Crash, TypeOK
  <2>2. forGc' \subseteq AlbumIds /\ faults' \in 0..MaxFaults
    BY <1>2, CatalogConstants DEF Crash, TypeOK, Call
  <2>3. QED
    BY <1>2, <2>1, <2>2 DEF Crash, TypeOK, Existing, tree, client
<1>3. CASE UNCHANGED vars
  BY <1>3 DEF vars, TypeOK, Existing, tree, client, notes
<1>4. QED
  BY <1>1, <1>2, <1>3, CreateType, MoveType, DeleteType, PluginType, SendType
     DEF Next, PluginStep, Requests

-----------------------------------------------------------------------------
(***************************************************************************)
(* Chains: a node, its parent and so on.                                   *)
(***************************************************************************)

\* A node that exists is on its own chain.
LEMMA OnOwnChain ==
  ASSUME NEW n \in Existing
  PROVE  n \in Chain(n)
BY DEF Chain

\* A chain goes on with the parent.
LEMMA ChainIsClosed ==
  ASSUME NEW n
  PROVE  Closed(Chain(n)) /\ Chain(n) \subseteq Existing
BY DEF Chain, Closed

\* A chain is the least closed set with its beginning.
LEMMA ChainIsLeast ==
  ASSUME NEW n, NEW S \in SUBSET Existing, Closed(S), {n} \cap Existing \subseteq S
  PROVE  Chain(n) \subseteq S
BY DEF Chain

\* Whoever is on a chain has his own chain on it.
LEMMA ChainOnChain ==
  ASSUME NEW n, NEW m \in Chain(n)
  PROVE  Chain(m) \subseteq Chain(n)
BY ChainIsClosed, ChainIsLeast

\* A node's chain is the node and the chain of its parent.
LEMMA ChainOfParent ==
  ASSUME NEW n \in Existing
  PROVE  Chain(n) = {n} \cup Chain(rows[n].parent)
<1> DEFINE p == rows[n].parent
<1>1. n \in Chain(n)
  BY OnOwnChain
<1>2. Chain(p) \subseteq Chain(n)
  <2>1. {p} \cap Existing \subseteq Chain(n)
    BY <1>1, ChainIsClosed DEF Closed
  <2>2. QED
    BY <2>1, ChainIsClosed, ChainIsLeast
<1>3. Chain(n) \subseteq {n} \cup Chain(p)
  <2>1. Closed({n} \cup Chain(p))
    <3>1. p \in Existing => p \in Chain(p)
      BY OnOwnChain
    <3>2. QED
      BY <3>1, ChainIsClosed DEF Closed
  <2>2. {n} \cup Chain(p) \in SUBSET Existing
    BY ChainIsClosed
  <2>3. QED
    BY <2>1, <2>2, ChainIsLeast
<1>4. QED
  BY <1>1, <1>2, <1>3

-----------------------------------------------------------------------------
(***************************************************************************)
(* What a step may do to a request and to the tree.                        *)
(***************************************************************************)

\* The next part of the same call.
Proceeds(r) ==
  LET q == req[r]
      s == req'[r]
  IN  /\ q.op # None /\ s.op = q.op /\ s.id = q.id /\ s.to = q.to /\ s.key = q.key
      /\ s.list \subseteq q.list \cup Existing
      /\ q.op = "create" => s.pc \in {"parent", "insert", "which", "reread"}
      /\ q.op = "move" => s.pc \in {"chain", "write"}
      /\ q.op = "delete" => s.pc \in {"drop", "erase"}

\* An answer names a node with the key, found or just inserted.
AnswerOf(n, k) == [Done EXCEPT !.id = n, !.key = k]

Answers(r) ==
  /\ req[r].op = "create"
  /\ \E n \in Existing' \cap kind : /\ req'[r] = AnswerOf(n, req[r].key)
                                  /\ rows'[n].key = req[r].key

Starts(r) ==
  LET s == req'[r]
  IN  /\ UNCHANGED <<tree, notes>>
      /\ s.list \subseteq Existing
      /\ \/ /\ SendCreate(r) /\ r \in Creators /\ s.op = "create" /\ s.pc = "lookup" /\ s.id = None
            /\ s.to \in Folders \cup {Root} /\ s.key = got
         \/ /\ r \in Movers /\ s.op = "move" /\ s.pc \in {"parent", "write"} /\ s.id \in Existing
            /\ s.to \in Folders \cup {Root} /\ s.key = None
         \/ /\ r \in Deleters /\ s.op = "delete" /\ s.pc \in {"list", "drop"} /\ s.id \in Existing
            /\ s.to = None /\ s.key = None

ReqStep(r) ==
  req'[r] = req[r] \/ req'[r] = Done \/ Proceeds(r) \/ Answers(r) \/ Starts(r)

\* The steps of the creates, the updates and the deletions.
LEMMA CreateSteps ==
  ASSUME TypeOK, RequestsFit, Reachable, NEW r \in Requests, Create(r) \/ ResolveParent(r)
  PROVE  ReqStep(r) /\ \A s \in Requests \ {r} : req'[s] = req[s]
<1>1. req \in [Requests -> Call] /\ Fits(r) /\ Existing \subseteq Nodes
  BY DEF TypeOK, RequestsFit
<1>2. CASE LookupKey(r)
  <2>1. CASE Goto(r, "parent")
    BY <1>1, <1>2, <2>1, CatalogConstants DEF LookupKey, Goto, Becomes, ReqStep, Proceeds, Fits, Call
  <2>2. ASSUME NEW n \in ByKey(req[r].key), Answer(r, n), UNCHANGED rows PROVE Answers(r)
    BY <1>1, <1>2, <2>2 DEF LookupKey, Answer, Becomes, Answers, AnswerOf, Fits, ByKey, Existing
  <2>3. QED
    BY <1>1, <1>2, <2>1, <2>2 DEF LookupKey, Answer, Goto, Becomes, ReqStep, tree
<1>3. CASE ResolveParent(r)
  BY <1>1, <1>3, CatalogConstants DEF ResolveParent, Refuse, End, Goto, Becomes, ReqStep, Proceeds, Fits, Call
<1>4. CASE Insert(r)
  <2>1. CASE Goto(r, "which")
    BY <1>1, <1>4, <2>1, CatalogConstants DEF Insert, Goto, Becomes, ReqStep, Proceeds, Fits, Call
  <2>2. CASE Refuse(r)
    BY <1>1, <2>2 DEF Refuse, End, Becomes, ReqStep
  <2>3. ASSUME NEW n \in fresh \cap kind, Answer(r, n),
               rows' = [m \in Existing \cup {n} |->
                          IF m = n THEN [parent |-> req[r].to, key |-> req[r].key] ELSE rows[m]]
        PROVE  Answers(r)
    BY <1>1, <1>4, <2>3 DEF Insert, Answer, Becomes, Answers, AnswerOf, Fits, Existing
  <2>4. NewId \in fresh \cap kind \/ fresh \cap kind = {}
    BY DEF NewId
  <2>5. QED
    BY <1>1, <1>4, <2>1, <2>2, <2>3, <2>4 DEF Insert, Answer, Goto, Refuse, End, Becomes, ReqStep
<1>5. CASE WhichIndex(r)
  <2>1. CASE Goto(r, "reread")
    BY <1>1, <1>5, <2>1, CatalogConstants DEF WhichIndex, Goto, Becomes, ReqStep, Proceeds, Fits, Call
  <2>2. CASE Becomes(r, [req[r] EXCEPT !.pc = "insert", !.tries = @ + 1])
    <3> DEFINE t == req[r].tries + 1
    <3>1. req'[r] = [req[r] EXCEPT !.pc = "insert", !.tries = t]
      BY <1>1, <2>2 DEF Becomes
    <3> HIDE DEF t
    <3>2. req[r] \in Call /\ req[r].op = "create" /\ req[r].op # None
      BY <1>1, <1>5, CatalogConstants DEF WhichIndex, Fits
    <3>3. Proceeds(r)
      BY <3>1, <3>2 DEF Proceeds, Call
    <3>4. QED
      BY <1>1, <2>2, <3>3 DEF Becomes, ReqStep
  <2>3. CASE Refuse(r)
    BY <1>1, <2>3 DEF Refuse, End, Becomes, ReqStep
  <2>4. QED
    BY <1>5, <2>1, <2>2, <2>3 DEF WhichIndex
<1>6. CASE Reread(r)
  <2>1. CASE Refuse(r)
    BY <1>1, <2>1 DEF Refuse, End, Becomes, ReqStep
  <2>2. ASSUME NEW n \in ByKey(req[r].key), Answer(r, n), UNCHANGED rows PROVE Answers(r)
    BY <1>1, <1>6, <2>2 DEF Reread, Answer, Becomes, Answers, AnswerOf, Fits, ByKey, Existing
  <2>3. QED
    BY <1>1, <1>6, <2>1, <2>2 DEF Reread, Answer, Refuse, End, Becomes, ReqStep, tree
<1>7. QED
  BY <1>2, <1>3, <1>4, <1>5, <1>6 DEF Create

\* The updates.
LEMMA MoveSteps ==
  ASSUME TypeOK, RequestsFit, Reachable, NEW r \in Movers, Move(r)
  PROVE  ReqStep(r) /\ \A s \in Requests \ {r} : req'[s] = req[s]
<1>1. req \in [Requests -> Call] /\ Fits(r) /\ Existing \subseteq Nodes /\ r \in Requests
  BY DEF TypeOK, RequestsFit, Requests
<1>2. CASE StartUpdate(r)
  <2>1. PICK n \in Existing :
          \/ Begin(r, [Idle EXCEPT !.pc = "write", !.op = "move", !.id = n, !.to = rows[n].parent])
          \/ \E f \in (Folders \cup {Root}) \ {n} :
                Begin(r, [Idle EXCEPT !.pc = "parent", !.op = "move", !.id = n, !.to = f])
    BY <1>2 DEF StartUpdate
  <2>2. rows[n].parent \in Folders \cup {Root}
    BY DEF Reachable
  <2>3. Starts(r)
    <3>1. UNCHANGED <<tree, notes>>
      BY <1>2 DEF StartUpdate
    <3>2. CASE Begin(r, [Idle EXCEPT !.pc = "write", !.op = "move", !.id = n, !.to = rows[n].parent])
      BY <1>1, <2>2, <3>1, <3>2 DEF Begin, Starts, Idle
    <3>3. ASSUME NEW f \in Folders \cup {Root},
                 Begin(r, [Idle EXCEPT !.pc = "parent", !.op = "move", !.id = n, !.to = f])
          PROVE  Starts(r)
      BY <1>1, <3>1, <3>3 DEF Begin, Starts, Idle
    <3>4. QED
      BY <2>1, <3>2, <3>3
  <2>4. QED
    BY <1>1, <2>1, <2>3 DEF Begin, ReqStep
<1>3. CASE CheckChain(r)
  BY <1>1, <1>3, CatalogConstants DEF CheckChain, Refuse, End, Goto, Becomes, ReqStep, Proceeds, Fits, Call
<1>4. CASE Update(r)
  BY <1>1, <1>4 DEF Update, End, Becomes, ReqStep
<1>5. QED
  BY <1>2, <1>3, <1>4 DEF Move

\* The deletions.
LEMMA DeleteSteps ==
  ASSUME TypeOK, RequestsFit, NEW r \in Deleters, Delete(r)
  PROVE  ReqStep(r) /\ \A s \in Requests \ {r} : req'[s] = req[s]
<1>1. req \in [Requests -> Call] /\ Fits(r) /\ Existing \subseteq Nodes /\ r \in Requests
  BY DEF TypeOK, RequestsFit, Requests
<1>2. CASE StartDelete(r)
  <2>1. PICK n \in Existing :
          Begin(r, [Idle EXCEPT !.op = "delete", !.id = n,
                      !.pc = IF n \in FolderIds THEN "list" ELSE "drop",
                      !.list = IF n \in FolderIds THEN {} ELSE {n}])
    BY <1>2 DEF StartDelete
  <2>2. Starts(r)
    BY <1>1, <1>2, <2>1 DEF StartDelete, Begin, Starts, Idle
  <2>3. QED
    BY <1>1, <2>1, <2>2 DEF Begin, ReqStep
<1>3. CASE ListAlbums(r)
  <2>1. CASE Refuse(r)
    BY <1>1, <2>1 DEF Refuse, End, Becomes, ReqStep
  <2>2. ASSUME NEW l \in SUBSET Existing, Becomes(r, [req[r] EXCEPT !.pc = "drop", !.list = l])
        PROVE  Proceeds(r)
    BY <1>1, <1>3, <2>2, CatalogConstants DEF ListAlbums, Becomes, Proceeds, Fits, Call
  <2>3. SubtreeAlbumIDs(req[r].id) \in SUBSET Existing
    BY DEF SubtreeAlbumIDs, Below
  <2>4. QED
    BY <1>1, <1>3, <2>1, <2>2, <2>3 DEF ListAlbums, Refuse, End, Becomes, ReqStep
<1>4. CASE Drop(r)
  BY <1>1, <1>4, CatalogConstants DEF Drop, Goto, Becomes, ReqStep, Proceeds, Fits, Call
<1>5. CASE EraseAlbum(r)
  BY <1>1, <1>5, CatalogConstants DEF EraseAlbum, Becomes, ReqStep, Proceeds, Fits, Call
<1>6. CASE EndDelete(r)
  BY <1>1, <1>6 DEF EndDelete, End, Becomes, ReqStep
<1>7. QED
  BY <1>2, <1>3, <1>4, <1>5, <1>6 DEF Delete

\* Every step moves one request, or ends them all.
LEMMA ReqSteps ==
  ASSUME TypeOK, RequestsFit, Reachable, [Next]_vars
  PROVE  \A r \in Requests : ReqStep(r)
<1>1. CASE UNCHANGED req
  BY <1>1 DEF ReqStep
<1>2. CASE Crash
  BY <1>2 DEF Crash, ReqStep
<1>3. ASSUME NEW r \in Creators, SendCreate(r)
      PROVE  ReqStep(r) /\ \A s \in Requests \ {r} : req'[s] = req[s]
  <2>1. Starts(r)
    <3>1. PICK f \in Folders \cup {Root} :
            Begin(r, [Idle EXCEPT !.pc = "lookup", !.op = "create", !.to = f, !.key = got])
      BY <1>3 DEF SendCreate
    <3>2. req'[r] = [Idle EXCEPT !.pc = "lookup", !.op = "create", !.to = f, !.key = got]
      BY <3>1 DEF Begin, TypeOK, Requests
    <3>3. UNCHANGED <<tree, notes>>
      BY <1>3 DEF SendCreate
    <3>4. QED
      BY <1>3, <3>2, <3>3 DEF Starts, Idle
  <2>2. QED
    BY <1>3, <2>1 DEF SendCreate, Begin, ReqStep, TypeOK
<1>4. CASE PluginStep \/ PublishPhotos \/ UNCHANGED vars
  BY <1>1, <1>4 DEF PluginStep, Publish, Retry, Answered, RecordRemoteId, ClearPendingCreateKey, Quit,
     PublishPhotos, vars
<1>5. ASSUME NEW r \in Requests, NEW s \in Requests,
             ReqStep(r) /\ \A t \in Requests \ {r} : req'[t] = req[t]
      PROVE  ReqStep(s)
  BY <1>5 DEF ReqStep
<1>6. QED
  BY <1>2, <1>3, <1>4, <1>5, CreateSteps, MoveSteps, DeleteSteps DEF Next, PluginStep, Requests

\* The plug-in's variables change in the plug-in's steps only.
LEMMA ClientFrame ==
  ASSUME [Next]_vars
  PROVE  UNCHANGED client \/ PluginStep \/ \E r \in Creators : SendCreate(r)
BY DEF Next, PluginStep, Create, Move, Delete, LookupKey, ResolveParent, Insert, WhichIndex, Reread,
   StartUpdate, CheckChain, Update, PublishPhotos, StartDelete, ListAlbums, Drop, EraseAlbum,
   EndDelete, Crash, vars

\* The tree gains a leaf, has one parent changed or loses a subtree.
Adds(r, n) ==
  /\ req[r].pc = "insert" /\ n \in fresh \cap kind
  /\ KeyFree(req[r].key) /\ IsParent(req[r].to)
  /\ rows' = [m \in Existing \cup {n} |->
                IF m = n THEN [parent |-> req[r].to, key |-> req[r].key] ELSE rows[m]]
  /\ fresh' = fresh \ {n} /\ Answer(r, n)

\* The only steps that change the tables.
LEMMA TreeStep ==
  ASSUME TypeOK, [Next]_vars
  PROVE  \/ UNCHANGED <<rows, fresh>>
         \/ \E r \in Creators, n \in Nodes : Insert(r) /\ Adds(r, n)
         \/ \E r \in Movers : Update(r)
         \/ \E r \in Deleters : Drop(r)
<1>1. ASSUME NEW r \in Creators, Insert(r), ~UNCHANGED <<rows, fresh>> PROVE \E n \in Nodes : Insert(r) /\ Adds(r, n)
  <2>1. NewId \in fresh \cap kind \/ fresh \cap kind = {}
    BY DEF NewId
  <2>2. QED
    BY <1>1, <2>1 DEF Insert, Adds, tree, TypeOK
<1>2. QED
  BY <1>1 DEF Next, Create, Move, Delete, LookupKey, ResolveParent, WhichIndex, Reread, StartUpdate,
     CheckChain, PublishPhotos, StartDelete, ListAlbums, EraseAlbum, EndDelete, Crash, Publish,
     SendCreate, Retry, Answered, RecordRemoteId, ClearPendingCreateKey, Quit, vars, tree

-----------------------------------------------------------------------------
(***************************************************************************)
(* Requests, ids and parents.                                              *)
(***************************************************************************)

\* The sentinels are none of the values they stand beside.
LEMMA Sentinels ==
  /\ None \notin Nodes /\ None \notin Keys /\ Root \notin Nodes /\ Root # None
  /\ None # "create" /\ None # "move" /\ None # "delete"
BY CatalogConstants

\* The fields of a call that is over.
LEMMA DoneFields ==
  /\ Done.pc = "done" /\ Done.op = None /\ Done.id = None /\ Done.to = None
  /\ Done.key = None /\ Done.list = {}
  /\ \A n, k : /\ AnswerOf(n, k).pc = "done" /\ AnswerOf(n, k).op = None /\ AnswerOf(n, k).id = n
              /\ AnswerOf(n, k).to = None /\ AnswerOf(n, k).key = k /\ AnswerOf(n, k).list = {}
BY DEF Done, Idle, AnswerOf

\* Requests carry what their call needs.
LEMMA FitsStep ==
  ASSUME TypeOK, RequestsFit, Reachable, ClientFits, [Next]_vars
  PROVE  RequestsFit'
<1> SUFFICES ASSUME NEW r \in Requests PROVE Fits(r)'
  BY DEF RequestsFit
<1> USE CatalogConstants
<1>1. /\ Fits(r) /\ Existing \subseteq Nodes
      /\ req[r].op \in {"create", "move", "delete", None}
  BY DEF RequestsFit, TypeOK, Call
<1>2. CASE req'[r] = req[r]
  BY <1>1, <1>2 DEF Fits
<1>3. CASE req'[r] = Done
  BY <1>3, DoneFields DEF Fits
<1>4. CASE Proceeds(r)
  BY <1>1, <1>4 DEF Proceeds, Fits
<1>5. CASE Answers(r)
  BY <1>1, <1>5, DoneFields DEF Answers, Fits, Nodes, TypeOK
<1>6. CASE Starts(r)
  BY <1>1, <1>6 DEF Starts, Fits, SendCreate, ClientFits, Folders, Nodes, TypeOK
<1>7. QED
  BY <1>2, <1>3, <1>4, <1>5, <1>6, ReqSteps DEF ReqStep

\* Ids are drawn once.
LEMMA FreshStep ==
  ASSUME TypeOK, RequestsFit, FreshIsUnused, Reachable, ClientFits, [Next]_vars
  PROVE  FreshIsUnused'
<1> USE CatalogConstants
<1>1. /\ fresh' \subseteq fresh
      /\ Existing' \cap fresh' = {}
  BY TreeStep DEF Adds, Update, Drop, FreshIsUnused, Existing
<1>2. ASSUME NEW r \in Requests
      PROVE  req'[r].id \notin fresh' /\ req'[r].to \notin fresh' /\ req'[r].list \cap fresh' = {}
  <2> USE <1>1 DEF FreshIsUnused
  <2>1. None \notin fresh /\ Root \notin fresh
    BY DEF TypeOK
  <2>2. CASE req'[r] = req[r]
    BY <2>2
  <2>3. CASE req'[r] = Done
    BY <2>1, <2>3, DoneFields
  <2>4. CASE Proceeds(r)
    BY <2>4 DEF Proceeds
  <2>5. CASE Answers(r)
    BY <2>1, <2>5, DoneFields DEF Answers
  <2>6. CASE Starts(r)
    BY <2>1, <2>6 DEF Starts, Folders
  <2>7. QED
    BY <2>2, <2>3, <2>4, <2>5, <2>6, ReqSteps DEF ReqStep
<1>3. remote' \notin fresh' /\ (cpc' = "record" => got' \notin fresh')
  <2>1. CASE Answered
    BY <1>1, <2>1 DEF Answered, FreshIsUnused, ClientFits, Requests, TypeOK
  <2>2. CASE RecordRemoteId
    BY <1>1, <2>2 DEF RecordRemoteId, FreshIsUnused
  <2>3. CASE PluginStep \/ \E r \in Creators : SendCreate(r)
    <3>1. CASE \E k \in Keys : Publish(k)
      BY <1>1, <3>1 DEF Publish, FreshIsUnused
    <3>2. CASE \E r \in Creators : SendCreate(r)
      BY <1>1, <3>2 DEF SendCreate, FreshIsUnused
    <3>3. CASE Retry \/ ClearPendingCreateKey \/ Quit
      BY <1>1, <3>3 DEF Retry, ClearPendingCreateKey, Quit, FreshIsUnused
    <3>4. QED
      BY <2>1, <2>2, <2>3, <3>1, <3>2, <3>3 DEF PluginStep
  <2>4. CASE UNCHANGED client
    BY <1>1, <2>4 DEF client, FreshIsUnused
  <2>5. QED
    BY <2>3, <2>4, ClientFrame
<1>4. QED
  BY <1>1, <1>2, <1>3 DEF FreshIsUnused

\* A parent that a request reads may be gone when it writes; the foreign keys
\* see to it that nothing is left beneath it.
LEMMA ReachableStep ==
  ASSUME TypeOK, Reachable, [Next]_vars
  PROVE  Reachable'
<1> USE CatalogConstants DEF Reachable, Folders, Existing
<1>1. CASE UNCHANGED <<rows, fresh>>
  BY <1>1
<1>2. ASSUME NEW r \in Creators, NEW n \in Nodes, Adds(r, n) PROVE Reachable'
  BY <1>2 DEF Adds, IsParent, TypeOK
<1>3. ASSUME NEW r \in Movers, Update(r) PROVE Reachable'
  BY <1>3 DEF Update, IsParent, TypeOK, Row
<1>4. ASSUME NEW r \in Deleters, Drop(r) PROVE Reachable'
  <2> DEFINE gone == Below(req[r].id)
  <2>1. rows' = [n \in Existing \ gone |-> rows[n]]
    BY <1>4 DEF Drop, Cascade
  <2>2. ASSUME NEW n \in Existing, n \notin gone, rows[n].parent \in Existing
        PROVE  rows[n].parent \notin gone
    BY <2>2, ChainOfParent DEF Below
  <2>3. QED
    BY <2>1, <2>2
<1>5. QED
  BY <1>1, <1>2, <1>3, <1>4, TreeStep

-----------------------------------------------------------------------------
(***************************************************************************)
(* Create keys.                                                            *)
(***************************************************************************)

\* A node keeps its key.  Nodes with keys come from creates, and go without
\* anyone noticing only when no create with the key goes on.
LEMMA KeyStep ==
  ASSUME TypeOK, FreshIsUnused, [Next]_vars
  PROVE  /\ kind' = kind
         /\ \A n \in Existing \cap Existing' : rows'[n].key = rows[n].key
         /\ \A n \in Existing' \ Existing :
              \E r \in Creators : Adds(r, n) /\ rows'[n].key = req[r].key
         /\ ~late' => /\ ~late
                      /\ \A n \in Existing \ Existing' : rows[n].key # None => ~GoingOn(rows[n].key)
<1>1. kind' = kind
  BY ClientFrame DEF client, PluginStep, Publish, Retry, Answered, RecordRemoteId,
     ClearPendingCreateKey, Quit, SendCreate
<1>2. /\ \A n \in Existing \cap Existing' : rows'[n].key = rows[n].key
      /\ \A n \in Existing' \ Existing : \E r \in Creators : Adds(r, n) /\ rows'[n].key = req[r].key
  <2>1. CASE UNCHANGED <<rows, fresh>>
    BY <2>1 DEF Existing
  <2>2. ASSUME NEW r \in Creators, NEW m \in Nodes, Adds(r, m)
        PROVE  /\ \A n \in Existing \cap Existing' : rows'[n].key = rows[n].key \/ n = m
               /\ m \notin Existing
               /\ \A n \in Existing' \ Existing : n = m /\ rows'[n].key = req[r].key
    BY <2>2 DEF Adds, Existing, FreshIsUnused
  <2>3. ASSUME NEW r \in Movers, Update(r)
        PROVE  Existing' = Existing /\ \A n \in Existing : rows'[n].key = rows[n].key
    BY <2>3 DEF Update, Existing, TypeOK, Row
  <2>4. ASSUME NEW r \in Deleters, Drop(r)
        PROVE  Existing' \subseteq Existing /\ \A n \in Existing' : rows'[n].key = rows[n].key
    BY <2>4 DEF Drop, Existing
  <2>5. QED
    BY <2>1, <2>2, <2>3, <2>4, TreeStep
<1>4. late' = late \/ \E r \in Deleters : Drop(r)
  BY DEF Next, Create, Move, Delete, LookupKey, ResolveParent, Insert, WhichIndex, Reread,
     StartUpdate, CheckChain, Update, PublishPhotos, StartDelete, ListAlbums, EraseAlbum,
     EndDelete, Crash, vars, notes, Publish, Retry, Answered, RecordRemoteId,
     ClearPendingCreateKey, Quit, SendCreate
<1>5. ASSUME NEW r \in Deleters, Drop(r), ~late'
      PROVE  ~late /\ \A n \in Existing \ Existing' : rows[n].key # None => ~GoingOn(rows[n].key)
  BY <1>5 DEF Drop, Existing, Cascade, Below
<1>6. ASSUME ~(\E r \in Deleters : Drop(r)) PROVE Existing \subseteq Existing'
  BY <1>6, TreeStep DEF Adds, Update, Existing
<1>7. QED
  BY <1>1, <1>2, <1>4, <1>5, <1>6

\* A request that creates did so before, or is being sent with the key in hand.
LEMMA CreatingStep ==
  ASSUME TypeOK, RequestsFit, Reachable, [Next]_vars, NEW r \in Creators, NEW k \in Keys, Creating(r, k)'
  PROVE  Creating(r, k) \/ (SendCreate(r) /\ k = got)
<1> USE Sentinels DEF Creating
<1>1. CASE req'[r] = Done \/ Answers(r)
  BY <1>1, DoneFields DEF Answers
<1>2. CASE req'[r] = req[r] \/ Proceeds(r)
  BY <1>2 DEF Proceeds
<1>3. CASE Starts(r)
  BY <1>3 DEF Starts
<1>4. QED
  BY <1>1, <1>2, <1>3, ReqSteps DEF ReqStep, Requests

\* The unique index, and uuids that are minted once.
LEMMA KeyIsUniqueStep ==
  ASSUME TypeOK, RequestsFit, FreshIsUnused, Reachable, KeyIsUnique, ClientFits, [Next]_vars
  PROVE  KeyIsUnique'
<1> USE Sentinels DEF KeyIsUnique
<1>1. /\ unused' \subseteq unused /\ None \notin unused
      /\ savedKey' \notin unused' /\ (cpc' \in {"send", "wait"} => got' \notin unused')
  <2>1. None \notin unused
    BY DEF TypeOK
  <2>2. CASE \E k \in Keys : Publish(k)
    BY <2>1, <2>2 DEF Publish, PendingCreateKey
  <2>3. CASE Retry \/ Answered \/ RecordRemoteId
    BY <2>1, <2>3 DEF Retry, Answered, RecordRemoteId
  <2>4. CASE ClearPendingCreateKey \/ Quit
    BY <2>1, <2>4 DEF ClearPendingCreateKey, Quit
  <2>5. CASE \E r \in Creators : SendCreate(r)
    BY <2>1, <2>5 DEF SendCreate
  <2>6. CASE UNCHANGED client
    BY <2>1, <2>6 DEF client
  <2>7. QED
    BY <2>2, <2>3, <2>4, <2>5, <2>6, ClientFrame DEF PluginStep
<1>2. ASSUME NEW n \in Made' PROVE n \in kind' /\ rows'[n].key \notin unused'
  <2>1. CASE n \in Existing
    BY <1>1, <2>1, KeyStep DEF Made
  <2>2. CASE n \notin Existing
    BY <1>1, <2>2, KeyStep DEF Made, Adds, Requests
  <2>3. QED
    BY <2>1, <2>2
<1>3. ASSUME NEW n \in Made', NEW m \in Made', rows'[n].key = rows'[m].key PROVE n = m
  <2>1. CASE n \in Existing /\ m \in Existing
    BY <1>3, <2>1, KeyStep DEF Made
  <2>2. ASSUME NEW x \in Made', NEW y \in Made', rows'[x].key = rows'[y].key, x \notin Existing
        PROVE  x = y
    <3>1. PICK r \in Creators : Adds(r, x) /\ rows'[x].key = req[r].key
      BY <2>2, KeyStep DEF Made
    <3>2. ASSUME y # x PROVE FALSE
      <4>1. y \in Existing /\ rows'[y].key = rows[y].key
        BY <2>2, <3>1, <3>2, KeyStep DEF Adds, Made, Existing
      <4>2. y \in kind
        BY <2>2, <4>1 DEF Made
      <4>3. QED
        BY <2>2, <3>1, <4>1, <4>2 DEF Adds, KeyFree, ByKey
    <3>3. QED
      BY <3>2
  <2>3. QED
    BY <1>3, <2>1, <2>2
<1>5. ASSUME NEW r \in Requests PROVE req'[r].key \notin unused'
  <2>1. CASE req'[r] = req[r] \/ req'[r] = Done \/ Proceeds(r) \/ Answers(r)
    BY <1>1, <2>1, DoneFields DEF Proceeds, Answers
  <2>2. CASE Starts(r)
    BY <1>1, <2>2 DEF Starts, SendCreate
  <2>3. QED
    BY <2>1, <2>2, ReqSteps DEF ReqStep
<1>6. QED
  BY <1>1, <1>2, <1>3, <1>5 DEF Made

\* An answer stays true while its node is there.
LEMMA AnswerStep ==
  ASSUME TypeOK, RequestsFit, FreshIsUnused, Reachable, AnswerIsKeyed, [Next]_vars
  PROVE  AnswerIsKeyed'
<1> SUFFICES ASSUME NEW r \in Requests, req'[r].pc = "done", req'[r].id \in Existing'
             PROVE  rows'[req'[r].id].key = req'[r].key
  BY DEF AnswerIsKeyed
<1> USE CatalogConstants
<1>1. CASE req'[r] = req[r]
  <2>1. req[r].id \in Existing
    BY <1>1, KeyStep DEF FreshIsUnused, Adds
  <2>2. QED
    BY <1>1, <2>1, KeyStep DEF AnswerIsKeyed
<1>2. CASE req'[r] = Done
  <2>1. None \notin Existing'
    BY KeyStep DEF Adds, TypeOK, Nodes
  <2>2. QED
    BY <1>2, <2>1, DoneFields
<1>3. CASE Answers(r)
  BY <1>3, DoneFields DEF Answers
<1>4. CASE Proceeds(r) \/ Starts(r)
  BY <1>4 DEF Proceeds, Starts, TypeOK, Call
<1>5. QED
  BY <1>1, <1>2, <1>3, <1>4, ReqSteps DEF ReqStep

\* A node that exists after a step, and whose id was drawn before it, existed
\* before it, with the same key.
LEMMA OldNode ==
  ASSUME TypeOK, FreshIsUnused, [Next]_vars, NEW n, n \notin fresh, n \in Existing'
  PROVE  n \in Existing /\ rows'[n].key = rows[n].key
BY KeyStep DEF Adds

\* The plug-in holds what fits the point it has reached.
LEMMA ClientFitsStep ==
  ASSUME Shapes, KeyIsUnique, AnswerIsKeyed, ClientFits, [Next]_vars
  PROVE  ClientFits'
<1> USE Sentinels DEF Shapes
<1>1. CASE \E k \in Keys : Publish(k)
  <2>1. UNCHANGED <<rows, remote>>
    BY <1>1 DEF Publish, tree
  <2>2. cpc' = "send" /\ got' = savedKey' /\ savedKey' \in Keys
    BY <1>1 DEF Publish, PendingCreateKey
  <2>3. QED
    BY <2>1, <2>2 DEF ClientFits, Made, Existing
<1>2. CASE \E r \in Creators : SendCreate(r)
  <2>1. PICK r \in Creators : SendCreate(r)
    BY <1>2
  <2>2. /\ cpc = "send" /\ cpc' = "wait" /\ sent' = r /\ req'[r].key = got
        /\ UNCHANGED <<rows, remote, got, savedKey>>
    BY <2>1 DEF SendCreate, Begin, Idle, tree, TypeOK, Requests
  <2>3. QED
    BY <2>2 DEF ClientFits, Made, Existing
<1>3. CASE Retry \/ Quit
  BY <1>3 DEF Retry, Quit, ClientFits, Made, Existing, tree
<1>4. CASE Answered
  <2>1. /\ sent \in Requests /\ req[sent].pc = "done" /\ req[sent].id # None
        /\ got' = req[sent].id /\ cpc' = "record" /\ UNCHANGED <<rows, savedKey, remote>>
    BY <1>4 DEF Answered, ClientFits, Requests, tree
  <2>2. req[sent].key = savedKey /\ req[sent].id \in Nodes
    BY <1>4, <2>1 DEF ClientFits, RequestsFit, Fits, TypeOK, Call, Answered
  <2>3. QED
    BY <1>4, <2>1, <2>2 DEF Answered, ClientFits, AnswerIsKeyed, Made, Existing
<1>5. CASE RecordRemoteId
  BY <1>5 DEF RecordRemoteId, ClientFits, Made, Existing, tree
<1>6. CASE ClearPendingCreateKey
  BY <1>6 DEF ClearPendingCreateKey, ClientFits, Made, Existing, tree
<1>7. CASE UNCHANGED client /\ ~(\E r \in Creators : SendCreate(r))
  <2>1. UNCHANGED <<kind, cpc, savedKey, remote, sent, got>>
    BY <1>7 DEF client
  <2>2. ASSUME NEW n, n \notin fresh, n \in Existing' PROVE n \in Existing /\ rows'[n].key = rows[n].key
    BY <2>2, OldNode
  <2>3. remote \in Existing' => remote \in Made'
    BY <2>2 DEF ClientFits, FreshIsUnused, Made
  <2>4. cpc = "record" => (got \in Existing' => rows'[got].key = savedKey)
    BY <2>2 DEF ClientFits, FreshIsUnused
  <2>5. ASSUME cpc = "wait" PROVE req'[sent].key \in {savedKey, None}
    <3>1. sent \in Requests /\ req[sent].key \in {savedKey, None}
      BY <2>5 DEF ClientFits, Requests
    <3>2. CASE Starts(sent)
      BY <1>7, <3>2 DEF Starts
    <3>3. QED
      BY <3>1, <3>2, ReqSteps, DoneFields DEF ReqStep, Proceeds, Answers
  <2>6. QED
    BY <2>1, <2>3, <2>4, <2>5 DEF ClientFits
<1>8. QED
  BY <1>1, <1>2, <1>3, <1>4, <1>5, <1>6, <1>7, ClientFrame DEF PluginStep

\* What an answer says stays settled as long as the plug-in holds it.
LEMMA SettledStep ==
  ASSUME Shapes, KeyIsUnique, ClientFits, [Next]_vars, ~late', cpc # "send", savedKey \in Keys,
         UNCHANGED savedKey, NEW x, x \notin fresh, x \in Existing => rows[x].key = savedKey,
         Settled(x)
  PROVE  Settled(x)'
<1> USE Sentinels DEF Shapes
<1>1. ASSUME NEW r \in Creators, Creating(r, savedKey)' PROVE Creating(r, savedKey) /\ GoingOn(savedKey)
  <2>1. Creating(r, savedKey)
    BY <1>1, CreatingStep DEF SendCreate
  <2>2. QED
    BY <2>1 DEF Creating, GoingOn, RequestsFit, Fits, Requests
<1>2. CASE x \in Existing
  <2>1. CASE x \in Existing'
    BY <2>1 DEF Settled
  <2>2. CASE x \notin Existing'
    <3>1. ~GoingOn(savedKey)
      BY <1>2, <2>2, KeyStep
    <3>2. \A r \in Creators : ~Creating(r, savedKey)'
      BY <1>1, <3>1
    <3>3. ASSUME NEW n \in Existing', rows'[n].key = savedKey PROVE FALSE
      <4>1. n \in Existing
        BY <3>1, <3>3, KeyStep DEF Adds, GoingOn
      <4>2. n \in Made /\ x \in Made /\ rows[n].key = rows[x].key
        BY <1>2, <3>3, <4>1, KeyStep DEF Made
      <4>3. QED
        BY <2>2, <4>2 DEF KeyIsUnique
    <3>4. QED
      BY <3>2, <3>3 DEF Settled
  <2>3. QED
    BY <2>1, <2>2
<1>3. CASE /\ \A n \in Existing : rows[n].key # savedKey
           /\ \A r \in Creators : ~Creating(r, savedKey)
  <2>1. ASSUME NEW n \in Existing', rows'[n].key = savedKey PROVE FALSE
    <3>1. n \notin Existing
      BY <1>3, <2>1, KeyStep
    <3>2. PICK r \in Creators : Adds(r, n) /\ rows'[n].key = req[r].key
      BY <3>1, KeyStep
    <3>3. Creating(r, savedKey)
      BY <2>1, <3>2 DEF Adds, Creating, RequestsFit, Fits, Requests
    <3>4. QED
      BY <1>3, <3>3
  <2>2. QED
    BY <1>1, <1>3, <2>1 DEF Settled
<1>4. QED
  BY <1>2, <1>3 DEF Settled

\* One key at a time, until a create outlives the node of its key.
LEMMA OneKeyStep ==
  ASSUME Shapes, KeysInv, ~late', [Next]_vars
  PROVE  OneKeyAtATime'
<1> USE Sentinels DEF Shapes, KeysInv
<1>1. ~late /\ OneKeyAtATime
  BY KeyStep
<1>2. savedKey \in Keys \cup {None} /\ None \notin Keys
  BY DEF TypeOK
<1>3. ASSUME savedKey' # savedKey
      PROVE  \/ /\ savedKey = None /\ remote \notin Existing /\ UNCHANGED <<rows, req, remote>>
                /\ cpc' = "send"
             \/ /\ cpc = "clear" /\ savedKey' = None /\ UNCHANGED <<rows, req, remote>> /\ cpc' = "idle"
  <2>1. CASE \E k \in Keys : Publish(k)
    BY <1>3, <2>1 DEF Publish, PendingCreateKey, tree, TypeOK
  <2>2. CASE ClearPendingCreateKey
    BY <1>3, <2>2 DEF ClearPendingCreateKey, tree
  <2>3. CASE UNCHANGED client \/ Retry \/ Answered \/ RecordRemoteId \/ Quit \/ \E r \in Creators : SendCreate(r)
    BY <1>3, <2>3 DEF client, Retry, Answered, RecordRemoteId, Quit, SendCreate
  <2>4. QED
    BY <2>1, <2>2, <2>3, ClientFrame DEF PluginStep
<1>4. ASSUME remote' # remote
      PROVE  /\ cpc = "record" /\ remote' = got /\ cpc' = "clear"
             /\ UNCHANGED <<rows, req, savedKey>>
  <2>1. CASE RecordRemoteId
    BY <2>1 DEF RecordRemoteId, tree
  <2>2. CASE UNCHANGED client
    BY <1>4, <2>2 DEF client
  <2>3. QED
    BY <1>4, <2>1, <2>2, ClientFrame
       DEF PluginStep, Publish, Retry, Answered, Quit, ClearPendingCreateKey, SendCreate
\* The creates that go on.
<1>5. ASSUME NEW r \in Creators, NEW k \in Keys, Creating(r, k)'
      PROVE  k = savedKey' \/ \E n \in Existing' : rows'[n].key = k
  <2>1. CASE SendCreate(r) /\ k = got
    BY <2>1 DEF SendCreate, ClientFits
  <2>2. CASE Creating(r, k)
    <3>1. GoingOn(k)
      BY <2>2 DEF Creating, GoingOn, RequestsFit, Fits, Requests
    <3>2. CASE k = savedKey
      <4>1. CASE savedKey' = savedKey
        BY <3>2, <4>1
      <4>2. CASE savedKey' # savedKey
        <5>1. cpc = "clear" /\ Settled(remote) /\ UNCHANGED rows
          BY <1>1, <1>3, <3>2, <4>2 DEF OneKeyAtATime
        <5>2. remote \in Existing /\ rows[remote].key = k
          BY <1>1, <2>2, <3>2, <5>1 DEF Settled, OneKeyAtATime
        <5>3. QED
          BY <5>1, <5>2 DEF Existing
      <4>3. QED
        BY <4>1, <4>2
    <3>3. CASE \E n \in Existing : rows[n].key = k
      <4>1. PICK n \in Existing : rows[n].key = k
        BY <3>3
      <4>2. n \in Existing' /\ rows'[n].key = k
        BY <3>1, <4>1, KeyStep
      <4>3. QED
        BY <4>2
    <3>4. QED
      BY <1>1, <2>2, <3>2, <3>3 DEF OneKeyAtATime
  <2>3. QED
    BY <1>5, <2>1, <2>2, CreatingStep

\* The nodes that were made.
<1>6. ASSUME NEW n \in Made' PROVE rows'[n].key = savedKey' \/ n = remote'
  <2>1. CASE n \in Existing
    <3>1. n \in Made /\ rows'[n].key = rows[n].key
      BY <2>1, KeyStep DEF Made
    <3>2. rows[n].key = savedKey \/ n = remote
      BY <1>1, <3>1 DEF OneKeyAtATime
    <3>3. CASE savedKey' # savedKey
      <4>1. CASE savedKey = None
        BY <1>3, <2>1, <3>1, <3>2, <3>3, <4>1 DEF Made
      <4>2. CASE savedKey # None
        <5>1. Settled(remote) /\ remote' = remote
          BY <1>1, <1>3, <3>3, <4>2 DEF OneKeyAtATime
        <5>2. ASSUME rows[n].key = savedKey PROVE n = remote
          <6>1. remote \in Existing /\ rows[remote].key = savedKey
            BY <1>1, <2>1, <4>2, <5>1, <5>2 DEF Settled, OneKeyAtATime
          <6>2. QED
            BY <3>1, <4>2, <5>2, <6>1 DEF KeyIsUnique, Made
        <5>3. QED
          BY <3>2, <5>1, <5>2
      <4>3. QED
        BY <4>1, <4>2
    <3>4. CASE remote' # remote
      <4>1. savedKey \in Keys /\ savedKey' = savedKey
        BY <1>4, <3>4 DEF ClientFits
      <4>2. n = remote => rows[n].key = savedKey
        BY <1>1, <2>1, <4>1 DEF OneKeyAtATime
      <4>3. QED
        BY <3>1, <3>2, <4>1, <4>2
    <3>5. QED
      BY <3>1, <3>2, <3>3, <3>4
  <2>2. CASE n \notin Existing
    <3>1. PICK r \in Creators : Adds(r, n) /\ rows'[n].key = req[r].key
      BY <2>2, KeyStep DEF Made
    <3>2. req[r].key \in Keys /\ Creating(r, req[r].key)
      BY <3>1 DEF Adds, Creating, RequestsFit, Fits, Requests
    <3>3. ASSUME NEW m \in Existing, rows[m].key = req[r].key PROVE FALSE
      BY <3>1, <3>2, <3>3 DEF Adds, KeyFree, ByKey, KeyIsUnique, Made
    <3>4. req[r].key = savedKey
      BY <1>1, <3>2, <3>3 DEF OneKeyAtATime
    <3>5. savedKey' = savedKey
      BY <1>3, <2>2, <3>1 DEF Made, Existing
    <3>6. QED
      BY <3>1, <3>4, <3>5
  <2>3. QED
    BY <2>1, <2>2

\* The recorded node.
<1>7. ASSUME savedKey' # None, remote' \in Existing' PROVE rows'[remote'].key = savedKey'
  <2>1. CASE remote' # remote
    BY <1>4, <1>7, <2>1 DEF ClientFits, Existing
  <2>2. CASE remote' = remote /\ savedKey' # savedKey
    BY <1>3, <1>7, <2>2 DEF Existing
  <2>3. CASE remote' = remote /\ savedKey' = savedKey
    <3>1. remote \in Existing /\ rows'[remote].key = rows[remote].key
      BY <1>7, <2>3, OldNode DEF FreshIsUnused
    <3>2. QED
      BY <1>1, <1>7, <2>3, <3>1 DEF OneKeyAtATime
  <2>4. QED
    BY <2>1, <2>2, <2>3

\* What the plug-in holds.
<1>8. ASSUME cpc' = "wait", req'[sent'].pc = "done", req'[sent'].id # None
      PROVE  Settled(req[sent].id)'
  <2>1. ASSUME NEW r \in Creators, SendCreate(r) PROVE FALSE
    <3>1. sent' = r /\ req'[r].pc = "lookup"
      BY <2>1 DEF SendCreate, Begin, Idle, TypeOK, Requests
    <3>2. QED
      BY <1>8, <3>1
  <2>2. UNCHANGED client
    BY <1>8, <2>1, ClientFrame
       DEF PluginStep, Publish, Retry, Answered, RecordRemoteId, Quit, ClearPendingCreateKey
  <2>3. /\ UNCHANGED <<cpc, sent, savedKey>>
        /\ cpc = "wait" /\ sent \in Creators /\ sent \in Requests /\ savedKey \in Keys
    BY <1>8, <2>2 DEF client, ClientFits, Requests
  <2>4. CASE req'[sent] = req[sent]
    <3>1. PICK x : x = req[sent].id
      OBVIOUS
    <3>2. req[sent].pc = "done" /\ x # None
      BY <1>8, <2>3, <2>4, <3>1
    <3>3. Settled(x) /\ x \notin fresh
      BY <1>1, <2>3, <3>1, <3>2 DEF OneKeyAtATime, FreshIsUnused
    <3>4. x \in Existing => rows[x].key = savedKey
      BY <2>3, <3>1, <3>2 DEF ClientFits, AnswerIsKeyed, RequestsFit, Fits
    <3>5. Settled(x)'
      BY <2>3, <3>3, <3>4, SettledStep
    <3>6. x = req'[sent'].id
      BY <2>3, <2>4, <3>1
    <3>7. QED
      BY <3>5, <3>6 DEF Settled
  <2>5. CASE Answers(sent)
    <3>1. req'[sent'].id \in Existing'
      BY <2>3, <2>5, DoneFields DEF Answers
    <3>2. QED
      BY <3>1 DEF Settled
  <2>6. CASE req'[sent] = Done \/ Proceeds(sent)
    BY <1>8, <2>3, <2>6, DoneFields DEF Proceeds, TypeOK, Call
  <2>7. CASE Starts(sent)
    BY <1>8, <2>1, <2>3, <2>7 DEF Starts
  <2>8. QED
    BY <2>3, <2>4, <2>5, <2>6, <2>7, ReqSteps DEF ReqStep
<1>9. ASSUME cpc' = "record" PROVE Settled(got)'
  <2>1. CASE Answered
    <3>1. cpc = "wait" /\ Settled(req[sent].id)
      BY <1>1, <2>1 DEF Answered, OneKeyAtATime
    <3>2. UNCHANGED <<rows, req, savedKey>> /\ got' = req[sent].id
      BY <2>1 DEF Answered, tree
    <3>3. QED
      BY <3>1, <3>2 DEF Settled, Creating, Existing
  <2>2. CASE UNCHANGED client
    <3>1. PICK x : x = got
      OBVIOUS
    <3>2. UNCHANGED <<cpc, savedKey, got>> /\ cpc = "record"
      BY <1>9, <2>2 DEF client
    <3>3. savedKey \in Keys /\ x \notin fresh /\ (x \in Existing => rows[x].key = savedKey) /\ Settled(x)
      BY <1>1, <3>1, <3>2 DEF ClientFits, FreshIsUnused, OneKeyAtATime
    <3>4. Settled(x)'
      BY <3>2, <3>3, SettledStep
    <3>5. QED
      BY <3>1, <3>2, <3>4 DEF Settled
  <2>3. QED
    BY <1>9, <2>1, <2>2, ClientFrame
       DEF PluginStep, Publish, Retry, RecordRemoteId, Quit, ClearPendingCreateKey, SendCreate
<1>10. ASSUME cpc' = "clear" PROVE Settled(remote)'
  <2>1. CASE RecordRemoteId
    <3>1. Settled(got) /\ UNCHANGED <<rows, req, savedKey>> /\ remote' = got
      BY <1>1, <2>1 DEF RecordRemoteId, OneKeyAtATime, tree
    <3>2. QED
      BY <3>1 DEF Settled, Creating, Existing
  <2>2. CASE UNCHANGED client
    <3>1. PICK x : x = remote
      OBVIOUS
    <3>2. UNCHANGED <<cpc, savedKey, remote>> /\ cpc = "clear"
      BY <1>10, <2>2 DEF client
    <3>3. savedKey \in Keys /\ x \notin fresh /\ (x \in Existing => rows[x].key = savedKey) /\ Settled(x)
      BY <1>1, <3>1, <3>2 DEF ClientFits, FreshIsUnused, OneKeyAtATime
    <3>4. Settled(x)'
      BY <3>2, <3>3, SettledStep
    <3>5. QED
      BY <3>1, <3>2, <3>4 DEF Settled
  <2>3. QED
    BY <1>10, <2>1, <2>2, ClientFrame
       DEF PluginStep, Publish, Retry, Answered, Quit, ClearPendingCreateKey, SendCreate
<1>11. QED
  BY <1>5, <1>6, <1>7, <1>8, <1>9, <1>10 DEF OneKeyAtATime

-----------------------------------------------------------------------------
(***************************************************************************)
(* Deletions.                                                              *)
(***************************************************************************)

\* Which step it was that changed a request.
LEMMA Actor ==
  ASSUME TypeOK, RequestsFit, Reachable, [Next]_vars, NEW d \in Requests
  PROVE  \/ req'[d] = req[d]
         \/ Crash
         \/ d \in Creators /\ (SendCreate(d) \/ Create(d))
         \/ ResolveParent(d)
         \/ d \in Movers /\ Move(d)
         \/ d \in Deleters /\ Delete(d)
<1>1. ASSUME NEW r \in Creators, Create(r) \/ ResolveParent(r), r # d PROVE req'[d] = req[d]
  BY <1>1, CreateSteps DEF Requests
<1>2. ASSUME NEW r \in Movers, Move(r) \/ ResolveParent(r), r # d PROVE req'[d] = req[d]
  BY <1>2, CreateSteps, MoveSteps DEF Requests
<1>3. ASSUME NEW r \in Deleters, Delete(r), r # d PROVE req'[d] = req[d]
  BY <1>3, DeleteSteps
<1>4. ASSUME NEW r \in Creators, SendCreate(r), r # d PROVE req'[d] = req[d]
  BY <1>4 DEF SendCreate, Begin, TypeOK
<1>5. CASE PluginStep \/ PublishPhotos \/ UNCHANGED vars
  BY <1>5 DEF PluginStep, Publish, Retry, Answered, RecordRemoteId, ClearPendingCreateKey, Quit,
     PublishPhotos, vars
<1>6. QED
  BY <1>1, <1>2, <1>3, <1>4, <1>5 DEF Next, PluginStep

\* Where a create goes.
LEMMA CreatePc ==
  ASSUME TypeOK, NEW d \in Requests, Create(d)
  PROVE  req'[d].pc \in {"parent", "insert", "which", "reread", "done"}
<1>1. req \in [Requests -> Call]
  BY DEF TypeOK
<1>2. ASSUME NEW n, Answer(d, n) PROVE req'[d].pc = "done"
  BY <1>1, <1>2, DoneFields DEF Answer, AnswerOf, Becomes
<1>3. ASSUME Refuse(d) PROVE req'[d].pc = "done"
  BY <1>1, <1>3, DoneFields DEF Refuse, End, Becomes
<1>4. ASSUME NEW pc, Goto(d, pc) PROVE req'[d].pc = pc
  BY <1>1, <1>4 DEF Goto, Becomes, Call
<1>5. ASSUME Becomes(d, [req[d] EXCEPT !.pc = "insert", !.tries = @ + 1])
      PROVE  req'[d].pc = "insert"
  BY <1>1, <1>5 DEF Becomes, Call
<1>6. QED
  BY <1>2, <1>3, <1>4, <1>5 DEF Create, LookupKey, Insert, WhichIndex, Reread

\* A request is about to drop or to erase because it was, or because its
\* deletion has come that far.
LEMMA DeleterStep ==
  ASSUME TypeOK, RequestsFit, Reachable, [Next]_vars, NEW d \in Requests
  PROVE  \/ req'[d] = req[d]
         \/ StartDelete(d) \/ ListAlbums(d) \/ Drop(d) \/ EraseAlbum(d)
         \/ /\ req'[d].pc \notin {"drop", "erase"}
            /\ req[d].pc = "erase" => req[d].list = {} \/ Crash
<1>1. req \in [Requests -> Call] /\ Fits(d)
  BY DEF TypeOK, RequestsFit
<1>2. CASE Crash
  BY <1>1, <1>2, DoneFields DEF Crash
<1>3. CASE SendCreate(d) \/ StartUpdate(d)
  BY <1>1, <1>3 DEF SendCreate, StartUpdate, Free, Begin, Idle
<1>4. CASE Create(d)
  <2>1. req[d].pc # "erase"
    BY <1>4 DEF Create, LookupKey, Insert, WhichIndex, Reread
  <2>2. QED
    BY <1>4, <2>1, CreatePc
<1>5. CASE ResolveParent(d) \/ CheckChain(d) \/ Update(d)
  BY <1>1, <1>5, DoneFields DEF ResolveParent, CheckChain, Update, Goto, Refuse, End, Becomes, Call
<1>6. CASE EndDelete(d)
  BY <1>1, <1>6, DoneFields DEF EndDelete, End, Becomes
<1>7. QED
  BY <1>2, <1>3, <1>4, <1>5, <1>6, Actor DEF Move, Delete

\* The tree beneath a node, by what happens to the tree.
LEMMA SameTree ==
  ASSUME UNCHANGED rows, NEW f
  PROVE  Existing' = Existing /\ Chain(f)' = Chain(f) /\ Below(f)' = Below(f)
<1>1. ASSUME NEW n PROVE Chain(n)' = Chain(n)
  BY DEF Chain, Closed, Existing
<1>2. QED
  BY <1>1 DEF Below, Existing

\* A new leaf moves nobody out of a subtree.
LEMMA GrownTree ==
  ASSUME FreshIsUnused, NEW r, NEW n, Adds(r, n), NEW f
  PROVE  Below(f) \subseteq Below(f)'
<1>1. Existing \subseteq Existing' /\ \A m \in Existing : rows'[m] = rows[m]
  BY DEF Adds, FreshIsUnused, Existing
<1>2. ASSUME NEW a \in Existing, NEW S \in SUBSET Existing', Closed(S)', a \in S
      PROVE  Chain(a) \subseteq S
  <2>1. Closed(S \cap Existing)
    BY <1>1, <1>2 DEF Closed
  <2>2. QED
    BY <1>2, <2>1, ChainIsLeast
<1>3. ASSUME NEW a \in Existing PROVE Chain(a) \subseteq Chain(a)'
  <2>1. Chain(a) \subseteq Existing'
    BY <1>1, ChainIsClosed
  <2>2. a \in Existing'
    BY <1>1
  <2>3. QED
    BY <1>2, <2>1, <2>2 DEF Chain
<1>4. QED
  BY <1>1, <1>3 DEF Below

\* Where a subtree is taken away, the chains of the nodes that stay do not
\* change.
LEMMA PrunedTree ==
  ASSUME NEW g, NEW f, rows' = [n \in Existing \ Below(g) |-> rows[n]]
  PROVE  Existing' = Existing \ Below(g) /\ Below(f)' = Below(f) \cap Existing'
<1>1. Existing' = Existing \ Below(g) /\ \A m \in Existing' : rows'[m] = rows[m]
  BY DEF Existing
<1>2. ASSUME NEW a \in Existing' PROVE Chain(a)' = Chain(a)
  <2>1. PICK C : C = Chain(a)
    OBVIOUS
  <2>2. C \subseteq Existing' /\ a \in C
    BY <1>1, <2>1, ChainIsClosed, ChainOnChain, OnOwnChain DEF Below
  <2>3. Closed(C)
    BY <2>1, ChainIsClosed
  <2>4. Closed(C)'
    BY <1>1, <2>2, <2>3 DEF Closed
  <2>5. Chain(a)' \subseteq C
    BY <2>2, <2>4 DEF Chain
  <2>6. ASSUME NEW S \in SUBSET Existing', Closed(S)', a \in S PROVE C \subseteq S
    <3>1. Closed(S \cap C)
      BY <1>1, <2>2, <2>3, <2>6 DEF Closed
    <3>2. S \cap C \in SUBSET Existing
      BY <2>1, ChainIsClosed
    <3>3. QED
      BY <2>1, <2>2, <2>6, <3>1, <3>2, ChainIsLeast
  <2>7. QED
    BY <2>1, <2>2, <2>5, <2>6 DEF Chain
<1>3. QED
  BY <1>1, <1>2 DEF Below

\* Nothing is beneath an album.
LEMMA AlbumIsALeaf ==
  ASSUME TypeOK, Reachable, NEW a \in Existing \cap AlbumIds
  PROVE  Below(a) = {a}
<1> DEFINE S == Existing \ {a}
<1>1. a \notin FolderIds \cup {Root}
  BY CatalogConstants DEF Nodes
<1>2. Closed(S)
  BY <1>1 DEF Closed, Reachable, Folders
<1>3. ASSUME NEW n \in Existing, n # a PROVE a \notin Chain(n)
  BY <1>2, <1>3, ChainIsLeast
<1>4. QED
  BY <1>3, OnOwnChain DEF Below

\* What came into a subtree, or left it, since its listing is kept note of.
LEMMA NotesStep ==
  ASSUME TypeOK, [Next]_vars
  PROVE  /\ entered \subseteq entered' /\ escaped \subseteq escaped'
         /\ \A r \in Creators : Insert(r) => entered' = entered \cup Entering
         /\ \A r \in Movers : Update(r) => /\ entered' = entered \cup Entering
                                           /\ escaped' = escaped \cup Escaping
<1>1. entered \subseteq entered' /\ escaped \subseteq escaped'
  BY DEF Next, Create, Move, Delete, LookupKey, ResolveParent, Insert, WhichIndex, Reread,
     StartUpdate, CheckChain, Update, PublishPhotos, StartDelete, ListAlbums, Drop, EraseAlbum,
     EndDelete, Crash, vars, notes, Publish, Retry, Answered, RecordRemoteId,
     ClearPendingCreateKey, Quit, SendCreate
<1>2. QED
  BY <1>1 DEF Insert, Update

\* An album of a subtree to be deleted is on the deletion's list or came in
\* since; one on the list is in the subtree or has left it.
LEMMA DeletionStep ==
  ASSUME Shapes, DeletionKnows, [Next]_vars
  PROVE  DeletionKnows'
<1> USE DEF Shapes
<1> SUFFICES ASSUME NEW d \in Deleters
             PROVE  /\ req'[d].pc = "drop" =>
                         /\ Below(req[d].id)' \cap AlbumIds \subseteq req'[d].list \cup entered'
                         /\ req'[d].list \cap Existing' \subseteq Below(req[d].id)' \cup escaped'
                    /\ req'[d].pc = "erase" => req'[d].list \cap Existing' \subseteq escaped'
  BY DEF DeletionKnows
<1>1. /\ req \in [Requests -> Call] /\ d \in Requests /\ Fits(d)
      /\ req[d].list \cap fresh = {}
      /\ entered \subseteq entered' /\ escaped \subseteq escaped'
  BY NotesStep DEF TypeOK, RequestsFit, FreshIsUnused, Requests
<1>2. req[d].list \cap Existing' \subseteq req[d].list \cap Existing
  <2>1. ASSUME NEW n \in req[d].list, n \in Existing' PROVE n \in Existing
    BY <1>1, <2>1, OldNode
  <2>2. QED
    BY <2>1
<1>3. CASE req'[d] = req[d] /\ req[d].pc = "drop"
  <2>1. PICK f : f = req[d].id
    OBVIOUS
  <2>2. /\ Below(f) \cap AlbumIds \subseteq req[d].list \cup entered
        /\ req[d].list \cap Existing \subseteq Below(f) \cup escaped
    BY <1>3, <2>1 DEF DeletionKnows
  <2>3. Below(f)' \cap AlbumIds \subseteq req[d].list \cup entered'
    <3>1. CASE UNCHANGED <<rows, fresh>>
      BY <1>1, <2>2, <3>1, SameTree
    <3>2. CASE (\E r \in Creators : Insert(r)) \/ \E r \in Movers : Update(r)
      <4>1. entered' = entered \cup Entering
        BY <3>2, NotesStep
      <4>2. Inside(d) = Below(f) \cap AlbumIds
        BY <1>3, <2>1 DEF Inside
      <4>3. Inside(d)' = Below(f)' \cap AlbumIds
        BY <1>3, <2>1 DEF Inside, Below
      <4>4. Inside(d)' \ Inside(d) \subseteq Entering
        BY DEF Entering
      <4>5. QED
        BY <2>2, <4>1, <4>2, <4>3, <4>4
    <3>3. CASE \E r \in Deleters : Drop(r)
      BY <1>1, <2>2, <3>3, PrunedTree DEF Drop, Cascade
    <3>4. QED
      BY <3>1, <3>2, <3>3, TreeStep
  <2>4. req[d].list \cap Existing' \subseteq Below(f)' \cup escaped'
    <3>1. CASE UNCHANGED <<rows, fresh>>
      BY <1>1, <1>2, <2>2, <3>1, SameTree
    <3>2. CASE \E r \in Creators, n \in Nodes : Insert(r) /\ Adds(r, n)
      BY <1>1, <1>2, <2>2, <3>2, GrownTree
    <3>3. CASE \E r \in Movers : Update(r)
      <4>1. escaped' = escaped \cup Escaping
        BY <3>3, NotesStep
      <4>2. Inside(d) = Below(f) \cap AlbumIds
        BY <1>3, <2>1 DEF Inside
      <4>3. Inside(d)' = Below(f)' \cap AlbumIds
        BY <1>3, <2>1 DEF Inside, Below
      <4>4. Inside(d) \ Inside(d)' \subseteq Escaping
        BY DEF Escaping
      <4>5. req[d].list \subseteq AlbumIds
        BY <1>1 DEF Call
      <4>6. QED
        BY <1>2, <2>2, <4>1, <4>2, <4>3, <4>4, <4>5
    <3>4. CASE \E r \in Deleters : Drop(r)
      BY <1>1, <1>2, <2>2, <3>4, PrunedTree DEF Drop, Cascade
    <3>5. QED
      BY <3>1, <3>2, <3>3, <3>4, TreeStep
  <2>5. Below(f)' = Below(req[d].id)'
    BY <1>3, <2>1 DEF Below
  <2>6. QED
    BY <1>3, <2>3, <2>4, <2>5
<1>4. CASE req'[d] = req[d] /\ req[d].pc = "erase"
  BY <1>1, <1>2, <1>4 DEF DeletionKnows
<1>5. CASE StartDelete(d)
  <2>1. PICK n \in Existing :
          Begin(d, [Idle EXCEPT !.op = "delete", !.id = n,
                      !.pc = IF n \in FolderIds THEN "list" ELSE "drop",
                      !.list = IF n \in FolderIds THEN {} ELSE {n}])
    BY <1>5 DEF StartDelete
  <2>2. /\ req'[d].id = n /\ req'[d].pc \in {"list", "drop"}
        /\ req'[d].pc = "drop" => n \notin FolderIds /\ req'[d].list = {n}
    BY <1>1, <2>1 DEF Begin, Idle
  <2>3. ASSUME req'[d].pc = "drop" PROVE Below(n)' = {n}
    <3>1. n \in Existing \cap AlbumIds
      BY <2>2, <2>3 DEF TypeOK, Nodes
    <3>2. UNCHANGED rows
      BY <1>5 DEF StartDelete, tree
    <3>3. QED
      BY <3>1, <3>2, AlbumIsALeaf, SameTree
  <2>4. Below(n)' = Below(req[d].id)'
    BY <2>2 DEF Below
  <2>5. QED
    BY <2>2, <2>3, <2>4
<1>6. CASE ListAlbums(d)
  <2>1. PICK f : f = req[d].id
    OBVIOUS
  <2>2. UNCHANGED rows
    BY <1>6 DEF ListAlbums, tree
  <2>3. CASE Refuse(d)
    BY <1>1, <2>3, DoneFields DEF Refuse, End, Becomes
  <2>4. CASE Becomes(d, [req[d] EXCEPT !.pc = "drop", !.list = SubtreeAlbumIDs(req[d].id)])
    <3>1. req'[d].pc = "drop" /\ req'[d].id = f /\ req'[d].list = Below(f) \cap AlbumIds
      BY <1>1, <2>1, <2>4 DEF Becomes, Call, SubtreeAlbumIDs
    <3>2. Below(f)' = Below(f) /\ Below(f)' = Below(req[d].id)' /\ Below(f) \subseteq Existing
      BY <2>2, <3>1, SameTree DEF Below
    <3>3. req'[d].list \subseteq Below(f)' /\ Below(f)' \cap AlbumIds \subseteq req'[d].list
      BY <3>1, <3>2
    <3>4. QED
      BY <3>1, <3>2, <3>3
  <2>5. QED
    BY <1>6, <2>3, <2>4 DEF ListAlbums
<1>7. CASE Drop(d)
  <2>1. req[d].pc = "drop" /\ req'[d].pc = "erase" /\ req'[d].list = req[d].list
    BY <1>1, <1>7 DEF Drop, Goto, Becomes, Call
  <2>2. Existing' \cap Below(req[d].id) = {}
    BY <1>7 DEF Drop, Cascade, Existing
  <2>3. req[d].list \cap Existing \subseteq Below(req[d].id) \cup escaped
    BY <2>1 DEF DeletionKnows
  <2>4. QED
    BY <1>1, <1>2, <2>1, <2>2, <2>3
<1>8. CASE EraseAlbum(d)
  <2>1. req[d].pc = "erase" /\ req'[d].pc = "erase" /\ req'[d].list \subseteq req[d].list
    BY <1>1, <1>8 DEF EraseAlbum, Becomes, Call
  <2>2. QED
    BY <1>1, <1>2, <2>1 DEF DeletionKnows
<1>9. QED
  BY <1>1, <1>3, <1>4, <1>5, <1>6, <1>7, <1>8, DeleterStep

\* Files whose album loses its row are on the list of the deletion that took it,
\* or came in too late for it.
LEMMA OwnerStep ==
  ASSUME Shapes, DeletionKnows, FilesHaveAnOwner, [Next]_vars
  PROVE  FilesHaveAnOwner'
<1> USE DEF Shapes
<1> DEFINE Owned(a) == a \in forGc \cup entered \/ \E r \in Deleters : req[r].pc = "erase" /\ a \in req[r].list
<1> SUFFICES ASSUME NEW a \in files', a \notin Existing' PROVE Owned(a)'
  BY DEF FilesHaveAnOwner
<1>1. /\ req \in [Requests -> Call] /\ Deleters \subseteq Requests
      /\ entered \subseteq entered' /\ forGc \subseteq forGc'
  <2>1. forGc \subseteq forGc'
    BY DEF Next, Create, Move, Delete, LookupKey, ResolveParent, Insert, WhichIndex, Reread,
       StartUpdate, CheckChain, Update, PublishPhotos, StartDelete, ListAlbums, Drop, EraseAlbum,
       EndDelete, Crash, vars, notes, Publish, Retry, Answered, RecordRemoteId,
       ClearPendingCreateKey, Quit, SendCreate
  <2>2. QED
    BY <2>1, NotesStep DEF TypeOK, Requests
<1>2. a \in files
  <2>1. CASE PublishPhotos
    <3>1. UNCHANGED rows
      BY <2>1 DEF PublishPhotos
    <3>2. QED
      BY <2>1, <3>1 DEF PublishPhotos, Existing
  <2>2. CASE ~PublishPhotos
    BY <2>2 DEF Next, Create, Move, Delete, LookupKey, ResolveParent, Insert, WhichIndex, Reread,
       StartUpdate, CheckChain, Update, PublishPhotos, StartDelete, ListAlbums, Drop, EraseAlbum,
       EndDelete, Crash, vars, tree, Publish, Retry, Answered, RecordRemoteId,
       ClearPendingCreateKey, Quit, SendCreate
  <2>3. QED
    BY <2>1, <2>2
<1>3. CASE a \in Existing
  <2>1. PICK r \in Deleters : Drop(r)
    BY <1>3, TreeStep DEF Adds, Update, Existing
  <2>2. req[r].pc = "drop" /\ req'[r].pc = "erase" /\ req'[r].list = req[r].list
    BY <1>1, <2>1 DEF Drop, Goto, Becomes, Call
  <2>3. a \in Below(req[r].id) \cap AlbumIds
    BY <1>2, <1>3, <2>1 DEF Drop, Cascade, Existing, TypeOK
  <2>4. QED
    BY <1>1, <2>2, <2>3 DEF DeletionKnows
<1>4. CASE a \notin Existing
  <2>1. CASE a \in forGc \cup entered
    BY <1>1, <2>1
  <2>2. ASSUME NEW r \in Deleters, req[r].pc = "erase", a \in req[r].list PROVE Owned(a)'
    <3>1. CASE req'[r] = req[r]
      BY <2>2, <3>1
    <3>2. CASE Crash
      BY <1>1, <2>2, <3>2 DEF Crash
    <3>3. CASE EraseAlbum(r)
      <4>1. PICK b \in req[r].list :
              /\ Becomes(r, [req[r] EXCEPT !.list = @ \ {b}])
              /\ \/ files' = files \ {b}
                 \/ forGc' = forGc \cup {b}
        BY <3>3 DEF EraseAlbum
      <4>2. req'[r].pc = "erase" /\ req'[r].list = req[r].list \ {b}
        BY <1>1, <2>2, <4>1 DEF Becomes, Call
      <4>3. CASE a = b
        BY <4>1, <4>3
      <4>4. CASE a # b
        BY <2>2, <4>2, <4>4
      <4>5. QED
        BY <4>3, <4>4
    <3>4. CASE StartDelete(r) \/ ListAlbums(r) \/ Drop(r)
      BY <2>2, <3>4 DEF StartDelete, ListAlbums, Drop, Free
    <3>5. QED
      BY <1>1, <2>2, <3>1, <3>2, <3>3, <3>4, DeleterStep
  <2>3. QED
    BY <1>2, <1>4, <2>1, <2>2 DEF FilesHaveAnOwner
<1>5. QED
  BY <1>3, <1>4

-----------------------------------------------------------------------------
(***************************************************************************)
(* The invariant, and what follows from it.                                *)
(***************************************************************************)

\* A scenario's tree, with nothing under way.
LEMMA InitIInv ==
  ASSUME Init
  PROVE  IInv
<1>1. PICK s \in Scenarios :
        /\ rows = [n \in DOMAIN s.parents |-> [parent |-> s.parents[n], key |-> None]]
        /\ files = s.files
        /\ fresh = Nodes \ DOMAIN s.parents
        /\ left = s.calls
  BY DEF Init
<1> DEFINE D == DOMAIN s.parents
<1>2. /\ s.parents \in [D -> (FolderIds \cap D) \cup {Root}] /\ D \subseteq Nodes
      /\ s.files \subseteq D \cap AlbumIds /\ s.calls \in [Requests -> Nat]
  BY CatalogConstants
<1>3. /\ Existing = D /\ \A n \in D : rows[n].parent \in (FolderIds \cap D) \cup {Root} /\ rows[n].key = None
      /\ files \subseteq Existing \cap AlbumIds /\ fresh = Nodes \ Existing
      /\ left \in [Requests -> Nat]
  BY <1>1, <1>2 DEF Existing
<1>4. Existing \subseteq Nodes /\ rows \in [Existing -> Row]
  BY <1>1, <1>2, <1>3 DEF Row
<1> HIDE DEF D
<1>5. \A r \in Requests : /\ req[r].pc = "idle" /\ req[r].op = None /\ req[r].id = None
                          /\ req[r].to = None /\ req[r].key = None /\ req[r].list = {}
  BY DEF Init, Idle
<1>6. TypeOK
  <2>1. req \in [Requests -> Call]
    BY CallType DEF Init
  <2>2. files \subseteq AlbumIds /\ fresh \subseteq Nodes /\ 0 \in 0..MaxFaults
    BY <1>3, CatalogConstants
  <2>3. QED
    BY <1>3, <1>4, <2>1, <2>2 DEF Init, TypeOK
<1>7. RequestsFit
  BY <1>5, Sentinels DEF RequestsFit, Fits
<1>8. FreshIsUnused
  BY <1>3, <1>5, Sentinels DEF FreshIsUnused, Init
<1>9. Reachable
  BY <1>3 DEF Reachable, Folders
<1>10. Subtrees
  BY <1>3, <1>5 DEF Subtrees, DeletionKnows, FilesHaveAnOwner, Requests
<1>11. Made = {}
  BY <1>3 DEF Made
<1>12. KeyIsUnique /\ AnswerIsKeyed /\ ClientFits
  <2>1. KeyIsUnique
    BY <1>5, <1>11, Sentinels DEF KeyIsUnique, Init
  <2>2. AnswerIsKeyed
    BY <1>5 DEF AnswerIsKeyed
  <2>3. ClientFits
    BY <1>4, Sentinels DEF ClientFits, Init
  <2>4. QED
    BY <2>1, <2>2, <2>3
<1>13. OneKeyAtATime
  <2>1. \A r \in Creators, k \in Keys : ~Creating(r, k)
    BY <1>5, Sentinels DEF Creating, Requests
  <2>2. QED
    BY <1>11, <2>1 DEF OneKeyAtATime, Init
<1>14. QED
  BY <1>6, <1>7, <1>8, <1>9, <1>10, <1>12, <1>13 DEF IInv, Shapes, KeysInv

\* Every step keeps the invariant.
LEMMA NextIInv ==
  ASSUME IInv, [Next]_vars
  PROVE  IInv'
<1> USE DEF IInv
<1>1. Shapes'
  BY TypeStep, FitsStep, FreshStep, ReachableStep DEF Shapes, KeysInv
<1>2. Subtrees'
  BY DeletionStep, OwnerStep DEF Subtrees
<1>3. KeysInv'
  <2>1. KeyIsUnique' /\ AnswerIsKeyed' /\ ClientFits'
    BY KeyIsUniqueStep, AnswerStep, ClientFitsStep DEF Shapes, KeysInv
  <2>2. late' \/ OneKeyAtATime'
    BY OneKeyStep
  <2>3. QED
    BY <2>1, <2>2 DEF KeysInv
<1>4. QED
  BY <1>1, <1>2, <1>3

\* The invariant holds throughout.
THEOREM AlwaysIInv == Spec => []IInv
BY InitIInv, NextIInv, PTL DEF Spec

\* The variables keep their types.
THEOREM TypeOKAlways == Spec => []TypeOK
<1>1. IInv => TypeOK
  BY DEF IInv, Shapes
<1>2. QED
  BY <1>1, AlwaysIInv, PTL

\* No folder is deleted from above a node that a call puts there at the same
\* time: every node can be reached from the root's listing and deleted.
THEOREM ReachableAlways == Spec => []Reachable
<1>1. IInv => Reachable
  BY DEF IInv, Shapes
<1>2. QED
  BY <1>1, AlwaysIInv, PTL

\* Whatever is created, moved, published and deleted at the same time, and
\* wherever the server dies, files without a row are somebody's to remove.
THEOREM FilesHaveAnOwnerAlways == Spec => []FilesHaveAnOwner
<1>1. IInv => FilesHaveAnOwner
  BY DEF IInv, Subtrees
<1>2. QED
  BY <1>1, AlwaysIInv, PTL

\* No deletion removes the files of an album that keeps its row, unless the
\* album left the subtree between the listing and the statement.
THEOREM RowsKeepFilesAlways == Spec => RowsKeepFiles
<1>1. ASSUME IInv, [Next]_vars
      PROVE  [\A a \in files \ files' : a \in DOMAIN rows' => a \in escaped]_vars
  <2>1. SUFFICES ASSUME NEW a \in files, a \notin files', a \in DOMAIN rows' PROVE a \in escaped
    OBVIOUS
  <2>2. PICK r \in Deleters : EraseAlbum(r)
    BY <1>1, <2>1 DEF Next, Create, Move, Delete, LookupKey, ResolveParent, Insert, WhichIndex, Reread,
       StartUpdate, CheckChain, Update, PublishPhotos, StartDelete, ListAlbums, Drop, EndDelete, Crash,
       vars, tree, Publish, Retry, Answered, RecordRemoteId, ClearPendingCreateKey, Quit, SendCreate
  <2>3. req[r].pc = "erase" /\ a \in req[r].list /\ a \in Existing
    BY <2>1, <2>2 DEF EraseAlbum, Existing
  <2>4. QED
    BY <1>1, <2>3 DEF IInv, Subtrees, DeletionKnows
<1>2. QED
  BY <1>1, AlwaysIInv, PTL DEF Spec, RowsKeepFiles

\* Two creates that were answered with the same key were answered with the same
\* node, as long as both nodes are there.
THEOREM SameKeySameNodeAlways == Spec => []SameKeySameNode
<1>1. ASSUME IInv PROVE SameKeySameNode
  <2> USE <1>1 DEF IInv, Shapes, KeysInv
  <2>1. SUFFICES ASSUME NEW r \in Creators, NEW s \in Creators,
                        req[r].pc = "done", req[s].pc = "done", req[r].key = req[s].key,
                        req[r].id \in Existing, req[s].id \in Existing
                 PROVE  req[r].id = req[s].id
    BY DEF SameKeySameNode
  <2>2. ASSUME NEW q \in {r, s} PROVE req[q].id \in Made /\ rows[req[q].id].key = req[q].key
    <3>1. q \in Requests /\ req[q].id # None
      BY <2>1, Sentinels DEF Requests, TypeOK
    <3>2. req[q].key # None
      BY <2>1, <3>1 DEF RequestsFit, Fits
    <3>3. rows[req[q].id].key = req[q].key
      BY <2>1, <3>1 DEF AnswerIsKeyed
    <3>4. QED
      BY <2>1, <3>2, <3>3 DEF Made
  <2>3. QED
    BY <2>1, <2>2 DEF KeyIsUnique
<1>2. QED
  BY <1>1, AlwaysIInv, PTL

\* While no create has outlived its node, the nodes made for the collection are
\* at most one.
LEMMA MadeIsOne ==
  ASSUME IInv, ~late, NEW n \in Made, NEW m \in Made
  PROVE  n = m
<1>1. KeyIsUnique /\ OneKeyAtATime /\ Made \subseteq Existing
  BY DEF IInv, KeysInv, Made
<1>2. ASSUME NEW x \in Made, rows[x].key = savedKey PROVE x = remote \/ remote \notin Existing
  <2>1. ASSUME remote \in Existing PROVE remote \in Made /\ rows[remote].key = savedKey
    BY <1>1, <1>2, <2>1 DEF OneKeyAtATime, Made
  <2>2. QED
    BY <1>1, <1>2, <2>1 DEF KeyIsUnique
<1>3. QED
  BY <1>1, <1>2 DEF OneKeyAtATime, KeyIsUnique

\* Publishing a collection makes one node on the server, whatever is retried,
\* lost or given up, as long as no create outlives the deletion of its node.
THEOREM OneNodePerCollectionAlways == Spec => []OneNodePerCollection
<1>1. ASSUME IInv PROVE OneNodePerCollection
  <2>1. SUFFICES ASSUME ~late PROVE Cardinality(Made) <= 1
    BY DEF OneNodePerCollection
  <2>2. CASE Made = {}
    BY <2>2, FS_EmptySet
  <2>3. CASE Made # {}
    <3>1. PICK n : Made = {n}
      BY <1>1, <2>1, <2>3, MadeIsOne
    <3>2. Cardinality({n}) = 1
      BY FS_Singleton
    <3>3. QED
      BY <3>1, <3>2
  <2>4. QED
    BY <2>2, <2>3
<1>2. QED
  BY <1>1, AlwaysIInv, PTL

\* The node the collection has recorded is the one that was made for it.
THEOREM RecordedIsMadeAlways == Spec => []RecordedIsMade
<1>1. ASSUME IInv PROVE RecordedIsMade
  <2>1. SUFFICES ASSUME ~late, remote \in Existing PROVE Made = {remote}
    BY DEF RecordedIsMade
  <2>2. remote \in Made
    BY <1>1, <2>1 DEF IInv, KeysInv, ClientFits
  <2>3. QED
    BY <1>1, <2>1, <2>2, MadeIsOne
<1>2. QED
  BY <1>1, AlwaysIInv, PTL

-----------------------------------------------------------------------------
(***************************************************************************)
(* Updates that come one at a time.                                        *)
(***************************************************************************)

\* Nothing is above what is not there.
LEMMA NoChain ==
  ASSUME NEW n, n \notin Existing
  PROVE  Chain(n) = {}
<1>1. Closed({}) /\ {} \in SUBSET Existing
  BY DEF Closed
<1>2. QED
  BY <1>1, ChainIsLeast

\* An album is above nothing.
LEMMA AlbumIsAboveNothing ==
  ASSUME TypeOK, Reachable, NEW a \in Nodes \ FolderIds, NEW f \in Folders \cup {Root}
  PROVE  a \notin Chain(f)
<1>1. Root \notin Existing
  BY Sentinels DEF TypeOK
<1>2. CASE f = Root
  BY <1>1, <1>2, NoChain
<1>3. CASE f # Root
  <2>1. SUFFICES ASSUME a \in Chain(f) PROVE FALSE
    OBVIOUS
  <2>2. a \in Existing \cap AlbumIds /\ f \in Existing
    BY <1>3, <2>1, ChainIsClosed DEF Nodes, Folders
  <2>3. f \in Below(a)
    BY <2>1, <2>2 DEF Below
  <2>4. QED
    BY <1>3, <2>2, <2>3, AlbumIsALeaf DEF Folders
<1>4. QED
  BY <1>2, <1>3

\* The trees to start with have no cycle.
LEMMA InitOrder ==
  ASSUME Init
  PROVE  Order
<1>1. PICK s \in Scenarios :
        rows = [n \in DOMAIN s.parents |-> [parent |-> s.parents[n], key |-> None]]
  BY DEF Init
<1>2. /\ Existing = DOMAIN s.parents /\ \A n \in Existing : rows[n].parent = s.parents[n]
      /\ \A S \in SUBSET Existing : S # {} => \E n \in S : s.parents[n] \notin S
  BY <1>1, CatalogConstants DEF Existing
<1>3. ASSUME NEW f \in Folders, f \in Chain(rows[f].parent) PROVE FALSE
  <2> DEFINE p == rows[f].parent
             S == {x \in Chain(p) : f \in Chain(x)}
  <2>1. f \in S /\ S \subseteq Existing /\ f \in Existing
    BY <1>3, OnOwnChain, ChainIsClosed DEF Folders
  <2>2. PICK n \in S : rows[n].parent \notin S
    BY <1>2, <2>1
  <2>3. n \in Existing /\ n \in Chain(p) /\ f \in Chain(n)
    BY <2>1, <2>2
  <2>4. CASE f \in Chain(rows[n].parent)
    <3>1. rows[n].parent \in Existing
      BY <2>4, NoChain
    <3>2. rows[n].parent \in Chain(p)
      BY <2>3, <3>1, ChainIsClosed DEF Closed
    <3>3. QED
      BY <2>2, <2>4, <3>2
  <2>5. CASE f \notin Chain(rows[n].parent)
    <3>1. f = n
      BY <2>3, <2>5, ChainOfParent
    <3>2. QED
      BY <1>3, <2>5, <3>1
  <2>6. QED
    BY <2>4, <2>5
<1>4. MoveIsChecked
  <2>1. \A r \in Requests : req[r].pc = "idle"
    BY DEF Init, Idle
  <2>2. QED
    BY <2>1 DEF MoveIsChecked, Requests
<1>5. QED
  BY <1>3, <1>4 DEF Order, NoFolderInItself, OnCycle

\* A chain does not grow where a node is created or deleted.
LEMMA ChainStays ==
  ASSUME TypeOK, FreshIsUnused, Reachable, [Next]_vars, ~(\E r \in Movers : Update(r)),
         NEW f, f \notin fresh
  PROVE  Chain(f)' \subseteq Chain(f)
<1>1. CASE UNCHANGED <<rows, fresh>>
  BY <1>1, SameTree
<1>2. ASSUME NEW r \in Creators, NEW n \in Nodes, Adds(r, n) PROVE Chain(f)' \subseteq Chain(f)
  <2>1. PICK C : C = Chain(f)
    OBVIOUS
  <2>2. /\ Existing' = Existing \cup {n} /\ n \in fresh /\ n \notin Existing
        /\ \A m \in Existing : rows'[m] = rows[m]
    BY <1>2 DEF Adds, Existing, FreshIsUnused
  <2>3. Closed(C) /\ C \subseteq Existing
    BY <2>1, ChainIsClosed
  <2>4. \A m \in C : rows[m].parent \notin fresh
    BY <2>3, CatalogConstants DEF Reachable, Folders, FreshIsUnused, TypeOK
  <2>5. Closed(C)'
    BY <2>2, <2>3, <2>4 DEF Closed
  <2>6. {f} \cap Existing' \subseteq C
    BY <2>1, <2>2, OnOwnChain
  <2>7. QED
    BY <2>1, <2>2, <2>3, <2>5, <2>6 DEF Chain
<1>3. ASSUME NEW r \in Deleters, Drop(r) PROVE Chain(f)' \subseteq Chain(f)
  <2>1. ASSUME NEW m \in Chain(f)' PROVE m \in Chain(f)
    <3>1. f \in Existing' /\ m \in Existing'
      <4>1. Closed({})'
        BY DEF Closed
      <4>2. f \in Existing'
        BY <2>1, <4>1 DEF Chain
      <4>3. Chain(f)' \subseteq Existing'
        BY DEF Chain
      <4>4. QED
        BY <2>1, <4>2, <4>3
    <3>2. f \in Below(m)'
      BY <2>1, <3>1 DEF Below
    <3>3. f \in Below(m)
      BY <1>3, <3>2, PrunedTree DEF Drop, Cascade
    <3>4. QED
      BY <3>3 DEF Below
  <2>2. QED
    BY <2>1
<1>4. QED
  BY <1>1, <1>2, <1>3, TreeStep

\* Where a move has been checked, the statement closes no cycle.
LEMMA UpdateKeepsOrder ==
  ASSUME TypeOK, Reachable, NoFolderInItself, NEW r \in Movers, Update(r),
         req[r].id \notin Chain(req[r].to)
  PROVE  NoFolderInItself'
<1>1. CASE UNCHANGED rows
  <2>1. ASSUME NEW f \in Existing PROVE Chain(rows[f].parent)' = Chain(rows[f].parent)
    BY <1>1 DEF Chain, Closed, Existing
  <2>2. QED
    BY <1>1, <2>1 DEF NoFolderInItself, OnCycle, Folders, Existing
<1>2. ASSUME NEW n \in Existing, NEW t \in Folders \cup {Root}, n \notin Chain(t),
             rows' = [rows EXCEPT ![n].parent = t]
      PROVE  NoFolderInItself'
  <2>1. /\ Existing' = Existing /\ rows'[n].parent = t
        /\ \A m \in Existing \ {n} : rows'[m] = rows[m]
    BY <1>2 DEF Existing, TypeOK, Row
  <2>2. PICK T : T = Chain(t)
    OBVIOUS
  <2>3. T \subseteq Existing /\ Closed(T) /\ n \notin T /\ {t} \cap Existing \subseteq T
    BY <1>2, <2>2, ChainIsClosed, OnOwnChain
  <2>4. ASSUME NEW f \in Folders, f \in Chain(rows[f].parent)' PROVE FALSE
    <3>1. f \in Existing /\ f \notin Chain(rows[f].parent)
      BY DEF NoFolderInItself, OnCycle, Folders
    <3>2. ASSUME NEW S \in SUBSET Existing, Closed(S)', {rows'[f].parent} \cap Existing \subseteq S
          PROVE  f \in S
      BY <2>1, <2>4, <3>2 DEF Chain
    <3>3. CASE f = n
      <4>1. Closed(T)'
        BY <2>1, <2>3 DEF Closed
      <4>2. QED
        BY <2>1, <2>3, <3>2, <3>3, <4>1
    <3>4. CASE f # n
      <4>1. PICK P : P = Chain(rows[f].parent)
        OBVIOUS
      <4>2. /\ P \subseteq Existing /\ Closed(P) /\ {rows[f].parent} \cap Existing \subseteq P
            /\ rows'[f].parent = rows[f].parent
        BY <2>1, <3>1, <3>4, <4>1, ChainIsClosed, OnOwnChain
      <4>3. Closed(P \cup T)'
        BY <2>1, <2>3, <4>2 DEF Closed
      <4>4. f \in T
        BY <2>3, <3>1, <3>2, <4>1, <4>2, <4>3
      <4>5. CASE n \in P
        <5>1. n \in Chain(f) /\ Chain(f) \subseteq Chain(t)
          BY <2>2, <3>1, <4>1, <4>4, <4>5, ChainOfParent, ChainOnChain
        <5>2. QED
          BY <2>2, <2>3, <5>1
      <4>6. CASE n \notin P
        <5>1. Closed(P)'
          BY <2>1, <4>2, <4>6 DEF Closed
        <5>2. QED
          BY <3>1, <3>2, <4>1, <4>2, <5>1
      <4>7. QED
        BY <4>5, <4>6
    <3>5. QED
      BY <3>3, <3>4
  <2>5. QED
    BY <2>1, <2>4 DEF NoFolderInItself, OnCycle, Folders
<1>3. QED
  BY <1>1, <1>2 DEF Update, IsParent

\* Which step brought a request to its write.
LEMMA WriterStep ==
  ASSUME TypeOK, RequestsFit, Reachable, [Next]_vars, NEW r \in Requests, req'[r].pc = "write"
  PROVE  req'[r] = req[r] \/ StartUpdate(r) \/ ResolveParent(r) \/ CheckChain(r)
<1>1. req \in [Requests -> Call]
  BY DEF TypeOK
<1>2. ~Crash \/ req'[r] = req[r]
  BY DoneFields DEF Crash
<1>3. ~SendCreate(r) /\ ~Update(r) /\ ~StartDelete(r) /\ ~EndDelete(r)
  <2>1. ASSUME SendCreate(r) PROVE req'[r].pc = "lookup"
    BY <1>1, <2>1 DEF SendCreate, Begin, Idle
  <2>2. ASSUME StartDelete(r) PROVE req'[r].pc \in {"list", "drop"}
    BY <1>1, <2>2 DEF StartDelete, Begin, Idle
  <2>3. ASSUME End(r) PROVE req'[r].pc = "done"
    BY <1>1, <2>3, DoneFields DEF End, Becomes
  <2>4. QED
    BY <2>1, <2>2, <2>3 DEF Update, EndDelete
<1>4. ~ListAlbums(r) /\ ~Drop(r) /\ ~EraseAlbum(r)
  BY <1>1, DoneFields DEF ListAlbums, Drop, EraseAlbum, Goto, Refuse, End, Becomes, Call
<1>5. QED
  BY <1>2, <1>3, <1>4, Actor, CreatePc DEF Move, Delete

\* What the check of a move found stays true while nobody else moves anything.
LEMMA MoveIsCheckedStep ==
  ASSUME \A r, s \in Movers : r = s, Shapes, Order, [Next]_vars
  PROVE  MoveIsChecked'
<1> USE DEF Shapes
<1> SUFFICES ASSUME NEW r \in Movers, req'[r].pc = "write"
             PROVE  req'[r].id \notin Chain(req[r].to)'
  BY DEF MoveIsChecked
<1>1. req \in [Requests -> Call] /\ r \in Requests /\ Fits(r)
  BY DEF TypeOK, RequestsFit, Requests
<1>2. PICK t : t = req'[r].to
  OBVIOUS
<1>3. Chain(t)' = Chain(req[r].to)'
  BY <1>2 DEF Chain
<1>4. CASE req'[r] = req[r]
  <2>1. req[r].id \notin Chain(t) /\ t \notin fresh
    BY <1>1, <1>2, <1>4 DEF Order, MoveIsChecked, FreshIsUnused
  <2>2. ~(\E s \in Movers : Update(s))
    BY <1>1, <1>4, DoneFields DEF Update, End, Becomes
  <2>3. QED
    BY <1>3, <1>4, <2>1, <2>2, ChainStays
<1>5. ASSUME req'[r].id \notin Chain(t), UNCHANGED rows PROVE req'[r].id \notin Chain(req[r].to)'
  BY <1>3, <1>5, SameTree
<1>6. CASE StartUpdate(r)
  <2>1. UNCHANGED rows
    BY <1>6 DEF StartUpdate, tree
  <2>2. PICK n \in Existing :
          \/ Begin(r, [Idle EXCEPT !.pc = "write", !.op = "move", !.id = n, !.to = rows[n].parent])
          \/ \E f \in (Folders \cup {Root}) \ {n} :
                Begin(r, [Idle EXCEPT !.pc = "parent", !.op = "move", !.id = n, !.to = f])
    BY <1>6 DEF StartUpdate
  <2>3. req'[r].id = n /\ t = rows[n].parent
    <3>1. CASE Begin(r, [Idle EXCEPT !.pc = "write", !.op = "move", !.id = n, !.to = rows[n].parent])
      BY <1>1, <1>2, <3>1 DEF Begin, Idle
    <3>2. ASSUME NEW f, Begin(r, [Idle EXCEPT !.pc = "parent", !.op = "move", !.id = n, !.to = f])
          PROVE  FALSE
      <4>1. req'[r].pc = "parent"
        BY <1>1, <3>2 DEF Begin, Idle
      <4>2. QED
        BY <4>1
    <3>3. QED
      BY <2>2, <3>1, <3>2
  <2>4. n \notin Chain(t)
    <3>1. CASE n \in FolderIds
      BY <2>3, <3>1 DEF Order, NoFolderInItself, OnCycle, Folders
    <3>2. CASE n \notin FolderIds
      <4>1. n \in Nodes \ FolderIds /\ t \in Folders \cup {Root}
        BY <2>3, <3>2 DEF TypeOK, Reachable
      <4>2. QED
        BY <4>1, AlbumIsAboveNothing
    <3>3. QED
      BY <3>1, <3>2
  <2>5. QED
    BY <1>5, <2>1, <2>3, <2>4
<1>7. CASE CheckChain(r)
  <2>1. /\ req'[r].id = req[r].id /\ t = req[r].to /\ MayHold(r) /\ UNCHANGED rows
    <3>1. Goto(r, "write") /\ MayHold(r) /\ UNCHANGED rows
      BY <1>1, <1>7, DoneFields DEF CheckChain, Refuse, End, Becomes, tree
    <3>2. QED
      BY <1>1, <1>2, <3>1 DEF Goto, Becomes, Call
  <2>2. QED
    BY <1>5, <2>1 DEF MayHold
<1>8. CASE ResolveParent(r)
  <2>1. IsParent(req[r].to) /\ UNCHANGED rows /\ req[r].pc = "parent" /\ ~Refuse(r)
    BY <1>1, <1>8, DoneFields DEF ResolveParent, Refuse, End, Becomes, tree
  <2>2. ASSUME NEW pc, Goto(r, pc) PROVE pc = "write" /\ req'[r].id = req[r].id /\ t = req[r].to
    BY <1>1, <1>2, <2>2 DEF Goto, Becomes, Call
  <2>3. /\ req'[r].id = req[r].id /\ t = req[r].to
        /\ req[r].op = "move" /\ (req[r].id \notin FolderIds \/ req[r].to = Root)
    BY <1>1, <1>8, <2>1, <2>2 DEF ResolveParent, Fits
  <2>4. CASE req[r].to = Root
    <3>1. Root \notin Existing
      BY Sentinels DEF TypeOK
    <3>2. QED
      BY <1>5, <2>1, <2>3, <2>4, <3>1, NoChain
  <2>5. CASE req[r].id \notin FolderIds
    <3>1. req[r].id \in Nodes \ FolderIds
      BY <1>1, <2>3, <2>5 DEF Fits, Call
    <3>2. QED
      BY <1>5, <2>1, <2>3, <3>1, AlbumIsAboveNothing DEF IsParent
  <2>6. QED
    BY <2>3, <2>4, <2>5
<1>9. QED
  BY <1>1, <1>4, <1>6, <1>7, <1>8, WriterStep

\* No folder ends up beneath itself while updates come one at a time.
LEMMA OrderStep ==
  ASSUME \A r, s \in Movers : r = s, Shapes, Order, [Next]_vars
  PROVE  Order'
<1> USE DEF Shapes
<1>1. MoveIsChecked'
  BY MoveIsCheckedStep
<1>2. ASSUME NEW r \in Movers, Update(r) PROVE NoFolderInItself'
  BY <1>2, UpdateKeepsOrder DEF Order, MoveIsChecked, Update
<1>3. CASE ~(\E r \in Movers : Update(r))
  <2>1. ASSUME NEW f \in Folders', f \in Chain(rows[f].parent)' PROVE FALSE
    <3>1. PICK p : p = rows'[f].parent
      OBVIOUS
    <3>2. f \in Chain(p)'
      BY <2>1, <3>1 DEF Chain
    <3>3. CASE f \in Existing
      <4>1. rows'[f].parent = rows[f].parent
        <5>1. CASE UNCHANGED <<rows, fresh>>
          BY <5>1
        <5>2. ASSUME NEW r \in Creators, NEW n \in Nodes, Adds(r, n) PROVE rows'[f] = rows[f]
          BY <3>3, <5>2 DEF Adds, FreshIsUnused, Existing
        <5>3. ASSUME NEW r \in Deleters, Drop(r) PROVE rows'[f] = rows[f]
          BY <2>1, <5>3 DEF Drop, Existing, Folders
        <5>4. QED
          BY <1>3, <5>1, <5>2, <5>3, TreeStep
      <4>2. p \notin fresh
        BY <3>1, <3>3, <4>1, CatalogConstants DEF Reachable, FreshIsUnused, Folders, TypeOK
      <4>3. f \in Chain(p)
        BY <1>3, <3>2, <4>2, ChainStays
      <4>4. QED
        BY <2>1, <3>1, <3>3, <4>1, <4>3 DEF Order, NoFolderInItself, OnCycle, Folders
    <3>4. CASE f \notin Existing
      <4>1. PICK r \in Creators : Adds(r, f)
        BY <2>1, <3>4, KeyStep DEF Folders
      <4>2. p = req[r].to /\ p \in Folders \cup {Root}
        BY <3>1, <4>1 DEF Adds, IsParent, Existing
      <4>3. p \notin fresh
        BY <4>2, CatalogConstants DEF FreshIsUnused, Folders, TypeOK
      <4>4. f \in Chain(p) /\ Chain(p) \subseteq Existing
        BY <1>3, <3>2, <4>3, ChainStays, ChainIsClosed
      <4>5. QED
        BY <3>4, <4>4
    <3>5. QED
      BY <3>3, <3>4
  <2>2. QED
    BY <1>1, <2>1 DEF Order, NoFolderInItself, OnCycle, Folders
<1>4. QED
  BY <1>1, <1>2, <1>3 DEF Order

\* With one update at a time, whatever is created and deleted beside it, no
\* folder is ever moved into its own subtree.
THEOREM NoFolderInItselfAlways ==
  ASSUME \A r, s \in Movers : r = s
  PROVE  Spec => []NoFolderInItself
<1>1. Init => Order
  BY InitOrder
<1>2. IInv /\ Order /\ [Next]_vars => Order'
  BY OrderStep DEF IInv
<1>3. Order => NoFolderInItself
  BY DEF Order
<1>4. QED
  BY <1>1, <1>2, <1>3, AlwaysIInv, PTL DEF Spec
=============================================================================
