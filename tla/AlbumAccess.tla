---------------------------- MODULE AlbumAccess -----------------------------
(***************************************************************************)
(* Who may see an album: its password and the version the password has,    *)
(* the publish requests and administrator's commands that change them, the *)
(* API key the requests come with, and the visitors who unlock the album   *)
(* and keep the grants in a signed cookie.                                 *)
(*                                                                         *)
(* A handler reads a row in one statement, spends its time on bcrypt (or   *)
(* the administrator at a prompt), and writes in another; a browser with   *)
(* two tabs has two requests under way with one cookie.                    *)
(***************************************************************************)
EXTENDS RateLimiter, Sequences

CONSTANTS
  AlbumIds, Slugs, SlugOf,
  Passwords, None,
  Keep, Clear,        \* a password field left out, and one left empty
  Browsers, Tabs, BrowserOf,
  Publishers,         \* requests that carry the API key
  Admins,             \* runs of "smugbox admin"
  MaxGrants,          \* grants a cookie holds
  Lifetime,           \* ticks a cookie is valid
  MaxSecrets,         \* bound on the secrets there are to draw
  Scenarios           \* what exists at the start and what is then done

Editors == Publishers \cup Admins

ASSUME AccessConstants ==
  /\ SlugOf \in [AlbumIds -> Slugs] /\ BrowserOf \in [Tabs -> Browsers]
  /\ {None, Keep, Clear} \cap Passwords = {} /\ Keep # Clear /\ None \notin Nat
  /\ Publishers \cap Admins = {}
  /\ MaxGrants \in Nat \ {0} /\ Lifetime \in Nat \ {0} /\ MaxSecrets \in Nat \ {0}
  /\ Clients = Browsers \X Slugs
  /\ \A s \in Scenarios :
        /\ s.albums \subseteq AlbumIds /\ s.until \in 0..LastTick
        /\ s.ops \subseteq {"update", "create", "delete", "password", "revoke"}
        /\ s.edits \in [Editors -> Nat] /\ s.asks \in [Tabs -> Nat] /\ s.boots \in Nat

VARIABLES
  rows,       \* the album rows: a function from the ids that exist
  used,       \* ids used up
  revoked,    \* whether the API key is
  everRevoked, \* whether it ever was
  stored,     \* the session secret in the database; 0 before the first boot
  secret,     \* the one the server signs with; 0 while it is down
  drawn,      \* secrets drawn so far
  edit,       \* edit[e]: the call of editor e
  tab,        \* tab[t]: the unlock request of tab t
  jar,        \* jar[b]: the cookie browser b keeps
  plan,       \* what the scenario still has in store
  raced,      \* albums written over a row that its writer had not read
  admitted,   \* admitted[k][i]: attempts of client k let through up to tick i
  retryAt,    \* when a client that was turned away was told to come back
  promised    \* promised[b]: what the unlocks of b's tabs may count on

table   == <<rows, used, raced>>
server  == <<stored, secret, drawn>>
apiKey  == <<revoked, everRevoked>>
visits  == <<limiter, admitted, retryAt, tab, jar, promised>>
vars    == <<clock, table, apiKey, server, edit, visits, plan>>

\* A grant has an id and a version; the password it was given for is noted.
Row     == [pw : Passwords \cup {None}, version : Nat]
Grant   == [id : AlbumIds, version : Nat, pw : Passwords]
Cookie  == [exp : Nat, secret : 0..MaxSecrets, grants : Seq(Grant)]
NoCookie == [exp |-> 0, secret |-> 0, grants |-> <<>>]

Edit == [pc   : {"idle", "touch", "read", "write"},
         op   : {"update", "create", "delete", "password", None},
         id   : AlbumIds \cup {None},
         pw   : Passwords \cup {Keep, Clear},
         seen : Row \cup {None}]
NoEdit == [pc |-> "idle", op |-> None, id |-> None, pw |-> Keep, seen |-> None]

Ask == [pc   : {"idle", "read", "answer"},
        slug : Slugs \cup {None},
        pw   : Passwords \cup {None},
        sent : Cookie,
        gave : Grant \cup {None}]
NoAsk == [pc |-> "idle", slug |-> None, pw |-> None, sent |-> NoCookie, gave |-> None]

Protected(r) == r.pw # None

Init ==
  /\ clock = 0 /\ LimiterInit
  /\ \E s \in Scenarios :
        /\ plan = [ops |-> s.ops, edits |-> s.edits, asks |-> s.asks,
                   boots |-> s.boots, until |-> s.until]
        /\ used = s.albums
        /\ \E p \in Passwords : rows = [a \in s.albums |-> [pw |-> p, version |-> 1]]
  /\ revoked = FALSE /\ everRevoked = FALSE
  /\ stored = 0 /\ secret = 0 /\ drawn = 0
  /\ edit = [e \in Editors |-> NoEdit]
  /\ tab = [t \in Tabs |-> NoAsk]
  /\ jar = [b \in Browsers |-> NoCookie]
  /\ raced = {}
  /\ admitted = [k \in Clients |-> [i \in Ticks |-> 0]]
  /\ retryAt = [k \in Clients |-> None]
  /\ promised = [b \in Browsers |-> {}]

Up == secret # 0

-----------------------------------------------------------------------------
(***************************************************************************)
(* The API key and the publish requests made with it.                      *)
(***************************************************************************)
MayEdit(e, op) == edit[e].pc = "idle" /\ op \in plan.ops /\ plan.edits[e] > 0
Begin(e, call) == /\ edit' = [edit EXCEPT ![e] = call]
                  /\ plan' = [plan EXCEPT !.edits[e] = @ - 1]
Becomes(e, call) == edit' = [edit EXCEPT ![e] = call] /\ UNCHANGED plan
Goto(e, pc)      == Becomes(e, [edit[e] EXCEPT !.pc = pc])
End(e)           == Becomes(e, NoEdit)

\* requireAPIKey looks the key up and refuses one that is revoked.  When the key
\* was last used long enough ago, a second statement notes its use.
Publish(p) ==
  /\ Up /\ ~revoked
  /\ \E op \in {"update", "create"}, pc \in {"touch", "read"}, pw \in Passwords \cup {Keep, Clear} :
        /\ MayEdit(p, op)
        /\ op = "create" => pw # Clear
        /\ \E a \in IF op = "create" THEN {None} ELSE used :
              Begin(p, [pc |-> pc, op |-> op, id |-> a, pw |-> pw, seen |-> None])
  /\ UNCHANGED <<clock, table, apiKey, server, visits>>

WholeKey    == revoked' = FALSE     \* mutant: the row is written as it was read
TouchAPIKey == UNCHANGED revoked

Touch(p) ==
  /\ edit[p].pc = "touch"
  /\ TouchAPIKey
  /\ Goto(p, "read")
  /\ UNCHANGED <<clock, table, everRevoked, server, visits>>

Revoke(e) ==
  /\ MayEdit(e, "revoke") /\ ~revoked
  /\ revoked' = TRUE /\ everRevoked' = TRUE
  /\ Begin(e, NoEdit)
  /\ UNCHANGED <<clock, table, server, visits>>

(***************************************************************************)
(* An album's password.  updateAlbum and set-password read the whole row   *)
(* and later write the whole row.                                          *)
(***************************************************************************)
Secured(seen, pw) == [pw |-> IF pw = Clear THEN None ELSE pw, version |-> seen.version + 1]

\* updateAlbum leaves the version alone when the password stays what it is.
Updated(seen, pw) ==
  IF pw \in {Keep, seen.pw} \/ (pw = Clear /\ ~Protected(seen)) THEN seen
  ELSE Secured(seen, pw)

Written(call) == IF call.op = "password" THEN Secured(call.seen, call.pw)
                                         ELSE Updated(call.seen, call.pw)

\* updateAlbum's albumFromPath.
ReadAlbum(p) ==
  /\ edit[p].pc = "read" /\ edit[p].op = "update"
  /\ IF edit[p].id \in DOMAIN rows
     THEN Becomes(p, [edit[p] EXCEPT !.pc = "write", !.seen = rows[edit[p].id]])
     ELSE End(p)
  /\ UNCHANGED <<clock, table, apiKey, server, visits>>

\* "smugbox admin set-password" and "delete-album" look the album up first.
Command(e) ==
  /\ \E op \in {"password", "delete"}, a \in DOMAIN rows, pw \in Passwords \cup {Clear} :
        /\ MayEdit(e, op)
        /\ op = "delete" => pw = Clear
        /\ Begin(e, [pc |-> "write", op |-> op, id |-> a, pw |-> pw, seen |-> rows[a]])
  /\ UNCHANGED <<clock, table, apiKey, server, visits>>

UpdateAlbum(e) ==
  LET a == edit[e].id IN
  /\ edit[e].pc = "write" /\ edit[e].op \in {"update", "password"}
  /\ IF a \in DOMAIN rows
     THEN /\ rows' = [rows EXCEPT ![a] = Written(edit[e])]
          /\ raced' = IF rows[a] = edit[e].seen THEN raced ELSE raced \cup {a}
     ELSE UNCHANGED <<rows, raced>>
  /\ End(e)
  /\ UNCHANGED <<clock, used, apiKey, server, visits>>

\* A new id, and a slug that is free.
SlugFree(a) == \A x \in DOMAIN rows : SlugOf[x] # SlugOf[a]

CreateAlbum(p) ==
  LET call == edit[p] IN
  /\ call.pc = "read" /\ call.op = "create"
  /\ \E a \in AlbumIds \ used :
        /\ SlugFree(a)
        /\ rows' = [x \in DOMAIN rows \cup {a} |->
                      IF x # a THEN rows[x]
                      ELSE IF call.pw = Keep THEN [pw |-> None, version |-> 0]
                                             ELSE [pw |-> call.pw, version |-> 1]]
        /\ used' = used \cup {a}
  /\ End(p)
  /\ UNCHANGED <<clock, raced, apiKey, server, visits>>

DeleteAlbum(e) ==
  /\ edit[e].pc = "write" /\ edit[e].op = "delete"
  /\ rows' = [a \in DOMAIN rows \ {edit[e].id} |-> rows[a]]
  /\ End(e)
  /\ UNCHANGED <<clock, used, raced, apiKey, server, visits>>

-----------------------------------------------------------------------------
(***************************************************************************)
(* Visitors.                                                               *)
(***************************************************************************)
\* The grants of a cookie that decodes: signed by this server, not expired.
Decoded(c) == IF Up /\ c.secret = secret /\ clock < c.exp THEN c.grants ELSE <<>>

Granted(c, a, v) == \E i \in DOMAIN Decoded(c) : Decoded(c)[i].id = a /\ Decoded(c)[i].version = v

\* albumAccess
Opens(b, a) == ~Protected(rows[a]) \/ Granted(jar[b], a, rows[a].version)

\* The album's earlier grant goes (a cookie has one for an album at most), the
\* new one is the last, the oldest go when there are too many.
Without(grants, id) ==
  LET at == {i \in DOMAIN grants : grants[i].id = id}
  IN  IF at = {} THEN grants
      ELSE [j \in 1..(Len(grants) - 1) |-> grants[IF \E i \in at : i =< j THEN j + 1 ELSE j]]
LoseLatest(grants, g) ==    \* mutant: eviction at the wrong end
  LET all == Append(Without(grants, g.id), g)
  IN  SubSeq(all, 1, IF Len(all) > MaxGrants THEN MaxGrants ELSE Len(all))
OneTooMany(grants, g) ==    \* mutant: off by one
  LET all == Append(Without(grants, g.id), g)
  IN  IF Len(all) > MaxGrants + 1 THEN Tail(all) ELSE all
Latest(all) ==
  IF Len(all) > MaxGrants THEN SubSeq(all, Len(all) - MaxGrants + 1, Len(all)) ELSE all
Add(grants, g) == Latest(Append(Without(grants, g.id), g))

StartTab(t, ask) == /\ tab' = [tab EXCEPT ![t] = ask]
                    /\ plan' = [plan EXCEPT !.asks[t] = @ - 1]
TabBecomes(t, ask) == tab' = [tab EXCEPT ![t] = ask] /\ UNCHANGED plan

\* An attempt, counted before anything is read; it carries the browser's cookie.
Attempt(t) ==
  /\ Up /\ tab[t].pc = "idle" /\ plan.asks[t] > 0
  /\ \E slug \in Slugs, pw \in Passwords :
       LET k == <<BrowserOf[t], slug>> IN
       /\ Allow(k)
       /\ IF Allowed(k)
          THEN /\ StartTab(t, [pc |-> "read", slug |-> slug, pw |-> pw,
                               sent |-> jar[BrowserOf[t]], gave |-> None])
               /\ admitted' = [admitted EXCEPT ![k] =
                                [i \in Ticks |-> IF i < clock THEN @[i] ELSE @[i] + 1]]
               /\ retryAt' = [retryAt EXCEPT ![k] = None]
          ELSE /\ StartTab(t, NoAsk)
               /\ retryAt' = [retryAt EXCEPT ![k] = clock + WaitFor(k)]
               /\ UNCHANGED admitted
  /\ UNCHANGED <<clock, table, apiKey, server, edit, jar, promised>>

\* GetAlbumBySlug and bcrypt.  A slug that names no album, an album without a
\* password and a wrong password all end the request without a cookie.
CheckPassword(t) ==
  LET right == {a \in DOMAIN rows : SlugOf[a] = tab[t].slug /\ rows[a].pw = tab[t].pw} IN
  /\ tab[t].pc = "read"
  /\ IF right = {} THEN TabBecomes(t, NoAsk)
     ELSE \E a \in right :
            TabBecomes(t, [tab[t] EXCEPT !.pc = "answer",
                             !.gave = [id |-> a, version |-> rows[a].version, pw |-> rows[a].pw]])
  /\ UNCHANGED <<clock, limiter, admitted, retryAt, table, apiKey, server, edit, jar, promised>>

\* Mutant: the version is read again after bcrypt.
VersionNow(sent, g) ==
  LET v == IF g.id \in DOMAIN rows THEN rows[g.id].version ELSE g.version
  IN  [exp |-> clock + Lifetime, secret |-> secret,
       grants |-> Add(Decoded(sent), [g EXCEPT !.version = v])]

\* The new cookie: the old one's grants and the new one.
Signed(sent, g) == [exp |-> clock + Lifetime, secret |-> secret, grants |-> Add(Decoded(sent), g)]

\* What browser b may count on once a tab got grant g with the cookie it sent:
\* what it was promised before too, unless another tab's answer came between.
Promises(b, sent, g) ==
  {[p EXCEPT !.others = @ \cup {g.id}] : p \in
     {q \in promised[b] : sent = jar[b] /\ q.id # g.id}}
  \cup {[id |-> g.id, version |-> g.version, until |-> clock + Lifetime, others |-> {}]}

\* The answer reaches the browser, or is lost on the way.
Answer(t) ==
  LET b == BrowserOf[t] IN
  /\ Up /\ tab[t].pc = "answer"
  /\ \/ /\ jar' = [jar EXCEPT ![b] = Signed(tab[t].sent, tab[t].gave)]
        /\ promised' = [promised EXCEPT ![b] = Promises(b, tab[t].sent, tab[t].gave)]
     \/ UNCHANGED <<jar, promised>>
  /\ TabBecomes(t, NoAsk)
  /\ UNCHANGED <<clock, limiter, admitted, retryAt, table, apiKey, server, edit>>
-----------------------------------------------------------------------------
(***************************************************************************)
(* Time, and the server's stops and starts.  The limiter is in memory; the *)
(* secret is drawn at the first boot and kept in the database.             *)
(***************************************************************************)
Tick ==
  /\ clock < plan.until /\ clock' = clock + 1
  /\ UNCHANGED <<table, apiKey, server, edit, visits, plan>>

Boot ==
  /\ ~Up /\ plan.boots > 0
  /\ plan' = [plan EXCEPT !.boots = @ - 1]
  /\ IF stored # 0 THEN secret' = stored /\ UNCHANGED <<stored, drawn>>
     ELSE /\ drawn' = drawn + 1
          /\ stored' = drawn' /\ secret' = drawn'
  /\ buckets' = [k \in {} |-> 0] /\ lastSweep' = clock
  /\ admitted' = [k \in Clients |-> [i \in Ticks |-> 0]]
  /\ retryAt' = [k \in Clients |-> None]
  /\ UNCHANGED <<clock, table, apiKey, edit, tab, jar, promised>>

\* The requests under way are gone; the administrator's command is not.
Stop ==
  /\ Up /\ plan.boots > 0
  /\ secret' = 0
  /\ edit' = [e \in Editors |-> IF e \in Publishers THEN NoEdit ELSE edit[e]]
  /\ tab' = [t \in Tabs |-> NoAsk]
  /\ UNCHANGED <<clock, table, apiKey, stored, drawn, limiter, admitted, retryAt,
                  jar, promised, plan>>

Next ==
  \/ \E p \in Publishers : Publish(p) \/ Touch(p) \/ ReadAlbum(p) \/ CreateAlbum(p)
  \/ \E e \in Admins : Command(e) \/ DeleteAlbum(e) \/ Revoke(e)
  \/ \E e \in Editors : UpdateAlbum(e)
  \/ \E t \in Tabs : Attempt(t) \/ CheckPassword(t) \/ Answer(t)
  \/ Tick \/ Boot \/ Stop

Spec == Init /\ [][Next]_vars
-----------------------------------------------------------------------------
\* Every variable has its type; a cookie holds MaxGrants grants at most, one for
\* an album, and MaxKeys buckets are kept at most.
TypeOK ==
  /\ clock \in Ticks /\ lastSweep \in 0..clock
  /\ buckets \in [DOMAIN buckets -> Bucket] /\ DOMAIN buckets \subseteq Clients
  /\ Cardinality(DOMAIN buckets) =< MaxKeys
  /\ rows \in [DOMAIN rows -> Row] /\ DOMAIN rows \subseteq used /\ used \subseteq AlbumIds
  /\ raced \subseteq used /\ {revoked, everRevoked} \subseteq BOOLEAN
  /\ {stored, secret} \subseteq 0..drawn /\ drawn \in 0..MaxSecrets
  /\ edit \in [Editors -> Edit]
  /\ tab \in [Tabs -> Ask] /\ jar \in [Browsers -> Cookie]
  /\ \A b \in Browsers :
        /\ Len(jar[b].grants) =< MaxGrants
        /\ \A i, j \in DOMAIN jar[b].grants :
              i # j => jar[b].grants[i].id # jar[b].grants[j].id
  /\ admitted \in [Clients -> [Ticks -> Nat]]
  /\ retryAt \in [Clients -> Nat \cup {None}]
  /\ \A b \in Browsers : promised[b] \subseteq
        [id : AlbumIds, version : Nat, until : Nat, others : SUBSET AlbumIds]

\* A cookie opens a protected album only if its holder gave the password the
\* album has now: a changed or removed password voids the grants given before
\* it, whatever was read before the change, and so does a new album under an old
\* slug.  Two writes that overlap can give one version to two passwords.
GrantMeansPassword ==
  \A b \in Browsers, a \in DOMAIN rows \ raced :
    (Protected(rows[a]) /\ Opens(b, a)) =>
      \E i \in DOMAIN jar[b].grants :
        jar[b].grants[i].id = a /\ jar[b].grants[i].pw = rows[a].pw

\* Who unlocked an album keeps seeing it until the cookie's time is over, across
\* restarts and while other albums are unlocked, as long as its password stays
\* and the browser has not unlocked MaxGrants others since, or two at once.
StaysUnlocked ==
  \A b \in Browsers : \A p \in promised[b] :
    (/\ Up /\ clock < p.until /\ Cardinality(p.others) < MaxGrants
     /\ p.id \in DOMAIN rows /\ p.version = rows[p.id].version)
    => Opens(b, p.id)

\* However attempts, sweeps and evictions interleave, a client gets through no
\* more often in a stretch of time than a full bucket and its refill allow.
AttemptsBounded ==
  \A k \in Clients : \A j \in 0..clock :
    /\ admitted[k][j] * PerToken =< Capacity + j
    /\ \A i \in 0..(j-1) :
         (admitted[k][j] - admitted[k][i]) * PerToken =< Capacity + (j - i - 1)

\* Who was turned away and comes back when told to is let through, unless all
\* buckets are taken: no one else's attempts cost it a token, nor do its own
\* that were turned away.
RetryAfterHolds ==
  [][\A k \in Clients :
       (/\ retryAt[k] # None /\ clock >= retryAt[k]
        /\ retryAt'[k] # None /\ retryAt'[k] # retryAt[k])
       => ~HasRoom(k)]_vars

\* Once the API key was revoked no request gets past the check again, though one
\* that was let in before still notes the key's use.
RevokedStartsNothing ==
  [][everRevoked => \A p \in Publishers : edit[p].pc = "idle" => edit'[p].pc = "idle"]_vars
=============================================================================
