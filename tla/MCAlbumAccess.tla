--------------------------- MODULE MCAlbumAccess ----------------------------
(***************************************************************************)
(* A small instance of AlbumAccess.                                        *)
(***************************************************************************)
EXTENDS AlbumAccess, TLC

CONSTANTS a1, a2, a3, a4, s1, s2, s3, e1, e2, m1, t1, t2, br

\* a1 and a4 have the same slug.
SlugOfAlbum  == (a1 :> s1) @@ (a2 :> s2) @@ (a3 :> s3) @@ (a4 :> s1)
BrowserOfTab == (t1 :> br) @@ (t2 :> br)
TheClients   == {br} \X {s1, s2, s3}

Edits(n1, n2, n3) == (e1 :> n1) @@ (e2 :> n2) @@ (m1 :> n3)
Asks(n1, n2)      == (t1 :> n1) @@ (t2 :> n2)

\* One album: two requests and a command change its password, a visitor unlocks.
Racing == [albums |-> {a1}, ops |-> {"update", "password", "revoke"},
           edits |-> Edits(1, 1, 1), asks |-> Asks(1, 1), boots |-> 1, until |-> 0]

\* One request after another, the album deleted and its slug used again.
Reusing == [albums |-> {a1}, ops |-> {"update", "create", "delete", "revoke"},
            edits |-> Edits(2, 0, 1), asks |-> Asks(2, 0), boots |-> 1, until |-> 0]

\* Three albums unlocked from two tabs while time passes and the server restarts.
Browsing == [albums |-> {a1, a2, a3}, ops |-> {}, edits |-> Edits(0, 0, 0),
             asks |-> Asks(2, 1), boots |-> 2, until |-> 3]

\* Attempts at one slug and the other, more than the buckets hold.
Guessing == [albums |-> {}, ops |-> {}, edits |-> Edits(0, 0, 0),
             asks |-> Asks(5, 0), boots |-> 1, until |-> 5]

TheScenarios == {Racing, Reusing, Browsing, Guessing}
=============================================================================
