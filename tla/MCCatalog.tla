----------------------------- MODULE MCCatalog ------------------------------
(***************************************************************************)
(* Small instances of Catalog.                                             *)
(***************************************************************************)
EXTENDS Catalog, TLC

CONSTANTS f1, f2, a1, c1, m1

\* An album in a folder in a folder; two updates, a deletion and a creation.
Moving ==
  [parents |-> (f1 :> Root) @@ (f2 :> f1) @@ (a1 :> f2), files |-> {a1},
   calls |-> (m1 :> 2) @@ (c1 :> 1) @@ [r \in Requests |-> IF r \in Creators THEN 0 ELSE 1]]

\* Nothing yet; creations and deletions only.
Creating ==
  [parents |-> [n \in {} |-> Root], files |-> {},
   calls |-> (m1 :> 0) @@ [r \in Requests |-> 1]]

MovingAndCreating == {Moving, Creating}

\* Two folders side by side, two updates.
Sideways == {[parents |-> (f1 :> Root) @@ (f2 :> Root), files |-> {},
              calls |-> [r \in Requests |-> 1]]}

InterchangeableKeys == Permutations(Keys)
=============================================================================
