-------------------------- MODULE MCPhotoPipeline --------------------------
(***************************************************************************)
(* Small instances of PhotoPipeline.                                       *)
(***************************************************************************)
EXTENDS PhotoPipeline, TLC

CONSTANTS p1, p2, l1, l2, c1, c2, thumb

\* An empty album, or one with photo p1 in it.
NoStored == [p \in {} |-> l1]
P1Stored == p1 :> l1

\* The ids, catalog uuids and same-kind requests are interchangeable where
\* no photo is stored at the start.
Interchangeable == Permutations(PhotoIds) \cup Permutations(LrIds)
                     \cup Permutations(Posts)
=============================================================================
