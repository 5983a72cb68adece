------------------------ MODULE MCGarbageCollector ------------------------
(***************************************************************************)
(* A small instance of GarbageCollector: one album, two photo ids, p1      *)
(* stored at the start.                                                    *)
(***************************************************************************)
EXTENDS GarbageCollector, TLC

CONSTANTS x, p1, p2

InAlbumX == [p \in PhotoIds |-> x]
Interchangeable == Permutations(Calls)
=============================================================================
