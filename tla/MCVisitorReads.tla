-------------------------- MODULE MCVisitorReads ----------------------------
(***************************************************************************)
(* A small instance of VisitorReads, and one of ZipNames beside it.        *)
(***************************************************************************)
EXTENDS VisitorReads, ZipNames, TLC

CONSTANTS p1, p2, l1, l2, c1, c2, thumb, lower, upper

BothStored == (p1 :> l1) @@ (p2 :> l2)

\* Two spellings of one stem, and names that a numbered name may come out as.
Spellings   == {lower, upper}
ToLowerCase == (lower :> lower) @@ (upper :> lower)

Name(stem, numbers) == [stem |-> stem, numbers |-> numbers]
Likely == {Name(lower, <<>>), Name(upper, <<>>), Name(upper, <<2>>), Name(lower, <<3>>), Name(lower, <<2, 2>>)}

\* The two share no state, so that one of them runs at a time: the visits while
\* no archive is being named, and the naming before the visits begin.
NoArchive == list = <<>> /\ given = <<>>

ReadAndZipInit == ReadInit /\ ZipInit
ReadAndZipNext ==
  \/ NoArchive /\ ReadNext /\ UNCHANGED zipVars
  \/ ZipNext /\ UNCHANGED allVars
ReadAndZip == ReadAndZipInit /\ [][ReadAndZipNext]_<<allVars, zipVars>>
=============================================================================
