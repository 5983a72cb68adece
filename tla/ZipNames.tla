------------------------------ MODULE ZipNames ------------------------------
(***************************************************************************)
(* The names that a zip download gives its entries.  Photos of one album   *)
(* may have the same file name; an archive should not hold a name twice,   *)
(* capitals or not.  VisitorReads models the rest of the download.         *)
(*                                                                         *)
(* A file name is a stem, with its extension, and the numbers behind the   *)
(* stem: name-2-3.jpg has the stem name.jpg and the numbers 2 and 3.  No   *)
(* photo is stored without a name.                                         *)
(***************************************************************************)
EXTENDS Naturals, Sequences, FiniteSets

CONSTANTS Stems,
          Fold,          \* a stem without its capitals
          Filenames,     \* names that photos may have
          MaxPhotos      \* bound on the photos of the album

Names == [stem : Stems, numbers : Seq(Nat)]

ASSUME ZipConstants ==
  /\ Fold \in [Stems -> Stems]
  /\ Filenames \subseteq Names
  /\ MaxPhotos \in Nat

VARIABLES list,     \* names of the photos still to pack
          seen,     \* how often a name, without capitals, was used
          given     \* names of the entries so far

zipVars == <<list, seen, given>>

ToLower(name)     == [name EXCEPT !.stem = Fold[@]]
Numbered(name, i) == [name EXCEPT !.numbers = Append(@, i)]

Uses(key)  == IF key \in DOMAIN seen THEN seen[key] ELSE 0
Free(name) == Uses(ToLower(name)) = 0

\* The first number that makes a name of its own.  The search goes up from the
\* uses of the name; one candidate more than there are names seen is enough.
FirstFree(name) ==
  LET n == Uses(ToLower(name))
  IN  CHOOSE i \in (n + 1)..(n + 1 + Cardinality(DOMAIN seen)) :
        /\ Free(Numbered(name, i))
        /\ \A j \in (n + 1)..(i - 1) : ~Free(Numbered(name, j))

NextCount(name)  ==   \* mutant: a numbered name is taken to be free
  IF Free(name) THEN name ELSE Numbered(name, Uses(ToLower(name)) + 1)
UniqueName(name) == IF Free(name) THEN name ELSE Numbered(name, FirstFree(name))

NotedOnce(name) ==    \* mutant: the name that is made is not noted
  LET key == ToLower(name)
  IN  [k \in DOMAIN seen \cup {key} |-> IF k = key THEN Uses(key) + 1 ELSE seen[k]]

\* A name is used once more, and so is the name that is made of it.
Noted(name) ==
  LET key  == ToLower(name)
      made == ToLower(UniqueName(name))
  IN  [k \in DOMAIN seen \cup {key, made} |-> IF k = key THEN Uses(key) + 1 ELSE IF k = made THEN 1 ELSE seen[k]]

-----------------------------------------------------------------------------

ZipInit ==
  /\ list \in UNION {[1..n -> Filenames] : n \in 0..MaxPhotos}
  /\ seen = [k \in {} |-> 0]
  /\ given = <<>>

Enter(name) ==
  /\ given' = Append(given, UniqueName(name))
  /\ seen' = Noted(name)

\* The next photo is packed; or its file cannot be opened and it is left out;
\* or the client goes away while it is written.
Pack  == list # <<>> /\ Enter(Head(list)) /\ list' = Tail(list)
Skip  == list # <<>> /\ list' = Tail(list) /\ UNCHANGED <<seen, given>>
Abort == list # <<>> /\ Enter(Head(list)) /\ list' = <<>>

ZipNext == Pack \/ Skip \/ Abort
ZipSpec == ZipInit /\ [][ZipNext]_zipVars

-----------------------------------------------------------------------------

\* The types, and the book that is kept of the names: it has an entry for every
\* name in the archive, capitals aside, and for no other.
NamesTypeOK ==
  /\ list \in Seq(Filenames)
  /\ given \in Seq(Names)
  /\ DOMAIN seen = {ToLower(given[i]) : i \in DOMAIN given}
  /\ seen \in [DOMAIN seen -> Nat \ {0}]

\* No two entries of an archive have one name, capitals or not, whatever the
\* photos are called: one may be called what another's numbered name is.
ZipNamesDistinct ==
  \A i, j \in DOMAIN given : i # j => ToLower(given[i]) # ToLower(given[j])
=============================================================================
