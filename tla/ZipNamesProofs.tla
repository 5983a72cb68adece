--------------------------- MODULE ZipNamesProofs ---------------------------
(***************************************************************************)
(* That the entries of an archive have names of their own, for photos of   *)
(* any names and any number.  The search for a number ends, because it has *)
(* one more candidate than there are names seen; what it ends with is not  *)
(* seen; and what is in the archive is.                                    *)
(***************************************************************************)
EXTENDS ZipNames, FiniteSetTheorems, SequenceTheorems, TLAPS

\* A set of numbers between two bounds has a least one: the interval that ends
\* there is minimal among those that end in the set.
LEMMA LeastOf ==
  ASSUME NEW lo \in Nat, NEW hi \in Nat, NEW T, T \subseteq lo..hi, T # {}
  PROVE  \E x \in T : \A y \in T : x =< y
<1> DEFINE Below == {lo..i : i \in T}
           lt    == StrictSubsetOrdering(lo..hi)
<1>1. IsWellFoundedOn(lt, SUBSET (lo..hi))
  <2>1. IsFiniteSet(lo..hi)
    BY FS_Interval
  <2>2. FiniteSubsetsOf(lo..hi) = SUBSET (lo..hi)
    BY <2>1, FS_FiniteSubsetsOfFinite
  <2>3. IsWellFoundedOn(lt, FiniteSubsetsOf(lo..hi))
    BY FS_StrictSubsetOrderingWellFounded
  <2> QED
    BY <2>2, <2>3
<1>2. Below \subseteq SUBSET (lo..hi) /\ Below # {}
  <2>1. \A i \in T : lo..i \subseteq lo..hi
    OBVIOUS
  <2> QED
    BY <2>1
<1>3. PICK I \in Below : \A J \in Below : ~ (<<J, I>> \in lt)
  <2> HIDE DEF lt, Below
  <2> QED
    BY <1>1, <1>2, WFMin
<1>4. PICK x \in T : I = lo..x
  OBVIOUS
<1>5. ASSUME NEW y \in T, y < x PROVE FALSE
  <2>1. x \in lo..x /\ x \notin lo..y
    BY <1>5
  <2>2. lo..y \in Below /\ lo..y \subseteq lo..x /\ lo..y # lo..x
    BY <1>5, <2>1
  <2>3. <<lo..y, lo..x>> \in lt
    BY <1>2, <1>4, <2>2 DEF StrictSubsetOrdering
  <2> QED
    BY <1>3, <1>4, <2>2, <2>3
<1> QED
  BY <1>5

-----------------------------------------------------------------------------

\* The invariant: the book of names is right, finite, and no name is twice in
\* the archive.
IInv == NamesTypeOK /\ IsFiniteSet(DOMAIN seen) /\ ZipNamesDistinct

\* Names stay names without their capitals and with a number; two numbers make
\* two names.
LEMMA NameTypes ==
  ASSUME NEW name \in Names, NEW i \in Nat
  PROVE  /\ ToLower(name) \in Names
         /\ Numbered(name, i) \in Names
         /\ ToLower(Numbered(name, i)) # ToLower(name)
         /\ \A j \in Nat : ToLower(Numbered(name, i)) = ToLower(Numbered(name, j)) => i = j
<1>0. name = [stem |-> name.stem, numbers |-> name.numbers]
  BY DEF Names
<1>1. name.stem \in Stems /\ name.numbers \in Seq(Nat) /\ Fold[name.stem] \in Stems
  BY ZipConstants DEF Names
<1>2. \A j \in Nat : /\ Append(name.numbers, j) \in Seq(Nat)
                     /\ Len(Append(name.numbers, j)) = Len(name.numbers) + 1
                     /\ Append(name.numbers, j)[Len(name.numbers) + 1] = j
  BY <1>1, AppendProperties
<1>3. \A j : Numbered(name, j) = [stem |-> name.stem, numbers |-> Append(name.numbers, j)]
  BY <1>0 DEF Numbered
<1>4. ToLower(name) = [stem |-> Fold[name.stem], numbers |-> name.numbers]
  BY <1>0 DEF ToLower
<1>5. Append(name.numbers, i) # name.numbers
  BY <1>1, <1>2, LenProperties
<1>6. \A j : ToLower(Numbered(name, j)) = [stem |-> Fold[name.stem], numbers |-> Append(name.numbers, j)]
  BY <1>3 DEF ToLower
<1>7. ToLower(name) \in Names /\ Numbered(name, i) \in Names
  <2>1. \A stem \in Stems : \A numbers \in Seq(Nat) : [stem |-> stem, numbers |-> numbers] \in Names
    BY DEF Names
  <2>2. ToLower(name) \in Names
    BY <1>1, <1>4, <2>1
  <2>3. Numbered(name, i) \in Names
    BY <1>1, <1>2, <1>3, <2>1
  <2> QED
    BY <2>2, <2>3
<1>8. \A j : ToLower(Numbered(name, j)).numbers = Append(name.numbers, j)
  BY <1>6
<1>9. ToLower(name).numbers = name.numbers
  BY <1>4
<1> QED
  BY <1>2, <1>5, <1>7, <1>8, <1>9

\* The search for a number ends within its bound, and with the first one.
LEMMA SearchEnds ==
  ASSUME IInv, NEW name \in Names
  PROVE  FirstFree(name) \in Nat /\ Free(Numbered(name, FirstFree(name)))
<1> DEFINE n     == Uses(ToLower(name))
           size  == Cardinality(DOMAIN seen)
           Tried == (n + 1)..(n + 1 + size)
           Good  == {i \in Tried : Free(Numbered(name, i))}
<1>1. n \in Nat /\ size \in Nat /\ IsFiniteSet(DOMAIN seen)
  BY FS_CardinalityType DEF IInv, NamesTypeOK, Uses
<1>2. IsFiniteSet(Tried) /\ Cardinality(Tried) = size + 1
  <2>1. n + 1 \in Int /\ n + 1 + size \in Int
    BY <1>1
  <2>2. /\ IsFiniteSet(Tried)
        /\ Cardinality(Tried) = IF n + 1 > n + 1 + size THEN 0 ELSE (n + 1 + size) - (n + 1) + 1
    <3> HIDE DEF n, size
    <3> QED
      BY <2>1, FS_Interval
  <2> HIDE DEF n, size
  <2> QED
    BY <1>1, <2>2
<1>3. ASSUME Good = {} PROVE FALSE
  <2> DEFINE f == [i \in Tried |-> ToLower(Numbered(name, i))]
  <2>1. \A i \in Tried : i \in Nat /\ f[i] \in DOMAIN seen
    BY <1>1, <1>3 DEF Free, Uses
  <2>2. \A i, j \in Tried : f[i] = f[j] => i = j
    BY <2>1, NameTypes
  <2>3. f \in Injection(Tried, DOMAIN seen)
    BY <2>1, <2>2 DEF Injection, IsInjective
  <2>4. Cardinality(Tried) =< size
    BY <1>1, <2>3, FS_Injection
  <2> QED
    BY <1>1, <1>2, <2>4
<1>4. PICK i \in Good : \A j \in Good : i =< j
  <2>1. n + 1 \in Nat /\ n + 1 + size \in Nat /\ Good \subseteq (n + 1)..(n + 1 + size)
    BY <1>1
  <2> HIDE DEF Good
  <2> QED
    BY <1>3, <2>1, LeastOf
<1>5. \A j \in (n + 1)..(i - 1) : j \in Tried /\ ~(i =< j)
  BY <1>1
<1>6. \E k \in Tried : /\ Free(Numbered(name, k))
                       /\ \A j \in (n + 1)..(k - 1) : ~Free(Numbered(name, j))
  BY <1>4, <1>5
<1>7. FirstFree(name) \in Tried /\ Free(Numbered(name, FirstFree(name)))
  BY <1>6 DEF FirstFree
<1> QED
  BY <1>1, <1>7

\* What UniqueName gives out was not given before, capitals or not.
LEMMA UniqueNameIsNew ==
  ASSUME IInv, NEW name \in Names
  PROVE  /\ UniqueName(name) \in Names
         /\ ToLower(UniqueName(name)) \in Names
         /\ ToLower(UniqueName(name)) \notin DOMAIN seen
<1>1. UniqueName(name) \in Names /\ Free(UniqueName(name))
  BY SearchEnds, NameTypes DEF UniqueName
<1>2. ToLower(UniqueName(name)) \notin DOMAIN seen
  BY <1>1 DEF Free, Uses, IInv, NamesTypeOK
<1> QED
  BY <1>1, <1>2, NameTypes, 0 \in Nat

\* The book of names has what was in it and the new name; where a photo's own
\* name is not the new one, it was in it.
LEMMA NotedIsRight ==
  ASSUME IInv, NEW name \in Names
  PROVE  /\ DOMAIN Noted(name) = DOMAIN seen \cup {ToLower(UniqueName(name))}
         /\ Noted(name) \in [DOMAIN Noted(name) -> Nat \ {0}]
<1>1. ToLower(name) \in DOMAIN seen \/ ToLower(name) = ToLower(UniqueName(name))
  BY DEF UniqueName, Free, Uses
<1>2. DOMAIN Noted(name) = DOMAIN seen \cup {ToLower(UniqueName(name))}
  BY <1>1 DEF Noted
<1>3. \A k \in DOMAIN seen : seen[k] \in Nat \ {0}
  BY DEF IInv, NamesTypeOK
<1>4. Uses(ToLower(name)) + 1 \in Nat \ {0}
  BY <1>3 DEF Uses
<1>5. \A k \in DOMAIN Noted(name) : Noted(name)[k] \in Nat \ {0}
  BY <1>3, <1>4 DEF Noted
<1> QED
  BY <1>2, <1>5 DEF Noted

\* An entry keeps the invariant, but for the list of what is left.
LEMMA EnterKeeps ==
  ASSUME IInv, NEW name \in Filenames, Enter(name), list' \in Seq(Filenames)
  PROVE  IInv'
<1> DEFINE new == UniqueName(name)
           n   == Len(given)
<1>0. name \in Names
  BY ZipConstants
<1>1. /\ new \in Names /\ ToLower(new) \notin DOMAIN seen
      /\ given \in Seq(Names) /\ n \in Nat /\ DOMAIN given = 1..n
  BY <1>0, UniqueNameIsNew, LenProperties DEF IInv, NamesTypeOK
<1>2. /\ given' \in Seq(Names) /\ DOMAIN given' = 1..(n + 1)
      /\ given'[n + 1] = new /\ \A i \in 1..n : given'[i] = given[i]
  <2> HIDE DEF new
  <2> QED
    BY <1>1, AppendProperties, LenProperties DEF Enter, new
<1>3. /\ DOMAIN seen' = DOMAIN seen \cup {ToLower(new)}
      /\ seen' \in [DOMAIN seen' -> Nat \ {0}]
  BY <1>0, NotedIsRight DEF Enter
<1>4. \A i \in 1..n : ToLower(given[i]) \in DOMAIN seen
  BY <1>1 DEF IInv, NamesTypeOK
<1>5. DOMAIN seen' = {ToLower(given'[i]) : i \in DOMAIN given'}
  <2>1. DOMAIN seen = {ToLower(given[i]) : i \in 1..n}
    BY <1>1 DEF IInv, NamesTypeOK
  <2>2. 1..(n + 1) = 1..n \cup {n + 1}
    BY <1>1
  <2> HIDE DEF new, n
  <2> QED
    BY <1>2, <1>3, <2>1, <2>2
<1>6. IsFiniteSet(DOMAIN seen')
  BY <1>3, FS_AddElement DEF IInv
<1>7. ASSUME NEW i \in DOMAIN given', NEW j \in DOMAIN given', i # j
      PROVE  ToLower(given'[i]) # ToLower(given'[j])
  <2>1. i \in 1..n \/ i = n + 1
    BY <1>1, <1>2
  <2>2. j \in 1..n \/ j = n + 1
    BY <1>1, <1>2
  <2>3. CASE i \in 1..n /\ j \in 1..n
    BY <1>1, <1>2, <1>7, <2>3 DEF IInv, ZipNamesDistinct
  <2>4. CASE i = n + 1 \/ j = n + 1
    <3> HIDE DEF new, n
    <3> QED
      BY <1>1, <1>2, <1>4, <1>7, <2>1, <2>2, <2>4
  <2> QED
    BY <2>1, <2>2, <2>3, <2>4
<1> QED
  BY <1>2, <1>3, <1>5, <1>6, <1>7 DEF IInv, NamesTypeOK, ZipNamesDistinct

LEMMA InitIInv == ASSUME ZipInit PROVE IInv
<1>1. list \in Seq(Filenames)
  BY SeqDef, ZipConstants DEF ZipInit
<1>2. DOMAIN seen = {} /\ DOMAIN given = {} /\ given \in Seq(Names)
  BY EmptySeq DEF ZipInit
<1> QED
  BY <1>1, <1>2, FS_EmptySet DEF ZipInit, IInv, NamesTypeOK, ZipNamesDistinct

LEMMA StepIInv == ASSUME IInv, [ZipNext]_zipVars PROVE IInv'
<1>0. list \in Seq(Filenames)
  BY DEF IInv, NamesTypeOK
<1>1. ASSUME list # <<>>
      PROVE  Head(list) \in Filenames /\ Tail(list) \in Seq(Filenames) /\ <<>> \in Seq(Filenames)
  BY <1>0, <1>1, HeadTailProperties, EmptySeq
<1>2. CASE Pack
  BY <1>1, <1>2, EnterKeeps DEF Pack
<1>3. CASE Skip
  BY <1>1, <1>3 DEF Skip, IInv, NamesTypeOK, ZipNamesDistinct
<1>4. CASE Abort
  BY <1>1, <1>4, EnterKeeps DEF Abort
<1>5. CASE UNCHANGED zipVars
  BY <1>5 DEF zipVars, IInv, NamesTypeOK, ZipNamesDistinct
<1> QED
  BY <1>2, <1>3, <1>4, <1>5 DEF ZipNext

\* The book of names is right in every state: it holds what the archive holds.
THEOREM AlwaysNamesTypeOK == ZipSpec => []NamesTypeOK
<1>1. IInv => NamesTypeOK
  BY DEF IInv
<1> QED
  BY <1>1, InitIInv, StepIInv, PTL DEF ZipSpec

\* Whatever the photos of an album are called, and however many there are, no
\* two entries of a zip have the same name, capitals or not.
THEOREM AlwaysZipNamesDistinct == ZipSpec => []ZipNamesDistinct
<1>1. IInv => ZipNamesDistinct
  BY DEF IInv
<1> QED
  BY <1>1, InitIInv, StepIInv, PTL DEF ZipSpec
=============================================================================
