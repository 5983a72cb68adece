------------------------- MODULE AlbumAccessProofs --------------------------
(***************************************************************************)
(* Proofs about AlbumAccess, for any number of albums, editors, browsers,  *)
(* tabs and restarts, any cookie size and any rate.                        *)
(*                                                                         *)
(* A grant is known by a version, so a version may stand for one password  *)
(* only: it is never above the row's, and names the row's password where   *)
(* it equals the row's version.  A cookie keeps what was unlocked since a  *)
(* grant behind that grant, so that its place tells when it falls out.     *)
(* What a client's attempts have cost and what its bucket still holds never *)
(* exceed what it was filled with.                                         *)
(***************************************************************************)
EXTENDS AlbumAccess, RateLimiterProofs, SequenceTheorems

Promise == [id : AlbumIds, version : Nat, until : Nat, others : SUBSET AlbumIds]

TableInv ==
  /\ rows \in [DOMAIN rows -> Row] /\ DOMAIN rows \subseteq used /\ used \subseteq AlbumIds
  /\ raced \subseteq used

KeyInv == revoked \in BOOLEAN /\ everRevoked \in BOOLEAN /\ (everRevoked => revoked)

\* The secret is drawn once.
SecretInv ==
  /\ drawn \in 0..MaxSecrets /\ stored \in 0..drawn
  /\ secret \in {0, stored} /\ (stored = 0 => drawn = 0)

PlanInv == DOMAIN plan = {"ops", "edits", "asks", "boots", "until"} /\ plan.until \in 0..LastTick

\* What an editor's call knows at each step, beyond its type.
EditFits(c) ==
  /\ c.pc \in {"touch", "read"} /\ c.op = "create" => c.pw # Clear
  /\ c.pc = "write" => c.seen \in Row /\ (c.op = "password" => c.pw # Keep)

EditInv == edit \in [Editors -> Edit] /\ \A e \in Editors : EditFits(edit[e])

\* A cookie is not too large and has one grant for an album.
DistinctIds(s) == \A i, j \in DOMAIN s : s[i].id = s[j].id => i = j
CookieFits(c)  == Len(c.grants) =< MaxGrants /\ DistinctIds(c.grants)

CookieInv ==
  /\ tab \in [Tabs -> Ask] /\ jar \in [Browsers -> Cookie]
  /\ \A b \in Browsers : CookieFits(jar[b])
  /\ \A t \in Tabs :
        /\ CookieFits(tab[t].sent)
        /\ tab[t].pc = "read" => tab[t].pw \in Passwords
        /\ tab[t].pc = "answer" => tab[t].gave \in Grant

LimitType ==
  /\ LimiterInv
  /\ admitted \in [Clients -> [Ticks -> Nat]]
  /\ retryAt \in [Clients -> Nat \cup {None}]

TypeInv == /\ TableInv /\ KeyInv /\ SecretInv /\ PlanInv /\ EditInv /\ CookieInv /\ LimitType
           /\ promised \in [Browsers -> SUBSET Promise]

\* A grant's version is not above its album's, and names its album's password
\* where they are the same; ids are not used again.
Holds(g) ==
  /\ g.id \in used
  /\ g.id \in DOMAIN rows \ raced =>
       /\ g.version =< rows[g.id].version
       /\ g.version = rows[g.id].version => g.pw = rows[g.id].pw

AllHold(s) == \A i \in DOMAIN s : Holds(s[i])

GrantsHold ==
  /\ \A b \in Browsers : AllHold(jar[b].grants)
  /\ \A t \in Tabs : AllHold(tab[t].sent.grants) /\ (tab[t].pc = "answer" => Holds(tab[t].gave))

\* The grant of promise p is at place i, and behind it those unlocked since.
Since(s, i)     == {s[j].id : j \in (i + 1)..Len(s)}
KeptAt(s, i, p) == /\ i \in DOMAIN s /\ s[i].id = p.id /\ s[i].version = p.version
                   /\ Len(s) - i = Cardinality(p.others) /\ Since(s, i) = p.others

Kept(c, p) ==
  /\ p.until =< clock + Lifetime /\ p.until =< c.exp
  /\ c.secret = stored /\ stored # 0
  /\ IsFiniteSet(p.others)
  /\ clock < p.until /\ Cardinality(p.others) < MaxGrants => \E i \in Nat : KeptAt(c.grants, i, p)

PromisesKept == \A b \in Browsers : \A p \in promised[b] : Kept(jar[b], p)

\* What attempts have cost since tick i, and what is left, is at most what a full
\* bucket and its refill make.
Spent(k) ==
  LET A == admitted[k] IN
  /\ \A j \in clock..LastTick : A[j] = A[clock]
  /\ A[clock] * PerToken + Level(k) =< Capacity + clock
  /\ \A i \in 0..(clock - 1) : (A[clock] - A[i]) * PerToken + Level(k) =< Capacity + (clock - i - 1)

\* Who was told when to come back will find a token then.
WaitIsEnough(k) ==
  retryAt[k] # None =>
    IF retryAt[k] > clock THEN Level(k) + (retryAt[k] - clock) >= PerToken ELSE Level(k) >= PerToken

BoundedAt(k, j) ==
  /\ admitted[k][j] * PerToken =< Capacity + j
  /\ \A i \in 0..(j-1) : (admitted[k][j] - admitted[k][i]) * PerToken =< Capacity + (j - i - 1)

LimitsInv == \A k \in Clients : /\ Spent(k) /\ WaitIsEnough(k)
                               /\ \A j \in 0..(clock - 1) : BoundedAt(k, j)

AccessInv == TypeInv /\ GrantsHold /\ PromisesKept /\ LimitsInv

-----------------------------------------------------------------------------
(***************************************************************************)
(* What adding a grant does to a cookie's grants.                          *)
(***************************************************************************)

\* Leaving out an album's grant moves those behind it forward.
LEMMA WithoutOne ==
  ASSUME NEW s \in Seq(Grant), DistinctIds(s), NEW id
  PROVE  /\ Without(s, id) \in Seq(Grant)
         /\ \/ Without(s, id) = s /\ \A i \in DOMAIN s : s[i].id # id
            \/ \E m \in DOMAIN s :
                 /\ s[m].id = id /\ Len(Without(s, id)) = Len(s) - 1
                 /\ \A j \in 1..(Len(s) - 1) : Without(s, id)[j] = s[IF m =< j THEN j + 1 ELSE j]
<1> DEFINE at == {i \in DOMAIN s : s[i].id = id}
           w  == Without(s, id)
<1>0. DOMAIN s = 1..Len(s) /\ Len(s) \in Nat /\ \A i \in 1..Len(s) : s[i] \in Grant
  BY LenProperties, ElementOfSeq
<1>1. CASE at = {}
  BY <1>1 DEF Without
<1>2. CASE at # {}
  <2>1. PICK m \in DOMAIN s : s[m].id = id
    BY <1>2
  <2>2. at = {m}
    BY <2>1 DEF DistinctIds
  <2>3. w = [j \in 1..(Len(s) - 1) |-> s[IF m =< j THEN j + 1 ELSE j]]
    BY <2>2 DEF Without
  <2>4. Len(s) - 1 \in Nat /\ \A j \in 1..(Len(s) - 1) : s[IF m =< j THEN j + 1 ELSE j] \in Grant
    BY <1>0, <2>1
  <2>5. w \in [1..(Len(s) - 1) -> Grant]
    BY <2>3, <2>4
  <2>6. w \in Seq(Grant) /\ Len(w) = Len(s) - 1
    BY <2>4, <2>5
  <2>7. QED
    BY <2>1, <2>3, <2>6
<1>3. QED
  BY <1>1, <1>2

\* The last grants of a sequence.
LEMMA LatestOnes ==
  ASSUME NEW s \in Seq(Grant)
  PROVE  /\ Latest(s) \in Seq(Grant)
         /\ \E d \in 0..Len(s) :
              /\ d = IF Len(s) > MaxGrants THEN Len(s) - MaxGrants ELSE 0
              /\ Len(Latest(s)) = Len(s) - d
              /\ \A i \in 1..(Len(s) - d) : Latest(s)[i] = s[i + d]
<1>0. DOMAIN s = 1..Len(s) /\ Len(s) \in Nat /\ (\A i \in 1..Len(s) : s[i] \in Grant) /\ MaxGrants \in Nat \ {0}
  BY LenProperties, ElementOfSeq, AccessConstants
<1>1. CASE Len(s) > MaxGrants
  <2> DEFINE d == Len(s) - MaxGrants
  <2>1. d \in 0..Len(s) /\ d + 1 \in Int /\ d + 1 =< Len(s) /\ \A i \in (d + 1)..Len(s) : s[i] \in Grant
    BY <1>0, <1>1
  <2>2. Latest(s) = SubSeq(s, d + 1, Len(s))
    BY <1>1 DEF Latest
  <2> HIDE DEF d
  <2>3. /\ SubSeq(s, d + 1, Len(s)) \in Seq(Grant)
        /\ Len(SubSeq(s, d + 1, Len(s))) = Len(s) - (d + 1) + 1
        /\ \A i \in 1..(Len(s) - (d + 1) + 1) : SubSeq(s, d + 1, Len(s))[i] = s[d + 1 + i - 1]
    BY <1>0, <2>1, SubSeqProperties
  <2>4. Len(Latest(s)) = Len(s) - d
    BY <1>0, <2>1, <2>2, <2>3
  <2>5. ASSUME NEW i \in 1..(Len(s) - d) PROVE Latest(s)[i] = s[i + d]
    <3>1. d + 1 + i - 1 = i + d /\ Len(s) - (d + 1) + 1 = Len(s) - d
      BY <1>0, <2>1
    <3>2. QED
      BY <2>2, <2>3, <3>1
  <2>6. QED
    BY <1>1, <2>1, <2>2, <2>3, <2>4, <2>5 DEF d
<1>2. CASE ~(Len(s) > MaxGrants)
  <2>1. Latest(s) = s
    BY <1>2 DEF Latest
  <2>2. PICK d \in 0..Len(s) : d = 0
    BY <1>0
  <2>3. ASSUME NEW i \in 1..(Len(s) - d) PROVE s[i] = s[i + d]
    <3>1. i + d = i
      BY <2>2
    <3>2. QED
      BY <3>1
  <2>4. Len(s) = Len(s) - d /\ d = IF Len(s) > MaxGrants THEN Len(s) - MaxGrants ELSE 0
    BY <1>0, <1>2, <2>2
  <2>5. QED
    BY <2>1, <2>3, <2>4
<1>3. QED
  BY <1>1, <1>2

\* What is left with the new grant behind it.
LEMMA AppendedOnes ==
  ASSUME NEW s \in Seq(Grant), DistinctIds(s), NEW g \in Grant
  PROVE  LET a == Append(Without(s, g.id), g) IN
         /\ a \in Seq(Grant) /\ Len(a) \in 1..(Len(s) + 1) /\ a[Len(a)] = g /\ DistinctIds(a)
         /\ \A i \in DOMAIN a : i # Len(a) => \E j \in DOMAIN s : a[i] = s[j] /\ s[j].id # g.id
<1> DEFINE w == Without(s, g.id)
           a == Append(w, g)
<1>0. DOMAIN s = 1..Len(s) /\ Len(s) \in Nat /\ \A i \in 1..Len(s) : s[i] \in Grant
  BY LenProperties, ElementOfSeq
<1>1. w \in Seq(Grant) /\ DOMAIN w = 1..Len(w) /\ Len(w) \in Nat
  BY WithoutOne, LenProperties
<1>2. /\ a \in Seq(Grant) /\ Len(a) = Len(w) + 1 /\ DOMAIN a = 1..Len(a) /\ a[Len(a)] = g
      /\ \A i \in 1..Len(w) : a[i] = w[i]
  BY <1>1, AppendProperties, LenProperties
<1>3. /\ Len(w) =< Len(s)
      /\ \A i \in 1..Len(w) : \E j \in DOMAIN s : w[i] = s[j] /\ s[j].id # g.id
      /\ \A i, j \in 1..Len(w) : w[i].id = w[j].id => i = j
  <2>1. CASE w = s /\ \A i \in DOMAIN s : s[i].id # g.id
    BY <1>0, <2>1 DEF DistinctIds
  <2>2. ASSUME NEW m \in DOMAIN s, s[m].id = g.id, Len(w) = Len(s) - 1,
               \A j \in 1..(Len(s) - 1) : w[j] = s[IF m =< j THEN j + 1 ELSE j]
        PROVE  <1>3!1 /\ <1>3!2 /\ <1>3!3
    <3> DEFINE from(j) == IF m =< j THEN j + 1 ELSE j
    <3>1. m \in Nat /\ \A j \in 1..Len(w) : from(j) \in DOMAIN s /\ from(j) # m /\ w[j] = s[from(j)]
      BY <1>0, <2>2
    <3>2. \A i, j \in 1..Len(w) : from(i) = from(j) => i = j
      BY <1>0, <2>2
    <3> HIDE DEF from, w
    <3>3. \A j \in 1..Len(w) : s[from(j)].id # g.id
      BY <2>2, <3>1 DEF DistinctIds
    <3>4. \A i, j \in 1..Len(w) : w[i].id = w[j].id => from(i) = from(j)
      BY <3>1 DEF DistinctIds
    <3>5. Len(w) =< Len(s)
      BY <1>0, <2>2
    <3>6. QED
      BY <3>1, <3>2, <3>3, <3>4, <3>5
  <2>3. QED
    BY <2>1, <2>2, WithoutOne
<1> HIDE DEF a, w
<1>4. Len(a) \in 1..(Len(s) + 1)
  BY <1>0, <1>1, <1>2, <1>3
<1>5. ASSUME NEW i \in DOMAIN a, i # Len(a)
      PROVE  i \in 1..Len(w) /\ \E j \in DOMAIN s : a[i] = s[j] /\ s[j].id # g.id
  <2>1. i \in 1..Len(w)
    BY <1>1, <1>2, <1>5
  <2>2. QED
    BY <1>2, <1>3, <2>1
<1>6. DistinctIds(a)
  <2>1. ASSUME NEW i \in DOMAIN a, NEW j \in DOMAIN a, a[i].id = a[j].id, i # j PROVE FALSE
    <3>1. CASE i = Len(a)
      BY <1>2, <1>5, <2>1, <3>1
    <3>2. CASE j = Len(a)
      BY <1>2, <1>5, <2>1, <3>2
    <3>3. CASE i # Len(a) /\ j # Len(a)
      BY <1>2, <1>3, <1>5, <2>1, <3>3
    <3>4. QED
      BY <3>1, <3>2, <3>3
  <2>2. QED
    BY <2>1 DEF DistinctIds
<1>7. QED
  BY <1>2, <1>4, <1>5, <1>6 DEF a, w

\* A cookie stays within its bounds, ends with the new grant, and holds nothing
\* else that it did not hold.
LEMMA AddEffect ==
  ASSUME NEW s \in Seq(Grant), DistinctIds(s), NEW g \in Grant
  PROVE  LET n == Add(s, g) IN
         /\ n \in Seq(Grant) /\ Len(n) \in 1..MaxGrants /\ n[Len(n)] = g /\ DistinctIds(n)
         /\ \A i \in DOMAIN n : n[i] = g \/ \E j \in DOMAIN s : n[i] = s[j]
<1> DEFINE a == Append(Without(s, g.id), g)
           n == Latest(a)
<1>1. /\ a \in Seq(Grant) /\ Len(a) \in 1..(Len(s) + 1) /\ a[Len(a)] = g /\ DistinctIds(a)
      /\ \A i \in DOMAIN a : i # Len(a) => \E j \in DOMAIN s : a[i] = s[j] /\ s[j].id # g.id
  BY AppendedOnes
<1> HIDE DEF a
<1>2. PICK d \in 0..Len(a) :
         /\ d = IF Len(a) > MaxGrants THEN Len(a) - MaxGrants ELSE 0
         /\ Len(n) = Len(a) - d
         /\ \A i \in 1..(Len(a) - d) : n[i] = a[i + d]
  BY <1>1, LatestOnes
<1>3. n \in Seq(Grant) /\ DOMAIN n = 1..Len(n) /\ DOMAIN a = 1..Len(a) /\ Len(s) \in Nat
  BY <1>1, LatestOnes, LenProperties
<1> HIDE DEF n
<1>4. Len(n) \in 1..MaxGrants /\ Len(a) \in Nat /\ d \in Nat /\ Len(n) + d = Len(a)
  <2>1. MaxGrants \in Nat /\ MaxGrants >= 1
    BY AccessConstants
  <2>2. Len(a) \in Nat /\ Len(a) >= 1
    BY <1>1, <1>3
  <2>3. CASE Len(a) > MaxGrants
    BY <1>2, <2>1, <2>2, <2>3
  <2>4. CASE ~(Len(a) > MaxGrants)
    BY <1>2, <2>1, <2>2, <2>4
  <2>5. QED
    BY <2>3, <2>4
<1>5. ASSUME NEW i \in DOMAIN n PROVE i + d \in DOMAIN a /\ n[i] = a[i + d]
  <2>1. i \in 1..Len(n) /\ Len(n) = Len(a) - d
    BY <1>2, <1>3
  <2>2. i + d \in 1..Len(a) /\ i \in 1..(Len(a) - d)
    BY <1>4, <2>1
  <2>3. QED
    BY <1>2, <1>3, <2>2
<1>6. n[Len(n)] = g
  BY <1>1, <1>3, <1>4, <1>5
<1>7. DistinctIds(n)
  <2>1. ASSUME NEW i \in DOMAIN n, NEW j \in DOMAIN n, n[i].id = n[j].id PROVE i = j
    <3>1. i + d = j + d
      BY <1>1, <1>5, <2>1 DEF DistinctIds
    <3>2. QED
      BY <1>3, <1>4, <3>1
  <2>2. QED
    BY <2>1 DEF DistinctIds
<1>8. ASSUME NEW i \in DOMAIN n PROVE n[i] = g \/ \E j \in DOMAIN s : n[i] = s[j]
  BY <1>1, <1>5
<1>9. QED
  BY <1>3, <1>4, <1>6, <1>7, <1>8 DEF a, n, Add

\* A promised grant keeps a place when another album's is added behind it.
LEMMA AppendKeeps ==
  ASSUME NEW s \in Seq(Grant), DistinctIds(s), NEW g \in Grant,
         NEW p \in Promise, p.id # g.id, IsFiniteSet(p.others), NEW i \in Nat, KeptAt(s, i, p)
  PROVE  \E n \in Nat :
           KeptAt(Append(Without(s, g.id), g), n, [p EXCEPT !.others = @ \cup {g.id}])
<1> DEFINE w == Without(s, g.id)
           a == Append(w, g)
           q == [p EXCEPT !.others = @ \cup {g.id}]
<1>0. DOMAIN s = 1..Len(s) /\ Len(s) \in Nat /\ i \in 1..Len(s) /\ g.id \in AlbumIds
  BY LenProperties DEF KeptAt, Grant
<1>1. w \in Seq(Grant) /\ Len(w) \in Nat
  BY WithoutOne, LenProperties
<1>2. /\ Len(a) = Len(w) + 1 /\ DOMAIN a = 1..Len(a) /\ a[Len(w) + 1] = g
      /\ \A j \in 1..Len(w) : a[j] = w[j]
  BY <1>1, AppendProperties, LenProperties
<1>3. /\ q.id = p.id /\ q.version = p.version /\ q.others = p.others \cup {g.id}
      /\ s[i].id = p.id /\ s[i].version = p.version
      /\ Len(s) - i = Cardinality(p.others) /\ Since(s, i) = p.others
  BY DEF KeptAt, Promise
<1>4. IF g.id \in p.others THEN Cardinality(q.others) = Cardinality(p.others)
      ELSE Cardinality(q.others) = Cardinality(p.others) + 1
  <2>1. CASE g.id \in p.others
    <3>1. q.others = p.others
      BY <1>3, <2>1
    <3>2. QED
      BY <2>1, <3>1
  <2>2. CASE g.id \notin p.others
    BY <1>3, <2>2, FS_AddElement
  <2>3. QED
    BY <2>1, <2>2
<1> HIDE DEF a, w, q
<1>5. CASE w = s /\ \A j \in DOMAIN s : s[j].id # g.id
  <2>1. \A j \in (i + 1)..Len(s) : j \in DOMAIN s /\ a[j] = s[j] /\ j \in (i + 1)..Len(a)
    BY <1>0, <1>2, <1>5
  <2>2. \A j \in (i + 1)..Len(a) : j = Len(w) + 1 \/ j \in (i + 1)..Len(s)
    BY <1>0, <1>2, <1>5
  <2>3. Len(w) + 1 \in (i + 1)..Len(a)
    BY <1>0, <1>2, <1>5
  <2>4. Since(a, i) = Since(s, i) \cup {g.id}
    <3>1. ASSUME NEW x \in Since(a, i) PROVE x \in Since(s, i) \cup {g.id}
      <4>1. PICK j \in (i + 1)..Len(a) : x = a[j].id
        BY <3>1 DEF Since
      <4>2. CASE j = Len(w) + 1
        BY <1>2, <4>1, <4>2
      <4>3. CASE j \in (i + 1)..Len(s)
        BY <2>1, <4>1, <4>3 DEF Since
      <4>4. QED
        BY <2>2, <4>2, <4>3
    <3>2. g.id \in Since(a, i)
      BY <1>2, <2>3 DEF Since
    <3>3. ASSUME NEW x \in Since(s, i) PROVE x \in Since(a, i)
      BY <2>1, <3>3 DEF Since
    <3>4. QED
      BY <3>1, <3>2, <3>3
  <2>5. g.id \notin Since(s, i)
    BY <1>5, <2>1 DEF Since
  <2>6. Cardinality(q.others) = Cardinality(p.others) + 1 /\ Since(a, i) = q.others
    BY <1>3, <1>4, <2>4, <2>5
  <2>7. i \in DOMAIN a /\ a[i] = s[i] /\ Len(a) - i = (Len(s) - i) + 1
    BY <1>0, <1>2, <1>5
  <2>8. Len(a) - i = Cardinality(q.others)
    BY <1>3, <2>6, <2>7
  <2>9. KeptAt(a, i, q)
    BY <1>3, <2>6, <2>7, <2>8 DEF KeptAt
  <2>10. QED
    BY <2>9 DEF a, w, q
<1>6. ASSUME NEW m \in DOMAIN s, s[m].id = g.id, Len(w) = Len(s) - 1,
             \A j \in 1..(Len(s) - 1) : w[j] = s[IF m =< j THEN j + 1 ELSE j]
      PROVE  \E n \in Nat : KeptAt(a, n, q)
  <2>0. m \in 1..Len(s) /\ m # i /\ Len(a) = Len(s)
    BY <1>0, <1>1, <1>2, <1>3, <1>6
  <2>1. CASE m < i
    <3> DEFINE n == i - 1
    <3>1. n \in Nat /\ n \in 1..Len(w) /\ m =< n /\ n + 1 = i
      BY <1>0, <1>6, <2>0, <2>1
    <3>2. \A j \in i..Len(w) : a[j] = s[j + 1] /\ j + 1 \in (i + 1)..Len(s) /\ j \in (n + 1)..Len(a)
      BY <1>0, <1>2, <1>6, <2>0, <2>1
    <3>3. \A j \in (i + 1)..Len(s) : j - 1 \in i..Len(w) /\ (j - 1) + 1 = j
      BY <1>0, <1>6
    <3>4. \A j \in (n + 1)..Len(a) : j = Len(w) + 1 \/ j \in i..Len(w)
      BY <1>0, <1>1, <1>2, <3>1
    <3>5. Len(w) + 1 \in (n + 1)..Len(a)
      BY <1>0, <1>1, <1>2, <3>1
    <3>6. a[n] = s[i]
      BY <1>0, <1>2, <1>6, <3>1
    <3> HIDE DEF n
    <3>7. Since(a, n) = Since(s, i) \cup {g.id}
      <4>1. ASSUME NEW x \in Since(a, n) PROVE x \in Since(s, i) \cup {g.id}
        <5>1. PICK j \in (n + 1)..Len(a) : x = a[j].id
          BY <4>1 DEF Since
        <5>2. CASE j = Len(w) + 1
          BY <1>2, <5>1, <5>2
        <5>3. CASE j \in i..Len(w)
          BY <3>2, <5>1, <5>3 DEF Since
        <5>4. QED
          BY <3>4, <5>2, <5>3
      <4>2. g.id \in Since(a, n)
        BY <1>2, <3>5 DEF Since
      <4>3. ASSUME NEW x \in Since(s, i) PROVE x \in Since(a, n)
        <5>1. PICK j \in (i + 1)..Len(s) : x = s[j].id
          BY <4>3 DEF Since
        <5>2. j - 1 \in i..Len(w) /\ (j - 1) + 1 = j
          BY <3>3
        <5>3. a[j - 1] = s[j] /\ j - 1 \in (n + 1)..Len(a)
          BY <3>2, <5>2
        <5>4. QED
          BY <5>1, <5>3 DEF Since
      <4>4. QED
        BY <4>1, <4>2, <4>3
    <3>8. g.id \notin Since(s, i)
      <4>1. \A j \in (i + 1)..Len(s) : j \in DOMAIN s /\ j # m
        BY <1>0, <2>0, <2>1
      <4>2. QED
        BY <1>6, <4>1 DEF Since, DistinctIds
    <3>9. Cardinality(q.others) = Cardinality(p.others) + 1 /\ Since(a, n) = q.others
      BY <1>3, <1>4, <3>7, <3>8
    <3>10. n \in DOMAIN a /\ Len(a) - n = (Len(s) - i) + 1
      BY <1>0, <1>1, <1>2, <2>0, <3>1
    <3>11. Len(a) - n = Cardinality(q.others)
      BY <1>3, <3>9, <3>10
    <3>12. KeptAt(a, n, q)
      BY <1>3, <3>6, <3>9, <3>10, <3>11 DEF KeptAt
    <3>13. QED
      BY <3>1, <3>12
  <2>2. CASE m > i
    <3>1. i \in DOMAIN a /\ a[i] = s[i]
      BY <1>0, <1>2, <1>6, <2>0, <2>2
    <3>2. \A j \in (i + 1)..Len(w) : \E k \in (i + 1)..Len(s) : a[j] = s[k]
      <4>1. ASSUME NEW j \in (i + 1)..Len(w) PROVE \E k \in (i + 1)..Len(s) : a[j] = s[k]
        <5>1. j \in 1..(Len(s) - 1) /\ a[j] = w[j]
          BY <1>0, <1>2, <1>6
        <5>2. a[j] = s[IF m =< j THEN j + 1 ELSE j]
          BY <1>6, <5>1
        <5>3. (IF m =< j THEN j + 1 ELSE j) \in (i + 1)..Len(s)
          BY <1>0, <1>6, <5>1
        <5>4. QED
          BY <5>2, <5>3
      <4>2. QED
        BY <4>1
    <3>3. \A k \in (i + 1)..Len(s) : k # m => \E j \in (i + 1)..Len(w) : a[j] = s[k]
      <4>1. ASSUME NEW k \in (i + 1)..Len(s), k # m PROVE \E j \in (i + 1)..Len(w) : a[j] = s[k]
        <5>1. CASE k < m
          <6>1. k \in (i + 1)..Len(w) /\ ~(m =< k) /\ k \in 1..(Len(s) - 1)
            BY <1>0, <1>6, <2>0, <5>1
          <6>2. a[k] = s[k]
            BY <1>0, <1>2, <1>6, <6>1
          <6>3. QED
            BY <6>1, <6>2
        <5>2. CASE k > m
          <6>1. k - 1 \in (i + 1)..Len(w) /\ m =< k - 1 /\ k - 1 \in 1..(Len(s) - 1) /\ (k - 1) + 1 = k
            BY <1>0, <1>6, <2>0, <2>2, <5>2
          <6>2. a[k - 1] = w[k - 1]
            BY <1>0, <1>2, <6>1
          <6>3. w[k - 1] = s[k]
            BY <1>6, <6>1
          <6>4. QED
            BY <6>1, <6>2, <6>3
        <5>3. QED
          BY <1>0, <2>0, <4>1, <5>1, <5>2
      <4>2. QED
        BY <4>1
    <3>4. \A j \in (i + 1)..Len(a) : j = Len(w) + 1 \/ j \in (i + 1)..Len(w)
      BY <1>0, <1>1, <1>2
    <3>5. Len(w) + 1 \in (i + 1)..Len(a) /\ (i + 1)..Len(w) \subseteq (i + 1)..Len(a)
      BY <1>0, <1>1, <1>2, <2>0, <2>2
    <3>6. m \in (i + 1)..Len(s)
      BY <1>0, <2>0, <2>2
    <3>7. g.id \in Since(s, i)
      BY <1>6, <3>6 DEF Since
    <3>8. Since(a, i) = Since(s, i)
      <4>1. ASSUME NEW x \in Since(a, i) PROVE x \in Since(s, i)
        <5>1. PICK j \in (i + 1)..Len(a) : x = a[j].id
          BY <4>1 DEF Since
        <5>2. CASE j = Len(w) + 1
          BY <1>2, <3>7, <5>1, <5>2
        <5>3. CASE j \in (i + 1)..Len(w)
          BY <3>2, <5>1, <5>3 DEF Since
        <5>4. QED
          BY <3>4, <5>2, <5>3
      <4>2. ASSUME NEW x \in Since(s, i) PROVE x \in Since(a, i)
        <5>1. PICK k \in (i + 1)..Len(s) : x = s[k].id
          BY <4>2 DEF Since
        <5>2. CASE k = m
          BY <1>2, <1>6, <3>5, <5>1, <5>2 DEF Since
        <5>3. CASE k # m
          BY <3>3, <3>5, <5>1, <5>3 DEF Since
        <5>4. QED
          BY <5>2, <5>3
      <4>3. QED
        BY <4>1, <4>2
    <3>9. Cardinality(q.others) = Cardinality(p.others) /\ Since(a, i) = q.others
      BY <1>3, <1>4, <3>7, <3>8
    <3>10. Len(a) - i = Cardinality(q.others)
      BY <1>3, <2>0, <3>9
    <3>11. KeptAt(a, i, q)
      BY <1>3, <3>1, <3>9, <3>10 DEF KeptAt
    <3>12. QED
      BY <3>11
  <2>3. QED
    BY <1>0, <2>0, <2>1, <2>2
<1>7. \E n \in Nat : KeptAt(a, n, q)
  <2>1. \/ w = s /\ \A j \in DOMAIN s : s[j].id # g.id
        \/ \E m \in DOMAIN s :
             /\ s[m].id = g.id /\ Len(w) = Len(s) - 1
             /\ \A j \in 1..(Len(s) - 1) : w[j] = s[IF m =< j THEN j + 1 ELSE j]
    BY WithoutOne DEF w
  <2>2. CASE w = s /\ \A j \in DOMAIN s : s[j].id # g.id
    BY <1>5, <2>2 DEF a, w, q
  <2>3. QED
    BY <1>6, <2>1, <2>2
<1>8. QED
  BY <1>7 DEF a, w, q

\* The oldest grants are dropped: a grant with fewer than MaxGrants behind it,
\* itself included, stays.
LEMMA LatestKeeps ==
  ASSUME NEW s \in Seq(Grant), NEW p \in Promise, NEW i \in Nat, KeptAt(s, i, p),
         Cardinality(p.others) < MaxGrants
  PROVE  \E n \in Nat : KeptAt(Latest(s), n, p)
<1> DEFINE l == Latest(s)
<1>0. DOMAIN s = 1..Len(s) /\ Len(s) \in Nat /\ i \in 1..Len(s)
  BY LenProperties DEF KeptAt
<1>1. PICK d \in 0..Len(s) :
         /\ d = IF Len(s) > MaxGrants THEN Len(s) - MaxGrants ELSE 0
         /\ Len(l) = Len(s) - d
         /\ \A j \in 1..(Len(s) - d) : l[j] = s[j + d]
  BY LatestOnes
<1>2. l \in Seq(Grant) /\ DOMAIN l = 1..Len(l)
  BY LatestOnes, LenProperties
<1> HIDE DEF l
<1>3. Len(s) - i < MaxGrants /\ MaxGrants \in Nat
  BY AccessConstants DEF KeptAt
<1>a. d < i /\ d \in Nat /\ i =< Len(s)
  <2>1. CASE Len(s) > MaxGrants
    <3>1. d = Len(s) - MaxGrants
      BY <1>1, <2>1
    <3>2. QED
      BY <1>0, <1>3, <3>1
  <2>2. CASE ~(Len(s) > MaxGrants)
    <3>1. d = 0
      BY <1>1, <2>2
    <3>2. QED
      BY <1>0, <3>1
  <2>3. QED
    BY <2>1, <2>2
<1>b. Len(l) = Len(s) - d
  BY <1>1
<1>4. i - d \in 1..Len(l) /\ i - d \in Nat
  BY <1>0, <1>a, <1>b
<1> DEFINE n == i - d
<1>5. /\ \A j \in (n + 1)..Len(l) : j + d \in (i + 1)..Len(s) /\ l[j] = s[j + d]
      /\ \A j \in (i + 1)..Len(s) : j - d \in (n + 1)..Len(l) /\ (j - d) + d = j
  <2>1. ASSUME NEW j \in (n + 1)..Len(l) PROVE j + d \in (i + 1)..Len(s) /\ j \in 1..(Len(s) - d)
    BY <1>0, <1>a, <1>b
  <2>2. ASSUME NEW j \in (i + 1)..Len(s) PROVE j - d \in (n + 1)..Len(l) /\ (j - d) + d = j
    BY <1>0, <1>a, <1>b
  <2>3. QED
    BY <1>1, <2>1, <2>2
<1>6. l[n] = s[i] /\ Len(l) - n = Len(s) - i
  <2>1. n \in 1..(Len(s) - d) /\ n + d = i
    BY <1>0, <1>1, <1>4
  <2>2. QED
    BY <1>0, <1>1, <2>1
<1> HIDE DEF n
<1>7. Since(l, n) = Since(s, i)
  <2>1. ASSUME NEW x \in Since(l, n) PROVE x \in Since(s, i)
    BY <1>5, <2>1 DEF Since
  <2>2. ASSUME NEW x \in Since(s, i) PROVE x \in Since(l, n)
    <3>1. PICK j \in (i + 1)..Len(s) : x = s[j].id
      BY <2>2 DEF Since
    <3>2. j - d \in (n + 1)..Len(l) /\ (j - d) + d = j
      BY <1>5
    <3>3. l[j - d] = s[j]
      BY <1>5, <3>2
    <3>4. QED
      BY <3>1, <3>2, <3>3 DEF Since
  <2>3. QED
    BY <2>1, <2>2
<1>8. n \in Nat /\ n \in DOMAIN l
  BY <1>2, <1>4 DEF n
<1>9. KeptAt(l, n, p)
  BY <1>6, <1>7, <1>8 DEF KeptAt
<1>10. QED
  BY <1>8, <1>9 DEF l

\* A promised grant stays in the cookie while fewer than MaxGrants albums were
\* unlocked since, the new one counted.
LEMMA AddKeeps ==
  ASSUME NEW s \in Seq(Grant), DistinctIds(s), NEW g \in Grant,
         NEW p \in Promise, p.id # g.id, IsFiniteSet(p.others), NEW i \in Nat, KeptAt(s, i, p),
         NEW q, q = [p EXCEPT !.others = @ \cup {g.id}], Cardinality(q.others) < MaxGrants
  PROVE  \E n \in Nat : KeptAt(Add(s, g), n, q)
<1> DEFINE a == Append(Without(s, g.id), g)
<1>1. a \in Seq(Grant)
  BY AppendedOnes
<1>2. q \in Promise
  BY DEF Promise, Grant
<1>3. PICK n \in Nat : KeptAt(a, n, q)
  BY AppendKeeps
<1> HIDE DEF a
<1>4. QED
  BY <1>1, <1>2, <1>3, LatestKeeps DEF Add, a

\* A grant just given is the last.
LEMMA LastKept ==
  ASSUME NEW s \in Seq(Grant), NEW g \in Grant, Len(s) \in 1..MaxGrants, s[Len(s)] = g,
         NEW p \in Promise, p.id = g.id, p.version = g.version, p.others = {}
  PROVE  \E n \in Nat : KeptAt(s, n, p)
<1> DEFINE n == Len(s)
<1>1. n \in Nat /\ n \in DOMAIN s /\ (n + 1)..n = {} /\ n - n = 0
  BY LenProperties
<1>2. Since(s, n) = {} /\ Cardinality({}) = 0
  BY <1>1, FS_EmptySet DEF Since
<1>3. KeptAt(s, n, p)
  BY <1>1, <1>2 DEF KeptAt
<1>4. QED
  BY <1>1, <1>3

-----------------------------------------------------------------------------
(***************************************************************************)
(* Which steps move what.                                                  *)
(***************************************************************************)
MovesTable == \/ \E e \in Editors : UpdateAlbum(e)
              \/ \E p \in Publishers : CreateAlbum(p)
              \/ \E e \in Admins : DeleteAlbum(e)
MovesKey == (\E p \in Publishers : Touch(p)) \/ (\E e \in Admins : Revoke(e))
MovesEdit == \/ \E p \in Publishers : Publish(p) \/ Touch(p) \/ ReadAlbum(p)
             \/ \E e \in Admins : Command(e) \/ Revoke(e)
             \/ MovesTable \/ Stop
MovesTab == (\E t \in Tabs : Attempt(t) \/ CheckPassword(t) \/ Answer(t)) \/ Stop
MovesPlan == \/ \E p \in Publishers : Publish(p)
             \/ \E e \in Admins : Command(e) \/ Revoke(e)
             \/ \E t \in Tabs : Attempt(t)
             \/ Boot

Frames ==
  /\ UNCHANGED clock \/ Tick
  /\ UNCHANGED <<rows, used, raced>> \/ MovesTable
  /\ UNCHANGED <<revoked, everRevoked>> \/ MovesKey
  /\ UNCHANGED <<stored, secret, drawn>> \/ Boot \/ Stop
  /\ UNCHANGED edit \/ MovesEdit
  /\ UNCHANGED <<buckets, lastSweep, admitted, retryAt>> \/ Boot \/ \E t \in Tabs : Attempt(t)
  /\ UNCHANGED tab \/ MovesTab
  /\ UNCHANGED <<jar, promised>> \/ \E t \in Tabs : Answer(t)
  /\ UNCHANGED plan \/ MovesPlan

\* What no step of a kind moves stays as it is.
LEMMA StepFrames == ASSUME [Next]_vars PROVE Frames
<1> USE DEF Frames, MovesTable, MovesKey, MovesEdit, MovesTab, MovesPlan,
            table, server, apiKey, visits, limiter, Editors, Begin, Becomes, Goto, End, StartTab, TabBecomes
<1>1. CASE UNCHANGED vars
  BY <1>1 DEF vars
<1>2. ASSUME NEW p \in Publishers, Publish(p) PROVE Frames
  BY <1>2 DEF Publish
<1>3. ASSUME NEW p \in Publishers, Touch(p) PROVE Frames
  BY <1>3 DEF Touch
<1>4. ASSUME NEW p \in Publishers, ReadAlbum(p) PROVE Frames
  BY <1>4 DEF ReadAlbum
<1>5. ASSUME NEW p \in Publishers, CreateAlbum(p) PROVE Frames
  BY <1>5 DEF CreateAlbum
<1>6. ASSUME NEW e \in Admins, Command(e) PROVE Frames
  BY <1>6 DEF Command
<1>7. ASSUME NEW e \in Admins, DeleteAlbum(e) PROVE Frames
  BY <1>7 DEF DeleteAlbum
<1>8. ASSUME NEW e \in Admins, Revoke(e) PROVE Frames
  BY <1>8 DEF Revoke
<1>9. ASSUME NEW e \in Editors, UpdateAlbum(e) PROVE Frames
  BY <1>9 DEF UpdateAlbum
<1>10. ASSUME NEW t \in Tabs, Attempt(t) PROVE Frames
  BY <1>10 DEF Attempt
<1>11. ASSUME NEW t \in Tabs, CheckPassword(t) PROVE Frames
  BY <1>11 DEF CheckPassword
<1>12. ASSUME NEW t \in Tabs, Answer(t) PROVE Frames
  BY <1>12 DEF Answer
<1>13. CASE Tick
  BY <1>13 DEF Tick
<1>14. CASE Boot
  BY <1>14 DEF Boot
<1>15. CASE Stop
  BY <1>15 DEF Stop
<1>16. QED
  BY <1>1, <1>2, <1>3, <1>4, <1>5, <1>6, <1>7, <1>8, <1>9, <1>10, <1>11, <1>12, <1>13, <1>14, <1>15
     DEF Next

-----------------------------------------------------------------------------
(***************************************************************************)
(* Types.                                                                  *)
(***************************************************************************)

\* What is written over a row is a row.
LEMMA WrittenIsRow ==
  ASSUME NEW c \in Edit, EditFits(c), c.pc = "write" PROVE Written(c) \in Row
<1>1. /\ c.seen \in Row /\ c.pw \in Passwords \cup {Keep, Clear}
      /\ c.op = "password" => c.pw # Keep
  BY DEF EditFits, Edit
<1>2. ASSUME c.pw # Keep PROVE Secured(c.seen, c.pw) \in Row
  BY <1>1, <1>2 DEF Secured, Row
<1>3. QED
  BY <1>1, <1>2 DEF Written, Updated

\* The album rows, in every step.
LEMMA TableStep ==
  ASSUME TypeInv, [Next]_vars PROVE TableInv' /\ used \subseteq used'
<1> USE DEF TypeInv
<1>1. CASE UNCHANGED <<rows, used, raced>>
  BY <1>1 DEF TableInv
<1>2. ASSUME NEW e \in Editors, UpdateAlbum(e) PROVE TableInv' /\ used \subseteq used'
  <2>1. edit[e] \in Edit /\ EditFits(edit[e]) /\ edit[e].pc = "write" /\ used' = used
    BY <1>2 DEF EditInv, UpdateAlbum
  <2>2. Written(edit[e]) \in Row
    BY <2>1, WrittenIsRow
  <2>3. CASE edit[e].id \in DOMAIN rows
    <3>1. /\ rows' = [rows EXCEPT ![edit[e].id] = Written(edit[e])]
          /\ raced' \in {raced, raced \cup {edit[e].id}}
      BY <1>2, <2>3 DEF UpdateAlbum
    <3>2. QED
      BY <2>1, <2>2, <2>3, <3>1 DEF TableInv
  <2>4. CASE edit[e].id \notin DOMAIN rows
    BY <1>2, <2>1, <2>4 DEF UpdateAlbum, TableInv
  <2>5. QED
    BY <2>3, <2>4
<1>3. ASSUME NEW p \in Publishers, CreateAlbum(p) PROVE TableInv' /\ used \subseteq used'
  <2>1. /\ edit[p].pc = "read" /\ edit[p].op = "create" /\ raced' = raced
        /\ edit[p].pw \in Passwords \cup {Keep, Clear} /\ EditFits(edit[p])
    BY <1>3 DEF CreateAlbum, EditInv, Edit, Editors
  <2>2. PICK a \in AlbumIds \ used :
          /\ rows' = [x \in DOMAIN rows \cup {a} |->
                         IF x # a THEN rows[x]
                         ELSE IF edit[p].pw = Keep THEN [pw |-> None, version |-> 0]
                                                   ELSE [pw |-> edit[p].pw, version |-> 1]]
          /\ used' = used \cup {a}
    BY <1>3 DEF CreateAlbum
  <2>3. edit[p].pw # Clear
    BY <2>1 DEF EditFits
  <2>4. (IF edit[p].pw = Keep THEN [pw |-> None, version |-> 0]
                              ELSE [pw |-> edit[p].pw, version |-> 1]) \in Row
    BY <2>1, <2>3 DEF Row
  <2>5. QED
    BY <2>1, <2>2, <2>4 DEF TableInv
<1>4. ASSUME NEW e \in Admins, DeleteAlbum(e) PROVE TableInv' /\ used \subseteq used'
  BY <1>4 DEF DeleteAlbum, TableInv
<1>5. QED
  BY <1>1, <1>2, <1>3, <1>4, StepFrames DEF Frames, MovesTable

\* The API key and the session secret, in every step.
LEMMA ServerStep == ASSUME TypeInv, [Next]_vars PROVE KeyInv' /\ SecretInv'
<1> USE DEF TypeInv
<1>1. KeyInv'
  <2>1. CASE UNCHANGED <<revoked, everRevoked>>
    BY <2>1 DEF KeyInv
  <2>2. ASSUME NEW p \in Publishers, Touch(p) PROVE KeyInv'
    BY <2>2 DEF Touch, TouchAPIKey, KeyInv
  <2>3. ASSUME NEW e \in Admins, Revoke(e) PROVE KeyInv'
    BY <2>3 DEF Revoke, KeyInv
  <2>4. QED
    BY <2>1, <2>2, <2>3, StepFrames DEF Frames, MovesKey
<1>2. SecretInv'
  <2>1. CASE UNCHANGED <<stored, secret, drawn>>
    BY <2>1 DEF SecretInv
  <2>2. CASE Stop
    BY <2>2 DEF Stop, SecretInv
  <2>3. CASE Boot
    BY <2>3, AccessConstants DEF Boot, SecretInv
  <2>4. QED
    BY <2>1, <2>2, <2>3, StepFrames DEF Frames
<1>3. QED
  BY <1>1, <1>2

\* What the scenario has in store, in every step.
LEMMA PlanStep == ASSUME TypeInv, [Next]_vars PROVE PlanInv'
<1> USE DEF TypeInv, PlanInv
<1>1. CASE UNCHANGED plan
  BY <1>1
<1>2. ASSUME NEW e, plan' = [plan EXCEPT !.edits[e] = @ - 1] PROVE PlanInv'
  BY <1>2
<1>3. ASSUME NEW t, plan' = [plan EXCEPT !.asks[t] = @ - 1] PROVE PlanInv'
  BY <1>3
<1>4. CASE Boot
  BY <1>4 DEF Boot
<1>5. ASSUME NEW p \in Publishers, Publish(p) PROVE PlanInv'
  BY <1>2, <1>5 DEF Publish, Begin
<1>6. ASSUME NEW e \in Admins, Command(e) \/ Revoke(e) PROVE PlanInv'
  BY <1>2, <1>6 DEF Command, Revoke, Begin
<1>7. ASSUME NEW t \in Tabs, Attempt(t) PROVE PlanInv'
  BY <1>3, <1>7 DEF Attempt, StartTab
<1>8. QED
  BY <1>1, <1>4, <1>5, <1>6, <1>7, StepFrames DEF Frames, MovesPlan

\* The editors' calls, in every step.
LEMMA EditStep == ASSUME TypeInv, [Next]_vars PROVE EditInv'
<1> USE DEF TypeInv
<1>0. NoEdit \in Edit /\ EditFits(NoEdit)
  BY DEF NoEdit, Edit, EditFits
<1>1. CASE UNCHANGED edit
  BY <1>1 DEF EditInv
<1>2. ASSUME NEW e \in Editors, NEW c \in Edit, EditFits(c), edit' = [edit EXCEPT ![e] = c]
      PROVE  EditInv'
  BY <1>2 DEF EditInv
<1>3. ASSUME NEW p \in Publishers, Publish(p) PROVE EditInv'
  <2>1. PICK op \in {"update", "create"}, pc \in {"touch", "read"}, pw \in Passwords \cup {Keep, Clear},
             a \in used \cup {None} :
          /\ op = "create" => pw # Clear
          /\ edit' = [edit EXCEPT ![p] = [pc |-> pc, op |-> op, id |-> a, pw |-> pw, seen |-> None]]
    BY <1>3 DEF Publish, Begin
  <2> DEFINE c == [pc |-> pc, op |-> op, id |-> a, pw |-> pw, seen |-> None]
  <2>2. c \in Edit /\ EditFits(c)
    BY <2>1 DEF Edit, EditFits, TableInv
  <2>3. QED
    BY <1>2, <2>1, <2>2 DEF Editors
<1>4. ASSUME NEW p \in Publishers, Touch(p) PROVE EditInv'
  <2>1. edit' = [edit EXCEPT ![p] = [edit[p] EXCEPT !.pc = "read"]] /\ edit[p].pc = "touch"
    BY <1>4 DEF Touch, Goto, Becomes
  <2>2. edit[p] \in Edit /\ EditFits(edit[p])
    BY DEF EditInv, Editors
  <2>3. [edit[p] EXCEPT !.pc = "read"] \in Edit /\ EditFits([edit[p] EXCEPT !.pc = "read"])
    BY <2>1, <2>2 DEF Edit, EditFits
  <2>4. QED
    BY <1>2, <2>1, <2>3 DEF Editors
<1>5. ASSUME NEW p \in Publishers, ReadAlbum(p) PROVE EditInv'
  <2>1. CASE edit[p].id \in DOMAIN rows
    <3>1. /\ edit' = [edit EXCEPT ![p] = [edit[p] EXCEPT !.pc = "write", !.seen = rows[edit[p].id]]]
          /\ edit[p].op = "update"
      BY <1>5, <2>1 DEF ReadAlbum, Becomes
    <3>2. edit[p] \in Edit /\ rows[edit[p].id] \in Row
      BY <2>1 DEF EditInv, Editors, TableInv
    <3> DEFINE c == [edit[p] EXCEPT !.pc = "write", !.seen = rows[edit[p].id]]
    <3>3. c \in Edit /\ EditFits(c)
      BY <3>1, <3>2 DEF Edit, EditFits
    <3>4. QED
      BY <1>2, <3>1, <3>3 DEF Editors
  <2>2. CASE edit[p].id \notin DOMAIN rows
    BY <1>0, <1>2, <1>5, <2>2 DEF ReadAlbum, End, Becomes, Editors
  <2>3. QED
    BY <2>1, <2>2
<1>6. ASSUME NEW e \in Admins, Command(e) PROVE EditInv'
  <2>1. PICK op \in {"password", "delete"}, a \in DOMAIN rows, pw \in Passwords \cup {Clear} :
          edit' = [edit EXCEPT ![e] = [pc |-> "write", op |-> op, id |-> a, pw |-> pw, seen |-> rows[a]]]
    BY <1>6 DEF Command, Begin
  <2>2. a \in AlbumIds /\ rows[a] \in Row /\ pw # Keep
    BY AccessConstants DEF TableInv
  <2> DEFINE c == [pc |-> "write", op |-> op, id |-> a, pw |-> pw, seen |-> rows[a]]
  <2>3. c \in Edit /\ EditFits(c)
    BY <2>2 DEF Edit, EditFits
  <2>4. QED
    BY <1>2, <2>1, <2>3 DEF Editors
<1>7. ASSUME NEW e \in Admins, Revoke(e) PROVE EditInv'
  BY <1>0, <1>2, <1>7 DEF Revoke, Begin, Editors
<1>8. CASE MovesTable
  BY <1>0, <1>2, <1>8 DEF MovesTable, UpdateAlbum, CreateAlbum, DeleteAlbum, End, Becomes, Editors
<1>9. CASE Stop
  BY <1>0, <1>9 DEF Stop, EditInv
<1>10. QED
  BY <1>1, <1>3, <1>4, <1>5, <1>6, <1>7, <1>8, <1>9, StepFrames DEF Frames, MovesEdit

\* What a cookie decodes to: its grants or none.
LEMMA DecodedOnes ==
  ASSUME NEW c \in Cookie, CookieFits(c)
  PROVE  /\ Decoded(c) \in {<<>>, c.grants}
         /\ Decoded(c) \in Seq(Grant) /\ DistinctIds(Decoded(c)) /\ Len(Decoded(c)) =< MaxGrants
         /\ AllHold(c.grants) => AllHold(Decoded(c))
<1>1. c.grants \in Seq(Grant)
  BY DEF Cookie
<1>2. <<>> \in Seq(Grant) /\ Len(<<>>) = 0 /\ DOMAIN <<>> = {} /\ MaxGrants \in Nat
  BY EmptySeq, AccessConstants
<1>3. Decoded(c) \in {<<>>, c.grants}
  BY DEF Decoded
<1>4. CASE Decoded(c) = c.grants
  BY <1>1, <1>4 DEF CookieFits
<1>5. CASE Decoded(c) = <<>>
  BY <1>2, <1>5, AccessConstants DEF DistinctIds, AllHold
<1>6. QED
  BY <1>3, <1>4, <1>5

\* An empty cookie fits.
LEMMA EmptyFits == NoCookie \in Cookie /\ CookieFits(NoCookie) /\ NoAsk \in Ask
<1>1. <<>> \in Seq(Grant) /\ Len(<<>>) = 0 /\ DOMAIN <<>> = {} /\ MaxGrants \in Nat
  BY EmptySeq, AccessConstants
<1>2. 0 \in 0..MaxSecrets
  BY AccessConstants
<1>3. NoCookie \in Cookie
  BY <1>1, <1>2 DEF NoCookie, Cookie
<1>4. NoCookie.grants = <<>>
  BY DEF NoCookie
<1>5. CookieFits(NoCookie)
  BY <1>1, <1>4 DEF CookieFits, DistinctIds
<1>6. QED
  BY <1>3, <1>5 DEF NoAsk, Ask

\* The cookie of an answer fits and has only the grants it came with and the new.
LEMMA AnswerFits ==
  ASSUME TypeInv, NEW t \in Tabs, tab[t].pc = "answer",
         NEW c, c = Signed(tab[t].sent, tab[t].gave)
  PROVE  /\ c \in Cookie /\ CookieFits(c)
         /\ c.exp = clock + Lifetime /\ c.secret = secret
         /\ c.grants = Add(Decoded(tab[t].sent), tab[t].gave)
         /\ Len(c.grants) \in 1..MaxGrants /\ c.grants[Len(c.grants)] = tab[t].gave
         /\ \A i \in DOMAIN c.grants :
               c.grants[i] = tab[t].gave \/ \E j \in DOMAIN tab[t].sent.grants : c.grants[i] = tab[t].sent.grants[j]
<1> DEFINE s == Decoded(tab[t].sent)
           g == tab[t].gave
<1>1. tab[t].sent \in Cookie /\ CookieFits(tab[t].sent) /\ g \in Grant
  BY DEF TypeInv, CookieInv, Ask
<1>2. s \in Seq(Grant) /\ DistinctIds(s) /\ s \in {<<>>, tab[t].sent.grants}
  BY <1>1, DecodedOnes
<1> HIDE DEF s, g
<1>3. /\ Add(s, g) \in Seq(Grant) /\ Len(Add(s, g)) \in 1..MaxGrants
      /\ Add(s, g)[Len(Add(s, g))] = g /\ DistinctIds(Add(s, g))
      /\ \A i \in DOMAIN Add(s, g) : Add(s, g)[i] = g \/ \E j \in DOMAIN s : Add(s, g)[i] = s[j]
  BY <1>1, <1>2, AddEffect
<1>4. c = [exp |-> clock + Lifetime, secret |-> secret, grants |-> Add(s, g)]
  BY DEF Signed, s, g
<1>5. clock \in Nat /\ clock + Lifetime \in Nat /\ secret \in 0..MaxSecrets
  BY AccessConstants DEF TypeInv, LimitType, LimiterInv, Ticks, SecretInv
<1>6. c \in Cookie
  BY <1>3, <1>4, <1>5 DEF Cookie
<1>7. CookieFits(c)
  <2>1. Len(c.grants) =< MaxGrants
    BY <1>3, <1>4, AccessConstants
  <2>2. QED
    BY <1>3, <1>4, <2>1 DEF CookieFits
<1>8. DOMAIN <<>> = {}
  OBVIOUS
<1>9. ASSUME NEW i \in DOMAIN c.grants
      PROVE  c.grants[i] = g \/ \E j \in DOMAIN tab[t].sent.grants : c.grants[i] = tab[t].sent.grants[j]
  BY <1>2, <1>3, <1>4, <1>8
<1>10. QED
  BY <1>3, <1>4, <1>6, <1>7, <1>9 DEF s, g

\* What an attempt leaves in its tab.
LEMMA AttemptTab ==
  ASSUME NEW t \in Tabs, Attempt(t)
  PROVE  \E a : /\ tab' = [tab EXCEPT ![t] = a]
                /\ \/ a = NoAsk
                   \/ \E slug \in Slugs, pw \in Passwords :
                        a = [pc |-> "read", slug |-> slug, pw |-> pw,
                             sent |-> jar[BrowserOf[t]], gave |-> None]
<1>1. PICK slug \in Slugs, pw \in Passwords :
        \/ tab' = [tab EXCEPT ![t] = NoAsk]
        \/ tab' = [tab EXCEPT ![t] = [pc |-> "read", slug |-> slug, pw |-> pw,
                                      sent |-> jar[BrowserOf[t]], gave |-> None]]
  BY DEF Attempt, StartTab
<1>2. QED
  BY <1>1

\* What the check of a password leaves in its tab: a grant for the password of the
\* row that was read, if there is one.
LEMMA CheckTab ==
  ASSUME TypeInv, NEW t \in Tabs, CheckPassword(t)
  PROVE  \E a : /\ tab' = [tab EXCEPT ![t] = a]
                /\ \/ a = NoAsk
                   \/ \E g \in Grant : /\ a = [tab[t] EXCEPT !.pc = "answer", !.gave = g]
                                       /\ g.id \in DOMAIN rows
                                       /\ g.version = rows[g.id].version /\ g.pw = rows[g.id].pw
<1>1. tab[t].pc = "read" /\ tab[t].pw \in Passwords
  BY DEF CheckPassword, TypeInv, CookieInv
<1>2. CASE tab' = [tab EXCEPT ![t] = NoAsk]
  BY <1>2
<1>3. CASE \E a \in DOMAIN rows :
             /\ rows[a].pw = tab[t].pw
             /\ tab' = [tab EXCEPT ![t] = [tab[t] EXCEPT !.pc = "answer",
                             !.gave = [id |-> a, version |-> rows[a].version, pw |-> rows[a].pw]]]
  <2>1. PICK a \in DOMAIN rows :
             /\ rows[a].pw = tab[t].pw
             /\ tab' = [tab EXCEPT ![t] = [tab[t] EXCEPT !.pc = "answer",
                             !.gave = [id |-> a, version |-> rows[a].version, pw |-> rows[a].pw]]]
    BY <1>3
  <2>2. rows[a] \in Row /\ a \in AlbumIds
    BY DEF TypeInv, TableInv
  <2>3. PICK g : g = [id |-> a, version |-> rows[a].version, pw |-> rows[a].pw]
    OBVIOUS
  <2>4. g \in Grant /\ g.id = a /\ g.version = rows[g.id].version /\ g.pw = rows[g.id].pw
    BY <1>1, <2>1, <2>2, <2>3 DEF Grant, Row
  <2>5. QED
    BY <2>1, <2>3, <2>4
<1>4. QED
  BY <1>2, <1>3 DEF CheckPassword, TabBecomes

\* The cookies, kept and under way, in every step.
LEMMA CookieStep == ASSUME TypeInv, [Next]_vars PROVE CookieInv'
<1>1. /\ tab \in [Tabs -> Ask] /\ jar \in [Browsers -> Cookie]
      /\ \A b \in Browsers : CookieFits(jar[b])
      /\ \A t \in Tabs : /\ CookieFits(tab[t].sent)
                         /\ tab[t].pc = "read" => tab[t].pw \in Passwords
                         /\ tab[t].pc = "answer" => tab[t].gave \in Grant
      /\ \A t \in Tabs : BrowserOf[t] \in Browsers
  BY AccessConstants DEF TypeInv, CookieInv
<1> DEFINE Fits(a) == /\ a \in Ask /\ CookieFits(a.sent)
                      /\ a.pc = "read" => a.pw \in Passwords
                      /\ a.pc = "answer" => a.gave \in Grant
<1>2. Fits(NoAsk)
  BY EmptyFits DEF NoAsk
<1>3. \A t \in Tabs : Fits(tab'[t])
  <2>1. CASE UNCHANGED tab
    BY <1>1, <2>1
  <2>2. ASSUME NEW t \in Tabs, NEW a, Fits(a), tab' = [tab EXCEPT ![t] = a]
        PROVE  \A u \in Tabs : Fits(tab'[u])
    BY <1>1, <2>2
  <2>3. ASSUME NEW t \in Tabs, Attempt(t) PROVE \A u \in Tabs : Fits(tab'[u])
    <3>1. PICK a : /\ tab' = [tab EXCEPT ![t] = a]
                   /\ \/ a = NoAsk
                      \/ \E slug \in Slugs, pw \in Passwords :
                           a = [pc |-> "read", slug |-> slug, pw |-> pw,
                                sent |-> jar[BrowserOf[t]], gave |-> None]
      BY <2>3, AttemptTab
    <3>2. Fits(a)
      BY <1>1, <1>2, <3>1 DEF Ask
    <3>3. QED
      BY <2>2, <3>1, <3>2
  <2>4. ASSUME NEW t \in Tabs, CheckPassword(t) PROVE \A u \in Tabs : Fits(tab'[u])
    <3>1. PICK a : /\ tab' = [tab EXCEPT ![t] = a]
                   /\ a = NoAsk \/ \E g \in Grant : a = [tab[t] EXCEPT !.pc = "answer", !.gave = g]
      BY <2>4, CheckTab
    <3>2. Fits(a)
      BY <1>1, <1>2, <3>1 DEF Ask
    <3>3. QED
      BY <2>2, <3>1, <3>2
  <2>5. ASSUME NEW t \in Tabs, Answer(t) PROVE \A u \in Tabs : Fits(tab'[u])
    BY <1>2, <2>2, <2>5 DEF Answer, TabBecomes
  <2>6. CASE Stop
    BY <1>2, <2>6 DEF Stop
  <2>7. QED
    BY <2>1, <2>3, <2>4, <2>5, <2>6, StepFrames DEF Frames, MovesTab
<1>4. tab' \in [Tabs -> Ask]
  <2>1. DOMAIN tab' = Tabs /\ tab' = [t \in Tabs |-> tab'[t]]
    BY <1>1, StepFrames, AttemptTab, CheckTab DEF Frames, MovesTab, Answer, TabBecomes, Stop
  <2>2. QED
    BY <1>3, <2>1
<1>5. jar' \in [Browsers -> Cookie] /\ \A b \in Browsers : CookieFits(jar'[b])
  <2>1. CASE UNCHANGED jar
    BY <1>1, <2>1
  <2>2. ASSUME NEW t \in Tabs, Answer(t) PROVE <1>5!1 /\ <1>5!2
    <3>1. CASE UNCHANGED jar
      BY <1>1, <3>1
    <3>2. CASE jar' = [jar EXCEPT ![BrowserOf[t]] = Signed(tab[t].sent, tab[t].gave)]
      <4>1. PICK c : c = Signed(tab[t].sent, tab[t].gave)
        OBVIOUS
      <4>2. c \in Cookie /\ CookieFits(c)
        BY <2>2, <4>1, AnswerFits DEF Answer
      <4>3. QED
        BY <1>1, <3>2, <4>1, <4>2
    <3>3. QED
      BY <2>2, <3>1, <3>2 DEF Answer
  <2>3. QED
    BY <2>1, <2>2, StepFrames DEF Frames
<1>6. QED
  BY <1>3, <1>4, <1>5 DEF CookieInv, CookieFits, DistinctIds

\* What an attempt does to the limiter and to what is counted about its client.
LEMMA AttemptCounts ==
  ASSUME NEW t \in Tabs, Attempt(t)
  PROVE  \E k \in Clients :
           /\ Allow(k) /\ clock' = clock
           /\ \/ /\ Allowed(k)
                 /\ admitted' = [admitted EXCEPT ![k] =
                                   [i \in Ticks |-> IF i < clock THEN @[i] ELSE @[i] + 1]]
                 /\ retryAt' = [retryAt EXCEPT ![k] = None]
              \/ /\ ~Allowed(k) /\ admitted' = admitted
                 /\ retryAt' = [retryAt EXCEPT ![k] = clock + WaitFor(k)]
<1>1. PICK slug \in Slugs :
        LET k == <<BrowserOf[t], slug>> IN
           /\ Allow(k) /\ clock' = clock
           /\ \/ /\ Allowed(k)
                 /\ admitted' = [admitted EXCEPT ![k] =
                                   [i \in Ticks |-> IF i < clock THEN @[i] ELSE @[i] + 1]]
                 /\ retryAt' = [retryAt EXCEPT ![k] = None]
              \/ /\ ~Allowed(k) /\ admitted' = admitted
                 /\ retryAt' = [retryAt EXCEPT ![k] = clock + WaitFor(k)]
  BY DEF Attempt
<1>2. <<BrowserOf[t], slug>> \in Clients
  BY AccessConstants
<1>3. QED
  BY <1>1, <1>2

\* The limiter and what is counted about it, in every step.
LEMMA LimitStep == ASSUME TypeInv, [Next]_vars PROVE LimitType'
<1>0. LimitType /\ LimiterInv /\ clock \in Nat
  BY DEF TypeInv, LimitType, LimiterInv, Ticks
<1>1. CASE Tick
  <2>1. clock' = clock + 1 /\ clock' \in Ticks /\ UNCHANGED <<limiter, admitted, retryAt>>
    <3>1. clock' = clock + 1 /\ clock < plan.until /\ plan.until \in 0..LastTick /\ UNCHANGED <<limiter, admitted, retryAt>>
      BY <1>1 DEF Tick, TypeInv, PlanInv, visits
    <3>2. QED
      BY <1>0, <3>1, LimiterConstants DEF Ticks
  <2>2. QED
    BY <1>0, <2>1, TickLevel DEF LimitType
<1>2. CASE Boot
  <2>1. LimiterInv'
    BY <1>0, <1>2, EmptiedLimiter DEF Boot, LimiterInv
  <2>2. QED
    BY <1>2, <2>1 DEF Boot, LimitType
<1>3. ASSUME NEW t \in Tabs, Attempt(t) PROVE LimitType'
  <2>1. PICK k \in Clients :
           /\ Allow(k) /\ clock' = clock
           /\ \/ /\ Allowed(k)
                 /\ admitted' = [admitted EXCEPT ![k] =
                                   [i \in Ticks |-> IF i < clock THEN @[i] ELSE @[i] + 1]]
                 /\ retryAt' = [retryAt EXCEPT ![k] = None]
              \/ /\ ~Allowed(k) /\ admitted' = admitted
                 /\ retryAt' = [retryAt EXCEPT ![k] = clock + WaitFor(k)]
    BY <1>3, AttemptCounts
  <2>2. LimiterInv'
    BY <1>0, <2>1, AllowKeeps
  <2>3. CASE Allowed(k)
    <3>1. [i \in Ticks |-> IF i < clock THEN admitted[k][i] ELSE admitted[k][i] + 1] \in [Ticks -> Nat]
      BY <1>0 DEF LimitType
    <3>2. admitted' = [admitted EXCEPT ![k] =
                         [i \in Ticks |-> IF i < clock THEN admitted[k][i] ELSE admitted[k][i] + 1]]
      BY <2>1, <2>3
    <3>3. retryAt' = [retryAt EXCEPT ![k] = None]
      BY <2>1, <2>3
    <3>4. admitted' \in [Clients -> [Ticks -> Nat]] /\ retryAt' \in [Clients -> Nat \cup {None}]
      BY <1>0, <3>1, <3>2, <3>3 DEF LimitType
    <3>5. QED
      BY <2>2, <3>4 DEF LimitType
  <2>4. CASE ~Allowed(k)
    <3>1. WaitFor(k) \in Nat
      BY <1>0, <2>4, Waits
    <3>2. clock + WaitFor(k) \in Nat
      BY <1>0, <3>1
    <3>3. QED
      BY <1>0, <2>1, <2>2, <2>4, <3>2 DEF LimitType
  <2>5. QED
    BY <2>3, <2>4
<1>4. CASE UNCHANGED <<clock, buckets, lastSweep, admitted, retryAt>>
  BY <1>0, <1>4 DEF LimitType, LimiterInv
<1>5. QED
  BY <1>1, <1>2, <1>3, <1>4, StepFrames DEF Frames

\* What browsers may count on, in every step.
LEMMA PromiseType == ASSUME TypeInv, [Next]_vars PROVE promised' \in [Browsers -> SUBSET Promise]
<1>1. CASE UNCHANGED promised
  BY <1>1 DEF TypeInv
<1>2. ASSUME NEW t \in Tabs, Answer(t) PROVE promised' \in [Browsers -> SUBSET Promise]
  <2>1. BrowserOf[t] \in Browsers /\ tab[t].gave \in Grant /\ clock + Lifetime \in Nat
    BY <1>2, AccessConstants DEF Answer, TypeInv, CookieInv, LimitType, LimiterInv, Ticks
  <2>2. PICK P : P = Promises(BrowserOf[t], tab[t].sent, tab[t].gave)
    OBVIOUS
  <2>3. P \subseteq Promise
    BY <2>1, <2>2 DEF Promises, Promise, Grant, TypeInv
  <2>4. CASE promised' = [promised EXCEPT ![BrowserOf[t]] = P]
    BY <2>1, <2>3, <2>4 DEF TypeInv
  <2>5. QED
    BY <1>1, <1>2, <2>2, <2>4 DEF Answer
<1>3. QED
  BY <1>1, <1>2, StepFrames DEF Frames

\* Every variable keeps its type.
LEMMA TypeStep == ASSUME TypeInv, [Next]_vars PROVE TypeInv'
BY TableStep, ServerStep, PlanStep, EditStep, CookieStep, LimitStep, PromiseType DEF TypeInv

-----------------------------------------------------------------------------
(***************************************************************************)
(* Grants name the password they were given for.                           *)
(***************************************************************************)

\* A write over the row that was read makes a new version, or changes nothing.
LEMMA WrittenIsNew ==
  ASSUME NEW c, c.seen \in Row
  PROVE  Written(c) = c.seen \/ Written(c).version = c.seen.version + 1
BY DEF Written, Updated, Secured

\* A grant that names its album's password does so after every step: only a write
\* over a row that its writer had not read could make it lie.
LEMMA HoldsOn == ASSUME TypeInv, [Next]_vars, NEW g \in Grant, Holds(g) PROVE Holds(g)'
<1>0. /\ \A a \in DOMAIN rows : rows[a].version \in Nat
      /\ g.version \in Nat /\ g.id \in used /\ used \subseteq used'
  BY TableStep DEF TypeInv, TableInv, Row, Grant, Holds
<1>1. CASE UNCHANGED <<rows, used, raced>>
  BY <1>1 DEF Holds
<1>2. ASSUME NEW e \in Editors, UpdateAlbum(e) PROVE Holds(g)'
  <2>1. CASE edit[e].id \in DOMAIN rows /\ g.id = edit[e].id /\ g.id \notin raced'
    <3>1. /\ rows' = [rows EXCEPT ![g.id] = Written(edit[e])]
          /\ raced' = raced /\ rows[g.id] = edit[e].seen
      BY <1>2, <2>1 DEF UpdateAlbum
    <3>2. edit[e].seen \in Row
      BY <1>2 DEF UpdateAlbum, TypeInv, EditInv, EditFits
    <3>3. PICK w : w = Written(edit[e])
      OBVIOUS
    <3>4. w = rows[g.id] \/ w.version = rows[g.id].version + 1
      BY <3>1, <3>2, <3>3, WrittenIsNew
    <3>5. rows'[g.id] = w
      BY <2>1, <3>1, <3>3 DEF TypeInv, TableInv
    <3>6. CASE w = rows[g.id]
      <4>1. rows' = rows
        BY <2>1, <3>1, <3>3, <3>6 DEF TypeInv, TableInv
      <4>2. QED
        BY <1>0, <3>1, <4>1 DEF Holds
    <3>7. CASE w.version = rows[g.id].version + 1
      <4>1. g.version =< rows[g.id].version /\ rows[g.id].version \in Nat
        BY <1>0, <2>1, <3>1 DEF Holds
      <4>2. g.version =< rows'[g.id].version /\ g.version # rows'[g.id].version
        BY <1>0, <3>5, <3>7, <4>1
      <4>3. QED
        BY <1>0, <4>2 DEF Holds
    <3>8. QED
      BY <3>4, <3>6, <3>7
  <2>2. CASE edit[e].id \in DOMAIN rows /\ g.id # edit[e].id
    <3>1. PICK w : rows' = [rows EXCEPT ![edit[e].id] = w]
      BY <1>2, <2>2 DEF UpdateAlbum
    <3>2. raced \subseteq raced'
      BY <1>2, <2>2 DEF UpdateAlbum
    <3>3. DOMAIN rows' = DOMAIN rows /\ (g.id \in DOMAIN rows => rows'[g.id] = rows[g.id])
      BY <2>2, <3>1 DEF TypeInv, TableInv
    <3>4. QED
      BY <1>0, <3>2, <3>3 DEF Holds
  <2>3. CASE g.id \in raced'
    BY <1>0, <2>3 DEF Holds
  <2>4. CASE edit[e].id \notin DOMAIN rows
    BY <1>0, <1>2, <2>4 DEF Holds, UpdateAlbum
  <2>5. QED
    BY <2>1, <2>2, <2>3, <2>4
<1>3. ASSUME NEW p \in Publishers, CreateAlbum(p) PROVE Holds(g)'
  <2>1. PICK a, r :
          /\ a \in AlbumIds \ used
          /\ rows' = [x \in DOMAIN rows \cup {a} |-> IF x # a THEN rows[x] ELSE r]
    BY <1>3 DEF CreateAlbum
  <2>2. raced' = raced
    BY <1>3 DEF CreateAlbum
  <2>3. g.id # a
    BY <1>0, <2>1
  <2>4. QED
    BY <1>0, <2>1, <2>2, <2>3 DEF Holds
<1>4. ASSUME NEW e \in Admins, DeleteAlbum(e) PROVE Holds(g)'
  BY <1>0, <1>4 DEF DeleteAlbum, Holds
<1>5. QED
  BY <1>1, <1>2, <1>3, <1>4, StepFrames DEF Frames, MovesTable

\* So do all grants of a cookie.
LEMMA AllHoldOn ==
  ASSUME TypeInv, [Next]_vars, NEW s \in Seq(Grant), AllHold(s) PROVE AllHold(s)'
<1>1. ASSUME NEW i \in DOMAIN s PROVE Holds(s[i])'
  <2>1. s[i] \in Grant
    BY LenProperties, ElementOfSeq
  <2>2. PICK g \in Grant : g = s[i]
    BY <2>1
  <2>3. Holds(g)'
    BY <2>2, HoldsOn DEF AllHold
  <2>4. QED
    BY <2>2, <2>3
<1>2. QED
  BY <1>1 DEF AllHold

\* The grants kept in cookies, under way and about to be given, in every step.
LEMMA GrantsStep == ASSUME TypeInv, GrantsHold, [Next]_vars PROVE GrantsHold'
<1>0. /\ tab \in [Tabs -> Ask] /\ jar \in [Browsers -> Cookie] /\ \A t \in Tabs : BrowserOf[t] \in Browsers
      /\ \A b \in Browsers : jar[b].grants \in Seq(Grant) /\ AllHold(jar[b].grants)
      /\ \A t \in Tabs : /\ tab[t].sent.grants \in Seq(Grant) /\ AllHold(tab[t].sent.grants)
                         /\ tab[t].pc = "answer" => tab[t].gave \in Grant /\ Holds(tab[t].gave)
  BY AccessConstants DEF TypeInv, CookieInv, GrantsHold, Ask, Cookie
<1>1. ASSUME NEW b \in Browsers PROVE AllHold(jar[b].grants)'
  <2>1. PICK s : s = jar'[b].grants
    OBVIOUS
  <2>2. s \in Seq(Grant) /\ AllHold(s)
    <3>1. CASE jar'[b] = jar[b]
      BY <1>0, <2>1, <3>1
    <3>2. ASSUME NEW t \in Tabs, Answer(t), b = BrowserOf[t], jar' = [jar EXCEPT ![b] = Signed(tab[t].sent, tab[t].gave)]
          PROVE  s \in Seq(Grant) /\ AllHold(s)
      <4>1. PICK c : c = Signed(tab[t].sent, tab[t].gave)
        OBVIOUS
      <4>2. tab[t].pc = "answer"
        BY <3>2 DEF Answer
      <4>3. /\ c \in Cookie
            /\ \A i \in DOMAIN c.grants :
                 c.grants[i] = tab[t].gave \/ \E j \in DOMAIN tab[t].sent.grants : c.grants[i] = tab[t].sent.grants[j]
        BY <4>1, <4>2, AnswerFits
      <4>4. s = c.grants
        BY <1>0, <2>1, <3>2, <4>1
      <4>5. s \in Seq(Grant)
        BY <4>3, <4>4 DEF Cookie
      <4>6. AllHold(s)
        BY <1>0, <4>2, <4>3, <4>4 DEF AllHold
      <4>7. QED
        BY <4>5, <4>6
    <3>3. QED
      BY <1>0, <3>1, <3>2, StepFrames DEF Frames, Answer
  <2>3. AllHold(s)'
    BY <2>2, AllHoldOn
  <2>4. QED
    BY <2>1, <2>3 DEF AllHold, Holds
<1> DEFINE Good(a) == /\ a.sent.grants \in Seq(Grant) /\ AllHold(a.sent.grants)
                      /\ a.pc = "answer" => a.gave \in Grant /\ Holds(a.gave)
<1>2. Good(NoAsk)
  <2>1. NoAsk.sent.grants = <<>> /\ NoAsk.pc = "idle" /\ DOMAIN <<>> = {} /\ <<>> \in Seq(Grant)
    BY EmptySeq DEF NoAsk, NoCookie
  <2>2. QED
    BY <2>1 DEF AllHold
<1>3. \A t \in Tabs : Good(tab'[t])
  <2>1. CASE UNCHANGED tab
    BY <1>0, <2>1
  <2>2. ASSUME NEW t \in Tabs, NEW a, Good(a), tab' = [tab EXCEPT ![t] = a]
        PROVE  \A u \in Tabs : Good(tab'[u])
    BY <1>0, <2>2
  <2>3. ASSUME NEW t \in Tabs, Attempt(t) PROVE \A u \in Tabs : Good(tab'[u])
    <3>1. PICK a : /\ tab' = [tab EXCEPT ![t] = a]
                   /\ \/ a = NoAsk
                      \/ \E slug \in Slugs, pw \in Passwords :
                           a = [pc |-> "read", slug |-> slug, pw |-> pw,
                                sent |-> jar[BrowserOf[t]], gave |-> None]
      BY <2>3, AttemptTab
    <3>2. Good(a)
      BY <1>0, <1>2, <3>1
    <3>3. QED
      BY <2>2, <3>1, <3>2
  <2>4. ASSUME NEW t \in Tabs, CheckPassword(t) PROVE \A u \in Tabs : Good(tab'[u])
    <3>1. PICK a : /\ tab' = [tab EXCEPT ![t] = a]
                   /\ \/ a = NoAsk
                      \/ \E g \in Grant : /\ a = [tab[t] EXCEPT !.pc = "answer", !.gave = g]
                                          /\ g.id \in DOMAIN rows
                                          /\ g.version = rows[g.id].version /\ g.pw = rows[g.id].pw
      BY <2>4, CheckTab
    <3>2. ASSUME NEW g \in Grant, a = [tab[t] EXCEPT !.pc = "answer", !.gave = g], g.id \in DOMAIN rows,
                 g.version = rows[g.id].version, g.pw = rows[g.id].pw
          PROVE  Good(a)
      <4>1. Holds(g)
        BY <3>2 DEF Holds, TypeInv, TableInv, Row, Grant
      <4>2. a.sent = tab[t].sent /\ a.gave = g
        BY <1>0, <3>2 DEF Ask
      <4>3. QED
        BY <1>0, <4>1, <4>2
    <3>3. Good(a)
      BY <1>2, <3>1, <3>2
    <3>4. QED
      BY <2>2, <3>1, <3>3
  <2>5. ASSUME NEW t \in Tabs, Answer(t) PROVE \A u \in Tabs : Good(tab'[u])
    BY <1>2, <2>2, <2>5 DEF Answer, TabBecomes
  <2>6. CASE Stop
    BY <1>2, <2>6 DEF Stop
  <2>7. QED
    BY <2>1, <2>3, <2>4, <2>5, <2>6, StepFrames DEF Frames, MovesTab
<1>4. ASSUME NEW t \in Tabs PROVE AllHold(tab[t].sent.grants)' /\ (tab[t].pc = "answer" => Holds(tab[t].gave))'
  <2>1. PICK a : a = tab'[t]
    OBVIOUS
  <2>2. Good(a)
    BY <1>3, <2>1
  <2> HIDE DEF Good
  <2>3. PICK s : s = a.sent.grants
    OBVIOUS
  <2>4. AllHold(s)'
    BY <2>2, <2>3, AllHoldOn DEF Good
  <2>5. ASSUME a.pc = "answer", NEW g, g = a.gave PROVE Holds(g)'
    BY <2>2, <2>5, HoldsOn DEF Good
  <2>6. AllHold(tab[t].sent.grants)'
    BY <2>1, <2>3, <2>4 DEF AllHold, Holds
  <2>7. (tab[t].pc = "answer" => Holds(tab[t].gave))'
    BY <2>1, <2>5 DEF Holds
  <2>8. QED
    BY <2>6, <2>7
<1>5. QED
  BY <1>1, <1>4 DEF GrantsHold

-----------------------------------------------------------------------------
(***************************************************************************)
(* Promises are kept.                                                      *)
(***************************************************************************)

\* A promise lasts in a cookie that no answer replaced: the secret is drawn once,
\* and time only brings its end nearer.
LEMMA KeptOn ==
  ASSUME TypeInv, [Next]_vars, NEW c \in Cookie, NEW p \in Promise, Kept(c, p)
  PROVE  Kept(c, p)'
<1>1. clock \in Nat /\ clock' \in Nat /\ clock =< clock'
  <2>1. clock \in Nat
    BY DEF TypeInv, LimitType, LimiterInv, Ticks
  <2>2. clock' = clock \/ clock' = clock + 1
    BY StepFrames DEF Frames, Tick
  <2>3. QED
    BY <2>1, <2>2
<1>2. stored' = stored
  BY StepFrames DEF Frames, Boot, Stop, Kept
<1>3. p.until \in Nat /\ Lifetime \in Nat
  BY AccessConstants DEF Promise
<1>4. p.until =< clock' + Lifetime /\ (clock' < p.until => clock < p.until)
  BY <1>1, <1>3 DEF Kept
<1>5. QED
  BY <1>2, <1>4 DEF Kept

\* An answer keeps the earlier promises, with the new album among those unlocked
\* since, and its own.
LEMMA AnswerKeeps ==
  ASSUME TypeInv, PromisesKept, NEW t \in Tabs, Up, tab[t].pc = "answer",
         NEW c, c = Signed(tab[t].sent, tab[t].gave),
         NEW q \in Promises(BrowserOf[t], tab[t].sent, tab[t].gave)
  PROVE  Kept(c, q)
<1> DEFINE b == BrowserOf[t]
           g == tab[t].gave
           sent == tab[t].sent
<1>1. /\ b \in Browsers /\ g \in Grant /\ sent \in Cookie /\ CookieFits(sent)
      /\ promised[b] \subseteq Promise /\ clock \in Nat /\ Lifetime \in Nat /\ MaxGrants \in Nat
  BY AccessConstants DEF TypeInv, CookieInv, Ask, LimitType, LimiterInv, Ticks
<1>2. /\ c.exp = clock + Lifetime /\ c.secret = secret /\ c \in Cookie
      /\ c.grants = Add(Decoded(sent), g)
      /\ Len(c.grants) \in 1..MaxGrants /\ c.grants[Len(c.grants)] = g
  BY AnswerFits
<1>3. secret = stored /\ stored # 0
  BY DEF Up, TypeInv, SecretInv
<1>4. CASE q = [id |-> g.id, version |-> g.version, until |-> clock + Lifetime, others |-> {}]
  <2>1. q \in Promise /\ q.id = g.id /\ q.version = g.version /\ q.others = {}
    BY <1>1, <1>4 DEF Promise, Grant
  <2>2. c.grants \in Seq(Grant)
    BY <1>2 DEF Cookie
  <2>3. \E n \in Nat : KeptAt(c.grants, n, q)
    BY <1>1, <1>2, <2>1, <2>2, LastKept
  <2>4. q.until =< clock + Lifetime /\ q.until =< c.exp /\ IsFiniteSet(q.others)
    BY <1>1, <1>2, <1>4, <2>1, FS_EmptySet
  <2>5. QED
    BY <1>2, <1>3, <2>3, <2>4 DEF Kept
<1>5. ASSUME NEW p \in promised[b], sent = jar[b], p.id # g.id, q = [p EXCEPT !.others = @ \cup {g.id}]
      PROVE  Kept(c, q)
  <2>1. p \in Promise /\ Kept(jar[b], p)
    BY <1>1 DEF PromisesKept
  <2>2. q.until = p.until /\ q.others = p.others \cup {g.id} /\ p.until \in Nat
    BY <1>5, <2>1 DEF Promise
  <2>3. p.until =< clock + Lifetime /\ p.until =< sent.exp /\ sent.secret = stored /\ IsFiniteSet(p.others)
    BY <1>5, <2>1 DEF Kept
  <2>4. /\ IsFiniteSet(q.others) /\ Cardinality(p.others) \in Nat /\ Cardinality(q.others) \in Nat
        /\ Cardinality(p.others) =< Cardinality(q.others)
    <3>1. IsFiniteSet(q.others)
      BY <2>2, <2>3, FS_AddElement
    <3>2. QED
      BY <2>2, <3>1, FS_Subset, FS_CardinalityType
  <2>5. ASSUME clock < q.until, Cardinality(q.others) < MaxGrants
        PROVE  \E i \in Nat : KeptAt(c.grants, i, q)
    <3>1. clock < p.until /\ Cardinality(p.others) < MaxGrants
      BY <1>1, <2>2, <2>4, <2>5
    <3>2. PICK i \in Nat : KeptAt(sent.grants, i, p)
      BY <1>5, <2>1, <3>1 DEF Kept
    <3>3. clock < sent.exp
      <4>1. sent.exp \in Nat
        BY <1>1 DEF Cookie
      <4>2. QED
        BY <1>1, <2>2, <2>3, <3>1, <4>1
    <3>4. Decoded(sent) = sent.grants
      BY <1>3, <2>3, <3>3 DEF Decoded
    <3>5. sent.grants \in Seq(Grant) /\ DistinctIds(sent.grants)
      BY <1>1 DEF Cookie, CookieFits
    <3> HIDE DEF g, sent, b
    <3>6. PICK n \in Nat : KeptAt(Add(sent.grants, g), n, q)
      BY <1>1, <1>5, <2>1, <2>3, <2>5, <3>2, <3>5, AddKeeps
    <3>7. QED
      BY <1>2, <3>4, <3>6
  <2>6. QED
    BY <1>2, <1>3, <2>2, <2>3, <2>4, <2>5 DEF Kept
<1>6. QED
  BY <1>4, <1>5 DEF Promises

\* What browsers may count on is what their cookies hold, in every step.
LEMMA PromisesStep == ASSUME TypeInv, PromisesKept, [Next]_vars PROVE PromisesKept'
<1>0. /\ jar \in [Browsers -> Cookie] /\ promised \in [Browsers -> SUBSET Promise]
      /\ \A t \in Tabs : BrowserOf[t] \in Browsers
      /\ jar' \in [Browsers -> Cookie] /\ promised' \in [Browsers -> SUBSET Promise]
  BY AccessConstants, TypeStep DEF TypeInv, CookieInv
<1>1. ASSUME NEW b \in Browsers, NEW p \in promised'[b] PROVE Kept(jar'[b], p)
  <2>1. CASE jar'[b] = jar[b] /\ promised'[b] = promised[b]
    BY <2>1 DEF PromisesKept
  <2>2. ASSUME NEW t \in Tabs, Answer(t), b = BrowserOf[t],
               jar' = [jar EXCEPT ![b] = Signed(tab[t].sent, tab[t].gave)],
               promised' = [promised EXCEPT ![b] = Promises(b, tab[t].sent, tab[t].gave)]
        PROVE  Kept(jar'[b], p)
    <3>1. PICK c : c = Signed(tab[t].sent, tab[t].gave)
      OBVIOUS
    <3>2. jar'[b] = c /\ p \in Promises(b, tab[t].sent, tab[t].gave)
      BY <1>0, <2>2, <3>1
    <3>3. Kept(c, p)
      BY <2>2, <3>1, <3>2, AnswerKeeps DEF Answer
    <3>4. QED
      BY <3>2, <3>3
  <2>3. QED
    BY <1>0, <2>1, <2>2, StepFrames DEF Frames, Answer
<1>2. ASSUME NEW b \in Browsers, NEW p \in promised'[b] PROVE Kept(jar[b], p)'
  <2>1. PICK c : c = jar'[b]
    OBVIOUS
  <2>2. c \in Cookie /\ p \in Promise /\ Kept(c, p)
    BY <1>0, <1>1, <2>1
  <2>3. Kept(c, p)'
    BY <2>2, KeptOn
  <2>4. QED
    BY <2>1, <2>3 DEF Kept
<1>3. QED
  BY <1>2 DEF PromisesKept

-----------------------------------------------------------------------------
(***************************************************************************)
(* Attempts are bounded.                                                   *)
(***************************************************************************)

\* One attempt more costs one token more.
LEMMA OneMore == ASSUME NEW x \in Int PROVE (x + 1) * PerToken = x * PerToken + PerToken /\ x * PerToken \in Int
BY LimiterConstants

\* What is left is not negative, so what was spent is within the bounds now.
LEMMA SpentBounds ==
  ASSUME LimitType, NEW k \in Clients, Spent(k) PROVE BoundedAt(k, clock)
<1>1. clock \in Nat /\ Level(k) \in Nat /\ Capacity \in Nat
  BY LevelType, LimiterConstants DEF LimitType, LimiterInv, Ticks
<1>2. admitted[k][clock] \in Nat /\ \A i \in 0..(clock - 1) : admitted[k][i] \in Nat
  <2>1. clock \in 0..LastTick /\ LastTick \in Nat
    BY LimiterConstants DEF LimitType, LimiterInv, Ticks
  <2>2. clock \in Ticks /\ \A i \in 0..(clock - 1) : i \in Ticks
    BY <2>1 DEF Ticks
  <2>3. QED
    BY <2>2 DEF LimitType
<1>3. admitted[k][clock] * PerToken =< Capacity + clock
  <2>1. admitted[k][clock] * PerToken \in Int
    BY <1>2, OneMore
  <2>2. QED
    BY <1>1, <2>1 DEF Spent
<1>4. ASSUME NEW i \in 0..(clock - 1)
      PROVE  (admitted[k][clock] - admitted[k][i]) * PerToken =< Capacity + (clock - i - 1)
  <2>1. (admitted[k][clock] - admitted[k][i]) * PerToken \in Int
    BY <1>2, OneMore
  <2>2. (admitted[k][clock] - admitted[k][i]) * PerToken + Level(k) =< Capacity + (clock - i - 1)
    BY DEF Spent
  <2>3. i \in Nat
    BY <1>1
  <2>4. QED
    BY <1>1, <2>1, <2>2, <2>3
<1>5. QED
  BY <1>3, <1>4 DEF BoundedAt

\* With what was spent before, these are the bounds the code promises.
LEMMA LimitsBound == ASSUME LimitType, LimitsInv PROVE AttemptsBounded
<1>1. clock \in Nat
  BY DEF LimitType, LimiterInv, Ticks
<1>2. ASSUME NEW k \in Clients, NEW j \in 0..clock PROVE BoundedAt(k, j)
  <2>1. CASE j = clock
    BY <2>1, SpentBounds DEF LimitsInv
  <2>2. CASE j # clock
    BY <1>1, <2>2 DEF LimitsInv
  <2>3. QED
    BY <2>1, <2>2
<1>3. QED
  BY <1>2 DEF BoundedAt, AttemptsBounded

\* A tick: one unit more in a bucket, one tick more to have filled it.
LEMMA LimitsTick == ASSUME TypeInv, LimitsInv, Tick PROVE LimitsInv'
<1>0. /\ LimiterInv /\ LimitType /\ clock \in Nat
      /\ admitted' = admitted /\ retryAt' = retryAt /\ UNCHANGED limiter
  BY DEF TypeInv, LimitType, LimiterInv, Ticks, Tick, visits
<1>1. clock' = clock + 1 /\ clock' \in Ticks
  <2>1. clock' = clock + 1 /\ clock < plan.until /\ plan.until \in 0..LastTick
    BY DEF Tick, TypeInv, PlanInv
  <2>2. QED
    BY <1>0, <2>1, LimiterConstants DEF Ticks
<1>2. \A c : Level(c)' = IF Level(c) < Capacity THEN Level(c) + 1 ELSE Capacity
  BY <1>0, <1>1, TickLevel
<1>3. ASSUME NEW k \in Clients PROVE (Spent(k) /\ WaitIsEnough(k))' /\ \A j \in 0..clock : BoundedAt(k, j)
  <2> DEFINE A == admitted[k]
  <2>1. PICK l \in 0..Capacity : l = Level(k)
    BY <1>0, LevelType
  <2>2. PICK m : m = Level(k)'
    OBVIOUS
  <2>3. m \in 0..Capacity /\ m = (IF l < Capacity THEN l + 1 ELSE Capacity) /\ Capacity \in Nat
    BY <1>2, <2>1, <2>2, LimiterConstants
  <2>4. \A j \in 0..LastTick : A[j] \in Nat
    BY <1>0 DEF LimitType, Ticks
  <2>5. /\ clock \in 0..LastTick /\ clock + 1 \in clock..LastTick /\ clock + 1 \in 0..LastTick
        /\ \A j \in (clock + 1)..LastTick : j \in clock..LastTick
    BY <1>0, <1>1, LimiterConstants DEF Ticks
  <2>6. /\ \A j \in clock..LastTick : A[j] = A[clock]
        /\ A[clock] * PerToken + l =< Capacity + clock
        /\ \A i \in 0..(clock - 1) : (A[clock] - A[i]) * PerToken + l =< Capacity + (clock - i - 1)
    BY <2>1 DEF LimitsInv, Spent
  <2>7. A[clock + 1] = A[clock] /\ A[clock] \in Nat
    BY <2>4, <2>5, <2>6
  <2>8. A[clock + 1] * PerToken + m =< Capacity + (clock + 1)
    <3>1. A[clock] * PerToken \in Int
      BY <2>7, OneMore
    <3>2. QED
      BY <1>0, <2>1, <2>3, <2>6, <2>7, <3>1
  <2>9. ASSUME NEW i \in 0..clock
        PROVE  (A[clock + 1] - A[i]) * PerToken + m =< Capacity + ((clock + 1) - i - 1)
    <3>1. CASE i = clock
      <4>1. A[clock + 1] - A[i] = 0 /\ 0 * PerToken = 0
        BY <2>7, <3>1, LimiterConstants
      <4>2. QED
        BY <1>0, <2>3, <3>1, <4>1
    <3>2. CASE i # clock
      <4>1. i \in 0..(clock - 1) /\ i \in Nat /\ i \in 0..LastTick
        BY <1>0, <2>5, <3>2, LimiterConstants
      <4>2. (A[clock] - A[i]) * PerToken + l =< Capacity + (clock - i - 1)
        BY <2>6, <4>1
      <4>3. (A[clock] - A[i]) * PerToken \in Int
        BY <2>4, <2>7, <4>1, OneMore
      <4>4. (A[clock] - A[i]) * PerToken + m =< Capacity + ((clock + 1) - i - 1)
        BY <1>0, <2>1, <2>3, <4>1, <4>2, <4>3
      <4>5. QED
        BY <2>7, <4>4
    <3>3. QED
      BY <3>1, <3>2
  <2>10. \A j \in (clock + 1)..LastTick : A[j] = A[clock + 1]
    BY <2>5, <2>6, <2>7
  <2>11. 0..((clock + 1) - 1) = 0..clock
    BY <1>0
  <2>12. Spent(k)'
    BY <1>0, <1>1, <2>2, <2>8, <2>9, <2>10, <2>11 DEF Spent
  <2>13. WaitIsEnough(k)'
    <3>1. ASSUME retryAt[k] # None
          PROVE  IF retryAt[k] > clock + 1 THEN m + (retryAt[k] - (clock + 1)) >= PerToken ELSE m >= PerToken
      <4>1. retryAt[k] \in Nat
        BY <1>0, <3>1 DEF LimitType
      <4>2. IF retryAt[k] > clock THEN l + (retryAt[k] - clock) >= PerToken ELSE l >= PerToken
        BY <2>1, <3>1 DEF LimitsInv, WaitIsEnough
      <4>3. QED
        BY <1>0, <2>1, <2>3, <4>1, <4>2, LimiterConstants
    <3>2. QED
      BY <1>0, <1>1, <2>2, <3>1 DEF WaitIsEnough
  <2>14. ASSUME NEW j \in 0..clock PROVE BoundedAt(k, j)
    <3>1. CASE j = clock
      BY <1>0, <3>1, SpentBounds DEF LimitsInv
    <3>2. CASE j # clock
      <4>1. j \in 0..(clock - 1)
        BY <1>0, <3>2
      <4>2. QED
        BY <4>1 DEF LimitsInv
    <3>3. QED
      BY <3>1, <3>2
  <2>15. QED
    BY <2>12, <2>13, <2>14
<1>4. ASSUME NEW k \in Clients, NEW j \in 0..(clock' - 1) PROVE BoundedAt(k, j)'
  <2>1. j \in 0..clock
    BY <1>0, <1>1
  <2>2. QED
    BY <1>0, <1>3, <2>1 DEF BoundedAt
<1>5. QED
  BY <1>3, <1>4 DEF LimitsInv

\* An attempt: a token less in the bucket, one attempt more.
LEMMA LimitsAttempt ==
  ASSUME TypeInv, LimitsInv, NEW t \in Tabs, Attempt(t) PROVE LimitsInv'
<1>0. LimiterInv /\ LimitType /\ clock \in Nat /\ clock \in 0..LastTick /\ LastTick \in Nat
  BY LimiterConstants DEF TypeInv, LimitType, LimiterInv, Ticks
<1>1. PICK k \in Clients :
           /\ Allow(k) /\ clock' = clock
           /\ \/ /\ Allowed(k)
                 /\ admitted' = [admitted EXCEPT ![k] =
                                   [i \in Ticks |-> IF i < clock THEN @[i] ELSE @[i] + 1]]
                 /\ retryAt' = [retryAt EXCEPT ![k] = None]
              \/ /\ ~Allowed(k) /\ admitted' = admitted
                 /\ retryAt' = [retryAt EXCEPT ![k] = clock + WaitFor(k)]
  BY AttemptCounts
<1>2. \A c : Level(c)' = IF c = k /\ Allowed(k) THEN Level(k) - PerToken ELSE Level(c)
  BY <1>0, <1>1, AllowLevel
<1>3. ASSUME NEW c \in Clients, Level(c)' = Level(c), admitted'[c] = admitted[c]
      PROVE  Spent(c)' /\ \A j \in 0..(clock' - 1) : BoundedAt(c, j)'
  BY <1>1, <1>3 DEF LimitsInv, Spent, BoundedAt
<1>4. ASSUME NEW c \in Clients, c # k
      PROVE  (Spent(c) /\ WaitIsEnough(c))' /\ \A j \in 0..(clock' - 1) : BoundedAt(c, j)'
  <2>1. Level(c)' = Level(c)
    BY <1>2, <1>4
  <2>2. admitted'[c] = admitted[c] /\ retryAt'[c] = retryAt[c]
    BY <1>0, <1>1, <1>4 DEF LimitType
  <2>3. WaitIsEnough(c)'
    BY <1>1, <2>1, <2>2 DEF LimitsInv, WaitIsEnough
  <2>4. QED
    BY <1>3, <2>1, <2>2, <2>3
<1>5. CASE ~Allowed(k)
  <2>1. Level(k)' = Level(k) /\ admitted'[k] = admitted[k] /\ retryAt'[k] = clock + WaitFor(k)
    BY <1>0, <1>1, <1>2, <1>5 DEF LimitType
  <2>2. /\ WaitFor(k) \in Nat /\ Level(k) \in 0..Capacity
        /\ HasRoom(k) => WaitFor(k) = PerToken - Level(k)
        /\ HasRoom(k) => Level(k) < PerToken
        /\ ~HasRoom(k) => Level(k) = Capacity
    BY <1>0, <1>5, Waits, LevelType
  <2>3. WaitIsEnough(k)'
    <3>1. IF clock + WaitFor(k) > clock THEN Level(k) + ((clock + WaitFor(k)) - clock) >= PerToken
                                        ELSE Level(k) >= PerToken
      BY <1>0, <2>2, LimiterConstants
    <3>2. QED
      BY <1>1, <2>1, <3>1 DEF WaitIsEnough
  <2>4. Spent(k)' /\ \A j \in 0..(clock' - 1) : BoundedAt(k, j)'
    BY <1>3, <2>1
  <2>5. QED
    BY <1>4, <2>3, <2>4 DEF LimitsInv
<1>6. CASE Allowed(k)
  <2> DEFINE A == admitted[k]
             B == [i \in Ticks |-> IF i < clock THEN A[i] ELSE A[i] + 1]
  <2>1. admitted'[k] = B /\ retryAt'[k] = None
    BY <1>0, <1>1, <1>6 DEF LimitType
  <2>2. \A j \in 0..LastTick : A[j] \in Nat
    BY <1>0 DEF LimitType, Ticks
  <2>3. /\ \A j \in 0..(clock - 1) : B[j] = A[j] /\ j \in 0..LastTick
        /\ \A j \in clock..LastTick : B[j] = A[j] + 1
    BY <1>0 DEF Ticks
  <2>4. PICK l \in 0..Capacity : l = Level(k)
    BY <1>0, LevelType
  <2>5. Level(k)' = l - PerToken
    BY <1>2, <1>6, <2>4
  <2>6. /\ \A j \in clock..LastTick : A[j] = A[clock]
        /\ A[clock] * PerToken + l =< Capacity + clock
        /\ \A i \in 0..(clock - 1) : (A[clock] - A[i]) * PerToken + l =< Capacity + (clock - i - 1)
    BY <2>4 DEF LimitsInv, Spent
  <2>7. B[clock] = A[clock] + 1 /\ A[clock] \in Nat /\ clock \in clock..LastTick
    BY <1>0, <2>2, <2>3
  <2> HIDE DEF B
  <2>8. \A j \in clock..LastTick : B[j] = B[clock]
    BY <2>3, <2>6, <2>7
  <2>9. B[clock] * PerToken + (l - PerToken) =< Capacity + clock
    <3>1. (A[clock] + 1) * PerToken = A[clock] * PerToken + PerToken /\ A[clock] * PerToken \in Int
      BY <2>7, OneMore
    <3>2. QED
      BY <1>0, <2>4, <2>6, <2>7, <3>1, LimiterConstants
  <2>10. ASSUME NEW i \in 0..(clock - 1)
         PROVE  (B[clock] - B[i]) * PerToken + (l - PerToken) =< Capacity + (clock - i - 1)
    <3>1. B[i] = A[i] /\ A[i] \in Nat
      BY <2>2, <2>3
    <3>2. B[clock] - B[i] = (A[clock] - A[i]) + 1 /\ A[clock] - A[i] \in Int
      BY <2>7, <3>1
    <3>3. /\ ((A[clock] - A[i]) + 1) * PerToken = (A[clock] - A[i]) * PerToken + PerToken
          /\ (A[clock] - A[i]) * PerToken \in Int
      BY <3>2, OneMore
    <3>4. (A[clock] - A[i]) * PerToken + l =< Capacity + (clock - i - 1)
      BY <2>6
    <3>5. (A[clock] - A[i]) * PerToken + PerToken + (l - PerToken) =< Capacity + (clock - i - 1)
      BY <1>0, <2>4, <3>3, <3>4, LimiterConstants
    <3>6. QED
      BY <3>2, <3>3, <3>5
  <2>11. Spent(k)'
    BY <1>1, <2>1, <2>5, <2>8, <2>9, <2>10 DEF Spent
  <2>12. WaitIsEnough(k)'
    BY <2>1 DEF WaitIsEnough
  <2>13. ASSUME NEW j \in 0..(clock - 1) PROVE BoundedAt(k, j)'
    <3>1. BoundedAt(k, j)
      BY DEF LimitsInv
    <3>2. B[j] = A[j] /\ \A i \in 0..(j - 1) : B[i] = A[i]
      BY <1>0, <2>3
    <3>3. QED
      BY <2>1, <3>1, <3>2 DEF BoundedAt
  <2>14. QED
    BY <1>1, <1>4, <2>11, <2>12, <2>13 DEF LimitsInv
<1>7. QED
  BY <1>5, <1>6

\* A server that just started has let nobody through.
LEMMA LimitsBoot == ASSUME TypeInv, Boot PROVE LimitsInv'
<1>0. /\ clock \in Nat /\ clock \in Ticks /\ clock \in 0..LastTick /\ LastTick \in Nat
      /\ Capacity \in Nat /\ 0 * PerToken = 0 /\ 0 - 0 = 0
  BY LimiterConstants DEF TypeInv, LimitType, LimiterInv, Ticks
<1>1. /\ clock' = clock /\ admitted' = [k \in Clients |-> [i \in Ticks |-> 0]]
      /\ retryAt' = [k \in Clients |-> None]
  BY DEF Boot
<1>2. \A c : Level(c)' = Capacity
  BY <1>0, EmptiedLimiter DEF Boot
<1>3. ASSUME NEW k \in Clients PROVE (Spent(k) /\ WaitIsEnough(k))'
  <2>1. admitted'[k] = [i \in Ticks |-> 0] /\ retryAt'[k] = None
    BY <1>1
  <2>2. \A j \in clock..LastTick : j \in Ticks
    BY <1>0 DEF Ticks
  <2>3. \A i \in 0..(clock - 1) : i \in Ticks /\ Capacity =< Capacity + (clock - i - 1)
    BY <1>0 DEF Ticks
  <2>4. Capacity =< Capacity + clock /\ 0 + Capacity = Capacity
    BY <1>0
  <2>5. Spent(k)'
    BY <1>0, <1>1, <1>2, <2>1, <2>2, <2>3, <2>4 DEF Spent
  <2>6. QED
    BY <2>1, <2>5 DEF WaitIsEnough
<1>4. ASSUME NEW k \in Clients, NEW j \in 0..(clock - 1) PROVE BoundedAt(k, j)'
  <2>1. admitted'[k] = [i \in Ticks |-> 0] /\ j \in Ticks /\ \A i \in 0..(j - 1) : i \in Ticks
    BY <1>0, <1>1 DEF Ticks
  <2>2. 0 =< Capacity + j /\ \A i \in 0..(j - 1) : 0 =< Capacity + (j - i - 1)
    BY <1>0
  <2>3. QED
    BY <1>0, <2>1, <2>2 DEF BoundedAt
<1>5. QED
  BY <1>1, <1>3, <1>4 DEF LimitsInv

\* What attempts have cost and what is left, in every step.
LEMMA LimitsStep == ASSUME TypeInv, LimitsInv, [Next]_vars PROVE LimitsInv'
<1>1. CASE UNCHANGED <<clock, buckets, lastSweep, admitted, retryAt>>
  BY <1>1 DEF LimitsInv, Spent, WaitIsEnough, BoundedAt, Level, Refilled
<1>2. QED
  BY <1>1, LimitsTick, LimitsBoot, LimitsAttempt, StepFrames DEF Frames

-----------------------------------------------------------------------------
(***************************************************************************)
(* Theorems.                                                               *)
(***************************************************************************)

\* At the start there are rows and nothing else.
LEMMA AccessStart == ASSUME Init PROVE AccessInv
<1>1. PICK s \in Scenarios, p \in Passwords :
        /\ plan = [ops |-> s.ops, edits |-> s.edits, asks |-> s.asks, boots |-> s.boots, until |-> s.until]
        /\ used = s.albums /\ rows = [a \in s.albums |-> [pw |-> p, version |-> 1]]
  BY DEF Init
<1>2. s.albums \subseteq AlbumIds /\ s.until \in 0..LastTick
  BY AccessConstants
<1>3. TableInv /\ PlanInv
  BY <1>1, <1>2 DEF Init, TableInv, PlanInv, Row
<1>4. KeyInv /\ SecretInv
  <2>1. MaxSecrets \in Nat
    BY AccessConstants
  <2>2. revoked = FALSE /\ everRevoked = FALSE /\ stored = 0 /\ secret = 0 /\ drawn = 0
    BY DEF Init
  <2>3. KeyInv
    BY <2>2 DEF KeyInv
  <2>4. SecretInv
    BY <2>1, <2>2 DEF SecretInv
  <2>5. QED
    BY <2>3, <2>4
<1>5. EditInv
  <2>1. NoEdit \in Edit /\ EditFits(NoEdit)
    BY DEF NoEdit, Edit, EditFits
  <2>2. QED
    BY <2>1 DEF Init, EditInv
<1>6. NoAsk.pc = "idle" /\ NoAsk.sent = NoCookie /\ NoCookie.grants = <<>> /\ DOMAIN <<>> = {}
  BY DEF NoAsk, NoCookie
<1>7. CookieInv
  BY <1>6, EmptyFits DEF Init, CookieInv
<1>8. clock = 0 /\ clock \in Ticks
  BY LimiterConstants DEF Init, Ticks
<1>9. LimiterInv /\ \A k : Level(k) = Capacity
  BY <1>8, EmptyLimiter DEF Init, LimiterInit
<1>10. LimitType
  BY <1>9 DEF Init, LimitType
<1>11. promised \in [Browsers -> SUBSET Promise] /\ PromisesKept
  BY DEF Init, PromisesKept
<1>12. GrantsHold
  BY <1>6 DEF Init, GrantsHold, AllHold
<1>13. LimitsInv
  <2>1. \A j \in 0..LastTick : j \in Ticks
    BY DEF Ticks
  <2>2. 0 * PerToken = 0 /\ Capacity \in Nat /\ 0..(0 - 1) = {} /\ 0 + Capacity =< Capacity + 0
    BY LimiterConstants
  <2>3. ASSUME NEW k \in Clients PROVE Spent(k) /\ WaitIsEnough(k)
    <3>1. admitted[k] = [i \in Ticks |-> 0] /\ retryAt[k] = None
      BY <2>3 DEF Init
    <3>2. QED
      BY <1>8, <1>9, <2>1, <2>2, <3>1 DEF Spent, WaitIsEnough
  <2>4. QED
    BY <1>8, <2>2, <2>3 DEF LimitsInv
<1>14. QED
  BY <1>3, <1>4, <1>5, <1>7, <1>10, <1>11, <1>12, <1>13 DEF AccessInv, TypeInv

\* The invariant of every run of the server, its editors and its visitors.
THEOREM AccessInvAlways == Spec => []AccessInv
<1>1. AccessInv /\ [Next]_vars => AccessInv'
  BY TypeStep, GrantsStep, PromisesStep, LimitsStep DEF AccessInv
<1>2. QED
  BY AccessStart, <1>1, PTL DEF Spec

\* Every variable has its type, for any number of albums, browsers and tabs: a
\* cookie never holds more than MaxGrants grants nor two for an album (Session.Add),
\* and the limiter never more than MaxKeys buckets (RateLimiter.Allow).
THEOREM TypeOKAlways == Spec => []TypeOK
<1>1. AccessInv => TypeOK
  <2>1. ASSUME AccessInv PROVE TypeOK
    <3>1. TypeInv
      BY <2>1 DEF AccessInv
    <3>2. /\ clock \in Ticks /\ lastSweep \in 0..clock
          /\ buckets \in [DOMAIN buckets -> Bucket] /\ DOMAIN buckets \subseteq Clients
          /\ Cardinality(DOMAIN buckets) =< MaxKeys
      BY <3>1 DEF TypeInv, LimitType, LimiterInv
    <3>3. {stored, secret} \subseteq 0..drawn /\ drawn \in 0..MaxSecrets
      BY <3>1 DEF TypeInv, SecretInv
    <3>4. \A b \in Browsers :
            /\ Len(jar[b].grants) =< MaxGrants
            /\ \A i, j \in DOMAIN jar[b].grants :
                 i # j => jar[b].grants[i].id # jar[b].grants[j].id
      BY <3>1 DEF TypeInv, CookieInv, CookieFits, DistinctIds
    <3>5. QED
      BY <3>1, <3>2, <3>3, <3>4 DEF TypeOK, TypeInv, TableInv, KeyInv, EditInv, CookieInv, LimitType, Promise
  <2>2. QED
    BY <2>1
<1>2. QED
  BY <1>1, AccessInvAlways, PTL

\* A cookie opens a protected album only if its holder gave the password the album
\* has now, whatever bcrypt, an administrator at a prompt and a second tab do in
\* between, where no two writes of the album's row overlapped.
THEOREM GrantMeansPasswordAlways == Spec => []GrantMeansPassword
<1>1. AccessInv => GrantMeansPassword
  <2>1. ASSUME AccessInv, NEW b \in Browsers, NEW a \in DOMAIN rows \ raced, Protected(rows[a]), Opens(b, a)
        PROVE  \E i \in DOMAIN jar[b].grants :
                 jar[b].grants[i].id = a /\ jar[b].grants[i].pw = rows[a].pw
    <3>1. PICK i \in DOMAIN Decoded(jar[b]) :
            Decoded(jar[b])[i].id = a /\ Decoded(jar[b])[i].version = rows[a].version
      BY <2>1 DEF Opens, Granted
    <3>2. Decoded(jar[b]) = jar[b].grants
      BY <3>1 DEF Decoded
    <3>3. Holds(jar[b].grants[i])
      BY <2>1, <3>1, <3>2 DEF AccessInv, GrantsHold, AllHold
    <3>4. QED
      BY <2>1, <3>1, <3>2, <3>3 DEF Holds
  <2>2. QED
    BY <2>1 DEF GrantMeansPassword
<1>2. QED
  BY <1>1, AccessInvAlways, PTL

\* Who unlocked an album keeps seeing it until the cookie expires, across restarts
\* and other unlocks, as long as its password stays and fewer than MaxGrants other
\* albums were unlocked since.
THEOREM StaysUnlockedAlways == Spec => []StaysUnlocked
<1>1. AccessInv => StaysUnlocked
  <2>1. ASSUME AccessInv, NEW b \in Browsers, NEW p \in promised[b],
               Up, clock < p.until, Cardinality(p.others) < MaxGrants,
               p.id \in DOMAIN rows, p.version = rows[p.id].version
        PROVE  Opens(b, p.id)
    <3>1. Kept(jar[b], p)
      BY <2>1 DEF AccessInv, PromisesKept
    <3>2. PICK i \in Nat : KeptAt(jar[b].grants, i, p)
      BY <2>1, <3>1 DEF Kept
    <3>3. secret = stored
      BY <2>1 DEF AccessInv, TypeInv, SecretInv, Up
    <3>4. clock < jar[b].exp
      <4>1. clock \in Nat /\ p.until \in Nat /\ jar[b].exp \in Nat
        BY <2>1 DEF AccessInv, TypeInv, LimitType, LimiterInv, Ticks, CookieInv, Cookie, Promise
      <4>2. QED
        BY <2>1, <3>1, <4>1 DEF Kept
    <3>5. Decoded(jar[b]) = jar[b].grants
      BY <2>1, <3>1, <3>3, <3>4 DEF Decoded, Kept
    <3>6. QED
      BY <2>1, <3>2, <3>5 DEF Opens, Granted, KeptAt
  <2>2. QED
    BY <2>1 DEF StaysUnlocked
<1>2. QED
  BY <1>1, AccessInvAlways, PTL

\* No client gets through more often than a full bucket and its refill allow, at
\* any rate, however attempts, sweeps and restarts interleave (RateLimiter.Allow).
THEOREM AttemptsBoundedAlways == Spec => []AttemptsBounded
<1>1. AccessInv => AttemptsBounded
  BY LimitsBound DEF AccessInv, TypeInv
<1>2. QED
  BY <1>1, AccessInvAlways, PTL

\* A client that was turned away and comes back when it was told to finds a token:
\* nobody else takes it, and only a full table turns the client away again.
THEOREM RetryAfterHoldsAlways == Spec => RetryAfterHolds
<1> DEFINE Waited(k) == /\ retryAt[k] # None /\ clock >= retryAt[k]
                        /\ retryAt'[k] # None /\ retryAt'[k] # retryAt[k]
<1>1. AccessInv /\ [Next]_vars => [\A k \in Clients : Waited(k) => ~HasRoom(k)]_vars
  <2>1. ASSUME AccessInv, [Next]_vars, NEW k \in Clients, Waited(k), HasRoom(k) PROVE FALSE
    <3>1. TypeInv /\ LimitType /\ LimiterInv /\ LimitsInv
      BY <2>1 DEF AccessInv, TypeInv, LimitType
    <3>2. PICK t \in Tabs : Attempt(t)
      BY <2>1, StepFrames DEF Frames, Boot
    <3>3. PICK c \in Clients :
            \/ /\ Allowed(c) /\ retryAt' = [retryAt EXCEPT ![c] = None]
            \/ /\ ~Allowed(c) /\ retryAt' = [retryAt EXCEPT ![c] = clock + WaitFor(c)]
      BY <3>2, AttemptCounts
    <3>4. c = k /\ ~Allowed(k)
      BY <2>1, <3>1, <3>3 DEF LimitType
    <3>5. Level(k) < PerToken
      BY <2>1, <3>1, <3>4, Waits
    <3>6. clock \in Nat /\ retryAt[k] \in Nat /\ Level(k) \in Nat /\ PerToken \in Nat
      BY <2>1, <3>1, LevelType, LimiterConstants DEF LimitType, LimiterInv, Ticks
    <3>7. Level(k) >= PerToken
      BY <2>1, <3>1, <3>6 DEF LimitsInv, WaitIsEnough
    <3>8. QED
      BY <3>5, <3>6, <3>7
  <2>2. QED
    BY <2>1
<1>2. QED
  BY <1>1, AccessInvAlways, PTL DEF Spec, RetryAfterHolds

\* Once the API key was revoked no request passes the check of it, though one that
\* had passed still notes the key's use (requireAPIKey, TouchAPIKey).
THEOREM RevokedStartsNothingAlways == Spec => RevokedStartsNothing
<1> DEFINE Starts == everRevoked => \A p \in Publishers : edit[p].pc = "idle" => edit'[p].pc = "idle"
<1>1. AccessInv /\ [Next]_vars => [Starts]_vars
  <2>1. ASSUME AccessInv, [Next]_vars, everRevoked, NEW p \in Publishers, edit[p].pc = "idle"
        PROVE  edit'[p].pc = "idle"
    <3>0. /\ revoked /\ edit \in [Editors -> Edit] /\ NoEdit.pc = "idle"
          /\ p \in Editors /\ Publishers \cap Admins = {} /\ Publishers \cup Admins = Editors
      BY <2>1, AccessConstants DEF AccessInv, TypeInv, KeyInv, EditInv, NoEdit, Editors
    <3>1. CASE UNCHANGED edit
      BY <2>1, <3>1
    <3>2. ASSUME NEW e \in Editors, e # p, NEW c, edit' = [edit EXCEPT ![e] = c] PROVE edit'[p].pc = "idle"
      BY <2>1, <3>0, <3>2
    <3>3. ASSUME NEW e \in Publishers, Publish(e) PROVE FALSE
      BY <3>0, <3>3 DEF Publish
    <3>4. ASSUME NEW e \in Publishers, Touch(e) \/ ReadAlbum(e) \/ CreateAlbum(e) PROVE edit'[p].pc = "idle"
      <4>1. e # p /\ e \in Editors
        BY <2>1, <3>0, <3>4 DEF Touch, ReadAlbum, CreateAlbum
      <4>2. \E c : edit' = [edit EXCEPT ![e] = c]
        BY <3>4 DEF Touch, ReadAlbum, CreateAlbum, Goto, End, Becomes
      <4>3. QED
        BY <3>2, <4>1, <4>2
    <3>5. ASSUME NEW e \in Admins, Command(e) \/ Revoke(e) \/ DeleteAlbum(e) PROVE edit'[p].pc = "idle"
      <4>1. e # p /\ e \in Editors
        BY <3>0
      <4>2. \E c : edit' = [edit EXCEPT ![e] = c]
        BY <3>5 DEF Command, Revoke, DeleteAlbum, Begin, End, Becomes
      <4>3. QED
        BY <3>2, <4>1, <4>2
    <3>6. ASSUME NEW e \in Editors, UpdateAlbum(e) PROVE edit'[p].pc = "idle"
      <4>1. e # p
        BY <2>1, <3>6 DEF UpdateAlbum
      <4>2. \E c : edit' = [edit EXCEPT ![e] = c]
        BY <3>6 DEF UpdateAlbum, End, Becomes
      <4>3. QED
        BY <3>2, <4>1, <4>2
    <3>7. CASE Stop
      BY <2>1, <3>0, <3>7 DEF Stop
    <3>8. QED
      BY <2>1, <3>1, <3>3, <3>4, <3>5, <3>6, <3>7, StepFrames DEF Frames, MovesEdit, MovesTable
  <2>2. QED
    BY <2>1
<1>2. QED
  BY <1>1, AccessInvAlways, PTL DEF Spec, RevokedStartsNothing
=============================================================================
