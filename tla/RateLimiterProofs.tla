------------------------- MODULE RateLimiterProofs --------------------------
(***************************************************************************)
(* What the operators of RateLimiter do to the level of a client's bucket: *)
(* what it holds once it is refilled, and a full bucket for a client that  *)
(* has none.  Sweeps do not change a level, which is why they may come at  *)
(* any time; neither does an attempt of somebody else.                     *)
(***************************************************************************)
EXTENDS RateLimiter, FiniteSetTheorems, TLAPS

LimiterInv ==
  /\ clock \in Ticks /\ lastSweep \in 0..clock
  /\ IsFiniteSet(DOMAIN buckets) /\ DOMAIN buckets \subseteq Clients
  /\ Cardinality(DOMAIN buckets) =< MaxKeys
  /\ buckets \in [DOMAIN buckets -> Bucket]
  /\ \A k \in DOMAIN buckets : buckets[k].last =< clock

Level(k) == IF k \in DOMAIN buckets THEN Refilled(buckets[k]) ELSE Capacity

\* A level is between empty and full.
LEMMA LevelType == ASSUME LimiterInv, NEW k PROVE Level(k) \in 0..Capacity
<1>1. CASE k \in DOMAIN buckets
  <2>1. /\ buckets[k].tokens \in 0..Capacity /\ buckets[k].last \in Nat /\ buckets[k].last =< clock
        /\ clock \in Nat
    BY <1>1 DEF LimiterInv, Bucket, Ticks
  <2>2. QED
    BY <1>1, <2>1, LimiterConstants DEF Level, Refilled
<1>2. CASE k \notin DOMAIN buckets
  BY <1>2, LimiterConstants DEF Level
<1>3. QED
  BY <1>1, <1>2

\* A sweep forgets full buckets only.
LEMMA LeftAreShort ==
  ASSUME LimiterInv, NEW k
  PROVE  /\ Left(k) \subseteq DOMAIN buckets
         /\ IsFiniteSet(Left(k)) /\ Cardinality(Left(k)) \in Nat /\ Cardinality(Left(k)) =< MaxKeys
         /\ \A c : c \notin Left(k) => Level(c) = Capacity
         /\ \A c : c \in Left(k) => Level(c) = Refilled(buckets[c])
<1>1. Left(k) \subseteq DOMAIN buckets
  BY DEF Left, Short
<1>2. ASSUME NEW c, c \notin Left(k) PROVE Level(c) = Capacity
  BY <1>2, LevelType, LimiterConstants DEF Left, Short, Level
<1>3. /\ IsFiniteSet(Left(k)) /\ Cardinality(Left(k)) \in Nat
      /\ Cardinality(Left(k)) =< Cardinality(DOMAIN buckets) /\ Cardinality(DOMAIN buckets) \in Nat
  BY <1>1, FS_Subset, FS_CardinalityType DEF LimiterInv
<1>4. QED
  BY <1>1, <1>2, <1>3, LimiterConstants DEF Level, LimiterInv

\* What an attempt finds is the level, whether it sweeps or not.
LEMMA TokensAreLevel == ASSUME LimiterInv, NEW k PROVE Tokens(k) = Level(k)
BY LeftAreShort DEF Tokens

\* An attempt that is turned away is told a time to wait: until its bucket holds
\* a token, or, where there was no room for a bucket, a token's time.
LEMMA Waits ==
  ASSUME LimiterInv, NEW k, ~Allowed(k)
  PROVE  /\ WaitFor(k) \in Nat
         /\ HasRoom(k) => Level(k) < PerToken /\ WaitFor(k) = PerToken - Level(k)
         /\ ~HasRoom(k) => Level(k) = Capacity
<1>1. Tokens(k) = Level(k) /\ Level(k) \in 0..Capacity
  BY TokensAreLevel, LevelType
<1>2. QED
  BY <1>1, LeftAreShort, LimiterConstants DEF Allowed, WaitFor, HasRoom

\* An attempt keeps the table within its bounds.
LEMMA AllowKeeps ==
  ASSUME LimiterInv, NEW k \in Clients, Allow(k), clock' = clock
  PROVE  LimiterInv'
<1> DEFINE used == Tokens(k) - (IF Allowed(k) THEN PerToken ELSE 0)
           kept == Left(k) \cup (IF HasRoom(k) THEN {k} ELSE {})
<1>1. used \in 0..Capacity
  BY TokensAreLevel, LevelType, LimiterConstants DEF Allowed
<1>2. /\ IsFiniteSet(kept) /\ kept \subseteq Clients /\ Cardinality(kept) =< MaxKeys
  <2>1. Left(k) \subseteq Clients
    BY LeftAreShort DEF LimiterInv
  <2>2. CASE ~HasRoom(k)
    BY <2>1, <2>2, LeftAreShort
  <2>3. CASE HasRoom(k)
    <3>1. IsFiniteSet(Left(k)) /\ Cardinality(Left(k)) \in Nat /\ Cardinality(Left(k)) =< MaxKeys
      BY LeftAreShort
    <3>2. /\ IsFiniteSet(Left(k) \cup {k})
          /\ Cardinality(Left(k) \cup {k}) =
               IF k \in Left(k) THEN Cardinality(Left(k)) ELSE Cardinality(Left(k)) + 1
      BY <3>1, FS_AddElement
    <3>3. Cardinality(Left(k) \cup {k}) =< MaxKeys
      BY <2>3, <3>1, <3>2, LimiterConstants DEF HasRoom
    <3>4. kept = Left(k) \cup {k}
      BY <2>3
    <3>5. QED
      BY <2>1, <3>2, <3>3, <3>4
  <2>4. QED
    BY <2>2, <2>3
<1>3. clock \in Ticks /\ \A c \in Left(k) : buckets[c] \in Bucket /\ buckets[c].last =< clock
  BY LeftAreShort DEF LimiterInv
<1>4. buckets' = [c \in kept |-> IF c = k THEN [tokens |-> used, last |-> clock] ELSE buckets[c]]
  BY DEF Allow
<1>5. \A c \in kept : c = k \/ c \in Left(k)
  OBVIOUS
<1>6. [tokens |-> used, last |-> clock] \in Bucket /\ [tokens |-> used, last |-> clock].last =< clock
  BY <1>1, <1>3 DEF Bucket, Ticks
<1>7. lastSweep' \in 0..clock
  BY <1>3 DEF Allow, LimiterInv, Ticks
<1> HIDE DEF used, kept
<1>8. DOMAIN buckets' = kept /\ buckets' \in [kept -> Bucket] /\ \A c \in kept : buckets'[c].last =< clock
  BY <1>3, <1>4, <1>5, <1>6
<1>9. QED
  BY <1>2, <1>3, <1>7, <1>8 DEF LimiterInv

\* An attempt that is let through pays a token; nothing else about the levels
\* changes, of this client or another.
LEMMA AllowLevel ==
  ASSUME LimiterInv, NEW k \in Clients, Allow(k), clock' = clock, NEW c
  PROVE  Level(c)' = IF c = k /\ Allowed(k) THEN Level(k) - PerToken ELSE Level(c)
<1>0. /\ Tokens(k) = Level(k) /\ Level(k) \in 0..Capacity /\ Level(c) \in 0..Capacity
      /\ clock \in Nat
  BY TokensAreLevel, LevelType DEF LimiterInv, Ticks
<1> DEFINE used == Tokens(k) - (IF Allowed(k) THEN PerToken ELSE 0)
           kept == Left(k) \cup (IF HasRoom(k) THEN {k} ELSE {})
<1>1. used \in 0..Capacity /\ used = IF Allowed(k) THEN Level(k) - PerToken ELSE Level(k)
  BY <1>0, LimiterConstants DEF Allowed
<1>2. buckets' = [x \in kept |-> IF x = k THEN [tokens |-> used, last |-> clock] ELSE buckets[x]]
  BY DEF Allow
<1> HIDE DEF used
<1>3. CASE c \notin kept
  <2>1. c \notin Left(k) /\ (c = k => ~Allowed(k))
    BY <1>3 DEF Allowed
  <2>2. Level(c)' = Capacity
    BY <1>2, <1>3 DEF Level
  <2>3. QED
    BY <2>1, <2>2, LeftAreShort
<1>4. CASE c \in kept /\ c = k
  <2>1. Level(c)' = Refilled([tokens |-> used, last |-> clock])
    BY <1>2, <1>4 DEF Level, Refilled
  <2>2. Refilled([tokens |-> used, last |-> clock]) = used
    BY <1>0, <1>1, LimiterConstants DEF Refilled
  <2>3. QED
    BY <1>1, <1>4, <2>1, <2>2
<1>5. CASE c \in kept /\ c # k
  <2>1. c \in Left(k) /\ buckets'[c] = buckets[c]
    BY <1>2, <1>5
  <2>2. Level(c)' = Refilled(buckets[c])
    BY <1>2, <1>5, <2>1 DEF Level, Refilled
  <2>3. QED
    BY <1>5, <2>1, <2>2, LeftAreShort
<1>6. QED
  BY <1>3, <1>4, <1>5

\* A tick refills one unit, up to a full bucket.
LEMMA TickLevel ==
  ASSUME LimiterInv, clock' = clock + 1, clock' \in Ticks, UNCHANGED limiter
  PROVE  /\ LimiterInv'
         /\ \A c : Level(c)' = IF Level(c) < Capacity THEN Level(c) + 1 ELSE Capacity
<1>1. LimiterInv'
  <2>1. buckets' = buckets /\ lastSweep' = lastSweep /\ clock \in Nat /\ lastSweep \in 0..clock
    BY DEF LimiterInv, limiter, Ticks
  <2>2. lastSweep' \in 0..clock'
    BY <2>1
  <2>3. ASSUME NEW k \in DOMAIN buckets PROVE buckets[k].last =< clock'
    <3>1. buckets[k].last \in Nat /\ buckets[k].last =< clock
      BY DEF LimiterInv, Bucket, Ticks
    <3>2. QED
      BY <2>1, <3>1
  <2>4. QED
    BY <2>1, <2>2, <2>3 DEF LimiterInv
<1>2. ASSUME NEW c PROVE Level(c)' = IF Level(c) < Capacity THEN Level(c) + 1 ELSE Capacity
  <2>1. CASE c \in DOMAIN buckets
    <3>1. /\ buckets[c].tokens \in 0..Capacity /\ buckets[c].last \in Nat /\ buckets[c].last =< clock
          /\ clock \in Nat
      BY <2>1 DEF LimiterInv, Bucket, Ticks
    <3>2. QED
      BY <2>1, <3>1, LimiterConstants DEF Level, Refilled, limiter
  <2>2. CASE c \notin DOMAIN buckets
    BY <2>2, LimiterConstants DEF Level, limiter
  <2>3. QED
    BY <2>1, <2>2
<1>3. QED
  BY <1>1, <1>2

\* Where nothing was asked yet, every bucket is full.
LEMMA EmptyLimiter ==
  ASSUME buckets = [k \in {} |-> 0], lastSweep = clock, clock \in Ticks
  PROVE  LimiterInv /\ \A c : Level(c) = Capacity
BY FS_EmptySet, LimiterConstants DEF LimiterInv, Level, Ticks

\* A restart empties the table.
LEMMA EmptiedLimiter ==
  ASSUME buckets' = [k \in {} |-> 0], lastSweep' = clock, clock' = clock, clock \in Ticks
  PROVE  LimiterInv' /\ \A c : Level(c)' = Capacity
BY FS_EmptySet, LimiterConstants DEF LimiterInv, Level, Ticks
=============================================================================
