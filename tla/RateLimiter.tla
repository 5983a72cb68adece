---------------------------- MODULE RateLimiter -----------------------------
(***************************************************************************)
(* The token buckets that limit the attempts at an album's password.       *)
(*                                                                         *)
(* A tick of the clock refills one unit and an attempt costs PerToken of   *)
(* them: the code's fractions of a token, scaled to integers.  A bucket is *)
(* refilled when it is next looked at, not as time passes.                 *)
(***************************************************************************)
EXTENDS Naturals, FiniteSets

CONSTANTS Clients,          \* what attempts are counted by: an address and a slug
          Capacity,         \* units a full bucket holds
          PerToken,         \* units an attempt takes
          MaxKeys,          \* buckets kept at most
          SweepInterval,    \* ticks between two sweeps that nothing forces
          LastTick          \* bound on the clock

ASSUME LimiterConstants ==
  /\ Capacity \in Nat /\ PerToken \in Nat \ {0} /\ PerToken =< Capacity
  /\ MaxKeys \in Nat \ {0} /\ SweepInterval \in Nat \ {0} /\ LastTick \in Nat

VARIABLES clock,
          buckets,     \* a function from the clients that have a bucket
          lastSweep

limiter == <<buckets, lastSweep>>

Ticks  == 0..LastTick
Bucket == [tokens : 0..Capacity, last : Ticks]

LimiterInit == buckets = [k \in {} |-> 0] /\ lastSweep = clock

Refilled(b) == LET t == b.tokens + (clock - b.last)
               IN  IF t < Capacity THEN t ELSE Capacity

\* A sweep forgets the buckets that are full again.
NearlyFull == {k \in DOMAIN buckets : Refilled(buckets[k]) + 1 < Capacity}  \* mutant
Short    == {k \in DOMAIN buckets : Refilled(buckets[k]) < Capacity}
SweepDue == clock - lastSweep >= SweepInterval

\* The buckets left once Allow has swept for client k: always when a sweep is
\* due, and when k has no bucket and there is no room for one.
Crowded(k) == /\ k \notin DOMAIN buckets
              /\ Cardinality(DOMAIN buckets) >= MaxKeys
Swept(k)   == SweepDue \/ Crowded(k)
Left(k)    == IF Swept(k) THEN Short ELSE DOMAIN buckets
HasRoom(k) == k \in Left(k) \/ Cardinality(Left(k)) < MaxKeys

Tokens(k)   == IF k \in Left(k) THEN Refilled(buckets[k]) ELSE Capacity
Allowed(k)  == HasRoom(k) /\ Tokens(k) >= PerToken
WaitFor(k)  == IF HasRoom(k) THEN PerToken - Tokens(k) ELSE PerToken

\* Mutant: an attempt that is refused takes what there is.
Drain(k) ==
  LET used == IF Allowed(k) THEN Tokens(k) - PerToken ELSE 0
  IN  /\ buckets' = [c \in Left(k) \cup (IF HasRoom(k) THEN {k} ELSE {}) |->
                       IF c = k THEN [tokens |-> used, last |-> clock] ELSE buckets[c]]
      /\ lastSweep' = IF Swept(k) THEN clock ELSE lastSweep

\* An attempt: the bucket is refilled and, if the attempt is let through, pays.
Allow(k) ==
  LET used == Tokens(k) - (IF Allowed(k) THEN PerToken ELSE 0)
  IN  /\ buckets' = [c \in Left(k) \cup (IF HasRoom(k) THEN {k} ELSE {}) |->
                       IF c = k THEN [tokens |-> used, last |-> clock] ELSE buckets[c]]
      /\ lastSweep' = IF Swept(k) THEN clock ELSE lastSweep
=============================================================================
