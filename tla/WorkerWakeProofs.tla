-------------------------- MODULE WorkerWakeProofs --------------------------
(***************************************************************************)
(* Proofs about WorkerWake, for any set of uploads.                        *)
(***************************************************************************)
EXTENDS WorkerWake, TLAPS

\* busy is set exactly while a drain runs.
BusyDuringDrain == busy <=> wpc \in {"list", "generate", "end"}

\* An upload that has set the flag and was not listed yet still has the flag
\* up, unless the drain that cleared it has still to list, or could not.
FlagIsKept ==
  \A u \in Uploads :
    up[u] \in {"push", "done"} => u \in seen \/ kicked \/ wpc = "list" \/ missed

IInv == TypeOK /\ BusyDuringDrain /\ FlagIsKept /\ KickIsKept

\* The inductive invariant holds at the start.
LEMMA InitIInv == Init => IInv
<1> SUFFICES ASSUME Init PROVE IInv
  OBVIOUS
<1>1. faults \in 0..MaxFaults
  BY MaxFaultsAssumption, SMT DEF Init
<1>2. TypeOK
  BY <1>1 DEF Init, TypeOK
<1>3. BusyDuringDrain
  BY DEF Init, BusyDuringDrain
<1>4. FlagIsKept /\ KickIsKept
  BY DEF Init, FlagIsKept, KickIsKept
<1>5. QED
  BY <1>2, <1>3, <1>4 DEF IInv

\* The inductive invariant is kept by every step.
LEMMA NextIInv == IInv /\ [Next]_vars => IInv'
<1> SUFFICES ASSUME IInv, [Next]_vars PROVE IInv'
  OBVIOUS
<1> USE MaxFaultsAssumption DEF IInv, TypeOK, BusyDuringDrain, FlagIsKept, KickIsKept
<1>1. ASSUME NEW u \in Uploads, Insert(u) PROVE IInv'
  BY <1>1 DEF Insert
<1>2. ASSUME NEW u \in Uploads, SetKicked(u) PROVE IInv'
  BY <1>2 DEF SetKicked
<1>3. ASSUME NEW u \in Uploads, Push(u) PROVE IInv'
  BY <1>3 DEF Push
<1>4. CASE TakeToken
  BY <1>4 DEF TakeToken
<1>5. CASE Tick
  BY <1>5 DEF Tick
<1>6. CASE Stop
  BY <1>6 DEF Stop
<1>7. CASE Begin
  BY <1>7 DEF Begin
<1>8. CASE List
  BY <1>8 DEF List, Stored
<1>9. CASE ListFails
  BY <1>9 DEF ListFails
<1>10. CASE Generate
  BY <1>10 DEF Generate
<1>11. CASE End
  BY <1>11 DEF End
<1>12. CASE Cancel
  BY <1>12 DEF Cancel
<1>13. CASE UNCHANGED vars
  BY <1>13 DEF vars
<1>14. QED
  BY <1>1, <1>2, <1>3, <1>4, <1>5, <1>6, <1>7, <1>8, <1>9, <1>10, <1>11, <1>12, <1>13
     DEF Next, Loop

\* The inductive invariant holds always.
LEMMA AlwaysIInv == Spec => []IInv
  BY InitIInv, NextIInv, PTL DEF Spec

\* The worker's flags, its channel and the uploads keep their types.
THEOREM TypeOKAlways == Spec => []TypeOK
<1>1. IInv => TypeOK
  BY DEF IInv
<1>2. QED
  BY <1>1, AlwaysIInv, PTL

\* When idle() reports true, every photo whose upload has set the kicked flag
\* has been listed by a drain or waits for the ticker after a failed one.
THEOREM IdleMeansSeenAlways == Spec => []IdleMeansSeen
<1>1. IInv => IdleMeansSeen
  BY DEF IInv, BusyDuringDrain, FlagIsKept, IdleMeansSeen, Idle
<1>2. QED
  BY <1>1, AlwaysIInv, PTL

\* No kick is lost: whatever the interleaving of the uploads with the worker's
\* loop, a photo whose kick() returned is listed or about to be, or waits for
\* the ticker after a failed drain.
THEOREM KickIsKeptAlways == Spec => []KickIsKept
<1>1. IInv => KickIsKept
  BY DEF IInv
<1>2. QED
  BY <1>1, AlwaysIInv, PTL
=============================================================================
