----------------------------- MODULE WorkerWake -----------------------------
(***************************************************************************)
(* How the requests wake the variant worker (variants.go): the wake        *)
(* channel of capacity one, the kicked and busy flags under the worker's   *)
(* mutex, the retry ticker, and idle(), which tells whether a drain is     *)
(* running or asked for.  One upload stores one photo and kicks once.      *)
(* What a drain does with the photos it lists is PhotoPipeline's subject.  *)
(***************************************************************************)
EXTENDS Naturals

CONSTANTS Uploads,   \* the uploads, each of one photo
          MaxFaults  \* bound on failures to read the photos table

ASSUME MaxFaultsAssumption == MaxFaults \in Nat

VARIABLES
  up,       \* up[u]: "insert" the row, set the "flag", "push" the token, "done"
  wake,     \* a token is in the channel
  kicked, busy,  \* the flags of the worker
  wpc,      \* where the worker's loop is
  seen,     \* the uploads whose photo some drain listed after it was stored
  missed,   \* the last drain could not read the table
  stopping, \* the context is cancelled
  faults

vars == <<up, wake, kicked, busy, wpc, seen, missed, stopping, faults>>

Init ==
  /\ up = [u \in Uploads |-> "insert"]
  /\ wake = TRUE /\ kicked = TRUE  \* newVariantWorker kicks itself
  /\ busy = FALSE /\ wpc = "select"
  /\ seen = {} /\ missed = FALSE /\ stopping = FALSE /\ faults = 0

-----------------------------------------------------------------------------
(***************************************************************************)
(* An upload: the pending row, then kick().                                *)
(***************************************************************************)
Insert(u) ==
  /\ up[u] = "insert"
  /\ up' = [up EXCEPT ![u] = "flag"]
  /\ UNCHANGED <<wake, kicked, busy, wpc, seen, missed, stopping, faults>>

SetKicked(u) ==
  /\ up[u] = "flag"
  /\ up' = [up EXCEPT ![u] = "push"]
  /\ kicked' = TRUE
  /\ UNCHANGED <<wake, busy, wpc, seen, missed, stopping, faults>>

\* Mutant: no token while a drain runs.
PushUnlessBusy(u) ==
  /\ up[u] = "push"
  /\ up' = [up EXCEPT ![u] = "done"]
  /\ wake' = (wake \/ ~busy)
  /\ UNCHANGED <<kicked, busy, wpc, seen, missed, stopping, faults>>

\* The send never blocks: a full channel already holds a kick.
Push(u) ==
  /\ up[u] = "push"
  /\ up' = [up EXCEPT ![u] = "done"]
  /\ wake' = TRUE
  /\ UNCHANGED <<kicked, busy, wpc, seen, missed, stopping, faults>>

-----------------------------------------------------------------------------
(***************************************************************************)
(* The worker's loop.                                                      *)
(***************************************************************************)
TakeToken ==
  /\ wpc = "select" /\ wake
  /\ wake' = FALSE /\ wpc' = "taken"
  /\ UNCHANGED <<up, kicked, busy, seen, missed, stopping, faults>>

NoTick == FALSE /\ UNCHANGED vars  \* mutant: no retry ticker

Tick ==
  /\ wpc = "select"
  /\ wpc' = "ticked"
  /\ UNCHANGED <<up, wake, kicked, busy, seen, missed, stopping, faults>>

Stop ==
  /\ wpc = "select" /\ stopping
  /\ wpc' = "stopped"
  /\ UNCHANGED <<up, wake, kicked, busy, seen, missed, stopping, faults>>

Begin ==
  /\ wpc \in {"taken", "ticked"}
  /\ kicked' = FALSE /\ busy' = TRUE /\ wpc' = "list"
  /\ UNCHANGED <<up, wake, seen, missed, stopping, faults>>

\* Mutant: what was read of the photos is kept in their place.
StoredStates == {up[u] : u \in {v \in Uploads : up[v] # "insert"}}

Stored == {u \in Uploads : up[u] # "insert"}

List ==
  /\ wpc = "list" /\ ~stopping
  /\ seen' = seen \cup Stored
  /\ missed' = FALSE
  /\ wpc' = "generate"
  /\ UNCHANGED <<up, wake, kicked, busy, stopping, faults>>

\* The query fails, on its own or because the context is cancelled.
ListFails ==
  /\ wpc = "list"
  /\ \/ stopping /\ UNCHANGED faults
     \/ faults < MaxFaults /\ faults' = faults + 1
  /\ missed' = TRUE
  /\ wpc' = "end"
  /\ UNCHANGED <<up, wake, kicked, busy, seen, stopping>>

Generate ==
  /\ wpc = "generate"
  /\ wpc' = "end"
  /\ UNCHANGED <<up, wake, kicked, busy, seen, missed, stopping, faults>>

\* Mutant: the drain takes the kicks of its time with it.
EndClearingKick ==
  /\ wpc = "end"
  /\ busy' = FALSE /\ kicked' = FALSE /\ wpc' = "select"
  /\ UNCHANGED <<up, wake, seen, missed, stopping, faults>>

End ==
  /\ wpc = "end"
  /\ busy' = FALSE /\ wpc' = "select"
  /\ UNCHANGED <<up, wake, kicked, seen, missed, stopping, faults>>

Cancel ==
  /\ ~stopping /\ stopping' = TRUE
  /\ UNCHANGED <<up, wake, kicked, busy, wpc, seen, missed, faults>>

-----------------------------------------------------------------------------
Loop == TakeToken \/ Tick \/ Stop \/ Begin \/ List \/ Generate \/ End

Next == \/ \E u \in Uploads : Insert(u) \/ SetKicked(u) \/ Push(u)
        \/ Loop \/ ListFails \/ Cancel

Spec == Init /\ [][Next]_vars

\* The worker's goroutine runs on; an upload may stall for ever.
FairSpec == Spec /\ WF_vars(Loop \/ (stopping /\ ListFails))

Idle == ~busy /\ ~kicked /\ ~wake

-----------------------------------------------------------------------------
\* The types of the variables.
TypeOK ==
  /\ up \in [Uploads -> {"insert", "flag", "push", "done"}]
  /\ wake \in BOOLEAN /\ kicked \in BOOLEAN /\ busy \in BOOLEAN
  /\ wpc \in {"select", "taken", "ticked", "list", "generate", "end", "stopped"}
  /\ seen \subseteq Uploads
  /\ missed \in BOOLEAN /\ stopping \in BOOLEAN
  /\ faults \in 0..MaxFaults

\* When idle() says so, every photo whose upload has set the kicked flag was
\* listed by a drain, even if its token is still to be pushed; the one excuse
\* is a drain that could not read the table, which waits for the ticker.
IdleMeansSeen ==
  Idle => missed \/ \A u \in Uploads : up[u] \in {"push", "done"} => u \in seen

\* No kick is lost: once kick() has returned, its photo was listed, or the
\* token is in the channel, or a drain that has still to list has taken it,
\* or a drain that could not read the table has used it up.
KickIsKept ==
  \A u \in Uploads :
    up[u] = "done" => u \in seen \/ wake \/ wpc \in {"taken", "list"} \/ missed

\* A stored photo is listed in the end, unless the server is shut down: by the
\* ticker if not by its own kick, whatever became of that.
StoredIsSeen == \A u \in Uploads : u \in Stored ~> (u \in seen \/ stopping)
=============================================================================
