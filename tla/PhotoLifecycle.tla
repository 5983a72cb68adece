--------------------------- MODULE PhotoLifecycle ---------------------------
(***************************************************************************)
(* What the gallery promises about one photo id, with no request, file or  *)
(* worker in sight.  The server draws an id for an upload ("absent" until  *)
(* the row is inserted), stores the photo hidden ("pending"), shows it     *)
(* once its display variants exist ("visible"), hides it again when the    *)
(* file is replaced, and forgets it for good ("gone").                     *)
(***************************************************************************)

CONSTANT PhotoIds  \* the ids the server may draw (uuid.NewString)

VARIABLE life      \* life[p]: where photo p is in its life

Stages == {"absent", "pending", "visible", "gone"}

Init == life \in [PhotoIds -> {"absent", "visible"}]

(***************************************************************************)
(* One photo moves one stage: stored hidden, shown, hidden.                *)
(***************************************************************************)
Store(p) == /\ life[p] = "absent"
            /\ life' = [life EXCEPT ![p] = "pending"]

Show(p) == /\ life[p] = "pending"
           /\ life' = [life EXCEPT ![p] = "visible"]

Hide(p) == /\ life[p] = "visible"
           /\ life' = [life EXCEPT ![p] = "pending"]

(***************************************************************************)
(* Photos go for good, together: a photo or an album is deleted, an upload *)
(* is given up, or a restart ends every upload in flight.                  *)
(***************************************************************************)
Forget == /\ life' \in [PhotoIds -> Stages]
          /\ \A p \in PhotoIds : life'[p] \in {life[p], "gone"}

Next == Forget \/ \E p \in PhotoIds : Store(p) \/ Show(p) \/ Hide(p)

Spec == Init /\ [][Next]_life
=============================================================================
