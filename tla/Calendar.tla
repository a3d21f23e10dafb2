------------------------------ MODULE Calendar ------------------------------
(***************************************************************************)
(* What the session endpoints promise: a calendar that changes one session *)
(* at a time, atomically, and in which no room and no speaker is ever      *)
(* booked twice.  Sessions.tla is shown to implement it.                   *)
(***************************************************************************)
EXTENDS SessionRows

VARIABLE rows

\* row could stand under id beside everything else that is booked.
Free(id, row) ==
    \A j \in Ids \ {id} : \A k \in Index : rows[j] # NoRow => ~Clash(k, rows[j], row)

Init == rows \in [Ids -> Row \cup {NoRow}] /\ ClashFree(rows)

\* A new session takes a free slot at version 1.
Book(id, row) ==
    /\ rows[id] = NoRow
    /\ row \in Row /\ row.version = 1 /\ row.live
    /\ Free(id, row)
    /\ rows' = [rows EXCEPT ![id] = row]

\* A live session is edited, and perhaps moved to a slot that is free.
Revise(id, range) ==
    /\ rows[id] # NoRow /\ rows[id].live
    /\ range \in TimeRange
    /\ Free(id, [rows[id] EXCEPT !.range = range])
    /\ rows' = [rows EXCEPT ![id] = [Bump(@) EXCEPT !.range = range]]

\* A live session is cancelled; its slot is free from this step on.
Cancel(id) ==
    /\ rows[id] # NoRow /\ rows[id].live
    /\ rows' = [rows EXCEPT ![id] = [Bump(@) EXCEPT !.live = FALSE]]

Next ==
    \E id \in Ids :
        \/ Book(id, rows'[id])
        \/ Revise(id, rows'[id].range)
        \/ Cancel(id)

Spec == Init /\ [][Next]_rows

\* A room or speaker can't be double-booked.
NoDoubleBooking == ClashFree(rows)
=============================================================================
