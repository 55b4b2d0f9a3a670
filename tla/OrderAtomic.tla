---------------------------- MODULE OrderAtomic ----------------------------
(***************************************************************************)
(* What an order operation promises when nothing runs beside it: one step  *)
(* from table to table (schedule/services.py).  ItemOrder runs these steps *)
(* in sequence; OrderTx runs their statements.                             *)
(***************************************************************************)
EXTENDS OrderRows

CONSTANTS Procs, Operations, Tables

VARIABLES rows, op, ended

(* sync_schedule_item_order; a creation that collides is refused. *)
SyncResult(i, g) ==
    IF i \notin DOMAIN rows /\ ~EndIsFree(rows, g) THEN rows ELSE Synced(rows, i, g)

(* set_schedule_item_order_position *)
PlaceResult(i, g, desired) ==
    LET synced == SyncResult(i, g)
    IN  IF i \in DOMAIN synced /\ synced[i].group = g
        THEN MoveWithin(synced, i, desired)
        ELSE rows

Result(o) ==
    CASE o.kind = "sync"   -> SyncResult(o.item, o.group)
      [] o.kind = "place"  -> PlaceResult(o.item, o.group, o.position)
      [] o.kind = "remove" -> DeleteRow(rows, o.item)

Run(p) ==
    /\ p \notin ended
    /\ rows' = Result(op[p])
    /\ ended' = ended \cup {p}
    /\ UNCHANGED op

Init ==
    /\ rows \in Tables
    /\ op \in [Procs -> Operations]
    /\ ended = {}

Next == \E p \in Procs : Run(p)

Spec == Init /\ [][Next]_<<rows, op, ended>>

=============================================================================
