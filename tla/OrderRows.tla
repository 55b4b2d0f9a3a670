----------------------------- MODULE OrderRows -----------------------------
(***************************************************************************)
(* The row table behind ScheduleItemOrder and the pure part of the code    *)
(* that renumbers it (schedule/services.py).                               *)
(*                                                                         *)
(* A table r maps every schedule that has an order row to the row's group  *)
(* key and position.  The group key stands for the four columns            *)
(* (project_id, entity_type, parent_entity_type, parent_entity_id) built   *)
(* by _build_order_group_key; nothing here looks inside it.                *)
(***************************************************************************)
EXTENDS Integers, Sequences, FiniteSets

(* The rows that share a group key: the WHERE clause of the group query.   *)
Siblings(r, g) == {i \in DOMAIN r : r[i].group = g}

(* A set S of rows listed along a strict total order R (a set of pairs):   *)
(* the k-th element is the one with k - 1 predecessors.                    *)
Preceding(S, R, i) == {j \in S : <<j, i>> \in R}

SortBy(S, R) ==
    [k \in 1..Cardinality(S) |->
        CHOOSE i \in S : Cardinality(Preceding(S, R, i)) = k - 1]

(* ORDER BY position.  The unique constraint on (group, position) leaves   *)
(* no ties inside a group, so the secondary key id never decides.          *)
ByPosition(r, S) ==
    {p \in S \X S : r[p[1]].position < r[p[2]].position}

OrderByPosition(r, S) == SortBy(S, ByPosition(r, S))

(* _fetch_group_items_for_update *)
FetchGroup(r, g) == OrderByPosition(r, Siblings(r, g))

(* [item for item in group_items if item.id != i.id] *)
FetchOthers(r, g, i) == OrderByPosition(r, Siblings(r, g) \ {i})

(* list.insert(k - 1, i) *)
InsertItem(items, k, i) ==
    [m \in 1..(Len(items) + 1) |->
        IF m < k THEN items[m] ELSE IF m = k THEN i ELSE items[m - 1]]

IndexIn(items, i) == CHOOSE k \in DOMAIN items : items[k] = i

(* _persist_group_positions when the instances in items carry the          *)
(* positions the table holds: every listed row is renumbered by its index. *)
(* The two passes of single-row UPDATEs meet no occupied position then     *)
(* (module OrderTx runs them one by one).                                  *)
PersistPositions(r, items) ==
    [i \in DOMAIN r |->
        IF i \in {items[k] : k \in DOMAIN items}
        THEN [group |-> r[i].group, position |-> IndexIn(items, i)]
        ELSE r[i]]

ClampToEnd(p, hi) == hi

Clamp(p, hi) == IF p < 1 THEN 1 ELSE IF p > hi THEN hi ELSE p

(* _move_order_item_between_groups, current_group_key == target_group_key. *)
MoveWithin(r, i, target) ==
    LET others == FetchOthers(r, r[i].group, i)
        desired == Clamp(target, Len(others) + 1)
    IN  PersistPositions(r, InsertItem(others, desired, i))

(* The position a new member of group g is given first; the row is written *)
(* there, so a row that already holds it makes the statement fail.         *)
EndOf(r, g) == Cardinality(Siblings(r, g)) + 1

EndIsFree(r, g) == \A j \in Siblings(r, g) : r[j].position # EndOf(r, g)

(* _move_order_item_between_groups, the two-group branch.  Its callers     *)
(* never pass target_position here, so the row ends up last.  The old      *)
(* group is compacted and the target group is reindexed.                   *)
MoveAcross(r, i, g) ==
    LET old    == r[i].group
        moved  == [r EXCEPT ![i] = [group |-> g, position |-> EndOf(r, g)]]
        left   == PersistPositions(moved, FetchOthers(r, old, i))
        others == FetchGroup(r, g)
    IN  PersistPositions(left, InsertItem(others, Len(others) + 1, i))

(* ScheduleItemOrder.objects.create(..., position=len(group_items) + 1).   *)
CreateRow(r, i, g) ==
    [j \in DOMAIN r \cup {i} |->
        IF j = i THEN [group |-> g, position |-> EndOf(r, g)] ELSE r[j]]

(* _sync_schedule_item_order_for_schedule: schedule i is to have a row in  *)
(* group g.  A move that meets a taken position is an IntegrityError whose *)
(* retries meet it again, and leaves the table as it was.                  *)
Synced(r, i, g) ==
    IF i \notin DOMAIN r THEN CreateRow(r, i, g)
    ELSE IF r[i].group = g THEN MoveWithin(r, i, r[i].position)
    ELSE IF EndIsFree(r, g) THEN MoveAcross(r, i, g)
    ELSE r

(* item_order.delete() and the compaction of what remains of its group.    *)
DeleteRowLeavesGap(r, i) == [j \in DOMAIN r \ {i} |-> r[j]]

DeleteRowKeepsRow(r, i) == r

DeleteRow(r, i) ==
    LET others == FetchOthers(r, r[i].group, i)
        gone   == [j \in DOMAIN r \ {i} |-> r[j]]
    IN  IF i \in DOMAIN r THEN PersistPositions(gone, others) ELSE r

(* Sibling positions are exactly 1..n: each is one of 1..n, n the size of  *)
(* the group, and no two siblings share one.                               *)
DenseGroup(r, g) ==
    /\ \A i \in Siblings(r, g) : r[i].position \in 1..Cardinality(Siblings(r, g))
    /\ \A i, j \in Siblings(r, g) : r[i].position = r[j].position => i = j

Dense(r) == \A i \in DOMAIN r : DenseGroup(r, r[i].group)

=============================================================================
