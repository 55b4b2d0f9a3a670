---------------------------- MODULE MCItemOrder ----------------------------
(* ItemOrder with small sets of entities for TLC. *)
EXTENDS ItemOrder, TLC

CONSTANTS p1, p2, e1, e2, s1, s2, s3, t1, t2

(* Everything lives in one project. *)
OneProject == [i \in Items |-> p1]

(* Stories s2 and s3 belong to another project than the epics. *)
TwoProjects == [i \in Items |-> IF i \in {s2, s3} THEN p2 ELSE p1]

OtherProjectSymmetry == Permutations(Epics) \cup Permutations({s2, s3})

EntitySymmetry == Permutations(Epics) \cup Permutations(Stories) \cup Permutations(Tasks)

(* A plan that already exists: every story is in epic e1 and s1 also in    *)
(* e2, with any orders and any sibling order clients can have chosen.      *)
ExistingRelations ==
    {[k \in 1..4 |-> [epic |-> <<e1, e1, e1, e2>>[k], story |-> <<s1, s2, s3, s1>>[k],
                      order |-> o[k]]] : o \in [1..4 -> 0..MaxOrder]}

ExistingPlan ==
    /\ live = Items
    /\ story = [t \in Tasks |-> Root]
    /\ related \in ExistingRelations
    /\ \E p \in [Items -> 1..3] :
          /\ rows = [i \in Items |-> [group |-> GroupKey(i), position |-> p[i]]]
          /\ Dense(rows)
    /\ job = <<>>
    /\ bulk = NoBulk
    /\ dropped = FALSE

(* Clients reorder the epic's stories and the plan's rows. *)
ReorderRequest ==
    \/ \E e \in Epics, s \in Stories, o \in 0..MaxOrder : Reorder(e, s, o)
    \/ \E s \in Stories, p \in 0..MaxPosition : SetPosition(s, p)

ReorderSpec == ExistingPlan /\ [][ReorderRequest \/ Operation]_vars

=============================================================================
