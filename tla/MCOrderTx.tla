----------------------------- MODULE MCOrderTx -----------------------------
(* OrderTx on two groups of rows for TLC. *)
EXTENDS OrderTx, TLC

CONSTANTS a, b, c, d, p, q, r

(* Two siblings in group 1, one row in group 2, and d without a row. *)
TwoGroups ==
    {[i \in {a, b, c} |-> [group |-> IF i = c THEN 2 ELSE 1,
                           position |-> IF i = b THEN 2 ELSE 1]]}

(* The same, or with a gap in group 2, as the reindex of a mixed list can   *)
(* leave it (ItemOrder): a move into it meets c at the end it computes.    *)
MaybeGapped ==
    TwoGroups \cup {[t EXCEPT ![c].position = 2] : t \in TwoGroups}

Handlers == Permutations(Procs)

Sync(i, g) == [kind |-> "sync", item |-> i, group |-> g, position |-> 0]
Place(i, g, n) == [kind |-> "place", item |-> i, group |-> g, position |-> n]
Remove(i) == [kind |-> "remove", item |-> i, group |-> 1, position |-> 0]

(* Every table of a, b and c with positions 1..4, gaps included. *)
AnyTable ==
    {t \in UNION {[S -> [group : {1, 2}, position : 1..4]] : S \in SUBSET {a, b, c}} :
        \A i, j \in DOMAIN t : t[i] = t[j] => i = j}

AnyOperation ==
    {Sync(i, g) : i \in {a, b}, g \in {1, 2}}
      \cup {Place(i, g, n) : i \in {a, b}, g \in {1, 2}, n \in 0..4}
      \cup {Remove(i) : i \in {a, b}}

(* A row is created in the group another one arrives in. *)
Creations == {Sync(d, 1), Sync(c, 1)}

CreationAndArrival ==
    Init /\ op[p] = Sync(d, 1) /\ op[q] = Sync(c, 1) /\ [][Next]_vars

(* Rows arrive in group 1 and leave it, for group 2 or for good, while it *)
(* is reordered; a schedule goes whose row is about to be created.         *)
Racing ==
    {Sync(d, 1), Sync(c, 1), Sync(a, 2), Place(b, 2, 1), Place(a, 1, 2), Sync(b, 1),
     Remove(a), Remove(d)}

(* Requests that lock rows of both groups, moves that collide and are      *)
(* retried, and what may lock, fill or empty the groups meanwhile.         *)
Conflicting ==
    {Sync(a, 2), Place(b, 2, 1), Sync(c, 1), Place(c, 2, 1), Place(b, 1, 1),
     Sync(d, 2), Remove(a), Remove(c)}

=============================================================================
