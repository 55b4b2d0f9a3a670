------------------------- MODULE OrderTxAloneProofs -------------------------
(***************************************************************************)
(* A transaction that runs alone is one step of OrderAtomic: proofs about  *)
(* OrderTx with one process, from any table with the unique constraint.    *)
(***************************************************************************)
EXTENDS OrderTxProofs

(* The inductive invariant behind RunsAtomically.                          *)

RowOf(t, i) == IF i \in DOMAIN t THEN t[i] ELSE NoRow

(* A row that is to come to a group whose next position is taken.          *)
Blocked(p) ==
    /\ Item(p) \in DOMAIN db => db[Item(p)].group # op[p].group
    /\ ~EndIsFree(db, op[p].group)

(* The table a pass starts from and the one it is to end in.               *)
Base(p) == IF tx[p].placing THEN Synced(db, Item(p), op[p].group) ELSE db

Goal(p) ==
    IF op[p].kind = "remove" THEN DeleteRow(db, Item(p))
    ELSE IF tx[p].placing THEN MoveWithin(Base(p), Item(p), op[p].position)
    ELSE Synced(db, Item(p), op[p].group)

(* The entries in L are the first of a group's rows q in table t; todo are *)
(* the others.                                                             *)
Reads(L, todo, q, t) ==
    /\ Len(L) + Len(todo) = Len(q)
    /\ \A k \in DOMAIN L : L[k] = [item |-> q[k], position |-> t[q[k]].position]
    /\ \A k \in DOMAIN todo : todo[k] = q[Len(L) + k]

Unread(p, g) ==
    IF tx[p].pc = "lock" /\ Head(tx[p].groups) = g THEN tx[p].todo
    ELSE IF \E k \in DOMAIN tx[p].groups : tx[p].groups[k] = g THEN FetchGroup(Base(p), g)
    ELSE <<>>

(* No statement of ws, run on r one after the other, meets a taken key.    *)
Clear(ws, r) ==
    \A k \in DOMAIN ws : ws[k].row # NoRow =>
        /\ \A m \in 1..(k - 1) :
              \/ ws[m].row = NoRow \/ ws[m].item = ws[k].item
              \/ KeyOf(ws[m].row) # KeyOf(ws[k].row)
              \/ \E n \in (m + 1)..(k - 1) : ws[n].item = ws[m].item
        /\ \A j \in DOMAIN r :
              \/ j = ws[k].item \/ KeyOf(r[j]) # KeyOf(ws[k].row)
              \/ \E m \in 1..(k - 1) : ws[m].item = j

(* The statements of a pass from table t to table goal.                    *)
Leads(ws, r, goal) ==
    /\ Clear(ws, r)
    /\ \A i \in Items : RowAfter(ws, r, i) = RowOf(goal, i)

(* Nothing is written between the start of a pass and its last fetch, and  *)
(* its lists are those of the table.                                       *)
Fetches(p) ==
    tx[p].pc \in {"fetch", "lock"} =>
        /\ View(p) = Base(p)
        /\ \A k, m \in DOMAIN tx[p].groups : tx[p].groups[k] = tx[p].groups[m] => k = m
        /\ \A g \in Renumbers(p) :
              Reads(tx[p].fetched[g], Unread(p, g), FetchGroup(Base(p), g), Base(p))

(* What is still to write makes the table of the goal out of the present   *)
(* one, unless the first statement is refused as the operation would be.   *)
WritesToGoal(p) ==
    tx[p].pc \in {"validate", "write"} =>
        IF Blocked(p) /\ op[p].kind # "remove"
        THEN /\ tx[p].work = EmptyTable /\ tx[p].writes # <<>>
             /\ Head(tx[p].writes) = Write(Item(p), op[p].group, EndOf(db, op[p].group))
        ELSE Leads(tx[p].writes, View(p), Goal(p))

(* The row it fetched is the present one; nothing else has changed.        *)
AlonePart(p) ==
    /\ tx[p].pc # "ended" => schedules = Items
    /\ tx[p].pc \in {"start", "schedule", "own"} => ~tx[p].placing
    /\ tx[p].placing => ~Blocked(p)
    /\ tx[p].pc \in {"fetch", "lock", "validate", "write"} =>
          tx[p].own = RowOf(Base(p), Item(p))
    /\ tx[p].pc = "validate" => tx[p].own = NoRow /\ tx[p].writes = Creation(p)
    /\ Fetches(p)
    /\ WritesToGoal(p)
    /\ tx[p].pc = "commit" =>
          /\ View(p) = Goal(p)
          /\ op[p].kind # "remove" => ~Blocked(p)
          /\ op[p].kind = "place" => tx[p].placing


-----------------------------------------------------------------------------
(* The lists of a table without ties.                                      *)

(* A table of order rows.                                                  *)
Table(t) == (\E S \in SUBSET Items : t \in [S -> Rows]) /\ UniqueKeys(t)

LEMMA TableType ==
    ASSUME NEW t, Table(t)
    PROVE  /\ IsFiniteSet(DOMAIN t) /\ DOMAIN t \subseteq Items /\ t \in [DOMAIN t -> Rows]
           /\ \A i \in DOMAIN t : /\ t[i] \in Rows /\ t[i] # NoRow
                                  /\ t[i].group \in Groups /\ t[i].position \in Nat
                                  /\ t[i].position > 0
                                  /\ t[i] = [group |-> t[i].group, position |-> t[i].position]
           /\ \A i, j \in DOMAIN t :
                 t[i].group = t[j].group /\ t[i].position = t[j].position => i = j
<1>1. PICK S \in SUBSET Items : t \in [S -> Rows]
  BY DEF Table
<1>2. DOMAIN t = S /\ IsFiniteSet(S)
  BY <1>1, OrderTxAssumption, FS_Subset
<1>3. \A i \in DOMAIN t : t[i] \in Rows
  BY <1>1, <1>2
<1> QED
  BY <1>1, <1>2, <1>3, RowType DEF Table, UniqueKeys, KeyOf

(* Rows that a query lists by position: some of a group's.                 *)
LEMMA TableQuery ==
    ASSUME NEW t, Table(t), NEW g, NEW T \in SUBSET Siblings(t, g)
    PROVE  /\ IsFiniteSet(T) /\ Cardinality(T) \in Nat
           /\ Lists(OrderByPosition(t, T), T, Cardinality(T))
           /\ \A a, b \in 1..Cardinality(T) :
                 a < b => t[OrderByPosition(t, T)[a]].position < t[OrderByPosition(t, T)[b]].position
<1>1. T \subseteq DOMAIN t
  BY DEF Siblings
<1>2. IsFiniteSet(T)
  BY <1>1, TableType, FS_Subset
<1>3. \A i \in T : t[i].position \in Int
  BY <1>1, TableType
<1>4. \A i, j \in T : t[i].position = t[j].position => i = j
  BY <1>1, TableType DEF Siblings
<1> QED
  BY <1>2, <1>3, <1>4, OrderByPositionLists, OrderByPositionRises, FS_CardinalityType

LEMMA ListsCardinality ==
    ASSUME NEW f, NEW S, NEW n, Lists(f, S, n)
    PROVE  IsFiniteSet(S) /\ Cardinality(S) = n
<1>1. n \in Nat /\ f \in Bijection(1..n, S)
  BY DEF Lists, Bijection, Injection, Surjection, IsInjective
<1>2. IsFiniteSet(1..n) /\ Cardinality(1..n) = n
  BY <1>1, FS_Interval
<1>3. ExistsBijection(1..n, S)
  BY <1>1 DEF ExistsBijection
<1> QED
  BY <1>1, <1>2, <1>3, FS_Bijection

(* Rows are listed by position in one way only: where two lists first      *)
(* differed, each would have the other's row later.                        *)
Climbs(t, f, n) == \A a, b \in 1..n : a < b => t[f[a]].position < t[f[b]].position

LEMMA ClimbsOnce ==
    ASSUME NEW t, NEW S, NEW n, NEW f, NEW h, Lists(f, S, n), Lists(h, S, n),
           \A i \in S : t[i].position \in Int, Climbs(t, f, n), Climbs(t, h, n)
    PROVE  \A k \in 1..n : f[k] = h[k]
<1>1. n \in Nat /\ f \in [1..n -> S] /\ h \in [1..n -> S]
  BY DEF Lists
<1>2. PICK D : D = {k \in 1..n : f[k] # h[k]}
  OBVIOUS
<1>3. SUFFICES ASSUME D # {} PROVE FALSE
  BY <1>2
<1>4. PICK k \in D : \A y \in D : k <= y
  BY <1>1, <1>2, <1>3, HasLeast
<1>5. k \in 1..n /\ f[k] # h[k] /\ f[k] \in S /\ h[k] \in S
  BY <1>1, <1>2
<1>6. PICK m \in 1..n : h[m] = f[k]
  BY <1>5 DEF Lists
<1>7. PICK j \in 1..n : f[j] = h[k]
  BY <1>5 DEF Lists
<1>8. m > k
  <2>1. m # k
    BY <1>5, <1>6
  <2>2. ASSUME m < k PROVE FALSE
    <3>1. m \notin D
      BY <1>4, <1>5, <2>2
    <3>2. f[m] = f[k]
      BY <1>2, <1>6, <3>1
    <3> QED
      BY <1>5, <2>2, <3>2 DEF Lists
  <2> QED
    BY <1>5, <2>1, <2>2
<1>9. j > k
  <2>1. j # k
    BY <1>5, <1>7
  <2>2. ASSUME j < k PROVE FALSE
    <3>1. j \notin D
      BY <1>4, <1>5, <2>2
    <3>2. h[j] = h[k]
      BY <1>2, <1>7, <3>1
    <3> QED
      BY <1>5, <2>2, <3>2 DEF Lists
  <2> QED
    BY <1>5, <2>1, <2>2
<1>10. t[h[k]].position < t[f[k]].position
  BY <1>5, <1>6, <1>8 DEF Climbs
<1>11. t[f[k]].position < t[h[k]].position
  BY <1>5, <1>7, <1>9 DEF Climbs
<1> QED
  BY <1>5, <1>10, <1>11

LEMMA InOrderRises ==
    ASSUME NEW n \in Nat, NEW K \in SUBSET (1..n), NEW a \in 1..Cardinality(K),
           NEW b \in 1..Cardinality(K)
    PROVE  InOrder(K)[a] < InOrder(K)[b] <=> a < b
<1>1. IsFiniteSet(K)
  <2>1. IsFiniteSet(1..n)
    BY FS_Interval
  <2> QED
    BY <2>1, FS_Subset
<1>2. PICK R : R = {m \in K \X K : m[1] < m[2]}
  OBVIOUS
<1>3. StrictOrder(K, R)
  BY <1>2 DEF StrictOrder
<1>4. PICK q : q = SortBy(K, R)
  OBVIOUS
<1>5. <<q[a], q[b]>> \in R <=> a < b
  BY <1>1, <1>3, <1>4, SortByOrder
<1>6. q = InOrder(K)
  BY <1>2, <1>4 DEF InOrder
<1>7. q \in [1..Cardinality(K) -> K]
  BY <1>6, InOrderLists DEF Lists
<1> QED
  BY <1>2, <1>5, <1>6, <1>7

(* A complete list of a group, and the list without one of its rows.       *)
LEMMA ReadsGroup ==
    ASSUME NEW t, Table(t), NEW g, NEW L \in Seq(Entries),
           Reads(L, <<>>, FetchGroup(t, g), t)
    PROVE  /\ NamedOnce(L) /\ Names(L) = Siblings(t, g) /\ Len(L) = Cardinality(Siblings(t, g))
           /\ \A k \in DOMAIN L : /\ L[k].item \in Siblings(t, g)
                                  /\ L[k].item = FetchGroup(t, g)[k]
                                  /\ L[k].position = t[L[k].item].position
                                  /\ t[L[k].item] = [group |-> g, position |-> L[k].position]
           /\ IsFiniteSet(Siblings(t, g)) /\ Len(L) \in Nat
<1>1. PICK q : q = FetchGroup(t, g)
  OBVIOUS
<1>2. PICK S : S = Siblings(t, g)
  OBVIOUS
<1>3. PICK n : n = Cardinality(S)
  OBVIOUS
<1>4. n \in Nat /\ Lists(q, S, n) /\ IsFiniteSet(S)
  <2>1. S \in SUBSET Siblings(t, g)
    BY <1>2
  <2> QED
    BY <1>1, <1>2, <1>3, <2>1, TableQuery DEF FetchGroup
<1>5. q \in [1..n -> S] /\ Len(q) = n
  <2>1. q \in [1..n -> S]
    BY <1>4 DEF Lists
  <2> QED
    BY <1>4, <2>1
<1>6. Len(L) = n /\ DOMAIN L = 1..n /\ \A k \in 1..n : L[k] = [item |-> q[k], position |-> t[q[k]].position]
  <2>1. Len(L) = Len(q) /\ Len(L) \in Nat /\ DOMAIN L = 1..Len(L)
    BY <1>1, <1>4, <1>5 DEF Reads
  <2> QED
    BY <1>1, <1>5, <2>1 DEF Reads
<1>7. \A k \in 1..n : /\ L[k].item = q[k] /\ q[k] \in S
                      /\ L[k].position = t[q[k]].position
  BY <1>5, <1>6
<1>8. \A k \in 1..n : t[q[k]] = [group |-> g, position |-> t[q[k]].position]
  BY <1>2, <1>7, TableType DEF Siblings
<1>9. NamedOnce(L)
  BY <1>4, <1>6, <1>7 DEF NamedOnce, Lists
<1>10. Names(L) = S
  BY <1>4, <1>6, <1>7 DEF Names, Lists
<1> QED
  BY <1>1, <1>2, <1>3, <1>4, <1>6, <1>7, <1>8, <1>9, <1>10

LEMMA WithoutReads ==
    ASSUME NEW t, Table(t), NEW g, NEW L \in Seq(Entries),
           Reads(L, <<>>, FetchGroup(t, g), t), NEW i
    PROVE  /\ Len(Without(L, i)) = Cardinality(Siblings(t, g) \ {i})
           /\ Lists(FetchOthers(t, g, i), Siblings(t, g) \ {i}, Cardinality(Siblings(t, g) \ {i}))
           /\ Reads(Without(L, i), <<>>, FetchOthers(t, g, i), t)
<1>1. PICK q : q = FetchGroup(t, g)
  OBVIOUS
<1>2. PICK S : S = Siblings(t, g)
  OBVIOUS
<1>3. PICK n : n = Cardinality(S)
  OBVIOUS
<1>4. n \in Nat /\ Lists(q, S, n) /\ IsFiniteSet(S) /\ Climbs(t, q, n)
  <2>1. S \in SUBSET Siblings(t, g)
    BY <1>2
  <2>2. /\ IsFiniteSet(S) /\ Cardinality(S) \in Nat
        /\ Lists(OrderByPosition(t, S), S, Cardinality(S))
        /\ \A a, b \in 1..Cardinality(S) :
              a < b => t[OrderByPosition(t, S)[a]].position < t[OrderByPosition(t, S)[b]].position
    BY <2>1, TableQuery
  <2>3. q = OrderByPosition(t, S)
    BY <1>1, <1>2 DEF FetchGroup
  <2> QED
    BY <1>3, <2>2, <2>3 DEF Climbs
<1>5. Len(L) = n /\ DOMAIN L = 1..n
      /\ \A k \in 1..n : L[k].item = q[k] /\ L[k].position = t[q[k]].position /\ q[k] \in S
  <2>1. Len(L) = n /\ Len(L) \in Nat
    BY <1>2, <1>3, ReadsGroup
  <2>2. DOMAIN L = 1..n
    BY <2>1
  <2>3. \A k \in DOMAIN L : /\ L[k].item \in Siblings(t, g)
                            /\ L[k].item = FetchGroup(t, g)[k]
                            /\ L[k].position = t[L[k].item].position
                            /\ t[L[k].item] = [group |-> g, position |-> L[k].position]
    BY ReadsGroup
  <2> QED
    BY <1>1, <1>2, <2>1, <2>2, <2>3
<1>6. PICK K : K = Others(L, i)
  OBVIOUS
<1>7. K \in SUBSET (1..n) /\ \A k \in 1..n : k \in K <=> q[k] # i
  BY <1>5, <1>6 DEF Others
<1>8. PICK kept : kept = InOrder(K)
  OBVIOUS
<1>9. PICK m : m = Cardinality(K)
  OBVIOUS
<1>10. m \in Nat /\ Lists(kept, K, m)
  BY <1>4, <1>7, <1>8, <1>9, InOrderLists
<1>11. \A a, b \in 1..m : a < b => kept[a] < kept[b]
  BY <1>4, <1>7, <1>8, <1>9, InOrderRises
<1>12. kept \in [1..m -> K]
  BY <1>10 DEF Lists
<1>13. PICK f : f = [k \in 1..m |-> q[kept[k]]]
  OBVIOUS
<1>14. Lists(f, S \ {i}, m)
  <2>1. f \in [1..m -> S \ {i}]
    BY <1>5, <1>7, <1>12, <1>13
  <2>2. \A a, b \in 1..m : f[a] = f[b] => a = b
    <3>1. \A a \in 1..m : kept[a] \in 1..n /\ f[a] = q[kept[a]]
      BY <1>7, <1>12, <1>13
    <3> QED
      BY <1>4, <1>10, <3>1 DEF Lists
  <2>3. ASSUME NEW x \in S \ {i} PROVE \E k \in 1..m : f[k] = x
    <3>1. PICK a \in 1..n : q[a] = x
      BY <1>4 DEF Lists
    <3>2. a \in K
      BY <1>7, <3>1
    <3>3. PICK k \in 1..m : kept[k] = a
      BY <1>10, <3>2 DEF Lists
    <3> QED
      BY <1>13, <3>1, <3>3
  <2> QED
    BY <1>10, <2>1, <2>2, <2>3 DEF Lists
<1>15. Climbs(t, f, m)
  <2>1. \A a \in 1..m : kept[a] \in 1..n /\ f[a] = q[kept[a]]
    BY <1>7, <1>12, <1>13
  <2> QED
    BY <1>4, <1>11, <2>1 DEF Climbs
<1>16. PICK h : h = FetchOthers(t, g, i)
  OBVIOUS
<1>17. PICK T : T = S \ {i}
  OBVIOUS
<1>18. m = Cardinality(T)
  BY <1>14, <1>17, ListsCardinality
<1>19. Lists(h, T, m) /\ Climbs(t, h, m) /\ \A x \in T : t[x].position \in Int
  <2>1. T \in SUBSET Siblings(t, g)
    BY <1>2, <1>17
  <2>2. /\ Lists(OrderByPosition(t, T), T, Cardinality(T))
        /\ \A a, b \in 1..Cardinality(T) :
              a < b => t[OrderByPosition(t, T)[a]].position < t[OrderByPosition(t, T)[b]].position
    BY <2>1, TableQuery
  <2>3. h = OrderByPosition(t, T)
    BY <1>2, <1>16, <1>17 DEF FetchOthers
  <2>4. \A x \in T : t[x].position \in Int
    BY <2>1, TableType DEF Siblings
  <2> QED
    BY <1>18, <2>2, <2>3, <2>4 DEF Climbs
<1>20. \A k \in 1..m : f[k] = h[k]
  BY <1>14, <1>15, <1>17, <1>19, ClimbsOnce
<1>21. PICK W : W = Without(L, i)
  OBVIOUS
<1>22. DOMAIN kept = 1..m /\ W = [k \in 1..m |-> L[kept[k]]]
  <2>1. DOMAIN kept = 1..m
    BY <1>12
  <2>2. InOrder({k \in DOMAIN L : L[k].item # i}) = kept
    BY <1>6, <1>8 DEF Others
  <2> QED
    BY <1>21, <2>1, <2>2 DEF Without
<1>23. Len(W) = m
  BY <1>10, <1>22
<1>24. ASSUME NEW k \in 1..m PROVE W[k] = [item |-> h[k], position |-> t[h[k]].position]
  <2>1. PICK a \in 1..n : a = kept[k]
    BY <1>7, <1>12
  <2>2. W[k] = L[a] /\ h[k] = q[a]
    BY <1>13, <1>20, <1>22, <2>1
  <2>3. L[a] \in Entries
    BY <1>5, <2>1
  <2>4. L[a] = [item |-> L[a].item, position |-> L[a].position]
    BY <2>3 DEF Entries
  <2> QED
    BY <1>5, <2>1, <2>2, <2>4
<1>25. Reads(W, <<>>, h, t)
  <2>1. h \in [1..m -> T] /\ m \in Nat
    BY <1>19 DEF Lists
  <2>2. Len(h) = m /\ DOMAIN W = 1..m /\ Len(<<>>) = 0 /\ DOMAIN <<>> = {}
    BY <1>22, <2>1
  <2> QED
    BY <1>23, <1>24, <2>1, <2>2 DEF Reads
<1> QED
  BY <1>2, <1>16, <1>17, <1>18, <1>19, <1>21, <1>23, <1>25

-----------------------------------------------------------------------------
(* What the statements of a pass lead to.                                  *)

(* A list of rows T of group g, as the transaction holds it and as q.      *)
Lines(items, q, T, g, t) ==
    /\ items \in Seq(Entries) /\ NamedOnce(items) /\ Names(items) = T
    /\ Lists(q, T, Len(items)) /\ T \subseteq DOMAIN t
    /\ \A k \in DOMAIN items :
          q[k] = items[k].item /\ t[q[k]] = [group |-> g, position |-> items[k].position]

(* The two passes of UPDATEs end where _persist_group_positions is to end. *)
LEMMA RenumberingPersists ==
    ASSUME NEW items, NEW q, NEW T, NEW g \in Groups, NEW t, Lines(items, q, T, g, t),
           NEW a \in Seq(Writes), NEW r, \A j \in Items : RowAfter(a, r, j) = RowOf(t, j)
    PROVE  \A j \in Items :
              RowAfter(a \o Renumbering(items, g), r, j) = RowOf(PersistPositions(t, q), j)
<1>1. items \in Seq(Entries) /\ NamedOnce(items) /\ Names(items) = T
  BY DEF Lines
<1>2. PICK n \in Nat : n = Len(items) /\ DOMAIN items = 1..n
  BY <1>1
<1>3. PICK p : p = PersistPositions(t, q)
  OBVIOUS
<1>4. Lists(q, T, n) /\ T \subseteq DOMAIN t
  BY <1>2 DEF Lines
<1>5. /\ DOMAIN p = DOMAIN t
      /\ \A j \in DOMAIN t : j \notin T => p[j] = t[j]
      /\ \A i \in T : /\ p[i] = [group |-> t[i].group, position |-> p[i].position]
                      /\ p[i].group = t[i].group
                      /\ p[i].position \in 1..n
                      /\ q[p[i].position] = i
  <2>1. LET x == PersistPositions(t, q)
        IN  /\ DOMAIN x = DOMAIN t
            /\ \A j \in DOMAIN t : j \notin T => x[j] = t[j]
            /\ \A i \in T : /\ x[i] = [group |-> t[i].group, position |-> x[i].position]
                            /\ x[i].group = t[i].group
                            /\ x[i].position \in 1..n
                            /\ q[x[i].position] = i
    BY <1>4, PersistPositionsEffect
  <2> QED
    BY <1>3, <2>1
<1>6. PICK A : A = Renumbering(items, g)
  OBVIOUS
<1>7. A \in Seq(Writes) /\ RenumbersList(A, items, g)
  BY <1>1, <1>6, RenumberingRenumbers
<1>8. SUFFICES ASSUME NEW j \in Items PROVE RowAfter(a \o A, r, j) = RowOf(p, j)
  BY <1>3, <1>6
<1>9. CASE j \in T
  <2>1. PICK k \in 1..n : k = p[j].position /\ q[k] = j
    BY <1>5, <1>9
  <2>2. items[k].item = j /\ t[j] = [group |-> g, position |-> items[k].position]
    BY <1>2, <2>1 DEF Lines
  <2>3. t[j].group = g
    BY <2>2
  <2>4. p[j] = [group |-> g, position |-> k]
    BY <1>5, <1>9, <2>1, <2>3
  <2>5. RowAfter(a, r, items[k].item) = [group |-> g, position |-> items[k].position]
    BY <1>4, <1>9, <2>2 DEF RowOf
  <2>6. k \in DOMAIN items
    BY <1>2
  <2>7. RowAfter(a \o Renumbering(items, g), r, items[k].item) = [group |-> g, position |-> k]
    BY <1>1, <2>5, <2>6, RenumberingEnds
  <2> QED
    BY <1>4, <1>5, <1>6, <1>9, <2>2, <2>4, <2>7 DEF RowOf
<1>10. CASE j \notin T
  <2>1. \A k \in DOMAIN A : A[k].item # j
    BY <1>1, <1>7, <1>10 DEF RenumbersList
  <2>2. RowAfter(a \o A, r, j) = RowAfter(a, r, j)
    BY <1>7, <2>1, RowAfterOthers
  <2> QED
    BY <1>5, <1>10, <2>2 DEF RowOf
<1> QED
  BY <1>9, <1>10

(* They meet no position that is taken, when the whole group is listed:    *)
(* the temporary ones are beyond all others, and an index is free when its *)
(* row comes, as all rows that are not at theirs have left.                *)
LEMMA RenumberingClear ==
    ASSUME NEW items, NEW q, NEW g \in Groups, NEW t, Lines(items, q, Siblings(t, g), g, t)
    PROVE  Clear(Renumbering(items, g), t)
<1>1. items \in Seq(Entries) /\ Names(items) = Siblings(t, g)
  BY DEF Lines
<1>2. PICK W : W = Renumbering(items, g)
  OBVIOUS
<1>3. PICK K : K = {k \in DOMAIN items : items[k].position # k}
  OBVIOUS
<1>4. PICK m \in Nat, base \in Nat, pending \in Seq(Nat) :
              /\ Lists(pending, K, m)
              /\ base > Len(items) /\ \A k \in DOMAIN items : base > items[k].position
              /\ W \in Seq([item : Items, row : Rows]) /\ Len(W) = 2 * m
              /\ \A n \in 1..m :
                    /\ W[n] = Write(items[pending[n]].item, g, base + n - 1)
                    /\ W[m + n] = Write(items[pending[n]].item, g, pending[n])
  BY <1>1, <1>2, <1>3, RenumberingShape
<1>5. Len(items) \in Nat /\ DOMAIN items = 1..Len(items)
      /\ \A k \in 1..Len(items) : items[k].position \in Nat
  BY <1>1, EntriesOf
<1>6. \A n \in 1..m : pending[n] \in K /\ pending[n] \in 1..Len(items)
  BY <1>3, <1>4, <1>5 DEF Lists
<1>7. \A n \in 1..m : /\ W[n].item = items[pending[n]].item /\ W[m + n].item = items[pending[n]].item
                      /\ W[n].row.group = g /\ W[n].row.position = base + n - 1
                      /\ W[m + n].row.group = g /\ W[m + n].row.position = pending[n]
  <2>1. SUFFICES ASSUME NEW n \in 1..m
                 PROVE  /\ W[n].item = items[pending[n]].item /\ W[m + n].item = items[pending[n]].item
                        /\ W[n].row.group = g /\ W[n].row.position = base + n - 1
                        /\ W[m + n].row.group = g /\ W[m + n].row.position = pending[n]
    OBVIOUS
  <2>2. \A i, x : /\ Write(i, g, x).item = i /\ Write(i, g, x).row.group = g
                  /\ Write(i, g, x).row.position = x
    BY DEF Write
  <2>3. /\ W[n] = Write(items[pending[n]].item, g, base + n - 1)
        /\ W[m + n] = Write(items[pending[n]].item, g, pending[n])
    BY <1>4
  <2> QED
    BY <2>2, <2>3
<1>8. DOMAIN W = 1..(2 * m)
  BY <1>4
<1>9. \A k \in 1..(2 * m) : k \in 1..m \/ (k - m \in 1..m /\ k = m + (k - m))
  OBVIOUS
<1>10. \A k \in 1..(2 * m) : W[k].row.group = g
  BY <1>7, <1>9
<1>11. SUFFICES ASSUME NEW k \in 1..(2 * m)
                PROVE  /\ \A c \in 1..(k - 1) : W[c].row.position # W[k].row.position
                       /\ \A j \in DOMAIN t : t[j].group = g =>
                             \/ t[j].position # W[k].row.position
                             \/ \E c \in 1..(k - 1) : W[c].item = j
  <2>1. ASSUME NEW c \in 1..(2 * m), NEW d \in 1..(2 * m), W[c].row.position # W[d].row.position
        PROVE  KeyOf(W[c].row) # KeyOf(W[d].row)
    BY <2>1 DEF KeyOf
  <2>2. ASSUME NEW j \in DOMAIN t, NEW d \in 1..(2 * m),
               t[j].group # g \/ t[j].position # W[d].row.position
        PROVE  KeyOf(t[j]) # KeyOf(W[d].row)
    BY <1>10, <2>2 DEF KeyOf
  <2>3. Clear(W, t)
    <3>1. SUFFICES ASSUME NEW k \in 1..(2 * m)
                   PROVE  /\ \A c \in 1..(k - 1) : KeyOf(W[c].row) # KeyOf(W[k].row)
                          /\ \A j \in DOMAIN t : \/ KeyOf(t[j]) # KeyOf(W[k].row)
                                                 \/ \E c \in 1..(k - 1) : W[c].item = j
      BY <1>8 DEF Clear
    <3>2. \A c \in 1..(k - 1) : W[c].row.position # W[k].row.position /\ c \in 1..(2 * m)
      BY <1>11, <3>1
    <3>3. \A j \in DOMAIN t : t[j].group = g =>
                             \/ t[j].position # W[k].row.position
                             \/ \E c \in 1..(k - 1) : W[c].item = j
      BY <1>11, <3>1
    <3> QED
      BY <2>1, <2>2, <3>2, <3>3
  <2> QED
    BY <1>2, <2>3
<1>12. \A c \in 1..m : W[c].row.position = base + c - 1 /\ W[c].row.position >= base
  BY <1>7
<1>13. \A c \in 1..m : W[m + c].row.position < base /\ W[m + c].row.position = pending[c]
                       /\ pending[c] \in Nat
  BY <1>4, <1>6, <1>7
<1>14. ASSUME NEW c \in 1..(k - 1) PROVE W[c].row.position # W[k].row.position
  <2>1. c \in 1..(2 * m) /\ c < k
    OBVIOUS
  <2>2. CASE k \in 1..m
    BY <1>12, <2>1, <2>2
  <2>3. CASE k - m \in 1..m
    <3>1. PICK e \in 1..m : k = m + e
      BY <2>3
    <3>2. CASE c \in 1..m
      <4>1. W[k].row.position = pending[e] /\ pending[e] < base /\ pending[e] \in Nat
        BY <1>13, <3>1
      <4>2. W[c].row.position = base + c - 1
        BY <1>12, <3>2
      <4> QED
        BY <3>2, <4>1, <4>2
    <3>3. CASE c - m \in 1..m
      <4>1. PICK d \in 1..m : c = m + d
        BY <3>3
      <4>2. pending[d] # pending[e]
        BY <1>4, <2>1, <3>1, <4>1 DEF Lists
      <4> QED
        BY <1>13, <3>1, <4>1, <4>2
    <3> QED
      BY <1>9, <2>1, <3>2, <3>3
  <2> QED
    BY <1>9, <2>2, <2>3
<1>15. ASSUME NEW j \in DOMAIN t, t[j].group = g
       PROVE  t[j].position # W[k].row.position \/ \E c \in 1..(k - 1) : W[c].item = j
  <2>1. PICK c \in 1..Len(items) : items[c].item = j
    BY <1>1, <1>5, <1>15 DEF Siblings, Names
  <2>2. t[j] = [group |-> g, position |-> items[c].position]
    BY <1>5, <2>1 DEF Lines
  <2>3. t[j].position = items[c].position /\ items[c].position \in Nat /\ items[c].position < base
    <3>1. t[j].position = items[c].position
      BY <2>2
    <3>2. items[c].position \in Nat /\ c \in DOMAIN items
      BY <1>5
    <3> QED
      BY <1>4, <3>1, <3>2
  <2>4. CASE k \in 1..m
    BY <1>12, <2>3, <2>4
  <2>5. CASE k - m \in 1..m
    <3>1. PICK e \in 1..m : k = m + e
      BY <2>5
    <3>2. CASE c \in K
      <4>1. PICK d \in 1..m : pending[d] = c
        BY <1>4, <3>2 DEF Lists
      <4>2. W[d].item = j /\ d \in 1..(k - 1)
        BY <1>7, <2>1, <3>1, <4>1
      <4> QED
        BY <4>2
    <3>3. CASE c \notin K
      <4>1. items[c].position = c
        BY <1>3, <1>5, <3>3
      <4>2. pending[e] # c
        BY <1>6, <3>3
      <4> QED
        BY <1>13, <2>3, <3>1, <4>1, <4>2
    <3> QED
      BY <3>2, <3>3
  <2> QED
    BY <1>9, <2>4, <2>5
<1> QED
  BY <1>14, <1>15

(* Statements in two groups do not get in each other's way.                *)
LEMMA ClearApart ==
    ASSUME NEW a \in Seq(Writes), NEW b \in Seq(Writes), NEW r, Clear(a, r), Clear(b, r),
           \A k \in DOMAIN a, m \in DOMAIN b :
               a[k].row # NoRow /\ b[m].row # NoRow => KeyOf(a[k].row) # KeyOf(b[m].row)
    PROVE  Clear(a \o b, r)
<1>1. PICK c : c = a \o b
  OBVIOUS
<1>2. PICK x \in Nat, y \in Nat : x = Len(a) /\ y = Len(b)
  OBVIOUS
<1>3. DOMAIN a = 1..x /\ DOMAIN b = 1..y
  BY <1>2
<1>4. /\ DOMAIN c = 1..(x + y)
      /\ \A k \in 1..x : c[k] = a[k]
      /\ \A k \in 1..y : c[x + k] = b[k]
  BY <1>1, <1>2, <1>3
<1>5. SUFFICES ASSUME NEW k \in 1..(x + y), c[k].row # NoRow
               PROVE  /\ \A m \in 1..(k - 1) :
                            \/ c[m].row = NoRow \/ c[m].item = c[k].item
                            \/ KeyOf(c[m].row) # KeyOf(c[k].row)
                            \/ \E n \in (m + 1)..(k - 1) : c[n].item = c[m].item
                      /\ \A j \in DOMAIN r :
                            \/ j = c[k].item \/ KeyOf(r[j]) # KeyOf(c[k].row)
                            \/ \E m \in 1..(k - 1) : c[m].item = j
  <2>1. Clear(c, r)
    BY <1>4, <1>5 DEF Clear
  <2> QED
    BY <1>1, <2>1
<1>6. CASE k \in 1..x
  <2>1. \A m \in 1..k : c[m] = a[m]
    BY <1>4, <1>6
  <2>2. /\ \A m \in 1..(k - 1) :
                            \/ a[m].row = NoRow \/ a[m].item = a[k].item
                            \/ KeyOf(a[m].row) # KeyOf(a[k].row)
                            \/ \E n \in (m + 1)..(k - 1) : a[n].item = a[m].item
        /\ \A j \in DOMAIN r :
                            \/ j = a[k].item \/ KeyOf(r[j]) # KeyOf(a[k].row)
                            \/ \E m \in 1..(k - 1) : a[m].item = j
    BY <1>3, <1>5, <1>6, <2>1 DEF Clear
  <2>3. c[k] = a[k]
    BY <2>1
  <2>4. ASSUME NEW m \in 1..(k - 1)
        PROVE  \/ c[m].row = NoRow \/ c[m].item = c[k].item
               \/ KeyOf(c[m].row) # KeyOf(c[k].row)
               \/ \E n \in (m + 1)..(k - 1) : c[n].item = c[m].item
    <3>1. c[m] = a[m]
      BY <2>1
    <3>2. \A n \in (m + 1)..(k - 1) : c[n] = a[n]
      BY <2>1
    <3> QED
      BY <2>2, <2>3, <3>1, <3>2
  <2>5. ASSUME NEW j \in DOMAIN r
        PROVE  \/ j = c[k].item \/ KeyOf(r[j]) # KeyOf(c[k].row)
               \/ \E m \in 1..(k - 1) : c[m].item = j
    <3>1. \A m \in 1..(k - 1) : c[m] = a[m]
      BY <2>1
    <3> QED
      BY <2>2, <2>3, <3>1
  <2> QED
    BY <2>4, <2>5
<1>7. CASE k \notin 1..x
  <2>1. PICK e \in 1..y : k = x + e
    <3>1. k - x \in 1..y /\ k = x + (k - x)
      BY <1>7
    <3> QED
      BY <3>1
  <2>2. c[k] = b[e]
    BY <1>4, <2>1
  <2>3. /\ \A m \in 1..(e - 1) :
                            \/ b[m].row = NoRow \/ b[m].item = b[e].item
                            \/ KeyOf(b[m].row) # KeyOf(b[e].row)
                            \/ \E n \in (m + 1)..(e - 1) : b[n].item = b[m].item
        /\ \A j \in DOMAIN r :
                            \/ j = b[e].item \/ KeyOf(r[j]) # KeyOf(b[e].row)
                            \/ \E m \in 1..(e - 1) : b[m].item = j
    BY <1>3, <1>5, <2>2 DEF Clear
  <2>4. ASSUME NEW j \in DOMAIN r
        PROVE  \/ j = c[k].item \/ KeyOf(r[j]) # KeyOf(c[k].row)
               \/ \E m \in 1..(k - 1) : c[m].item = j
    <3>1. CASE \E m \in 1..(e - 1) : b[m].item = j
      <4>1. PICK m \in 1..(e - 1) : b[m].item = j
        BY <3>1
      <4>2. x + m \in 1..(k - 1) /\ c[x + m] = b[m]
        BY <1>4, <2>1
      <4> QED
        BY <4>1, <4>2
    <3> QED
      BY <2>2, <2>3, <3>1
  <2>5. ASSUME NEW m \in 1..(k - 1)
        PROVE  \/ c[m].row = NoRow \/ c[m].item = c[k].item
               \/ KeyOf(c[m].row) # KeyOf(c[k].row)
               \/ \E n \in (m + 1)..(k - 1) : c[n].item = c[m].item
    <3>1. CASE m \in 1..x
      BY <1>3, <1>4, <1>5, <2>1, <2>2, <3>1
    <3>2. CASE m \notin 1..x
      <4>1. PICK d \in 1..(e - 1) : m = x + d
        <5>1. m - x \in 1..(e - 1) /\ m = x + (m - x)
          BY <2>1, <3>2
        <5> QED
          BY <5>1
      <4>2. c[m] = b[d]
        BY <1>4, <2>1, <4>1
      <4>3. CASE \E n \in (d + 1)..(e - 1) : b[n].item = b[d].item
        <5>1. PICK n \in (d + 1)..(e - 1) : b[n].item = b[d].item
          BY <4>3
        <5>2. x + n \in (m + 1)..(k - 1) /\ c[x + n] = b[n]
          BY <1>4, <2>1, <4>1
        <5> QED
          BY <4>2, <5>1, <5>2
      <4> QED
        BY <2>2, <2>3, <4>2, <4>3
    <3> QED
      BY <3>1, <3>2
  <2> QED
    BY <2>4, <2>5
<1> QED
  BY <1>6, <1>7

(* Table s is r after the statement w.                                     *)
WrittenTo(s, r, w) ==
    /\ \A j : j # w.item => /\ j \in DOMAIN s <=> j \in DOMAIN r
                            /\ j \in DOMAIN r => s[j] = r[j]
    /\ w.item \in DOMAIN s <=> w.row # NoRow
    /\ w.item \in DOMAIN s => s[w.item] = w.row

IsFree(w, r) ==
    w.row # NoRow => \A j \in DOMAIN r : j = w.item \/ KeyOf(r[j]) # KeyOf(w.row)

(* A list of statements and the same without the first.                    *)
LEMMA HeadAndTail ==
    ASSUME NEW ws \in Seq(Writes), ws # <<>>
    PROVE  \E n \in Nat : /\ DOMAIN ws = 1..(n + 1) /\ DOMAIN Tail(ws) = 1..n /\ ws[1] = Head(ws)
                          /\ Tail(ws) \in Seq(Writes) /\ Head(ws) \in Writes
                          /\ \A k \in 1..n : Tail(ws)[k] = ws[k + 1]
<1>1. PICK n \in Nat : n + 1 = Len(ws)
  <2>1. Len(ws) \in Nat /\ Len(ws) > 0
    OBVIOUS
  <2>2. Len(ws) - 1 \in Nat /\ (Len(ws) - 1) + 1 = Len(ws)
    BY <2>1
  <2> QED
    BY <2>2
<1>2. DOMAIN ws = 1..(n + 1) /\ ws[1] = Head(ws) /\ Head(ws) \in Writes
  BY <1>1
<1>3. Tail(ws) \in Seq(Writes) /\ Len(Tail(ws)) = n
  BY <1>1
<1>4. DOMAIN Tail(ws) = 1..n
  BY <1>3
<1>5. \A k \in 1..n : Tail(ws)[k] = ws[k + 1]
  BY <1>1
<1> QED
  BY <1>2, <1>3, <1>4, <1>5

(* What is left of clear statements is clear after the first,              *)
LEMMA ClearRest ==
    ASSUME NEW ws \in Seq(Writes), ws # <<>>, NEW r, NEW s, WrittenTo(s, r, Head(ws)), Clear(ws, r)
    PROVE  Clear(Tail(ws), s) /\ IsFree(Head(ws), r)
<1>1. PICK w, b : w = Head(ws) /\ b = Tail(ws)
  OBVIOUS
<1>2. PICK n \in Nat : /\ DOMAIN ws = 1..(n + 1) /\ DOMAIN b = 1..n /\ ws[1] = w
                       /\ \A k \in 1..n : b[k] = ws[k + 1]
  BY <1>1, HeadAndTail
<1>3. ASSUME NEW k \in 1..(n + 1), ws[k].row # NoRow
      PROVE  /\ \A m \in 1..(k - 1) :
                    \/ ws[m].row = NoRow \/ ws[m].item = ws[k].item
                    \/ KeyOf(ws[m].row) # KeyOf(ws[k].row)
                    \/ \E c \in (m + 1)..(k - 1) : ws[c].item = ws[m].item
             /\ \A j \in DOMAIN r :
                    \/ j = ws[k].item \/ KeyOf(r[j]) # KeyOf(ws[k].row)
                    \/ \E m \in 1..(k - 1) : ws[m].item = j
  BY <1>2, <1>3 DEF Clear
<1>4. WrittenTo(s, r, w)
  BY <1>1
<1>5. IsFree(w, r)
  <2>1. SUFFICES ASSUME w.row # NoRow, NEW j \in DOMAIN r
                 PROVE  j = w.item \/ KeyOf(r[j]) # KeyOf(w.row)
    BY DEF IsFree
  <2>2. PICK k \in 1..(n + 1) : k = 1
    OBVIOUS
  <2>3. ws[k] = w
    BY <1>2, <2>2
  <2>4. \/ j = ws[k].item \/ KeyOf(r[j]) # KeyOf(ws[k].row)
        \/ \E m \in 1..(k - 1) : ws[m].item = j
    BY <1>3, <2>1, <2>3
  <2> QED
    BY <2>2, <2>3, <2>4
<1>6. ASSUME NEW k \in 1..n, b[k].row # NoRow
      PROVE  /\ \A m \in 1..(k - 1) :
                    \/ b[m].row = NoRow \/ b[m].item = b[k].item
                    \/ KeyOf(b[m].row) # KeyOf(b[k].row)
                    \/ \E c \in (m + 1)..(k - 1) : b[c].item = b[m].item
             /\ \A j \in DOMAIN s :
                    \/ j = b[k].item \/ KeyOf(s[j]) # KeyOf(b[k].row)
                    \/ \E m \in 1..(k - 1) : b[m].item = j
  <2>1. PICK e \in 1..(n + 1) : e = k + 1
    OBVIOUS
  <2>2. b[k] = ws[e]
    BY <1>2, <2>1
  <2>3. /\ \A m \in 1..(e - 1) :
                    \/ ws[m].row = NoRow \/ ws[m].item = ws[e].item
                    \/ KeyOf(ws[m].row) # KeyOf(ws[e].row)
                    \/ \E c \in (m + 1)..(e - 1) : ws[c].item = ws[m].item
        /\ \A j \in DOMAIN r :
                    \/ j = ws[e].item \/ KeyOf(r[j]) # KeyOf(ws[e].row)
                    \/ \E m \in 1..(e - 1) : ws[m].item = j
    BY <1>3, <1>6, <2>2
  <2>4. \A c \in 2..(e - 1) : c - 1 \in 1..(k - 1) /\ b[c - 1] = ws[c]
    <3>1. SUFFICES ASSUME NEW c \in 2..(e - 1) PROVE c - 1 \in 1..(k - 1) /\ b[c - 1] = ws[c]
      OBVIOUS
    <3>2. c - 1 \in 1..(k - 1) /\ c - 1 \in 1..n /\ (c - 1) + 1 = c
      BY <2>1
    <3> QED
      BY <1>2, <3>2
  <2>5. ASSUME NEW m \in 1..(k - 1)
        PROVE  \/ b[m].row = NoRow \/ b[m].item = b[k].item
               \/ KeyOf(b[m].row) # KeyOf(b[k].row)
               \/ \E c \in (m + 1)..(k - 1) : b[c].item = b[m].item
    <3>1. PICK d \in 1..(e - 1) : d = m + 1 /\ b[m] = ws[d]
      <4>1. m + 1 \in 1..(e - 1) /\ b[m] = ws[m + 1]
        BY <1>2, <2>1
      <4> QED
        BY <4>1
    <3>2. CASE \E c \in (d + 1)..(e - 1) : ws[c].item = ws[d].item
      <4>1. PICK c \in (d + 1)..(e - 1) : ws[c].item = ws[d].item
        BY <3>2
      <4>2. c - 1 \in (m + 1)..(k - 1) /\ b[c - 1] = ws[c]
        BY <2>1, <2>4, <3>1
      <4> QED
        BY <3>1, <4>1, <4>2
    <3> QED
      BY <2>2, <2>3, <3>1, <3>2
  <2>6. ASSUME NEW j \in DOMAIN s
        PROVE  \/ j = b[k].item \/ KeyOf(s[j]) # KeyOf(b[k].row)
               \/ \E m \in 1..(k - 1) : b[m].item = j
    <3>1. CASE j = w.item
      <4>1. s[j] = w.row /\ w.row # NoRow
        BY <1>4, <3>1 DEF WrittenTo
      <4>2. PICK d \in 1..(e - 1) : d = 1
        BY <2>1
      <4>3. ws[d] = w
        BY <1>2, <4>2
      <4>4. CASE \E c \in (d + 1)..(e - 1) : ws[c].item = ws[d].item
        <5>1. PICK c \in 2..(e - 1) : ws[c].item = j
          BY <3>1, <4>2, <4>3, <4>4
        <5> QED
          BY <2>4, <5>1
      <4> QED
        BY <2>2, <2>3, <3>1, <4>1, <4>3, <4>4
    <3>2. CASE j # w.item
      <4>1. j \in DOMAIN r /\ s[j] = r[j]
        BY <1>4, <3>2 DEF WrittenTo
      <4>2. CASE \E m \in 1..(e - 1) : ws[m].item = j
        <5>1. PICK c \in 1..(e - 1) : ws[c].item = j
          BY <4>2
        <5>2. c \in 2..(e - 1)
          BY <1>2, <3>2, <5>1
        <5> QED
          BY <2>4, <5>1, <5>2
      <4> QED
        BY <2>2, <2>3, <4>1, <4>2
    <3> QED
      BY <3>1, <3>2
  <2> QED
    BY <2>5, <2>6
<1>7. Clear(b, s)
  BY <1>2, <1>6 DEF Clear
<1> QED
  BY <1>1, <1>5, <1>7

(* and a statement that is free leaves clear ones clear.                   *)
LEMMA ClearFirst ==
    ASSUME NEW ws \in Seq(Writes), ws # <<>>, NEW r, NEW s, WrittenTo(s, r, Head(ws)),
           IsFree(Head(ws), r), Clear(Tail(ws), s)
    PROVE  Clear(ws, r)
<1>1. PICK w, b : w = Head(ws) /\ b = Tail(ws)
  OBVIOUS
<1>2. PICK n \in Nat : /\ DOMAIN ws = 1..(n + 1) /\ DOMAIN b = 1..n /\ ws[1] = w
                       /\ \A k \in 1..n : b[k] = ws[k + 1]
  BY <1>1, HeadAndTail
<1>3. ASSUME NEW k \in 1..n, b[k].row # NoRow
      PROVE  /\ \A m \in 1..(k - 1) :
                    \/ b[m].row = NoRow \/ b[m].item = b[k].item
                    \/ KeyOf(b[m].row) # KeyOf(b[k].row)
                    \/ \E c \in (m + 1)..(k - 1) : b[c].item = b[m].item
             /\ \A j \in DOMAIN s :
                    \/ j = b[k].item \/ KeyOf(s[j]) # KeyOf(b[k].row)
                    \/ \E m \in 1..(k - 1) : b[m].item = j
  BY <1>1, <1>2, <1>3 DEF Clear
<1>4. WrittenTo(s, r, w) /\ IsFree(w, r)
  BY <1>1
<1>5. SUFFICES ASSUME NEW e \in 1..(n + 1), ws[e].row # NoRow
               PROVE  /\ \A m \in 1..(e - 1) :
                            \/ ws[m].row = NoRow \/ ws[m].item = ws[e].item
                            \/ KeyOf(ws[m].row) # KeyOf(ws[e].row)
                            \/ \E c \in (m + 1)..(e - 1) : ws[c].item = ws[m].item
                      /\ \A j \in DOMAIN r :
                            \/ j = ws[e].item \/ KeyOf(r[j]) # KeyOf(ws[e].row)
                            \/ \E m \in 1..(e - 1) : ws[m].item = j
  BY <1>2 DEF Clear
<1>6. CASE e = 1
  BY <1>2, <1>4, <1>5, <1>6 DEF IsFree
<1>7. CASE e # 1
  <2>1. PICK k \in 1..n : e = k + 1
    <3>1. e - 1 \in 1..n /\ e = (e - 1) + 1
      BY <1>7
    <3> QED
      BY <3>1
  <2>2. b[k] = ws[e] /\ b[k].row # NoRow
    BY <1>2, <1>5, <2>1
  <2>3. /\ \A m \in 1..(k - 1) :
                    \/ b[m].row = NoRow \/ b[m].item = b[k].item
                    \/ KeyOf(b[m].row) # KeyOf(b[k].row)
                    \/ \E c \in (m + 1)..(k - 1) : b[c].item = b[m].item
        /\ \A j \in DOMAIN s :
                    \/ j = b[k].item \/ KeyOf(s[j]) # KeyOf(b[k].row)
                    \/ \E m \in 1..(k - 1) : b[m].item = j
    BY <1>3, <2>2
  <2>4. \A c \in 1..(k - 1) : c + 1 \in 2..(e - 1) /\ b[c] = ws[c + 1]
    BY <1>2, <2>1
  <2>5. ASSUME NEW m \in 1..(e - 1)
        PROVE  \/ ws[m].row = NoRow \/ ws[m].item = ws[e].item
               \/ KeyOf(ws[m].row) # KeyOf(ws[e].row)
               \/ \E c \in (m + 1)..(e - 1) : ws[c].item = ws[m].item
    <3>1. CASE m = 1
      <4>1. ws[m] = w
        BY <1>2, <3>1
      <4>2. SUFFICES ASSUME w.row # NoRow
                     PROVE  \/ w.item = ws[e].item \/ KeyOf(w.row) # KeyOf(ws[e].row)
                            \/ \E c \in (m + 1)..(e - 1) : ws[c].item = w.item
        BY <4>1
      <4>3. PICK j \in DOMAIN s : j = w.item /\ s[j] = w.row
        BY <1>4, <4>2 DEF WrittenTo
      <4>4. CASE \E c \in 1..(k - 1) : b[c].item = j
        <5>1. PICK c \in 1..(k - 1) : b[c].item = j
          BY <4>4
        <5>2. c + 1 \in (m + 1)..(e - 1) /\ ws[c + 1] = b[c]
          BY <2>4, <3>1
        <5> QED
          BY <4>3, <5>1, <5>2
      <4> QED
        BY <2>2, <2>3, <4>3, <4>4
    <3>2. CASE m # 1
      <4>1. PICK d \in 1..(k - 1) : m = d + 1
        <5>1. m - 1 \in 1..(k - 1) /\ m = (m - 1) + 1
          BY <2>1, <3>2
        <5> QED
          BY <5>1
      <4>2. b[d] = ws[m]
        BY <2>4, <4>1
      <4>3. CASE \E c \in (d + 1)..(k - 1) : b[c].item = b[d].item
        <5>1. PICK c \in (d + 1)..(k - 1) : b[c].item = b[d].item
          BY <4>3
        <5>2. c \in 1..(k - 1) /\ c + 1 \in (m + 1)..(e - 1)
          BY <2>1, <4>1
        <5>3. ws[c + 1] = b[c]
          BY <2>4, <5>2
        <5> QED
          BY <4>2, <5>1, <5>2, <5>3
      <4> QED
        BY <2>2, <2>3, <4>2, <4>3
    <3> QED
      BY <3>1, <3>2
  <2>6. ASSUME NEW j \in DOMAIN r
        PROVE  \/ j = ws[e].item \/ KeyOf(r[j]) # KeyOf(ws[e].row)
               \/ \E m \in 1..(e - 1) : ws[m].item = j
    <3>1. CASE j = w.item
      <4>1. 1 \in 1..(e - 1) /\ ws[1].item = j
        BY <1>2, <2>1, <3>1
      <4> QED
        BY <4>1
    <3>2. CASE j # w.item
      <4>1. j \in DOMAIN s /\ s[j] = r[j]
        BY <1>4, <3>2 DEF WrittenTo
      <4>2. CASE \E m \in 1..(k - 1) : b[m].item = j
        <5>1. PICK c \in 1..(k - 1) : b[c].item = j
          BY <4>2
        <5>2. c + 1 \in 1..(e - 1) /\ ws[c + 1] = b[c]
          BY <2>4
        <5> QED
          BY <5>1, <5>2
      <4> QED
        BY <2>2, <2>3, <4>1, <4>2
    <3> QED
      BY <3>1, <3>2
  <2> QED
    BY <2>5, <2>6
<1> QED
  BY <1>6, <1>7

LEMMA RowAfterFirst ==
    ASSUME NEW ws \in Seq(Writes), ws # <<>>, NEW r, NEW s, WrittenTo(s, r, Head(ws)), NEW i
    PROVE  RowAfter(Tail(ws), s, i) = RowAfter(ws, r, i)
<1>1. PICK w : w = Head(ws)
  OBVIOUS
<1>2. /\ \A j : j # w.item => /\ j \in DOMAIN s <=> j \in DOMAIN r
                              /\ j \in DOMAIN r => s[j] = r[j]
      /\ w.item \in DOMAIN s <=> w.row # NoRow
      /\ w.item \in DOMAIN s => s[w.item] = w.row
  BY <1>1 DEF WrittenTo
<1> QED
  BY <1>1, <1>2, RowAfterOneMore

LEMMA LeadsRest ==
    ASSUME NEW ws \in Seq(Writes), ws # <<>>, NEW r, NEW s, WrittenTo(s, r, Head(ws)),
           NEW goal, Leads(ws, r, goal)
    PROVE  Leads(Tail(ws), s, goal) /\ IsFree(Head(ws), r)
<1>1. Clear(ws, r) /\ \A i \in Items : RowAfter(ws, r, i) = RowOf(goal, i)
  BY DEF Leads
<1>2. Clear(Tail(ws), s) /\ IsFree(Head(ws), r)
  BY <1>1, ClearRest
<1>3. \A i \in Items : RowAfter(Tail(ws), s, i) = RowAfter(ws, r, i)
  BY RowAfterFirst
<1> QED
  BY <1>1, <1>2, <1>3 DEF Leads

LEMMA LeadsFirst ==
    ASSUME NEW w \in Writes, NEW b \in Seq(Writes), NEW r, NEW s, WrittenTo(s, r, w),
           IsFree(w, r), NEW goal, Leads(b, s, goal)
    PROVE  <<w>> \o b \in Seq(Writes) /\ Leads(<<w>> \o b, r, goal)
<1>1. PICK ws \in Seq(Writes) : ws = <<w>> \o b /\ ws # <<>> /\ Head(ws) = w /\ Tail(ws) = b
  <2>1. <<w>> \o b \in Seq(Writes) /\ Len(<<w>> \o b) = 1 + Len(b) /\ Len(b) \in Nat
    OBVIOUS
  <2>2. <<w>> \o b # <<>>
    BY <2>1
  <2>3. Head(<<w>> \o b) = w
    OBVIOUS
  <2>4. Tail(<<w>> \o b) = b
    OBVIOUS
  <2> QED
    BY <2>1, <2>2, <2>3, <2>4
<1>2. WrittenTo(s, r, Head(ws)) /\ IsFree(Head(ws), r)
  BY <1>1
<1>3. Clear(Tail(ws), s) /\ \A i \in Items : RowAfter(Tail(ws), s, i) = RowOf(goal, i)
  BY <1>1 DEF Leads
<1>4. Clear(ws, r)
  BY <1>1, <1>2, <1>3, ClearFirst
<1>5. \A i : RowAfter(Tail(ws), s, i) = RowAfter(ws, r, i)
  <2>1. ws # <<>> /\ WrittenTo(s, r, Head(ws))
    BY <1>1, <1>2
  <2> QED
    BY <2>1, RowAfterFirst
<1>6. Leads(ws, r, goal)
  BY <1>3, <1>4, <1>5 DEF Leads
<1> QED
  BY <1>1, <1>6

(* The lists that the statements are made from.                            *)
LEMMA LinesWithout ==
    ASSUME NEW t, Table(t), NEW g \in Groups, NEW L \in Seq(Entries),
           Reads(L, <<>>, FetchGroup(t, g), t), NEW i,
           NEW s, \A j \in Siblings(t, g) \ {i} : j \in DOMAIN s /\ s[j] = t[j]
    PROVE  Lines(Without(L, i), FetchOthers(t, g, i), Siblings(t, g) \ {i}, g, s)
<1>1. PICK T : T = Siblings(t, g) \ {i}
  OBVIOUS
<1>2. PICK q, W : q = FetchOthers(t, g, i) /\ W = Without(L, i)
  OBVIOUS
<1>3. PICK n : n = Cardinality(T)
  OBVIOUS
<1>4. /\ Len(W) = n /\ Lists(q, T, n)
      /\ \A k \in 1..n : W[k] = [item |-> q[k], position |-> t[q[k]].position]
  <2>1. /\ Len(Without(L, i)) = Cardinality(Siblings(t, g) \ {i})
        /\ Lists(FetchOthers(t, g, i), Siblings(t, g) \ {i}, Cardinality(Siblings(t, g) \ {i}))
        /\ Reads(Without(L, i), <<>>, FetchOthers(t, g, i), t)
    BY WithoutReads
  <2>2. Len(W) = n /\ Lists(q, T, n) /\ Reads(W, <<>>, q, t)
    BY <1>1, <1>2, <1>3, <2>1
  <2>3. \A k \in DOMAIN W : W[k] = [item |-> q[k], position |-> t[q[k]].position]
    BY <2>2 DEF Reads
  <2>4. W \in Seq(Entries)
    BY <1>2, WithoutEntries
  <2>5. DOMAIN W = 1..n
    BY <2>2, <2>4
  <2> QED
    BY <2>2, <2>3, <2>5
<1>5. NamedOnce(L) /\ Names(L) = Siblings(t, g)
  BY ReadsGroup
<1>6. W \in Seq(Entries) /\ NamedOnce(W) /\ Names(W) = T
  BY <1>1, <1>2, <1>5, WithoutNames
<1>7. DOMAIN W = 1..n /\ q \in [1..n -> T]
  BY <1>4, <1>6 DEF Lists
<1>8. ASSUME NEW k \in 1..n
      PROVE  q[k] = W[k].item /\ s[q[k]] = [group |-> g, position |-> W[k].position]
  <2>1. W[k].item = q[k] /\ W[k].position = t[q[k]].position
    BY <1>4
  <2>2. PICK j : j = q[k] /\ j \in T
    BY <1>7
  <2>3. j \in DOMAIN t /\ t[j].group = g /\ s[j] = t[j]
    BY <1>1, <2>2 DEF Siblings
  <2>4. t[j] = [group |-> g, position |-> t[j].position]
    BY <2>3, TableType
  <2> QED
    BY <2>1, <2>2, <2>3, <2>4
<1>9. T \subseteq DOMAIN s
  BY <1>1
<1>10. Lines(W, q, T, g, s)
  BY <1>4, <1>6, <1>7, <1>8, <1>9 DEF Lines
<1> QED
  BY <1>1, <1>2, <1>10

LEMMA LinesInsert ==
    ASSUME NEW items, NEW q, NEW T, NEW g, NEW t, Lines(items, q, T, g, t),
           NEW e \in Entries, e.item \notin T, e.item \in DOMAIN t,
           t[e.item] = [group |-> g, position |-> e.position], NEW x \in 1..(Len(items) + 1)
    PROVE  Lines(InsertItem(items, x, e), InsertItem(q, x, e.item), T \cup {e.item}, g, t)
<1>1. /\ items \in Seq(Entries) /\ NamedOnce(items) /\ Names(items) = T
      /\ Lists(q, T, Len(items)) /\ T \subseteq DOMAIN t
      /\ \A k \in DOMAIN items :
            q[k] = items[k].item /\ t[q[k]] = [group |-> g, position |-> items[k].position]
  BY DEF Lines
<1>2. PICK n \in Nat : n = Len(items) /\ DOMAIN items = 1..n
  BY <1>1
<1>3. Len(q) = n
  <2>1. q \in [1..n -> T]
    BY <1>1, <1>2 DEF Lists
  <2> QED
    BY <2>1
<1>4. PICK d, c : d = InsertItem(items, x, e) /\ c = InsertItem(q, x, e.item)
  OBVIOUS
<1>5. /\ d \in Seq(Entries) /\ Len(d) = n + 1
      /\ NamedOnce(d) /\ Names(d) = T \cup {e.item}
  <2>1. LET y == InsertItem(items, x, e)
           IN  /\ y \in Seq(Entries) /\ Len(y) = Len(items) + 1
               /\ NamedOnce(y) /\ Names(y) = Names(items) \cup {e.item}
               /\ x \in DOMAIN y /\ y[x] = e
               /\ \A m \in DOMAIN y : y[m] = e \/ \E j \in DOMAIN items : y[m] = items[j]
    BY <1>1, InsertItemNames
  <2> QED
    BY <1>1, <1>2, <1>4, <2>1
<1>6. Lists(c, T \cup {e.item}, n + 1)
  <2>1. x \in 1..(n + 1) /\ Lists(q, T, n)
    BY <1>1, <1>2
  <2> QED
    BY <1>4, <2>1, InsertItemLists
<1>7. ASSUME NEW m \in 1..(n + 1)
      PROVE  /\ m < x => d[m] = items[m] /\ c[m] = q[m] /\ m \in 1..n
             /\ m = x => d[m] = e /\ c[m] = e.item
             /\ m > x => d[m] = items[m - 1] /\ c[m] = q[m - 1] /\ m - 1 \in 1..n
  <2>1. d = [k \in 1..(n + 1) |-> IF k < x THEN items[k] ELSE IF k = x THEN e ELSE items[k - 1]]
    BY <1>2, <1>4 DEF InsertItem
  <2>2. c = [k \in 1..(n + 1) |-> IF k < x THEN q[k] ELSE IF k = x THEN e.item ELSE q[k - 1]]
    BY <1>3, <1>4 DEF InsertItem
  <2>3. x \in 1..(n + 1)
    BY <1>2
  <2> QED
    BY <2>1, <2>2, <2>3
<1>8. ASSUME NEW m \in 1..(n + 1)
      PROVE  c[m] = d[m].item /\ t[c[m]] = [group |-> g, position |-> d[m].position]
  <2>1. CASE m < x
    BY <1>1, <1>2, <1>7, <2>1
  <2>2. CASE m = x
    BY <1>7, <2>2
  <2>3. CASE m > x
    BY <1>1, <1>2, <1>7, <2>3
  <2>4. x \in Int
    OBVIOUS
  <2> QED
    BY <2>1, <2>2, <2>3, <2>4
<1>9. DOMAIN d = 1..(n + 1)
  BY <1>5
<1>10. Lines(d, c, T \cup {e.item}, g, t)
  BY <1>1, <1>5, <1>6, <1>8, <1>9 DEF Lines
<1> QED
  BY <1>4, <1>10

LEMMA AppendInserts ==
    ASSUME NEW items \in Seq(Entries), NEW e
    PROVE  Append(items, e) = InsertItem(items, Len(items) + 1, e)
<1>1. PICK n \in Nat : n = Len(items) /\ items = [k \in 1..n |-> items[k]]
  OBVIOUS
<1>2. Append(items, e) = [k \in 1..(n + 1) |-> IF k = n + 1 THEN e ELSE items[k]]
  BY <1>1
<1>3. InsertItem(items, n + 1, e) =
        [k \in 1..(n + 1) |-> IF k < n + 1 THEN items[k] ELSE IF k = n + 1 THEN e ELSE items[k - 1]]
  BY <1>1 DEF InsertItem
<1>4. PICK f : f = Append(items, e)
  OBVIOUS
<1>5. PICK h : h = InsertItem(items, n + 1, e)
  OBVIOUS
<1>6. f = [k \in 1..(n + 1) |-> f[k]] /\ h = [k \in 1..(n + 1) |-> h[k]]
  BY <1>2, <1>3, <1>4, <1>5
<1>7. \A k \in 1..(n + 1) : f[k] = h[k]
  BY <1>2, <1>3, <1>4, <1>5
<1>8. f = h
  BY <1>6, <1>7
<1> QED
  BY <1>1, <1>4, <1>5, <1>8

(* A renumbering of a whole group alone.                                   *)
LEMMA RenumberingLeads ==
    ASSUME NEW items, NEW q, NEW g \in Groups, NEW t, Lines(items, q, Siblings(t, g), g, t)
    PROVE  /\ Renumbering(items, g) \in Seq(Writes)
           /\ Leads(Renumbering(items, g), t, PersistPositions(t, q))
<1>1. PICK A : A = Renumbering(items, g)
  OBVIOUS
<1>2. A \in Seq(Writes) /\ Clear(A, t)
  BY <1>1, RenumberingRenumbers, RenumberingClear DEF Lines
<1>3. <<>> \in Seq(Writes) /\ \A j \in Items : RowAfter(<<>>, t, j) = RowOf(t, j)
  <2>1. \A j : RowAfter(<<>>, t, j) = IF j \in DOMAIN t THEN t[j] ELSE NoRow
    BY DEF RowAfter, IsLast
  <2> QED
    BY <2>1 DEF RowOf
<1>4. PICK a \in Seq(Writes) : a = <<>>
  BY <1>3
<1>5. \A j \in Items : RowAfter(a, t, j) = RowOf(t, j)
  BY <1>3, <1>4
<1>6. \A j \in Items :
        RowAfter(a \o Renumbering(items, g), t, j) = RowOf(PersistPositions(t, q), j)
  <2>1. PICK T : T = Siblings(t, g) /\ Lines(items, q, T, g, t)
    OBVIOUS
  <2> QED
    BY <1>5, <2>1, RenumberingPersists
<1>7. <<>> \o A = A
  BY <1>2
<1> QED
  BY <1>1, <1>2, <1>4, <1>6, <1>7 DEF Leads

-----------------------------------------------------------------------------
(* What each operation's statements lead to.                               *)

Known(L, g, t) == L \in Seq(Entries) /\ Reads(L, <<>>, FetchGroup(t, g), t)

LEMMA OthersLines ==
    ASSUME NEW t, Table(t), NEW g \in Groups, NEW L, Known(L, g, t), NEW i,
           NEW s, \A j \in Siblings(t, g) \ {i} : j \in DOMAIN s /\ s[j] = t[j]
    PROVE  Lines(Without(L, i), FetchOthers(t, g, i), Siblings(t, g) \ {i}, g, s)
BY LinesWithout DEF Known

LEMMA LinesLength ==
    ASSUME NEW items, NEW q, NEW T, NEW g, NEW t, Lines(items, q, T, g, t)
    PROVE  Len(items) \in Nat /\ Len(q) = Len(items) /\ items \in Seq(Entries)
<1>1. items \in Seq(Entries) /\ Lists(q, T, Len(items))
  BY DEF Lines
<1>2. PICK n \in Nat : n = Len(items)
  BY <1>1
<1>3. q \in [1..n -> T]
  BY <1>1, <1>2 DEF Lists
<1> QED
  BY <1>1, <1>2, <1>3

(* A move inside the group.                                                *)
LEMMA PlacementLeads ==
    ASSUME NEW t, Table(t), NEW g \in Groups, NEW i \in Siblings(t, g), NEW L, Known(L, g, t),
           NEW desired \in Int, NEW others, others = Without(L, i),
           NEW self, self = [item |-> i, position |-> t[i].position],
           NEW W, W = Renumbering(InsertItem(others, Clamp(desired, Len(others) + 1), self), g)
    PROVE  W \in Seq(Writes) /\ Leads(W, t, MoveWithin(t, i, desired))
<1>1. PICK T : T = Siblings(t, g) \ {i}
  OBVIOUS
<1>2. PICK q : q = FetchOthers(t, g, i)
  OBVIOUS
<1>3. \A j \in Siblings(t, g) \ {i} : j \in DOMAIN t /\ t[j] = t[j]
  BY DEF Siblings
<1>4. Lines(others, q, T, g, t)
  BY <1>1, <1>2, <1>3, OthersLines
<1>5. PICK n \in Nat : n = Len(others) /\ n = Len(q)
  BY <1>4, LinesLength
<1>6. PICK x \in 1..(n + 1) : x = Clamp(desired, n + 1)
  BY DEF Clamp
<1>7. i \in DOMAIN t /\ i \in Items /\ t[i].group = g
  BY TableType DEF Siblings
<1>8. /\ t[i] = [group |-> g, position |-> t[i].position]
      /\ t[i].position \in Nat
  BY <1>7, TableType
<1>9. self \in Entries /\ self.item = i /\ self.position = t[i].position
  BY <1>7, <1>8 DEF Entries
<1>10. self.item \notin T /\ self.item \in DOMAIN t
       /\ t[self.item] = [group |-> g, position |-> self.position]
  BY <1>1, <1>7, <1>8, <1>9
<1>11. PICK items, p : items = InsertItem(others, x, self) /\ p = InsertItem(q, x, i)
  OBVIOUS
<1>12. Lines(items, p, Siblings(t, g), g, t)
  <2>1. x \in 1..(Len(others) + 1)
    BY <1>5
  <2>2. Lines(InsertItem(others, x, self), InsertItem(q, x, self.item), T \cup {self.item}, g, t)
    BY <1>4, <1>9, <1>10, <2>1, LinesInsert
  <2>3. T \cup {self.item} = Siblings(t, g)
    BY <1>1, <1>9
  <2> QED
    BY <1>9, <1>11, <2>2, <2>3
<1>13. W = Renumbering(items, g)
  BY <1>5, <1>6, <1>11
<1>14. MoveWithin(t, i, desired) = PersistPositions(t, p)
  BY <1>2, <1>5, <1>6, <1>7, <1>11 DEF MoveWithin
<1> QED
  BY <1>12, <1>13, <1>14, RenumberingLeads

(* A removal.                                                              *)
LEMMA RemovalLeads ==
    ASSUME NEW t, Table(t), NEW g \in Groups, NEW i \in Siblings(t, g), NEW L, Known(L, g, t),
           NEW W, W = <<[item |-> i, row |-> NoRow]>> \o Renumbering(Without(L, i), g)
    PROVE  W \in Seq(Writes) /\ Leads(W, t, DeleteRow(t, i))
<1>1. i \in DOMAIN t /\ i \in Items /\ t[i].group = g
  BY TableType DEF Siblings
<1>2. PICK s : s = [j \in DOMAIN t \ {i} |-> t[j]]
  OBVIOUS
<1>3. PICK q, items : q = FetchOthers(t, g, i) /\ items = Without(L, i)
  OBVIOUS
<1>4. Siblings(s, g) = Siblings(t, g) \ {i}
  BY <1>2 DEF Siblings
<1>5. Lines(items, q, Siblings(s, g), g, s)
  <2>1. \A j \in Siblings(t, g) \ {i} : j \in DOMAIN s /\ s[j] = t[j]
    BY <1>2 DEF Siblings
  <2> QED
    BY <1>3, <1>4, <2>1, OthersLines
<1>6. DeleteRow(t, i) = PersistPositions(s, q)
  BY <1>1, <1>2, <1>3 DEF DeleteRow
<1>7. PICK A : A = Renumbering(items, g)
  OBVIOUS
<1>8. A \in Seq(Writes) /\ Leads(A, s, DeleteRow(t, i))
  BY <1>5, <1>6, <1>7, RenumberingLeads
<1>9. PICK w \in Writes : w = [item |-> i, row |-> NoRow] /\ w.item = i /\ w.row = NoRow
  <2>1. PICK w : w = [item |-> i, row |-> NoRow]
    OBVIOUS
  <2>2. w \in Writes /\ w.item = i /\ w.row = NoRow
    BY <1>1, <2>1 DEF Writes
  <2> QED
    BY <2>1, <2>2
<1>10. WrittenTo(s, t, w) /\ IsFree(w, t)
  BY <1>2, <1>9 DEF WrittenTo, IsFree
<1>11. <<w>> \o A \in Seq(Writes) /\ Leads(<<w>> \o A, t, DeleteRow(t, i))
  BY <1>8, <1>10, LeadsFirst
<1> QED
  BY <1>3, <1>7, <1>9, <1>11

(* A creation.                                                             *)
LEMMA CreationLeads ==
    ASSUME NEW t, Table(t), NEW g \in Groups, NEW i \in Items, i \notin DOMAIN t,
           EndIsFree(t, g), NEW W, W = <<Write(i, g, EndOf(t, g))>>
    PROVE  W \in Seq(Writes) /\ Leads(W, t, CreateRow(t, i, g))
<1>1. PICK n \in Nat \ {0} : n = EndOf(t, g)
  <2>1. Cardinality(Siblings(t, g)) \in Nat
    BY TableType, SiblingsFinite
  <2> QED
    BY <2>1 DEF EndOf
<1>2. PICK w \in Writes : w = Write(i, g, n) /\ w.item = i /\ w.row = [group |-> g, position |-> n]
  BY WriteType
<1>3. w.row \in Rows /\ w.row # NoRow
  <2>1. w.row \in Rows
    BY <1>2 DEF Rows
  <2> QED
    BY <2>1, RowType
<1>4. PICK s : s = CreateRow(t, i, g)
  OBVIOUS
<1>5. s = [j \in DOMAIN t \cup {i} |-> IF j = i THEN w.row ELSE t[j]]
  BY <1>1, <1>2, <1>4 DEF CreateRow
<1>6. WrittenTo(s, t, w)
  BY <1>2, <1>3, <1>5 DEF WrittenTo
<1>7. IsFree(w, t)
  <2>1. SUFFICES ASSUME NEW j \in DOMAIN t PROVE KeyOf(t[j]) # KeyOf(w.row)
    BY DEF IsFree
  <2>2. w.row.group = g /\ w.row.position = n
    BY <1>2
  <2>3. t[j].group = g => t[j].position # n
    BY <1>1 DEF EndIsFree, Siblings
  <2> QED
    BY <2>2, <2>3 DEF KeyOf
<1>8. PICK b \in Seq(Writes) : b = <<>>
  <2>1. <<>> \in Seq(Writes)
    OBVIOUS
  <2> QED
    BY <2>1
<1>9. Leads(b, s, s)
  <2>1. DOMAIN b = {}
    BY <1>8
  <2>2. \A j : RowAfter(b, s, j) = RowOf(s, j)
    BY <2>1 DEF RowAfter, RowOf, IsLast
  <2>3. Clear(b, s)
    BY <2>1 DEF Clear
  <2> QED
    BY <2>2, <2>3 DEF Leads
<1>10. <<w>> \o b \in Seq(Writes) /\ Leads(<<w>> \o b, t, s)
  BY <1>6, <1>7, <1>9, LeadsFirst
<1>11. <<w>> \o b = <<w>>
  BY <1>8
<1> QED
  BY <1>1, <1>2, <1>4, <1>10, <1>11

(* A move to another group.                                                *)
LEMMA RelocationLeads ==
    ASSUME NEW t, Table(t), NEW g \in Groups, NEW i \in DOMAIN t, NEW old, old = t[i].group,
           old # g, EndIsFree(t, g), NEW L, Known(L, old, t), NEW R, Known(R, g, t),
           NEW self, self = [item |-> i, position |-> EndOf(t, g)],
           NEW W, W = <<Write(i, g, EndOf(t, g))>> \o Renumbering(Without(L, i), old)
                        \o Renumbering(Append(Without(R, i), self), g)
    PROVE  W \in Seq(Writes) /\ Leads(W, t, MoveAcross(t, i, g))
<1>1. PICK n \in Nat \ {0} : n = EndOf(t, g)
  <2>1. Cardinality(Siblings(t, g)) \in Nat
    BY TableType, SiblingsFinite
  <2> QED
    BY <2>1 DEF EndOf
<1>2. i \in Items /\ old \in Groups
  BY TableType
<1>3. PICK w \in Writes : w = Write(i, g, n) /\ w.item = i /\ w.row = [group |-> g, position |-> n]
  BY <1>2, WriteType
<1>4. w.row \in Rows /\ w.row # NoRow
  <2>1. w.row \in Rows
    BY <1>3 DEF Rows
  <2> QED
    BY <2>1, RowType
<1>5. PICK s : s = [t EXCEPT ![i] = w.row]
  OBVIOUS
<1>6. /\ DOMAIN s = DOMAIN t /\ s[i] = w.row /\ s[i].group = g /\ s[i].position = n
      /\ \A j \in DOMAIN t : j # i => s[j] = t[j]
  <2>1. t = [j \in DOMAIN t |-> t[j]]
    BY TableType
  <2>2. w.row.group = g /\ w.row.position = n
    BY <1>3
  <2> QED
    BY <1>5, <2>1, <2>2
<1>7. Siblings(s, old) = Siblings(t, old) \ {i} /\ Siblings(s, g) = Siblings(t, g) \cup {i}
      /\ i \notin Siblings(t, g)
  BY <1>6 DEF Siblings
<1>8. WrittenTo(s, t, w)
  BY <1>3, <1>4, <1>6 DEF WrittenTo
<1>9. IsFree(w, t)
  <2>1. SUFFICES ASSUME NEW j \in DOMAIN t PROVE KeyOf(t[j]) # KeyOf(w.row)
    BY DEF IsFree
  <2>2. w.row.group = g /\ w.row.position = n
    BY <1>3
  <2>3. t[j].group = g => t[j].position # n
    BY <1>1 DEF EndIsFree, Siblings
  <2> QED
    BY <2>2, <2>3 DEF KeyOf
<1>10. PICK left : left = Without(L, i)
  OBVIOUS
<1>11. PICK q : q = FetchOthers(t, old, i)
  OBVIOUS
<1>12. Lines(left, q, Siblings(s, old), old, s)
  <2>1. \A j \in Siblings(t, old) \ {i} : j \in DOMAIN s /\ s[j] = t[j]
    BY <1>6 DEF Siblings
  <2> QED
    BY <1>2, <1>7, <1>10, <1>11, <2>1, OthersLines
<1>13. PICK A : A = Renumbering(left, old)
  OBVIOUS
<1>14. PICK p : p = PersistPositions(s, q)
  OBVIOUS
<1>15. A \in Seq(Writes) /\ Leads(A, s, p) /\ RenumbersList(A, left, old)
  <2>1. left \in Seq(Entries)
    BY <1>12, LinesLength
  <2> QED
    BY <1>2, <1>12, <1>13, <1>14, <2>1, RenumberingLeads, RenumberingRenumbers
<1>16. PICK rest : rest = Without(R, i)
  OBVIOUS
<1>17. PICK f : f = FetchGroup(t, g)
  OBVIOUS
<1>18. Lines(rest, f, Siblings(t, g), g, s)
  <2>1. \A j \in Siblings(t, g) \ {i} : j \in DOMAIN s /\ s[j] = t[j]
    BY <1>6 DEF Siblings
  <2>2. Siblings(t, g) \ {i} = Siblings(t, g)
    BY <1>7
  <2>3. FetchOthers(t, g, i) = f
    BY <1>17, <2>2 DEF FetchOthers, FetchGroup
  <2>4. Lines(Without(R, i), FetchOthers(t, g, i), Siblings(t, g) \ {i}, g, s)
    BY <2>1, OthersLines
  <2> QED
    BY <1>16, <2>2, <2>3, <2>4
<1>19. PICK m \in Nat : m = Len(rest) /\ m = Len(f) /\ rest \in Seq(Entries)
  BY <1>18, LinesLength
<1>20. self \in Entries /\ self.item = i /\ self.position = n
  BY <1>1, <1>2 DEF Entries
<1>21. PICK items, h : items = Append(rest, self) /\ h = InsertItem(f, m + 1, i)
  OBVIOUS
<1>22. Lines(items, h, Siblings(s, g), g, s)
  <2>1. m + 1 \in 1..(Len(rest) + 1)
    BY <1>19
  <2>2. self.item \notin Siblings(t, g) /\ self.item \in DOMAIN s
        /\ s[self.item] = [group |-> g, position |-> self.position]
    BY <1>3, <1>6, <1>7, <1>20
  <2>3. Lines(InsertItem(rest, m + 1, self), InsertItem(f, m + 1, self.item),
              Siblings(t, g) \cup {self.item}, g, s)
    BY <1>18, <1>20, <2>1, <2>2, LinesInsert
  <2>4. items = InsertItem(rest, m + 1, self)
    BY <1>19, <1>21, AppendInserts
  <2> QED
    BY <1>7, <1>20, <1>21, <2>3, <2>4
<1>23. PICK B : B = Renumbering(items, g)
  OBVIOUS
<1>24. B \in Seq(Writes) /\ Clear(B, s) /\ RenumbersList(B, items, g)
  <2>1. items \in Seq(Entries)
    BY <1>22, LinesLength
  <2> QED
    BY <1>22, <1>23, <2>1, RenumberingClear, RenumberingRenumbers
<1>25. Clear(A \o B, s)
  <2>1. \A k \in DOMAIN A : A[k].row.group = old
    BY <1>15 DEF RenumbersList
  <2>2. \A k \in DOMAIN B : B[k].row.group = g
    BY <1>24 DEF RenumbersList
  <2>3. \A k \in DOMAIN A, c \in DOMAIN B :
            A[k].row # NoRow /\ B[c].row # NoRow => KeyOf(A[k].row) # KeyOf(B[c].row)
    BY <2>1, <2>2 DEF KeyOf
  <2>4. Clear(A, s)
    BY <1>15 DEF Leads
  <2> QED
    BY <1>15, <1>24, <2>3, <2>4, ClearApart
<1>26. Lines(items, h, Siblings(s, g), g, p)
  <2>1. /\ DOMAIN p = DOMAIN s
        /\ \A j \in DOMAIN s : j \notin Siblings(s, old) => p[j] = s[j]
    <3>1. PICK T, x : T = Siblings(s, old) /\ x = Len(left)
      OBVIOUS
    <3>2. Lists(q, T, x) /\ T \subseteq DOMAIN s
      BY <1>12, <3>1 DEF Lines
    <3>3. LET y == PersistPositions(s, q)
          IN  /\ DOMAIN y = DOMAIN s
              /\ \A j \in DOMAIN s : j \notin T => y[j] = s[j]
              /\ \A j \in T : /\ y[j] = [group |-> s[j].group, position |-> y[j].position]
                              /\ y[j].group = s[j].group
                              /\ y[j].position \in 1..x
                              /\ q[y[j].position] = j
      BY <3>2, PersistPositionsEffect
    <3> QED
      BY <1>14, <3>1, <3>3
  <2>2. \A j \in Siblings(s, g) : j \in DOMAIN p /\ p[j] = s[j]
    BY <2>1 DEF Siblings
  <2>3. /\ items \in Seq(Entries) /\ NamedOnce(items) /\ Names(items) = Siblings(s, g)
        /\ Lists(h, Siblings(s, g), Len(items))
        /\ \A k \in DOMAIN items :
              h[k] = items[k].item /\ s[h[k]] = [group |-> g, position |-> items[k].position]
    BY <1>22 DEF Lines
  <2>4. \A k \in DOMAIN items : h[k] \in Siblings(s, g)
    BY <2>3 DEF Names
  <2>5. \A k \in DOMAIN items : p[h[k]] = [group |-> g, position |-> items[k].position]
    BY <2>2, <2>3, <2>4
  <2>6. Siblings(s, g) \subseteq DOMAIN p
    BY <2>2
  <2> QED
    BY <2>3, <2>5, <2>6 DEF Lines
<1>27. PICK goal : goal = MoveAcross(t, i, g)
  OBVIOUS
<1>28. goal = PersistPositions(p, h)
  BY <1>1, <1>3, <1>5, <1>11, <1>14, <1>17, <1>19, <1>21, <1>27 DEF MoveAcross
<1>29. \A j \in Items : RowAfter(A \o B, s, j) = RowOf(goal, j)
  <2>1. \A j \in Items : RowAfter(A, s, j) = RowOf(p, j)
    BY <1>15 DEF Leads
  <2>2. \A j \in Items :
            RowAfter(A \o Renumbering(items, g), s, j) = RowOf(PersistPositions(p, h), j)
    BY <1>15, <1>26, <2>1, RenumberingPersists
  <2> QED
    BY <1>23, <1>28, <2>2
<1>30. PICK C \in Seq(Writes) : C = A \o B
  <2>1. A \o B \in Seq(Writes)
    BY <1>15, <1>24
  <2> QED
    BY <2>1
<1>31. Leads(C, s, goal)
  BY <1>25, <1>29, <1>30 DEF Leads
<1>32. <<w>> \o C \in Seq(Writes) /\ Leads(<<w>> \o C, t, goal)
  BY <1>8, <1>9, <1>30, <1>31, LeadsFirst
<1>33. W = <<w>> \o C
  <2>1. <<w>> \in Seq(Writes)
    OBVIOUS
  <2>2. (<<w>> \o A) \o B = <<w>> \o (A \o B)
    BY <1>15, <1>24, <2>1, ConcatAssociative
  <2>3. W = (<<w>> \o A) \o B
    BY <1>1, <1>3, <1>10, <1>13, <1>16, <1>21, <1>23
  <2> QED
    BY <1>30, <2>2, <2>3
<1> QED
  BY <1>27, <1>32, <1>33

-----------------------------------------------------------------------------
(* The operators of OrderAtomic's copy of OrderRows are those of OrderTx.  *)

LEMMA SameSortBy == \A S, R : Atomic!SortBy(S, R) = SortBy(S, R)
BY DEF Atomic!SortBy, SortBy, Atomic!Preceding, Preceding, Atomic!Cardinality, Cardinality

LEMMA SameFetch ==
    \A r, g, i : /\ Atomic!FetchOthers(r, g, i) = FetchOthers(r, g, i)
                 /\ Atomic!FetchGroup(r, g) = FetchGroup(r, g)
BY SameSortBy DEF Atomic!FetchOthers, FetchOthers, Atomic!FetchGroup, FetchGroup,
      Atomic!OrderByPosition, OrderByPosition, Atomic!ByPosition, ByPosition,
      Atomic!Siblings, Siblings

LEMMA SamePersist ==
    /\ \A s, k, i : Atomic!InsertItem(s, k, i) = InsertItem(s, k, i)
    /\ \A r, s : Atomic!PersistPositions(r, s) = PersistPositions(r, s)
BY DEF Atomic!InsertItem, InsertItem, Atomic!PersistPositions, PersistPositions,
      Atomic!IndexIn, IndexIn

LEMMA SameMoveWithin == \A r, i, x : Atomic!MoveWithin(r, i, x) = MoveWithin(r, i, x)
BY SameFetch, SamePersist DEF Atomic!MoveWithin, MoveWithin, Atomic!Clamp, Clamp

LEMMA SameEnd ==
    \A r, g : /\ Atomic!EndOf(r, g) = EndOf(r, g)
              /\ (Atomic!EndIsFree(r, g) <=> EndIsFree(r, g))
BY DEF Atomic!EndOf, EndOf, Atomic!EndIsFree, EndIsFree, Atomic!Siblings, Siblings,
      Atomic!Cardinality, Cardinality

LEMMA SameMoveAcross == \A r, i, g : Atomic!MoveAcross(r, i, g) = MoveAcross(r, i, g)
BY SameFetch, SamePersist, SameEnd DEF Atomic!MoveAcross, MoveAcross

LEMMA SameCreateRow == \A r, i, g : Atomic!CreateRow(r, i, g) = CreateRow(r, i, g)
BY SameEnd DEF Atomic!CreateRow, CreateRow

LEMMA SameSynced == \A r, i, g : Atomic!Synced(r, i, g) = Synced(r, i, g)
BY SameMoveWithin, SameMoveAcross, SameCreateRow, SameEnd DEF Atomic!Synced, Synced

LEMMA SameDeleteRow == \A r, i : Atomic!DeleteRow(r, i) = DeleteRow(r, i)
BY SameFetch, SamePersist DEF Atomic!DeleteRow, DeleteRow

(* A schedule that is synced has a row of the group.                       *)
LEMMA SyncedGroup ==
    ASSUME NEW t, NEW i, NEW g, i \in DOMAIN t => t[i].group = g \/ EndIsFree(t, g)
    PROVE  i \in DOMAIN Synced(t, i, g) /\ Synced(t, i, g)[i].group = g
<1>1. \A r, s : i \in DOMAIN r =>
         /\ i \in DOMAIN PersistPositions(r, s)
         /\ PersistPositions(r, s)[i].group = r[i].group
  BY DEF PersistPositions
<1>2. CASE i \notin DOMAIN t
  BY <1>2 DEF Synced, CreateRow
<1>3. CASE i \in DOMAIN t /\ t[i].group = g
  BY <1>1, <1>3 DEF Synced, MoveWithin
<1>4. CASE i \in DOMAIN t /\ t[i].group # g
  <2>1. PICK moved : moved = [t EXCEPT ![i] = [group |-> g, position |-> EndOf(t, g)]]
    OBVIOUS
  <2>2. i \in DOMAIN moved /\ moved[i].group = g
    BY <1>4, <2>1
  <2>3. \A s : /\ i \in DOMAIN PersistPositions(moved, s)
               /\ PersistPositions(moved, s)[i].group = g
    BY <1>1, <2>2
  <2>4. \E s, q : Synced(t, i, g) = PersistPositions(PersistPositions(moved, s), q)
    BY <1>4, <2>1 DEF Synced, MoveAcross
  <2>5. PICK s, q : Synced(t, i, g) = PersistPositions(PersistPositions(moved, s), q)
    BY <2>4
  <2> QED
    BY <1>1, <2>3, <2>5
<1> QED
  BY <1>2, <1>3, <1>4

(* What the operation of p does to the committed table in one step.        *)
Final(p) ==
    IF op[p].kind = "remove" THEN DeleteRow(db, Item(p))
    ELSE IF Blocked(p) THEN db
    ELSE IF op[p].kind = "sync" THEN Synced(db, Item(p), op[p].group)
    ELSE MoveWithin(Synced(db, Item(p), op[p].group), Item(p), op[p].position)

LEMMA ResultIsFinal ==
    ASSUME TypeOK, NEW p \in Procs
    PROVE  Atomic!Result(op[p]) = Final(p)
<1>1. op[p].kind \in {"sync", "place", "remove"}
  BY OpType
<1>2. PICK i : i = Item(p)
  OBVIOUS
<1>3. PICK g : g = op[p].group
  OBVIOUS
<1>4. Atomic!SyncResult(i, g) = IF Blocked(p) THEN db ELSE Synced(db, i, g)
  <2>1. Atomic!SyncResult(i, g) =
           IF i \notin DOMAIN db /\ ~EndIsFree(db, g) THEN db ELSE Synced(db, i, g)
    BY SameEnd, SameSynced DEF Atomic!SyncResult
  <2>2. CASE i \in DOMAIN db /\ Blocked(p)
    <3>1. Synced(db, i, g) = db
      BY <1>2, <1>3, <2>2 DEF Blocked, Synced
    <3> QED
      BY <2>1, <2>2, <3>1
  <2>3. CASE i \notin DOMAIN db \/ ~Blocked(p)
    BY <1>2, <1>3, <2>1, <2>3 DEF Blocked
  <2> QED
    BY <2>2, <2>3
<1>5. Atomic!PlaceResult(i, g, op[p].position) =
         IF Blocked(p) THEN db ELSE MoveWithin(Synced(db, i, g), i, op[p].position)
  <2>1. PICK synced : synced = Atomic!SyncResult(i, g)
    OBVIOUS
  <2>2. Atomic!PlaceResult(i, g, op[p].position) =
           IF i \in DOMAIN synced /\ synced[i].group = g
           THEN MoveWithin(synced, i, op[p].position) ELSE db
    BY <2>1, SameMoveWithin DEF Atomic!PlaceResult
  <2>3. CASE Blocked(p)
    BY <1>2, <1>3, <1>4, <2>1, <2>2, <2>3 DEF Blocked
  <2>4. CASE ~Blocked(p)
    <3>1. i \in DOMAIN db => db[i].group = g \/ EndIsFree(db, g)
      BY <1>2, <1>3, <2>4 DEF Blocked
    <3>2. i \in DOMAIN Synced(db, i, g) /\ Synced(db, i, g)[i].group = g
      BY <3>1, SyncedGroup
    <3> QED
      BY <1>4, <2>1, <2>2, <2>4, <3>2
  <2> QED
    BY <2>3, <2>4
<1>6. Atomic!DeleteRow(db, i) = DeleteRow(db, i)
  BY SameDeleteRow
<1> QED
  BY <1>1, <1>2, <1>3, <1>4, <1>5, <1>6 DEF Atomic!Result, Final, Item

-----------------------------------------------------------------------------
(* A step of a transaction that runs alone.                                *)

LEMMA AloneTables ==
    ASSUME OrderTxInv, NEW p \in Procs
    PROVE  /\ Table(db) /\ Table(View(p))
           /\ tx[p].work = EmptyTable => View(p) = db
<1>1. /\ TypeOK /\ UniqueKeys(db) /\ UniqueKeys(View(p))
  BY DEF OrderTxInv, Sound
<1>2. Table(db)
  BY <1>1 DEF TypeOK, Table
<1>3. DOMAIN View(p) \in SUBSET Items /\ View(p) \in [DOMAIN View(p) -> Rows]
  BY <1>1, ViewType
<1>4. ASSUME tx[p].work = EmptyTable PROVE View(p) = db
  <2>1. db = [i \in DOMAIN db |-> db[i]] /\ DOMAIN EmptyTable = {}
    BY <1>1 DEF TypeOK, EmptyTable
  <2> QED
    BY <1>4, <2>1 DEF View
<1> QED
  BY <1>1, <1>2, <1>3, <1>4 DEF Table

LEMMA SamePass ==
    ASSUME UNCHANGED <<db, op>>, NEW p, tx'[p].placing = tx[p].placing
    PROVE  /\ Base(p)' = Base(p) /\ Goal(p)' = Goal(p) /\ (Blocked(p)' <=> Blocked(p))
           /\ Item(p)' = Item(p)
BY DEF Base, Goal, Blocked, Item

(* The step either ends with the result of the operation or shows nothing. *)
Refined(p) ==
    /\ op' = op
    /\ \/ db' = db /\ (tx[p].pc = "ended" <=> tx'[p].pc = "ended")
       \/ db' = Final(p) /\ tx[p].pc # "ended" /\ tx'[p].pc = "ended"

LEMMA EndedAlone ==
    ASSUME OrderTxInv, NEW p \in Procs, tx[p].pc # "ended", NEW result, Ended(p, result),
           op' = op, db' = Final(p)
    PROVE  AlonePart(p)' /\ Refined(p)
<1>1. tx'[p].pc = "ended" /\ ~tx'[p].placing
  <2>1. tx'[p] = [Fresh("ended", tx[p].attempt) EXCEPT !.result = result]
    BY OnlyOne DEF OrderTxInv, Ended, Goto
  <2> QED
    BY <2>1 DEF Fresh
<1> QED
  BY <1>1 DEF AlonePart, Refined, Fetches, WritesToGoal

LEMMA FreshAlone ==
    ASSUME OrderTxInv, NEW p \in Procs, tx[p].pc # "ended", schedules = Items,
           NEW pc \in {"start", "schedule", "own"}, NEW attempt, Goto(p, Fresh(pc, attempt)),
           UNCHANGED <<db, schedules, op>>
    PROVE  AlonePart(p)' /\ Refined(p)
<1>1. tx'[p].pc = pc /\ ~tx'[p].placing
  <2>1. tx'[p] = Fresh(pc, attempt)
    BY OnlyOne DEF OrderTxInv, Goto
  <2> QED
    BY <2>1 DEF Fresh
<1> QED
  BY <1>1 DEF AlonePart, Refined, Fetches, WritesToGoal

(* A failed statement of an operation that can only fail.                  *)
LEMMA FailedAlone ==
    ASSUME OrderTxInv, NEW p \in Procs, tx[p].pc # "ended", schedules = Items,
           Blocked(p), op[p].kind # "remove", IntegrityError(p) \/ Ended(p, "died"),
           UNCHANGED <<db, schedules, op>>
    PROVE  AlonePart(p)' /\ Refined(p)
<1>1. Final(p) = db
  BY DEF Final
<1>2. CASE \E result : Ended(p, result)
  BY <1>1, <1>2, EndedAlone
<1>3. CASE \E attempt : Goto(p, Fresh("own", attempt))
  <2>1. PICK attempt : Goto(p, Fresh("own", attempt))
    BY <1>3
  <2>2. "own" \in {"start", "schedule", "own"}
    OBVIOUS
  <2> QED
    BY <2>1, <2>2, FreshAlone
<1> QED
  BY <1>2, <1>3 DEF IntegrityError

LEMMA ReadScheduleAlone ==
    ASSUME OrderTxInv, NEW p \in Procs, AlonePart(p), ReadSchedule(p)
    PROVE  AlonePart(p)' /\ Refined(p)
<1>1. /\ tx[p].pc = "start" /\ UNCHANGED <<db, schedules, op>> /\ schedules = Items
      /\ Item(p) \in Items /\ OrderTxInv
  BY OpType DEF ReadSchedule, AlonePart, OrderTxInv
<1>2. \E pc \in {"start", "schedule", "own"} : \E attempt : Goto(p, Fresh(pc, attempt))
  BY <1>1 DEF ReadSchedule
<1>3. PICK pc \in {"start", "schedule", "own"} : \E attempt : Goto(p, Fresh(pc, attempt))
  BY <1>2
<1>4. PICK attempt : Goto(p, Fresh(pc, attempt))
  BY <1>3
<1> QED
  BY <1>1, <1>4, FreshAlone

LEMMA LockScheduleAlone ==
    ASSUME OrderTxInv, NEW p \in Procs, AlonePart(p), LockSchedule(p)
    PROVE  AlonePart(p)' /\ Refined(p)
<1>1. /\ tx[p].pc = "schedule" /\ UNCHANGED <<db, schedules, op>> /\ schedules = Items
      /\ Item(p) \in Items /\ ~tx[p].placing /\ TypeOK
  BY OpType DEF LockSchedule, AlonePart, OrderTxInv
<1>2. PICK t : t = [tx[p] EXCEPT !.pc = "own", !.held = {ScheduleLock(Item(p))}]
  OBVIOUS
<1>3. Goto(p, t)
  BY <1>1, <1>2 DEF LockSchedule
<1>4. t.pc = "own" /\ ~t.placing
  <2>1. PICK S \in SUBSET Items : tx[p] \in Transactions(S)
    BY <1>1 DEF TypeOK
  <2> QED
    BY <1>1, <1>2, <2>1 DEF Transactions
<1>5. tx'[p] = t
  BY <1>1, <1>3, OnlyOne DEF Goto
<1> QED
  BY <1>1, <1>4, <1>5 DEF AlonePart, Refined, Fetches, WritesToGoal

(* Nothing of a group is read when its fetch is still to start.            *)
LEMMA ReadsNothing ==
    ASSUME NEW t, Table(t), NEW g
    PROVE  Reads(<<>>, FetchGroup(t, g), FetchGroup(t, g), t)
<1>1. PICK q : q = FetchGroup(t, g)
  OBVIOUS
<1>2. PICK n : n = Cardinality(Siblings(t, g))
  OBVIOUS
<1>3. Lists(q, Siblings(t, g), n) /\ n \in Nat
  BY <1>1, <1>2, TableQuery DEF FetchGroup
<1>4. DOMAIN q = 1..n /\ Len(q) = n
  BY <1>3 DEF Lists
<1>5. /\ Len(<<>>) = 0 /\ DOMAIN <<>> = {} /\ 0 + Len(q) = Len(q)
      /\ \A k \in DOMAIN q : 0 + k = k
  BY <1>3, <1>4
<1> QED
  BY <1>1, <1>5 DEF Reads

(* A removal that finds no row has nothing to do.                          *)
LEMMA NothingToRemove ==
    ASSUME OrderTxInv, NEW p \in Procs, AlonePart(p), LockOwn(p),
           op[p].kind = "remove", Item(p) \notin DOMAIN db
    PROVE  AlonePart(p)' /\ Refined(p)
<1>1. /\ UNCHANGED <<db, schedules, op>> /\ tx[p].pc = "own" /\ TypeOK
      /\ FollowsItsCourse(p) /\ ~tx[p].placing /\ schedules = Items
  BY DEF LockOwn, AlonePart, OrderTxInv, Sound
<1>2. PICK S \in SUBSET Items : tx[p] \in Transactions(S)
  BY <1>1 DEF TypeOK
<1>3. PICK groups : groups = GroupsToFetch(p, NoRow)
  OBVIOUS
<1>4. PICK t : t = [tx[p] EXCEPT !.pc = "commit", !.own = NoRow, !.groups = groups,
                                 !.held = @ \cup Needs(p)]
  OBVIOUS
<1>5. Goto(p, t)
  BY <1>3, <1>4 DEF LockOwn
<1>6. t.pc = "commit" /\ t.work = tx[p].work /\ t.placing = tx[p].placing
  BY <1>2, <1>4 DEF Transactions
<1>7. tx'[p] = t
  BY <1>1, <1>5, OnlyOne DEF Goto
<1>8. /\ Goal(p)' = Goal(p) /\ (Blocked(p)' <=> Blocked(p)) /\ View(p)' = View(p)
  BY <1>1, <1>6, <1>7, SamePass DEF View
<1>9. View(p) = db
  BY <1>1, AloneTables DEF FollowsItsCourse
<1>10. Goal(p) = db
  BY DEF Goal, DeleteRow
<1> QED
  BY <1>1, <1>6, <1>7, <1>8, <1>9, <1>10 DEF AlonePart, Refined, Fetches, WritesToGoal

LEMMA LockOwnAlone ==
    ASSUME OrderTxInv, NEW p \in Procs, AlonePart(p), LockOwn(p),
           op[p].kind # "remove" \/ Item(p) \in DOMAIN db
    PROVE  AlonePart(p)' /\ Refined(p)
<1>1. /\ UNCHANGED <<db, schedules, op>> /\ tx[p].pc = "own" /\ TypeOK /\ Sound(p)
      /\ FollowsItsCourse(p) /\ ~tx[p].placing /\ schedules = Items
  BY DEF LockOwn, AlonePart, OrderTxInv, Sound
<1>2. PICK S \in SUBSET Items : tx[p] \in Transactions(S)
  BY <1>1 DEF TypeOK
<1>3. PICK row \in Rows \cup {NoRow} : row = IF Item(p) \in DOMAIN db THEN db[Item(p)] ELSE NoRow
  BY <1>1 DEF TypeOK
<1>4. PICK groups : groups = GroupsToFetch(p, row)
  OBVIOUS
<1>5. row = NoRow => op[p].kind # "remove"
  BY <1>1, <1>3, RowType DEF TypeOK
<1>6. PICK t : t = [tx[p] EXCEPT !.pc = "fetch", !.own = row, !.groups = groups,
                                 !.held = @ \cup Needs(p)]
  OBVIOUS
<1>7. tx' = [tx EXCEPT ![p] = t] /\ Goto(p, t)
  BY <1>1, <1>3, <1>4, <1>5, <1>6 DEF LockOwn, Goto
<1>8. /\ t.pc = "fetch" /\ t.own = row /\ t.groups = groups
      /\ t.work = tx[p].work /\ t.fetched = tx[p].fetched /\ t.placing = tx[p].placing
  BY <1>2, <1>6 DEF Transactions
<1>9. tx'[p] = t
  BY <1>1, <1>7, OnlyOne
<1>10. /\ Base(p)' = Base(p) /\ Goal(p)' = Goal(p) /\ (Blocked(p)' <=> Blocked(p))
       /\ Item(p)' = Item(p) /\ View(p)' = View(p)
  BY <1>1, <1>8, <1>9, SamePass DEF View
<1>11. Base(p) = db /\ View(p) = db /\ Table(db)
  BY <1>1, AloneTables DEF Base, FollowsItsCourse
<1>12. row = RowOf(Base(p), Item(p))
  BY <1>3, <1>11 DEF RowOf
<1>13. \A k, m \in DOMAIN groups : groups[k] = groups[m] => k = m
  BY <1>1, <1>4, GroupsToFetchGroups
<1>14. \A g \in Renumbers(p)' : g \in Groups /\ \E k \in DOMAIN groups : groups[k] = g
  <2>1. Renumbers(p)' = {g \in Groups : \/ (row # NoRow /\ g = row.group)
                                        \/ (op[p].kind # "remove" /\ g = op[p].group)}
    BY <1>1, <1>8, <1>9 DEF Renumbers
  <2>2. \A x, y : DOMAIN <<x>> = {1} /\ <<x>>[1] = x /\ DOMAIN <<x, y>> = {1, 2}
                  /\ <<x, y>>[1] = x /\ <<x, y>>[2] = y
    OBVIOUS
  <2>3. CASE row = NoRow
    BY <1>4, <1>5, <2>1, <2>2, <2>3 DEF GroupsToFetch
  <2>4. CASE row # NoRow /\ (op[p].kind = "remove" \/ row.group = op[p].group)
    BY <1>4, <2>1, <2>2, <2>4 DEF GroupsToFetch
  <2>5. CASE row # NoRow /\ op[p].kind # "remove" /\ row.group # op[p].group
    BY <1>4, <2>1, <2>2, <2>5 DEF GroupsToFetch
  <2> QED
    BY <2>3, <2>4, <2>5
<1>15. Fetches(p)'
  <2>1. ASSUME NEW g \in Renumbers(p)'
        PROVE  Reads(t.fetched[g], Unread(p, g)', FetchGroup(db, g), db)
    <3>1. t.fetched[g] = <<>>
      BY <1>1, <1>8, <1>14 DEF FollowsItsCourse
    <3>2. Unread(p, g)' = FetchGroup(Base(p)', g)
      BY <1>8, <1>9, <1>14 DEF Unread
    <3> QED
      BY <1>10, <1>11, <3>1, <3>2, ReadsNothing
  <2> QED
    BY <1>8, <1>9, <1>10, <1>11, <1>13, <2>1 DEF Fetches
<1> QED
  BY <1>1, <1>8, <1>9, <1>10, <1>12, <1>15 DEF AlonePart, Refined, WritesToGoal

(* A statement of a fetch: what else it has to preserve is what is read.   *)
LEMMA FetchingAlone ==
    ASSUME OrderTxInv, NEW p \in Procs, AlonePart(p), NEW t, Goto(p, t),
           UNCHANGED <<db, schedules, op>>,
           tx[p].pc \in {"fetch", "lock"}, t.pc \in {"fetch", "lock"},
           t.work = tx[p].work, t.own = tx[p].own, t.placing = tx[p].placing,
           \A k, m \in DOMAIN t.groups : t.groups[k] = t.groups[m] => k = m,
           \A g \in Renumbers(p) :
              Reads(t.fetched[g], Unread(p, g)', FetchGroup(Base(p), g), Base(p))
    PROVE  AlonePart(p)' /\ Refined(p)
<1>1. tx'[p] = t
  BY OnlyOne DEF OrderTxInv, Goto
<1>2. /\ Base(p)' = Base(p) /\ Goal(p)' = Goal(p) /\ (Blocked(p)' <=> Blocked(p))
      /\ Item(p)' = Item(p) /\ View(p)' = View(p) /\ Renumbers(p)' = Renumbers(p)
  BY <1>1, SamePass DEF View, Renumbers
<1>3. Fetches(p)'
  BY <1>1, <1>2 DEF Fetches, AlonePart
<1> QED
  BY <1>1, <1>2, <1>3 DEF AlonePart, Refined, WritesToGoal

LEMMA StartFetchAlone ==
    ASSUME OrderTxInv, NEW p \in Procs, AlonePart(p), StartFetch(p)
    PROVE  AlonePart(p)' /\ Refined(p)
<1>1. /\ UNCHANGED <<db, schedules, op>> /\ tx[p].pc = "fetch" /\ tx[p].groups # <<>>
      /\ TypeOK /\ Fetches(p) /\ View(p) = Base(p)
  BY DEF StartFetch, AlonePart, OrderTxInv, Fetches
<1>2. PICK S \in SUBSET Items : tx[p] \in Transactions(S)
  BY <1>1 DEF TypeOK
<1>3. PICK g \in Groups : g = Head(tx[p].groups) /\ g = tx[p].groups[1] /\ 1 \in DOMAIN tx[p].groups
  <2>1. PICK G \in Seq(Groups) : G = tx[p].groups
    BY <1>2 DEF Transactions
  <2>2. Head(G) \in Groups /\ Head(G) = G[1] /\ 1 \in DOMAIN G
    BY <1>1, <2>1
  <2> QED
    BY <2>1, <2>2
<1>4. PICK t : t = [tx[p] EXCEPT !.pc = "lock", !.todo = FetchGroup(View(p), g)]
  OBVIOUS
<1>5. Goto(p, t)
  BY <1>1, <1>3, <1>4 DEF StartFetch
<1>6. /\ t.pc = "lock" /\ t.todo = FetchGroup(Base(p), g) /\ t.groups = tx[p].groups
      /\ t.fetched = tx[p].fetched /\ t.work = tx[p].work
      /\ t.own = tx[p].own /\ t.placing = tx[p].placing
  BY <1>1, <1>2, <1>4 DEF Transactions
<1>7. tx'[p] = t
  BY <1>1, <1>5, OnlyOne DEF Goto
<1>8. \A h : Unread(p, h)' = Unread(p, h)
  <2>1. Base(p)' = Base(p)
    BY <1>1, <1>6, <1>7, SamePass
  <2> QED
    BY <1>1, <1>3, <1>6, <1>7, <2>1 DEF Unread
<1>9. /\ \A k, m \in DOMAIN t.groups : t.groups[k] = t.groups[m] => k = m
      /\ \A h \in Renumbers(p) :
            Reads(t.fetched[h], Unread(p, h)', FetchGroup(Base(p), h), Base(p))
  BY <1>1, <1>6, <1>8 DEF Fetches
<1> QED
  BY <1>1, <1>5, <1>6, <1>9, FetchingAlone

LEMMA EndFetchAlone ==
    ASSUME OrderTxInv, NEW p \in Procs, AlonePart(p), EndFetch(p)
    PROVE  AlonePart(p)' /\ Refined(p)
<1>1. /\ UNCHANGED <<db, schedules, op>> /\ tx[p].pc = "lock" /\ tx[p].todo = <<>>
      /\ TypeOK /\ Fetches(p) /\ tx[p].groups # <<>>
  BY DEF EndFetch, AlonePart, OrderTxInv, Sound, FollowsItsCourse
<1>2. PICK S \in SUBSET Items : tx[p] \in Transactions(S)
  BY <1>1 DEF TypeOK
<1>3. PICK G \in Seq(Groups) : G = tx[p].groups
  BY <1>2 DEF Transactions
<1>4. /\ Head(G) = G[1] /\ 1 \in DOMAIN G
      /\ \A k \in DOMAIN Tail(G) : /\ k \in Nat /\ k + 1 \in DOMAIN G /\ k + 1 # 1
                                   /\ Tail(G)[k] = G[k + 1]
      /\ \A k \in DOMAIN G : k # 1 => k - 1 \in DOMAIN Tail(G) /\ Tail(G)[k - 1] = G[k]
  BY <1>1, <1>3
<1>5. PICK rest : rest = Tail(G)
  OBVIOUS
<1>6. PICK t : t = [tx[p] EXCEPT !.pc = "fetch", !.groups = rest]
  OBVIOUS
<1>7. Goto(p, t)
  <2>1. t = [tx[p] EXCEPT !.pc = "fetch", !.groups = Tail(@)]
    BY <1>3, <1>5, <1>6
  <2> QED
    BY <1>1, <2>1 DEF EndFetch
<1>8. /\ t.pc = "fetch" /\ t.groups = rest /\ t.fetched = tx[p].fetched
      /\ t.work = tx[p].work /\ t.own = tx[p].own /\ t.placing = tx[p].placing
  BY <1>2, <1>6 DEF Transactions
<1>9. tx'[p] = t
  BY <1>1, <1>7, OnlyOne DEF Goto
<1>10. \A k, m \in DOMAIN G : G[k] = G[m] => k = m
  BY <1>1, <1>3 DEF Fetches
<1>11. \A k, m \in DOMAIN rest : rest[k] = rest[m] => k = m
  <2>1. ASSUME NEW k \in DOMAIN rest, NEW m \in DOMAIN rest, rest[k] = rest[m] PROVE k = m
    <3>1. k + 1 = m + 1 /\ k \in Nat /\ m \in Nat
      BY <1>4, <1>5, <1>10, <2>1
    <3> QED
      BY <3>1
  <2> QED
    BY <2>1
<1>12. \A h : Unread(p, h)' = Unread(p, h)
  <2>1. Base(p)' = Base(p)
    BY <1>1, <1>8, <1>9, SamePass
  <2>2. SUFFICES ASSUME NEW h PROVE Unread(p, h)' = Unread(p, h)
    OBVIOUS
  <2>3. Unread(p, h)' = IF \E k \in DOMAIN rest : rest[k] = h THEN FetchGroup(Base(p), h) ELSE <<>>
    BY <1>8, <1>9, <2>1 DEF Unread
  <2>4. CASE h = Head(G)
    <3>1. Unread(p, h) = <<>>
      BY <1>1, <1>3, <2>4 DEF Unread
    <3>2. ~\E k \in DOMAIN rest : rest[k] = h
      BY <1>4, <1>5, <1>10, <2>4
    <3> QED
      BY <2>3, <3>1, <3>2
  <2>5. CASE h # Head(G)
    <3>1. Unread(p, h) = IF \E k \in DOMAIN G : G[k] = h THEN FetchGroup(Base(p), h) ELSE <<>>
      BY <1>1, <1>3, <2>5 DEF Unread
    <3>2. ASSUME NEW k \in DOMAIN rest, rest[k] = h PROVE \E m \in DOMAIN G : G[m] = h
      <4>1. k + 1 \in DOMAIN G /\ G[k + 1] = h
        BY <1>4, <1>5, <3>2
      <4> QED
        BY <4>1
    <3>3. ASSUME NEW k \in DOMAIN G, G[k] = h PROVE \E m \in DOMAIN rest : rest[m] = h
      <4>1. k # 1
        BY <1>4, <2>5, <3>3
      <4>2. k - 1 \in DOMAIN rest /\ rest[k - 1] = h
        BY <1>4, <1>5, <3>3, <4>1
      <4> QED
        BY <4>2
    <3> QED
      BY <2>3, <3>1, <3>2, <3>3
  <2> QED
    BY <2>4, <2>5
<1>13. /\ \A k, m \in DOMAIN t.groups : t.groups[k] = t.groups[m] => k = m
       /\ \A h \in Renumbers(p) :
             Reads(t.fetched[h], Unread(p, h)', FetchGroup(Base(p), h), Base(p))
  BY <1>1, <1>8, <1>11, <1>12 DEF Fetches
<1> QED
  BY <1>1, <1>7, <1>8, <1>13, FetchingAlone

(* The next row of a fetch is where the list expects it.                   *)
LEMMA ReadsNext ==
    ASSUME NEW t, Table(t), NEW g, NEW items \in Seq(Entries), NEW todo \in Seq(Items),
           todo # <<>>, Reads(items, todo, FetchGroup(t, g), t),
           NEW i, i = Head(todo), NEW e, e = [item |-> i, position |-> t[i].position]
    PROVE  /\ i \in DOMAIN t /\ t[i].group = g
           /\ Reads(Append(items, e), Tail(todo), FetchGroup(t, g), t)
<1>1. PICK q : q = FetchGroup(t, g)
  OBVIOUS
<1>2. PICK n \in Nat : n = Cardinality(Siblings(t, g)) /\ Lists(q, Siblings(t, g), n)
  BY <1>1, TableQuery DEF FetchGroup
<1>3. /\ DOMAIN q = 1..n /\ Len(q) = n /\ \A k \in 1..n : q[k] \in Siblings(t, g)
  BY <1>2 DEF Lists
<1>4. PICK a \in Nat : a = Len(items) /\ DOMAIN items = 1..a
  OBVIOUS
<1>5. PICK b \in Nat : b + 1 = Len(todo) /\ DOMAIN todo = 1..(b + 1) /\ todo[1] = i
  <2>1. PICK m \in Nat : m = Len(todo) /\ DOMAIN todo = 1..m /\ m # 0
    OBVIOUS
  <2>2. m - 1 \in Nat /\ (m - 1) + 1 = m
    BY <2>1
  <2> QED
    BY <2>1, <2>2
<1>6. PICK rest : rest = Tail(todo)
  OBVIOUS
<1>7. Len(rest) = b /\ DOMAIN rest = 1..b /\ \A k \in 1..b : rest[k] = todo[k + 1]
  <2>1. rest \in Seq(Items) /\ Len(rest) = Len(todo) - 1
    BY <1>6
  <2>2. DOMAIN rest = 1..Len(rest) /\ \A k \in 1..Len(rest) : rest[k] = todo[k + 1]
    BY <1>6, <2>1
  <2>3. Len(rest) = b
    BY <1>5, <2>1
  <2> QED
    BY <2>2, <2>3
<1>8. PICK more : more = Append(items, e)
  OBVIOUS
<1>9. /\ Len(more) = a + 1 /\ DOMAIN more = 1..(a + 1) /\ more[a + 1] = e
      /\ \A k \in 1..a : more[k] = items[k]
  BY <1>4, <1>8
<1>10. /\ a + (b + 1) = n /\ \A k \in 1..a : items[k] = [item |-> q[k], position |-> t[q[k]].position]
       /\ \A k \in 1..(b + 1) : todo[k] = q[a + k]
  BY <1>1, <1>3, <1>4, <1>5 DEF Reads
<1>11. i = q[a + 1] /\ a + 1 \in 1..n
  <2>1. 1 \in 1..(b + 1) /\ a + 1 \in 1..n
    BY <1>10
  <2> QED
    BY <1>5, <1>10, <2>1
<1>12. i \in Siblings(t, g)
  BY <1>3, <1>11
<1>13. \A k \in 1..(a + 1) : more[k] = [item |-> q[k], position |-> t[q[k]].position]
  <2>1. \A k \in 1..(a + 1) : k \in 1..a \/ k = a + 1
    OBVIOUS
  <2> QED
    BY <1>9, <1>10, <1>11, <2>1
<1>14. \A k \in 1..b : rest[k] = q[(a + 1) + k]
  <2>1. SUFFICES ASSUME NEW k \in 1..b PROVE rest[k] = q[(a + 1) + k]
    OBVIOUS
  <2>2. PICK m \in 1..(b + 1) : m = k + 1
    OBVIOUS
  <2>3. rest[k] = todo[m] /\ todo[m] = q[a + m] /\ a + m = (a + 1) + k
    BY <1>7, <1>10, <2>2
  <2> QED
    BY <2>3
<1>15. (a + 1) + b = n
  BY <1>10
<1>16. Reads(more, rest, q, t)
  BY <1>3, <1>7, <1>9, <1>13, <1>14, <1>15 DEF Reads
<1> QED
  BY <1>1, <1>6, <1>8, <1>12, <1>16 DEF Siblings

LEMMA LockRowAlone ==
    ASSUME OrderTxInv, NEW p \in Procs, AlonePart(p), LockRow(p)
    PROVE  AlonePart(p)' /\ Refined(p)
<1>1. /\ UNCHANGED <<db, schedules, op>> /\ tx[p].pc = "lock" /\ tx[p].todo # <<>>
      /\ TypeOK /\ Fetches(p) /\ tx[p].groups # <<>> /\ WorksOnItsRows(p)
      /\ View(p) = Base(p) /\ Table(View(p))
  BY AloneTables DEF LockRow, AlonePart, OrderTxInv, Sound, FollowsItsCourse, Fetches
<1>2. PICK S \in SUBSET Items : tx[p] \in Transactions(S)
  BY <1>1 DEF TypeOK
<1>3. PICK G \in Seq(Groups) : G = tx[p].groups
  BY <1>2 DEF Transactions
<1>4. PICK g \in Groups : g = Head(G)
  BY <1>1, <1>3
<1>5. PICK todo \in Seq(Items) : todo = tx[p].todo
  BY <1>2 DEF Transactions
<1>6. PICK i \in Items : i = Head(todo)
  BY <1>1, <1>5
<1>7. PICK rest : rest = Tail(todo)
  OBVIOUS
<1>8. PICK items \in Seq(Entries) : items = tx[p].fetched[g]
  BY <1>1, FetchedEntries
<1>9. PICK e : e = [item |-> i, position |-> View(p)[i].position]
  OBVIOUS
<1>10. PICK here \in BOOLEAN : here = (i \in DOMAIN View(p) /\ View(p)[i].group = g)
  OBVIOUS
<1>11. PICK more : more = IF here THEN Append(items, e) ELSE items
  OBVIOUS
<1>12. PICK t : t = [tx[p] EXCEPT !.todo = rest, !.held = @ \cup Needs(p), !.fetched[g] = more]
  OBVIOUS
<1>13. Goto(p, t)
  <2>1. t = [tx[p] EXCEPT !.todo = Tail(@), !.held = @ \cup Needs(p),
                          !.fetched[g] = IF here THEN Append(@, e) ELSE @]
    <3>1. tx[p].fetched \in [Groups -> Seq(Entries)] /\ tx[p].todo = todo
      BY <1>2, <1>5 DEF Transactions
    <3>2. [tx[p].fetched EXCEPT ![g] = more]
             = [tx[p].fetched EXCEPT ![g] = IF here THEN Append(@, e) ELSE @]
      BY <1>8, <1>11, <3>1
    <3> QED
      BY <1>7, <1>12, <3>1, <3>2
  <2> QED
    BY <1>1, <1>3, <1>4, <1>5, <1>6, <1>9, <1>10, <2>1 DEF LockRow
<1>14. /\ t.pc = "lock" /\ t.todo = rest /\ t.groups = G
       /\ t.fetched = [tx[p].fetched EXCEPT ![g] = more]
       /\ t.work = tx[p].work /\ t.own = tx[p].own /\ t.placing = tx[p].placing
  BY <1>1, <1>2, <1>3, <1>12 DEF Transactions
<1>15. t.fetched[g] = more /\ \A h \in Groups \ {g} : t.fetched[h] = tx[p].fetched[h]
  BY <1>2, <1>14 DEF Transactions
<1>16. tx'[p] = t
  BY <1>1, <1>13, OnlyOne DEF Goto
<1>17. \A h : Unread(p, h)' = IF h = g THEN rest ELSE Unread(p, h)
  <2>1. Base(p)' = Base(p)
    BY <1>1, <1>14, <1>16, SamePass
  <2> QED
    BY <1>1, <1>3, <1>4, <1>14, <1>16, <2>1 DEF Unread
<1>18. ASSUME NEW h \in Renumbers(p)
       PROVE  Reads(t.fetched[h], Unread(p, h)', FetchGroup(Base(p), h), Base(p))
  <2>1. h \in Groups /\ Reads(tx[p].fetched[h], Unread(p, h), FetchGroup(Base(p), h), Base(p))
    BY <1>1 DEF Fetches, Renumbers
  <2>2. CASE h # g
    BY <1>15, <1>17, <2>1, <2>2
  <2>3. CASE h = g
    <3>1. Unread(p, g) = todo
      BY <1>1, <1>3, <1>4, <1>5 DEF Unread
    <3>2. Reads(items, todo, FetchGroup(View(p), g), View(p))
      BY <1>1, <1>8, <2>1, <2>3, <3>1
    <3>3. /\ i \in DOMAIN View(p) /\ View(p)[i].group = g
          /\ Reads(Append(items, e), Tail(todo), FetchGroup(View(p), g), View(p))
      BY <1>1, <1>5, <1>6, <1>9, <3>2, ReadsNext
    <3>4. more = Append(items, e)
      BY <1>10, <1>11, <3>3
    <3> QED
      BY <1>1, <1>7, <1>15, <1>17, <2>3, <3>3, <3>4
  <2> QED
    BY <2>2, <2>3
<1>19. \A k, m \in DOMAIN t.groups : t.groups[k] = t.groups[m] => k = m
  BY <1>1, <1>3, <1>14 DEF Fetches
<1> QED
  BY <1>1, <1>13, <1>14, <1>18, <1>19, FetchingAlone

-----------------------------------------------------------------------------
(* When all is fetched, the lists are those of the table of the pass.      *)

LEMMA AllKnown ==
    ASSUME OrderTxInv, NEW p \in Procs, AlonePart(p), AllFetched(p)
    PROVE  /\ Table(Base(p)) /\ View(p) = Base(p) /\ Item(p) \in Items /\ op[p].group \in Groups
           /\ \A g \in Renumbers(p) :
                 /\ g \in Groups /\ Known(tx[p].fetched[g], g, Base(p))
                 /\ Len(tx[p].fetched[g]) + 1 = EndOf(Base(p), g)
           /\ tx[p].own = NoRow => Item(p) \notin DOMAIN Base(p)
           /\ tx[p].own # NoRow =>
                 /\ tx[p].own \in Rows /\ tx[p].own.group \in Renumbers(p)
                 /\ Item(p) \in DOMAIN Base(p) /\ Base(p)[Item(p)] = tx[p].own
                 /\ Item(p) \in Siblings(Base(p), tx[p].own.group)
           /\ tx[p].placing => /\ op[p].kind = "place" /\ tx[p].own # NoRow
                               /\ tx[p].own.group = op[p].group /\ ~Blocked(p)
           /\ ~tx[p].placing => Base(p) = db /\ tx[p].work = EmptyTable
           /\ op[p].kind = "remove" => tx[p].own # NoRow
           /\ op[p].kind # "remove" => op[p].group \in Renumbers(p)
<1>1. /\ TypeOK /\ Sound(p) /\ FollowsItsCourse(p) /\ WorksOnItsRows(p) /\ RemovesItsRow(p)
      /\ tx[p].pc = "fetch" /\ tx[p].groups = <<>> /\ Fetches(p)
  BY DEF OrderTxInv, Sound, AlonePart, AllFetched
<1>2. View(p) = Base(p) /\ Table(Base(p)) /\ tx[p].own = RowOf(Base(p), Item(p))
  BY <1>1, AloneTables DEF Fetches, AlonePart
<1>3. Item(p) \in Items /\ op[p].group \in Groups /\ tx[p].own \in Rows \cup {NoRow}
  <2>1. PICK S \in SUBSET Items : tx[p] \in Transactions(S)
    BY <1>1 DEF TypeOK
  <2> QED
    BY <1>1, <2>1, OpType DEF Transactions
<1>4. ASSUME NEW g \in Renumbers(p)
      PROVE  /\ g \in Groups /\ Known(tx[p].fetched[g], g, Base(p))
             /\ Len(tx[p].fetched[g]) + 1 = EndOf(Base(p), g)
  <2>1. g \in Groups
    BY DEF Renumbers
  <2>2. PICK L \in Seq(Entries) : L = tx[p].fetched[g]
    BY <1>1, <2>1, FetchedEntries
  <2>3. Unread(p, g) = <<>>
    <3>1. DOMAIN tx[p].groups = {}
      BY <1>1
    <3> QED
      BY <1>1, <3>1 DEF Unread
  <2>4. Reads(L, <<>>, FetchGroup(Base(p), g), Base(p))
    BY <1>1, <2>2, <2>3 DEF Fetches
  <2>5. Len(L) = Cardinality(Siblings(Base(p), g))
    BY <1>2, <2>4, ReadsGroup
  <2> QED
    BY <2>1, <2>2, <2>4, <2>5 DEF Known, EndOf
<1>5. \A i \in DOMAIN Base(p) : Base(p)[i] # NoRow
  BY <1>2, TableType
<1>6. tx[p].own = NoRow => Item(p) \notin DOMAIN Base(p)
  BY <1>2, <1>5 DEF RowOf
<1>7. ASSUME tx[p].own # NoRow
      PROVE  /\ tx[p].own \in Rows /\ tx[p].own.group \in Renumbers(p)
             /\ Item(p) \in DOMAIN Base(p) /\ Base(p)[Item(p)] = tx[p].own
             /\ Item(p) \in Siblings(Base(p), tx[p].own.group)
  <2>1. Item(p) \in DOMAIN Base(p) /\ Base(p)[Item(p)] = tx[p].own
    BY <1>2, <1>7 DEF RowOf
  <2>2. tx[p].own \in Rows /\ tx[p].own.group \in Groups
    BY <1>3, <1>7, RowType
  <2> QED
    BY <1>7, <2>1, <2>2 DEF Renumbers, Siblings
<1>8. ASSUME tx[p].placing
      PROVE  /\ op[p].kind = "place" /\ tx[p].own # NoRow
             /\ tx[p].own.group = op[p].group /\ ~Blocked(p)
  <2>1. op[p].kind = "place" /\ tx[p].own # NoRow /\ ~Blocked(p)
    BY <1>1, <1>8 DEF FollowsItsCourse, AlonePart
  <2>2. Base(p) = Synced(db, Item(p), op[p].group)
    BY <1>8 DEF Base
  <2>3. Base(p)[Item(p)].group = op[p].group
    BY <2>1, <2>2, SyncedGroup DEF Blocked
  <2> QED
    BY <1>7, <2>1, <2>3
<1>9. ~tx[p].placing => Base(p) = db /\ tx[p].work = EmptyTable
  BY <1>1 DEF Base, FollowsItsCourse
<1>10. op[p].kind = "remove" => tx[p].own # NoRow
  BY <1>1 DEF RemovesItsRow
<1>11. op[p].kind # "remove" => op[p].group \in Renumbers(p)
  BY <1>3 DEF Renumbers
<1> QED
  BY <1>2, <1>3, <1>4, <1>6, <1>7, <1>8, <1>9, <1>10, <1>11

(* Statements that take the table of the pass to the one it is to end in,  *)
(* or begin with one that fails.                                           *)
Planned(p, W) ==
    IF Blocked(p) /\ op[p].kind # "remove"
    THEN /\ tx[p].work = EmptyTable /\ W # <<>>
         /\ Head(W) = Write(Item(p), op[p].group, EndOf(db, op[p].group))
    ELSE Leads(W, View(p), Goal(p))

LEMMA RemovalPlanned ==
    ASSUME OrderTxInv, NEW p \in Procs, AlonePart(p), AllFetched(p), op[p].kind = "remove"
    PROVE  Planned(p, Removal(p, tx[p].own))
<1>1. /\ tx[p].own # NoRow /\ ~tx[p].placing /\ Base(p) = db /\ View(p) = db
      /\ Table(db) /\ tx[p].own.group \in Groups
  BY AllKnown
<1>2. PICK g \in Groups : g = tx[p].own.group
  BY <1>1
<1>3. PICK i : i = Item(p)
  OBVIOUS
<1>4. PICK L : L = tx[p].fetched[g]
  OBVIOUS
<1>5. i \in Siblings(db, g) /\ Known(L, g, db)
  BY <1>1, <1>2, <1>3, <1>4, AllKnown
<1>6. PICK W : W = <<[item |-> i, row |-> NoRow]>> \o Renumbering(Without(L, i), g)
  OBVIOUS
<1>7. Leads(W, db, DeleteRow(db, i))
  BY <1>1, <1>5, <1>6, RemovalLeads
<1>8. W = Removal(p, tx[p].own)
  BY <1>2, <1>3, <1>4, <1>6 DEF Removal
<1>9. Goal(p) = DeleteRow(db, i)
  BY <1>3 DEF Goal
<1> QED
  BY <1>1, <1>7, <1>8, <1>9 DEF Planned

LEMMA CreationPlanned ==
    ASSUME OrderTxInv, NEW p \in Procs, AlonePart(p), AllFetched(p), Creates(p)
    PROVE  Planned(p, Creation(p))
<1>1. /\ ~tx[p].placing /\ Base(p) = db /\ View(p) = db /\ tx[p].work = EmptyTable
      /\ Table(db) /\ Item(p) \in Items \ DOMAIN db /\ op[p].group \in Renumbers(p)
      /\ op[p].kind # "remove"
  BY AllKnown DEF Creates
<1>2. PICK g \in Groups : g = op[p].group
  BY <1>1, AllKnown
<1>3. PICK i \in Items : i = Item(p)
  BY <1>1
<1>4. PICK W : W = <<Write(i, g, EndOf(db, g))>>
  OBVIOUS
<1>5. Creation(p) = W
  <2>1. Len(tx[p].fetched[g]) + 1 = EndOf(db, g)
    BY <1>1, <1>2, AllKnown
  <2> QED
    BY <1>2, <1>3, <1>4, <2>1 DEF Creation
<1>6. CASE Blocked(p)
  <2>1. W # <<>> /\ Head(W) = Write(i, g, EndOf(db, g))
    BY <1>4
  <2> QED
    BY <1>1, <1>2, <1>3, <1>5, <1>6, <2>1 DEF Planned
<1>7. CASE ~Blocked(p)
  <2>1. EndIsFree(db, g)
    BY <1>1, <1>2, <1>3, <1>7 DEF Blocked
  <2>2. Leads(W, db, CreateRow(db, i, g))
    BY <1>1, <1>3, <1>4, <2>1, CreationLeads
  <2>3. Goal(p) = CreateRow(db, i, g)
    BY <1>1, <1>2, <1>3 DEF Goal, Synced
  <2> QED
    BY <1>1, <1>5, <1>7, <2>2, <2>3 DEF Planned
<1> QED
  BY <1>6, <1>7

LEMMA PlacementPlanned ==
    ASSUME OrderTxInv, NEW p \in Procs, AlonePart(p), AllFetched(p), op[p].kind # "remove",
           tx[p].own # NoRow, tx[p].own.group = op[p].group, NEW desired \in Int,
           desired = IF tx[p].placing THEN op[p].position ELSE tx[p].own.position
    PROVE  Planned(p, Placement(p, tx[p].own, desired))
<1>1. PICK t : t = Base(p)
  OBVIOUS
<1>2. PICK g \in Groups : g = op[p].group
  BY AllKnown
<1>3. PICK i : i = Item(p)
  OBVIOUS
<1>4. PICK L : L = tx[p].fetched[g]
  OBVIOUS
<1>5. /\ Table(t) /\ View(p) = t /\ i \in Siblings(t, g) /\ Known(L, g, t) /\ i \in DOMAIN t
      /\ t[i] = tx[p].own
  BY <1>1, <1>2, <1>3, <1>4, AllKnown
<1>6. PICK others : others = Without(L, i)
  OBVIOUS
<1>7. PICK self : self = [item |-> i, position |-> t[i].position]
  OBVIOUS
<1>8. PICK W : W = Renumbering(InsertItem(others, Clamp(desired, Len(others) + 1), self), g)
  OBVIOUS
<1>9. Leads(W, t, MoveWithin(t, i, desired))
  BY <1>5, <1>6, <1>7, <1>8, PlacementLeads
<1>10. W = Placement(p, tx[p].own, desired)
  BY <1>2, <1>3, <1>4, <1>5, <1>6, <1>7, <1>8 DEF Placement
<1>11. ~Blocked(p) /\ Goal(p) = MoveWithin(t, i, desired)
  <2>1. CASE tx[p].placing
    <3>1. ~Blocked(p)
      BY <2>1, AllKnown
    <3> QED
      BY <1>1, <1>3, <2>1, <3>1 DEF Goal
  <2>2. CASE ~tx[p].placing
    <3>1. t = db /\ db[i].group = g /\ i \in DOMAIN db
      BY <1>1, <1>2, <1>5, <2>2, AllKnown
    <3>2. ~Blocked(p)
      BY <1>2, <1>3, <3>1 DEF Blocked
    <3>3. Synced(db, i, g) = MoveWithin(db, i, db[i].position)
      BY <3>1 DEF Synced
    <3> QED
      BY <1>2, <1>3, <1>5, <2>2, <3>1, <3>2, <3>3 DEF Goal
  <2> QED
    BY <2>1, <2>2
<1> QED
  BY <1>5, <1>9, <1>10, <1>11 DEF Planned

LEMMA RelocationPlanned ==
    ASSUME OrderTxInv, NEW p \in Procs, AlonePart(p), AllFetched(p), Relocates(p)
    PROVE  Planned(p, Relocation(p, tx[p].own))
<1>1. /\ ~tx[p].placing /\ Base(p) = db /\ View(p) = db /\ tx[p].work = EmptyTable
      /\ Table(db) /\ op[p].group \in Renumbers(p) /\ op[p].kind # "remove"
      /\ tx[p].own.group \in Renumbers(p) /\ Item(p) \in DOMAIN db /\ db[Item(p)] = tx[p].own
  BY AllKnown DEF Relocates
<1>2. PICK g \in Groups : g = op[p].group
  BY AllKnown
<1>3. PICK i \in DOMAIN db : i = Item(p)
  BY <1>1
<1>4. PICK old : old = db[i].group
  OBVIOUS
<1>5. PICK L : L = tx[p].fetched[old]
  OBVIOUS
<1>6. PICK R : R = tx[p].fetched[g]
  OBVIOUS
<1>7. /\ Known(L, old, db) /\ Known(R, g, db) /\ old # g /\ tx[p].own.group = old
      /\ Len(R) + 1 = EndOf(db, g)
  BY <1>1, <1>2, <1>3, <1>4, <1>5, <1>6, AllKnown DEF Relocates
<1>8. PICK self : self = [item |-> i, position |-> EndOf(db, g)]
  OBVIOUS
<1>9. PICK W : W = <<Write(i, g, EndOf(db, g))>> \o Renumbering(Without(L, i), old)
                     \o Renumbering(Append(Without(R, i), self), g)
  OBVIOUS
<1>10. W = Relocation(p, tx[p].own)
  BY <1>2, <1>3, <1>5, <1>6, <1>7, <1>8, <1>9 DEF Relocation
<1>11. CASE Blocked(p)
  <2>1. i \in Items /\ EndOf(db, g) \in Nat \ {0} /\ old \in Groups
    <3>1. Len(R) \in Nat
      BY <1>7 DEF Known
    <3>2. old \in Groups /\ i \in Items
      BY <1>1, <1>4, TableType
    <3> QED
      BY <1>7, <3>1, <3>2
  <2>2. PICK w : w = Write(i, g, EndOf(db, g))
    OBVIOUS
  <2>3. w \in Writes
    BY <2>1, <2>2, WriteType
  <2>4. L \in Seq(Entries) /\ R \in Seq(Entries) /\ Len(R) \in Nat
    BY <1>7 DEF Known
  <2>5. PICK A \in Seq(Writes) : A = Renumbering(Without(L, i), old)
    BY <2>1, <2>4, WithoutEntries, RenumberingWrites
  <2>6. self \in Entries
    BY <1>8, <2>1 DEF Entries
  <2>7. Append(Without(R, i), self) \in Seq(Entries)
    BY <2>4, <2>6, WithoutEntries
  <2>8. PICK B \in Seq(Writes) : B = Renumbering(Append(Without(R, i), self), g)
    BY <2>7, RenumberingWrites
  <2>9. W = (<<w>> \o A) \o B
    BY <1>9, <2>2, <2>5, <2>8
  <2>10. W # <<>> /\ Head(W) = w
    <3>1. PICK u : u = <<w>>
      OBVIOUS
    <3>2. u \in Seq(Writes) /\ Len(u) = 1 /\ u[1] = w
      BY <2>3, <3>1
    <3>3. PICK V : V = u \o A
      OBVIOUS
    <3>4. V \in Seq(Writes) /\ Len(V) \in Nat /\ Len(V) >= 1 /\ V[1] = w
      BY <2>5, <3>2, <3>3
    <3>5. W = V \o B
      BY <2>9, <3>1, <3>3
    <3>6. W \in Seq(Writes) /\ Len(W) >= 1 /\ W[1] = w
      BY <2>8, <3>4, <3>5
    <3> QED
      BY <3>6
  <2> QED
    BY <1>1, <1>2, <1>3, <1>10, <1>11, <2>2, <2>10 DEF Planned
<1>12. CASE ~Blocked(p)
  <2>1. EndIsFree(db, g)
    BY <1>2, <1>3, <1>4, <1>7, <1>12 DEF Blocked
  <2>2. Leads(W, db, MoveAcross(db, i, g))
    BY <1>1, <1>4, <1>7, <1>8, <1>9, <2>1, RelocationLeads
  <2>3. Goal(p) = MoveAcross(db, i, g)
    BY <1>1, <1>2, <1>3, <1>4, <1>7, <2>1 DEF Goal, Synced
  <2> QED
    BY <1>1, <1>10, <1>12, <2>2, <2>3 DEF Planned
<1> QED
  BY <1>11, <1>12

LEMMA ComputePlans ==
    ASSUME OrderTxInv, NEW p \in Procs, AlonePart(p), Compute(p)
    PROVE  \E W : /\ Planned(p, W) /\ (tx[p].own = NoRow => W = Creation(p))
                  /\ Goto(p, [tx[p] EXCEPT !.pc = IF tx[p].own = NoRow THEN "validate" ELSE "write",
                                           !.writes = W])
<1>1. AllFetched(p) /\ TypeOK
  BY DEF Compute, AllFetched, OrderTxInv
<1>2. PICK row : row = tx[p].own
  OBVIOUS
<1>3. PICK pc : pc = IF row = NoRow THEN "validate" ELSE "write"
  OBVIOUS
<1>4. op[p].kind = "remove" => row # NoRow
  BY <1>1, <1>2, AllKnown
<1>5. CASE op[p].kind = "remove"
  <2>1. Planned(p, Removal(p, row))
    BY <1>1, <1>2, <1>5, RemovalPlanned
  <2>2. Goto(p, [tx[p] EXCEPT !.pc = pc, !.writes = Removal(p, row)])
    BY <1>2, <1>3, <1>5 DEF Compute
  <2> QED
    BY <1>2, <1>3, <1>4, <1>5, <2>1, <2>2
<1>6. CASE op[p].kind # "remove" /\ row = NoRow
  <2>1. Planned(p, Creation(p))
    BY <1>1, <1>2, <1>6, CreationPlanned DEF Creates
  <2>2. Goto(p, [tx[p] EXCEPT !.pc = pc, !.writes = Creation(p)])
    BY <1>2, <1>3, <1>6 DEF Compute
  <2> QED
    BY <1>2, <1>3, <2>1, <2>2
<1>7. CASE op[p].kind # "remove" /\ row # NoRow /\ row.group = op[p].group
  <2>1. row \in Rows
    BY <1>1, <1>2, <1>7, AllKnown
  <2>2. (IF tx[p].placing THEN op[p].position ELSE row.position) \in Int
    BY <1>1, <2>1, OpType, RowType
  <2>3. PICK n \in Int : n = IF tx[p].placing THEN op[p].position ELSE row.position
    BY <2>2
  <2>4. Planned(p, Placement(p, row, n))
    BY <1>1, <1>2, <1>7, <2>3, PlacementPlanned
  <2>5. Goto(p, [tx[p] EXCEPT !.pc = pc, !.writes = Placement(p, row, n)])
    BY <1>2, <1>3, <1>7, <2>3 DEF Compute
  <2> QED
    BY <1>2, <1>3, <1>7, <2>4, <2>5
<1>8. CASE op[p].kind # "remove" /\ row # NoRow /\ row.group # op[p].group
  <2>1. Planned(p, Relocation(p, row))
    BY <1>1, <1>2, <1>8, RelocationPlanned DEF Relocates
  <2>2. Goto(p, [tx[p] EXCEPT !.pc = pc, !.writes = Relocation(p, row)])
    BY <1>2, <1>3, <1>8 DEF Compute
  <2> QED
    BY <1>2, <1>3, <1>8, <2>1, <2>2
<1> QED
  BY <1>5, <1>6, <1>7, <1>8

LEMMA ComputeAlone ==
    ASSUME OrderTxInv, NEW p \in Procs, AlonePart(p), Compute(p)
    PROVE  AlonePart(p)' /\ Refined(p)
<1>1. /\ UNCHANGED <<db, schedules, op>> /\ tx[p].pc = "fetch" /\ TypeOK
  BY DEF Compute, OrderTxInv
<1>2. PICK pc : pc = IF tx[p].own = NoRow THEN "validate" ELSE "write"
  OBVIOUS
<1>3. PICK W : /\ Planned(p, W) /\ (tx[p].own = NoRow => W = Creation(p))
               /\ Goto(p, [tx[p] EXCEPT !.pc = pc, !.writes = W])
  BY <1>2, ComputePlans
<1>4. PICK t : t = [tx[p] EXCEPT !.pc = pc, !.writes = W]
  OBVIOUS
<1>5. PICK S \in SUBSET Items : tx[p] \in Transactions(S)
  BY <1>1 DEF TypeOK
<1>6. /\ t.pc \in {"validate", "write"} /\ t.writes = W /\ t.work = tx[p].work
      /\ t.own = tx[p].own /\ t.placing = tx[p].placing /\ t.fetched = tx[p].fetched
      /\ t.pc = "validate" => t.own = NoRow
  BY <1>2, <1>4, <1>5 DEF Transactions
<1>7. tx'[p] = t
  BY <1>1, <1>3, <1>4, OnlyOne DEF Goto
<1>8. /\ Base(p)' = Base(p) /\ Goal(p)' = Goal(p) /\ (Blocked(p)' <=> Blocked(p))
      /\ Item(p)' = Item(p) /\ View(p)' = View(p)
  BY <1>1, <1>6, <1>7, SamePass DEF View
<1>9. WritesToGoal(p)'
  BY <1>1, <1>3, <1>6, <1>7, <1>8 DEF WritesToGoal, Planned
<1>10. Creation(p)' = Creation(p)
  BY <1>1, <1>6, <1>7, <1>8 DEF Creation
<1> QED
  BY <1>1, <1>3, <1>6, <1>7, <1>8, <1>9, <1>10 DEF AlonePart, Refined, Fetches

(* A table of order rows, with or without ties.                            *)
RowsTable(t) == \E S \in SUBSET Items : t \in [S -> Rows]

LEMMA RowsTableType ==
    ASSUME NEW t, RowsTable(t)
    PROVE  /\ DOMAIN t \subseteq Items /\ IsFiniteSet(DOMAIN t) /\ t = [j \in DOMAIN t |-> t[j]]
           /\ \A j \in DOMAIN t : t[j] \in Rows /\ t[j] # NoRow
<1>1. PICK S \in SUBSET Items : t \in [S -> Rows]
  BY DEF RowsTable
<1>2. DOMAIN t = S /\ IsFiniteSet(S) /\ t = [j \in DOMAIN t |-> t[j]]
  BY <1>1, OrderTxAssumption, FS_Subset
<1>3. \A j \in DOMAIN t : t[j] \in Rows
  BY <1>1, <1>2
<1> QED
  BY <1>2, <1>3, RowType

LEMMA RowsTableIs ==
    ASSUME NEW t, DOMAIN t \subseteq Items, t = [j \in DOMAIN t |-> t[j]],
           \A j \in DOMAIN t : t[j] \in Rows
    PROVE  RowsTable(t)
BY DEF RowsTable

LEMMA PersistRows ==
    ASSUME NEW t, RowsTable(t), NEW q, DOMAIN q \subseteq Nat \ {0}
    PROVE  RowsTable(PersistPositions(t, q))
<1>1. PICK s : s = PersistPositions(t, q)
  OBVIOUS
<1>2. s = [j \in DOMAIN t |-> IF j \in {q[k] : k \in DOMAIN q}
                              THEN [group |-> t[j].group, position |-> IndexIn(q, j)]
                              ELSE t[j]]
  BY <1>1 DEF PersistPositions
<1>3. DOMAIN s = DOMAIN t /\ s = [j \in DOMAIN s |-> s[j]]
  BY <1>2
<1>4. ASSUME NEW j \in DOMAIN t PROVE s[j] \in Rows
  <2>1. t[j] \in Rows /\ t[j].group \in Groups
    BY RowsTableType, RowType
  <2>2. ASSUME j \in {q[k] : k \in DOMAIN q} PROVE IndexIn(q, j) \in Nat \ {0}
    BY <2>2 DEF IndexIn
  <2> QED
    BY <1>2, <2>1, <2>2 DEF Rows
<1>5. DOMAIN t \subseteq Items
  BY RowsTableType
<1> QED
  BY <1>1, <1>3, <1>4, <1>5, RowsTableIs

LEMMA QueryRows ==
    ASSUME NEW t, RowsTable(t), NEW T \in SUBSET DOMAIN t
    PROVE  \E n \in Nat : DOMAIN OrderByPosition(t, T) = 1..n /\ Len(OrderByPosition(t, T)) = n
<1>1. IsFiniteSet(T)
  BY RowsTableType, FS_Subset
<1>2. PICK n \in Nat : n = Cardinality(T)
  BY <1>1, FS_CardinalityType
<1>3. PICK f : f = OrderByPosition(t, T)
  OBVIOUS
<1>4. DOMAIN f = 1..n /\ f = [k \in 1..n |-> f[k]]
  BY <1>2, <1>3 DEF OrderByPosition, SortBy
<1>5. Len(f) = n
  BY <1>4
<1> QED
  BY <1>3, <1>4, <1>5

LEMMA EndRow ==
    ASSUME NEW t, RowsTable(t), NEW g \in Groups
    PROVE  [group |-> g, position |-> EndOf(t, g)] \in Rows
<1>1. IsFiniteSet(Siblings(t, g))
  BY RowsTableType, FS_Subset DEF Siblings
<1>2. EndOf(t, g) \in Nat \ {0}
  BY <1>1, FS_CardinalityType DEF EndOf
<1> QED
  BY <1>2 DEF Rows

LEMMA MoveWithinRows ==
    ASSUME NEW t, RowsTable(t), NEW i, NEW x
    PROVE  RowsTable(MoveWithin(t, i, x))
<1>1. PICK others : others = FetchOthers(t, t[i].group, i)
  OBVIOUS
<1>2. PICK n \in Nat : DOMAIN others = 1..n /\ Len(others) = n
  <2>1. Siblings(t, t[i].group) \ {i} \in SUBSET DOMAIN t
    BY DEF Siblings
  <2> QED
    BY <1>1, <2>1, QueryRows DEF FetchOthers
<1>3. PICK q : q = InsertItem(others, Clamp(x, Len(others) + 1), i)
  OBVIOUS
<1>4. DOMAIN q \subseteq Nat \ {0}
  BY <1>2, <1>3 DEF InsertItem
<1>5. RowsTable(PersistPositions(t, q))
  BY <1>4, PersistRows
<1> QED
  BY <1>1, <1>3, <1>5 DEF MoveWithin

LEMMA CreateRows ==
    ASSUME NEW t, RowsTable(t), NEW i \in Items, NEW g \in Groups
    PROVE  RowsTable(CreateRow(t, i, g))
<1>1. PICK s : s = CreateRow(t, i, g)
  OBVIOUS
<1>2. PICK row : row = [group |-> g, position |-> EndOf(t, g)]
  OBVIOUS
<1>3. s = [j \in DOMAIN t \cup {i} |-> IF j = i THEN row ELSE t[j]]
  BY <1>1, <1>2 DEF CreateRow
<1>4. row \in Rows /\ DOMAIN t \subseteq Items /\ \A j \in DOMAIN t : t[j] \in Rows
  BY <1>2, EndRow, RowsTableType
<1>5. DOMAIN s \subseteq Items /\ s = [j \in DOMAIN s |-> s[j]] /\ \A j \in DOMAIN s : s[j] \in Rows
  BY <1>3, <1>4
<1> QED
  BY <1>1, <1>5, RowsTableIs

LEMMA MoveAcrossRows ==
    ASSUME NEW t, RowsTable(t), NEW i, NEW g \in Groups
    PROVE  RowsTable(MoveAcross(t, i, g))
<1>1. PICK row : row = [group |-> g, position |-> EndOf(t, g)]
  OBVIOUS
<1>2. PICK moved : moved = [t EXCEPT ![i] = row]
  OBVIOUS
<1>3. RowsTable(moved)
  <2>1. row \in Rows /\ DOMAIN t \subseteq Items /\ \A j \in DOMAIN t : t[j] \in Rows
    BY <1>1, EndRow, RowsTableType
  <2>2. moved = [j \in DOMAIN t |-> IF j = i THEN row ELSE t[j]]
    BY <1>2
  <2>3. /\ DOMAIN moved \subseteq Items /\ moved = [j \in DOMAIN moved |-> moved[j]]
        /\ \A j \in DOMAIN moved : moved[j] \in Rows
    BY <2>1, <2>2
  <2> QED
    BY <2>3, RowsTableIs
<1>4. PICK first : first = FetchOthers(t, t[i].group, i)
  OBVIOUS
<1>5. DOMAIN first \subseteq Nat \ {0}
  <2>1. Siblings(t, t[i].group) \ {i} \in SUBSET DOMAIN t
    BY DEF Siblings
  <2>2. PICK n \in Nat : DOMAIN first = 1..n
    BY <1>4, <2>1, QueryRows DEF FetchOthers
  <2> QED
    BY <2>2
<1>6. PICK left : left = PersistPositions(moved, first)
  OBVIOUS
<1>7. RowsTable(left)
  BY <1>3, <1>5, <1>6, PersistRows
<1>8. PICK others : others = FetchGroup(t, g)
  OBVIOUS
<1>9. PICK n \in Nat : DOMAIN others = 1..n /\ Len(others) = n
  <2>1. Siblings(t, g) \in SUBSET DOMAIN t
    BY DEF Siblings
  <2> QED
    BY <1>8, <2>1, QueryRows DEF FetchGroup
<1>10. PICK q : q = InsertItem(others, Len(others) + 1, i)
  OBVIOUS
<1>11. DOMAIN q \subseteq Nat \ {0}
  BY <1>9, <1>10 DEF InsertItem
<1>12. RowsTable(PersistPositions(left, q))
  BY <1>7, <1>11, PersistRows
<1> QED
  BY <1>1, <1>2, <1>4, <1>6, <1>8, <1>10, <1>12 DEF MoveAcross

LEMMA SyncedRows ==
    ASSUME NEW t, RowsTable(t), NEW i \in Items, NEW g \in Groups
    PROVE  RowsTable(Synced(t, i, g))
<1>1. RowsTable(CreateRow(t, i, g))
  BY CreateRows
<1>2. RowsTable(MoveWithin(t, i, t[i].position))
  BY MoveWithinRows
<1>3. RowsTable(MoveAcross(t, i, g))
  BY MoveAcrossRows
<1> QED
  BY <1>1, <1>2, <1>3 DEF Synced

LEMMA DeleteRows ==
    ASSUME NEW t, RowsTable(t), NEW i
    PROVE  RowsTable(DeleteRow(t, i))
<1>1. CASE i \notin DOMAIN t
  BY <1>1 DEF DeleteRow
<1>2. CASE i \in DOMAIN t
  <2>1. PICK gone : gone = [j \in DOMAIN t \ {i} |-> t[j]]
    OBVIOUS
  <2>2. RowsTable(gone)
    <3>1. /\ DOMAIN gone \subseteq Items /\ gone = [j \in DOMAIN gone |-> gone[j]]
          /\ \A j \in DOMAIN gone : gone[j] \in Rows
      BY <2>1, RowsTableType
    <3> QED
      BY <3>1, RowsTableIs
  <2>3. PICK others : others = FetchOthers(t, t[i].group, i)
    OBVIOUS
  <2>4. DOMAIN others \subseteq Nat \ {0}
    <3>1. Siblings(t, t[i].group) \ {i} \in SUBSET DOMAIN t
      BY DEF Siblings
    <3>2. PICK n \in Nat : DOMAIN others = 1..n
      BY <2>3, <3>1, QueryRows DEF FetchOthers
    <3> QED
      BY <3>2
  <2>5. RowsTable(PersistPositions(gone, others))
    BY <2>2, <2>4, PersistRows
  <2> QED
    BY <1>2, <2>1, <2>3, <2>5 DEF DeleteRow
<1> QED
  BY <1>1, <1>2

(* Both tables of a pass hold order rows.                                  *)
LEMMA GoalRows ==
    ASSUME OrderTxInv, NEW p \in Procs
    PROVE  RowsTable(Goal(p)) /\ RowsTable(View(p))
<1>1. Item(p) \in Items /\ op[p].group \in Groups
  BY OpType DEF OrderTxInv
<1>2. RowsTable(db) /\ RowsTable(View(p))
  BY AloneTables DEF Table, RowsTable
<1>3. RowsTable(DeleteRow(db, Item(p)))
  BY <1>2, DeleteRows
<1>4. RowsTable(Synced(db, Item(p), op[p].group))
  BY <1>1, <1>2, SyncedRows
<1>5. RowsTable(MoveWithin(Base(p), Item(p), op[p].position))
  <2>1. RowsTable(Base(p))
    BY <1>2, <1>4 DEF Base
  <2> QED
    BY <2>1, MoveWithinRows
<1> QED
  BY <1>2, <1>3, <1>4, <1>5 DEF Goal

(* When no statement is left, the goal is reached.                         *)
LEMMA LeadsNowhere ==
    ASSUME NEW t, RowsTable(t), NEW goal, RowsTable(goal), NEW ws, ws = <<>>, Leads(ws, t, goal)
    PROVE  t = goal
<1>1. \A j \in Items : RowOf(t, j) = RowOf(goal, j)
  <2>1. DOMAIN ws = {}
    OBVIOUS
  <2>2. \A j : RowAfter(ws, t, j) = RowOf(t, j)
    BY <2>1, RowAfterNone DEF RowOf
  <2> QED
    BY <2>2 DEF Leads
<1>2. /\ DOMAIN t \subseteq Items /\ t = [j \in DOMAIN t |-> t[j]]
      /\ \A j \in DOMAIN t : t[j] # NoRow
      /\ DOMAIN goal \subseteq Items /\ goal = [j \in DOMAIN goal |-> goal[j]]
      /\ \A j \in DOMAIN goal : goal[j] # NoRow
  BY RowsTableType
<1>3. DOMAIN t = DOMAIN goal
  BY <1>1, <1>2 DEF RowOf
<1>4. \A j \in DOMAIN t : t[j] = goal[j]
  BY <1>1, <1>2, <1>3 DEF RowOf
<1> QED
  BY <1>2, <1>3, <1>4

(* The next statement meets no taken key.                                  *)
LEMMA LeadsFree ==
    ASSUME NEW ws \in Seq(Writes), ws # <<>>, NEW t, NEW goal, Leads(ws, t, goal)
    PROVE  IsFree(Head(ws), t)
<1>1. 1 \in DOMAIN ws /\ ws[1] = Head(ws) /\ 1..(1 - 1) = {}
  BY HeadAndTail
<1> QED
  BY <1>1 DEF Leads, Clear, IsFree

LEMMA ValidateAlone ==
    ASSUME OrderTxInv, NEW p \in Procs, AlonePart(p), Validate(p)
    PROVE  AlonePart(p)' /\ Refined(p)
<1>1. /\ UNCHANGED <<db, schedules, op>> /\ tx[p].pc = "validate" /\ TypeOK /\ Sound(p)
      /\ FollowsItsCourse(p) /\ RemovesItsRow(p) /\ schedules = Items /\ WritesToGoal(p)
      /\ tx[p].own = NoRow /\ tx[p].writes = Creation(p) /\ tx[p].own = RowOf(Base(p), Item(p))
  BY DEF Validate, AlonePart, OrderTxInv, Sound
<1>2. PICK S \in SUBSET Items : tx[p] \in Transactions(S)
  BY <1>1 DEF TypeOK
<1>3. /\ op[p].kind # "remove" /\ ~tx[p].placing /\ View(p) = db /\ Table(db)
      /\ Item(p) \in Items /\ op[p].group \in Groups
  <2>1. op[p].kind # "remove"
    BY <1>1 DEF RemovesItsRow
  <2> QED
    BY <1>1, <2>1, AloneTables, OpType DEF FollowsItsCourse
<1>4. Item(p) \notin DOMAIN db
  BY <1>1, <1>3, TableType DEF Base, RowOf
<1>5. PICK ws \in Seq(Writes) : ws = tx[p].writes
  BY <1>2 DEF Transactions
<1>6. PICK w : w = Head(ws)
  OBVIOUS
<1>7. ws # <<>> /\ w.item = Item(p) /\ w.row # NoRow
  <2>1. tx[p].fetched[op[p].group] \in Seq(Entries)
    BY <1>1, <1>3, FetchedEntries DEF Sound
  <2>2. PICK n \in Nat \ {0} : n = Len(tx[p].fetched[op[p].group]) + 1
    BY <2>1
  <2>3. PICK i \in Items : i = Item(p)
    BY <1>3
  <2>4. PICK g \in Groups : g = op[p].group
    BY <1>3
  <2>5. ws = <<Write(i, g, n)>>
    BY <1>1, <1>5, <2>2, <2>3, <2>4 DEF Creation
  <2>6. w = Write(i, g, n) /\ ws # <<>>
    BY <1>6, <2>5
  <2>7. Write(i, g, n).item = i /\ Write(i, g, n).row # NoRow
    BY WriteType
  <2> QED
    BY <2>3, <2>6, <2>7
<1>8. CASE Blocked(p) /\ Ended(p, "died")
  BY <1>1, <1>3, <1>8, FailedAlone
<1>9. CASE ~Blocked(p) /\ Ended(p, "died") /\ Taken(p, Item(p), w.row)
  <2>1. Leads(ws, View(p), Goal(p))
    BY <1>1, <1>5, <1>9 DEF WritesToGoal
  <2>2. IsFree(w, View(p))
    BY <1>6, <1>7, <2>1, LeadsFree
  <2> QED
    BY <1>7, <1>9, <2>2 DEF IsFree, Taken
<1>10. CASE Goto(p, [tx[p] EXCEPT !.pc = "write"])
  <2>1. PICK t : t = [tx[p] EXCEPT !.pc = "write"]
    OBVIOUS
  <2>2. /\ t.pc = "write" /\ t.writes = tx[p].writes /\ t.work = tx[p].work
        /\ t.own = tx[p].own /\ t.placing = tx[p].placing
    BY <1>2, <2>1 DEF Transactions
  <2>3. tx'[p] = t
    BY <1>1, <1>10, <2>1, OnlyOne DEF Goto
  <2>4. /\ Base(p)' = Base(p) /\ Goal(p)' = Goal(p) /\ (Blocked(p)' <=> Blocked(p))
        /\ Item(p)' = Item(p) /\ View(p)' = View(p)
    BY <1>1, <2>2, <2>3, SamePass DEF View
  <2>5. WritesToGoal(p)'
    BY <1>1, <2>2, <2>3, <2>4 DEF WritesToGoal
  <2> QED
    BY <1>1, <1>3, <2>2, <2>3, <2>4, <2>5 DEF AlonePart, Refined, Fetches
<1> QED
  BY <1>1, <1>3, <1>4, <1>5, <1>6, <1>8, <1>9, <1>10 DEF Validate

(* A row that is to come to a taken position is refused.                   *)
LEMMA BlockedIsRefused ==
    ASSUME OrderTxInv, NEW p \in Procs, Blocked(p), tx[p].work = EmptyTable,
           NEW w, w = Write(Item(p), op[p].group, EndOf(db, op[p].group))
    PROVE  w.row # NoRow /\ Taken(p, w.item, w.row)
<1>1. /\ View(p) = db /\ Table(db) /\ Item(p) \in Items
  BY AloneTables, OpType DEF OrderTxInv
<1>2. PICK g \in Groups : g = op[p].group
  BY OpType DEF OrderTxInv
<1>3. PICK n : n = EndOf(db, g)
  OBVIOUS
<1>4. n \in Nat \ {0}
  <2>1. IsFiniteSet(Siblings(db, g))
    BY <1>1, TableType, FS_Subset DEF Siblings
  <2> QED
    BY <1>3, <2>1, FS_CardinalityType DEF EndOf
<1>5. w.item = Item(p) /\ w.row = [group |-> g, position |-> n] /\ w.row # NoRow
  BY <1>1, <1>2, <1>3, <1>4, WriteType
<1>6. PICK j \in Siblings(db, g) : db[j].position = n
  BY <1>2, <1>3 DEF Blocked, EndIsFree
<1>7. j \in DOMAIN db /\ db[j].group = g /\ j # Item(p)
  BY <1>2 DEF Siblings, Blocked
<1>8. KeyOf(db[j]) = KeyOf(w.row)
  BY <1>5, <1>6, <1>7 DEF KeyOf
<1> QED
  BY <1>1, <1>5, <1>7, <1>8 DEF Taken

LEMMA WriteRowAlone ==
    ASSUME OrderTxInv, NEW p \in Procs, AlonePart(p), WriteRow(p)
    PROVE  AlonePart(p)' /\ Refined(p)
<1>1. /\ UNCHANGED <<db, schedules, op>> /\ tx[p].pc = "write" /\ tx[p].writes # <<>>
      /\ TypeOK /\ FollowsItsCourse(p) /\ schedules = Items /\ WritesToGoal(p)
      /\ tx[p].own = RowOf(Base(p), Item(p))
  BY DEF WriteRow, AlonePart, OrderTxInv, Sound
<1>2. PICK S \in SUBSET Items : tx[p] \in Transactions(S)
  BY <1>1 DEF TypeOK
<1>3. PICK ws \in Seq(Writes) : ws = tx[p].writes
  BY <1>2 DEF Transactions
<1>4. CASE Blocked(p) /\ op[p].kind # "remove"
  <2>1. PICK w : w = Head(tx[p].writes)
    OBVIOUS
  <2>2. tx[p].work = EmptyTable /\ w = Write(Item(p), op[p].group, EndOf(db, op[p].group))
    BY <1>1, <1>4, <2>1 DEF WritesToGoal
  <2>3. w.row # NoRow /\ Taken(p, w.item, w.row)
    BY <1>4, <2>2, BlockedIsRefused
  <2>4. IntegrityError(p)
    BY <2>1, <2>3 DEF WriteRow
  <2> QED
    BY <1>1, <1>4, <2>4, FailedAlone
<1>5. CASE ~(Blocked(p) /\ op[p].kind # "remove")
  <2>1. Leads(ws, View(p), Goal(p))
    BY <1>1, <1>3, <1>5 DEF WritesToGoal
  <2>2. ~\E w \in Writes : FailsOn(p, w)
    <3>1. SUFFICES ASSUME NEW w \in Writes, FailsOn(p, w) PROVE FALSE
      OBVIOUS
    <3>2. w = Head(ws) /\ w.row # NoRow
      BY <1>3, <3>1 DEF FailsOn
    <3>3. IsFree(w, View(p))
      BY <1>1, <1>3, <2>1, <3>2, LeadsFree
    <3>4. ~Taken(p, w.item, w.row)
      BY <3>2, <3>3 DEF Taken, IsFree
    <3>5. tx[p].own = NoRow => Item(p) \notin DOMAIN db
      <4>1. ASSUME tx[p].own = NoRow PROVE Item(p) \notin DOMAIN db
        <5>1. Base(p) = db /\ Table(db)
          BY <1>1, <4>1, AloneTables DEF Base, FollowsItsCourse
        <5> QED
          BY <1>1, <4>1, <5>1, TableType DEF RowOf
      <4> QED
        BY <4>1
    <3> QED
      BY <3>1, <3>4, <3>5 DEF FailsOn
  <2>3. PICK w \in Writes : WritesRow(p, w)
    BY <2>2, WriteRowWrites
  <2>4. /\ tx'[p].pc = "write" /\ tx'[p].own = tx[p].own /\ tx'[p].placing = tx[p].placing
        /\ tx'[p].writes = Tail(ws) /\ w = Head(ws)
    BY <1>3, <2>3 DEF WritesRow
  <2>5. PICK s : s = View(p)'
    OBVIOUS
  <2>6. WrittenTo(s, View(p), w)
    BY <2>3, <2>5, WriteShows DEF WrittenTo
  <2>7. Leads(Tail(ws), s, Goal(p))
    BY <1>1, <1>3, <2>1, <2>4, <2>6, LeadsRest
  <2>8. /\ Base(p)' = Base(p) /\ Goal(p)' = Goal(p) /\ (Blocked(p)' <=> Blocked(p))
        /\ Item(p)' = Item(p)
    BY <1>1, <2>4, SamePass
  <2>9. WritesToGoal(p)'
    <3>1. Leads(tx[p].writes, View(p), Goal(p))'
      BY <2>4, <2>5, <2>7, <2>8
    <3> QED
      BY <1>1, <1>5, <2>8, <3>1 DEF WritesToGoal
  <2> QED
    BY <1>1, <2>4, <2>8, <2>9 DEF AlonePart, Refined, Fetches
<1> QED
  BY <1>4, <1>5

(* When all is written, the table is the one the pass was to end in.       *)
LEMMA WrittenAlone ==
    ASSUME OrderTxInv, NEW p \in Procs, AlonePart(p), tx[p].pc = "write", tx[p].writes = <<>>
    PROVE  View(p) = Goal(p) /\ (op[p].kind # "remove" => ~Blocked(p))
<1>1. WritesToGoal(p)
  BY DEF AlonePart
<1>2. ~(Blocked(p) /\ op[p].kind # "remove")
  BY <1>1 DEF WritesToGoal
<1>3. PICK ws : ws = tx[p].writes
  OBVIOUS
<1>4. Leads(ws, View(p), Goal(p)) /\ ws = <<>>
  BY <1>1, <1>2, <1>3 DEF WritesToGoal
<1>5. View(p) = Goal(p)
  BY <1>4, GoalRows, LeadsNowhere
<1> QED
  BY <1>2, <1>5

LEMMA EndWritesAlone ==
    ASSUME OrderTxInv, NEW p \in Procs, AlonePart(p), EndWrites(p)
    PROVE  AlonePart(p)' /\ Refined(p)
<1>1. /\ UNCHANGED <<db, schedules, op>> /\ tx[p].pc = "write" /\ tx[p].writes = <<>> /\ TypeOK
      /\ op[p].kind = "place" => tx[p].placing
  BY DEF EndWrites, OrderTxInv
<1>2. View(p) = Goal(p) /\ (op[p].kind # "remove" => ~Blocked(p))
  BY <1>1, WrittenAlone
<1>3. PICK S \in SUBSET Items : tx[p] \in Transactions(S)
  BY <1>1 DEF TypeOK
<1>4. PICK t : t = [tx[p] EXCEPT !.pc = "commit"]
  OBVIOUS
<1>5. Goto(p, t)
  BY <1>4 DEF EndWrites
<1>6. t.pc = "commit" /\ t.work = tx[p].work /\ t.placing = tx[p].placing
  BY <1>3, <1>4 DEF Transactions
<1>7. tx'[p] = t
  BY <1>1, <1>5, OnlyOne DEF Goto
<1>8. /\ Goal(p)' = Goal(p) /\ (Blocked(p)' <=> Blocked(p)) /\ View(p)' = View(p)
  BY <1>1, <1>6, <1>7, SamePass DEF View
<1> QED
  BY <1>1, <1>2, <1>6, <1>7, <1>8 DEF AlonePart, Refined, Fetches, WritesToGoal

LEMMA PlaceNextAlone ==
    ASSUME OrderTxInv, NEW p \in Procs, AlonePart(p), PlaceNext(p)
    PROVE  AlonePart(p)' /\ Refined(p)
<1>1. /\ UNCHANGED <<db, schedules, op>> /\ tx[p].pc = "write" /\ tx[p].writes = <<>>
      /\ op[p].kind = "place" /\ ~tx[p].placing /\ TypeOK /\ schedules = Items
  BY DEF PlaceNext, AlonePart, OrderTxInv
<1>2. PICK S \in SUBSET Items : tx[p] \in Transactions(S)
  BY <1>1 DEF TypeOK
<1>3. PICK g \in Groups : g = op[p].group
  BY <1>1, OpType
<1>4. ~Blocked(p) /\ View(p) = Synced(db, Item(p), g) /\ Table(View(p))
  BY <1>1, <1>3, WrittenAlone, AloneTables DEF Goal
<1>5. Item(p) \in DOMAIN View(p) /\ View(p)[Item(p)].group = g
  BY <1>3, <1>4, SyncedGroup DEF Blocked
<1>6. PICK row \in Rows : row = View(p)[Item(p)] /\ row.group = g
  BY <1>4, <1>5, TableType
<1>7. row # NoRow /\ row = RowOf(View(p), Item(p))
  BY <1>5, <1>6, RowType DEF RowOf
<1>8. PICK t : t = [tx[p] EXCEPT !.pc = "fetch", !.placing = TRUE, !.own = row,
                                 !.groups = <<g>>, !.fetched[g] = <<>>]
  OBVIOUS
<1>9. Goto(p, t)
  BY <1>1, <1>6, <1>8 DEF PlaceNext
<1>10. /\ t.pc = "fetch" /\ t.placing = TRUE /\ t.own = row /\ t.groups = <<g>>
       /\ t.fetched[g] = <<>> /\ t.work = tx[p].work
  BY <1>2, <1>8 DEF Transactions
<1>11. tx'[p] = t
  BY <1>1, <1>9, OnlyOne DEF Goto
<1>12. View(p)' = View(p) /\ Item(p)' = Item(p) /\ (Blocked(p)' <=> Blocked(p))
  BY <1>1, <1>10, <1>11 DEF View, Item, Blocked
<1>13. Base(p)' = View(p)
  BY <1>1, <1>3, <1>4, <1>10, <1>11 DEF Base, Item
<1>14. Renumbers(p)' = {g}
  BY <1>1, <1>3, <1>6, <1>7, <1>10, <1>11 DEF Renumbers
<1>15. DOMAIN t.groups = {1} /\ t.groups[1] = g
  BY <1>10
<1>16. Unread(p, g)' = FetchGroup(View(p), g)
  BY <1>10, <1>11, <1>13, <1>15 DEF Unread
<1>17. Fetches(p)'
  <2>1. Reads(t.fetched[g], Unread(p, g)', FetchGroup(View(p), g), View(p))
    BY <1>4, <1>10, <1>16, ReadsNothing
  <2> QED
    BY <1>11, <1>12, <1>13, <1>14, <1>15, <2>1 DEF Fetches
<1> QED
  BY <1>1, <1>4, <1>7, <1>10, <1>11, <1>12, <1>13, <1>17 DEF AlonePart, Refined, WritesToGoal

LEMMA CommitAlone ==
    ASSUME OrderTxInv, NEW p \in Procs, AlonePart(p), Commit(p)
    PROVE  AlonePart(p)' /\ Refined(p)
<1>1. /\ tx[p].pc = "commit" /\ op' = op /\ schedules = Items /\ Item(p) \in Items
      /\ op[p].kind \in {"sync", "place", "remove"} /\ FollowsItsCourse(p)
      /\ View(p) = Goal(p) /\ (op[p].kind # "remove" => ~Blocked(p))
      /\ op[p].kind = "place" => tx[p].placing
  BY OpType DEF Commit, AlonePart, OrderTxInv, Sound
<1>2. db' = View(p) /\ Ended(p, "done")
  <2>1. Created(p) \ schedules = {}
    BY <1>1 DEF Created
  <2> QED
    BY <2>1 DEF Commit
<1>3. tx[p].placing => op[p].kind = "place"
  BY <1>1 DEF FollowsItsCourse
<1>4. Goal(p) = Final(p)
  BY <1>1, <1>3 DEF Goal, Final, Base
<1> QED
  BY <1>1, <1>2, <1>4, EndedAlone

(* Nobody waits for anybody when there is one process.                     *)
LEMMA NoCycleAlone ==
    ASSUME NEW p, Procs = {p}
    PROVE  ~OnCycle(p)
<1>1. Blockers(p) = {} /\ {} \in SUBSET Procs
  BY DEF Blockers
<1> QED
  BY <1>1 DEF OnCycle

LEMMA StepAlone ==
    ASSUME NEW p, Procs = {p}, OrderTxInv, AlonePart(p), Step(p)
    PROVE  AlonePart(p)' /\ Refined(p)
<1>1. p \in Procs /\ ~OnCycle(p)
  BY NoCycleAlone
<1>2. CASE ReadSchedule(p)
  BY <1>1, <1>2, ReadScheduleAlone
<1>3. CASE LockSchedule(p)
  BY <1>1, <1>3, LockScheduleAlone
<1>4. CASE LockOwn(p)
  BY <1>1, <1>4, LockOwnAlone, NothingToRemove
<1>5. CASE StartFetch(p)
  BY <1>1, <1>5, StartFetchAlone
<1>6. CASE LockRow(p)
  BY <1>1, <1>6, LockRowAlone
<1>7. CASE EndFetch(p)
  BY <1>1, <1>7, EndFetchAlone
<1>8. CASE Compute(p)
  BY <1>1, <1>8, ComputeAlone
<1>9. CASE Validate(p)
  BY <1>1, <1>9, ValidateAlone
<1>10. CASE WriteRow(p)
  BY <1>1, <1>10, WriteRowAlone
<1>11. CASE PlaceNext(p)
  BY <1>1, <1>11, PlaceNextAlone
<1>12. CASE EndWrites(p)
  BY <1>1, <1>12, EndWritesAlone
<1>13. CASE Commit(p)
  BY <1>1, <1>13, CommitAlone
<1>14. CASE AbortDeadlock(p)
  BY <1>1, <1>14 DEF AbortDeadlock
<1> QED
  BY <1>2, <1>3, <1>4, <1>5, <1>6, <1>7, <1>8, <1>9, <1>10, <1>11, <1>12, <1>13,
     <1>14 DEF Step

LEMMA AloneFromTheStart ==
    ASSUME Init, NEW p \in Procs
    PROVE  AlonePart(p) /\ Atomic!Init
<1>1. tx = [q \in Procs |-> Fresh("start", 1)] /\ schedules = Items
  BY DEF Init
<1>2. \A q \in Procs : tx[q].pc = "start" /\ ~tx[q].placing
  BY <1>1 DEF Fresh
<1>3. AlonePart(p)
  BY <1>1, <1>2 DEF AlonePart, Fetches, WritesToGoal
<1>4. {q \in Procs : tx[q].pc = "ended"} = {}
  BY <1>2
<1> QED
  BY <1>3, <1>4 DEF Init, Atomic!Init

(* What a step shows is the operation, or nothing.                         *)
LEMMA RefinedIsAtomic ==
    ASSUME NEW p, Procs = {p}, OrderTxInv, Refined(p)
    PROVE  [Atomic!Next]_<<db, op, {q \in Procs : tx[q].pc = "ended"}>>
<1> DEFINE ended == {q \in Procs : tx[q].pc = "ended"}
<1>1. /\ ended = IF tx[p].pc = "ended" THEN {p} ELSE {}
      /\ ended' = IF tx'[p].pc = "ended" THEN {p} ELSE {}
  OBVIOUS
<1>2. CASE db' = db /\ (tx[p].pc = "ended" <=> tx'[p].pc = "ended")
  <2>1. ended' = ended
    BY <1>1, <1>2
  <2> QED
    BY <1>2, <2>1 DEF Refined
<1>3. CASE db' = Final(p) /\ tx[p].pc # "ended" /\ tx'[p].pc = "ended"
  <2>1. p \notin ended /\ ended' = ended \cup {p}
    BY <1>1, <1>3
  <2>2. Atomic!Result(op[p]) = Final(p)
    BY ResultIsFinal DEF OrderTxInv
  <2>3. Atomic!Run(p)
    BY <1>3, <2>1, <2>2 DEF Refined, Atomic!Run
  <2> QED
    BY <2>3 DEF Atomic!Next
<1> QED
  BY <1>2, <1>3 DEF Refined

(* A transaction that runs alone shows one step, from the table it found   *)
(* to the one its operation promises: neither pass of                      *)
(* _persist_group_positions meets an occupied position, whatever the table *)
(* before it, and a collision that the operation as a whole runs into      *)
(* leaves the table as it was after every retry                            *)
(* (_run_schedule_item_order_operation_with_retries).                      *)
THEOREM RunsAtomicallyHolds ==
    ASSUME NEW only, Procs = {only}
    PROVE  Spec => RunsAtomically
<1>1. Init => AlonePart(only) /\ Atomic!Init
  BY AloneFromTheStart
<1>2. ASSUME OrderTxInv, AlonePart(only), [Next]_vars
      PROVE  AlonePart(only)' /\ [Atomic!Next]_<<db, op, {p \in Procs : tx[p].pc = "ended"}>>
  <2>1. CASE Step(only)
    BY <1>2, <2>1, StepAlone, RefinedIsAtomic
  <2>2. CASE UNCHANGED vars
    <3>1. UNCHANGED <<db, schedules, op, tx>>
      BY <2>2 DEF vars
    <3>2. AlonePart(only)'
      BY <1>2, <3>1 DEF AlonePart, Fetches, WritesToGoal, Blocked, Base, Goal, Creation,
            View, Item, Renumbers, Unread
    <3> QED
      BY <3>1, <3>2
  <2> QED
    BY <1>2, <2>1, <2>2 DEF Next
<1>3. OrderTxInv /\ AlonePart(only) /\ [Next]_vars => AlonePart(only)'
  BY <1>2
<1>4. OrderTxInv /\ AlonePart(only) /\ [Next]_vars =>
          [Atomic!Next]_<<db, op, {p \in Procs : tx[p].pc = "ended"}>>
  BY <1>2
<1> QED
  BY <1>1, <1>3, <1>4, OrderTxInvHolds, PTL DEF Spec, RunsAtomically, Atomic!Spec

=============================================================================
