-------------------------- MODULE OrderRowsLemmas --------------------------
(***************************************************************************)
(* What the renumbering operators of OrderRows do to any table: they list  *)
(* exactly the rows of a group, leave sibling positions 1..n and keep the  *)
(* order of the rows they were not asked to move.                          *)
(***************************************************************************)
EXTENDS OrderRows, FiniteSetTheorems, FunctionTheorems, WellFoundedInduction, TLAPS

(* R orders S strictly and totally. *)
StrictOrder(S, R) ==
    /\ \A i \in S : <<i, i>> \notin R
    /\ \A i, j, k \in S : <<i, j>> \in R /\ <<j, k>> \in R => <<i, k>> \in R
    /\ \A i, j \in S : i = j \/ <<i, j>> \in R \/ <<j, i>> \in R

(* Each element of a sorted set is at the index that the number of those   *)
(* before it gives (the ORDER BY queries of _fetch_group_items_for_update  *)
(* and _get_primary_epic_relation).                                        *)
Rank(S, R, i) == Cardinality(Preceding(S, R, i))

LEMMA SortByRank ==
    ASSUME NEW S, IsFiniteSet(S), NEW R, StrictOrder(S, R)
    PROVE  /\ Cardinality(S) \in Nat
           /\ \A i \in S : Rank(S, R, i) \in 0..(Cardinality(S) - 1)
           /\ \A i, j \in S : <<i, j>> \in R => Rank(S, R, i) < Rank(S, R, j)
           /\ SortBy(S, R) \in [1..Cardinality(S) -> S]
           /\ \A k \in 1..Cardinality(S) : Rank(S, R, SortBy(S, R)[k]) = k - 1
<1> DEFINE n == Cardinality(S)
           rank(i) == Cardinality(Preceding(S, R, i))
<1>0. n \in Nat
  BY FS_CardinalityType
<1>1. ASSUME NEW i \in S
      PROVE  /\ IsFiniteSet(Preceding(S, R, i))
             /\ rank(i) \in 0..(n - 1)
  <2>1. Preceding(S, R, i) \subseteq S \ {i}
    BY DEF Preceding, StrictOrder
  <2>2. IsFiniteSet(S \ {i}) /\ Cardinality(S \ {i}) = n - 1
    BY FS_RemoveElement
  <2>3. IsFiniteSet(Preceding(S, R, i)) /\ rank(i) <= n - 1
    BY <2>1, <2>2, FS_Subset
  <2> QED
    BY <2>3, <1>0, FS_CardinalityType
<1>2. ASSUME NEW i \in S, NEW j \in S, <<i, j>> \in R
      PROVE  rank(i) < rank(j)
  <2>1. /\ Preceding(S, R, i) \subseteq Preceding(S, R, j)
        /\ Preceding(S, R, i) # Preceding(S, R, j)
    BY <1>2 DEF Preceding, StrictOrder
  <2> QED
    BY <2>1, <1>1, FS_Subset
<1> DEFINE f == [i \in S |-> rank(i) + 1]
<1>3. f \in [S -> 1..n]
  BY <1>0, <1>1
<1>4. \A i, j \in S : f[i] = f[j] => i = j
  <2>1. SUFFICES ASSUME NEW i \in S, NEW j \in S, i # j
                 PROVE  f[i] # f[j]
    OBVIOUS
  <2>2. rank(i) \in Int /\ rank(j) \in Int
    BY <1>1, <1>0
  <2>3. rank(i) < rank(j) \/ rank(j) < rank(i)
    BY <2>1, <1>2 DEF StrictOrder
  <2> QED
    BY <2>2, <2>3
<1>5. f \in Injection(S, 1..n)
  BY <1>3, <1>4, Fun_IsInj
<1>6. f \in Surjection(S, 1..n)
  <2>1. IsFiniteSet(1..n) /\ Cardinality(1..n) = n
    BY <1>0, FS_Interval
  <2> QED
    BY <1>5, <2>1, FS_Injection
<1>7. \A k \in 1..n : \E i \in S : rank(i) = k - 1
  <2>1. \A k \in 1..n : \E i \in S : f[i] = k
    BY <1>6 DEF Surjection
  <2> QED
    BY <2>1, <1>1, <1>0
<1> DEFINE q == SortBy(S, R)
<1>8. /\ q \in [1..n -> S]
      /\ \A k \in 1..n : rank(q[k]) = k - 1
  BY <1>7 DEF SortBy
<1> QED
  BY <1>0, <1>1, <1>2, <1>8 DEF Rank

(* Sorting lists every element of the set once.                            *)
LEMMA SortByBijection ==
    ASSUME NEW S, IsFiniteSet(S), NEW R, StrictOrder(S, R)
    PROVE  /\ Cardinality(S) \in Nat
           /\ SortBy(S, R) \in Bijection(1..Cardinality(S), S)
<1> DEFINE n == Cardinality(S)
           q == SortBy(S, R)
<1>1. /\ n \in Nat /\ q \in [1..n -> S]
      /\ \A i \in S : Rank(S, R, i) \in 0..(n - 1)
      /\ \A i, j \in S : <<i, j>> \in R => Rank(S, R, i) < Rank(S, R, j)
      /\ \A k \in 1..n : Rank(S, R, q[k]) = k - 1
  BY SortByRank
<1> HIDE DEF n, q
<1>2. \A a, b \in 1..n : q[a] = q[b] => a = b
  BY <1>1
<1>3. ASSUME NEW i \in S, NEW j \in S, Rank(S, R, i) = Rank(S, R, j)
      PROVE  i = j
  <2>1. Rank(S, R, i) \in Int /\ Rank(S, R, j) \in Int
    BY <1>1
  <2>2. <<i, j>> \notin R /\ <<j, i>> \notin R
    BY <1>1, <1>3, <2>1
  <2> QED
    BY <2>2 DEF StrictOrder
<1>4. \A i \in S : \E k \in 1..n : q[k] = i
  <2>1. SUFFICES ASSUME NEW i \in S
                 PROVE  q[Rank(S, R, i) + 1] = i
    BY <1>1
  <2>2. Rank(S, R, i) + 1 \in 1..n /\ (Rank(S, R, i) + 1) - 1 = Rank(S, R, i)
    BY <1>1
  <2> QED
    BY <2>2, <1>1, <1>3
<1> QED
  BY <1>1, <1>2, <1>4, Fun_IsBij DEF n, q

(* A sorted set has at smaller indexes what comes first.                   *)
LEMMA SortByOrder ==
    ASSUME NEW S, IsFiniteSet(S), NEW R, StrictOrder(S, R),
           NEW a \in 1..Cardinality(S), NEW b \in 1..Cardinality(S)
    PROVE  <<SortBy(S, R)[a], SortBy(S, R)[b]>> \in R <=> a < b
<1> DEFINE n == Cardinality(S)
           q == SortBy(S, R)
<1>1. /\ n \in Nat /\ q \in [1..n -> S] /\ a \in 1..n /\ b \in 1..n
      /\ \A i, j \in S : <<i, j>> \in R => Rank(S, R, i) < Rank(S, R, j)
      /\ \A k \in 1..n : Rank(S, R, q[k]) = k - 1
  BY SortByRank
<1> HIDE DEF n, q
<1>2. <<q[a], q[b]>> \in R => a < b
  BY <1>1
<1>3. <<q[b], q[a]>> \in R => b < a
  BY <1>1
<1>4. q[a] = q[b] => a = b
  BY <1>1
<1>5. q[a] = q[b] \/ <<q[a], q[b]>> \in R \/ <<q[b], q[a]>> \in R
  BY <1>1 DEF StrictOrder
<1> QED
  BY <1>1, <1>2, <1>3, <1>4, <1>5 DEF q

(* A set of numbers up to n has a least: of the intervals from 1 to its     *)
(* elements one is least, as strict inclusion is well-founded.              *)
LEMMA HasLeast ==
    ASSUME NEW n \in Nat, NEW S, S \subseteq 1..n, S # {}
    PROVE  \E x \in S : \A y \in S : x <= y
<1> DEFINE Down(x) == 1..x
           T == {Down(x) : x \in S}
<1>1. IsFiniteSet(1..n) /\ FiniteSubsetsOf(1..n) = SUBSET (1..n)
  BY FS_Interval, FS_FiniteSubsetsOfFinite
<1>2. T \subseteq SUBSET (1..n) /\ T # {}
  <2>1. \A x \in S : Down(x) \subseteq 1..n
    OBVIOUS
  <2> HIDE DEF Down
  <2> QED
    BY <2>1
<1>3. IsWellFoundedOn(StrictSubsetOrdering(1..n), SUBSET (1..n))
  BY <1>1, FS_StrictSubsetOrderingWellFounded
<1>4. PICK U \in T : \A V \in T : ~(<<V, U>> \in StrictSubsetOrdering(1..n))
  <2> HIDE DEF T
  <2> QED
    BY <1>2, <1>3, WFMin
<1>5. PICK x \in S : U = Down(x)
  OBVIOUS
<1>6. ASSUME NEW y \in S, y < x PROVE FALSE
  <2>1. Down(y) \in T /\ Down(y) \subseteq Down(x) /\ x \in Down(x) /\ x \notin Down(y)
    BY <1>6
  <2>2. <<Down(y), U>> \in StrictSubsetOrdering(1..n)
    BY <1>2, <1>5, <2>1 DEF StrictSubsetOrdering
  <2> QED
    BY <1>4, <2>1, <2>2
<1> QED
  BY <1>6

(* What the proofs use of a listing: its items are exactly those of S, each *)
(* at one index.                                                           *)
Lists(items, S, n) ==
    /\ n \in Nat
    /\ items \in [1..n -> S]
    /\ \A a, b \in 1..n : items[a] = items[b] => a = b
    /\ \A i \in S : \E k \in 1..n : items[k] = i

LEMMA SortByLists ==
    ASSUME NEW S, IsFiniteSet(S), NEW R, StrictOrder(S, R)
    PROVE  Lists(SortBy(S, R), S, Cardinality(S))
BY SortByBijection, Fun_BijectionProperties DEF Lists

(* The order-row query of a group returns each of its rows once.           *)
LEMMA OrderByPositionLists ==
    ASSUME NEW r, NEW S, IsFiniteSet(S),
           \A i \in S : r[i].position \in Int,
           \A i, j \in S : r[i].position = r[j].position => i = j
    PROVE  Lists(OrderByPosition(r, S), S, Cardinality(S))
<1>1. StrictOrder(S, ByPosition(r, S))
  BY DEF StrictOrder, ByPosition
<1> QED
  BY <1>1, SortByLists DEF OrderByPosition

(* list.insert adds one element and keeps the rest.                        *)
LEMMA InsertItemLists ==
    ASSUME NEW items, NEW S, NEW n, Lists(items, S, n),
           NEW i, i \notin S, NEW k \in 1..(n + 1)
    PROVE  Lists(InsertItem(items, k, i), S \cup {i}, n + 1)
<1> DEFINE q == InsertItem(items, k, i)
<1>0. n \in Nat /\ Len(items) = n
  BY DEF Lists
<1>1. q = [m \in 1..(n + 1) |->
             IF m < k THEN items[m] ELSE IF m = k THEN i ELSE items[m - 1]]
  BY <1>0 DEF InsertItem
<1>2. q \in [1..(n + 1) -> S \cup {i}]
  BY <1>0, <1>1 DEF Lists
<1>3. \A a, b \in 1..(n + 1) : q[a] = q[b] => a = b
  BY <1>0, <1>1 DEF Lists
<1>4. \A j \in S \cup {i} : \E m \in 1..(n + 1) : q[m] = j
  <2>1. SUFFICES ASSUME NEW j \in S \cup {i}
                 PROVE  \E m \in 1..(n + 1) : q[m] = j
    OBVIOUS
  <2>2. CASE j = i
    BY <2>2, <1>0, <1>1
  <2>3. CASE j # i
    <3>1. PICK m \in 1..n : items[m] = j
      BY <2>3 DEF Lists
    <3>2. CASE m < k
      BY <3>1, <3>2, <1>0, <1>1
    <3>3. CASE m >= k
      <4>1. m + 1 \in 1..(n + 1) /\ q[m + 1] = j
        BY <3>1, <3>3, <1>0, <1>1
      <4> QED
        BY <4>1
    <3> QED
      BY <3>2, <3>3, <1>0
  <2> QED
    BY <2>2, <2>3
<1> QED
  BY <1>0, <1>2, <1>3, <1>4 DEF Lists

(* Renumbering writes the listed rows' indices and nothing else.           *)
LEMMA PersistPositionsEffect ==
    ASSUME NEW r, NEW items, NEW S, NEW n, Lists(items, S, n), S \subseteq DOMAIN r
    PROVE  LET p == PersistPositions(r, items)
           IN  /\ DOMAIN p = DOMAIN r
               /\ \A j \in DOMAIN r : j \notin S => p[j] = r[j]
               /\ \A i \in S : /\ p[i] = [group |-> r[i].group, position |-> p[i].position]
                              /\ p[i].group = r[i].group
                              /\ p[i].position \in 1..n
                              /\ items[p[i].position] = i
<1> DEFINE p == PersistPositions(r, items)
<1>1. DOMAIN items = 1..n /\ S = {items[k] : k \in 1..n}
  BY DEF Lists
<1>2. ASSUME NEW i \in S
      PROVE  /\ p[i] = [group |-> r[i].group, position |-> p[i].position]
             /\ p[i].group = r[i].group
             /\ p[i].position \in 1..n
             /\ items[p[i].position] = i
  <2>1. \E k \in 1..n : items[k] = i
    BY DEF Lists
  <2>2. IndexIn(items, i) \in 1..n /\ items[IndexIn(items, i)] = i
    BY <2>1, <1>1 DEF IndexIn
  <2>3. p[i] = [group |-> r[i].group, position |-> IndexIn(items, i)]
    BY <1>1 DEF PersistPositions
  <2> QED
    BY <2>2, <2>3
<1>3. DOMAIN p = DOMAIN r
  BY DEF PersistPositions
<1>4. \A j \in DOMAIN r : j \notin S => p[j] = r[j]
  BY <1>1 DEF PersistPositions
<1> QED
  BY <1>2, <1>3, <1>4

-----------------------------------------------------------------------------
(* Tables with finitely many rows.                                         *)

LEMMA SiblingsFinite ==
    ASSUME NEW r, IsFiniteSet(DOMAIN r), NEW g
    PROVE  IsFiniteSet(Siblings(r, g)) /\ Cardinality(Siblings(r, g)) \in Nat
<1>1. Siblings(r, g) \subseteq DOMAIN r
  BY DEF Siblings
<1> QED
  BY <1>1, FS_Subset, FS_CardinalityType

(* In a dense table every group is dense, an empty one trivially.          *)
LEMMA DenseEveryGroup ==
    ASSUME NEW r, Dense(r), NEW g
    PROVE  DenseGroup(r, g)
BY DEF Dense, DenseGroup, Siblings

(* The next free position of a dense group is free: the insertion of       *)
(* _sync_schedule_item_order_for_schedule cannot collide.                  *)
LEMMA DenseEndIsFree ==
    ASSUME NEW r, IsFiniteSet(DOMAIN r), Dense(r), NEW g
    PROVE  EndIsFree(r, g)
BY SiblingsFinite, DenseEveryGroup DEF EndIsFree, EndOf, DenseGroup

(* The rows of a dense group, all of them or all but one, are listed once. *)
LEMMA DenseFetch ==
    ASSUME NEW r, IsFiniteSet(DOMAIN r), NEW g, DenseGroup(r, g), NEW T \in SUBSET Siblings(r, g)
    PROVE  Lists(OrderByPosition(r, T), T, Cardinality(T))
<1>1. IsFiniteSet(T)
  BY SiblingsFinite, FS_Subset
<1>2. \A i \in T : r[i].position \in Int
  BY SiblingsFinite DEF DenseGroup
<1>3. \A i, j \in T : r[i].position = r[j].position => i = j
  BY DEF DenseGroup
<1> QED
  BY <1>1, <1>2, <1>3, OrderByPositionLists

(* Renumbering a whole group makes it dense and disturbs no other group.   *)
LEMMA PersistDense ==
    ASSUME NEW r, IsFiniteSet(DOMAIN r), NEW g, NEW items, NEW n,
           Lists(items, Siblings(r, g), n), n = Cardinality(Siblings(r, g))
    PROVE  LET p == PersistPositions(r, items)
           IN  /\ DOMAIN p = DOMAIN r
               /\ \A j \in DOMAIN r : p[j].group = r[j].group
               /\ \A j \in DOMAIN r : r[j].group # g => p[j] = r[j]
               /\ \A h : Siblings(p, h) = Siblings(r, h)
               /\ DenseGroup(p, g)
               /\ \A h : h # g /\ DenseGroup(r, h) => DenseGroup(p, h)
<1> DEFINE p == PersistPositions(r, items)
           S == Siblings(r, g)
<1>1. /\ DOMAIN p = DOMAIN r
      /\ \A j \in DOMAIN r : j \notin S => p[j] = r[j]
      /\ \A i \in S : /\ p[i] = [group |-> r[i].group, position |-> p[i].position]
                     /\ p[i].group = r[i].group
                     /\ p[i].position \in 1..n
                     /\ items[p[i].position] = i
  <2>1. S \subseteq DOMAIN r
    BY DEF Siblings
  <2> QED
    BY <2>1, PersistPositionsEffect
<1> HIDE DEF p
<1>2. \A j \in DOMAIN r : p[j].group = r[j].group
  BY <1>1
<1>3. \A j \in DOMAIN r : r[j].group # g => p[j] = r[j]
  BY <1>1 DEF Siblings
<1>4. \A h : Siblings(p, h) = Siblings(r, h)
  BY <1>1, <1>2 DEF Siblings
<1>5. DenseGroup(p, g)
  <2>1. \A i \in S : p[i].position \in 1..n /\ items[p[i].position] = i
    BY <1>1
  <2>2. \A i, j \in S : p[i].position = p[j].position => i = j
    BY <2>1
  <2> QED
    BY <1>4, <2>1, <2>2 DEF DenseGroup
<1>6. ASSUME NEW h, h # g, DenseGroup(r, h)
      PROVE  DenseGroup(p, h)
  <2>1. \A j \in Siblings(r, h) : p[j] = r[j]
    BY <1>3, <1>6 DEF Siblings
  <2> QED
    BY <2>1, <1>4, <1>6 DEF DenseGroup
<1> QED
  BY <1>1, <1>2, <1>3, <1>4, <1>5, <1>6 DEF p

(* A move inside a group keeps the table dense, whatever position is asked *)
(* for (_move_order_item_between_groups, same group).                      *)
LEMMA MoveWithinDense ==
    ASSUME NEW r, IsFiniteSet(DOMAIN r), Dense(r), NEW i \in DOMAIN r, NEW target \in Int
    PROVE  LET p == MoveWithin(r, i, target)
           IN  /\ DOMAIN p = DOMAIN r
               /\ \A j \in DOMAIN r : p[j].group = r[j].group
               /\ Dense(p)
<1> DEFINE g == r[i].group
           S == Siblings(r, g)
           others == FetchOthers(r, g, i)
           m == Cardinality(S \ {i})
           desired == Clamp(target, Len(others) + 1)
           items == InsertItem(others, desired, i)
<1>1. i \in S /\ IsFiniteSet(S) /\ Cardinality(S) \in Nat
  BY SiblingsFinite DEF Siblings
<1>2. m \in Nat /\ Cardinality(S) = m + 1
  <2>1. IsFiniteSet(S \ {i}) /\ m = Cardinality(S) - 1
    BY <1>1, FS_RemoveElement
  <2>2. m \in Nat
    BY <2>1, FS_CardinalityType
  <2> QED
    BY <2>1, <2>2, <1>1
<1>3. Lists(others, S \ {i}, m)
  BY DenseEveryGroup, DenseFetch DEF FetchOthers
<1>4. desired \in 1..(m + 1)
  BY <1>2, <1>3 DEF Lists, Clamp
<1>5. Lists(items, S, m + 1)
  <2>1. Lists(items, (S \ {i}) \cup {i}, m + 1)
    BY <1>3, <1>4, InsertItemLists
  <2> QED
    BY <2>1, <1>1
<1> HIDE DEF items
<1>6. LET p == PersistPositions(r, items)
      IN  /\ DOMAIN p = DOMAIN r
          /\ \A j \in DOMAIN r : p[j].group = r[j].group
          /\ DenseGroup(p, g)
          /\ \A h : h # g /\ DenseGroup(r, h) => DenseGroup(p, h)
  BY <1>2, <1>5, PersistDense
<1> QED
  BY <1>6, DenseEveryGroup DEF MoveWithin, Dense, items

(* A creation at the end of a dense group keeps the table dense.           *)
LEMMA CreateRowDense ==
    ASSUME NEW r, IsFiniteSet(DOMAIN r), Dense(r), NEW i, i \notin DOMAIN r, NEW g
    PROVE  LET p == CreateRow(r, i, g)
           IN  /\ DOMAIN p = DOMAIN r \cup {i}
               /\ p[i].group = g
               /\ \A j \in DOMAIN r : p[j] = r[j]
               /\ p[i].position \in Nat
               /\ Dense(p)
<1> DEFINE p == CreateRow(r, i, g)
           n == Cardinality(Siblings(r, g))
<1>1. /\ DOMAIN p = DOMAIN r \cup {i}
      /\ p[i] = [group |-> g, position |-> n + 1]
      /\ \A j \in DOMAIN r : p[j] = r[j]
  BY DEF CreateRow, EndOf
<1> HIDE DEF p
<1>2. Siblings(p, g) = Siblings(r, g) \cup {i} /\ i \notin Siblings(r, g)
  BY <1>1 DEF Siblings
<1>3. n \in Nat /\ Cardinality(Siblings(p, g)) = n + 1
  BY <1>2, SiblingsFinite, FS_AddElement
<1>4. DenseGroup(p, g)
  <2>1. DenseGroup(r, g)
    BY DenseEveryGroup
  <2>2. \A j \in Siblings(r, g) : p[j] = r[j]
    BY <1>1 DEF Siblings
  <2> QED
    BY <2>1, <2>2, <1>1, <1>2, <1>3 DEF DenseGroup
<1>5. ASSUME NEW h, h # g
      PROVE  DenseGroup(p, h)
  <2>1. Siblings(p, h) = Siblings(r, h)
    BY <1>1, <1>5 DEF Siblings
  <2>2. \A j \in Siblings(r, h) : p[j] = r[j]
    BY <1>1 DEF Siblings
  <2> QED
    BY <2>1, <2>2, DenseEveryGroup DEF DenseGroup
<1> QED
  BY <1>1, <1>3, <1>4, <1>5 DEF Dense, p

(* A deletion with its compaction keeps the table dense (delete_schedule). *)
LEMMA DeleteRowDense ==
    ASSUME NEW r, IsFiniteSet(DOMAIN r), Dense(r), NEW i
    PROVE  LET p == DeleteRow(r, i)
           IN  /\ DOMAIN p = DOMAIN r \ {i}
               /\ \A j \in DOMAIN p : p[j].group = r[j].group
               /\ Dense(p)
<1>1. CASE i \notin DOMAIN r
  BY <1>1 DEF DeleteRow
<1>2. CASE i \in DOMAIN r
  <2> DEFINE g == r[i].group
             gone == [j \in DOMAIN r \ {i} |-> r[j]]
             items == FetchOthers(r, g, i)
             T == Siblings(r, g) \ {i}
  <2>0. DOMAIN gone = DOMAIN r \ {i} /\ \A j \in DOMAIN gone : gone[j] = r[j]
    OBVIOUS
  <2> HIDE DEF gone
  <2>1. Siblings(gone, g) = T
    BY <2>0 DEF Siblings
  <2>2. IsFiniteSet(DOMAIN gone)
    BY <2>0, FS_RemoveElement
  <2>3. Lists(items, T, Cardinality(T))
    BY DenseEveryGroup, DenseFetch DEF FetchOthers
  <2>4. ASSUME NEW h, h # g
        PROVE  DenseGroup(gone, h)
    <3>1. Siblings(gone, h) = Siblings(r, h)
      BY <2>0, <2>4 DEF Siblings
    <3>2. \A j \in Siblings(r, h) : gone[j] = r[j]
      BY <2>0, <2>4 DEF Siblings
    <3> QED
      BY <3>1, <3>2, DenseEveryGroup DEF DenseGroup
  <2> HIDE DEF items
  <2>5. LET p == PersistPositions(gone, items)
        IN  /\ DOMAIN p = DOMAIN gone
            /\ \A j \in DOMAIN gone : p[j].group = gone[j].group
            /\ DenseGroup(p, g)
            /\ \A h : h # g /\ DenseGroup(gone, h) => DenseGroup(p, h)
    <3>1. Lists(items, Siblings(gone, g), Cardinality(T)) /\ Cardinality(T) = Cardinality(Siblings(gone, g))
      BY <2>1, <2>3
    <3> HIDE DEF T, g
    <3> QED
      BY <2>2, <3>1, PersistDense
  <2>6. DeleteRow(r, i) = PersistPositions(gone, items)
    BY <1>2 DEF DeleteRow, items, gone
  <2> QED
    BY <2>0, <2>4, <2>5, <2>6 DEF Dense
<1> QED
  BY <1>1, <1>2

(* A move to another group compacts the one left and ends the one joined   *)
(* (_move_order_item_between_groups, two groups).                          *)
LEMMA MoveAcrossDense ==
    ASSUME NEW r, IsFiniteSet(DOMAIN r), Dense(r), NEW i \in DOMAIN r, NEW g, r[i].group # g
    PROVE  LET p == MoveAcross(r, i, g)
           IN  /\ DOMAIN p = DOMAIN r
               /\ p[i].group = g
               /\ \A j \in DOMAIN r : j # i => p[j].group = r[j].group
               /\ Dense(p)
<1> DEFINE old == r[i].group
           moved == [r EXCEPT ![i] = [group |-> g, position |-> EndOf(r, g)]]
           rest == FetchOthers(r, old, i)
           left == PersistPositions(moved, rest)
           T == Siblings(r, old) \ {i}
           others == FetchGroup(r, g)
           U == Siblings(r, g)
           n == Cardinality(U)
           items == InsertItem(others, n + 1, i)
<1>1. /\ DOMAIN moved = DOMAIN r
      /\ moved[i].group = g
      /\ \A j \in DOMAIN r : j # i => moved[j] = r[j]
  OBVIOUS
<1>2. i \notin U /\ n \in Nat /\ IsFiniteSet(U)
  BY SiblingsFinite DEF Siblings
<1> HIDE DEF moved
<1>3. Siblings(moved, old) = T
  BY <1>1 DEF Siblings
<1>4. Siblings(moved, g) = U \cup {i}
  BY <1>1 DEF Siblings
<1>5. Lists(rest, T, Cardinality(T))
  BY DenseEveryGroup, DenseFetch DEF FetchOthers
<1>6. ASSUME NEW h, h # old, h # g
      PROVE  DenseGroup(moved, h)
  <2>1. Siblings(moved, h) = Siblings(r, h)
    BY <1>1, <1>6 DEF Siblings
  <2>2. \A j \in Siblings(r, h) : moved[j] = r[j]
    BY <1>1, <1>6 DEF Siblings
  <2> QED
    BY <2>1, <2>2, DenseEveryGroup DEF DenseGroup
<1> HIDE DEF rest
<1>7. /\ DOMAIN left = DOMAIN r
      /\ \A j \in DOMAIN r : left[j].group = moved[j].group
      /\ \A h : Siblings(left, h) = Siblings(moved, h)
      /\ DenseGroup(left, old)
      /\ \A h : h # old /\ DenseGroup(moved, h) => DenseGroup(left, h)
  BY <1>1, <1>3, <1>5, PersistDense
<1>8. Lists(items, U \cup {i}, n + 1) /\ Len(others) = n
  <2>1. Lists(others, U, n)
    BY DenseEveryGroup, DenseFetch DEF FetchGroup
  <2>2. n + 1 \in 1..(n + 1) /\ Len(others) = n
    BY <1>2, <2>1 DEF Lists
  <2> QED
    BY <1>2, <2>1, <2>2, InsertItemLists
<1>9. Cardinality(U \cup {i}) = n + 1
  BY <1>2, FS_AddElement
<1> HIDE DEF left, items
<1>10. LET p == PersistPositions(left, items)
       IN  /\ DOMAIN p = DOMAIN left
           /\ \A j \in DOMAIN left : p[j].group = left[j].group
           /\ DenseGroup(p, g)
           /\ \A h : h # g /\ DenseGroup(left, h) => DenseGroup(p, h)
  <2>1. /\ Lists(items, Siblings(left, g), n + 1)
        /\ n + 1 = Cardinality(Siblings(left, g))
        /\ IsFiniteSet(DOMAIN left)
    BY <1>4, <1>7, <1>8, <1>9
  <2> HIDE DEF n
  <2> QED
    BY <2>1, PersistDense
<1>11. MoveAcross(r, i, g) = PersistPositions(left, items)
  BY <1>8 DEF MoveAcross, left, items, rest, moved
<1>12. ASSUME NEW h
       PROVE  DenseGroup(PersistPositions(left, items), h)
  <2>1. CASE h = g
    BY <2>1, <1>10
  <2>2. CASE h = old
    BY <2>2, <1>7, <1>10
  <2>3. CASE h # old /\ h # g
    BY <2>3, <1>6, <1>7, <1>10
  <2> QED
    BY <2>1, <2>2, <2>3
<1> QED
  BY <1>1, <1>7, <1>10, <1>11, <1>12 DEF Dense

-----------------------------------------------------------------------------
(* The order of siblings.                                                  *)

(* The rows that items lists, but for x, are in the order of positions.    *)
Rising(r, items, n, x) ==
    \A a, b \in 1..n :
        a < b /\ items[a] # x /\ items[b] # x => r[items[a]].position < r[items[b]].position

(* Siblings but for x keep their order on the way from table r to p.       *)
KeepsOrder(r, p, S, x) ==
    \A i, j \in S \ {x} : r[i].position < r[j].position => p[i].position < p[j].position

(* The order-row query lists the rows by position.                         *)
LEMMA OrderByPositionRises ==
    ASSUME NEW r, NEW S, IsFiniteSet(S),
           \A i \in S : r[i].position \in Int,
           \A i, j \in S : r[i].position = r[j].position => i = j
    PROVE  \A a, b \in 1..Cardinality(S) :
              r[OrderByPosition(r, S)[a]].position < r[OrderByPosition(r, S)[b]].position <=> a < b
<1> DEFINE R == ByPosition(r, S)
           q == OrderByPosition(r, S)
<1>1. StrictOrder(S, R)
  BY DEF StrictOrder, ByPosition
<1>2. q \in [1..Cardinality(S) -> S]
  BY OrderByPositionLists DEF Lists
<1>3. \A a, b \in 1..Cardinality(S) : <<q[a], q[b]>> \in R <=> a < b
  BY <1>1, SortByOrder DEF OrderByPosition
<1>4. \A i, j \in S : <<i, j>> \in R <=> r[i].position < r[j].position
  BY DEF ByPosition
<1> HIDE DEF q, R
<1>5. \A a, b \in 1..Cardinality(S) : r[q[a]].position < r[q[b]].position <=> a < b
  BY <1>2, <1>3, <1>4
<1> QED
  BY <1>5 DEF q

(* Some rows of a dense group, listed by position.                         *)
LEMMA DenseFetchRises ==
    ASSUME NEW r, IsFiniteSet(DOMAIN r), NEW g, DenseGroup(r, g), NEW T \in SUBSET Siblings(r, g),
           NEW x
    PROVE  Rising(r, OrderByPosition(r, T), Cardinality(T), x)
<1>1. IsFiniteSet(T)
  BY SiblingsFinite, FS_Subset
<1>2. \A i \in T : r[i].position \in Int
  BY SiblingsFinite DEF DenseGroup
<1>3. \A i, j \in T : r[i].position = r[j].position => i = j
  BY DEF DenseGroup
<1>4. \A a, b \in 1..Cardinality(T) :
         r[OrderByPosition(r, T)[a]].position < r[OrderByPosition(r, T)[b]].position <=> a < b
  BY <1>1, <1>2, <1>3, OrderByPositionRises
<1> QED
  BY <1>4 DEF Rising

(* Inserting x leaves the others in their order.                           *)
LEMMA InsertItemRises ==
    ASSUME NEW r, NEW items, NEW S, NEW n, Lists(items, S, n), NEW x, x \notin S,
           Rising(r, items, n, x), NEW k \in 1..(n + 1)
    PROVE  Rising(r, InsertItem(items, k, x), n + 1, x)
<1> DEFINE q == InsertItem(items, k, x)
<1>0. n \in Nat /\ Len(items) = n /\ items \in [1..n -> S]
  BY DEF Lists
<1>1. q = [m \in 1..(n + 1) |->
             IF m < k THEN items[m] ELSE IF m = k THEN x ELSE items[m - 1]]
  BY <1>0 DEF InsertItem
<1> HIDE DEF q
<1>2. SUFFICES ASSUME NEW a \in 1..(n + 1), NEW b \in 1..(n + 1), a < b, q[a] # x, q[b] # x
               PROVE  r[q[a]].position < r[q[b]].position
  BY DEF Rising, q
<1> DEFINE At(m) == IF m < k THEN m ELSE m - 1
<1>3. a # k /\ b # k
  BY <1>1, <1>2
<1>4. At(a) \in 1..n /\ At(b) \in 1..n /\ At(a) < At(b)
  BY <1>0, <1>2, <1>3
<1>5. q[a] = items[At(a)] /\ q[b] = items[At(b)]
  BY <1>1, <1>3
<1> QED
  BY <1>2, <1>4, <1>5 DEF Rising

(* Renumbering rows by such a list keeps their order.                      *)
LEMMA PersistKeepsOrder ==
    ASSUME NEW r, NEW items, NEW S, NEW n, Lists(items, S, n), S \subseteq DOMAIN r,
           \A i \in S : r[i].position \in Int, NEW x, Rising(r, items, n, x)
    PROVE  KeepsOrder(r, PersistPositions(r, items), S, x)
<1> DEFINE p == PersistPositions(r, items)
<1>1. \A i \in S : p[i].position \in 1..n /\ items[p[i].position] = i
  <2>1. LET t == PersistPositions(r, items)
        IN  /\ DOMAIN t = DOMAIN r
            /\ \A j \in DOMAIN r : j \notin S => t[j] = r[j]
            /\ \A i \in S : /\ t[i] = [group |-> r[i].group, position |-> t[i].position]
                            /\ t[i].group = r[i].group
                            /\ t[i].position \in 1..n
                            /\ items[t[i].position] = i
    BY PersistPositionsEffect
  <2> QED
    BY <2>1
<1> HIDE DEF p
<1>2. SUFFICES ASSUME NEW i \in S \ {x}, NEW j \in S \ {x}, r[i].position < r[j].position
               PROVE  p[i].position < p[j].position
  BY DEF KeepsOrder, p
<1>3. n \in Nat
  BY DEF Lists
<1>4. ~(p[j].position < p[i].position)
  BY <1>1, <1>2 DEF Rising
<1>5. p[i].position # p[j].position
  BY <1>1, <1>2
<1> QED
  BY <1>1, <1>3, <1>4, <1>5

(* Every position of a dense group is somebody's.                          *)
LEMMA DenseTaken ==
    ASSUME NEW r, IsFiniteSet(DOMAIN r), NEW g, DenseGroup(r, g),
           NEW v \in 1..Cardinality(Siblings(r, g))
    PROVE  \E j \in Siblings(r, g) : r[j].position = v
<1> DEFINE S == Siblings(r, g)
           n == Cardinality(S)
           f == [j \in S |-> r[j].position]
<1>1. IsFiniteSet(S) /\ n \in Nat
  BY SiblingsFinite
<1>2. \A j \in S : r[j].position \in 1..n
  BY DEF DenseGroup
<1>3. \A i, j \in S : r[i].position = r[j].position => i = j
  BY DEF DenseGroup
<1>4. v \in 1..n
  OBVIOUS
<1> HIDE DEF S, n
<1>5. f \in Surjection(S, 1..n)
  <2>1. f \in Injection(S, 1..n)
    BY <1>2, <1>3 DEF Injection, IsInjective
  <2>2. IsFiniteSet(1..n) /\ Cardinality(1..n) = n
    BY <1>1, FS_Interval
  <2> QED
    BY <1>1, <2>1, <2>2, FS_Injection DEF n
<1>6. \E j \in S : f[j] = v
  BY <1>4, <1>5 DEF Surjection
<1> QED
  BY <1>6 DEF S

(* A group that is dense before and after, with the same order but for one *)
(* row whose position is the same, has not changed.                        *)
LEMMA SameOrderSamePlaces ==
    ASSUME NEW r, NEW p, NEW g, IsFiniteSet(DOMAIN r), IsFiniteSet(DOMAIN p),
           Siblings(p, g) = Siblings(r, g), DenseGroup(r, g), DenseGroup(p, g),
           NEW x, x \in Siblings(r, g) => p[x].position = r[x].position,
           KeepsOrder(r, p, Siblings(r, g), x)
    PROVE  \A j \in Siblings(r, g) : p[j].position = r[j].position
<1> DEFINE S == Siblings(r, g)
           n == Cardinality(S)
           Moved == {v \in 1..n : \E j \in S : r[j].position = v /\ p[j].position # v}
<1>1. n \in Nat
  BY SiblingsFinite
<1>2. \A j \in S : r[j].position \in 1..n /\ p[j].position \in 1..n
  BY DEF DenseGroup
<1>3. \A i, j \in S : /\ r[i].position = r[j].position => i = j
                      /\ p[i].position = p[j].position => i = j
  BY DEF DenseGroup
<1>4. \A v \in 1..n : (\E j \in S : r[j].position = v) /\ (\E j \in S : p[j].position = v)
  BY DenseTaken
<1>5. ASSUME Moved # {} PROVE FALSE
  <2>1. PICK v \in Moved : \A w \in Moved : v <= w
    BY <1>1, <1>5, HasLeast
  <2>2. PICK j \in S : r[j].position = v /\ p[j].position # v
    OBVIOUS
  <2>3. PICK i \in S : p[i].position = v
    BY <1>4
  <2> HIDE DEF S, n
  <2>4. i # j /\ r[i].position # v
    BY <1>3, <2>2, <2>3
  <2>5. r[i].position \in Moved
    BY <1>2, <2>3, <2>4
  <2>6. v < r[i].position
    BY <1>1, <1>2, <2>1, <2>4, <2>5
  <2>7. i # x
    BY <2>3, <2>4 DEF S
  <2>8. j # x
    BY <2>2 DEF S
  <2>9. p[j].position < v
    BY <2>2, <2>3, <2>6, <2>7, <2>8 DEF KeepsOrder, S
  <2>10. PICK l \in S : r[l].position = p[j].position
    BY <1>2, <1>4
  <2>11. p[l].position = p[j].position
    BY <1>1, <1>2, <2>1, <2>9, <2>10
  <2> QED
    BY <1>2, <1>3, <2>2, <2>9, <2>10, <2>11
<1> QED
  BY <1>2, <1>5

(* Rows renumbered without gap and in their order move to the front only.  *)
LEMMA CompactionLowers ==
    ASSUME NEW r, NEW p, NEW g, IsFiniteSet(DOMAIN p), DenseGroup(p, g), NEW x, x \notin Siblings(p, g),
           \A j \in Siblings(p, g) : r[j].position \in Nat \ {0},
           \A i, j \in Siblings(p, g) : r[i].position = r[j].position => i = j,
           KeepsOrder(r, p, Siblings(p, g), x)
    PROVE  \A j \in Siblings(p, g) : p[j].position <= r[j].position
<1> DEFINE S == Siblings(p, g)
           n == Cardinality(S)
           Raised == {v \in 1..n : \E j \in S : p[j].position = v /\ r[j].position < v}
<1>1. n \in Nat
  BY SiblingsFinite
<1>2. \A j \in S : p[j].position \in 1..n
  BY DEF DenseGroup
<1>3. \A v \in 1..n : \E j \in S : p[j].position = v
  BY DenseTaken
<1>4. ASSUME Raised # {} PROVE FALSE
  <2>1. PICK v \in Raised : \A w \in Raised : v <= w
    BY <1>1, <1>4, HasLeast
  <2>2. PICK j \in S : p[j].position = v /\ r[j].position < v
    OBVIOUS
  <2> HIDE DEF S, n
  <2>3. r[j].position \in Nat \ {0} /\ v \in 1..n
    BY DEF S
  <2>4. v - 1 \in 1..n
    BY <1>1, <2>2, <2>3
  <2>5. PICK i \in S : p[i].position = v - 1
    BY <1>3, <2>4
  <2>6. r[i].position \in Nat \ {0} /\ i # x /\ j # x
    BY DEF S
  <2>7. v - 1 <= r[i].position
    BY <1>1, <2>1, <2>3, <2>4, <2>5, <2>6
  <2>8. r[i].position # r[j].position
    BY <2>2, <2>3, <2>5 DEF S
  <2>9. ~(r[j].position < r[i].position)
    BY <2>2, <2>3, <2>5, <2>6 DEF KeepsOrder, S
  <2> QED
    BY <2>2, <2>3, <2>6, <2>7, <2>8, <2>9
<1>5. \A j \in S : r[j].position \in Nat
  OBVIOUS
<1> HIDE DEF S, n
<1>6. \A j \in S : p[j].position <= r[j].position
  BY <1>1, <1>2, <1>4, <1>5
<1> QED
  BY <1>6 DEF S

(* A move inside a group keeps the order of the row's siblings, and of no   *)
(* other group does it change a row.                                       *)
LEMMA MoveWithinOrder ==
    ASSUME NEW r, IsFiniteSet(DOMAIN r), Dense(r), NEW i \in DOMAIN r, NEW target \in Int
    PROVE  /\ KeepsOrder(r, MoveWithin(r, i, target), Siblings(r, r[i].group), i)
           /\ \A j \in DOMAIN r : r[j].group # r[i].group => MoveWithin(r, i, target)[j] = r[j]
           /\ MoveWithin(r, i, target)[i].position
                = Clamp(target, Cardinality(Siblings(r, r[i].group)))
<1> DEFINE g == r[i].group
           S == Siblings(r, g)
           others == FetchOthers(r, g, i)
           m == Cardinality(S \ {i})
           desired == Clamp(target, Len(others) + 1)
           items == InsertItem(others, desired, i)
           p == PersistPositions(r, items)
<1>1. i \in S /\ IsFiniteSet(S) /\ Cardinality(S) \in Nat /\ S \subseteq DOMAIN r
  BY SiblingsFinite DEF Siblings
<1>2. m \in Nat /\ Cardinality(S) = m + 1
  <2>1. IsFiniteSet(S \ {i}) /\ m = Cardinality(S) - 1
    BY <1>1, FS_RemoveElement
  <2>2. m \in Nat
    BY <2>1, FS_CardinalityType
  <2> QED
    BY <2>1, <2>2, <1>1
<1>3. DenseGroup(r, g) /\ \A j \in S : r[j].position \in Int
  <2>1. DenseGroup(r, g)
    BY DenseEveryGroup
  <2> QED
    BY <1>1, <2>1 DEF DenseGroup
<1>4. Lists(others, S \ {i}, m) /\ Rising(r, others, m, i)
  BY <1>3, DenseFetch, DenseFetchRises DEF FetchOthers
<1>5. desired \in 1..(m + 1) /\ desired = Clamp(target, m + 1) /\ Len(others) = m
  BY <1>2, <1>4 DEF Lists, Clamp
<1>6. Lists(items, S, m + 1) /\ Rising(r, items, m + 1, i)
  <2>1. Lists(items, (S \ {i}) \cup {i}, m + 1) /\ Rising(r, items, m + 1, i)
    BY <1>4, <1>5, InsertItemLists, InsertItemRises
  <2>2. (S \ {i}) \cup {i} = S
    BY <1>1
  <2> HIDE DEF items, S
  <2> QED
    BY <2>1, <2>2
<1>7. items[desired] = i
  BY <1>2, <1>5 DEF InsertItem
<1> HIDE DEF items, S, desired
<1>8. KeepsOrder(r, p, S, i)
  BY <1>1, <1>3, <1>6, PersistKeepsOrder
<1>9. LET t == PersistPositions(r, items)
      IN  /\ DOMAIN t = DOMAIN r
          /\ \A j \in DOMAIN r : j \notin S => t[j] = r[j]
          /\ \A j \in S : /\ t[j] = [group |-> r[j].group, position |-> t[j].position]
                          /\ t[j].group = r[j].group
                          /\ t[j].position \in 1..(m + 1)
                          /\ items[t[j].position] = j
  BY <1>1, <1>6, PersistPositionsEffect
<1>10. p[i].position = desired
  <2>1. p[i].position \in 1..(m + 1) /\ items[p[i].position] = i
    BY <1>1, <1>9
  <2>2. \A a, b \in 1..(m + 1) : items[a] = items[b] => a = b
    BY <1>6 DEF Lists
  <2> HIDE DEF p
  <2> QED
    BY <2>1, <2>2, <1>5, <1>7
<1>11. \A j \in DOMAIN r : r[j].group # g => p[j] = r[j]
  BY <1>9 DEF S, Siblings
<1>12. MoveWithin(r, i, target) = p
  BY DEF MoveWithin, items, desired
<1> QED
  BY <1>2, <1>5, <1>8, <1>10, <1>11, <1>12 DEF S

(* A row that is asked to its own position disturbs nobody: the sync of a  *)
(* row that is in its parent's group changes nothing.                      *)
LEMMA MoveWithinStays ==
    ASSUME NEW r, IsFiniteSet(DOMAIN r), Dense(r), NEW i \in DOMAIN r
    PROVE  \A j \in DOMAIN r : /\ MoveWithin(r, i, r[i].position)[j].group = r[j].group
                               /\ MoveWithin(r, i, r[i].position)[j].position = r[j].position
<1> DEFINE g == r[i].group
           S == Siblings(r, g)
           p == MoveWithin(r, i, r[i].position)
<1>1. i \in S /\ IsFiniteSet(S) /\ Cardinality(S) \in Nat
  BY SiblingsFinite DEF Siblings
<1>2. DenseGroup(r, g)
  BY DenseEveryGroup
<1>3. r[i].position \in 1..Cardinality(S) /\ r[i].position \in Int
  BY <1>1, <1>2 DEF DenseGroup
<1>4. LET t == MoveWithin(r, i, r[i].position)
      IN  /\ DOMAIN t = DOMAIN r
          /\ \A j \in DOMAIN r : t[j].group = r[j].group
          /\ Dense(t)
  BY <1>3, MoveWithinDense
<1>5. /\ KeepsOrder(r, p, S, i)
      /\ \A j \in DOMAIN r : r[j].group # g => p[j] = r[j]
      /\ p[i].position = Clamp(r[i].position, Cardinality(S))
  BY <1>3, MoveWithinOrder
<1> HIDE DEF p
<1>6. /\ DOMAIN p = DOMAIN r
      /\ \A j \in DOMAIN r : p[j].group = r[j].group
      /\ Dense(p)
  BY <1>4 DEF p
<1>7. p[i].position = r[i].position
  BY <1>1, <1>3, <1>5 DEF Clamp
<1>8. Siblings(p, g) = Siblings(r, g)
  BY <1>6 DEF Siblings
<1>9. \A j \in Siblings(r, g) : p[j].position = r[j].position
  BY <1>2, <1>5, <1>6, <1>7, <1>8, DenseEveryGroup, SameOrderSamePlaces
<1>10. \A j \in DOMAIN r : p[j].position = r[j].position
  BY <1>5, <1>9 DEF Siblings
<1> QED
  BY <1>6, <1>10 DEF p

(* A deletion keeps the order of those that remain.                        *)
LEMMA DeleteRowOrder ==
    ASSUME NEW r, IsFiniteSet(DOMAIN r), Dense(r), NEW i \in DOMAIN r
    PROVE  /\ KeepsOrder(r, DeleteRow(r, i), Siblings(r, r[i].group), i)
           /\ \A j \in DOMAIN r \ {i} : r[j].group # r[i].group => DeleteRow(r, i)[j] = r[j]
<1> DEFINE g == r[i].group
           gone == [j \in DOMAIN r \ {i} |-> r[j]]
           items == FetchOthers(r, g, i)
           T == Siblings(r, g) \ {i}
           n == Cardinality(T)
           p == PersistPositions(gone, items)
<1>1. DOMAIN gone = DOMAIN r \ {i} /\ \A j \in DOMAIN gone : gone[j] = r[j]
  OBVIOUS
<1>2. DenseGroup(r, g)
  BY DenseEveryGroup
<1>3. Lists(items, T, n) /\ Rising(r, items, n, i)
  BY <1>2, DenseFetch, DenseFetchRises DEF FetchOthers
<1>4. \A j \in T : r[j].position \in Int
  BY <1>2, SiblingsFinite DEF DenseGroup
<1>5. DeleteRow(r, i) = p
  BY DEF DeleteRow
<1> HIDE DEF gone, items, n
<1>6. T \subseteq DOMAIN gone /\ \A j \in T : gone[j] = r[j]
  BY <1>1 DEF Siblings
<1>7. Rising(gone, items, n, i)
  BY <1>3, <1>6 DEF Rising, Lists
<1>8. \A j \in T : gone[j].position \in Int
  BY <1>4, <1>6
<1> HIDE DEF T
<1>9. KeepsOrder(gone, p, T, i)
  BY <1>3, <1>6, <1>7, <1>8, PersistKeepsOrder
<1>10. LET t == PersistPositions(gone, items)
       IN  /\ DOMAIN t = DOMAIN gone
           /\ \A j \in DOMAIN gone : j \notin T => t[j] = gone[j]
           /\ \A j \in T : /\ t[j] = [group |-> gone[j].group, position |-> t[j].position]
                           /\ t[j].group = gone[j].group
                           /\ t[j].position \in 1..n
                           /\ items[t[j].position] = j
  BY <1>3, <1>6, PersistPositionsEffect
<1>11. \A j \in DOMAIN r \ {i} : r[j].group # g => p[j] = r[j]
  BY <1>1, <1>10 DEF T, Siblings
<1>12. KeepsOrder(r, p, Siblings(r, g), i)
  BY <1>6, <1>9 DEF KeepsOrder, T
<1> QED
  BY <1>5, <1>11, <1>12

(* A move to another group lowers what is behind the row in the group it    *)
(* leaves, keeping the order there, and changes nothing in the group it     *)
(* joins nor in any other.                                                  *)
LEMMA MoveAcrossOrder ==
    ASSUME NEW r, IsFiniteSet(DOMAIN r), Dense(r), NEW i \in DOMAIN r, NEW g, r[i].group # g
    PROVE  LET p == MoveAcross(r, i, g)
           IN  /\ KeepsOrder(r, p, Siblings(r, r[i].group), i)
               /\ \A j \in Siblings(r, r[i].group) \ {i} : p[j].position <= r[j].position
               /\ \A j \in DOMAIN r : r[j].group # r[i].group => p[j].position = r[j].position
<1> DEFINE old == r[i].group
           moved == [r EXCEPT ![i] = [group |-> g, position |-> EndOf(r, g)]]
           rest == FetchOthers(r, old, i)
           left == PersistPositions(moved, rest)
           T == Siblings(r, old) \ {i}
           others == FetchGroup(r, g)
           U == Siblings(r, g)
           n == Cardinality(U)
           items == InsertItem(others, n + 1, i)
           p == PersistPositions(left, items)
<1>1. /\ DOMAIN moved = DOMAIN r
      /\ moved[i] = [group |-> g, position |-> n + 1]
      /\ \A j \in DOMAIN r : j # i => moved[j] = r[j]
  BY DEF EndOf
<1>2. i \notin U /\ n \in Nat /\ IsFiniteSet(U)
  BY SiblingsFinite DEF Siblings
<1>3. Lists(rest, T, Cardinality(T)) /\ Rising(r, rest, Cardinality(T), i)
  BY DenseEveryGroup, DenseFetch, DenseFetchRises DEF FetchOthers
<1>4. Lists(others, U, n) /\ Rising(r, others, n, i) /\ Len(others) = n
  <2>1. Lists(others, U, n) /\ Rising(r, others, n, i)
    BY DenseEveryGroup, DenseFetch, DenseFetchRises DEF FetchGroup
  <2> QED
    BY <1>2, <2>1 DEF Lists
<1>5. Lists(items, U \cup {i}, n + 1) /\ Rising(r, items, n + 1, i)
  <2>1. n + 1 \in 1..(n + 1)
    BY <1>2
  <2> QED
    BY <1>2, <1>4, <2>1, InsertItemLists, InsertItemRises
<1>6. \A j \in DOMAIN r : r[j].position \in Nat \ {0}
  <2>1. SUFFICES ASSUME NEW j \in DOMAIN r PROVE r[j].position \in Nat \ {0}
    OBVIOUS
  <2>2. j \in Siblings(r, r[j].group) /\ Cardinality(Siblings(r, r[j].group)) \in Nat
    BY SiblingsFinite DEF Siblings
  <2> QED
    BY <2>2 DEF Dense, DenseGroup
<1>7. MoveAcross(r, i, g) = p
  BY <1>4 DEF MoveAcross
<1>8. U \subseteq DOMAIN r \ {i} /\ T \subseteq DOMAIN r \ {i} /\ U \cap T = {}
  BY DEF Siblings
<1>9. DenseGroup(r, g) /\ DenseGroup(r, old)
  BY DenseEveryGroup
<1>10. LET t == MoveAcross(r, i, g)
       IN  /\ DOMAIN t = DOMAIN r
           /\ t[i].group = g
           /\ \A j \in DOMAIN r : j # i => t[j].group = r[j].group
           /\ Dense(t)
  BY MoveAcrossDense
<1> DEFINE V == U \cup {i}
<1>11. /\ DOMAIN p = DOMAIN r
       /\ p[i].group = g
       /\ \A j \in DOMAIN r : j # i => p[j].group = r[j].group
       /\ Dense(p)
  BY <1>7, <1>10
<1>12. Siblings(p, g) = V /\ Siblings(p, old) = T
  BY <1>11 DEF Siblings
<1> HIDE DEF moved, rest, items, n
<1>13. LET t == PersistPositions(moved, rest)
       IN  /\ DOMAIN t = DOMAIN moved
           /\ \A j \in DOMAIN moved : j \notin T => t[j] = moved[j]
           /\ \A j \in T : /\ t[j] = [group |-> moved[j].group, position |-> t[j].position]
                           /\ t[j].group = moved[j].group
                           /\ t[j].position \in 1..Cardinality(T)
                           /\ rest[t[j].position] = j
  BY <1>1, <1>3, <1>8, PersistPositionsEffect
<1>14. /\ DOMAIN left = DOMAIN r
       /\ \A j \in DOMAIN r : j \notin T => left[j] = moved[j]
  BY <1>1, <1>13
<1>15. KeepsOrder(moved, left, T, i)
  <2>1. Rising(moved, rest, Cardinality(T), i)
    BY <1>1, <1>3, <1>8 DEF Rising, Lists
  <2>2. \A j \in T : moved[j].position \in Int
    BY <1>1, <1>6, <1>8
  <2> HIDE DEF T
  <2> QED
    BY <1>1, <1>3, <1>8, <2>1, <2>2, PersistKeepsOrder
<1>16. \A j \in V : left[j] = moved[j]
  BY <1>8, <1>14
<1> HIDE DEF left
<1>17. LET t == PersistPositions(left, items)
       IN  /\ DOMAIN t = DOMAIN left
           /\ \A j \in DOMAIN left : j \notin V => t[j] = left[j]
           /\ \A j \in V : /\ t[j] = [group |-> left[j].group, position |-> t[j].position]
                           /\ t[j].group = left[j].group
                           /\ t[j].position \in 1..(n + 1)
                           /\ items[t[j].position] = j
  BY <1>5, <1>8, <1>14, PersistPositionsEffect
<1>18. \A j \in DOMAIN r : j \notin V => p[j] = left[j]
  BY <1>14, <1>17
<1>19. KeepsOrder(left, p, V, i)
  <2>1. Rising(left, items, n + 1, i)
    BY <1>1, <1>5, <1>8, <1>16 DEF Rising, Lists
  <2>2. \A j \in V : left[j].position \in Int
    BY <1>1, <1>2, <1>6, <1>8, <1>16
  <2>3. V \subseteq DOMAIN left
    BY <1>8, <1>14
  <2> HIDE DEF V
  <2> QED
    BY <1>5, <2>1, <2>2, <2>3, PersistKeepsOrder DEF V
<1>20. \A j \in U : p[j].position = r[j].position
  <2>1. Siblings(left, g) = V
    <3>1. \A j \in T : left[j].group = moved[j].group
      BY <1>13 DEF left
    <3>2. \A j \in DOMAIN r : left[j].group = moved[j].group
      BY <1>14, <3>1
    <3>3. \A j \in DOMAIN r : moved[j].group = g <=> (j = i \/ r[j].group = g)
      BY <1>1
    <3> QED
      BY <1>14, <3>2, <3>3 DEF Siblings
  <2>2. Cardinality(V) = n + 1
    BY <1>2, FS_AddElement DEF n
  <2>3. DenseGroup(left, g)
    BY <1>1, <1>2, <1>8, <1>9, <1>16, <2>1, <2>2 DEF DenseGroup, n
  <2>4. p[i].position = n + 1
    <3>1. items[n + 1] = i
      BY <1>2, <1>4 DEF items, InsertItem
    <3>2. p[i].position \in 1..(n + 1) /\ items[p[i].position] = i
      BY <1>17
    <3>3. \A a, b \in 1..(n + 1) : items[a] = items[b] => a = b
      BY <1>5 DEF Lists
    <3>4. n + 1 \in 1..(n + 1)
      BY <1>2
    <3> HIDE DEF p
    <3> QED
      BY <3>1, <3>2, <3>3, <3>4
  <2>5. left[i].position = n + 1
    BY <1>1, <1>16
  <2>6. DenseGroup(p, g) /\ IsFiniteSet(DOMAIN p) /\ IsFiniteSet(DOMAIN left)
    BY <1>11, <1>14, DenseEveryGroup
  <2> HIDE DEF p, V
  <2>7. \A j \in Siblings(left, g) : p[j].position = left[j].position
    BY <1>12, <1>19, <2>1, <2>3, <2>4, <2>5, <2>6, SameOrderSamePlaces
  <2> QED
    BY <1>1, <1>8, <1>16, <2>1, <2>7 DEF V
<1>21. \A j \in T : p[j] = left[j] /\ moved[j] = r[j]
  BY <1>1, <1>8, <1>18
<1>22. KeepsOrder(r, p, T, i)
  BY <1>15, <1>21 DEF KeepsOrder
<1>23. \A j \in T : p[j].position <= r[j].position
  <2>1. DenseGroup(p, old) /\ IsFiniteSet(DOMAIN p)
    BY <1>11, DenseEveryGroup
  <2>2. \A j \in T : r[j].position \in Nat \ {0}
    BY <1>6, <1>8
  <2>3. \A j, k \in T : r[j].position = r[k].position => j = k
    BY <1>9 DEF DenseGroup
  <2>4. i \notin T
    OBVIOUS
  <2> HIDE DEF p, T
  <2> QED
    BY <1>12, <1>22, <2>1, <2>2, <2>3, <2>4, CompactionLowers
<1>24. \A j \in DOMAIN r : j \notin V /\ j \notin T => p[j] = r[j]
  BY <1>1, <1>14, <1>18
<1>25. \A j \in DOMAIN r : r[j].group # old => p[j].position = r[j].position
  <2>1. \A j \in DOMAIN r : r[j].group # old => j # i /\ j \notin T
    BY DEF Siblings
  <2> HIDE DEF p, T, U
  <2> QED
    BY <1>20, <1>24, <2>1
<1>26. KeepsOrder(r, p, Siblings(r, old), i)
  BY <1>22 DEF KeepsOrder
<1> HIDE DEF p
<1> QED
  BY <1>7, <1>23, <1>25, <1>26

=============================================================================
