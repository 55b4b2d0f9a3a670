-------------------------- MODULE ItemOrderProofs --------------------------
(***************************************************************************)
(* Proofs about ItemOrder, for any number of epics, stories, tasks and     *)
(* relations.  In a single project sibling positions are 1..n after every  *)
(* operation, siblings that are not placed keep their order, a reindex     *)
(* leaves an epic's stories in the order of its relations, and every row   *)
(* is under the parent that the entity's relations name.  For any number   *)
(* of projects, every scheduled entity has exactly one order row.          *)
(***************************************************************************)
EXTENDS ItemOrder, OrderRowsLemmas

(* The stories related to an epic belong to the epic's project; the code   *)
(* does not enforce it, and without it Contiguous fails.                   *)
OneProjectOnly == \A i, j \in Items : Project[i] = Project[j]

USE DEF NoBulk

(* Any set of relations is listed once along (order, id) and along id.     *)
LEMMA RelationListing ==
    ASSUME NEW rel \in Seq(Relations), NEW K \in SUBSET (DOMAIN rel)
    PROVE  /\ IsFiniteSet(K)
           /\ \A k \in K : rel[k] \in Relations
           /\ Lists(SortBy(K, ByOrderThenId(rel, K)), K, Cardinality(K))
           /\ Lists(SortBy(K, {p \in K \X K : p[1] < p[2]}), K, Cardinality(K))
<1>1. DOMAIN rel = 1..Len(rel) /\ Len(rel) \in Nat /\ K \subseteq 1..Len(rel)
  OBVIOUS
<1>2. IsFiniteSet(K)
  <2>1. IsFiniteSet(1..Len(rel))
    BY <1>1, FS_Interval
  <2> QED
    BY <1>1, <2>1, FS_Subset
<1>3. \A k \in K : rel[k] \in Relations
  BY <1>1
<1>4. \A k \in K : rel[k].order \in Nat /\ k \in Nat
  BY <1>1, <1>3, BoundsAssumption DEF Relations
<1>5. StrictOrder(K, ByOrderThenId(rel, K))
  BY <1>4 DEF StrictOrder, ByOrderThenId
<1>6. StrictOrder(K, {p \in K \X K : p[1] < p[2]})
  BY <1>4 DEF StrictOrder
<1> QED
  BY <1>2, <1>3, <1>5, <1>6, SortByLists

(* The first relation of a story names one of the epics.                   *)
LEMMA PrimaryEpicType ==
    ASSUME NEW rel \in Seq(Relations), NEW s
    PROVE  PrimaryEpic(rel, s) \in Epics \cup {Root}
<1> DEFINE K == RelationsOfStory(rel, s)
           q == SortBy(K, ByOrderThenId(rel, K))
<1>1. K \in SUBSET (DOMAIN rel)
  BY DEF RelationsOfStory
<1>2. /\ IsFiniteSet(K)
      /\ \A k \in K : rel[k] \in Relations
      /\ Lists(q, K, Cardinality(K))
  BY <1>1, RelationListing
<1>3. CASE K # {}
  <2>1. Cardinality(K) \in Nat /\ Cardinality(K) # 0
    BY <1>2, <1>3, FS_EmptySet, FS_CardinalityType
  <2>2. q[1] \in K
    BY <2>1, <1>2 DEF Lists
  <2> QED
    BY <2>2, <1>2, <1>3 DEF PrimaryEpic, Relations
<1>4. CASE K = {}
  BY <1>4 DEF PrimaryEpic
<1> QED
  BY <1>3, <1>4

LEMMA GroupKeyType ==
    ASSUME TypeOK, NEW i \in Items
    PROVE  GroupKey(i) \in Groups
<1>1. ResolveParent(i) \in Items \cup {Root}
  BY PrimaryEpicType, ItemsAssumption DEF ResolveParent, TypeOK, Items
<1> QED
  BY <1>1 DEF GroupKey, Groups, KindOf, Kinds

(* The relations that survive a deletion.                                  *)
LEMMA KeepType ==
    ASSUME NEW rel \in Seq(Relations), NEW K \in SUBSET (DOMAIN rel)
    PROVE  /\ Keep(rel, K) \in Seq(Relations)
           /\ UniqueRelations(rel) => UniqueRelations(Keep(rel, K))
<1> DEFINE q == SortBy(K, {p \in K \X K : p[1] < p[2]})
           n == Cardinality(K)
<1>1. Lists(q, K, n) /\ \A k \in K : rel[k] \in Relations
  BY RelationListing
<1>2. Keep(rel, K) = [k \in 1..n |-> rel[q[k]]]
  BY <1>1 DEF Keep, Lists
<1> HIDE DEF q, n
<1>3. Keep(rel, K) \in Seq(Relations)
  BY <1>1, <1>2 DEF Lists
<1>4. ASSUME UniqueRelations(rel)
      PROVE  UniqueRelations(Keep(rel, K))
  <2>1. \A a, b \in 1..n : q[a] \in DOMAIN rel /\ (q[a] = q[b] => a = b)
    BY <1>1 DEF Lists
  <2> QED
    BY <1>2, <1>4, <2>1 DEF UniqueRelations
<1> QED
  BY <1>3, <1>4

(* The epic-wide reorder visits distinct stories.                          *)
LEMMA OrderedStoriesType ==
    ASSUME NEW rel \in Seq(Relations), NEW e
    PROVE  /\ OrderedStories(rel, e) \in Seq(Stories)
           /\ UniqueRelations(rel) =>
                \A a, b \in DOMAIN OrderedStories(rel, e) :
                    OrderedStories(rel, e)[a] = OrderedStories(rel, e)[b] => a = b
<1> DEFINE K == RelationsOfEpic(rel, e)
           q == SortBy(K, ByOrderThenId(rel, K))
           n == Cardinality(K)
<1>1. K \in SUBSET (DOMAIN rel) /\ \A k \in K : rel[k].epic = e
  BY DEF RelationsOfEpic
<1>2. Lists(q, K, n) /\ \A k \in K : rel[k] \in Relations
  BY <1>1, RelationListing
<1>3. OrderedStories(rel, e) = [k \in 1..n |-> rel[q[k]].story]
  BY <1>2 DEF OrderedStories, Lists
<1> HIDE DEF q, n, K
<1>4. OrderedStories(rel, e) \in Seq(Stories)
  BY <1>2, <1>3 DEF Lists, Relations
<1>5. ASSUME UniqueRelations(rel), NEW a \in 1..n, NEW b \in 1..n,
             rel[q[a]].story = rel[q[b]].story
      PROVE  a = b
  <2>1. q[a] \in K /\ q[b] \in K /\ (q[a] = q[b] => a = b)
    BY <1>2 DEF Lists
  <2> QED
    BY <1>1, <1>5, <2>1 DEF UniqueRelations
<1> QED
  BY <1>3, <1>4, <1>5

-----------------------------------------------------------------------------
(* What the operations do to a dense table.                                *)

LEMMA DenseIsTable ==
    ASSUME NEW p, DOMAIN p \subseteq Items, \A i \in DOMAIN p : p[i].group \in Groups, Dense(p)
    PROVE  IsTable(p) /\ IsFiniteSet(DOMAIN p)
<1>1. IsFiniteSet(DOMAIN p)
  BY ItemsAssumption, FS_Subset
<1>2. \A i \in DOMAIN p : i \in Siblings(p, p[i].group) /\ Cardinality(Siblings(p, p[i].group)) \in Nat
  BY <1>1, SiblingsFinite DEF Siblings
<1> QED
  BY <1>1, <1>2 DEF IsTable, Dense, DenseGroup

(* A sync puts the item's row in the group of its parent, touches no other *)
(* row's group and never meets a taken position.                           *)
LEMMA SyncedDense ==
    ASSUME TypeOK, Dense(rows), NEW i \in Items
    PROVE  /\ CanCreate(i)
           /\ DOMAIN SyncedRows(i) = DOMAIN rows \cup {i}
           /\ SyncedRows(i)[i].group = GroupKey(i)
           /\ \A j \in DOMAIN rows : j # i => SyncedRows(i)[j].group = rows[j].group
           /\ Dense(SyncedRows(i))
           /\ IsTable(SyncedRows(i))
<1> DEFINE p == SyncedRows(i)
           g == GroupKey(i)
<1>1. IsTable(rows) /\ IsFiniteSet(DOMAIN rows) /\ g \in Groups
  BY GroupKeyType, ItemsAssumption, FS_Subset DEF TypeOK, IsTable
<1>2. EndIsFree(rows, g)
  BY <1>1, DenseEndIsFree
<1>3. /\ DOMAIN p = DOMAIN rows \cup {i}
      /\ p[i].group = g
      /\ \A j \in DOMAIN rows : j # i => p[j].group = rows[j].group
      /\ Dense(p)
  <2> HIDE DEF g
  <2>1. CASE i \notin DOMAIN rows
    <3>1. p = CreateRow(rows, i, g)
      BY <2>1 DEF SyncedRows, Synced, g
    <3> HIDE DEF p
    <3>2. LET t == CreateRow(rows, i, g)
          IN  /\ DOMAIN t = DOMAIN rows \cup {i}
              /\ t[i].group = g
              /\ \A j \in DOMAIN rows : t[j] = rows[j]
              /\ t[i].position \in Nat
              /\ Dense(t)
      BY <2>1, <1>1, CreateRowDense
    <3> QED
      BY <3>1, <3>2
  <2>2. CASE i \in DOMAIN rows /\ rows[i].group = g
    <3>1. p = MoveWithin(rows, i, rows[i].position)
      BY <2>2 DEF SyncedRows, Synced, g
    <3>2. rows[i].position \in Int
      BY <2>2, <1>1 DEF IsTable
    <3>3. LET t == MoveWithin(rows, i, rows[i].position)
          IN  /\ DOMAIN t = DOMAIN rows
              /\ \A j \in DOMAIN rows : t[j].group = rows[j].group
              /\ Dense(t)
      BY <3>2, <2>2, <1>1, MoveWithinDense
    <3> HIDE DEF p
    <3> QED
      BY <3>1, <3>3, <2>2
  <2>3. CASE i \in DOMAIN rows /\ rows[i].group # g
    <3>1. p = MoveAcross(rows, i, g)
      BY <2>3, <1>2 DEF SyncedRows, Synced, g
    <3>2. LET t == MoveAcross(rows, i, g)
          IN  /\ DOMAIN t = DOMAIN rows
              /\ t[i].group = g
              /\ \A j \in DOMAIN rows : j # i => t[j].group = rows[j].group
              /\ Dense(t)
      BY <2>3, <1>1, MoveAcrossDense
    <3> HIDE DEF p
    <3> QED
      BY <3>1, <3>2, <2>3
  <2> QED
    BY <2>1, <2>2, <2>3
<1>4. IsTable(p)
  <2>1. DOMAIN p \subseteq Items
    BY <1>1, <1>3 DEF IsTable
  <2>2. \A j \in DOMAIN p : p[j].group \in Groups
    BY <1>1, <1>3 DEF IsTable
  <2> QED
    BY <2>1, <2>2, <1>3, DenseIsTable
<1> QED
  BY <1>2, <1>3, <1>4 DEF CanCreate

(* The rows a reindex renumbers, in their order.                           *)
ReindexRows == [k \in DOMAIN ReindexItems |-> ReindexItems[k].item]

(* A reindex lists every row of the epic's group once: the kept instances  *)
(* first, with their cached positions, then the others, with their actual. *)
LEMMA ReindexLists ==
    ASSUME IInv, bulk.active,
           NEW S, S = Siblings(rows, EpicGroup(bulk.epic)), NEW n, n = Cardinality(S)
    PROVE  /\ n \in Nat /\ DOMAIN ReindexItems = 1..n
           /\ Lists(ReindexRows, S, n)
           /\ Len(bulk.ordered) \in 0..n
           /\ \A k \in DOMAIN bulk.ordered : ReindexItems[k] = bulk.ordered[k]
           /\ \A k \in 1..n : k \notin DOMAIN bulk.ordered =>
                 ReindexItems[k].position = rows[ReindexItems[k].item].position
<1> DEFINE key == EpicGroup(bulk.epic)
           ordered == bulk.ordered
           m == Len(ordered)
           mine == {ordered[k].item : k \in DOMAIN ordered}
           rest == OrderByPosition(rows, S \ mine)
           c == Cardinality(S \ mine)
           l == m + c
           items == ReindexItems
           it == ReindexRows
<1>1. IsFiniteSet(DOMAIN rows) /\ IsFiniteSet(S) /\ DenseGroup(rows, key)
  BY ItemsAssumption, FS_Subset, SiblingsFinite, DenseEveryGroup DEF IInv, TypeOK, IsTable
<1>2. /\ ordered \in Seq([item : Stories, position : Nat])
      /\ \A a, b \in 1..m : ordered[a].item = ordered[b].item => a = b
      /\ \A a \in 1..m : ordered[a].item \in S
  BY DEF IInv, TypeOK, IsBulk, BulkConsistent
<1>3. m \in Nat /\ DOMAIN ordered = 1..m
  BY <1>2
<1>4. Lists(rest, S \ mine, c)
  BY <1>1, DenseFetch
<1>5. /\ items = ordered \o [k \in 1..c |-> [item |-> rest[k], position |-> rows[rest[k]].position]]
      /\ c \in Nat
  BY <1>4 DEF ReindexItems, Lists
<1> HIDE DEF items, rest, c, mine
<1>6. /\ DOMAIN items = 1..l
      /\ \A k \in 1..m : items[k] = ordered[k]
      /\ \A k \in (m + 1)..l : /\ items[k].item = rest[k - m]
                               /\ items[k].position = rows[rest[k - m]].position
  BY <1>2, <1>3, <1>5
<1>dom. l \in Nat /\ 1..m \subseteq 1..l /\ (m + 1)..l \subseteq 1..l /\ \A k \in 1..l : k \in 1..m \/ k \in (m + 1)..l
  BY <1>3, <1>5
<1>it. DOMAIN it = 1..l /\ \A k \in 1..l : it[k] = items[k].item
  BY <1>6 DEF items, ReindexRows
<1> USE <1>dom
<1>7. Lists(it, S, l)
  <2>1. it \in [1..l -> S]
    <3>1. \A k \in 1..m : items[k].item \in S
      BY <1>2, <1>6
    <3>2. \A k \in (m + 1)..l : k - m \in 1..c
      BY <1>3, <1>5
    <3>3. \A k \in (m + 1)..l : items[k].item \in S
      BY <1>4, <1>6, <3>2 DEF Lists
    <3>4. it = [k \in 1..l |-> items[k].item]
      BY <1>6 DEF items, ReindexRows
    <3> HIDE DEF it
    <3> QED
      BY <3>1, <3>3, <3>4
  <2> HIDE DEF it
  <2>2. \A a, b \in 1..l : it[a] = it[b] => a = b
    <3>0. \A a \in 1..m : it[a] = ordered[a].item
      BY <1>6, <1>it
    <3>1. \A a \in 1..m : it[a] \in mine
      BY <1>3, <3>0 DEF mine
    <3>2. \A a \in (m + 1)..l : a - m \in 1..c
      BY <1>3, <1>5
    <3>3. \A a \in (m + 1)..l : it[a] \notin mine /\ it[a] = rest[a - m]
      BY <1>4, <1>6, <1>it, <3>2 DEF Lists
    <3>4. \A a, b \in (m + 1)..l : it[a] = it[b] => a = b
      BY <1>3, <1>4, <1>5, <3>2, <3>3 DEF Lists
    <3>5. \A a, b \in 1..m : it[a] = it[b] => a = b
      BY <1>2, <3>0
    <3> QED
      BY <3>1, <3>3, <3>4, <3>5
  <2>3. \A i \in S : \E k \in 1..l : it[k] = i
    <3>1. SUFFICES ASSUME NEW i \in S
                   PROVE  \E k \in 1..l : it[k] = i
      OBVIOUS
    <3>2. CASE i \in mine
      <4>1. PICK k \in 1..m : ordered[k].item = i
        BY <3>2, <1>3 DEF mine
      <4> QED
        BY <4>1, <1>6, <1>it
    <3>3. CASE i \notin mine
      <4>1. PICK k \in 1..c : rest[k] = i
        BY <3>3, <1>4 DEF Lists
      <4>2. k + m \in (m + 1)..l /\ (k + m) - m = k
        BY <1>3, <1>5
      <4> QED
        BY <4>1, <4>2, <1>6, <1>it
    <3> QED
      BY <3>2, <3>3
  <2> QED
    BY <2>1, <2>2, <2>3 DEF Lists
<1>8. n = l
  <2> HIDE DEF it
  <2>1. it \in Bijection(1..l, S)
    BY <1>7, Fun_IsBij DEF Lists
  <2> QED
    BY <2>1, <1>7, FS_CountingElements DEF ExistsBijection, Lists
<1> QED
  BY <1>3, <1>6, <1>7, <1>8 DEF items

(* A reindex that meets no occupied position leaves the table dense, even  *)
(* though it trusts cached positions: the rows it skips keep positions of  *)
(* 1..n that none of the renumbered rows receives.                         *)
LEMMA ReindexDense ==
    ASSUME IInv, bulk.active, ~Collides(rows, ReindexItems)
    PROVE  LET p == Renumber(rows, ReindexItems)
           IN  /\ DOMAIN p = DOMAIN rows
               /\ \A i \in DOMAIN rows : p[i].group = rows[i].group
               /\ Dense(p)
<1> DEFINE key == EpicGroup(bulk.epic)
           S == Siblings(rows, key)
           n == Cardinality(S)
           items == ReindexItems
           it == ReindexRows
           p == Renumber(rows, items)
<1>1. DenseGroup(rows, key)
  BY DenseEveryGroup DEF IInv
<1>5. \A k \in Pending(items), j \in DOMAIN rows \ {items[a].item : a \in Pending(items)} :
         rows[j].group = rows[items[k].item].group => rows[j].position # k
  BY DEF Collides
<1>6. DOMAIN items = 1..n
  BY ReindexLists
<1>7. Lists(it, S, n)
  BY ReindexLists
<1>it. \A k \in 1..n : it[k] = items[k].item
  BY <1>6 DEF ReindexRows
<1> HIDE DEF items, it, n
<1>8. Cardinality(S) = n
  BY DEF n
<1> HIDE DEF p
<1>9. DOMAIN p = DOMAIN rows
  BY DEF p, Renumber
<1>10. \A i \in DOMAIN rows :
          p[i].group = rows[i].group /\ (i \notin S => p[i] = rows[i])
  <2>1. \A k \in Pending(items) : items[k].item \in S
    BY <1>6, <1>7, <1>it DEF Lists, Pending
  <2> QED
    BY <2>1 DEF p, Renumber
<1>11. ASSUME NEW i \in S
       PROVE  \/ /\ p[i].position \in Pending(items)
                 /\ items[p[i].position].item = i
              \/ /\ p[i] = rows[i]
                 /\ i \notin {items[k].item : k \in Pending(items)}
  <2>1. i \in DOMAIN rows
    BY DEF Siblings
  <2> QED
    BY <2>1 DEF p, Renumber
<1>12. Pending(items) \subseteq 1..n
  BY <1>6 DEF Pending
<1>13. \A h : Siblings(p, h) = Siblings(rows, h)
  BY <1>9, <1>10 DEF Siblings
<1>14. DenseGroup(p, key)
  <2>1. ASSUME NEW i \in S
        PROVE  p[i].position \in 1..n
    BY <1>1, <1>8, <1>11, <1>12 DEF DenseGroup
  <2>2. ASSUME NEW i \in S, NEW j \in S, p[i].position = p[j].position
        PROVE  i = j
    <3>1. \A a, b \in S :
             ~ /\ p[a].position \in Pending(items) /\ items[p[a].position].item = a
               /\ p[b] = rows[b] /\ b \notin {items[k].item : k \in Pending(items)}
               /\ p[a].position = p[b].position
      BY <1>5 DEF Siblings
    <3>2. p[i] = rows[i] /\ p[j] = rows[j] => i = j
      BY <2>2, <1>1 DEF DenseGroup
    <3> QED
      BY <3>1, <3>2, <2>2, <1>11
  <2> QED
    BY <1>8, <1>13, <2>1, <2>2 DEF DenseGroup
<1>15. ASSUME NEW h, h # key
       PROVE  DenseGroup(p, h)
  <2>1. \A j \in Siblings(rows, h) : p[j] = rows[j]
    BY <1>10, <1>15 DEF Siblings
  <2> QED
    BY <2>1, <1>13, DenseEveryGroup DEF DenseGroup, IInv
<1> QED
  BY <1>9, <1>10, <1>14, <1>15 DEF Dense, p, items

-----------------------------------------------------------------------------
(* Requests: they queue operations and leave the table alone.              *)

LEMMA OpsType ==
    /\ \A i \in Items : SyncOp(i) \in Ops /\ RemoveOp(i) \in Ops
    /\ \A i \in Items, p \in Nat : PlaceOp(i, p) \in Ops
    /\ \A e \in Epics, s \in Stories : RelateOp(e, s) \in Ops
    /\ \A e \in Epics : BulkOp(e) \in Ops
    /\ \A rel \in Seq(Relations) : OnCommitOp(rel) \in Ops
    /\ Epics \subseteq Items /\ Stories \subseteq Items /\ Tasks \subseteq Items
BY DEF Ops, SyncOp, RemoveOp, PlaceOp, RelateOp, BulkOp, OnCommitOp, Items

CommitsUnique(ops) ==
    \A k \in DOMAIN ops : ops[k].op = "on_commit" => UniqueRelations(ops[k].related)

LEMMA RequestKeepsIInv ==
    ASSUME IInv, NEW ops \in Seq(Ops), Run(ops), CommitsUnique(ops),
           live' \subseteq Items, story' \in [Tasks -> Stories \cup {Root}],
           related' \in Seq(Relations), UniqueRelations(related')
    PROVE  IInv'
<1>1. TypeOK'
  BY DEF IInv, TypeOK, Run, Idle, IsTable
<1>2. Dense(rows)'
  BY DEF IInv, Run
<1>3. BulkConsistent'
  BY DEF IInv, Run, Idle, BulkConsistent
<1> QED
  BY <1>1, <1>2, <1>3 DEF IInv, Run, CommitsUnique

(* Appending a relation whose (epic, story) is new keeps them unique.      *)
LEMMA AppendUnique ==
    ASSUME NEW rel \in Seq(Relations), UniqueRelations(rel), NEW x \in Relations,
           Unrelated(rel, x.epic, x.story)
    PROVE  Append(rel, x) \in Seq(Relations) /\ UniqueRelations(Append(rel, x))
<1> DEFINE q == Append(rel, x)
           n == Len(rel)
<1>1. /\ n \in Nat /\ DOMAIN rel = 1..n /\ DOMAIN q = 1..(n + 1) /\ q \in Seq(Relations)
      /\ \A k \in 1..n : q[k] = rel[k]
      /\ q[n + 1] = x
  OBVIOUS
<1> HIDE DEF q, n
<1>2. ASSUME NEW k \in 1..(n + 1), NEW m \in 1..(n + 1),
             q[k].epic = q[m].epic, q[k].story = q[m].story
      PROVE  k = m
  <2>1. CASE k \in 1..n /\ m \in 1..n
    BY <1>1, <1>2, <2>1 DEF UniqueRelations
  <2>2. CASE k = n + 1 /\ m \in 1..n
    BY <1>1, <1>2, <2>2 DEF Unrelated
  <2>3. CASE m = n + 1 /\ k \in 1..n
    BY <1>1, <1>2, <2>3 DEF Unrelated
  <2> QED
    BY <1>1, <2>1, <2>2, <2>3
<1> QED
  BY <1>1, <1>2 DEF UniqueRelations, q

LEMMA CreateKeepsIInv ==
    ASSUME IInv, NEW i \in Items, NEW u, CreateEpic(i) \/ CreateStory(i) \/ CreateTask(i, u)
    PROVE  IInv'
<1>1. <<SyncOp(i)>> \in Seq(Ops) /\ CommitsUnique(<<SyncOp(i)>>)
  BY OpsType DEF CommitsUnique, SyncOp
<1>2. Run(<<SyncOp(i)>>) /\ live' = live \cup {i} /\ related' = related
  BY DEF CreateEpic, CreateStory, CreateTask
<1>3. story' \in [Tasks -> Stories \cup {Root}]
  BY DEF IInv, TypeOK, CreateEpic, CreateStory, CreateTask
<1>4. live' \subseteq Items /\ related' \in Seq(Relations) /\ UniqueRelations(related')
  BY <1>2 DEF IInv, TypeOK
<1> QED
  BY <1>1, <1>2, <1>3, <1>4, RequestKeepsIInv

LEMMA SaveMoveKeepsIInv ==
    ASSUME IInv, NEW i \in Items, NEW u, SaveItem(i) \/ MoveTask(i, u)
    PROVE  IInv'
<1>1. <<SyncOp(i)>> \in Seq(Ops) /\ CommitsUnique(<<SyncOp(i)>>)
  BY OpsType DEF CommitsUnique, SyncOp
<1>2. Run(<<SyncOp(i)>>) /\ live' = live /\ related' = related
  BY DEF SaveItem, MoveTask
<1>3. story' \in [Tasks -> Stories \cup {Root}]
  BY DEF IInv, TypeOK, SaveItem, MoveTask
<1>4. live' \subseteq Items /\ related' \in Seq(Relations) /\ UniqueRelations(related')
  BY <1>2 DEF IInv, TypeOK
<1> QED
  BY <1>1, <1>2, <1>3, <1>4, RequestKeepsIInv

LEMMA SetPositionKeepsIInv ==
    ASSUME IInv, NEW i \in Items, NEW p \in Nat, SetPosition(i, p)
    PROVE  IInv'
<1> DEFINE ops == <<SyncOp(i), PlaceOp(i, p)>>
<1>1. ops \in Seq(Ops) /\ CommitsUnique(ops)
  BY OpsType DEF CommitsUnique, SyncOp, PlaceOp
<1> HIDE DEF ops
<1>2. Run(ops) /\ live' = live /\ story' = story /\ related' = related
  BY DEF SetPosition, ops
<1> QED
  BY <1>1, <1>2, RequestKeepsIInv DEF IInv, TypeOK

LEMMA RelateKeepsIInv ==
    ASSUME IInv, NEW e \in Epics, NEW s \in Stories, NEW o \in 0..MaxOrder, Relate(e, s, o)
    PROVE  IInv'
<1> DEFINE x == [epic |-> e, story |-> s, order |-> o]
<1>1. <<SyncOp(s)>> \in Seq(Ops) /\ CommitsUnique(<<SyncOp(s)>>)
  BY OpsType DEF CommitsUnique, SyncOp
<1>2. x \in Relations /\ related \in Seq(Relations) /\ UniqueRelations(related)
      /\ Unrelated(related, x.epic, x.story)
  BY DEF IInv, TypeOK, Relations, Relate
<1>3. related' = Append(related, x)
  BY DEF Relate
<1>4. related' \in Seq(Relations) /\ UniqueRelations(related')
  BY <1>2, <1>3, AppendUnique
<1>5. Run(<<SyncOp(s)>>) /\ live' = live /\ story' = story
  BY DEF Relate
<1> QED
  BY <1>1, <1>4, <1>5, RequestKeepsIInv DEF IInv, TypeOK

LEMMA UnrelateKeepsIInv ==
    ASSUME IInv, NEW e \in Epics, NEW s \in Stories, Unrelate(e, s)
    PROVE  IInv'
<1>1. <<SyncOp(s)>> \in Seq(Ops) /\ CommitsUnique(<<SyncOp(s)>>)
  BY OpsType DEF CommitsUnique, SyncOp
<1>2. related' \in Seq(Relations) /\ UniqueRelations(related')
  BY KeepType DEF Unrelate, IInv, TypeOK
<1>3. Run(<<SyncOp(s)>>) /\ live' = live /\ story' = story
  BY DEF Unrelate
<1> QED
  BY <1>1, <1>2, <1>3, RequestKeepsIInv DEF IInv, TypeOK

(* A relation keeps its pair when it is given another order. *)
LEMMA WithOrderType ==
    ASSUME NEW x \in Relations
    PROVE  /\ x.epic \in Epics /\ x.story \in Stories /\ x.order \in Nat
           /\ \A o \in Nat :
                 /\ WithOrder(x, o).epic = x.epic /\ WithOrder(x, o).story = x.story
                 /\ WithOrder(x, o).order = o
                 /\ o <= MaxOrder => WithOrder(x, o) \in Relations
BY BoundsAssumption DEF Relations, WithOrder

(* The orders before and after the shift belong to the same pairs.         *)
LEMMA ReorderTables ==
    ASSUME NEW rel \in Seq(Relations), NEW k \in DOMAIN rel, NEW e, NEW s,
           NEW o \in 0..MaxOrder,
           LET shifted == ShiftOrders([rel EXCEPT ![k] = WithOrder(rel[k], o)], e, s, o)
           IN  \A m \in DOMAIN shifted : shifted[m].order <= MaxOrder
    PROVE  LET saved == [rel EXCEPT ![k] = WithOrder(rel[k], o)]
               shifted == ShiftOrders(saved, e, s, o)
           IN  /\ saved \in Seq(Relations) /\ SamePairs(saved, rel)
               /\ shifted \in Seq(Relations) /\ SamePairs(shifted, rel)
<1> DEFINE saved == [rel EXCEPT ![k] = WithOrder(rel[k], o)]
           shifted == ShiftOrders(saved, e, s, o)
<1>4. \A m \in DOMAIN shifted : shifted[m].order <= MaxOrder
  OBVIOUS
<1>1. rel \in Seq(Relations) /\ DOMAIN rel = 1..Len(rel) /\ Len(rel) \in Nat
  OBVIOUS
<1>r. \A m \in 1..Len(rel) :
         rel[m].epic \in Epics /\ rel[m].story \in Stories
  BY <1>1, WithOrderType
<1>s. saved = [m \in 1..Len(rel) |->
                 IF m = k THEN WithOrder(rel[k], o) ELSE rel[m]]
  BY <1>1
<1>t. /\ WithOrder(rel[k], o) \in Relations
      /\ WithOrder(rel[k], o).epic = rel[k].epic
      /\ WithOrder(rel[k], o).story = rel[k].story
  BY <1>1, WithOrderType
<1>2. /\ saved \in Seq(Relations) /\ DOMAIN saved = DOMAIN rel
      /\ \A m \in DOMAIN rel : saved[m].epic = rel[m].epic /\ saved[m].story = rel[m].story
  <2> HIDE DEF saved
  <2>1. \A m \in 1..Len(rel) : saved[m] \in Relations
    BY <1>1, <1>s, <1>t
  <2>2. saved \in Seq(Relations)
    BY <1>1, <1>s, <2>1
  <2>3. DOMAIN saved = DOMAIN rel
    BY <1>1, <1>s
  <2>4. \A m \in DOMAIN rel : saved[m].epic = rel[m].epic /\ saved[m].story = rel[m].story
    BY <1>1, <1>s, <1>t
  <2> QED
    BY <2>2, <2>3, <2>4
<1> HIDE DEF saved
<1>3. /\ DOMAIN shifted = 1..Len(rel)
      /\ \A m \in 1..Len(rel) :
            /\ shifted[m].epic = rel[m].epic /\ shifted[m].story = rel[m].story
            /\ shifted[m].order <= MaxOrder => shifted[m] \in Relations
  <2>1. DOMAIN shifted = 1..Len(rel)
    BY <1>1, <1>2 DEF ShiftOrders
  <2>2. ASSUME NEW m \in 1..Len(rel)
        PROVE  /\ shifted[m].epic = rel[m].epic /\ shifted[m].story = rel[m].story
               /\ shifted[m].order <= MaxOrder => shifted[m] \in Relations
    <3>1. saved[m] \in Relations
      BY <1>1, <1>2
    <3>2. shifted[m] = saved[m] \/ shifted[m] = WithOrder(saved[m], saved[m].order + 1)
      BY <1>1, <1>2 DEF ShiftOrders
    <3> HIDE DEF shifted
    <3>3. CASE shifted[m] = saved[m]
      BY <3>1, <3>3, <1>1, <1>2
    <3>4. CASE shifted[m] = WithOrder(saved[m], saved[m].order + 1)
      <4>1. saved[m].order + 1 \in Nat
        BY <3>1, WithOrderType
      <4>2. LET x == WithOrder(saved[m], saved[m].order + 1)
            IN  /\ x.epic = saved[m].epic /\ x.story = saved[m].story
                /\ x.order <= MaxOrder => x \in Relations
        BY <3>1, <4>1, WithOrderType
      <4> QED
        BY <3>4, <4>2, <1>1, <1>2
    <3> QED
      BY <3>2, <3>3, <3>4
  <2> HIDE DEF shifted
  <2> QED
    BY <2>1, <2>2
<1> HIDE DEF shifted
<1>5. \A m \in 1..Len(rel) : shifted[m] \in Relations
  BY <1>3, <1>4
<1>6. shifted \in Seq(Relations)
  <2>1. shifted = [m \in 1..Len(rel) |-> shifted[m]]
    BY <1>3 DEF shifted, ShiftOrders
  <2> QED
    BY <2>1, <1>1, <1>5
<1>7. SamePairs(saved, rel) /\ SamePairs(shifted, rel)
  BY <1>1, <1>2, <1>3 DEF SamePairs
<1> QED
  BY <1>2, <1>6, <1>7 DEF shifted, saved

LEMMA SamePairsUnique ==
    ASSUME NEW a, NEW b, SamePairs(a, b), UniqueRelations(b)
    PROVE  UniqueRelations(a)
BY DEF SamePairs, UniqueRelations

LEMMA ReorderKeepsIInv ==
    ASSUME IInv, NEW e \in Epics, NEW s \in Stories, NEW o \in 0..MaxOrder, Reorder(e, s, o)
    PROVE  IInv'
<1> PICK k \in DOMAIN related :
        LET saved == [related EXCEPT ![k] = WithOrder(related[k], o)]
            shifted == ShiftOrders(saved, e, s, o)
        IN  /\ \A m \in DOMAIN shifted : shifted[m].order <= MaxOrder
            /\ related' = saved
            /\ Run(<<SyncOp(s), BulkOp(e), SyncOp(s), OnCommitOp(shifted)>>)
            /\ UNCHANGED <<live, story>>
  BY DEF Reorder
<1> DEFINE saved == [related EXCEPT ![k] = WithOrder(related[k], o)]
           shifted == ShiftOrders(saved, e, s, o)
           ops == <<SyncOp(s), BulkOp(e), SyncOp(s), OnCommitOp(shifted)>>
<1>1. related \in Seq(Relations) /\ UniqueRelations(related)
  BY DEF IInv, TypeOK
<1>2. /\ saved \in Seq(Relations) /\ SamePairs(saved, related)
      /\ shifted \in Seq(Relations) /\ SamePairs(shifted, related)
  BY <1>1, ReorderTables
<1>3. Run(ops) /\ live' = live /\ story' = story /\ related' = saved
  OBVIOUS
<1> HIDE DEF saved, shifted
<1>4. UniqueRelations(saved) /\ UniqueRelations(shifted)
  BY <1>1, <1>2, SamePairsUnique
<1>5. ops \in Seq(Ops) /\ CommitsUnique(ops)
  BY <1>2, <1>4, OpsType DEF CommitsUnique, SyncOp, BulkOp, OnCommitOp
<1> HIDE DEF ops
<1> QED
  BY <1>2, <1>3, <1>4, <1>5, RequestKeepsIInv DEF IInv, TypeOK

LEMMA BulkCreateKeepsIInv ==
    ASSUME IInv, NEW e \in Epics, NEW a \in Stories, NEW b \in Stories, BulkCreate(e, a, b)
    PROVE  IInv'
<1> DEFINE ops == <<SyncOp(a), SyncOp(b), RelateOp(e, a), RelateOp(e, b), BulkOp(e),
                    SyncOp(a), SyncOp(b)>>
<1>1. ops \in Seq(Ops) /\ CommitsUnique(ops)
  BY OpsType DEF CommitsUnique, SyncOp, RelateOp, BulkOp
<1> HIDE DEF ops
<1>2. Run(ops) /\ live' = live \cup {a, b} /\ story' = story /\ related' = related
  BY DEF BulkCreate, ops
<1>3. live' \subseteq Items
  BY <1>2, OpsType DEF IInv, TypeOK
<1> QED
  BY <1>1, <1>2, <1>3, RequestKeepsIInv DEF IInv, TypeOK

LEMMA DeleteTaskKeepsIInv ==
    ASSUME IInv, NEW t \in Tasks, DeleteTask(t)
    PROVE  IInv'
<1>1. <<RemoveOp(t)>> \in Seq(Ops) /\ CommitsUnique(<<RemoveOp(t)>>)
  BY OpsType DEF CommitsUnique, RemoveOp
<1>2. Run(<<RemoveOp(t)>>) /\ live' = live /\ story' = story /\ related' = related
  BY DEF DeleteTask
<1> QED
  BY <1>1, <1>2, RequestKeepsIInv DEF IInv, TypeOK

(* The operations a cascade queues are syncs and removals only.            *)
SyncsAndRemovals == [op : {"sync", "remove"}, item : Items]

LEMMA CascadeOps ==
    ASSUME NEW ops \in Seq(SyncsAndRemovals)
    PROVE  ops \in Seq(Ops) /\ CommitsUnique(ops)
<1>1. SyncsAndRemovals \subseteq Ops /\ \A x \in SyncsAndRemovals : x.op # "on_commit"
  BY DEF Ops, SyncsAndRemovals
<1>2. \A k \in DOMAIN ops : ops[k] \in SyncsAndRemovals
  OBVIOUS
<1>3. ops \in Seq(Ops)
  BY <1>1
<1> QED
  BY <1>1, <1>2, <1>3 DEF CommitsUnique

(* Saving an epic queues syncs of the epic and of its stories only.        *)
LEMMA SaveEpicQueue ==
    ASSUME related \in Seq(Relations), NEW e \in Epics, SaveEpic(e)
    PROVE  \E ops \in Seq(SyncsAndRemovals) :
              /\ Run(ops)
              /\ \A k \in DOMAIN ops :
                    ops[k].op = "sync" /\ ops[k].item \in {e} \cup StoriesOf(related, e)
<1> DEFINE S == StoriesOf(related, e)
<1>1. PICK q \in [1..Cardinality(S) -> S] : Run(<<SyncOp(e)>> \o OpsFor(q, SyncOp))
  BY DEF SaveEpic
<1>2. S \subseteq Items
  <2>1. \A k \in DOMAIN related : related[k] \in Relations
    OBVIOUS
  <2> QED
    BY <2>1, WithOrderType, OpsType DEF StoriesOf, RelationsOfEpic
<1>3. Cardinality(S) \in Nat
  <2>1. IsFiniteSet(S)
    BY <1>2, ItemsAssumption, FS_Subset
  <2> QED
    BY <2>1, FS_CardinalityType
<1> DEFINE n == Cardinality(S)
           rest == [k \in 1..n |-> SyncOp(q[k])]
           ops == <<SyncOp(e)>> \o rest
<1> HIDE DEF S
<1>4. OpsFor(q, SyncOp) = rest
  BY <1>1 DEF OpsFor
<1> HIDE DEF n
<1>5. /\ rest \in Seq(SyncsAndRemovals) /\ SyncOp(e) \in SyncsAndRemovals
      /\ Len(rest) = n /\ \A k \in 1..n : rest[k] = SyncOp(q[k])
  <2>1. \A i \in Items : SyncOp(i) \in SyncsAndRemovals
    BY DEF SyncsAndRemovals, SyncOp
  <2>2. \A k \in 1..n : SyncOp(q[k]) \in SyncsAndRemovals
    BY <1>1, <1>2, <2>1 DEF n
  <2>3. n \in Nat /\ DOMAIN rest = 1..n /\ \A k \in 1..n : rest[k] = SyncOp(q[k])
    BY <1>3 DEF n
  <2>4. rest \in Seq(SyncsAndRemovals)
    BY <2>2, <2>3
  <2>5. Len(rest) = n
    BY <2>3, <2>4
  <2> QED
    BY <2>1, <2>3, <2>4, <2>5, OpsType
<1> HIDE DEF rest
<1>6. /\ ops \in Seq(SyncsAndRemovals) /\ Len(ops) = n + 1 /\ ops[1] = SyncOp(e)
      /\ \A k \in 2..(n + 1) : k - 1 \in 1..n /\ ops[k] = rest[k - 1]
  BY <1>3, <1>5 DEF n
<1> HIDE DEF ops
<1>7. \A k \in DOMAIN ops : ops[k].op = "sync" /\ ops[k].item \in {e} \cup S
  <2>1. \A k \in 1..n : q[k] \in S
    BY <1>1 DEF n
  <2>2. \A k \in 2..(n + 1) : ops[k] = SyncOp(q[k - 1]) /\ q[k - 1] \in S
    BY <2>1, <1>5, <1>6
  <2>3. \A k \in DOMAIN ops : k = 1 \/ k \in 2..(n + 1)
    BY <1>3, <1>6 DEF n
  <2>4. \A i : SyncOp(i).op = "sync" /\ SyncOp(i).item = i
    BY DEF SyncOp
  <2>5. \A k \in DOMAIN ops : \E i \in {e} \cup S : ops[k] = SyncOp(i)
    BY <2>2, <2>3, <1>6
  <2> QED
    BY <2>4, <2>5
<1>8. Run(ops)
  BY <1>1, <1>4 DEF ops
<1> QED
  BY <1>6, <1>7, <1>8 DEF S

LEMMA SaveEpicKeepsIInv ==
    ASSUME IInv, NEW e \in Epics, SaveEpic(e)
    PROVE  IInv'
<1>1. PICK ops \in Seq(SyncsAndRemovals) : Run(ops)
  BY SaveEpicQueue DEF IInv, TypeOK
<1>2. live' = live /\ story' = story /\ related' = related
  BY DEF SaveEpic
<1> QED
  BY <1>1, <1>2, CascadeOps, RequestKeepsIInv DEF IInv, TypeOK

LEMMA DeleteStoryKeepsIInv ==
    ASSUME IInv, NEW s \in Stories, DeleteStory(s)
    PROVE  IInv'
<1> DEFINE mine == {t \in Tasks \cap live : story[t] = s}
           K == RelationsOfStory(related, s)
<1>1. PICK q \in [1..Cardinality(mine) -> mine] :
         Run(OpsFor(q, RemoveOp) \o [k \in 1..Cardinality(K) |-> SyncOp(s)] \o <<RemoveOp(s)>>)
  BY DEF DeleteStory
<1> DEFINE removals == OpsFor(q, RemoveOp)
           syncs == [k \in 1..Cardinality(K) |-> SyncOp(s)]
           ops == removals \o syncs \o <<RemoveOp(s)>>
<1>2. related \in Seq(Relations) /\ UniqueRelations(related)
  BY DEF IInv, TypeOK
<1>3. IsFiniteSet(K) /\ IsFiniteSet(mine)
  <2>1. K \in SUBSET (DOMAIN related)
    BY DEF RelationsOfStory
  <2>2. mine \subseteq Items /\ IsFiniteSet(Items)
    BY ItemsAssumption, OpsType
  <2> QED
    BY <1>2, <2>1, <2>2, RelationListing, FS_Subset
<1>4. Cardinality(K) \in Nat /\ Cardinality(mine) \in Nat
  BY <1>3, FS_CardinalityType
<1>5. removals \in Seq(SyncsAndRemovals)
  <2>1. \A k \in 1..Cardinality(mine) : q[k] \in Items
    BY <1>1, OpsType
  <2>2. removals = [k \in 1..Cardinality(mine) |-> RemoveOp(q[k])]
    BY <1>1 DEF OpsFor
  <2>3. \A k \in 1..Cardinality(mine) : RemoveOp(q[k]) \in SyncsAndRemovals
    BY <2>1 DEF SyncsAndRemovals, RemoveOp
  <2> HIDE DEF removals
  <2> QED
    BY <2>2, <2>3, <1>4
<1>6. SyncOp(s) \in SyncsAndRemovals /\ RemoveOp(s) \in SyncsAndRemovals
  BY OpsType DEF SyncsAndRemovals, SyncOp, RemoveOp
<1>7. syncs \in Seq(SyncsAndRemovals)
  BY <1>4, <1>6
<1> HIDE DEF removals, syncs
<1>8. ops \in Seq(SyncsAndRemovals)
  BY <1>5, <1>6, <1>7
<1>9. Run(ops)
  BY <1>1 DEF removals, syncs
<1> HIDE DEF ops
<1>10. related' \in Seq(Relations) /\ UniqueRelations(related')
  BY <1>2, KeepType DEF DeleteStory
<1>11. live' = live /\ story' \in [Tasks -> Stories \cup {Root}]
  BY DEF DeleteStory, IInv, TypeOK
<1> QED
  BY <1>8, <1>9, <1>10, <1>11, CascadeOps, RequestKeepsIInv DEF IInv, TypeOK

LEMMA DeleteEpicKeepsIInv ==
    ASSUME IInv, NEW e \in Epics, DeleteEpic(e)
    PROVE  IInv'
<1> DEFINE K == RelationsOfEpic(related, e)
           n == Cardinality(K)
           q == SortBy(K, {p \in K \X K : p[1] < p[2]})
           syncs == [k \in DOMAIN q |-> SyncOp(related[q[k]].story)]
           ops == syncs \o <<RemoveOp(e)>>
<1>1. related \in Seq(Relations) /\ UniqueRelations(related)
  BY DEF IInv, TypeOK
<1>2. /\ \A k \in K : related[k] \in Relations
      /\ Lists(q, K, n)
  <2>1. K \in SUBSET (DOMAIN related)
    BY DEF RelationsOfEpic
  <2> QED
    BY <1>1, <2>1, RelationListing
<1>3. Run(ops)
  BY DEF DeleteEpic
<1> HIDE DEF q
<1>4. syncs \in Seq(SyncsAndRemovals)
  <2>1. n \in Nat /\ DOMAIN q = 1..n /\ \A k \in 1..n : q[k] \in K
    BY <1>2 DEF Lists
  <2>2. \A k \in 1..n : SyncOp(related[q[k]].story) \in SyncsAndRemovals
    BY <1>2, <2>1, WithOrderType, OpsType DEF SyncsAndRemovals, SyncOp
  <2>3. syncs = [k \in 1..n |-> SyncOp(related[q[k]].story)]
    BY <2>1
  <2> HIDE DEF syncs
  <2> QED
    BY <2>1, <2>2, <2>3
<1> HIDE DEF syncs
<1>5. ops \in Seq(SyncsAndRemovals)
  BY <1>4, OpsType DEF SyncsAndRemovals, RemoveOp
<1> HIDE DEF ops
<1>6. related' \in Seq(Relations) /\ UniqueRelations(related')
  BY <1>1, KeepType DEF DeleteEpic
<1>7. live' = live /\ story' = story
  BY DEF DeleteEpic
<1> QED
  BY <1>3, <1>5, <1>6, <1>7, CascadeOps, RequestKeepsIInv DEF IInv, TypeOK

-----------------------------------------------------------------------------
(* Operations.                                                             *)

(* The queue is typed and its remaining operations are again a queue.      *)
LEMMA QueueType ==
    ASSUME IInv, job # <<>>
    PROVE  /\ Head1 \in Ops
           /\ Head1.op = "on_commit" => UniqueRelations(Head1.related)
           /\ Tail(job) \in Seq(Ops) /\ CommitsUnique(Tail(job))
<1>1. job \in Seq(Ops) /\ CommitsUnique(job)
  BY DEF IInv, TypeOK, CommitsUnique
<1>2. /\ Len(job) \in Nat \ {0} /\ DOMAIN job = 1..Len(job)
      /\ Head1 = job[1] /\ job[1] \in Ops /\ Tail(job) \in Seq(Ops)
      /\ DOMAIN Tail(job) = 1..(Len(job) - 1)
      /\ \A k \in 1..(Len(job) - 1) : Tail(job)[k] = job[k + 1]
  BY <1>1 DEF Head1
<1>3. \A k \in 1..(Len(job) - 1) : k + 1 \in DOMAIN job
  BY <1>2
<1>4. 1 \in DOMAIN job
  BY <1>2
<1> QED
  BY <1>1, <1>2, <1>3, <1>4 DEF CommitsUnique

(* An operation outside the epic-wide reorder needs to leave a dense table,*)
(* distinct relations and a queue behind.                                  *)
LEMMA OperationKeepsIInv ==
    ASSUME IInv, IsTable(rows'), Dense(rows'), bulk' = NoBulk, dropped' \in BOOLEAN,
           job' \in Seq(Ops), CommitsUnique(job'), live' \subseteq Items, story' = story,
           related' \in Seq(Relations), UniqueRelations(related')
    PROVE  IInv'
<1>1. TypeOK'
  BY DEF IInv, TypeOK, IsTable
<1>2. BulkConsistent'
  BY DEF BulkConsistent
<1> QED
  BY <1>1, <1>2 DEF IInv, Dense, DenseGroup, Siblings, CommitsUnique

LEMMA NoBulkRuns ==
    ASSUME TypeOK, ~bulk.active
    PROVE  bulk = NoBulk
BY DEF TypeOK, IsBulk

LEMMA StepSyncKeepsIInv ==
    ASSUME IInv, StepSync
    PROVE  IInv'
<1>1. Head1 \in Ops /\ job' \in Seq(Ops) /\ CommitsUnique(job')
  BY QueueType DEF StepSync, Done
<1>2. Head1.item \in Items
  BY <1>1 DEF StepSync, Ops
<1>3. /\ Dense(SyncedRows(Head1.item))
      /\ IsTable(SyncedRows(Head1.item))
  BY <1>2, SyncedDense DEF IInv
<1>4. rows' = SyncedRows(Head1.item) /\ bulk' = NoBulk
  BY NoBulkRuns DEF StepSync, IInv
<1>5. UNCHANGED <<live, story, related, dropped>>
  BY DEF StepSync
<1> QED
  BY <1>1, <1>3, <1>4, <1>5, OperationKeepsIInv DEF IInv, TypeOK

LEMMA StepPlaceKeepsIInv ==
    ASSUME IInv, StepPlace
    PROVE  IInv'
<1> DEFINE i == Head1.item
           r == SyncedRows(i)
           p == MoveWithin(r, i, Head1.position)
<1>1. Head1 \in Ops /\ job' \in Seq(Ops) /\ CommitsUnique(job')
  BY QueueType DEF StepPlace, Done
<1>2. i \in Items /\ Head1.position \in Int
  BY <1>1 DEF StepPlace, Ops
<1>3. /\ DOMAIN r = DOMAIN rows \cup {i}
      /\ Dense(r) /\ IsTable(r)
  BY <1>2, SyncedDense DEF IInv
<1>4. rows' = rows \/ rows' = p
  BY DEF StepPlace
<1>5. UNCHANGED <<live, story, related, dropped>> /\ bulk' = NoBulk
  BY NoBulkRuns DEF StepPlace, IInv
<1> HIDE DEF r, i
<1>6. IsTable(p) /\ Dense(p)
  <2>1. IsFiniteSet(DOMAIN r)
    BY <1>3, ItemsAssumption, FS_Subset DEF IsTable
  <2>2. LET t == MoveWithin(r, i, Head1.position)
        IN  /\ DOMAIN t = DOMAIN r
            /\ \A j \in DOMAIN r : t[j].group = r[j].group
            /\ Dense(t)
    BY <2>1, <1>2, <1>3, MoveWithinDense
  <2> HIDE DEF p
  <2>3. /\ DOMAIN p \subseteq Items
        /\ \A j \in DOMAIN p : p[j].group \in Groups
        /\ Dense(p)
    BY <2>2, <1>3 DEF IsTable, p
  <2> QED
    BY <2>3, DenseIsTable
<1> HIDE DEF p
<1>7. IsTable(rows') /\ Dense(rows')
  BY <1>4, <1>6 DEF IInv, TypeOK
<1> QED
  BY <1>1, <1>5, <1>7, OperationKeepsIInv DEF IInv, TypeOK

LEMMA StepRemoveKeepsIInv ==
    ASSUME IInv, StepRemove
    PROVE  IInv'
<1> DEFINE p == DeleteRow(rows, Head1.item)
<1>1. job' \in Seq(Ops) /\ CommitsUnique(job')
  BY QueueType DEF StepRemove, Done
<1>2. /\ rows' = p /\ bulk' = NoBulk
      /\ live' \subseteq Items /\ UNCHANGED <<story, related, dropped>>
  BY NoBulkRuns DEF StepRemove, IInv, TypeOK
<1>3. IsTable(rows) /\ Dense(rows) /\ IsFiniteSet(DOMAIN rows)
  BY ItemsAssumption, FS_Subset DEF IInv, TypeOK, IsTable
<1>4. LET t == DeleteRow(rows, Head1.item)
      IN  /\ DOMAIN t = DOMAIN rows \ {Head1.item}
          /\ \A j \in DOMAIN t : t[j].group = rows[j].group
          /\ Dense(t)
  BY <1>3, DeleteRowDense
<1> HIDE DEF p
<1>5. /\ DOMAIN p \subseteq Items
      /\ \A j \in DOMAIN p : p[j].group \in Groups
      /\ Dense(p)
  BY <1>3, <1>4 DEF IsTable, p
<1>6. IsTable(rows') /\ Dense(rows')
  BY <1>2, <1>5, DenseIsTable
<1> QED
  BY <1>1, <1>2, <1>6, OperationKeepsIInv DEF IInv, TypeOK

LEMMA StepRelateKeepsIInv ==
    ASSUME IInv, StepRelate
    PROVE  IInv'
<1>1. Head1 \in Ops /\ Tail(job) \in Seq(Ops) /\ CommitsUnique(Tail(job))
  BY QueueType DEF StepRelate
<1>2. Head1.epic \in Epics /\ Head1.item \in Stories
  BY <1>1 DEF StepRelate, Ops
<1>3. PICK now \in 0..MaxOrder :
         related' = Append(related, [epic |-> Head1.epic, story |-> Head1.item, order |-> now])
  BY DEF StepRelate
<1> DEFINE x == [epic |-> Head1.epic, story |-> Head1.item, order |-> now]
<1>4. x \in Relations /\ Unrelated(related, x.epic, x.story)
  BY <1>2 DEF Relations, StepRelate
<1>5. related' \in Seq(Relations) /\ UniqueRelations(related')
  BY <1>3, <1>4, AppendUnique DEF IInv, TypeOK
<1>6. SyncOp(Head1.item) \in Ops /\ SyncOp(Head1.item).op = "sync"
  BY <1>2, OpsType DEF SyncOp
<1>7. job' \in Seq(Ops) /\ CommitsUnique(job')
  <2> DEFINE o == SyncOp(Head1.item)
  <2> HIDE DEF o
  <2>1. job' = <<o>> \o Tail(job) /\ o \in Ops /\ o.op # "on_commit"
    BY <1>6 DEF StepRelate, o
  <2>2. /\ job' \in Seq(Ops) /\ Len(Tail(job)) \in Nat
        /\ DOMAIN Tail(job) = 1..Len(Tail(job))
        /\ DOMAIN job' = 1..(Len(Tail(job)) + 1)
        /\ job'[1] = o
        /\ \A k \in 2..(Len(Tail(job)) + 1) : job'[k] = Tail(job)[k - 1]
    BY <1>1, <2>1
  <2>3. ASSUME NEW k \in DOMAIN job', job'[k].op = "on_commit"
        PROVE  UniqueRelations(job'[k].related)
    <3>1. k # 1 /\ k \in 2..(Len(Tail(job)) + 1) /\ k - 1 \in DOMAIN Tail(job)
      BY <2>1, <2>2, <2>3
    <3> QED
      BY <3>1, <2>2, <2>3, <1>1 DEF CommitsUnique
  <2> QED
    BY <2>2, <2>3 DEF CommitsUnique
<1>8. bulk' = NoBulk /\ UNCHANGED <<live, story, rows, dropped>>
  BY NoBulkRuns DEF StepRelate, IInv
<1> QED
  BY <1>5, <1>7, <1>8, OperationKeepsIInv DEF IInv, TypeOK

LEMMA StepOnCommitKeepsIInv ==
    ASSUME IInv, StepOnCommit
    PROVE  IInv'
<1>1. /\ Head1 \in Ops /\ UniqueRelations(Head1.related)
      /\ job' \in Seq(Ops) /\ CommitsUnique(job')
  BY QueueType DEF StepOnCommit, Done
<1>2. Head1.related \in Seq(Relations)
  BY <1>1 DEF StepOnCommit, Ops
<1>3. /\ related' = Head1.related /\ bulk' = NoBulk
      /\ UNCHANGED <<live, story, rows, dropped>>
  BY NoBulkRuns DEF StepOnCommit, IInv
<1> QED
  BY <1>1, <1>2, <1>3, OperationKeepsIInv DEF IInv, TypeOK

(* The reorder starts with a queue of distinct stories and a dense table   *)
(* to return to.                                                           *)
LEMMA StepBulkKeepsIInv ==
    ASSUME IInv, StepBulk
    PROVE  IInv'
<1> DEFINE todo == OrderedStories(related, Head1.epic)
<1>1. Head1 \in Ops /\ Tail(job) \in Seq(Ops) /\ CommitsUnique(Tail(job)) /\ job # <<>>
  BY QueueType DEF StepBulk
<1>2. Head1.epic \in Epics
  BY <1>1 DEF StepBulk, Ops
<1>3. UNCHANGED <<live, story, related, rows, dropped>> /\ bulk = NoBulk
  BY NoBulkRuns DEF StepBulk, IInv
<1>4. /\ todo \in Seq(Stories)
      /\ \A a, b \in DOMAIN todo : todo[a] = todo[b] => a = b
  BY OrderedStoriesType DEF IInv, TypeOK
<1>5. CASE todo = <<>>
  <2>1. job' = Tail(job) /\ bulk' = bulk
    BY <1>5 DEF StepBulk, Done
  <2> QED
    BY <1>1, <1>3, <2>1, OperationKeepsIInv DEF IInv, TypeOK
<1>6. CASE todo # <<>>
  <2>1. /\ job' = job
        /\ bulk' = [active |-> TRUE, epic |-> Head1.epic, todo |-> todo,
                    ordered |-> <<>>, saved |-> rows]
    BY <1>6 DEF StepBulk
  <2> HIDE DEF todo
  <2>2. IsBulk(bulk')
    BY <1>2, <1>4, <2>1 DEF IsBulk, IInv, TypeOK
  <2>3. TypeOK'
    BY <1>3, <2>1, <2>2 DEF IInv, TypeOK, IsTable, IsBulk
  <2>4. BulkConsistent'
    <3>1. DOMAIN bulk'.ordered = {} /\ bulk'.todo = todo /\ bulk'.saved = rows /\ job' # <<>>
      BY <1>1, <2>1
    <3>2. Dense(rows)
      BY DEF IInv
    <3> QED
      BY <3>1, <3>2, <1>4 DEF BulkConsistent
  <2> QED
    BY <1>3, <2>1, <2>3, <2>4 DEF IInv
<1> QED
  BY <1>5, <1>6

(* A collected story was just synced into the epic's group, and no later   *)
(* sync of another story takes it out again.                               *)
LEMMA StepCollectKeepsIInv ==
    ASSUME IInv, OneProjectOnly, StepCollect
    PROVE  IInv'
<1> DEFINE todo == bulk.todo
           ordered == bulk.ordered
           s == Head(todo)
           synced == SyncedRows(s)
           entry == [item |-> s, position |-> synced[s].position]
           key == EpicGroup(bulk.epic)
           m == Len(ordered)
<1>1. /\ bulk.active /\ IsBulk(bulk) /\ job # <<>>
      /\ todo \in Seq(Stories) /\ todo # <<>>
      /\ ordered \in Seq([item : Stories, position : Nat])
      /\ bulk.epic \in Epics
  BY DEF StepCollect, IInv, TypeOK, IsBulk, BulkConsistent
<1>2. /\ Len(todo) \in Nat \ {0} /\ DOMAIN todo = 1..Len(todo)
      /\ s = todo[1] /\ s \in Stories
      /\ Tail(todo) \in Seq(Stories) /\ DOMAIN Tail(todo) = 1..(Len(todo) - 1)
      /\ \A k \in 1..(Len(todo) - 1) : Tail(todo)[k] = todo[k + 1] /\ k + 1 \in 1..Len(todo)
      /\ m \in Nat /\ DOMAIN ordered = 1..m
  BY <1>1
<1> HIDE DEF s
<1>3. s \in Items
  BY <1>2, OpsType
<1>4. /\ DOMAIN synced = DOMAIN rows \cup {s}
      /\ synced[s].group = GroupKey(s)
      /\ \A j \in DOMAIN rows : j # s => synced[j].group = rows[j].group
      /\ Dense(synced) /\ IsTable(synced)
  BY <1>3, SyncedDense DEF IInv
<1> HIDE DEF synced
<1>5. /\ rows' = synced
      /\ UNCHANGED <<live, story, related, job, dropped>>
      /\ bulk' = [active |-> TRUE, epic |-> bulk.epic, todo |-> Tail(todo),
                  ordered |-> IF synced[s].group[3] = bulk.epic
                              THEN Append(ordered, entry) ELSE ordered,
                  saved |-> bulk.saved]
  BY DEF StepCollect, s, synced
<1>6. /\ \A a, b \in 1..Len(todo) : todo[a] = todo[b] => a = b
      /\ \A a, b \in 1..m : ordered[a].item = ordered[b].item => a = b
      /\ \A a \in 1..Len(todo), b \in 1..m : todo[a] # ordered[b].item
      /\ \A b \in 1..m : ordered[b].item \in Siblings(rows, key)
      /\ Dense(bulk.saved) /\ IsTable(bulk.saved)
  BY <1>1, <1>2 DEF IInv, BulkConsistent, IsBulk
<1>7. 1 \in 1..Len(todo)
  BY <1>2
<1>8. entry \in [item : Stories, position : Nat]
  BY <1>2, <1>3, <1>4 DEF IsTable
<1>9. synced[s].group[3] = bulk.epic => synced[s].group = key
  <2>1. bulk.epic \in Items /\ s \notin Epics
    BY <1>1, <1>2, OpsType, ItemsAssumption
  <2>2. GroupKey(s) = <<Project[s], "userstory", ResolveParent(s)>>
    BY <1>2, <2>1 DEF GroupKey, KindOf
  <2>3. Project[s] = Project[bulk.epic]
    BY <1>3, <2>1 DEF OneProjectOnly
  <2> QED
    BY <1>4, <2>2, <2>3 DEF EpicGroup
<1>10. \A j \in Siblings(rows, key) : j # s => j \in Siblings(synced, key)
  BY <1>4 DEF Siblings
<1>11. \A b \in 1..m : ordered[b].item \in Siblings(synced, key)
  BY <1>2, <1>6, <1>7, <1>10
<1> HIDE DEF todo, ordered, m, entry
<1> DEFINE later == bulk'.ordered
<1>12. /\ bulk'.active /\ bulk'.epic = bulk.epic /\ bulk'.todo = Tail(todo)
       /\ bulk'.saved = bulk.saved
       /\ later = IF synced[s].group[3] = bulk.epic THEN Append(ordered, entry) ELSE ordered
  BY <1>5
<1>13. /\ later \in Seq([item : Stories, position : Nat])
       /\ \A b \in DOMAIN later : \/ b \in 1..m /\ later[b] = ordered[b]
                                  \/ /\ b = m + 1 /\ later[b] = entry
                                     /\ synced[s].group[3] = bulk.epic
  <2>1. CASE synced[s].group[3] = bulk.epic
    <3>1. later = Append(ordered, entry)
      BY <1>12, <2>1
    <3> HIDE DEF later
    <3> QED
      BY <1>1, <1>2, <1>8, <2>1, <3>1 DEF ordered, m
  <2>2. CASE synced[s].group[3] # bulk.epic
    BY <1>1, <1>2, <1>12, <2>2 DEF ordered
  <2> QED
    BY <2>1, <2>2
<1>14. entry.item = s
  BY DEF entry
<1> HIDE DEF later
<1>15. TypeOK'
  <2>1. IsBulk(bulk')
    <3>1. bulk' = [active |-> TRUE, epic |-> bulk'.epic, todo |-> bulk'.todo,
                   ordered |-> bulk'.ordered, saved |-> bulk'.saved]
      BY <1>5
    <3>2. bulk'.epic \in Epics /\ bulk'.todo \in Seq(Stories) /\ IsTable(bulk'.saved)
      BY <1>1, <1>2, <1>6, <1>12 DEF todo
    <3>3. bulk'.ordered \in Seq([item : Stories, position : Nat])
      BY <1>13 DEF later
    <3> QED
      BY <3>1, <3>2, <3>3 DEF IsBulk
  <2> QED
    BY <2>1, <1>4, <1>5 DEF IInv, TypeOK, IsTable, IsBulk
<1>16. \A a, b \in DOMAIN Tail(todo) : Tail(todo)[a] = Tail(todo)[b] => a = b
  <2>1. ASSUME NEW a \in 1..(Len(todo) - 1), NEW b \in 1..(Len(todo) - 1),
               Tail(todo)[a] = Tail(todo)[b]
        PROVE  a = b
    <3>1. a + 1 = b + 1
      BY <1>2, <1>6, <2>1
    <3> QED
      BY <3>1, <1>2
  <2> QED
    BY <1>2, <2>1
<1>17. \A a \in 1..(Len(todo) - 1) : Tail(todo)[a] # s
  <2>1. ASSUME NEW a \in 1..(Len(todo) - 1), Tail(todo)[a] = s
        PROVE  FALSE
    <3>1. a + 1 = 1
      BY <1>2, <1>6, <1>7, <2>1
    <3> QED
      BY <3>1, <1>2
  <2> QED
    BY <2>1
<1>18. \A a, b \in DOMAIN later : later[a].item = later[b].item => a = b
  <2>1. \A b \in 1..m : ordered[b].item # s
    BY <1>2, <1>6, <1>7
  <2> QED
    BY <2>1, <1>6, <1>13, <1>14
<1>19. \A a \in DOMAIN Tail(todo), b \in DOMAIN later : Tail(todo)[a] # later[b].item
  <2>1. ASSUME NEW a \in 1..(Len(todo) - 1), NEW b \in DOMAIN later
        PROVE  Tail(todo)[a] # later[b].item
    <3>1. Tail(todo)[a] = todo[a + 1] /\ a + 1 \in 1..Len(todo)
      BY <1>2
    <3>2. CASE b \in 1..m /\ later[b] = ordered[b]
      BY <3>1, <3>2, <1>6
    <3>3. CASE later[b] = entry
      BY <3>3, <1>14, <1>17
    <3> QED
      BY <3>2, <3>3, <1>13
  <2> QED
    BY <2>1, <1>2
<1>20. \A b \in DOMAIN later : later[b].item \in Siblings(synced, key)
  <2>1. synced[s].group = key => s \in Siblings(synced, key)
    BY <1>4 DEF Siblings
  <2> QED
    BY <2>1, <1>9, <1>11, <1>13, <1>14
<1>21. BulkConsistent'
  <2>1. EpicGroup(bulk'.epic) = key
    BY <1>12
  <2>2. Siblings(rows', key) = Siblings(synced, key)
    BY <1>5
  <2> HIDE DEF key
  <2>3. BulkConsistent' <=>
         (bulk'.active =>
            /\ job' # <<>>
            /\ Dense(bulk'.saved)
            /\ \A a, b \in DOMAIN bulk'.todo : bulk'.todo[a] = bulk'.todo[b] => a = b
            /\ \A a, b \in DOMAIN later : later[a].item = later[b].item => a = b
            /\ \A a \in DOMAIN bulk'.todo, b \in DOMAIN later : bulk'.todo[a] # later[b].item
            /\ \A b \in DOMAIN later : later[b].item \in Siblings(synced, key))
    BY <2>1, <2>2 DEF BulkConsistent, later
  <2> QED
    BY <2>3, <1>1, <1>5, <1>6, <1>12, <1>16, <1>18, <1>19, <1>20
<1> QED
  BY <1>15, <1>21, <1>4, <1>5 DEF IInv

(* Giving the reorder up returns to a dense table.                         *)
LEMMA DropKeepsIInv ==
    ASSUME IInv, bulk.active, Drop
    PROVE  IInv'
<1>1. IsBulk(bulk) /\ Dense(bulk.saved) /\ job # <<>>
  BY DEF IInv, TypeOK, BulkConsistent
<1>2. job' \in Seq(Ops) /\ CommitsUnique(job')
  BY <1>1, QueueType DEF Drop, Done
<1>3. /\ rows' = bulk.saved /\ bulk' = NoBulk /\ dropped' = TRUE
      /\ UNCHANGED <<live, story, related>>
  BY DEF Drop
<1>4. IsTable(rows') /\ Dense(rows')
  BY <1>1, <1>3 DEF IsBulk
<1> QED
  BY <1>2, <1>3, <1>4, OperationKeepsIInv DEF IInv, TypeOK

LEMMA StepReindexKeepsIInv ==
    ASSUME IInv, StepReindex
    PROVE  IInv'
<1> DEFINE p == Renumber(rows, ReindexItems)
<1>1. bulk.active /\ job # <<>>
  BY DEF StepReindex, IInv, BulkConsistent
<1>2. job' \in Seq(Ops) /\ CommitsUnique(job')
  BY <1>1, QueueType DEF StepReindex, Done
<1>3. bulk' = NoBulk /\ UNCHANGED <<live, story, related, dropped>>
  BY DEF StepReindex
<1>4. IsTable(rows) /\ Dense(rows)
  BY DEF IInv, TypeOK
<1>5. CASE rows' = rows
  BY <1>2, <1>3, <1>4, <1>5, OperationKeepsIInv DEF IInv, TypeOK
<1>6. CASE ~Collides(rows, ReindexItems) /\ rows' = p
  <2>1. LET t == Renumber(rows, ReindexItems)
        IN  /\ DOMAIN t = DOMAIN rows
            /\ \A i \in DOMAIN rows : t[i].group = rows[i].group
            /\ Dense(t)
    BY <1>1, <1>6, ReindexDense
  <2> HIDE DEF p
  <2>2. /\ DOMAIN p \subseteq Items
        /\ \A i \in DOMAIN p : p[i].group \in Groups
        /\ Dense(p)
    BY <2>1, <1>4 DEF IsTable, p
  <2>3. IsTable(rows') /\ Dense(rows')
    BY <1>6, <2>2, DenseIsTable
  <2> QED
    BY <1>2, <1>3, <2>3, OperationKeepsIInv DEF IInv, TypeOK
<1> QED
  BY <1>5, <1>6 DEF StepReindex

-----------------------------------------------------------------------------
(* The invariant and what follows from it.                                 *)

LEMMA InitIInv == Init => IInv
<1> SUFFICES ASSUME Init
             PROVE  IInv
  OBVIOUS
<1>1. TypeOK
  <2>1. live \subseteq Items /\ related \in Seq(Relations) /\ job \in Seq(Ops) /\ bulk = NoBulk
    BY DEF Init
  <2>2. story \in [Tasks -> Stories \cup {Root}]
    BY DEF Init
  <2>3. IsTable(rows)
    BY DEF Init, IsTable
  <2>4. dropped \in BOOLEAN
    BY DEF Init
  <2> QED
    BY <2>1, <2>2, <2>3, <2>4 DEF TypeOK
<1> QED
  BY <1>1 DEF Init, IInv, Dense, UniqueRelations, BulkConsistent

LEMMA RequestIInv ==
    ASSUME IInv, Request
    PROVE  IInv'
<1>1. CASE \E e \in Epics : CreateEpic(e) \/ SaveEpic(e) \/ DeleteEpic(e)
  BY <1>1, OpsType, CreateKeepsIInv, SaveEpicKeepsIInv, DeleteEpicKeepsIInv
<1>2. CASE \E s \in Stories : CreateStory(s) \/ DeleteStory(s)
  BY <1>2, OpsType, CreateKeepsIInv, DeleteStoryKeepsIInv
<1>3. CASE \E t \in Tasks : DeleteTask(t)
  BY <1>3, DeleteTaskKeepsIInv
<1>4. CASE \E t \in Tasks, u \in Stories \cup {Root} : CreateTask(t, u) \/ MoveTask(t, u)
  BY <1>4, OpsType, CreateKeepsIInv, SaveMoveKeepsIInv
<1>5. CASE \E i \in Stories \cup Tasks : SaveItem(i)
  BY <1>5, OpsType, SaveMoveKeepsIInv
<1>6. CASE \E i \in Items, p \in 0..MaxPosition : SetPosition(i, p)
  <2>1. 0..MaxPosition \subseteq Nat
    BY BoundsAssumption
  <2> QED
    BY <1>6, <2>1, SetPositionKeepsIInv
<1>7. CASE \E e \in Epics, s \in Stories : Unrelate(e, s)
  BY <1>7, UnrelateKeepsIInv
<1>8. CASE \E e \in Epics, s \in Stories, o \in 0..MaxOrder : Relate(e, s, o) \/ Reorder(e, s, o)
  BY <1>8, RelateKeepsIInv, ReorderKeepsIInv
<1>9. CASE \E e \in Epics, s1 \in Stories, s2 \in Stories : BulkCreate(e, s1, s2)
  BY <1>9, BulkCreateKeepsIInv
<1> QED
  BY <1>1, <1>2, <1>3, <1>4, <1>5, <1>6, <1>7, <1>8, <1>9 DEF Request

LEMMA OperationIInv ==
    ASSUME IInv, OneProjectOnly, Operation
    PROVE  IInv'
<1>1. CASE CollectFails
  BY <1>1, DropKeepsIInv DEF CollectFails
<1>2. CASE ReindexFails
  BY <1>2, DropKeepsIInv DEF ReindexFails
<1> QED
  BY <1>1, <1>2, StepSyncKeepsIInv, StepPlaceKeepsIInv, StepRemoveKeepsIInv,
     StepRelateKeepsIInv, StepBulkKeepsIInv, StepCollectKeepsIInv,
     StepReindexKeepsIInv, StepOnCommitKeepsIInv DEF Operation

(* IInv is inductive: every request only queues operations, and every      *)
(* operation, the rollback of an epic-wide reorder included, leaves each   *)
(* group of rows numbered 1..n.                                            *)
THEOREM IInvHolds ==
    ASSUME OneProjectOnly
    PROVE  Spec => []IInv
<1>1. ASSUME IInv, [Next]_vars
      PROVE  IInv'
  <2>1. CASE Next
    BY <1>1, <2>1, RequestIInv, OperationIInv DEF Next
  <2>2. CASE UNCHANGED vars
    <3>1. /\ live' = live /\ story' = story /\ related' = related /\ rows' = rows
          /\ job' = job /\ bulk' = bulk /\ dropped' = dropped
      BY <2>2 DEF vars
    <3>2. TypeOK'
      BY <1>1, <3>1 DEF IInv, TypeOK, IsTable, IsBulk
    <3>3. BulkConsistent'
      BY <1>1, <3>1 DEF IInv, BulkConsistent
    <3> QED
      BY <1>1, <3>1, <3>2, <3>3 DEF IInv
  <2> QED
    BY <1>1, <2>1, <2>2
<1> QED
  BY <1>1, InitIInv, PTL DEF Spec

(* Every variable keeps its type, the stale instances of a bulk reorder    *)
(* and the orders waiting for a commit included.                           *)
THEOREM TypeCorrect ==
    ASSUME OneProjectOnly
    PROVE  Spec => []TypeOK
<1>1. IInv => TypeOK
  BY DEF IInv
<1> QED
  BY <1>1, IInvHolds, PTL

(* Sibling positions are 1..n after every operation, for any number of     *)
(* entities and relations: the siblings are mapped one-to-one into 1..n,   *)
(* n their number, hence onto it.                                          *)
THEOREM ContiguousHolds ==
    ASSUME OneProjectOnly
    PROVE  Spec => []Contiguous
<1>1. ASSUME IInv
      PROVE  Contiguous
  <2> SUFFICES ASSUME NEW g
               PROVE  {rows[i].position : i \in Siblings(rows, g)}
                        = 1..Cardinality(Siblings(rows, g))
    BY DEF Contiguous
  <2> DEFINE S == Siblings(rows, g)
             n == Cardinality(S)
             f == [i \in S |-> rows[i].position]
  <2>1. IsFiniteSet(DOMAIN rows)
    BY <1>1, ItemsAssumption, FS_Subset DEF IInv, TypeOK, IsTable
  <2>2. IsFiniteSet(S) /\ n \in Nat
    BY <2>1, SiblingsFinite
  <2>3. f \in Injection(S, 1..n)
    <3>1. DenseGroup(rows, g)
      BY <1>1, DenseEveryGroup DEF IInv
    <3> QED
      BY <3>1 DEF DenseGroup, Injection, IsInjective
  <2> HIDE DEF S
  <2>4. IsFiniteSet(1..n) /\ Cardinality(1..n) = n
    BY <2>2, FS_Interval
  <2>5. f \in Surjection(S, 1..n)
    BY <2>3, <2>4, FS_Injection
  <2>6. \A k \in 1..n : \E i \in S : rows[i].position = k
    BY <2>5 DEF Surjection
  <2>7. \A i \in S : rows[i].position \in 1..n
    BY <2>5 DEF Surjection
  <2> QED
    BY <2>6, <2>7 DEF S
<1> QED
  BY <1>1, IInvHolds, PTL

(* In a single project no request dies of a taken position: the position   *)
(* after the last sibling is free whenever a row is about to be created.   *)
THEOREM CreateNeverCollidesHolds ==
    ASSUME OneProjectOnly
    PROVE  Spec => []CreateNeverCollides
<1>1. ASSUME IInv
      PROVE  CreateNeverCollides
  <2>1. TypeOK /\ Dense(rows)
    BY <1>1 DEF IInv
  <2>2. ASSUME job # <<>>, Head1.op \in {"sync", "place"}
        PROVE  CanCreate(Head1.item)
    <3>1. Head1.item \in Items
      BY <1>1, <2>2, QueueType DEF Ops
    <3> QED
      BY <2>1, <3>1, SyncedDense
  <2>3. ASSUME bulk.active, bulk.todo # <<>>
        PROVE  CanCreate(Head(bulk.todo))
    <3>1. bulk.todo \in Seq(Stories)
      BY <2>1, <2>3 DEF TypeOK, IsBulk
    <3>2. Head(bulk.todo) \in Items
      BY <2>3, <3>1, OpsType
    <3> QED
      BY <2>1, <3>2, SyncedDense
  <2> QED
    BY <2>2, <2>3 DEF CreateNeverCollides
<1> QED
  BY <1>1, IInvHolds, PTL

-----------------------------------------------------------------------------
(* The order of siblings, step by step.                                    *)

(* The order of rows under a sync: the row that is moved leaves and joins   *)
(* behind the others, and the sync of a row that is at home changes no      *)
(* position; nobody's position grows.                                       *)
LEMMA SyncedOrder ==
    ASSUME NEW r, IsFiniteSet(DOMAIN r), Dense(r), NEW i, NEW g
    PROVE  /\ \A h : KeepsOrder(r, Synced(r, i, g), Siblings(r, h), i)
           /\ \A j \in DOMAIN r \ {i} : Synced(r, i, g)[j].position <= r[j].position
           /\ i \in DOMAIN r /\ Synced(r, i, g)[i].group = r[i].group =>
                \A j \in DOMAIN r : Synced(r, i, g)[j].position = r[j].position
<1> DEFINE p == Synced(r, i, g)
<1>0. \A j \in DOMAIN r : r[j].position \in Nat
  <2>1. \A j \in DOMAIN r : j \in Siblings(r, r[j].group) /\ Cardinality(Siblings(r, r[j].group)) \in Nat
    BY SiblingsFinite DEF Siblings
  <2> QED
    BY <2>1 DEF Dense, DenseGroup
<1>1. CASE \A j \in DOMAIN r : p[j].position = r[j].position
  BY <1>0, <1>1 DEF KeepsOrder, Siblings
<1>2. CASE i \notin DOMAIN r
  <2>1. p = CreateRow(r, i, g)
    BY <1>2 DEF Synced
  <2>2. \A j \in DOMAIN r : p[j].position = r[j].position
    BY <1>2, <2>1 DEF CreateRow
  <2> QED
    BY <2>2, <1>1
<1>3. CASE i \in DOMAIN r /\ r[i].group = g
  <2>1. p = MoveWithin(r, i, r[i].position)
    BY <1>3 DEF Synced
  <2> QED
    BY <2>1, <1>3, <1>1, MoveWithinStays
<1>4. CASE i \in DOMAIN r /\ r[i].group # g
  <2>1. p = MoveAcross(r, i, g)
    BY <1>4, DenseEndIsFree DEF Synced
  <2>2. LET t == MoveAcross(r, i, g)
        IN  /\ KeepsOrder(r, t, Siblings(r, r[i].group), i)
            /\ \A j \in Siblings(r, r[i].group) \ {i} : t[j].position <= r[j].position
            /\ \A j \in DOMAIN r : r[j].group # r[i].group => t[j].position = r[j].position
    BY <1>4, MoveAcrossOrder
  <2>3. LET t == MoveAcross(r, i, g)
        IN  /\ DOMAIN t = DOMAIN r
            /\ t[i].group = g
            /\ \A j \in DOMAIN r : j # i => t[j].group = r[j].group
            /\ Dense(t)
    BY <1>4, MoveAcrossDense
  <2> HIDE DEF p
  <2>4. /\ KeepsOrder(r, p, Siblings(r, r[i].group), i)
        /\ \A j \in Siblings(r, r[i].group) \ {i} : p[j].position <= r[j].position
        /\ \A j \in DOMAIN r : r[j].group # r[i].group => p[j].position = r[j].position
        /\ p[i].group = g
    BY <2>1, <2>2, <2>3
  <2>5. ASSUME NEW h
        PROVE  KeepsOrder(r, p, Siblings(r, h), i)
    <3>1. CASE h = r[i].group
      BY <3>1, <2>4
    <3>2. CASE h # r[i].group
      BY <3>2, <2>4 DEF KeepsOrder, Siblings
    <3> QED
      BY <3>1, <3>2
  <2>6. \A j \in DOMAIN r \ {i} : p[j].position <= r[j].position
    BY <1>0, <2>4 DEF Siblings
  <2> QED
    BY <1>4, <2>4, <2>5, <2>6 DEF p
<1> QED
  BY <1>2, <1>3, <1>4

(* Only the placed item swaps with a sibling (PATCH with a position).      *)
LEMMA PlaceSwapsItsItem ==
    ASSUME IInv, StepPlace, NEW i \in Items, NEW j \in Items, Swapped(i, j)
    PROVE  Head1.item \in {i, j}
<1> SUFFICES ASSUME Head1.item \notin {i, j}
             PROVE  FALSE
  OBVIOUS
<1> DEFINE x == Head1.item
           s == SyncedRows(x)
<1>1. TypeOK /\ Dense(rows) /\ IsTable(rows) /\ IsFiniteSet(DOMAIN rows)
  BY ItemsAssumption, FS_Subset DEF IInv, TypeOK, IsTable
<1>2. x \in Items /\ Head1.position \in Nat
  BY QueueType DEF StepPlace, Ops
<1>3. /\ DOMAIN s = DOMAIN rows \cup {x}
      /\ s[x].group = GroupKey(x)
      /\ \A k \in DOMAIN rows : k # x => s[k].group = rows[k].group
      /\ Dense(s)
      /\ IsTable(s)
  BY <1>1, <1>2, SyncedDense
<1>4. \A h : KeepsOrder(rows, s, Siblings(rows, h), x)
  BY <1>1, SyncedOrder DEF SyncedRows
<1>5. rows' = MoveWithin(s, x, Head1.position)
  BY <1>3 DEF StepPlace, SyncFails
<1> HIDE DEF s
<1>6. IsFiniteSet(DOMAIN s) /\ \A k \in DOMAIN s : s[k].position \in Nat
  BY <1>3, ItemsAssumption, FS_Subset DEF IsTable
<1>7. /\ KeepsOrder(s, rows', Siblings(s, s[x].group), x)
      /\ \A k \in DOMAIN s : s[k].group # s[x].group => rows'[k] = s[k]
  BY <1>2, <1>3, <1>5, <1>6, MoveWithinOrder
<1>8. /\ i \in DOMAIN rows /\ j \in DOMAIN rows /\ i # x /\ j # x
      /\ rows[i].group = rows[j].group
      /\ rows[i].position < rows[j].position
      /\ rows'[i].position > rows'[j].position
  BY DEF Swapped
<1>9. s[i].position < s[j].position /\ s[i].group = s[j].group
  BY <1>3, <1>4, <1>8 DEF KeepsOrder, Siblings
<1>10. IsTable(rows)'
  BY StepPlaceKeepsIInv DEF IInv, TypeOK
<1>11. rows'[i].position < rows'[j].position
  BY <1>3, <1>7, <1>8, <1>9 DEF KeepsOrder, Siblings
<1>12. rows'[i].position \in Nat /\ rows'[j].position \in Nat
  BY <1>10 DEF IsTable, Swapped
<1> QED
  BY <1>8, <1>11, <1>12

LEMMA SyncSwapsNobody ==
    ASSUME IInv, StepSync, NEW i \in Items, NEW j \in Items, Swapped(i, j)
    PROVE  FALSE
<1> DEFINE x == Head1.item
<1>1. TypeOK /\ Dense(rows) /\ IsTable(rows) /\ IsFiniteSet(DOMAIN rows)
  BY ItemsAssumption, FS_Subset DEF IInv, TypeOK, IsTable
<1>2. /\ \A h : KeepsOrder(rows, rows', Siblings(rows, h), x)
      /\ x \in DOMAIN rows /\ rows'[x].group = rows[x].group =>
           \A k \in DOMAIN rows : rows'[k].position = rows[k].position
  <2>1. rows' = Synced(rows, x, GroupKey(x))
    BY DEF StepSync, SyncedRows
  <2> QED
    BY <1>1, <2>1, SyncedOrder
<1>3. /\ i \in DOMAIN rows /\ j \in DOMAIN rows /\ i \in DOMAIN rows' /\ j \in DOMAIN rows'
      /\ rows[i].group = rows[j].group
      /\ rows'[i].group = rows[i].group /\ rows'[j].group = rows[j].group
      /\ rows[i].position < rows[j].position
      /\ rows'[i].position > rows'[j].position
  BY DEF Swapped
<1>4. IsTable(rows)'
  BY StepSyncKeepsIInv DEF IInv, TypeOK
<1>5. /\ rows'[i].position \in Nat /\ rows'[j].position \in Nat
      /\ rows[i].position \in Nat /\ rows[j].position \in Nat
  BY <1>1, <1>3, <1>4 DEF IsTable
<1>6. CASE i = x \/ j = x
  BY <1>2, <1>3, <1>5, <1>6
<1>7. CASE i # x /\ j # x
  BY <1>2, <1>3, <1>5, <1>7 DEF KeepsOrder, Siblings
<1> QED
  BY <1>6, <1>7

LEMMA RemoveSwapsNobody ==
    ASSUME IInv, StepRemove, NEW i \in Items, NEW j \in Items, Swapped(i, j)
    PROVE  FALSE
<1> DEFINE x == Head1.item
<1>1. Dense(rows) /\ IsTable(rows) /\ IsFiniteSet(DOMAIN rows) /\ rows' = DeleteRow(rows, x)
  BY ItemsAssumption, FS_Subset DEF IInv, TypeOK, IsTable, StepRemove
<1>2. /\ i \in DOMAIN rows /\ j \in DOMAIN rows /\ i \in DOMAIN rows' /\ j \in DOMAIN rows'
      /\ rows[i].group = rows[j].group
      /\ rows[i].position < rows[j].position
      /\ rows'[i].position > rows'[j].position
  BY DEF Swapped
<1>3. IsTable(rows)'
  BY StepRemoveKeepsIInv DEF IInv, TypeOK
<1>4. /\ rows'[i].position \in Nat /\ rows'[j].position \in Nat
      /\ rows[i].position \in Nat /\ rows[j].position \in Nat
  BY <1>1, <1>2, <1>3 DEF IsTable
<1>5. CASE x \notin DOMAIN rows
  BY <1>1, <1>2, <1>4, <1>5 DEF DeleteRow
<1>6. CASE x \in DOMAIN rows
  <2>1. /\ KeepsOrder(rows, rows', Siblings(rows, rows[x].group), x)
        /\ \A k \in DOMAIN rows \ {x} : rows[k].group # rows[x].group => rows'[k] = rows[k]
    BY <1>1, <1>6, DeleteRowOrder
  <2>2. i # x /\ j # x
    <3>1. LET t == DeleteRow(rows, x)
          IN  /\ DOMAIN t = DOMAIN rows \ {x}
              /\ \A k \in DOMAIN t : t[k].group = rows[k].group
              /\ Dense(t)
      BY <1>1, DeleteRowDense
    <3>2. DOMAIN rows' = DOMAIN rows \ {x}
      BY <1>1, <3>1
    <3> QED
      BY <1>2, <3>2
  <2> QED
    BY <1>2, <1>4, <2>1, <2>2 DEF KeepsOrder, Siblings
<1> QED
  BY <1>5, <1>6

(* A request queues operations and leaves the rows to them. *)
LEMMA RequestRuns ==
    ASSUME Request
    PROVE  \E ops : Run(ops)
<1>1. \A e : CreateEpic(e) \/ SaveEpic(e) \/ DeleteEpic(e) => \E ops : Run(ops)
  <2>1. ASSUME NEW e, SaveEpic(e) PROVE \E ops : Run(ops)
    <3>1. PICK q \in [1..Cardinality(StoriesOf(related, e)) -> StoriesOf(related, e)] :
             Run(<<SyncOp(e)>> \o OpsFor(q, SyncOp))
      BY <2>1 DEF SaveEpic
    <3> QED
      BY <3>1
  <2> QED
    BY <2>1 DEF CreateEpic, DeleteEpic
<1>2. \A s : CreateStory(s) \/ DeleteStory(s) => \E ops : Run(ops)
  BY DEF CreateStory, DeleteStory
<1>3. \A t, u : DeleteTask(t) \/ CreateTask(t, u) \/ MoveTask(t, u) => \E ops : Run(ops)
  BY DEF DeleteTask, CreateTask, MoveTask
<1>4. \A i, p : SaveItem(i) \/ SetPosition(i, p) => \E ops : Run(ops)
  BY DEF SaveItem, SetPosition
<1>5. \A e, s, o : Unrelate(e, s) \/ Relate(e, s, o) \/ Reorder(e, s, o) => \E ops : Run(ops)
  <2>1. \A e, s, o : Unrelate(e, s) \/ Relate(e, s, o) => \E ops : Run(ops)
    BY DEF Unrelate, Relate
  <2>2. ASSUME NEW e, NEW s, NEW o, Reorder(e, s, o) PROVE \E ops : Run(ops)
    <3>1. \E k \in DOMAIN related : \E ops : Run(ops)
      BY <2>2 DEF Reorder
    <3> QED
      BY <3>1
  <2> QED
    BY <2>1, <2>2
<1>6. \A e, s1, s2 : BulkCreate(e, s1, s2) => \E ops : Run(ops)
  BY DEF BulkCreate
<1> QED
  BY <1>1, <1>2, <1>3, <1>4, <1>5, <1>6 DEF Request

(* Bystanders keep their order, for any number of items: two siblings trade *)
(* places only in an epic-wide reorder or when one of them is placed.       *)
THEOREM BystandersKeepTheirOrderHolds ==
    ASSUME OneProjectOnly
    PROVE  Spec => BystandersKeepTheirOrder
<1> DEFINE A == \A i, j \in Items :
                   Swapped(i, j) =>
                       \/ bulk.active
                       \/ job # <<>> /\ Head1.op = "place" /\ Head1.item \in {i, j}
<1>1. ASSUME IInv, Next PROVE A
  <2>1. SUFFICES ASSUME NEW i \in Items, NEW j \in Items, Swapped(i, j)
                 PROVE  \/ bulk.active
                        \/ job # <<>> /\ Head1.op = "place" /\ Head1.item \in {i, j}
    OBVIOUS
  <2>2. CASE rows' = rows
    <3>1. rows[i].position \in Nat /\ rows[j].position \in Nat
      BY <1>1, <2>1 DEF Swapped, IInv, TypeOK, IsTable
    <3> QED
      BY <2>1, <2>2, <3>1 DEF Swapped
  <2>3. CASE Request
    BY <2>2, <2>3, RequestRuns DEF Run
  <2>4. CASE StepPlace
    BY <1>1, <2>1, <2>4, PlaceSwapsItsItem DEF StepPlace
  <2>5. CASE StepSync
    BY <1>1, <2>1, <2>5, SyncSwapsNobody
  <2>6. CASE StepRemove
    BY <1>1, <2>1, <2>6, RemoveSwapsNobody
  <2>7. CASE StepRelate \/ StepBulk \/ StepOnCommit
    BY <2>2, <2>7 DEF StepRelate, StepBulk, StepOnCommit
  <2>8. CASE StepCollect \/ CollectFails \/ StepReindex \/ ReindexFails
    BY <2>8 DEF StepCollect, CollectFails, StepReindex, ReindexFails
  <2> QED
    BY <1>1, <2>3, <2>4, <2>5, <2>6, <2>7, <2>8 DEF Next, Operation
<1>2. ASSUME IInv, UNCHANGED vars PROVE A
  <2>1. rows' = rows /\ \A i \in DOMAIN rows : rows[i].position \in Nat
    BY <1>2 DEF IInv, TypeOK, IsTable, vars
  <2> QED
    BY <2>1 DEF Swapped
<1> QED
  BY <1>1, <1>2, IInvHolds, PTL DEF Spec, BystandersKeepTheirOrder

-----------------------------------------------------------------------------
(* The order of the relations.                                             *)

(* A reindex that meets no occupied position gives every listed row its     *)
(* index, although it skips those whose cached position is their index: no  *)
(* skipped row is behind its cached position, none is where a renumbered    *)
(* row goes, so the skipped rows are where they seem to be.                 *)
LEMMA ReindexPlaces ==
    ASSUME IInv, ReindexInv, bulk.active, ~Collides(rows, ReindexItems)
    PROVE  \A k \in DOMAIN ReindexItems :
              Renumber(rows, ReindexItems)[ReindexItems[k].item].position = k
<1> DEFINE S == Siblings(rows, EpicGroup(bulk.epic))
           n == Cardinality(S)
           items == ReindexItems
           it == ReindexRows
           p == Renumber(rows, items)
           at(k) == rows[it[k]].position
           Skipped == (1..n) \ Pending(items)
<1>1. /\ n \in Nat /\ DOMAIN items = 1..n
      /\ Lists(it, S, n)
      /\ Len(bulk.ordered) \in 0..n
      /\ \A k \in DOMAIN bulk.ordered : items[k] = bulk.ordered[k]
      /\ \A k \in 1..n : k \notin DOMAIN bulk.ordered => items[k].position = rows[items[k].item].position
  BY ReindexLists
<1>2. DenseGroup(rows, EpicGroup(bulk.epic)) /\ S \subseteq DOMAIN rows
  BY DenseEveryGroup DEF IInv, Siblings
<1>3. \A b \in DOMAIN bulk.ordered : rows[bulk.ordered[b].item].position <= bulk.ordered[b].position
  BY DEF ReindexInv, ReindexHalfway, KeptInOrder
<1>4. \A k \in 1..n : it[k] = items[k].item /\ it[k] \in S
  BY <1>1 DEF ReindexRows, Lists
<1>5. \A k \in 1..n : at(k) \in 1..n
  BY <1>2, <1>4 DEF DenseGroup
<1>6. \A a, b \in 1..n : it[a] = it[b] => a = b
  BY <1>1 DEF Lists
<1>7. \A a, b \in 1..n : at(a) = at(b) => a = b
  BY <1>2, <1>4, <1>6 DEF DenseGroup
<1>8. \A k \in Pending(items), j \in DOMAIN rows \ {items[a].item : a \in Pending(items)} :
         rows[j].group = rows[items[k].item].group => rows[j].position # k
  BY DEF Collides
<1>9. \A i \in S : rows[i].group = EpicGroup(bulk.epic)
  BY DEF Siblings
<1> HIDE DEF items, it, S, n, p
<1>10. \A k \in Skipped : items[k].position = k
  BY <1>1 DEF Pending
<1>11. \A k \in Skipped : at(k) <= k
  <2>1. SUFFICES ASSUME NEW k \in Skipped PROVE at(k) <= k
    OBVIOUS
  <2>2. CASE k \in DOMAIN bulk.ordered
    BY <2>2, <1>1, <1>3, <1>4, <1>10
  <2>3. CASE k \notin DOMAIN bulk.ordered
    BY <2>3, <1>1, <1>4, <1>5, <1>10
  <2> QED
    BY <2>2, <2>3
<1>12. \A k \in Skipped : at(k) \in Skipped
  <2>1. SUFFICES ASSUME NEW k \in Skipped, at(k) \in Pending(items)
                 PROVE  FALSE
    BY <1>5
  <2>2. it[k] \in DOMAIN rows
    BY <1>2, <1>4
  <2>3. it[k] \notin {items[a].item : a \in Pending(items)}
    <3>1. Pending(items) \subseteq 1..n
      BY <1>1 DEF Pending
    <3> QED
      BY <3>1, <1>4, <1>6
  <2>4. rows[it[k]].group = rows[items[at(k)].item].group
    BY <1>4, <1>5, <1>9
  <2> QED
    BY <1>8, <2>1, <2>2, <2>3, <2>4
<1>13. \A k \in Skipped : at(k) = k
  <2> DEFINE Ahead == {k \in Skipped : at(k) # k}
  <2>1. SUFFICES ASSUME Ahead # {} PROVE FALSE
    OBVIOUS
  <2>2. PICK k \in Ahead : \A j \in Ahead : k <= j
    BY <1>1, <2>1, HasLeast
  <2> HIDE DEF at, Skipped
  <2>3. k \in 1..n /\ at(k) \in 1..n /\ at(k) < k /\ at(k) \in Skipped
    BY <1>5, <1>11, <1>12 DEF Skipped
  <2>4. at(at(k)) = at(k)
    BY <1>1, <2>2, <2>3
  <2> QED
    BY <1>7, <2>3, <2>4
<1>14. \A k \in Pending(items) : p[it[k]].position = k
  <2>1. SUFFICES ASSUME NEW k \in Pending(items) PROVE p[it[k]].position = k
    OBVIOUS
  <2>2. Pending(items) \subseteq 1..n
    BY <1>1 DEF Pending
  <2>3. it[k] \in DOMAIN rows
    BY <1>2, <1>4, <2>2
  <2>4. \A a \in Pending(items) : items[a].item = it[k] => a = k
    BY <1>4, <1>6, <2>2
  <2>5. items[k].item = it[k]
    BY <1>4, <2>2
  <2>6. p[it[k]].position = CHOOSE a \in Pending(items) : items[a].item = it[k]
    BY <2>3, <2>5 DEF p, Renumber
  <2> QED
    BY <2>4, <2>5, <2>6
<1>15. \A k \in Skipped : p[it[k]].position = k
  <2>1. SUFFICES ASSUME NEW k \in Skipped PROVE p[it[k]].position = k
    OBVIOUS
  <2>2. Pending(items) \subseteq 1..n
    BY <1>1 DEF Pending
  <2>3. it[k] \in DOMAIN rows
    BY <1>2, <1>4
  <2>4. ~\E a \in Pending(items) : items[a].item = it[k]
    BY <1>4, <1>6, <2>2
  <2>5. p[it[k]] = rows[it[k]]
    BY <2>3, <2>4 DEF p, Renumber
  <2> QED
    BY <1>13, <2>5
<1> QED
  BY <1>1, <1>4, <1>14, <1>15 DEF items, p

LEMMA SequenceElement ==
    ASSUME NEW T, NEW q \in Seq(T)
    PROVE  \A k \in 1..Len(q) : q[k] \in T
OBVIOUS

(* One turn of the loop: the story leaves the queue, is kept if it is under *)
(* the epic, and its sync moves none of the others behind.                  *)
LEMMA StepCollectReindexInv ==
    ASSUME IInv, OneProjectOnly, ReindexInv, StepCollect
    PROVE  ReindexInv'
<1> DEFINE q == OrderedStories(related, bulk.epic)
           todo == bulk.todo
           kept == bulk.ordered
           had == Len(q) - Len(todo)
           s == Head(todo)
           later == bulk'.ordered
           m == Len(kept)
<1>1. /\ bulk.active /\ IsBulk(bulk)
      /\ todo \in Seq(Stories) /\ todo # <<>>
      /\ kept \in Seq([item : Stories, position : Nat])
  BY DEF StepCollect, IInv, TypeOK, IsBulk
<1>2. /\ Len(todo) \in Nat \ {0} /\ DOMAIN todo = 1..Len(todo)
      /\ s = todo[1] /\ s \in Stories
      /\ Len(Tail(todo)) = Len(todo) - 1 /\ DOMAIN Tail(todo) = 1..(Len(todo) - 1)
      /\ \A k \in 1..(Len(todo) - 1) : Tail(todo)[k] = todo[k + 1] /\ k + 1 \in 1..Len(todo)
      /\ m \in Nat /\ DOMAIN kept = 1..m
  BY <1>1
<1>typed. \A b \in 1..m : kept[b].position \in Nat
  <2>1. \A b \in 1..Len(kept) : kept[b] \in [item : Stories, position : Nat]
    BY <1>1, SequenceElement
  <2> QED
    BY <1>2, <2>1
<1>3. /\ q \in Seq(Stories)
      /\ \A a, b \in DOMAIN q : q[a] = q[b] => a = b
  BY OrderedStoriesType DEF IInv, TypeOK
<1>4. Len(q) \in Nat /\ DOMAIN q = 1..Len(q) /\ had \in Int
  BY <1>2, <1>3
<1>5. s \in Items /\ IsTable(rows) /\ Dense(rows) /\ IsFiniteSet(DOMAIN rows)
  BY <1>2, OpsType, ItemsAssumption, FS_Subset DEF IInv, TypeOK, IsTable
<1>6. /\ DOMAIN rows' = DOMAIN rows \cup {s}
      /\ \A j \in DOMAIN rows : j # s => rows'[j].group = rows[j].group
      /\ \A j \in DOMAIN rows \ {s} : rows'[j].position <= rows[j].position
      /\ IsTable(rows')
  <2>1. rows' = SyncedRows(s)
    BY DEF StepCollect
  <2>2. /\ DOMAIN SyncedRows(s) = DOMAIN rows \cup {s}
        /\ \A j \in DOMAIN rows : j # s => SyncedRows(s)[j].group = rows[j].group
        /\ IsTable(SyncedRows(s))
    BY <1>5, SyncedDense DEF IInv
  <2>3. \A j \in DOMAIN rows \ {s} : Synced(rows, s, GroupKey(s))[j].position <= rows[j].position
    BY <1>5, SyncedOrder
  <2> QED
    BY <2>1, <2>2, <2>3 DEF SyncedRows
<1> DEFINE entry == [item |-> s, position |-> rows'[s].position]
<1>7. /\ bulk'.active /\ bulk'.epic = bulk.epic /\ bulk'.todo = Tail(todo) /\ related' = related
      /\ later = IF rows'[s].group[3] = bulk.epic THEN Append(kept, entry) ELSE kept
  BY DEF StepCollect
<1>8. /\ had >= 0
      /\ \A k \in 1..Len(todo) : todo[k] = q[had + k]
      /\ \A k \in 1..had :
            /\ q[k] \in DOMAIN rows
            /\ rows[q[k]].group[3] = bulk.epic => \E b \in 1..m : kept[b].item = q[k]
      /\ \A b \in 1..m : rows[kept[b].item].position <= kept[b].position
      /\ \A a, b \in 1..m, k, l \in 1..had :
            kept[a].item = q[k] /\ kept[b].item = q[l] /\ k < l => a < b
  BY <1>1, <1>2 DEF ReindexInv, ReindexHalfway, KeptInOrder
<1>9. /\ \A a \in 1..Len(todo), b \in 1..m : todo[a] # kept[b].item
      /\ \A b \in 1..m : kept[b].item \in DOMAIN rows
  BY <1>1, <1>2 DEF IInv, BulkConsistent, Siblings
<1> HIDE DEF s, q, later, m, todo, kept
<1>10. 1 \in 1..Len(todo) /\ s = q[had + 1] /\ had + 1 \in 1..Len(q)
  BY <1>2, <1>4, <1>8
<1>11. \A k \in 1..had : q[k] # s
  BY <1>3, <1>4, <1>10
<1>12. \A b \in 1..m : kept[b].item # s
  BY <1>2, <1>9, <1>10
<1>13. /\ \A b \in 1..m : b \in DOMAIN later /\ later[b] = kept[b]
       /\ \A b \in DOMAIN later : \/ b \in 1..m /\ later[b] = kept[b]
                                  \/ b = m + 1 /\ later[b] = entry
       /\ rows'[s].group[3] = bulk.epic => m + 1 \in DOMAIN later /\ later[m + 1] = entry
  <2>1. CASE rows'[s].group[3] = bulk.epic
    <3>1. later = Append(kept, entry)
      BY <1>7, <2>1
    <3>2. /\ DOMAIN Append(kept, entry) = 1..(m + 1)
          /\ Append(kept, entry)[m + 1] = entry
          /\ \A b \in 1..m : Append(kept, entry)[b] = kept[b]
      BY <1>1, <1>2 DEF m, kept
    <3> QED
      BY <3>1, <3>2, <1>2
  <2>2. CASE rows'[s].group[3] # bulk.epic
    BY <1>2, <1>7, <2>2
  <2> QED
    BY <2>1, <2>2
<1>14. entry.item = s /\ entry.position = rows'[s].position
  OBVIOUS
<1> HIDE DEF entry
<1>15. Len(q) - Len(Tail(todo)) = had + 1
  BY <1>2, <1>4
<1>16. \A k \in 1..(had + 1) : k \in 1..had \/ k = had + 1
  BY <1>4
<1> HIDE DEF had
<1>17. \A k \in DOMAIN Tail(todo) : Tail(todo)[k] = q[had + 1 + k]
  <2>1. SUFFICES ASSUME NEW k \in 1..(Len(todo) - 1)
                 PROVE  Tail(todo)[k] = q[had + 1 + k]
    BY <1>2
  <2>2. Tail(todo)[k] = q[had + (k + 1)]
    BY <1>2, <1>8
  <2>3. had + (k + 1) = had + 1 + k
    BY <1>2, <1>4
  <2> QED
    BY <2>2, <2>3
<1>18. \A k \in 1..(had + 1) :
          /\ q[k] \in DOMAIN rows'
          /\ rows'[q[k]].group[3] = bulk.epic => \E b \in DOMAIN later : later[b].item = q[k]
  <2>1. SUFFICES ASSUME NEW k \in 1..(had + 1)
                 PROVE  /\ q[k] \in DOMAIN rows'
                        /\ rows'[q[k]].group[3] = bulk.epic => \E b \in DOMAIN later : later[b].item = q[k]
    OBVIOUS
  <2>2. CASE k \in 1..had
    <3>1. q[k] \in DOMAIN rows /\ rows'[q[k]].group = rows[q[k]].group
      BY <2>2, <1>6, <1>8, <1>11
    <3> QED
      BY <2>2, <3>1, <1>6, <1>8, <1>13
  <2>3. CASE k = had + 1
    BY <2>3, <1>6, <1>10, <1>13, <1>14
  <2> QED
    BY <2>2, <2>3, <1>16
<1>19. \A b \in DOMAIN later : rows'[later[b].item].position <= later[b].position
  <2>1. SUFFICES ASSUME NEW b \in DOMAIN later
                 PROVE  rows'[later[b].item].position <= later[b].position
    OBVIOUS
  <2>2. CASE b \in 1..m /\ later[b] = kept[b]
    <3>1. kept[b].item \in DOMAIN rows \ {s}
      BY <2>2, <1>9, <1>12
    <3>2. kept[b].position \in Nat
      BY <2>2, <1>typed
    <3>3. rows'[kept[b].item].position \in Nat /\ rows[kept[b].item].position \in Nat
      BY <3>1, <1>5, <1>6 DEF IsTable
    <3> QED
      BY <2>2, <3>1, <3>2, <3>3, <1>6, <1>8
  <2>3. CASE later[b] = entry
    BY <2>3, <1>6, <1>14 DEF IsTable
  <2> QED
    BY <2>2, <2>3, <1>13
<1>20. \A a, b \in DOMAIN later, k, l \in 1..(had + 1) :
          later[a].item = q[k] /\ later[b].item = q[l] /\ k < l => a < b
  <2>1. SUFFICES ASSUME NEW a \in DOMAIN later, NEW b \in DOMAIN later,
                        NEW k \in 1..(had + 1), NEW l \in 1..(had + 1),
                        later[a].item = q[k], later[b].item = q[l], k < l
                 PROVE  a < b
    OBVIOUS
  <2>2. k \in 1..had
    BY <1>4, <1>16, <2>1
  <2>3. a \in 1..m /\ later[a] = kept[a]
    BY <2>1, <2>2, <1>11, <1>13, <1>14
  <2>4. CASE b = m + 1
    BY <2>3, <2>4, <1>2
  <2>5. CASE b \in 1..m /\ later[b] = kept[b]
    <3>1. l \in 1..had
      BY <2>1, <2>5, <1>10, <1>12, <1>16
    <3> QED
      BY <2>1, <2>2, <2>3, <2>5, <3>1, <1>8
  <2> QED
    BY <2>4, <2>5, <1>13
<1>21. OrderedStories(related', bulk'.epic) = q
  BY <1>7 DEF q
<1>22. Len(OrderedStories(related', bulk'.epic)) - Len(bulk'.todo) = had + 1
  BY <1>7, <1>15, <1>21
<1>23. had + 1 >= 0
  BY <1>4, <1>8
<1>24. KeptInOrder(later, bulk.epic, q, had + 1, rows')
  BY <1>18, <1>19, <1>20 DEF KeptInOrder
<1>25. ReindexHalfway(bulk', related', rows')
  BY <1>7, <1>17, <1>21, <1>22, <1>23, <1>24 DEF ReindexHalfway, later
<1> QED
  BY <1>25 DEF ReindexInv

LEMMA StepBulkReindexInv ==
    ASSUME IInv, StepBulk
    PROVE  ReindexInv'
<1> DEFINE todo == OrderedStories(related, Head1.epic)
<1>1. bulk = NoBulk /\ related' = related
  BY NoBulkRuns DEF StepBulk, IInv
<1>2. CASE todo = <<>>
  BY <1>1, <1>2 DEF StepBulk, ReindexInv
<1>3. CASE todo # <<>>
  <2>1. bulk' = [active |-> TRUE, epic |-> Head1.epic, todo |-> todo,
                 ordered |-> <<>>, saved |-> rows]
    BY <1>3 DEF StepBulk
  <2>2. todo \in Seq(Stories)
    BY OrderedStoriesType DEF IInv, TypeOK
  <2>3. /\ OrderedStories(related', bulk'.epic) = todo
        /\ bulk'.todo = todo /\ bulk'.ordered = <<>> /\ DOMAIN bulk'.ordered = {}
    BY <1>1, <2>1
  <2> HIDE DEF todo
  <2>4. Len(todo) - Len(todo) = 0 /\ \A k \in DOMAIN todo : 0 + k = k
    BY <2>2
  <2>5. 1..0 = {}
    OBVIOUS
  <2> QED
    BY <2>3, <2>4, <2>5 DEF ReindexInv, ReindexHalfway, KeptInOrder
<1> QED
  BY <1>2, <1>3

THEOREM ReindexInvHolds ==
    ASSUME OneProjectOnly
    PROVE  Spec => []ReindexInv
<1>1. Init => ReindexInv
  BY DEF Init, ReindexInv
<1>2. ASSUME IInv, ReindexInv, Next PROVE ReindexInv'
  <2>1. CASE ~bulk'.active
    BY <2>1 DEF ReindexInv
  <2>2. CASE Request
    <3>1. \E ops : Run(ops)
      BY <2>2, RequestRuns
    <3> QED
      BY <2>1, <3>1 DEF Run, Idle
  <2>3. CASE StepSync \/ StepPlace \/ StepRemove \/ StepRelate \/ StepOnCommit
    BY <2>1, <2>3 DEF StepSync, StepPlace, StepRemove, StepRelate, StepOnCommit
  <2>4. CASE StepBulk
    BY <1>2, <2>4, StepBulkReindexInv
  <2>5. CASE StepCollect
    BY <1>2, <2>5, StepCollectReindexInv
  <2>6. CASE CollectFails \/ ReindexFails \/ StepReindex
    BY <2>1, <2>6 DEF CollectFails, ReindexFails, StepReindex, Drop
  <2> QED
    BY <1>2, <2>2, <2>3, <2>4, <2>5, <2>6 DEF Next, Operation
<1>3. ASSUME ReindexInv, UNCHANGED vars PROVE ReindexInv'
  <2>1. related' = related /\ rows' = rows /\ bulk' = bulk
    BY <1>3 DEF vars
  <2> QED
    BY <1>3, <2>1 DEF ReindexInv
<1> QED
  BY <1>1, <1>2, <1>3, IInvHolds, PTL DEF Spec

(* A reindex lists what it kept in relation order and gives every row its   *)
(* index.                                                                   *)
LEMMA ReindexFollows ==
    ASSUME IInv, ReindexInv, StepReindex,
           NEW q, q = OrderedStories(related, bulk.epic),
           NEW a \in DOMAIN q, NEW b \in DOMAIN q, a < b,
           rows'[q[a]].group[3] = bulk.epic, rows'[q[b]].group[3] = bulk.epic
    PROVE  rows'[q[a]].position < rows'[q[b]].position
<1> DEFINE kept == bulk.ordered
<1>1. bulk.active /\ bulk.todo = <<>>
  BY DEF StepReindex
<1>2. q \in Seq(Stories)
  BY OrderedStoriesType DEF IInv, TypeOK
<1>3. Len(q) - Len(bulk.todo) = Len(q) /\ DOMAIN q = 1..Len(q)
  BY <1>1, <1>2
<1>4. /\ \A k \in DOMAIN q :
            /\ q[k] \in DOMAIN rows
            /\ rows[q[k]].group[3] = bulk.epic => \E c \in DOMAIN kept : kept[c].item = q[k]
      /\ \A c, d \in DOMAIN kept, k, m \in DOMAIN q :
            kept[c].item = q[k] /\ kept[d].item = q[m] /\ k < m => c < d
  BY <1>1, <1>3 DEF ReindexInv, ReindexHalfway, KeptInOrder
<1>5. rows'[q[a]].group = rows[q[a]].group /\ rows'[q[b]].group = rows[q[b]].group
  <2>1. CASE rows' = rows
    BY <2>1
  <2>2. CASE ~Collides(rows, ReindexItems) /\ rows' = Renumber(rows, ReindexItems)
    <3>1. LET p == Renumber(rows, ReindexItems)
          IN  /\ DOMAIN p = DOMAIN rows
              /\ \A i \in DOMAIN rows : p[i].group = rows[i].group
              /\ Dense(p)
      BY <1>1, <2>2, ReindexDense
    <3> QED
      BY <1>4, <2>2, <3>1
  <2> QED
    BY <2>1, <2>2 DEF StepReindex
<1>6. PICK c \in DOMAIN kept : kept[c].item = q[a]
  BY <1>4, <1>5
<1>7. PICK d \in DOMAIN kept : kept[d].item = q[b]
  BY <1>4, <1>5
<1>8. c < d
  BY <1>4, <1>6, <1>7
<1>9. ~Collides(rows, ReindexItems) /\ rows' = Renumber(rows, ReindexItems)
  BY <1>6 DEF StepReindex
<1>10. \A k \in DOMAIN ReindexItems : rows'[ReindexItems[k].item].position = k
  BY <1>1, <1>9, ReindexPlaces
<1>11. \A k \in DOMAIN kept : k \in DOMAIN ReindexItems /\ ReindexItems[k] = kept[k]
  <2> DEFINE S == Siblings(rows, EpicGroup(bulk.epic))
             n == Cardinality(S)
  <2>1. /\ n \in Nat /\ DOMAIN ReindexItems = 1..n
        /\ Len(kept) \in 0..n
        /\ \A k \in DOMAIN kept : ReindexItems[k] = kept[k]
    BY <1>1, ReindexLists
  <2>2. kept \in Seq([item : Stories, position : Nat])
    BY <1>1 DEF IInv, TypeOK, IsBulk
  <2> HIDE DEF n
  <2>3. DOMAIN kept = 1..Len(kept)
    BY <2>2
  <2> QED
    BY <2>1, <2>3
<1> QED
  BY <1>6, <1>7, <1>8, <1>10, <1>11

(* A reindex that is not dropped leaves the epic's stories in the order of  *)
(* its relations, for any number of stories, epics and relations.           *)
THEOREM ReindexFollowsRelationsHolds ==
    ASSUME OneProjectOnly
    PROVE  Spec => ReindexFollowsRelations
<1> DEFINE A == (bulk.active /\ bulk.todo = <<>> /\ ~dropped') =>
                  LET q == OrderedStories(related, bulk.epic)
                      under == {k \in DOMAIN q : rows'[q[k]].group[3] = bulk.epic}
                  IN  \A a, b \in under :
                          a < b => rows'[q[a]].position < rows'[q[b]].position
<1>1. ASSUME IInv, ReindexInv, Next PROVE A \/ UNCHANGED vars
  <2>1. SUFFICES ASSUME bulk.active, bulk.todo = <<>>, ~dropped'
                 PROVE  A
    OBVIOUS
  <2>2. ~Request
    <3>1. Request => \E ops : Run(ops)
      BY RequestRuns
    <3> QED
      BY <2>1, <3>1 DEF Run, Idle
  <2>3. StepReindex
    BY <1>1, <2>1, <2>2 DEF Next, Operation, StepSync, StepPlace, StepRemove, StepRelate,
       StepOnCommit, StepBulk, StepCollect, CollectFails, ReindexFails, Drop
  <2> QED
    BY <1>1, <2>1, <2>3, ReindexFollows
<1> QED
  BY <1>1, IInvHolds, ReindexInvHolds, PTL DEF Spec, ReindexFollowsRelations

-----------------------------------------------------------------------------
(* Which rows the operations leave: this does not depend on positions.     *)

LEMMA SyncedDomain ==
    ASSUME NEW i \in Items
    PROVE  DOMAIN SyncedRows(i) = DOMAIN rows \cup {i}
<1> DEFINE g == GroupKey(i)
<1> HIDE DEF g
<1>1. DOMAIN Synced(rows, i, g) = DOMAIN rows \cup {i}
  BY DEF Synced, CreateRow, MoveWithin, MoveAcross, PersistPositions
<1> QED
  BY <1>1 DEF SyncedRows, g

LEMMA TableDomains ==
    /\ \A r, i, x : DOMAIN MoveWithin(r, i, x) = DOMAIN r
    /\ \A r, i : DOMAIN DeleteRow(r, i) = DOMAIN r \ {i}
    /\ \A r, items : DOMAIN Renumber(r, items) = DOMAIN r
BY DEF MoveWithin, DeleteRow, PersistPositions, Renumber

-----------------------------------------------------------------------------
(* Queues.                                                                 *)

LEMMA SamePairsProperties ==
    /\ \A a : SamePairs(a, a)
    /\ \A a, b, c : SamePairs(a, b) /\ SamePairs(c, b) => SamePairs(a, c)
BY DEF SamePairs

(* What remains of a queue whose first operation has run.  A removal takes *)
(* its item away; a deferred write changes orders only.                    *)
LEMMA TailFits ==
    ASSUME NEW items, NEW rel \in Seq(Relations), QueueFits(job, items, rel), job # <<>>,
           NEW items2, items2 = items \/ (Head1.op = "remove" /\ items2 = items \ {Head1.item}),
           NEW rel2 \in Seq(Relations), SamePairs(rel2, rel)
    PROVE  QueueFits(Tail(job), items2, rel2)
<1> DEFINE rest == Tail(job)
<1>1. /\ Len(job) \in Nat \ {0} /\ DOMAIN job = 1..Len(job)
      /\ Head1 = job[1]
      /\ rest \in Seq(Ops)
      /\ DOMAIN rest = 1..(Len(job) - 1)
      /\ \A k \in 1..(Len(job) - 1) : rest[k] = job[k + 1]
  <2>1. job \in Seq(Ops)
    BY DEF QueueFits
  <2> QED
    BY <2>1 DEF Head1
<1>2. \A k \in DOMAIN rest : k + 1 \in DOMAIN job /\ 1 \in 1..((k + 1) - 1)
  BY <1>1
<1> HIDE DEF rest
<1>3. ASSUME NEW k \in DOMAIN rest, rest[k].op \in {"sync", "place", "relate"}
      PROVE  /\ rest[k].item \in items2
             /\ \A m \in 1..(k - 1) : rest[m].op = "remove" => rest[m].item # rest[k].item
  <2>1. /\ job[k + 1].item \in items
        /\ \A m \in 1..((k + 1) - 1) : job[m].op = "remove" => job[m].item # job[k + 1].item
    BY <1>1, <1>2, <1>3 DEF QueueFits
  <2>2. rest[k].item \in items2
    BY <2>1, <1>1, <1>2
  <2>3. ASSUME NEW m \in 1..(k - 1), rest[m].op = "remove"
        PROVE  rest[m].item # rest[k].item
    <3>1. m + 1 \in 1..((k + 1) - 1) /\ rest[m] = job[m + 1] /\ rest[k] = job[k + 1]
      BY <1>1
    <3> QED
      BY <3>1, <2>1, <2>3
  <2> QED
    BY <2>2, <2>3
<1>4. ASSUME NEW k \in DOMAIN rest, NEW m \in DOMAIN rest
      PROVE  /\ rest[k].op = "bulk" /\ k < m => rest[m].op \in {"sync", "on_commit"}
             /\ rest[k].op = "remove" => rest[m].op \notin {"relate", "on_commit"}
             /\ rest[k].op = "on_commit" => rest[m].op # "relate"
  <2>1. rest[k] = job[k + 1] /\ rest[m] = job[m + 1] /\ (k < m => k + 1 < m + 1)
    BY <1>1
  <2> QED
    BY <2>1, <1>2 DEF QueueFits
<1>5. ASSUME NEW k \in DOMAIN rest
      PROVE  /\ rest[k].op = "on_commit" => SamePairs(rest[k].related, rel2)
             /\ \A m \in DOMAIN rel2 : rest[k].op = "remove" => rel2[m].story # rest[k].item
  <2>1. rest[k] = job[k + 1] /\ k + 1 \in DOMAIN job
    BY <1>1, <1>2
  <2>2. DOMAIN rel2 = DOMAIN rel /\ \A m \in DOMAIN rel : rel2[m].story = rel[m].story
    BY DEF SamePairs
  <2> QED
    BY <2>1, <2>2, SamePairsProperties DEF QueueFits
<1> QED
  BY <1>1, <1>3, <1>4, <1>5 DEF QueueFits, rest

(* What is due of a queue is done by its first operation or due of the     *)
(* rest.                                                                   *)
LEMMA DueNext ==
    ASSUME NEW ops \in Seq(Ops), ops # <<>>, NEW kinds, "bulk" \notin kinds,
           NEW i, Due(ops, kinds, i)
    PROVE  \/ Head(ops).op \in kinds /\ Head(ops).item = i
           \/ Head(ops).op # "bulk" /\ Due(Tail(ops), kinds, i)
<1> DEFINE rest == Tail(ops)
<1>1. /\ Len(ops) \in Nat \ {0} /\ DOMAIN ops = 1..Len(ops)
      /\ Head(ops) = ops[1]
      /\ DOMAIN rest = 1..(Len(ops) - 1)
      /\ \A k \in 1..(Len(ops) - 1) : rest[k] = ops[k + 1]
  OBVIOUS
<1>2. PICK k \in DOMAIN ops :
         /\ ops[k].op \in kinds /\ ops[k].item = i
         /\ \A m \in 1..(k - 1) : ops[m].op # "bulk"
  BY DEF Due
<1> HIDE DEF rest
<1>3. CASE k = 1
  BY <1>1, <1>2, <1>3
<1>4. CASE k # 1
  <2>1. k - 1 \in DOMAIN rest /\ rest[k - 1] = ops[k] /\ 1 \in 1..(k - 1)
    BY <1>1, <1>2, <1>4
  <2>2. \A m \in 1..((k - 1) - 1) : rest[m].op # "bulk"
    <3>1. \A m \in 1..((k - 1) - 1) : rest[m] = ops[m + 1] /\ m + 1 \in 1..(k - 1)
      BY <1>1, <1>2
    <3> QED
      BY <3>1, <1>2
  <2> QED
    BY <1>1, <1>2, <2>1, <2>2 DEF Due, rest
<1> QED
  BY <1>3, <1>4

LEMMA DueFirst ==
    ASSUME NEW ops \in Seq(Ops), ops # <<>>, NEW kinds, NEW i,
           Head(ops).op \in kinds, Head(ops).item = i
    PROVE  Due(ops, kinds, i)
<1>1. 1 \in DOMAIN ops /\ Head(ops) = ops[1]
  OBVIOUS
<1>2. \A m \in 1..(1 - 1) : ops[m].op # "bulk"
  OBVIOUS
<1> QED
  BY <1>1, <1>2 DEF Due

LEMMA DueBehind ==
    ASSUME NEW ops \in Seq(Ops), NEW x \in Ops, x.op # "bulk", NEW kinds, NEW i,
           Due(ops, kinds, i)
    PROVE  Due(<<x>> \o ops, kinds, i)
<1> DEFINE more == <<x>> \o ops
<1>1. /\ Len(ops) \in Nat /\ DOMAIN ops = 1..Len(ops) /\ DOMAIN more = 1..(Len(ops) + 1)
      /\ more[1] = x
      /\ \A k \in 2..(Len(ops) + 1) : more[k] = ops[k - 1]
  OBVIOUS
<1>2. PICK k \in DOMAIN ops :
         /\ ops[k].op \in kinds /\ ops[k].item = i
         /\ \A m \in 1..(k - 1) : ops[m].op # "bulk"
  BY DEF Due
<1> HIDE DEF more
<1>3. k + 1 \in DOMAIN more /\ more[k + 1] = ops[k]
  <2>1. k + 1 \in 2..(Len(ops) + 1) /\ (k + 1) - 1 = k
    BY <1>1, <1>2
  <2> QED
    BY <1>1, <2>1
<1>4. ASSUME NEW m \in 1..((k + 1) - 1)
      PROVE  more[m].op # "bulk"
  <2>1. CASE m = 1
    BY <1>1, <2>1
  <2>2. CASE m # 1
    <3>1. m \in 2..(Len(ops) + 1) /\ m - 1 \in 1..(k - 1)
      BY <1>1, <1>2, <2>2
    <3> QED
      BY <1>1, <1>2, <3>1
  <2> QED
    BY <2>1, <2>2
<1> QED
  BY <1>2, <1>3, <1>4 DEF Due, more

(* The first operation on a living item, and a missing row.                *)
LEMMA FirstOperation ==
    ASSUME RowInv, job # <<>>
    PROVE  /\ Head1 \in Ops /\ 1 \in DOMAIN job /\ Head1 = job[1]
           /\ Head1.op \in {"sync", "place", "relate"} => Head1.item \in live
           /\ \A i \in live \ DOMAIN rows :
                 \/ Head1.op = "sync" /\ Head1.item = i
                 \/ Head1.op # "bulk" /\ Due(Tail(job), {"sync"}, i)
<1>1. /\ Len(job) \in Nat \ {0} /\ DOMAIN job = 1..Len(job)
      /\ Head1 = job[1] /\ job[1] \in Ops
      /\ DOMAIN Tail(job) = 1..(Len(job) - 1)
      /\ \A k \in 1..(Len(job) - 1) : Tail(job)[k] = job[k + 1]
  <2>1. job \in Seq(Ops)
    BY DEF RowInv, QueueFits
  <2> QED
    BY <2>1 DEF Head1
<1>2. 1 \in DOMAIN job
  BY <1>1
<1>3. Head1.op \in {"sync", "place", "relate"} => Head1.item \in live
  BY <1>1, <1>2 DEF RowInv, QueueFits
<1>4. ASSUME NEW i \in live \ DOMAIN rows, ~(Head1.op = "sync" /\ Head1.item = i)
      PROVE  Head1.op # "bulk" /\ Due(Tail(job), {"sync"}, i)
  <2>1. job \in Seq(Ops) /\ Due(job, {"sync"}, i)
    BY DEF RowInv, QueueFits
  <2> QED
    BY <2>1, <1>4, DueNext DEF Head1
<1> QED
  BY <1>1, <1>2, <1>3, <1>4

-----------------------------------------------------------------------------
(* Operations.                                                             *)

(* An operation outside of a reorder owes the rows it was to create.       *)
LEMMA OperationKeepsRowInv ==
    ASSUME RowInv, job # <<>>, job' = Tail(job), ~bulk'.active,
           live' = live \/ (Head1.op = "remove" /\ live' = live \ {Head1.item}),
           related' \in Seq(Relations), SamePairs(related', related),
           DOMAIN rows' \subseteq live',
           \A i \in live' \ DOMAIN rows' :
              i \in live \ DOMAIN rows /\ ~(Head1.op = "sync" /\ Head1.item = i)
    PROVE  RowInv'
<1>1. QueueFits(job', live', related')
  BY TailFits DEF RowInv
<1>2. \A m \in DOMAIN related' : related'[m].story \in live'
  <2>1. ASSUME NEW m \in DOMAIN related'
        PROVE  related'[m].story \in live'
    <3>1. m \in DOMAIN related /\ related'[m].story = related[m].story /\ related[m].story \in live
      BY DEF SamePairs, RowInv
    <3>2. Head1.op = "remove" => related[m].story # Head1.item
      BY <3>1, FirstOperation DEF RowInv, QueueFits
    <3> QED
      BY <3>1, <3>2
  <2> QED
    BY <2>1
<1>3. \A i \in live' \ DOMAIN rows' : Due(job', {"sync"}, i)
  BY FirstOperation
<1>4. live' \subseteq Items
  BY DEF RowInv
<1> QED
  BY <1>1, <1>2, <1>3, <1>4 DEF RowInv, BulkRows

LEMMA OperationItems ==
    ASSUME NEW x \in Ops
    PROVE  /\ x.op \in {"sync", "place", "remove"} => x.item \in Items
           /\ x.op = "relate" => x.item \in Stories /\ x.epic \in Epics
           /\ x.op = "bulk" => x.epic \in Epics
           /\ x.op = "on_commit" => x.related \in Seq(Relations)
BY DEF Ops

LEMMA RowInvTables ==
    ASSUME RowInv
    PROVE  /\ related \in Seq(Relations) /\ SamePairs(related, related)
           /\ DOMAIN rows \subseteq live /\ live \subseteq Items
BY SamePairsProperties DEF RowInv

LEMMA StepSyncKeepsRowInv ==
    ASSUME RowInv, StepSync
    PROVE  RowInv'
<1>1. Head1.item \in Items /\ Head1.item \in live
  BY FirstOperation, OperationItems DEF StepSync
<1>2. DOMAIN rows' = DOMAIN rows \cup {Head1.item}
  BY <1>1, SyncedDomain DEF StepSync
<1>3. /\ job # <<>> /\ job' = Tail(job) /\ ~bulk'.active
      /\ live' = live /\ related' = related /\ Head1.op = "sync"
  BY DEF StepSync, Done
<1>4. /\ related' \in Seq(Relations) /\ SamePairs(related', related)
      /\ DOMAIN rows' \subseteq live'
      /\ \A i \in live' \ DOMAIN rows' :
            i \in live \ DOMAIN rows /\ ~(Head1.op = "sync" /\ Head1.item = i)
  BY <1>1, <1>2, <1>3, RowInvTables
<1> QED
  BY <1>3, <1>4, OperationKeepsRowInv

LEMMA StepPlaceKeepsRowInv ==
    ASSUME RowInv, StepPlace
    PROVE  RowInv'
<1>1. Head1.item \in Items /\ Head1.item \in live
  BY FirstOperation, OperationItems DEF StepPlace
<1>2. DOMAIN rows' = DOMAIN rows \/ DOMAIN rows' = DOMAIN rows \cup {Head1.item}
  <2>1. DOMAIN SyncedRows(Head1.item) = DOMAIN rows \cup {Head1.item}
    BY <1>1, SyncedDomain
  <2>2. DOMAIN MoveWithin(SyncedRows(Head1.item), Head1.item, Head1.position)
          = DOMAIN SyncedRows(Head1.item)
    BY TableDomains
  <2> QED
    BY <2>1, <2>2 DEF StepPlace
<1>3. /\ job # <<>> /\ job' = Tail(job) /\ ~bulk'.active
      /\ live' = live /\ related' = related /\ Head1.op = "place"
  BY DEF StepPlace, Done
<1>4. /\ related' \in Seq(Relations) /\ SamePairs(related', related)
      /\ DOMAIN rows' \subseteq live'
      /\ \A i \in live' \ DOMAIN rows' :
            i \in live \ DOMAIN rows /\ ~(Head1.op = "sync" /\ Head1.item = i)
  BY <1>1, <1>2, <1>3, RowInvTables
<1> QED
  BY <1>3, <1>4, OperationKeepsRowInv

LEMMA StepRemoveKeepsRowInv ==
    ASSUME RowInv, StepRemove
    PROVE  RowInv'
<1>1. DOMAIN rows' = DOMAIN rows \ {Head1.item} /\ live' = live \ {Head1.item}
  BY TableDomains DEF StepRemove
<1> QED
  BY <1>1, OperationKeepsRowInv, RowInvTables DEF StepRemove, Done

LEMMA StepOnCommitKeepsRowInv ==
    ASSUME RowInv, StepOnCommit
    PROVE  RowInv'
<1>1. Head1.related \in Seq(Relations) /\ SamePairs(Head1.related, related)
  BY FirstOperation, OperationItems DEF StepOnCommit, RowInv, QueueFits
<1>2. /\ job # <<>> /\ job' = Tail(job) /\ ~bulk'.active
      /\ live' = live /\ related' = Head1.related /\ rows' = rows /\ Head1.op = "on_commit"
  BY DEF StepOnCommit, Done
<1>3. /\ related' \in Seq(Relations) /\ SamePairs(related', related)
      /\ DOMAIN rows' \subseteq live'
      /\ \A i \in live' \ DOMAIN rows' :
            i \in live \ DOMAIN rows /\ ~(Head1.op = "sync" /\ Head1.item = i)
  BY <1>1, <1>2, RowInvTables
<1> QED
  BY <1>2, <1>3, OperationKeepsRowInv

(* The story that is related is synced next. *)
LEMMA StepRelateKeepsRowInv ==
    ASSUME RowInv, StepRelate
    PROVE  RowInv'
<1>1. /\ Head1 \in Ops /\ Head1.item \in live /\ Head1.item \in Stories /\ Head1.epic \in Epics
  BY FirstOperation, OperationItems DEF StepRelate
<1>2. PICK x \in Relations :
         x.story = Head1.item /\ related' = Append(related, x)
  BY <1>1 DEF StepRelate, Relations
<1> DEFINE o == SyncOp(Head1.item)
           rest == Tail(job)
           n == Len(related)
<1>3. QueueFits(rest, live, related)
  <2>1. QueueFits(job, live, related) /\ job # <<>>
    BY DEF RowInv, StepRelate
  <2>2. related \in Seq(Relations) /\ SamePairs(related, related)
    BY RowInvTables
  <2> QED
    BY <2>1, <2>2, TailFits
<1>4. \A k \in DOMAIN rest : rest[k].op \notin {"remove", "on_commit"}
  <2>1. /\ Len(job) \in Nat \ {0} /\ DOMAIN job = 1..Len(job)
        /\ DOMAIN rest = 1..(Len(job) - 1)
        /\ \A k \in 1..(Len(job) - 1) : rest[k] = job[k + 1] /\ k + 1 \in DOMAIN job
    BY DEF RowInv, QueueFits, StepRelate
  <2>2. 1 \in DOMAIN job /\ job[1].op = "relate"
    BY FirstOperation DEF StepRelate
  <2> QED
    BY <2>1, <2>2 DEF RowInv, QueueFits
<1>5. /\ n \in Nat /\ related' \in Seq(Relations) /\ DOMAIN related' = 1..(n + 1)
      /\ DOMAIN related = 1..n
      /\ \A k \in 1..n : related'[k] = related[k]
      /\ related'[n + 1] = x
  BY <1>2 DEF RowInv
<1>6. o \in Ops /\ o.op = "sync" /\ o.item = Head1.item
  BY <1>1, OpsType DEF SyncOp
<1>7. rest \in Seq(Ops)
  BY <1>3 DEF QueueFits
<1>8. job' = <<o>> \o rest
  BY DEF StepRelate
<1> HIDE DEF o, rest, n
<1>9. /\ job' \in Seq(Ops) /\ Len(rest) \in Nat /\ DOMAIN rest = 1..Len(rest)
      /\ DOMAIN job' = 1..(Len(rest) + 1)
      /\ job'[1] = o
      /\ \A k \in 2..(Len(rest) + 1) : job'[k] = rest[k - 1] /\ k - 1 \in DOMAIN rest
  BY <1>6, <1>7, <1>8
<1>10. \A k \in DOMAIN job' : job'[k].op \notin {"remove", "on_commit"}
  <2>1. \A k \in DOMAIN job' : k = 1 \/ k \in 2..(Len(rest) + 1)
    BY <1>9
  <2> QED
    BY <2>1, <1>4, <1>6, <1>9
<1>11. QueueFits(job', live', related')
  <2>1. live' = live
    BY DEF StepRelate
  <2>2. ASSUME NEW k \in DOMAIN job', job'[k].op \in {"sync", "place", "relate"}
        PROVE  /\ job'[k].item \in live'
               /\ \A m \in 1..(k - 1) : job'[m].op # "remove"
    <3>1. CASE k = 1
      BY <3>1, <2>1, <1>1, <1>6, <1>9
    <3>2. CASE k # 1
      <4>1. k \in 2..(Len(rest) + 1) /\ 1..(k - 1) \subseteq DOMAIN job'
        BY <3>2, <1>9
      <4> QED
        BY <4>1, <2>1, <2>2, <1>3, <1>9, <1>10 DEF QueueFits
    <3> QED
      BY <3>1, <3>2
  <2>3. ASSUME NEW k \in DOMAIN job', NEW m \in DOMAIN job', job'[k].op = "bulk", k < m
        PROVE  job'[m].op \in {"sync", "on_commit"}
    <3>1. k # 1 /\ m # 1
      BY <2>3, <1>6, <1>9
    <3>2. k \in 2..(Len(rest) + 1) /\ m \in 2..(Len(rest) + 1) /\ k - 1 < m - 1
      BY <3>1, <2>3, <1>9
    <3> QED
      BY <3>2, <2>3, <1>3, <1>9 DEF QueueFits
  <2> QED
    BY <2>2, <2>3, <1>9, <1>10 DEF QueueFits
<1>12. \A m \in DOMAIN related' : related'[m].story \in live'
  <2>1. \A m \in 1..(n + 1) : m \in 1..n \/ m = n + 1
    BY <1>5
  <2>2. live' = live /\ \A m \in 1..n : related[m].story \in live
    BY <1>5 DEF RowInv, StepRelate
  <2> QED
    BY <2>1, <2>2, <1>1, <1>2, <1>5
<1>13. \A i \in live \ DOMAIN rows : Due(job', {"sync"}, i)
  <2>1. ASSUME NEW i \in live \ DOMAIN rows
        PROVE  Due(job', {"sync"}, i)
    <3>1. Due(rest, {"sync"}, i)
      BY FirstOperation DEF StepRelate, rest
    <3> QED
      BY <3>1, <1>6, <1>7, <1>8, DueBehind
  <2> QED
    BY <2>1
<1> QED
  BY <1>5, <1>11, <1>12, <1>13 DEF RowInv, BulkRows, StepRelate
-----------------------------------------------------------------------------
(* The epic-wide reorder.                                                  *)

LEMMA OrderedStoriesRelated ==
    ASSUME NEW rel \in Seq(Relations), NEW e
    PROVE  \A k \in DOMAIN OrderedStories(rel, e) :
              \E m \in DOMAIN rel : /\ rel[m].epic = e
                                    /\ OrderedStories(rel, e)[k] = rel[m].story
<1> DEFINE K == RelationsOfEpic(rel, e)
           q == SortBy(K, ByOrderThenId(rel, K))
<1>1. K \in SUBSET (DOMAIN rel) /\ \A k \in K : rel[k].epic = e
  BY DEF RelationsOfEpic
<1>2. Lists(q, K, Cardinality(K))
  BY <1>1, RelationListing
<1>3. OrderedStories(rel, e) = [k \in 1..Cardinality(K) |-> rel[q[k]].story]
  BY <1>2 DEF OrderedStories, Lists
<1> HIDE DEF q, K
<1> QED
  BY <1>1, <1>2, <1>3 DEF Lists

(* When a reorder starts, no row is missing. *)
LEMMA ReorderFindsAllRows ==
    ASSUME RowInv, job # <<>>, Head1.op = "bulk"
    PROVE  DOMAIN rows = live
BY FirstOperation DEF RowInv

(* The next operation runs on a table that has every row. *)
LEMMA FullTableKeepsRowInv ==
    ASSUME RowInv, job # <<>>, job' = Tail(job), Head1.op = "bulk", ~bulk'.active,
           live' = live, related' = related, DOMAIN rows' = live
    PROVE  RowInv'
<1>1. /\ related' \in Seq(Relations) /\ SamePairs(related', related)
      /\ DOMAIN rows' \subseteq live'
      /\ \A i \in live' \ DOMAIN rows' :
            i \in live \ DOMAIN rows /\ ~(Head1.op = "sync" /\ Head1.item = i)
  BY RowInvTables
<1> QED
  BY <1>1, OperationKeepsRowInv

LEMMA StepBulkKeepsRowInv ==
    ASSUME RowInv, StepBulk
    PROVE  RowInv'
<1>1. job # <<>> /\ Head1.op = "bulk" /\ ~bulk.active
  BY DEF StepBulk
<1>2. DOMAIN rows = live /\ live' = live /\ related' = related /\ rows' = rows
  BY <1>1, ReorderFindsAllRows DEF StepBulk
<1> DEFINE todo == OrderedStories(related, Head1.epic)
<1>3. CASE todo = <<>>
  <2>1. job' = Tail(job) /\ bulk' = bulk
    BY <1>3 DEF StepBulk, Done
  <2> QED
    BY <1>1, <1>2, <2>1, FullTableKeepsRowInv
<1>4. CASE todo # <<>>
  <2>1. todo \in Seq(live \cap Stories)
    <3>1. related \in Seq(Relations) /\ \A m \in DOMAIN related : related[m].story \in live
      BY DEF RowInv
    <3>2. todo \in Seq(Stories)
      BY <3>1, OrderedStoriesType
    <3>3. \A k \in DOMAIN todo : todo[k] \in live
      BY <3>1, OrderedStoriesRelated
    <3> HIDE DEF todo
    <3>4. \A k \in DOMAIN todo : todo[k] \in live \cap Stories
      BY <3>2, <3>3
    <3> QED
      BY <3>2, <3>4
  <2>2. bulk' = [active |-> TRUE, epic |-> Head1.epic, todo |-> todo,
                 ordered |-> <<>>, saved |-> rows] /\ job' = job
    BY <1>4 DEF StepBulk
  <2> HIDE DEF todo
  <2>3. BulkRows'
    <3>1. Head1' = Head1
      BY <2>2 DEF Head1
    <3> QED
      BY <1>1, <1>2, <2>1, <2>2, <3>1 DEF BulkRows
  <2> QED
    BY <1>2, <2>2, <2>3 DEF RowInv
<1> QED
  BY <1>3, <1>4

LEMMA StepCollectKeepsRowInv ==
    ASSUME RowInv, StepCollect
    PROVE  RowInv'
<1> DEFINE s == Head(bulk.todo)
<1>1. /\ bulk.active /\ DOMAIN rows = live /\ DOMAIN bulk.saved = live
      /\ bulk.todo \in Seq(live \cap Stories) /\ bulk.todo # <<>>
  BY DEF StepCollect, RowInv, BulkRows
<1>2. s \in live \cap Stories /\ Tail(bulk.todo) \in Seq(live \cap Stories)
  BY <1>1
<1> HIDE DEF s
<1>3. s \in Items
  BY <1>2 DEF RowInv
<1>4. rows' = SyncedRows(s) /\ bulk'.todo = Tail(bulk.todo) /\ bulk'.saved = bulk.saved
      /\ UNCHANGED <<live, related, job>>
  BY DEF StepCollect, s
<1>5. DOMAIN rows' = live
  BY <1>1, <1>2, <1>3, <1>4, SyncedDomain
<1>6. BulkRows'
  <2>1. Head1' = Head1
    BY <1>4 DEF Head1
  <2> QED
    BY <1>1, <1>2, <1>4, <1>5, <2>1 DEF BulkRows, RowInv
<1> QED
  BY <1>4, <1>5, <1>6 DEF RowInv

LEMMA DropKeepsRowInv ==
    ASSUME RowInv, bulk.active, Drop
    PROVE  RowInv'
<1>1. job # <<>> /\ Head1.op = "bulk" /\ DOMAIN bulk.saved = live
  BY DEF RowInv, BulkRows
<1>2. /\ rows' = bulk.saved /\ bulk' = NoBulk /\ job' = Tail(job)
      /\ live' = live /\ related' = related
  BY DEF Drop, Done
<1> QED
  BY <1>1, <1>2, FullTableKeepsRowInv

LEMMA StepReindexKeepsRowInv ==
    ASSUME RowInv, StepReindex
    PROVE  RowInv'
<1>1. job # <<>> /\ Head1.op = "bulk" /\ DOMAIN rows = live
  BY DEF RowInv, BulkRows, StepReindex
<1>2. /\ rows' = rows \/ rows' = Renumber(rows, ReindexItems)
      /\ bulk' = NoBulk /\ job' = Tail(job) /\ live' = live /\ related' = related
  BY DEF StepReindex, Done
<1>3. DOMAIN rows' = live
  BY <1>1, <1>2, TableDomains
<1> QED
  BY <1>1, <1>2, <1>3, FullTableKeepsRowInv

-----------------------------------------------------------------------------
(* Requests.                                                               *)

(* A request starts with a row for every entity and queues the syncs of    *)
(* the entities it creates.                                                *)
LEMMA RequestKeepsRowInv ==
    ASSUME RowInv, NEW ops, Run(ops), live \subseteq live', live' \subseteq Items,
           related' \in Seq(Relations), \A m \in DOMAIN related' : related'[m].story \in live',
           QueueFits(ops, live', related'),
           \A i \in live' \ live : Due(ops, {"sync"}, i)
    PROVE  RowInv'
<1>1. /\ job = <<>> /\ ~bulk.active /\ job' = ops /\ rows' = rows /\ bulk' = bulk
  BY DEF Run, Idle
<1>2. DOMAIN rows = live
  <2>1. \A k \in DOMAIN job : FALSE
    BY <1>1
  <2> QED
    BY <2>1 DEF RowInv, Due
<1>3. BulkRows'
  BY <1>1 DEF BulkRows
<1> QED
  BY <1>1, <1>2, <1>3 DEF RowInv

LEMMA OneSyncFits ==
    ASSUME NEW i \in Items, NEW items, i \in items, NEW rel
    PROVE  /\ QueueFits(<<SyncOp(i)>>, items, rel)
           /\ Due(<<SyncOp(i)>>, {"sync"}, i)
BY OpsType DEF QueueFits, SyncOp, Due

LEMMA CreateKeepsRowInv ==
    ASSUME RowInv, NEW i \in Items, NEW u, CreateEpic(i) \/ CreateStory(i) \/ CreateTask(i, u)
    PROVE  RowInv'
<1>1. Run(<<SyncOp(i)>>) /\ live' = live \cup {i} /\ related' = related
  BY DEF CreateEpic, CreateStory, CreateTask
<1>2. /\ related' \in Seq(Relations) /\ live' \subseteq Items
      /\ \A m \in DOMAIN related' : related'[m].story \in live'
  BY <1>1 DEF RowInv
<1>3. \A j \in live' \ live : j = i
  BY <1>1
<1>4. QueueFits(<<SyncOp(i)>>, live', related')
  BY <1>1, OneSyncFits
<1>5. \A j \in live' \ live : Due(<<SyncOp(i)>>, {"sync"}, j)
  BY <1>1, <1>3, OneSyncFits
<1> QED
  BY <1>1, <1>2, <1>4, <1>5, RequestKeepsRowInv

(* The entities stay; only the relations may change. *)
LEMMA ResyncKeepsRowInv ==
    ASSUME RowInv, NEW i \in live, Run(<<SyncOp(i)>>), live' = live,
           related' \in Seq(Relations), \A m \in DOMAIN related' : related'[m].story \in live
    PROVE  RowInv'
<1>1. i \in Items /\ live' \subseteq Items
  BY DEF RowInv
<1>2. QueueFits(<<SyncOp(i)>>, live', related')
  BY <1>1, OneSyncFits
<1> QED
  BY <1>1, <1>2, RequestKeepsRowInv

LEMMA SaveMoveKeepsRowInv ==
    ASSUME RowInv, NEW i \in Items, NEW u, SaveItem(i) \/ MoveTask(i, u)
    PROVE  RowInv'
<1>1. Run(<<SyncOp(i)>>) /\ live' = live /\ related' = related /\ i \in live
  BY DEF SaveItem, MoveTask
<1>2. related' \in Seq(Relations) /\ \A m \in DOMAIN related' : related'[m].story \in live
  BY <1>1 DEF RowInv
<1> QED
  BY <1>1, <1>2, ResyncKeepsRowInv

LEMMA SetPositionKeepsRowInv ==
    ASSUME RowInv, NEW i \in Items, NEW p \in Nat, SetPosition(i, p)
    PROVE  RowInv'
<1> DEFINE ops == <<SyncOp(i), PlaceOp(i, p)>>
<1>1. Run(ops) /\ live' = live /\ related' = related /\ i \in live
  BY DEF SetPosition
<1>2. /\ ops \in Seq(Ops) /\ DOMAIN ops = 1..2
      /\ \A k \in 1..2 : ops[k].op \in {"sync", "place"} /\ ops[k].item = i
  BY OpsType DEF SyncOp, PlaceOp
<1> HIDE DEF ops
<1>3. QueueFits(ops, live', related')
  BY <1>1, <1>2 DEF QueueFits
<1> QED
  BY <1>1, <1>3, RequestKeepsRowInv DEF RowInv

LEMMA RelateKeepsRowInv ==
    ASSUME RowInv, NEW e \in Epics, NEW s \in Stories, NEW o \in 0..MaxOrder, Relate(e, s, o)
    PROVE  RowInv'
<1> DEFINE x == [epic |-> e, story |-> s, order |-> o]
           n == Len(related)
<1>1. /\ related \in Seq(Relations) /\ \A m \in DOMAIN related : related[m].story \in live
      /\ x \in Relations /\ x.story = s /\ s \in live
  BY DEF RowInv, Relations, Relate
<1>2. related' = Append(related, x) /\ live' = live /\ Run(<<SyncOp(s)>>)
  BY DEF Relate
<1> HIDE DEF x
<1>3. /\ related' \in Seq(Relations) /\ DOMAIN related' = 1..(n + 1)
      /\ n \in Nat /\ DOMAIN related = 1..n
      /\ \A m \in 1..n : related'[m] = related[m]
      /\ related'[n + 1] = x
  BY <1>1, <1>2
<1>4. \A m \in DOMAIN related' : related'[m].story \in live
  <2>1. \A m \in 1..(n + 1) : m \in 1..n \/ m = n + 1
    BY <1>3
  <2> QED
    BY <2>1, <1>1, <1>3
<1> QED
  BY <1>1, <1>2, <1>3, <1>4, ResyncKeepsRowInv

(* The relations that are kept are relations that were there.              *)
LEMMA KeepRelated ==
    ASSUME NEW rel \in Seq(Relations), NEW K \in SUBSET (DOMAIN rel)
    PROVE  /\ Keep(rel, K) \in Seq(Relations)
           /\ \A m \in DOMAIN Keep(rel, K) : \E k \in K : Keep(rel, K)[m] = rel[k]
           /\ \A k \in K : \E m \in DOMAIN Keep(rel, K) : Keep(rel, K)[m] = rel[k]
<1> DEFINE q == SortBy(K, {p \in K \X K : p[1] < p[2]})
           n == Cardinality(K)
<1>1. Lists(q, K, n)
  BY RelationListing
<1>2. Keep(rel, K) = [k \in 1..n |-> rel[q[k]]]
  BY <1>1 DEF Keep, Lists
<1>3. Keep(rel, K) \in Seq(Relations)
  BY KeepType
<1> HIDE DEF q, n
<1>4. DOMAIN Keep(rel, K) = 1..n /\ \A m \in 1..n : Keep(rel, K)[m] = rel[q[m]] /\ q[m] \in K
  BY <1>1, <1>2 DEF Lists
<1>5. \A k \in K : \E m \in 1..n : q[m] = k
  BY <1>1 DEF Lists
<1> QED
  BY <1>3, <1>4, <1>5

LEMMA UnrelateKeepsRowInv ==
    ASSUME RowInv, NEW e \in Epics, NEW s \in Stories, Unrelate(e, s)
    PROVE  RowInv'
<1> DEFINE K == {k \in DOMAIN related : ~(related[k].epic = e /\ related[k].story = s)}
<1>1. /\ related \in Seq(Relations) /\ \A m \in DOMAIN related : related[m].story \in live
      /\ related' = Keep(related, K) /\ Run(<<SyncOp(s)>>) /\ live' = live
  BY DEF RowInv, Unrelate
<1>2. s \in live
  BY <1>1 DEF Unrelate, Unrelated
<1>3. K \in SUBSET (DOMAIN related)
  OBVIOUS
<1> HIDE DEF K
<1>4. related' \in Seq(Relations) /\ \A m \in DOMAIN related' : related'[m].story \in live
  BY <1>1, <1>3, KeepRelated
<1> QED
  BY <1>1, <1>2, <1>4, ResyncKeepsRowInv

LEMMA ReorderKeepsRowInv ==
    ASSUME RowInv, NEW e \in Epics, NEW s \in Stories, NEW o \in 0..MaxOrder, Reorder(e, s, o)
    PROVE  RowInv'
<1> PICK k \in DOMAIN related :
        LET saved == [related EXCEPT ![k] = WithOrder(related[k], o)]
            shifted == ShiftOrders(saved, e, s, o)
        IN  /\ related[k].story = s
            /\ \A m \in DOMAIN shifted : shifted[m].order <= MaxOrder
            /\ related' = saved
            /\ Run(<<SyncOp(s), BulkOp(e), SyncOp(s), OnCommitOp(shifted)>>)
            /\ UNCHANGED <<live, story>>
  BY DEF Reorder
<1> DEFINE saved == [related EXCEPT ![k] = WithOrder(related[k], o)]
           shifted == ShiftOrders(saved, e, s, o)
           ops == <<SyncOp(s), BulkOp(e), SyncOp(s), OnCommitOp(shifted)>>
<1>1. related \in Seq(Relations) /\ (\A m \in DOMAIN related : related[m].story \in live)
      /\ s \in live
  BY DEF RowInv
<1>2. /\ saved \in Seq(Relations) /\ SamePairs(saved, related)
      /\ shifted \in Seq(Relations) /\ SamePairs(shifted, related)
  BY <1>1, ReorderTables
<1>3. Run(ops) /\ live' = live /\ related' = saved
  OBVIOUS
<1> HIDE DEF saved, shifted
<1>4. /\ ops \in Seq(Ops) /\ DOMAIN ops = 1..4
      /\ ops[1].op = "sync" /\ ops[1].item = s
      /\ ops[2].op = "bulk"
      /\ ops[3].op = "sync" /\ ops[3].item = s
      /\ ops[4].op = "on_commit" /\ ops[4].related = shifted
  BY <1>2, OpsType DEF SyncOp, BulkOp, OnCommitOp
<1> HIDE DEF ops
<1>5. SamePairs(shifted, saved)
  BY <1>2 DEF SamePairs
<1>6. QueueFits(ops, live', related')
  <2>1. \A i \in 1..4 : i = 1 \/ i = 2 \/ i = 3 \/ i = 4
    OBVIOUS
  <2>2. \A i \in 1..4 : ops[i].op \in {"sync", "place", "relate"} => ops[i].item = s
    BY <1>4, <2>1
  <2>3. \A i, m \in 1..4 : ops[i].op = "bulk" /\ i < m => ops[m].op \in {"sync", "on_commit"}
    BY <1>4, <2>1
  <2>4. \A i \in 1..4 : ops[i].op # "remove" /\ ops[i].op # "relate"
    BY <1>4, <2>1
  <2>5. \A i \in 1..4 : ops[i].op = "on_commit" => SamePairs(ops[i].related, related')
    BY <1>3, <1>4, <1>5, <2>1
  <2>6. \A i \in 1..4 : \A m \in 1..(i - 1) : m \in 1..4
    OBVIOUS
  <2> QED
    BY <1>1, <1>3, <1>4, <2>2, <2>3, <2>4, <2>5, <2>6 DEF QueueFits
<1>7. \A m \in DOMAIN related' : related'[m].story \in live'
  BY <1>1, <1>2, <1>3 DEF SamePairs
<1> QED
  BY <1>2, <1>3, <1>6, <1>7, RequestKeepsRowInv DEF RowInv

LEMMA BulkCreateKeepsRowInv ==
    ASSUME RowInv, NEW e \in Epics, NEW s1 \in Stories, NEW s2 \in Stories, BulkCreate(e, s1, s2)
    PROVE  RowInv'
<1> DEFINE ops == <<SyncOp(s1), SyncOp(s2), RelateOp(e, s1), RelateOp(e, s2), BulkOp(e),
                    SyncOp(s1), SyncOp(s2)>>
<1>1. Run(ops) /\ live' = live \cup {s1, s2} /\ related' = related
  BY DEF BulkCreate
<1>2. /\ ops \in Seq(Ops) /\ DOMAIN ops = 1..7
      /\ ops[1].op = "sync" /\ ops[1].item = s1
      /\ ops[2].op = "sync" /\ ops[2].item = s2
      /\ ops[3].op = "relate" /\ ops[3].item = s1
      /\ ops[4].op = "relate" /\ ops[4].item = s2
      /\ ops[5].op = "bulk"
      /\ ops[6].op = "sync" /\ ops[6].item = s1
      /\ ops[7].op = "sync" /\ ops[7].item = s2
  BY OpsType DEF SyncOp, RelateOp, BulkOp
<1> HIDE DEF ops
<1>3. QueueFits(ops, live', related')
  <2>1. \A k \in 1..7 : k = 1 \/ k = 2 \/ k = 3 \/ k = 4 \/ k = 5 \/ k = 6 \/ k = 7
    OBVIOUS
  <2>2. \A k \in 1..7 : /\ ops[k].op \notin {"remove", "on_commit"}
                       /\ k # 5 => ops[k].op # "bulk" /\ ops[k].item \in live'
    BY <1>1, <1>2, <2>1
  <2>3. \A k, m \in 1..7 : ops[k].op = "bulk" /\ k < m => ops[m].op \in {"sync", "on_commit"}
    <3>1. \A m \in 1..7 : 5 < m => m = 6 \/ m = 7
      OBVIOUS
    <3> QED
      BY <1>2, <2>2, <3>1
  <2>4. \A k \in 1..7 : \A m \in 1..(k - 1) : m \in 1..7
    OBVIOUS
  <2>5. \A k \in 1..7 : ops[k].op \in {"sync", "place", "relate"} => ops[k].item \in live'
    BY <1>2, <2>2
  <2> QED
    BY <1>2, <2>2, <2>3, <2>4, <2>5 DEF QueueFits
<1>4. /\ related' \in Seq(Relations) /\ live' \subseteq Items /\ live \subseteq live'
      /\ \A m \in DOMAIN related' : related'[m].story \in live'
  BY <1>1, OpsType DEF RowInv
<1>5. \A i \in live' \ live : Due(ops, {"sync"}, i)
  <2>1. 1 \in DOMAIN ops /\ 2 \in DOMAIN ops
    BY <1>2
  <2>2. \A m \in 1..(2 - 1) : m = 1
    OBVIOUS
  <2>3. Due(ops, {"sync"}, s1) /\ Due(ops, {"sync"}, s2)
    BY <1>2, <2>1, <2>2 DEF Due
  <2> QED
    BY <1>1, <2>3
<1> QED
  BY <1>1, <1>3, <1>4, <1>5, RequestKeepsRowInv

(* The queue of a cascade ends with the removal of the deleted entity.     *)
LEMMA CascadeFits ==
    ASSUME NEW front \in Seq(SyncsAndRemovals), NEW last \in Items, NEW items, NEW rel,
           \A k \in DOMAIN front :
              /\ front[k].op = "sync" => front[k].item \in items \cap Stories
              /\ front[k].op = "remove" => front[k].item \in Tasks,
           \A m \in DOMAIN rel : rel[m].story \in Stories \ {last}
    PROVE  QueueFits(front \o <<RemoveOp(last)>>, items, rel)
<1> DEFINE ops == front \o <<RemoveOp(last)>>
           n == Len(front)
<1>1. RemoveOp(last) \in SyncsAndRemovals /\ RemoveOp(last).op = "remove" /\ RemoveOp(last).item = last
  BY DEF SyncsAndRemovals, RemoveOp
<1>2. /\ n \in Nat /\ DOMAIN front = 1..n
      /\ ops \in Seq(SyncsAndRemovals) /\ DOMAIN ops = 1..(n + 1)
      /\ \A k \in 1..n : ops[k] = front[k]
      /\ ops[n + 1] = RemoveOp(last)
  BY <1>1
<1> HIDE DEF ops, n
<1>3. ops \in Seq(Ops) /\ \A k \in DOMAIN ops : ops[k].op \in {"sync", "remove"}
  <2>1. SyncsAndRemovals \subseteq Ops /\ \A x \in SyncsAndRemovals : x.op \in {"sync", "remove"}
    BY DEF SyncsAndRemovals, Ops
  <2> QED
    BY <1>2, <2>1
<1>4. \A k \in DOMAIN ops : k \in 1..n \/ k = n + 1
  BY <1>2
<1>5. ASSUME NEW k \in DOMAIN ops, ops[k].op = "sync"
      PROVE  /\ ops[k].item \in items
             /\ \A m \in 1..(k - 1) : ops[m].op = "remove" => ops[m].item # ops[k].item
  <2>1. k \in 1..n /\ ops[k].item \in items \cap Stories
    BY <1>1, <1>2, <1>4, <1>5
  <2>2. \A m \in 1..(k - 1) : m \in 1..n
    BY <2>1, <1>2
  <2> QED
    BY <2>1, <2>2, <1>2, ItemsAssumption
<1>6. ASSUME NEW k \in DOMAIN ops, NEW m \in DOMAIN rel, ops[k].op = "remove"
      PROVE  rel[m].story # ops[k].item
  BY <1>1, <1>2, <1>4, <1>6, ItemsAssumption
<1> QED
  BY <1>3, <1>5, <1>6 DEF QueueFits, ops

(* A cascade removes relations only, those of the deleted entity among     *)
(* them.                                                                   *)
LEMMA CascadeKeepsRowInv ==
    ASSUME RowInv, NEW front \in Seq(SyncsAndRemovals), NEW last \in Items,
           Run(front \o <<RemoveOp(last)>>), live' = live,
           \A k \in DOMAIN front :
              /\ front[k].op = "sync" => front[k].item \in live \cap Stories
              /\ front[k].op = "remove" => front[k].item \in Tasks,
           related' \in Seq(Relations),
           \A m \in DOMAIN related' : /\ related'[m].story # last
                                      /\ \E k \in DOMAIN related : related'[m] = related[k]
    PROVE  RowInv'
<1>1. /\ \A m \in DOMAIN related' : related'[m].story \in live
      /\ live \subseteq Items
  BY DEF RowInv
<1>2. \A m \in DOMAIN related' : related'[m].story \in Stories \ {last}
  BY WithOrderType
<1>3. QueueFits(front \o <<RemoveOp(last)>>, live, related')
  BY <1>2, CascadeFits
<1> DEFINE ops == front \o <<RemoveOp(last)>>
<1>4. Run(ops) /\ QueueFits(ops, live', related')
  BY <1>3
<1> HIDE DEF ops
<1> QED
  BY <1>1, <1>4, RequestKeepsRowInv

LEMMA SaveEpicKeepsRowInv ==
    ASSUME RowInv, NEW e \in Epics, SaveEpic(e)
    PROVE  RowInv'
<1>1. /\ related \in Seq(Relations) /\ \A m \in DOMAIN related : related[m].story \in live
      /\ live' = live /\ related' = related /\ e \in live /\ live' \subseteq Items
  BY DEF RowInv, SaveEpic
<1>2. PICK ops \in Seq(SyncsAndRemovals) :
         /\ Run(ops)
         /\ \A k \in DOMAIN ops :
               ops[k].op = "sync" /\ ops[k].item \in {e} \cup StoriesOf(related, e)
  BY <1>1, SaveEpicQueue
<1>3. StoriesOf(related, e) \subseteq live
  BY <1>1 DEF StoriesOf, RelationsOfEpic
<1>4. QueueFits(ops, live', related')
  <2>1. ops \in Seq(Ops) /\ Len(ops) \in Nat /\ DOMAIN ops = 1..Len(ops)
    BY CascadeOps
  <2>2. \A k \in DOMAIN ops : ops[k].op = "sync" /\ ops[k].item \in live'
    BY <1>1, <1>2, <1>3
  <2>3. \A k \in DOMAIN ops : \A m \in 1..(k - 1) : m \in DOMAIN ops
    BY <2>1
  <2> QED
    BY <2>1, <2>2, <2>3 DEF QueueFits
<1> QED
  BY <1>1, <1>2, <1>4, RequestKeepsRowInv

LEMMA DeleteTaskKeepsRowInv ==
    ASSUME RowInv, NEW t \in Tasks, DeleteTask(t)
    PROVE  RowInv'
<1>1. Run(<<>> \o <<RemoveOp(t)>>) /\ live' = live /\ related' = related
  <2>1. <<>> \o <<RemoveOp(t)>> = <<RemoveOp(t)>>
    OBVIOUS
  <2> QED
    BY <2>1 DEF DeleteTask
<1>2. t \in Items /\ related \in Seq(Relations) /\ <<>> \in Seq(SyncsAndRemovals)
      /\ \A k \in DOMAIN <<>> : FALSE
  BY OpsType DEF RowInv
<1>3. \A m \in DOMAIN related : related[m].story # t
  BY <1>2, WithOrderType, ItemsAssumption
<1> QED
  BY <1>1, <1>2, <1>3, CascadeKeepsRowInv

LEMMA DeleteStoryKeepsRowInv ==
    ASSUME RowInv, NEW s \in Stories, DeleteStory(s)
    PROVE  RowInv'
<1> DEFINE mine == {t \in Tasks \cap live : story[t] = s}
           K == RelationsOfStory(related, s)
<1>1. PICK q \in [1..Cardinality(mine) -> mine] :
         Run(OpsFor(q, RemoveOp) \o [k \in 1..Cardinality(K) |-> SyncOp(s)] \o <<RemoveOp(s)>>)
  BY DEF DeleteStory
<1> DEFINE removals == OpsFor(q, RemoveOp)
           syncs == [k \in 1..Cardinality(K) |-> SyncOp(s)]
           front == removals \o syncs
<1>2. /\ related \in Seq(Relations) /\ live' = live /\ s \in live
      /\ related' = Keep(related, DOMAIN related \ K)
  BY DEF RowInv, DeleteStory
<1>3. Cardinality(K) \in Nat /\ Cardinality(mine) \in Nat
  <2>1. K \in SUBSET (DOMAIN related)
    BY DEF RelationsOfStory
  <2>2. mine \subseteq Items /\ IsFiniteSet(Items)
    BY ItemsAssumption, OpsType
  <2>3. IsFiniteSet(K) /\ IsFiniteSet(mine)
    BY <1>2, <2>1, <2>2, RelationListing, FS_Subset
  <2> QED
    BY <2>3, FS_CardinalityType
<1>4. /\ removals \in Seq(SyncsAndRemovals)
      /\ \A k \in DOMAIN removals : removals[k].op = "remove" /\ removals[k].item \in Tasks
  <2>1. \A k \in 1..Cardinality(mine) : q[k] \in Tasks
    BY <1>1
  <2>2. removals = [k \in 1..Cardinality(mine) |-> RemoveOp(q[k])]
    BY <1>1 DEF OpsFor
  <2>3. \A k \in 1..Cardinality(mine) :
           /\ RemoveOp(q[k]) \in SyncsAndRemovals
           /\ RemoveOp(q[k]).op = "remove" /\ RemoveOp(q[k]).item \in Tasks
    BY <2>1, OpsType DEF SyncsAndRemovals, RemoveOp
  <2> HIDE DEF removals, mine
  <2>4. removals \in Seq(SyncsAndRemovals) /\ DOMAIN removals = 1..Cardinality(mine)
    BY <2>2, <2>3, <1>3
  <2> QED
    BY <2>2, <2>3, <2>4
<1>5. /\ syncs \in Seq(SyncsAndRemovals)
      /\ \A k \in DOMAIN syncs : syncs[k].op = "sync" /\ syncs[k].item = s
  <2>1. SyncOp(s) \in SyncsAndRemovals /\ SyncOp(s).op = "sync" /\ SyncOp(s).item = s
    BY OpsType DEF SyncsAndRemovals, SyncOp
  <2> QED
    BY <2>1, <1>3
<1> HIDE DEF removals, syncs
<1>6. /\ front \in Seq(SyncsAndRemovals)
      /\ \A k \in DOMAIN front : \/ \E m \in DOMAIN removals : front[k] = removals[m]
                                 \/ \E m \in DOMAIN syncs : front[k] = syncs[m]
  BY <1>4, <1>5
<1>7. Run(front \o <<RemoveOp(s)>>)
  BY <1>1 DEF removals, syncs
<1> HIDE DEF front
<1>8. \A k \in DOMAIN front :
         /\ front[k].op = "sync" => front[k].item \in live \cap Stories
         /\ front[k].op = "remove" => front[k].item \in Tasks
  BY <1>2, <1>4, <1>5, <1>6
<1>9. /\ related' \in Seq(Relations)
      /\ \A m \in DOMAIN related' : /\ related'[m].story # s
                                    /\ \E k \in DOMAIN related : related'[m] = related[k]
  <2> DEFINE kept == DOMAIN related \ K
  <2>1. \A k \in kept : related[k].story # s
    BY DEF RelationsOfStory
  <2>2. kept \in SUBSET (DOMAIN related) /\ related' = Keep(related, kept)
    BY <1>2
  <2> HIDE DEF kept
  <2>3. /\ Keep(related, kept) \in Seq(Relations)
        /\ \A m \in DOMAIN Keep(related, kept) : \E k \in kept : Keep(related, kept)[m] = related[k]
    BY <1>2, <2>2, KeepRelated
  <2> QED
    BY <2>1, <2>2, <2>3
<1> QED
  BY <1>2, <1>6, <1>7, <1>8, <1>9, OpsType, CascadeKeepsRowInv

LEMMA DeleteEpicKeepsRowInv ==
    ASSUME RowInv, NEW e \in Epics, DeleteEpic(e)
    PROVE  RowInv'
<1> DEFINE K == RelationsOfEpic(related, e)
           n == Cardinality(K)
           q == SortBy(K, {p \in K \X K : p[1] < p[2]})
           syncs == [k \in DOMAIN q |-> SyncOp(related[q[k]].story)]
<1>1. /\ related \in Seq(Relations) /\ \A m \in DOMAIN related : related[m].story \in live
      /\ related' = Keep(related, DOMAIN related \ K) /\ live' = live
  BY DEF RowInv, DeleteEpic
<1>2. /\ \A k \in K : related[k].story \in live \cap Stories
      /\ Lists(q, K, n)
  <2>1. K \in SUBSET (DOMAIN related)
    BY DEF RelationsOfEpic
  <2> QED
    BY <1>1, <2>1, RelationListing, WithOrderType
<1>3. Run(syncs \o <<RemoveOp(e)>>)
  BY DEF DeleteEpic
<1> HIDE DEF q
<1>4. /\ syncs \in Seq(SyncsAndRemovals)
      /\ \A k \in DOMAIN syncs : syncs[k].op = "sync" /\ syncs[k].item \in live \cap Stories
  <2>1. n \in Nat /\ DOMAIN q = 1..n /\ \A k \in 1..n : q[k] \in K
    BY <1>2 DEF Lists
  <2>2. \A k \in 1..n : /\ SyncOp(related[q[k]].story) \in SyncsAndRemovals
                       /\ SyncOp(related[q[k]].story).op = "sync"
                       /\ SyncOp(related[q[k]].story).item \in live \cap Stories
    BY <1>2, <2>1, OpsType DEF SyncsAndRemovals, SyncOp
  <2>3. syncs = [k \in 1..n |-> SyncOp(related[q[k]].story)]
    BY <2>1
  <2> HIDE DEF syncs
  <2> QED
    BY <2>1, <2>2, <2>3
<1> HIDE DEF syncs
<1>5. /\ related' \in Seq(Relations)
      /\ \A m \in DOMAIN related' : \E k \in DOMAIN related : related'[m] = related[k]
  <2> DEFINE kept == DOMAIN related \ K
  <2>1. kept \in SUBSET (DOMAIN related) /\ related' = Keep(related, kept)
    BY <1>1
  <2> HIDE DEF kept
  <2>2. /\ Keep(related, kept) \in Seq(Relations)
        /\ \A m \in DOMAIN Keep(related, kept) : \E k \in kept : Keep(related, kept)[m] = related[k]
    BY <1>1, <2>1, KeepRelated
  <2> QED
    BY <2>1, <2>2
<1>6. \A m \in DOMAIN related' : related'[m].story # e
  BY <1>5, WithOrderType, ItemsAssumption
<1> QED
  BY <1>1, <1>3, <1>4, <1>5, <1>6, OpsType, CascadeKeepsRowInv

-----------------------------------------------------------------------------
(* The induction.                                                          *)

LEMMA InitRowInv == Init => RowInv
<1> SUFFICES ASSUME Init
             PROVE  RowInv
  OBVIOUS
<1>1. /\ job = <<>> /\ related = <<>> /\ live = {} /\ DOMAIN rows = {} /\ ~bulk.active
  BY DEF Init
<1>2. QueueFits(<<>>, live, related)
  BY DEF QueueFits
<1> QED
  BY <1>1, <1>2 DEF RowInv, BulkRows

LEMMA RequestRowInv ==
    ASSUME RowInv, Request
    PROVE  RowInv'
<1>1. CASE \E e \in Epics : CreateEpic(e) \/ SaveEpic(e) \/ DeleteEpic(e)
  BY <1>1, OpsType, CreateKeepsRowInv, SaveEpicKeepsRowInv, DeleteEpicKeepsRowInv
<1>2. CASE \E s \in Stories : CreateStory(s) \/ DeleteStory(s)
  BY <1>2, OpsType, CreateKeepsRowInv, DeleteStoryKeepsRowInv
<1>3. CASE \E t \in Tasks : DeleteTask(t)
  BY <1>3, DeleteTaskKeepsRowInv
<1>4. CASE \E t \in Tasks, u \in Stories \cup {Root} : CreateTask(t, u) \/ MoveTask(t, u)
  BY <1>4, OpsType, CreateKeepsRowInv, SaveMoveKeepsRowInv
<1>5. CASE \E i \in Stories \cup Tasks : SaveItem(i)
  BY <1>5, OpsType, SaveMoveKeepsRowInv
<1>6. CASE \E i \in Items, p \in 0..MaxPosition : SetPosition(i, p)
  <2>1. 0..MaxPosition \subseteq Nat
    BY BoundsAssumption
  <2> QED
    BY <1>6, <2>1, SetPositionKeepsRowInv
<1>7. CASE \E e \in Epics, s \in Stories : Unrelate(e, s)
  BY <1>7, UnrelateKeepsRowInv
<1>8. CASE \E e \in Epics, s \in Stories, o \in 0..MaxOrder : Relate(e, s, o) \/ Reorder(e, s, o)
  BY <1>8, RelateKeepsRowInv, ReorderKeepsRowInv
<1>9. CASE \E e \in Epics, s1 \in Stories, s2 \in Stories : BulkCreate(e, s1, s2)
  BY <1>9, BulkCreateKeepsRowInv
<1> QED
  BY <1>1, <1>2, <1>3, <1>4, <1>5, <1>6, <1>7, <1>8, <1>9 DEF Request

LEMMA OperationRowInv ==
    ASSUME RowInv, Operation
    PROVE  RowInv'
<1>1. CASE CollectFails
  BY <1>1, DropKeepsRowInv DEF CollectFails
<1>2. CASE ReindexFails
  BY <1>2, DropKeepsRowInv DEF ReindexFails
<1> QED
  BY <1>1, <1>2, StepSyncKeepsRowInv, StepPlaceKeepsRowInv, StepRemoveKeepsRowInv,
     StepRelateKeepsRowInv, StepBulkKeepsRowInv, StepCollectKeepsRowInv,
     StepReindexKeepsRowInv, StepOnCommitKeepsRowInv DEF Operation

(* RowInv is inductive whatever the projects of the entities are: in the   *)
(* middle of every request a row belongs to an entity, and an entity       *)
(* without one is still to be synced.                                      *)
THEOREM RowInvHolds == Spec => []RowInv
<1>1. ASSUME RowInv, [Next]_vars
      PROVE  RowInv'
  <2>1. CASE Next
    BY <1>1, <2>1, RequestRowInv, OperationRowInv DEF Next
  <2>2. CASE UNCHANGED vars
    <3>1. /\ live' = live /\ related' = related /\ rows' = rows
          /\ job' = job /\ bulk' = bulk
      BY <2>2 DEF vars
    <3>2. BulkRows'
      BY <1>1, <3>1 DEF RowInv, BulkRows, Head1
    <3>3. /\ QueueFits(job', live', related')
          /\ \A i \in live' \ DOMAIN rows' : Due(job', {"sync"}, i)
      BY <1>1, <3>1 DEF RowInv
    <3>4. /\ live' \subseteq Items /\ related' \in Seq(Relations) /\ DOMAIN rows' \subseteq live'
          /\ \A m \in DOMAIN related' : related'[m].story \in live'
      BY <1>1, <3>1 DEF RowInv
    <3> QED
      BY <3>2, <3>3, <3>4 DEF RowInv
  <2> QED
    BY <1>1, <2>1, <2>2
<1> QED
  BY <1>1, InitRowInv, PTL DEF Spec

(* Between requests every entity has exactly one order row and no row      *)
(* outlives its entity, in any number of projects: after every cascade,    *)
(* every collision and every reorder that was rolled back.                 *)
THEOREM EveryItemHasItsRowHolds == Spec => []EveryItemHasItsRow
<1>1. ASSUME RowInv
      PROVE  EveryItemHasItsRow
  <2>1. ASSUME Idle
        PROVE  DOMAIN rows = live
    <3>1. \A k \in DOMAIN job : FALSE
      BY <2>1 DEF Idle
    <3>2. \A i : ~Due(job, {"sync"}, i)
      BY <3>1 DEF Due
    <3> QED
      BY <1>1, <3>2 DEF RowInv
  <2> QED
    BY <2>1 DEF EveryItemHasItsRow
<1> QED
  BY <1>1, RowInvHolds, PTL

-----------------------------------------------------------------------------
(* Which epics a story is related to.                                      *)

LEMMA GroupKeyAtHome ==
    ASSUME NEW i \in Items, related \in Seq(Relations)
    PROVE  OwnGroup(GroupKey(i), i) /\ AtHome(GroupKey(i), i, related, story)
<1>1. ASSUME NEW s \in Stories
      PROVE  LET e == PrimaryEpic(related, s)
             IN  e \in EpicsOf(related, s) \/ (e = Root /\ EpicsOf(related, s) = {})
  <2> DEFINE K == RelationsOfStory(related, s)
             q == SortBy(K, ByOrderThenId(related, K))
  <2>1. K \in SUBSET (DOMAIN related)
    BY DEF RelationsOfStory
  <2>2. IsFiniteSet(K) /\ Lists(q, K, Cardinality(K))
    BY <2>1, RelationListing
  <2>3. CASE K # {}
    <3>1. Cardinality(K) \in Nat /\ Cardinality(K) # 0
      BY <2>2, <2>3, FS_EmptySet, FS_CardinalityType
    <3>2. q[1] \in K
      BY <3>1, <2>2 DEF Lists
    <3>3. PrimaryEpic(related, s) = related[q[1]].epic
      BY <2>3 DEF PrimaryEpic
    <3> HIDE DEF q, K
    <3> QED
      BY <3>2, <3>3 DEF EpicsOf, K
  <2>4. CASE K = {}
    BY <2>4 DEF PrimaryEpic, EpicsOf
  <2> QED
    BY <2>3, <2>4
<1>2. i \in Epics => ResolveParent(i) = Root
  BY ItemsAssumption DEF ResolveParent
<1>3. i \in Tasks => ResolveParent(i) = story[i]
  BY ItemsAssumption DEF ResolveParent
<1>4. i \in Stories => ResolveParent(i) = PrimaryEpic(related, i)
  BY ItemsAssumption DEF ResolveParent
<1> QED
  BY <1>1, <1>2, <1>3, <1>4 DEF GroupKey, AtHome, OwnGroup

LEMMA SamePairsEpics ==
    ASSUME NEW a, NEW b, SamePairs(a, b)
    PROVE  \A i : EpicsOf(a, i) = EpicsOf(b, i)
BY DEF SamePairs, EpicsOf, RelationsOfStory

LEMMA AppendEpics ==
    ASSUME NEW rel \in Seq(Relations), NEW x \in Relations, NEW i, i # x.story
    PROVE  EpicsOf(Append(rel, x), i) = EpicsOf(rel, i)
<1> DEFINE q == Append(rel, x)
           n == Len(rel)
<1>1. /\ n \in Nat /\ DOMAIN rel = 1..n /\ DOMAIN q = 1..(n + 1)
      /\ \A k \in 1..n : q[k] = rel[k]
      /\ q[n + 1] = x
  OBVIOUS
<1> HIDE DEF q, n
<1>2. \A k \in 1..(n + 1) : k \in 1..n \/ k = n + 1
  BY <1>1
<1>3. RelationsOfStory(q, i) = RelationsOfStory(rel, i)
  BY <1>1, <1>2 DEF RelationsOfStory
<1>4. \A k \in RelationsOfStory(rel, i) : q[k] = rel[k]
  BY <1>1 DEF RelationsOfStory
<1> QED
  BY <1>3, <1>4 DEF EpicsOf, q

LEMMA KeepEpics ==
    ASSUME NEW rel \in Seq(Relations), NEW K \in SUBSET (DOMAIN rel), NEW i,
           RelationsOfStory(rel, i) \subseteq K
    PROVE  EpicsOf(Keep(rel, K), i) = EpicsOf(rel, i)
<1> DEFINE kept == Keep(rel, K)
<1>1. /\ \A m \in DOMAIN kept : \E k \in K : kept[m] = rel[k]
      /\ \A k \in K : \E m \in DOMAIN kept : kept[m] = rel[k]
  BY KeepRelated
<1> HIDE DEF kept
<1>2. \A e : (\E m \in DOMAIN kept : kept[m].story = i /\ kept[m].epic = e)
               <=> (\E k \in DOMAIN rel : rel[k].story = i /\ rel[k].epic = e)
  <2> TAKE e
  <2>1. ASSUME NEW m \in DOMAIN kept, kept[m].story = i, kept[m].epic = e
        PROVE  \E k \in DOMAIN rel : rel[k].story = i /\ rel[k].epic = e
    BY <2>1, <1>1
  <2>2. ASSUME NEW k \in DOMAIN rel, rel[k].story = i, rel[k].epic = e
        PROVE  \E m \in DOMAIN kept : kept[m].story = i /\ kept[m].epic = e
    <3>1. k \in K
      BY <2>2 DEF RelationsOfStory
    <3> QED
      BY <2>2, <3>1, <1>1
  <2> QED
    BY <2>1, <2>2
<1> QED
  BY <1>2 DEF EpicsOf, RelationsOfStory, kept

-----------------------------------------------------------------------------
(* HomeInv: operations.                                                    *)

(* The next operation has run on its item; every other row stays in its    *)
(* group or, like the item's, goes where the relations say.                *)
LEMMA OperationKeepsHome ==
    ASSUME HomeInv, related \in Seq(Relations), job \in Seq(Ops), DOMAIN rows \subseteq Items,
           job # <<>>, job' = Tail(job), ~bulk'.active, story' = story,
           SamePairs(related', related),
           \A i \in DOMAIN rows' :
              \/ /\ i \in DOMAIN rows /\ rows'[i].group = rows[i].group
                 /\ ~(Head1.op \in {"sync", "remove"} /\ Head1.item = i)
              \/ i \in Items /\ rows'[i].group = GroupKey(i)
    PROVE  HomeInv'
<1>2. ASSUME NEW i, Awaited(i), ~(Head1.op \in {"sync", "remove"} /\ Head1.item = i)
      PROVE  Awaited(i)'
  BY <1>2, DueNext DEF Awaited, Head1
<1>3. ASSUME NEW g, NEW i, AtHome(g, i, related, story)
      PROVE  AtHome(g, i, related', story')
  <2>1. EpicsOf(related', i) = EpicsOf(related, i)
    BY SamePairsEpics
  <2> QED
    BY <1>3, <2>1 DEF AtHome
<1>4. ASSUME NEW i \in DOMAIN rows'
      PROVE  /\ OwnGroup(rows'[i].group, i)
             /\ AtHome(rows'[i].group, i, related', story') \/ Awaited(i)'
  <2>1. CASE /\ i \in DOMAIN rows /\ rows'[i].group = rows[i].group
             /\ ~(Head1.op \in {"sync", "remove"} /\ Head1.item = i)
    <3>1. OwnGroup(rows[i].group, i) /\ (AtHome(rows[i].group, i, related, story) \/ Awaited(i))
      BY <2>1 DEF HomeInv
    <3> QED
      BY <3>1, <2>1, <1>2, <1>3
  <2>2. CASE i \in Items /\ rows'[i].group = GroupKey(i)
    BY <2>2, <1>3, GroupKeyAtHome
  <2> QED
    BY <2>1, <2>2
<1> QED
  BY <1>4 DEF HomeInv

(* What the operations need to know about the table and the queue. *)
LEMMA HomeContext ==
    ASSUME IInv, RowInv
    PROVE  /\ related \in Seq(Relations) /\ SamePairs(related, related)
           /\ job \in Seq(Ops) /\ DOMAIN rows \subseteq Items
           /\ IsFiniteSet(DOMAIN rows) /\ Dense(rows) /\ TypeOK
BY SamePairsProperties, ItemsAssumption, FS_Subset DEF IInv, TypeOK, IsTable

(* A synced item is in the group of its parent, the others stay.           *)
LEMMA SyncedGroups ==
    ASSUME IInv, NEW i \in Items
    PROVE  /\ ~SyncFails(i)
           /\ DOMAIN SyncedRows(i) = DOMAIN rows \cup {i}
           /\ SyncedRows(i)[i].group = GroupKey(i)
           /\ \A j \in DOMAIN rows : j # i => SyncedRows(i)[j].group = rows[j].group
BY SyncedDense DEF IInv, SyncFails

LEMMA StepSyncKeepsHome ==
    ASSUME IInv, RowInv, HomeInv, StepSync
    PROVE  HomeInv'
<1>1. job # <<>> /\ Head1.op = "sync"
  BY DEF StepSync
<1>2. Head1.item \in Items
  BY <1>1, FirstOperation, OperationItems
<1>3. /\ job' = Tail(job) /\ ~bulk'.active /\ story' = story
      /\ related' = related /\ rows' = SyncedRows(Head1.item)
  BY DEF StepSync, Done
<1>4. \A i \in DOMAIN rows' :
         \/ /\ i \in DOMAIN rows /\ rows'[i].group = rows[i].group
            /\ ~(Head1.op \in {"sync", "remove"} /\ Head1.item = i)
         \/ i \in Items /\ rows'[i].group = GroupKey(i)
  <2>1. LET t == SyncedRows(Head1.item)
        IN  /\ DOMAIN t = DOMAIN rows \cup {Head1.item}
            /\ t[Head1.item].group = GroupKey(Head1.item)
            /\ \A j \in DOMAIN rows : j # Head1.item => t[j].group = rows[j].group
    BY <1>2, SyncedGroups
  <2> QED
    BY <1>2, <1>3, <2>1
<1> QED
  BY <1>1, <1>3, <1>4, HomeContext, OperationKeepsHome

LEMMA StepPlaceKeepsHome ==
    ASSUME IInv, RowInv, HomeInv, StepPlace
    PROVE  HomeInv'
<1> DEFINE i == Head1.item
           synced == SyncedRows(i)
<1>1. job # <<>> /\ Head1.op = "place"
  BY DEF StepPlace
<1>2. Head1.item \in Items /\ Head1.position \in Nat
  BY <1>1, FirstOperation DEF Ops
<1>3. /\ job' = Tail(job) /\ ~bulk'.active /\ story' = story /\ related' = related
      /\ rows' = MoveWithin(synced, i, Head1.position)
  BY <1>2, SyncedGroups DEF StepPlace, Done
<1>4. /\ DOMAIN synced = DOMAIN rows \cup {i} /\ synced[i].group = GroupKey(i)
      /\ \A j \in DOMAIN rows : j # i => synced[j].group = rows[j].group
      /\ Dense(synced) /\ IsFiniteSet(DOMAIN synced)
  <2>1. IsTable(synced) /\ IsFiniteSet(Items)
    BY <1>2, HomeContext, SyncedDense, ItemsAssumption
  <2> QED
    BY <1>2, <2>1, HomeContext, SyncedDense, FS_Subset DEF IsTable
<1> HIDE DEF synced
<1>5. DOMAIN rows' = DOMAIN synced /\ \A j \in DOMAIN synced : rows'[j].group = synced[j].group
  <2>1. i \in DOMAIN synced /\ Head1.position \in Int
    BY <1>2, <1>4
  <2>2. LET t == MoveWithin(synced, i, Head1.position)
        IN  /\ DOMAIN t = DOMAIN synced
            /\ \A j \in DOMAIN synced : t[j].group = synced[j].group
    BY <1>4, <2>1, MoveWithinDense
  <2> QED
    BY <2>2, <1>3
<1>6. \A j \in DOMAIN rows' :
         \/ /\ j \in DOMAIN rows /\ rows'[j].group = rows[j].group
            /\ ~(Head1.op \in {"sync", "remove"} /\ Head1.item = j)
         \/ j \in Items /\ rows'[j].group = GroupKey(j)
  BY <1>2, <1>4, <1>5
<1> QED
  BY <1>1, <1>3, <1>6, HomeContext, OperationKeepsHome

LEMMA StepRemoveKeepsHome ==
    ASSUME IInv, RowInv, HomeInv, StepRemove
    PROVE  HomeInv'
<1>1. /\ job # <<>> /\ job' = Tail(job) /\ ~bulk'.active /\ story' = story /\ related' = related
      /\ rows' = DeleteRow(rows, Head1.item)
  BY DEF StepRemove, Done
<1>2. LET t == DeleteRow(rows, Head1.item)
      IN  /\ DOMAIN t = DOMAIN rows \ {Head1.item}
          /\ \A j \in DOMAIN t : t[j].group = rows[j].group
  BY HomeContext, DeleteRowDense
<1>3. \A i \in DOMAIN rows' :
         \/ /\ i \in DOMAIN rows /\ rows'[i].group = rows[i].group
            /\ ~(Head1.op \in {"sync", "remove"} /\ Head1.item = i)
         \/ i \in Items /\ rows'[i].group = GroupKey(i)
  BY <1>1, <1>2
<1> QED
  BY <1>1, <1>3, HomeContext, OperationKeepsHome

LEMMA StepOnCommitKeepsHome ==
    ASSUME IInv, RowInv, HomeInv, StepOnCommit
    PROVE  HomeInv'
<1>1. SamePairs(Head1.related, related)
  BY FirstOperation DEF StepOnCommit, RowInv, QueueFits
<1>2. /\ job # <<>> /\ job' = Tail(job) /\ ~bulk'.active /\ story' = story
      /\ related' = Head1.related /\ rows' = rows /\ Head1.op = "on_commit"
  BY DEF StepOnCommit, Done
<1> QED
  BY <1>1, <1>2, HomeContext, OperationKeepsHome


(* The story that is related is synced next; its relation touches no other *)
(* story's epics.                                                          *)
LEMMA StepRelateKeepsHome ==
    ASSUME IInv, RowInv, HomeInv, StepRelate
    PROVE  HomeInv'
<1>1. Head1 \in Ops /\ Head1.op = "relate" /\ job # <<>>
  BY FirstOperation DEF StepRelate
<1>2. Head1.item \in Stories /\ Head1.epic \in Epics
  BY <1>1, OperationItems
<1>3. PICK x \in Relations : x.story = Head1.item /\ related' = Append(related, x)
  BY <1>2 DEF StepRelate, Relations
<1> DEFINE o == SyncOp(Head1.item)
           rest == Tail(job)
<1>4. /\ job' = <<o>> \o rest /\ ~bulk'.active /\ story' = story /\ rows' = rows
      /\ o.op = "sync" /\ o.item = Head1.item
  BY DEF StepRelate, SyncOp
<1>5. job \in Seq(Ops) /\ rest \in Seq(Ops) /\ o \in Ops
  BY <1>1, <1>2, HomeContext, OpsType
<1>6. ~(Head1.op \in {"sync", "remove"}) /\ o.op # "bulk"
  BY <1>1, <1>4
<1> HIDE DEF o
<1>7. ASSUME NEW i, Awaited(i)
      PROVE  Awaited(i)'
  <2>1. Due(rest, {"sync", "remove"}, i)
    BY <1>1, <1>5, <1>6, <1>7, DueNext DEF Awaited, Head1
  <2> HIDE DEF rest
  <2> QED
    BY <2>1, <1>4, <1>5, <1>6, DueBehind DEF Awaited
<1>8. ASSUME NEW i, i = Head1.item
      PROVE  Awaited(i)'
  <2> HIDE DEF rest
  <2>1. job' \in Seq(Ops) /\ job' # <<>> /\ Head(job') = o
    BY <1>4, <1>5
  <2>2. Head(job').op \in {"sync", "remove"} /\ Head(job').item = i
    BY <2>1, <1>4, <1>8
  <2> QED
    BY <2>1, <2>2, DueFirst DEF Awaited
<1> HIDE DEF rest
<1>9. ASSUME NEW i \in DOMAIN rows
      PROVE  /\ OwnGroup(rows[i].group, i)
             /\ AtHome(rows[i].group, i, related', story') \/ Awaited(i)'
  <2>1. OwnGroup(rows[i].group, i) /\ (AtHome(rows[i].group, i, related, story) \/ Awaited(i))
    BY DEF HomeInv
  <2>2. CASE i = Head1.item
    BY <2>1, <2>2, <1>8
  <2>3. CASE i # Head1.item
    <3>1. EpicsOf(related', i) = EpicsOf(related, i)
      BY <2>3, <1>3, HomeContext, AppendEpics
    <3>2. AtHome(rows[i].group, i, related, story) => AtHome(rows[i].group, i, related', story')
      BY <3>1, <1>4 DEF AtHome
    <3> QED
      BY <2>1, <3>2, <1>7
  <2> QED
    BY <2>2, <2>3
<1> QED
  BY <1>4, <1>9 DEF HomeInv

(* Nothing is due before a reorder that runs: every row is at home.        *)
LEMMA BulkAtHome ==
    ASSUME RowInv, HomeInv, job # <<>>, Head1.op = "bulk"
    PROVE  \A i \in DOMAIN rows : OwnGroup(rows[i].group, i) /\ AtHome(rows[i].group, i, related, story)
<1>1. job \in Seq(Ops)
  BY DEF RowInv, QueueFits
<1>2. \A i : ~Awaited(i)
  BY <1>1, DueNext DEF Awaited, Head1
<1> QED
  BY <1>2 DEF HomeInv

(* Every row is at home, and the relations stay as they are. *)
LEMMA AllAtHome ==
    ASSUME related' = related, story' = story, ~bulk'.active,
           \A i \in DOMAIN rows' : OwnGroup(rows'[i].group, i) /\ AtHome(rows'[i].group, i, related, story)
    PROVE  HomeInv'
BY DEF HomeInv

LEMMA StepBulkKeepsHome ==
    ASSUME IInv, RowInv, HomeInv, StepBulk
    PROVE  HomeInv'
<1>1. job # <<>> /\ Head1.op = "bulk"
  BY DEF StepBulk
<1>2. \A i \in DOMAIN rows : OwnGroup(rows[i].group, i) /\ AtHome(rows[i].group, i, related, story)
  BY <1>1, BulkAtHome
<1>3. related' = related /\ story' = story /\ rows' = rows
      /\ (~bulk'.active \/ bulk'.saved = rows)
  BY DEF StepBulk
<1> QED
  BY <1>2, <1>3 DEF HomeInv

LEMMA StepCollectKeepsHome ==
    ASSUME IInv, RowInv, HomeInv, StepCollect
    PROVE  HomeInv'
<1> DEFINE s == Head(bulk.todo)
<1>1. bulk.active /\ job # <<>> /\ Head1.op = "bulk" /\ bulk.todo \in Seq(live \cap Stories)
      /\ bulk.todo # <<>>
  BY DEF StepCollect, RowInv, BulkRows
<1>2. s \in Items
  BY <1>1, OpsType
<1>3. /\ rows' = SyncedRows(s) /\ bulk'.saved = bulk.saved
      /\ related' = related /\ story' = story
  BY DEF StepCollect
<1> HIDE DEF s
<1>4. /\ DOMAIN rows' = DOMAIN rows \cup {s} /\ rows'[s].group = GroupKey(s)
      /\ \A j \in DOMAIN rows : j # s => rows'[j].group = rows[j].group
  BY <1>2, <1>3, SyncedGroups
<1>5. \A i \in DOMAIN rows : OwnGroup(rows[i].group, i) /\ AtHome(rows[i].group, i, related, story)
  BY <1>1, BulkAtHome
<1>6. OwnGroup(GroupKey(s), s) /\ AtHome(GroupKey(s), s, related, story)
  BY <1>2, HomeContext, GroupKeyAtHome
<1>7. \A i \in DOMAIN rows' : OwnGroup(rows'[i].group, i) /\ AtHome(rows'[i].group, i, related, story)
  BY <1>4, <1>5, <1>6
<1> QED
  BY <1>1, <1>3, <1>7 DEF HomeInv

LEMMA DropKeepsHome ==
    ASSUME HomeInv, bulk.active, Drop
    PROVE  HomeInv'
<1>1. related' = related /\ story' = story /\ ~bulk'.active /\ rows' = bulk.saved
  BY DEF Drop
<1>2. \A i \in DOMAIN bulk.saved :
         OwnGroup(bulk.saved[i].group, i) /\ AtHome(bulk.saved[i].group, i, related, story)
  BY DEF HomeInv
<1> QED
  BY <1>1, <1>2, AllAtHome

LEMMA StepReindexKeepsHome ==
    ASSUME IInv, RowInv, HomeInv, StepReindex
    PROVE  HomeInv'
<1>1. job # <<>> /\ Head1.op = "bulk" /\ bulk.active
  BY DEF RowInv, BulkRows, StepReindex
<1>2. \A i \in DOMAIN rows : OwnGroup(rows[i].group, i) /\ AtHome(rows[i].group, i, related, story)
  BY <1>1, BulkAtHome
<1>3. related' = related /\ story' = story /\ ~bulk'.active
  BY DEF StepReindex
<1>4. DOMAIN rows' = DOMAIN rows /\ \A i \in DOMAIN rows : rows'[i].group = rows[i].group
  <2>1. \/ rows' = rows
        \/ rows' = Renumber(rows, ReindexItems) /\ ~Collides(rows, ReindexItems)
    BY DEF StepReindex
  <2>2. CASE rows' = rows
    BY <2>2
  <2>3. CASE rows' = Renumber(rows, ReindexItems) /\ ~Collides(rows, ReindexItems)
    BY <2>3, <1>1, ReindexDense
  <2> QED
    BY <2>1, <2>2, <2>3
<1> QED
  BY <1>2, <1>3, <1>4, AllAtHome


-----------------------------------------------------------------------------
(* HomeInv: requests.                                                      *)

(* A request starts with every row at home; a row that it drives away is   *)
(* synced or removed by its queue.                                         *)
LEMMA RequestKeepsHome ==
    ASSUME RowInv, HomeInv, NEW ops, Run(ops),
           \A i \in live :
              \/ \A g : AtHome(g, i, related, story) => AtHome(g, i, related', story')
              \/ Due(ops, {"sync", "remove"}, i)
    PROVE  HomeInv'
<1>1. /\ job = <<>> /\ ~bulk'.active /\ job' = ops /\ rows' = rows
  BY DEF Run, Idle
<1>2. \A i : ~Awaited(i)
  <2>1. \A k \in DOMAIN job : FALSE
    BY <1>1
  <2> QED
    BY <2>1 DEF Awaited, Due
<1>3. DOMAIN rows \subseteq live
  BY DEF RowInv
<1>4. ASSUME NEW i \in DOMAIN rows
      PROVE  /\ OwnGroup(rows[i].group, i)
             /\ AtHome(rows[i].group, i, related', story') \/ Awaited(i)'
  BY <1>1, <1>2, <1>3 DEF HomeInv, Awaited
<1> QED
  BY <1>1, <1>4 DEF HomeInv

(* The requests that touch no relation and move no entity that has a row.  *)
LEMMA QuietKeepsHome ==
    ASSUME RowInv, HomeInv, NEW ops, Run(ops), related' = related,
           \A t \in live \cap Tasks : story'[t] = story[t]
    PROVE  HomeInv'
<1>1. \A i \in live : \A g : AtHome(g, i, related, story) => AtHome(g, i, related', story')
  BY DEF AtHome
<1> QED
  BY <1>1, RequestKeepsHome

(* The one entity whose parent may change is synced. *)
LEMMA ResyncKeepsHome ==
    ASSUME RowInv, HomeInv, NEW i \in Items, NEW ops, Run(ops), ops = <<SyncOp(i)>>,
           \A j \in live \ {i} : /\ EpicsOf(related', j) = EpicsOf(related, j)
                                 /\ j \in Tasks => story'[j] = story[j]
    PROVE  HomeInv'
<1>1. Due(ops, {"sync", "remove"}, i)
  BY DEF SyncOp, Due
<1>2. ASSUME NEW j \in live \ {i}, NEW g, AtHome(g, j, related, story)
      PROVE  AtHome(g, j, related', story')
  <2>1. /\ EpicsOf(related', j) = EpicsOf(related, j)
        /\ j \in Tasks => story'[j] = story[j]
    BY <1>2
  <2> QED
    BY <1>2, <2>1 DEF AtHome
<1>3. \A j \in live :
         \/ \A g : AtHome(g, j, related, story) => AtHome(g, j, related', story')
         \/ Due(ops, {"sync", "remove"}, j)
  BY <1>1, <1>2
<1> QED
  BY <1>3, RequestKeepsHome

LEMMA CreateKeepsHome ==
    ASSUME IInv, RowInv, HomeInv, NEW i \in Items, NEW u,
           CreateEpic(i) \/ CreateStory(i) \/ CreateTask(i, u)
    PROVE  HomeInv'
<1>1. Run(<<SyncOp(i)>>) /\ related' = related
  BY DEF CreateEpic, CreateStory, CreateTask
<1>2. \A t \in live \cap Tasks : story'[t] = story[t]
  BY DEF CreateEpic, CreateStory, CreateTask, IInv, TypeOK
<1> QED
  BY <1>1, <1>2, QuietKeepsHome

LEMMA SaveMoveKeepsHome ==
    ASSUME IInv, RowInv, HomeInv, NEW i \in Items, NEW u, SaveItem(i) \/ MoveTask(i, u)
    PROVE  HomeInv'
<1> DEFINE ops == <<SyncOp(i)>>
<1>1. Run(ops) /\ related' = related
  BY DEF SaveItem, MoveTask
<1>2. \A j \in live \ {i} : j \in Tasks => story'[j] = story[j]
  BY DEF SaveItem, MoveTask, IInv, TypeOK
<1>3. ops = <<SyncOp(i)>>
  OBVIOUS
<1>4. \A j \in live \ {i} : /\ EpicsOf(related', j) = EpicsOf(related, j)
                            /\ j \in Tasks => story'[j] = story[j]
  BY <1>1, <1>2
<1> HIDE DEF ops
<1> QED
  BY <1>1, <1>3, <1>4, ResyncKeepsHome

LEMMA RelateKeepsHome ==
    ASSUME IInv, RowInv, HomeInv, NEW e \in Epics, NEW s \in Stories, NEW o \in 0..MaxOrder,
           Relate(e, s, o)
    PROVE  HomeInv'
<1> DEFINE x == [epic |-> e, story |-> s, order |-> o]
           ops == <<SyncOp(s)>>
<1>1. Run(ops) /\ related' = Append(related, x) /\ story' = story
  BY DEF Relate
<1>2. x \in Relations /\ x.story = s /\ related \in Seq(Relations) /\ s \in Items
  BY HomeContext, OpsType DEF Relations
<1> HIDE DEF x
<1>3. \A j \in live \ {s} : EpicsOf(related', j) = EpicsOf(related, j) /\ story'[j] = story[j]
  BY <1>1, <1>2, AppendEpics
<1>4. ops = <<SyncOp(s)>>
  OBVIOUS
<1> HIDE DEF ops
<1> QED
  BY <1>1, <1>2, <1>3, <1>4, ResyncKeepsHome

LEMMA UnrelateKeepsHome ==
    ASSUME IInv, RowInv, HomeInv, NEW e \in Epics, NEW s \in Stories, Unrelate(e, s)
    PROVE  HomeInv'
<1> DEFINE K == {k \in DOMAIN related : ~(related[k].epic = e /\ related[k].story = s)}
           ops == <<SyncOp(s)>>
<1>1. Run(ops) /\ related' = Keep(related, K) /\ story' = story
  BY DEF Unrelate
<1>2. related \in Seq(Relations) /\ K \in SUBSET (DOMAIN related) /\ s \in Items
  BY HomeContext, OpsType
<1>3. ASSUME NEW j \in live \ {s}
      PROVE  EpicsOf(related', j) = EpicsOf(related, j) /\ story'[j] = story[j]
  <2>1. RelationsOfStory(related, j) \subseteq K
    BY DEF RelationsOfStory
  <2> HIDE DEF K
  <2> QED
    BY <1>1, <1>2, <2>1, KeepEpics
<1>4. ops = <<SyncOp(s)>>
  OBVIOUS
<1> HIDE DEF ops
<1> QED
  BY <1>1, <1>2, <1>3, <1>4, ResyncKeepsHome

LEMMA ReorderKeepsHome ==
    ASSUME IInv, RowInv, HomeInv, NEW e \in Epics, NEW s \in Stories, NEW o \in 0..MaxOrder,
           Reorder(e, s, o)
    PROVE  HomeInv'
<1> PICK k \in DOMAIN related :
        LET saved == [related EXCEPT ![k] = WithOrder(related[k], o)]
            shifted == ShiftOrders(saved, e, s, o)
        IN  /\ \A m \in DOMAIN shifted : shifted[m].order <= MaxOrder
            /\ related' = saved
            /\ Run(<<SyncOp(s), BulkOp(e), SyncOp(s), OnCommitOp(shifted)>>)
            /\ UNCHANGED <<live, story>>
  BY DEF Reorder
<1> DEFINE saved == [related EXCEPT ![k] = WithOrder(related[k], o)]
           shifted == ShiftOrders(saved, e, s, o)
           ops == <<SyncOp(s), BulkOp(e), SyncOp(s), OnCommitOp(shifted)>>
<1>1. SamePairs(saved, related)
  BY HomeContext, ReorderTables
<1>2. Run(ops) /\ story' = story /\ related' = saved
  OBVIOUS
<1> HIDE DEF saved, ops
<1>3. \A i \in live : \A g : AtHome(g, i, related, story) => AtHome(g, i, related', story')
  BY <1>1, <1>2, SamePairsEpics DEF AtHome
<1> QED
  BY <1>2, <1>3, RequestKeepsHome

LEMMA OtherRequestsKeepHome ==
    ASSUME RowInv, HomeInv,
           \/ \E e \in Epics : SaveEpic(e)
           \/ \E t \in Tasks : DeleteTask(t)
           \/ \E i \in Items, p \in 0..MaxPosition : SetPosition(i, p)
           \/ \E e \in Epics, s1 \in Stories, s2 \in Stories : BulkCreate(e, s1, s2)
    PROVE  HomeInv'
<1>1. CASE \E e \in Epics : SaveEpic(e)
  <2>1. PICK e \in Epics : SaveEpic(e)
    BY <1>1
  <2>2. PICK ops : Run(ops)
    BY <2>1, SaveEpicQueue DEF RowInv
  <2>3. related' = related /\ story' = story
    BY <2>1 DEF SaveEpic
  <2> QED
    BY <2>2, <2>3, QuietKeepsHome
<1>2. CASE ~\E e \in Epics : SaveEpic(e)
  <2>1. PICK ops : Run(ops) /\ related' = related /\ story' = story
    BY <1>2 DEF DeleteTask, SetPosition, BulkCreate
  <2> QED
    BY <2>1, QuietKeepsHome
<1> QED
  BY <1>1, <1>2

(* A cascade never reorders, so whatever it names is due.                  *)
LEMMA CascadeDue ==
    ASSUME NEW ops \in Seq(SyncsAndRemovals), NEW k \in DOMAIN ops
    PROVE  Due(ops, {"sync", "remove"}, ops[k].item)
<1>1. \A m \in DOMAIN ops : ops[m].op \in {"sync", "remove"}
  <2>1. \A x \in SyncsAndRemovals : x.op \in {"sync", "remove"}
    BY DEF SyncsAndRemovals
  <2>2. \A m \in DOMAIN ops : ops[m] \in SyncsAndRemovals
    OBVIOUS
  <2> QED
    BY <2>1, <2>2
<1>2. \A m \in 1..(k - 1) : m \in DOMAIN ops
  <2>1. Len(ops) \in Nat /\ DOMAIN ops = 1..Len(ops)
    OBVIOUS
  <2> QED
    BY <2>1
<1> QED
  BY <1>1, <1>2 DEF Due

(* The cascade removes every task of the story and the story itself. *)
LEMMA DeleteStoryKeepsHome ==
    ASSUME IInv, RowInv, HomeInv, NEW s \in Stories, DeleteStory(s)
    PROVE  HomeInv'
<1> DEFINE mine == {t \in Tasks \cap live : story[t] = s}
           K == RelationsOfStory(related, s)
           n == Cardinality(mine)
<1>1. PICK q \in [1..n -> mine] :
         /\ \A a, b \in DOMAIN q : q[a] = q[b] => a = b
         /\ Run(OpsFor(q, RemoveOp) \o [k \in 1..Cardinality(K) |-> SyncOp(s)] \o <<RemoveOp(s)>>)
  BY DEF DeleteStory
<1> DEFINE removals == OpsFor(q, RemoveOp)
           syncs == [k \in 1..Cardinality(K) |-> SyncOp(s)]
           ops == removals \o syncs \o <<RemoveOp(s)>>
<1>2. /\ related \in Seq(Relations) /\ related' = Keep(related, DOMAIN related \ K)
      /\ story' = [t \in Tasks |-> IF story[t] = s THEN Root ELSE story[t]]
      /\ K \in SUBSET (DOMAIN related)
  BY HomeContext DEF DeleteStory, RelationsOfStory
<1>3. IsFiniteSet(mine) /\ n \in Nat /\ Cardinality(K) \in Nat
  <2>1. mine \subseteq Items /\ IsFiniteSet(Items)
    BY ItemsAssumption, OpsType
  <2>2. IsFiniteSet(K) /\ IsFiniteSet(mine)
    BY <1>2, <2>1, RelationListing, FS_Subset
  <2> QED
    BY <2>2, FS_CardinalityType
<1>4. \A t \in mine : \E k \in 1..n : q[k] = t
  <2>1. q \in Injection(1..n, mine)
    BY <1>1 DEF Injection, IsInjective
  <2>2. IsFiniteSet(1..n) /\ Cardinality(1..n) = n
    BY <1>3, FS_Interval
  <2> HIDE DEF mine
  <2>3. q \in Surjection(1..n, mine)
    BY <1>3, <2>1, <2>2, FS_Injection
  <2> QED
    BY <2>3 DEF Surjection
<1>5. removals = [k \in 1..n |-> RemoveOp(q[k])]
  BY <1>1 DEF OpsFor
<1>6. Run(ops)
  BY <1>1
<1>7. /\ ops \in Seq(SyncsAndRemovals)
      /\ \A t \in mine : \E k \in DOMAIN ops : ops[k] = RemoveOp(t)
      /\ \E k \in DOMAIN ops : ops[k] = RemoveOp(s)
  <2>1. /\ removals \in Seq(SyncsAndRemovals) /\ Len(removals) = n
        /\ \A k \in 1..n : removals[k] = RemoveOp(q[k])
    <3>1. \A k \in 1..n : RemoveOp(q[k]) \in SyncsAndRemovals
      BY <1>1, OpsType DEF SyncsAndRemovals, RemoveOp
    <3> HIDE DEF removals, n, mine
    <3> QED
      BY <3>1, <1>3, <1>5
  <2>2. syncs \in Seq(SyncsAndRemovals) /\ Len(syncs) = Cardinality(K)
    <3>1. SyncOp(s) \in SyncsAndRemovals
      BY OpsType DEF SyncsAndRemovals, SyncOp
    <3> QED
      BY <3>1, <1>3
  <2> DEFINE o == RemoveOp(s)
             m == Cardinality(K)
  <2>3. o \in SyncsAndRemovals
    BY OpsType DEF SyncsAndRemovals, RemoveOp
  <2>6. ops = removals \o syncs \o <<o>>
    OBVIOUS
  <2> HIDE DEF removals, syncs, o, n, m, mine, ops
  <2>4. /\ ops \in Seq(SyncsAndRemovals) /\ DOMAIN ops = 1..(n + m + 1)
        /\ \A k \in 1..n : ops[k] = removals[k]
        /\ ops[n + m + 1] = o
    <3> DEFINE front == removals \o syncs
    <3>1. /\ front \in Seq(SyncsAndRemovals) /\ Len(front) = n + m
          /\ \A k \in 1..n : front[k] = removals[k]
      <4>1. removals \in Seq(SyncsAndRemovals) /\ Len(removals) = n
        BY <2>1
      <4>2. syncs \in Seq(SyncsAndRemovals) /\ Len(syncs) = m
        BY <2>2 DEF m
      <4>3. n \in Nat /\ m \in Nat
        BY <1>3 DEF m
      <4>4. front \in Seq(SyncsAndRemovals) /\ Len(front) = n + m
        BY <4>1, <4>2, <4>3
      <4>5. \A k \in 1..n : front[k] = removals[k]
        BY <4>1, <4>2, <4>3
      <4> QED
        BY <4>4, <4>5
    <3>2. ops = front \o <<o>>
      BY <2>6
    <3> HIDE DEF front
    <3>3. /\ ops \in Seq(SyncsAndRemovals)
          /\ Len(ops) = n + m + 1 /\ DOMAIN ops = 1..(n + m + 1)
          /\ \A k \in 1..(n + m) : ops[k] = front[k]
          /\ ops[n + m + 1] = o
      BY <3>1, <3>2, <2>3, <1>3 DEF m
    <3>4. 1..n \subseteq 1..(n + m)
      BY <1>3 DEF m
    <3> QED
      BY <3>1, <3>3, <3>4
  <2>5. 1..n \subseteq DOMAIN ops /\ n + m + 1 \in DOMAIN ops
    BY <2>4, <1>3 DEF m
  <2> QED
    BY <2>1, <2>4, <2>5, <1>4 DEF o
<1> HIDE DEF ops
<1>8. \A x : RemoveOp(x).op = "remove" /\ RemoveOp(x).item = x
  BY DEF RemoveOp
<1>9. ASSUME NEW i \in live, i \notin mine, i # s, NEW g, AtHome(g, i, related, story)
      PROVE  AtHome(g, i, related', story')
  <2>1. EpicsOf(related', i) = EpicsOf(related, i)
    <3> DEFINE kept == DOMAIN related \ K
    <3>1. RelationsOfStory(related, i) \subseteq kept /\ kept \in SUBSET (DOMAIN related)
      BY <1>9 DEF RelationsOfStory
    <3>2. related' = Keep(related, kept)
      BY <1>2
    <3> HIDE DEF kept
    <3> QED
      BY <3>1, <3>2, <1>2, KeepEpics
  <2>2. i \in Tasks => story'[i] = story[i]
    BY <1>2, <1>9
  <2> QED
    BY <1>9, <2>1, <2>2 DEF AtHome
<1>10. \A i \in live :
          \/ \A g : AtHome(g, i, related, story) => AtHome(g, i, related', story')
          \/ Due(ops, {"sync", "remove"}, i)
  <2> HIDE DEF mine
  <2>1. \A i \in mine \cup {s} : Due(ops, {"sync", "remove"}, i)
    BY <1>7, <1>8, CascadeDue
  <2> QED
    BY <2>1, <1>9
<1> QED
  BY <1>6, <1>10, RequestKeepsHome

(* The cascade syncs every story that was related to the epic. *)
LEMMA DeleteEpicKeepsHome ==
    ASSUME IInv, RowInv, HomeInv, NEW e \in Epics, DeleteEpic(e)
    PROVE  HomeInv'
<1> DEFINE K == RelationsOfEpic(related, e)
           n == Cardinality(K)
           q == SortBy(K, {p \in K \X K : p[1] < p[2]})
           syncs == [k \in DOMAIN q |-> SyncOp(related[q[k]].story)]
           ops == syncs \o <<RemoveOp(e)>>
<1>1. /\ related \in Seq(Relations) /\ related' = Keep(related, DOMAIN related \ K)
      /\ story' = story /\ Run(ops) /\ K \in SUBSET (DOMAIN related)
  BY HomeContext DEF DeleteEpic, RelationsOfEpic
<1>2. /\ \A k \in K : related[k].story \in Stories
      /\ Lists(q, K, n)
  BY <1>1, RelationListing, WithOrderType
<1> HIDE DEF q
<1>3. /\ ops \in Seq(SyncsAndRemovals)
      /\ \A k \in K : \E m \in DOMAIN ops : ops[m] = SyncOp(related[k].story)
  <2>1. n \in Nat /\ DOMAIN q = 1..n /\ (\A k \in 1..n : q[k] \in K)
        /\ \A k \in K : \E m \in 1..n : q[m] = k
    BY <1>2 DEF Lists
  <2>2. \A k \in 1..n : SyncOp(related[q[k]].story) \in SyncsAndRemovals
    BY <1>2, <2>1, OpsType DEF SyncsAndRemovals, SyncOp
  <2>3. syncs = [k \in 1..n |-> SyncOp(related[q[k]].story)]
    BY <2>1
  <2> HIDE DEF syncs
  <2>4. /\ syncs \in Seq(SyncsAndRemovals) /\ Len(syncs) = n
        /\ \A k \in 1..n : syncs[k] = SyncOp(related[q[k]].story)
    BY <2>1, <2>2, <2>3
  <2> DEFINE o == RemoveOp(e)
  <2>5. o \in SyncsAndRemovals
    BY OpsType DEF SyncsAndRemovals, RemoveOp
  <2> HIDE DEF o, n
  <2>6. /\ ops \in Seq(SyncsAndRemovals) /\ DOMAIN ops = 1..(n + 1)
        /\ \A k \in 1..n : ops[k] = syncs[k]
    BY <2>1, <2>4, <2>5 DEF o
  <2>7. 1..n \subseteq DOMAIN ops
    BY <2>1, <2>6
  <2> QED
    BY <2>1, <2>4, <2>6, <2>7
<1> HIDE DEF ops
<1>4. ASSUME NEW i \in live, ~Due(ops, {"sync", "remove"}, i),
             NEW g, AtHome(g, i, related, story)
      PROVE  AtHome(g, i, related', story')
  <2>1. \A k \in K : related[k].story # i
    BY <1>3, <1>4, CascadeDue DEF SyncOp
  <2>2. EpicsOf(related', i) = EpicsOf(related, i)
    <3> DEFINE kept == DOMAIN related \ K
    <3>1. RelationsOfStory(related, i) \subseteq kept /\ kept \in SUBSET (DOMAIN related)
      BY <2>1 DEF RelationsOfStory
    <3>2. related' = Keep(related, kept)
      BY <1>1
    <3> HIDE DEF kept
    <3> QED
      BY <3>1, <3>2, <1>1, KeepEpics
  <2> QED
    BY <1>1, <1>4, <2>2 DEF AtHome
<1>5. \A i \in live :
         \/ \A g : AtHome(g, i, related, story) => AtHome(g, i, related', story')
         \/ Due(ops, {"sync", "remove"}, i)
  BY <1>4
<1> QED
  BY <1>1, <1>5, RequestKeepsHome


-----------------------------------------------------------------------------
(* The second induction: in a single project.                              *)

LEMMA RequestHome ==
    ASSUME IInv, RowInv, HomeInv, Request
    PROVE  HomeInv'
<1>1. CASE \E e \in Epics : CreateEpic(e) \/ SaveEpic(e) \/ DeleteEpic(e)
  BY <1>1, OpsType, CreateKeepsHome, DeleteEpicKeepsHome, OtherRequestsKeepHome
<1>2. CASE \E s \in Stories : CreateStory(s) \/ DeleteStory(s)
  BY <1>2, OpsType, CreateKeepsHome, DeleteStoryKeepsHome
<1>3. CASE \E t \in Tasks, u \in Stories \cup {Root} : CreateTask(t, u) \/ MoveTask(t, u)
  BY <1>3, OpsType, CreateKeepsHome, SaveMoveKeepsHome
<1>4. CASE \E i \in Stories \cup Tasks : SaveItem(i)
  BY <1>4, OpsType, SaveMoveKeepsHome
<1>5. CASE \E e \in Epics, s \in Stories : Unrelate(e, s)
  BY <1>5, UnrelateKeepsHome
<1>6. CASE \E e \in Epics, s \in Stories, o \in 0..MaxOrder : Relate(e, s, o) \/ Reorder(e, s, o)
  BY <1>6, RelateKeepsHome, ReorderKeepsHome
<1> QED
  BY <1>1, <1>2, <1>3, <1>4, <1>5, <1>6, OtherRequestsKeepHome DEF Request

LEMMA OperationHome ==
    ASSUME IInv, RowInv, HomeInv, Operation
    PROVE  HomeInv'
<1>1. CASE CollectFails
  BY <1>1, DropKeepsHome DEF CollectFails
<1>2. CASE ReindexFails
  BY <1>2, DropKeepsHome DEF ReindexFails
<1> QED
  BY <1>1, <1>2, StepSyncKeepsHome, StepPlaceKeepsHome, StepRemoveKeepsHome,
     StepRelateKeepsHome, StepBulkKeepsHome, StepCollectKeepsHome,
     StepReindexKeepsHome, StepOnCommitKeepsHome DEF Operation

(* In a single project HomeInv is inductive together with IInv, without    *)
(* which a move may meet a taken position and leave its row behind, and    *)
(* RowInv, which says what may still be queued.                            *)
THEOREM HomeInvHolds ==
    ASSUME OneProjectOnly
    PROVE  Spec => []HomeInv
<1>1. Init => HomeInv
  BY DEF Init, HomeInv
<1>2. ASSUME IInv, RowInv, HomeInv, [Next]_vars
      PROVE  HomeInv'
  <2>1. CASE Next
    BY <1>2, <2>1, RequestHome, OperationHome DEF Next
  <2>2. CASE UNCHANGED vars
    BY <1>2, <2>2 DEF HomeInv, Awaited, vars
  <2> QED
    BY <1>2, <2>1, <2>2
<1> QED
  BY <1>1, <1>2, IInvHolds, RowInvHolds, PTL DEF Spec

(* Between requests every row is under the parent its entity has: a task   *)
(* under its story, a user story under an epic it is related to, or under  *)
(* none when it has none left.                                             *)
THEOREM RowsFollowParentsHolds ==
    ASSUME OneProjectOnly
    PROVE  Spec => []RowsFollowParents
<1>1. ASSUME IInv, RowInv, HomeInv
      PROVE  RowsFollowParents
  <2>1. SUFFICES ASSUME Idle, NEW i \in DOMAIN rows
                 PROVE  LET g == rows[i].group
                        IN  /\ g[1] = Project[i] /\ g[2] = KindOf(i)
                            /\ i \notin Stories => g = GroupKey(i)
                            /\ i \in Stories /\ g[3] # Root => ~Unrelated(related, g[3], i)
                            /\ i \in Stories /\ g[3] = Root => RelationsOfStory(related, i) = {}
    BY DEF RowsFollowParents
  <2> DEFINE g == rows[i].group
  <2>2. ~Awaited(i)
    <3>1. \A k \in DOMAIN job : FALSE
      BY <2>1 DEF Idle
    <3> QED
      BY <3>1 DEF Awaited, Due
  <2>3. OwnGroup(g, i) /\ AtHome(g, i, related, story)
    BY <1>1, <2>2 DEF HomeInv
  <2>4. i \in Items /\ g \in Groups
    BY <1>1 DEF IInv, TypeOK, IsTable
  <2> HIDE DEF g
  <2>5. ASSUME i \notin Stories
        PROVE  g = GroupKey(i)
    <3>1. g = <<g[1], g[2], g[3]>>
      BY <2>4 DEF Groups
    <3>2. g[3] = ResolveParent(i)
      BY <2>3, <2>4, <2>5, ItemsAssumption DEF AtHome, ResolveParent, Items
    <3> QED
      BY <3>1, <3>2, <2>3 DEF OwnGroup, GroupKey
  <2>6. ASSUME i \in Stories, g[3] # Root
        PROVE  ~Unrelated(related, g[3], i)
    BY <2>3, <2>6 DEF AtHome, EpicsOf, RelationsOfStory, Unrelated
  <2>7. ASSUME i \in Stories, g[3] = Root
        PROVE  RelationsOfStory(related, i) = {}
    <3>1. \A k \in RelationsOfStory(related, i) : related[k].epic # Root
      <4>1. related \in Seq(Relations)
        BY <1>1 DEF RowInv
      <4> QED
        BY <4>1, WithOrderType, ItemsAssumption DEF RelationsOfStory, Items
    <3> QED
      BY <2>3, <2>7, <3>1 DEF AtHome, EpicsOf
  <2> QED
    BY <2>3, <2>5, <2>6, <2>7 DEF OwnGroup, g
<1> QED
  BY <1>1, IInvHolds, RowInvHolds, HomeInvHolds, PTL

=============================================================================
