---------------------------- MODULE BackendProofs ----------------------------
(***************************************************************************)
(* The parts of the back end, for any number of requests: what their       *)
(* modules claim is proved of the instances of module Backend.             *)
(***************************************************************************)
EXTENDS Backend, SequenceTheorems, FiniteSetTheorems, TLAPS

-----------------------------------------------------------------------------
(* The updates of one item and its history.                                 *)

Entry == [diff : E!Diffs, edit : Int]

LEMMA EditsFree == Free \notin Handlers /\ MaxEdits \in Nat
BY BackendAssumption DEF E!EditsAssumption

LEMMA NoDiff == <<>> \in E!Diffs /\ DOMAIN <<>> = {}
<1>1. <<>> \in [{} -> Int]
  OBVIOUS
<1> QED
  BY <1>1 DEF E!Diffs

(* A diff is a function from some of the fields. *)
LEMMA DiffType ==
    ASSUME NEW d \in E!Diffs
    PROVE  DOMAIN d \subseteq Fields /\ \A f \in DOMAIN d : d[f] \in Int
BY DEF E!Diffs

(* A set of numbers up to n has a greatest: the interval from it to n is    *)
(* the least of their intervals, as strict inclusion is well-founded.       *)
LEMMA HasGreatest ==
    ASSUME NEW n \in Nat, NEW S, S \subseteq 1..n, S # {}
    PROVE  \E x \in S : \A y \in S : y <= x
<1> DEFINE Up(x) == x..n
           T == {Up(x) : x \in S}
<1>1. IsFiniteSet(1..n) /\ FiniteSubsetsOf(1..n) = SUBSET (1..n)
  BY FS_Interval, FS_FiniteSubsetsOfFinite
<1>2. T \subseteq SUBSET (1..n) /\ T # {}
  <2>1. \A x \in S : Up(x) \subseteq 1..n
    OBVIOUS
  <2> HIDE DEF Up
  <2> QED
    BY <2>1
<1>3. IsWellFoundedOn(StrictSubsetOrdering(1..n), SUBSET (1..n))
  BY <1>1, FS_StrictSubsetOrderingWellFounded
<1>4. PICK U \in T : \A V \in T : ~(<<V, U>> \in StrictSubsetOrdering(1..n))
  <2> HIDE DEF T
  <2> QED
    BY <1>2, <1>3, WFMin
<1>5. PICK x \in S : U = Up(x)
  OBVIOUS
<1>6. ASSUME NEW y \in S, y > x PROVE FALSE
  <2>1. Up(y) \in T /\ Up(y) \subseteq Up(x) /\ x \in Up(x) /\ x \notin Up(y)
    BY <1>6
  <2>2. <<Up(y), U>> \in StrictSubsetOrdering(1..n)
    BY <1>2, <1>5, <2>1 DEF StrictSubsetOrdering
  <2> QED
    BY <1>4, <2>1, <2>2
<1> QED
  BY <1>6

LEMMA HasLeast ==
    ASSUME NEW n \in Nat, NEW S, S \subseteq 0..n, S # {}
    PROVE  \E x \in S : \A y \in S : x <= y
<1> DEFINE T == {n - x + 1 : x \in S}
<1>1. T \subseteq 1..(n + 1) /\ T # {}
  <2>1. \A x \in S : n - x + 1 \in 1..(n + 1)
    OBVIOUS
  <2> QED
    BY <2>1
<1>2. n + 1 \in Nat
  OBVIOUS
<1>3. PICK z \in T : \A y \in T : y <= z
  <2> HIDE DEF T
  <2> QED
    BY <1>1, <1>2, HasGreatest
<1>4. PICK x \in S : z = n - x + 1
  OBVIOUS
<1>5. ASSUME NEW y \in S PROVE x <= y
  <2>1. n - y + 1 <= z
    BY <1>3
  <2> QED
    BY <2>1, <1>4
<1> QED
  BY <1>5

(* What the last entry with a field is, and that the history tells one      *)
(* value of it.                                                             *)
LEMMA SomeEntryIsLast ==
    ASSUME NEW es \in Seq(Entry), NEW f, NEW n \in 0..Len(es),
           NEW k \in 1..n, f \in DOMAIN es[k].diff
    PROVE  \E m \in k..n : E!IsLast(es, m, n, f)
<1> DEFINE S == {j \in 1..n : f \in DOMAIN es[j].diff}
<1>1. n \in Nat /\ S \subseteq 1..n /\ S # {}
  OBVIOUS
<1>2. PICK m \in S : \A j \in S : j <= m
  <2> HIDE DEF S
  <2> QED
    BY <1>1, HasGreatest
<1>3. m \in 1..n /\ f \in DOMAIN es[m].diff /\ k <= m
  BY <1>2
<1>4. ASSUME NEW j \in (m + 1)..n, f \in DOMAIN es[j].diff PROVE FALSE
  <2>1. j \in S /\ j > m
    BY <1>1, <1>3, <1>4
  <2> QED
    BY <1>2, <2>1
<1> QED
  BY <1>1, <1>3, <1>4 DEF E!IsLast

LEMMA LastEntryIsLast ==
    ASSUME entries \in Seq(Entry), NEW f
    PROVE  \/ E!LastEntry(f) = 0 /\ \A k \in 1..Len(entries) : f \notin DOMAIN entries[k].diff
           \/ E!LastEntry(f) # 0 /\ E!IsLast(entries, E!LastEntry(f), Len(entries), f)
<1> DEFINE n == Len(entries)
           S == {k \in 1..n : f \in DOMAIN entries[k].diff}
<1>1. E!LastEntry(f) = IF S # {} THEN E!Max(S) ELSE 0
  BY DEF E!LastEntry, E!SelectLastInSeq
<1>2. n \in Nat /\ n \in 0..Len(entries)
  OBVIOUS
<1>3. CASE S = {}
  BY <1>1, <1>3
<1>4. CASE S # {}
  <2>1. PICK m \in S : E!IsLast(entries, m, n, f)
    <3>1. PICK k \in 1..n : f \in DOMAIN entries[k].diff
      BY <1>4
    <3>2. PICK m \in k..n : E!IsLast(entries, m, n, f)
      <4> HIDE DEF n
      <4> QED
        BY <1>2, <3>1, SomeEntryIsLast
    <3>3. m \in S
      BY <3>2 DEF E!IsLast
    <3> QED
      BY <3>2, <3>3
  <2>2. \A j \in S : m >= j /\ m \in Int /\ j \in Int
    BY <1>2, <2>1 DEF E!IsLast
  <2>3. E!Max(S) = CHOOSE x \in S : \A y \in S : x >= y
    BY DEF E!Max
  <2>4. E!Max(S) = m
    <3> HIDE DEF S
    <3>1. \A x \in S : (\A y \in S : x >= y) <=> x = m
      BY <2>2
    <3> QED
      BY <2>1, <2>3, <3>1
  <2>5. m # 0 /\ E!LastEntry(f) = m
    BY <1>1, <1>4, <2>1, <2>4
  <2> QED
    BY <2>1, <2>5
<1> QED
  BY <1>3, <1>4

LEMMA RebuiltTells ==
    ASSUME entries \in Seq(Entry), NEW f \in Fields
    PROVE  E!Tells(entries, Len(entries), f, E!Rebuilt[f]) /\ E!Rebuilt[f] \in Int
<1>1. CASE E!LastEntry(f) = 0
  <2>1. E!Rebuilt[f] = 0 /\ \A k \in 1..Len(entries) : f \notin DOMAIN entries[k].diff
    BY <1>1, LastEntryIsLast DEF E!Rebuilt
  <2> QED
    BY <2>1 DEF E!Tells
<1>2. CASE E!LastEntry(f) # 0
  <2> DEFINE k == E!LastEntry(f)
  <2>1. E!IsLast(entries, k, Len(entries), f) /\ E!Rebuilt[f] = entries[k].diff[f]
    BY <1>2, LastEntryIsLast DEF E!Rebuilt
  <2> HIDE DEF k
  <2>2. k \in 1..Len(entries) /\ f \in DOMAIN entries[k].diff
    BY <2>1 DEF E!IsLast
  <2>3. entries[k].diff \in E!Diffs
    <3>1. entries[k] \in Entry
      BY <2>2
    <3> QED
      BY <3>1 DEF Entry
  <2>4. entries[k].diff[f] \in Int
    BY <2>2, <2>3, DiffType
  <2> QED
    BY <2>1, <2>2, <2>4 DEF E!Tells
<1> QED
  BY <1>1, <1>2

LEMMA TellsOnce ==
    ASSUME NEW es, NEW n \in Nat, NEW f, NEW v, NEW w, E!Tells(es, n, f, v), E!Tells(es, n, f, w)
    PROVE  v = w
BY DEF E!Tells, E!IsLast

LEMMA EditsDiff ==
    ASSUME entries \in Seq(Entry), NEW val \in [Fields -> Int]
    PROVE  /\ E!Diff(val) \in E!Diffs
           /\ \A f \in Fields : IF f \in DOMAIN E!Diff(val) THEN E!Diff(val)[f] = val[f]
                                ELSE E!Tells(entries, Len(entries), f, val[f])
<1> DEFINE F == {g \in Fields : val[g] # E!Rebuilt[g]}
<1>1. E!Diff(val) = [f \in F |-> val[f]]
  BY DEF E!Diff
<1>2. F \in SUBSET Fields /\ [f \in F |-> val[f]] \in [F -> Int]
  OBVIOUS
<1>3. E!Diff(val) \in E!Diffs
  BY <1>1, <1>2 DEF E!Diffs
<1> QED
  BY <1>1, <1>3, RebuiltTells


(* The history after a step that only adds entries to its end, or one after *)
(* the first p.                                                             *)
LEMMA InsertedEntries ==
    ASSUME entries \in Seq(Entry), NEW e \in Entry, NEW p \in 0..Len(entries),
           NEW es, es = E!InsertAt(entries, p + 1, e)
    PROVE  /\ es \in Seq(Entry) /\ Len(es) = Len(entries) + 1
           /\ \A k \in 1..p : es[k] = entries[k]
           /\ es[p + 1] = e
           /\ \A k \in (p + 2)..Len(es) : es[k] = entries[k - 1]
<1> DEFINE left == SubSeq(entries, 1, p)
           right == SubSeq(entries, p + 1, Len(entries))
           n == Len(entries)
<1>1. n \in Nat /\ p \in Nat /\ p <= n
  OBVIOUS
<1>2. left \in Seq(Entry) /\ Len(left) = p /\ \A k \in 1..p : left[k] = entries[k]
  BY <1>1
<1>3. right \in Seq(Entry) /\ Len(right) = n - p /\ \A k \in 1..(n - p) : right[k] = entries[p + k]
  BY <1>1
<1>4. es = left \o <<e>> \o right
  <2>1. (p + 1) - 1 = p
    BY <1>1
  <2> QED
    BY <2>1, Zenon DEF E!InsertAt
<1>5. <<e>> \in Seq(Entry) /\ Len(<<e>>) = 1 /\ <<e>>[1] = e
  OBVIOUS
<1> HIDE DEF left, right, n
<1> DEFINE front == left \o <<e>>
<1>6. front \in Seq(Entry) /\ Len(front) = p + 1
      /\ (\A k \in 1..p : front[k] = entries[k]) /\ front[p + 1] = e
  BY <1>1, <1>2, <1>5
<1>7. es = front \o right
  BY <1>4
<1> HIDE DEF front
<1>8. es \in Seq(Entry) /\ Len(es) = n + 1
      /\ (\A k \in 1..(p + 1) : es[k] = front[k])
      /\ \A k \in (p + 2)..(n + 1) : es[k] = right[k - (p + 1)]
  <2>1. /\ front \o right \in Seq(Entry)
        /\ Len(front \o right) = Len(front) + Len(right)
        /\ \A i \in 1..(Len(front) + Len(right)) :
              (front \o right)[i] = IF i <= Len(front) THEN front[i] ELSE right[i - Len(front)]
    BY <1>3, <1>6, ConcatProperties
  <2>2. Len(front) = p + 1 /\ Len(right) = n - p /\ Len(front) + Len(right) = n + 1
    BY <1>1, <1>3, <1>6
  <2>3. /\ es \in Seq(Entry) /\ Len(es) = n + 1
        /\ \A i \in 1..(n + 1) : es[i] = IF i <= p + 1 THEN front[i] ELSE right[i - (p + 1)]
    BY <1>7, <2>1, <2>2
  <2> QED
    BY <1>1, <2>3
<1>9. \A k \in (p + 2)..(n + 1) : es[k] = entries[k - 1]
  <2> SUFFICES ASSUME NEW k \in (p + 2)..(n + 1) PROVE es[k] = entries[k - 1]
    OBVIOUS
  <2>1. k - (p + 1) \in 1..(n - p) /\ p + (k - (p + 1)) = k - 1
    BY <1>1
  <2> QED
    BY <1>3, <1>8, <2>1
<1> QED
  BY <1>1, <1>6, <1>8, <1>9 DEF n


LEMMA EditsTyped ==
    ASSUME E!EditsInv
    PROVE  /\ item \in [version : Int, val : [Fields -> Int]]
           /\ item.version \in Int /\ item.val \in [Fields -> Int]
           /\ entries \in Seq(Entry) /\ Len(entries) \in Nat
           /\ upd \in [Handlers -> E!Doing]
           /\ edits \in Nat
<1>1. entries \in Seq(Entry)
  BY DEF E!EditsInv, Entry
<1>2. item \in [version : Int, val : [Fields -> Int]] /\ upd \in [Handlers -> E!Doing] /\ edits \in Nat
  BY DEF E!EditsInv
<1> QED
  BY <1>1, <1>2

LEMMA SamePrefixTells ==
    ASSUME NEW es, NEW fs, NEW n \in Nat, NEW f, NEW v, \A k \in 1..n : fs[k] = es[k]
    PROVE  E!Tells(es, n, f, v) => E!Tells(fs, n, f, v)
BY DEF E!Tells, E!IsLast

(* A step of one request that leaves the row and the history alone.         *)
LEMMA EditsQuietStep ==
    ASSUME E!EditsInv, NEW h \in Handlers, NEW x \in E!Doing,
           item' = item, entries' = entries, edits' \in Nat,
           upd' = [upd EXCEPT ![h] = x],
           E!Pc(h) # "side",
           writer = Free \/ writer' = writer,
           x.pc \in {"saved", "recorded", "unlocked"} => writer' = h /\ x.version = item.version + 1,
           x.pc \in {"recorded", "unlocked"} =>
              /\ x.at <= Len(entries)
              /\ \A k \in (x.at + 1)..Len(entries) : entries[k].edit = 0
              /\ \A f \in Fields : IF f \in DOMAIN x.diff THEN x.diff[f] = x.copy[f]
                                   ELSE E!Tells(entries, x.at, f, x.copy[f])
    PROVE  E!EditsInv'
<1>1. /\ item \in [version : Int, val : [Fields -> Int]] /\ entries \in Seq(Entry)
      /\ upd \in [Handlers -> E!Doing]
  BY EditsTyped
<1>2. upd' \in [Handlers -> E!Doing] /\ upd'[h] = x /\ \A g \in Handlers \ {h} : upd'[g] = upd[g]
  BY <1>1
<1>3. \A n, f, v : E!Tells(entries, n, f, v)' <=> E!Tells(entries, n, f, v)
  BY DEF E!Tells, E!IsLast
<1>4. \A f : E!EndsUnversioned(entries, f)' <=> E!EndsUnversioned(entries, f)
  BY DEF E!EndsUnversioned, E!IsLast
<1>5. E!SaveInv(h)'
  BY <1>2, <1>3 DEF E!SaveInv, E!Pc
<1>6. ASSUME NEW g \in Handlers \ {h} PROVE E!SaveInv(g)'
  <2>1. E!SaveInv(g) /\ upd'[g] = upd[g]
    BY <1>2 DEF E!EditsInv
  <2>2. g # Free
    BY EditsFree
  <2>3. \A f \in Fields : E!Tells(entries, upd[g].at, f, upd[g].copy[f])' <=> E!Tells(entries, upd[g].at, f, upd[g].copy[f])
    BY <2>1 DEF E!Tells, E!IsLast
  <2> QED
    BY <2>1, <2>2, <2>3 DEF E!SaveInv, E!Pc
<1>7. ASSUME NEW f \in Fields
      PROVE  \/ E!Tells(entries, Len(entries), f, item.val[f])' \/ E!EndsUnversioned(entries, f)'
             \/ item'.val[f] < 0 /\ \E g \in Handlers : E!Pc(g)' = "side"
  <2>1. CASE item.val[f] < 0 /\ \E g \in Handlers : E!Pc(g) = "side"
    <3>1. PICK g \in Handlers \ {h} : E!Pc(g) = "side"
      BY <2>1
    <3> QED
      BY <1>2, <2>1, <3>1 DEF E!Pc
  <2>2. CASE E!Tells(entries, Len(entries), f, item.val[f]) \/ E!EndsUnversioned(entries, f)
    BY <1>4, <2>2 DEF E!Tells, E!IsLast
  <2> QED
    BY <2>1, <2>2 DEF E!EditsInv
<1> QED
  BY <1>1, <1>2, <1>5, <1>6, <1>7 DEF E!EditsInv, Entry


LEMMA EditsIdle == E!Idle \in E!Doing /\ E!Idle.pc = "idle"
<1>1. <<>> \in E!Diffs /\ E!NoVal \in [Fields -> Int]
  BY NoDiff DEF E!NoVal
<1> QED
  BY <1>1 DEF E!Idle, E!Doing

LEMMA FetchKeeps ==
    ASSUME E!EditsInv, NEW h \in Handlers, E!Fetch(h)
    PROVE  E!EditsInv'
<1>1. item' = item /\ entries' = entries /\ upd' = upd /\ writer' = writer /\ edits' = edits
  BY DEF E!Fetch
<1>2. \A n, f, v : E!Tells(entries, n, f, v)' <=> E!Tells(entries, n, f, v)
  BY <1>1 DEF E!Tells, E!IsLast
<1>3. \A f : E!EndsUnversioned(entries, f)' <=> E!EndsUnversioned(entries, f)
  BY <1>1 DEF E!EndsUnversioned, E!IsLast
<1>4. ASSUME NEW g \in Handlers PROVE E!SaveInv(g)'
  <2>1. E!SaveInv(g)
    BY DEF E!EditsInv
  <2>2. \A f : E!Tells(entries, upd[g].at, f, upd[g].copy[f])' <=> E!Tells(entries, upd[g].at, f, upd[g].copy[f])
    BY <1>1 DEF E!Tells, E!IsLast
  <2> QED
    BY <1>1, <2>1, <2>2 DEF E!SaveInv, E!Pc
<1>5. \A f : E!Tells(entries, Len(entries), f, item.val[f])' <=> E!Tells(entries, Len(entries), f, item.val[f])
  BY <1>1 DEF E!Tells, E!IsLast
<1> QED
  BY <1>1, <1>3, <1>4, <1>5 DEF E!EditsInv, E!Pc

LEMMA ReadKeeps ==
    ASSUME E!EditsInv, NEW h \in Handlers, NEW chosen \in SUBSET Fields, NEW comment \in BOOLEAN,
           E!Read(h, chosen, comment)
    PROVE  E!EditsInv'
<1> DEFINE x == [E!Idle EXCEPT !.pc = "read", !.id = edits + 1, !.named = chosen,
                               !.comment = comment, !.copy = item.val]
<1>1. edits + 1 \in Nat /\ item.val \in [Fields -> Int]
  BY EditsTyped
<1>2. x \in E!Doing /\ x.pc = "read"
  BY <1>1, EditsIdle DEF E!Doing
<1>3. /\ item' = item /\ entries' = entries /\ edits' = edits + 1 /\ writer' = writer
      /\ upd' = [upd EXCEPT ![h] = x] /\ E!Pc(h) = "idle"
  BY DEF E!Read
<1> HIDE DEF x
<1> QED
  BY <1>1, <1>2, <1>3, EditsQuietStep

LEMMA LockKeeps ==
    ASSUME E!EditsInv, NEW h \in Handlers, E!Lock(h)
    PROVE  E!EditsInv'
<1> DEFINE late == {upd[g].id : g \in {k \in Handlers : E!Pc(k) = "unlocked"}}
           x == [upd[h] EXCEPT !.pc = "locked", !.late = late]
<1>1. upd[h] \in E!Doing /\ edits \in Nat /\ \A g \in Handlers : upd[g].id \in Nat
  BY EditsTyped DEF E!Doing
<1>2. late \in SUBSET Nat
  BY <1>1
<1>3. /\ item' = item /\ entries' = entries /\ edits' = edits /\ writer' = writer
      /\ upd' = [upd EXCEPT ![h] = x] /\ E!Pc(h) = "read"
  BY DEF E!Lock
<1> HIDE DEF late
<1>4. x \in E!Doing /\ x.pc = "locked"
  BY <1>1, <1>2 DEF E!Doing
<1> HIDE DEF x
<1> QED
  BY <1>1, <1>3, <1>4, EditsQuietStep

LEMMA CheckKeeps ==
    ASSUME E!EditsInv, NEW h \in Handlers, E!Check(h)
    PROVE  E!EditsInv'
<1> DEFINE x == IF E!Conflict(h) THEN E!Idle ELSE [upd[h] EXCEPT !.pc = "checked"]
<1>1. upd[h] \in E!Doing /\ edits \in Nat
  BY EditsTyped
<1>2. x \in E!Doing /\ x.pc \in {"idle", "checked"}
  BY <1>1, EditsIdle DEF E!Doing
<1>3. /\ item' = item /\ entries' = entries /\ edits' = edits /\ writer' = writer
      /\ upd' = [upd EXCEPT ![h] = x] /\ E!Pc(h) = "locked"
  BY DEF E!Check
<1> HIDE DEF x
<1> QED
  BY <1>1, <1>2, <1>3, EditsQuietStep

LEMMA SaveKeeps ==
    ASSUME E!EditsInv, NEW h \in Handlers, E!Save(h)
    PROVE  E!EditsInv'
<1> DEFINE copy == [f \in Fields |-> IF f \in upd[h].named THEN upd[h].id ELSE upd[h].copy[f]]
           x == [upd[h] EXCEPT !.pc = "saved", !.version = item.version + 1, !.copy = copy]
<1>1. upd[h] \in E!Doing /\ edits \in Nat /\ item.version + 1 \in Int
  BY EditsTyped
<1>2. copy \in [Fields -> Int]
  BY <1>1 DEF E!Doing
<1>3. /\ item' = item /\ entries' = entries /\ edits' = edits /\ writer' = h /\ writer = Free
      /\ upd' = [upd EXCEPT ![h] = x] /\ E!Pc(h) = "checked"
  BY DEF E!Save
<1> HIDE DEF copy
<1>4. x \in E!Doing /\ x.pc = "saved" /\ x.version = item.version + 1
  BY <1>1, <1>2 DEF E!Doing
<1> HIDE DEF x
<1> QED
  BY <1>1, <1>3, <1>4, EditsQuietStep

(* The entry of a save is the difference to all that the history tells when *)
(* it is made.                                                              *)
LEMMA RecordKeeps ==
    ASSUME E!EditsInv, NEW h \in Handlers, E!Record(h)
    PROVE  E!EditsInv'
<1> DEFINE d == E!Diff(upd[h].copy)
           x == [upd[h] EXCEPT !.pc = "recorded", !.diff = d, !.at = Len(entries)]
<1>1. upd[h] \in E!Doing /\ upd[h].copy \in [Fields -> Int] /\ edits \in Nat
      /\ entries \in Seq(Entry) /\ Len(entries) \in Nat
  BY EditsTyped DEF E!Doing
<1>2. /\ d \in E!Diffs
      /\ \A f \in Fields : IF f \in DOMAIN d THEN d[f] = upd[h].copy[f]
                           ELSE E!Tells(entries, Len(entries), f, upd[h].copy[f])
  BY <1>1, EditsDiff
<1>3. /\ item' = item /\ entries' = entries /\ edits' = edits /\ writer' = writer
      /\ upd' = [upd EXCEPT ![h] = x] /\ E!Pc(h) = "saved"
  BY DEF E!Record
<1>4. writer = h /\ upd[h].version = item.version + 1
  BY <1>3 DEF E!EditsInv, E!SaveInv
<1> HIDE DEF d
<1>5. /\ x \in E!Doing /\ x.pc = "recorded" /\ x.diff = d /\ x.at = Len(entries)
      /\ x.copy = upd[h].copy /\ x.version = upd[h].version
  BY <1>1, <1>2 DEF E!Doing
<1> HIDE DEF x
<1>6. \A k \in (x.at + 1)..Len(entries) : entries[k].edit = 0
  BY <1>1, <1>5
<1>7. \A f \in Fields : IF f \in DOMAIN x.diff THEN x.diff[f] = x.copy[f]
                       ELSE E!Tells(entries, x.at, f, x.copy[f])
  BY <1>2, <1>5
<1>8. x.at <= Len(entries) /\ writer' = h /\ x.version = item.version + 1 /\ E!Pc(h) # "side"
  BY <1>1, <1>3, <1>4, <1>5
<1> QED
  BY <1>1, <1>3, <1>5, <1>6, <1>7, <1>8, EditsQuietStep

LEMMA UnlockKeeps ==
    ASSUME E!EditsInv, NEW h \in Handlers, E!Unlock(h)
    PROVE  E!EditsInv'
<1> DEFINE x == [upd[h] EXCEPT !.pc = "unlocked"]
<1>1. upd[h] \in E!Doing /\ edits \in Nat
  BY EditsTyped
<1>2. /\ item' = item /\ entries' = entries /\ edits' = edits /\ writer' = writer
      /\ upd' = [upd EXCEPT ![h] = x] /\ E!Pc(h) = "recorded"
  BY DEF E!Unlock
<1>3. /\ x \in E!Doing /\ x.pc = "unlocked" /\ x.diff = upd[h].diff /\ x.at = upd[h].at
      /\ x.copy = upd[h].copy /\ x.version = upd[h].version
  BY <1>1 DEF E!Doing
<1>4. E!SaveInv(h)
  BY DEF E!EditsInv
<1> HIDE DEF x
<1> QED
  BY <1>1, <1>2, <1>3, <1>4, EditsQuietStep DEF E!SaveInv


LEMMA SideWriteKeeps ==
    ASSUME E!EditsInv, NEW h \in Handlers, NEW f \in Fields, E!SideWrite(h, f)
    PROVE  E!EditsInv'
<1> DEFINE x == [E!Idle EXCEPT !.pc = "side"]
<1>1. /\ item \in [version : Int, val : [Fields -> Int]] /\ entries \in Seq(Entry)
      /\ upd \in [Handlers -> E!Doing] /\ edits \in Nat
  BY EditsTyped
<1>2. x \in E!Doing /\ x.pc = "side"
  BY EditsIdle DEF E!Doing
<1>3. /\ entries' = entries /\ edits' = edits + 1 /\ writer = Free
      /\ item' = [item EXCEPT !.val[f] = -(edits + 1)] /\ upd' = [upd EXCEPT ![h] = x]
  BY DEF E!SideWrite
<1> HIDE DEF x
<1>4. item' \in [version : Int, val : [Fields -> Int]] /\ edits' \in Nat
  <2> DEFINE w == [item.val EXCEPT ![f] = -(edits + 1)]
  <2>1. item.val \in [Fields -> Int] /\ -(edits + 1) \in Int
    BY <1>1
  <2>2. w \in [Fields -> Int] /\ item' = [item EXCEPT !.val = w]
    BY <1>3, <2>1
  <2> HIDE DEF w
  <2> QED
    BY <1>1, <1>3, <2>2
<1>5. upd' \in [Handlers -> E!Doing] /\ upd'[h] = x /\ \A g \in Handlers \ {h} : upd'[g] = upd[g]
  BY <1>1, <1>2, <1>3
<1>6. ASSUME NEW g \in Handlers PROVE E!Pc(g)' \notin {"saved", "recorded", "unlocked"}
  <2>1. E!Pc(g) \notin {"saved", "recorded", "unlocked"}
    BY <1>3, EditsFree DEF E!EditsInv, E!SaveInv
  <2> QED
    BY <1>2, <1>5, <2>1 DEF E!Pc
<1>7. E!Pc(h)' = "side"
  BY <1>2, <1>5 DEF E!Pc
<1>8. ASSUME NEW g \in Fields
      PROVE  \/ E!Tells(entries, Len(entries), g, item.val[g])' \/ E!EndsUnversioned(entries, g)'
             \/ item'.val[g] < 0 /\ \E k \in Handlers : E!Pc(k)' = "side"
  <2>1. CASE g = f
    <3>1. item'.val[g] = -(edits + 1)
      BY <1>1, <1>3, <2>1
    <3> QED
      BY <1>1, <1>7, <3>1
  <2>2. CASE g # f
    <3>1. item'.val[g] = item.val[g]
      BY <1>1, <1>3, <2>2
    <3>2. \/ E!Tells(entries, Len(entries), g, item.val[g]) \/ E!EndsUnversioned(entries, g)
          \/ item.val[g] < 0
      BY DEF E!EditsInv
    <3> QED
      BY <1>3, <1>7, <3>1, <3>2 DEF E!Tells, E!IsLast, E!EndsUnversioned
  <2> QED
    BY <2>1, <2>2
<1> QED
  BY <1>1, <1>3, <1>4, <1>5, <1>6, <1>7, <1>8 DEF E!EditsInv, E!SaveInv, Entry


(* An entry put behind the first p brings them to what it has, and the      *)
(* history ends so unless entries without version that come later have the  *)
(* field.                                                                   *)
LEMMA InsertedTells ==
    ASSUME NEW es \in Seq(Entry), NEW fs \in Seq(Entry), NEW p \in 0..Len(es), NEW e \in Entry,
           Len(fs) = Len(es) + 1, \A k \in 1..p : fs[k] = es[k], fs[p + 1] = e,
           NEW f, NEW v, IF f \in DOMAIN e.diff THEN e.diff[f] = v ELSE E!Tells(es, p, f, v)
    PROVE  E!Tells(fs, p + 1, f, v)
<1>1. p \in Nat
  OBVIOUS
<1>2. CASE f \in DOMAIN e.diff
  <2>1. E!IsLast(fs, p + 1, p + 1, f) /\ fs[p + 1].diff[f] = v
    BY <1>1, <1>2 DEF E!IsLast
  <2> QED
    BY <1>1, <2>1 DEF E!Tells
<1>3. CASE f \notin DOMAIN e.diff
  <2>1. E!Tells(es, p, f, v)
    BY <1>3
  <2>2. CASE v = 0 /\ \A k \in 1..p : f \notin DOMAIN es[k].diff
    BY <1>1, <1>3, <2>2 DEF E!Tells
  <2>3. CASE \E k \in 1..p : E!IsLast(es, k, p, f) /\ es[k].diff[f] = v
    <3>1. PICK k \in 1..p : E!IsLast(es, k, p, f) /\ es[k].diff[f] = v
      BY <2>3
    <3>2. E!IsLast(fs, k, p + 1, f) /\ fs[k].diff[f] = v /\ k \in 1..(p + 1)
      BY <1>1, <1>3, <3>1 DEF E!IsLast
    <3> QED
      BY <3>2 DEF E!Tells
  <2> QED
    BY <2>1, <2>2, <2>3 DEF E!Tells
<1> QED
  BY <1>2, <1>3

LEMMA LaterUnversioned ==
    ASSUME NEW es \in Seq(Entry), NEW p \in 0..Len(es), NEW f, NEW v, E!Tells(es, p, f, v),
           \A k \in (p + 1)..Len(es) : es[k].edit = 0
    PROVE  E!Tells(es, Len(es), f, v) \/ E!EndsUnversioned(es, f)
<1> DEFINE n == Len(es)
<1>1. n \in Nat /\ p \in 0..n
  OBVIOUS
<1>2. CASE \E k \in (p + 1)..n : f \in DOMAIN es[k].diff
  <2>1. PICK k \in (p + 1)..n : f \in DOMAIN es[k].diff
    BY <1>2
  <2>2. PICK m \in k..n : E!IsLast(es, m, n, f)
    <3>1. k \in 1..n /\ n \in 0..Len(es)
      BY <1>1, <2>1
    <3> HIDE DEF n
    <3> QED
      BY <2>1, <3>1, SomeEntryIsLast
  <2>3. m \in 1..n /\ es[m].edit = 0
    BY <1>1, <2>1, <2>2
  <2> QED
    BY <2>2, <2>3 DEF E!EndsUnversioned
<1>3. CASE \A k \in (p + 1)..n : f \notin DOMAIN es[k].diff
  <2>1. CASE v = 0 /\ \A k \in 1..p : f \notin DOMAIN es[k].diff
    BY <1>1, <1>3, <2>1 DEF E!Tells
  <2>2. CASE \E k \in 1..p : E!IsLast(es, k, p, f) /\ es[k].diff[f] = v
    <3>1. PICK k \in 1..p : E!IsLast(es, k, p, f) /\ es[k].diff[f] = v
      BY <2>2
    <3>2. E!IsLast(es, k, n, f) /\ k \in 1..n
      BY <1>1, <1>3, <3>1 DEF E!IsLast
    <3> QED
      BY <3>1, <3>2 DEF E!Tells
  <2> QED
    BY <2>1, <2>2 DEF E!Tells
<1> QED
  BY <1>2, <1>3

(* The first q entries of fs add d to the first p of es; those after them   *)
(* were in es.                                                              *)
Carries(es, p, d, fs) ==
    \E q \in p..Len(fs) :
       /\ \A k \in (q + 1)..Len(fs) : \E j \in (p + 1)..Len(es) : fs[k] = es[j]
       /\ \A f \in Fields, v \in Int :
             (IF f \in DOMAIN d THEN d[f] = v ELSE E!Tells(es, p, f, v)) => E!Tells(fs, q, f, v)

(* What an entry does to the history, if it is made.                        *)
LEMMA EnteredEffect ==
    ASSUME entries \in Seq(Entry), NEW p \in 0..Len(entries), NEW d \in E!Diffs,
           NEW kept, NEW edit \in Int,
           NEW fs, fs = E!Entered(entries, p, d, kept, edit)
    PROVE  /\ fs \in Seq(Entry) /\ Len(entries) <= Len(fs)
           /\ \A k \in 1..p : fs[k] = entries[k]
           /\ edit = 0 => \A k \in (p + 1)..Len(fs) :
                 fs[k].edit = 0 \/ \E j \in (p + 1)..Len(entries) : fs[k] = entries[j]
           /\ Carries(entries, p, d, fs)
<1> DEFINE n == Len(entries)
<1>1. n \in Nat /\ p \in Nat /\ p <= n
  OBVIOUS
<1>2. CASE fs = entries /\ d = <<>>
  <2>1. DOMAIN d = {}
    BY <1>2, NoDiff
  <2>2. /\ \A k \in (p + 1)..Len(fs) : \E j \in (p + 1)..n : fs[k] = entries[j]
        /\ \A f \in Fields, v \in Int :
              (IF f \in DOMAIN d THEN d[f] = v ELSE E!Tells(entries, p, f, v)) => E!Tells(fs, p, f, v)
    BY <1>1, <1>2, <2>1
  <2>3. p \in p..Len(fs) /\ fs \in Seq(Entry) /\ \A k \in 1..p : fs[k] = entries[k]
    BY <1>1, <1>2
  <2> QED
    <3>1. Carries(entries, p, d, fs)
      BY <2>2, <2>3 DEF Carries
    <3> QED
      BY <1>1, <1>2, <2>2, <2>3, <3>1
<1>3. CASE fs = E!InsertAt(entries, p + 1, [diff |-> d, edit |-> edit])
  <2> DEFINE e == [diff |-> d, edit |-> edit]
  <2>1. e \in Entry /\ e.diff = d /\ e.edit = edit
    BY DEF Entry
  <2>2. fs = E!InsertAt(entries, p + 1, e)
    BY <1>3
  <2> HIDE DEF e
  <2>3. /\ fs \in Seq(Entry) /\ Len(fs) = n + 1
        /\ \A k \in 1..p : fs[k] = entries[k]
        /\ fs[p + 1] = e
        /\ \A k \in (p + 2)..Len(fs) : fs[k] = entries[k - 1]
    BY <2>1, <2>2, InsertedEntries
  <2>4. \A k \in (p + 2)..Len(fs) : \E j \in (p + 1)..n : fs[k] = entries[j]
    <3> SUFFICES ASSUME NEW k \in (p + 2)..Len(fs) PROVE \E j \in (p + 1)..n : fs[k] = entries[j]
      OBVIOUS
    <3>1. k - 1 \in (p + 1)..n
      BY <1>1, <2>3
    <3> QED
      BY <2>3, <3>1
  <2>5. ASSUME NEW f \in Fields, NEW v \in Int,
               IF f \in DOMAIN d THEN d[f] = v ELSE E!Tells(entries, p, f, v)
        PROVE  E!Tells(fs, p + 1, f, v)
    BY <2>1, <2>3, <2>5, InsertedTells
  <2>6. \A k \in (p + 1)..Len(fs) : k = p + 1 \/ k \in (p + 2)..Len(fs)
    BY <1>1, <2>3
  <2>7. edit = 0 => \A k \in (p + 1)..Len(fs) :
           fs[k].edit = 0 \/ \E j \in (p + 1)..n : fs[k] = entries[j]
    BY <2>1, <2>3, <2>4, <2>6
  <2>8. /\ p + 1 \in p..Len(fs) /\ n <= Len(fs) /\ (p + 1) + 1 = p + 2
    BY <1>1, <2>3
  <2> QED
    <3>1. Carries(entries, p, d, fs)
      BY <2>4, <2>5, <2>8 DEF Carries
    <3> QED
      BY <2>3, <2>7, <2>8, <3>1
<1> QED
  BY <1>2, <1>3 DEF E!Entered


(* An entry without version ends the history in the values of the row.      *)
LEMMA SideRecordKeeps ==
    ASSUME E!EditsInv, NEW h \in Handlers, NEW other \in BOOLEAN, E!SideRecord(h, other)
    PROVE  E!EditsInv'
<1>1. /\ item \in [version : Int, val : [Fields -> Int]] /\ entries \in Seq(Entry)
      /\ Len(entries) \in Nat /\ item.val \in [Fields -> Int]
      /\ upd \in [Handlers -> E!Doing] /\ edits \in Nat
  BY EditsTyped
<1>2. PICK n \in Nat : n = Len(entries)
  BY <1>1
<1>3. PICK d \in E!Diffs :
         /\ d = E!Diff(item.val)
         /\ \A f \in Fields : IF f \in DOMAIN d THEN d[f] = item.val[f]
                              ELSE E!Tells(entries, n, f, item.val[f])
  BY <1>1, <1>2, EditsDiff
<1>4. edits' \in Nat
  BY <1>1 DEF E!SideRecord
<1>5. /\ item' = item /\ writer' = writer /\ upd' = [upd EXCEPT ![h] = E!Idle]
      /\ entries' = E!Entered(entries, n, d, other, 0)
  BY <1>2, <1>3 DEF E!SideRecord
<1>6. upd' \in [Handlers -> E!Doing] /\ upd'[h] = E!Idle /\ \A g \in Handlers \ {h} : upd'[g] = upd[g]
  BY <1>1, <1>5, EditsIdle
<1>7. PICK fs : fs = entries'
  OBVIOUS
<1>8. /\ fs \in Seq(Entry) /\ n <= Len(fs)
      /\ \A k \in 1..n : fs[k] = entries[k]
      /\ \A k \in (n + 1)..Len(fs) : fs[k].edit = 0
      /\ \A f \in Fields : E!Tells(fs, Len(fs), f, item.val[f])
  <2>0. PICK edit \in Int : edit = 0
    OBVIOUS
  <2>1. entries \in Seq(Entry) /\ n \in 0..Len(entries) /\ fs = E!Entered(entries, n, d, other, edit)
    BY <1>1, <1>2, <1>5, <1>7, <2>0
  <2>2. /\ fs \in Seq(Entry) /\ Len(entries) <= Len(fs)
        /\ \A k \in 1..n : fs[k] = entries[k]
        /\ edit = 0 => \A k \in (n + 1)..Len(fs) :
              fs[k].edit = 0 \/ \E j \in (n + 1)..Len(entries) : fs[k] = entries[j]
        /\ Carries(entries, n, d, fs)
    BY <2>1, EnteredEffect
  <2>3. (n + 1)..Len(entries) = {}
    BY <1>2
  <2>4. PICK q \in n..Len(fs) :
           /\ \A k \in (q + 1)..Len(fs) : \E j \in (n + 1)..Len(entries) : fs[k] = entries[j]
           /\ \A f \in Fields, v \in Int :
                 (IF f \in DOMAIN d THEN d[f] = v ELSE E!Tells(entries, n, f, v)) =>
                    E!Tells(fs, q, f, v)
    BY <2>2 DEF Carries
  <2>5. q = Len(fs)
    <3>1. Len(fs) \in Nat /\ q \in Nat /\ q <= Len(fs)
      BY <1>2, <2>2
    <3>2. ~(q < Len(fs))
      <4>1. SUFFICES ASSUME q < Len(fs) PROVE FALSE
        OBVIOUS
      <4>2. Len(fs) \in (q + 1)..Len(fs)
        BY <3>1, <4>1
      <4> QED
        BY <2>3, <2>4, <4>2
    <3> QED
      BY <3>1, <3>2
  <2>6. \A f \in Fields : item.val[f] \in Int
    BY <1>1
  <2>7. \A f \in Fields : E!Tells(fs, Len(fs), f, item.val[f])
    BY <1>3, <2>4, <2>5, <2>6
  <2> QED
    BY <1>2, <2>0, <2>2, <2>3, <2>7
<1>9. ASSUME NEW g \in Handlers PROVE E!SaveInv(g)'
  <2>1. CASE g = h
    BY <1>6, <2>1, EditsIdle DEF E!SaveInv, E!Pc
  <2>2. CASE g # h
    <3>1. E!SaveInv(g) /\ upd'[g] = upd[g] /\ upd[g].at \in Nat
      BY <1>1, <1>6, <2>2 DEF E!EditsInv, E!Doing
    <3>2. CASE E!Pc(g) \in {"recorded", "unlocked"}
      <4>1. upd[g].at <= n /\ \A k \in (upd[g].at + 1)..n : entries[k].edit = 0
        BY <1>2, <3>1, <3>2 DEF E!SaveInv
      <4>2. \A k \in (upd[g].at + 1)..Len(fs) : fs[k].edit = 0
        <5> SUFFICES ASSUME NEW k \in (upd[g].at + 1)..Len(fs) PROVE fs[k].edit = 0
          OBVIOUS
        <5>1. CASE k <= n
          <6>1. k \in (upd[g].at + 1)..n /\ k \in 1..n
            BY <1>2, <3>1, <5>1
          <6> QED
            BY <1>8, <4>1, <6>1
        <5>2. CASE k > n
          <6>1. k \in (n + 1)..Len(fs)
            BY <1>2, <3>1, <5>2
          <6> QED
            BY <1>8, <6>1
        <5> QED
          BY <1>2, <3>1, <5>1, <5>2
      <4>3. \A k \in 1..upd[g].at : fs[k] = entries[k]
        BY <1>2, <1>8, <3>1, <4>1
      <4>4. \A f \in Fields : E!Tells(entries, upd[g].at, f, upd[g].copy[f]) =>
                                 E!Tells(fs, upd[g].at, f, upd[g].copy[f])
        BY <3>1, <4>3, SamePrefixTells
      <4>5. upd[g].at <= Len(fs) /\ Len(fs) \in Nat
        BY <1>2, <1>8, <3>1, <4>1
      <4> QED
        BY <1>5, <1>7, <3>1, <3>2, <4>2, <4>4, <4>5 DEF E!SaveInv, E!Pc
    <3>3. CASE E!Pc(g) \notin {"recorded", "unlocked"}
      BY <1>5, <3>1, <3>3 DEF E!SaveInv, E!Pc
    <3> QED
      BY <3>2, <3>3
  <2> QED
    BY <2>1, <2>2
<1>10. item' \in [version : Int, val : [Fields -> Int]]
       /\ \A f \in Fields : E!Tells(entries', Len(entries'), f, item'.val[f])
  BY <1>1, <1>5, <1>7, <1>8
<1> QED
  BY <1>4, <1>6, <1>7, <1>8, <1>9, <1>10 DEF E!EditsInv, Entry


(* The entry of a save, at its place, brings the history to the row.        *)
LEMMA CommitSaveKeeps ==
    ASSUME E!EditsInv, NEW h \in Handlers, E!Commit(h)
    PROVE  E!EditsInv'
<1>1. /\ entries \in Seq(Entry) /\ upd \in [Handlers -> E!Doing] /\ edits \in Nat
      /\ Len(entries) \in Nat
  BY EditsTyped
<1>2. PICK u \in E!Doing : u = upd[h]
  BY <1>1
<1>3. /\ u.diff \in E!Diffs /\ u.comment \in BOOLEAN /\ u.id \in Int /\ u.version \in Int
      /\ u.copy \in [Fields -> Int] /\ u.at \in Nat
  BY DEF E!Doing
<1>4. /\ E!Pc(h) = "unlocked" /\ writer = h
      /\ u.at <= Len(entries)
      /\ \A k \in (u.at + 1)..Len(entries) : entries[k].edit = 0
      /\ \A f \in Fields : IF f \in DOMAIN u.diff THEN u.diff[f] = u.copy[f]
                           ELSE E!Tells(entries, u.at, f, u.copy[f])
  BY <1>2 DEF E!Commit, E!EditsInv, E!SaveInv
<1>5. /\ item' = [version |-> u.version, val |-> u.copy]
      /\ edits' = edits /\ upd' = [upd EXCEPT ![h] = E!Idle]
      /\ entries' = E!Entered(entries, u.at, u.diff, u.comment, u.id)
  BY <1>2 DEF E!Commit
<1>6. upd' \in [Handlers -> E!Doing] /\ upd'[h] = E!Idle /\ \A g \in Handlers \ {h} : upd'[g] = upd[g]
  BY <1>1, <1>5, EditsIdle
<1>7. item' \in [version : Int, val : [Fields -> Int]] /\ item'.val = u.copy
  BY <1>3, <1>5
<1>8. PICK p \in Nat, d \in E!Diffs, edit \in Int : p = u.at /\ d = u.diff /\ edit = u.id
  BY <1>3
<1>. PICK fs : fs = entries'
  OBVIOUS
<1>9. p \in 0..Len(entries) /\ fs = E!Entered(entries, p, d, u.comment, edit)
  BY <1>1, <1>4, <1>5, <1>8
<1>10. fs \in Seq(Entry) /\ Carries(entries, p, d, fs)
  BY <1>1, <1>9, EnteredEffect
<1>11. PICK q \in p..Len(fs) :
          /\ \A k \in (q + 1)..Len(fs) : \E j \in (p + 1)..Len(entries) : fs[k] = entries[j]
          /\ \A f \in Fields, v \in Int :
                (IF f \in DOMAIN d THEN d[f] = v ELSE E!Tells(entries, p, f, v)) =>
                   E!Tells(fs, q, f, v)
  BY <1>10 DEF Carries
<1>12. \A k \in (q + 1)..Len(fs) : fs[k].edit = 0
  BY <1>4, <1>8, <1>11
<1>13. ASSUME NEW f \in Fields
       PROVE  E!Tells(fs, Len(fs), f, u.copy[f]) \/ E!EndsUnversioned(fs, f)
  <2>1. u.copy[f] \in Int
    BY <1>3
  <2>2. E!Tells(fs, q, f, u.copy[f])
    BY <1>4, <1>8, <1>11, <2>1
  <2>3. q \in 0..Len(fs)
    BY <1>10, <1>11
  <2> QED
    BY <1>10, <1>12, <2>2, <2>3, LaterUnversioned
<1>14. ASSUME NEW g \in Handlers PROVE E!SaveInv(g)'
  <2>1. CASE g = h
    BY <1>6, <2>1, EditsIdle DEF E!SaveInv, E!Pc
  <2>2. CASE g # h
    <3>1. E!SaveInv(g) /\ upd'[g] = upd[g]
      BY <1>6, <2>2 DEF E!EditsInv
    <3>2. E!Pc(g) \notin {"saved", "recorded", "unlocked"}
      BY <1>4, <2>2, <3>1 DEF E!SaveInv
    <3> QED
      BY <3>1, <3>2 DEF E!SaveInv, E!Pc
  <2> QED
    BY <2>1, <2>2
<1>15. \A f \in Fields : \/ E!Tells(entries', Len(entries'), f, item'.val[f])
                         \/ E!EndsUnversioned(entries', f)
  BY <1>7, <1>8, <1>13
<1> QED
  BY <1>5, <1>1, <1>6, <1>7, <1>8, <1>10, <1>14, <1>15 DEF E!EditsInv, Entry

LEMMA EditsInitInv == E!EditsInit => E!EditsInv
<1> SUFFICES ASSUME E!EditsInit PROVE E!EditsInv
  OBVIOUS
<1>1. E!NoVal \in [Fields -> Int] /\ \A f \in Fields : E!NoVal[f] = 0
  BY DEF E!NoVal
<1>2. entries = <<>> /\ Len(entries) = 0 /\ entries \in Seq([diff : E!Diffs, edit : Int])
  BY DEF E!EditsInit
<1>3. item \in [version : Int, val : [Fields -> Int]] /\ item.val = E!NoVal
  BY <1>1 DEF E!EditsInit
<1>4. upd \in [Handlers -> E!Doing] /\ edits \in Nat /\ \A h \in Handlers : E!Pc(h) = "idle"
  BY EditsIdle DEF E!EditsInit, E!Pc
<1>5. \A f \in Fields : E!Tells(entries, Len(entries), f, item.val[f])
  BY <1>1, <1>2, <1>3 DEF E!Tells
<1>6. \A h \in Handlers : E!SaveInv(h)
  BY <1>4 DEF E!SaveInv
<1> QED
  BY <1>2, <1>3, <1>4, <1>5, <1>6 DEF E!EditsInv

(* EditsInv is an invariant of the updates.                                 *)
LEMMA EditsStepKeeps ==
    ASSUME E!EditsInv, E!EditsNext
    PROVE  E!EditsInv'
<1>1. PICK h \in Handlers :
          \/ E!Fetch(h)
          \/ \E chosen \in SUBSET Fields, comment \in BOOLEAN :
                 (comment => chosen = {}) /\ E!Read(h, chosen, comment)
          \/ E!Lock(h)
          \/ E!Check(h)
          \/ E!Save(h)
          \/ E!Record(h)
          \/ E!Unlock(h)
          \/ E!Commit(h)
          \/ \E f \in Fields : E!SideWrite(h, f)
          \/ \E other \in BOOLEAN : E!SideRecord(h, other)
  BY DEF E!EditsNext
<1>2. CASE \E chosen \in SUBSET Fields, comment \in BOOLEAN :
               (comment => chosen = {}) /\ E!Read(h, chosen, comment)
  BY <1>2, ReadKeeps
<1>3. CASE E!Fetch(h) \/ E!Lock(h) \/ E!Check(h)
  BY <1>3, FetchKeeps, LockKeeps, CheckKeeps
<1>4. CASE E!Save(h) \/ E!Record(h) \/ E!Unlock(h) \/ E!Commit(h)
  BY <1>4, SaveKeeps, RecordKeeps, UnlockKeeps, CommitSaveKeeps
<1>5. CASE \E f \in Fields : E!SideWrite(h, f)
  BY <1>5, SideWriteKeeps
<1>6. CASE \E other \in BOOLEAN : E!SideRecord(h, other)
  BY <1>6, SideRecordKeeps
<1> QED
  BY <1>1, <1>2, <1>3, <1>4, <1>5, <1>6


-----------------------------------------------------------------------------
(* What the clients saw and compared, invariant beside EditsInv.            *)

(* What a client sees now it has looked at.                                 *)
LEMMA LooksNow ==
    ASSUME NEW es \in Seq(Entry), NEW val, NEW late,
           \A f \in Fields : \/ E!Tells(es, Len(es), f, val[f]) \/ E!EndsUnversioned(es, f)
                             \/ val[f] < 0
    PROVE  E!Looked(es, Len(es), 0, val, {}, late)
<1>1. PICK n \in Nat : n = Len(es)
  OBVIOUS
<1>2. ASSUME NEW f \in Fields, E!EndsUnversioned(es, f)
      PROVE  \E k \in 1..n : /\ es[k].edit = 0 /\ f \in DOMAIN es[k].diff
                             /\ \A j \in (k + 1)..n : f \notin DOMAIN es[j].diff
  BY <1>1, <1>2 DEF E!EndsUnversioned, E!IsLast
<1>3. (n + 1)..n = {}
  BY <1>1
<1> QED
  BY <1>1, <1>2, <1>3 DEF E!Looked

LEMMA LooksStill ==
    ASSUME NEW es, NEW m, NEW n \in Int, NEW n2 \in Int, n <= n2, NEW val, NEW fs, NEW fs2, NEW late,
           NEW late2, Len(es) \in Nat, m \in Nat, fs2 = {} \/ (fs2 = fs /\ late2 = late),
           E!Looked(es, m, n, val, fs, late)
    PROVE  E!Looked(es, m, n2, val, fs2, late2)
<1>1. \A k \in (m + 1)..Len(es) : Len(es) - k + 1 <= n => Len(es) - k + 1 <= n2
  OBVIOUS
<1> QED
  BY <1>1 DEF E!Looked

(* The history with one more entry, after the first p of which only ones    *)
(* without version come.                                                    *)
Adds(es, p, e, fs) ==
    /\ Len(fs) = Len(es) + 1
    /\ \A k \in 1..p : fs[k] = es[k]
    /\ fs[p + 1] = e
    /\ \A k \in (p + 2)..Len(fs) : fs[k] = es[k - 1]
    /\ \A k \in (p + 1)..Len(es) : es[k].edit = 0

Permits(edit, n, n2, F, late) ==
    /\ n <= n2 /\ (edit # 0 => n + 1 <= n2)
    /\ edit \in late \/ F = {} \/ edit = 0

Looks(es, p, e, fs, m, n, n2, val, F, late) ==
    /\ es \in Seq(Entry) /\ fs \in Seq(Entry) /\ e \in Entry /\ p \in 0..Len(es)
    /\ m \in 0..Len(es) /\ n \in Nat /\ n2 \in Int
    /\ Adds(es, p, e, fs) /\ Permits(e.edit, n, n2, F, late) /\ E!Looked(es, m, n, val, F, late)

LEMMA LooksAcross ==
    ASSUME NEW es, NEW p, NEW e, NEW fs, NEW m, NEW n, NEW n2, NEW val, NEW F, NEW late,
           Looks(es, p, e, fs, m, n, n2, val, F, late)
    PROVE  \E m2 \in 0..Len(fs) : E!Looked(fs, m2, n2, val, F, late)
<1> USE DEF Adds, Permits, Looks
<1>1. PICK l \in Nat, q \in Nat : l = Len(es) /\ q = p /\ Len(fs) = l + 1
  OBVIOUS
<1> DEFINE m2 == IF m <= p THEN m ELSE p
<1>2. m \in Nat /\ m <= l /\ q <= l /\ m2 \in Nat /\ m2 <= m /\ m2 <= q /\ (m2 = m \/ m2 = q)
      /\ m2 \in 0..Len(fs)
  BY <1>1
<1> HIDE DEF m2
(* The unversioned entries that have a field stay so. *)
<1>3. ASSUME NEW f, NEW k \in 1..l, es[k].edit = 0, f \in DOMAIN es[k].diff,
             k <= q => \A j \in (k + 1)..m : f \notin DOMAIN es[j].diff
      PROVE  \E i \in 1..Len(fs) : /\ fs[i].edit = 0 /\ f \in DOMAIN fs[i].diff
                                   /\ \A j \in (i + 1)..m2 : f \notin DOMAIN fs[j].diff
  <2>1. CASE k <= q
    <3>1. fs[k] = es[k] /\ k \in 1..Len(fs)
      BY <1>1, <1>2, <2>1
    <3>2. \A j \in (k + 1)..m2 : j \in (k + 1)..m /\ fs[j] = es[j]
      BY <1>1, <1>2
    <3> QED
      BY <1>3, <2>1, <3>1, <3>2
  <2>2. CASE k > q
    <3>1. k + 1 \in (p + 2)..Len(fs) /\ (k + 1) - 1 = k /\ k + 1 \in 1..Len(fs)
      BY <1>1, <1>2, <2>2
    <3>2. fs[k + 1] = es[k]
      BY <3>1
    <3>3. ((k + 1) + 1)..m2 = {}
      BY <1>1, <1>2, <2>2
    <3> QED
      BY <1>3, <3>1, <3>2, <3>3
  <2> QED
    BY <1>1, <2>1, <2>2
<1>4. ASSUME NEW f \in Fields
      PROVE  \/ val[f] < 0 \/ E!Tells(fs, m2, f, val[f])
             \/ \E i \in 1..Len(fs) : /\ fs[i].edit = 0 /\ f \in DOMAIN fs[i].diff
                                      /\ \A j \in (i + 1)..m2 : f \notin DOMAIN fs[j].diff
  <2>1. CASE val[f] < 0
    BY <2>1
  <2>2. CASE \E k \in 1..Len(es) : /\ es[k].edit = 0 /\ f \in DOMAIN es[k].diff
                                   /\ \A j \in (k + 1)..m : f \notin DOMAIN es[j].diff
    BY <1>1, <1>3, <2>2
  <2>3. CASE E!Tells(es, m, f, val[f])
    <3>0. \A k \in 1..m2 : fs[k] = es[k] /\ k \in 1..m
      BY <1>1, <1>2
    <3>1. CASE val[f] = 0 /\ \A k \in 1..m : f \notin DOMAIN es[k].diff
      BY <3>0, <3>1 DEF E!Tells
    <3>2. ASSUME NEW k \in 1..m, E!IsLast(es, k, m, f), es[k].diff[f] = val[f], k <= m2
          PROVE  E!Tells(fs, m2, f, val[f])
      <4>1. k \in 1..m2 /\ fs[k] = es[k] /\ \A j \in (k + 1)..m2 : j \in (k + 1)..m /\ fs[j] = es[j]
        BY <1>1, <1>2, <3>2, <3>0
      <4>2. E!IsLast(fs, k, m2, f)
        BY <3>2, <4>1 DEF E!IsLast
      <4> QED
        BY <3>2, <4>1, <4>2 DEF E!Tells
    <3>3. ASSUME NEW k \in 1..m, E!IsLast(es, k, m, f), k > m2
          PROVE  \E i \in 1..Len(fs) : /\ fs[i].edit = 0 /\ f \in DOMAIN fs[i].diff
                                       /\ \A j \in (i + 1)..m2 : f \notin DOMAIN fs[j].diff
      <4>1. k > q /\ k \in 1..l /\ k \in (p + 1)..Len(es)
        BY <1>1, <1>2, <3>3
      <4>2. es[k].edit = 0 /\ f \in DOMAIN es[k].diff
        BY <3>3, <4>1 DEF E!IsLast
      <4> QED
        BY <1>1, <1>3, <4>1, <4>2
    <3> QED
      BY <1>2, <2>3, <3>1, <3>2, <3>3 DEF E!Tells
  <2> QED
    BY <2>1, <2>2, <2>3 DEF E!Looked
<1>5. ASSUME NEW k \in (m2 + 1)..Len(fs), \A j \in k..Len(fs) : fs[j].edit # 0
      PROVE  /\ Len(fs) - k + 1 <= n2
             /\ \A f \in F : E!IsLast(fs, k, Len(fs), f) => fs[k].edit \in late
  <2>1. q = l
    <3> SUFFICES ASSUME q < l PROVE FALSE
      BY <1>1, <1>2
    <3>1. Len(fs) \in k..Len(fs) /\ Len(fs) \in (p + 2)..Len(fs) /\ Len(fs) - 1 = l
          /\ l \in (p + 1)..Len(es)
      BY <1>1, <1>2
    <3>2. fs[Len(fs)] = es[l] /\ es[l].edit = 0
      BY <3>1
    <3> QED
      BY <1>5, <3>1, <3>2
  <2>2. m2 = m
    BY <1>1, <1>2, <2>1
  <2>3. e.edit # 0
    <3>1. Len(fs) \in k..Len(fs) /\ Len(fs) = p + 1
      BY <1>1, <1>2, <2>1
    <3> QED
      BY <1>5, <3>1
  <2>4. CASE k = l + 1
    <3>1. fs[k] = e /\ Len(fs) - k + 1 = 1 /\ 1 <= n2
      BY <1>1, <2>1, <2>3, <2>4
    <3> QED
      BY <2>3, <3>1
  <2>5. CASE k <= l
    <3>1. k \in (m + 1)..Len(es) /\ \A j \in k..Len(es) : j \in k..Len(fs) /\ fs[j] = es[j]
      BY <1>1, <1>2, <2>1, <2>2, <2>5
    <3>2. \A j \in k..Len(es) : es[j].edit # 0
      BY <1>5, <3>1
    <3>3. /\ Len(es) - k + 1 <= n
          /\ \A f \in F : E!IsLast(es, k, Len(es), f) => es[k].edit \in late
      BY <3>1, <3>2 DEF E!Looked
    <3>4. Len(fs) - k + 1 <= n2
      BY <1>1, <2>3, <3>3
    <3>5. ASSUME NEW f \in F, E!IsLast(fs, k, Len(fs), f) PROVE fs[k].edit \in late
      <4>1. fs[k] = es[k] /\ k \in 1..Len(es)
        BY <1>1, <1>2, <3>1
      <4>2. \A j \in (k + 1)..Len(es) : f \notin DOMAIN es[j].diff
        <5> SUFFICES ASSUME NEW j \in (k + 1)..Len(es) PROVE f \notin DOMAIN es[j].diff
          OBVIOUS
        <5>1. j \in k..Len(es) /\ j \in (k + 1)..Len(fs)
          BY <1>1, <1>2, <3>1
        <5> QED
          BY <3>1, <3>5, <5>1 DEF E!IsLast
      <4>3. E!IsLast(es, k, Len(es), f)
        BY <3>5, <4>1, <4>2 DEF E!IsLast
      <4> QED
        BY <3>3, <4>1, <4>3
    <3> QED
      BY <3>4, <3>5
  <2> QED
    BY <1>1, <1>2, <2>4, <2>5
<1>6. E!Looked(fs, m2, n2, val, F, late)
  BY <1>4, <1>5 DEF E!Looked
<1> QED
  BY <1>2, <1>6

(* The same of an entry that is made or not.                                *)
Enters(es, p, d, kept, edit, fs) ==
    /\ p \in 0..Len(es) /\ d \in E!Diffs /\ edit \in Int
    /\ fs = E!Entered(es, p, d, kept, edit)
    /\ \A k \in (p + 1)..Len(es) : es[k].edit = 0

LEMMA LooksAfterEntry ==
    ASSUME entries \in Seq(Entry), NEW p, NEW d, NEW kept, NEW edit, NEW fs,
           Enters(entries, p, d, kept, edit, fs),
           NEW m \in 0..Len(entries), NEW n \in Nat, NEW n2 \in Int, NEW val, NEW F, NEW late,
           Permits(edit, n, n2, F, late), E!Looked(entries, m, n, val, F, late)
    PROVE  \E m2 \in 0..Len(fs) : E!Looked(fs, m2, n2, val, F, late)
<1> USE DEF Enters
<1>1. CASE fs = entries
  <2>1. Len(entries) \in Nat /\ m \in Nat /\ n \in Int
    OBVIOUS
  <2>2. E!Looked(entries, m, n2, val, F, late)
    BY <2>1, LooksStill DEF Permits
  <2> QED
    BY <1>1, <2>2
<1>2. CASE fs = E!InsertAt(entries, p + 1, [diff |-> d, edit |-> edit])
  <2>0. PICK e : e = [diff |-> d, edit |-> edit]
    OBVIOUS
  <2>1. e \in Entry /\ e.edit = edit
    BY <2>0 DEF Entry
  <2>2. fs = E!InsertAt(entries, p + 1, e)
    BY <1>2, <2>0
  <2>3. /\ fs \in Seq(Entry) /\ Len(fs) = Len(entries) + 1
        /\ \A k \in 1..p : fs[k] = entries[k]
        /\ fs[p + 1] = e
        /\ \A k \in (p + 2)..Len(fs) : fs[k] = entries[k - 1]
    BY <2>1, <2>2, InsertedEntries
  <2>4. edit = e.edit
    BY <2>1
  <2>5. Adds(entries, p, e, fs)
    BY <2>3 DEF Adds
  <2>6. Looks(entries, p, e, fs, m, n, n2, val, F, late)
    BY <2>1, <2>3, <2>4, <2>5 DEF Looks
  <2> QED
    BY <2>6, LooksAcross
<1> QED
  BY <1>1, <1>2 DEF E!Entered

(* The fields of the last n entries are compared.                           *)
LEMMA ComparedFields ==
    ASSUME entries \in Seq(Entry), NEW n \in Int, NEW m \in Nat, NEW val, NEW F, NEW late, NEW late2,
           E!Looked(entries, m, n, val, {}, late), F \cap E!ModifiedFields(n) = {}
    PROVE  E!Looked(entries, m, n, val, F, late2)
<1>1. ASSUME NEW k \in (m + 1)..Len(entries), \A j \in k..Len(entries) : entries[j].edit # 0,
             NEW f \in F, E!IsLast(entries, k, Len(entries), f)
      PROVE  FALSE
  <2>1. Len(entries) - k + 1 <= n
    BY <1>1 DEF E!Looked
  <2>2. k \in 1..Len(entries) /\ k > Len(entries) - n /\ f \in DOMAIN entries[k].diff
    BY <1>1, <2>1 DEF E!IsLast
  <2>3. f \in E!ModifiedFields(n)
    BY <2>2 DEF E!ModifiedFields
  <2> QED
    BY <1>1, <2>3
<1> QED
  BY <1>1 DEF E!Looked

(* What the invariant says of a handler in short.                           *)
Behind(h) == item.version - seen[h].version

Compared(h) == IF E!Pc(h) = "checked" THEN upd[h].named ELSE {}

LEMMA ReadersTyped ==
    ASSUME E!EditsInv, E!ReadersInv, NEW h \in Handlers
    PROVE  /\ seen[h] \in [version : Int, val : [Fields -> Int]]
           /\ seen[h].version \in Int /\ item.version \in Int /\ Behind(h) \in Nat
           /\ seen[h].val \in [Fields -> Int]
           /\ E!CheckInv(h)
<1>1. seen[h] \in [version : Int, val : [Fields -> Int]] /\ E!CheckInv(h)
  BY DEF E!ReadersInv
<1>2. item.version \in Int /\ seen[h].version \in Int /\ seen[h].version <= item.version
  BY <1>1, EditsTyped DEF E!CheckInv
<1> QED
  BY <1>1, <1>2 DEF Behind

(* A step of h that leaves the history alone, seen by another handler.      *)
LEMMA OthersStillCheck ==
    ASSUME E!EditsInv, E!ReadersInv, NEW h \in Handlers, NEW x \in E!Doing,
           item'.version = item.version, entries' = entries, upd' = [upd EXCEPT ![h] = x],
           \A g \in Handlers \ {h} : seen'[g] = seen[g] /\ (pkLock = g => pkLock' = g),
           x.pc = "unlocked" => pkLock = h,
           NEW g \in Handlers \ {h}
    PROVE  E!CheckInv(g)'
<1>1. upd \in [Handlers -> E!Doing] /\ entries \in Seq(Entry)
  BY EditsTyped
<1>2. upd'[h] = x /\ \A k \in Handlers \ {h} : upd'[k] = upd[k]
  BY <1>1
<1>3. E!CheckInv(g) /\ seen'[g] = seen[g] /\ upd'[g] = upd[g] /\ E!Pc(g)' = E!Pc(g)
  BY <1>2 DEF E!ReadersInv, E!Pc
<1>4. E!Pc(g) \in {"locked", "checked"} =>
          \A k \in Handlers : E!Pc(k)' = "unlocked" => upd'[k].id \in upd'[g].late
  <2> SUFFICES ASSUME E!Pc(g) \in {"locked", "checked"}, NEW k \in Handlers, E!Pc(k)' = "unlocked"
               PROVE  upd'[k].id \in upd[g].late
    BY <1>3
  <2>1. pkLock = g
    BY <1>3 DEF E!CheckInv
  <2>2. k # h
    BY <1>2, <2>1 DEF E!Pc
  <2> QED
    BY <1>2, <1>3, <2>2 DEF E!CheckInv, E!Pc
<1>5. /\ E!Pc(g)' \in {"locked", "checked", "saved", "recorded"} => pkLock' = g
      /\ seen'[g].version <= item'.version
  BY <1>3 DEF E!CheckInv
<1>6. PICK m \in 0..Len(entries) :
          E!Looked(entries, m, Behind(g), seen[g].val, Compared(g), upd[g].late)
  BY <1>3 DEF E!CheckInv, Behind, Compared
<1>7. Behind(g)' = Behind(g) /\ Compared(g)' = Compared(g) /\ seen'[g].val = seen[g].val
      /\ upd'[g].late = upd[g].late
  BY <1>3 DEF Behind, Compared
<1>8. E!Looked(entries', m, Behind(g)', seen'[g].val, Compared(g)', upd'[g].late)
  <2>1. E!Looked(entries', m, Behind(g), seen[g].val, Compared(g), upd[g].late)
    BY <1>6 DEF E!Looked
  <2> QED
    BY <1>7, <2>1
<1>9. m \in 0..Len(entries')
  OBVIOUS
<1> QED
  BY <1>3, <1>4, <1>5, <1>8, <1>9 DEF E!CheckInv, Behind, Compared

(* The same step seen by h, unless it looks at the item or compares it.     *)
LEMMA StillChecks ==
    ASSUME E!EditsInv, E!ReadersInv, NEW h \in Handlers, NEW x \in E!Doing,
           item'.version = item.version, entries' = entries, upd' = [upd EXCEPT ![h] = x],
           seen'[h] = seen[h],
           x.pc \in {"locked", "checked", "saved", "recorded"} => pkLock' = h,
           x.pc # "checked",
           x.pc = "locked" => \A k \in Handlers \ {h} : E!Pc(k) = "unlocked" => upd[k].id \in x.late
    PROVE  E!CheckInv(h)'
<1>1. upd \in [Handlers -> E!Doing] /\ entries \in Seq(Entry) /\ Len(entries) \in Nat
  BY EditsTyped
<1>2. upd'[h] = x /\ \A k \in Handlers \ {h} : upd'[k] = upd[k]
  BY <1>1
<1>3. E!CheckInv(h) /\ seen[h].version <= item.version /\ Behind(h) \in Int
  BY ReadersTyped DEF E!CheckInv
<1>4. PICK m \in 0..Len(entries) :
          E!Looked(entries, m, Behind(h), seen[h].val, Compared(h), upd[h].late)
  BY <1>3 DEF E!CheckInv, Behind, Compared
<1>5. E!Looked(entries, m, Behind(h), seen[h].val, {}, x.late)
  BY <1>4 DEF E!Looked
<1>6. E!Looked(entries', m, Behind(h)', seen'[h].val, Compared(h)', upd'[h].late)
  <2>1. Compared(h)' = {} /\ Behind(h)' = Behind(h) /\ seen'[h].val = seen[h].val
        /\ upd'[h].late = x.late
    BY <1>2 DEF Compared, Behind, E!Pc
  <2>2. E!Looked(entries', m, Behind(h), seen[h].val, {}, x.late)
    BY <1>5 DEF E!Looked
  <2> QED
    BY <2>1, <2>2
<1>7. E!Pc(h)' = x.pc
  BY <1>2 DEF E!Pc
<1>8. x.pc = "locked" => \A k \in Handlers : E!Pc(k)' = "unlocked" => upd'[k].id \in upd'[h].late
  BY <1>2 DEF E!Pc
<1>9. seen'[h].version <= item'.version /\ m \in 0..Len(entries')
  BY <1>3
<1> QED
  BY <1>6, <1>7, <1>8, <1>9 DEF E!CheckInv, Behind, Compared

LEMMA FetchChecks ==
    ASSUME E!EditsInv, E!ReadersInv, NEW h \in Handlers, E!Fetch(h)
    PROVE  E!ReadersInv'
<1>1. /\ upd \in [Handlers -> E!Doing] /\ entries \in Seq(Entry) /\ Len(entries) \in Nat
      /\ item \in [version : Int, val : [Fields -> Int]] /\ item.version \in Int
      /\ seen \in [Handlers -> [version : Int, val : [Fields -> Int]]]
  BY EditsTyped DEF E!ReadersInv
<1>2. /\ item' = item /\ entries' = entries /\ upd' = upd /\ pkLock' = pkLock
      /\ seen' = [seen EXCEPT ![h] = item] /\ E!Pc(h) = "idle"
  BY DEF E!Fetch
<1>3. /\ seen' \in [Handlers -> [version : Int, val : [Fields -> Int]]]
      /\ seen'[h] = item /\ \A g \in Handlers \ {h} : seen'[g] = seen[g]
  BY <1>1, <1>2
<1>4. PICK x \in E!Doing : x = upd[h]
  BY <1>1
<1>5. upd' = [upd EXCEPT ![h] = x] /\ x.pc = "idle"
  BY <1>1, <1>2, <1>4 DEF E!Pc
<1>6. ASSUME NEW g \in Handlers \ {h} PROVE E!CheckInv(g)'
  BY <1>2, <1>3, <1>5, OthersStillCheck
<1>7. E!CheckInv(h)'
  <2>1. \A f \in Fields : \/ E!Tells(entries, Len(entries), f, item.val[f])
                          \/ E!EndsUnversioned(entries, f) \/ item.val[f] < 0
    BY DEF E!EditsInv
  <2>2. E!Looked(entries, Len(entries), 0, item.val, {}, x.late)
    BY <1>1, <2>1, LooksNow
  <2>3. E!Looked(entries', Len(entries), 0, item.val, {}, x.late)
    BY <1>2, <2>2 DEF E!Looked
  <2>4. Behind(h)' = 0 /\ Compared(h)' = {} /\ seen'[h].val = item.val /\ upd'[h].late = x.late
        /\ E!Pc(h)' = "idle"
    BY <1>1, <1>2, <1>3, <1>4 DEF Behind, Compared, E!Pc
  <2>5. E!Looked(entries', Len(entries), Behind(h)', seen'[h].val, Compared(h)', upd'[h].late)
    BY <2>3, <2>4
  <2>6. Len(entries) \in 0..Len(entries') /\ seen'[h].version <= item'.version
    BY <1>1, <1>2, <1>3
  <2> QED
    BY <2>4, <2>5, <2>6 DEF E!CheckInv, Behind, Compared
<1> QED
  BY <1>3, <1>6, <1>7 DEF E!ReadersInv

(* A step of h that looks at nothing.                                       *)
LEMMA QuietChecks ==
    ASSUME E!EditsInv, E!ReadersInv, NEW h \in Handlers, NEW x \in E!Doing,
           item'.version = item.version, entries' = entries, upd' = [upd EXCEPT ![h] = x],
           seen' = seen, pkLock' \in {pkLock, h} \/ (pkLock = h /\ pkLock' = Free),
           pkLock' = h => pkLock \in {Free, h},
           x.pc = "unlocked" => pkLock = h, E!CheckInv(h)'
    PROVE  E!ReadersInv'
<1>1. \A g \in Handlers \ {h} : seen'[g] = seen[g] /\ (pkLock = g => pkLock' = g)
  BY EditsFree
<1>2. ASSUME NEW g \in Handlers \ {h} PROVE E!CheckInv(g)'
  BY <1>1, OthersStillCheck
<1> QED
  BY <1>2 DEF E!ReadersInv

LEMMA ReadChecks ==
    ASSUME E!EditsInv, E!ReadersInv, NEW h \in Handlers,
           NEW chosen \in SUBSET Fields, NEW comment \in BOOLEAN, E!Read(h, chosen, comment)
    PROVE  E!ReadersInv'
<1> DEFINE x == [E!Idle EXCEPT !.pc = "read", !.id = edits + 1, !.named = chosen,
                               !.comment = comment, !.copy = item.val]
<1>1. edits + 1 \in Nat /\ item.val \in [Fields -> Int]
  BY EditsTyped
<1>2. x \in E!Doing /\ x.pc = "read"
  BY <1>1, EditsIdle DEF E!Doing
<1>3. /\ item'.version = item.version /\ entries' = entries /\ seen' = seen /\ seen'[h] = seen[h]
      /\ pkLock' = pkLock /\ upd' = [upd EXCEPT ![h] = x]
  BY DEF E!Read
<1> HIDE DEF x
<1>4. E!CheckInv(h)'
  BY <1>2, <1>3, StillChecks
<1>5. pkLock' = h => pkLock \in {Free, h}
  BY <1>3
<1> QED
  BY <1>2, <1>3, <1>4, <1>5, QuietChecks

LEMMA LockChecks ==
    ASSUME E!EditsInv, E!ReadersInv, NEW h \in Handlers, E!Lock(h)
    PROVE  E!ReadersInv'
<1> DEFINE late == {upd[g].id : g \in {k \in Handlers : E!Pc(k) = "unlocked"}}
           x == [upd[h] EXCEPT !.pc = "locked", !.late = late]
<1>1. upd[h] \in E!Doing /\ \A g \in Handlers : upd[g].id \in Nat
  BY EditsTyped DEF E!Doing
<1>2. late \in SUBSET Nat
  BY <1>1
<1>3. /\ item'.version = item.version /\ entries' = entries /\ seen' = seen /\ seen'[h] = seen[h]
      /\ pkLock = Free /\ pkLock' = h /\ upd' = [upd EXCEPT ![h] = x]
  BY DEF E!Lock
<1>4. \A k \in Handlers \ {h} : E!Pc(k) = "unlocked" => upd[k].id \in late
  OBVIOUS
<1> HIDE DEF late
<1>5. x \in E!Doing /\ x.pc = "locked" /\ x.late = late
  BY <1>1, <1>2 DEF E!Doing
<1> HIDE DEF x
<1>6. E!CheckInv(h)'
  BY <1>3, <1>4, <1>5, StillChecks
<1> QED
  BY <1>3, <1>5, <1>6, QuietChecks

LEMMA CheckChecks ==
    ASSUME E!EditsInv, E!ReadersInv, NEW h \in Handlers, E!Check(h)
    PROVE  E!ReadersInv'
<1> DEFINE x == IF E!Conflict(h) THEN E!Idle ELSE [upd[h] EXCEPT !.pc = "checked"]
<1>1. /\ upd \in [Handlers -> E!Doing] /\ upd[h] \in E!Doing /\ entries \in Seq(Entry)
      /\ Len(entries) \in Nat
  BY EditsTyped
<1>2. x \in E!Doing /\ x.pc \in {"idle", "checked"}
  BY <1>1, EditsIdle DEF E!Doing
<1>3. /\ item' = item /\ entries' = entries /\ seen' = seen /\ E!Pc(h) = "locked"
      /\ upd' = [upd EXCEPT ![h] = x]
      /\ pkLock' = (IF E!Conflict(h) THEN Free ELSE pkLock)
  BY DEF E!Check
<1>4. E!CheckInv(h) /\ pkLock = h
  BY <1>3 DEF E!ReadersInv, E!CheckInv
<1>5. CASE E!Conflict(h)
  <2>1. x.pc = "idle"
    BY <1>5, EditsIdle
  <2> HIDE DEF x
  <2>2. E!CheckInv(h)'
    BY <1>2, <1>3, <2>1, StillChecks
  <2> QED
    BY <1>2, <1>3, <1>4, <1>5, <2>1, <2>2, EditsFree, QuietChecks
<1>6. CASE ~E!Conflict(h)
  <2>1. x.pc = "checked" /\ x.named = upd[h].named /\ x.late = upd[h].late /\ x.id = upd[h].id
    BY <1>1, <1>6 DEF E!Doing
  <2> HIDE DEF x
  <2>2. PICK m \in 0..Len(entries) :
            E!Looked(entries, m, Behind(h), seen[h].val, {}, upd[h].late)
    <3>1. Compared(h) = {}
      BY <1>3 DEF Compared
    <3> QED
      BY <1>4, <3>1 DEF E!CheckInv, Behind, Compared
  <2>3. upd[h].named \cap E!ModifiedFields(Behind(h)) = {} /\ Behind(h) \in Int /\ m \in Nat
    BY <1>6, ReadersTyped DEF E!Conflict, Behind
  <2>4. E!Looked(entries, m, Behind(h), seen[h].val, upd[h].named, upd[h].late)
    BY <1>1, <2>2, <2>3, ComparedFields
  <2>5. E!Looked(entries', m, Behind(h), seen[h].val, upd[h].named, upd[h].late)
    BY <1>3, <2>4 DEF E!Looked
  <2>6. upd'[h] = x /\ (\A k \in Handlers \ {h} : upd'[k] = upd[k]) /\ E!Pc(h)' = "checked"
    BY <1>1, <1>3, <2>1 DEF E!Pc
  <2>7. Behind(h)' = Behind(h) /\ Compared(h)' = upd[h].named /\ seen'[h].val = seen[h].val
        /\ upd'[h].late = upd[h].late
    BY <1>3, <2>1, <2>6 DEF Behind, Compared
  <2>8. E!Looked(entries', m, Behind(h)', seen'[h].val, Compared(h)', upd'[h].late)
    BY <2>5, <2>7
  <2>9. \A k \in Handlers : E!Pc(k)' = "unlocked" => upd'[k].id \in upd'[h].late
    BY <1>3, <1>4, <2>1, <2>6 DEF E!CheckInv, E!Pc
  <2>10. E!CheckInv(h)'
    BY <1>3, <1>4, <1>6, <2>6, <2>8, <2>9 DEF E!CheckInv, Behind, Compared
  <2> QED
    BY <1>2, <1>3, <1>4, <1>6, <2>1, <2>10, QuietChecks
<1> QED
  BY <1>5, <1>6

LEMMA SaveChecks ==
    ASSUME E!EditsInv, E!ReadersInv, NEW h \in Handlers,
           E!Save(h) \/ E!Record(h) \/ E!Unlock(h)
    PROVE  E!ReadersInv'
<1>1. E!EditsInv'
  BY SaveKeeps, RecordKeeps, UnlockKeeps
<1>2. upd' \in [Handlers -> E!Doing] /\ upd \in [Handlers -> E!Doing]
  BY <1>1, EditsTyped DEF E!EditsInv
<1>3. PICK x \in E!Doing : x = upd'[h]
  BY <1>2
<1>4. /\ item'.version = item.version /\ entries' = entries /\ seen' = seen /\ seen'[h] = seen[h]
      /\ \E y : upd' = [upd EXCEPT ![h] = y]
      /\ pkLock' = (IF E!Unlock(h) THEN Free ELSE pkLock)
      /\ E!Pc(h) \in {"checked", "saved", "recorded"}
      /\ E!Pc(h) = "recorded" <=> E!Unlock(h)
  BY DEF E!Save, E!Record, E!Unlock
<1>5. upd' = [upd EXCEPT ![h] = x]
  BY <1>2, <1>3, <1>4
<1>6. x.pc \in {"saved", "recorded", "unlocked"} /\ (x.pc = "unlocked" <=> E!Unlock(h))
  <2>1. CASE E!Save(h)
    <3>1. x.pc = "saved" /\ E!Pc(h) = "checked"
      BY <1>2, <1>3, <2>1 DEF E!Save, E!Doing
    <3> QED
      BY <1>4, <3>1
  <2>2. CASE E!Record(h)
    <3>1. x.pc = "recorded" /\ E!Pc(h) = "saved"
      BY <1>2, <1>3, <2>2 DEF E!Record, E!Doing
    <3> QED
      BY <1>4, <3>1
  <2>3. CASE E!Unlock(h)
    <3>1. x.pc = "unlocked"
      BY <1>2, <1>3, <2>3 DEF E!Unlock, E!Doing
    <3> QED
      BY <2>3, <3>1
  <2> QED
    BY <2>1, <2>2, <2>3
<1>7. pkLock = h
  BY <1>4 DEF E!ReadersInv, E!CheckInv
<1>8. E!CheckInv(h)'
  BY <1>4, <1>5, <1>6, <1>7, StillChecks
<1> QED
  BY <1>4, <1>5, <1>6, <1>7, <1>8, EditsFree, QuietChecks

LEMMA SideWriteChecks ==
    ASSUME E!EditsInv, E!ReadersInv, NEW h \in Handlers, NEW f \in Fields, E!SideWrite(h, f)
    PROVE  E!ReadersInv'
<1> DEFINE x == [E!Idle EXCEPT !.pc = "side"]
<1>1. x \in E!Doing /\ x.pc = "side"
  BY EditsIdle DEF E!Doing
<1>2. /\ entries' = entries /\ seen' = seen /\ seen'[h] = seen[h] /\ pkLock' = pkLock
      /\ upd' = [upd EXCEPT ![h] = x] /\ item' = [item EXCEPT !.val[f] = -(edits + 1)]
  BY DEF E!SideWrite
<1>3. item'.version = item.version
  BY <1>2, EditsTyped
<1> HIDE DEF x
<1>4. E!CheckInv(h)'
  BY <1>1, <1>2, <1>3, StillChecks
<1> QED
  BY <1>1, <1>2, <1>3, <1>4, QuietChecks

(* A step that puts an entry into the history: one without version, or that *)
(* of a save, whose lock others may hold by now.                            *)
LEMMA EntryChecks ==
    ASSUME E!EditsInv, E!ReadersInv, NEW h \in Handlers,
           NEW p, NEW d, NEW kept, NEW edit, Enters(entries, p, d, kept, edit, entries'),
           upd' = [upd EXCEPT ![h] = E!Idle], pkLock' = pkLock,
           item'.version \in Int, item.version <= item'.version,
           edit # 0 => item'.version = item.version + 1 /\ E!Pc(h) = "unlocked" /\ edit = upd[h].id,
           NEW g \in Handlers, seen'[g] = seen[g], edit # 0 => g # h
    PROVE  E!CheckInv(g)'
<1>1. upd \in [Handlers -> E!Doing] /\ entries \in Seq(Entry) /\ Len(entries) \in Nat
  BY EditsTyped
<1>2. /\ upd'[h] = E!Idle /\ \A k \in Handlers \ {h} : upd'[k] = upd[k]
      /\ E!Pc(h)' = "idle" /\ \A k \in Handlers \ {h} : E!Pc(k)' = E!Pc(k)
  BY <1>1, EditsIdle DEF E!Pc
<1>3. E!CheckInv(g) /\ Behind(g) \in Nat /\ item.version \in Int /\ seen[g].version \in Int
  BY ReadersTyped
<1>4. PICK m \in 0..Len(entries) :
          E!Looked(entries, m, Behind(g), seen[g].val, Compared(g), upd[g].late)
  BY <1>3 DEF E!CheckInv, Behind, Compared
<1>5. E!Looked(entries, m, Behind(g), seen[g].val, Compared(g)', upd'[g].late)
  <2>1. CASE g = h
    <3>1. Compared(g)' = {}
      BY <1>2, <2>1 DEF Compared
    <3> QED
      BY <1>4, <3>1 DEF E!Looked
  <2>2. CASE g # h
    <3>1. Compared(g)' = Compared(g) /\ upd'[g] = upd[g]
      BY <1>2, <2>2 DEF Compared
    <3> QED
      BY <1>4, <3>1
  <2> QED
    BY <2>1, <2>2
<1>6. Behind(g)' \in Int /\ Behind(g)' = item'.version - seen[g].version
  BY <1>3 DEF Behind
<1>7. Permits(edit, Behind(g), Behind(g)', Compared(g)', upd'[g].late)
  <2>1. Behind(g) <= Behind(g)' /\ (edit # 0 => Behind(g) + 1 <= Behind(g)')
    BY <1>3, <1>6 DEF Behind
  <2>2. CASE edit = 0
    BY <2>1, <2>2 DEF Permits
  <2>3. CASE edit # 0 /\ E!Pc(g) = "checked"
    <3>1. edit \in upd[g].late
      BY <1>3, <2>3 DEF E!CheckInv
    <3>2. upd'[g] = upd[g]
      BY <1>2, <2>3
    <3> QED
      BY <2>1, <3>1, <3>2 DEF Permits
  <2>4. CASE edit # 0 /\ E!Pc(g) # "checked"
    <3>1. Compared(g)' = {}
      BY <1>2, <2>4 DEF Compared
    <3> QED
      BY <2>1, <3>1 DEF Permits
  <2> QED
    BY <2>2, <2>3, <2>4
<1>8. PICK m2 \in 0..Len(entries') :
          E!Looked(entries', m2, Behind(g)', seen[g].val, Compared(g)', upd'[g].late)
  <2>0. PICK fs : fs = entries'
    OBVIOUS
  <2>1. Enters(entries, p, d, kept, edit, fs)
    BY <2>0
  <2>2. PICK n \in Nat, n2 \in Int : n = Behind(g) /\ n2 = Behind(g)'
    BY <1>3, <1>6
  <2>3. PICK F, late : F = Compared(g)' /\ late = upd'[g].late
    OBVIOUS
  <2>4. Permits(edit, n, n2, F, late) /\ E!Looked(entries, m, n, seen[g].val, F, late)
    BY <1>5, <1>7, <2>2, <2>3
  <2>5. \E m2 \in 0..Len(fs) : E!Looked(fs, m2, n2, seen[g].val, F, late)
    BY <1>1, <2>1, <2>4, LooksAfterEntry
  <2> QED
    BY <2>0, <2>2, <2>3, <2>5
<1>9. /\ E!Pc(g)' \in {"locked", "checked", "saved", "recorded"} => pkLock' = g
      /\ E!Pc(g)' \in {"locked", "checked"} =>
            \A k \in Handlers : E!Pc(k)' = "unlocked" => upd'[k].id \in upd'[g].late
  <2>1. CASE g = h
    BY <1>2, <2>1
  <2>2. CASE g # h
    <3>1. upd'[g] = upd[g] /\ E!Pc(g)' = E!Pc(g)
      BY <1>2, <2>2
    <3>2. \A k \in Handlers : E!Pc(k)' = "unlocked" => upd'[k] = upd[k] /\ E!Pc(k) = "unlocked"
      BY <1>2
    <3> QED
      BY <1>3, <3>1, <3>2 DEF E!CheckInv
  <2> QED
    BY <2>1, <2>2
<1>10. seen'[g].version <= item'.version
  BY <1>3 DEF E!CheckInv
<1> QED
  BY <1>8, <1>9, <1>10 DEF E!CheckInv, Behind, Compared

LEMMA SideRecordChecks ==
    ASSUME E!EditsInv, E!ReadersInv, NEW h \in Handlers, NEW other \in BOOLEAN, E!SideRecord(h, other)
    PROVE  E!ReadersInv'
<1>1. /\ entries \in Seq(Entry) /\ Len(entries) \in Nat /\ item.val \in [Fields -> Int]
      /\ item.version \in Int
  BY EditsTyped
<1>2. /\ item' = item /\ seen' = seen /\ pkLock' = pkLock /\ upd' = [upd EXCEPT ![h] = E!Idle]
      /\ entries' = E!Entered(entries, Len(entries), E!Diff(item.val), other, 0)
  BY DEF E!SideRecord
<1>3. PICK p, d, edit : p = Len(entries) /\ d = E!Diff(item.val) /\ edit = 0
  OBVIOUS
<1>4. Enters(entries, p, d, other, edit, entries')
  <2>1. d \in E!Diffs
    BY <1>1, <1>3, EditsDiff
  <2>2. p \in 0..Len(entries) /\ (p + 1)..Len(entries) = {} /\ edit \in Int
    BY <1>1, <1>3
  <2> QED
    BY <1>2, <1>3, <2>1, <2>2 DEF Enters
<1>5. item'.version \in Int /\ item.version <= item'.version
  BY <1>1, <1>2
<1>6. ASSUME NEW g \in Handlers PROVE E!CheckInv(g)'
  BY <1>2, <1>3, <1>4, <1>5, EntryChecks
<1> QED
  BY <1>2, <1>6 DEF E!ReadersInv

LEMMA CommitChecks ==
    ASSUME E!EditsInv, E!ReadersInv, NEW h \in Handlers, E!Commit(h)
    PROVE  E!ReadersInv'
<1>1. /\ entries \in Seq(Entry) /\ Len(entries) \in Nat /\ item.version \in Int
      /\ upd \in [Handlers -> E!Doing]
      /\ seen \in [Handlers -> [version : Int, val : [Fields -> Int]]]
  BY EditsTyped DEF E!ReadersInv
<1>2. PICK u \in E!Doing : u = upd[h]
  BY <1>1
<1>3. /\ u.diff \in E!Diffs /\ u.id \in Int /\ u.at \in Nat
  BY DEF E!Doing
<1>4. /\ E!Pc(h) = "unlocked" /\ u.at <= Len(entries) /\ u.version = item.version + 1
      /\ \A k \in (u.at + 1)..Len(entries) : entries[k].edit = 0
  BY <1>2 DEF E!Commit, E!EditsInv, E!SaveInv
<1>5. /\ item' = [version |-> u.version, val |-> u.copy] /\ pkLock' = pkLock
      /\ upd' = [upd EXCEPT ![h] = E!Idle] /\ seen' = [seen EXCEPT ![h] = item']
      /\ entries' = E!Entered(entries, u.at, u.diff, u.comment, u.id)
  BY <1>2 DEF E!Commit
<1>6. item'.version = item.version + 1 /\ item'.version \in Int
  BY <1>1, <1>4, <1>5
<1>7. E!EditsInv'
  BY CommitSaveKeeps
<1>8. /\ item' \in [version : Int, val : [Fields -> Int]] /\ entries' \in Seq(Entry)
      /\ \A f \in Fields : \/ E!Tells(entries', Len(entries'), f, item'.val[f])
                           \/ E!EndsUnversioned(entries', f) \/ item'.val[f] < 0
  BY <1>7 DEF E!EditsInv, Entry, E!Tells, E!IsLast, E!EndsUnversioned
<1>9. /\ seen' \in [Handlers -> [version : Int, val : [Fields -> Int]]]
      /\ seen'[h] = item' /\ \A g \in Handlers \ {h} : seen'[g] = seen[g]
  BY <1>1, <1>5, <1>8
<1>10. ASSUME NEW g \in Handlers \ {h} PROVE E!CheckInv(g)'
  <2>1. PICK p, d, kept, edit : p = u.at /\ d = u.diff /\ kept = u.comment /\ edit = u.id
    OBVIOUS
  <2>2. Enters(entries, p, d, kept, edit, entries')
    BY <1>1, <1>3, <1>4, <1>5, <2>1 DEF Enters
  <2>3. /\ item.version <= item'.version
        /\ edit # 0 => item'.version = item.version + 1 /\ E!Pc(h) = "unlocked" /\ edit = upd[h].id
    BY <1>1, <1>2, <1>4, <1>6, <2>1
  <2>4. seen'[g] = seen[g] /\ g # h
    BY <1>9
  <2> QED
    BY <1>5, <1>6, <2>2, <2>3, <2>4, EntryChecks
<1>11. E!CheckInv(h)'
  <2>0. PICK es, val : es = entries' /\ val = item'.val
    OBVIOUS
  <2>1. PICK late : late = upd'[h].late
    OBVIOUS
  <2>2. E!Looked(es, Len(es), 0, val, {}, late)
    BY <1>8, <2>0, LooksNow
  <2>3. E!Pc(h)' = "idle"
    BY <1>1, <1>5, EditsIdle DEF E!Pc
  <2>4. Behind(h)' = 0 /\ Compared(h)' = {} /\ seen'[h].val = val
    BY <1>6, <1>9, <2>0, <2>3 DEF Behind, Compared
  <2>5. E!Looked(entries', Len(entries'), Behind(h)', seen'[h].val, Compared(h)', upd'[h].late)
    BY <2>0, <2>1, <2>2, <2>4
  <2>6. Len(entries') \in 0..Len(entries') /\ seen'[h].version <= item'.version
    BY <1>6, <1>8, <1>9
  <2> QED
    BY <2>3, <2>5, <2>6 DEF E!CheckInv, Behind, Compared
<1> QED
  BY <1>9, <1>10, <1>11 DEF E!ReadersInv

LEMMA ReadersInitInv == E!EditsInit => E!ReadersInv
<1> SUFFICES ASSUME E!EditsInit PROVE E!ReadersInv
  OBVIOUS
<1>1. E!NoVal \in [Fields -> Int]
  BY DEF E!NoVal
<1>2. /\ entries = <<>> /\ Len(entries) = 0 /\ entries \in Seq(Entry)
      /\ item = [version |-> 1, val |-> E!NoVal]
      /\ seen = [h \in Handlers |-> [version |-> 1, val |-> E!NoVal]]
      /\ upd = [h \in Handlers |-> E!Idle]
  BY DEF E!EditsInit
<1>3. ASSUME NEW h \in Handlers PROVE E!CheckInv(h)
  <2>1. E!Pc(h) = "idle"
    BY <1>2, EditsIdle DEF E!Pc
  <2>2. \A f \in Fields : E!Tells(entries, Len(entries), f, E!NoVal[f])
    BY <1>2 DEF E!Tells, E!NoVal
  <2>3. E!Looked(entries, Len(entries), 0, E!NoVal, {}, upd[h].late)
    BY <1>2, <2>2, LooksNow
  <2>4. item.version - seen[h].version = 0 /\ seen[h].val = E!NoVal /\ seen[h].version <= item.version
    BY <1>2
  <2> QED
    BY <1>2, <2>1, <2>3, <2>4 DEF E!CheckInv
<1> QED
  BY <1>1, <1>2, <1>3 DEF E!ReadersInv

LEMMA ReadersStepKeeps ==
    ASSUME E!EditsInv, E!ReadersInv, E!EditsNext
    PROVE  E!ReadersInv'
<1>1. PICK h \in Handlers :
          \/ E!Fetch(h)
          \/ \E chosen \in SUBSET Fields, comment \in BOOLEAN :
                 (comment => chosen = {}) /\ E!Read(h, chosen, comment)
          \/ E!Lock(h)
          \/ E!Check(h)
          \/ E!Save(h)
          \/ E!Record(h)
          \/ E!Unlock(h)
          \/ E!Commit(h)
          \/ \E f \in Fields : E!SideWrite(h, f)
          \/ \E other \in BOOLEAN : E!SideRecord(h, other)
  BY DEF E!EditsNext
<1>2. CASE \E chosen \in SUBSET Fields, comment \in BOOLEAN :
               (comment => chosen = {}) /\ E!Read(h, chosen, comment)
  BY <1>2, ReadChecks
<1>3. CASE E!Fetch(h) \/ E!Lock(h) \/ E!Check(h)
  BY <1>3, FetchChecks, LockChecks, CheckChecks
<1>4. CASE E!Save(h) \/ E!Record(h) \/ E!Unlock(h) \/ E!Commit(h)
  BY <1>4, SaveChecks, CommitChecks
<1>5. CASE \E f \in Fields : E!SideWrite(h, f)
  BY <1>5, SideWriteChecks
<1>6. CASE \E other \in BOOLEAN : E!SideRecord(h, other)
  BY <1>6, SideRecordChecks
<1> QED
  BY <1>1, <1>2, <1>3, <1>4, <1>5, <1>6

(* What the claim says of one field.                                        *)
LEMMA CheckedField ==
    ASSUME E!EditsInv, E!ReadersInv, NEW h \in Handlers, E!Pc(h) = "checked",
           NEW f \in upd[h].named
    PROVE  \/ item.val[f] = seen[h].val[f]
           \/ item.val[f] < 0 \/ seen[h].val[f] < 0
           \/ \E j \in E!LastEntry(f)..Len(entries) : entries[j].edit = 0
           \/ entries[E!LastEntry(f)].edit \in upd[h].late
<1>1. entries \in Seq(Entry) /\ Len(entries) \in Nat /\ f \in Fields
  BY EditsTyped DEF E!Doing
<1>2. PICK m \in 0..Len(entries) :
          E!Looked(entries, m, Behind(h), seen[h].val, upd[h].named, upd[h].late)
  BY DEF E!ReadersInv, E!CheckInv, Behind
<1> SUFFICES ASSUME ~(item.val[f] < 0), ~(seen[h].val[f] < 0),
                    \A j \in E!LastEntry(f)..Len(entries) : entries[j].edit # 0
             PROVE  item.val[f] = seen[h].val[f] \/ entries[E!LastEntry(f)].edit \in upd[h].late
  OBVIOUS
<1>3. PICK l : l = E!LastEntry(f)
  OBVIOUS
<1>4. \/ l = 0 /\ \A k \in 1..Len(entries) : f \notin DOMAIN entries[k].diff
      \/ l # 0 /\ E!IsLast(entries, l, Len(entries), f)
  BY <1>1, <1>3, LastEntryIsLast
<1>5. E!Tells(entries, Len(entries), f, item.val[f])
  <2> SUFFICES ASSUME E!EndsUnversioned(entries, f) PROVE FALSE
    BY <1>1 DEF E!EditsInv
  <2>1. PICK k \in 1..Len(entries) : E!IsLast(entries, k, Len(entries), f) /\ entries[k].edit = 0
    BY DEF E!EndsUnversioned
  <2>2. l \in Nat /\ E!IsLast(entries, l, Len(entries), f)
    BY <1>4, <2>1 DEF E!IsLast
  <2>3. k = l
    BY <1>1, <2>1, <2>2 DEF E!IsLast
  <2> QED
    BY <1>1, <1>3, <2>1, <2>3
<1>6. \/ E!Tells(entries, m, f, seen[h].val[f])
      \/ \E k \in 1..Len(entries) : /\ entries[k].edit = 0 /\ f \in DOMAIN entries[k].diff
                                    /\ \A j \in (k + 1)..m : f \notin DOMAIN entries[j].diff
  BY <1>1, <1>2 DEF E!Looked
<1>7. CASE l = 0
  <2>1. item.val[f] = 0
    BY <1>4, <1>5, <1>7 DEF E!Tells, E!IsLast
  <2>2. E!Tells(entries, m, f, seen[h].val[f])
    BY <1>4, <1>6, <1>7
  <2>3. \A k \in 1..m : k \in 1..Len(entries)
    BY <1>1
  <2>4. seen[h].val[f] = 0
    BY <1>4, <1>7, <2>2, <2>3 DEF E!Tells, E!IsLast
  <2> QED
    BY <2>1, <2>4
<1>8. CASE l # 0 /\ l > m
  <2>1. E!IsLast(entries, l, Len(entries), f) /\ l \in 1..Len(entries)
    BY <1>4, <1>8 DEF E!IsLast
  <2>2. l \in (m + 1)..Len(entries)
    BY <1>1, <1>8, <2>1
  <2>3. entries[l].edit \in upd[h].late
    BY <1>2, <1>3, <2>1, <2>2 DEF E!Looked
  <2> QED
    BY <1>3, <2>3
<1>9. CASE l # 0 /\ l <= m
  <2>1. E!IsLast(entries, l, Len(entries), f) /\ l \in 1..Len(entries) /\ f \in DOMAIN entries[l].diff
    BY <1>4, <1>9 DEF E!IsLast
  <2>2. item.val[f] = entries[l].diff[f]
    <3>1. E!Tells(entries, Len(entries), f, entries[l].diff[f])
      BY <2>1 DEF E!Tells
    <3> QED
      BY <1>1, <1>5, <3>1, TellsOnce
  <2>3. E!Tells(entries, m, f, seen[h].val[f])
    <3> SUFFICES ASSUME NEW k \in 1..Len(entries), entries[k].edit = 0, f \in DOMAIN entries[k].diff,
                        \A j \in (k + 1)..m : f \notin DOMAIN entries[j].diff
                 PROVE  FALSE
      BY <1>6
    <3>1. k <= l
      <4> SUFFICES ASSUME k > l PROVE FALSE
        BY <2>1
      <4>1. k \in (l + 1)..Len(entries)
        BY <1>1, <2>1
      <4> QED
        BY <2>1, <4>1 DEF E!IsLast
    <3>2. k # l
      BY <1>1, <1>3, <2>1
    <3>3. l \in (k + 1)..m
      BY <1>1, <1>9, <2>1, <3>1, <3>2
    <3> QED
      BY <2>1, <3>3
  <2>4. E!IsLast(entries, l, m, f)
    BY <1>1, <1>9, <2>1 DEF E!IsLast
  <2>5. l \in 1..m /\ E!Tells(entries, m, f, entries[l].diff[f])
    BY <2>4 DEF E!Tells, E!IsLast
  <2>6. seen[h].val[f] = entries[l].diff[f]
    <3>1. m \in Nat
      OBVIOUS
    <3> QED
      BY <2>3, <2>5, <3>1, TellsOnce
  <2> QED
    BY <2>2, <2>6
<1>10. l \in Nat
  BY <1>4 DEF E!IsLast
<1> QED
  BY <1>1, <1>7, <1>8, <1>9, <1>10

-----------------------------------------------------------------------------
(* The same of the back end as a whole, whose other parts leave the item    *)
(* and its history alone.                                                   *)
EditsPart == part = "edits" => E!EditsInv /\ E!ReadersInv

LEMMA EditsRest ==
    UNCHANGED editVars => (E!EditsInv' <=> E!EditsInv) /\ (E!ReadersInv' <=> E!ReadersInv)
<1>1. UNCHANGED editVars => (E!EditsInv' <=> E!EditsInv)
  BY DEF editVars, E!EditsInv, E!SaveInv, E!Pc, E!Tells, E!IsLast, E!EndsUnversioned
<1>2. UNCHANGED editVars => (E!ReadersInv' <=> E!ReadersInv)
  BY DEF editVars, E!ReadersInv, E!CheckInv, E!Pc, E!Looked, E!Tells, E!IsLast
<1> QED
  BY <1>1, <1>2

LEMMA EditsPartInvariant == Spec => []EditsPart
<1>1. Init => EditsPart
  BY EditsInitInv, ReadersInitInv DEF Init, EditsPart
<1>2. EditsPart /\ [Next]_backendVars => EditsPart'
  <2> SUFFICES ASSUME EditsPart, [Next]_backendVars
               PROVE  EditsPart'
    OBVIOUS
  <2>1. CASE EditsStep
    BY <2>1, EditsStepKeeps, ReadersStepKeeps DEF EditsPart, EditsStep
  <2>2. CASE part' = part /\ UNCHANGED editVars
    BY <2>2, EditsRest DEF EditsPart
  <2> QED
    BY <2>1, <2>2 DEF Next, CountersStep, ColoursStep, ClosingStep, BoardsStep, OwnershipStep,
                      WideningStep, backendVars
<1> QED
  BY <1>1, <1>2, PTL DEF Spec

(* However many updates, bulk edits and entries of other changes, and       *)
(* however they overlap, the history at rest ends, for every field, in the  *)
(* value of the row or in an entry without version                          *)
(* (history/services.py, occ/mixins.py).                                    *)
THEOREM HistoryTellsTheRowHolds == Spec => []HistoryTellsTheRow
<1>1. EditsPart => HistoryTellsTheRow
  <2> SUFFICES ASSUME E!EditsInv, \A h \in Handlers : E!Pc(h) = "idle", NEW f \in Fields
               PROVE  E!Rebuilt[f] = item.val[f] \/ entries[E!LastEntry(f)].edit = 0
    BY DEF EditsPart, HistoryTellsTheRow, E!HistoryTellsTheRow
  <2>1. entries \in Seq(Entry) /\ Len(entries) \in Nat
    BY EditsTyped
  <2>2. E!Tells(entries, Len(entries), f, item.val[f]) \/ E!EndsUnversioned(entries, f)
    BY DEF E!EditsInv
  <2>3. CASE E!Tells(entries, Len(entries), f, item.val[f])
    BY <2>1, <2>3, RebuiltTells, TellsOnce
  <2>4. CASE E!EndsUnversioned(entries, f)
    <3>1. PICK k \in 1..Len(entries) : E!IsLast(entries, k, Len(entries), f) /\ entries[k].edit = 0
      BY <2>4 DEF E!EndsUnversioned
    <3>2. E!IsLast(entries, E!LastEntry(f), Len(entries), f)
      BY <2>1, <3>1, LastEntryIsLast DEF E!IsLast
    <3>3. E!LastEntry(f) = k
      BY <2>1, <3>1, <3>2 DEF E!IsLast
    <3> QED
      BY <3>1, <3>3
  <2> QED
    BY <2>2, <2>3, <2>4
<1> QED
  BY <1>1, EditsPartInvariant, PTL

(* Only the commit of a save leaves the state it is made in.                *)
LEMMA OnlyCommitEndsASave ==
    ASSUME E!EditsInv, E!EditsNext, NEW h \in Handlers,
           E!Pc(h) = "unlocked", E!Pc(h)' = "idle"
    PROVE  E!Commit(h)
<1>1. upd \in [Handlers -> E!Doing]
  BY EditsTyped
<1>2. PICK g \in Handlers :
          \/ E!Fetch(g)
          \/ \E chosen \in SUBSET Fields, comment \in BOOLEAN : E!Read(g, chosen, comment)
          \/ E!Lock(g)
          \/ E!Check(g)
          \/ E!Save(g)
          \/ E!Record(g)
          \/ E!Unlock(g)
          \/ E!Commit(g)
          \/ \E f \in Fields : E!SideWrite(g, f)
          \/ \E other \in BOOLEAN : E!SideRecord(g, other)
  BY DEF E!EditsNext
<1>3. CASE g # h
  <2>1. upd'[h] = upd[h]
    BY <1>1, <1>2, <1>3 DEF E!Fetch, E!Read, E!Lock, E!Check, E!Save, E!Record, E!Unlock, E!Commit,
                            E!SideWrite, E!SideRecord
  <2> QED
    BY <2>1 DEF E!Pc
<1>4. CASE g = h
  BY <1>2, <1>4 DEF E!Pc, E!Fetch, E!Read, E!Lock, E!Check, E!Save, E!Record, E!Unlock,
                    E!SideWrite, E!SideRecord
<1> QED
  BY <1>3, <1>4

(* Two saves of the item never get one version, however many are under way  *)
(* (_validate_and_update_version of occ/mixins.py, the row lock of the      *)
(* transaction around it).                                                  *)
THEOREM EverySaveHasItsVersionHolds == Spec => EverySaveHasItsVersion
<1>1. EditsPart /\ [Next]_backendVars => [part = "edits" => E!EverySaveHasItsVersion]_backendVars
  <2> SUFFICES ASSUME EditsPart, Next, part = "edits", NEW h \in Handlers,
                      E!Pc(h) = "unlocked", E!Pc(h)' = "idle"
               PROVE  item'.version = item.version + 1
    BY DEF E!EverySaveHasItsVersion
  <2>1. E!EditsInv /\ E!EditsNext
    BY DEF EditsPart, Next, EditsStep, ColoursStep, ClosingStep, CountersStep, BoardsStep,
           OwnershipStep, WideningStep
  <2>2. E!Commit(h)
    BY <2>1, OnlyCommitEndsASave
  <2>3. upd[h].version = item.version + 1
    BY <2>1 DEF E!EditsInv, E!SaveInv
  <2>4. item'.version = upd[h].version
    BY <2>2 DEF E!Commit
  <2> QED
    BY <2>3, <2>4
<1> QED
  BY <1>1, EditsPartInvariant, PTL DEF Spec, EverySaveHasItsVersion

(* A field that a request names is overwritten unseen only next to a bulk   *)
(* edit, behind an entry without version or after a transaction that had    *)
(* released the lock and not committed, for any number of requests          *)
(* (_validate_and_update_version of occ/mixins.py).                         *)
THEOREM NamedFieldsAreCheckedHolds == Spec => NamedFieldsAreChecked
<1>1. EditsPart /\ [Next]_backendVars => [part = "edits" => E!NamedFieldsAreChecked]_backendVars
  <2> SUFFICES ASSUME EditsPart, Next, part = "edits"
               PROVE  E!NamedFieldsAreChecked
    OBVIOUS
  <2>1. E!EditsInv /\ E!ReadersInv
    BY DEF EditsPart
  <2> QED
    BY <2>1, CheckedField DEF E!NamedFieldsAreChecked
<1> QED
  BY <1>1, EditsPartInvariant, PTL DEF Spec, NamedFieldsAreChecked

-----------------------------------------------------------------------------
(* Colours.                                                                 *)

Relation == [epic : Epics, story : Stories, order : 0..MaxOrder]

LEMMA ColoursApart ==
    /\ NoColour \notin Shades /\ Nowhere \notin Stories
    /\ Epics \cap (Stories \cup StoryTasks) = {} /\ Stories \cap StoryTasks = {}
    /\ MaxRelated \in Nat /\ MaxOrder \in Nat
BY BackendAssumption DEF C!ColoursAssumption

(* The relations of a story, the first of them and the colour it gives.     *)
Of(rel, s) == {k \in DOMAIN rel : rel[k].story = s}

IsFirst(rel, s, k) == k \in Of(rel, s) /\ \A m \in Of(rel, s) : C!Before(rel, k, m)

LEMMA RelationType ==
    ASSUME NEW rel \in Seq(Relation)
    PROVE  /\ Len(rel) \in Nat /\ DOMAIN rel = 1..Len(rel)
           /\ \A k \in DOMAIN rel : /\ rel[k] \in Relation /\ rel[k].epic \in Epics
                                    /\ rel[k].story \in Stories /\ rel[k].order \in 0..MaxOrder
                                    /\ rel[k].order \in Int
<1>1. \A k \in DOMAIN rel : rel[k] \in Relation
  OBVIOUS
<1>2. 0..MaxOrder \subseteq Int
  OBVIOUS
<1> QED
  BY <1>1, <1>2 DEF Relation

(* The first relation of a story, by order and id.                          *)
LEMMA SomeFirst ==
    ASSUME NEW rel \in Seq(Relation), NEW s, Of(rel, s) # {}
    PROVE  \E k : IsFirst(rel, s, k)
<1> DEFINE Orders == {rel[k].order : k \in Of(rel, s)}
<1>0. MaxOrder \in Nat
  BY ColoursApart
<1>1. Len(rel) \in Nat /\ DOMAIN rel = 1..Len(rel) /\ \A k \in DOMAIN rel : rel[k].order \in 0..MaxOrder
  BY RelationType
<1>2. Of(rel, s) \subseteq 1..Len(rel)
  BY <1>1 DEF Of
<1>3. Orders \subseteq 0..MaxOrder /\ Orders # {}
  BY <1>1 DEF Of
<1>4. PICK o \in Orders : \A p \in Orders : o <= p
  <2> HIDE DEF Orders
  <2> QED
    BY <1>0, <1>3, HasLeast
<1> DEFINE S == {k \in Of(rel, s) : rel[k].order = o}
<1>5. S \subseteq 0..Len(rel) /\ S # {}
  BY <1>1, <1>2
<1>6. PICK k \in S : \A m \in S : k <= m
  <2> HIDE DEF S
  <2> QED
    BY <1>1, <1>5, HasLeast
<1>7. ASSUME NEW m \in Of(rel, s) PROVE C!Before(rel, k, m)
  <2>1. rel[m].order \in Int /\ rel[k].order \in Int
    BY <1>1, <1>2
  <2>2. rel[k].order <= rel[m].order
    BY <1>4, <1>6
  <2>3. rel[m].order = rel[k].order => k <= m
    BY <1>6
  <2> QED
    BY <2>1, <2>2, <2>3 DEF C!Before
<1> QED
  BY <1>6, <1>7 DEF IsFirst

LEMMA OneFirst ==
    ASSUME NEW rel \in Seq(Relation), NEW s, NEW k, NEW m, IsFirst(rel, s, k), IsFirst(rel, s, m)
    PROVE  k = m
<1>1. DOMAIN rel = 1..Len(rel) /\ Len(rel) \in Nat /\ \A j \in DOMAIN rel : rel[j].order \in Int
  BY RelationType
<1>2. k \in 1..Len(rel) /\ m \in 1..Len(rel) /\ C!Before(rel, k, m) /\ C!Before(rel, m, k)
  BY <1>1 DEF IsFirst, Of
<1>3. rel[k].order \in Int /\ rel[m].order \in Int
  BY <1>1, <1>2
<1> QED
  BY <1>1, <1>2, <1>3 DEF C!Before

(* What a story inherits: the colour of its first epic, or none.            *)
LEMMA FirstGivesColour ==
    ASSUME NEW rel \in Seq(Relation), NEW s, NEW k, IsFirst(rel, s, k), NEW col
    PROVE  C!Inherited(col, rel, s) = col[rel[k].epic]
<1> DEFINE x == CHOOSE i \in Of(rel, s) : \A m \in Of(rel, s) : C!Before(rel, i, m)
<1>1. IsFirst(rel, s, x)
  BY DEF IsFirst
<1>2. x = k
  <2> HIDE DEF x
  <2> QED
    BY <1>1, OneFirst
<1>3. Of(rel, s) # {}
  BY DEF IsFirst
<1> QED
  BY <1>2, <1>3 DEF C!Inherited, Of

LEMMA NobodyGivesColour ==
    ASSUME NEW rel, NEW s, Of(rel, s) = {}, NEW col
    PROVE  C!Inherited(col, rel, s) = NoColour
BY DEF C!Inherited, Of

Items == Epics \cup Stories \cup StoryTasks

Palette == {col \in [Items -> Shades \cup {NoColour}] : \A e \in Epics : col[e] \in Shades}

LEMMA InheritedType ==
    ASSUME NEW rel \in Seq(Relation), NEW s, NEW col \in Palette
    PROVE  /\ C!Inherited(col, rel, s) \in Shades \cup {NoColour}
           /\ C!Inherited(col, rel, s) = NoColour <=> Of(rel, s) = {}
<1>0. NoColour \notin Shades
  BY ColoursApart
<1>1. CASE Of(rel, s) = {}
  BY <1>1, NobodyGivesColour
<1>2. CASE Of(rel, s) # {}
  <2>1. PICK k : IsFirst(rel, s, k)
    BY <1>2, SomeFirst
  <2>2. rel[k].epic \in Epics
    BY <2>1, RelationType DEF IsFirst, Of
  <2>3. C!Inherited(col, rel, s) \in Shades
    BY <2>1, <2>2, FirstGivesColour DEF Palette
  <2> QED
    BY <1>0, <1>2, <2>3
<1> QED
  BY <1>1, <1>2

(* Only the colours of the epics that the story is related to count.        *)
LEMMA SameEpics ==
    ASSUME NEW rel \in Seq(Relation), NEW s, NEW col, NEW col2,
           \A k \in Of(rel, s) : col2[rel[k].epic] = col[rel[k].epic]
    PROVE  C!Inherited(col2, rel, s) = C!Inherited(col, rel, s)
<1>1. CASE Of(rel, s) = {}
  BY <1>1, NobodyGivesColour
<1>2. CASE Of(rel, s) # {}
  <2>1. PICK k : IsFirst(rel, s, k)
    BY <1>2, SomeFirst
  <2>2. k \in Of(rel, s)
    BY <2>1 DEF IsFirst
  <2> QED
    BY <2>1, <2>2, FirstGivesColour
<1> QED
  BY <1>1, <1>2

(* A story whose relations are left, in their order, keeps its first epic.  *)
Left(rel, rel2, s, ids) ==
    /\ \A k \in Of(rel2, s) : ids[k] \in Of(rel, s) /\ rel2[k] = rel[ids[k]]
    /\ \A k, m \in Of(rel2, s) : k < m => ids[k] < ids[m]
    /\ \A k \in Of(rel, s) : \E m \in Of(rel2, s) : ids[m] = k

LEMMA SameRelations ==
    ASSUME NEW rel \in Seq(Relation), NEW rel2 \in Seq(Relation), NEW s, NEW col,
           NEW ids, Left(rel, rel2, s, ids)
    PROVE  C!Inherited(col, rel2, s) = C!Inherited(col, rel, s)
<1> USE DEF Left
<1>1. CASE Of(rel, s) = {}
  <2>1. Of(rel2, s) = {}
    BY <1>1
  <2> QED
    BY <1>1, <2>1, NobodyGivesColour
<1>2. CASE Of(rel, s) # {}
  <2>1. PICK k \in Of(rel2, s) : IsFirst(rel2, s, k)
    <3>1. Of(rel2, s) # {}
      BY <1>2
    <3> QED
      BY <3>1, SomeFirst DEF IsFirst
  <2>2. ASSUME NEW m \in Of(rel, s) PROVE C!Before(rel, ids[k], m)
    <3>1. PICK j \in Of(rel2, s) : ids[j] = m
      OBVIOUS
    <3>2. C!Before(rel2, k, j)
      BY <2>1 DEF IsFirst
    <3>3. rel2[k] = rel[ids[k]] /\ rel2[j] = rel[m]
      BY <3>1
    <3>4. j \in Int /\ k \in Int
      BY RelationType DEF Of
    <3>5. ids[k] \in Int /\ ids[j] \in Int
      BY RelationType DEF Of
    <3>6. k <= j => ids[k] <= ids[j]
      BY <3>4, <3>5
    <3> QED
      BY <3>1, <3>2, <3>3, <3>6 DEF C!Before
  <2>3. IsFirst(rel, s, ids[k]) /\ rel2[k] = rel[ids[k]]
    BY <2>2 DEF IsFirst
  <2> QED
    BY <2>1, <2>3, FirstGivesColour
<1> QED
  BY <1>1, <1>2

(* The relations of a story, untouched.                                     *)
LEMMA UntouchedRelations ==
    ASSUME NEW rel \in Seq(Relation), NEW rel2 \in Seq(Relation), NEW s, NEW col,
           Of(rel2, s) = Of(rel, s), \A k \in Of(rel, s) : rel2[k] = rel[k]
    PROVE  C!Inherited(col, rel2, s) = C!Inherited(col, rel, s)
<1>1. PICK ids : \A k \in Of(rel, s) : ids[k] = k
  <2>1. \A k \in Of(rel, s) : [m \in Of(rel, s) |-> m][k] = k
    OBVIOUS
  <2> QED
    BY <2>1
<1>2. \A k \in Of(rel2, s) : ids[k] \in Of(rel, s) /\ rel2[k] = rel[ids[k]]
  BY <1>1
<1>3. \A k, m \in Of(rel2, s) : k < m => ids[k] < ids[m]
  BY <1>1
<1>4. \A k \in Of(rel, s) : \E m \in Of(rel2, s) : ids[m] = k
  BY <1>1
<1> QED
  <2>1. Left(rel, rel2, s, ids)
    BY <1>2, <1>3, <1>4 DEF Left
  <2> QED
    BY <2>1, SameRelations

(* What a synchronisation leaves: its stories and their tasks in the        *)
(* inherited colour, everything else and the epics as they were.            *)
LEMMA AfterSync ==
    ASSUME NEW rel \in Seq(Relation), NEW col \in Palette, NEW U, U \subseteq Stories,
           storyOf \in [StoryTasks -> Stories \cup {Nowhere}]
    PROVE  /\ C!Synced(col, rel, U) \in Palette
           /\ \A s \in U : C!Synced(col, rel, U)[s] = C!Inherited(col, rel, s)
           /\ \A t \in StoryTasks : C!Synced(col, rel, U)[t] =
                  IF storyOf[t] \in U THEN C!Inherited(col, rel, storyOf[t]) ELSE col[t]
           /\ \A i \in (Epics \cup Stories) \ U : C!Synced(col, rel, U)[i] = col[i]
           /\ \A e \in Epics : C!Synced(col, rel, U)[e] = col[e]
<1> DEFINE Inh(s) == C!Inherited(col, rel, s)
           new == C!Synced(col, rel, U)
<1>0. \A s : Inh(s) \in Shades \cup {NoColour}
  BY InheritedType
<1>1. /\ Epics \cap U = {} /\ Epics \cap StoryTasks = {} /\ Stories \cap StoryTasks = {}
      /\ U \cap StoryTasks = {}
  BY ColoursApart
<1>2. col \in [Items -> Shades \cup {NoColour}] /\ \A e \in Epics : col[e] \in Shades
  BY DEF Palette
<1>3. new = [i \in Items |->
                IF i \in U THEN Inh(i)
                ELSE IF i \in StoryTasks /\ storyOf[i] \in U THEN Inh(storyOf[i])
                ELSE col[i]]
  BY <1>2 DEF C!Synced
<1> HIDE DEF Inh, new
<1>4. new \in [Items -> Shades \cup {NoColour}]
  BY <1>0, <1>2, <1>3
<1>5. \A e \in Epics : new[e] = col[e]
  BY <1>1, <1>3 DEF Items
<1>6. new \in Palette
  BY <1>2, <1>4, <1>5 DEF Palette
<1>7. \A s \in U : new[s] = Inh(s)
  BY <1>3 DEF Items
<1>8. \A t \in StoryTasks : new[t] = IF storyOf[t] \in U THEN Inh(storyOf[t]) ELSE col[t]
  BY <1>1, <1>3 DEF Items
<1>9. \A i \in (Epics \cup Stories) \ U : new[i] = col[i]
  BY <1>1, <1>3 DEF Items
<1> QED
  BY <1>5, <1>6, <1>7, <1>8, <1>9 DEF Inh, new

(* The types of the part's variables, and of what a request makes of them.  *)
LEMMA ColoursTyped ==
    ASSUME C!ColoursTypeOK
    PROVE  /\ colour \in Palette /\ related \in Seq(Relation)
           /\ storyOf \in [StoryTasks -> Stories \cup {Nowhere}]
           /\ Len(related) \in Nat /\ DOMAIN related = 1..Len(related)
BY RelationType DEF C!ColoursTypeOK, Palette, Items, Relation



LEMMA EpicsAlone ==
    ASSUME NEW rel \in Seq(Relation), NEW s, NEW col, NEW col2,
           \A e \in Epics : col2[e] = col[e]
    PROVE  C!Inherited(col2, rel, s) = C!Inherited(col, rel, s)
<1>1. \A k \in Of(rel, s) : rel[k].epic \in Epics
  BY RelationType DEF Of
<1> QED
  BY <1>1, SameEpics

(* The relations that are left of a sequence of them.                       *)
LEMMA AfterRemoval ==
    ASSUME NEW rel \in Seq(Relation), NEW k \in DOMAIN rel
    PROVE  LET rel2 == C!RemoveAt(rel, k)
           IN  /\ rel2 \in Seq(Relation) /\ Len(rel2) = Len(rel) - 1
               /\ \A i \in 1..Len(rel2) : rel2[i] = rel[IF i < k THEN i ELSE i + 1]
<1>1. Len(rel) \in Nat /\ k \in 1..Len(rel)
  BY RelationType
<1> DEFINE a == SubSeq(rel, 1, k - 1)
           b == SubSeq(rel, k + 1, Len(rel))
<1>2. /\ a \in Seq(Relation) /\ Len(a) = k - 1
      /\ \A i \in 1..(k - 1) : a[i] = rel[i]
  BY <1>1
<1>3. /\ b \in Seq(Relation) /\ Len(b) = Len(rel) - k
      /\ \A i \in 1..(Len(rel) - k) : b[i] = rel[k + i]
  BY <1>1
<1>4. C!RemoveAt(rel, k) = a \o b
  BY DEF C!RemoveAt
<1> HIDE DEF a, b
<1>5. a \o b \in Seq(Relation) /\ Len(a \o b) = Len(rel) - 1
  BY <1>1, <1>2, <1>3
<1>6. ASSUME NEW i \in 1..(Len(rel) - 1)
      PROVE  (a \o b)[i] = rel[IF i < k THEN i ELSE i + 1]
  <2>1. CASE i < k
    BY <1>1, <1>2, <1>3, <2>1
  <2>2. CASE ~(i < k)
    <3>1. (a \o b)[i] = b[i - (k - 1)]
      BY <1>1, <1>2, <1>3, <2>2
    <3>2. i - (k - 1) \in 1..(Len(rel) - k) /\ k + (i - (k - 1)) = i + 1
      BY <1>1, <2>2
    <3> QED
      BY <1>3, <2>2, <3>1, <3>2
  <2> QED
    BY <2>1, <2>2
<1> QED
  BY <1>4, <1>5, <1>6

(* What a synchronisation does to a story: its own colour and its tasks'    *)
(* are the inherited one, or all of them stay.                              *)
LEMMA SyncKeepsColour ==
    ASSUME C!ColoursTypeOK, NEW base \in Palette, NEW rel \in Seq(Relation),
           NEW U, U \subseteq Stories,
           \A i \in Stories \cup StoryTasks : base[i] = colour[i],
           colour' = C!Synced(base, rel, U), storyOf' = storyOf, related' \in Seq(Relation),
           NEW s \in Stories,
           s \in U => C!Inherited(base, related', s) = C!Inherited(base, rel, s),
           s \notin U => C!Inherited(base, related', s) = C!Inherited(colour, related, s)
    PROVE  C!Coloured(s) => C!Coloured(s)'
<1>1. /\ \A u \in U : colour'[u] = C!Inherited(base, rel, u)
      /\ \A t \in StoryTasks : colour'[t] = IF storyOf[t] \in U THEN C!Inherited(base, rel, storyOf[t])
                                            ELSE base[t]
      /\ \A i \in (Epics \cup Stories) \ U : colour'[i] = base[i]
      /\ \A e \in Epics : colour'[e] = base[e]
  BY ColoursTyped, AfterSync
<1>2. C!Inherited(colour', related', s) = C!Inherited(base, related', s)
  BY <1>1, EpicsAlone
<1>3. C!TasksOf(s)' = C!TasksOf(s) /\ C!TasksOf(s) \subseteq StoryTasks
      /\ \A t \in C!TasksOf(s) : storyOf[t] = s
  BY DEF C!TasksOf
<1>4. CASE s \in U
  BY <1>1, <1>2, <1>3, <1>4 DEF C!Coloured
<1>5. CASE s \notin U
  <2>1. \A i \in {s} \cup C!TasksOf(s) : colour'[i] = colour[i]
    BY <1>1, <1>3, <1>5
  <2> QED
    BY <1>2, <1>3, <1>5, <2>1 DEF C!Coloured
<1> QED
  BY <1>4, <1>5

LEMMA OutsideSync ==
    ASSUME C!ColoursTypeOK, NEW base \in Palette, NEW rel \in Seq(Relation),
           NEW U, U \subseteq Stories,
           \A i \in Stories \cup StoryTasks : base[i] = colour[i],
           colour' = C!Synced(base, rel, U), NEW s \in Stories \ U
    PROVE  \A i \in {s} \cup C!TasksOf(s) : colour'[i] = colour[i]
<1>1. /\ \A t \in StoryTasks : colour'[t] = IF storyOf[t] \in U THEN C!Inherited(base, rel, storyOf[t])
                                            ELSE base[t]
      /\ \A i \in (Epics \cup Stories) \ U : colour'[i] = base[i]
  BY ColoursTyped, AfterSync
<1> QED
  BY <1>1 DEF C!TasksOf

(* What it takes of a step: the invariant, and the two claims for every     *)
(* story.                                                                   *)
KeepsColour(s) == C!Coloured(s) => C!Coloured(s)'

KeepsChoice(s) ==
    C!Inherited(colour, related, s) = NoColour /\ C!Inherited(colour, related, s)' = NoColour =>
        \A i \in {s} \cup (C!TasksOf(s) \cap C!TasksOf(s)') :
            colour'[i] = colour[i] \/ request' = <<"colour", i>>

(* The relations stay: an epic gets a colour. *)
LEMMA ColourEpicKeeps ==
    ASSUME C!ColoursInv, NEW e \in Epics, NEW c \in Shades, C!ColourEpic(e, c)
    PROVE  C!ColoursInv' /\ \A s \in Stories : KeepsColour(s) /\ KeepsChoice(s)
<1> DEFINE base == [colour EXCEPT ![e] = c]
           U == {s \in Stories : \E k \in DOMAIN related :
                                    related[k].epic = e /\ related[k].story = s}
<1>1. /\ colour \in Palette /\ related \in Seq(Relation)
      /\ storyOf \in [StoryTasks -> Stories \cup {Nowhere}]
  BY ColoursTyped DEF C!ColoursInv
<1>2. colour' = C!Synced(base, related, U) /\ related' = related /\ storyOf' = storyOf
  BY DEF C!ColourEpic, C!SyncedForEpic
<1>3. base \in Palette /\ \A i \in Items \ {e} : base[i] = colour[i]
  BY <1>1 DEF Palette, Items
<1>4. \A i \in Stories \cup StoryTasks : base[i] = colour[i]
  BY <1>3, ColoursApart DEF Items
<1>5. U \subseteq Stories
  OBVIOUS
<1>6. \A s \in Stories \ U : C!Inherited(base, related, s) = C!Inherited(colour, related, s)
  <2> SUFFICES ASSUME NEW s \in Stories \ U
               PROVE  C!Inherited(base, related, s) = C!Inherited(colour, related, s)
    OBVIOUS
  <2>1. \A k \in Of(related, s) : related[k].epic \in Items \ {e}
    BY <1>1, RelationType DEF Of, Items
  <2> HIDE DEF base, U
  <2> QED
    BY <1>1, <1>3, <2>1, SameEpics
<1> HIDE DEF base, U
<1>7. colour' \in Palette
  BY <1>1, <1>2, <1>3, <1>5, AfterSync
<1>8. C!ColoursInv'
  BY <1>2, <1>7 DEF C!ColoursInv, C!ColoursTypeOK, Palette, Items
<1>9. ASSUME NEW s \in Stories PROVE KeepsColour(s)
  <2>1. s \notin U => C!Inherited(base, related', s) = C!Inherited(colour, related, s)
    BY <1>2, <1>6
  <2>2. s \in U => C!Inherited(base, related', s) = C!Inherited(base, related, s)
    BY <1>2
  <2>3. related' \in Seq(Relation) /\ C!ColoursTypeOK
    BY <1>1, <1>2 DEF C!ColoursInv
  <2> QED
    BY <1>1, <1>2, <1>3, <1>4, <1>5, <2>1, <2>2, <2>3, SyncKeepsColour DEF KeepsColour
<1>10. ASSUME NEW s \in Stories PROVE KeepsChoice(s)
  <2>1. CASE s \in U
    <3>1. Of(related, s) # {}
      BY <2>1 DEF U, Of
    <3>2. C!Inherited(colour, related, s) # NoColour
      BY <1>1, <3>1, InheritedType
    <3> QED
      BY <3>2 DEF KeepsChoice
  <2>2. CASE s \notin U
    <3>1. C!ColoursTypeOK
      BY DEF C!ColoursInv
    <3>2. \A i \in {s} \cup C!TasksOf(s) : colour'[i] = colour[i]
      BY <1>1, <1>2, <1>3, <1>4, <1>5, <2>2, <3>1, OutsideSync
    <3> QED
      BY <3>2 DEF KeepsChoice
  <2> QED
    BY <2>1, <2>2
<1> QED
  BY <1>8, <1>9, <1>10

(* One item takes a colour: the one it inherits, or what is given.          *)
Chooses(i, u, c) ==
    /\ colour' = [colour EXCEPT ![i] = C!Chosen(C!Inherited(colour, related, u), c)]
    /\ related' = related
    /\ i \in Stories => u = i /\ storyOf' = storyOf
    /\ i \in StoryTasks => storyOf' = [storyOf EXCEPT ![i] = u]
    /\ request' = <<"colour", i>> \/ c = colour[i]

LEMMA ChoiceKeeps ==
    ASSUME C!ColoursInv, NEW i \in Stories \cup StoryTasks, NEW u \in Stories \cup {Nowhere},
           NEW c \in Shades \cup {NoColour}, Chooses(i, u, c)
    PROVE  C!ColoursInv' /\ \A s \in Stories : KeepsColour(s) /\ KeepsChoice(s)
<1> DEFINE new == C!Chosen(C!Inherited(colour, related, u), c)
<1>1. /\ colour \in Palette /\ related \in Seq(Relation)
      /\ storyOf \in [StoryTasks -> Stories \cup {Nowhere}]
  BY ColoursTyped DEF C!ColoursInv
<1>2. new \in Shades \cup {NoColour}
  BY <1>1, InheritedType DEF C!Chosen
<1>3. Stories \cap StoryTasks = {} /\ Epics \cap (Stories \cup StoryTasks) = {}
  BY ColoursApart
<1>4. colour' = [colour EXCEPT ![i] = new] /\ related' = related
  BY DEF Chooses
<1> HIDE DEF new
<1>5. /\ colour' \in Palette /\ colour'[i] = new
      /\ \A j \in Items \ {i} : colour'[j] = colour[j]
      /\ \A e \in Epics : colour'[e] = colour[e]
  <2>1. i \in Items /\ i \notin Epics
    BY <1>3 DEF Items
  <2> QED
    BY <1>1, <1>2, <1>4, <2>1 DEF Palette, Items
<1>6. /\ storyOf' \in [StoryTasks -> Stories \cup {Nowhere}]
      /\ \A t \in StoryTasks \ {i} : storyOf'[t] = storyOf[t]
      /\ i \in StoryTasks => storyOf'[i] = u
  <2>1. CASE i \in Stories
    BY <1>1, <1>3, <2>1 DEF Chooses
  <2>2. CASE i \in StoryTasks
    BY <1>1, <2>2 DEF Chooses
  <2> QED
    BY <2>1, <2>2
<1>7. C!ColoursInv'
  BY <1>4, <1>5, <1>6 DEF C!ColoursInv, C!ColoursTypeOK, Palette, Items
<1>8. ASSUME NEW s \in Stories
      PROVE  C!Inherited(colour', related', s) = C!Inherited(colour, related, s)
  <2>1. C!Inherited(colour', related, s) = C!Inherited(colour, related, s)
    BY <1>1, <1>5, EpicsAlone
  <2> QED
    BY <1>4, <2>1
<1>9. ASSUME NEW s \in Stories PROVE KeepsColour(s)
  <2> SUFFICES ASSUME C!Coloured(s), C!Inherited(colour, related, s) # NoColour,
                      NEW j \in {s} \cup C!TasksOf(s)'
               PROVE  colour'[j] = C!Inherited(colour, related, s)
    BY <1>8 DEF KeepsColour, C!Coloured
  <2>1. CASE j = i
    <3>1. u = s
      BY <1>3, <1>6, <2>1 DEF C!TasksOf, Chooses
    <3>2. new = C!Inherited(colour, related, s)
      BY <3>1 DEF new, C!Chosen
    <3> QED
      BY <1>5, <2>1, <3>2
  <2>2. CASE j # i
    <3>1. j \in {s} \cup C!TasksOf(s) /\ j \in Items
      BY <1>6, <2>2 DEF C!TasksOf, Items
    <3> QED
      BY <1>5, <2>2, <3>1 DEF C!Coloured
  <2> QED
    BY <2>1, <2>2
<1>10. ASSUME NEW s \in Stories PROVE KeepsChoice(s)
  <2> SUFFICES ASSUME C!Inherited(colour, related, s) = NoColour,
                      NEW j \in {s} \cup (C!TasksOf(s) \cap C!TasksOf(s)'),
                      request' # <<"colour", j>>
               PROVE  colour'[j] = colour[j]
    BY DEF KeepsChoice
  <2>1. CASE j = i
    <3>1. u = s
      BY <1>3, <1>6, <2>1 DEF C!TasksOf, Chooses
    <3>2. new = c /\ c = colour[i]
      BY <2>1, <3>1 DEF new, C!Chosen, Chooses
    <3> QED
      BY <1>5, <2>1, <3>2
  <2>2. CASE j # i
    <3>1. j \in Items
      BY DEF C!TasksOf, Items
    <3> QED
      BY <1>5, <2>2, <3>1
  <2> QED
    BY <2>1, <2>2
<1> QED
  BY <1>7, <1>9, <1>10

(* A client's request or a save, of a story or a task, is such a choice.    *)
LEMMA ColourItemKeeps ==
    ASSUME C!ColoursInv,
           \/ \E s \in Stories, c \in Shades : C!ColourStory(s, c)
           \/ \E t \in StoryTasks, c \in Shades : C!ColourTask(t, c)
           \/ \E s \in Stories : C!SaveStory(s)
           \/ \E t \in StoryTasks, u \in Stories \cup {Nowhere} : C!SaveTask(t, u)
    PROVE  C!ColoursInv' /\ \A s \in Stories : KeepsColour(s) /\ KeepsChoice(s)
<1>1. /\ colour \in Palette /\ storyOf \in [StoryTasks -> Stories \cup {Nowhere}]
  BY ColoursTyped DEF C!ColoursInv
<1>2. Stories \cap StoryTasks = {}
  BY ColoursApart
<1>3. \A i \in Stories \cup StoryTasks : colour[i] \in Shades \cup {NoColour}
  BY <1>1 DEF Palette, Items
<1>4. ASSUME NEW s \in Stories, NEW c \in Shades, C!ColourStory(s, c)
      PROVE  C!ColoursInv' /\ \A r \in Stories : KeepsColour(r) /\ KeepsChoice(r)
  BY <1>2, <1>4, ChoiceKeeps DEF C!ColourStory, Chooses
<1>5. ASSUME NEW t \in StoryTasks, NEW c \in Shades, C!ColourTask(t, c)
      PROVE  C!ColoursInv' /\ \A r \in Stories : KeepsColour(r) /\ KeepsChoice(r)
  <2>1. storyOf' = [storyOf EXCEPT ![t] = storyOf[t]] /\ storyOf[t] \in Stories \cup {Nowhere}
    BY <1>1, <1>5 DEF C!ColourTask
  <2> QED
    BY <1>2, <1>5, <2>1, ChoiceKeeps DEF C!ColourTask, Chooses
<1>6. ASSUME NEW s \in Stories, C!SaveStory(s)
      PROVE  C!ColoursInv' /\ \A r \in Stories : KeepsColour(r) /\ KeepsChoice(r)
  BY <1>2, <1>3, <1>6, ChoiceKeeps DEF C!SaveStory, Chooses
<1>7. ASSUME NEW t \in StoryTasks, NEW u \in Stories \cup {Nowhere}, C!SaveTask(t, u)
      PROVE  C!ColoursInv' /\ \A r \in Stories : KeepsColour(r) /\ KeepsChoice(r)
  BY <1>2, <1>3, <1>7, ChoiceKeeps DEF C!SaveTask, Chooses
<1> QED
  BY <1>4, <1>5, <1>6, <1>7

(* The relations change, and the stories they change for are synchronised.  *)
LEMMA RelationsKeep ==
    ASSUME C!ColoursInv, NEW U, U \subseteq Stories, NEW rel \in Seq(Relation),
           colour' = C!Synced(colour, rel, U), storyOf' = storyOf, related' \in Seq(Relation),
           NEW s \in Stories,
           s \in U => C!Inherited(colour, related', s) = C!Inherited(colour, rel, s)
                      /\ (Of(related, s) # {} \/ Of(related', s) # {}),
           s \notin U => C!Inherited(colour, related', s) = C!Inherited(colour, related, s)
    PROVE  KeepsColour(s) /\ KeepsChoice(s)
<1>1. /\ colour \in Palette /\ related \in Seq(Relation) /\ C!ColoursTypeOK
      /\ storyOf \in [StoryTasks -> Stories \cup {Nowhere}]
  BY ColoursTyped DEF C!ColoursInv
<1>2. KeepsColour(s)
  BY <1>1, SyncKeepsColour DEF KeepsColour
<1>3. CASE s \in U
  <2>1. colour' \in Palette
    BY <1>1, AfterSync
  <2>2. C!Inherited(colour, related, s) # NoColour \/ C!Inherited(colour', related', s) # NoColour
    BY <1>1, <1>3, <2>1, InheritedType
  <2> QED
    BY <1>2, <2>2 DEF KeepsChoice
<1>4. CASE s \notin U
  <2>1. \A i \in {s} \cup C!TasksOf(s) : colour'[i] = colour[i]
    BY <1>1, <1>4, OutsideSync
  <2> QED
    BY <1>2, <2>1 DEF KeepsChoice
<1> QED
  BY <1>3, <1>4

(* Some relations go, at least one of every story of U and none of others.  *)
Rest(ids, U) ==
    /\ related' \in Seq(Relation) /\ Len(related') <= Len(related)
    /\ \A i \in DOMAIN related' : ids[i] \in DOMAIN related /\ related'[i] = related[ids[i]]
    /\ \A i, j \in DOMAIN related' : i < j => ids[i] < ids[j]
    /\ \A k \in DOMAIN related : related[k].story \notin U =>
           \E i \in DOMAIN related' : ids[i] = k
    /\ \A s \in U : Of(related, s) # {}

LEMMA RestKeeps ==
    ASSUME C!ColoursInv, NEW ids, NEW U, U \subseteq Stories, Rest(ids, U),
           colour' = C!Synced(colour, related', U), storyOf' = storyOf
    PROVE  C!ColoursInv' /\ \A s \in Stories : KeepsColour(s) /\ KeepsChoice(s)
<1>1. /\ colour \in Palette /\ related \in Seq(Relation)
      /\ storyOf \in [StoryTasks -> Stories \cup {Nowhere}]
      /\ DOMAIN related = 1..Len(related) /\ Len(related) \in Nat /\ Len(related) <= MaxRelated
  BY ColoursTyped DEF C!ColoursInv, C!ColoursTypeOK
<1>2. related' \in Seq(Relation) /\ Len(related') <= Len(related)
  BY DEF Rest
<1>3. colour' \in Palette
  BY <1>1, <1>2, AfterSync
<1>4. DOMAIN related' = 1..Len(related') /\ Len(related') \in Nat
  BY <1>2, RelationType
<1>5. \A i, j \in DOMAIN related' : related'[i].epic = related'[j].epic
                                    /\ related'[i].story = related'[j].story => i = j
  <2> SUFFICES ASSUME NEW i \in DOMAIN related', NEW j \in DOMAIN related', i < j,
                      related'[i].epic = related'[j].epic, related'[i].story = related'[j].story
               PROVE  FALSE
    BY <1>4
  <2>1. ids[i] \in DOMAIN related /\ ids[j] \in DOMAIN related /\ ids[i] < ids[j]
        /\ related'[i] = related[ids[i]] /\ related'[j] = related[ids[j]]
    BY DEF Rest
  <2>2. ids[i] = ids[j]
    BY <2>1 DEF C!ColoursInv
  <2> QED
    BY <1>1, <2>1, <2>2
<1>6. C!ColoursInv'
  <2>1. Len(related') <= MaxRelated
    BY <1>1, <1>2, <1>4, ColoursApart
  <2> QED
    BY <1>1, <1>2, <1>3, <1>5, <2>1 DEF C!ColoursInv, C!ColoursTypeOK, Palette, Items, Relation
<1>7. ASSUME NEW s \in Stories \ U
      PROVE  C!Inherited(colour, related', s) = C!Inherited(colour, related, s)
  <2>1. \A i \in Of(related', s) : ids[i] \in Of(related, s) /\ related'[i] = related[ids[i]]
    BY DEF Rest, Of
  <2>2. \A i, j \in Of(related', s) : i < j => ids[i] < ids[j]
    BY DEF Rest, Of
  <2>3. ASSUME NEW k \in Of(related, s) PROVE \E i \in Of(related', s) : ids[i] = k
    <3>1. k \in DOMAIN related /\ related[k].story = s
      BY DEF Of
    <3>2. PICK i \in DOMAIN related' : ids[i] = k
      BY <3>1 DEF Rest
    <3>3. related'[i] = related[k]
      BY <3>2 DEF Rest
    <3> QED
      BY <3>1, <3>2, <3>3 DEF Of
  <2>4. Left(related, related', s, ids)
    BY <2>1, <2>2, <2>3 DEF Left
  <2> QED
    BY <1>1, <1>2, <2>4, SameRelations
<1>8. ASSUME NEW s \in Stories PROVE KeepsColour(s) /\ KeepsChoice(s)
  <2>1. s \in U => Of(related, s) # {}
    BY DEF Rest
  <2> QED
    BY <1>2, <1>7, <2>1, RelationsKeep
<1> QED
  BY <1>6, <1>8

LEMMA UnrelateKeeps ==
    ASSUME C!ColoursInv, NEW k \in DOMAIN related, C!Unrelate(k)
    PROVE  C!ColoursInv' /\ \A s \in Stories : KeepsColour(s) /\ KeepsChoice(s)
<1> DEFINE U == {related[k].story}
<1>1. /\ related \in Seq(Relation) /\ DOMAIN related = 1..Len(related) /\ Len(related) \in Nat
      /\ \A i \in DOMAIN related : related[i].story \in Stories
  BY ColoursTyped, RelationType DEF C!ColoursInv
<1>2. /\ related' \in Seq(Relation) /\ Len(related') = Len(related) - 1
      /\ \A i \in 1..Len(related') : related'[i] = related[IF i < k THEN i ELSE i + 1]
  <2>1. LET rel2 == C!RemoveAt(related, k)
        IN  /\ rel2 \in Seq(Relation) /\ Len(rel2) = Len(related) - 1
            /\ \A i \in 1..Len(rel2) : rel2[i] = related[IF i < k THEN i ELSE i + 1]
    BY <1>1, AfterRemoval
  <2>2. related' = C!RemoveAt(related, k)
    BY DEF C!Unrelate
  <2> QED
    BY <2>1, <2>2
<1>3. colour' = C!Synced(colour, related', U) /\ storyOf' = storyOf
  BY DEF C!Unrelate
<1>4. PICK ids : \A i \in 1..Len(related') : ids[i] = IF i < k THEN i ELSE i + 1
  <2> DEFINE f == [i \in 1..Len(related') |-> IF i < k THEN i ELSE i + 1]
  <2>1. \A i \in 1..Len(related') : f[i] = IF i < k THEN i ELSE i + 1
    OBVIOUS
  <2> HIDE DEF f
  <2> QED
    BY <2>1
<1>5. Rest(ids, U)
  <2>1. DOMAIN related' = 1..Len(related') /\ Len(related') \in Nat /\ k \in 1..Len(related)
    BY <1>1, <1>2
  <2>2. \A i \in DOMAIN related' : ids[i] \in DOMAIN related /\ related'[i] = related[ids[i]]
    BY <1>1, <1>2, <1>4, <2>1
  <2>3. \A i, j \in DOMAIN related' : i < j => ids[i] < ids[j]
    BY <1>4, <2>1
  <2>4. ASSUME NEW m \in DOMAIN related, related[m].story \notin U
        PROVE  \E i \in DOMAIN related' : ids[i] = m
    <3>1. m # k /\ m \in 1..Len(related)
      BY <1>1, <2>4
    <3>2. CASE m < k
      BY <1>1, <1>2, <1>4, <2>1, <3>1, <3>2
    <3>3. CASE m > k
      <4>1. m - 1 \in 1..Len(related') /\ ids[m - 1] = m
        BY <1>1, <1>2, <1>4, <2>1, <3>1, <3>3
      <4> QED
        BY <2>1, <4>1
    <3> QED
      BY <2>1, <3>1, <3>2, <3>3
  <2>5. \A s \in U : Of(related, s) # {}
    BY DEF Of
  <2> QED
    BY <1>1, <1>2, <2>2, <2>3, <2>4, <2>5 DEF Rest
<1>6. U \subseteq Stories
  BY <1>1
<1> HIDE DEF U
<1> QED
  BY <1>3, <1>5, <1>6, RestKeeps

LEMMA DeleteEpicKeeps ==
    ASSUME C!ColoursInv, NEW e \in Epics, C!DeleteEpic(e)
    PROVE  C!ColoursInv' /\ \A s \in Stories : KeepsColour(s) /\ KeepsChoice(s)
<1> DEFINE U == {s \in Stories : \E k \in DOMAIN related :
                                    related[k].epic = e /\ related[k].story = s}
           left == {k \in DOMAIN related : related[k].epic # e}
<1>1. /\ related \in Seq(Relation) /\ DOMAIN related = 1..Len(related) /\ Len(related) \in Nat
      /\ \A i \in DOMAIN related : related[i].story \in Stories /\ related[i] \in Relation
  BY ColoursTyped, RelationType DEF C!ColoursInv
<1>2. PICK n \in 0..Len(related) : \E ids \in C!Bijection(1..n, left) :
          /\ \A i, j \in DOMAIN ids : i < j => ids[i] < ids[j]
          /\ related' = [i \in DOMAIN ids |-> related[ids[i]]]
  BY DEF C!DeleteEpic
<1>4. PICK ids \in C!Bijection(1..n, left) :
          /\ \A i, j \in DOMAIN ids : i < j => ids[i] < ids[j]
          /\ related' = [i \in DOMAIN ids |-> related[ids[i]]]
  BY <1>2
<1>3. colour' = C!Synced(colour, related', U) /\ storyOf' = storyOf
  BY DEF C!DeleteEpic
<1>6. n \in Nat /\ n <= Len(related)
  BY <1>1
<1>7. ids \in [1..n -> left] /\ \A k \in left : \E i \in 1..n : ids[i] = k
  BY DEF C!Bijection, C!Surjection, C!Injection
<1>8. \A i \in 1..n : ids[i] \in DOMAIN related
  BY <1>7
<1>9. DOMAIN related' = 1..n /\ \A i \in 1..n : related'[i] = related[ids[i]]
  BY <1>4, <1>7
<1>10. related' \in [1..n -> Relation]
  BY <1>1, <1>4, <1>7, <1>8
<1>11. related' \in Seq(Relation) /\ Len(related') = n
  BY <1>6, <1>10
<1>12. Rest(ids, U)
  <2>1. \A k \in DOMAIN related : related[k].story \notin U => k \in left
    BY <1>1
  <2>2. \A s \in U : Of(related, s) # {}
    BY DEF Of
  <2>3. \A i, j \in 1..n : i < j => ids[i] < ids[j]
    BY <1>4, <1>7
  <2> HIDE DEF U, left
  <2> QED
    BY <1>6, <1>7, <1>8, <1>9, <1>11, <2>1, <2>2, <2>3 DEF Rest
<1>13. U \subseteq Stories
  OBVIOUS
<1> HIDE DEF U
<1> QED
  BY <1>3, <1>12, <1>13, RestKeeps

LEMMA RelateKeeps ==
    ASSUME C!ColoursInv, NEW e \in Epics, NEW r \in Stories, NEW o \in 0..MaxOrder,
           C!Relate(e, r, o)
    PROVE  C!ColoursInv' /\ \A s \in Stories : KeepsColour(s) /\ KeepsChoice(s)
<1> DEFINE new == [epic |-> e, story |-> r, order |-> o]
           U == {r}
<1>1. /\ colour \in Palette /\ related \in Seq(Relation)
      /\ storyOf \in [StoryTasks -> Stories \cup {Nowhere}]
      /\ DOMAIN related = 1..Len(related) /\ Len(related) \in Nat
  BY ColoursTyped DEF C!ColoursInv
<1>2. /\ Len(related) < MaxRelated /\ storyOf' = storyOf
      /\ \A k \in DOMAIN related : ~(related[k].epic = e /\ related[k].story = r)
      /\ related' = Append(related, new)
      /\ colour' = C!Synced(colour, related', U)
  BY DEF C!Relate
<1>3. new \in Relation /\ new.epic = e /\ new.story = r
  BY DEF Relation
<1> HIDE DEF new
<1>4. /\ related' \in Seq(Relation) /\ Len(related') = Len(related) + 1
      /\ \A i \in 1..Len(related) : related'[i] = related[i]
      /\ related'[Len(related) + 1] = new
  BY <1>1, <1>2, <1>3, AppendProperties
<1>5. DOMAIN related' = 1..(Len(related) + 1)
  BY <1>1, <1>4, RelationType
<1>6. \A i \in DOMAIN related' : i \in DOMAIN related \/ i = Len(related) + 1
  BY <1>1, <1>5
<1>7. C!ColoursInv'
  <2>1. colour' \in Palette
    <3>1. U \subseteq Stories
      OBVIOUS
    <3> HIDE DEF U
    <3> QED
      BY <1>1, <1>2, <1>4, <3>1, AfterSync
  <2>2. Len(related') <= MaxRelated
    BY <1>1, <1>2, <1>4, ColoursApart
  <2>3. ASSUME NEW i \in DOMAIN related', NEW j \in DOMAIN related',
               related'[i].epic = related'[j].epic, related'[i].story = related'[j].story
        PROVE  i = j
    <3>1. CASE i \in DOMAIN related /\ j \in DOMAIN related
      <4>1. related'[i] = related[i] /\ related'[j] = related[j]
        BY <1>1, <1>4, <3>1
      <4> QED
        BY <2>3, <3>1, <4>1 DEF C!ColoursInv
    <3>2. CASE i = Len(related) + 1 /\ j \in DOMAIN related
      BY <1>1, <1>2, <1>3, <1>4, <2>3, <3>2
    <3>3. CASE i \in DOMAIN related /\ j = Len(related) + 1
      BY <1>1, <1>2, <1>3, <1>4, <2>3, <3>3
    <3> QED
      BY <1>6, <3>1, <3>2, <3>3
  <2> QED
    BY <1>1, <1>2, <1>4, <2>1, <2>2, <2>3 DEF C!ColoursInv, C!ColoursTypeOK, Palette, Items, Relation
<1>8. ASSUME NEW s \in Stories PROVE KeepsColour(s) /\ KeepsChoice(s)
  <2>1. ASSUME s \notin U
        PROVE  C!Inherited(colour, related', s) = C!Inherited(colour, related, s)
    <3>1. Of(related', s) = Of(related, s)
      BY <1>1, <1>3, <1>4, <1>5, <1>6, <2>1 DEF Of
    <3>2. \A k \in Of(related, s) : related'[k] = related[k]
      BY <1>1, <1>4 DEF Of
    <3> QED
      BY <1>1, <1>4, <3>1, <3>2, UntouchedRelations
  <2>2. s \in U => Of(related', s) # {}
    <3>1. Len(related) + 1 \in DOMAIN related'
      BY <1>1, <1>5
    <3> QED
      BY <1>3, <1>4, <3>1 DEF Of
  <2>3. U \subseteq Stories
    OBVIOUS
  <2> HIDE DEF U
  <2> QED
    BY <1>2, <1>4, <2>1, <2>2, <2>3, RelationsKeep
<1> QED
  BY <1>7, <1>8

(* A reordered relation: its story is synchronised before the other         *)
(* relations of its epic, none of them the story's, are shifted.            *)
LEMMA ReorderKeeps ==
    ASSUME C!ColoursInv, NEW k \in DOMAIN related, NEW o \in 0..MaxOrder, C!Reorder(k, o)
    PROVE  /\ C!ColoursInv'
           /\ \A s \in Stories : KeepsColour(s) \/ s # related[k].story
           /\ \A s \in Stories : KeepsChoice(s)
<1> DEFINE saved == [related EXCEPT ![k].order = o]
           U == {related[k].story}
<1>1. /\ colour \in Palette /\ related \in Seq(Relation)
      /\ storyOf \in [StoryTasks -> Stories \cup {Nowhere}]
      /\ DOMAIN related = 1..Len(related) /\ Len(related) \in Nat
  BY ColoursTyped DEF C!ColoursInv
<1>2. /\ colour' = C!Synced(colour, saved, U)
      /\ related' = [m \in DOMAIN saved |->
                        IF m # k /\ saved[m].epic = saved[k].epic /\ saved[m].order >= o
                        THEN [saved[m] EXCEPT !.order = @ + 1] ELSE saved[m]]
      /\ \A m \in DOMAIN related' : related'[m].order <= MaxOrder
      /\ storyOf' = storyOf
  BY DEF C!Reorder
<1>3. /\ saved \in [1..Len(related) -> Relation]
      /\ \A m \in DOMAIN related : saved[m].epic = related[m].epic /\ saved[m].story = related[m].story
      /\ \A m \in DOMAIN related : m # k => saved[m] = related[m]
      /\ DOMAIN saved = DOMAIN related
  <2>1. \A m \in DOMAIN related : related[m] \in Relation
    BY <1>1
  <2>2. \A m \in DOMAIN related : saved[m] = IF m = k THEN [related[m] EXCEPT !.order = o] ELSE related[m]
    BY <1>1
  <2>3. DOMAIN saved = DOMAIN related
    OBVIOUS
  <2>4. \A m \in DOMAIN related :
            /\ saved[m] \in Relation
            /\ saved[m].epic = related[m].epic /\ saved[m].story = related[m].story
    BY <2>1, <2>2 DEF Relation
  <2>5. saved \in [DOMAIN saved -> Relation]
    <3>1. saved = [m \in DOMAIN saved |-> saved[m]]
      OBVIOUS
    <3> QED
      BY <2>3, <2>4, <3>1
  <2> QED
    BY <1>1, <2>2, <2>3, <2>4, <2>5
<1>4. saved \in Seq(Relation) /\ Len(saved) = Len(related)
  BY <1>1, <1>3
<1> HIDE DEF saved
<1>5. /\ DOMAIN related' = DOMAIN related
      /\ \A m \in DOMAIN related : /\ related'[m].epic = related[m].epic
                                   /\ related'[m].story = related[m].story
                                   /\ related'[m] # saved[m] =>
                                          m # k /\ related[m].epic = related[k].epic
      /\ \A m \in DOMAIN related : related'[m] \in [epic : Epics, story : Stories, order : Nat]
  <2>1. \A m \in DOMAIN related : saved[m] \in [epic : Epics, story : Stories, order : Nat]
    BY <1>1, <1>3 DEF Relation
  <2>2. DOMAIN related' = DOMAIN related
    BY <1>2, <1>3
  <2>3. ASSUME NEW m \in DOMAIN related
        PROVE  /\ related'[m].epic = saved[m].epic /\ related'[m].story = saved[m].story
               /\ related'[m] # saved[m] => m # k /\ saved[m].epic = saved[k].epic
               /\ related'[m] \in [epic : Epics, story : Stories, order : Nat]
    <3>1. related'[m] = IF m # k /\ saved[m].epic = saved[k].epic /\ saved[m].order >= o
                        THEN [saved[m] EXCEPT !.order = @ + 1] ELSE saved[m]
      BY <1>2, <1>3
    <3>2. saved[m] \in [epic : Epics, story : Stories, order : Nat]
      BY <2>1
    <3> QED
      BY <3>1, <3>2
  <2> QED
    BY <1>3, <2>2, <2>3
<1>6. related' \in Seq(Relation) /\ Len(related') = Len(related)
  <2>1. \A m \in DOMAIN related : related'[m] \in Relation
    BY <1>2, <1>5, ColoursApart DEF Relation
  <2>2. related' \in [1..Len(related) -> Relation]
    BY <1>1, <1>2, <1>5, <2>1
  <2> QED
    BY <1>1, <2>2
<1>7. C!ColoursInv'
  <2>1. colour' \in Palette
    BY <1>1, <1>2, <1>4, AfterSync, RelationType
  <2>2. \A i, j \in DOMAIN related' : related'[i].epic = related'[j].epic
                                      /\ related'[i].story = related'[j].story => i = j
    BY <1>5 DEF C!ColoursInv
  <2>3. Len(related) <= MaxRelated
    BY DEF C!ColoursInv, C!ColoursTypeOK
  <2> QED
    BY <1>1, <1>2, <1>6, <2>1, <2>2, <2>3
       DEF C!ColoursInv, C!ColoursTypeOK, Palette, Items, Relation
<1>8. C!Inherited(colour, related', related[k].story) = C!Inherited(colour, saved, related[k].story)
  <2>1. \A m \in Of(saved, related[k].story) : related'[m] = saved[m]
    <3> SUFFICES ASSUME NEW m \in Of(saved, related[k].story), related'[m] # saved[m]
                 PROVE  FALSE
      OBVIOUS
    <3>1. m \in DOMAIN related /\ related[m].story = related[k].story
      BY <1>3 DEF Of
    <3>2. m # k /\ related[m].epic = related[k].epic
      BY <1>5, <3>1
    <3> QED
      BY <3>1, <3>2 DEF C!ColoursInv
  <2>2. Of(related', related[k].story) = Of(saved, related[k].story)
    BY <1>3, <1>5 DEF Of
  <2> QED
    BY <1>4, <1>6, <2>1, <2>2, UntouchedRelations
<1>9. related[k].story \in Stories /\ U \subseteq Stories
  BY <1>1, RelationType
<1>10. KeepsColour(related[k].story)
  <2>1. C!ColoursTypeOK
    BY DEF C!ColoursInv
  <2>2. PICK s \in Stories : s = related[k].story
    BY <1>9
  <2>3. s \in U /\ C!Inherited(colour, related', s) = C!Inherited(colour, saved, s)
    BY <1>8, <2>2
  <2> HIDE DEF U
  <2>4. C!Coloured(s) => C!Coloured(s)'
    BY <1>1, <1>2, <1>4, <1>6, <1>9, <2>1, <2>3, SyncKeepsColour
  <2>5. KeepsColour(s)
    BY <2>4 DEF KeepsColour
  <2> QED
    BY <2>2, <2>5
<1>11. ASSUME NEW s \in Stories PROVE KeepsChoice(s)
  <2>1. CASE s \in U
    <3>1. Of(related, s) # {}
      BY <2>1 DEF Of
    <3>2. C!Inherited(colour, related, s) # NoColour
      BY <1>1, <3>1, InheritedType
    <3> QED
      BY <3>2 DEF KeepsChoice
  <2>2. CASE s \notin U
    <3>1. C!ColoursTypeOK
      BY DEF C!ColoursInv
    <3> HIDE DEF U
    <3>2. \A i \in {s} \cup C!TasksOf(s) : colour'[i] = colour[i]
      BY <1>1, <1>2, <1>4, <1>9, <2>2, <3>1, OutsideSync
    <3> QED
      BY <3>2 DEF KeepsChoice
  <2> QED
    BY <2>1, <2>2
<1> QED
  BY <1>7, <1>10, <1>11

LEMMA ColoursInitInv == C!ColoursInit => C!ColoursInv
<1> SUFFICES ASSUME C!ColoursInit PROVE C!ColoursInv
  OBVIOUS
<1>1. related = <<>> /\ related \in Seq(Relation) /\ Len(related) = 0 /\ DOMAIN related = {}
  BY DEF C!ColoursInit
<1>2. storyOf \in [StoryTasks -> Stories \cup {Nowhere}]
  BY DEF C!ColoursInit
<1>3. colour \in [Items -> Shades \cup {NoColour}] /\ \A e \in Epics : colour[e] \in Shades
  BY DEF C!ColoursInit, Items
<1> QED
  BY <1>1, <1>2, <1>3, ColoursApart DEF C!ColoursInv, C!ColoursTypeOK, Items, Relation

LEMMA ColoursStepIsSound ==
    ASSUME C!ColoursInv, C!ColoursNext
    PROVE  C!ColoursInv' /\ C!OnlyReorderLosesColour /\ C!ChosenColourStays
<1>1. /\ C!ColoursInv'
      /\ \A s \in Stories : KeepsColour(s) \/ (request'[1] = "reorder" /\ request'[2] # s)
      /\ \A s \in Stories : KeepsChoice(s)
  <2>1. ASSUME NEW e \in Epics, NEW c \in Shades, C!ColourEpic(e, c) PROVE <1>1!:
    BY <2>1, ColourEpicKeeps
  <2>2. ASSUME \/ \E s \in Stories, c \in Shades : C!ColourStory(s, c)
               \/ \E t \in StoryTasks, c \in Shades : C!ColourTask(t, c)
               \/ \E s \in Stories : C!SaveStory(s)
               \/ \E t \in StoryTasks, u \in Stories \cup {Nowhere} : C!SaveTask(t, u)
        PROVE  <1>1!:
    BY <2>2, ColourItemKeeps
  <2>3. ASSUME NEW e \in Epics, NEW s \in Stories, NEW o \in 0..MaxOrder, C!Relate(e, s, o)
        PROVE  <1>1!:
    BY <2>3, RelateKeeps
  <2>4. ASSUME NEW k \in DOMAIN related, C!Unrelate(k) PROVE <1>1!:
    BY <2>4, UnrelateKeeps
  <2>5. ASSUME NEW e \in Epics, C!DeleteEpic(e) PROVE <1>1!:
    BY <2>5, DeleteEpicKeeps
  <2>6. ASSUME NEW k \in DOMAIN related, NEW o \in 0..MaxOrder, C!Reorder(k, o) PROVE <1>1!:
    <3>1. request' = <<"reorder", related[k].story>>
      BY <2>6 DEF C!Reorder
    <3>2. request'[1] = "reorder" /\ request'[2] = related[k].story
      BY <3>1
    <3> QED
      BY <2>6, <3>2, ReorderKeeps
  <2> QED
    BY <2>1, <2>2, <2>3, <2>4, <2>5, <2>6 DEF C!ColoursNext
<1> QED
  BY <1>1 DEF KeepsColour, KeepsChoice, C!OnlyReorderLosesColour, C!ChosenColourStays

ColoursPart == part = "colours" => C!ColoursInv

LEMMA ColoursRest == UNCHANGED colourVars => (C!ColoursInv' <=> C!ColoursInv)
BY DEF colourVars, C!ColoursInv, C!ColoursTypeOK

LEMMA ColoursPartInvariant == Spec => []ColoursPart
<1>1. Init => ColoursPart
  BY ColoursInitInv DEF Init, ColoursPart
<1>2. ColoursPart /\ [Next]_backendVars => ColoursPart'
  <2> SUFFICES ASSUME ColoursPart, [Next]_backendVars
               PROVE  ColoursPart'
    OBVIOUS
  <2>1. CASE ColoursStep
    BY <2>1, ColoursStepIsSound DEF ColoursPart, ColoursStep
  <2>2. CASE part' = part /\ UNCHANGED colourVars
    BY <2>2, ColoursRest DEF ColoursPart
  <2> QED
    BY <2>1, <2>2 DEF Next, EditsStep, CountersStep, ClosingStep, BoardsStep, OwnershipStep,
                      WideningStep, backendVars
<1> QED
  BY <1>1, <1>2, PTL DEF Spec

LEMMA ColoursAlways ==
    ColoursPart /\ [Next]_backendVars =>
        [part = "colours" => C!OnlyReorderLosesColour /\ C!ChosenColourStays]_backendVars
<1> SUFFICES ASSUME ColoursPart, Next, part = "colours"
             PROVE  C!OnlyReorderLosesColour /\ C!ChosenColourStays
  OBVIOUS
<1>1. C!ColoursInv /\ C!ColoursNext
  BY DEF ColoursPart, Next, EditsStep, ColoursStep, ClosingStep, CountersStep, BoardsStep,
         OwnershipStep, WideningStep
<1> QED
  BY <1>1, ColoursStepIsSound

(* However epics, stories and tasks are recoloured, saved, related and      *)
(* deleted, a story and its tasks that have the colour of its first epic    *)
(* keep having it, but for a reorder of another story's relation            *)
(* (_related_userstory_post_save and the services of schedule/services.py). *)
THEOREM OnlyReorderLosesColourHolds == Spec => OnlyReorderLosesColour
BY ColoursAlways, ColoursPartInvariant, PTL DEF Spec, OnlyReorderLosesColour

(* What a client chose for an item outside of any epic stays through every  *)
(* request that does not recolour it (schedule/services.py).                *)
THEOREM ChosenColourStaysHolds == Spec => ChosenColourStays
BY ColoursAlways, ColoursPartInvariant, PTL DEF Spec, ChosenColourStays

-----------------------------------------------------------------------------
(* Counters.                                                               *)

USE DEF K!Tables

LEMMA CountersFree == Free \notin Handlers
BY BackendAssumption DEF K!CountersAssumption

LEMMA SameSizes ==
    \A S : K!IsFiniteSet(S) = IsFiniteSet(S) /\ K!Cardinality(S) = Cardinality(S)
BY Zenon DEF K!IsFiniteSet, IsFiniteSet, K!Cardinality, Cardinality

LEMMA CountersInitInv == K!CountersInit => K!CountersInv
<1> SUFFICES ASSUME K!CountersInit
             PROVE  K!CountersInv
  OBVIOUS
<1>1. votes.count = 0 /\ votes.misses = 0 /\ votes.rows = {}
  BY DEF K!CountersInit
<1>2. K!OnlyRacedRemovalsMiscount /\ IsFiniteSet(votes.rows)
  BY <1>1, FS_EmptySet, SameSizes DEF K!OnlyRacedRemovalsMiscount
<1>6. IsFiniteSet(likes.rows)
  BY FS_EmptySet DEF K!CountersInit
<1>3. K!Idle \in K!Transaction
  BY DEF K!Idle, K!Transaction
<1>4. tx \in [Handlers -> K!Transaction] /\ rowLock \in [K!Tables -> Handlers \cup {Free}]
  BY <1>3 DEF K!CountersInit
<1>5. \A h \in Handlers : tx[h].pc = "idle" /\ ~tx[h].changed
  BY DEF K!CountersInit, K!Idle
<1> QED
  BY <1>1, <1>2, <1>4, <1>5, <1>6, SameSizes DEF K!CountersInv, K!RequestInv, K!Apart


(* What is left to show of a step that commits nothing: the request that    *)
(* moves, and what it shares with every other.                              *)
LEMMA OneRequestMoves ==
    ASSUME K!CountersInv, NEW h \in Handlers,
           votes' = votes, likes' = likes,
           tx' \in [Handlers -> K!Transaction],
           \A g \in Handlers \ {h} : tx'[g] = tx[g],
           rowLock' \in [K!Tables -> Handlers \cup {Free}],
           \A k \in K!Tables : rowLock[k] = Free \/ rowLock'[k] = rowLock[k],
           K!RequestInv(h)',
           \A g \in Handlers \ {h} : K!Apart(g, h)'
    PROVE  K!CountersInv'
<1>1. (/\ votes.count \in Int /\ votes.misses \in Int /\ K!IsFiniteSet(votes.rows)
        /\ K!IsFiniteSet(likes.rows))'
      /\ K!OnlyRacedRemovalsMiscount'
  BY DEF K!CountersInv, K!OnlyRacedRemovalsMiscount
<1>2. ASSUME NEW g \in Handlers \ {h} PROVE K!RequestInv(g)'
  <2>1. K!RequestInv(g) /\ tx'[g] = tx[g] /\ tx[g].table \in K!Tables
    BY DEF K!CountersInv, K!Transaction
  <2>2. tx[g].pc = "commit" => rowLock'[tx[g].table] = g
    BY <2>1, CountersFree DEF K!RequestInv
  <2> QED
    BY <2>1, <2>2 DEF K!RequestInv, K!Rows, K!RowsAfter
<1>3. ASSUME NEW g \in Handlers, NEW i \in Handlers, g # i PROVE K!Apart(g, i)'
  <2>1. CASE g # h /\ i # h
    BY <1>3, <2>1 DEF K!CountersInv, K!Apart
  <2>2. CASE g = h \/ i = h
    BY <1>3, <2>2 DEF K!Apart
  <2> QED
    BY <2>1, <2>2
<1> QED
  BY <1>1, <1>2, <1>3 DEF K!CountersInv

(* The same of a step that leaves the requests' locks alone and writes no   *)
(* row: it keeps what it had, or ends.                                      *)
LEMMA OneRequestReads ==
    ASSUME K!CountersInv, NEW h \in Handlers,
           votes' = votes, likes' = likes, rowLock' = rowLock,
           NEW x \in K!Transaction,
           tx' = [tx EXCEPT ![h] = x],
           ~x.changed,
           x.pc # "idle" => x.table = tx[h].table /\ x.crossed = tx[h].crossed /\ tx[h].pc # "idle",
           x.pc \in {"idle", "lock", "exists", "write"} \/ (x.pc = "total" /\ (x.table = "votes" => ~x.add))
    PROVE  K!CountersInv'
<1>1. tx \in [Handlers -> K!Transaction] /\ rowLock \in [K!Tables -> Handlers \cup {Free}]
  BY DEF K!CountersInv
<1>2. tx' \in [Handlers -> K!Transaction] /\ tx'[h] = x /\ \A g \in Handlers \ {h} : tx'[g] = tx[g]
  BY <1>1
<1>3. K!RequestInv(h)'
  BY <1>2 DEF K!RequestInv
<1>4. ASSUME NEW g \in Handlers \ {h} PROVE K!Apart(g, h)'
  <2>1. K!Apart(g, h)
    BY DEF K!CountersInv
  <2> QED
    BY <1>2, <2>1 DEF K!Apart
<1> QED
  BY <1>1, <1>2, <1>3, <1>4, OneRequestMoves


LEMMA IdleIsIdle ==
    K!Idle \in K!Transaction /\ K!Idle.pc = "idle" /\ K!Idle.table = "votes" /\ ~K!Idle.changed
BY DEF K!Idle, K!Transaction

LEMMA StartVoteKeeps ==
    ASSUME K!CountersInv, NEW h \in Handlers, NEW u \in Voters, NEW add \in BOOLEAN,
           K!StartVote(h, u, add)
    PROVE  K!CountersInv'
<1> DEFINE x == [K!Idle EXCEPT !.pc = "lock", !.add = add, !.user = u]
<1>1. x \in K!Transaction /\ x.pc = "lock" /\ ~x.changed /\ x.table = "votes"
  BY IdleIsIdle DEF K!Transaction
<1>2. tx' = [tx EXCEPT ![h] = x] /\ tx[h].pc = "idle"
      /\ votes' = votes /\ likes' = likes /\ rowLock' = rowLock
  BY DEF K!StartVote
<1>3. tx \in [Handlers -> K!Transaction] /\ rowLock \in [K!Tables -> Handlers \cup {Free}]
  BY DEF K!CountersInv
<1> HIDE DEF x
<1>4. tx' \in [Handlers -> K!Transaction] /\ tx'[h] = x /\ \A g \in Handlers \ {h} : tx'[g] = tx[g]
  BY <1>1, <1>2, <1>3
<1>5. K!RequestInv(h)'
  BY <1>1, <1>4 DEF K!RequestInv
<1>6. ASSUME NEW g \in Handlers \ {h} PROVE K!Apart(g, h)'
  BY <1>1, <1>4 DEF K!Apart
<1> QED
  BY <1>2, <1>3, <1>4, <1>5, <1>6, OneRequestMoves

(* A like crosses those that are under way. *)
LEMMA StartLikeKeeps ==
    ASSUME K!CountersInv, NEW h \in Handlers, NEW u \in Voters, NEW add \in BOOLEAN,
           K!StartLike(h, u, add)
    PROVE  K!CountersInv'
<1> DEFINE busy == {g \in Handlers : tx[g].pc # "idle" /\ tx[g].table = "likes"}
           x == [K!Idle EXCEPT !.pc = IF add THEN "write" ELSE "exists", !.table = "likes",
                               !.add = add, !.user = u, !.crossed = busy # {}]
<1>1. /\ x \in K!Transaction /\ x.pc \in {"write", "exists"} /\ ~x.changed
      /\ x.table = "likes" /\ (x.crossed <=> busy # {})
  BY IdleIsIdle DEF K!Transaction
<1>2. /\ tx' = [g \in Handlers |-> IF g = h THEN x
                                   ELSE IF g \in busy THEN [tx[g] EXCEPT !.crossed = TRUE] ELSE tx[g]]
      /\ tx[h].pc = "idle"
      /\ votes' = votes /\ likes' = likes /\ rowLock' = rowLock
  BY DEF K!StartLike
<1>3. tx \in [Handlers -> K!Transaction] /\ rowLock \in [K!Tables -> Handlers \cup {Free}]
  BY DEF K!CountersInv
<1>4. \A g \in busy : g \in Handlers /\ tx[g].pc # "idle" /\ tx[g].table = "likes"
  OBVIOUS
<1>5. \A g \in Handlers \ busy : tx[g].pc = "idle" \/ tx[g].table # "likes"
  OBVIOUS
<1>6. tx'[h] = x
  BY <1>2
<1> HIDE DEF x, busy
<1>7. ASSUME NEW g \in Handlers \ {h}
      PROVE  /\ tx'[g] \in K!Transaction
             /\ tx'[g].pc = tx[g].pc /\ tx'[g].table = tx[g].table /\ tx'[g].add = tx[g].add
             /\ tx'[g].user = tx[g].user /\ tx'[g].changed = tx[g].changed
             /\ tx'[g].total = tx[g].total
             /\ tx'[g].crossed <=> (tx[g].crossed \/ g \in busy)
  <2>1. tx[g] \in K!Transaction
    BY <1>3
  <2>2. CASE g \in busy
    <3>1. tx'[g] = [tx[g] EXCEPT !.crossed = TRUE]
      BY <1>2, <2>2
    <3> QED
      BY <2>1, <2>2, <3>1 DEF K!Transaction
  <2>3. CASE g \notin busy
    BY <1>2, <2>1, <2>3
  <2> QED
    BY <2>2, <2>3
<1>8. tx' \in [Handlers -> K!Transaction]
  <2>1. \A g \in Handlers : tx'[g] \in K!Transaction
    BY <1>1, <1>6, <1>7
  <2>2. DOMAIN tx' = Handlers /\ tx' = [g \in Handlers |-> tx'[g]]
    BY <1>2
  <2> QED
    BY <2>1, <2>2
<1>9. (/\ votes.count \in Int /\ votes.misses \in Int /\ K!IsFiniteSet(votes.rows)
        /\ K!IsFiniteSet(likes.rows))'
      /\ K!OnlyRacedRemovalsMiscount'
  BY <1>2 DEF K!CountersInv, K!OnlyRacedRemovalsMiscount
<1>10. ASSUME NEW g \in Handlers PROVE K!RequestInv(g)'
  <2>1. CASE g = h
    BY <1>1, <1>6, <2>1 DEF K!RequestInv
  <2>2. CASE g # h
    <3>1. K!RequestInv(g)
      BY DEF K!CountersInv
    <3>2. K!RowsAfter(g)' = K!RowsAfter(g) /\ K!Rows(tx[g].table)' = K!Rows(tx[g].table)
      BY <1>2, <1>7, <2>2 DEF K!RowsAfter, K!Rows
    <3> QED
      BY <1>2, <1>7, <2>2, <3>1, <3>2 DEF K!RequestInv, K!Rows
  <2> QED
    BY <2>1, <2>2
<1>11. ASSUME NEW g \in Handlers, NEW i \in Handlers, g # i PROVE K!Apart(g, i)'
  <2>1. CASE g = h
    <3>1. i \in busy \/ tx[i].pc = "idle" \/ tx[i].table # "likes"
      BY <1>5
    <3> QED
      BY <1>1, <1>6, <1>7, <1>11, <2>1, <3>1 DEF K!Apart
  <2>2. CASE i = h
    <3>1. g \in busy \/ tx[g].pc = "idle" \/ tx[g].table # "likes"
      BY <1>5
    <3> QED
      BY <1>1, <1>6, <1>7, <1>11, <2>2, <3>1 DEF K!Apart
  <2>3. CASE g # h /\ i # h
    <3>1. K!Apart(g, i)
      BY <1>11 DEF K!CountersInv
    <3> QED
      BY <1>7, <2>3, <3>1 DEF K!Apart
  <2> QED
    BY <2>1, <2>2, <2>3
<1> QED
  BY <1>2, <1>3, <1>8, <1>9, <1>10, <1>11 DEF K!CountersInv

LEMMA TakeLockKeeps ==
    ASSUME K!CountersInv, NEW h \in Handlers, K!TakeLock(h)
    PROVE  K!CountersInv'
<1> DEFINE x == [tx[h] EXCEPT !.pc = IF tx[h].add THEN "write" ELSE "exists"]
<1>1. tx[h] \in K!Transaction /\ K!RequestInv(h)
  BY DEF K!CountersInv
<1>2. ~tx[h].changed /\ tx[h].pc = "lock"
  BY <1>1 DEF K!TakeLock, K!RequestInv
<1>3. /\ x \in K!Transaction /\ ~x.changed /\ x.pc \in {"exists", "write"}
      /\ x.table = tx[h].table /\ x.crossed = tx[h].crossed
  BY <1>1, <1>2 DEF K!Transaction
<1>4. tx' = [tx EXCEPT ![h] = x] /\ votes' = votes /\ likes' = likes /\ rowLock' = rowLock
  BY DEF K!TakeLock, K!Goto
<1> HIDE DEF x
<1> QED
  BY <1>2, <1>3, <1>4, OneRequestReads

LEMMA LookUpKeeps ==
    ASSUME K!CountersInv, NEW h \in Handlers, K!LookUp(h)
    PROVE  K!CountersInv'
<1> DEFINE x == IF tx[h].user \in K!Rows(tx[h].table) THEN [tx[h] EXCEPT !.pc = "write"] ELSE K!Idle
<1>1. tx[h] \in K!Transaction /\ K!RequestInv(h)
  BY DEF K!CountersInv
<1>2. ~tx[h].changed /\ tx[h].pc = "exists"
  BY <1>1 DEF K!LookUp, K!RequestInv
<1>3. /\ x \in K!Transaction /\ ~x.changed /\ x.pc \in {"idle", "write"}
      /\ x.pc # "idle" => x.table = tx[h].table /\ x.crossed = tx[h].crossed
  BY <1>1, <1>2, IdleIsIdle DEF K!Transaction
<1>4. tx' = [tx EXCEPT ![h] = x] /\ votes' = votes /\ likes' = likes /\ rowLock' = rowLock
  BY DEF K!LookUp, K!Goto, K!End
<1> HIDE DEF x
<1> QED
  BY <1>2, <1>3, <1>4, OneRequestReads


(* A request in doubt about a row is behind the one that wrote it.          *)
LEMMA NobodyElseWrote ==
    ASSUME K!CountersInv, NEW h \in Handlers, ~K!RowInDoubt(h), NEW g \in Handlers \ {h},
           tx[g].table = tx[h].table, tx[g].changed
    PROVE  tx[g].user # tx[h].user
<1>1. tx[g].pc # "idle"
  BY DEF K!CountersInv, K!RequestInv
<1> QED
  BY <1>1 DEF K!RowInDoubt, K!Others

LEMMA WriteKeeps ==
    ASSUME K!CountersInv, NEW h \in Handlers, ~K!RowInDoubt(h), tx[h].pc = "write",
           NEW c \in BOOLEAN, tx[h].add => c,
           c => (tx[h].user \in K!Rows(tx[h].table) <=> ~tx[h].add),
           K!Changes(h, "total", c),
           votes' = votes, likes' = likes, rowLock' = rowLock
    PROVE  K!CountersInv'
<1> DEFINE x == [tx[h] EXCEPT !.pc = "total", !.changed = c]
<1>1. tx[h] \in K!Transaction
  BY DEF K!CountersInv
<1>2. /\ x \in K!Transaction /\ x.pc = "total" /\ x.table = tx[h].table /\ x.add = tx[h].add
      /\ x.user = tx[h].user /\ x.changed = c /\ x.crossed = tx[h].crossed
  BY <1>1 DEF K!Transaction
<1>3. tx' = [tx EXCEPT ![h] = x]
  BY DEF K!Changes
<1> HIDE DEF x
<1>4. tx \in [Handlers -> K!Transaction] /\ rowLock \in [K!Tables -> Handlers \cup {Free}]
  BY DEF K!CountersInv
<1>5. tx' \in [Handlers -> K!Transaction] /\ tx'[h] = x /\ \A g \in Handlers \ {h} : tx'[g] = tx[g]
  BY <1>2, <1>3, <1>4
<1>6. K!RequestInv(h)'
  BY <1>2, <1>5 DEF K!RequestInv, K!Rows
<1>7. ASSUME NEW g \in Handlers \ {h} PROVE K!Apart(g, h)'
  <2>1. K!Apart(g, h)
    BY DEF K!CountersInv
  <2>2. tx[g].table = tx[h].table /\ tx[g].changed => tx[g].user # tx[h].user
    BY NobodyElseWrote
  <2> QED
    BY <1>2, <1>5, <2>1, <2>2 DEF K!Apart
<1> QED
  BY <1>4, <1>5, <1>6, <1>7, OneRequestMoves

LEMMA InsertKeeps ==
    ASSUME K!CountersInv, NEW h \in Handlers, K!Insert(h)
    PROVE  K!CountersInv'
<1>1. tx[h] \in K!Transaction /\ K!RequestInv(h)
  BY DEF K!CountersInv
<1>2. ~tx[h].changed /\ tx[h].pc = "write"
  BY <1>1 DEF K!Insert, K!RequestInv
<1>3. CASE tx[h].user \in K!Rows(tx[h].table)
  <2> DEFINE x == IF tx[h].table = "votes" THEN K!Idle ELSE [tx[h] EXCEPT !.pc = "total"]
  <2>1. /\ x \in K!Transaction /\ ~x.changed
        /\ x.pc = "idle" \/ (x.pc = "total" /\ x.table # "votes")
        /\ x.pc # "idle" => x.table = tx[h].table /\ x.crossed = tx[h].crossed
    BY <1>1, <1>2, IdleIsIdle DEF K!Transaction
  <2>2. tx' = [tx EXCEPT ![h] = x] /\ votes' = votes /\ likes' = likes /\ rowLock' = rowLock
    BY <1>3 DEF K!Insert, K!Goto, K!End
  <2> HIDE DEF x
  <2> QED
    BY <1>2, <2>1, <2>2, OneRequestReads
<1>4. CASE tx[h].user \notin K!Rows(tx[h].table)
  BY <1>2, <1>4, WriteKeeps DEF K!Insert
<1> QED
  BY <1>3, <1>4

LEMMA DeleteKeeps ==
    ASSUME K!CountersInv, NEW h \in Handlers, K!Delete(h)
    PROVE  K!CountersInv'
<1> DEFINE c == tx[h].user \in K!Rows(tx[h].table)
<1>1. tx[h].pc = "write" /\ ~tx[h].add /\ ~K!RowInDoubt(h) /\ c \in BOOLEAN
      /\ K!Changes(h, "total", c) /\ votes' = votes /\ likes' = likes /\ rowLock' = rowLock
  BY DEF K!Delete
<1>2. c => (tx[h].user \in K!Rows(tx[h].table) <=> ~tx[h].add)
  BY <1>1
<1> HIDE DEF c
<1> QED
  BY <1>1, <1>2, WriteKeeps

LEMMA UpdateCountKeeps ==
    ASSUME K!CountersInv, NEW h \in Handlers, K!UpdateCount(h)
    PROVE  K!CountersInv'
<1>1. tx[h] \in K!Transaction /\ K!RequestInv(h) /\ votes.count \in Int
  BY DEF K!CountersInv
<1>2. tx \in [Handlers -> K!Transaction] /\ rowLock \in [K!Tables -> Handlers \cup {Free}]
  BY DEF K!CountersInv
<1>3. tx[h].pc = "total" /\ tx[h].table = "votes" /\ rowLock["votes"] = Free
      /\ votes' = votes /\ likes' = likes
  BY DEF K!UpdateCount
<1>4. CASE tx[h].add \/ votes.count > 0
  <2> DEFINE n == votes.count + (IF tx[h].add THEN 1 ELSE -1)
             x == [tx[h] EXCEPT !.pc = "commit", !.total = n]
  <2>1. n \in Int
    BY <1>1
  <2>2. tx' = [tx EXCEPT ![h] = x] /\ rowLock' = [rowLock EXCEPT !["votes"] = h]
    BY <1>4 DEF K!UpdateCount
  <2> HIDE DEF n
  <2>3. /\ x \in K!Transaction /\ x.pc = "commit" /\ x.table = "votes" /\ x.add = tx[h].add
        /\ x.user = tx[h].user /\ x.changed = tx[h].changed /\ x.crossed = tx[h].crossed
        /\ x.total = n
    BY <1>1, <1>3, <2>1 DEF K!Transaction
  <2> HIDE DEF x
  <2>4. tx' \in [Handlers -> K!Transaction] /\ tx'[h] = x /\ \A g \in Handlers \ {h} : tx'[g] = tx[g]
    BY <1>2, <2>2, <2>3
  <2>5. /\ rowLock' \in [K!Tables -> Handlers \cup {Free}] /\ rowLock'["votes"] = h
        /\ \A k \in K!Tables : rowLock[k] = Free \/ rowLock'[k] = rowLock[k]
    BY <1>2, <1>3, <2>2
  <2>6. K!RequestInv(h)'
    <3>1. K!Rows("votes")' = K!Rows("votes")
      BY <1>3 DEF K!Rows
    <3>2. n = votes.count + (IF tx[h].add THEN 1 ELSE -1)
      BY DEF n
    <3> QED
      BY <1>1, <1>3, <2>3, <2>4, <2>5, <3>1, <3>2 DEF K!RequestInv, K!Rows
  <2>7. ASSUME NEW g \in Handlers \ {h} PROVE K!Apart(g, h)'
    <3>1. K!Apart(g, h)
      BY DEF K!CountersInv
    <3> QED
      BY <1>3, <2>3, <2>4, <3>1 DEF K!Apart
  <2> QED
    BY <1>3, <2>4, <2>5, <2>6, <2>7, OneRequestMoves
<1>5. CASE ~(tx[h].add \/ votes.count > 0)
  <2>1. tx' = [tx EXCEPT ![h] = K!Idle] /\ rowLock' = rowLock
    BY <1>5 DEF K!UpdateCount, K!End
  <2> QED
    BY <1>3, <2>1, IdleIsIdle, OneRequestReads
<1> QED
  BY <1>4, <1>5


LEMMA RowsAfterFinite ==
    ASSUME K!CountersInv, NEW h \in Handlers
    PROVE  IsFiniteSet(K!RowsAfter(h)) /\ Cardinality(K!RowsAfter(h)) \in Nat
<1>1. IsFiniteSet(K!Rows(tx[h].table))
  BY SameSizes DEF K!CountersInv, K!Rows
<1>2. IsFiniteSet(K!RowsAfter(h))
  BY <1>1, FS_AddElement, FS_RemoveElement DEF K!RowsAfter
<1> QED
  BY <1>2, FS_CardinalityType

(* The fans are counted, then saved: what the project will get is the       *)
(* number of the rows it will have.                                         *)
LEMMA CountFansKeeps ==
    ASSUME K!CountersInv, NEW h \in Handlers, K!CountFans(h)
    PROVE  K!CountersInv'
<1> DEFINE n == K!Cardinality(K!RowsAfter(h))
           x == [tx[h] EXCEPT !.pc = "save", !.total = n]
<1>1. tx[h] \in K!Transaction /\ K!RequestInv(h) /\ n \in Int
  BY RowsAfterFinite, SameSizes DEF K!CountersInv
<1>2. tx \in [Handlers -> K!Transaction] /\ rowLock \in [K!Tables -> Handlers \cup {Free}]
  BY DEF K!CountersInv
<1>3. tx[h].pc = "total" /\ tx[h].table = "likes" /\ tx' = [tx EXCEPT ![h] = x]
      /\ votes' = votes /\ likes' = likes /\ rowLock' = rowLock
  BY DEF K!CountFans
<1> HIDE DEF n
<1>4. /\ x \in K!Transaction /\ x.pc = "save" /\ x.table = "likes" /\ x.add = tx[h].add
      /\ x.user = tx[h].user /\ x.changed = tx[h].changed /\ x.crossed = tx[h].crossed
      /\ x.total = n
  BY <1>1, <1>3 DEF K!Transaction
<1> HIDE DEF x
<1>5. tx' \in [Handlers -> K!Transaction] /\ tx'[h] = x /\ \A g \in Handlers \ {h} : tx'[g] = tx[g]
  BY <1>2, <1>3, <1>4
<1>6. K!RowsAfter(h)' = K!RowsAfter(h) /\ K!Rows("likes")' = K!Rows("likes")
  BY <1>3, <1>4, <1>5 DEF K!RowsAfter, K!Rows
<1>7. n = K!Cardinality(K!RowsAfter(h)')
  BY <1>6 DEF n
<1>8. K!RequestInv(h)'
  BY <1>1, <1>3, <1>4, <1>5, <1>6, <1>7 DEF K!RequestInv, K!Rows
<1>9. ASSUME NEW g \in Handlers \ {h} PROVE K!Apart(g, h)'
  <2>1. K!Apart(g, h)
    BY DEF K!CountersInv
  <2> QED
    BY <1>3, <1>4, <1>5, <2>1 DEF K!Apart
<1> QED
  BY <1>2, <1>3, <1>5, <1>8, <1>9, OneRequestMoves

LEMMA SaveFansKeeps ==
    ASSUME K!CountersInv, NEW h \in Handlers, K!SaveFans(h)
    PROVE  K!CountersInv'
<1> DEFINE x == [tx[h] EXCEPT !.pc = "commit"]
<1>1. tx[h] \in K!Transaction /\ K!RequestInv(h)
  BY DEF K!CountersInv
<1>2. tx \in [Handlers -> K!Transaction] /\ rowLock \in [K!Tables -> Handlers \cup {Free}]
  BY DEF K!CountersInv
<1>3. tx[h].pc = "save" /\ tx[h].table = "likes" /\ tx' = [tx EXCEPT ![h] = x]
      /\ votes' = votes /\ likes' = likes
      /\ rowLock["likes"] = Free /\ rowLock' = [rowLock EXCEPT !["likes"] = h]
  BY <1>1 DEF K!SaveFans, K!Goto, K!RequestInv
<1>4. /\ x \in K!Transaction /\ x.pc = "commit" /\ x.table = "likes" /\ x.add = tx[h].add
      /\ x.user = tx[h].user /\ x.changed = tx[h].changed /\ x.crossed = tx[h].crossed
      /\ x.total = tx[h].total
  BY <1>1, <1>3 DEF K!Transaction
<1> HIDE DEF x
<1>5. tx' \in [Handlers -> K!Transaction] /\ tx'[h] = x /\ \A g \in Handlers \ {h} : tx'[g] = tx[g]
  BY <1>2, <1>3, <1>4
<1>6. K!RowsAfter(h)' = K!RowsAfter(h) /\ K!Rows("likes")' = K!Rows("likes")
  BY <1>3, <1>4, <1>5 DEF K!RowsAfter, K!Rows
<1>7. /\ rowLock' \in [K!Tables -> Handlers \cup {Free}] /\ rowLock'["likes"] = h
      /\ \A k \in K!Tables : rowLock[k] = Free \/ rowLock'[k] = rowLock[k]
  BY <1>2, <1>3
<1>8. K!RequestInv(h)'
  BY <1>1, <1>3, <1>4, <1>5, <1>6, <1>7 DEF K!RequestInv, K!Rows
<1>9. ASSUME NEW g \in Handlers \ {h} PROVE K!Apart(g, h)'
  <2>1. K!Apart(g, h)
    BY DEF K!CountersInv
  <2> QED
    BY <1>3, <1>4, <1>5, <2>1 DEF K!Apart
<1> QED
  BY <1>3, <1>5, <1>7, <1>8, <1>9, OneRequestMoves


(* What a vote commits: the counter moves with the rows, or a removal that  *)
(* deleted nothing is noted.                                                *)
LEMMA VotesCommitted ==
    ASSUME K!CountersInv, NEW h \in Handlers, K!Commit(h), tx[h].table = "votes"
    PROVE  /\ votes'.count \in Int /\ votes'.misses \in Int /\ IsFiniteSet(votes'.rows)
           /\ votes'.rows = K!RowsAfter(h)
           /\ votes'.count + votes'.misses = Cardinality(votes'.rows)
<1>1. /\ tx[h] \in K!Transaction /\ K!RequestInv(h) /\ votes.count \in Int /\ votes.misses \in Int
      /\ IsFiniteSet(votes.rows) /\ votes.count + votes.misses = Cardinality(votes.rows)
  BY SameSizes DEF K!CountersInv, K!OnlyRacedRemovalsMiscount
<1>2. tx[h].pc = "commit"
      /\ votes' = [rows |-> K!RowsAfter(h), count |-> tx[h].total,
                   misses |-> votes.misses + (IF tx[h].changed THEN 0 ELSE 1)]
  BY DEF K!Commit
<1>3. /\ votes'.rows = K!RowsAfter(h) /\ votes'.count = tx[h].total
      /\ votes'.misses = votes.misses + (IF tx[h].changed THEN 0 ELSE 1)
  BY <1>2
<1>4. tx[h].total = votes.count + (IF tx[h].add THEN 1 ELSE -1)
  BY <1>1, <1>2 DEF K!RequestInv
<1>5. IsFiniteSet(K!RowsAfter(h))
  BY RowsAfterFinite
<1>6. Cardinality(votes.rows) \in Nat
  BY <1>1, FS_CardinalityType
<1>7. CASE tx[h].changed /\ tx[h].add
  <2>1. tx[h].user \notin votes.rows /\ K!RowsAfter(h) = votes.rows \cup {tx[h].user}
    BY <1>1, <1>7 DEF K!RequestInv, K!Rows, K!RowsAfter
  <2>2. Cardinality(K!RowsAfter(h)) = Cardinality(votes.rows) + 1
    BY <1>1, <2>1, FS_AddElement
  <2> QED
    BY <1>1, <1>3, <1>4, <1>5, <1>6, <1>7, <2>2
<1>8. CASE tx[h].changed /\ ~tx[h].add
  <2>1. tx[h].user \in votes.rows /\ K!RowsAfter(h) = votes.rows \ {tx[h].user}
    BY <1>1, <1>8 DEF K!RequestInv, K!Rows, K!RowsAfter
  <2>2. Cardinality(K!RowsAfter(h)) = Cardinality(votes.rows) - 1
    BY <1>1, <2>1, FS_RemoveElement
  <2> QED
    BY <1>1, <1>3, <1>4, <1>5, <1>6, <1>8, <2>2
<1>9. CASE ~tx[h].changed
  <2>1. ~tx[h].add
    BY <1>1, <1>2, <1>9 DEF K!RequestInv
  <2>2. K!RowsAfter(h) = votes.rows
    BY <1>9 DEF K!RowsAfter, K!Rows
  <2> QED
    BY <1>1, <1>3, <1>4, <1>5, <1>6, <1>9, <2>1, <2>2
<1> QED
  BY <1>7, <1>8, <1>9

LEMMA CommitKeeps ==
    ASSUME K!CountersInv, NEW h \in Handlers, K!Commit(h)
    PROVE  K!CountersInv'
<1>1. tx \in [Handlers -> K!Transaction] /\ rowLock \in [K!Tables -> Handlers \cup {Free}]
  BY DEF K!CountersInv
<1>2. PICK k \in {"votes", "likes"} : k = tx[h].table
  BY <1>1 DEF K!Transaction
<1>3. tx[h].pc = "commit" /\ K!RequestInv(h) /\ rowLock[k] = h
  BY <1>2 DEF K!Commit, K!CountersInv, K!RequestInv
<1>4. tx' = [tx EXCEPT ![h] = K!Idle] /\ rowLock' = [rowLock EXCEPT ![k] = Free]
  BY <1>2 DEF K!Commit, K!End
<1>5. tx' \in [Handlers -> K!Transaction] /\ tx'[h] = K!Idle /\ \A g \in Handlers \ {h} : tx'[g] = tx[g]
  BY <1>1, <1>4, IdleIsIdle
<1>6. /\ rowLock' \in [K!Tables -> Handlers \cup {Free}]
      /\ \A j \in K!Tables \ {k} : rowLock'[j] = rowLock[j]
  BY <1>1, <1>2, <1>4
<1>7. /\ K!Rows(k)' = K!RowsAfter(h)
      /\ \A j \in K!Tables \ {k} : K!Rows(j)' = K!Rows(j)
      /\ k = "votes" => likes' = likes
      /\ k = "likes" => votes' = votes
  <2>1. CASE k = "votes"
    <3>1. votes'.rows = K!RowsAfter(h) /\ likes' = likes
      BY <1>2, <2>1, VotesCommitted DEF K!Commit
    <3> QED
      BY <2>1, <3>1 DEF K!Rows
  <2>2. CASE k = "likes"
    <3>1. likes'.rows = K!RowsAfter(h) /\ votes' = votes
      BY <1>2, <2>2 DEF K!Commit
    <3> QED
      BY <2>2, <3>1 DEF K!Rows
  <2> QED
    BY <1>2, <2>1, <2>2
<1>8. /\ votes'.count \in Int /\ votes'.misses \in Int /\ IsFiniteSet(votes'.rows)
      /\ IsFiniteSet(likes'.rows)
      /\ votes'.count + votes'.misses = Cardinality(votes'.rows)
  <2>1. /\ votes.count \in Int /\ votes.misses \in Int /\ IsFiniteSet(votes.rows)
        /\ IsFiniteSet(likes.rows)
        /\ votes.count + votes.misses = Cardinality(votes.rows)
    BY SameSizes DEF K!CountersInv, K!OnlyRacedRemovalsMiscount
  <2>2. CASE k = "votes"
    BY <1>2, <1>7, <2>1, <2>2, VotesCommitted
  <2>3. CASE k = "likes"
    <3>1. likes'.rows = K!RowsAfter(h)
      BY <1>2, <1>7, <2>3 DEF K!Rows
    <3> QED
      BY <1>7, <2>1, <2>3, <3>1, RowsAfterFinite
  <2> QED
    BY <1>2, <2>2, <2>3
<1>9. ASSUME NEW g \in Handlers \ {h} PROVE K!RequestInv(g)'
  <2>1. K!RequestInv(g) /\ K!Apart(g, h) /\ tx'[g] = tx[g] /\ tx[g].table \in K!Tables
    BY <1>1, <1>5 DEF K!CountersInv, K!Transaction
  <2>2. CASE tx[g].table = k
    <3>1. tx[g].pc # "commit"
      BY <1>2, <1>3, <2>1, <2>2 DEF K!RequestInv
    <3>2. tx[g].table = "likes" /\ tx[g].pc # "idle" => tx[g].crossed
      BY <1>2, <1>3, <2>1, <2>2 DEF K!Apart
    <3>3. tx[g].changed => (tx[g].user \in K!RowsAfter(h) <=> tx[g].user \in K!Rows(k))
      <4>1. tx[g].changed /\ tx[h].changed => tx[g].user # tx[h].user
        BY <1>2, <2>1, <2>2 DEF K!Apart
      <4> QED
        BY <1>2, <4>1 DEF K!RowsAfter
    <3>4. K!Rows(tx[g].table)' = K!RowsAfter(h)
      BY <1>7, <2>1, <2>2
    <3> QED
      BY <2>1, <2>2, <3>1, <3>2, <3>3, <3>4 DEF K!RequestInv, K!Rows
  <2>3. CASE tx[g].table # k
    <3>1. K!Rows(tx[g].table)' = K!Rows(tx[g].table) /\ rowLock'[tx[g].table] = rowLock[tx[g].table]
      BY <1>6, <1>7, <2>1, <2>3 DEF K!Rows
    <3>2. K!RowsAfter(g)' = K!RowsAfter(g)
      BY <2>1, <3>1 DEF K!RowsAfter, K!Rows
    <3>3. tx[g].table = "votes" => votes' = votes
      BY <1>2, <1>7, <2>3
    <3> QED
      BY <2>1, <3>1, <3>2, <3>3 DEF K!RequestInv, K!Rows
  <2> QED
    BY <2>2, <2>3
<1>10. K!RequestInv(h)'
  BY <1>5, IdleIsIdle DEF K!RequestInv
<1>11. ASSUME NEW g \in Handlers, NEW i \in Handlers, g # i PROVE K!Apart(g, i)'
  <2>1. K!Apart(g, i)
    BY <1>11 DEF K!CountersInv
  <2> QED
    BY <1>5, <1>11, <2>1, IdleIsIdle DEF K!Apart
<1> QED
  BY <1>5, <1>6, <1>8, <1>9, <1>10, <1>11, SameSizes DEF K!CountersInv, K!OnlyRacedRemovalsMiscount

LEMMA CountersStepKeeps == K!CountersInv /\ K!CountersNext => K!CountersInv'
<1> SUFFICES ASSUME K!CountersInv, K!CountersNext
             PROVE  K!CountersInv'
  OBVIOUS
<1> QED
  BY StartVoteKeeps, StartLikeKeeps, TakeLockKeeps, LookUpKeeps, InsertKeeps, DeleteKeeps,
     UpdateCountKeeps, CountFansKeeps, SaveFansKeeps, CommitKeeps DEF K!CountersNext

(* The same of the back end as a whole, whose other parts leave the         *)
(* counters alone.                                                          *)
CountersPart == part = "counters" => K!CountersInv

LEMMA CountersRest == UNCHANGED counterVars => (K!CountersInv' <=> K!CountersInv)
BY DEF counterVars, K!CountersInv, K!OnlyRacedRemovalsMiscount, K!RequestInv, K!Apart, K!Rows,
       K!RowsAfter


LEMMA CountersPartInvariant == Spec => []CountersPart
<1>1. Init => CountersPart
  BY CountersInitInv DEF Init, CountersPart
<1>2. CountersPart /\ [Next]_backendVars => CountersPart'
  <2> SUFFICES ASSUME CountersPart, [Next]_backendVars
               PROVE  CountersPart'
    OBVIOUS
  <2>1. CASE CountersStep
    BY <2>1, CountersStepKeeps DEF CountersPart, CountersStep
  <2>2. CASE part' = part /\ UNCHANGED counterVars
    BY <2>2, CountersRest DEF CountersPart
  <2> QED
    BY <2>1, <2>2 DEF Next, EditsStep, ColoursStep, ClosingStep, BoardsStep, OwnershipStep,
                      WideningStep, backendVars
<1> QED
  BY <1>1, <1>2, PTL DEF Spec

(* However many requests vote and take their votes back, and however they   *)
(* overlap, the counter of votes and the rows differ by the removals that   *)
(* raced for one vote (votes/services.py).                                  *)
THEOREM OnlyRacedRemovalsMiscountHolds == Spec => []OnlyRacedRemovalsMiscount
<1>1. CountersPart => OnlyRacedRemovalsMiscount
  BY DEF CountersPart, OnlyRacedRemovalsMiscount, K!CountersInv
<1> QED
  BY <1>1, CountersPartInvariant, PTL

LEMMA OnlyCommitEnds ==
    ASSUME K!CountersInv, K!CountersNext, NEW h \in Handlers,
           tx[h].pc = "commit", tx'[h].pc = "idle"
    PROVE  K!Commit(h)
<1>1. tx \in [Handlers -> K!Transaction]
  BY DEF K!CountersInv
<1>2. PICK g \in Handlers :
          \/ \E u \in Voters, add \in BOOLEAN : K!StartVote(g, u, add) \/ K!StartLike(g, u, add)
          \/ K!TakeLock(g) \/ K!LookUp(g) \/ K!Insert(g) \/ K!Delete(g)
          \/ K!UpdateCount(g) \/ K!CountFans(g) \/ K!SaveFans(g) \/ K!Commit(g)
  BY DEF K!CountersNext
<1>3. CASE g # h /\ \E u \in Voters, add \in BOOLEAN : K!StartLike(g, u, add)
  <2>1. PICK u \in Voters, add \in BOOLEAN : K!StartLike(g, u, add)
    BY <1>3
  <2> DEFINE busy == {f \in Handlers : tx[f].pc # "idle" /\ tx[f].table = "likes"}
  <2>2. tx'[h] = IF h \in busy THEN [tx[h] EXCEPT !.crossed = TRUE] ELSE tx[h]
    BY <1>3, <2>1 DEF K!StartLike
  <2> HIDE DEF busy
  <2>3. tx[h] \in K!Transaction
    BY <1>1
  <2>4. tx'[h].pc = tx[h].pc
    BY <2>2, <2>3 DEF K!Transaction
  <2> QED
    BY <2>4
<1>4. CASE g # h /\ ~\E u \in Voters, add \in BOOLEAN : K!StartLike(g, u, add)
  <2>1. tx'[h] = tx[h]
    BY <1>1, <1>2, <1>4 DEF K!StartVote, K!TakeLock, K!LookUp, K!Insert, K!Delete, K!UpdateCount,
       K!CountFans, K!SaveFans, K!Commit, K!Goto, K!Changes, K!End
  <2> QED
    BY <2>1
<1>5. CASE g = h
  BY <1>2, <1>5 DEF K!StartVote, K!StartLike, K!TakeLock, K!LookUp, K!Insert, K!Delete,
                    K!UpdateCount, K!CountFans, K!SaveFans
<1> QED
  BY <1>3, <1>4, <1>5

(* A like or an unlike that no other overlaps leaves the right number of    *)
(* fans, for any number of requests and whatever earlier ones left          *)
(* (refresh_totals of projects/models.py).                                  *)
THEOREM FansRecountedHolds == Spec => FansRecounted
<1>1. CountersPart /\ [Next]_backendVars => [part = "counters" => K!FansRecounted]_backendVars
  <2> SUFFICES ASSUME CountersPart, Next, part = "counters", NEW h \in Handlers,
                      tx[h].pc = "commit", tx[h].table = "likes", ~tx[h].crossed,
                      tx'[h].pc = "idle"
               PROVE  likes'.fans = K!Cardinality(likes'.rows)
    BY DEF K!FansRecounted
  <2>1. K!CountersInv /\ K!CountersNext
    BY DEF CountersPart, Next, EditsStep, ColoursStep, ClosingStep, CountersStep, BoardsStep,
           OwnershipStep, WideningStep
  <2>2. K!Commit(h)
    BY <2>1, OnlyCommitEnds
  <2>3. tx[h].total = K!Cardinality(K!RowsAfter(h))
    BY <2>1 DEF K!CountersInv, K!RequestInv
  <2>4. likes' = [rows |-> K!RowsAfter(h), fans |-> tx[h].total]
    BY <2>2 DEF K!Commit
  <2> QED
    BY <2>3, <2>4
<1> QED
  BY <1>1, CountersPartInvariant, PTL DEF Spec, FansRecounted


-----------------------------------------------------------------------------
(* Ownership.                                                               *)

LEMMA NobodyIsNoRequest == Nobody \notin Users /\ Nobody \notin Handlers /\ MaxReads \in Nat
BY BackendAssumption DEF O!OwnershipAssumption

LEMMA NothingIsNoRequest == O!Nothing.kind = "none" /\ ~O!Nothing.crossed
BY DEF O!Nothing

LEMMA RequestsAreBusy ==
    ASSUME O!OwnershipInv, NEW g \in Handlers
    PROVE  /\ g \in O!Busy => doing[g] \in O!Request
           /\ g \notin O!Busy => doing[g] = O!Nothing
<1>1. doing[g] \in {O!Nothing} \cup O!Request
  BY DEF O!OwnershipInv
<1>2. doing[g] \in O!Request => doing[g].kind # "none"
  BY DEF O!Request
<1> QED
  BY <1>1, <1>2, NothingIsNoRequest DEF O!Busy

(* What becomes of the requests that another crosses.                       *)
LEMMA CrossedRequests ==
    ASSUME O!OwnershipInv, NEW h, NEW g \in Handlers
    PROVE  /\ O!Crossing(h)[g] \in {O!Nothing} \cup O!Request
           /\ g \in O!Busy /\ g # h =>
                 /\ O!Crossing(h)[g] \in O!Request
                 /\ O!Crossing(h)[g].crossed
                 /\ O!Crossing(h)[g].pc = doing[g].pc
                 /\ O!Crossing(h)[g].kind = doing[g].kind
           /\ g \notin O!Busy => O!Crossing(h)[g] = O!Nothing
           /\ g = h => O!Crossing(h)[g] = doing[g]
<1>1. CASE g \in O!Busy \ {h}
  <2>1. O!Crossing(h)[g] = [doing[g] EXCEPT !.crossed = TRUE] /\ doing[g] \in O!Request
    BY <1>1, RequestsAreBusy DEF O!Crossing
  <2> QED
    BY <1>1, <2>1 DEF O!Request
<1>2. CASE g \notin O!Busy \ {h}
  <2>1. O!Crossing(h)[g] = doing[g]
    BY <1>2 DEF O!Crossing
  <2>2. doing[g] \in {O!Nothing} \cup O!Request
    BY DEF O!OwnershipInv
  <2> QED
    BY <1>2, <2>1, <2>2, RequestsAreBusy
<1> QED
  BY <1>1, <1>2

(* A step that crosses the other requests has only its own to answer for.   *)
LEMMA CrossingStep ==
    ASSUME O!OwnershipInv, NEW h, NEW x,
           x \in {O!Nothing} \cup O!Request,
           doing' = [O!Crossing(h) EXCEPT ![h] = x],
           h \in Handlers /\ x \in O!Request => O!AsChecked(h)',
           project' \in O!ProjectRow, member' \in [Users -> O!Levels], active' \subseteq Users,
           reads' \in 0..MaxReads
    PROVE  O!OwnershipInv'
<1>1. DOMAIN O!Crossing(h) = Handlers
  BY DEF O!Crossing
<1>2. \A g \in Handlers : doing'[g] = IF g = h THEN x ELSE O!Crossing(h)[g]
  BY <1>1
<1>3. DOMAIN doing' = Handlers /\ doing' = [g \in Handlers |-> doing'[g]]
  BY <1>1
<1>4. doing' \in [Handlers -> {O!Nothing} \cup O!Request]
  BY <1>2, <1>3, CrossedRequests
<1>5. ASSUME NEW g \in Handlers, doing'[g].kind # "none" PROVE O!AsChecked(g)'
  <2>1. CASE g = h
    <3>1. x # O!Nothing
      BY <1>2, <1>5, <2>1, NothingIsNoRequest
    <3> QED
      BY <2>1, <3>1
  <2>2. CASE g # h
    <3>1. doing'[g] = O!Crossing(h)[g]
      BY <1>2, <2>2
    <3>2. g \in O!Busy
      BY <1>5, <3>1, CrossedRequests, NothingIsNoRequest
    <3>3. doing'[g].crossed /\ doing'[g].pc = doing[g].pc /\ doing'[g].kind = doing[g].kind
      BY <2>2, <3>1, <3>2, CrossedRequests
    <3>4. O!AsChecked(g)
      BY <3>2 DEF O!OwnershipInv
    <3> QED
      BY <3>3, <3>4 DEF O!AsChecked
  <2> QED
    BY <2>1, <2>2
<1> QED
  BY <1>4, <1>5 DEF O!OwnershipInv, O!Busy


LEMMA BeginKeeps ==
    ASSUME O!OwnershipInv, NEW h \in Handlers, NEW u \in Users,
           NEW kind \in {"remove", "promote", "demote", "offer", "accept", "reject", "edit"},
           O!Begin(h, kind, u),
           kind = "remove" => O!CanLeave(u),
           kind \in {"promote", "demote"} => O!OtherAdmins(u) # {},
           kind = "demote" => u # project.owner,
           kind = "accept" => u \in active
    PROVE  O!OwnershipInv'
<1> DEFINE x == [kind |-> kind, user |-> u, pc |-> "write", crossed |-> FALSE,
                 was |-> member[u], copy |-> project]
<1>1. /\ project \in O!ProjectRow /\ member \in [Users -> O!Levels] /\ active \subseteq Users
      /\ reads \in 0..MaxReads /\ doing \in [Handlers -> {O!Nothing} \cup O!Request]
      /\ \A g \in O!Busy : O!AsChecked(g)
  BY DEF O!OwnershipInv
<1>2. /\ doing' = [doing EXCEPT ![h] = x] /\ reads < MaxReads /\ reads' = reads + 1
      /\ project' = project /\ member' = member /\ active' = active
  BY DEF O!Begin
<1>3. /\ x \in O!Request /\ x.kind = kind /\ x.user = u /\ x.pc = "write"
      /\ x.was = member[u] /\ x.copy = project
  BY <1>1 DEF O!Request
<1> HIDE DEF x
<1>4. doing' \in [Handlers -> {O!Nothing} \cup O!Request] /\ doing'[h] = x
      /\ \A g \in Handlers \ {h} : doing'[g] = doing[g]
  BY <1>1, <1>2, <1>3
<1>5. reads' \in 0..MaxReads
  BY <1>1, <1>2, NobodyIsNoRequest
<1>6. O!AsChecked(h)'
  BY <1>2, <1>3, <1>4 DEF O!AsChecked, O!CanLeave, O!OtherAdmins, O!Admins
<1>7. ASSUME NEW g \in Handlers \ {h}, doing'[g].kind # "none" PROVE O!AsChecked(g)'
  <2>1. O!AsChecked(g) /\ doing'[g] = doing[g]
    BY <1>1, <1>4, <1>7 DEF O!Busy
  <2> QED
    BY <1>2, <2>1 DEF O!AsChecked, O!CanLeave, O!OtherAdmins, O!Admins
<1> QED
  BY <1>1, <1>2, <1>4, <1>5, <1>6, <1>7 DEF O!OwnershipInv, O!Busy

LEMMA AskKeeps ==
    ASSUME O!OwnershipInv, NEW h \in Handlers, NEW u \in Users,
           \/ O!AskToRemove(h, u)
           \/ \E kind \in {"promote", "demote"} : O!AskToSet(h, u, kind)
           \/ O!AskToOffer(h, u)
           \/ \E kind \in {"accept", "reject"} : O!AskToAnswer(h, u, kind)
           \/ O!AskToEdit(h, u)
    PROVE  O!OwnershipInv'
<1>1. CASE O!AskToRemove(h, u)
  BY <1>1, BeginKeeps DEF O!AskToRemove
<1>2. CASE \E kind \in {"promote", "demote"} : O!AskToSet(h, u, kind)
  BY <1>2, BeginKeeps DEF O!AskToSet
<1>3. CASE O!AskToOffer(h, u)
  BY <1>3, BeginKeeps DEF O!AskToOffer
<1>4. CASE \E kind \in {"accept", "reject"} : O!AskToAnswer(h, u, kind)
  BY <1>4, BeginKeeps DEF O!AskToAnswer
<1>5. CASE O!AskToEdit(h, u)
  BY <1>5, BeginKeeps DEF O!AskToEdit
<1> QED
  BY <1>1, <1>2, <1>3, <1>4, <1>5

LEMMA WritersAreBusy ==
    ASSUME O!OwnershipInv, NEW h \in Handlers,
           doing[h].pc = "save" \/ \E kind : kind # "none" /\ O!Writes(h, kind)
    PROVE  h \in O!Busy /\ doing[h] \in O!Request /\ O!AsChecked(h)
<1>1. O!Nothing.pc = "idle"
  BY DEF O!Nothing
<1>2. h \in O!Busy
  BY <1>1, RequestsAreBusy DEF O!Writes, O!Busy
<1> QED
  BY <1>2, RequestsAreBusy DEF O!OwnershipInv

LEMMA RemoveKeeps ==
    ASSUME O!OwnershipInv, NEW h \in Handlers, O!Remove(h)
    PROVE  O!OwnershipInv'
<1>1. /\ project \in O!ProjectRow /\ member \in [Users -> O!Levels] /\ active \subseteq Users
      /\ reads \in 0..MaxReads
  BY DEF O!OwnershipInv
<1>2. doing' = [O!Crossing(h) EXCEPT ![h] = O!Nothing] /\ active' = active /\ reads' = reads
      /\ project' = project /\ member' = [member EXCEPT ![doing[h].user] = "none"]
  BY DEF O!Remove, O!End
<1>3. member' \in [Users -> O!Levels]
  BY <1>1, <1>2 DEF O!Levels
<1>4. O!Nothing \notin O!Request
  BY NothingIsNoRequest DEF O!Request
<1> QED
  BY <1>1, <1>2, <1>3, <1>4, CrossingStep

LEMMA SetAdminKeeps ==
    ASSUME O!OwnershipInv, NEW h \in Handlers, NEW kind \in {"promote", "demote"},
           O!SetAdmin(h, kind)
    PROVE  O!OwnershipInv'
<1>1. /\ project \in O!ProjectRow /\ member \in [Users -> O!Levels] /\ active \subseteq Users
      /\ reads \in 0..MaxReads
  BY DEF O!OwnershipInv
<1>2. doing' = [O!Crossing(h) EXCEPT ![h] = O!Nothing] /\ active' = active /\ reads' = reads
      /\ project' = project
  BY DEF O!SetAdmin, O!End
<1>3. member' \in [Users -> O!Levels]
  BY <1>1 DEF O!SetAdmin, O!Levels
<1>4. O!Nothing \notin O!Request
  BY NothingIsNoRequest DEF O!Request
<1> QED
  BY <1>1, <1>2, <1>3, <1>4, CrossingStep

LEMMA SaveProjectKeeps ==
    ASSUME O!OwnershipInv, NEW h \in Handlers, O!SaveProject(h)
    PROVE  O!OwnershipInv'
<1>1. /\ member \in [Users -> O!Levels] /\ active \subseteq Users /\ reads \in 0..MaxReads
  BY DEF O!OwnershipInv
<1>2. doing' = [O!Crossing(h) EXCEPT ![h] = O!Nothing] /\ active' = active /\ reads' = reads
      /\ member' = member /\ project' = O!Saved(h)
  BY DEF O!SaveProject, O!End
<1>3. doing[h] \in O!Request /\ O!AsChecked(h)
  BY WritersAreBusy DEF O!SaveProject
<1>4. doing[h].kind \in {"offer", "reject", "edit", "accept"}
  BY <1>3 DEF O!SaveProject, O!Writes, O!AsChecked
<1>5. doing[h].copy \in O!ProjectRow /\ doing[h].user \in Users
  BY <1>3 DEF O!Request
<1>6. O!Saved(h) \in O!ProjectRow
  BY <1>4, <1>5 DEF O!Saved, O!ProjectRow
<1>7. O!Nothing \notin O!Request
  BY NothingIsNoRequest DEF O!Request
<1> QED
  BY <1>1, <1>2, <1>6, <1>7, CrossingStep


LEMMA AcceptAsAdminKeeps ==
    ASSUME O!OwnershipInv, NEW h \in Handlers, O!AcceptAsAdmin(h)
    PROVE  O!OwnershipInv'
<1> DEFINE u == doing[h].user
<1>1. /\ project \in O!ProjectRow /\ member \in [Users -> O!Levels] /\ active \subseteq Users
      /\ reads \in 0..MaxReads /\ doing \in [Handlers -> {O!Nothing} \cup O!Request]
      /\ \A g \in O!Busy : O!AsChecked(g)
  BY DEF O!OwnershipInv
<1>2. O!Writes(h, "accept")
  BY DEF O!AcceptAsAdmin
<1>3. h \in O!Busy /\ doing[h] \in O!Request /\ O!AsChecked(h) /\ doing[h].kind = "accept"
  BY <1>2, WritersAreBusy DEF O!Writes
<1> DEFINE x == [doing[h] EXCEPT !.pc = "save"]
<1>4. /\ x \in O!Request /\ x.pc = "save" /\ x.kind = "accept" /\ x.user = u
      /\ x.crossed = doing[h].crossed /\ x.copy = doing[h].copy
  BY <1>3 DEF O!Request
<1>5. project' = project /\ active' = active /\ reads' = reads
  BY DEF O!AcceptAsAdmin
<1>6. CASE doing[h].was = "admin"
  <2>1. doing' = [doing EXCEPT ![h] = x] /\ member' = member
    BY <1>6 DEF O!AcceptAsAdmin
  <2> HIDE DEF x
  <2>2. doing' \in [Handlers -> {O!Nothing} \cup O!Request] /\ doing'[h] = x
        /\ \A g \in Handlers \ {h} : doing'[g] = doing[g]
    BY <1>1, <1>4, <2>1
  <2>3. O!AsChecked(h)'
    BY <1>3, <1>4, <1>5, <1>6, <2>1, <2>2 DEF O!AsChecked
  <2>4. ASSUME NEW g \in Handlers \ {h}, doing'[g].kind # "none" PROVE O!AsChecked(g)'
    <3>1. O!AsChecked(g) /\ doing'[g] = doing[g]
      BY <1>1, <2>2, <2>4 DEF O!Busy
    <3> QED
      BY <1>5, <2>1, <3>1 DEF O!AsChecked, O!CanLeave, O!OtherAdmins, O!Admins
  <2> QED
    BY <1>1, <1>5, <2>1, <2>2, <2>3, <2>4 DEF O!OwnershipInv, O!Busy
<1>7. CASE doing[h].was # "admin"
  <2>1. O!Crossing(h)[h] = doing[h] /\ DOMAIN O!Crossing(h) = Handlers
    BY CrossedRequests DEF O!Crossing
  <2>2. doing' = [O!Crossing(h) EXCEPT ![h] = x] /\ member' = [member EXCEPT ![u] = "admin"]
    BY <1>7, <2>1 DEF O!AcceptAsAdmin
  <2>3. u \in Users /\ member' \in [Users -> O!Levels] /\ member'[u] = "admin"
    BY <1>1, <1>3, <2>2 DEF O!Levels, O!Request
  <2> HIDE DEF x
  <2>4. doing'[h] = x
    BY <2>1, <2>2
  <2>5. O!AsChecked(h)'
    BY <1>3, <1>4, <1>5, <2>3, <2>4 DEF O!AsChecked
  <2> QED
    BY <1>1, <1>4, <1>5, <2>2, <2>3, <2>5, CrossingStep
<1> QED
  BY <1>6, <1>7

LEMMA JoinKeeps ==
    ASSUME O!OwnershipInv, NEW u \in Users, O!Join(u)
    PROVE  O!OwnershipInv'
<1>1. /\ project \in O!ProjectRow /\ member \in [Users -> O!Levels] /\ active \subseteq Users
      /\ reads \in 0..MaxReads /\ doing \in [Handlers -> {O!Nothing} \cup O!Request]
      /\ \A g \in O!Busy : O!AsChecked(g)
  BY DEF O!OwnershipInv
<1>2. /\ project' = project /\ active' = active /\ doing' = doing /\ member[u] = "none"
      /\ member' = [member EXCEPT ![u] = "member"] /\ reads < MaxReads /\ reads' = reads + 1
  BY DEF O!Join
<1>3. member' \in [Users -> O!Levels] /\ reads' \in 0..MaxReads
  BY <1>1, <1>2, NobodyIsNoRequest DEF O!Levels
<1>4. \A v \in Users : member'[v] = "admin" <=> member[v] = "admin"
  BY <1>1, <1>2
<1>5. O!Admins' = O!Admins
  BY <1>1, <1>2, <1>4 DEF O!Admins
<1>6. ASSUME NEW g \in O!Busy PROVE O!AsChecked(g)'
  <2>1. O!AsChecked(g) /\ doing[g].user \in Users
    BY <1>1, RequestsAreBusy DEF O!Busy, O!Request
  <2> QED
    BY <1>2, <1>4, <1>5, <2>1 DEF O!AsChecked, O!CanLeave, O!OtherAdmins
<1> QED
  BY <1>1, <1>2, <1>3, <1>6 DEF O!OwnershipInv, O!Busy

LEMMA CrossingAll ==
    ASSUME O!OwnershipInv, doing' = O!Crossing(Nobody),
           project' \in O!ProjectRow, member' \in [Users -> O!Levels], active' \subseteq Users,
           reads' \in 0..MaxReads
    PROVE  O!OwnershipInv'
<1>1. doing' = [O!Crossing(Nobody) EXCEPT ![Nobody] = O!Nothing]
  BY NobodyIsNoRequest DEF O!Crossing
<1> QED
  BY <1>1, NobodyIsNoRequest, CrossingStep

LEMMA CancelKeeps ==
    ASSUME O!OwnershipInv, NEW u \in Users, O!Cancel(u)
    PROVE  O!OwnershipInv'
<1>1. /\ project \in O!ProjectRow /\ member \in [Users -> O!Levels] /\ active \subseteq Users
      /\ reads \in 0..MaxReads
  BY DEF O!OwnershipInv
<1>2. project' \in O!ProjectRow
  BY <1>1 DEF O!Cancel, O!ProjectRow
<1>3. member' \in [Users -> O!Levels] /\ active' \subseteq Users /\ reads' \in 0..MaxReads
  BY <1>1, NobodyIsNoRequest DEF O!Cancel, O!Levels
<1> QED
  BY <1>2, <1>3, CrossingAll DEF O!Cancel

LEMMA ReassignKeeps ==
    ASSUME O!OwnershipInv, NEW u \in Users, NEW v \in Users, O!Reassign(u, v)
    PROVE  O!OwnershipInv'
<1>1. /\ project \in O!ProjectRow /\ member \in [Users -> O!Levels] /\ active \subseteq Users
      /\ reads \in 0..MaxReads
  BY DEF O!OwnershipInv
<1>2. member' \in [Users -> O!Levels] /\ reads' \in 0..MaxReads
  BY <1>1, NobodyIsNoRequest DEF O!Reassign, O!Levels
<1> QED
  BY <1>1, <1>2, CrossingAll DEF O!Reassign

LEMMA OwnershipInitInv == O!OwnershipInit => O!OwnershipInv
<1> SUFFICES ASSUME O!OwnershipInit
             PROVE  O!OwnershipInv
  OBVIOUS
<1>1. project \in O!ProjectRow
  BY DEF O!OwnershipInit, O!ProjectRow
<1>2. doing \in [Handlers -> {O!Nothing} \cup O!Request] /\ O!Busy = {}
  BY NothingIsNoRequest DEF O!OwnershipInit, O!Busy
<1> QED
  BY <1>1, <1>2, NobodyIsNoRequest DEF O!OwnershipInit, O!OwnershipInv, O!Levels

LEMMA OwnershipStepKeeps == O!OwnershipInv /\ O!OwnershipNext => O!OwnershipInv'
<1> SUFFICES ASSUME O!OwnershipInv, O!OwnershipNext
             PROVE  O!OwnershipInv'
  OBVIOUS
<1> QED
  BY AskKeeps, RemoveKeeps, SetAdminKeeps, AcceptAsAdminKeeps, SaveProjectKeeps, JoinKeeps,
     CancelKeeps, ReassignKeeps DEF O!OwnershipNext

LEMMA OwnershipRest == UNCHANGED ownershipVars => (O!OwnershipInv' <=> O!OwnershipInv)
BY DEF ownershipVars, O!OwnershipInv, O!AsChecked, O!CanLeave, O!OtherAdmins, O!Admins, O!Busy

OwnershipPart == part = "ownership" => O!OwnershipInv

LEMMA OwnershipPartInvariant == Spec => []OwnershipPart
<1>1. Init => OwnershipPart
  BY OwnershipInitInv DEF Init, OwnershipPart
<1>2. OwnershipPart /\ [Next]_backendVars => OwnershipPart'
  <2> SUFFICES ASSUME OwnershipPart, [Next]_backendVars
               PROVE  OwnershipPart'
    OBVIOUS
  <2>1. CASE OwnershipStep
    BY <2>1, OwnershipStepKeeps DEF OwnershipPart, OwnershipStep
  <2>2. CASE part' = part /\ UNCHANGED ownershipVars
    BY <2>2, OwnershipRest DEF OwnershipPart
  <2> QED
    BY <2>1, <2>2 DEF Next, EditsStep, ColoursStep, ClosingStep, CountersStep, BoardsStep,
                      WideningStep, backendVars
<1> QED
  BY <1>1, <1>2, PTL DEF Spec


(* What a step does to the owner and the admins, whom it leaves alone, or   *)
(* changes as it was checked or as a request that another has crossed.      *)
LEMMA NobodyIsTouched ==
    ASSUME project' = project, active' = active,
           \A u \in active : member'[u] = "admin" <=> member[u] = "admin"
    PROVE  O!OwnerStaysAdmin /\ O!SomebodyAdministers
<1>1. O!Admins' = O!Admins
  BY DEF O!Admins
<1> QED
  BY <1>1 DEF O!OwnerStaysAdmin, O!OwnerIsAdmin, O!SomebodyAdministers

LEMMA AskTouchesNobody ==
    ASSUME NEW h, NEW u,
           \/ O!AskToRemove(h, u)
           \/ \E kind \in {"promote", "demote"} : O!AskToSet(h, u, kind)
           \/ O!AskToOffer(h, u)
           \/ \E kind \in {"accept", "reject"} : O!AskToAnswer(h, u, kind)
           \/ O!AskToEdit(h, u)
    PROVE  O!OwnerStaysAdmin /\ O!SomebodyAdministers
<1>1. project' = project /\ active' = active /\ member' = member
  BY DEF O!AskToRemove, O!AskToSet, O!AskToOffer, O!AskToAnswer, O!AskToEdit, O!Begin
<1> QED
  BY <1>1, NobodyIsTouched

LEMMA EndTellsCrossing ==
    ASSUME NEW h, O!End(h)
    PROVE  active' = active /\ ended'.crossed = doing[h].crossed
BY DEF O!End, O!Ending

LEMMA RemoveAsChecked ==
    ASSUME O!OwnershipInv, NEW h \in Handlers, O!Remove(h)
    PROVE  O!OwnerStaysAdmin /\ O!SomebodyAdministers
<1> DEFINE u == doing[h].user
<1>1. doing[h] \in O!Request /\ O!AsChecked(h) /\ doing[h].kind = "remove"
  BY WritersAreBusy DEF O!Remove, O!Writes
<1>2. active' = active /\ ended'.crossed = doing[h].crossed /\ project' = project
      /\ member' = [member EXCEPT ![u] = "none"]
  BY EndTellsCrossing DEF O!Remove
<1>3. member \in [Users -> O!Levels] /\ active \subseteq Users
  BY DEF O!OwnershipInv
<1>4. CASE doing[h].crossed
  BY <1>2, <1>4 DEF O!OwnerStaysAdmin, O!SomebodyAdministers
<1>5. CASE ~doing[h].crossed
  <2>1. O!CanLeave(u)
    BY <1>1, <1>5 DEF O!AsChecked
  <2>2. O!OtherAdmins(u) \subseteq O!Admins'
    BY <1>2, <1>3 DEF O!OtherAdmins, O!Admins
  <2>3. CASE member[u] = "admin"
    BY <1>2, <2>1, <2>2, <2>3 DEF O!CanLeave, O!OtherAdmins, O!OwnerStaysAdmin, O!OwnerIsAdmin,
                                  O!SomebodyAdministers
  <2>4. CASE member[u] # "admin"
    <3>1. \A v \in active : member'[v] = "admin" <=> member[v] = "admin"
      BY <1>2, <1>3, <2>4
    <3> QED
      BY <1>2, <3>1, NobodyIsTouched
  <2> QED
    BY <2>3, <2>4
<1> QED
  BY <1>4, <1>5

LEMMA SetAsChecked ==
    ASSUME O!OwnershipInv, NEW h \in Handlers, NEW kind \in {"promote", "demote"},
           O!SetAdmin(h, kind)
    PROVE  O!OwnerStaysAdmin /\ O!SomebodyAdministers
<1> DEFINE u == doing[h].user
<1>1. doing[h] \in O!Request /\ O!AsChecked(h) /\ doing[h].kind = kind
  BY WritersAreBusy DEF O!SetAdmin, O!Writes
<1>2. active' = active /\ ended'.crossed = doing[h].crossed /\ project' = project
      /\ member' = IF member[u] = "none" THEN member
                   ELSE [member EXCEPT ![u] = IF kind = "promote" THEN "admin" ELSE "member"]
  BY EndTellsCrossing DEF O!SetAdmin
<1>3. member \in [Users -> O!Levels] /\ active \subseteq Users
  BY DEF O!OwnershipInv
<1>4. CASE doing[h].crossed
  BY <1>2, <1>4 DEF O!OwnerStaysAdmin, O!SomebodyAdministers
<1>5. CASE ~doing[h].crossed
  <2>1. O!OtherAdmins(u) # {} /\ (kind = "demote" => u # project.owner)
    BY <1>1, <1>5 DEF O!AsChecked
  <2>2. O!OtherAdmins(u) \subseteq O!Admins'
    BY <1>2, <1>3 DEF O!OtherAdmins, O!Admins
  <2>3. u # project.owner \/ kind = "promote"
    BY <2>1
  <2>4. O!OwnerIsAdmin => O!OwnerIsAdmin'
    BY <1>2, <1>3, <2>3 DEF O!OwnerIsAdmin, O!Admins
  <2> QED
    BY <2>1, <2>2, <2>4 DEF O!OwnerStaysAdmin, O!SomebodyAdministers
<1> QED
  BY <1>4, <1>5

LEMMA SaveAsChecked ==
    ASSUME O!OwnershipInv, NEW h \in Handlers, O!SaveProject(h)
    PROVE  O!OwnerStaysAdmin /\ O!SomebodyAdministers
<1> DEFINE u == doing[h].user
<1>1. doing[h] \in O!Request /\ O!AsChecked(h)
  BY WritersAreBusy DEF O!SaveProject
<1>2. active' = active /\ ended'.crossed = doing[h].crossed /\ project' = O!Saved(h)
      /\ member' = member
  BY EndTellsCrossing DEF O!SaveProject
<1>3. O!Admins' = O!Admins
  BY <1>2 DEF O!Admins
<1>4. CASE doing[h].crossed
  BY <1>2, <1>4 DEF O!OwnerStaysAdmin, O!SomebodyAdministers
<1>5. CASE ~doing[h].crossed
  <2>1. doing[h].copy = project /\ project \in O!ProjectRow
    BY <1>1, <1>5 DEF O!AsChecked, O!OwnershipInv
  <2>2. CASE doing[h].kind \in {"offer", "reject", "edit"}
    <3>1. project'.owner = project.owner /\ project'.blocked = project.blocked
      BY <1>2, <2>1, <2>2 DEF O!Saved, O!ProjectRow
    <3> QED
      BY <1>3, <3>1 DEF O!OwnerStaysAdmin, O!OwnerIsAdmin, O!SomebodyAdministers
  <2>3. CASE doing[h].kind = "accept"
    <3>1. doing[h].pc = "save"
      BY <2>3 DEF O!SaveProject, O!Writes
    <3>2. u \in O!Admins
      BY <1>1, <1>5, <2>3, <3>1 DEF O!AsChecked, O!Admins
    <3>3. project'.owner = u
      BY <1>2, <2>1, <2>3 DEF O!Saved, O!ProjectRow
    <3> QED
      BY <1>3, <3>2, <3>3 DEF O!OwnerStaysAdmin, O!OwnerIsAdmin, O!SomebodyAdministers
  <2> QED
    BY <1>1, <2>2, <2>3 DEF O!SaveProject, O!Writes, O!AsChecked
<1> QED
  BY <1>4, <1>5

LEMMA OwnershipStepIsSound ==
    ASSUME O!OwnershipInv, O!OwnershipNext
    PROVE  O!OwnerStaysAdmin /\ O!SomebodyAdministers
<1>1. /\ project \in O!ProjectRow /\ member \in [Users -> O!Levels] /\ active \subseteq Users
  BY DEF O!OwnershipInv
<1>2. ASSUME NEW h \in Handlers, O!AcceptAsAdmin(h) PROVE O!OwnerStaysAdmin /\ O!SomebodyAdministers
  <2>1. project' = project /\ active' = active
        /\ (member' = member \/ member' = [member EXCEPT ![doing[h].user] = "admin"])
    BY <1>2 DEF O!AcceptAsAdmin
  <2>2. O!Admins \subseteq O!Admins'
    BY <1>1, <2>1 DEF O!Admins
  <2> QED
    BY <2>1, <2>2 DEF O!OwnerStaysAdmin, O!OwnerIsAdmin, O!SomebodyAdministers
<1>3. ASSUME NEW u \in Users, O!Join(u) PROVE O!OwnerStaysAdmin /\ O!SomebodyAdministers
  <2>1. \A v \in active : member'[v] = "admin" <=> member[v] = "admin"
    BY <1>1, <1>3 DEF O!Join
  <2> QED
    BY <1>3, <2>1, NobodyIsTouched DEF O!Join
<1>4. ASSUME NEW u \in Users, O!Cancel(u) PROVE O!OwnerStaysAdmin /\ O!SomebodyAdministers
  <2>1. ended'.kind = "cancel"
    BY <1>4 DEF O!Cancel, O!Nothing
  <2>2. project'.owner = project.owner /\ (project'.blocked <=> project.blocked \/ project.owner = u)
    BY <1>1, <1>4 DEF O!Cancel, O!ProjectRow
  <2>3. O!Admins' = O!Admins \ {u}
    BY <1>1, <1>4 DEF O!Cancel, O!Admins
  <2> QED
    BY <2>1, <2>2, <2>3 DEF O!OwnerStaysAdmin, O!OwnerIsAdmin, O!SomebodyAdministers
<1>5. ASSUME NEW u \in Users, NEW v \in Users, O!Reassign(u, v)
      PROVE  O!OwnerStaysAdmin /\ O!SomebodyAdministers
  <2>1. ended'.kind = "reassign"
    BY <1>5 DEF O!Reassign, O!Nothing
  <2>2. v \in active /\ active' = active /\ member' = [member EXCEPT ![v] = member[u], ![u] = "none"]
        /\ u # v /\ member[v] = "none"
    BY <1>5 DEF O!Reassign
  <2>3. (O!Admins \ {u} \subseteq O!Admins') /\ (u \in O!Admins => v \in O!Admins')
    BY <1>1, <2>2 DEF O!Admins
  <2> QED
    BY <2>1, <2>3 DEF O!OwnerStaysAdmin, O!SomebodyAdministers
<1> QED
  BY <1>2, <1>3, <1>4, <1>5, AskTouchesNobody, RemoveAsChecked, SetAsChecked, SaveAsChecked
     DEF O!OwnershipNext

LEMMA OwnershipAlways ==
    OwnershipPart /\ [Next]_backendVars =>
        /\ [part = "ownership" => O!OwnerStaysAdmin]_backendVars
        /\ [part = "ownership" => O!SomebodyAdministers]_backendVars
<1> SUFFICES ASSUME OwnershipPart, Next, part = "ownership"
             PROVE  O!OwnerStaysAdmin /\ O!SomebodyAdministers
  OBVIOUS
<1>1. O!OwnershipInv /\ O!OwnershipNext
  BY DEF OwnershipPart, Next, EditsStep, ColoursStep, ClosingStep, CountersStep, BoardsStep,
         OwnershipStep, WideningStep
<1> QED
  BY <1>1, OwnershipStepIsSound

(* The owner of a project that is not blocked stays an active admin of it,  *)
(* for any users and any number of overlapping requests, except through a   *)
(* request that another has crossed and the edit that gives the membership  *)
(* away (services/members.py, services/transfer.py).                        *)
THEOREM OwnerStaysAdminHolds == Spec => OwnerStaysAdmin
BY OwnershipPartInvariant, OwnershipAlways, PTL DEF Spec, OwnerStaysAdmin

(* The last admin can only cancel the account, not leave nor be made a      *)
(* plain member, unless requests cross (validators.py).                     *)
THEOREM SomebodyAdministersHolds == Spec => SomebodyAdministers
BY OwnershipPartInvariant, OwnershipAlways, PTL DEF Spec, SomebodyAdministers

-----------------------------------------------------------------------------
(* The story's two due dates: for any number of tasks, requests and dates   *)
(* they agree whenever transactions have committed, and a widening is lost  *)
(* only to an overlapping save or to a client's own date. These are proved  *)
(* of WideningSpec.                                                         *)

(* The copy of the story that is not the given one                          *)
LEMMA OtherCopy ==
    ASSUME NEW copy \in Copies
    PROVE  LET other == CHOOSE k \in Copies : k # copy
           IN  other \in Copies /\ other # copy /\ Copies = {copy, other}
<1> DEFINE other == CHOOSE k \in Copies : k # copy
<1>1. \E k \in Copies : k # copy
  BY DEF Copies
<1>2. other \in Copies /\ other # copy
  BY <1>1
<1>3. Copies = {copy, other}
  BY <1>2 DEF Copies
<1> QED
  BY <1>2, <1>3

LEMMA WideningInitInv == WideningInit => WideningInv
<1> SUFFICES ASSUME WideningInit PROVE WideningInv
  OBVIOUS
<1>1. Busy = {}
  BY DEF WideningInit, Busy
<1>2. WideningTypeOK /\ CopiesAgree
  BY DEF WideningInit, WideningTypeOK, CopiesAgree, Steps, Copies
<1>3. LocksFollowSteps
  BY WideningAssumption DEF WideningInit, LocksFollowSteps, Copies
<1> QED
  BY <1>1, <1>2, <1>3 DEF WideningInv, UncrossedSaves

(* A request that begins holds nothing; from then on it and all that are    *)
(* under way are crossed, unless there are none.                            *)
LEMMA BeginSaveInv ==
    ASSUME WideningInv, NEW h \in Handlers, NEW first \in {"read", "row"}, NEW t,
           NEW d \in Dates, NEW byClient \in BOOLEAN,
           first = "row" /\ ~byClient => d = storyDue["row"],
           Begin(h, first, t, d, byClient)
    PROVE  WideningInv'
<1>1. WideningTypeOK'
  BY DEF WideningInv, WideningTypeOK, Begin, Steps, Copies
<1>2. CopiesAgree'
  BY DEF WideningInv, CopiesAgree, Begin
<1>3. \A k \in Copies : held[k] # h
  BY DEF WideningInv, LocksFollowSteps, Begin, Busy
<1>4. \A g \in Handlers : step'[g] = IF g = h THEN first ELSE step[g]
  BY DEF WideningInv, WideningTypeOK, Begin
<1>5. LocksFollowSteps'
  BY <1>3, <1>4 DEF WideningInv, LocksFollowSteps, Begin, Copies
<1>6. UncrossedSaves'
  <2> SUFFICES ASSUME NEW g \in Handlers, step'[g] # "idle", ~crossed'[g]
               PROVE  /\ Busy' = {g}
                      /\ LeavesStory(g)' => due'[g] <= storyDue'["row"]
                      /\ step'[g] # "read" /\ ~LeavesStory(g)' /\ ~named'[g]
                             => due'[g] >= storyDue'["row"]
    BY DEF UncrossedSaves, Busy
  <2>1. g = h /\ Busy = {}
    BY <1>4 DEF Begin, Busy
  <2>2. Busy' = {h}
    BY <2>1, <1>4 DEF Busy
  <2>3. step'[h] = first /\ due'[h] = d /\ named'[h] = byClient /\ storyDue' = storyDue
    BY <1>4 DEF WideningInv, WideningTypeOK, Begin
  <2>4. storyDue["row"] \in Nat
    BY WideningAssumption DEF WideningInv, WideningTypeOK, Copies
  <2> QED
    BY <2>1, <2>2, <2>3, <2>4 DEF LeavesStory
<1> QED
  BY <1>1, <1>2, <1>5, <1>6 DEF WideningInv

LEMMA ReadStoryInv ==
    ASSUME WideningInv, NEW h \in Handlers, ReadStory(h)
    PROVE  WideningInv'
<1>1. WideningTypeOK'
  BY DEF WideningInv, WideningTypeOK, ReadStory, Goto, Steps, Copies
<1>2. CopiesAgree'
  BY DEF WideningInv, CopiesAgree, ReadStory
<1>3. \A g \in Handlers : step'[g] = IF g # h THEN step[g]
                           ELSE IF due[h] > storyDue["schedule"] THEN "schedule" ELSE "commit"
  BY DEF WideningInv, WideningTypeOK, ReadStory, Goto
<1>4. \A k \in Copies : held[k] # h
  BY DEF WideningInv, LocksFollowSteps, ReadStory
<1>5. LocksFollowSteps'
  BY <1>3, <1>4 DEF WideningInv, LocksFollowSteps, ReadStory, Copies
<1>6. Busy' = Busy
  BY <1>3 DEF Busy, ReadStory
<1>7. UncrossedSaves'
  <2> SUFFICES ASSUME NEW g \in Busy, ~crossed[g]
               PROVE  /\ Busy = {g}
                      /\ LeavesStory(g)' => due[g] <= storyDue["row"]
                      /\ step'[g] # "read" /\ ~LeavesStory(g)' /\ ~named[g]
                             => due[g] >= storyDue["row"]
    BY <1>6 DEF UncrossedSaves, ReadStory
  <2>1. Busy = {g}
    BY DEF WideningInv, UncrossedSaves
  <2>2. h \in Busy
    BY DEF Busy, ReadStory
  <2>3. g = h
    BY <2>1, <2>2
  <2>4. /\ due[h] \in Nat /\ storyDue["row"] \in Nat
        /\ storyDue["row"] = storyDue["schedule"]
    BY WideningAssumption DEF WideningInv, WideningTypeOK, CopiesAgree, Copies
  <2>5. CASE due[h] > storyDue["schedule"]
    BY <2>1, <2>3, <2>4, <2>5, <1>3 DEF LeavesStory
  <2>6. CASE ~(due[h] > storyDue["schedule"])
    <3>1. held'["row"] # h
      BY <1>4 DEF ReadStory, Copies
    <3> QED
      BY <3>1, <2>1, <2>3, <2>4, <2>6, <1>3 DEF LeavesStory
  <2> QED
    BY <2>5, <2>6
<1> QED
  BY <1>1, <1>2, <1>5, <1>7 DEF WideningInv

(* The row that is written was free; when both are, the transaction may     *)
(* commit.                                                                  *)
LEMMA WriteStoryInv ==
    ASSUME WideningInv, NEW h \in Handlers, NEW copy \in Copies, WriteStory(h, copy)
    PROVE  WideningInv'
<1> DEFINE other == CHOOSE k \in Copies : k # copy
<1>1. other \in Copies /\ other # copy /\ Copies = {copy, other}
  BY OtherCopy
<1>2. /\ step[h] = copy /\ held[copy] = Free
      /\ held' = [held EXCEPT ![copy] = h]
      /\ step' = [step EXCEPT ![h] = IF held[other] = h THEN "commit" ELSE other]
      /\ UNCHANGED <<taskDue, storyDue, saving, due, named, crossed>>
  BY DEF WriteStory, Goto
<1> HIDE DEF other
<1>3. WideningTypeOK'
  BY <1>1, <1>2 DEF WideningInv, WideningTypeOK, Steps
<1>4. CopiesAgree'
  BY <1>2 DEF WideningInv, CopiesAgree
<1>5. /\ held'[copy] = h /\ held'[other] = held[other]
      /\ \A g \in Handlers : step'[g] = IF g # h THEN step[g]
                                        ELSE IF held[other] = h THEN "commit" ELSE other
  BY <1>1, <1>2 DEF WideningInv, WideningTypeOK
<1>6. LocksFollowSteps'
  <2> SUFFICES ASSUME NEW g \in Handlers
               PROVE  /\ step'[g] \in {"idle", "read"} => \A k \in Copies : held'[k] # g
                      /\ step'[g] \in Copies => held'[step'[g]] # g
                      /\ step'[g] = "commit" => (held'[copy] = g <=> held'[other] = g)
    BY <1>1 DEF LocksFollowSteps, Copies
  <2>1. CASE g = h
    BY <2>1, <1>1, <1>5 DEF Copies
  <2>2. CASE g # h
    <3>1. step'[g] = step[g] /\ held[copy] # g
      BY <2>2, <1>2, <1>5, WideningAssumption
    <3>2. /\ step[g] \in {"idle", "read"} => \A k \in Copies : held[k] # g
          /\ step[g] \in Copies => held[step[g]] # g
          /\ step[g] = "commit" => (held[copy] = g <=> held[other] = g)
      BY <1>1 DEF WideningInv, LocksFollowSteps, Copies
    <3> QED
      BY <2>2, <3>1, <3>2, <1>1, <1>5
  <2> QED
    BY <2>1, <2>2
<1>7. Busy' = Busy
  BY <1>1, <1>2, <1>5 DEF Busy, Copies
<1>8. UncrossedSaves'
  <2> SUFFICES ASSUME NEW g \in Busy, ~crossed[g]
               PROVE  /\ Busy = {g}
                      /\ LeavesStory(g)' => due[g] <= storyDue["row"]
                      /\ step'[g] # "read" /\ ~LeavesStory(g)' /\ ~named[g]
                             => due[g] >= storyDue["row"]
    BY <1>2, <1>7 DEF UncrossedSaves
  <2>1. Busy = {g} /\ h \in Busy
    BY <1>2 DEF WideningInv, UncrossedSaves, Busy, Copies
  <2>2. g = h
    BY <2>1
  <2>3. ~named[h] => due[h] >= storyDue["row"]
    BY <2>2, <1>2 DEF WideningInv, UncrossedSaves, LeavesStory, Copies
  <2>4. ~LeavesStory(h)'
    BY <1>1, <1>5 DEF LeavesStory, Copies
  <2> QED
    BY <2>1, <2>2, <2>3, <2>4
<1> QED
  BY <1>3, <1>4, <1>6, <1>8 DEF WideningInv

(* The end of one transaction leaves the others as they are.                *)
LEMMA EndKeeps ==
    ASSUME WideningInv, NEW h \in Handlers, step[h] # "idle", End(h)
    PROVE  /\ step' \in [Handlers -> Steps] /\ due' \in [Handlers -> Dates]
           /\ named' \in [Handlers -> BOOLEAN] /\ crossed' \in [Handlers -> BOOLEAN]
           /\ held' \in [Copies -> Handlers \cup {Free}]
           /\ LocksFollowSteps'
           /\ \A g \in Busy' : crossed'[g]
<1>1. /\ step' \in [Handlers -> Steps] /\ due' \in [Handlers -> Dates]
      /\ named' \in [Handlers -> BOOLEAN] /\ crossed' \in [Handlers -> BOOLEAN]
      /\ held' \in [Copies -> Handlers \cup {Free}]
  BY DEF WideningInv, WideningTypeOK, End, Goto, Released, Steps
<1>2. /\ \A g \in Handlers : /\ step'[g] = IF g = h THEN "idle" ELSE step[g]
                             /\ g # h => crossed'[g] = crossed[g]
      /\ \A k \in Copies : held'[k] = IF held[k] = h THEN Free ELSE held[k]
  BY DEF WideningInv, WideningTypeOK, End, Goto, Released
<1>3. LocksFollowSteps'
  BY <1>2, WideningAssumption DEF WideningInv, LocksFollowSteps, Copies
<1>4. ASSUME NEW g \in Busy'
      PROVE  crossed'[g]
  <2>1. g \in Busy /\ h \in Busy /\ g # h /\ crossed'[g] = crossed[g]
    BY <1>2, <1>4 DEF Busy
  <2>2. Busy # {g}
    BY <2>1
  <2> QED
    BY <2>1, <2>2 DEF WideningInv, UncrossedSaves
<1> QED
  BY <1>1, <1>3, <1>4

(* A commit writes both copies or none.                                     *)
LEMMA CommitSaveInv ==
    ASSUME WideningInv, NEW h \in Handlers, Commit(h)
    PROVE  WideningInv'
<1>1. step[h] = "commit" /\ End(h)
  BY DEF Commit
<1>2. /\ taskDue' \in [Tasks -> Dates] /\ storyDue' \in [Copies -> Dates]
  BY DEF WideningInv, WideningTypeOK, Commit
<1>3. CopiesAgree'
  <2>1. held["row"] = h <=> held["schedule"] = h
    BY <1>1 DEF WideningInv, LocksFollowSteps
  <2> QED
    BY <2>1 DEF WideningInv, CopiesAgree, Commit, Copies
<1> QED
  BY <1>1, <1>2, <1>3, EndKeeps DEF WideningInv, WideningTypeOK, UncrossedSaves

LEMMA DeadlockSaveInv ==
    ASSUME WideningInv, NEW h \in Handlers, NEW g \in Handlers, Deadlock(h, g)
    PROVE  WideningInv'
<1>1. UNCHANGED <<taskDue, storyDue>> /\ step[h] # "idle" /\ step[g] # "idle"
  BY DEF Deadlock
<1>2. PICK k \in {h, g} : End(k)
  BY DEF Deadlock
<1> QED
  BY <1>1, <1>2, EndKeeps
     DEF WideningInv, WideningTypeOK, CopiesAgree, UncrossedSaves

LEMMA WideningNextInv == WideningInv /\ [WideningNext]_wideningVars => WideningInv'
<1> SUFFICES ASSUME WideningInv, [WideningNext]_wideningVars
             PROVE  WideningInv'
  OBVIOUS
<1>1. ASSUME NEW h \in Handlers, NEW t \in Tasks, NEW d \in Dates, BeginTask(h, t, d)
      PROVE  WideningInv'
  BY <1>1, BeginSaveInv DEF BeginTask
<1>2. ASSUME NEW h \in Handlers, NEW d \in Dates, NEW byClient \in BOOLEAN,
             BeginStory(h, d, byClient)
      PROVE  WideningInv'
  BY <1>2, BeginSaveInv DEF BeginStory
<1>3. ASSUME NEW h \in Handlers, ReadStory(h)
      PROVE  WideningInv'
  BY <1>3, ReadStoryInv
<1>4. ASSUME NEW h \in Handlers, NEW copy \in Copies, WriteStory(h, copy)
      PROVE  WideningInv'
  BY <1>4, WriteStoryInv
<1>5. ASSUME NEW h \in Handlers, Commit(h)
      PROVE  WideningInv'
  BY <1>5, CommitSaveInv
<1>6. ASSUME NEW h \in Handlers, NEW g \in Handlers, Deadlock(h, g)
      PROVE  WideningInv'
  BY <1>6, DeadlockSaveInv
<1>7. CASE UNCHANGED wideningVars
  BY <1>7 DEF wideningVars, saveVars, WideningInv, WideningTypeOK, CopiesAgree,
              LocksFollowSteps, UncrossedSaves, LeavesStory, Busy
<1> QED
  BY <1>1, <1>2, <1>3, <1>4, <1>5, <1>6, <1>7 DEF WideningNext

LEMMA WideningInvHolds == WideningSpec => []WideningInv
  BY WideningInitInv, WideningNextInv, PTL DEF WideningSpec

(* The state of every request, its locks and its dates stay in range.       *)
THEOREM WideningTypeHolds == WideningSpec => []WideningTypeOK
<1>1. WideningInv => WideningTypeOK
  BY DEF WideningInv
<1> QED
  BY <1>1, WideningInvHolds, PTL

(* The story's due date is the same in its row and in its schedule after    *)
(* every commit, with any number of overlapping saves and deadlocks.        *)
THEOREM CopiesAgreeHolds == WideningSpec => []CopiesAgree
<1>1. WideningInv => CopiesAgree
  BY DEF WideningInv
<1> QED
  BY <1>1, WideningInvHolds, PTL

(* A commit that no other save overlapped, and whose date of the story no   *)
(* client named, leaves no task due after its story.                        *)
LEMMA UncrossedCommit ==
    ASSUME WideningInv, NEW h \in Handlers, Commit(h), ~crossed[h], ~named[h], Contained
    PROVE  Contained'
<1>1. h \in Busy /\ step[h] = "commit"
  BY DEF Commit, Busy
<1>2. /\ held["row"] # h => due[h] <= storyDue["row"]
      /\ held["row"] = h => due[h] >= storyDue["row"]
  BY <1>1 DEF WideningInv, UncrossedSaves, LeavesStory
<1>3. /\ taskDue' = [t \in Tasks |-> IF t = saving[h] THEN due[h] ELSE taskDue[t]]
      /\ storyDue'["row"] = IF held["row"] = h THEN due[h] ELSE storyDue["row"]
  BY DEF Commit, Copies
<1>4. /\ due[h] \in Nat /\ storyDue["row"] \in Nat
      /\ \A t \in Tasks : taskDue[t] \in Nat /\ taskDue[t] <= storyDue["row"]
  BY WideningAssumption DEF WideningInv, WideningTypeOK, Contained, Copies
<1> SUFFICES ASSUME NEW t \in Tasks
             PROVE  taskDue'[t] <= storyDue'["row"]
  BY DEF Contained
<1>5. taskDue'[t] = IF t = saving[h] THEN due[h] ELSE taskDue[t]
  BY <1>3
<1> QED
  BY <1>2, <1>3, <1>4, <1>5

(* Only overlapping saves, and dates of the story that a client names, ever *)
(* leave a task due after its story.                                        *)
THEOREM WideningIsKept == WideningSpec => OnlyCrossedSavesLoseWidening
<1> DEFINE Kept == Contained => Contained' \/ ending'.crossed \/ ending'.named
<1>1. ASSUME WideningInv, [WideningNext]_wideningVars
      PROVE  [Kept]_wideningVars
  <2> SUFFICES ASSUME WideningNext
               PROVE  Kept
    BY <1>1
  <2>1. CASE UNCHANGED <<taskDue, storyDue>>
    BY <2>1 DEF Contained
  <2>2. ASSUME NEW h \in Handlers, Commit(h)
        PROVE  Kept
    <3>1. ending'.crossed = crossed[h] /\ ending'.named = named[h]
      BY <2>2 DEF Commit
    <3>2. crossed[h] \in BOOLEAN /\ named[h] \in BOOLEAN
      BY <1>1 DEF WideningInv, WideningTypeOK
    <3> QED
      BY <1>1, <2>2, <3>1, <3>2, UncrossedCommit
  <2> QED
    BY <2>1, <2>2
       DEF WideningNext, BeginTask, BeginStory, Begin, ReadStory, WriteStory, Deadlock
<1> QED
  BY <1>1, WideningInvHolds, PTL DEF WideningSpec, OnlyCrossedSavesLoseWidening

=============================================================================
