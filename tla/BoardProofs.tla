----------------------------- MODULE BoardProofs -----------------------------
(***************************************************************************)
(* The order of user stories, for any number of stories, cells, handlers   *)
(* and requests: the three action properties of module Boards are proved   *)
(* of its instance in module Backend, from BoardsInv, which says what a    *)
(* drop relies on between its statements.                                  *)
(***************************************************************************)
EXTENDS Backend, OrderRowsLemmas, SequenceTheorems

LEMMA HasGreatest ==
    ASSUME NEW n \in Nat, NEW S, S \subseteq 1..n, S # {}
    PROVE  \E x \in S : \A y \in S : y <= x
<1> DEFINE Up(x) == x..n
           T == {Up(x) : x \in S}
<1>1. IsFiniteSet(1..n) /\ FiniteSubsetsOf(1..n) = SUBSET (1..n)
  BY FS_Interval, FS_FiniteSubsetsOfFinite
<1>2. T \subseteq SUBSET (1..n) /\ T # {}
  <2>1. \A x \in S : Up(x) \subseteq 1..n
    OBVIOUS
  <2> HIDE DEF Up
  <2> QED
    BY <2>1
<1>3. IsWellFoundedOn(StrictSubsetOrdering(1..n), SUBSET (1..n))
  BY <1>1, FS_StrictSubsetOrderingWellFounded
<1>4. PICK U \in T : \A V \in T : ~(<<V, U>> \in StrictSubsetOrdering(1..n))
  <2> HIDE DEF T
  <2> QED
    BY <1>2, <1>3, WFMin
<1>5. PICK x \in S : U = Up(x)
  OBVIOUS
<1>6. ASSUME NEW y \in S, y > x PROVE FALSE
  <2>1. Up(y) \in T /\ Up(y) \subseteq Up(x) /\ x \in Up(x) /\ x \notin Up(y)
    BY <1>6
  <2>2. <<Up(y), U>> \in StrictSubsetOrdering(1..n)
    BY <1>2, <1>5, <2>1 DEF StrictSubsetOrdering
  <2> QED
    BY <1>4, <2>1, <2>2
<1> QED
  BY <1>6

LEMMA BoardSizes ==
    \A S : B!IsFiniteSet(S) = IsFiniteSet(S) /\ B!Cardinality(S) = Cardinality(S)
BY Zenon DEF B!IsFiniteSet, IsFiniteSet, B!Cardinality, Cardinality

LEMMA BoardsConstants ==
    /\ Ids \subseteq Nat /\ IsFiniteSet(Ids)
    /\ None \notin Lanes /\ Gap \in Nat \ {0} /\ MaxAsks \in Nat
    /\ Positions \subseteq Nat
    /\ Starts \subseteq [Ids -> B!Cells]
    /\ \A moved \in Bulks : /\ moved \in Seq(Ids) /\ moved # <<>>
                            /\ \A k, m \in DOMAIN moved : moved[k] = moved[m] => k = m
<1>1. B!BoardsAssumption
  BY BackendAssumption
<1>2. /\ Ids \subseteq Nat /\ IsFiniteSet(Ids)
      /\ None \notin Lanes /\ Gap \in Nat \ {0} /\ MaxAsks \in Nat
      /\ Positions \subseteq Nat
  BY <1>1, BoardSizes DEF B!BoardsAssumption
<1>3. Starts \subseteq [Ids -> B!Cells]
  BY <1>1 DEF B!BoardsAssumption, B!Cells
<1>4. ASSUME NEW moved \in Bulks
      PROVE  /\ moved \in Seq(Ids) /\ moved # <<>>
             /\ \A k, m \in DOMAIN moved : moved[k] = moved[m] => k = m
  <2>1. moved \in Seq(Ids) /\ moved # <<>> /\ B!IsInjective(moved)
    BY <1>1 DEF B!BoardsAssumption
  <2> QED
    BY <2>1 DEF B!IsInjective
<1> QED
  BY <1>2, <1>3, <1>4

(* L are the stories of S along ord.                                       *)
InOrderOf(L, ord, S) ==
    /\ Lists(L, S, Cardinality(S))
    /\ \A k, m \in 1..Cardinality(S) : B!Earlier(ord, L[k], L[m]) <=> k < m

LEMMA SortedStories ==
    ASSUME NEW ord, NEW S, S \subseteq Ids, \A s \in S : ord[s] \in Nat
    PROVE  InOrderOf(B!Sorted(ord, S), ord, S)
<1> DEFINE R == {p \in S \X S : B!Earlier(ord, p[1], p[2])}
<1>1. IsFiniteSet(S) /\ S \subseteq Nat
  BY BoardsConstants, FS_Subset
<1>2. \A s, t \in S : <<s, t>> \in R <=> B!Earlier(ord, s, t)
  OBVIOUS
<1>3. StrictOrder(S, R)
  <2> HIDE DEF R
  <2>1. \A s \in S : s \in Nat /\ ord[s] \in Nat
    BY <1>1
  <2> QED
    BY <1>2, <2>1 DEF StrictOrder, B!Earlier
<1>4. B!Sorted(ord, S) = SortBy(S, R)
  <2>3. PICK n, q, L : n = Cardinality(S) /\ q = SortBy(S, R) /\ L = B!Sorted(ord, S)
    OBVIOUS
  <2>1. \A s \in S : Cardinality({t \in S : B!Earlier(ord, t, s)}) = Rank(S, R, s)
    <3>1. ASSUME NEW s \in S PROVE {t \in S : B!Earlier(ord, t, s)} = Preceding(S, R, s)
      BY <1>2 DEF Preceding
    <3> QED
      BY <3>1 DEF Rank
  <2> HIDE DEF R
  <2>2. /\ n \in Nat /\ q \in [1..n -> S]
        /\ \A s \in S : Rank(S, R, s) \in 0..(n - 1)
        /\ \A s, t \in S : <<s, t>> \in R => Rank(S, R, s) < Rank(S, R, t)
        /\ \A k \in 1..n : Rank(S, R, q[k]) = k - 1
    BY <1>1, <1>3, <2>3, SortByRank
  <2> DEFINE At(k) == CHOOSE s \in S : B!Cardinality({t \in S : B!Earlier(ord, t, s)}) = k - 1
  <2>10. L = [k \in 1..B!Cardinality(S) |-> At(k)]
    BY <2>3, Zenon DEF B!Sorted
  <2>11. ASSUME NEW k, \E s \in S : B!Cardinality({t \in S : B!Earlier(ord, t, s)}) = k - 1
         PROVE  /\ At(k) \in S
                /\ B!Cardinality({t \in S : B!Earlier(ord, t, At(k))}) = k - 1
    BY <2>11, Zenon
  <2> HIDE DEF At
  <2>9. L = [k \in 1..n |-> At(k)]
    BY <2>3, <2>10, BoardSizes
  <2>4. ASSUME NEW k \in 1..n PROVE L[k] = q[k]
    <3>1. q[k] \in S /\ Cardinality({t \in S : B!Earlier(ord, t, q[k])}) = k - 1
      BY <2>1, <2>2
    <3>2. L[k] \in S /\ Cardinality({t \in S : B!Earlier(ord, t, L[k])}) = k - 1
      <4>1. \E s \in S : B!Cardinality({t \in S : B!Earlier(ord, t, s)}) = k - 1
        BY <3>1, BoardSizes
      <4>2. /\ At(k) \in S
            /\ B!Cardinality({t \in S : B!Earlier(ord, t, At(k))}) = k - 1
        BY <2>11, <4>1
      <4>3. L[k] = At(k)
        BY <2>9
      <4> QED
        BY <4>2, <4>3, BoardSizes
    <3>3. Rank(S, R, L[k]) = Rank(S, R, q[k]) /\ Rank(S, R, q[k]) \in Int
      BY <2>1, <2>2, <3>1, <3>2
    <3>4. <<L[k], q[k]>> \notin R /\ <<q[k], L[k]>> \notin R
      BY <2>2, <3>1, <3>2, <3>3
    <3> QED
      BY <1>3, <3>1, <3>2, <3>4 DEF StrictOrder
  <2>5. q = [k \in 1..n |-> q[k]]
    BY <2>2
  <2>6. L = [k \in 1..n |-> L[k]]
    BY <2>9
  <2>7. [k \in 1..n |-> L[k]] = [k \in 1..n |-> q[k]]
    BY <2>4, Zenon
  <2>8. L = q
    BY <2>5, <2>6, <2>7
  <2> QED
    BY <2>3, <2>8
<1> HIDE DEF R
<1>5. Lists(SortBy(S, R), S, Cardinality(S))
  BY <1>1, <1>3, SortByLists
<1>6. \A k, m \in 1..Cardinality(S) : <<SortBy(S, R)[k], SortBy(S, R)[m]>> \in R <=> k < m
  BY <1>1, <1>3, SortByOrder
<1>7. \A k \in 1..Cardinality(S) : SortBy(S, R)[k] \in S
  BY <1>5 DEF Lists
<1> QED
  BY <1>2, <1>4, <1>5, <1>6, <1>7 DEF InOrderOf

(* The stages of a fold along a list, as a function of the stage.          *)
Turn(ord, L, new, k) == B!Shifted(ord, L[k], new[L[k]])

Stages(f, base, L, new) ==
    f[0] = base /\ \A k \in 1..Len(L) : f[k] = Turn(f[k - 1], L, new, k)

(* What FoldLeft evaluates on the sets of the indexes D.                   *)
Folds(f, base, L, new, D) ==
    f = [s \in SUBSET D |->
            IF s = {} THEN base
            ELSE B!Shifted(f[s \ {B!Max(s)}], L[B!Max(s)], new[L[B!Max(s)]])]

FoldsTo(f, base, L, new, m) ==
    f = [s \in SUBSET (1..m) |->
            IF s = {} THEN base ELSE Turn(f[s \ {B!Max(s)}], L, new, B!Max(s))]

LEMMA AppliedByFold ==
    ASSUME NEW base, NEW new
    PROVE  \E f : /\ f = CHOOSE g : Folds(g, base, B!Sorted(new, DOMAIN new), new,
                                          DOMAIN B!Sorted(new, DOMAIN new))
                  /\ B!OrdersApplied(base, new) =
                        [t \in DOMAIN base |->
                            IF t \in DOMAIN new THEN new[t]
                            ELSE f[DOMAIN B!Sorted(new, DOMAIN new)][t]]
<1>1. B!OrdersApplied(base, new) =
          [t \in DOMAIN base |->
              IF t \in DOMAIN new THEN new[t]
              ELSE (CHOOSE g : Folds(g, base, B!Sorted(new, DOMAIN new), new,
                                     DOMAIN B!Sorted(new, DOMAIN new)))
                      [DOMAIN B!Sorted(new, DOMAIN new)][t]]
  BY DEF B!OrdersApplied, B!FoldLeft, B!MapThenFoldSet, Folds
<1> QED
  BY <1>1, Zenon

LEMMA MaxOfSet ==
    ASSUME NEW m \in Nat, NEW s \in SUBSET (1..m), s # {}
    PROVE  B!Max(s) \in s /\ s \ {B!Max(s)} \in SUBSET (1..(B!Max(s) - 1))
<1>2. s \subseteq 1..m
  OBVIOUS
<1>1. PICK x \in s : \A y \in s : y <= x
  BY <1>2, HasGreatest
<1>3. \E z \in s : \A y \in s : z >= y
  <2>1. \A y \in s : x >= y
    BY <1>1, <1>2
  <2> QED
    BY <2>1
<1>4. B!Max(s) \in s /\ \A y \in s : B!Max(s) >= y
  BY <1>3 DEF B!Max
<1>5. ASSUME NEW y \in s, y # B!Max(s) PROVE y \in 1..(B!Max(s) - 1)
  <2>1. y \in 1..m /\ B!Max(s) \in 1..m
    BY <1>2, <1>4
  <2>2. B!Max(s) >= y
    BY <1>4
  <2> QED
    BY <1>5, <2>1, <2>2
<1> QED
  BY <1>4, <1>5

LEMMA MaxOfPrefix ==
    ASSUME NEW k \in Nat, k > 0
    PROVE  B!Max(1..k) = k /\ (1..k) \ {k} = 1..(k - 1)
<1>1. PICK s \in SUBSET (1..k) : s = 1..k
  <2>1. 1..k \in SUBSET (1..k)
    OBVIOUS
  <2> QED
    BY <2>1
<1>2. s # {}
  <2>1. k \in s
    BY <1>1
  <2> QED
    BY <2>1
<1>3. B!Max(s) \in s /\ s \ {B!Max(s)} \in SUBSET (1..(B!Max(s) - 1))
  BY <1>2, MaxOfSet
<1>4. PICK x \in 1..k : x = B!Max(s)
  BY <1>3
<1>5. x = k
  <2>1. k \in s /\ s \ {x} \in SUBSET (1..(x - 1))
    BY <1>1, <1>3, <1>4
  <2> QED
    BY <2>1
<1>6. (1..k) \ {k} = 1..(k - 1)
  OBVIOUS
<1> QED
  BY <1>1, <1>4, <1>5, <1>6

LEMMA FoldGoesOn ==
    ASSUME NEW m \in Nat, m > 0, NEW base, NEW L, NEW new,
           \E f : FoldsTo(f, base, L, new, m - 1)
    PROVE  \E f : FoldsTo(f, base, L, new, m)
<1>1. PICK f : FoldsTo(f, base, L, new, m - 1)
  OBVIOUS
<1>2. PICK g : g = [s \in SUBSET (1..m) |->
                        IF s = {} THEN base ELSE Turn(f[s \ {B!Max(s)}], L, new, B!Max(s))]
  OBVIOUS
<1>3. ASSUME NEW s \in SUBSET (1..(m - 1)) PROVE g[s] = f[s]
  <2>1. s \in SUBSET (1..m)
    OBVIOUS
  <2> QED
    BY <1>1, <1>2, <2>1 DEF FoldsTo
<1>4. ASSUME NEW s \in SUBSET (1..m), s # {}
      PROVE  f[s \ {B!Max(s)}] = g[s \ {B!Max(s)}]
  <2>1. B!Max(s) \in s /\ s \ {B!Max(s)} \in SUBSET (1..(B!Max(s) - 1))
    BY <1>4, MaxOfSet
  <2>2. B!Max(s) \in 1..m
    BY <2>1
  <2>3. s \ {B!Max(s)} \in SUBSET (1..(m - 1))
    BY <2>1, <2>2
  <2> QED
    BY <1>3, <2>3
<1>5. g = [s \in SUBSET (1..m) |->
               IF s = {} THEN base ELSE Turn(g[s \ {B!Max(s)}], L, new, B!Max(s))]
  BY <1>2, <1>4
<1> QED
  BY <1>5 DEF FoldsTo

LEMMA FoldExists ==
    ASSUME NEW n \in Nat, NEW base, NEW L, NEW new
    PROVE  \E f : FoldsTo(f, base, L, new, n)
<1> DEFINE Bad == {m \in 0..n : ~\E f : FoldsTo(f, base, L, new, m)}
<1>1. \E f : FoldsTo(f, base, L, new, 0)
  <2>1. PICK f : f = [s \in {{}} |-> base]
    OBVIOUS
  <2>2. SUBSET (1..0) = {{}}
    OBVIOUS
  <2>3. f = [s \in SUBSET (1..0) |->
                IF s = {} THEN base ELSE Turn(f[s \ {B!Max(s)}], L, new, B!Max(s))]
    BY <2>1, <2>2
  <2> QED
    BY <2>3 DEF FoldsTo
<1>2. 0 \notin Bad
  BY <1>1
<1>3. CASE Bad = {}
  <2>1. n \in 0..n
    OBVIOUS
  <2> QED
    BY <1>3, <2>1
<1>4. CASE Bad # {}
  <2>1. Bad \subseteq 1..n
    BY <1>2
  <2>2. PICK x \in Bad : \A y \in Bad : x <= y
    <3> HIDE DEF Bad
    <3> QED
      BY <1>4, <2>1, HasLeast
  <2>3. x \in Nat /\ x > 0 /\ x - 1 \in 0..n
    BY <2>1, <2>2
  <2>4. x - 1 \notin Bad
    <3> HIDE DEF Bad
    <3> QED
      BY <2>2, <2>3
  <2>5. \E f : FoldsTo(f, base, L, new, x - 1)
    BY <2>3, <2>4
  <2>6. \E f : FoldsTo(f, base, L, new, x)
    BY <2>3, <2>5, FoldGoesOn
  <2> QED
    BY <2>2, <2>6
<1> QED
  BY <1>3, <1>4

AppliedBy(f, base, new, L) ==
    /\ Stages(f, base, L, new)
    /\ B!OrdersApplied(base, new) =
          [t \in DOMAIN base |-> IF t \in DOMAIN new THEN new[t] ELSE f[Len(L)][t]]

(* apply_order_updates runs a turn per new position, in their order.       *)
LEMMA OrdersAppliedInTurns ==
    ASSUME NEW base, NEW new, NEW L \in Seq(DOMAIN new), L = B!Sorted(new, DOMAIN new)
    PROVE  \E f : AppliedBy(f, base, new, L)
<1>1. DOMAIN L = 1..Len(L) /\ Len(L) \in Nat
  OBVIOUS
<1>2. PICK n \in Nat : n = Len(L)
  BY <1>1
<1>3. PICK g : /\ g = CHOOSE f : Folds(f, base, B!Sorted(new, DOMAIN new), new,
                                      DOMAIN B!Sorted(new, DOMAIN new))
               /\ B!OrdersApplied(base, new) =
                     [t \in DOMAIN base |->
                         IF t \in DOMAIN new THEN new[t]
                         ELSE g[DOMAIN B!Sorted(new, DOMAIN new)][t]]
  BY AppliedByFold
<1>4. FoldsTo(g, base, L, new, n)
  <2>1. PICK f : FoldsTo(f, base, L, new, n)
    BY FoldExists
  <2>2. Folds(f, base, L, new, 1..n)
    BY <2>1 DEF FoldsTo, Folds, Turn
  <2>3. Folds(f, base, B!Sorted(new, DOMAIN new), new, DOMAIN B!Sorted(new, DOMAIN new))
    BY <1>1, <1>2, <2>2
  <2>4. Folds(g, base, B!Sorted(new, DOMAIN new), new, DOMAIN B!Sorted(new, DOMAIN new))
    BY <1>3, <2>3, Zenon
  <2>5. Folds(g, base, L, new, 1..n)
    BY <1>1, <1>2, <2>4
  <2> QED
    BY <2>5 DEF FoldsTo, Folds, Turn
<1>5. B!OrdersApplied(base, new) =
          [t \in DOMAIN base |-> IF t \in DOMAIN new THEN new[t] ELSE g[1..n][t]]
  <2>1. DOMAIN B!Sorted(new, DOMAIN new) = 1..n
    BY <1>1, <1>2
  <2> QED
    BY <1>3, <2>1
<1>6. PICK f : f = [k \in 0..n |-> g[1..k]]
  OBVIOUS
<1>7. f[0] = base
  <2>1. 1..0 = {} /\ 0 \in 0..n
    OBVIOUS
  <2> QED
    BY <1>4, <1>6, <2>1 DEF FoldsTo
<1>8. ASSUME NEW k \in 1..n PROVE f[k] = Turn(f[k - 1], L, new, k)
  <2>1. B!Max(1..k) = k /\ (1..k) \ {k} = 1..(k - 1)
    <3>1. k \in Nat /\ k > 0
      OBVIOUS
    <3> QED
      BY <3>1, MaxOfPrefix
  <2>2. 1..k \subseteq 1..n /\ 1 \in 1..k /\ k \in 0..n /\ k - 1 \in 0..n
    OBVIOUS
  <2>4. 1..k \in SUBSET (1..n) /\ 1..k # {}
    BY <2>2
  <2>3. g[1..k] = Turn(g[(1..k) \ {B!Max(1..k)}], L, new, B!Max(1..k))
    BY <1>4, <2>4 DEF FoldsTo
  <2> QED
    BY <1>6, <2>1, <2>2, <2>3
<1>9. f[n] = g[1..n]
  BY <1>6
<1>10. Stages(f, base, L, new)
  BY <1>2, <1>7, <1>8 DEF Stages
<1>11. AppliedBy(f, base, new, L)
  BY <1>2, <1>5, <1>9, <1>10 DEF AppliedBy
<1> QED
  BY <1>11

(* No order in f is that of one of the first k stories of L.               *)
FreeUpTo(f, D, L, new, k) ==
    /\ f \in [D -> Nat]
    /\ \A t \in D, j \in 1..k : f[t] # new[L[j]]

LEMMA TurnFrees ==
    ASSUME NEW D, NEW f, NEW L, NEW new, NEW k \in Nat, k > 0,
           FreeUpTo(f, D, L, new, k - 1),
           L[k] \in D, \A j \in 1..k : new[L[j]] \in Nat /\ new[L[j]] <= new[L[k]]
    PROVE  FreeUpTo(Turn(f, L, new, k), D, L, new, k)
<1>1. PICK o \in Nat : o = new[L[k]]
  <2>1. k \in 1..k
    OBVIOUS
  <2> QED
    BY <2>1
<1>2. PICK s \in D : s = L[k]
  OBVIOUS
<1>3. f \in [D -> Nat] /\ \A t \in D, j \in 1..(k - 1) : f[t] # new[L[j]]
  BY DEF FreeUpTo
<1>4. PICK g : g = Turn(f, L, new, k)
  OBVIOUS
<1>5. g = [t \in D |-> IF f[t] >= o /\ (o >= f[s] \/ f[t] < f[s]) THEN f[t] + 1 ELSE f[t]]
  BY <1>1, <1>2, <1>3, <1>4 DEF Turn, B!Shifted
<1>6. g \in [D -> Nat]
  BY <1>3, <1>5
<1>7. ASSUME NEW t \in D, NEW j \in 1..k PROVE g[t] # new[L[j]]
  <2>1. f[t] \in Nat /\ f[s] \in Nat
    BY <1>3
  <2>2. new[L[j]] \in Nat /\ new[L[j]] <= o
    BY <1>1
  <2>3. g[t] = IF f[t] >= o /\ (o >= f[s] \/ f[t] < f[s]) THEN f[t] + 1 ELSE f[t]
    BY <1>5
  <2>4. CASE j = k
    <3>1. new[L[j]] = o
      BY <1>1, <2>4
    <3> QED
      BY <2>1, <2>3, <3>1
  <2>5. CASE j # k
    <3>1. f[t] # new[L[j]]
      BY <1>3, <2>5
    <3> QED
      BY <2>1, <2>2, <2>3, <3>1
  <2> QED
    BY <2>4, <2>5
<1> QED
  BY <1>4, <1>6, <1>7 DEF FreeUpTo

LEMMA TurnsFree ==
    ASSUME NEW D, NEW f, NEW base \in [D -> Nat], NEW L, NEW new, NEW n \in Nat,
           Len(L) = n, Stages(f, base, L, new),
           \A k \in 1..n : L[k] \in D /\ new[L[k]] \in Nat,
           \A j, k \in 1..n : j <= k => new[L[j]] <= new[L[k]]
    PROVE  FreeUpTo(f[n], D, L, new, n)
<1> DEFINE Bad == {k \in 1..n : ~FreeUpTo(f[k], D, L, new, k)}
<1>1. FreeUpTo(f[0], D, L, new, 0)
  <2>1. f[0] = base /\ 1..0 = {}
    BY DEF Stages
  <2> QED
    BY <2>1 DEF FreeUpTo
<1>2. CASE Bad = {}
  <2>1. n = 0 \/ n \in 1..n
    OBVIOUS
  <2> QED
    BY <1>1, <1>2, <2>1
<1>3. CASE Bad # {}
  <2>1. Bad \subseteq 1..n
    OBVIOUS
  <2>2. PICK k \in Bad : \A m \in Bad : k <= m
    <3> HIDE DEF Bad
    <3> QED
      BY <1>3, <2>1, HasLeast
  <2>3. k \in 1..n /\ k \in Nat /\ k > 0
    OBVIOUS
  <2>4. FreeUpTo(f[k - 1], D, L, new, k - 1)
    <3>1. k - 1 = 0 \/ k - 1 \in 1..n
      BY <2>3
    <3>2. k - 1 \notin Bad
      <4> HIDE DEF Bad
      <4> QED
        BY <2>2, <2>3
    <3> QED
      BY <1>1, <3>1, <3>2
  <2>5. f[k] = Turn(f[k - 1], L, new, k)
    BY <2>3 DEF Stages
  <2>6. L[k] \in D /\ \A j \in 1..k : new[L[j]] \in Nat /\ new[L[j]] <= new[L[k]]
    <3>1. ASSUME NEW j \in 1..k PROVE j \in 1..n /\ j <= k
      BY <2>3
    <3> QED
      BY <2>3, <3>1
  <2>7. FreeUpTo(f[k], D, L, new, k)
    BY <2>3, <2>4, <2>5, <2>6, TurnFrees
  <2> QED
    BY <2>2, <2>7
<1> QED
  BY <1>2, <1>3

LEMMA NewInOrder ==
    ASSUME NEW X, X \subseteq Ids, NEW new \in [X -> Nat]
    PROVE  \E L \in Seq(DOMAIN new), n \in Nat :
              /\ L = B!Sorted(new, DOMAIN new)
              /\ n = Cardinality(X) /\ Len(L) = n
              /\ Lists(L, X, n)
              /\ \A j, k \in 1..n : j <= k => new[L[j]] <= new[L[k]]
<1>1. PICK L : L = B!Sorted(new, X)
  OBVIOUS
<1>2. InOrderOf(L, new, X)
  BY <1>1, SortedStories
<1>3. PICK n : n = Cardinality(X)
  OBVIOUS
<1>4. /\ n \in Nat /\ L \in [1..n -> X] /\ Lists(L, X, n)
      /\ \A k, m \in 1..n : B!Earlier(new, L[k], L[m]) <=> k < m
  BY <1>2, <1>3 DEF InOrderOf, Lists
<1>5. L \in Seq(X) /\ Len(L) = n
  BY <1>4
<1>6. DOMAIN new = X
  OBVIOUS
<1>7. ASSUME NEW j \in 1..n, NEW k \in 1..n, j <= k PROVE new[L[j]] <= new[L[k]]
  <2>1. new[L[j]] \in Nat /\ new[L[k]] \in Nat
    BY <1>4
  <2>2. j = k \/ B!Earlier(new, L[j], L[k])
    BY <1>4, <1>7
  <2> QED
    BY <2>1, <2>2 DEF B!Earlier
<1> QED
  BY <1>1, <1>3, <1>4, <1>5, <1>6, <1>7

(* What apply_order_updates gives the stories X is free of the others.     *)
FreePlaces(r, D, X, new) ==
    /\ r \in [D -> Nat]
    /\ \A x \in X : r[x] = new[x]
    /\ \A x \in X, t \in D \ X : r[t] # r[x]

LEMMA OrdersAppliedFree ==
    ASSUME NEW D, NEW X, X \subseteq D, D \subseteq Ids,
           NEW base \in [D -> Nat], NEW new \in [X -> Nat]
    PROVE  FreePlaces(B!OrdersApplied(base, new), D, X, new)
<1>1. PICK L \in Seq(DOMAIN new), n \in Nat :
              /\ L = B!Sorted(new, DOMAIN new)
              /\ n = Cardinality(X) /\ Len(L) = n
              /\ Lists(L, X, n)
              /\ \A j, k \in 1..n : j <= k => new[L[j]] <= new[L[k]]
  BY NewInOrder
<1>2. PICK f : AppliedBy(f, base, new, L)
  BY <1>1, OrdersAppliedInTurns
<1>3. \A k \in 1..n : L[k] \in X /\ L[k] \in D /\ new[L[k]] \in Nat
  BY <1>1 DEF Lists
<1>4. FreeUpTo(f[n], D, L, new, n)
  BY <1>1, <1>2, <1>3, TurnsFree DEF AppliedBy
<1>5. PICK g : g = f[n]
  OBVIOUS
<1>6. PICK r : r = B!OrdersApplied(base, new)
  OBVIOUS
<1>7. r = [t \in D |-> IF t \in X THEN new[t] ELSE g[t]]
  BY <1>1, <1>2, <1>5, <1>6 DEF AppliedBy
<1>8. g \in [D -> Nat] /\ \A t \in D, j \in 1..n : g[t] # new[L[j]]
  BY <1>4, <1>5 DEF FreeUpTo
<1>9. \A x \in X : \E j \in 1..n : L[j] = x
  BY <1>1 DEF Lists
<1>10. FreePlaces(r, D, X, new)
  BY <1>7, <1>8, <1>9 DEF FreePlaces
<1> QED
  BY <1>6, <1>10

(* The stories at o and after it make room for s.                          *)
MakesRoom(r, D, base, s, o) ==
    r = [t \in D |-> IF t # s /\ base[t] >= o THEN base[t] + 1 ELSE base[t]]

SingleOrder(new, s, o) == new = [t \in {s} |-> o]

LEMMA SingleOrderApplied ==
    ASSUME NEW D, D \subseteq Ids, NEW s \in D, NEW base \in [D -> Nat], NEW o \in Nat,
           base[s] = o, NEW new, SingleOrder(new, s, o)
    PROVE  MakesRoom(B!OrdersApplied(base, new), D, base, s, o)
<1>1. new = [t \in {s} |-> o]
  BY DEF SingleOrder
<1>2. new \in [{s} -> Nat] /\ DOMAIN new = {s} /\ {s} \subseteq Ids
  BY <1>1
<1>3. PICK L \in Seq(DOMAIN new), n \in Nat :
              /\ L = B!Sorted(new, DOMAIN new)
              /\ n = Cardinality({s}) /\ Len(L) = n
              /\ Lists(L, {s}, n)
              /\ \A j, k \in 1..n : j <= k => new[L[j]] <= new[L[k]]
  BY <1>2, NewInOrder
<1>4. PICK f : AppliedBy(f, base, new, L)
  BY <1>3, OrdersAppliedInTurns
<1>5. n = 1 /\ 1 \in 1..n /\ L[1] = s
  <2>1. n = 1
    BY <1>3, FS_Singleton
  <2>2. L \in [1..n -> {s}]
    BY <1>3 DEF Lists
  <2>3. 1 \in 1..n
    BY <2>1
  <2> QED
    BY <2>1, <2>2, <2>3
<1>6. f[1] = B!Shifted(base, s, o)
  <2>1. f[0] = base /\ f[1] = Turn(f[1 - 1], L, new, 1)
    BY <1>3, <1>4, <1>5 DEF Stages, AppliedBy
  <2>2. new[s] = o
    BY <1>1
  <2> QED
    BY <1>5, <2>1, <2>2 DEF Turn
<1>7. PICK g : g = f[1]
  OBVIOUS
<1>8. B!OrdersApplied(base, new) = [t \in D |-> IF t = s THEN o ELSE g[t]]
  <2>1. DOMAIN base = D /\ DOMAIN new = {s} /\ new[s] = o /\ f[Len(L)] = g
    BY <1>1, <1>2, <1>3, <1>5, <1>7
  <2>2. B!OrdersApplied(base, new) = [t \in D |-> IF t \in {s} THEN new[t] ELSE g[t]]
    BY <1>4, <2>1 DEF AppliedBy
  <2>3. \A t \in D : (IF t \in {s} THEN new[t] ELSE g[t]) = IF t = s THEN o ELSE g[t]
    BY <2>1
  <2> QED
    BY <2>2, <2>3
<1>9. g = [t \in D |-> IF base[t] >= o /\ (o >= o \/ base[t] < o) THEN base[t] + 1 ELSE base[t]]
  BY <1>6, <1>7 DEF B!Shifted
<1>10. \A t \in D : (IF t = s THEN o ELSE g[t])
                     = IF t # s /\ base[t] >= o THEN base[t] + 1 ELSE base[t]
  BY <1>9
<1> QED
  BY <1>8, <1>10 DEF MakesRoom

LEMMA NothingApplied ==
    ASSUME NEW D, NEW base \in [D -> Nat], NEW X, X = {}, NEW new \in [X -> Nat]
    PROVE  B!OrdersApplied(base, new) = base
<1>1. X \subseteq Ids
  OBVIOUS
<1>2. PICK L \in Seq(DOMAIN new), n \in Nat :
              /\ L = B!Sorted(new, DOMAIN new)
              /\ n = Cardinality(X) /\ Len(L) = n
              /\ Lists(L, X, n)
              /\ \A j, k \in 1..n : j <= k => new[L[j]] <= new[L[k]]
  BY <1>1, NewInOrder
<1>3. PICK f : AppliedBy(f, base, new, L)
  BY <1>2, OrdersAppliedInTurns
<1>4. f[Len(L)] = base
  BY <1>2, <1>3, FS_EmptySet DEF Stages, AppliedBy
<1>5. DOMAIN base = D /\ DOMAIN new = {} /\ base = [t \in D |-> base[t]]
  OBVIOUS
<1>6. B!OrdersApplied(base, new) = [t \in D |-> base[t]]
  BY <1>3, <1>4, <1>5 DEF AppliedBy
<1> QED
  BY <1>5, <1>6

(* Stories numbered along a list, from f.                                  *)
Numbered(p, ids, f) ==
    p = [s \in B!Range(ids) |-> f + (CHOOSE i \in DOMAIN ids : ids[i] = s) - 1]

InRow(p, ids, n, f) ==
    /\ DOMAIN p = {ids[k] : k \in 1..n}
    /\ p \in [DOMAIN p -> Nat]
    /\ \A k \in 1..n : p[ids[k]] = f + k - 1

LEMMA NumberedInRow ==
    ASSUME NEW ids, NEW n \in Nat, NEW f \in Nat, DOMAIN ids = 1..n,
           \A j, k \in 1..n : ids[j] = ids[k] => j = k, NEW p, Numbered(p, ids, f)
    PROVE  InRow(p, ids, n, f)
<1> DEFINE At(s) == CHOOSE i \in DOMAIN ids : ids[i] = s
<1>1. p = [s \in B!Range(ids) |-> f + At(s) - 1]
  BY DEF Numbered
<1>2. ASSUME NEW k \in 1..n PROVE At(ids[k]) = k
  <2>1. \E i \in DOMAIN ids : ids[i] = ids[k]
    OBVIOUS
  <2>2. At(ids[k]) \in DOMAIN ids /\ ids[At(ids[k])] = ids[k]
    BY <2>1, Zenon
  <2> HIDE DEF At
  <2> QED
    BY <2>2
<1> HIDE DEF At
<1>3. B!Range(ids) = {ids[k] : k \in 1..n}
  BY DEF B!Range
<1>4. ASSUME NEW s \in B!Range(ids) PROVE f + At(s) - 1 \in Nat
  <2>1. PICK k \in 1..n : s = ids[k]
    BY <1>3
  <2>2. At(s) = k
    BY <1>2, <2>1
  <2> QED
    BY <2>2
<1>5. ASSUME NEW k \in 1..n PROVE p[ids[k]] = f + k - 1
  <2>1. ids[k] \in B!Range(ids)
    BY <1>3
  <2> QED
    BY <1>1, <1>2, <2>1
<1>6. p \in [B!Range(ids) -> Nat]
  BY <1>1, <1>4
<1> QED
  BY <1>1, <1>3, <1>5, <1>6 DEF InRow

(* p numbers the stories of moved in a row from f, and then those of S     *)
(* along ord.                                                              *)
PlannedAlong(p, moved, S, ord, f) ==
    /\ DOMAIN p = B!Range(moved) \cup S
    /\ p \in [DOMAIN p -> Nat]
    /\ \A j \in 1..Len(moved) : p[moved[j]] = f + j - 1
    /\ \A s \in S : p[s] >= f + Len(moved)
    /\ \A s, t \in S : B!Earlier(ord, s, t) <=> p[s] < p[t]

LEMMA RowIsPlanned ==
    ASSUME NEW moved \in Seq(Ids), \A k, m \in DOMAIN moved : moved[k] = moved[m] => k = m,
           NEW S, S \subseteq Ids, S \cap B!Range(moved) = {},
           NEW ord, \A s \in S : ord[s] \in Nat, NEW f \in Nat, NEW p, NEW ids,
           ids = moved \o B!Sorted(ord, S), Numbered(p, ids, f)
    PROVE  PlannedAlong(p, moved, S, ord, f)
<1>1. PICK L : L = B!Sorted(ord, S)
  OBVIOUS
<1>2. PICK m : m = Cardinality(S)
  OBVIOUS
<1>3. /\ m \in Nat /\ L \in [1..m -> S]
      /\ \A a, b \in 1..m : L[a] = L[b] => a = b
      /\ \A s \in S : \E k \in 1..m : L[k] = s
      /\ \A j, k \in 1..m : B!Earlier(ord, L[j], L[k]) <=> j < k
  <2>1. InOrderOf(L, ord, S)
    BY <1>1, SortedStories
  <2> QED
    BY <1>2, <2>1 DEF InOrderOf, Lists
<1>4. PICK n \in Nat : n = Len(moved)
  OBVIOUS
<1>5. DOMAIN moved = 1..n /\ \A k \in 1..n : moved[k] \in B!Range(moved)
  BY <1>4 DEF B!Range
<1>6. L \in Seq(S) /\ Len(L) = m
  BY <1>3
<1>7. /\ DOMAIN ids = 1..(n + m)
      /\ \A k \in 1..n : ids[k] = moved[k]
      /\ \A k \in 1..m : ids[n + k] = L[k]
  <2>1. moved \in Seq(Ids) /\ L \in Seq(Ids)
    BY <1>3, <1>6
  <2>2. ids = moved \o L
    BY <1>1
  <2>3. ids \in Seq(Ids) /\ Len(ids) = Len(moved) + Len(L)
    BY <2>1, <2>2, ConcatProperties
  <2>6. \A k \in 1..(Len(moved) + Len(L)) :
            ids[k] = IF k <= Len(moved) THEN moved[k] ELSE L[k - Len(moved)]
    BY <2>1, <2>2, ConcatProperties
  <2>4. ASSUME NEW k \in 1..m PROVE ids[n + k] = L[k]
    <3>1. n + k \in 1..(n + m) /\ ~(n + k <= n) /\ (n + k) - n = k
      BY <1>3
    <3> QED
      BY <1>4, <1>6, <2>6, <3>1
  <2>5. ASSUME NEW k \in 1..n PROVE ids[k] = moved[k]
    <3>1. k \in 1..(n + m) /\ k <= n
      BY <1>3
    <3> QED
      BY <1>4, <1>6, <2>6, <3>1
  <2>7. DOMAIN ids = 1..(n + m)
    BY <1>4, <1>6, <2>3
  <2> QED
    BY <2>4, <2>5, <2>7
<1>8. ASSUME NEW k \in 1..(n + m)
      PROVE  k \in 1..n \/ \E j \in 1..m : k = n + j
  <2>1. CASE k > n
    <3>1. k - n \in 1..m /\ k = n + (k - n)
      BY <1>3, <2>1
    <3> QED
      BY <3>1
  <2>2. CASE k <= n
    BY <1>3, <2>2
  <2> QED
    BY <1>3, <2>1, <2>2
<1>9. ASSUME NEW j \in 1..(n + m), NEW k \in 1..(n + m), ids[j] = ids[k] PROVE j = k
  <2>1. ASSUME NEW a \in 1..n, NEW b \in 1..m PROVE moved[a] # L[b]
    BY <1>3, <1>5
  <2>2. CASE j \in 1..n /\ k \in 1..n
    BY <1>5, <1>7, <1>9, <2>2
  <2>3. CASE j \in 1..n /\ k \notin 1..n
    <3>1. PICK b \in 1..m : k = n + b
      BY <1>8, <2>3
    <3> QED
      BY <1>7, <1>9, <2>1, <2>3, <3>1
  <2>4. CASE j \notin 1..n /\ k \in 1..n
    <3>1. PICK b \in 1..m : j = n + b
      BY <1>8, <2>4
    <3> QED
      BY <1>7, <1>9, <2>1, <2>4, <3>1
  <2>5. CASE j \notin 1..n /\ k \notin 1..n
    <3>1. PICK a \in 1..m : j = n + a
      BY <1>8, <2>5
    <3>2. PICK b \in 1..m : k = n + b
      BY <1>8, <2>5
    <3>3. L[a] = L[b]
      BY <1>7, <1>9, <3>1, <3>2
    <3> QED
      BY <1>3, <3>1, <3>2, <3>3
  <2> QED
    BY <2>2, <2>3, <2>4, <2>5
<1>10. n + m \in Nat
  BY <1>3
<1>11. /\ DOMAIN p = {ids[k] : k \in 1..(n + m)}
       /\ p \in [DOMAIN p -> Nat]
       /\ \A k \in 1..(n + m) : p[ids[k]] = f + k - 1
  <2>1. PICK N \in Nat : N = n + m
    BY <1>10
  <2>2. DOMAIN ids = 1..N /\ \A j, k \in 1..N : ids[j] = ids[k] => j = k
    BY <1>7, <1>9, <2>1
  <2>3. InRow(p, ids, N, f)
    BY <2>1, <2>2, NumberedInRow
  <2> QED
    BY <2>1, <2>3 DEF InRow
<1>17. \A k \in 1..(n + m) : ids[k] \in DOMAIN p /\ p[ids[k]] = f + k - 1
  <2>1. PICK D : D = DOMAIN p
    OBVIOUS
  <2>2. D = {ids[k] : k \in 1..(n + m)}
    BY <1>11, <2>1
  <2>3. \A k \in 1..(n + m) : ids[k] \in D
    BY <2>2
  <2> QED
    BY <1>11, <2>1, <2>3
<1>12. DOMAIN p = B!Range(moved) \cup S
  <2>1. ASSUME NEW s \in DOMAIN p PROVE s \in B!Range(moved) \cup S
    <3>1. PICK k \in 1..(n + m) : s = ids[k]
      BY <1>11
    <3>2. CASE k \in 1..n
      BY <1>5, <1>7, <3>1, <3>2
    <3>3. CASE k \notin 1..n
      <4>1. PICK j \in 1..m : k = n + j
        BY <1>8, <3>3
      <4>2. ids[n + j] = L[j] /\ L[j] \in S
        BY <1>3, <1>7, <4>1
      <4> QED
        BY <3>1, <4>1, <4>2
    <3> QED
      BY <3>2, <3>3
  <2>2. ASSUME NEW s \in B!Range(moved) PROVE s \in DOMAIN p
    <3>1. PICK k \in 1..n : s = moved[k]
      BY <1>5 DEF B!Range
    <3>2. k \in 1..(n + m)
      BY <1>3
    <3>3. ids[k] \in DOMAIN p
      BY <1>17, <3>2
    <3> QED
      BY <1>7, <3>1, <3>3
  <2>3. ASSUME NEW s \in S PROVE s \in DOMAIN p
    <3>1. PICK k \in 1..m : s = L[k]
      BY <1>3
    <3>2. n + k \in 1..(n + m)
      BY <1>3
    <3>3. ids[n + k] \in DOMAIN p
      BY <1>17, <3>2
    <3> QED
      BY <1>7, <3>1, <3>3
  <2> QED
    BY <2>1, <2>2, <2>3
<1>13. ASSUME NEW j \in 1..Len(moved) PROVE p[moved[j]] = f + j - 1
  <2>1. j \in 1..n /\ j \in 1..(n + m)
    BY <1>3, <1>4
  <2> QED
    BY <1>7, <1>11, <2>1
<1>14. ASSUME NEW k \in 1..m PROVE p[L[k]] = f + n + k - 1
  <2>1. n + k \in 1..(n + m)
    BY <1>3
  <2>2. p[ids[n + k]] = f + (n + k) - 1
    BY <1>17, <2>1
  <2>3. ids[n + k] = L[k]
    BY <1>7
  <2> QED
    BY <2>2, <2>3
<1>15. ASSUME NEW s \in S PROVE p[s] >= f + Len(moved)
  <2>1. PICK k \in 1..m : s = L[k]
    BY <1>3
  <2>2. p[s] = f + n + k - 1
    BY <1>14, <2>1
  <2> QED
    BY <1>4, <2>2
<1>16. ASSUME NEW s \in S, NEW t \in S PROVE B!Earlier(ord, s, t) <=> p[s] < p[t]
  <2>1. PICK j \in 1..m : s = L[j]
    BY <1>3
  <2>2. PICK k \in 1..m : t = L[k]
    BY <1>3
  <2>3. B!Earlier(ord, s, t) <=> j < k
    BY <1>3, <2>1, <2>2
  <2>4. p[s] = f + n + j - 1 /\ p[t] = f + n + k - 1
    BY <1>14, <2>1, <2>2
  <2> QED
    BY <2>3, <2>4
<1> QED
  BY <1>11, <1>12, <1>13, <1>15, <1>16 DEF PlannedAlong

LEMMA BoardColumns ==
    ASSUME B!BoardsTypeOK, NEW c
    PROVE  /\ B!Column(c) \in B!Columns
           /\ order[B!Column(c)] \in [Ids -> Nat]
BY DEF B!BoardsTypeOK, B!Column, B!Columns

LEMMA MovedFacts ==
    ASSUME NEW moved \in Bulks
    PROVE  /\ moved \in Seq(Ids) /\ Len(moved) \in Nat /\ Len(moved) > 0
           /\ DOMAIN moved = 1..Len(moved)
           /\ \A k, m \in DOMAIN moved : moved[k] = moved[m] => k = m
           /\ B!Range(moved) \subseteq Ids
           /\ \A s \in B!Range(moved) : \E k \in 1..Len(moved) : moved[k] = s
           /\ \A k \in 1..Len(moved) : moved[k] \in B!Range(moved)
           /\ moved[1] \in B!Range(moved)
<1>1. /\ moved \in Seq(Ids) /\ moved # <<>>
      /\ \A k, m \in DOMAIN moved : moved[k] = moved[m] => k = m
  BY BoardsConstants
<1>2. Len(moved) \in Nat /\ DOMAIN moved = 1..Len(moved)
  BY <1>1
<1>3. Len(moved) > 0
  BY <1>1, <1>2, EmptySeq
<1>4. \A k \in 1..Len(moved) : moved[k] \in Ids
  BY <1>1
<1>5. B!Range(moved) = {moved[k] : k \in 1..Len(moved)}
  BY <1>2 DEF B!Range
<1>6. 1 \in 1..Len(moved)
  BY <1>2, <1>3
<1> QED
  BY <1>1, <1>2, <1>3, <1>4, <1>5, <1>6

(* What a drop reads and plans.                                            *)
Started(moved, to, side, anchor, crossing) ==
    [pc |-> "read", moved |-> moved, to |-> to, side |-> side, anchor |-> anchor,
     plan |-> B!Plan(moved, to, side, anchor), crossed |-> crossing]

LEMMA PlanIsAlong ==
    ASSUME B!BoardsTypeOK, NEW moved \in Bulks, NEW to \in B!Cells,
           NEW side \in {"first", "before", "after"}, NEW anchor \in Ids
    PROVE  /\ B!FirstOrder(to, side, anchor) \in Nat
           /\ PlannedAlong(B!Plan(moved, to, side, anchor), moved,
                           B!Displaced(moved, to, side, anchor), order[B!Column(to)],
                           B!FirstOrder(to, side, anchor))
<1>1. PICK ord \in [Ids -> Nat] : ord = order[B!Column(to)]
  BY BoardColumns
<1>2. PICK f \in Nat : f = B!FirstOrder(to, side, anchor)
  <2>1. ord[anchor] \in Nat
    BY <1>1
  <2> QED
    BY <1>1, <2>1 DEF B!FirstOrder
<1>3. PICK S : S = B!Displaced(moved, to, side, anchor)
  OBVIOUS
<1>4. S \subseteq Ids /\ S \cap B!Range(moved) = {}
  BY <1>3 DEF B!Displaced, B!InCell
<1>5. PICK ids : ids = moved \o B!Sorted(ord, S)
  OBVIOUS
<1>6. PICK p : p = B!Plan(moved, to, side, anchor)
  OBVIOUS
<1>7. Numbered(p, ids, f)
  BY <1>1, <1>2, <1>3, <1>5, <1>6 DEF B!Plan, Numbered
<1>8. /\ moved \in Seq(Ids)
      /\ \A k, m \in DOMAIN moved : moved[k] = moved[m] => k = m
      /\ \A s \in S : ord[s] \in Nat
  BY <1>1, <1>4, MovedFacts
<1>9. PlannedAlong(p, moved, S, ord, f)
  BY <1>2, <1>4, <1>5, <1>7, <1>8, RowIsPlanned
<1> QED
  BY <1>1, <1>2, <1>3, <1>6, <1>9

LEMMA StartedStands ==
    ASSUME B!BoardsTypeOK, NEW moved \in Bulks, NEW to \in B!Cells,
           NEW side \in {"first", "before", "after"}, NEW anchor \in Ids,
           IF side = "first" THEN anchor = moved[1] ELSE anchor \in B!InCell(to),
           NEW crossing \in BOOLEAN, NEW d, d = Started(moved, to, side, anchor, crossing)
    PROVE  /\ B!DropShape(d) /\ B!DropPlanned(d) /\ B!DropStands(d)
           /\ DOMAIN d.plan \subseteq B!Range(moved) \cup B!InCell(to)
<1>1. PICK ord \in [Ids -> Nat] : ord = order[B!Column(to)]
  BY BoardColumns
<1>2. PICK f : f = B!FirstOrder(to, side, anchor)
  OBVIOUS
<1>3. PICK S : S = B!Displaced(moved, to, side, anchor)
  OBVIOUS
<1>4. PICK p : p = B!Plan(moved, to, side, anchor)
  OBVIOUS
<1>5. PICK own : own = B!Range(moved)
  OBVIOUS
<1>6. PICK cell : cell = B!InCell(to)
  OBVIOUS
<1>7. /\ f \in Nat /\ DOMAIN p = own \cup S /\ p \in [DOMAIN p -> Nat]
      /\ \A j \in 1..Len(moved) : p[moved[j]] = f + j - 1
      /\ \A s \in S : p[s] >= f + Len(moved)
      /\ \A s, t \in S : B!Earlier(ord, s, t) <=> p[s] < p[t]
  <2>1. f \in Nat /\ PlannedAlong(p, moved, S, ord, f)
    BY <1>1, <1>2, <1>3, <1>4, PlanIsAlong
  <2> QED
    BY <1>5, <2>1 DEF PlannedAlong
<1>8. /\ cell \subseteq Ids /\ own \subseteq Ids /\ S \subseteq cell
      /\ S \cap own = {} /\ DOMAIN p \ own = S /\ cell \ DOMAIN p = (cell \ own) \ S
      /\ \A s \in cell \ own :
             s \in S <=> \/ side = "first"
                         \/ ord[s] >= ord[anchor] /\ (side = "after" => s # anchor)
  BY <1>1, <1>3, <1>5, <1>6, <1>7, MovedFacts DEF B!Displaced, B!InCell
<1>9. /\ d.pc = "read" /\ d.moved = moved /\ d.to = to /\ d.side = side
      /\ d.anchor = anchor /\ d.plan = p /\ d.crossed = crossing
      /\ d = [pc |-> d.pc, moved |-> d.moved, to |-> d.to, side |-> d.side,
              anchor |-> d.anchor, plan |-> d.plan, crossed |-> d.crossed]
  BY <1>4 DEF Started
<1>10. 1 \in 1..Len(moved) /\ Len(moved) \in Nat /\ p[moved[1]] = f
  BY <1>7, MovedFacts
<1>11. \A s \in Ids : ord[s] \in Nat
  BY <1>1
<1>12. f = CASE side = "first" -> 1
             [] side = "before" -> ord[anchor]
             [] side = "after" -> ord[anchor] + 1
  BY <1>1, <1>2 DEF B!FirstOrder
<1>13. side # "first" => anchor \in cell
  BY <1>6
<1>14. DOMAIN p \subseteq Ids
  BY <1>7, <1>8
<1>15. B!DropShape(d)
  BY <1>7, <1>9, <1>14 DEF B!DropShape
<1>16. B!DropPlanned(d)
  <2>1. \A j \in 1..Len(moved) : p[moved[j]] = p[moved[1]] + j - 1
    BY <1>7, <1>10
  <2>2. \A s \in S : p[s] >= p[moved[1]] + Len(moved)
    BY <1>7, <1>10
  <2>3. ASSUME side = "before", anchor \notin own
        PROVE  anchor \in S /\ \A s \in S : p[s] < p[anchor] => s < anchor
    <3>1. anchor \in S
      BY <1>8, <1>11, <1>13, <2>3
    <3>2. ASSUME NEW s \in S, p[s] < p[anchor] PROVE s < anchor
      <4>1. B!Earlier(ord, s, anchor)
        BY <1>7, <3>1, <3>2
      <4>2. ord[s] >= ord[anchor] /\ ord[s] \in Nat /\ ord[anchor] \in Nat
        BY <1>8, <1>11, <2>3
      <4> QED
        BY <4>1, <4>2 DEF B!Earlier
    <3> QED
      BY <3>1, <3>2
  <2>4. ASSUME side = "after", anchor \notin own PROVE anchor \notin DOMAIN p
    BY <1>7, <1>8, <1>13, <2>4
  <2> QED
    BY <1>5, <1>7, <1>8, <1>9, <2>1, <2>2, <2>3, <2>4 DEF B!DropPlanned
<1>17. B!DropStands(d)
  <2>1. \A s \in cell \ DOMAIN p : ord[s] < p[moved[1]]
    BY <1>8, <1>10, <1>11, <1>12
  <2>2. side = "first" => cell \ DOMAIN p = {}
    BY <1>8
  <2>3. side = "after" => \A s \in (cell \ DOMAIN p) \ {anchor} : ord[s] < ord[anchor]
    BY <1>8, <1>11
  <2>4. \A s, t \in S : ord[s] < ord[t] => p[s] < p[t]
    BY <1>7 DEF B!Earlier
  <2>5. \A s \in cell \ DOMAIN p, t \in S : ord[s] <= ord[t]
    BY <1>8, <1>11
  <2> QED
    BY <1>1, <1>5, <1>6, <1>8, <1>9, <1>13, <2>1, <2>2, <2>3, <2>4, <2>5 DEF B!DropStands
<1>18. DOMAIN p \subseteq own \cup cell
  BY <1>7, <1>8
<1> QED
  BY <1>5, <1>6, <1>9, <1>15, <1>16, <1>17, <1>18

(* A step that leaves the stories of a drop and of its cell alone.         *)
StoodBy(d) ==
    /\ view' = view
    /\ \A s \in B!Touched(d) : place'[s] = place[s]
    /\ \A s \in Ids : place'[s] = d.to => place[s] = d.to
    /\ \A s \in Ids : s \in B!Touched(d) \/ place'[s] = d.to =>
           order'[B!Column(d.to)][s] = order[B!Column(d.to)][s]

LEMMA StandsStill ==
    ASSUME NEW d, B!DropShape(d), B!DropPlanned(d), B!DropStands(d), StoodBy(d)
    PROVE  B!DropStands(d)' /\ B!InCell(d.to)' \subseteq B!InCell(d.to)
<1>1. PICK ord : ord = order[B!Column(d.to)]
  OBVIOUS
<1>2. PICK new : new = order'[B!Column(d.to)]
  OBVIOUS
<1>3. PICK cell : cell = B!InCell(d.to)
  OBVIOUS
<1>4. PICK next : next = B!InCell(d.to)'
  OBVIOUS
<1>5. PICK own : own = B!Range(d.moved)
  OBVIOUS
<1>6. B!Column(d.to)' = B!Column(d.to)
  BY DEF StoodBy, B!Column
<1>7. /\ DOMAIN d.plan \subseteq Ids /\ d.anchor \in Ids
      /\ DOMAIN d.plan \subseteq B!Touched(d) /\ d.anchor \in B!Touched(d)
  BY DEF B!DropShape, B!DropPlanned, B!Touched
<1>8. /\ next \subseteq cell
      /\ \A s \in cell : s \in B!Touched(d) => s \in next
      /\ \A s \in Ids : s \in B!Touched(d) \/ s \in next => new[s] = ord[s]
      /\ next \subseteq Ids
  BY <1>1, <1>2, <1>3, <1>4 DEF StoodBy, B!InCell
<1>9. DOMAIN d.plan \ own \subseteq cell
  BY <1>3, <1>5 DEF B!DropStands
<1>10. DOMAIN d.plan \ own \subseteq next
  BY <1>7, <1>8, <1>9
<1>11. next \ DOMAIN d.plan \subseteq cell \ DOMAIN d.plan
  BY <1>8
<1>12. /\ \A s \in cell \ DOMAIN d.plan : ord[s] < d.plan[d.moved[1]]
       /\ d.side = "first" => cell \ DOMAIN d.plan = {}
       /\ d.side # "first" /\ d.anchor \notin own => d.anchor \in cell
       /\ d.side = "after" /\ d.anchor \notin own =>
              \A s \in (cell \ DOMAIN d.plan) \ {d.anchor} : ord[s] < ord[d.anchor]
       /\ d.pc = "read" =>
              /\ \A s, t \in DOMAIN d.plan \ own : ord[s] < ord[t] => d.plan[s] < d.plan[t]
              /\ \A s \in cell \ DOMAIN d.plan, t \in DOMAIN d.plan \ own : ord[s] <= ord[t]
       /\ d.pc = "numbered" => \A s \in DOMAIN d.plan : ord[s] = d.plan[s]
  BY <1>1, <1>3, <1>5 DEF B!DropStands
<1>13. /\ \A s \in DOMAIN d.plan : new[s] = ord[s]
       /\ new[d.anchor] = ord[d.anchor]
       /\ \A s \in next : new[s] = ord[s]
  BY <1>7, <1>8
<1>14. \A s \in next \ DOMAIN d.plan : new[s] < d.plan[d.moved[1]]
  BY <1>11, <1>12, <1>13
<1>15. d.side = "first" => next \ DOMAIN d.plan = {}
  BY <1>11, <1>12
<1>16. d.side # "first" /\ d.anchor \notin own => d.anchor \in next
  BY <1>7, <1>8, <1>12
<1>17. d.side = "after" /\ d.anchor \notin own =>
           \A s \in (next \ DOMAIN d.plan) \ {d.anchor} : new[s] < new[d.anchor]
  BY <1>11, <1>12, <1>13
<1>18. d.pc = "read" =>
           /\ \A s, t \in DOMAIN d.plan \ own : new[s] < new[t] => d.plan[s] < d.plan[t]
           /\ \A s \in next \ DOMAIN d.plan, t \in DOMAIN d.plan \ own : new[s] <= new[t]
  BY <1>11, <1>12, <1>13
<1>19. d.pc = "numbered" => \A s \in DOMAIN d.plan : new[s] = d.plan[s]
  BY <1>12, <1>13
<1>20. B!DropStands(d)'
  <2>1. (order[B!Column(d.to)])' = new
    BY <1>2, <1>6
  <2> QED
    BY <1>4, <1>5, <1>10, <1>14, <1>15, <1>16, <1>17, <1>18, <1>19, <2>1 DEF B!DropStands
<1> QED
  BY <1>3, <1>4, <1>8, <1>20

LEMMA MarkedDrop ==
    ASSUME NEW d, B!DropShape(d), NEW e, e = [d EXCEPT !.crossed = TRUE]
    PROVE  /\ B!DropShape(e) /\ e.crossed = TRUE
           /\ e.pc = d.pc /\ e.moved = d.moved /\ e.to = d.to /\ e.side = d.side
           /\ e.anchor = d.anchor /\ e.plan = d.plan
           /\ B!DropPlanned(d) => B!DropPlanned(e)
<1>1. d = [pc |-> d.pc, moved |-> d.moved, to |-> d.to, side |-> d.side,
           anchor |-> d.anchor, plan |-> d.plan, crossed |-> d.crossed]
  BY DEF B!DropShape
<1>2. e = [pc |-> d.pc, moved |-> d.moved, to |-> d.to, side |-> d.side,
           anchor |-> d.anchor, plan |-> d.plan, crossed |-> TRUE]
  BY <1>1
<1>3. /\ e.crossed = TRUE
      /\ e.pc = d.pc /\ e.moved = d.moved /\ e.to = d.to /\ e.side = d.side
      /\ e.anchor = d.anchor /\ e.plan = d.plan
  BY <1>2
<1>4. B!DropShape(e)
  BY <1>2, <1>3 DEF B!DropShape
<1>5. B!DropPlanned(d) => B!DropPlanned(e)
  BY <1>3 DEF B!DropPlanned
<1> QED
  BY <1>3, <1>4, <1>5

(* A step after which the drops H are those there were, some of them        *)
(* marked, and the others stand.                                           *)
DropsStay(H) ==
    \A g \in H :
        /\ g \in Handlers
        /\ \/ drops'[g] = drops[g] /\ (drops[g].pc # "idle" /\ ~drops[g].crossed => StoodBy(drops[g]))
           \/ drops'[g] = [drops[g] EXCEPT !.crossed = TRUE]

LEMMA DropStays ==
    ASSUME B!BoardsInv, NEW H, DropsStay(H), NEW g \in H
    PROVE  /\ B!DropShape(drops'[g])
           /\ drops'[g].pc = drops[g].pc /\ drops'[g].to = drops[g].to
           /\ drops'[g].plan = drops[g].plan /\ drops'[g].anchor = drops[g].anchor
           /\ ~drops'[g].crossed => drops'[g] = drops[g]
           /\ drops[g].pc # "idle" =>
                  /\ B!DropPlanned(drops'[g])
                  /\ ~drops'[g].crossed =>
                        /\ B!DropStands(drops[g])'
                        /\ B!InCell(drops[g].to)' \subseteq B!InCell(drops[g].to)
<1>1. g \in Handlers
  BY DEF DropsStay
<1>2. PICK d : d = drops[g]
  OBVIOUS
<1>3. PICK e : e = drops'[g]
  OBVIOUS
<1>4. B!DropShape(d)
  BY <1>1, <1>2 DEF B!BoardsInv
<1>5. d.pc # "idle" => B!DropPlanned(d) /\ (~d.crossed => B!DropStands(d))
  BY <1>1, <1>2 DEF B!BoardsInv, B!DropsInv, B!Busy
<1>6. \/ e = d /\ (d.pc # "idle" /\ ~d.crossed => StoodBy(d))
      \/ e = [d EXCEPT !.crossed = TRUE]
  BY <1>2, <1>3 DEF DropsStay
<1>7. CASE e = [d EXCEPT !.crossed = TRUE]
  <2>1. /\ B!DropShape(e) /\ e.crossed = TRUE
        /\ e.pc = d.pc /\ e.to = d.to /\ e.anchor = d.anchor /\ e.plan = d.plan
        /\ B!DropPlanned(d) => B!DropPlanned(e)
    BY <1>4, <1>7, MarkedDrop
  <2> QED
    BY <1>2, <1>3, <1>5, <2>1
<1>8. CASE e = d /\ (d.pc # "idle" /\ ~d.crossed => StoodBy(d))
  <2>1. d.pc # "idle" /\ ~d.crossed =>
            B!DropStands(d)' /\ B!InCell(d.to)' \subseteq B!InCell(d.to)
    BY <1>4, <1>5, <1>8, StandsStill
  <2>2. d.pc # "idle" /\ ~e.crossed => B!DropStands(e)'
    BY <1>8, <2>1
  <2>3. ~e.crossed => e = d
    BY <1>8
  <2>4. d.pc # "idle" => B!DropPlanned(e)
    BY <1>5, <1>8
  <2>5. d.pc # "idle" /\ ~e.crossed => B!InCell(e.to)' \subseteq B!InCell(d.to)
    BY <1>8, <2>1
  <2> QED
    BY <1>2, <1>3, <1>4, <1>8, <2>2, <2>3, <2>4, <2>5
<1> QED
  BY <1>6, <1>7, <1>8

(* Two drops that stay are apart as they were.                             *)
LEMMA ApartStays ==
    ASSUME B!BoardsInv, NEW H, DropsStay(H), NEW h \in H, NEW g \in H, g # h,
           drops[h].pc # "idle", drops[g].pc # "idle", ~drops'[h].crossed
    PROVE  B!DropsApart(drops[h], drops[g])'
<1>1. /\ drops'[h] = drops[h]
      /\ drops'[h].to = drops[h].to
      /\ drops'[h].plan = drops[h].plan /\ drops'[h].anchor = drops[h].anchor
      /\ B!InCell(drops[h].to)' \subseteq B!InCell(drops[h].to)
  BY DropStays
<1>2. /\ drops'[g].pc = drops[g].pc /\ drops'[g].to = drops[g].to
      /\ drops'[g].plan = drops[g].plan /\ drops'[g].anchor = drops[g].anchor
  BY DropStays
<1>3. h \in Handlers /\ g \in Handlers /\ h \in B!Busy /\ g \in B!Busy
  BY DEF DropsStay, B!Busy
<1>4. B!DropsApart(drops[h], drops[g])
  BY <1>1, <1>3 DEF B!BoardsInv, B!DropsInv
<1>5. PICK d : d = drops'[h]
  OBVIOUS
<1>6. PICK e : e = drops'[g]
  OBVIOUS
<1>7. PICK c : c = drops[h].to
  OBVIOUS
<1>8. /\ d.to = drops[h].to /\ d.plan = drops[h].plan /\ d.anchor = drops[h].anchor
      /\ e.pc = drops[g].pc /\ e.to = drops[g].to /\ e.plan = drops[g].plan
      /\ e.anchor = drops[g].anchor
  BY <1>1, <1>2, <1>5, <1>6
<1>9. /\ d.to # e.to
      /\ (DOMAIN d.plan \cup {d.anchor}) \cap (DOMAIN e.plan \cup {e.anchor}) = {}
      /\ e.pc = "read" => DOMAIN e.plan \cap B!InCell(c) = {}
  BY <1>4, <1>7, <1>8 DEF B!DropsApart, B!Touched
<1>10. B!InCell(c)' \subseteq B!InCell(c)
  BY <1>1, <1>7
<1>11. e.pc = "read" => DOMAIN e.plan \cap B!InCell(d.to)' = {}
  BY <1>7, <1>8, <1>9, <1>10
<1>12. B!DropsApart(d, e)'
  BY <1>9, <1>11 DEF B!DropsApart, B!Touched
<1> QED
  BY <1>5, <1>6, <1>12

(* A step that only marks drops keeps what is said about them.             *)
LEMMA MarksKeep ==
    ASSUME B!BoardsInv, B!BoardsTypeOK', DropsStay(Handlers), drops' = [g \in Handlers |-> drops'[g]]
    PROVE  B!BoardsInv'
<1>1. ASSUME NEW g \in Handlers PROVE B!DropShape(drops'[g])
  BY DropStays
<1>2. ASSUME NEW h \in Handlers, drops'[h].pc # "idle"
      PROVE  /\ B!DropPlanned(drops'[h])
             /\ ~drops'[h].crossed => B!DropStands(drops[h])'
  BY <1>2, DropStays
<1>3. ASSUME NEW h \in Handlers, NEW g \in Handlers, g # h, drops'[h].pc # "idle",
             drops'[g].pc # "idle", ~drops'[h].crossed
      PROVE  B!DropsApart(drops[h], drops[g])'
  <2>1. drops[h].pc # "idle" /\ drops[g].pc # "idle"
    BY <1>3, DropStays
  <2> QED
    BY <1>3, <2>1, ApartStays
<1>4. B!DropsInv'
  BY <1>2, <1>3 DEF B!DropsInv, B!Busy
<1> QED
  BY <1>1, <1>4 DEF B!BoardsInv

(* What Crossed does.                                                      *)
LEMMA CrossedStays ==
    ASSUME B!BoardsInv, NEW S, NEW c, drops' = B!Crossed(S, c),
           \A g \in Handlers : drops[g].pc # "idle" /\ ~drops[g].crossed
                               /\ drops[g].to # c /\ B!Touched(drops[g]) \cap S = {}
                               => StoodBy(drops[g])
    PROVE  DropsStay(Handlers) /\ drops' = [g \in Handlers |-> drops'[g]]
<1>1. drops' = [h \in Handlers |-> IF B!Crosses(h, S, c)
                                   THEN [drops[h] EXCEPT !.crossed = TRUE]
                                   ELSE drops[h]]
  BY DEF B!Crossed
<1>2. ASSUME NEW g \in Handlers
      PROVE  \/ drops'[g] = drops[g]
                /\ (drops[g].pc # "idle" /\ ~drops[g].crossed => StoodBy(drops[g]))
             \/ drops'[g] = [drops[g] EXCEPT !.crossed = TRUE]
  <2>1. CASE B!Crosses(g, S, c)
    BY <1>1, <2>1
  <2>2. CASE ~B!Crosses(g, S, c)
    <3>1. drops[g].pc # "idle" => drops[g].to # c /\ B!Touched(drops[g]) \cap S = {}
      BY <2>2 DEF B!Crosses, B!Busy
    <3> QED
      BY <1>1, <2>2, <3>1
  <2> QED
    BY <2>1, <2>2
<1> QED
  BY <1>1, <1>2 DEF DropsStay

LEMMA BusyDrops ==
    ASSUME B!BoardsInv, NEW g \in Handlers, drops[g].pc # "idle"
    PROVE  /\ B!DropShape(drops[g]) /\ B!DropPlanned(drops[g])
           /\ drops[g].anchor \in Ids /\ B!Touched(drops[g]) \subseteq Ids
           /\ B!Touched(drops[g]) \cap Ids # {}
           /\ B!Range(drops[g].moved) \subseteq DOMAIN drops[g].plan
           /\ DOMAIN drops[g].plan \subseteq B!Touched(drops[g])
<1>1. B!DropShape(drops[g]) /\ B!DropPlanned(drops[g])
  BY DEF B!BoardsInv, B!DropsInv, B!Busy
<1>2. PICK d : d = drops[g]
  OBVIOUS
<1>3. DOMAIN d.plan \subseteq Ids
  BY <1>1, <1>2 DEF B!DropShape
<1>4. d.anchor \in Ids /\ B!Range(d.moved) \subseteq DOMAIN d.plan
  BY <1>1, <1>2 DEF B!DropPlanned
<1> QED
  BY <1>1, <1>2, <1>3, <1>4 DEF B!Touched

LEMMA NowType == ASSUME NEW n \in Nat PROVE B!Now(n) \in Nat
<1>1. Cardinality(Ids) \in Nat /\ Gap \in Nat
  BY BoardsConstants, FS_CardinalityType
<1> QED
  BY <1>1, BoardSizes DEF B!Now

LEMMA AskEffect ==
    ASSUME B!BoardsTypeOK, NEW S, B!Ask(S)
    PROVE  /\ view' = view /\ asked' = S /\ asks' # asks
           /\ asks' \in 0..MaxAsks /\ asks' \in Nat
BY BoardsConstants DEF B!Ask, B!BoardsTypeOK

LEMMA MoveOnKanbanKeeps ==
    ASSUME B!BoardsInv, NEW s \in Ids, NEW c \in B!Cells, B!MoveOnKanban(s, c)
    PROVE  B!BoardsInv'
<1>1. B!BoardsTypeOK /\ B!Ask({s})
  BY DEF B!BoardsInv, B!MoveOnKanban
<1>2. view' = view /\ asks' \in 0..MaxAsks /\ asks' \in Nat
  BY <1>1, AskEffect
<1>3. PICK now \in Nat : now = B!Now(asks')
  BY <1>2, NowType
<1>4. /\ view = "kanban"
      /\ place' = [place EXCEPT ![s] = c]
      /\ order' = [order EXCEPT !["board"] = [order["board"] EXCEPT ![s] = now]]
      /\ drops' = B!Crossed({s}, c)
  BY <1>3 DEF B!MoveOnKanban, B!Set
<1>5. B!BoardsTypeOK'
  BY <1>1, <1>2, <1>4 DEF B!BoardsTypeOK, B!Columns
<1>6. ASSUME NEW g \in Handlers, drops[g].pc # "idle", drops[g].to # c,
             B!Touched(drops[g]) \cap {s} = {}
      PROVE  StoodBy(drops[g])
  <2>1. B!Touched(drops[g]) \subseteq Ids
    BY <1>6, BusyDrops
  <2>2. B!Column(drops[g].to) = "board"
    BY <1>4 DEF B!Column
  <2>3. \A t \in Ids : t # s => /\ place'[t] = place[t]
                                /\ order'["board"][t] = order["board"][t]
    BY <1>1, <1>4 DEF B!BoardsTypeOK, B!Columns
  <2>4. place'[s] = c
    BY <1>1, <1>4 DEF B!BoardsTypeOK
  <2> QED
    BY <1>2, <1>6, <2>1, <2>2, <2>3, <2>4 DEF StoodBy
<1>7. DropsStay(Handlers) /\ drops' = [g \in Handlers |-> drops'[g]]
  BY <1>4, <1>6, CrossedStays
<1> QED
  BY <1>5, <1>7, MarksKeep

(* Requests that meet every drop                                           *)
LEMMA EveryDropMarked ==
    ASSUME B!BoardsInv, NEW c, drops' = B!Crossed(Ids, c), B!BoardsTypeOK'
    PROVE  B!BoardsInv'
<1>1. ASSUME NEW g \in Handlers, drops[g].pc # "idle", drops[g].to # c,
             B!Touched(drops[g]) \cap Ids = {}
      PROVE  StoodBy(drops[g])
  BY <1>1, BusyDrops
<1>2. DropsStay(Handlers) /\ drops' = [g \in Handlers |-> drops'[g]]
  BY <1>1, CrossedStays
<1> QED
  BY <1>2, MarksKeep

BacklogOrders(s, c, b, p, D, x, y) ==
    /\ D = IF c = None THEN Ids ELSE B!InCell(c) \cup {s}
    /\ x = [order["board"] EXCEPT ![s] = b]
    /\ y = [order["sprint"] EXCEPT ![s] = p]
    /\ order'["board"] =
          IF b = order["board"][s] THEN x
          ELSE [t \in Ids |-> IF t # s /\ x[t] >= b THEN x[t] + 1 ELSE x[t]]
    /\ order'["sprint"] =
          IF c = place[s] /\ p = order["sprint"][s] THEN y
          ELSE [t \in Ids |-> IF t # s /\ t \in D /\ y[t] >= p THEN y[t] + 1 ELSE y[t]]
    /\ order' = [k \in B!Columns |-> order'[k]]

(* The orders after a save on the backlog or in a sprint                   *)
LEMMA MoveOnBacklogOrders ==
    ASSUME B!BoardsTypeOK, NEW s \in Ids, NEW c \in B!Cells, NEW b \in Nat, NEW p \in Nat,
           B!MoveOnBacklog(s, c, b, p)
    PROVE  \E D \in SUBSET Ids, x \in [Ids -> Nat], y \in [Ids -> Nat] :
              BacklogOrders(s, c, b, p, D, x, y)
<1>1. PICK u \in [Ids -> Nat] : u = order["board"]
  BY DEF B!BoardsTypeOK, B!Columns
<1>2. PICK v \in [Ids -> Nat] : v = order["sprint"]
  BY DEF B!BoardsTypeOK, B!Columns
<1>3. PICK x : x = [u EXCEPT ![s] = b]
  OBVIOUS
<1>4. PICK y : y = [v EXCEPT ![s] = p]
  OBVIOUS
<1>5. PICK D : D = IF c = None THEN Ids ELSE B!InCell(c) \cup {s}
  OBVIOUS
<1>6. D \in SUBSET Ids /\ s \in D
  BY <1>5 DEF B!InCell
<1>7. x \in [Ids -> Nat] /\ y \in [Ids -> Nat] /\ x[s] = b /\ y[s] = p
  BY <1>1, <1>2, <1>3, <1>4
<1>8. PICK z : z = B!Among(y, D)
  OBVIOUS
<1>9. z = [t \in D |-> y[t]]
  BY <1>8 DEF B!Among
<1>10. z \in [D -> Nat] /\ z[s] = p
  BY <1>6, <1>7, <1>9
<1>21. PICK toB : SingleOrder(toB, s, b)
  BY DEF SingleOrder
<1>22. PICK toP : SingleOrder(toP, s, p)
  BY DEF SingleOrder
<1>11. order' = [board |-> IF b = u[s] THEN x ELSE B!OrdersApplied(x, toB),
                 sprint |-> IF c = place[s] /\ p = v[s] THEN y
                            ELSE B!Reordered(y, B!OrdersApplied(z, toP))]
  BY <1>1, <1>2, <1>3, <1>4, <1>5, <1>8, <1>21, <1>22
     DEF B!MoveOnBacklog, B!Set, SingleOrder
<1>12. B!OrdersApplied(x, toB)
           = [t \in Ids |-> IF t # s /\ x[t] >= b THEN x[t] + 1 ELSE x[t]]
  <2>1. MakesRoom(B!OrdersApplied(x, toB), Ids, x, s, b)
    BY <1>7, <1>21, SingleOrderApplied
  <2> QED
    BY <2>1 DEF MakesRoom
<1>13. B!OrdersApplied(z, toP)
           = [t \in D |-> IF t # s /\ z[t] >= p THEN z[t] + 1 ELSE z[t]]
  <2>1. MakesRoom(B!OrdersApplied(z, toP), D, z, s, p)
    BY <1>6, <1>10, <1>22, SingleOrderApplied
  <2> QED
    BY <2>1 DEF MakesRoom
<1>14. PICK a : a = B!OrdersApplied(z, toP)
  OBVIOUS
<1>15. B!Reordered(y, a)
           = [t \in Ids |-> IF t # s /\ t \in D /\ y[t] >= p THEN y[t] + 1 ELSE y[t]]
  <2>1. DOMAIN a = D /\ \A t \in D : a[t] = IF t # s /\ y[t] >= p THEN y[t] + 1 ELSE y[t]
    BY <1>9, <1>13, <1>14
  <2>2. B!Reordered(y, a) = [t \in Ids |-> IF t \in D THEN a[t] ELSE y[t]]
    BY <2>1 DEF B!Reordered
  <2>3. \A t \in Ids : (IF t \in D THEN a[t] ELSE y[t])
                       = IF t # s /\ t \in D /\ y[t] >= p THEN y[t] + 1 ELSE y[t]
    BY <2>1
  <2> QED
    BY <2>2, <2>3
<1>16. order'["board"] =
          IF b = order["board"][s] THEN x
          ELSE [t \in Ids |-> IF t # s /\ x[t] >= b THEN x[t] + 1 ELSE x[t]]
  BY <1>1, <1>11, <1>12
<1>17. order'["sprint"] =
          IF c = place[s] /\ p = order["sprint"][s] THEN y
          ELSE [t \in Ids |-> IF t # s /\ t \in D /\ y[t] >= p THEN y[t] + 1 ELSE y[t]]
  BY <1>2, <1>11, <1>14, <1>15
<1>18. order' = [k \in B!Columns |-> order'[k]]
  BY <1>11 DEF B!Columns
<1>19. BacklogOrders(s, c, b, p, D, x, y)
  BY <1>1, <1>2, <1>3, <1>4, <1>5, <1>16, <1>17, <1>18 DEF BacklogOrders
<1> QED
  BY <1>6, <1>7, <1>19

LEMMA MoveOnBacklogKeeps ==
    ASSUME B!BoardsInv, NEW s \in Ids, NEW c \in B!Cells, NEW b \in Nat, NEW p \in Nat,
           B!MoveOnBacklog(s, c, b, p)
    PROVE  B!BoardsInv'
<1>1. B!BoardsTypeOK /\ B!Ask({s}) /\ drops' = B!Crossed(Ids, c)
      /\ place' = [place EXCEPT ![s] = c]
  BY DEF B!BoardsInv, B!MoveOnBacklog, B!Set
<1>2. view' = view /\ asks' \in 0..MaxAsks
  BY <1>1, AskEffect
<1>3. order' \in [B!Columns -> [Ids -> Nat]]
  <2>1. PICK D \in SUBSET Ids, x \in [Ids -> Nat], y \in [Ids -> Nat] :
              BacklogOrders(s, c, b, p, D, x, y)
    BY <1>1, MoveOnBacklogOrders
  <2>2. [t \in Ids |-> IF t # s /\ x[t] >= b THEN x[t] + 1 ELSE x[t]] \in [Ids -> Nat]
    BY <2>1
  <2>3. [t \in Ids |-> IF t # s /\ t \in D /\ y[t] >= p THEN y[t] + 1 ELSE y[t]] \in [Ids -> Nat]
    BY <2>1
  <2>4. order'["board"] \in [Ids -> Nat] /\ order'["sprint"] \in [Ids -> Nat]
    BY <2>1, <2>2, <2>3 DEF BacklogOrders
  <2> QED
    BY <2>1, <2>4 DEF B!Columns, BacklogOrders
<1>4. B!BoardsTypeOK'
  BY <1>1, <1>2, <1>3 DEF B!BoardsTypeOK
<1> QED
  BY <1>1, <1>4, EveryDropMarked

SprintOrders(new, S, m, r) ==
    LET D == B!InCell(m) \cup S
    IN  /\ r \in [D -> Nat]
        /\ \A x \in S, t \in D \ S : r[t] # r[x]
        /\ Cardinality(S) <= 1 =>
              \A s, t \in D \ S : order["sprint"][s] < order["sprint"][t] => r[s] < r[t]
        /\ order' = [order EXCEPT !["sprint"] =
                        [t \in Ids |-> IF t \in D THEN r[t] ELSE order["sprint"][t]]]

LEMMA MoveToSprintOrders ==
    ASSUME B!BoardsTypeOK, NEW S, S \subseteq Ids, NEW new \in [S -> Nat], NEW m \in Lanes,
           B!MoveToSprint(new, m)
    PROVE  \E r : SprintOrders(new, S, m, r)
<1>1. PICK v \in [Ids -> Nat] : v = order["sprint"]
  BY DEF B!BoardsTypeOK, B!Columns
<1>2. PICK D : D = B!InCell(m) \cup S
  OBVIOUS
<1>3. D \subseteq Ids /\ S \subseteq D
  BY <1>2 DEF B!InCell
<1>4. DOMAIN new = S
  OBVIOUS
<1>5. PICK base : base = B!Reordered(v, new)
  OBVIOUS
<1>6. base \in [Ids -> Nat]
  BY <1>1, <1>4, <1>5 DEF B!Reordered
<1>7. PICK z : z = B!Among(base, D)
  OBVIOUS
<1>8. z \in [D -> Nat]
  BY <1>3, <1>6, <1>7 DEF B!Among
<1>9. PICK r : r = B!OrdersApplied(z, new)
  OBVIOUS
<1>10. /\ r \in [D -> Nat]
       /\ \A x \in S, t \in D \ S : r[t] # r[x]
  <2>1. FreePlaces(r, D, S, new)
    BY <1>3, <1>8, <1>9, OrdersAppliedFree
  <2> QED
    BY <2>1 DEF FreePlaces
<1>11. order' = [order EXCEPT !["sprint"] = B!Reordered(v, r)]
  BY <1>1, <1>2, <1>4, <1>5, <1>7, <1>9 DEF B!MoveToSprint
<1>12. B!Reordered(v, r) = [t \in Ids |-> IF t \in D THEN r[t] ELSE v[t]]
  BY <1>10 DEF B!Reordered
<1>14. \A s, t \in D \ S : z[s] = v[s]
  BY <1>1, <1>3, <1>4, <1>5, <1>6, <1>7 DEF B!Reordered, B!Among
<1>15. ASSUME Cardinality(S) <= 1, NEW s \in D \ S, NEW t \in D \ S, v[s] < v[t]
       PROVE  r[s] < r[t]
  <2>1. CASE S = {}
    BY <1>8, <1>9, <1>14, <1>15, <2>1, NothingApplied
  <2>2. CASE S # {}
    <3>1. PICK x \in S : S = {x}
      <4>1. PICK x : x \in S
        BY <2>2
      <4>2. IsFiniteSet(S)
        BY BoardsConstants, FS_Subset
      <4>3. Cardinality(S) \in Nat /\ Cardinality({x}) = 1 /\ IsFiniteSet({x})
        BY <4>2, FS_CardinalityType, FS_Singleton
      <4>4. Cardinality({x}) <= Cardinality(S) /\ (Cardinality({x}) = Cardinality(S) => {x} = S)
        BY <4>1, <4>2, FS_Subset
      <4>5. Cardinality(S) = 1
        BY <1>15, <4>3, <4>4
      <4>6. {x} = S
        BY <4>3, <4>4, <4>5
      <4> QED
        BY <4>1, <4>6
    <3>2. PICK o \in Nat : o = new[x]
      BY <3>1
    <3>3. SingleOrder(new, x, o)
      BY <3>1, <3>2 DEF SingleOrder
    <3>4. z[x] = o /\ x \in D
      BY <1>3, <1>4, <1>5, <1>7, <3>1, <3>2 DEF B!Reordered, B!Among
    <3>5. MakesRoom(r, D, z, x, o)
      BY <1>3, <1>8, <1>9, <3>2, <3>3, <3>4, SingleOrderApplied
    <3>6. /\ r[s] = IF z[s] >= o THEN z[s] + 1 ELSE z[s]
          /\ r[t] = IF z[t] >= o THEN z[t] + 1 ELSE z[t]
      BY <1>15, <3>1, <3>5 DEF MakesRoom
    <3>7. z[s] \in Nat /\ z[t] \in Nat /\ z[s] < z[t]
      BY <1>8, <1>14, <1>15
    <3> QED
      BY <3>2, <3>6, <3>7
  <2> QED
    BY <2>1, <2>2
<1>16. Cardinality(S) <= 1 => \A s, t \in D \ S : v[s] < v[t] => r[s] < r[t]
  BY <1>15
<1>13. SprintOrders(new, S, m, r)
  BY <1>1, <1>2, <1>10, <1>11, <1>12, <1>16 DEF SprintOrders
<1> QED
  BY <1>13

LEMMA MoveToSprintKeeps ==
    ASSUME B!BoardsInv, NEW S, S \subseteq Ids, NEW new \in [S -> Nat], NEW m \in Lanes,
           B!MoveToSprint(new, m)
    PROVE  B!BoardsInv'
<1>1. B!BoardsTypeOK /\ view = "backlog" /\ m # None
  BY DEF B!BoardsInv, B!MoveToSprint
<1>2. PICK D : D = B!InCell(m) \cup S
  OBVIOUS
<1>3. DOMAIN new = S
  OBVIOUS
<1>4. /\ B!Ask(S)
      /\ place' = [s \in Ids |-> IF s \in S THEN m ELSE place[s]]
      /\ drops' = B!Crossed(D, m)
  BY <1>2, <1>3 DEF B!MoveToSprint
<1>5. view' = view /\ asks' \in 0..MaxAsks
  BY <1>1, <1>4, AskEffect
<1>6. PICK r : SprintOrders(new, S, m, r)
  BY <1>1, MoveToSprintOrders
<1>7. PICK w : w = [t \in Ids |-> IF t \in D THEN r[t] ELSE order["sprint"][t]]
  OBVIOUS
<1>8. r \in [D -> Nat] /\ order' = [order EXCEPT !["sprint"] = w]
  BY <1>2, <1>6, <1>7 DEF SprintOrders
<1>9. order["sprint"] \in [Ids -> Nat] /\ order["board"] \in [Ids -> Nat]
  BY <1>1 DEF B!BoardsTypeOK, B!Columns
<1>10. w \in [Ids -> Nat]
  BY <1>7, <1>8, <1>9
<1>11. m \in B!Cells
  BY DEF B!Cells
<1>12. B!BoardsTypeOK'
  BY <1>1, <1>4, <1>5, <1>8, <1>10, <1>11 DEF B!BoardsTypeOK, B!Columns
<1>13. \A k \in B!Columns : \A t \in Ids : t \notin D => order'[k][t] = order[k][t]
  BY <1>1, <1>7, <1>8 DEF B!BoardsTypeOK, B!Columns
<1>14. ASSUME NEW g \in Handlers, drops[g].pc # "idle", drops[g].to # m,
              B!Touched(drops[g]) \cap D = {}
       PROVE  StoodBy(drops[g])
  <2>1. B!Touched(drops[g]) \subseteq Ids
    BY <1>14, BusyDrops
  <2>2. B!Column(drops[g].to) \in B!Columns
    BY <1>1, BoardColumns
  <2>3. \A s \in Ids : place'[s] = drops[g].to => place[s] = drops[g].to /\ s \notin D
    BY <1>2, <1>4, <1>14 DEF B!InCell
  <2>4. \A s \in B!Touched(drops[g]) : place'[s] = place[s] /\ s \notin D
    BY <1>2, <1>4, <1>14, <2>1
  <2> QED
    BY <1>5, <1>13, <2>1, <2>2, <2>3, <2>4 DEF StoodBy
<1>15. DropsStay(Handlers) /\ drops' = [g \in Handlers |-> drops'[g]]
  BY <1>4, <1>14, CrossedStays
<1> QED
  BY <1>12, <1>15, MarksKeep

LEMMA DeleteSwimlaneKeeps ==
    ASSUME B!BoardsInv, NEW l \in Lanes, NEW to \in Lanes, NEW rank,
           B!DeleteSwimlane(l, to, rank)
    PROVE  B!BoardsInv'
<1>1. B!BoardsTypeOK
  BY DEF B!BoardsInv
<1>2. \E P : /\ B!Ask(B!InCell(l))
             /\ place' = [s \in Ids |-> IF place[s] = l THEN to ELSE place[s]]
             /\ order' = [order EXCEPT !["board"] =
                             [t \in Ids |-> B!Cardinality({s \in Ids : <<s, t>> \in P})]]
             /\ drops' = B!Crossed(Ids, to)
  <2> DEFINE lane(s) == IF place[s] = l THEN to ELSE place[s]
             at(s) == IF lane(s) = None THEN 0 ELSE rank[lane(s)]
             precedes(s, t) ==
                 \/ at(s) < at(t)
                 \/ at(s) = at(t) /\ place[s] # l /\ place[t] = l
                 \/ /\ at(s) = at(t) /\ (place[s] = l <=> place[t] = l)
                    /\ B!Earlier(order["board"], s, t)
             P == {q \in Ids \X Ids : precedes(q[1], q[2])}
  <2>1. /\ B!Ask(B!InCell(l))
        /\ place' = [s \in Ids |-> lane(s)]
        /\ order' = [order EXCEPT !["board"] =
                        [t \in Ids |-> B!Cardinality({s \in Ids : precedes(s, t)})]]
        /\ drops' = B!Crossed(Ids, to)
    BY DEF B!DeleteSwimlane
  <2>2. ASSUME NEW t \in Ids
        PROVE  {s \in Ids : precedes(s, t)} = {s \in Ids : <<s, t>> \in P}
    <3> HIDE DEF precedes
    <3> QED
      OBVIOUS
  <2> HIDE DEF precedes, P
  <2>3. [t \in Ids |-> B!Cardinality({s \in Ids : precedes(s, t)})]
            = [t \in Ids |-> B!Cardinality({s \in Ids : <<s, t>> \in P})]
    BY <2>2
  <2> QED
    BY <2>1, <2>3
<1>3. PICK P : /\ B!Ask(B!InCell(l))
               /\ place' = [s \in Ids |-> IF place[s] = l THEN to ELSE place[s]]
               /\ order' = [order EXCEPT !["board"] =
                               [t \in Ids |-> B!Cardinality({s \in Ids : <<s, t>> \in P})]]
               /\ drops' = B!Crossed(Ids, to)
  BY <1>2
<1>4. ASSUME NEW t \in Ids PROVE B!Cardinality({s \in Ids : <<s, t>> \in P}) \in Nat
  <2>1. PICK Q : Q = {s \in Ids : <<s, t>> \in P}
    OBVIOUS
  <2>2. IsFiniteSet(Q)
    BY <2>1, BoardsConstants, FS_Subset
  <2>3. Cardinality(Q) \in Nat
    BY <2>2, FS_CardinalityType
  <2> QED
    BY <2>1, <2>3, BoardSizes
<1>5. PICK w : w = [t \in Ids |-> B!Cardinality({s \in Ids : <<s, t>> \in P})]
  OBVIOUS
<1>6. w \in [Ids -> Nat]
  BY <1>4, <1>5
<1>7. view' = view /\ asks' \in 0..MaxAsks
  BY <1>1, <1>3, AskEffect
<1>8. order' = [order EXCEPT !["board"] = w]
  BY <1>3, <1>5
<1>9. B!BoardsTypeOK'
  BY <1>1, <1>3, <1>6, <1>7, <1>8 DEF B!BoardsTypeOK, B!Columns, B!Cells
<1> QED
  BY <1>3, <1>9, EveryDropMarked

LEMMA DeleteStatusOrders ==
    ASSUME B!BoardsTypeOK, NEW c \in B!Cells, NEW to, B!DeleteStatus(c, to)
    PROVE  \E w \in [Ids -> Nat] :
              /\ order' = [order EXCEPT !["board"] = w]
              /\ \A t \in Ids : t \notin B!InCell(c) => w[t] = order["board"][t]
<1>1. PICK u \in [Ids -> Nat] : u = order["board"]
  BY DEF B!BoardsTypeOK, B!Columns
<1>2. PICK S : S = B!InCell(c)
  OBVIOUS
<1>3. PICK ids : ids = B!Sorted(u, S)
  OBVIOUS
<1>4. S \subseteq Ids /\ \A s \in S : u[s] \in Nat
  BY <1>1, <1>2 DEF B!InCell
<1>5. PICK n : n = Cardinality(S)
  OBVIOUS
<1>6. /\ n \in Nat /\ ids \in [1..n -> S]
      /\ \A a, b \in 1..n : ids[a] = ids[b] => a = b
      /\ \A s \in S : \E k \in 1..n : ids[k] = s
  <2>1. InOrderOf(ids, u, S)
    BY <1>3, <1>4, SortedStories
  <2> QED
    BY <1>5, <2>1 DEF InOrderOf, Lists
<1>7. PICK f \in Nat : f = B!Now(asks')
  <2>1. asks' \in Nat
    BY AskEffect DEF B!DeleteStatus
  <2> QED
    BY <2>1, NowType
<1>8. PICK p : Numbered(p, ids, f)
  BY DEF Numbered
<1>9. InRow(p, ids, n, f)
  BY <1>6, <1>7, <1>8, NumberedInRow
<1>10. PICK w : w = B!Reordered(u, p)
  OBVIOUS
<1>11. order' = [order EXCEPT !["board"] = w]
  BY <1>1, <1>2, <1>3, <1>7, <1>8, <1>10 DEF B!DeleteStatus, Numbered
<1>12. DOMAIN p \subseteq S /\ p \in [DOMAIN p -> Nat]
  <2>1. DOMAIN p = {ids[k] : k \in 1..n} /\ p \in [DOMAIN p -> Nat]
    BY <1>9 DEF InRow
  <2>2. \A k \in 1..n : ids[k] \in S
    BY <1>6
  <2> QED
    BY <2>1, <2>2
<1>13. /\ w \in [Ids -> Nat]
       /\ \A t \in Ids : t \notin S => w[t] = u[t]
  BY <1>1, <1>10, <1>12 DEF B!Reordered
<1> QED
  BY <1>1, <1>2, <1>11, <1>13

LEMMA DeleteStatusKeeps ==
    ASSUME B!BoardsInv, NEW c \in B!Cells, NEW to \in B!Cells, B!DeleteStatus(c, to)
    PROVE  B!BoardsInv'
<1>1. B!BoardsTypeOK /\ view = "kanban" /\ c # to
  BY DEF B!BoardsInv, B!DeleteStatus
<1>2. /\ B!Ask(B!InCell(c))
      /\ place' = [s \in Ids |-> IF place[s] = c THEN to ELSE place[s]]
      /\ drops' = B!Crossed(B!InCell(c), to)
  BY DEF B!DeleteStatus
<1>3. view' = view /\ asks' \in 0..MaxAsks
  BY <1>1, <1>2, AskEffect
<1>4. PICK w \in [Ids -> Nat] :
              /\ order' = [order EXCEPT !["board"] = w]
              /\ \A t \in Ids : t \notin B!InCell(c) => w[t] = order["board"][t]
  BY <1>1, DeleteStatusOrders
<1>5. B!BoardsTypeOK'
  BY <1>1, <1>2, <1>3, <1>4 DEF B!BoardsTypeOK, B!Columns
<1>6. \A k \in B!Columns : \A t \in Ids : place[t] # c => order'[k][t] = order[k][t]
  BY <1>1, <1>4 DEF B!BoardsTypeOK, B!Columns, B!InCell
<1>7. ASSUME NEW g \in Handlers, drops[g].pc # "idle", drops[g].to # to,
             B!Touched(drops[g]) \cap B!InCell(c) = {}
      PROVE  StoodBy(drops[g])
  <2>1. B!Touched(drops[g]) \subseteq Ids
    BY <1>7, BusyDrops
  <2>2. B!Column(drops[g].to) \in B!Columns
    BY <1>1, BoardColumns
  <2>3. \A s \in Ids : place'[s] = drops[g].to => place[s] = drops[g].to /\ place[s] # c
    BY <1>2, <1>7
  <2>4. \A s \in B!Touched(drops[g]) : place'[s] = place[s] /\ place[s] # c
    BY <1>2, <1>7, <2>1 DEF B!InCell
  <2> QED
    BY <1>3, <1>6, <2>1, <2>2, <2>3, <2>4 DEF StoodBy
<1>8. DropsStay(Handlers) /\ drops' = [g \in Handlers |-> drops'[g]]
  BY <1>2, <1>7, CrossedStays
<1> QED
  BY <1>5, <1>8, MarksKeep

LEMMA DeleteSprintKeeps ==
    ASSUME B!BoardsInv, NEW m \in Lanes, B!DeleteSprint(m)
    PROVE  B!BoardsInv'
<1>1. B!BoardsTypeOK
  BY DEF B!BoardsInv
<1>2. /\ B!Ask(B!InCell(m)) /\ order' = order
      /\ place' = [s \in Ids |-> IF place[s] = m THEN None ELSE place[s]]
      /\ drops' = B!Crossed(B!InCell(m), None)
  BY DEF B!DeleteSprint
<1>3. view' = view /\ asks' \in 0..MaxAsks
  BY <1>1, <1>2, AskEffect
<1>4. B!BoardsTypeOK'
  BY <1>1, <1>2, <1>3 DEF B!BoardsTypeOK, B!Cells
<1>5. ASSUME NEW g \in Handlers, drops[g].pc # "idle", drops[g].to # None,
             B!Touched(drops[g]) \cap B!InCell(m) = {}
      PROVE  StoodBy(drops[g])
  <2>1. B!Touched(drops[g]) \subseteq Ids
    BY <1>5, BusyDrops
  <2>2. \A s \in Ids : place'[s] = drops[g].to => place[s] = drops[g].to
    BY <1>2, <1>5
  <2>3. \A s \in B!Touched(drops[g]) : place'[s] = place[s]
    BY <1>2, <1>5, <2>1 DEF B!InCell
  <2> QED
    BY <1>2, <1>3, <2>1, <2>2, <2>3 DEF StoodBy
<1>6. DropsStay(Handlers) /\ drops' = [g \in Handlers |-> drops'[g]]
  BY <1>2, <1>5, CrossedStays
<1> QED
  BY <1>4, <1>6, MarksKeep

(* What drop h and the others are to each other after a step of h.         *)
ApartFrom(h) ==
    /\ \A g \in Handlers \ {h} :
           drops'[h].pc # "idle" /\ ~drops'[h].crossed /\ drops'[g].pc # "idle" =>
               B!DropsApart(drops[h], drops[g])'
    /\ \A g \in Handlers \ {h} :
           drops'[g].pc # "idle" /\ ~drops'[g].crossed /\ drops'[h].pc # "idle" =>
               B!DropsApart(drops[g], drops[h])'

LEMMA DropStepKeeps ==
    ASSUME B!BoardsInv, B!BoardsTypeOK', NEW h \in Handlers, DropsStay(Handlers \ {h}),
           drops' = [g \in Handlers |-> drops'[g]], B!DropShape(drops'[h]),
           drops'[h].pc # "idle" => B!DropPlanned(drops'[h]),
           drops'[h].pc # "idle" /\ ~drops'[h].crossed => B!DropStands(drops[h])',
           ApartFrom(h)
    PROVE  B!BoardsInv'
<1>1. ASSUME NEW g \in Handlers PROVE B!DropShape(drops'[g])
  <2>1. CASE g = h
    BY <2>1
  <2>2. CASE g # h
    <3>1. g \in Handlers \ {h}
      BY <2>2
    <3> QED
      BY <3>1, DropStays
  <2> QED
    BY <2>1, <2>2
<1>2. ASSUME NEW f \in Handlers, drops'[f].pc # "idle"
      PROVE  /\ B!DropPlanned(drops'[f])
             /\ ~drops'[f].crossed => B!DropStands(drops[f])'
  <2>1. CASE f = h
    BY <1>2, <2>1
  <2>2. CASE f # h
    <3>1. f \in Handlers \ {h}
      BY <2>2
    <3> QED
      BY <1>2, <3>1, DropStays
  <2> QED
    BY <2>1, <2>2
<1>3. ASSUME NEW f \in Handlers, NEW g \in Handlers, g # f, drops'[f].pc # "idle",
             drops'[g].pc # "idle", ~drops'[f].crossed
      PROVE  B!DropsApart(drops[f], drops[g])'
  <2>1. CASE f = h
    <3>1. g \in Handlers \ {h}
      BY <1>3, <2>1
    <3> QED
      BY <1>3, <2>1, <3>1 DEF ApartFrom
  <2>2. CASE g = h
    <3>1. f \in Handlers \ {h}
      BY <1>3, <2>2
    <3> QED
      BY <1>3, <2>2, <3>1 DEF ApartFrom
  <2>3. CASE f # h /\ g # h
    <3>1. f \in Handlers \ {h} /\ g \in Handlers \ {h}
      BY <2>3
    <3>2. drops[f].pc # "idle" /\ drops[g].pc # "idle"
      BY <1>3, <3>1, DropStays
    <3> QED
      BY <1>3, <3>1, <3>2, ApartStays
  <2> QED
    BY <2>1, <2>2, <2>3
<1>4. B!DropsInv'
  BY <1>2, <1>3 DEF B!DropsInv, B!Busy
<1> QED
  BY <1>1, <1>4 DEF B!BoardsInv

LEMMA StartDropKeeps ==
    ASSUME B!BoardsInv, NEW h \in Handlers, NEW moved \in Bulks, NEW to \in B!Cells,
           NEW side \in {"first", "before", "after"}, NEW anchor \in Ids,
           B!StartDrop(h, moved, to, side, anchor)
    PROVE  B!BoardsInv'
<1>1. PICK p : p = B!Plan(moved, to, side, anchor)
  OBVIOUS
<1>2. PICK touched : touched = DOMAIN p \cup {anchor}
  OBVIOUS
<1>3. PICK crossing \in BOOLEAN :
          crossing <=> \E f \in B!Busy :
                           \/ B!Crosses(f, touched, to)
                           \/ /\ drops[f].pc = "read"
                              /\ DOMAIN drops[f].plan \cap B!InCell(to) # {}
  OBVIOUS
<1>4. PICK d : d = Started(moved, to, side, anchor, crossing)
  OBVIOUS
<1>5. /\ drops[h].pc = "idle"
      /\ IF side = "first" THEN anchor = moved[1] ELSE anchor \in B!InCell(to)
      /\ B!Ask(B!Range(moved)) /\ place' = place /\ order' = order
  BY DEF B!StartDrop, B!Busy
<1>6. drops' = [g \in Handlers |->
                   IF g = h THEN d
                   ELSE IF g \in B!Busy /\ (B!Crosses(g, touched, to)
                                            \/ B!Range(moved) \cap B!InCell(drops[g].to) # {})
                   THEN [drops[g] EXCEPT !.crossed = TRUE]
                   ELSE drops[g]]
  <2>1. (\E f \in B!Busy :
             \/ B!Crosses(f, touched, to)
             \/ /\ drops[f].pc = "read"
                /\ DOMAIN drops[f].plan \cap B!InCell(to) # {}) = crossing
    BY <1>3
  <2>2. drops' = [g \in Handlers |->
           IF g = h
           THEN [pc |-> "read", moved |-> moved, to |-> to, side |-> side,
                 anchor |-> anchor, plan |-> p, crossed |-> crossing]
           ELSE IF g \in B!Busy /\ (B!Crosses(g, touched, to)
                                    \/ B!Range(moved) \cap B!InCell(drops[g].to) # {})
           THEN [drops[g] EXCEPT !.crossed = TRUE]
           ELSE drops[g]]
    BY <1>1, <1>2, <2>1 DEF B!StartDrop
  <2> QED
    BY <1>1, <1>4, <2>2 DEF Started
<1>7. B!BoardsTypeOK
  BY DEF B!BoardsInv
<1>8. view' = view /\ asks' \in 0..MaxAsks
  BY <1>5, <1>7, AskEffect
<1>9. B!BoardsTypeOK'
  BY <1>5, <1>7, <1>8 DEF B!BoardsTypeOK
<1>10. /\ B!DropShape(d) /\ B!DropPlanned(d) /\ B!DropStands(d)
       /\ DOMAIN d.plan \subseteq B!Range(moved) \cup B!InCell(to)
  BY <1>4, <1>5, <1>7, StartedStands
<1>11. \A c : B!InCell(c)' = B!InCell(c)
  BY <1>5 DEF B!InCell
<1>12. B!DropStands(d)'
  <2>1. \A c : B!Column(c)' = B!Column(c)
    BY <1>8 DEF B!Column
  <2> QED
    BY <1>5, <1>10, <1>11, <2>1 DEF B!DropStands
<1>13. ASSUME NEW e PROVE StoodBy(e)
  BY <1>5, <1>8 DEF StoodBy
<1>14. DropsStay(Handlers \ {h})
  BY <1>6, <1>13 DEF DropsStay
<1>15. d.to = to /\ d.pc = "read" /\ d.plan = p /\ d.anchor = anchor /\ d.crossed = crossing
  BY <1>1, <1>4 DEF Started
<1>16. drops'[h] = d
  BY <1>6
<1>17. ASSUME NEW g \in Handlers \ {h}, drops'[h].pc # "idle", ~drops'[h].crossed,
              drops'[g].pc # "idle"
       PROVE  B!DropsApart(drops[h], drops[g])'
  <2>1. /\ drops'[g].pc = drops[g].pc /\ drops'[g].to = drops[g].to
        /\ drops'[g].plan = drops[g].plan /\ drops'[g].anchor = drops[g].anchor
    BY <1>14, DropStays
  <2>2. g \in B!Busy
    BY <1>17, <2>1 DEF B!Busy
  <2>3. /\ ~B!Crosses(g, touched, to)
        /\ drops[g].pc = "read" => DOMAIN drops[g].plan \cap B!InCell(to) = {}
    BY <1>3, <1>15, <1>16, <1>17, <2>2
  <2>4. drops[g].to # to /\ B!Touched(drops[g]) \cap touched = {}
    BY <2>2, <2>3 DEF B!Crosses
  <2>5. PICK e : e = drops'[g]
    OBVIOUS
  <2>6. B!Touched(e) \cap touched = {} /\ e.to # to
        /\ (e.pc = "read" => DOMAIN e.plan \cap B!InCell(to) = {})
    BY <2>1, <2>3, <2>4, <2>5 DEF B!Touched
  <2>7. B!Touched(d) = touched
    BY <1>2, <1>15 DEF B!Touched
  <2>8. B!DropsApart(d, e)'
    BY <1>11, <1>15, <2>6, <2>7 DEF B!DropsApart
  <2> QED
    BY <1>16, <2>5, <2>8
<1>18. ASSUME NEW g \in Handlers \ {h}, drops'[g].pc # "idle", ~drops'[g].crossed,
              drops'[h].pc # "idle"
       PROVE  B!DropsApart(drops[g], drops[h])'
  <2>1. drops'[g] = drops[g] /\ drops[g].pc # "idle"
    BY <1>14, <1>18, DropStays
  <2>2. g \in B!Busy
    BY <2>1 DEF B!Busy
  <2>3. ~B!Crosses(g, touched, to) /\ B!Range(moved) \cap B!InCell(drops[g].to) = {}
    <3>1. SUFFICES ASSUME B!Crosses(g, touched, to)
                          \/ B!Range(moved) \cap B!InCell(drops[g].to) # {}
                   PROVE  FALSE
      OBVIOUS
    <3>2. drops'[g] = [drops[g] EXCEPT !.crossed = TRUE]
      BY <1>6, <2>2, <3>1
    <3>3. B!DropShape(drops[g])
      BY BusyDrops, <2>1
    <3>4. drops'[g].crossed = TRUE
      BY <3>2, <3>3, MarkedDrop
    <3> QED
      BY <1>18, <3>4
  <2>4. drops[g].to # to /\ B!Touched(drops[g]) \cap touched = {}
    BY <2>2, <2>3 DEF B!Crosses
  <2>5. B!InCell(to) \cap B!InCell(drops[g].to) = {}
    BY <2>4 DEF B!InCell
  <2>6. PICK e : e = drops[g]
    OBVIOUS
  <2>7. DOMAIN d.plan \cap B!InCell(e.to) = {}
    BY <1>10, <2>3, <2>5, <2>6
  <2>8. B!Touched(d) = touched
    BY <1>2, <1>15 DEF B!Touched
  <2>9. B!DropsApart(e, d)'
    BY <1>11, <1>15, <2>4, <2>6, <2>7, <2>8 DEF B!DropsApart
  <2> QED
    BY <1>16, <2>1, <2>6, <2>9
<1>19. ApartFrom(h)
  BY <1>17, <1>18 DEF ApartFrom
<1>20. B!DropStands(drops[h])'
  BY <1>12, <1>16
<1>21. drops' = [g \in Handlers |-> drops'[g]]
  BY <1>6
<1> QED
  BY <1>9, <1>10, <1>14, <1>16, <1>19, <1>20, <1>21, DropStepKeeps

LEMMA NumberDropKeeps ==
    ASSUME B!BoardsInv, NEW h \in Handlers, B!NumberDrop(h)
    PROVE  B!BoardsInv'
<1>1. PICK d : d = drops[h]
  OBVIOUS
<1>2. PICK k : k = B!Column(d.to)
  OBVIOUS
<1>3. PICK e : e = [d EXCEPT !.pc = "numbered"]
  OBVIOUS
<1>4. PICK w : w = [s \in Ids |-> IF s \in DOMAIN d.plan THEN d.plan[s] ELSE order[k][s]]
  OBVIOUS
<1>5. /\ d.pc = "read" /\ order' = [order EXCEPT ![k] = w]
      /\ drops' = [drops EXCEPT ![h] = e]
      /\ view' = view /\ place' = place /\ asks' = asks
  BY <1>1, <1>2, <1>3, <1>4 DEF B!NumberDrop
<1>6. B!BoardsTypeOK /\ drops = [g \in Handlers |-> drops[g]]
  BY DEF B!BoardsInv
<1>7. /\ B!DropShape(d) /\ B!DropPlanned(d)
      /\ DOMAIN d.plan \subseteq B!Touched(d) /\ B!Touched(d) \subseteq Ids
      /\ B!Range(d.moved) \subseteq DOMAIN d.plan
  BY <1>1, <1>5, BusyDrops
<1>8. /\ k \in B!Columns /\ order[k] \in [Ids -> Nat]
  BY <1>2, <1>6, BoardColumns
<1>9. w \in [Ids -> Nat]
  BY <1>4, <1>7, <1>8 DEF B!DropShape
<1>10. B!BoardsTypeOK'
  BY <1>5, <1>6, <1>8, <1>9 DEF B!BoardsTypeOK
<1>11. /\ \A s \in Ids : s \notin DOMAIN d.plan =>
              \A j \in B!Columns : order'[j][s] = order[j][s]
       /\ \A s \in DOMAIN d.plan : order'[k][s] = d.plan[s]
  BY <1>4, <1>5, <1>6, <1>7, <1>8 DEF B!BoardsTypeOK
<1>12. drops' = [g \in Handlers |-> drops'[g]] /\ drops'[h] = e
       /\ \A g \in Handlers \ {h} : drops'[g] = drops[g]
  BY <1>5, <1>6
<1>13. /\ e.pc = "numbered" /\ e.moved = d.moved /\ e.to = d.to /\ e.side = d.side
       /\ e.anchor = d.anchor /\ e.plan = d.plan /\ e.crossed = d.crossed
       /\ e = [pc |-> e.pc, moved |-> e.moved, to |-> e.to, side |-> e.side,
               anchor |-> e.anchor, plan |-> e.plan, crossed |-> e.crossed]
  BY <1>3, <1>7 DEF B!DropShape
<1>14. B!DropShape(e)
  BY <1>7, <1>13 DEF B!DropShape
<1>15. B!DropPlanned(e)
  BY <1>7, <1>13 DEF B!DropPlanned
<1>16. ASSUME NEW c PROVE B!InCell(c)' = B!InCell(c) /\ B!Column(c)' = B!Column(c)
  BY <1>5 DEF B!InCell, B!Column
<1>17. h \in B!Busy
  BY <1>1, <1>5 DEF B!Busy
<1>18. ASSUME NEW g \in Handlers \ {h}, drops[g].pc # "idle", ~drops[g].crossed
       PROVE  StoodBy(drops[g])
  <2>1. g \in B!Busy
    BY <1>18 DEF B!Busy
  <2>2. B!DropsApart(drops[g], d)
    BY <1>1, <1>17, <1>18, <2>1 DEF B!BoardsInv, B!DropsInv
  <2>3. /\ DOMAIN d.plan \cap B!Touched(drops[g]) = {}
        /\ DOMAIN d.plan \cap B!InCell(drops[g].to) = {}
    BY <1>5, <1>7, <2>2 DEF B!DropsApart
  <2>4. B!Touched(drops[g]) \subseteq Ids
    BY <1>18, BusyDrops
  <2>5. B!Column(drops[g].to) \in B!Columns
    BY <1>6, BoardColumns
  <2>6. \A s \in Ids : s \in B!Touched(drops[g]) \/ place[s] = drops[g].to =>
            s \notin DOMAIN d.plan
    BY <2>3 DEF B!InCell
  <2> QED
    BY <1>5, <1>11, <2>4, <2>5, <2>6 DEF StoodBy
<1>19. DropsStay(Handlers \ {h})
  BY <1>12, <1>18 DEF DropsStay
<1>20. ASSUME ~d.crossed PROVE B!DropStands(e)'
  <2>1. B!DropStands(d)
    BY <1>1, <1>17, <1>20 DEF B!BoardsInv, B!DropsInv
  <2>2. PICK ord : ord = order[k]
    OBVIOUS
  <2>3. PICK new : new = order'[k]
    OBVIOUS
  <2>4. PICK cell : cell = B!InCell(d.to)
    OBVIOUS
  <2>5. PICK own : own = B!Range(d.moved)
    OBVIOUS
  <2>6. cell \subseteq Ids
    BY <2>4 DEF B!InCell
  <2>7. /\ DOMAIN d.plan \ own \subseteq cell
        /\ \A s \in cell \ DOMAIN d.plan : ord[s] < d.plan[d.moved[1]]
        /\ d.side = "first" => cell \ DOMAIN d.plan = {}
        /\ d.side # "first" /\ d.anchor \notin own => d.anchor \in cell
        /\ d.side = "after" /\ d.anchor \notin own =>
               \A s \in (cell \ DOMAIN d.plan) \ {d.anchor} : ord[s] < ord[d.anchor]
    BY <1>2, <2>1, <2>2, <2>4, <2>5 DEF B!DropStands
  <2>8. /\ \A s \in cell \ DOMAIN d.plan : new[s] = ord[s]
        /\ \A s \in DOMAIN d.plan : new[s] = d.plan[s]
    BY <1>8, <1>11, <2>2, <2>3, <2>6
  <2>9. d.side = "after" /\ d.anchor \notin own =>
            \A s \in (cell \ DOMAIN d.plan) \ {d.anchor} : new[s] < new[d.anchor]
    <3>1. SUFFICES ASSUME d.side = "after", d.anchor \notin own,
                          NEW s \in (cell \ DOMAIN d.plan) \ {d.anchor}
                   PROVE  new[s] < new[d.anchor]
      OBVIOUS
    <3>2. d.anchor \in cell \ DOMAIN d.plan
      BY <1>7, <2>5, <2>7, <3>1 DEF B!DropPlanned
    <3> QED
      BY <2>7, <2>8, <3>1, <3>2
  <2>10. \A s \in cell \ DOMAIN d.plan : new[s] < d.plan[d.moved[1]]
    BY <2>7, <2>8
  <2>11. (order[B!Column(e.to)])' = new /\ B!InCell(e.to)' = cell
    BY <1>2, <1>13, <1>16, <2>3, <2>4
  <2> QED
    BY <1>13, <2>5, <2>7, <2>8, <2>9, <2>10, <2>11 DEF B!DropStands
<1>21. ASSUME NEW g \in Handlers \ {h}, drops'[h].pc # "idle", ~drops'[h].crossed,
              drops'[g].pc # "idle"
       PROVE  B!DropsApart(drops[h], drops[g])'
  <2>1. drops'[g] = drops[g] /\ ~d.crossed
    BY <1>12, <1>13, <1>21
  <2>2. g \in B!Busy
    BY <1>21, <2>1 DEF B!Busy
  <2>3. PICK f : f = drops[g]
    OBVIOUS
  <2>4. B!DropsApart(d, f)
    BY <1>1, <1>17, <2>1, <2>2, <2>3 DEF B!BoardsInv, B!DropsInv
  <2>5. B!DropsApart(e, f)'
    BY <1>13, <1>16, <2>4 DEF B!DropsApart, B!Touched
  <2> QED
    BY <1>12, <2>1, <2>3, <2>5
<1>22. ASSUME NEW g \in Handlers \ {h}, drops'[g].pc # "idle", ~drops'[g].crossed
       PROVE  B!DropsApart(drops[g], drops[h])'
  <2>1. drops'[g] = drops[g]
    BY <1>12
  <2>2. g \in B!Busy
    BY <1>22, <2>1 DEF B!Busy
  <2>3. PICK f : f = drops[g]
    OBVIOUS
  <2>4. B!DropsApart(f, d)
    BY <1>1, <1>17, <1>22, <2>1, <2>2, <2>3 DEF B!BoardsInv, B!DropsInv
  <2>5. B!DropsApart(f, e)'
    BY <1>13, <1>16, <2>4 DEF B!DropsApart, B!Touched
  <2> QED
    BY <1>12, <2>1, <2>3, <2>5
<1>23. ApartFrom(h)
  BY <1>21, <1>22 DEF ApartFrom
<1>24. drops'[h].pc # "idle" /\ ~drops'[h].crossed => B!DropStands(drops[h])'
  BY <1>12, <1>13, <1>20
<1> QED
  BY <1>10, <1>12, <1>14, <1>15, <1>19, <1>23, <1>24, DropStepKeeps

LEMMA NoDropShape == B!DropShape(B!NoDrop) /\ B!NoDrop.pc = "idle"
<1>1. PICK p : p = <<>>
  OBVIOUS
<1>2. DOMAIN p = {}
  BY <1>1
<1>3. p \in [{} -> Nat]
  BY <1>1
<1>4. B!NoDrop = [pc |-> "idle", moved |-> <<>>, to |-> None, side |-> "first", anchor |-> 0,
                  plan |-> p, crossed |-> FALSE]
  BY <1>1 DEF B!NoDrop
<1>5. None \in B!Cells
  BY DEF B!Cells
<1> QED
  BY <1>2, <1>3, <1>4, <1>5 DEF B!DropShape

LEMMA PlaceDropKeeps ==
    ASSUME B!BoardsInv, NEW h \in Handlers, B!PlaceDrop(h)
    PROVE  B!BoardsInv'
<1>1. PICK d : d = drops[h]
  OBVIOUS
<1>2. PICK own : own = B!Range(d.moved)
  OBVIOUS
<1>3. /\ d.pc = "numbered"
      /\ place' = [s \in Ids |-> IF s \in own THEN d.to ELSE place[s]]
      /\ drops' = [drops EXCEPT ![h] = B!NoDrop]
      /\ view' = view /\ order' = order /\ asks' = asks
  BY <1>1, <1>2 DEF B!PlaceDrop
<1>4. B!BoardsTypeOK /\ drops = [g \in Handlers |-> drops[g]]
  BY DEF B!BoardsInv
<1>5. /\ B!DropShape(d)
      /\ DOMAIN d.plan \subseteq B!Touched(d) /\ B!Touched(d) \subseteq Ids
      /\ own \subseteq DOMAIN d.plan
  BY <1>1, <1>2, <1>3, BusyDrops
<1>6. d.to \in B!Cells
  BY <1>5 DEF B!DropShape
<1>7. B!BoardsTypeOK'
  BY <1>3, <1>4, <1>6 DEF B!BoardsTypeOK
<1>8. /\ drops' = [g \in Handlers |-> drops'[g]] /\ drops'[h] = B!NoDrop
      /\ \A g \in Handlers \ {h} : drops'[g] = drops[g]
  BY <1>3, <1>4
<1>9. h \in B!Busy
  BY <1>1, <1>3 DEF B!Busy
<1>10. ASSUME NEW g \in Handlers \ {h}, drops[g].pc # "idle", ~drops[g].crossed
       PROVE  StoodBy(drops[g])
  <2>1. g \in B!Busy
    BY <1>10 DEF B!Busy
  <2>2. B!DropsApart(drops[g], d)
    BY <1>1, <1>9, <1>10, <2>1 DEF B!BoardsInv, B!DropsInv
  <2>3. drops[g].to # d.to /\ own \cap B!Touched(drops[g]) = {}
    BY <1>5, <2>2 DEF B!DropsApart
  <2>4. B!Touched(drops[g]) \subseteq Ids
    BY <1>10, BusyDrops
  <2> QED
    BY <1>3, <2>3, <2>4 DEF StoodBy
<1>11. DropsStay(Handlers \ {h})
  BY <1>8, <1>10 DEF DropsStay
<1>12. ApartFrom(h)
  BY <1>8, NoDropShape DEF ApartFrom
<1> QED
  BY <1>7, <1>8, <1>11, <1>12, NoDropShape, DropStepKeeps

LEMMA BoardsInitInv == B!BoardsInit => B!BoardsInv
<1> SUFFICES ASSUME B!BoardsInit
             PROVE  B!BoardsInv
  OBVIOUS
<1>1. ASSUME NEW s \in Ids PROVE B!Cardinality({t \in Ids : t <= s}) \in Nat
  <2>1. PICK Q : Q = {t \in Ids : t <= s}
    OBVIOUS
  <2>2. IsFiniteSet(Q)
    BY <2>1, BoardsConstants, FS_Subset
  <2>3. Cardinality(Q) \in Nat
    BY <2>2, FS_CardinalityType
  <2> QED
    BY <2>1, <2>3, BoardSizes
<1>2. PICK w : w = [s \in Ids |-> B!Cardinality({t \in Ids : t <= s})]
  OBVIOUS
<1>3. w \in [Ids -> Nat]
  BY <1>1, <1>2
<1>4. /\ view \in {"kanban", "backlog"} /\ place \in Starts
      /\ order = [k \in B!Columns |-> w]
      /\ drops = [h \in Handlers |-> B!NoDrop] /\ asks = 0
  BY <1>2 DEF B!BoardsInit
<1>5. MaxAsks \in Nat /\ place \in [Ids -> B!Cells]
  BY <1>4, BoardsConstants
<1>6. B!BoardsTypeOK
  BY <1>3, <1>4, <1>5 DEF B!BoardsTypeOK
<1>7. \A h \in Handlers : drops[h] = B!NoDrop
  BY <1>4
<1>8. B!DropsInv
  BY <1>7, NoDropShape DEF B!DropsInv, B!Busy
<1>9. drops = [h \in Handlers |-> drops[h]] /\ \A h \in Handlers : B!DropShape(drops[h])
  BY <1>4, NoDropShape
<1> QED
  BY <1>6, <1>8, <1>9 DEF B!BoardsInv

(* What a drop moves is together in the order of its cell.                 *)
Landed(L, N, i, moved) ==
    /\ i \in 1..N /\ i + Len(moved) - 1 <= N
    /\ \A j \in 1..Len(moved) : L[i + j - 1] = moved[j]

(* The stories moved have the orders from f in ord, and no other has one. *)
HasRow(Y, ord, moved, f) ==
    /\ \A s \in Y : ord[s] \in Nat
    /\ Len(moved) \in Nat /\ Len(moved) > 0 /\ f \in Nat
    /\ \A j \in 1..Len(moved) : moved[j] \in Y /\ ord[moved[j]] = f + j - 1
    /\ \A s \in Y : (\E j \in 1..Len(moved) : moved[j] = s)
                    \/ ord[s] < f \/ ord[s] >= f + Len(moved)

LEMMA RowLands ==
    ASSUME NEW Y, Y \subseteq Ids, NEW ord, NEW L, InOrderOf(L, ord, Y),
           NEW N, N = Cardinality(Y), NEW moved, NEW f, HasRow(Y, ord, moved, f)
    PROVE  \E i : Landed(L, N, i, moved)
<1>0. PICK n \in Nat : n = Len(moved)
  BY DEF HasRow
<1>a. /\ n > 0 /\ f \in Nat
      /\ \A s \in Y : ord[s] \in Nat
      /\ \A j \in 1..n : moved[j] \in Y /\ ord[moved[j]] = f + j - 1
      /\ \A s \in Y : (\E j \in 1..n : moved[j] = s) \/ ord[s] < f \/ ord[s] >= f + n
  BY <1>0 DEF HasRow
<1>1. /\ N \in Nat /\ L \in [1..N -> Y]
      /\ \A a, b \in 1..N : L[a] = L[b] => a = b
      /\ \A s \in Y : \E k \in 1..N : L[k] = s
      /\ \A k, m \in 1..N : B!Earlier(ord, L[k], L[m]) <=> k < m
  BY DEF InOrderOf, Lists
<1>2. PICK i \in 1..N : L[i] = moved[1]
  <2>1. 1 \in 1..n
    BY <1>0, <1>a
  <2> QED
    BY <1>a, <1>1, <2>1
<1> DEFINE Bad == {j \in 1..n : ~(i + j - 1 \in 1..N /\ L[i + j - 1] = moved[j])}
<1>3. \A s \in Y : s \in Nat
  BY BoardsConstants
<1>4. CASE Bad # {}
  <2>1. Bad \subseteq 1..n
    OBVIOUS
  <2>2. PICK k \in Bad : \A m \in Bad : k <= m
    <3> HIDE DEF Bad
    <3> QED
      BY <1>4, <2>1, HasLeast
  <2>3. k \in 1..n /\ ~(i + k - 1 \in 1..N /\ L[i + k - 1] = moved[k])
    BY <2>2
  <2>4. k # 1
    BY <1>0, <1>1, <1>2, <2>3
  <2>5. k - 1 \in 1..n /\ k - 1 \notin Bad
    <3>1. k - 1 \in 1..n
      BY <1>0, <2>3, <2>4
    <3> HIDE DEF Bad
    <3> QED
      BY <2>1, <2>2, <3>1
  <2>6. PICK a : a = i + (k - 1) - 1
    OBVIOUS
  <2>7. a \in 1..N /\ L[a] = moved[k - 1]
    BY <2>5, <2>6
  <2>8. PICK q \in 1..N : L[q] = moved[k]
    BY <1>a, <1>1, <2>3
  <2>9. ord[L[a]] = f + k - 2 /\ ord[L[q]] = f + k - 1
    <3>1. ord[moved[k]] = f + k - 1
      BY <1>a, <2>3
    <3>2. ord[moved[k - 1]] = f + (k - 1) - 1
      BY <1>a, <2>5
    <3>3. f + (k - 1) - 1 = f + k - 2
      BY <1>0, <1>a, <2>3
    <3> QED
      BY <2>7, <2>8, <3>1, <3>2, <3>3
  <2>10. a < q
    <3>1. B!Earlier(ord, L[a], L[q])
      BY <1>0, <1>a, <2>3, <2>9 DEF B!Earlier
    <3> QED
      BY <1>1, <2>7, <2>8, <3>1
  <2>11. q = a + 1
    <3>1. SUFFICES ASSUME q # a + 1 PROVE FALSE
      OBVIOUS
    <3>2. a + 1 \in 1..N /\ a < a + 1 /\ a + 1 < q
      BY <1>1, <2>7, <2>8, <2>10, <3>1
    <3>3. PICK x \in Y : x = L[a + 1]
      BY <1>1, <3>2
    <3>4. B!Earlier(ord, L[a], x) /\ B!Earlier(ord, x, L[q])
      BY <1>1, <2>7, <2>8, <3>2, <3>3
    <3>5. ord[x] \in Nat /\ ord[x] >= f + k - 2 /\ ord[x] <= f + k - 1
      BY <1>0, <1>a, <2>3, <2>9, <3>3, <3>4 DEF B!Earlier
    <3>6. PICK j \in 1..n : moved[j] = x
      <4>1. k \in Nat /\ k >= 2 /\ k <= n
        BY <1>0, <2>3, <2>4
      <4>2. ord[x] >= f /\ ~(ord[x] >= f + n)
        BY <1>0, <1>a, <3>5, <4>1
      <4>3. x \in Y /\ ~(ord[x] < f)
        BY <1>a, <3>3, <3>5, <4>2
      <4> QED
        BY <1>a, <4>2, <4>3
    <3>7. ord[x] = f + j - 1
      BY <1>a, <3>6
    <3>8. j = k - 1 \/ j = k
      BY <1>0, <1>a, <2>3, <3>5, <3>6, <3>7
    <3>9. x = L[a] \/ x = L[q]
      BY <2>7, <2>8, <3>6, <3>8
    <3> QED
      BY <1>1, <2>7, <2>8, <3>2, <3>3, <3>9
  <2>12. q = i + k - 1
    BY <1>0, <2>3, <2>6, <2>11
  <2> QED
    BY <2>3, <2>8, <2>12
<1>5. CASE Bad = {}
  <2>1. \A j \in 1..n : i + j - 1 \in 1..N /\ L[i + j - 1] = moved[j]
    BY <1>5
  <2>2. n \in 1..n
    BY <1>0, <1>a
  <2>3. i + n - 1 <= N
    BY <2>1, <2>2
  <2>4. Landed(L, N, i, moved)
    BY <1>0, <2>1, <2>3 DEF Landed
  <2> QED
    BY <2>4
<1> QED
  BY <1>4, <1>5

LEMMA BusyCell ==
    ASSUME B!BoardsInv, NEW h \in Handlers, drops[h].pc = "numbered", ~drops[h].crossed
    PROVE  /\ B!DropShape(drops[h]) /\ B!DropPlanned(drops[h]) /\ B!DropStands(drops[h])
BY DEF B!BoardsInv, B!DropsInv, B!Busy

(* The last statement of a drop puts its stories where they were dropped.  *)
LEMMA PlaceDropLands ==
    ASSUME B!BoardsInv, NEW h \in Handlers, B!PlaceDrop(h), ~drops[h].crossed,
           NEW d, d = drops[h], NEW L, NEW Y, Y = {s \in Ids : place'[s] = d.to},
           L = B!Sorted(order[B!Column(d.to)], Y)
    PROVE  \E i \in DOMAIN L : B!LandedAt(i, L, d)
<1>1. /\ d.pc = "numbered"
      /\ place' = [s \in Ids |-> IF s \in B!Range(d.moved) THEN d.to ELSE place[s]]
  BY DEF B!PlaceDrop
<1>2. B!DropShape(d) /\ B!DropPlanned(d) /\ B!DropStands(d)
  BY <1>1, BusyCell
<1>3. PICK moved \in Bulks : moved = d.moved
  BY <1>2 DEF B!DropPlanned
<1>4. PICK n \in Nat : n = Len(moved) /\ n > 0
  BY MovedFacts
<1>5. PICK own : own = B!Range(moved)
  OBVIOUS
<1>6. PICK p : p = d.plan
  OBVIOUS
<1>7. PICK cell : cell = B!InCell(d.to)
  OBVIOUS
<1>8. PICK a : a = d.anchor
  OBVIOUS
<1>9. B!BoardsTypeOK
  BY DEF B!BoardsInv
<1>10. PICK ord \in [Ids -> Nat] : ord = order[B!Column(d.to)]
  BY <1>9, BoardColumns
<1>11. /\ moved \in Seq(Ids)
       /\ \A s \in own : \E j \in 1..n : moved[j] = s
       /\ \A j \in 1..n : moved[j] \in own
       /\ own \subseteq Ids
  BY <1>4, <1>5, MovedFacts
<1>12. /\ own \subseteq DOMAIN p /\ DOMAIN p \subseteq Ids
       /\ p \in [DOMAIN p -> Nat] /\ cell \subseteq Ids
  BY <1>2, <1>3, <1>5, <1>6, <1>7 DEF B!DropShape, B!DropPlanned, B!InCell
<1>13. PICK f \in Nat : f = p[moved[1]]
  <2>1. 1 \in 1..n
    BY <1>4
  <2> QED
    BY <1>11, <1>12, <2>1
<1>14. /\ \A j \in 1..n : p[moved[j]] = f + j - 1
       /\ \A s \in DOMAIN p \ own : p[s] >= f + n
       /\ d.side = "before" /\ a \notin own =>
              /\ a \in DOMAIN p \ own
              /\ \A s \in DOMAIN p \ own : p[s] < p[a] => s < a
       /\ d.side = "after" /\ a \notin own => a \notin DOMAIN p
  BY <1>2, <1>3, <1>4, <1>5, <1>6, <1>8, <1>13 DEF B!DropPlanned
<1>15. /\ DOMAIN p \ own \subseteq cell
       /\ \A s \in cell \ DOMAIN p : ord[s] < f
       /\ d.side = "first" => cell \ DOMAIN p = {}
       /\ d.side # "first" /\ a \notin own => a \in cell
       /\ d.side = "after" /\ a \notin own =>
              \A s \in (cell \ DOMAIN p) \ {a} : ord[s] < ord[a]
       /\ \A s \in DOMAIN p : ord[s] = p[s]
  BY <1>1, <1>2, <1>3, <1>5, <1>6, <1>7, <1>8, <1>10, <1>13 DEF B!DropStands
<1>16. Y = cell \cup own /\ Y \subseteq Ids
  BY <1>1, <1>3, <1>5, <1>7, <1>11 DEF B!InCell
<1>17. \A s \in Y : ord[s] \in Nat /\ s \in Nat
  BY <1>10, <1>16, BoardsConstants
<1>18. InOrderOf(L, ord, Y)
  BY <1>10, <1>16, <1>17, SortedStories
<1>19. PICK N : N = Cardinality(Y)
  OBVIOUS
<1>20. /\ N \in Nat /\ L \in [1..N -> Y]
       /\ \A k, m \in 1..N : L[k] = L[m] => k = m
       /\ \A s \in Y : \E k \in 1..N : L[k] = s
       /\ \A k, m \in 1..N : B!Earlier(ord, L[k], L[m]) <=> k < m
  BY <1>18, <1>19 DEF InOrderOf, Lists
<1>21. \A j \in 1..n : moved[j] \in Y /\ ord[moved[j]] = f + j - 1
  BY <1>11, <1>12, <1>14, <1>15, <1>16
<1>22. ASSUME NEW s \in Y
       PROVE  \/ s \in own
              \/ s \in cell \ DOMAIN p /\ ord[s] < f
              \/ s \in DOMAIN p \ own /\ ord[s] = p[s] /\ ord[s] >= f + n
  BY <1>12, <1>14, <1>15, <1>16
<1>23. PICK i : Landed(L, N, i, moved)
  <2>1. \A s \in Y : (\E j \in 1..n : moved[j] = s) \/ ord[s] < f \/ ord[s] >= f + n
    BY <1>11, <1>22
  <2>2. HasRow(Y, ord, moved, f)
    BY <1>4, <1>13, <1>17, <1>21, <2>1 DEF HasRow
  <2> QED
    BY <1>16, <1>18, <1>19, <2>2, RowLands
<1>24. /\ i \in 1..N /\ i + n - 1 <= N
       /\ \A j \in 1..n : L[i + j - 1] = moved[j]
  BY <1>4, <1>23 DEF Landed
<1>25. L[i] = moved[1] /\ 1 \in 1..n /\ moved[1] \in own /\ ord[L[i]] = f
  <2>1. 1 \in 1..n
    BY <1>4
  <2>2. i + 1 - 1 = i /\ f + 1 - 1 = f
    BY <1>13, <1>20, <1>24
  <2>3. L[i] = moved[1]
    BY <1>24, <2>1, <2>2
  <2>4. ord[moved[1]] = f
    BY <1>21, <2>1, <2>2
  <2> QED
    BY <1>11, <2>1, <2>3, <2>4
<1>26. ASSUME NEW k \in 1..N, k < i PROVE L[k] \in cell \ DOMAIN p
  <2>1. PICK x \in Y : x = L[k]
    BY <1>20
  <2>2. B!Earlier(ord, x, L[i])
    BY <1>20, <1>24, <1>26, <2>1
  <2>3. ord[x] <= f
    BY <1>17, <1>25, <2>1, <2>2 DEF B!Earlier
  <2>4. x \notin own
    <3>1. SUFFICES ASSUME x \in own PROVE FALSE
      OBVIOUS
    <3>2. PICK j \in 1..n : moved[j] = x
      BY <1>11, <3>1
    <3>3. j = 1
      BY <1>13, <1>21, <2>3, <3>2
    <3>4. L[k] = L[i]
      BY <1>25, <2>1, <3>2, <3>3
    <3> QED
      BY <1>20, <1>24, <1>26, <3>4
  <2>5. ~(ord[x] >= f + n)
    BY <1>4, <1>13, <1>17, <2>3
  <2> QED
    BY <1>22, <2>1, <2>4, <2>5
<1>27. L \in Seq(Y) /\ Len(L) = N /\ DOMAIN L = 1..N
  BY <1>20
<1>28. SubSeq(L, i, i + n - 1) = moved
  <2>1. i + n - 1 \in Nat /\ (i + n - 1) - i + 1 = n /\ i \in Nat
    BY <1>4, <1>20, <1>24
  <2>2. SubSeq(L, i, i + n - 1) = [k \in 1..((i + n - 1) - i + 1) |-> L[i + k - 1]]
    BY <1>20, <1>24, <1>27, <2>1 DEF SubSeq
  <2>3. moved = [k \in 1..n |-> moved[k]]
    BY <1>4, <1>11
  <2>4. [k \in 1..n |-> L[i + k - 1]] = [k \in 1..n |-> moved[k]]
    BY <1>24
  <2> QED
    BY <2>1, <2>2, <2>3, <2>4
<1>29. CASE d.side = "first"
  <2>1. i = 1
    <3>1. SUFFICES ASSUME i # 1 PROVE FALSE
      OBVIOUS
    <3>2. 1 \in 1..N /\ 1 < i
      BY <1>20, <1>24, <3>1
    <3> QED
      BY <1>15, <1>26, <1>29, <3>2
  <2> QED
    BY <1>3, <1>4, <1>24, <1>27, <1>28, <1>29, <2>1 DEF B!LandedAt
<1>30. CASE d.side # "first" /\ a \in own
  BY <1>3, <1>4, <1>5, <1>8, <1>24, <1>27, <1>28, <1>30 DEF B!LandedAt
<1>31. CASE d.side = "after" /\ a \notin own
  <2>1. a \in cell \ DOMAIN p /\ a \in Y /\ ord[a] < f
    BY <1>14, <1>15, <1>16, <1>31
  <2>2. PICK q \in 1..N : L[q] = a
    BY <1>20, <2>1
  <2>3. q < i
    <3>1. B!Earlier(ord, L[q], L[i])
      BY <1>25, <2>1, <2>2 DEF B!Earlier
    <3> QED
      BY <1>20, <1>24, <3>1
  <2>4. q = i - 1
    <3>1. SUFFICES ASSUME q # i - 1 PROVE FALSE
      OBVIOUS
    <3>2. i - 1 \in 1..N /\ i - 1 < i /\ q < i - 1
      BY <1>20, <1>24, <2>2, <2>3, <3>1
    <3>3. PICK x \in Y : x = L[i - 1]
      BY <1>20, <3>2
    <3>4. x \in cell \ DOMAIN p
      BY <1>26, <3>2, <3>3
    <3>5. B!Earlier(ord, a, x)
      BY <1>20, <2>2, <3>2, <3>3
    <3>6. x # a
      BY <1>20, <2>2, <3>2, <3>3
    <3>7. ord[x] < ord[a]
      BY <1>15, <1>31, <3>4, <3>6
    <3> QED
      BY <1>17, <2>1, <3>3, <3>5, <3>7 DEF B!Earlier
  <2>5. i > 1 /\ L[i - 1] = a
    BY <1>20, <1>24, <2>2, <2>4
  <2> QED
    BY <1>3, <1>4, <1>8, <1>24, <1>27, <1>28, <1>31, <2>5 DEF B!LandedAt
<1>32. CASE d.side = "before" /\ a \notin own
  <2>1. a \in DOMAIN p \ own /\ a \in Y /\ ord[a] = p[a] /\ ord[a] >= f + n
    BY <1>14, <1>15, <1>16, <1>32
  <2>2. PICK k \in 1..N : L[k] = a
    BY <1>20, <2>1
  <2>3. n \in 1..n /\ i + n - 1 \in 1..N /\ L[i + n - 1] = moved[n]
    BY <1>4, <1>20, <1>24
  <2>4. i + n - 1 < k
    <3>1. ord[moved[n]] = f + n - 1
      BY <1>21, <2>3
    <3>2. B!Earlier(ord, L[i + n - 1], L[k])
      BY <1>13, <1>17, <2>1, <2>2, <2>3, <3>1 DEF B!Earlier
    <3> QED
      BY <1>20, <2>2, <2>3, <3>2
  <2>5. k \in (i + n)..N
    BY <1>4, <1>20, <1>24, <2>2, <2>4
  <2>6. ASSUME NEW j \in (i + n)..(k - 1) PROVE L[j] < a
    <3>1. j \in 1..N /\ j < k /\ i < j /\ j > i + n - 1
      BY <1>4, <1>20, <1>24, <2>2, <2>6
    <3>2. PICK x \in Y : x = L[j]
      BY <1>20, <3>1
    <3>3. B!Earlier(ord, x, a) /\ B!Earlier(ord, L[i], x)
      BY <1>20, <1>24, <2>2, <3>1, <3>2
    <3>a. ord[x] \in Nat /\ ord[a] \in Nat /\ f \in Nat
      BY <1>13, <1>17, <2>1, <3>2
    <3>b. ord[x] >= f
      BY <1>25, <3>3, <3>a DEF B!Earlier
    <3>c. ord[x] <= ord[a]
      BY <3>3, <3>a DEF B!Earlier
    <3>4. ord[x] >= f /\ ord[x] <= ord[a]
      BY <3>b, <3>c
    <3>5. x \notin own
      <4>1. SUFFICES ASSUME x \in own PROVE FALSE
        OBVIOUS
      <4>2. PICK m \in 1..n : moved[m] = x
        BY <1>11, <4>1
      <4>3. i + m - 1 \in 1..N /\ L[i + m - 1] = L[j]
        BY <1>4, <1>20, <1>24, <3>2, <4>2
      <4>4. i + m - 1 = j
        BY <1>20, <3>1, <4>3
      <4> QED
        BY <1>4, <1>24, <3>1, <4>2, <4>4
    <3>6. x \in DOMAIN p \ own /\ ord[x] = p[x]
      <4>1. ~(ord[x] < f)
        BY <1>13, <1>17, <3>2, <3>4
      <4> QED
        BY <1>22, <3>2, <3>5, <4>1
    <3>7. ord[x] < ord[a] \/ (ord[x] = ord[a] /\ x < a)
      BY <3>3 DEF B!Earlier
    <3>8. CASE ord[x] < ord[a]
      BY <1>14, <1>32, <2>1, <3>2, <3>6, <3>8
    <3> QED
      BY <3>2, <3>7, <3>8
  <2>7. n = Len(d.moved) /\ N = Len(L) /\ a = d.anchor /\ d.moved = moved
    BY <1>3, <1>4, <1>8, <1>27
  <2>8. \A j \in (i + Len(d.moved))..(k - 1) : L[j] < d.anchor
    BY <2>6, <2>7
  <2>9. k \in (i + Len(d.moved))..Len(L) /\ L[k] = d.anchor
    BY <2>2, <2>5, <2>7
  <2>10. i \in DOMAIN L /\ SubSeq(L, i, i + Len(d.moved) - 1) = d.moved
    BY <1>24, <1>27, <1>28, <2>7
  <2>11. \E m \in (i + Len(d.moved))..Len(L) :
            /\ L[m] = d.anchor
            /\ \A j \in (i + Len(d.moved))..(m - 1) : L[j] < d.anchor
    BY <2>8, <2>9
  <2>12. d.side = "before"
    BY <1>32
  <2>13. B!LandedAt(i, L, d)
    BY <2>10, <2>11, <2>12 DEF B!LandedAt
  <2> QED
    BY <2>10, <2>13
<1>33. d.side \in {"first", "before", "after"}
  BY <1>2 DEF B!DropShape
<1> QED
  BY <1>29, <1>30, <1>31, <1>32, <1>33

(* Steps that end no drop                                                  *)
LEMMA NoneEnds ==
    ASSUME \A h \in Handlers : drops[h].pc = "numbered" => drops'[h].pc # "idle"
    PROVE  B!DropsLandTogether
BY NoDropShape DEF B!DropsLandTogether

LEMMA CrossedLands ==
    ASSUME B!BoardsInv, NEW S, NEW c, drops' = B!Crossed(S, c)
    PROVE  B!DropsLandTogether
<1>1. ASSUME NEW h \in Handlers PROVE drops'[h].pc = drops[h].pc
  <2>1. drops'[h] = IF B!Crosses(h, S, c) THEN [drops[h] EXCEPT !.crossed = TRUE] ELSE drops[h]
    BY DEF B!Crossed
  <2>2. B!DropShape(drops[h])
    BY DEF B!BoardsInv
  <2> QED
    BY <2>1, <2>2, MarkedDrop
<1> QED
  BY <1>1, NoneEnds

LEMMA StartDropLands ==
    ASSUME B!BoardsInv, NEW h \in Handlers, NEW moved, NEW to, NEW side, NEW anchor,
           B!StartDrop(h, moved, to, side, anchor)
    PROVE  B!DropsLandTogether
<1>1. \E Q : /\ h \notin B!Busy
             /\ \A g \in Handlers : g # h =>
                    drops'[g] = IF g \in Q THEN [drops[g] EXCEPT !.crossed = TRUE] ELSE drops[g]
  <2> DEFINE touched == DOMAIN B!Plan(moved, to, side, anchor) \cup {anchor}
             Q == {g \in Handlers : /\ g \in B!Busy
                                    /\ \/ B!Crosses(g, touched, to)
                                       \/ B!Range(moved) \cap B!InCell(drops[g].to) # {}}
  <2>1. /\ h \notin B!Busy
        /\ \A g \in Handlers : g # h =>
               drops'[g] = IF g \in Q THEN [drops[g] EXCEPT !.crossed = TRUE] ELSE drops[g]
    BY DEF B!StartDrop
  <2> QED
    BY <2>1
<1>2. ASSUME NEW g \in Handlers, drops[g].pc = "numbered" PROVE drops'[g].pc = drops[g].pc
  <2>1. B!DropShape(drops[g])
    BY DEF B!BoardsInv
  <2>2. g # h
    BY <1>1, <1>2 DEF B!Busy
  <2> QED
    BY <1>1, <2>1, <2>2, MarkedDrop
<1> QED
  BY <1>2, NoneEnds

LEMMA NumberDropLands ==
    ASSUME B!BoardsInv, NEW h \in Handlers, B!NumberDrop(h)
    PROVE  B!DropsLandTogether
<1>1. drops' = [drops EXCEPT ![h].pc = "numbered"] /\ drops[h].pc = "read"
  BY DEF B!NumberDrop
<1>2. drops = [g \in Handlers |-> drops[g]]
  BY DEF B!BoardsInv
<1>3. ASSUME NEW g \in Handlers, drops[g].pc = "numbered" PROVE drops'[g].pc # "idle"
  BY <1>1, <1>2, <1>3
<1> QED
  BY <1>3, NoneEnds

LEMMA PlaceDropIsTogether ==
    ASSUME B!BoardsInv, NEW h \in Handlers, B!PlaceDrop(h)
    PROVE  B!DropsLandTogether
<1>1. drops' = [drops EXCEPT ![h] = B!NoDrop] /\ drops = [g \in Handlers |-> drops[g]]
  BY DEF B!PlaceDrop, B!BoardsInv
<1>2. ASSUME NEW g \in Handlers, drops[g].pc = "numbered", drops'[g] = B!NoDrop,
             ~drops[g].crossed, NEW L,
             L = B!Sorted(order[B!Column(drops[g].to)], {s \in Ids : place'[s] = drops[g].to})
      PROVE  \E i \in DOMAIN L : B!LandedAt(i, L, drops[g])
  <2>1. g = h
    BY <1>1, <1>2, NoDropShape
  <2>2. PICK Y : Y = {s \in Ids : place'[s] = drops[g].to}
    OBVIOUS
  <2>3. PICK d : d = drops[h]
    OBVIOUS
  <2>4. ~drops[h].crossed /\ Y = {s \in Ids : place'[s] = d.to}
        /\ L = B!Sorted(order[B!Column(d.to)], Y)
    BY <1>2, <2>1, <2>2, <2>3
  <2>5. \E i \in DOMAIN L : B!LandedAt(i, L, d)
    BY <2>3, <2>4, PlaceDropLands
  <2> QED
    BY <2>1, <2>3, <2>5
<1> QED
  BY <1>2 DEF B!DropsLandTogether

LEMMA NoPlaceGiven ==
    ASSUME view # "backlog" \/ asks' = asks \/ order' = order
    PROVE  B!PlacesGivenAreFree
BY DEF B!PlacesGivenAreFree

LEMMA OthersStay ==
    ASSUME \A k \in B!Columns, s \in Ids \ asked' : order'[k][s] = order[k][s]
    PROVE  B!BystandersKeepTheirOrder
<1>1. \A c : B!Column(c) \in B!Columns
  BY DEF B!Column, B!Columns
<1> QED
  BY <1>1 DEF B!BystandersKeepTheirOrder

LEMMA OrdersStay ==
    ASSUME order' = order
    PROVE  B!BystandersKeepTheirOrder
BY OthersStay

(* The two properties of a save that shifts a backlog or a sprint          *)
LEMMA SavePlaces ==
    ASSUME B!BoardsTypeOK, NEW s \in Ids, NEW c \in B!Cells, NEW b \in Nat, NEW p \in Nat,
           B!MoveOnBacklog(s, c, b, p)
    PROVE  B!PlacesGivenAreFree /\ B!BystandersKeepTheirOrder
<1>1. /\ view = "backlog" /\ asked' = {s}
      /\ place' = [place EXCEPT ![s] = c] /\ place \in [Ids -> B!Cells]
  BY DEF B!MoveOnBacklog, B!Set, B!Ask, B!BoardsTypeOK
<1>2. PICK u \in [Ids -> Nat] : u = order["board"]
  BY DEF B!BoardsTypeOK, B!Columns
<1>3. PICK v \in [Ids -> Nat] : v = order["sprint"]
  BY DEF B!BoardsTypeOK, B!Columns
<1>4. PICK D \in SUBSET Ids, x \in [Ids -> Nat], y \in [Ids -> Nat] :
          BacklogOrders(s, c, b, p, D, x, y)
  BY MoveOnBacklogOrders
<1>5. PICK f : f = order'["board"]
  OBVIOUS
<1>6. PICK g : g = order'["sprint"]
  OBVIOUS
<1>7. /\ D = IF c = None THEN Ids ELSE B!InCell(c) \cup {s}
      /\ x = [u EXCEPT ![s] = b] /\ y = [v EXCEPT ![s] = p]
      /\ f = IF b = u[s] THEN x
             ELSE [t \in Ids |-> IF t # s /\ x[t] >= b THEN x[t] + 1 ELSE x[t]]
      /\ g = IF c = place[s] /\ p = v[s] THEN y
             ELSE [t \in Ids |-> IF t # s /\ t \in D /\ y[t] >= p THEN y[t] + 1 ELSE y[t]]
  BY <1>2, <1>3, <1>4, <1>5, <1>6 DEF BacklogOrders
<1>8. ASSUME NEW t \in Ids, t # s, place'[s] = place'[t], NEW k, k = B!Column(place'[s]),
             order'[k] # order[k]
      PROVE  order'[k][s] # order'[k][t]
  <2>1. place'[s] = c /\ place[t] = c
    BY <1>1, <1>8
  <2>2. CASE c = None
    <3>1. k = "board"
      BY <1>8, <2>1, <2>2 DEF B!Column
    <3>2. f # u
      BY <1>2, <1>5, <1>8, <3>1
    <3>3. b # u[s]
      BY <1>2, <1>7, <3>2
    <3>4. f[s] = b /\ f[t] = IF u[t] >= b THEN u[t] + 1 ELSE u[t]
      BY <1>2, <1>7, <1>8, <3>3
    <3>5. f[s] # f[t]
      BY <1>2, <3>4
    <3> QED
      BY <1>5, <3>1, <3>5
  <2>3. CASE c # None
    <3>1. k = "sprint"
      BY <1>1, <1>8, <2>1, <2>3 DEF B!Column
    <3>2. g # v
      BY <1>3, <1>6, <1>8, <3>1
    <3>3. ~(c = place[s] /\ p = v[s])
      BY <1>3, <1>7, <3>2
    <3>4. t \in D
      BY <1>7, <2>1, <2>3 DEF B!InCell
    <3>5. g[s] = p /\ g[t] = IF v[t] >= p THEN v[t] + 1 ELSE v[t]
      BY <1>3, <1>7, <1>8, <3>3, <3>4
    <3>6. g[s] # g[t]
      BY <1>3, <3>5
    <3> QED
      BY <1>6, <3>1, <3>6
  <2> QED
    BY <2>2, <2>3
<1>9. B!PlacesGivenAreFree
  BY <1>1, <1>8 DEF B!PlacesGivenAreFree
<1>10. ASSUME NEW a \in Ids, NEW t \in Ids, a # s, t # s, place[a] = place[t],
              NEW k, k = B!Column(place[a]), order[k][a] < order[k][t]
       PROVE  order'[k][a] < order'[k][t]
  <2>1. CASE k = "board"
    <3>1. u[a] < u[t] /\ u[a] \in Nat /\ u[t] \in Nat
      BY <1>2, <1>10, <2>1
    <3>2. CASE b = u[s]
      <4>1. f[a] = u[a] /\ f[t] = u[t]
        BY <1>2, <1>7, <1>10, <3>2
      <4> QED
        BY <1>5, <2>1, <3>1, <4>1
    <3>3. CASE b # u[s]
      <4>1. /\ f[a] = IF u[a] >= b THEN u[a] + 1 ELSE u[a]
            /\ f[t] = IF u[t] >= b THEN u[t] + 1 ELSE u[t]
        BY <1>2, <1>7, <1>10, <3>3
      <4>2. f[a] < f[t]
        BY <3>1, <4>1
      <4> QED
        BY <1>5, <2>1, <4>2
    <3> QED
      BY <3>2, <3>3
  <2>2. CASE k = "sprint"
    <3>1. v[a] < v[t] /\ v[a] \in Nat /\ v[t] \in Nat
      BY <1>3, <1>10, <2>2
    <3>2. a \in D <=> t \in D
      BY <1>7, <1>10 DEF B!InCell
    <3>3. CASE c = place[s] /\ p = v[s]
      <4>1. g[a] = v[a] /\ g[t] = v[t]
        BY <1>3, <1>7, <1>10, <3>3
      <4> QED
        BY <1>6, <2>2, <3>1, <4>1
    <3>4. CASE ~(c = place[s] /\ p = v[s])
      <4>1. /\ g[a] = IF a \in D /\ v[a] >= p THEN v[a] + 1 ELSE v[a]
            /\ g[t] = IF t \in D /\ v[t] >= p THEN v[t] + 1 ELSE v[t]
        BY <1>3, <1>7, <1>10, <3>4
      <4>2. g[a] < g[t]
        BY <3>1, <3>2, <4>1
      <4> QED
        BY <1>6, <2>2, <4>2
    <3> QED
      BY <3>3, <3>4
  <2> QED
    BY <1>10, <2>1, <2>2 DEF B!Column
<1>11. B!BystandersKeepTheirOrder
  BY <1>1, <1>10 DEF B!BystandersKeepTheirOrder
<1> QED
  BY <1>9, <1>11

LEMMA SprintPlaces ==
    ASSUME B!BoardsTypeOK, NEW S, S \subseteq Ids, NEW new \in [S -> Nat], NEW m \in Lanes,
           B!MoveToSprint(new, m)
    PROVE  B!PlacesGivenAreFree /\ B!BystandersKeepTheirOrder
<1>1. /\ view = "backlog" /\ asked' = S /\ m # None /\ asks' # asks
      /\ place' = [s \in Ids |-> IF s \in S THEN m ELSE place[s]]
  <2>1. DOMAIN new = S
    OBVIOUS
  <2>2. view = "backlog" /\ m # None /\ B!Ask(S)
        /\ place' = [s \in Ids |-> IF s \in S THEN m ELSE place[s]]
    BY <2>1 DEF B!MoveToSprint
  <2> QED
    BY <2>2, AskEffect
<1>2. PICK v \in [Ids -> Nat] : v = order["sprint"]
  BY DEF B!BoardsTypeOK, B!Columns
<1>3. PICK r : SprintOrders(new, S, m, r)
  BY MoveToSprintOrders
<1>4. PICK D : D = B!InCell(m) \cup S
  OBVIOUS
<1>5. PICK g : g = order'["sprint"]
  OBVIOUS
<1>6. /\ r \in [D -> Nat] /\ D \subseteq Ids
      /\ \A x \in S, t \in D \ S : r[t] # r[x]
      /\ Cardinality(S) <= 1 => \A s, t \in D \ S : v[s] < v[t] => r[s] < r[t]
      /\ order' = [order EXCEPT !["sprint"] = [t \in Ids |-> IF t \in D THEN r[t] ELSE v[t]]]
  BY <1>2, <1>3, <1>4 DEF SprintOrders, B!InCell
<1>7. /\ g = [t \in Ids |-> IF t \in D THEN r[t] ELSE v[t]]
      /\ order'["board"] = order["board"]
  BY <1>5, <1>6 DEF B!BoardsTypeOK, B!Columns
<1>8. ASSUME NEW x \in S, NEW t \in Ids \ S, place'[x] = place'[t]
      PROVE  /\ B!Column(place'[x]) = "sprint"
             /\ g[x] # g[t]
  <2>1. place'[x] = m /\ place[t] = m
    BY <1>1, <1>8
  <2>2. x \in D /\ t \in D \ S
    BY <1>4, <1>8, <2>1 DEF B!InCell
  <2> QED
    BY <1>1, <1>6, <1>7, <2>1, <2>2 DEF B!Column
<1>9. B!PlacesGivenAreFree
  BY <1>1, <1>5, <1>8 DEF B!PlacesGivenAreFree
<1>10. ASSUME NEW a \in Ids \ S, NEW t \in Ids \ S, place[a] = place[t],
              NEW k, k = B!Column(place[a]), order[k][a] < order[k][t],
              ~(B!Cardinality(asked') > 1)
       PROVE  order'[k][a] < order'[k][t]
  <2>1. CASE k = "board"
    BY <1>7, <1>10, <2>1
  <2>2. CASE k = "sprint"
    <3>1. Cardinality(S) <= 1
      <4>1. IsFiniteSet(S)
        BY BoardsConstants, FS_Subset
      <4>2. Cardinality(S) \in Nat
        BY <4>1, FS_CardinalityType
      <4> QED
        BY <1>1, <1>10, <4>2, BoardSizes
    <3>2. v[a] < v[t]
      BY <1>2, <1>10, <2>2
    <3>3. a \in D <=> t \in D
      BY <1>4, <1>10 DEF B!InCell
    <3>4. g[a] < g[t]
      BY <1>6, <1>7, <1>10, <3>1, <3>2, <3>3
    <3> QED
      BY <1>5, <2>2, <3>4
  <2> QED
    BY <1>10, <2>1, <2>2 DEF B!Column
<1>11. B!BystandersKeepTheirOrder
  BY <1>1, <1>10 DEF B!BystandersKeepTheirOrder
<1> QED
  BY <1>9, <1>11

(* What the drops number keeps the stories of the cell in their order.     *)
LEMMA NumberDropBystanders ==
    ASSUME B!BoardsInv, NEW h \in Handlers, B!NumberDrop(h)
    PROVE  B!BystandersKeepTheirOrder
<1>1. PICK d : d = drops[h]
  OBVIOUS
<1>2. PICK k : k = B!Column(d.to)
  OBVIOUS
<1>3. PICK w : w = [s \in Ids |-> IF s \in DOMAIN d.plan THEN d.plan[s] ELSE order[k][s]]
  OBVIOUS
<1>4. /\ d.pc = "read" /\ order' = [order EXCEPT ![k] = w]
      /\ drops' = [drops EXCEPT ![h].pc = "numbered"]
      /\ asked' = B!Range(d.moved)
  BY <1>1, <1>2, <1>3 DEF B!NumberDrop
<1>5. B!BoardsTypeOK /\ drops = [g \in Handlers |-> drops[g]]
  BY DEF B!BoardsInv
<1>6. drops'[h].pc = "numbered"
  <2>1. B!DropShape(drops[h])
    BY DEF B!BoardsInv
  <2> QED
    BY <1>4, <1>5, <2>1 DEF B!DropShape
<1>7. CASE d.crossed
  <2>1. \E g \in Handlers : drops[g].crossed /\ drops'[g].pc = "numbered"
    BY <1>1, <1>6, <1>7
  <2> QED
    BY <2>1 DEF B!BystandersKeepTheirOrder
<1>8. CASE ~d.crossed
  <2>1. h \in B!Busy
    BY <1>1, <1>4 DEF B!Busy
  <2>2. B!DropPlanned(d) /\ B!DropStands(d) /\ B!DropShape(d)
    BY <1>1, <1>8, <2>1 DEF B!BoardsInv, B!DropsInv
  <2>3. PICK ord \in [Ids -> Nat] : ord = order[k]
    BY <1>2, <1>5, BoardColumns
  <2>4. PICK own : own = B!Range(d.moved)
    OBVIOUS
  <2>5. PICK p : p = d.plan
    OBVIOUS
  <2>6. PICK cell : cell = B!InCell(d.to)
    OBVIOUS
  <2>7. PICK f : f = p[d.moved[1]]
    OBVIOUS
  <2>8. PICK n \in Nat : n = Len(d.moved)
    BY <2>2, MovedFacts DEF B!DropPlanned
  <2>9. /\ DOMAIN p \subseteq Ids /\ p \in [DOMAIN p -> Nat]
        /\ own \subseteq DOMAIN p
        /\ \A s \in DOMAIN p \ own : p[s] >= f + n
    BY <2>2, <2>4, <2>5, <2>7, <2>8 DEF B!DropShape, B!DropPlanned
  <2>10. f \in Nat
    BY <2>2, <2>4, <2>5, <2>7, <2>9, MovedFacts DEF B!DropPlanned
  <2>11. /\ DOMAIN p \ own \subseteq cell
         /\ \A s \in cell \ DOMAIN p : ord[s] < f
         /\ \A s, t \in DOMAIN p \ own : ord[s] < ord[t] => p[s] < p[t]
         /\ \A s \in cell \ DOMAIN p, t \in DOMAIN p \ own : ord[s] <= ord[t]
    BY <1>2, <1>4, <2>2, <2>3, <2>4, <2>5, <2>6, <2>7 DEF B!DropStands
  <2>12. ASSUME NEW s \in Ids \ own, NEW t \in Ids \ own, place[s] = place[t],
                ord[s] < ord[t]
         PROVE  w[s] < w[t]
    <3>1. /\ w[s] = IF s \in DOMAIN p THEN p[s] ELSE ord[s]
          /\ w[t] = IF t \in DOMAIN p THEN p[t] ELSE ord[t]
          /\ ord[s] \in Nat /\ ord[t] \in Nat
      BY <1>3, <2>3, <2>5
    <3>2. s \in cell <=> t \in cell
      BY <2>6, <2>12 DEF B!InCell
    <3>3. CASE s \in DOMAIN p /\ t \in DOMAIN p
      BY <2>11, <2>12, <3>1, <3>3
    <3>4. CASE s \notin DOMAIN p /\ t \notin DOMAIN p
      BY <2>12, <3>1, <3>4
    <3>5. CASE s \notin DOMAIN p /\ t \in DOMAIN p
      <4>1. ord[s] < f /\ p[t] >= f + n /\ p[t] \in Nat
        BY <2>9, <2>11, <2>12, <3>2, <3>5
      <4> QED
        BY <2>8, <2>10, <3>1, <3>5, <4>1
    <3>6. CASE s \in DOMAIN p /\ t \notin DOMAIN p
      <4>1. ord[t] <= ord[s]
        BY <2>11, <2>12, <3>2, <3>6
      <4> QED
        BY <2>12, <3>1, <4>1
    <3> QED
      BY <3>3, <3>4, <3>5, <3>6
  <2>13. ASSUME NEW s \in Ids \ own, NEW t \in Ids \ own, place[s] = place[t],
                NEW c, c = B!Column(place[s]), order[c][s] < order[c][t]
         PROVE  order'[c][s] < order'[c][t]
    <3>1. c \in B!Columns
      BY <1>5, <2>13, BoardColumns
    <3>2. order'[c] = IF c = k THEN w ELSE order[c]
      BY <1>4, <1>5, <3>1 DEF B!BoardsTypeOK
    <3> QED
      BY <2>3, <2>12, <2>13, <3>2
  <2> QED
    BY <1>4, <2>4, <2>13 DEF B!BystandersKeepTheirOrder
<1> QED
  BY <1>7, <1>8

(* Renumbering by counting keeps what was in one swimlane in its order.    *)
LEMMA SwimlaneBystanders ==
    ASSUME B!BoardsInv, NEW l \in Lanes, NEW to \in Lanes,
           NEW rank \in [Lanes \ {l} -> Nat], B!DeleteSwimlane(l, to, rank)
    PROVE  B!BystandersKeepTheirOrder
<1> DEFINE lane(s) == IF place[s] = l THEN to ELSE place[s]
           at(s) == IF lane(s) = None THEN 0 ELSE rank[lane(s)]
           precedes(s, t) ==
               \/ at(s) < at(t)
               \/ at(s) = at(t) /\ place[s] # l /\ place[t] = l
               \/ /\ at(s) = at(t) /\ (place[s] = l <=> place[t] = l)
                  /\ B!Earlier(order["board"], s, t)
<1>1. /\ view = "kanban" /\ l # to /\ asked' = B!InCell(l)
      /\ order' = [order EXCEPT !["board"] =
                      [t \in Ids |-> B!Cardinality({s \in Ids : precedes(s, t)})]]
  BY DEF B!DeleteSwimlane, B!Ask
<1>2. place \in [Ids -> B!Cells] /\ order \in [B!Columns -> [Ids -> Nat]]
  BY DEF B!BoardsInv, B!BoardsTypeOK
<1>3. PICK u \in [Ids -> Nat] : u = order["board"]
  BY <1>2 DEF B!Columns
<1>4. \A s \in Ids : at(s) \in Nat
  BY <1>1, <1>2 DEF B!Cells
<1>5. ASSUME NEW s \in Ids, NEW t \in Ids, place[s] = place[t], place[s] # l, u[s] < u[t]
      PROVE  Cardinality({q \in Ids : precedes(q, s)}) < Cardinality({q \in Ids : precedes(q, t)})
  <2>1. at(s) = at(t)
    BY <1>5
  <2>2. precedes(s, t)
    BY <1>3, <1>5, <2>1 DEF B!Earlier
  <2>3. ~precedes(s, s)
    BY <1>3, <1>4, <1>5, BoardsConstants DEF B!Earlier
  <2>4. ASSUME NEW q \in Ids, precedes(q, s) PROVE precedes(q, t)
    <3>1. B!Earlier(u, q, s) => B!Earlier(u, q, t)
      BY <1>3, <1>5 DEF B!Earlier
    <3>2. \/ at(q) < at(s)
          \/ at(q) = at(s) /\ place[q] # l /\ B!Earlier(u, q, s)
      BY <1>3, <1>5, <2>4
    <3> QED
      BY <1>3, <1>5, <2>1, <3>1, <3>2
  <2>5. PICK Q : Q = {q \in Ids : precedes(q, s)}
    OBVIOUS
  <2>6. PICK R : R = {q \in Ids : precedes(q, t)}
    OBVIOUS
  <2>7. s \in R /\ s \notin Q
    <3> HIDE DEF precedes
    <3> QED
      BY <2>2, <2>3, <2>5, <2>6
  <2>8. Q \subseteq R
    <3> HIDE DEF precedes
    <3> QED
      BY <2>4, <2>5, <2>6
  <2>9. IsFiniteSet(R)
    <3> HIDE DEF precedes
    <3>1. R \subseteq Ids
      BY <2>6
    <3> QED
      BY <3>1, BoardsConstants, FS_Subset
  <2>10. /\ Cardinality(Q) <= Cardinality(R) /\ IsFiniteSet(Q)
         /\ Cardinality(Q) = Cardinality(R) => Q = R
    BY <2>8, <2>9, FS_Subset
  <2>11. Cardinality(Q) \in Nat /\ Cardinality(R) \in Nat
    BY <2>9, <2>10, FS_CardinalityType
  <2>12. Cardinality(Q) < Cardinality(R)
    BY <2>7, <2>10, <2>11
  <2> HIDE DEF precedes
  <2> QED
    BY <2>5, <2>6, <2>12
<1> DEFINE w(t) == B!Cardinality({q \in Ids : precedes(q, t)})
<1>6. \A t \in Ids : order'["board"][t] = w(t)
  <2> HIDE DEF precedes
  <2> QED
    BY <1>1, <1>2 DEF B!Columns
<1>7. ASSUME NEW s \in Ids \ B!InCell(l), NEW t \in Ids, place[s] = place[t], u[s] < u[t]
      PROVE  order'["board"][s] < order'["board"][t]
  <2>1. place[s] # l
    BY <1>7 DEF B!InCell
  <2> HIDE DEF precedes
  <2>2. w(s) < w(t)
    BY <1>5, <1>7, <2>1, BoardSizes
  <2> HIDE DEF w
  <2> QED
    BY <1>6, <1>7, <2>2
<1>8. \A c : B!Column(c) = "board"
  BY <1>1 DEF B!Column
<1> HIDE DEF precedes, w, at, lane
<1> QED
  BY <1>1, <1>3, <1>7, <1>8 DEF B!BystandersKeepTheirOrder

(* The orders a save or a deletion on the kanban changes are those of the  *)
(* stories it moves.                                                       *)
LEMMA KanbanBystanders ==
    ASSUME B!BoardsInv, NEW s \in Ids, NEW c, B!MoveOnKanban(s, c)
    PROVE  B!PlacesGivenAreFree /\ B!BystandersKeepTheirOrder
<1>1. PICK now : now = B!Now(asks')
  OBVIOUS
<1>2. /\ view = "kanban" /\ asked' = {s}
      /\ order' = [order EXCEPT !["board"] = [order["board"] EXCEPT ![s] = now]]
  BY <1>1 DEF B!MoveOnKanban, B!Ask, B!Set
<1>3. order \in [B!Columns -> [Ids -> Nat]]
  BY DEF B!BoardsInv, B!BoardsTypeOK
<1>4. \A k \in B!Columns, t \in Ids \ asked' : order'[k][t] = order[k][t]
  BY <1>2, <1>3 DEF B!Columns
<1> QED
  BY <1>2, <1>4, NoPlaceGiven, OthersStay

LEMMA StatusBystanders ==
    ASSUME B!BoardsInv, NEW c \in B!Cells, NEW to, B!DeleteStatus(c, to)
    PROVE  B!PlacesGivenAreFree /\ B!BystandersKeepTheirOrder
<1>1. B!BoardsTypeOK /\ order \in [B!Columns -> [Ids -> Nat]]
  BY DEF B!BoardsInv, B!BoardsTypeOK
<1>2. view = "kanban" /\ asked' = B!InCell(c)
  BY DEF B!DeleteStatus, B!Ask
<1>3. PICK w \in [Ids -> Nat] :
          /\ order' = [order EXCEPT !["board"] = w]
          /\ \A t \in Ids : t \notin B!InCell(c) => w[t] = order["board"][t]
  BY <1>1, DeleteStatusOrders
<1>4. \A k \in B!Columns, t \in Ids \ asked' : order'[k][t] = order[k][t]
  BY <1>1, <1>2, <1>3 DEF B!Columns
<1> QED
  BY <1>2, <1>4, NoPlaceGiven, OthersStay

(* What every step of the boards keeps and does.                           *)
BoardsSound ==
    /\ B!BoardsInv'
    /\ B!DropsLandTogether
    /\ B!PlacesGivenAreFree
    /\ B!BystandersKeepTheirOrder

LEMMA BoardsStepSound == B!BoardsInv /\ B!BoardsNext => BoardsSound
<1> SUFFICES ASSUME B!BoardsInv, B!BoardsNext
             PROVE  BoardsSound
  OBVIOUS
<1>0. B!BoardsTypeOK
  BY DEF B!BoardsInv
<1>1. ASSUME NEW s \in Ids
      PROVE  \A b \in Positions \cup {order["board"][s]},
                p \in Positions \cup {order["sprint"][s]} : b \in Nat /\ p \in Nat
  BY <1>0, BoardsConstants DEF B!BoardsTypeOK, B!Columns
<1>2. ASSUME NEW h \in Handlers, NEW moved \in Bulks, NEW to \in B!Cells,
             NEW side \in {"first", "before", "after"}, NEW anchor \in Ids,
             B!StartDrop(h, moved, to, side, anchor)
      PROVE  BoardsSound
  <2>1. order' = order
    BY <1>2 DEF B!StartDrop
  <2> QED
    BY <1>2, <2>1, StartDropKeeps, StartDropLands, NoPlaceGiven, OrdersStay DEF BoardsSound
<1>3. ASSUME NEW h \in Handlers, B!NumberDrop(h)
      PROVE  BoardsSound
  <2>1. asks' = asks
    BY <1>3 DEF B!NumberDrop
  <2> QED
    BY <1>3, <2>1, NumberDropKeeps, NumberDropLands, NoPlaceGiven, NumberDropBystanders
    DEF BoardsSound
<1>4. ASSUME NEW h \in Handlers, B!PlaceDrop(h)
      PROVE  BoardsSound
  <2>1. order' = order
    BY <1>4 DEF B!PlaceDrop
  <2> QED
    BY <1>4, <2>1, PlaceDropKeeps, PlaceDropIsTogether, NoPlaceGiven, OrdersStay DEF BoardsSound
<1>5. ASSUME NEW s \in Ids, NEW c \in B!Cells, B!MoveOnKanban(s, c)
      PROVE  BoardsSound
  <2>1. drops' = B!Crossed({s}, c)
    BY <1>5 DEF B!MoveOnKanban
  <2> QED
    BY <1>5, <2>1, MoveOnKanbanKeeps, CrossedLands, KanbanBystanders DEF BoardsSound
<1>6. ASSUME NEW s \in Ids, NEW c \in B!Cells, NEW b \in Positions \cup {order["board"][s]},
             NEW p \in Positions \cup {order["sprint"][s]}, B!MoveOnBacklog(s, c, b, p)
      PROVE  BoardsSound
  <2>1. b \in Nat /\ p \in Nat
    BY <1>1
  <2>2. drops' = B!Crossed(Ids, c)
    BY <1>6 DEF B!MoveOnBacklog
  <2> QED
    BY <1>0, <1>6, <2>1, <2>2, MoveOnBacklogKeeps, CrossedLands, SavePlaces DEF BoardsSound
<1>7. ASSUME NEW S \in SUBSET Ids, NEW m \in Lanes, NEW new \in [S -> Positions],
             B!MoveToSprint(new, m)
      PROVE  BoardsSound
  <2>1. S \subseteq Ids /\ new \in [S -> Nat]
    BY BoardsConstants
  <2>2. drops' = B!Crossed(B!InCell(m) \cup DOMAIN new, m)
    BY <1>7 DEF B!MoveToSprint
  <2> QED
    BY <1>0, <1>7, <2>1, <2>2, MoveToSprintKeeps, CrossedLands, SprintPlaces DEF BoardsSound
<1>8. ASSUME NEW l \in Lanes, NEW to \in Lanes,
             NEW rank \in B!Injection(Lanes \ {l}, 1..(B!Cardinality(Lanes) - 1)),
             B!DeleteSwimlane(l, to, rank)
      PROVE  BoardsSound
  <2>1. rank \in [Lanes \ {l} -> Nat]
    BY DEF B!Injection
  <2>2. view = "kanban" /\ drops' = B!Crossed(Ids, to)
    BY <1>8 DEF B!DeleteSwimlane
  <2> QED
    BY <1>8, <2>1, <2>2, DeleteSwimlaneKeeps, CrossedLands, NoPlaceGiven, SwimlaneBystanders
    DEF BoardsSound
<1>9. ASSUME NEW c \in B!Cells, NEW to \in B!Cells, B!DeleteStatus(c, to)
      PROVE  BoardsSound
  <2>1. drops' = B!Crossed(B!InCell(c), to)
    BY <1>9 DEF B!DeleteStatus
  <2> QED
    BY <1>9, <2>1, DeleteStatusKeeps, CrossedLands, StatusBystanders DEF BoardsSound
<1>10. ASSUME NEW m \in Lanes, B!DeleteSprint(m)
       PROVE  BoardsSound
  <2>1. order' = order /\ drops' = B!Crossed(B!InCell(m), None)
    BY <1>10 DEF B!DeleteSprint
  <2> QED
    BY <1>10, <2>1, DeleteSprintKeeps, CrossedLands, NoPlaceGiven, OrdersStay DEF BoardsSound
<1>11. CASE \E h \in Handlers :
               \/ \E moved \in Bulks, to \in B!Cells, side \in {"first", "before", "after"},
                     anchor \in Ids : B!StartDrop(h, moved, to, side, anchor)
               \/ B!NumberDrop(h)
               \/ B!PlaceDrop(h)
  BY <1>2, <1>3, <1>4, <1>11
<1>12. CASE \E s \in Ids, c \in B!Cells :
               \/ B!MoveOnKanban(s, c)
               \/ \E b \in Positions \cup {order["board"][s]},
                     p \in Positions \cup {order["sprint"][s]} : B!MoveOnBacklog(s, c, b, p)
  BY <1>5, <1>6, <1>12
<1>13. CASE \E S \in SUBSET Ids, m \in Lanes :
               \E new \in [S -> Positions] : B!IsInjective(new) /\ B!MoveToSprint(new, m)
  BY <1>7, <1>13
<1>14. CASE \E l \in Lanes, to \in Lanes :
               \E rank \in B!Injection(Lanes \ {l}, 1..(B!Cardinality(Lanes) - 1)) :
                   B!DeleteSwimlane(l, to, rank)
  BY <1>8, <1>14
<1>15. CASE \E c \in B!Cells, to \in B!Cells : B!DeleteStatus(c, to)
  BY <1>9, <1>15
<1>16. CASE \E m \in Lanes : B!DeleteSprint(m)
  BY <1>10, <1>16
<1> QED
  BY <1>11, <1>12, <1>13, <1>14, <1>15, <1>16 DEF B!BoardsNext

LEMMA BoardsRest == UNCHANGED boardVars => (B!BoardsInv' <=> B!BoardsInv)
BY DEF boardVars, B!BoardsInv, B!BoardsTypeOK, B!DropsInv, B!DropShape, B!DropPlanned,
       B!DropStands, B!DropsApart, B!Touched, B!InCell, B!Column, B!Busy

(* The invariant of the part.                                              *)
BoardsPart == part = "boards" => B!BoardsInv

LEMMA BoardsPartInvariant == Spec => []BoardsPart
<1>1. Init => BoardsPart
  BY BoardsInitInv DEF Init, BoardsPart
<1>2. BoardsPart /\ [Next]_backendVars => BoardsPart'
  <2> SUFFICES ASSUME BoardsPart, [Next]_backendVars
               PROVE  BoardsPart'
    OBVIOUS
  <2>1. CASE BoardsStep
    BY <2>1, BoardsStepSound DEF BoardsStep, BoardsPart, BoardsSound
  <2>2. CASE UNCHANGED <<part, boardVars>>
    BY <2>2, BoardsRest DEF BoardsPart
  <2> QED
    BY <2>1, <2>2 DEF Next, EditsStep, ColoursStep, ClosingStep, CountersStep, OwnershipStep,
                      WideningStep, backendVars
<1> QED
  BY <1>1, <1>2, PTL DEF Spec

LEMMA BoardsAlways ==
    BoardsPart /\ [Next]_backendVars =>
        /\ [part = "boards" => B!DropsLandTogether]_backendVars
        /\ [part = "boards" => B!PlacesGivenAreFree]_backendVars
        /\ [part = "boards" => B!BystandersKeepTheirOrder]_backendVars
<1> SUFFICES ASSUME BoardsPart, Next, part = "boards"
             PROVE  /\ B!DropsLandTogether /\ B!PlacesGivenAreFree
                    /\ B!BystandersKeepTheirOrder
  OBVIOUS
<1>1. B!BoardsInv /\ B!BoardsNext
  BY DEF BoardsPart, Next, EditsStep, ColoursStep, ClosingStep, CountersStep, BoardsStep,
         OwnershipStep, WideningStep
<1> QED
  BY <1>1, BoardsStepSound DEF BoardsSound

(* A drop of several stories on the kanban, the backlog or a sprint that no *)
(* other request crosses leaves them together where they were dropped, for  *)
(* any number of stories, cells, handlers and requests                      *)
(* (userstories/services.py, update_userstories_kanban_order_in_bulk and    *)
(* update_userstories_backlog_or_sprint_order_in_bulk).                     *)
THEOREM DropsLandTogetherHolds == Spec => DropsLandTogether
BY BoardsPartInvariant, BoardsAlways, PTL DEF Spec, DropsLandTogether

(* No story of a backlog or sprint has the place that a save or a move to a *)
(* sprint gives another (apply_order_updates, bulk_update_order.py).        *)
THEOREM PlacesGivenAreFreeHolds == Spec => PlacesGivenAreFree
BY BoardsPartInvariant, BoardsAlways, PTL DEF Spec, PlacesGivenAreFree

(* Stories of a cell that no request moves keep their order, except next to *)
(* drops that cross and to moves of several stories to a sprint             *)
(* (userstories/services.py, bulk_update_order.py, on_destroy.py).          *)
THEOREM BoardBystandersKeepTheirOrder == Spec => BystandersKeepTheirOrder
BY BoardsPartInvariant, BoardsAlways, PTL DEF Spec, BystandersKeepTheirOrder

=============================================================================
