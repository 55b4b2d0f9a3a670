------------------------ MODULE ScheduleDatesProofs ------------------------
(***************************************************************************)
(* The dates of ScheduleDates, for any items, plans, requests and bounds:  *)
(* whatever a request sets going, the copies of a due date agree, parents  *)
(* contain what was edited, accepted bulks are consistent and no due date  *)
(* is pulled back.                                                         *)
(***************************************************************************)
EXTENDS ScheduleDates, FiniteSetTheorems, SequenceTheorems, TLAPS

Calls == {Respond} \cup Ensurings \cup Propagations

(* The tables have their types, and the copies of a due date agree.         *)
Tables ==
    /\ sched \in [Items -> Rows]
    /\ due \in [Tasks \cup Stories -> Dates]
    /\ story \in [Tasks -> Stories \cup {NoItem}]
    /\ epics \in [Stories -> Seq(Epics)]
    /\ links \subseteq Links
    /\ Agree(sched, due)

(* A due date n that is date d or later, or is given where there was none.  *)
Later(d, n) == (n = d) \/ (n \in Nat /\ (d = NoDate \/ n > d))

LEMMA InvParts ==
    ASSUME DatesInv
    PROVE  /\ Tables /\ calls \in Seq(Calls) /\ RequestTyped
           /\ RespondsLast /\ EditedContained /\ ValidatedInTime
BY DEF DatesInv, TypeOK, Tables, Calls

LEMMA Kinds ==
    /\ Epics \cap Stories = {} /\ Epics \cap Tasks = {} /\ Stories \cap Tasks = {}
    /\ NoItem \notin Stories /\ NoDate \notin Nat /\ Keep \notin Dates
    /\ Links \subseteq Items \X Items /\ IsFiniteSet(Items)
    /\ Items = Epics \cup Stories \cup Tasks
BY DatesAssumption DEF Items

-----------------------------------------------------------------------------
(* Dates.                                                                   *)

(* A finite set of numbers has a greatest: the set of the members from it   *)
(* on is the least of those sets, as strict inclusion is well-founded.      *)
LEMMA MaxIsGreatest ==
    ASSUME NEW S, IsFiniteSet(S), S \subseteq Int, S # {}
    PROVE  Max(S) \in S /\ \A y \in S : Max(S) >= y
<1> DEFINE Up(x) == {y \in S : y >= x}
           T == {Up(x) : x \in S}
<1>1. FiniteSubsetsOf(S) = SUBSET S
  BY FS_FiniteSubsetsOfFinite
<1>2. T \subseteq SUBSET S /\ T # {}
  OBVIOUS
<1>3. IsWellFoundedOn(StrictSubsetOrdering(S), SUBSET S)
  BY <1>1, FS_StrictSubsetOrderingWellFounded
<1>4. PICK U \in T : \A V \in T : ~(<<V, U>> \in StrictSubsetOrdering(S))
  <2> HIDE DEF T
  <2> QED
    BY <1>2, <1>3, WFMin
<1>5. PICK x \in S : U = Up(x)
  OBVIOUS
<1>6. ASSUME NEW y \in S, y > x PROVE FALSE
  <2>1. x \in Int /\ y \in Int /\ S \subseteq Int /\ y > x
    BY <1>6
  <2>2. Up(y) \subseteq Up(x)
    <3> SUFFICES ASSUME NEW z \in S, z >= y PROVE z >= x
      OBVIOUS
    <3>1. z \in Int
      BY <2>1
    <3> QED
      BY <2>1, <3>1
  <2>3. Up(y) \in T /\ x \in Up(x) /\ x \notin Up(y)
    BY <2>1
  <2>4. <<Up(y), U>> \in StrictSubsetOrdering(S)
    <3> HIDE DEF Up
    <3> QED
      BY <1>2, <1>5, <2>2, <2>3 DEF StrictSubsetOrdering
  <2> QED
    BY <1>4, <2>3, <2>4
<1>7. \E m \in S : \A y \in S : m >= y
  BY <1>6
<1> QED
  BY <1>7 DEF Max

LEMMA RequiredStartType ==
    ASSUME Tables, NEW i
    PROVE  RequiredStart(i) \in Dates
<1> DEFINE dues == {sched[l[1]].due_date : l \in {m \in links : m[2] = i}} \ {NoDate}
           all == {sched[j].due_date : j \in Items}
<1>1. IsFiniteSet(all)
  <2> DEFINE f == [j \in Items |-> sched[j].due_date]
  <2>1. f \in Surjection(Items, all)
    BY DEF Surjection
  <2> QED
    BY <2>1, Kinds, FS_Surjection
<1>2. dues \subseteq all
  BY Kinds DEF Tables
<1>3. all \subseteq Dates
  BY DEF Tables, Rows
<1>4. IsFiniteSet(dues) /\ dues \subseteq Int /\ dues \subseteq Nat
  <2> HIDE DEF dues, all
  <2>1. NoDate \notin dues
    BY DEF dues
  <2> QED
    <3>1. dues \subseteq Nat
      BY <1>2, <1>3, <2>1 DEF Dates
    <3>2. IsFiniteSet(dues)
      BY <1>1, <1>2, FS_Subset
    <3> QED
      BY <3>1, <3>2
<1>5. RequiredStart(i) = IF dues = {} THEN NoDate ELSE Max(dues) + 1
  BY DEF RequiredStart
<1> HIDE DEF dues
<1>6. dues # {} => Max(dues) \in Nat
  BY <1>4, MaxIsGreatest
<1> QED
  BY <1>5, <1>6 DEF Dates

LEMMA StartType ==
    ASSUME NEW row \in Rows
    PROVE  /\ Start(row) \in Dates
           /\ row.due_date \in Dates
           /\ \A d \in Dates : WithStart(row, d) \in Rows /\ WithStart(row, d).due_date = row.due_date
BY DEF Start, WithStart, Rows

LEMMA DueIsScheduled ==
    ASSUME Tables, NEW i \in Items
    PROVE  Due(i) = sched[i].due_date /\ sched[i] \in Rows /\ sched[i].due_date \in Dates
BY Kinds, StartType DEF Tables, Due, Agree, Rows

(* A parent that is widened moves its due date later only, up to that of    *)
(* what it is to contain.                                                   *)
LEMMA ExpandedEffect ==
    ASSUME Tables, NEW p \in Items, NEW i \in Items
    PROVE  /\ Expanded(p, i) \in Rows
           /\ Later(sched[p].due_date, Expanded(p, i).due_date)
           /\ sched[i].due_date # NoDate =>
                 Expanded(p, i).due_date # NoDate /\ Expanded(p, i).due_date >= sched[i].due_date
<1>1. /\ Due(i) = sched[i].due_date /\ Due(p) = sched[p].due_date
      /\ sched[i] \in Rows /\ sched[p] \in Rows
      /\ Due(i) \in Dates /\ Due(p) \in Dates
  BY DueIsScheduled
<1>2. PICK start \in Dates : start = Start(sched[i])
  BY <1>1, StartType
<1> DEFINE earlier == start # NoDate /\ (Start(sched[p]) # NoDate => start < Start(sched[p]))
           later == Due(i) # NoDate /\ (Due(p) # NoDate => Due(i) > Due(p))
<1>3. PICK row \in Rows : /\ row = IF earlier THEN WithStart(sched[p], start) ELSE sched[p]
                          /\ row.due_date = sched[p].due_date
  BY <1>1, <1>2, StartType
<1>4. Expanded(p, i) = IF later THEN [row EXCEPT !.due_date = Due(i)] ELSE row
  BY <1>2, <1>3 DEF Expanded
<1>5. Expanded(p, i) \in Rows /\ Expanded(p, i).due_date = IF later THEN Due(i) ELSE Due(p)
  BY <1>1, <1>3, <1>4 DEF Rows
<1> QED
  BY <1>1, <1>5, Kinds DEF Later, Dates

(* An item that is shifted moves its due date later only.                   *)
LEMMA ShiftedEffect ==
    ASSUME Tables, NEW i \in Items, MustShift(i)
    PROVE  Shifted(i) \in Rows /\ Later(sched[i].due_date, Shifted(i).due_date)
<1>1. PICK row \in Rows : row = sched[i]
  BY DueIsScheduled
<1>2. Start(row) \in Dates /\ row.due_date \in Dates
  BY StartType
<1>3. PICK required \in Nat : required = RequiredStart(i) /\ (Start(row) # NoDate => Start(row) < required)
  BY <1>1, RequiredStartType DEF MustShift, Dates
<1>4. ASSUME NEW a \in Int, NEW b \in Int PROVE Max({a, b}) \in {a, b} /\ Max({a, b}) >= a /\ Max({a, b}) >= b
  <2>1. IsFiniteSet({a, b})
    <3>1. IsFiniteSet({a} \cup {b}) /\ {a, b} = {a} \cup {b}
      BY FS_AddElement, FS_Singleton
    <3> QED
      BY <3>1
  <2> QED
    BY <2>1, MaxIsGreatest
<1> DEFINE next == IF Start(row) = NoDate THEN Max({row.due_date, required})
                   ELSE required + Max({row.due_date - Start(row), 0})
           new == IF row.due_date = NoDate THEN NoDate ELSE next
<1>5. ASSUME row.due_date # NoDate PROVE next \in Nat /\ next >= row.due_date
  <2>1. row.due_date \in Nat
    BY <1>2, <1>5 DEF Dates
  <2>2. CASE Start(row) = NoDate
    <3>1. next = Max({row.due_date, required})
      BY <2>2
    <3>2. Max({row.due_date, required}) \in {row.due_date, required}
          /\ Max({row.due_date, required}) >= row.due_date
      <4>1. PICK a \in Int : a = row.due_date
        BY <2>1
      <4>2. Max({a, required}) \in {a, required} /\ Max({a, required}) >= a
        BY <1>4
      <4> QED
        BY <4>1, <4>2
    <3> QED
      BY <2>1, <3>1, <3>2
  <2>3. CASE Start(row) # NoDate
    <3>1. Start(row) \in Nat /\ Start(row) < required
      BY <1>2, <1>3, <2>3 DEF Dates
    <3>2. PICK m \in Int : m = Max({row.due_date - Start(row), 0}) /\ m >= row.due_date - Start(row) /\ m >= 0
      <4>1. PICK a \in Int : a = row.due_date - Start(row)
        BY <2>1, <3>1
      <4>2. Max({a, 0}) \in {a, 0} /\ Max({a, 0}) >= a /\ Max({a, 0}) >= 0
        BY <1>4
      <4> QED
        BY <4>1, <4>2
    <3>3. next = required + m
      BY <2>3, <3>2
    <3> QED
      BY <2>1, <3>1, <3>2, <3>3
  <2> QED
    BY <2>2, <2>3
<1>6. PICK base \in Rows : base = WithStart(row, required)
  BY StartType DEF Dates
<1>7. Shifted(i) = [base EXCEPT !.due_date = new]
  BY <1>1, <1>3, <1>6 DEF Shifted
<1>8. new \in Dates /\ Later(row.due_date, new)
  <2> HIDE DEF next
  <2> QED
    BY <1>2, <1>5, Kinds DEF Later, Dates
<1> HIDE DEF new
<1>9. Shifted(i) \in Rows /\ Shifted(i).due_date = new
  BY <1>7, <1>8 DEF Rows
<1> QED
  BY <1>1, <1>8, <1>9

(* What a write does that moves a due date later.                           *)
LEMMA WriteEffect ==
    ASSUME Tables, NEW i \in Items, NEW row \in Rows, Write(i, row),
           UNCHANGED <<story, epics, links>>
    PROVE  /\ Tables'
           /\ sched'[i] = row
           /\ \A j \in Items \ {i} : sched'[j] = sched[j]
<1>1. /\ sched' \in [Items -> Rows] /\ sched'[i] = row
      /\ \A j \in Items \ {i} : sched'[j] = sched[j]
  BY DEF Write, Tables
<1>2. row.due_date \in Dates
  BY StartType
<1>3. due' \in [Tasks \cup Stories -> Dates] /\ Agree(sched', due')
  <2>1. CASE i \in Epics
    BY <1>1, <2>1, Kinds DEF Write, Tables, Agree
  <2>2. CASE i \notin Epics /\ row.due_date = sched[i].due_date
    BY <1>1, <2>2, Kinds DEF Write, Tables, Agree
  <2>3. CASE i \notin Epics /\ row.due_date # sched[i].due_date
    <3>1. i \in Tasks \cup Stories /\ due' = [due EXCEPT ![i] = row.due_date]
      BY <2>3, Kinds DEF Write
    <3> QED
      BY <1>1, <1>2, <3>1, Kinds DEF Tables, Agree
  <2> QED
    BY <2>1, <2>2, <2>3
<1> QED
  BY <1>1, <1>3 DEF Tables


-----------------------------------------------------------------------------
(* The activations.                                                         *)

LEMMA CallKinds ==
    /\ \A i : Ensuring(i) # Respond
    /\ \A i \in Items \ Epics : Ensuring(i) \in Calls
    /\ \A i \in Items : Propagate(i) \in Propagations
    /\ \A c \in Propagations : c \in Calls /\ c # Respond /\ \A i : c # Ensuring(i)
    /\ \A c \in Calls : /\ c.call = "ensure" => c.item \in Items \ Epics /\ c = Ensuring(c.item)
                        /\ c.call = "propagate" => c \in Propagations
                        /\ c.call = "respond" => c = Respond
<1>1. \A i \in Items : <<i>> \in Seq(Items)
  OBVIOUS
<1>2. 0 \in 0..MaxIterations
  BY DatesAssumption
<1> QED
  BY <1>1, <1>2, Kinds DEF Ensuring, Respond, Propagate, Propagations, Ensurings, Calls

(* What is pushed replaces the innermost activation and precedes the rest.  *)
LEMMA PushedCalls ==
    ASSUME calls \in Seq(Calls), RespondsLast, ~Idle, Head(calls) # Respond,
           NEW new \in Seq(Calls \ {Respond}), NEW after, after = new \o Tail(calls)
    PROVE  /\ after \in Seq(Calls) /\ after # <<>> /\ after[Len(after)] = Respond
           /\ \A k \in DOMAIN after : after[k] = Respond => k = Len(after)
           /\ Range(new) \subseteq Range(after)
           /\ \A c \in Range(calls) : c = Head(calls) \/ c \in Range(after)
<1>1. PICK n \in Nat : n = Len(calls)
  OBVIOUS
<1>2. n >= 2 /\ calls[n] = Respond /\ \A k \in 1..n : calls[k] = Respond => k = n
  BY <1>1 DEF RespondsLast, Idle
<1>3. PICK rest \in Seq(Calls) : /\ rest = Tail(calls) /\ Len(rest) = n - 1
                                 /\ \A k \in 1..(n - 1) : rest[k] = calls[k + 1]
  <2>1. calls # <<>>
    BY DEF Idle
  <2>2. /\ Tail(calls) \in Seq(Calls) /\ Len(Tail(calls)) = Len(calls) - 1
        /\ \A k \in 1..Len(Tail(calls)) : Tail(calls)[k] = calls[k + 1]
    BY <2>1, HeadTailProperties
  <2> QED
    BY <1>1, <2>2
<1>4. new \in Seq(Calls)
  OBVIOUS
<1>5. PICK l \in Nat : l = Len(new)
  BY <1>4
<1>6. /\ after \in Seq(Calls) /\ Len(after) = l + (n - 1)
      /\ \A k \in 1..(l + (n - 1)) : after[k] = IF k <= l THEN new[k] ELSE rest[k - l]
  BY <1>3, <1>4, <1>5, ConcatProperties
<1>7. \A k \in 1..l : after[k] = new[k] /\ new[k] # Respond /\ k \in 1..(l + (n - 1))
  BY <1>2, <1>5, <1>6
<1>8. \A k \in 2..n : /\ l + (k - 1) \in 1..(l + (n - 1)) /\ after[l + (k - 1)] = calls[k]
  <2> SUFFICES ASSUME NEW k \in 2..n
               PROVE  l + (k - 1) \in 1..(l + (n - 1)) /\ after[l + (k - 1)] = calls[k]
    OBVIOUS
  <2>1. /\ l + (k - 1) \in 1..(l + (n - 1)) /\ ~(l + (k - 1) <= l) /\ (l + (k - 1)) - l = k - 1
        /\ k - 1 \in 1..(n - 1) /\ (k - 1) + 1 = k
    BY <1>2
  <2> QED
    BY <1>3, <1>6, <2>1
<1>9. \A k \in (l + 1)..(l + (n - 1)) : after[k] = Respond => k = l + (n - 1)
  <2> SUFFICES ASSUME NEW k \in (l + 1)..(l + (n - 1)), after[k] = Respond
               PROVE  k = l + (n - 1)
    OBVIOUS
  <2>1. PICK j \in 2..n : k = l + (j - 1)
    <3>1. (k - l) + 1 \in 2..n /\ k = l + (((k - l) + 1) - 1)
      BY <1>2
    <3> QED
      BY <3>1
  <2>2. calls[j] = Respond
    BY <1>8, <2>1
  <2>3. j = n
    BY <1>2, <2>2
  <2> QED
    BY <2>1, <2>3
<1>10. after[Len(after)] = Respond /\ Len(after) \in 1..Len(after)
  <2>1. n \in 2..n
    BY <1>2
  <2>2. after[l + (n - 1)] = calls[n] /\ l + (n - 1) \in 1..(l + (n - 1))
    BY <1>8, <2>1
  <2> QED
    BY <1>2, <1>6, <2>2
<1>11. DOMAIN after = 1..(l + (n - 1)) /\ DOMAIN new = 1..l /\ DOMAIN calls = 1..n
  BY <1>1, <1>4, <1>5, <1>6
<1>12. \A k \in DOMAIN after : k \in 1..l \/ k \in (l + 1)..(l + (n - 1))
  BY <1>2, <1>11
<1>13. \A k \in DOMAIN after : after[k] = Respond => k = Len(after)
  BY <1>6, <1>7, <1>9, <1>12
<1>14. \A k \in DOMAIN calls \ {1} : k \in 2..n
  BY <1>11
<1>15. after # <<>>
  <2>1. Len(after) # 0
    BY <1>2, <1>6
  <2> QED
    BY <2>1
<1>16. Range(new) \subseteq Range(after)
  BY <1>7, <1>11 DEF Range
<1>17. \A c \in Range(calls) : c = Head(calls) \/ c \in Range(after)
  <2> SUFFICES ASSUME NEW c \in Range(calls), c # Head(calls) PROVE c \in Range(after)
    OBVIOUS
  <2>1. PICK k \in DOMAIN calls : calls[k] = c
    BY DEF Range
  <2>2. k \in 2..n
    <3>1. k # 1
      BY <2>1
    <3> QED
      BY <1>14, <3>1
  <2> QED
    BY <1>8, <1>11, <2>1, <2>2 DEF Range
<1> QED
  BY <1>6, <1>10, <1>13, <1>15, <1>16, <1>17


(* What an item is in.                                                      *)
LEMMA ParentsType ==
    ASSUME Tables, NEW i \in Items
    PROVE  /\ Parents(i) \subseteq Items \ {i}
           /\ i \in Epics => Parents(i) = {}
           /\ \A p, q \in Parents(i) : p = q
<1>1. CASE i \in Tasks
  <2>1. Parents(i) = {story[i]} \ {NoItem}
    BY <1>1, Kinds DEF Parents
  <2>2. story[i] \in Stories \cup {NoItem}
    BY <1>1 DEF Tables
  <2> QED
    BY <1>1, <2>1, <2>2, Kinds
<1>2. CASE i \in Stories
  <2>1. Parents(i) = IF epics[i] = <<>> THEN {} ELSE {Head(epics[i])}
    BY <1>2, Kinds DEF Parents
  <2>2. epics[i] \in Seq(Epics)
    BY <1>2 DEF Tables
  <2>3. epics[i] # <<>> => Head(epics[i]) \in Epics
    BY <2>2
  <2> QED
    BY <1>2, <2>1, <2>3, Kinds
<1>3. CASE i \in Epics
  BY <1>3, Kinds DEF Parents
<1> QED
  BY <1>1, <1>2, <1>3, Kinds

LEMMA SameParents == UNCHANGED <<story, epics>> => \A i : Parents(i)' = Parents(i)
BY DEF Parents

LEMMA DueIsScheduledThen ==
    ASSUME Tables', NEW i \in Items
    PROVE  Due(i)' = sched'[i].due_date /\ sched'[i] \in Rows /\ sched'[i].due_date \in Dates
<1>1. sched'[i] \in Rows /\ sched'[i].due_date \in Dates
  BY DEF Tables, Rows
<1>2. i \notin Epics => due'[i] = sched'[i].due_date
  BY Kinds DEF Tables, Agree
<1> QED
  BY <1>1, <1>2 DEF Due

(* A step that leaves the request running: it moves due dates later only,   *)
(* and an item that is no longer to be ensured is contained.                *)
LEMMA StepKeeps ==
    ASSUME DatesInv, ~Idle, Head(calls) # Respond,
           Tables', \A j \in Items : Later(sched[j].due_date, sched'[j].due_date),
           NEW new \in Seq(Calls \ {Respond}), calls' = new \o Tail(calls),
           UNCHANGED <<story, epics, links, request, outcome, served>>,
           \A j \in Items :
              \/ Ensuring(j) \in Range(new)
              \/ Head(calls) # Ensuring(j) /\ sched'[j].due_date = sched[j].due_date
              \/ \A p \in Parents(j) : DueWithin(j, p)'
    PROVE  DatesInv'
<1>1. /\ Tables /\ calls \in Seq(Calls) /\ RequestTyped
      /\ RespondsLast /\ EditedContained /\ ValidatedInTime
  BY InvParts
<1>2. PICK after : after = calls' /\ after = new \o Tail(calls)
  OBVIOUS
<1>3. /\ after \in Seq(Calls) /\ after # <<>> /\ after[Len(after)] = Respond
      /\ \A k \in DOMAIN after : after[k] = Respond => k = Len(after)
      /\ Range(new) \subseteq Range(after)
      /\ \A c \in Range(calls) : c = Head(calls) \/ c \in Range(after)
  <2>1. calls \in Seq(Calls) /\ RespondsLast /\ ~Idle /\ Head(calls) # Respond
        /\ after = new \o Tail(calls)
    BY <1>1, <1>2
  <2>2. /\ after \in Seq(Calls) /\ after # <<>> /\ after[Len(after)] = Respond
    BY <2>1, PushedCalls
  <2>3. \A k \in DOMAIN after : after[k] = Respond => k = Len(after)
    BY <2>1, PushedCalls
  <2>4. Range(new) \subseteq Range(after)
    BY <2>1, PushedCalls
  <2>5. \A c \in Range(calls) : c = Head(calls) \/ c \in Range(after)
    BY <2>1, PushedCalls
  <2> QED
    BY <2>2, <2>3, <2>4, <2>5
<1>4. outcome = "none"
  BY <1>1 DEF RespondsLast
<1>5. TypeOK'
  BY <1>2, <1>3, <1>4 DEF TypeOK, Tables, Calls
<1>6. RequestTyped'
  BY <1>1 DEF RequestTyped
<1>7. Agree(sched, due)' /\ Agree(request.sched, request.due)'
  BY DEF Tables, DatesInv, Agree
<1>8. RespondsLast'
  BY <1>2, <1>3, <1>4 DEF RespondsLast, Idle
<1>9. EditedContained'
  <2> SUFFICES ASSUME NEW j \in request.edited
               PROVE  \/ Ensuring(j) \in Range(after)
                      \/ \A p \in Parents(j) : DueWithin(j, p)'
    <3>1. \A j : Parents(j)' = Parents(j)
      BY SameParents
    <3> QED
      BY <1>2, <3>1 DEF EditedContained, Ensuring
  <2>1. j \in Items
    BY <1>1 DEF RequestTyped
  <2>2. CASE Ensuring(j) \in Range(new)
    BY <1>3, <2>2
  <2>3. CASE Head(calls) # Ensuring(j) /\ sched'[j].due_date = sched[j].due_date
    <3>1. CASE Ensuring(j) \in Range(calls)
      BY <1>3, <2>3, <3>1
    <3>2. CASE \A p \in Parents(j) : DueWithin(j, p)
      <4> SUFFICES ASSUME NEW p \in Parents(j) PROVE DueWithin(j, p)'
        OBVIOUS
      <4>1. p \in Items
        BY <1>1, <2>1, ParentsType
      <4>2. /\ Due(j) = sched[j].due_date /\ Due(p) = sched[p].due_date
            /\ Due(j) \in Dates /\ Due(p) \in Dates
        BY <1>1, <2>1, <4>1, DueIsScheduled
      <4>3. Due(j)' = sched'[j].due_date /\ Due(p)' = sched'[p].due_date
        BY <2>1, <4>1, DueIsScheduledThen
      <4>4. Later(sched[p].due_date, sched'[p].due_date) /\ DueWithin(j, p)
        BY <3>2, <4>1
      <4> QED
        BY <2>3, <4>2, <4>3, <4>4, Kinds DEF DueWithin, Later, Dates
    <3> QED
      BY <1>1, <1>4, <3>1, <3>2 DEF EditedContained
  <2> QED
    BY <2>1, <2>2, <2>3
<1>10. ValidatedInTime'
  <2> SUFFICES ASSUME request.kind = "bulk", NEW i \in request.edited \ Epics, ValidatedDue(i) # NoDate
               PROVE  due'[i] # NoDate /\ due'[i] >= ValidatedDue(i)
    BY DEF ValidatedInTime, ValidatedDue
  <2>1. i \in Items /\ i \in Tasks \cup Stories
    BY <1>1, Kinds DEF RequestTyped
  <2>2. due[i] # NoDate /\ due[i] >= ValidatedDue(i)
    BY <1>1, <1>4 DEF ValidatedInTime
  <2>3. due[i] = sched[i].due_date /\ due'[i] = sched'[i].due_date /\ due[i] \in Dates
    BY <1>1, <1>7, <2>1 DEF Tables, Agree
  <2>4. ValidatedDue(i) \in Nat
    <3>1. request.updates[i] \in Updates /\ request.due[i] \in Dates
      BY <1>1, <2>1 DEF RequestTyped
    <3> QED
      BY <3>1 DEF ValidatedDue, Updates, Dates
  <2> QED
    BY <2>1, <2>2, <2>3, <2>4, Kinds DEF Later, Dates
<1>11. AcceptedIsConsistent'
  BY <1>4 DEF AcceptedIsConsistent
<1> QED
  BY <1>5, <1>6, <1>7, <1>8, <1>9, <1>10, <1>11 DEF DatesInv


(* What an activation adds to those that it returns to.                     *)
LEMMA PushedTypes ==
    /\ <<>> \in Seq(Calls \ {Respond})
    /\ \A i \in Items : /\ Ensure(i) \in Seq(Calls \ {Respond})
                        /\ i \notin Epics => Ensuring(i) \in Range(Ensure(i))
    /\ \A c \in Propagations : <<c>> \in Seq(Calls \ {Respond})
    /\ \A i \in Items : \A row : Widening(i, row) \in Seq(Calls \ {Respond})
<1>0. <<>> \in Seq(Calls \ {Respond})
  OBVIOUS
<1>1. \A c \in Calls \ {Respond} : <<c>> \in Seq(Calls \ {Respond}) /\ c \in Range(<<c>>)
  BY DEF Range
<1>2. \A i \in Items \ Epics : Ensuring(i) \in Calls \ {Respond}
  BY CallKinds
<1>3. \A c \in Propagations : c \in Calls \ {Respond}
  BY CallKinds
<1>4. ASSUME NEW i \in Items
      PROVE  /\ Ensure(i) \in Seq(Calls \ {Respond})
             /\ i \notin Epics => Ensuring(i) \in Range(Ensure(i))
  <2>1. CASE i \in Epics
    BY <1>0, <2>1 DEF Ensure
  <2>2. CASE i \notin Epics
    <3>1. PICK c \in Calls \ {Respond} : c = Ensuring(i)
      BY <1>2, <2>2
    <3>2. Ensure(i) = <<c>>
      BY <2>2, <3>1 DEF Ensure
    <3> QED
      BY <1>1, <3>1, <3>2
  <2> QED
    BY <2>1, <2>2
<1>5. ASSUME NEW i \in Items, NEW row
      PROVE  Widening(i, row) \in Seq(Calls \ {Respond})
  <2>1. CASE row = sched[i]
    BY <1>0, <2>1 DEF Widening
  <2>2. CASE row # sched[i]
    <3>1. PICK c \in Calls \ {Respond} : c = Propagate(i)
      BY <1>3, CallKinds
    <3>2. Widening(i, row) = <<c>>
      BY <2>2, <3>1 DEF Widening
    <3> QED
      BY <1>1, <3>2
  <2> QED
    BY <2>1, <2>2
<1> QED
  BY <1>0, <1>1, <1>3, <1>4, <1>5

LEMMA RangeOfConcat ==
    ASSUME NEW S, NEW s \in Seq(S), NEW t \in Seq(S)
    PROVE  s \o t \in Seq(S) /\ Range(s) \subseteq Range(s \o t) /\ Range(t) \subseteq Range(s \o t)
<1>1. PICK st : st = s \o t
  OBVIOUS
<1>2. PICK m \in Nat, n \in Nat : m = Len(s) /\ n = Len(t)
  OBVIOUS
<1>3. /\ st \in Seq(S) /\ Len(st) = m + n
      /\ \A i \in 1..(m + n) : st[i] = IF i <= m THEN s[i] ELSE t[i - m]
  BY <1>1, <1>2, ConcatProperties
<1>4. \A i \in 1..m : i \in 1..(m + n) /\ st[i] = s[i]
  BY <1>2, <1>3
<1>5. \A i \in 1..n : m + i \in 1..(m + n) /\ st[m + i] = t[i]
  <2> SUFFICES ASSUME NEW i \in 1..n PROVE m + i \in 1..(m + n) /\ st[m + i] = t[i]
    OBVIOUS
  <2>1. m + i \in 1..(m + n) /\ ~(m + i <= m) /\ (m + i) - m = i
    BY <1>2
  <2> QED
    BY <1>3, <2>1
<1>6. DOMAIN s = 1..m /\ DOMAIN t = 1..n /\ DOMAIN st = 1..(m + n)
  BY <1>2, <1>3
<1>7. Range(s) \subseteq Range(st) /\ Range(t) \subseteq Range(st)
  BY <1>4, <1>5, <1>6 DEF Range
<1> QED
  BY <1>1, <1>3, <1>7

(* A parent is widened, and what contains it is next.                       *)
LEMMA EnsureKeeps ==
    ASSUME DatesInv, StepEnsure
    PROVE  DatesInv' /\ \A j \in Items : Later(sched[j].due_date, sched'[j].due_date)
<1>1. Tables /\ calls \in Seq(Calls)
  BY InvParts
<1>2. ~Idle /\ Head(calls).call = "ensure" /\ UNCHANGED <<story, epics, links, request, outcome, served>>
  BY DEF StepEnsure, Top
<1>3. PICK i \in Items \ Epics : Head(calls) = Ensuring(i) /\ i = Head(calls).item
  <2>1. Head(calls) \in Calls
    BY <1>1, <1>2 DEF Idle
  <2> QED
    BY <1>2, <2>1, CallKinds
<1>4. Head(calls) # Respond
  BY <1>3, CallKinds
<1>5. \A j : j # i => Head(calls) # Ensuring(j)
  BY <1>3 DEF Ensuring
<1>6. \A j : Parents(j)' = Parents(j)
  BY <1>2, SameParents
<1>7. CASE Parents(i) = {} /\ calls' = Tail(calls) /\ UNCHANGED <<sched, due>>
  <2>1. <<>> \in Seq(Calls \ {Respond}) /\ calls' = <<>> \o Tail(calls)
    <3>1. Tail(calls) \in Seq(Calls)
      BY <1>1, <1>2 DEF Idle
    <3> QED
      BY <1>7, <3>1, PushedTypes, ConcatEmptySeq
  <2>2. Tables'
    BY <1>1, <1>2, <1>7 DEF Tables, Agree
  <2>3. \A j \in Items : Later(sched[j].due_date, sched'[j].due_date)
    BY <1>7 DEF Later
  <2>4. \A j \in Items : \/ Head(calls) # Ensuring(j) /\ sched'[j].due_date = sched[j].due_date
                         \/ \A p \in Parents(j) : DueWithin(j, p)'
    BY <1>5, <1>7
  <2>5. DatesInv'
    BY <1>2, <1>4, <2>1, <2>2, <2>3, <2>4, StepKeeps
  <2> QED
    BY <2>3, <2>5
<1>8. CASE \E p \in Parents(i) :
              /\ Write(p, Expanded(p, i))
              /\ calls' = Widening(p, Expanded(p, i)) \o Ensure(p) \o Tail(calls)
  <2>1. PICK p \in Parents(i) :
              /\ Write(p, Expanded(p, i))
              /\ calls' = Widening(p, Expanded(p, i)) \o Ensure(p) \o Tail(calls)
    BY <1>8
  <2>2. p \in Items /\ p # i /\ \A q \in Parents(i) : q = p
    BY <1>1, ParentsType
  <2>3. PICK row \in Rows :
           /\ row = Expanded(p, i)
           /\ Later(sched[p].due_date, row.due_date)
           /\ sched[i].due_date # NoDate => row.due_date # NoDate /\ row.due_date >= sched[i].due_date
    BY <1>1, <2>2, ExpandedEffect
  <2>4. Tables' /\ sched'[p] = row /\ \A j \in Items \ {p} : sched'[j] = sched[j]
    BY <1>1, <1>2, <2>1, <2>2, <2>3, WriteEffect
  <2>5. \A j \in Items : Later(sched[j].due_date, sched'[j].due_date)
    BY <2>3, <2>4 DEF Later
  <2>6. PICK new \in Seq(Calls \ {Respond}) :
           /\ new = Widening(p, row) \o Ensure(p)
           /\ p \notin Epics => Ensuring(p) \in Range(new)
    <3>1. /\ Widening(p, row) \in Seq(Calls \ {Respond}) /\ Ensure(p) \in Seq(Calls \ {Respond})
          /\ p \notin Epics => Ensuring(p) \in Range(Ensure(p))
      BY <2>2, PushedTypes
    <3> QED
      BY <3>1, RangeOfConcat
  <2>7. calls' = new \o Tail(calls)
    BY <2>1, <2>3, <2>6
  <2>8. DueWithin(i, p)'
    <3>1. Due(i)' = sched'[i].due_date /\ Due(p)' = sched'[p].due_date
      BY <2>2, <2>4, DueIsScheduledThen
    <3> QED
      BY <2>2, <2>3, <2>4, <3>1 DEF DueWithin
  <2>9. ASSUME NEW j \in Items
        PROVE  \/ Ensuring(j) \in Range(new)
               \/ Head(calls) # Ensuring(j) /\ sched'[j].due_date = sched[j].due_date
               \/ \A q \in Parents(j) : DueWithin(j, q)'
    <3>1. CASE j = p /\ p \notin Epics
      BY <2>6, <3>1
    <3>2. CASE j = p /\ p \in Epics
      BY <1>1, <3>2, ParentsType
    <3>3. CASE j = i
      BY <2>2, <2>8, <3>3
    <3>4. CASE j # p /\ j # i
      BY <1>5, <2>4, <3>4
    <3> QED
      BY <3>1, <3>2, <3>3, <3>4
  <2>10. DatesInv'
    BY <1>2, <1>4, <2>4, <2>5, <2>7, <2>9, StepKeeps
  <2> QED
    BY <2>5, <2>10
<1> QED
  BY <1>3, <1>7, <1>8 DEF StepEnsure


(* The next schedule of a queue.                                            *)
LEMMA PropagateKeeps ==
    ASSUME DatesInv, StepPropagate
    PROVE  DatesInv' /\ \A j \in Items : Later(sched[j].due_date, sched'[j].due_date)
<1>1. Tables /\ calls \in Seq(Calls)
  BY InvParts
<1>2. /\ ~Idle /\ Head(calls).call = "propagate"
      /\ UNCHANGED <<sched, due, story, epics, links, request, outcome, served>>
  BY DEF StepPropagate, Top
<1>3. PICK c \in Propagations : c = Head(calls)
  <2>1. Head(calls) \in Calls
    BY <1>1, <1>2 DEF Idle
  <2> QED
    BY <1>2, <2>1, CallKinds
<1>4. Head(calls) # Respond /\ \A j : Head(calls) # Ensuring(j)
  BY <1>3, CallKinds
<1>5. Tables'
  BY <1>1, <1>2 DEF Tables, Agree
<1>6. \A j \in Items : Later(sched[j].due_date, sched'[j].due_date) /\ sched'[j].due_date = sched[j].due_date
  BY <1>2 DEF Later
<1>7. PICK new \in Seq(Calls \ {Respond}) : calls' = new \o Tail(calls)
  <2>1. CASE calls' = Tail(calls)
    <3>1. Tail(calls) \in Seq(Calls)
      BY <1>1, <1>2 DEF Idle
    <3>2. <<>> \in Seq(Calls \ {Respond}) /\ calls' = <<>> \o Tail(calls)
      BY <2>1, <3>1, PushedTypes, ConcatEmptySeq
    <3> QED
      BY <3>2
  <2>2. CASE calls' # Tail(calls)
    <3> DEFINE dependents == {l[2] : l \in {m \in links : m[1] = Head(c.queue)}}
    <3>1. /\ c.queue # <<>> /\ c.iterations # MaxIterations
          /\ calls' = WithTop([c EXCEPT !.queue = Tail(@), !.iterations = @ + 1, !.targets = dependents])
      BY <1>3, <2>2 DEF StepPropagate
    <3>2. dependents \subseteq Items
      BY <1>1, Kinds DEF Tables
    <3>3. /\ c.queue \in Seq(Items) /\ c.iterations \in 0..MaxIterations /\ c.call = "propagate"
          /\ Tail(c.queue) \in Seq(Items)
      BY <3>1 DEF Propagations
    <3>4. c.iterations + 1 \in 0..MaxIterations
      BY <3>1, <3>3, DatesAssumption
    <3> HIDE DEF dependents
    <3>5. PICK d \in Propagations :
             d = [c EXCEPT !.queue = Tail(@), !.iterations = @ + 1, !.targets = dependents]
      BY <3>2, <3>3, <3>4 DEF Propagations
    <3>6. calls' = <<d>> \o Tail(calls)
      BY <3>1, <3>5 DEF WithTop
    <3> QED
      BY <3>6, PushedTypes
  <2> QED
    BY <2>1, <2>2
<1>8. DatesInv'
  BY <1>2, <1>4, <1>5, <1>6, <1>7, StepKeeps
<1> QED
  BY <1>6, <1>8

(* A dependent is shifted, and what contains it is next.                    *)
LEMMA TargetKeeps ==
    ASSUME DatesInv, StepTarget
    PROVE  DatesInv' /\ \A j \in Items : Later(sched[j].due_date, sched'[j].due_date)
<1>1. Tables /\ calls \in Seq(Calls)
  BY InvParts
<1>2. ~Idle /\ Head(calls).call = "propagate" /\ UNCHANGED <<story, epics, links, request, outcome, served>>
  BY DEF StepTarget, Top
<1>3. PICK c0 \in Propagations : c0 = Head(calls)
  <2>1. Head(calls) \in Calls
    BY <1>1, <1>2 DEF Idle
  <2> QED
    BY <1>2, <2>1, CallKinds
<1>4. Head(calls) # Respond /\ \A j : Head(calls) # Ensuring(j)
  BY <1>3, CallKinds
<1>5. c0.targets \subseteq Items /\ c0.queue \in Seq(Items)
  BY <1>3 DEF Propagations
<1>6. PICK i \in Items, c \in Propagations :
         /\ c.queue \in Seq(Items)
         /\ \/ ~MustShift(i) /\ calls' = WithTop(c) /\ UNCHANGED <<sched, due>>
            \/ /\ MustShift(i) /\ Shifted(i).due_date = sched[i].due_date
               /\ calls' = WithTop(c) /\ Write(i, Shifted(i))
            \/ /\ MustShift(i) /\ i \notin Epics
               /\ Write(i, Shifted(i))
               /\ calls' = Ensure(i) \o WithTop([c EXCEPT !.queue = Enqueue(@, i)])
  <2>1. PICK i \in c0.targets :
          LET c == [c0 EXCEPT !.targets = @ \ {i}]
              row == Shifted(i)
          IN  IF ~MustShift(i)
              THEN calls' = WithTop(c) /\ UNCHANGED <<sched, due>>
              ELSE IF row.due_date = sched[i].due_date
              THEN calls' = WithTop(c) /\ Write(i, row)
              ELSE /\ i \notin Epics
                   /\ Write(i, row)
                   /\ calls' = Ensure(i) \o WithTop([c EXCEPT !.queue = Enqueue(@, i)])
    BY <1>3 DEF StepTarget
  <2>2. PICK c \in Propagations : c = [c0 EXCEPT !.targets = @ \ {i}] /\ c.queue \in Seq(Items)
    <3>1. PICK w \in SUBSET Items : w = c0.targets \ {i}
      BY <1>5
    <3>2. [c0 EXCEPT !.targets = w] \in Propagations /\ [c0 EXCEPT !.targets = w].queue = c0.queue
      BY DEF Propagations
    <3> QED
      BY <1>5, <3>1, <3>2
  <2> QED
    BY <1>5, <2>1, <2>2
<1>7. CASE ~MustShift(i) /\ calls' = WithTop(c) /\ UNCHANGED <<sched, due>>
  <2>1. PICK new \in Seq(Calls \ {Respond}) : new = <<c>>
    BY PushedTypes
  <2>2. calls' = new \o Tail(calls)
    BY <1>7, <2>1 DEF WithTop
  <2>3. Tables'
    BY <1>1, <1>2, <1>7 DEF Tables, Agree
  <2>4. \A j \in Items : Later(sched[j].due_date, sched'[j].due_date) /\ sched'[j].due_date = sched[j].due_date
    BY <1>7 DEF Later
  <2>5. DatesInv'
    BY <1>2, <1>4, <2>2, <2>3, <2>4, StepKeeps
  <2> QED
    BY <2>4, <2>5
<1>8. CASE MustShift(i) /\ Write(i, Shifted(i))
  <2>0. PICK row \in Rows : row = Shifted(i) /\ Later(sched[i].due_date, row.due_date)
    BY <1>1, <1>8, ShiftedEffect
  <2>1. Write(i, row)
    BY <1>8, <2>0 DEF Write
  <2>2. Tables' /\ sched'[i] = row /\ \A j \in Items \ {i} : sched'[j] = sched[j]
    BY <1>1, <1>2, <2>1, WriteEffect
  <2>3. \A j \in Items : Later(sched[j].due_date, sched'[j].due_date)
    BY <2>0, <2>2 DEF Later
  <2>4. CASE row.due_date = sched[i].due_date /\ calls' = WithTop(c)
    <3>1. PICK new \in Seq(Calls \ {Respond}) : new = <<c>>
      BY PushedTypes
    <3>2. calls' = new \o Tail(calls)
      BY <2>4, <3>1 DEF WithTop
    <3>3. \A j \in Items : sched'[j].due_date = sched[j].due_date
      BY <2>2, <2>4
    <3>4. DatesInv'
      BY <1>2, <1>4, <2>2, <2>3, <3>2, <3>3, StepKeeps
    <3> QED
      BY <2>3, <3>4
  <2>5. CASE i \notin Epics /\ calls' = Ensure(i) \o WithTop([c EXCEPT !.queue = Enqueue(@, i)])
    <3>1. Enqueue(c.queue, i) \in Seq(Items)
      BY <1>6 DEF Enqueue
    <3>2. PICK d \in Propagations : d = [c EXCEPT !.queue = Enqueue(@, i)]
      BY <3>1 DEF Propagations
    <3>3. PICK s \in Seq(Calls \ {Respond}), t \in Seq(Calls \ {Respond}) :
             s = Ensure(i) /\ t = <<d>> /\ Ensuring(i) \in Range(s)
      BY <2>5, PushedTypes
    <3>4. s \o t \in Seq(Calls \ {Respond}) /\ Ensuring(i) \in Range(s \o t)
      BY <3>3, RangeOfConcat
    <3>5. calls' = (s \o t) \o Tail(calls)
      <4>1. s \in Seq(Calls) /\ t \in Seq(Calls) /\ Tail(calls) \in Seq(Calls)
        BY <1>1, <1>2 DEF Idle
      <4>2. calls' = s \o (t \o Tail(calls))
        BY <2>5, <3>2, <3>3 DEF WithTop
      <4>3. PICK rest \in Seq(Calls) : rest = Tail(calls)
        BY <4>1
      <4>4. (s \o t) \o rest = s \o (t \o rest)
        BY <4>1, ConcatAssociative
      <4> QED
        BY <4>2, <4>3, <4>4
    <3>6. PICK new \in Seq(Calls \ {Respond}) :
             Ensuring(i) \in Range(new) /\ calls' = new \o Tail(calls)
      BY <3>4, <3>5
    <3>7. \A j \in Items : \/ Ensuring(j) \in Range(new)
                           \/ Head(calls) # Ensuring(j) /\ sched'[j].due_date = sched[j].due_date
      BY <1>4, <2>2, <3>6
    <3>8. DatesInv'
      BY <1>2, <1>4, <2>2, <2>3, <3>6, <3>7, StepKeeps
    <3> QED
      BY <2>3, <3>8
  <2> QED
    BY <1>6, <1>8, <2>0, <2>4, <2>5
<1> QED
  BY <1>6, <1>7, <1>8


(* A request that fails on an epic leaves its tables in step.               *)
LEMMA EpicFailsKeeps ==
    ASSUME DatesInv, StepEpicFails
    PROVE  DatesInv'
<1>1. Tables /\ calls \in Seq(Calls) /\ RequestTyped
  BY InvParts
<1>2. ~Idle /\ Head(calls).call = "propagate" /\ calls' = <<>> /\ outcome' = "crashed"
      /\ UNCHANGED <<links, request, served>>
  BY DEF StepEpicFails, Top
<1>3. PICK i \in Epics : /\ MustShift(i)
                         /\ \/ Restore
                            \/ WriteScheduleOnly(i, Shifted(i)) /\ UNCHANGED <<story, epics>>
  BY DEF StepEpicFails
<1>4. Tables'
  <2>1. CASE Restore
    BY <1>1, <1>2, <2>1 DEF Restore, RequestTyped, Tables, DatesInv, Agree
  <2>2. CASE WriteScheduleOnly(i, Shifted(i)) /\ UNCHANGED <<story, epics>>
    <3>1. i \in Items /\ \A j \in Tasks \cup Stories : j \in Items /\ j # i
      BY Kinds
    <3>2. PICK row \in Rows : row = Shifted(i)
      BY <1>1, <1>3, <3>1, ShiftedEffect
    <3>3. sched' = [sched EXCEPT ![i] = row] /\ due' = due
      BY <2>2, <3>2 DEF WriteScheduleOnly
    <3> QED
      BY <1>1, <1>2, <2>2, <3>1, <3>3 DEF Tables, Agree
  <2> QED
    BY <1>3, <2>1, <2>2
<1>5. TypeOK'
  BY <1>2, <1>4 DEF TypeOK, Tables
<1>6. RequestTyped' /\ Agree(request.sched, request.due)'
  BY <1>1, <1>2 DEF RequestTyped, DatesInv, Agree
<1>7. RespondsLast' /\ EditedContained' /\ ValidatedInTime' /\ AcceptedIsConsistent'
  BY <1>2 DEF RespondsLast, Idle, EditedContained, ValidatedInTime, AcceptedIsConsistent
<1> QED
  BY <1>4, <1>5, <1>6, <1>7 DEF DatesInv, Tables

(* What is validated against the due date of the locked instance holds of   *)
(* the row's, which is no earlier.                                          *)
LEMMA AcceptableIsConsistent ==
    ASSUME DatesInv, ~Idle, request.kind = "bulk", NEW i \in request.edited, Acceptable(i)
    PROVE  /\ ~ViolatesDependencies(i, Start(sched[i]))
           /\ i \in Epics \cup Stories =>
                 ~ViolatesBounds(i, Start(sched[i]),
                                 IF ValidatedDue(i) = NoDate THEN NoDate ELSE Due(i))
<1>1. Tables /\ RequestTyped /\ RespondsLast /\ ValidatedInTime
  BY InvParts
<1>2. i \in Items /\ outcome = "none" /\ request.updates[i] \in Updates
  BY <1>1 DEF RequestTyped, RespondsLast
<1>3. Due(i) = sched[i].due_date /\ Due(i) \in Dates
  BY <1>1, <1>2, DueIsScheduled
<1>4. ~ViolatesDependencies(i, Start(sched[i]))
  BY DEF Acceptable
<1>5. ASSUME i \in Epics \cup Stories, ValidatedDue(i) # NoDate
      PROVE  ValidatedDue(i) \in Nat /\ Due(i) \in Nat /\ Due(i) >= ValidatedDue(i)
  <2>1. CASE i \in Epics
    BY <1>3, <1>5, <2>1 DEF ValidatedDue, Dates
  <2>2. CASE i \in Stories
    <3>1. i \notin Epics /\ due[i] = sched[i].due_date
      BY <1>1, <2>2, Kinds DEF Tables, Agree
    <3>2. due[i] # NoDate /\ due[i] >= ValidatedDue(i)
      BY <1>1, <1>2, <1>5, <3>1 DEF ValidatedInTime
    <3>3. request.due[i] \in Dates
      BY <1>1, <2>2 DEF RequestTyped
    <3>4. ValidatedDue(i) \in Nat
      BY <1>2, <1>5, <3>1, <3>3 DEF ValidatedDue, Updates, Dates
    <3> QED
      BY <1>3, <3>1, <3>2, <3>4 DEF Dates
  <2> QED
    BY <1>5, <2>1, <2>2
<1>6. ASSUME i \in Epics \cup Stories
      PROVE  ~ViolatesBounds(i, Start(sched[i]), IF ValidatedDue(i) = NoDate THEN NoDate ELSE Due(i))
  <2>1. ~ViolatesBounds(i, Start(sched[i]), ValidatedDue(i))
    BY <1>6 DEF Acceptable
  <2>2. \A c \in Children(i) : c \in Items
    BY Kinds DEF Children
  <2>3. \A c \in Children(i) : Due(c) \in Dates
    BY <1>1, <2>2, DueIsScheduled
  <2>4. CASE ValidatedDue(i) = NoDate
    BY <2>1, <2>4 DEF ViolatesBounds
  <2>5. CASE ValidatedDue(i) # NoDate
    <3>1. ValidatedDue(i) \in Nat /\ Due(i) \in Nat /\ Due(i) >= ValidatedDue(i)
      BY <1>5, <1>6, <2>5
    <3>2. \A c \in Children(i) : Due(c) # NoDate => ~(Due(c) > ValidatedDue(i))
      BY <2>1, <2>5 DEF ViolatesBounds
    <3>3. \A c \in Children(i) : Due(c) # NoDate => ~(Due(c) > Due(i))
      BY <2>3, <3>1, <3>2 DEF Dates
    <3> QED
      BY <2>1, <2>5, <3>3 DEF ViolatesBounds
  <2> QED
    BY <2>4, <2>5
<1> QED
  BY <1>4, <1>6

(* The end of a request: nothing is left to ensure.                         *)
LEMMA RespondKeeps ==
    ASSUME DatesInv, StepRespond
    PROVE  DatesInv'
<1>1. /\ Tables /\ calls \in Seq(Calls) /\ RequestTyped
      /\ RespondsLast /\ EditedContained /\ ValidatedInTime
  BY InvParts
<1>2. ~Idle /\ Head(calls).call = "respond" /\ calls' = <<>> /\ UNCHANGED <<links, request, served>>
  BY DEF StepRespond, Top
<1>3. Head(calls) = Respond
  <2>1. Head(calls) \in Calls
    BY <1>1, <1>2 DEF Idle
  <2> QED
    BY <1>2, <2>1, CallKinds
<1>4. Len(calls) = 1 /\ \A i : Ensuring(i) \notin Range(calls)
  <2>1. 1 \in DOMAIN calls /\ calls[1] = Respond
    BY <1>1, <1>2, <1>3 DEF Idle
  <2>2. Len(calls) = 1
    BY <1>1, <2>1 DEF RespondsLast
  <2>3. Range(calls) = {Respond}
    BY <1>1, <2>1, <2>2 DEF Range
  <2> QED
    BY <2>2, <2>3, CallKinds
<1>5. RequestTyped' /\ Agree(request.sched, request.due)'
  BY <1>1, <1>2 DEF RequestTyped, DatesInv, Agree
<1>6. RespondsLast'
  BY <1>2 DEF RespondsLast, Idle
<1>7. CASE Restore /\ outcome' = "rejected"
  <2>1. Tables'
    BY <1>1, <1>2, <1>7 DEF Restore, RequestTyped, Tables, DatesInv, Agree
  <2>2. TypeOK'
    BY <1>2, <1>7, <2>1 DEF TypeOK, Tables
  <2>3. EditedContained' /\ ValidatedInTime' /\ AcceptedIsConsistent'
    BY <1>7 DEF EditedContained, ValidatedInTime, AcceptedIsConsistent
  <2> QED
    BY <1>5, <1>6, <2>1, <2>2, <2>3 DEF DatesInv, Tables
<1>8. CASE /\ UNCHANGED <<sched, due, story, epics>>
           /\ outcome' = IF request.kind = "bulk" THEN "accepted" ELSE "saved"
           /\ request.kind = "bulk" => \A i \in DOMAIN request.updates : Acceptable(i)
  <2>1. Tables'
    BY <1>1, <1>2, <1>8 DEF Tables, Agree
  <2>2. TypeOK'
    BY <1>2, <1>8, <2>1 DEF TypeOK, Tables
  <2>3. outcome = "none"
    BY <1>1, <1>2 DEF RespondsLast
  <2>4. EditedContained'
    <3>1. \A j \in request.edited : \A p \in Parents(j) : DueWithin(j, p)
      BY <1>1, <1>4, <2>3 DEF EditedContained
    <3>2. \A j, p : DueWithin(j, p)' <=> DueWithin(j, p)
      BY <1>8 DEF DueWithin, Due
    <3>3. \A j : Parents(j)' = Parents(j)
      BY <1>8, SameParents
    <3> QED
      BY <1>2, <3>1, <3>2, <3>3 DEF EditedContained
  <2>5. ValidatedInTime'
    BY <1>1, <1>2, <1>8, <2>3 DEF ValidatedInTime, ValidatedDue
  <2>6. AcceptedIsConsistent'
    <3>1. CASE request.kind # "bulk"
      BY <1>8, <3>1 DEF AcceptedIsConsistent
    <3>2. CASE request.kind = "bulk"
      <4>1. DOMAIN request.updates = request.edited
        BY <1>1, <3>2 DEF RequestTyped
      <4>2. \A i \in request.edited :
               /\ ~ViolatesDependencies(i, Start(sched[i]))
               /\ i \in Epics \cup Stories =>
                     ~ViolatesBounds(i, Start(sched[i]),
                                     IF ValidatedDue(i) = NoDate THEN NoDate ELSE Due(i))
        BY <1>2, <1>8, <3>2, <4>1, AcceptableIsConsistent
      <4>3. \A i : ValidatedDue(i)' = ValidatedDue(i) /\ Due(i)' = Due(i) /\ sched'[i] = sched[i]
        BY <1>2, <1>8 DEF ValidatedDue, Due
      <4>4. \A i, a, b : ViolatesBounds(i, a, b)' <=> ViolatesBounds(i, a, b)
        BY <1>8 DEF ViolatesBounds, Children, Due
      <4>5. \A i, a : ViolatesDependencies(i, a)' <=> ViolatesDependencies(i, a)
        BY <1>2, <1>8 DEF ViolatesDependencies
      <4> QED
        BY <1>2, <4>2, <4>3, <4>4, <4>5 DEF AcceptedIsConsistent, Start
    <3> QED
      BY <3>1, <3>2
  <2> QED
    BY <1>5, <1>6, <2>1, <2>2, <2>4, <2>5, <2>6 DEF DatesInv, Tables
<1> QED
  BY <1>7, <1>8 DEF StepRespond


-----------------------------------------------------------------------------
(* Requests.                                                                *)

(* What a request sets going ends in the response.                          *)
LEMMA EndsInRespond ==
    ASSUME NEW new \in Seq(Calls \ {Respond}), NEW after, after = new \o <<Respond>>
    PROVE  /\ after \in Seq(Calls) /\ after # <<>> /\ after[Len(after)] = Respond
           /\ \A k \in DOMAIN after : after[k] = Respond => k = Len(after)
           /\ Range(new) \subseteq Range(after)
<1>1. new \in Seq(Calls) /\ \A k \in 1..Len(new) : new[k] # Respond
  OBVIOUS
<1>2. PICK last \in Seq(Calls) : last = <<Respond>> /\ Len(last) = 1 /\ last[1] = Respond
  <2>1. PICK r \in Calls : r = Respond
    BY DEF Calls
  <2>2. <<r>> \in Seq(Calls) /\ Len(<<r>>) = 1 /\ <<r>>[1] = r
    OBVIOUS
  <2> QED
    BY <2>1, <2>2
<1>3. PICK l \in Nat : l = Len(new)
  BY <1>1
<1>4. /\ after \in Seq(Calls) /\ Len(after) = l + 1
      /\ \A k \in 1..(l + 1) : after[k] = IF k <= l THEN new[k] ELSE last[k - l]
  BY <1>1, <1>2, <1>3, ConcatProperties
<1>5. \A k \in 1..l : k \in 1..(l + 1) /\ after[k] = new[k] /\ after[k] # Respond
  BY <1>1, <1>3, <1>4
<1>6. after[l + 1] = Respond
  <2>1. l + 1 \in 1..(l + 1) /\ ~(l + 1 <= l) /\ (l + 1) - l = 1
    OBVIOUS
  <2> QED
    BY <1>2, <1>4, <2>1
<1>7. DOMAIN after = 1..(l + 1) /\ DOMAIN new = 1..l
  BY <1>1, <1>3, <1>4
<1>8. \A k \in DOMAIN after : after[k] = Respond => k = Len(after)
  BY <1>4, <1>5, <1>7
<1>9. after # <<>>
  BY <1>4
<1>10. Range(new) \subseteq Range(after)
  BY <1>5, <1>7 DEF Range
<1> QED
  BY <1>4, <1>6, <1>8, <1>9, <1>10

(* The beginning of a request: what it edits and does not widen at once, it *)
(* has to ensure, and what a bulk is to validate it has written.            *)
LEMMA BeginKeeps ==
    ASSUME DatesInv,
           NEW kind, NEW atomic, NEW edited \in SUBSET Items, NEW updates,
           Begin(kind, atomic, edited, updates),
           kind = "bulk" => /\ updates \in [edited -> Updates]
                            /\ \A i \in edited \ Epics :
                                  due'[i] = IF updates[i].due # Keep THEN updates[i].due ELSE due[i],
           Tables',
           NEW new \in Seq(Calls \ {Respond}),
           \/ calls' = new \o <<Respond>>
           \/ calls' = <<>> /\ edited = {},
           \A i \in edited \ Epics : Ensuring(i) \in Range(new)
    PROVE  DatesInv'
<1>1. Tables /\ calls \in Seq(Calls)
  BY InvParts
<1>2. /\ outcome' = "none"
      /\ request'.kind = kind /\ request'.edited = edited /\ request'.updates = updates
      /\ request'.sched = sched /\ request'.due = due
      /\ request'.story = story /\ request'.epics = epics
  BY DEF Begin
<1>3. PICK after : after = calls'
  OBVIOUS
<1>4. /\ after \in Seq(Calls)
      /\ after # <<>> => after[Len(after)] = Respond
      /\ \A k \in DOMAIN after : after[k] = Respond => k = Len(after)
      /\ \A i \in edited \ Epics : Ensuring(i) \in Range(after)
  <2>1. CASE after = new \o <<Respond>>
    <3>1. after \in Seq(Calls) /\ after[Len(after)] = Respond
      BY <2>1, EndsInRespond
    <3>2. \A k \in DOMAIN after : after[k] = Respond => k = Len(after)
      BY <2>1, EndsInRespond
    <3>3. Range(new) \subseteq Range(after)
      BY <2>1, EndsInRespond
    <3> QED
      BY <3>1, <3>2, <3>3
  <2>2. CASE after = <<>> /\ edited = {}
    BY <2>2
  <2> QED
    BY <1>3, <2>1, <2>2
<1>5. TypeOK'
  BY <1>2, <1>3, <1>4 DEF TypeOK, Tables, Calls
<1>6. RequestTyped'
  BY <1>1, <1>2 DEF RequestTyped, Tables
<1>7. Agree(sched, due)' /\ Agree(request.sched, request.due)'
  BY <1>1, <1>2 DEF Tables, Agree
<1>8. RespondsLast'
  <2>1. after # <<>> => outcome' = "none" /\ after[Len(after)] = Respond
    BY <1>2, <1>4
  <2> QED
    BY <1>3, <1>4, <2>1 DEF RespondsLast, Idle
<1>9. EditedContained'
  <2>1. ASSUME NEW i \in edited PROVE Ensuring(i) \in Range(after) \/ Parents(i)' = {}
    <3>1. CASE i \in Epics
      <4>1. Parents(i)' = {}
        BY <3>1, Kinds DEF Parents
      <4> QED
        BY <4>1
    <3>2. CASE i \notin Epics
      BY <1>4, <3>2
    <3> QED
      BY <3>1, <3>2
  <2> QED
    BY <1>2, <1>3, <2>1 DEF EditedContained, Ensuring
<1>10. ValidatedInTime'
  <2> SUFFICES ASSUME kind = "bulk", NEW i \in edited \ Epics, ValidatedDue(i)' # NoDate
               PROVE  due'[i] # NoDate /\ due'[i] >= ValidatedDue(i)'
    BY <1>2 DEF ValidatedInTime
  <2>1. ValidatedDue(i)' = IF updates[i].due # Keep THEN updates[i].due ELSE due[i]
    BY <1>2 DEF ValidatedDue
  <2>2. due'[i] = ValidatedDue(i)'
    BY <2>1
  <2>3. due'[i] \in Dates
    BY Kinds DEF Tables
  <2> QED
    BY <2>2, <2>3 DEF Dates
<1>11. AcceptedIsConsistent'
  BY <1>2 DEF AcceptedIsConsistent
<1> QED
  BY <1>5, <1>6, <1>7, <1>8, <1>9, <1>10, <1>11 DEF DatesInv


(* Ensuring an item and propagating its dates.                              *)
LEMMA PlannedCalls ==
    ASSUME NEW i \in Items
    PROVE  \E new \in Seq(Calls \ {Respond}) :
              /\ Ensure(i) \o <<Propagate(i), Respond>> = new \o <<Respond>>
              /\ i \notin Epics => Ensuring(i) \in Range(new)
<1>1. PICK s \in Seq(Calls \ {Respond}) : s = Ensure(i) /\ (i \notin Epics => Ensuring(i) \in Range(s))
  BY PushedTypes
<1>2. PICK c \in Calls \ {Respond} : c = Propagate(i)
  BY CallKinds
<1>3. PICK r \in Calls : r = Respond
  BY DEF Calls
<1>4. /\ <<c>> \in Seq(Calls \ {Respond}) /\ <<c>> \in Seq(Calls) /\ <<r>> \in Seq(Calls)
      /\ <<c, r>> = <<c>> \o <<r>> /\ s \in Seq(Calls)
  OBVIOUS
<1>5. PICK t \in Seq(Calls \ {Respond}), last \in Seq(Calls) : t = <<c>> /\ last = <<r>>
  BY <1>4
<1>6. s \o t \in Seq(Calls \ {Respond}) /\ (i \notin Epics => Ensuring(i) \in Range(s \o t))
  <2>1. s \o t \in Seq(Calls \ {Respond})
    BY RangeOfConcat
  <2>2. Range(s) \subseteq Range(s \o t)
    BY RangeOfConcat
  <2> QED
    BY <1>1, <2>1, <2>2
<1>7. (s \o t) \o last = s \o (t \o last)
  <2>1. t \in Seq(Calls)
    BY <1>4, <1>5
  <2> QED
    BY <1>4, <2>1, ConcatAssociative
<1>8. Ensure(i) \o <<Propagate(i), Respond>> = (s \o t) \o <<Respond>>
  BY <1>1, <1>2, <1>3, <1>4, <1>5, <1>7
<1> QED
  BY <1>6, <1>8

LEMMA SaveEntityKeeps ==
    ASSUME DatesInv, NEW i \in Tasks \cup Stories, NEW d \in Dates, SaveEntity(i, d)
    PROVE  DatesInv'
<1>1. Tables
  BY InvParts
<1>2. i \in Items /\ i \notin Epics
  BY Kinds
<1>3. Tables'
  <2>1. \A j \in Tasks \cup Stories : j \in Items
    BY Kinds
  <2>2. due' \in [Tasks \cup Stories -> Dates]
    BY <1>1 DEF SaveEntity, Tables
  <2>3. sched' \in [Items -> Rows]
    <3>1. PICK row \in Rows : row = [sched[i] EXCEPT !.due_date = d]
      BY <1>1, <1>2 DEF Tables, Rows
    <3>2. sched' = [sched EXCEPT ![i] = row]
      BY <3>1 DEF SaveEntity
    <3> QED
      BY <1>1, <3>2 DEF Tables
  <2>4. Agree(sched', due')
    <3> SUFFICES ASSUME NEW j \in Tasks \cup Stories PROVE due'[j] = sched'[j].due_date
      BY DEF Agree
    <3>1. CASE j = i
      BY <1>1, <1>2, <3>1 DEF SaveEntity, Tables, Rows
    <3>2. CASE j # i
      BY <1>1, <2>1, <3>2 DEF SaveEntity, Tables, Agree
    <3> QED
      BY <3>1, <3>2
  <2> QED
    BY <1>1, <2>2, <2>3, <2>4 DEF SaveEntity, Tables
<1>4. PICK new \in Seq(Calls \ {Respond}) :
         calls' = new \o <<Respond>> /\ Ensuring(i) \in Range(new)
  <2>1. \E new \in Seq(Calls \ {Respond}) :
           /\ Ensure(i) \o <<Propagate(i), Respond>> = new \o <<Respond>>
           /\ i \notin Epics => Ensuring(i) \in Range(new)
    BY <1>2, PlannedCalls
  <2> QED
    BY <1>2, <2>1 DEF SaveEntity
<1>5. Begin("save", TRUE, {i}, NoUpdates)
  BY DEF SaveEntity
<1>6. {i} \in SUBSET Items /\ \A j \in {i} \ Epics : Ensuring(j) \in Range(new)
  BY <1>2, <1>4
<1>7. "save" # "bulk"
  OBVIOUS
<1> QED
  BY <1>3, <1>4, <1>5, <1>6, <1>7, BeginKeeps


LEMMA SaveEpicKeeps ==
    ASSUME DatesInv, NEW e \in Epics, SaveEpic(e)
    PROVE  DatesInv'
<1>1. Tables
  BY InvParts
<1>2. e \in Items
  BY Kinds
<1>3. Tables'
  BY <1>1 DEF SaveEpic, Tables, Agree
<1>4. PICK new \in Seq(Calls \ {Respond}) : calls' = new \o <<Respond>>
  <2>1. PICK c \in Calls \ {Respond} : c = Propagate(e)
    BY <1>2, CallKinds
  <2>2. PICK r \in Calls : r = Respond
    BY DEF Calls
  <2>3. <<c>> \in Seq(Calls \ {Respond}) /\ <<c, r>> = <<c>> \o <<r>>
    OBVIOUS
  <2> QED
    BY <2>1, <2>2, <2>3 DEF SaveEpic
<1>5. Begin("save", TRUE, {e}, NoUpdates)
  BY DEF SaveEpic
<1>6. {e} \in SUBSET Items /\ \A j \in {e} \ Epics : Ensuring(j) \in Range(new)
  BY <1>2
<1>7. "save" # "bulk"
  OBVIOUS
<1> QED
  BY <1>3, <1>4, <1>5, <1>6, <1>7, BeginKeeps

LEMMA MoveTaskKeeps ==
    ASSUME DatesInv, NEW t \in Tasks, NEW s \in Stories \cup {NoItem}, MoveTask(t, s)
    PROVE  DatesInv'
<1>1. Tables
  BY InvParts
<1>2. t \in Items /\ t \notin Epics /\ t \in Tasks \cup Stories
  BY Kinds
<1>3. Tables'
  <2>1. \A j \in Tasks \cup Stories : j \in Items
    BY Kinds
  <2>2. sched[t].due_date = due[t]
    BY <1>1, <1>2 DEF Tables, Agree
  <2>3. sched' = sched
    <3>1. PICK row \in Rows : row = sched[t] /\ row.due_date = due[t]
      BY <1>1, <1>2, <2>2 DEF Tables
    <3>2. [row EXCEPT !.due_date = due[t]] = row
      BY <3>1 DEF Rows
    <3>3. sched' = [sched EXCEPT ![t] = row]
      BY <3>1, <3>2 DEF MoveTask
    <3> QED
      BY <1>1, <1>2, <3>1, <3>3 DEF Tables
  <2>4. story' \in [Tasks -> Stories \cup {NoItem}]
    BY <1>1 DEF MoveTask, Tables
  <2> QED
    BY <1>1, <2>3, <2>4 DEF MoveTask, Tables, Agree
<1>4. PICK new \in Seq(Calls \ {Respond}) :
         calls' = new \o <<Respond>> /\ Ensuring(t) \in Range(new)
  <2>1. \E new \in Seq(Calls \ {Respond}) :
           /\ Ensure(t) \o <<Propagate(t), Respond>> = new \o <<Respond>>
           /\ t \notin Epics => Ensuring(t) \in Range(new)
    BY <1>2, PlannedCalls
  <2> QED
    BY <1>2, <2>1 DEF MoveTask
<1>5. Begin("save", TRUE, {t}, NoUpdates)
  BY DEF MoveTask
<1>6. {t} \in SUBSET Items /\ \A j \in {t} \ Epics : Ensuring(j) \in Range(new)
  BY <1>2, <1>4
<1>7. "save" # "bulk"
  OBVIOUS
<1> QED
  BY <1>3, <1>4, <1>5, <1>6, <1>7, BeginKeeps

LEMMA RelateKeeps ==
    ASSUME DatesInv, NEW s \in Stories, NEW q \in Seq(Epics), Relate(s, q)
    PROVE  DatesInv'
<1>1. Tables
  BY InvParts
<1>2. s \in Items /\ s \notin Epics
  BY Kinds
<1>3. Tables'
  BY <1>1 DEF Relate, Tables, Agree
<1>4. PICK new \in Seq(Calls \ {Respond}) :
         calls' = new \o <<Respond>> /\ Ensuring(s) \in Range(new)
  BY <1>2, PushedTypes DEF Relate
<1>5. PICK atomic : Begin("relate", atomic, {s}, NoUpdates)
  BY DEF Relate
<1>6. {s} \in SUBSET Items /\ \A j \in {s} \ Epics : Ensuring(j) \in Range(new)
  BY <1>2, <1>4
<1>7. "relate" # "bulk"
  OBVIOUS
<1> QED
  BY <1>3, <1>4, <1>5, <1>6, <1>7, BeginKeeps

LEMMA LinkKeeps ==
    ASSUME DatesInv, NEW i, NEW j, CreateLink(i, j) \/ DeleteLink(i, j)
    PROVE  DatesInv'
<1>1. Tables
  BY InvParts
<1>2. Begin("link", FALSE, {}, NoUpdates) /\ UNCHANGED <<sched, due, story, epics, calls>>
  BY DEF CreateLink, DeleteLink
<1>3. Tables'
  <2>1. links' \subseteq Links
    BY <1>1 DEF CreateLink, DeleteLink, Tables
  <2> QED
    BY <1>1, <1>2, <2>1 DEF Tables, Agree
<1>4. calls' = <<>>
  BY <1>2 DEF Begin, Idle
<1>5. PICK new \in Seq(Calls \ {Respond}) : new = <<>>
  BY PushedTypes
<1>6. {} \in SUBSET Items /\ \A k \in {} \ Epics : Ensuring(k) \in Range(new)
  OBVIOUS
<1>7. "link" # "bulk"
  OBVIOUS
<1> QED
  BY <1>2, <1>3, <1>4, <1>6, <1>7, BeginKeeps

(* The items of a kind in an order.                                         *)
LEMMA OrdersType ==
    ASSUME NEW S \in SUBSET Items, NEW q \in Orders(S)
    PROVE  q \in Seq(S) /\ Range(q) = S
<1>1. IsFiniteSet(S)
  BY Kinds, FS_Subset
<1>2. PICK n \in Nat : n = Cardinality(S)
  BY <1>1, FS_CardinalityType
<1>3. q \in [1..n -> S] /\ Range(q) = S
  BY <1>2 DEF Orders
<1> QED
  BY <1>2, <1>3

LEMMA UpdatedType ==
    ASSUME NEW row \in Rows, NEW u \in Updates
    PROVE  /\ Updated(row, u) \in Rows
           /\ Updated(row, u).due_date = IF u.due # Keep THEN u.due ELSE row.due_date
<1>1. /\ row.estimated_start \in Dates /\ row.actual_start \in Dates /\ row.due_date \in Dates
      /\ u.start \in Dates \cup {Keep} /\ u.due \in Dates \cup {Keep}
  BY DEF Rows, Updates
<1>2. PICK a \in Dates : a = IF u.start # Keep /\ u.field = "estimated_start" THEN u.start
                             ELSE row.estimated_start
  BY <1>1
<1>3. PICK b \in Dates : b = IF u.start # Keep /\ u.field = "actual_start" THEN u.start
                             ELSE row.actual_start
  BY <1>1
<1>4. PICK c \in Dates : c = IF u.due # Keep THEN u.due ELSE row.due_date
  BY <1>1
<1>5. Updated(row, u) = [estimated_start |-> a, actual_start |-> b, due_date |-> c]
  BY <1>2, <1>3, <1>4 DEF Updated
<1> QED
  BY <1>4, <1>5 DEF Rows


(* All updates are written; then every task and story named is ensured.     *)
LEMMA BulkApplyKeeps ==
    ASSUME DatesInv, NEW u \in Bulks, BulkApply(u)
    PROVE  DatesInv'
<1>1. Tables
  BY InvParts
<1>2. PICK S \in SUBSET Items : u \in [S -> Updates]
  BY DatesAssumption
<1>3. /\ DOMAIN u = S /\ \A i \in S : u[i] \in Updates
      /\ \A j \in Tasks \cup Stories : j \in Items
      /\ Items = Epics \cup Stories \cup Tasks
  BY <1>2, Kinds
<1>4. Tables'
  <2>1. \A i \in S : u[i].due \in Dates \cup {Keep} /\ sched[i] \in Rows
    BY <1>1, <1>3 DEF Updates, Tables
  <2>2. \A i \in Items : sched'[i] = IF i \in S THEN Updated(sched[i], u[i]) ELSE sched[i]
    BY <1>3 DEF BulkApply
  <2>3. \A i \in Items : /\ sched'[i] \in Rows
                         /\ sched'[i].due_date = IF i \in S /\ u[i].due # Keep THEN u[i].due
                                                 ELSE sched[i].due_date
    <3> SUFFICES ASSUME NEW i \in Items
                 PROVE  /\ sched'[i] \in Rows
                        /\ sched'[i].due_date = IF i \in S /\ u[i].due # Keep THEN u[i].due
                                                ELSE sched[i].due_date
      OBVIOUS
    <3>1. PICK row \in Rows : row = sched[i]
      BY <1>1 DEF Tables
    <3>2. CASE i \in S
      <4>1. PICK v \in Updates : v = u[i]
        BY <1>3, <3>2
      <4>2. Updated(row, v) \in Rows
        BY UpdatedType
      <4>3. Updated(row, v).due_date = IF v.due # Keep THEN v.due ELSE row.due_date
        BY UpdatedType
      <4> QED
        BY <2>2, <3>1, <3>2, <4>1, <4>2, <4>3
    <3>3. CASE i \notin S
      BY <2>2, <3>1, <3>3
    <3> QED
      BY <3>2, <3>3
  <2>4. sched' \in [Items -> Rows]
    <3>1. sched' = [i \in Items |-> sched'[i]]
      BY DEF BulkApply
    <3> QED
      BY <2>3, <3>1
  <2>5. \A i \in Tasks \cup Stories :
           due'[i] = IF i \in S /\ u[i].due # Keep THEN u[i].due ELSE due[i]
    BY <1>1, <1>3 DEF BulkApply, Tables
  <2>6. due' \in [Tasks \cup Stories -> Dates]
    <3>1. due' = [i \in Tasks \cup Stories |-> due'[i]]
      BY <1>1 DEF BulkApply, Tables
    <3>2. \A i \in Tasks \cup Stories : due'[i] \in Dates
      BY <1>1, <2>1, <2>5 DEF Tables
    <3> QED
      BY <3>1, <3>2
  <2>7. Agree(sched', due')
    BY <1>1, <1>3, <2>3, <2>5 DEF Tables, Agree
  <2> QED
    BY <1>1, <2>4, <2>6, <2>7 DEF BulkApply, Tables
<1>5. PICK e \in Orders(DOMAIN u \cap Epics), t \in Orders(DOMAIN u \cap Tasks),
           s \in Orders(DOMAIN u \cap Stories) :
         calls' = [k \in DOMAIN (t \o s) |-> Ensuring((t \o s)[k])]
                     \o [k \in DOMAIN (e \o (t \o s)) |-> Propagate((e \o (t \o s))[k])]
                     \o <<Respond>>
  BY DEF BulkApply
<1>6. /\ e \in Seq(Items)
      /\ t \in Seq(Items \ Epics) /\ Range(t) = S \cap Tasks
      /\ s \in Seq(Items \ Epics) /\ Range(s) = S \cap Stories
  <2>1. S \cap Epics \in SUBSET Items /\ S \cap Tasks \in SUBSET Items /\ S \cap Stories \in SUBSET Items
    BY <1>3
  <2>2. e \in Seq(S \cap Epics) /\ t \in Seq(S \cap Tasks) /\ s \in Seq(S \cap Stories)
    BY <1>3, <1>5, <2>1, OrdersType
  <2>3. Range(t) = S \cap Tasks
    BY <1>3, <1>5, <2>1, OrdersType
  <2>4. Range(s) = S \cap Stories
    BY <1>3, <1>5, <2>1, OrdersType
  <2>5. S \cap Tasks \subseteq Items \ Epics /\ S \cap Stories \subseteq Items \ Epics
    BY <1>3, Kinds
  <2> QED
    BY <2>1, <2>2, <2>3, <2>4, <2>5
<1>7. PICK q \in Seq(Items \ Epics) : q = t \o s /\ Range(t) \subseteq Range(q) /\ Range(s) \subseteq Range(q)
  <2>1. t \o s \in Seq(Items \ Epics)
    BY <1>6, RangeOfConcat
  <2>2. Range(t) \subseteq Range(t \o s)
    BY <1>6, RangeOfConcat
  <2>3. Range(s) \subseteq Range(t \o s)
    BY <1>6, RangeOfConcat
  <2> QED
    BY <2>1, <2>2, <2>3
<1>8. PICK r \in Seq(Items) : r = e \o q
  <2>1. q \in Seq(Items)
    OBVIOUS
  <2> QED
    BY <1>6, <2>1, RangeOfConcat
<1>9. PICK f \in Seq(Calls \ {Respond}) :
         /\ f = [k \in DOMAIN q |-> Ensuring(q[k])]
         /\ \A i \in Range(q) : Ensuring(i) \in Range(f)
  <2>1. PICK n \in Nat : n = Len(q) /\ DOMAIN q = 1..n
    OBVIOUS
  <2>2. \A k \in 1..n : Ensuring(q[k]) \in Calls \ {Respond}
    BY <2>1, CallKinds
  <2>3. PICK f \in [1..n -> Calls \ {Respond}] : f = [k \in 1..n |-> Ensuring(q[k])]
    BY <2>2
  <2>4. f \in Seq(Calls \ {Respond}) /\ DOMAIN f = 1..n /\ \A k \in 1..n : f[k] = Ensuring(q[k])
    BY <2>3
  <2>5. \A i \in Range(q) : Ensuring(i) \in Range(f)
    BY <2>1, <2>4 DEF Range
  <2> QED
    BY <2>1, <2>3, <2>4, <2>5
<1>10. PICK g \in Seq(Calls \ {Respond}) : g = [k \in DOMAIN r |-> Propagate(r[k])]
  <2>1. PICK n \in Nat : n = Len(r) /\ DOMAIN r = 1..n
    OBVIOUS
  <2>2. \A k \in 1..n : Propagate(r[k]) \in Calls \ {Respond}
    BY <2>1, CallKinds
  <2>3. PICK g \in [1..n -> Calls \ {Respond}] : g = [k \in 1..n |-> Propagate(r[k])]
    BY <2>2
  <2>4. g \in Seq(Calls \ {Respond})
    BY <2>3
  <2> QED
    BY <2>1, <2>3, <2>4
<1>11. PICK new \in Seq(Calls \ {Respond}) : new = f \o g /\ Range(f) \subseteq Range(new)
  BY RangeOfConcat
<1>12. calls' = new \o <<Respond>>
  BY <1>5, <1>7, <1>8, <1>9, <1>10, <1>11
<1>13. \A i \in S \ Epics : Ensuring(i) \in Range(new)
  BY <1>3, <1>6, <1>7, <1>9, <1>11
<1>14. Begin("bulk", TRUE, S, u)
  <2>1. Begin("bulk", TRUE, DOMAIN u, u)
    BY DEF BulkApply
  <2> QED
    BY <1>3, <2>1 DEF Begin
<1>15. /\ u \in [S -> Updates]
       /\ \A i \in S \ Epics : due'[i] = IF u[i].due # Keep THEN u[i].due ELSE due[i]
  <2>1. \A i \in S \ Epics : i \in DOMAIN due
    BY <1>1, <1>3 DEF Tables
  <2> QED
    BY <1>2, <1>3, <2>1 DEF BulkApply
<1> QED
  BY <1>4, <1>12, <1>13, <1>14, <1>15, BeginKeeps

LEMMA InitKeeps == Init => DatesInv
<1> SUFFICES ASSUME Init PROVE DatesInv
  OBVIOUS
<1>1. PICK p \in Plans :
         /\ sched = p.sched
         /\ due = [i \in Tasks \cup Stories |-> p.sched[i].due_date]
         /\ story = p.story /\ epics = p.epics /\ links = p.links
  BY DEF Init
<1>2. /\ p.sched \in [Items -> Rows]
      /\ p.story \in [Tasks -> Stories \cup {NoItem}]
      /\ p.epics \in [Stories -> Seq(Epics)]
      /\ p.links \subseteq Links
  BY DatesAssumption
<1>3. /\ calls = <<>> /\ outcome = "none"
      /\ request.kind = "none" /\ request.edited = {}
      /\ request.sched = sched /\ request.due = due
      /\ request.story = story /\ request.epics = epics
  BY DEF Init
<1>4. Tables
  <2>1. \A i \in Tasks \cup Stories : p.sched[i].due_date \in Dates
    BY <1>2, Kinds DEF Rows
  <2>2. due \in [Tasks \cup Stories -> Dates] /\ Agree(sched, due)
    BY <1>1, <2>1 DEF Agree
  <2> QED
    BY <1>1, <1>2, <2>2 DEF Tables
<1>5. TypeOK
  BY <1>3, <1>4 DEF TypeOK, Tables
<1>6. RequestTyped /\ Agree(request.sched, request.due)
  BY <1>3, <1>4 DEF RequestTyped, Tables
<1>7. RespondsLast /\ EditedContained /\ ValidatedInTime /\ AcceptedIsConsistent
  BY <1>3 DEF RespondsLast, Idle, EditedContained, ValidatedInTime, AcceptedIsConsistent
<1> QED
  BY <1>4, <1>5, <1>6, <1>7 DEF DatesInv, Tables


-----------------------------------------------------------------------------
(* The specification.                                                       *)

LEMMA RequestKeeps == DatesInv /\ Request => DatesInv'
<1> SUFFICES ASSUME DatesInv, Request PROVE DatesInv'
  OBVIOUS
<1>1. ASSUME NEW i \in Tasks \cup Stories, NEW d \in Dues, SaveEntity(i, d) PROVE DatesInv'
  <2>1. d \in Dates
    BY DatesAssumption
  <2> QED
    BY <1>1, <2>1, SaveEntityKeeps
<1>2. ASSUME NEW i \in Tasks \cup Stories, SaveEntity(i, due[i]) PROVE DatesInv'
  <2>1. PICK d \in Dates : d = due[i]
    BY InvParts DEF Tables
  <2>2. SaveEntity(i, d)
    BY <1>2, <2>1 DEF SaveEntity
  <2> QED
    BY <2>2, SaveEntityKeeps
<1>3. ASSUME NEW e \in Epics, SaveEpic(e) PROVE DatesInv'
  BY <1>3, SaveEpicKeeps
<1>4. ASSUME NEW h \in Homes,
             \/ h.item \in Tasks /\ MoveTask(h.item, h.parent)
             \/ h.item \in Stories /\ Relate(h.item, h.parent)
      PROVE  DatesInv'
  <2>1. PICK i, p : i = h.item /\ p = h.parent
    OBVIOUS
  <2>2. \/ i \in Tasks /\ p \in Stories \cup {NoItem}
        \/ i \in Stories /\ p \in Seq(Epics)
    BY <2>1, DatesAssumption
  <2>3. CASE i \in Tasks /\ MoveTask(h.item, h.parent)
    <3>1. p \in Stories \cup {NoItem}
      BY <2>2, <2>3, Kinds
    <3>2. MoveTask(i, p)
      BY <2>1, <2>3 DEF MoveTask, Begin
    <3> QED
      BY <2>3, <3>1, <3>2, MoveTaskKeeps
  <2>4. CASE i \in Stories /\ Relate(h.item, h.parent)
    <3>1. p \in Seq(Epics)
      BY <2>2, <2>4, Kinds
    <3>2. Relate(i, p)
      BY <2>1, <2>4 DEF Relate, Begin
    <3> QED
      BY <2>4, <3>1, <3>2, RelateKeeps
  <2> QED
    BY <1>4, <2>1, <2>3, <2>4
<1>5. ASSUME NEW l \in Links, CreateLink(l[1], l[2]) \/ DeleteLink(l[1], l[2]) PROVE DatesInv'
  BY <1>5, LinkKeeps
<1>6. ASSUME NEW u \in Bulks, BulkApply(u) PROVE DatesInv'
  BY <1>6, BulkApplyKeeps
<1> QED
  BY <1>1, <1>2, <1>3, <1>4, <1>5, <1>6 DEF Request

LEMMA StepKeepsInv == DatesInv /\ Step => DatesInv'
BY EnsureKeeps, PropagateKeeps, TargetKeeps, EpicFailsKeeps, RespondKeeps DEF Step

LEMMA UnchangedKeeps == DatesInv /\ UNCHANGED vars => DatesInv'
<1> SUFFICES ASSUME DatesInv, UNCHANGED vars PROVE DatesInv'
  OBVIOUS
<1> USE DEF vars
<1>1. TypeOK'
  BY DEF DatesInv, TypeOK
<1>2. RequestTyped' /\ RespondsLast' /\ Agree(sched, due)' /\ Agree(request.sched, request.due)'
  BY DEF DatesInv, RequestTyped, RespondsLast, Idle, Agree
<1>3. \A i : Parents(i)' = Parents(i) /\ Due(i)' = Due(i) /\ ValidatedDue(i)' = ValidatedDue(i)
  BY DEF Parents, Due, ValidatedDue
<1>4. EditedContained'
  <2>1. \A i, p : DueWithin(i, p)' <=> DueWithin(i, p)
    BY <1>3 DEF DueWithin
  <2> QED
    BY <1>3, <2>1 DEF DatesInv, EditedContained, Ensuring
<1>5. ValidatedInTime'
  BY <1>3 DEF DatesInv, ValidatedInTime
<1>6. AcceptedIsConsistent'
  <2>1. \A i, a, b : ViolatesBounds(i, a, b)' <=> ViolatesBounds(i, a, b)
    BY <1>3 DEF ViolatesBounds, Children
  <2>2. \A i, a : ViolatesDependencies(i, a)' <=> ViolatesDependencies(i, a)
    BY DEF ViolatesDependencies
  <2> QED
    BY <1>3, <2>1, <2>2 DEF DatesInv, AcceptedIsConsistent, Idle, Start
<1> QED
  BY <1>1, <1>2, <1>4, <1>5, <1>6 DEF DatesInv

LEMMA DatesInvariant == Spec => []DatesInv
<1>1. DatesInv /\ [Next]_vars => DatesInv'
  BY RequestKeeps, StepKeepsInv, UnchangedKeeps DEF Next, Rest
<1> QED
  BY InitKeeps, <1>1, PTL DEF Spec

(* The tables and the call stack keep their types: every date a shift or a  *)
(* widening computes is one, every parent and epic is an item's, and no     *)
(* propagation runs longer than its bound.                                  *)
THEOREM TypeOKHolds == Spec => []TypeOK
<1>1. DatesInv => TypeOK
  BY DEF DatesInv
<1> QED
  BY DatesInvariant, <1>1, PTL

(* The copies of a due date on an entity and on its schedule agree between  *)
(* requests, and in fact at every step of one                               *)
(* (_shift_schedule_forward_to_start, _expand_userstory_bounds).            *)
THEOREM DueCopiesAgreeHolds == Spec => []DueCopiesAgree
<1>1. DatesInv => DueCopiesAgree
  BY DEF DatesInv, DueCopiesAgree, Agree
<1> QED
  BY DatesInvariant, <1>1, PTL

(* An accepted bulk leaves the items it names behind their sources and      *)
(* around their children (apply_schedule_dates_in_bulk).                    *)
THEOREM AcceptedIsConsistentHolds == Spec => []AcceptedIsConsistent
<1>1. DatesInv => AcceptedIsConsistent
  BY DEF DatesInv
<1> QED
  BY DatesInvariant, <1>1, PTL

(* What contains an edited item is not due before it when the request has   *)
(* gone through (ensure_userstory_and_epic_bounds_from_task).               *)
THEOREM ParentsContainEditedHolds == Spec => []ParentsContainEdited
<1>1. DatesInv => ParentsContainEdited
  <2> SUFFICES ASSUME DatesInv, Idle, outcome \in {"saved", "accepted"}
               PROVE  \A i \in request.edited : \A p \in Parents(i) : DueWithin(i, p)
    BY DEF ParentsContainEdited
  <2>1. \A i : Ensuring(i) \notin Range(calls)
    BY DEF Idle, Range
  <2> QED
    BY <2>1, InvParts DEF EditedContained
<1> QED
  BY DatesInvariant, <1>1, PTL

(* A step pulls back no due date that it was not asked to, unless the       *)
(* request fails.                                                           *)
LEMMA StepPullsNothingBack ==
    ASSUME DatesInv, [Next]_vars, NEW i \in Items,
           sched'[i].due_date # sched[i].due_date, sched[i].due_date # NoDate
    PROVE  \/ sched'[i].due_date # NoDate /\ sched'[i].due_date > sched[i].due_date
           \/ Idle /\ i \in request'.edited
           \/ outcome' \in {"rejected", "crashed"}
<1>1. CASE Later(sched[i].due_date, sched'[i].due_date)
  BY <1>1, Kinds DEF Later
<1>2. CASE StepEnsure \/ StepPropagate \/ StepTarget
  BY <1>1, <1>2, EnsureKeeps, PropagateKeeps, TargetKeeps
<1>3. CASE StepEpicFails
  BY <1>3 DEF StepEpicFails
<1>4. CASE StepRespond
  BY <1>4 DEF StepRespond
<1>5. CASE Request
  <2>1. Tables
    BY InvParts
  <2>2. ASSUME NEW j \in Tasks \cup Stories, NEW d, SaveEntity(j, d)
        PROVE  Idle /\ i \in request'.edited
    BY <2>1, <2>2 DEF SaveEntity, Begin, Tables
  <2>3. ASSUME NEW e, SaveEpic(e) PROVE FALSE
    BY <2>3 DEF SaveEpic
  <2>4. ASSUME NEW t, NEW s, MoveTask(t, s) PROVE Idle /\ i \in request'.edited
    BY <2>1, <2>4 DEF MoveTask, Begin, Tables
  <2>5. ASSUME NEW s, NEW q, Relate(s, q) PROVE FALSE
    BY <2>5 DEF Relate
  <2>6. ASSUME NEW j, NEW k, CreateLink(j, k) \/ DeleteLink(j, k) PROVE FALSE
    BY <2>6 DEF CreateLink, DeleteLink
  <2>7. ASSUME NEW u, BulkApply(u) PROVE Idle /\ i \in request'.edited
    BY <2>1, <2>7 DEF BulkApply, Begin, Tables
  <2> QED
    BY <1>5, <2>2, <2>3, <2>4, <2>5, <2>6, <2>7 DEF Request
<1>6. CASE UNCHANGED vars
  BY <1>6 DEF vars
<1> QED
  BY <1>2, <1>3, <1>4, <1>5, <1>6 DEF Next, Step, Rest

(* Nobody's due date is pulled back behind a client's back: shifting and    *)
(* widening only move due dates later                                       *)
(* (propagate_dependency_chain_forward_from_schedule).                      *)
THEOREM NoDuePulledBackHolds == Spec => NoDuePulledBack
<1>1. DatesInv /\ [Next]_vars =>
         [\A i \in Items :
             sched'[i].due_date # sched[i].due_date /\ sched[i].due_date # NoDate =>
                 \/ sched'[i].due_date # NoDate /\ sched'[i].due_date > sched[i].due_date
                 \/ Idle /\ i \in request'.edited
                 \/ outcome' \in {"rejected", "crashed"}]_vars
  BY StepPullsNothingBack
<1> QED
  BY DatesInvariant, <1>1, PTL DEF Spec, NoDuePulledBack

=============================================================================
