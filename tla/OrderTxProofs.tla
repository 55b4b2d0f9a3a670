--------------------------- MODULE OrderTxProofs ---------------------------
(***************************************************************************)
(* What concurrent order operations keep, for any numbers of handlers,     *)
(* schedules and groups: proofs about OrderTx.  OrderTxInv says what a     *)
(* transaction relies on from one of its statements to a later one;        *)
(* GroupsInv that positions stay 1..n and placements land.                 *)
(***************************************************************************)
EXTENDS OrderTx, OrderRowsLemmas, SequenceTheorems, WellFoundedInduction, TLAPS

-----------------------------------------------------------------------------
(* A transaction as a record.                                              *)

LEMMA FreshType ==
    ASSUME NEW pc \in Stages, NEW attempt \in 1..RetryLimit, NEW result \in Results
    PROVE  /\ Fresh(pc, attempt) \in Transactions({})
           /\ [Fresh(pc, attempt) EXCEPT !.result = result] \in Transactions({})
<1>1. EmptyTable \in [{} -> Rows \cup {NoRow}]
  BY DEF EmptyTable
<1>2. [g \in Groups |-> <<>>] \in [Groups -> Seq(Entries)]
  OBVIOUS
<1>3. "none" \in Results
  BY DEF Results
<1>4. <<>> \in Seq(Groups) /\ <<>> \in Seq(Items) /\ <<>> \in Seq(Writes)
  OBVIOUS
<1>5. Fresh(pc, attempt) \in Transactions({})
  BY <1>1, <1>2, <1>3, <1>4 DEF Fresh, Transactions
<1> QED
  BY <1>5 DEF Transactions

(* The state of one process, when its statement changes nothing else.      *)
LEMMA OnlyOne ==
    ASSUME TypeOK, NEW p \in Procs, NEW t, tx' = [tx EXCEPT ![p] = t]
    PROVE  /\ tx'[p] = t /\ DOMAIN tx' = Procs
           /\ \A q \in Procs \ {p} : tx'[q] = tx[q]
BY DEF TypeOK

LEMMA SameSound ==
    ASSUME NEW q, UNCHANGED <<db, schedules, op>>, tx'[q] = tx[q]
    PROVE  Sound(q)' <=> Sound(q)
<1>1. View(q)' = View(q)
  BY DEF View
<1>2. WorksOnItsRows(q)' <=> WorksOnItsRows(q)
  BY DEF WorksOnItsRows, Mine, Item
<1>3. TouchesItsKeys(q)' <=> TouchesItsKeys(q)
  BY DEF TouchesItsKeys, Item
<1>4. RemovesItsRow(q)' <=> RemovesItsRow(q)
  BY DEF RemovesItsRow, Item
<1>5. FollowsItsCourse(q)' <=> FollowsItsCourse(q)
  BY DEF FollowsItsCourse
<1> QED
  BY <1>1, <1>2, <1>3, <1>4, <1>5 DEF Sound, UniqueKeys

(* A statement that leaves the committed tables alone.                     *)
LEMMA QuietStep ==
    ASSUME OrderTxInv, NEW p \in Procs, NEW t,
           UNCHANGED <<db, schedules, op>>, tx' = [tx EXCEPT ![p] = t],
           \E S \in SUBSET Items : t \in Transactions(S),
           \A q \in Procs \ {p} : /\ t.held \cap tx[q].held = {}
                                  /\ t.touched \cap tx[q].touched = {},
           Sound(p)'
    PROVE  OrderTxInv'
<1>1. TypeOK /\ TypeOK'
  BY OnlyOne DEF OrderTxInv, TypeOK
<1>2. /\ tx'[p] = t
      /\ \A q \in Procs \ {p} : tx'[q] = tx[q]
  BY <1>1, OnlyOne
<1>3. Apart'
  BY <1>2 DEF OrderTxInv, Apart
<1>4. \A q \in Procs : Sound(q)'
  <2>1. ASSUME NEW q \in Procs, q # p PROVE Sound(q)'
    BY <1>2, <2>1, SameSound DEF OrderTxInv
  <2> QED
    BY <2>1
<1> QED
  BY <1>1, <1>3, <1>4 DEF OrderTxInv, UniqueKeys, RowsHaveSchedules, Item

(* What a transaction relies on that has no rows, keys or locks.           *)
LEMMA FreshSound ==
    ASSUME NEW p \in Procs, NEW t, tx'[p] = t,
           t.own = NoRow, t.writes = <<>>, t.work = EmptyTable, t.touched = {},
           t.fetched = [g \in Groups |-> <<>>], t.placing = FALSE,
           UniqueKeys(db'), db' = [i \in DOMAIN db' |-> db'[i]], op' = op,
           \/ t.pc \in {"start", "schedule", "ended"}
           \/ t.pc = "own" /\ op[p].kind # "remove"
    PROVE  Sound(p)'
<1>1. View(p)' = db'
  <2>1. tx'[p].work = EmptyTable /\ DOMAIN EmptyTable = {}
    BY DEF EmptyTable
  <2> QED
    BY <2>1 DEF View
<1>2. WorksOnItsRows(p)'
  BY DEF WorksOnItsRows, EmptyTable
<1>3. TouchesItsKeys(p)'
  BY DEF TouchesItsKeys, EmptyTable
<1>4. RemovesItsRow(p)'
  BY DEF RemovesItsRow, EmptyTable
<1>5. FollowsItsCourse(p)'
  BY DEF FollowsItsCourse
<1> QED
  BY <1>1, <1>2, <1>3, <1>4, <1>5 DEF Sound, UniqueKeys

(* A transaction that starts again, or ends, has no rows, keys or locks.   *)
LEMMA FreshKeeps ==
    ASSUME OrderTxInv, NEW p \in Procs, NEW t, NEW pc \in Stages, NEW attempt \in 1..RetryLimit,
           NEW result \in Results, t \in {Fresh(pc, attempt), [Fresh(pc, attempt) EXCEPT !.result = result]},
           UNCHANGED <<db, schedules, op>>, tx' = [tx EXCEPT ![p] = t],
           \/ pc \in {"start", "schedule", "ended"}
           \/ pc = "own" /\ op[p].kind # "remove"
    PROVE  OrderTxInv'
<1>1. t \in Transactions({})
  <2>1. /\ Fresh(pc, attempt) \in Transactions({})
        /\ [Fresh(pc, attempt) EXCEPT !.result = result] \in Transactions({})
    BY FreshType
  <2> QED
    BY <2>1
<1>2. /\ t.pc = pc /\ t.own = NoRow /\ t.writes = <<>> /\ t.work = EmptyTable /\ t.touched = {}
      /\ t.fetched = [g \in Groups |-> <<>>] /\ t.held = {} /\ t.placing = FALSE
  BY DEF Fresh
<1>3. tx'[p] = t
  BY OnlyOne DEF OrderTxInv
<1>4. UniqueKeys(db') /\ db' = [i \in DOMAIN db' |-> db'[i]]
  BY DEF OrderTxInv, TypeOK, UniqueKeys
<1>5. Sound(p)'
  BY <1>2, <1>3, <1>4, FreshSound DEF OrderTxInv
<1> QED
  BY <1>1, <1>2, <1>5, QuietStep


-----------------------------------------------------------------------------
(* Before the rows are fetched.                                            *)

LEMMA OpType ==
    ASSUME TypeOK, NEW p \in Procs
    PROVE  /\ op[p].kind \in {"sync", "place", "remove"}
           /\ Item(p) \in Items /\ op[p].group \in Groups /\ op[p].position \in Int
<1>1. op[p] \in Operations
  BY DEF TypeOK
<1> QED
  BY <1>1, OrderTxAssumption DEF Item

LEMMA ReadyIsFree ==
    ASSUME NEW p, Ready(p), NEW q \in Procs \ {p}
    PROVE  Needs(p) \cap tx[q].held = {} /\ Occupies(p) \cap tx[q].touched = {}
BY DEF Ready, Blockers

LEMMA StageNames ==
    /\ \A s \in {"start", "schedule", "own", "fetch", "lock", "validate", "write", "commit", "ended"} :
          s \in Stages
    /\ \A s \in {"none", "absent", "done", "gave_up", "swallowed", "died"} : s \in Results
    /\ 1 \in 1..RetryLimit
BY OrderTxAssumption DEF Stages, Results

LEMMA AttemptType ==
    ASSUME TypeOK, NEW p \in Procs
    PROVE  tx[p].attempt \in 1..RetryLimit
BY DEF TypeOK, Transactions

LEMMA EndedKeeps ==
    ASSUME OrderTxInv, NEW p \in Procs, NEW result \in Results, Ended(p, result),
           UNCHANGED <<db, schedules, op>>
    PROVE  OrderTxInv'
<1>1. PICK n \in 1..RetryLimit : n = tx[p].attempt
  BY AttemptType DEF OrderTxInv
<1>2. PICK t : t = [Fresh("ended", n) EXCEPT !.result = result]
  OBVIOUS
<1>3. tx' = [tx EXCEPT ![p] = t]
  BY <1>1, <1>2 DEF Ended, Goto
<1>4. t \in {Fresh("ended", n), [Fresh("ended", n) EXCEPT !.result = result]}
  BY <1>2
<1>5. "ended" \in Stages
  BY StageNames
<1> QED
  BY <1>3, <1>4, <1>5, FreshKeeps

LEMMA RestartKeeps ==
    ASSUME OrderTxInv, NEW p \in Procs, NEW pc \in Stages, NEW n \in 1..RetryLimit,
           Goto(p, Fresh(pc, n)), UNCHANGED <<db, schedules, op>>,
           \/ pc \in {"start", "schedule", "ended"}
           \/ pc = "own" /\ op[p].kind # "remove"
    PROVE  OrderTxInv'
<1>1. PICK t : t = Fresh(pc, n)
  OBVIOUS
<1>2. tx' = [tx EXCEPT ![p] = t]
  BY <1>1 DEF Goto
<1>3. t \in {Fresh(pc, n), [Fresh(pc, n) EXCEPT !.result = "none"]} /\ "none" \in Results
  BY <1>1, StageNames
<1> QED
  BY <1>2, <1>3, FreshKeeps

LEMMA ReadScheduleKeeps ==
    ASSUME OrderTxInv, NEW p \in Procs, ReadSchedule(p)
    PROVE  OrderTxInv'
<1>1. UNCHANGED <<db, schedules, op>>
  BY DEF ReadSchedule
<1>2. "schedule" \in Stages /\ "own" \in Stages /\ "absent" \in Results /\ 1 \in 1..RetryLimit
  BY StageNames
<1>3. CASE op[p].kind = "remove"
  <2>1. Goto(p, Fresh("schedule", 1))
    BY <1>3 DEF ReadSchedule
  <2> QED
    BY <1>1, <1>2, <2>1, RestartKeeps
<1>4. CASE op[p].kind # "remove" /\ Item(p) \in schedules
  <2>1. Goto(p, Fresh("own", 1))
    BY <1>4 DEF ReadSchedule
  <2> QED
    BY <1>1, <1>2, <1>4, <2>1, RestartKeeps
<1>5. CASE op[p].kind # "remove" /\ Item(p) \notin schedules
  <2>1. Ended(p, "absent")
    BY <1>5 DEF ReadSchedule
  <2> QED
    BY <1>1, <1>2, <2>1, EndedKeeps
<1> QED
  BY <1>3, <1>4, <1>5

LEMMA IntegrityErrorKeeps ==
    ASSUME OrderTxInv, NEW p \in Procs, IntegrityError(p), UNCHANGED <<db, schedules, op>>
    PROVE  OrderTxInv'
<1>1. PICK n \in 1..RetryLimit : n = tx[p].attempt
  BY AttemptType DEF OrderTxInv
<1>2. "own" \in Stages /\ "died" \in Results /\ "gave_up" \in Results
  BY StageNames
<1>3. CASE op[p].kind = "remove"
  BY <1>2, <1>3, EndedKeeps DEF IntegrityError
<1>4. CASE op[p].kind # "remove" /\ n = RetryLimit
  BY <1>1, <1>2, <1>4, EndedKeeps DEF IntegrityError
<1>5. CASE op[p].kind # "remove" /\ n # RetryLimit
  <2>1. n + 1 \in 1..RetryLimit
    BY <1>5, OrderTxAssumption
  <2>2. PICK m \in 1..RetryLimit : m = n + 1
    BY <2>1
  <2>3. Goto(p, Fresh("own", m))
    BY <1>1, <1>5, <2>2 DEF IntegrityError
  <2> QED
    BY <1>2, <1>5, <2>3, RestartKeeps
<1> QED
  BY <1>3, <1>4, <1>5

LEMMA LockScheduleKeeps ==
    ASSUME OrderTxInv, NEW p \in Procs, LockSchedule(p)
    PROVE  OrderTxInv'
<1> DEFINE t == [tx[p] EXCEPT !.pc = "own", !.held = {ScheduleLock(Item(p))}]
<1>1. UNCHANGED <<db, schedules, op>> /\ tx[p].pc = "schedule" /\ Ready(p)
  BY DEF LockSchedule
<1>2. CASE Item(p) \in schedules
  <2>1. PICK S \in SUBSET Items : tx[p] \in Transactions(S)
    BY DEF OrderTxInv, TypeOK
  <2>2. TypeOK /\ tx' = [tx EXCEPT ![p] = t]
    BY <1>2 DEF LockSchedule, Goto, OrderTxInv
  <2>3. ScheduleLock(Item(p)) \in {"row", "schedule"} \X Items
    BY <2>2, OpType DEF ScheduleLock
  <2>4. t \in Transactions(S)
    BY <2>1, <2>3, StageNames DEF Transactions
  <2>5. /\ t.pc = "own" /\ t.held = {ScheduleLock(Item(p))} /\ t.own = NoRow /\ t.writes = <<>>
        /\ t.work = EmptyTable /\ t.touched = {} /\ t.fetched = [g \in Groups |-> <<>>]
        /\ tx[p].work = EmptyTable /\ ~t.placing
    BY <1>1, <2>1 DEF Transactions, OrderTxInv, Sound, FollowsItsCourse
  <2>6. tx'[p] = t
    BY <2>2, OnlyOne
  <2> HIDE DEF t
  <2>7. View(p)' = View(p) /\ UniqueKeys(View(p))
    BY <1>1, <2>5, <2>6 DEF View, OrderTxInv, Sound
  <2>8. WorksOnItsRows(p)' /\ TouchesItsKeys(p)'
    BY <2>5, <2>6 DEF WorksOnItsRows, TouchesItsKeys, EmptyTable
  <2>9. RemovesItsRow(p)'
    BY <1>1, <1>2, <2>5, <2>6 DEF RemovesItsRow, EmptyTable, Item
  <2>10. FollowsItsCourse(p)'
    BY <2>5, <2>6 DEF FollowsItsCourse
  <2>11. Sound(p)'
    BY <2>7, <2>8, <2>9, <2>10 DEF Sound, UniqueKeys
  <2>12. ASSUME NEW q \in Procs \ {p}
         PROVE  t.held \cap tx[q].held = {} /\ t.touched \cap tx[q].touched = {}
    <3>1. Needs(p) = {ScheduleLock(Item(p))}
      BY <1>1 DEF Needs
    <3> QED
      BY <1>1, <2>5, <3>1, ReadyIsFree
  <2>13. \E T \in SUBSET Items : t \in Transactions(T)
    BY <2>4
  <2> QED
    BY <1>1, <2>2, <2>11, <2>12, <2>13, QuietStep
<1>3. CASE Item(p) \notin schedules
  <2>1. Ended(p, "absent") /\ "absent" \in Results
    BY <1>3, StageNames DEF LockSchedule
  <2> QED
    BY <1>1, <2>1, EndedKeeps
<1> QED
  BY <1>2, <1>3


-----------------------------------------------------------------------------
(* Fetching rows.                                                          *)

LEMMA ViewType ==
    ASSUME TypeOK, NEW p \in Procs
    PROVE  /\ DOMAIN View(p) \subseteq Items
           /\ View(p) \in [DOMAIN View(p) -> Rows]
           /\ \A i \in DOMAIN View(p) :
                 View(p)[i] = IF i \in DOMAIN tx[p].work THEN tx[p].work[i] ELSE db[i]
           /\ \A i : i \in DOMAIN View(p) <=>
                 IF i \in DOMAIN tx[p].work THEN tx[p].work[i] # NoRow ELSE i \in DOMAIN db
<1>1. PICK S \in SUBSET Items : tx[p] \in Transactions(S)
  BY DEF TypeOK
<1>2. tx[p].work \in [S -> Rows \cup {NoRow}]
  BY <1>1 DEF Transactions
<1>3. PICK w : w = tx[p].work
  OBVIOUS
<1>4. View(p) = [i \in {j \in DOMAIN db \cup DOMAIN w : j \in DOMAIN w => w[j] # NoRow} |->
                    IF i \in DOMAIN w THEN w[i] ELSE db[i]]
  BY <1>3 DEF View
<1>5. PICK T \in SUBSET Items : db \in [T -> Rows]
  BY DEF TypeOK
<1> QED
  BY <1>2, <1>3, <1>4, <1>5

LEMMA RowType ==
    ASSUME NEW row \in Rows
    PROVE  /\ row.group \in Groups /\ row.position \in Nat /\ row.position > 0
           /\ row = [group |-> row.group, position |-> row.position]
           /\ KeyOf(row) \in Groups \X Nat
           /\ row # NoRow
BY OrderTxAssumption DEF Rows, KeyOf

LEMMA FetchGroupType ==
    ASSUME TypeOK, NEW p \in Procs, UniqueKeys(View(p)), NEW g
    PROVE  LET S == Siblings(View(p), g)
           IN  /\ IsFiniteSet(S) /\ S \subseteq Items
               /\ Lists(FetchGroup(View(p), g), S, Cardinality(S))
               /\ FetchGroup(View(p), g) \in Seq(Items)
<1> DEFINE S == Siblings(View(p), g)
<1>1. S \subseteq Items /\ S \subseteq DOMAIN View(p)
  BY ViewType DEF Siblings
<1>2. IsFiniteSet(S)
  BY <1>1, OrderTxAssumption, FS_Subset
<1>3. PICK r : r = View(p)
  OBVIOUS
<1>4. PICK T : T = S
  OBVIOUS
<1>5. \A i \in T : r[i].position \in Int /\ r[i].group = g
  <2>1. \A i \in T : r[i] \in Rows /\ r[i].group = g
    BY <1>1, <1>3, <1>4, ViewType DEF Siblings
  <2> QED
    BY <2>1, RowType
<1>6. \A i, j \in T : r[i].position = r[j].position => i = j
  BY <1>1, <1>3, <1>4, <1>5 DEF UniqueKeys, KeyOf
<1>7. Lists(OrderByPosition(r, T), T, Cardinality(T)) /\ Cardinality(T) \in Nat
  BY <1>2, <1>4, <1>5, <1>6, OrderByPositionLists, FS_CardinalityType
<1>8. FetchGroup(View(p), g) = OrderByPosition(r, T)
  BY <1>3, <1>4 DEF FetchGroup
<1>9. PICK f : f = OrderByPosition(r, T)
  OBVIOUS
<1>10. PICK n \in Nat : n = Cardinality(T)
  BY <1>7
<1>11. f \in [1..n -> T]
  BY <1>7, <1>9, <1>10 DEF Lists
<1>12. f \in Seq(Items)
  BY <1>1, <1>4, <1>11
<1> QED
  BY <1>1, <1>2, <1>4, <1>7, <1>8, <1>9, <1>12

LEMMA GroupsToFetchType ==
    ASSUME TypeOK, NEW p \in Procs, NEW row \in Rows \cup {NoRow}
    PROVE  GroupsToFetch(p, row) \in Seq(Groups)
<1>1. PICK g \in Groups : g = op[p].group
  BY OpType
<1>2. CASE row = NoRow
  BY <1>1, <1>2 DEF GroupsToFetch
<1>3. CASE row # NoRow
  <2>1. PICK h \in Groups : h = row.group
    BY <1>3, RowType
  <2>2. <<h>> \in Seq(Groups) /\ <<g, h>> \in Seq(Groups) /\ <<h, g>> \in Seq(Groups)
    OBVIOUS
  <2> QED
    BY <1>1, <1>3, <2>1, <2>2 DEF GroupsToFetch
<1> QED
  BY <1>2, <1>3

LEMMA LockOwnKeeps ==
    ASSUME OrderTxInv, NEW p \in Procs, LockOwn(p)
    PROVE  OrderTxInv'
<1> DEFINE row == IF Item(p) \in DOMAIN db THEN db[Item(p)] ELSE NoRow
           pc == IF row = NoRow /\ op[p].kind = "remove" THEN "commit" ELSE "fetch"
           t == [tx[p] EXCEPT !.pc = pc, !.own = row, !.groups = GroupsToFetch(p, row),
                              !.held = @ \cup Needs(p)]
<1>1. UNCHANGED <<db, schedules, op>> /\ tx[p].pc = "own" /\ Ready(p) /\ TypeOK /\ Sound(p)
  BY DEF LockOwn, OrderTxInv
<1>2. PICK S \in SUBSET Items : tx[p] \in Transactions(S)
  BY <1>1 DEF TypeOK
<1>3. tx' = [tx EXCEPT ![p] = t]
  BY <1>1 DEF LockOwn, Goto
<1>4. row \in Rows \cup {NoRow}
  BY <1>1 DEF TypeOK
<1>5. /\ pc \in {"fetch", "commit"}
      /\ row = NoRow <=> Item(p) \notin DOMAIN db
  <2>1. Item(p) \in DOMAIN db => row \in Rows
    BY <1>1 DEF TypeOK
  <2> QED
    BY <2>1, RowType
<1>6. GroupsToFetch(p, row) \in Seq(Groups)
  BY <1>1, <1>4, GroupsToFetchType
<1>7. Needs(p) = {RowLock(i) : i \in {Item(p)} \cap DOMAIN db}
  BY <1>1 DEF Needs
<1>8. Needs(p) \subseteq {"row", "schedule"} \X Items
  BY <1>1, <1>7, OpType DEF RowLock
<1> HIDE DEF row, pc
<1>9. t \in Transactions(S)
  BY <1>2, <1>4, <1>5, <1>6, <1>8, StageNames DEF Transactions
<1>10. /\ t.pc = pc /\ t.own = row /\ t.writes = <<>> /\ t.work = EmptyTable
       /\ t.touched = {} /\ t.fetched = [g \in Groups |-> <<>>]
       /\ t.held = tx[p].held \cup Needs(p) /\ tx[p].work = EmptyTable
       /\ ~t.placing
  BY <1>1, <1>2, <1>5 DEF Transactions, Sound, FollowsItsCourse
<1>11. tx'[p] = t
  BY <1>1, <1>3, OnlyOne
<1> HIDE DEF t
<1>12. View(p)' = View(p)
  BY <1>1, <1>10, <1>11 DEF View
<1>13. WorksOnItsRows(p)'
  <2>1. row # NoRow => Item(p) \in DOMAIN db /\ RowLock(Item(p)) \in t.held
    BY <1>7, <1>10 DEF row
  <2> QED
    BY <1>1, <1>10, <1>11, <2>1 DEF WorksOnItsRows, EmptyTable, Mine, Item
<1>14. TouchesItsKeys(p)'
  BY <1>10, <1>11 DEF TouchesItsKeys, EmptyTable
<1>15. RemovesItsRow(p)'
  <2>1. op[p].kind = "remove" => ScheduleLock(Item(p)) \in tx[p].held /\ Item(p) \in schedules
    BY <1>1 DEF Sound, RemovesItsRow
  <2>2. pc = "commit" <=> op[p].kind = "remove" /\ row = NoRow
    BY DEF pc
  <2> QED
    BY <1>1, <1>5, <1>10, <1>11, <2>1, <2>2 DEF RemovesItsRow, EmptyTable, Item
<1>16. FollowsItsCourse(p)'
  BY <1>5, <1>10, <1>11 DEF FollowsItsCourse
<1>17. Sound(p)'
  BY <1>1, <1>12, <1>13, <1>14, <1>15, <1>16 DEF Sound, UniqueKeys
<1>18. ASSUME NEW q \in Procs \ {p}
       PROVE  t.held \cap tx[q].held = {} /\ t.touched \cap tx[q].touched = {}
  BY <1>1, <1>10, ReadyIsFree DEF OrderTxInv, Apart
<1>19. \E T \in SUBSET Items : t \in Transactions(T)
  BY <1>9
<1> QED
  BY <1>1, <1>3, <1>17, <1>18, <1>19, QuietStep


(* A statement after which p has the writes and uncommitted rows of before.*)
LEMMA WritesNothing ==
    ASSUME OrderTxInv, NEW p \in Procs, NEW t,
           UNCHANGED <<db, schedules, op>>, tx' = [tx EXCEPT ![p] = t],
           NEW S \in SUBSET Items, t \in Transactions(S),
           t.work = tx[p].work, t.touched = tx[p].touched, t.writes = tx[p].writes,
           tx[p].held \subseteq t.held,
           \A q \in Procs \ {p} : t.held \cap tx[q].held = {},
           tx[p].pc \in {"fetch", "lock", "validate", "write"},
           t.pc \in {"fetch", "lock", "write", "commit"},
           t.pc \in {"write", "commit"} => tx[p].pc \in {"validate", "write"},
           t.pc # "write" => t.writes = <<>>,
           t.pc \in {"fetch", "lock"} /\ ~t.placing => t.work = EmptyTable,
           t.placing => op[p].kind = "place" /\ t.own # NoRow,
           t.pc = "lock" => t.groups # <<>>,
           t.own # NoRow => Item(p) \in Mine(p)',
           op[p].kind = "remove" => t.own # NoRow,
           t.own = NoRow => tx[p].own = NoRow,
           \A g \in Groups : \A k \in DOMAIN t.fetched[g] : t.fetched[g][k].item \in Mine(p)'
    PROVE  OrderTxInv'
<1>1. tx'[p] = t /\ Sound(p) /\ TypeOK
  BY OnlyOne DEF OrderTxInv
<1>2. View(p)' = View(p)
  BY <1>1 DEF View
<1>3. Mine(p) \subseteq Mine(p)'
  BY <1>1 DEF Mine
<1>4. WorksOnItsRows(p)'
  <2>1. \A k \in DOMAIN tx[p].writes :
          \/ tx[p].writes[k].item \in Mine(p)
          \/ tx[p].writes[k].item = Item(p) /\ tx[p].own = NoRow
    BY <1>1 DEF Sound, WorksOnItsRows
  <2>2. \A k \in DOMAIN t.writes :
          \/ t.writes[k].item \in Mine(p)'
          \/ t.writes[k].item = Item(p) /\ t.own = NoRow
    <3>1. CASE t.own = NoRow
      BY <1>3, <2>1, <3>1
    <3>2. CASE t.own # NoRow
      BY <1>3, <2>1, <3>2
    <3> QED
      BY <3>1, <3>2
  <2>3. DOMAIN t.work \subseteq Mine(p)'
    BY <1>1, <1>3 DEF Sound, WorksOnItsRows
  <2> QED
    BY <1>1, <2>2, <2>3 DEF WorksOnItsRows, Item
<1>5. TouchesItsKeys(p)'
  BY <1>1 DEF Sound, TouchesItsKeys, Item
<1>6. RemovesItsRow(p)'
  BY <1>1 DEF Sound, RemovesItsRow, Item
<1>7. FollowsItsCourse(p)'
  BY <1>1 DEF FollowsItsCourse
<1>8. Sound(p)'
  BY <1>1, <1>2, <1>4, <1>5, <1>6, <1>7 DEF Sound, UniqueKeys
<1>9. \A q \in Procs \ {p} : t.held \cap tx[q].held = {} /\ t.touched \cap tx[q].touched = {}
  BY DEF OrderTxInv, Apart
<1>10. \E T \in SUBSET Items : t \in Transactions(T)
  OBVIOUS
<1> QED
  BY <1>8, <1>9, <1>10, QuietStep

LEMMA Course ==
    ASSUME NEW p \in Procs, Sound(p)
    PROVE  /\ tx[p].placing => op[p].kind = "place" /\ tx[p].own # NoRow
           /\ tx[p].pc \notin {"validate", "write"} => tx[p].writes = <<>>
           /\ tx[p].pc \in {"fetch", "lock", "validate"} /\ ~tx[p].placing =>
                 tx[p].work = EmptyTable
BY DEF Sound, FollowsItsCourse

LEMMA StartFetchKeeps ==
    ASSUME OrderTxInv, NEW p \in Procs, StartFetch(p)
    PROVE  OrderTxInv'
<1> DEFINE todo == FetchGroup(View(p), Head(tx[p].groups))
<1>1. UNCHANGED <<db, schedules, op>> /\ tx[p].pc = "fetch" /\ TypeOK /\ Sound(p)
  BY DEF StartFetch, OrderTxInv
<1>2. PICK S \in SUBSET Items : tx[p] \in Transactions(S)
  BY <1>1 DEF TypeOK
<1>3. PICK t : t = [tx[p] EXCEPT !.pc = "lock", !.todo = todo]
  OBVIOUS
<1>4. tx' = [tx EXCEPT ![p] = t]
  BY <1>3 DEF StartFetch, Goto
<1>5. todo \in Seq(Items)
  BY <1>1, FetchGroupType DEF Sound
<1> HIDE DEF todo
<1>6. t \in Transactions(S)
  BY <1>2, <1>3, <1>5, StageNames DEF Transactions
<1>7. /\ t.pc = "lock" /\ t.work = tx[p].work /\ t.touched = tx[p].touched
      /\ t.writes = tx[p].writes /\ t.held = tx[p].held /\ t.own = tx[p].own
      /\ t.fetched = tx[p].fetched /\ t.placing = tx[p].placing
      /\ t.pc = "lock" => t.groups # <<>>
  BY <1>2, <1>3 DEF Transactions, StartFetch
<1>8. tx'[p] = t
  BY <1>1, <1>4, OnlyOne
<1>9. Mine(p)' = Mine(p)
  BY <1>1, <1>7, <1>8 DEF Mine
<1>10. \A q \in Procs \ {p} : t.held \cap tx[q].held = {}
  BY <1>7 DEF OrderTxInv, Apart
<1>11. t.own # NoRow => Item(p) \in Mine(p)'
  BY <1>1, <1>7, <1>9 DEF Sound, WorksOnItsRows
<1>12. op[p].kind = "remove" => t.own # NoRow
  BY <1>1, <1>7 DEF Sound, RemovesItsRow
<1>13. \A g \in Groups : \A k \in DOMAIN t.fetched[g] : t.fetched[g][k].item \in Mine(p)'
  BY <1>1, <1>7, <1>9 DEF Sound, WorksOnItsRows
<1>c. /\ tx[p].placing => op[p].kind = "place" /\ tx[p].own # NoRow
      /\ tx[p].pc \notin {"validate", "write"} => tx[p].writes = <<>>
      /\ tx[p].pc \in {"fetch", "lock", "validate"} /\ ~tx[p].placing => tx[p].work = EmptyTable
  BY <1>1, Course
<1> QED
  BY <1>c, <1>1, <1>4, <1>6, <1>7, <1>10, <1>11, <1>12, <1>13, WritesNothing

LEMMA EndFetchKeeps ==
    ASSUME OrderTxInv, NEW p \in Procs, EndFetch(p)
    PROVE  OrderTxInv'
<1>1. UNCHANGED <<db, schedules, op>> /\ tx[p].pc = "lock" /\ TypeOK /\ Sound(p)
  BY DEF EndFetch, OrderTxInv
<1>2. PICK S \in SUBSET Items : tx[p] \in Transactions(S)
  BY <1>1 DEF TypeOK
<1>3. PICK t : t = [tx[p] EXCEPT !.pc = "fetch", !.groups = Tail(@)]
  OBVIOUS
<1>4. tx' = [tx EXCEPT ![p] = t]
  BY <1>3 DEF EndFetch, Goto
<1>5. Tail(tx[p].groups) \in Seq(Groups)
  <2>1. tx[p].groups \in Seq(Groups) /\ tx[p].groups # <<>>
    BY <1>1, <1>2 DEF Transactions, Sound, FollowsItsCourse
  <2> QED
    BY <2>1
<1>6. t \in Transactions(S)
  BY <1>2, <1>3, <1>5, StageNames DEF Transactions
<1>7. /\ t.pc = "fetch" /\ t.work = tx[p].work /\ t.touched = tx[p].touched
      /\ t.writes = tx[p].writes /\ t.held = tx[p].held /\ t.own = tx[p].own
      /\ t.fetched = tx[p].fetched /\ t.placing = tx[p].placing
  BY <1>2, <1>3 DEF Transactions
<1>8. tx'[p] = t
  BY <1>1, <1>4, OnlyOne
<1>9. Mine(p)' = Mine(p)
  BY <1>1, <1>7, <1>8 DEF Mine
<1>10. \A q \in Procs \ {p} : t.held \cap tx[q].held = {}
  BY <1>7 DEF OrderTxInv, Apart
<1>11. t.own # NoRow => Item(p) \in Mine(p)'
  BY <1>1, <1>7, <1>9 DEF Sound, WorksOnItsRows
<1>12. op[p].kind = "remove" => t.own # NoRow
  BY <1>1, <1>7 DEF Sound, RemovesItsRow
<1>13. \A g \in Groups : \A k \in DOMAIN t.fetched[g] : t.fetched[g][k].item \in Mine(p)'
  BY <1>1, <1>7, <1>9 DEF Sound, WorksOnItsRows
<1>c. /\ tx[p].placing => op[p].kind = "place" /\ tx[p].own # NoRow
      /\ tx[p].pc \notin {"validate", "write"} => tx[p].writes = <<>>
      /\ tx[p].pc \in {"fetch", "lock", "validate"} /\ ~tx[p].placing => tx[p].work = EmptyTable
  BY <1>1, Course
<1> QED
  BY <1>c, <1>1, <1>4, <1>6, <1>7, <1>10, <1>11, <1>12, <1>13, WritesNothing


LEMMA LockRowKeeps ==
    ASSUME OrderTxInv, NEW p \in Procs, LockRow(p)
    PROVE  OrderTxInv'
<1>1. UNCHANGED <<db, schedules, op>> /\ tx[p].pc = "lock" /\ TypeOK /\ Sound(p) /\ Ready(p)
  BY DEF LockRow, OrderTxInv
<1>2. PICK S \in SUBSET Items : tx[p] \in Transactions(S)
  BY <1>1 DEF TypeOK
<1>3. /\ tx[p].todo \in Seq(Items) /\ tx[p].todo # <<>>
      /\ tx[p].groups \in Seq(Groups) /\ tx[p].groups # <<>>
      /\ tx[p].fetched \in [Groups -> Seq(Entries)]
  BY <1>1, <1>2 DEF Transactions, Sound, FollowsItsCourse, LockRow
<1>4. PICK i \in Items : i = Head(tx[p].todo)
  BY <1>3
<1>5. PICK g \in Groups : g = Head(tx[p].groups)
  BY <1>3
<1> DEFINE here == i \in DOMAIN View(p) /\ View(p)[i].group = g
           entry == [item |-> i, position |-> View(p)[i].position]
           new == IF here THEN Append(tx[p].fetched[g], entry) ELSE tx[p].fetched[g]
           t == [tx[p] EXCEPT !.todo = Tail(@), !.held = @ \cup Needs(p), !.fetched[g] = new]
<1>6. tx' = [tx EXCEPT ![p] = t]
  BY <1>4, <1>5 DEF LockRow, Goto
<1>7. Needs(p) = {RowLock(i)}
  BY <1>1, <1>3, <1>4 DEF Needs
<1>8. Needs(p) \subseteq {"row", "schedule"} \X Items
  BY <1>7 DEF RowLock
<1>9. /\ new \in Seq(Entries)
      /\ \A k \in DOMAIN new : \/ k \in DOMAIN tx[p].fetched[g] /\ new[k] = tx[p].fetched[g][k]
                               \/ here /\ new[k].item = i
  <2>1. CASE here
    <3>1. View(p)[i] \in Rows
      BY <1>1, <2>1, ViewType
    <3>2. entry \in Entries
      BY <3>1, RowType DEF Entries
    <3>3. PICK f \in Seq(Entries) : f = tx[p].fetched[g]
      BY <1>3
    <3>4. PICK e \in Entries : e = entry
      BY <3>2
    <3>5. /\ Append(f, e) \in Seq(Entries)
          /\ \A k \in DOMAIN Append(f, e) : \/ k \in DOMAIN f /\ Append(f, e)[k] = f[k]
                                            \/ Append(f, e)[k] = e
      OBVIOUS
    <3> QED
      BY <2>1, <3>3, <3>4, <3>5
  <2>2. CASE ~here
    BY <1>3, <2>2
  <2> QED
    BY <2>1, <2>2
<1>10. PICK fetched \in [Groups -> Seq(Entries)] : fetched = [tx[p].fetched EXCEPT ![g] = new]
  BY <1>3, <1>9
<1>11. Tail(tx[p].todo) \in Seq(Items)
  BY <1>3
<1>12. PICK u : u = t
  OBVIOUS
<1>13. u \in Transactions(S)
  BY <1>2, <1>8, <1>10, <1>11, <1>12, StageNames DEF Transactions
<1>14. /\ u.pc = "lock" /\ u.work = tx[p].work /\ u.touched = tx[p].touched
       /\ u.writes = tx[p].writes /\ u.held = tx[p].held \cup Needs(p) /\ u.own = tx[p].own
       /\ u.fetched = fetched /\ u.groups = tx[p].groups /\ u.placing = tx[p].placing
  BY <1>1, <1>2, <1>10, <1>12 DEF Transactions
<1>15. tx' = [tx EXCEPT ![p] = u] /\ tx'[p] = u
  BY <1>1, <1>6, <1>12, OnlyOne
<1>16. Mine(p) \subseteq Mine(p)'
  BY <1>1, <1>14, <1>15 DEF Mine
<1>17. \A q \in Procs \ {p} : u.held \cap tx[q].held = {}
  BY <1>1, <1>14, ReadyIsFree DEF OrderTxInv, Apart
<1>18. u.own # NoRow => Item(p) \in Mine(p)'
  BY <1>1, <1>14, <1>16 DEF Sound, WorksOnItsRows
<1>19. op[p].kind = "remove" => u.own # NoRow
  BY <1>1, <1>14 DEF Sound, RemovesItsRow
<1>20. here => i \in Mine(p)'
  <2>1. here => i \in DOMAIN db \/ i \in DOMAIN tx[p].work
    BY <1>1, ViewType
  <2>2. i \in DOMAIN tx[p].work => i \in Mine(p)
    BY <1>1 DEF Sound, WorksOnItsRows
  <2>3. i \in DOMAIN db => i \in Mine(p)'
    BY <1>1, <1>7, <1>14, <1>15 DEF Mine
  <2> QED
    BY <1>16, <2>1, <2>2, <2>3
<1>21. ASSUME NEW h \in Groups, NEW k \in DOMAIN fetched[h]
       PROVE  fetched[h][k].item \in Mine(p)'
  <2>1. \A j \in DOMAIN tx[p].fetched[h] : tx[p].fetched[h][j].item \in Mine(p)
    BY <1>1 DEF Sound, WorksOnItsRows
  <2> HIDE DEF new, here
  <2>2. fetched[h] = IF h = g THEN new ELSE tx[p].fetched[h]
    BY <1>3, <1>10
  <2> QED
    BY <1>9, <1>16, <1>20, <2>1, <2>2
<1> HIDE DEF t
<1>c. /\ tx[p].placing => op[p].kind = "place" /\ tx[p].own # NoRow
      /\ tx[p].pc \notin {"validate", "write"} => tx[p].writes = <<>>
      /\ tx[p].pc \in {"fetch", "lock", "validate"} /\ ~tx[p].placing => tx[p].work = EmptyTable
  BY <1>1, Course
<1> QED
  BY <1>c, <1>1, <1>3, <1>13, <1>14, <1>15, <1>17, <1>18, <1>19, <1>21, WritesNothing

LEMMA EndWritesKeeps ==
    ASSUME OrderTxInv, NEW p \in Procs, EndWrites(p)
    PROVE  OrderTxInv'
<1>1. /\ UNCHANGED <<db, schedules, op>> /\ tx[p].pc = "write" /\ tx[p].writes = <<>>
      /\ TypeOK /\ Sound(p)
  BY DEF EndWrites, OrderTxInv
<1>2. PICK S \in SUBSET Items : tx[p] \in Transactions(S)
  BY <1>1 DEF TypeOK
<1>3. PICK t : t = [tx[p] EXCEPT !.pc = "commit"]
  OBVIOUS
<1>4. tx' = [tx EXCEPT ![p] = t]
  BY <1>3 DEF EndWrites, Goto
<1>5. t \in Transactions(S)
  BY <1>2, <1>3, StageNames DEF Transactions
<1>6. /\ t.pc = "commit" /\ t.work = tx[p].work /\ t.touched = tx[p].touched
      /\ t.writes = tx[p].writes /\ t.held = tx[p].held /\ t.own = tx[p].own
      /\ t.fetched = tx[p].fetched /\ t.placing = tx[p].placing
  BY <1>2, <1>3 DEF Transactions
<1>7. tx'[p] = t
  BY <1>1, <1>4, OnlyOne
<1>8. Mine(p)' = Mine(p)
  BY <1>1, <1>6, <1>7 DEF Mine
<1>9. \A q \in Procs \ {p} : t.held \cap tx[q].held = {}
  BY <1>6 DEF OrderTxInv, Apart
<1>10. t.own # NoRow => Item(p) \in Mine(p)'
  BY <1>1, <1>6, <1>8 DEF Sound, WorksOnItsRows
<1>11. op[p].kind = "remove" => t.own # NoRow
  BY <1>1, <1>6 DEF Sound, RemovesItsRow
<1>12. \A g \in Groups : \A k \in DOMAIN t.fetched[g] : t.fetched[g][k].item \in Mine(p)'
  BY <1>1, <1>6, <1>8 DEF Sound, WorksOnItsRows
<1>c. /\ tx[p].placing => op[p].kind = "place" /\ tx[p].own # NoRow
      /\ tx[p].pc \notin {"validate", "write"} => tx[p].writes = <<>>
      /\ tx[p].pc \in {"fetch", "lock", "validate"} /\ ~tx[p].placing => tx[p].work = EmptyTable
  BY <1>1, Course
<1> QED
  BY <1>c, <1>1, <1>4, <1>5, <1>6, <1>7, <1>9, <1>10, <1>11, <1>12, WritesNothing

LEMMA ValidateKeeps ==
    ASSUME OrderTxInv, NEW p \in Procs, Validate(p)
    PROVE  OrderTxInv'
<1>1. UNCHANGED <<db, schedules, op>> /\ tx[p].pc = "validate" /\ TypeOK /\ Sound(p)
  BY DEF Validate, OrderTxInv
<1>2. CASE Ended(p, "died")
  BY <1>1, <1>2, StageNames, EndedKeeps
<1>3. CASE Goto(p, [tx[p] EXCEPT !.pc = "write"])
  <2>2. PICK S \in SUBSET Items : tx[p] \in Transactions(S)
    BY <1>1 DEF TypeOK
  <2>3. PICK t : t = [tx[p] EXCEPT !.pc = "write"]
    OBVIOUS
  <2>4. tx' = [tx EXCEPT ![p] = t]
    BY <1>3, <2>3 DEF Goto
  <2>5. t \in Transactions(S)
    BY <2>2, <2>3, StageNames DEF Transactions
  <2>6. /\ t.pc = "write" /\ t.work = tx[p].work /\ t.touched = tx[p].touched
        /\ t.writes = tx[p].writes /\ t.held = tx[p].held /\ t.own = tx[p].own
        /\ t.fetched = tx[p].fetched /\ t.placing = tx[p].placing
    BY <2>2, <2>3 DEF Transactions
  <2>7. tx'[p] = t
    BY <1>1, <2>4, OnlyOne
  <2>8. Mine(p)' = Mine(p)
    BY <1>1, <2>6, <2>7 DEF Mine
  <2>9. \A q \in Procs \ {p} : t.held \cap tx[q].held = {}
    BY <2>6 DEF OrderTxInv, Apart
  <2>10. t.own # NoRow => Item(p) \in Mine(p)'
    BY <1>1, <2>6, <2>8 DEF Sound, WorksOnItsRows
  <2>11. op[p].kind = "remove" => t.own # NoRow
    BY <1>1, <2>6 DEF Sound, RemovesItsRow
  <2>12. \A g \in Groups : \A k \in DOMAIN t.fetched[g] : t.fetched[g][k].item \in Mine(p)'
    BY <1>1, <2>6, <2>8 DEF Sound, WorksOnItsRows
  <2>c. /\ tx[p].placing => op[p].kind = "place" /\ tx[p].own # NoRow
        /\ tx[p].pc \notin {"validate", "write"} => tx[p].writes = <<>>
        /\ tx[p].pc \in {"fetch", "lock", "validate"} /\ ~tx[p].placing => tx[p].work = EmptyTable
    BY <1>1, Course
  <2> QED
    BY <2>c, <1>1, <2>4, <2>5, <2>6, <2>7, <2>9, <2>10, <2>11, <2>12, WritesNothing
<1> QED
  BY <1>2, <1>3 DEF Validate


LEMMA PlaceNextKeeps ==
    ASSUME OrderTxInv, NEW p \in Procs, PlaceNext(p)
    PROVE  OrderTxInv'
<1>1. /\ UNCHANGED <<db, schedules, op>> /\ tx[p].pc = "write" /\ tx[p].writes = <<>>
      /\ op[p].kind = "place" /\ TypeOK /\ Sound(p)
  BY DEF PlaceNext, OrderTxInv
<1>2. PICK S \in SUBSET Items : tx[p] \in Transactions(S)
  BY <1>1 DEF TypeOK
<1>3. Item(p) \in DOMAIN View(p) /\ Item(p) \in Mine(p)
  <2>1. \A i \in DOMAIN tx[p].work : tx[p].work[i] # NoRow
    BY <1>1 DEF Sound, RemovesItsRow
  <2>2. Item(p) \in DOMAIN tx[p].work \/ Item(p) \in Mine(p)
    <3>1. CASE tx[p].own = NoRow
      BY <1>1, <3>1 DEF Sound, RemovesItsRow
    <3>2. CASE tx[p].own # NoRow
      BY <1>1, <3>2 DEF Sound, WorksOnItsRows
    <3> QED
      BY <3>1, <3>2
  <2>3. Item(p) \in DOMAIN tx[p].work \/ Item(p) \in DOMAIN db
    BY <1>1, <2>2 DEF Mine, Sound, TouchesItsKeys
  <2>4. Item(p) \in DOMAIN tx[p].work => Item(p) \in Mine(p)
    BY <1>1 DEF Sound, WorksOnItsRows
  <2> QED
    BY <1>1, <2>1, <2>2, <2>3, <2>4, ViewType
<1>4. PICK row \in Rows : row = View(p)[Item(p)]
  BY <1>1, <1>3, ViewType
<1>5. PICK g \in Groups : g = row.group
  BY RowType
<1> DEFINE t == [tx[p] EXCEPT !.pc = "fetch", !.placing = TRUE, !.own = row,
                              !.groups = <<g>>, !.fetched[g] = <<>>]
<1>6. tx' = [tx EXCEPT ![p] = t]
  BY <1>4, <1>5 DEF PlaceNext, Goto
<1>7. /\ tx[p].fetched \in [Groups -> Seq(Entries)]
      /\ <<>> \in Seq(Entries) /\ <<g>> \in Seq(Groups)
  BY <1>2 DEF Transactions
<1>8. PICK fetched \in [Groups -> Seq(Entries)] : fetched = [tx[p].fetched EXCEPT ![g] = <<>>]
  BY <1>7
<1>9. PICK u : u = t
  OBVIOUS
<1>10. u \in Transactions(S)
  BY <1>2, <1>7, <1>8, <1>9, StageNames DEF Transactions
<1>11. /\ u.pc = "fetch" /\ u.work = tx[p].work /\ u.touched = tx[p].touched
       /\ u.writes = tx[p].writes /\ u.held = tx[p].held /\ u.own = row /\ u.fetched = fetched
       /\ u.placing = TRUE
  BY <1>1, <1>2, <1>8, <1>9 DEF Transactions
<1>12. tx' = [tx EXCEPT ![p] = u] /\ tx'[p] = u
  BY <1>1, <1>6, <1>9, OnlyOne
<1>13. Mine(p)' = Mine(p)
  BY <1>1, <1>11, <1>12 DEF Mine
<1>14. \A q \in Procs \ {p} : u.held \cap tx[q].held = {}
  BY <1>11 DEF OrderTxInv, Apart
<1>15. row # NoRow
  BY RowType
<1>16. Item(p) \in Mine(p)'
  BY <1>3, <1>13
<1>17. ASSUME NEW h \in Groups, NEW k \in DOMAIN fetched[h]
       PROVE  fetched[h][k].item \in Mine(p)'
  <2>1. \A j \in DOMAIN tx[p].fetched[h] : tx[p].fetched[h][j].item \in Mine(p)
    BY <1>1 DEF Sound, WorksOnItsRows
  <2>2. fetched[h] = IF h = g THEN <<>> ELSE tx[p].fetched[h]
    BY <1>7, <1>8
  <2> QED
    BY <1>13, <2>1, <2>2
<1> HIDE DEF t
<1>c. /\ tx[p].placing => op[p].kind = "place" /\ tx[p].own # NoRow
      /\ tx[p].pc \notin {"validate", "write"} => tx[p].writes = <<>>
      /\ tx[p].pc \in {"fetch", "lock", "validate"} /\ ~tx[p].placing => tx[p].work = EmptyTable
  BY <1>1, Course
<1> QED
  BY <1>c, <1>1, <1>10, <1>11, <1>12, <1>14, <1>15, <1>16, <1>17, WritesNothing


-----------------------------------------------------------------------------
(* Writing and committing.                                                 *)

(* A row has one transaction that may change it.                           *)
LEMMA MineApart ==
    ASSUME OrderTxInv, NEW p \in Procs, NEW q \in Procs, p # q
    PROVE  Mine(p) \cap Mine(q) = {}
<1>1. SUFFICES ASSUME NEW i \in Mine(p), i \in Mine(q) PROVE FALSE
  OBVIOUS
<1>2. tx[p].held \cap tx[q].held = {} /\ tx[p].touched \cap tx[q].touched = {}
  BY DEF OrderTxInv, Apart
<1>3. /\ \A j \in Items : ItemKey(j) \in tx[p].touched => j \notin DOMAIN db
      /\ \A j \in Items : ItemKey(j) \in tx[q].touched => j \notin DOMAIN db
  BY DEF OrderTxInv, Sound, TouchesItsKeys
<1> QED
  BY <1>1, <1>2, <1>3 DEF Mine

LEMMA AbortKeeps ==
    ASSUME OrderTxInv, NEW p \in Procs, AbortDeadlock(p)
    PROVE  OrderTxInv'
BY EndedKeeps, StageNames DEF AbortDeadlock

(* A transaction inserts no row but its own item's.                        *)
LEMMA InsertsCreated ==
    ASSUME OrderTxInv, NEW p \in Procs, NEW i \in DOMAIN View(p), i \notin DOMAIN db
    PROVE  i = Item(p) /\ i \in Created(p)
<1>1. TypeOK /\ Sound(p)
  BY DEF OrderTxInv
<1>2. i \in DOMAIN tx[p].work /\ i \in Items
  BY <1>1, ViewType
<1>3. ItemKey(i) \in tx[p].touched
  BY <1>1, <1>2 DEF Sound, WorksOnItsRows, Mine
<1> QED
  BY <1>1, <1>2, <1>3 DEF Sound, TouchesItsKeys, Created

(* None is committed behind the removal of its schedule.                   *)
LEMMA InsertsBehindNoRemoval ==
    ASSUME OrderTxInv, NEW p \in Procs, NEW q \in Procs, p # q, tx[p].pc = "commit", Ready(p),
           ScheduleLock(Item(q)) \in tx[q].held, Item(q) \notin DOMAIN db
    PROVE  Item(q) \notin DOMAIN View(p)
<1>1. SUFFICES ASSUME Item(q) \in DOMAIN View(p) PROVE FALSE
  OBVIOUS
<1>2. Item(q) \in Created(p)
  BY <1>1, InsertsCreated
<1>3. ScheduleLock(Item(q)) \in Needs(p)
  BY <1>2 DEF Needs
<1> QED
  BY <1>3, ReadyIsFree

(* What another transaction relies on survives the commit of p.            *)
LEMMA CommitLeavesOthers ==
    ASSUME OrderTxInv, NEW p \in Procs, NEW q \in Procs, p # q,
           db' = View(p), op' = op, tx'[q] = tx[q],
           tx[p].pc = "commit", Ready(p),
           schedules' = IF op[p].kind = "remove" THEN schedules \ {Item(p)} ELSE schedules
    PROVE  Sound(q)'
<1> DEFINE d == db'
           w == tx[q].work
<1>1. TypeOK /\ Sound(p) /\ Sound(q)
  BY DEF OrderTxInv
<1>2. DOMAIN tx[p].work \subseteq Mine(p) /\ Mine(p) \cap Mine(q) = {}
  BY <1>1, MineApart DEF Sound, WorksOnItsRows
<1>3. /\ \A i : i \notin DOMAIN tx[p].work => (i \in DOMAIN d <=> i \in DOMAIN db)
      /\ \A i \in DOMAIN d : d[i] = IF i \in DOMAIN tx[p].work THEN tx[p].work[i] ELSE db[i]
      /\ \A i \in DOMAIN d : i \in DOMAIN tx[p].work => tx[p].work[i] # NoRow
  BY <1>1, ViewType
<1>4. \A i \in Mine(q) : i \notin DOMAIN tx[p].work
  BY <1>2
<1>5. Mine(q) \subseteq Mine(q)'
  BY <1>3, <1>4 DEF Mine
<1>6. DOMAIN w \subseteq Mine(q)
  BY <1>1 DEF Sound, WorksOnItsRows
<1>7. \A i \in DOMAIN d : KeyOf(d[i]) \in tx[q].touched <=> i \in DOMAIN w
  <2>1. SUFFICES ASSUME NEW i \in DOMAIN d
                 PROVE  KeyOf(d[i]) \in tx[q].touched <=> i \in DOMAIN w
    OBVIOUS
  <2>2. CASE i \in DOMAIN tx[p].work
    <3>1. KeyOf(d[i]) \in tx[p].touched
      BY <1>1, <1>3, <2>2 DEF Sound, TouchesItsKeys
    <3>2. KeyOf(d[i]) \notin tx[q].touched
      BY <3>1 DEF OrderTxInv, Apart
    <3> QED
      BY <1>2, <1>6, <2>2, <3>2
  <2>3. CASE i \notin DOMAIN tx[p].work
    BY <1>1, <1>3, <2>3 DEF Sound, TouchesItsKeys
  <2> QED
    BY <2>2, <2>3
<1>8. UniqueKeys(d)
  BY <1>1 DEF Sound, UniqueKeys
<1>9. UniqueKeys(View(q))'
  <2>1. DOMAIN View(q)' = {i \in DOMAIN d \cup DOMAIN w : i \in DOMAIN w => w[i] # NoRow}
    BY DEF View
  <2>2. \A i \in DOMAIN View(q)' : View(q)'[i] = IF i \in DOMAIN w THEN w[i] ELSE d[i]
    BY DEF View
  <2>3. PICK v : v = View(q)'
    OBVIOUS
  <2>4. ASSUME NEW i \in DOMAIN v, NEW j \in DOMAIN v, KeyOf(v[i]) = KeyOf(v[j]) PROVE i = j
    <3>1. CASE i \in DOMAIN w /\ j \in DOMAIN w
      <4>1. i \in DOMAIN View(q) /\ j \in DOMAIN View(q)
        BY <1>1, <2>1, <2>3, <3>1, ViewType
      <4>2. View(q)[i] = v[i] /\ View(q)[j] = v[j]
        BY <1>1, <2>2, <2>3, <3>1, <4>1, ViewType
      <4> QED
        BY <1>1, <2>4, <4>1, <4>2 DEF Sound, UniqueKeys
    <3>2. CASE i \notin DOMAIN w /\ j \notin DOMAIN w
      BY <1>8, <2>1, <2>2, <2>3, <2>4, <3>2 DEF UniqueKeys
    <3>3. ASSUME NEW k \in DOMAIN v, NEW l \in DOMAIN v, k \in DOMAIN w, l \notin DOMAIN w
          PROVE  KeyOf(v[k]) # KeyOf(v[l])
      <4>1. KeyOf(w[k]) \in tx[q].touched
        BY <1>1, <2>1, <2>3, <3>3 DEF Sound, TouchesItsKeys
      <4>2. l \in DOMAIN d /\ KeyOf(d[l]) \notin tx[q].touched
        BY <1>7, <2>1, <2>3, <3>3
      <4> QED
        BY <2>2, <2>3, <3>3, <4>1, <4>2
    <3> QED
      BY <2>4, <3>1, <3>2, <3>3
  <2> QED
    BY <2>3, <2>4 DEF UniqueKeys
<1>10. WorksOnItsRows(q)'
  BY <1>1, <1>5 DEF Sound, WorksOnItsRows, Item
<1>11. TouchesItsKeys(q)'
  <2>1. \A i \in Items : ItemKey(i) \in tx[q].touched =>
           i = Item(q) /\ i \in DOMAIN w /\ i \notin DOMAIN d
    BY <1>1, <1>3, <1>4, <1>6 DEF Sound, TouchesItsKeys
  <2> QED
    BY <1>1, <1>7, <2>1 DEF Sound, TouchesItsKeys, Item
<1>12. RemovesItsRow(q)'
  <2>0. ScheduleLock(Item(q)) \in tx[q].held /\ Item(q) \notin DOMAIN db => Item(q) \notin DOMAIN db'
    BY InsertsBehindNoRemoval
  <2>k. tx[q].own # NoRow /\ Item(q) \in DOMAIN db => Item(q) \in DOMAIN db'
    BY <1>1, <1>3, <1>4 DEF Sound, WorksOnItsRows
  <2>1. CASE op[p].kind # "remove"
    BY <1>1, <2>0, <2>k, <2>1 DEF Sound, RemovesItsRow, Item
  <2>2. CASE op[p].kind = "remove"
    <3>1. ScheduleLock(Item(p)) \in tx[p].held
      BY <1>1, <2>2 DEF Sound, RemovesItsRow
    <3>2. ScheduleLock(Item(p)) \notin tx[q].held
      BY <3>1 DEF OrderTxInv, Apart
    <3>3. ScheduleLock(Item(q)) \in tx[q].held => Item(q) # Item(p)
      BY <3>2
    <3> QED
      BY <1>1, <2>0, <2>k, <2>2, <3>3 DEF Sound, RemovesItsRow, Item
  <2> QED
    BY <2>1, <2>2
<1>13. FollowsItsCourse(q)'
  BY <1>1 DEF Sound, FollowsItsCourse
<1> QED
  BY <1>9, <1>10, <1>11, <1>12, <1>13 DEF Sound


LEMMA CommitKeeps ==
    ASSUME OrderTxInv, NEW p \in Procs, Commit(p)
    PROVE  OrderTxInv'
<1>1. TypeOK /\ Sound(p) /\ tx[p].pc = "commit" /\ Ready(p) /\ op' = op
  BY DEF Commit, OrderTxInv
<1>2. CASE Created(p) \ schedules # {}
  BY <1>1, <1>2, IntegrityErrorKeeps DEF Commit
<1>3. CASE Created(p) \subseteq schedules
  <2>1. /\ db' = View(p)
        /\ schedules' = IF op[p].kind = "remove" THEN schedules \ {Item(p)} ELSE schedules
        /\ Ended(p, "done")
    BY <1>3 DEF Commit
  <2>2. PICK n \in 1..RetryLimit : n = tx[p].attempt
    BY <1>1, AttemptType
  <2>3. PICK t : t = [Fresh("ended", n) EXCEPT !.result = "done"]
    OBVIOUS
  <2>4. tx' = [tx EXCEPT ![p] = t]
    BY <2>1, <2>2, <2>3 DEF Ended, Goto
  <2>5. t \in Transactions({})
    BY <2>3, FreshType, StageNames
  <2>6. /\ t.pc = "ended" /\ t.own = NoRow /\ t.writes = <<>> /\ t.work = EmptyTable /\ t.touched = {}
        /\ t.fetched = [g \in Groups |-> <<>>] /\ t.held = {} /\ t.placing = FALSE
    BY <2>3 DEF Fresh
  <2>7. /\ tx'[p] = t /\ DOMAIN tx' = Procs
        /\ \A q \in Procs \ {p} : tx'[q] = tx[q]
    BY <1>1, <2>4, OnlyOne
  <2>8. DOMAIN db' \subseteq Items /\ db' \in [DOMAIN db' -> Rows] /\ UniqueKeys(db')
    BY <1>1, <2>1, ViewType DEF Sound
  <2>9. Sound(p)'
    <3>1. db' = [i \in DOMAIN db' |-> db'[i]]
      BY <2>8
    <3> QED
      BY <1>1, <2>6, <2>7, <2>8, <3>1, FreshSound
  <2>10. ASSUME NEW q \in Procs, q # p PROVE Sound(q)'
    BY <1>1, <2>1, <2>7, <2>10, CommitLeavesOthers
  <2>11. TypeOK'
    <3>1. \A q \in Procs : \E S \in SUBSET Items : tx'[q] \in Transactions(S)
      BY <1>1, <2>5, <2>7 DEF TypeOK
    <3>2. schedules' \subseteq Items
      BY <1>1, <2>1 DEF TypeOK
    <3> QED
      BY <1>1, <2>7, <2>8, <3>1, <3>2 DEF TypeOK
  <2>12. Apart'
    BY <2>6, <2>7 DEF OrderTxInv, Apart
  <2>13. op[p].kind = "remove" => Item(p) \notin DOMAIN db'
    <3>1. \A i : i \in DOMAIN db' <=>
              IF i \in DOMAIN tx[p].work THEN tx[p].work[i] # NoRow ELSE i \in DOMAIN db
      BY <1>1, <2>1, ViewType
    <3>2. SUFFICES ASSUME op[p].kind = "remove" PROVE Item(p) \notin DOMAIN db'
      OBVIOUS
    <3>3. CASE tx[p].own = NoRow
      <4>1. DOMAIN tx[p].work = {} /\ Item(p) \notin DOMAIN db
        BY <1>1, <3>2, <3>3 DEF Sound, RemovesItsRow, EmptyTable
      <4> QED
        BY <3>1, <4>1
    <3>4. CASE tx[p].own # NoRow
      <4>1. tx[p].writes = <<>>
        BY <1>1 DEF Sound, FollowsItsCourse
      <4>2. Item(p) \in DOMAIN tx[p].work
        BY <1>1, <3>2, <3>4, <4>1 DEF Sound, RemovesItsRow
      <4>3. tx[p].work[Item(p)] = NoRow
        BY <1>1, <3>2, <4>2 DEF Sound, RemovesItsRow
      <4> QED
        BY <3>1, <4>2, <4>3
    <3> QED
      BY <3>3, <3>4
  <2>16. RowsHaveSchedules'
    <3>1. DOMAIN db \subseteq schedules
      BY DEF OrderTxInv, RowsHaveSchedules
    <3>2. SUFFICES ASSUME NEW i \in DOMAIN db' PROVE i \in schedules'
      BY DEF RowsHaveSchedules
    <3>3. i \in schedules
      BY <1>3, <2>1, <3>1, <3>2, InsertsCreated
    <3> QED
      BY <2>1, <2>13, <3>2, <3>3
  <2> QED
    BY <1>1, <2>8, <2>9, <2>10, <2>11, <2>12, <2>16 DEF OrderTxInv, Item
<1> QED
  BY <1>2, <1>3

(* The unique keys of the row to write.                                    *)
LEMMA OccupiedKeys ==
    ASSUME OrderTxInv, NEW p \in Procs, WriteRow(p), NEW w \in Writes, w = Head(tx[p].writes)
    PROVE  /\ w.item \in Items /\ w.row \in Rows \cup {NoRow}
           /\ Occupies(p) = {KeyOf(r) : r \in {w.row} \ {NoRow}}
                              \cup {ItemKey(i) : i \in {w.item} \ DOMAIN View(p)}
BY DEF WriteRow, Occupies, Writes


(* The row a transaction writes is its own, or the one it creates.         *)
LEMMA WritesOwnRow ==
    ASSUME OrderTxInv, NEW p \in Procs, NEW w, tx[p].writes # <<>>, w = Head(tx[p].writes),
           tx[p].pc = "write"
    PROVE  /\ w \in Writes /\ Tail(tx[p].writes) \in Seq(Writes)
           /\ \A k \in DOMAIN Tail(tx[p].writes) :
                 k + 1 \in DOMAIN tx[p].writes /\ k > 0
                 /\ Tail(tx[p].writes)[k] = tx[p].writes[k + 1]
           /\ w.item \in Mine(p) \/ (w.item = Item(p) /\ tx[p].own = NoRow)
           /\ w.row = NoRow <=> op[p].kind = "remove" /\ w.item = Item(p)
           /\ op[p].kind = "remove" /\ w.item = Item(p) => Item(p) \notin DOMAIN tx[p].work
           /\ op[p].kind = "remove" => Item(p) \in DOMAIN db /\ tx[p].own # NoRow
<1>1. PICK writes \in Seq(Writes) : writes = tx[p].writes
  BY DEF OrderTxInv, TypeOK, Transactions
<1>2. 1 \in DOMAIN writes /\ w = writes[1]
  BY <1>1
<1>3. /\ w \in Writes /\ Tail(writes) \in Seq(Writes)
      /\ \A k \in DOMAIN Tail(writes) :
            k + 1 \in DOMAIN writes /\ k > 0 /\ Tail(writes)[k] = writes[k + 1]
  BY <1>1, <1>2
<1>4. WorksOnItsRows(p) /\ RemovesItsRow(p)
  BY DEF OrderTxInv, Sound
<1>5. w.item \in Mine(p) \/ (w.item = Item(p) /\ tx[p].own = NoRow)
  BY <1>1, <1>2, <1>4 DEF WorksOnItsRows
<1>6. /\ w.row = NoRow <=> op[p].kind = "remove" /\ w.item = Item(p)
      /\ op[p].kind = "remove" /\ w.item = Item(p) => Item(p) \notin DOMAIN tx[p].work
      /\ op[p].kind = "remove" => Item(p) \in DOMAIN db /\ tx[p].own # NoRow
  BY <1>1, <1>2, <1>4 DEF RemovesItsRow
<1> QED
  BY <1>1, <1>3, <1>5, <1>6 DEF OrderTxInv

LEMMA WriteRowKeeps ==
    ASSUME OrderTxInv, NEW p \in Procs, WriteRow(p)
    PROVE  OrderTxInv'
<1>1. /\ UNCHANGED <<db, schedules, op>> /\ tx[p].pc = "write" /\ tx[p].writes # <<>> /\ Ready(p)
      /\ TypeOK /\ Sound(p)
  BY DEF WriteRow, OrderTxInv
<1>2. PICK w : w = Head(tx[p].writes)
  OBVIOUS
<1>3. /\ w \in Writes /\ Tail(tx[p].writes) \in Seq(Writes)
      /\ \A k \in DOMAIN Tail(tx[p].writes) :
            k + 1 \in DOMAIN tx[p].writes /\ k > 0
            /\ Tail(tx[p].writes)[k] = tx[p].writes[k + 1]
  BY <1>1, <1>2, WritesOwnRow
<1>4. /\ w.item \in Mine(p) \/ (w.item = Item(p) /\ tx[p].own = NoRow)
      /\ w.row = NoRow <=> op[p].kind = "remove" /\ w.item = Item(p)
      /\ op[p].kind = "remove" /\ w.item = Item(p) => Item(p) \notin DOMAIN tx[p].work
      /\ op[p].kind = "remove" => Item(p) \in DOMAIN db /\ tx[p].own # NoRow
  BY <1>1, <1>2, WritesOwnRow
<1>5. w.item \in Items /\ w.row \in Rows \cup {NoRow}
  BY <1>3 DEF Writes
<1> DEFINE old == IF w.item \in DOMAIN View(p) THEN {KeyOf(View(p)[w.item])} ELSE {}
           exists == tx[p].own = NoRow /\ Item(p) \in DOMAIN db
<1>6. CASE w.row # NoRow /\ (Taken(p, w.item, w.row) \/ exists)
  <2>1. IntegrityError(p)
    BY <1>2, <1>6 DEF WriteRow
  <2> QED
    BY <1>1, <2>1, IntegrityErrorKeeps
<1>7. CASE ~(w.row # NoRow /\ (Taken(p, w.item, w.row) \/ exists))
  <2> DEFINE work == [i \in DOMAIN tx[p].work \cup {w.item} |->
                        IF i = w.item THEN w.row ELSE tx[p].work[i]]
  <2>1. PICK S \in SUBSET Items : tx[p] \in Transactions(S)
    BY <1>1 DEF TypeOK
  <2>2. tx[p].work \in [S -> Rows \cup {NoRow}] /\ DOMAIN tx[p].work = S
    BY <2>1 DEF Transactions
  <2>3. PICK new : new = work
    OBVIOUS
  <2>4. /\ new \in [S \cup {w.item} -> Rows \cup {NoRow}] /\ DOMAIN new = S \cup {w.item}
        /\ new[w.item] = w.row
        /\ \A i \in S : i # w.item => new[i] = tx[p].work[i]
    BY <1>5, <2>2, <2>3
  <2>5. PICK touched : touched = tx[p].touched \cup old \cup Occupies(p)
    OBVIOUS
  <2>6. PICK t : t = [tx[p] EXCEPT !.writes = Tail(@), !.work = new, !.touched = touched]
    OBVIOUS
  <2>7. tx' = [tx EXCEPT ![p] = t]
    <3>1. tx' = [tx EXCEPT ![p] = [tx[p] EXCEPT
                  !.writes = Tail(@),
                  !.work = work,
                  !.touched = tx[p].touched \cup old \cup Occupies(p)]]
      BY <1>2, <1>7 DEF WriteRow, Goto
    <3> QED
      BY <2>3, <2>5, <2>6, <3>1
  <2> HIDE DEF work
  <2>8. Occupies(p) = {KeyOf(r) : r \in {w.row} \ {NoRow}}
                         \cup {ItemKey(i) : i \in {w.item} \ DOMAIN View(p)}
    BY <1>2, <1>3, OccupiedKeys
  <2>9. /\ \A i \in DOMAIN View(p) : View(p)[i] \in Rows
        /\ \A i : i \in DOMAIN View(p) <=> IF i \in S THEN tx[p].work[i] # NoRow ELSE i \in DOMAIN db
        /\ \A i \in DOMAIN View(p) : View(p)[i] = IF i \in S THEN tx[p].work[i] ELSE db[i]
    BY <1>1, <2>2, ViewType
  <2>10. touched \subseteq (Groups \X Nat) \cup ({NoRow} \X Items)
    <3>1. tx[p].touched \subseteq (Groups \X Nat) \cup ({NoRow} \X Items)
      BY <2>1 DEF Transactions
    <3>2. old \subseteq Groups \X Nat
      BY <2>9, RowType
    <3>3. \A r \in {w.row} \ {NoRow} : KeyOf(r) \in Groups \X Nat
      BY <1>5, RowType
    <3>4. \A i \in {w.item} : ItemKey(i) \in {NoRow} \X Items
      BY <1>5 DEF ItemKey
    <3> QED
      BY <2>5, <2>8, <3>1, <3>2, <3>3, <3>4
  <2>11. t \in Transactions(S \cup {w.item})
    BY <1>3, <2>1, <2>4, <2>6, <2>10 DEF Transactions
  <2>12. /\ t.pc = "write" /\ t.own = tx[p].own /\ t.writes = Tail(tx[p].writes) /\ t.work = new
         /\ t.touched = touched /\ t.fetched = tx[p].fetched /\ t.held = tx[p].held
         /\ t.placing = tx[p].placing
    BY <1>1, <2>1, <2>6 DEF Transactions
  <2>13. tx'[p] = t
    BY <1>1, <2>7, OnlyOne
  <2>14. /\ w.item \notin DOMAIN View(p) => w.item = Item(p) /\ w.item \notin DOMAIN db
         /\ w.item \in Mine(p) \/ (w.item = Item(p) /\ w.item \notin DOMAIN db)
    <3>1. CASE w.item \in Mine(p)
      <4>1. w.item \in DOMAIN db \/ (w.item = Item(p) /\ w.item \notin DOMAIN db)
        BY <1>1, <3>1 DEF Mine, Sound, TouchesItsKeys
      <4>2. \A i \in S : tx[p].work[i] = NoRow => op[p].kind = "remove" /\ i = Item(p)
        BY <1>1, <2>2 DEF Sound, RemovesItsRow
      <4> QED
        BY <1>4, <2>2, <2>9, <3>1, <4>1, <4>2
    <3>2. CASE w.item = Item(p) /\ tx[p].own = NoRow
      BY <1>4, <1>7, <3>2
    <3> QED
      BY <1>4, <3>1, <3>2
  <2>15. ASSUME NEW q \in Procs \ {p}
         PROVE  t.held \cap tx[q].held = {} /\ t.touched \cap tx[q].touched = {}
    <3>1. /\ tx[p].held \cap tx[q].held = {} /\ tx[p].touched \cap tx[q].touched = {}
          /\ Occupies(p) \cap tx[q].touched = {}
      BY <1>1, ReadyIsFree DEF OrderTxInv, Apart
    <3>2. old \cap tx[q].touched = {}
      <4>1. SUFFICES ASSUME w.item \in DOMAIN View(p) PROVE KeyOf(View(p)[w.item]) \notin tx[q].touched
        OBVIOUS
      <4>2. CASE w.item \in S
        <5>1. KeyOf(tx[p].work[w.item]) \in tx[p].touched
          BY <1>1, <2>2, <2>9, <4>1, <4>2 DEF Sound, TouchesItsKeys
        <5> QED
          BY <2>9, <3>1, <4>1, <4>2, <5>1
      <4>3. CASE w.item \notin S
        <5>1. w.item \in DOMAIN db /\ View(p)[w.item] = db[w.item]
          BY <2>9, <4>1, <4>3
        <5>2. w.item \in Mine(p)
          BY <2>14, <5>1
        <5>3. w.item \notin DOMAIN tx[q].work
          <6>1. Mine(p) \cap Mine(q) = {}
            BY MineApart
          <6>2. DOMAIN tx[q].work \subseteq Mine(q)
            BY DEF OrderTxInv, Sound, WorksOnItsRows
          <6> QED
            BY <5>2, <6>1, <6>2
        <5>4. KeyOf(db[w.item]) \in tx[q].touched => w.item \in DOMAIN tx[q].work
          BY <5>1 DEF OrderTxInv, Sound, TouchesItsKeys
        <5> QED
          BY <5>1, <5>3, <5>4
      <4> QED
        BY <4>2, <4>3
    <3> HIDE DEF old
    <3> QED
      BY <2>5, <2>12, <3>1, <3>2
  <2>16. /\ \A i : i \in DOMAIN View(p)' <=>
                IF i \in S \cup {w.item} THEN new[i] # NoRow ELSE i \in DOMAIN db
         /\ \A i \in DOMAIN View(p)' :
                View(p)'[i] = IF i \in S \cup {w.item} THEN new[i] ELSE db[i]
    <3>1. View(p)' = [i \in {j \in DOMAIN db \cup DOMAIN new : j \in DOMAIN new => new[j] # NoRow} |->
                        IF i \in DOMAIN new THEN new[i] ELSE db[i]]
      BY <1>1, <2>12, <2>13 DEF View
    <3> QED
      BY <2>4, <3>1
  <2>17. PICK v : v = View(p)'
    OBVIOUS
  <2>18. /\ \A i \in DOMAIN v : i # w.item => i \in DOMAIN View(p) /\ v[i] = View(p)[i]
         /\ w.item \in DOMAIN v => w.row # NoRow /\ v[w.item] = w.row
    BY <2>4, <2>9, <2>16, <2>17
  <2>19. UniqueKeys(v)
    <3>1. w.item \in DOMAIN v =>
             \A j \in DOMAIN View(p) \ {w.item} : KeyOf(View(p)[j]) # KeyOf(w.row)
      BY <1>7, <2>18 DEF Taken
    <3>2. UniqueKeys(View(p))
      BY <1>1 DEF Sound
    <3>3. SUFFICES ASSUME NEW i \in DOMAIN v, NEW j \in DOMAIN v, KeyOf(v[i]) = KeyOf(v[j]) PROVE i = j
      BY DEF UniqueKeys
    <3>4. CASE i = w.item \/ j = w.item
      BY <2>18, <3>1, <3>3, <3>4
    <3>5. CASE i # w.item /\ j # w.item
      BY <2>18, <3>2, <3>3, <3>5 DEF UniqueKeys
    <3> QED
      BY <3>4, <3>5
  <2>20. Mine(p) \subseteq Mine(p)' /\ w.item \in Mine(p)'
    <3>1. Mine(p) \subseteq Mine(p)'
      BY <1>1, <2>5, <2>12, <2>13 DEF Mine
    <3>2. CASE w.item \in Mine(p)
      BY <3>1, <3>2
    <3>3. CASE w.item \notin Mine(p)
      <4>1. w.item \notin DOMAIN View(p)
        <5>1. DOMAIN tx[p].work \subseteq Mine(p)
          BY <1>1 DEF Sound, WorksOnItsRows
        <5> QED
          BY <2>2, <2>9, <2>14, <3>3, <5>1
      <4>2. ItemKey(w.item) \in touched
        BY <2>5, <2>8, <4>1
      <4> QED
        BY <1>5, <2>12, <2>13, <3>1, <4>2 DEF Mine
    <3> QED
      BY <3>1, <3>2, <3>3
  <2>21. WorksOnItsRows(p)'
    <3>1. \A k \in DOMAIN t.writes :
             \/ t.writes[k].item \in Mine(p)'
             \/ t.writes[k].item = Item(p) /\ t.own = NoRow
      <4>1. \A k \in DOMAIN tx[p].writes :
               \/ tx[p].writes[k].item \in Mine(p)
               \/ tx[p].writes[k].item = Item(p) /\ tx[p].own = NoRow
        BY <1>1 DEF Sound, WorksOnItsRows
      <4> QED
        BY <1>3, <2>12, <2>20, <4>1
    <3>2. DOMAIN t.work \subseteq Mine(p)'
      BY <1>1, <2>2, <2>4, <2>12, <2>20 DEF Sound, WorksOnItsRows
    <3>3. t.own # NoRow => Item(p) \in Mine(p)'
      BY <1>1, <2>12, <2>20 DEF Sound, WorksOnItsRows
    <3>4. \A g \in Groups : \A k \in DOMAIN t.fetched[g] : t.fetched[g][k].item \in Mine(p)'
      BY <1>1, <2>12, <2>20 DEF Sound, WorksOnItsRows
    <3> QED
      BY <1>1, <2>13, <3>1, <3>2, <3>3, <3>4 DEF WorksOnItsRows, Item
  <2>22. TouchesItsKeys(p)'
    <3>1. \A i \in S : tx[p].work[i] # NoRow => KeyOf(tx[p].work[i]) \in tx[p].touched
      BY <1>1, <2>2 DEF Sound, TouchesItsKeys
    <3>2. \A i \in DOMAIN new : new[i] # NoRow => KeyOf(new[i]) \in touched
      BY <2>4, <2>5, <2>8, <3>1
    <3>3. \A i \in DOMAIN db : KeyOf(db[i]) \in tx[p].touched <=> i \in S
      BY <1>1, <2>2 DEF Sound, TouchesItsKeys
    <3>4. \A i \in DOMAIN db : KeyOf(db[i]) \in touched <=> i \in DOMAIN new
      <4>1. SUFFICES ASSUME NEW i \in DOMAIN db PROVE KeyOf(db[i]) \in touched <=> i \in S \cup {w.item}
        BY <2>4
      <4>2. CASE i \in S
        BY <2>5, <3>3, <4>2
      <4>3. CASE i \notin S
        <5>1. i \in DOMAIN View(p) /\ View(p)[i] = db[i]
          BY <2>9, <4>3
        <5>2. CASE i = w.item
          BY <2>5, <5>1, <5>2
        <5>3. CASE i # w.item
          <6>1. KeyOf(db[i]) \notin old
            BY <1>1, <5>1, <5>3 DEF Sound, UniqueKeys
          <6>2. \A r \in {w.row} \ {NoRow} : KeyOf(db[i]) # KeyOf(r)
            BY <1>7, <5>1, <5>3 DEF Taken
          <6>3. \A j \in {w.item} : KeyOf(db[i]) # ItemKey(j)
            <7>1. db[i] \in Rows
              BY <1>1 DEF TypeOK
            <7>2. KeyOf(db[i]) \in Groups \X Nat
              BY <7>1, RowType
            <7> QED
              BY <7>2, OrderTxAssumption DEF ItemKey
          <6>4. KeyOf(db[i]) \notin tx[p].touched
            BY <3>3, <4>3
          <6> HIDE DEF old
          <6> QED
            BY <2>5, <2>8, <4>3, <5>3, <6>1, <6>2, <6>3, <6>4
        <5> QED
          BY <5>2, <5>3
      <4> QED
        BY <4>2, <4>3
    <3>5. ASSUME NEW i \in Items, ItemKey(i) \in touched
          PROVE  i = Item(p) /\ i \in DOMAIN new \ DOMAIN db
      <4>1. \A row \in Rows : ItemKey(i) # KeyOf(row)
        BY RowType, OrderTxAssumption DEF ItemKey
      <4>2. ItemKey(i) \notin old
        BY <2>9, <4>1
      <4>3. \A r \in {w.row} \ {NoRow} : ItemKey(i) # KeyOf(r)
        BY <1>5, <4>1
      <4> HIDE DEF old
      <4>4. CASE ItemKey(i) \in tx[p].touched
        BY <1>1, <2>2, <2>4, <4>4 DEF Sound, TouchesItsKeys
      <4>5. CASE ItemKey(i) \notin tx[p].touched
        <5>1. \E j \in {w.item} \ DOMAIN View(p) : ItemKey(i) = ItemKey(j)
          BY <2>5, <2>8, <3>5, <4>2, <4>3, <4>5
        <5>2. i = w.item /\ i \notin DOMAIN View(p)
          BY <5>1 DEF ItemKey
        <5> QED
          BY <2>4, <2>14, <5>2
      <4> QED
        BY <4>4, <4>5
    <3> QED
      BY <1>1, <2>12, <2>13, <3>2, <3>4, <3>5 DEF TouchesItsKeys, Item
  <2>23. RemovesItsRow(p)'
    <3>1. RemovesItsRow(p)
      BY <1>1 DEF Sound
    <3>2. \A k \in DOMAIN t.writes :
             /\ t.writes[k].row = NoRow <=> op[p].kind = "remove" /\ t.writes[k].item = Item(p)
             /\ op[p].kind = "remove" => t.writes[k].item # Item(p)
      BY <1>3, <2>12, <3>1 DEF RemovesItsRow
    <3>3. \A i \in DOMAIN new : new[i] = NoRow <=> op[p].kind = "remove" /\ i = Item(p)
      BY <1>4, <2>2, <2>4, <3>1 DEF RemovesItsRow
    <3>4. (op[p].kind = "remove" <=> tx[p].own # NoRow) =>
             \/ Item(p) \in DOMAIN new
             \/ \E k \in DOMAIN t.writes : t.writes[k].item = Item(p)
      <4>1. SUFFICES ASSUME op[p].kind = "remove" <=> tx[p].own # NoRow, Item(p) \notin S, Item(p) # w.item
                     PROVE  \E k \in DOMAIN t.writes : t.writes[k].item = Item(p)
        BY <2>4
      <4>2. PICK k \in DOMAIN tx[p].writes : tx[p].writes[k].item = Item(p)
        BY <1>1, <2>2, <3>1, <4>1 DEF RemovesItsRow
      <4>3. PICK writes \in Seq(Writes) : writes = tx[p].writes
        BY <2>1 DEF Transactions
      <4>4. w = writes[1] /\ k \in 1..Len(writes) /\ k # 1
        BY <1>1, <1>2, <4>1, <4>2, <4>3
      <4>5. k - 1 \in DOMAIN Tail(writes) /\ Tail(writes)[k - 1] = writes[k]
        BY <4>3, <4>4
      <4> QED
        BY <2>12, <4>2, <4>3, <4>5
    <3> QED
      BY <1>1, <2>12, <2>13, <3>1, <3>2, <3>3, <3>4 DEF RemovesItsRow, Item
  <2>24. FollowsItsCourse(p)'
    BY <1>1, <2>12, <2>13 DEF Sound, FollowsItsCourse, Item
  <2>25. Sound(p)'
    BY <2>17, <2>19, <2>21, <2>22, <2>23, <2>24 DEF Sound, UniqueKeys
  <2>26. S \cup {w.item} \in SUBSET Items
    BY <1>5
  <2>27. \E T \in SUBSET Items : t \in Transactions(T)
    BY <2>11, <2>26
  <2> HIDE DEF old
  <2> QED
    BY <1>1, <2>7, <2>15, <2>25, <2>27, QuietStep
<1> QED
  BY <1>6, <1>7


-----------------------------------------------------------------------------
(* The statements of a renumbering.                                        *)

LEMMA InOrderLists ==
    ASSUME NEW n \in Nat, NEW K \in SUBSET (1..n)
    PROVE  Cardinality(K) \in Nat /\ Lists(InOrder(K), K, Cardinality(K))
<1>1. IsFiniteSet(K)
  <2>1. IsFiniteSet(1..n)
    BY FS_Interval
  <2> QED
    BY <2>1, FS_Subset
<1>2. PICK R : R = {m \in K \X K : m[1] < m[2]}
  OBVIOUS
<1>3. StrictOrder(K, R)
  BY <1>2 DEF StrictOrder
<1> QED
  BY <1>1, <1>2, <1>3, SortByLists, FS_CardinalityType DEF InOrder

(* A finite set of numbers has a greatest: the set of the members from it  *)
(* on is the least of those sets, as strict inclusion is well-founded.     *)
LEMMA MaxIsGreatest ==
    ASSUME NEW S, IsFiniteSet(S), S \subseteq Int, S # {}
    PROVE  Max(S) \in S /\ \A y \in S : Max(S) >= y
<1> DEFINE Up(x) == {y \in S : y >= x}
           T == {Up(x) : x \in S}
<1>1. FiniteSubsetsOf(S) = SUBSET S
  BY FS_FiniteSubsetsOfFinite
<1>2. T \subseteq SUBSET S /\ T # {}
  OBVIOUS
<1>3. IsWellFoundedOn(StrictSubsetOrdering(S), SUBSET S)
  BY <1>1, FS_StrictSubsetOrderingWellFounded
<1>4. PICK U \in T : \A V \in T : ~(<<V, U>> \in StrictSubsetOrdering(S))
  <2> HIDE DEF T
  <2> QED
    BY <1>2, <1>3, WFMin
<1>5. PICK x \in S : U = Up(x)
  OBVIOUS
<1>6. ASSUME NEW y \in S, y > x PROVE FALSE
  <2>1. x \in Int /\ y \in Int /\ S \subseteq Int /\ y > x
    BY <1>6
  <2>2. Up(y) \subseteq Up(x)
    <3> SUFFICES ASSUME NEW z \in S, z >= y PROVE z >= x
      OBVIOUS
    <3>1. z \in Int
      BY <2>1
    <3> QED
      BY <2>1, <3>1
  <2>3. Up(y) \in T /\ x \in Up(x) /\ x \notin Up(y)
    BY <2>1
  <2>4. <<Up(y), U>> \in StrictSubsetOrdering(S)
    <3> HIDE DEF Up
    <3> QED
      BY <1>2, <1>5, <2>2, <2>3 DEF StrictSubsetOrdering
  <2> QED
    BY <1>4, <2>3, <2>4
<1>7. \E m \in S : \A y \in S : m >= y
  BY <1>6
<1> QED
  BY <1>7 DEF Max

(* A list of fetched rows: entries whose positions are naturals.           *)
LEMMA EntriesOf ==
    ASSUME NEW items \in Seq(Entries)
    PROVE  /\ Len(items) \in Nat /\ DOMAIN items = 1..Len(items)
           /\ \A k \in 1..Len(items) : items[k].item \in Items /\ items[k].position \in Nat
<1>1. Len(items) \in Nat /\ DOMAIN items = 1..Len(items) /\ \A k \in 1..Len(items) : items[k] \in Entries
  OBVIOUS
<1>2. \A e \in Entries : e.item \in Items /\ e.position \in Nat
  BY DEF Entries
<1> QED
  BY <1>1, <1>2

(* The two passes of _persist_group_positions: the rows that are not at    *)
(* their index go behind all others, then to their index.                  *)
LEMMA RenumberingShape ==
    ASSUME NEW items \in Seq(Entries), NEW g \in Groups
    PROVE  \E m \in Nat, base \in Nat, pending \in Seq(Nat) :
              LET K == {k \in DOMAIN items : items[k].position # k}
                  W == Renumbering(items, g)
              IN  /\ Lists(pending, K, m)
                  /\ base > Len(items) /\ \A k \in DOMAIN items : base > items[k].position
                  /\ W \in Seq([item : Items, row : Rows]) /\ Len(W) = 2 * m
                  /\ \A n \in 1..m :
                        /\ W[n] = Write(items[pending[n]].item, g, base + n - 1)
                        /\ W[m + n] = Write(items[pending[n]].item, g, pending[n])
<1> DEFINE K == {k \in DOMAIN items : items[k].position # k}
           PlainWrites == [item : Items, row : Rows]
           P == {items[k].position : k \in DOMAIN items} \cup {Len(items)}
<1>1. /\ Len(items) \in Nat /\ DOMAIN items = 1..Len(items)
      /\ \A k \in 1..Len(items) : items[k].item \in Items /\ items[k].position \in Nat
  BY EntriesOf
<1>2. PICK pending : pending = InOrder(K)
  OBVIOUS
<1>3. PICK m \in Nat : m = Cardinality(K) /\ Lists(pending, K, m)
  <2>1. K \in SUBSET (1..Len(items))
    BY <1>1
  <2> HIDE DEF K
  <2> QED
    BY <1>1, <1>2, <2>1, InOrderLists
<1>4. /\ pending \in [1..m -> K] /\ DOMAIN pending = 1..m /\ Len(pending) = m
      /\ pending \in Seq(Nat)
  <2>1. pending \in [1..m -> K]
    BY <1>3 DEF Lists
  <2>2. K \subseteq Nat
    BY <1>1
  <2>3. pending \in [1..m -> Nat]
    BY <2>1, <2>2
  <2> HIDE DEF K
  <2> QED
    BY <2>1, <2>3
<1>5. PICK highest \in Nat : /\ highest = Max(P) /\ highest >= Len(items)
                             /\ \A k \in DOMAIN items : highest >= items[k].position
  <2>1. IsFiniteSet(P)
    <3>1. IsFiniteSet({items[k].position : k \in DOMAIN items})
      <4>1. IsFiniteSet(1..Len(items))
        BY <1>1, FS_Interval
      <4>2. PICK f : f = [k \in 1..Len(items) |-> items[k].position]
        OBVIOUS
      <4>3. f \in Surjection(1..Len(items), {items[k].position : k \in DOMAIN items})
        BY <1>1, <4>2 DEF Surjection
      <4> QED
        BY <4>1, <4>3, FS_Surjection
    <3> QED
      BY <3>1, FS_AddElement
  <2>2. P \subseteq Int /\ P \subseteq Nat /\ P # {}
    BY <1>1
  <2>3. Max(P) \in P /\ \A y \in P : Max(P) >= y
    BY <2>1, <2>2, MaxIsGreatest
  <2> QED
    BY <2>2, <2>3
<1>6. PICK base \in Nat : base = highest + m + 1
  OBVIOUS
<1>7. PICK first : first = [n \in 1..m |-> Write(items[pending[n]].item, g, base + n - 1)]
  OBVIOUS
<1>8. PICK second : second = [n \in 1..m |-> Write(items[pending[n]].item, g, pending[n])]
  OBVIOUS
<1>9. Renumbering(items, g) = first \o second
  BY <1>2, <1>4, <1>5, <1>6, <1>7, <1>8 DEF Renumbering
<1>10. \A i \in Items, x \in Nat \ {0} : Write(i, g, x) \in PlainWrites
  BY DEF Write, Rows
<1>11. \A n \in 1..m : pending[n] \in 1..Len(items)
  BY <1>1, <1>4
<1> HIDE DEF K, PlainWrites
<1>12. first \in [1..m -> PlainWrites] /\ second \in [1..m -> PlainWrites]
  <2>1. \A n \in 1..m : /\ items[pending[n]].item \in Items
                        /\ base + n - 1 \in Nat \ {0} /\ pending[n] \in Nat \ {0}
    BY <1>1, <1>6, <1>11
  <2> QED
    BY <1>7, <1>8, <1>10, <2>1
<1>13. first \in Seq(PlainWrites) /\ second \in Seq(PlainWrites) /\ Len(first) = m /\ Len(second) = m
  BY <1>12
<1>14. /\ first \o second \in Seq(PlainWrites) /\ Len(first \o second) = 2 * m
       /\ \A n \in 1..m : (first \o second)[n] = first[n] /\ (first \o second)[m + n] = second[n]
  BY <1>13
<1>15. /\ base > Len(items)
       /\ \A k \in DOMAIN items : base > items[k].position
  <2>1. base > highest
    BY <1>6
  <2>2. ASSUME NEW k \in DOMAIN items PROVE base > items[k].position
    <3>1. items[k].position \in Nat /\ highest >= items[k].position
      BY <1>1, <1>5
    <3> QED
      BY <2>1, <3>1
  <2> QED
    BY <1>1, <1>5, <2>1, <2>2
<1>16. \A n \in 1..m :
          /\ Renumbering(items, g)[n] = Write(items[pending[n]].item, g, base + n - 1)
          /\ Renumbering(items, g)[m + n] = Write(items[pending[n]].item, g, pending[n])
  BY <1>7, <1>8, <1>9, <1>14
<1>17. Lists(pending, {k \in DOMAIN items : items[k].position # k}, m)
  BY <1>3 DEF K
<1>18. Renumbering(items, g) \in Seq([item : Items, row : Rows]) /\ Len(Renumbering(items, g)) = 2 * m
  BY <1>9, <1>14 DEF PlainWrites
<1>19. pending \in Seq(Nat)
  BY <1>4
<1> WITNESS m \in Nat, base \in Nat, pending \in Seq(Nat)
<1> QED
  BY <1>15, <1>16, <1>17, <1>18

LEMMA RenumberingWrites ==
    ASSUME NEW items \in Seq(Entries), NEW g \in Groups
    PROVE  /\ Renumbering(items, g) \in Seq(Writes)
           /\ \A k \in DOMAIN Renumbering(items, g) :
                 /\ \E j \in DOMAIN items : Renumbering(items, g)[k].item = items[j].item
                 /\ Renumbering(items, g)[k].row # NoRow
<1>1. PICK W : W = Renumbering(items, g)
  OBVIOUS
<1>2. PICK m \in Nat, base \in Nat, pending \in Seq(Nat) :
              /\ Lists(pending, {k \in DOMAIN items : items[k].position # k}, m)
              /\ W \in Seq([item : Items, row : Rows]) /\ Len(W) = 2 * m
              /\ \A n \in 1..m :
                    /\ W[n] = Write(items[pending[n]].item, g, base + n - 1)
                    /\ W[m + n] = Write(items[pending[n]].item, g, pending[n])
  BY <1>1, RenumberingShape
<1>3. \A n \in 1..m : pending[n] \in DOMAIN items
  BY <1>2 DEF Lists
<1>4. ASSUME NEW k \in DOMAIN W
      PROVE  (\E j \in DOMAIN items : W[k].item = items[j].item) /\ W[k].row # NoRow
  <2>1. W[k].row \in Rows
    <3>1. PICK T : T = [item : Items, row : Rows]
      OBVIOUS
    <3>2. W \in Seq(T)
      BY <1>2, <3>1
    <3>3. W[k] \in T
      BY <3>2
    <3> QED
      BY <3>1, <3>3
  <2>2. PICK n \in 1..m : k = n \/ k = m + n
    <3>1. k \in 1..(2 * m)
      BY <1>2
    <3>2. CASE k <= m
      BY <3>1, <3>2
    <3>3. CASE k > m
      <4>1. k - m \in 1..m /\ k = m + (k - m)
        BY <3>1, <3>3
      <4> QED
        BY <4>1
    <3> QED
      BY <3>1, <3>2, <3>3
  <2>3. \E x : W[k] = Write(items[pending[n]].item, g, x)
    BY <1>2, <2>2
  <2>4. W[k].item = items[pending[n]].item
    BY <2>3 DEF Write
  <2> QED
    BY <1>3, <2>1, <2>4, RowType
<1>5. W \in Seq(Writes)
  <2>1. PICK T : T = [item : Items, row : Rows]
    OBVIOUS
  <2>2. W \in Seq(T) /\ T \subseteq Writes
    BY <1>2, <2>1 DEF Writes
  <2>3. W \in [1..Len(W) -> Writes] /\ Len(W) \in Nat
    BY <2>2
  <2> QED
    BY <2>3
<1> QED
  BY <1>1, <1>4, <1>5


(* [item for item in group_items if item.id != i.id]                       *)
Others(items, i) == {k \in DOMAIN items : items[k].item # i}

LEMMA WithoutShape ==
    ASSUME NEW items \in Seq(Entries), NEW i
    PROVE  \E n \in Nat, kept \in Seq(Nat) :
              /\ Lists(kept, Others(items, i), n)
              /\ Without(items, i) \in Seq(Entries) /\ Len(Without(items, i)) = n
              /\ \A k \in 1..n : Without(items, i)[k] = items[kept[k]]
<1> DEFINE K == Others(items, i)
<1>1. Len(items) \in Nat /\ DOMAIN items = 1..Len(items) /\ K \subseteq 1..Len(items)
  BY EntriesOf DEF Others
<1>2. PICK kept : kept = InOrder(K)
  OBVIOUS
<1>3. PICK n \in Nat : n = Cardinality(K) /\ Lists(kept, K, n)
  <2>1. K \in SUBSET (1..Len(items))
    BY <1>1
  <2> HIDE DEF K
  <2> QED
    BY <1>1, <1>2, <2>1, InOrderLists
<1>4. kept \in [1..n -> K] /\ DOMAIN kept = 1..n
  BY <1>3 DEF Lists
<1>5. kept \in Seq(Nat)
  <2>1. K \subseteq Nat
    BY <1>1
  <2>2. kept \in [1..n -> Nat]
    BY <1>4, <2>1
  <2> HIDE DEF K
  <2> QED
    BY <2>2
<1>6. PICK W : W = [k \in 1..n |-> items[kept[k]]]
  OBVIOUS
<1>7. Without(items, i) = W
  BY <1>2, <1>4, <1>6 DEF Without, Others
<1>8. W \in Seq(Entries) /\ Len(W) = n
  <2>1. \A k \in 1..n : kept[k] \in 1..Len(items)
    BY <1>1, <1>4
  <2>2. \A k \in 1..n : items[kept[k]] \in Entries
    BY <1>1, <2>1
  <2>3. W \in [1..n -> Entries]
    BY <1>6, <2>2
  <2> QED
    BY <2>3
<1>9. Lists(kept, Others(items, i), n)
  BY <1>3
<1>10. \A k \in 1..n : Without(items, i)[k] = items[kept[k]]
  BY <1>6, <1>7
<1> HIDE DEF K
<1> WITNESS n \in Nat, kept \in Seq(Nat)
<1> QED
  BY <1>7, <1>8, <1>9, <1>10

LEMMA WithoutEntries ==
    ASSUME NEW items \in Seq(Entries), NEW i
    PROVE  /\ Without(items, i) \in Seq(Entries)
           /\ \A k \in DOMAIN Without(items, i) :
                 /\ Without(items, i)[k].item # i
                 /\ \E j \in DOMAIN items : Without(items, i)[k] = items[j]
<1>1. PICK W : W = Without(items, i)
  OBVIOUS
<1>2. PICK n \in Nat, kept \in Seq(Nat) :
              /\ Lists(kept, Others(items, i), n)
              /\ W \in Seq(Entries) /\ Len(W) = n
              /\ \A k \in 1..n : W[k] = items[kept[k]]
  BY <1>1, WithoutShape
<1>3. \A k \in 1..n : kept[k] \in DOMAIN items /\ items[kept[k]].item # i
  BY <1>2 DEF Lists, Others
<1>4. DOMAIN W = 1..n
  BY <1>2
<1> QED
  BY <1>1, <1>2, <1>3, <1>4

LEMMA InsertItemEntries ==
    ASSUME NEW items \in Seq(Entries), NEW e \in Entries, NEW k \in 1..(Len(items) + 1)
    PROVE  /\ InsertItem(items, k, e) \in Seq(Entries)
           /\ Len(InsertItem(items, k, e)) = Len(items) + 1
           /\ \A m \in DOMAIN InsertItem(items, k, e) :
                 \/ InsertItem(items, k, e)[m] = e
                 \/ \E j \in DOMAIN items : InsertItem(items, k, e)[m] = items[j]
<1>1. PICK n \in Nat : n = Len(items)
  OBVIOUS
<1>2. DOMAIN items = 1..n /\ \A j \in 1..n : items[j] \in Entries
  BY <1>1
<1>3. PICK q : q = InsertItem(items, k, e)
  OBVIOUS
<1>4. q = [m \in 1..(n + 1) |->
             IF m < k THEN items[m] ELSE IF m = k THEN e ELSE items[m - 1]]
  BY <1>1, <1>3 DEF InsertItem
<1>5. ASSUME NEW m \in 1..(n + 1)
      PROVE  q[m] \in Entries /\ (q[m] = e \/ \E j \in DOMAIN items : q[m] = items[j])
  <2>1. CASE m < k
    <3>1. m \in 1..n /\ q[m] = items[m]
      BY <1>1, <1>4, <2>1
    <3> QED
      BY <1>2, <3>1
  <2>2. CASE m = k
    BY <1>1, <1>4, <2>2
  <2>3. CASE m > k
    <3>1. m - 1 \in 1..n /\ q[m] = items[m - 1]
      BY <1>1, <1>4, <2>3
    <3> QED
      BY <1>2, <3>1
  <2> QED
    BY <1>1, <2>1, <2>2, <2>3
<1>6. q \in [1..(n + 1) -> Entries]
  BY <1>4, <1>5
<1>7. q \in Seq(Entries) /\ Len(q) = n + 1 /\ DOMAIN q = 1..(n + 1)
  BY <1>6
<1> QED
  BY <1>1, <1>3, <1>5, <1>7


(* The statements of an operation that writes rows of Z only, and item's.  *)
Statements(W, Z, item, removes, creates) ==
    /\ W \in Seq(Writes)
    /\ \A k \in DOMAIN W :
          /\ W[k].item \in Z \/ (W[k].item = item /\ creates)
          /\ W[k].row = NoRow <=> removes /\ W[k].item = item
          /\ removes /\ W[k].item = item => k = 1
    /\ removes \/ creates => \E k \in DOMAIN W : W[k].item = item

LEMMA FetchedEntries ==
    ASSUME TypeOK, NEW p \in Procs, WorksOnItsRows(p), NEW g \in Groups
    PROVE  /\ tx[p].fetched[g] \in Seq(Entries)
           /\ Len(tx[p].fetched[g]) \in Nat
           /\ \A k \in DOMAIN tx[p].fetched[g] : tx[p].fetched[g][k].item \in Mine(p)
<1>1. tx[p].fetched[g] \in Seq(Entries)
  BY DEF TypeOK, Transactions
<1> QED
  BY <1>1 DEF WorksOnItsRows

(* A renumbering of rows of Z is such statements.                          *)
LEMMA RenumberingStatements ==
    ASSUME NEW items \in Seq(Entries), NEW g \in Groups, NEW Z, NEW item,
           \A k \in DOMAIN items : items[k].item \in Z
    PROVE  Statements(Renumbering(items, g), Z, item, FALSE, FALSE)
<1>1. PICK W : W = Renumbering(items, g)
  OBVIOUS
<1>2. /\ W \in Seq(Writes)
      /\ \A k \in DOMAIN W : (\E j \in DOMAIN items : W[k].item = items[j].item) /\ W[k].row # NoRow
  BY <1>1, RenumberingWrites
<1> QED
  BY <1>1, <1>2 DEF Statements

LEMMA WriteType ==
    ASSUME NEW i \in Items, NEW g \in Groups, NEW x \in Nat \ {0}
    PROVE  /\ Write(i, g, x) \in Writes /\ Write(i, g, x).item = i
           /\ Write(i, g, x).row = [group |-> g, position |-> x]
           /\ Write(i, g, x).row \in Rows /\ Write(i, g, x).row # NoRow
<1>1. [group |-> g, position |-> x] \in Rows
  BY DEF Rows
<1> QED
  BY <1>1, RowType DEF Write, Writes

LEMMA CreationStatements ==
    ASSUME OrderTxInv, NEW p \in Procs, op[p].kind # "remove"
    PROVE  Statements(Creation(p), Mine(p), Item(p), FALSE, TRUE)
<1>1. TypeOK /\ WorksOnItsRows(p)
  BY DEF OrderTxInv, Sound
<1>2. PICK h \in Groups : h = op[p].group
  BY <1>1, OpType
<1>3. PICK last \in Nat \ {0} : last = Len(tx[p].fetched[h]) + 1
  BY <1>1, FetchedEntries
<1>4. PICK w : w = Write(Item(p), h, last)
  OBVIOUS
<1>5. w \in Writes /\ w.item = Item(p) /\ w.row # NoRow
  <2>1. PICK i \in Items : i = Item(p)
    BY <1>1, OpType
  <2>2. PICK row : row = [group |-> h, position |-> last]
    OBVIOUS
  <2>3. row \in Rows /\ row # NoRow
    BY <2>2, RowType DEF Rows
  <2> QED
    BY <1>4, <2>1, <2>2, <2>3 DEF Write, Writes
<1>6. Creation(p) = <<w>>
  BY <1>2, <1>3, <1>4 DEF Creation
<1>7. <<w>> \in Seq(Writes) /\ DOMAIN <<w>> = {1} /\ <<w>>[1] = w
  BY <1>5
<1> QED
  BY <1>5, <1>6, <1>7 DEF Statements

LEMMA RemovalStatements ==
    ASSUME OrderTxInv, NEW p \in Procs, op[p].kind = "remove", tx[p].own # NoRow,
           NEW row \in Rows, Item(p) \in Mine(p)
    PROVE  Statements(Removal(p, row), Mine(p), Item(p), TRUE, FALSE)
<1>1. TypeOK /\ WorksOnItsRows(p)
  BY DEF OrderTxInv, Sound
<1>2. PICK g \in Groups : g = row.group
  BY RowType
<1>3. PICK items \in Seq(Entries) : items = Without(tx[p].fetched[g], Item(p))
  BY <1>1, FetchedEntries, WithoutEntries
<1>4. \A k \in DOMAIN items : items[k].item \in Mine(p) /\ items[k].item # Item(p)
  <2>1. \A k \in DOMAIN items : items[k].item # Item(p)
                             /\ \E j \in DOMAIN tx[p].fetched[g] : items[k] = tx[p].fetched[g][j]
    BY <1>1, <1>3, FetchedEntries, WithoutEntries
  <2> QED
    BY <1>1, <2>1, FetchedEntries
<1>5. PICK W : W = Renumbering(items, g)
  OBVIOUS
<1>6. /\ W \in Seq(Writes)
      /\ \A k \in DOMAIN W : (\E j \in DOMAIN items : W[k].item = items[j].item) /\ W[k].row # NoRow
  BY <1>5, RenumberingWrites
<1>7. PICK w : w = [item |-> Item(p), row |-> NoRow]
  OBVIOUS
<1>8. w \in Writes /\ w.item = Item(p) /\ w.row = NoRow
  BY <1>1, <1>7, OpType DEF Writes
<1>9. /\ <<w>> \o W \in Seq(Writes)
      /\ 1 \in DOMAIN (<<w>> \o W) /\ (<<w>> \o W)[1] = w
      /\ \A k \in DOMAIN (<<w>> \o W) : k # 1 => k - 1 \in DOMAIN W /\ (<<w>> \o W)[k] = W[k - 1]
  BY <1>6, <1>8
<1>10. Removal(p, row) = <<w>> \o W
  BY <1>2, <1>3, <1>5, <1>7 DEF Removal
<1>11. PICK V : V = <<w>> \o W
  OBVIOUS
<1>12. \A k \in DOMAIN V : k # 1 => V[k].item \in Mine(p) /\ V[k].item # Item(p) /\ V[k].row # NoRow
  BY <1>4, <1>6, <1>9, <1>11
<1> QED
  BY <1>8, <1>9, <1>10, <1>11, <1>12 DEF Statements

LEMMA PlacementStatements ==
    ASSUME OrderTxInv, NEW p \in Procs, NEW row \in Rows, NEW desired \in Int, Item(p) \in Mine(p)
    PROVE  Statements(Placement(p, row, desired), Mine(p), Item(p), FALSE, FALSE)
<1>1. TypeOK /\ WorksOnItsRows(p)
  BY DEF OrderTxInv, Sound
<1>2. PICK g \in Groups : g = row.group
  BY RowType
<1>3. PICK others \in Seq(Entries) : others = Without(tx[p].fetched[g], Item(p))
  BY <1>1, FetchedEntries, WithoutEntries
<1>4. \A k \in DOMAIN others : others[k].item \in Mine(p)
  <2>1. \A k \in DOMAIN others : \E j \in DOMAIN tx[p].fetched[g] : others[k] = tx[p].fetched[g][j]
    BY <1>1, <1>3, FetchedEntries, WithoutEntries
  <2> QED
    BY <1>1, <2>1, FetchedEntries
<1>5. PICK self \in Entries : self = [item |-> Item(p), position |-> row.position]
  BY <1>1, OpType, RowType DEF Entries
<1>6. PICK k \in 1..(Len(others) + 1) : k = Clamp(desired, Len(others) + 1)
  <2>1. Len(others) \in Nat
    OBVIOUS
  <2> QED
    BY <2>1 DEF Clamp
<1>7. PICK items \in Seq(Entries) : items = InsertItem(others, k, self)
  BY InsertItemEntries
<1>8. \A m \in DOMAIN items : items[m].item \in Mine(p)
  <2>1. \A m \in DOMAIN items : items[m] = self \/ \E j \in DOMAIN others : items[m] = others[j]
    BY <1>7, InsertItemEntries
  <2>2. self.item \in Mine(p)
    BY <1>5
  <2> QED
    BY <1>4, <2>1, <2>2
<1>9. Placement(p, row, desired) = Renumbering(items, g)
  BY <1>2, <1>3, <1>5, <1>6, <1>7 DEF Placement
<1> QED
  BY <1>8, <1>9, RenumberingStatements

LEMMA RelocationStatements ==
    ASSUME OrderTxInv, NEW p \in Procs, NEW row \in Rows, Item(p) \in Mine(p)
    PROVE  Statements(Relocation(p, row), Mine(p), Item(p), FALSE, FALSE)
<1>1. TypeOK /\ WorksOnItsRows(p)
  BY DEF OrderTxInv, Sound
<1>2. PICK g \in Groups : g = row.group
  BY RowType
<1>3. PICK h \in Groups : h = op[p].group
  BY <1>1, OpType
<1>4. PICK others \in Seq(Entries) : others = Without(tx[p].fetched[g], Item(p))
  BY <1>1, FetchedEntries, WithoutEntries
<1>5. PICK target \in Seq(Entries) : target = Without(tx[p].fetched[h], Item(p))
  BY <1>1, FetchedEntries, WithoutEntries
<1>6. \A k \in DOMAIN others : others[k].item \in Mine(p)
  <2>1. \A k \in DOMAIN others : \E j \in DOMAIN tx[p].fetched[g] : others[k] = tx[p].fetched[g][j]
    BY <1>1, <1>4, FetchedEntries, WithoutEntries
  <2> QED
    BY <1>1, <2>1, FetchedEntries
<1>7. \A k \in DOMAIN target : target[k].item \in Mine(p)
  <2>1. \A k \in DOMAIN target : \E j \in DOMAIN tx[p].fetched[h] : target[k] = tx[p].fetched[h][j]
    BY <1>1, <1>5, FetchedEntries, WithoutEntries
  <2> QED
    BY <1>1, <2>1, FetchedEntries
<1>8. PICK last \in Nat \ {0} : last = Len(tx[p].fetched[h]) + 1
  BY <1>1, FetchedEntries
<1>9. PICK self \in Entries : self = [item |-> Item(p), position |-> last]
  <2>1. Item(p) \in Items /\ last \in Nat
    BY <1>1, OpType
  <2> QED
    BY <2>1 DEF Entries
<1>10. PICK items \in Seq(Entries) : items = Append(target, self)
  <2>1. target \in Seq(Entries) /\ self \in Entries
    OBVIOUS
  <2>2. Append(target, self) \in Seq(Entries)
    BY <2>1
  <2> QED
    BY <2>2
<1>11. \A k \in DOMAIN items : items[k].item \in Mine(p)
  <2>1. \A k \in DOMAIN items : items[k] = self \/ (k \in DOMAIN target /\ items[k] = target[k])
    BY <1>10
  <2>2. self.item \in Mine(p)
    BY <1>9
  <2> QED
    BY <1>7, <2>1, <2>2
<1>12. PICK w : w = Write(Item(p), h, last)
  OBVIOUS
<1>13. w \in Writes /\ w.item = Item(p) /\ w.row # NoRow
  <2>1. PICK i \in Items : i = Item(p)
    BY <1>1, OpType
  <2>2. Write(i, h, last) \in Writes /\ Write(i, h, last).item = i /\ Write(i, h, last).row # NoRow
    BY WriteType
  <2> QED
    BY <1>12, <2>1, <2>2
<1>14. PICK A : A = Renumbering(others, g)
  OBVIOUS
<1>15. PICK B : B = Renumbering(items, h)
  OBVIOUS
<1>16. /\ A \in Seq(Writes) /\ \A k \in DOMAIN A : A[k].item \in Mine(p) /\ A[k].row # NoRow
       /\ B \in Seq(Writes) /\ \A k \in DOMAIN B : B[k].item \in Mine(p) /\ B[k].row # NoRow
  <2>1. Statements(A, Mine(p), Item(p), FALSE, FALSE)
    BY <1>6, <1>14, RenumberingStatements
  <2>2. Statements(B, Mine(p), Item(p), FALSE, FALSE)
    BY <1>11, <1>15, RenumberingStatements
  <2> QED
    BY <2>1, <2>2 DEF Statements
<1>17. PICK V : V = <<w>> \o A \o B
  OBVIOUS
<1>18. /\ V \in Seq(Writes)
       /\ \A k \in DOMAIN V : \/ V[k] = w
                              \/ \E j \in DOMAIN A : V[k] = A[j]
                              \/ \E j \in DOMAIN B : V[k] = B[j]
  <2>1. PICK C : C = <<w>> \o A
    OBVIOUS
  <2>2. /\ C \in Seq(Writes)
        /\ \A k \in DOMAIN C : \/ k = 1 /\ C[k] = w
                               \/ k - 1 \in DOMAIN A /\ C[k] = A[k - 1]
    BY <1>13, <1>16, <2>1
  <2>3. /\ V \in Seq(Writes)
        /\ \A k \in DOMAIN V : \/ k \in DOMAIN C /\ V[k] = C[k]
                               \/ k - Len(C) \in DOMAIN B /\ V[k] = B[k - Len(C)]
    BY <1>16, <1>17, <2>1, <2>2
  <2> QED
    BY <2>2, <2>3
<1>19. Relocation(p, row) = V
  BY <1>2, <1>3, <1>4, <1>5, <1>8, <1>9, <1>10, <1>12, <1>14, <1>15, <1>17 DEF Relocation
<1>20. \A k \in DOMAIN V : V[k].item \in Mine(p) /\ V[k].row # NoRow
  BY <1>13, <1>16, <1>18
<1> QED
  BY <1>18, <1>19, <1>20 DEF Statements


LEMMA ComputeKeeps ==
    ASSUME OrderTxInv, NEW p \in Procs, Compute(p)
    PROVE  OrderTxInv'
<1>1. /\ UNCHANGED <<db, schedules, op>> /\ tx[p].pc = "fetch" /\ TypeOK /\ Sound(p)
      /\ WorksOnItsRows(p)
  BY DEF Compute, OrderTxInv, Sound
<1>2. PICK S \in SUBSET Items : tx[p] \in Transactions(S)
  BY <1>1 DEF TypeOK
<1>3. PICK row \in Rows \cup {NoRow} : row = tx[p].own
  BY <1>2 DEF Transactions
<1> DEFINE removes == op[p].kind = "remove"
           creates == row = NoRow
<1>4. op[p].kind = "remove" => row # NoRow
  BY <1>1, <1>3 DEF Sound, RemovesItsRow
<1>5. row # NoRow => Item(p) \in Mine(p) /\ row \in Rows
  BY <1>1, <1>3 DEF WorksOnItsRows
<1> DEFINE desired == IF tx[p].placing THEN op[p].position ELSE row.position
           pc == IF row = NoRow THEN "validate" ELSE "write"
<1>6. PICK W : /\ Statements(W, Mine(p), Item(p), removes, creates)
               /\ tx' = [tx EXCEPT ![p] = [tx[p] EXCEPT !.pc = pc, !.writes = W]]
  <2>1. CASE op[p].kind = "remove"
    <3>1. Statements(Removal(p, row), Mine(p), Item(p), TRUE, FALSE)
      BY <1>3, <1>4, <1>5, <2>1, RemovalStatements
    <3>2. tx' = [tx EXCEPT ![p] = [tx[p] EXCEPT !.pc = pc, !.writes = Removal(p, row)]]
      BY <1>3, <2>1 DEF Compute, Goto
    <3>3. removes = TRUE /\ creates = FALSE
      BY <1>4, <2>1
    <3> QED
      BY <3>1, <3>2, <3>3 DEF Statements
  <2>2. CASE op[p].kind # "remove" /\ row = NoRow
    <3>1. Statements(Creation(p), Mine(p), Item(p), FALSE, TRUE)
      BY <2>2, CreationStatements
    <3>2. tx' = [tx EXCEPT ![p] = [tx[p] EXCEPT !.pc = pc, !.writes = Creation(p)]]
      BY <1>3, <2>2 DEF Compute, Goto
    <3> QED
      BY <2>2, <3>1, <3>2 DEF Statements
  <2>3. CASE op[p].kind # "remove" /\ row # NoRow /\ row.group = op[p].group
    <3>1. desired \in Int
      BY <1>1, <1>5, <2>3, OpType, RowType
    <3>2. PICK n \in Int : n = desired
      BY <3>1
    <3>3. Statements(Placement(p, row, n), Mine(p), Item(p), FALSE, FALSE)
      BY <1>5, <2>3, PlacementStatements
    <3>4. tx' = [tx EXCEPT ![p] = [tx[p] EXCEPT !.pc = pc, !.writes = Placement(p, row, n)]]
      BY <1>3, <2>3, <3>2 DEF Compute, Goto
    <3> QED
      BY <2>3, <3>3, <3>4 DEF Statements
  <2>4. CASE op[p].kind # "remove" /\ row # NoRow /\ row.group # op[p].group
    <3>1. Statements(Relocation(p, row), Mine(p), Item(p), FALSE, FALSE)
      BY <1>5, <2>4, RelocationStatements
    <3>2. tx' = [tx EXCEPT ![p] = [tx[p] EXCEPT !.pc = pc, !.writes = Relocation(p, row)]]
      BY <1>3, <2>4 DEF Compute, Goto
    <3> QED
      BY <2>4, <3>1, <3>2 DEF Statements
  <2> QED
    BY <2>1, <2>2, <2>3, <2>4
<1>7. PICK t : t = [tx[p] EXCEPT !.pc = pc, !.writes = W]
  OBVIOUS
<1>8. /\ W \in Seq(Writes)
      /\ \A k \in DOMAIN W :
            /\ W[k].item \in Mine(p) \/ (W[k].item = Item(p) /\ row = NoRow)
            /\ W[k].row = NoRow <=> op[p].kind = "remove" /\ W[k].item = Item(p)
            /\ op[p].kind = "remove" /\ W[k].item = Item(p) => k = 1
      /\ op[p].kind = "remove" \/ row = NoRow => \E k \in DOMAIN W : W[k].item = Item(p)
  BY <1>6 DEF Statements
<1>9. pc \in {"validate", "write"} /\ pc \in Stages
  BY StageNames
<1> HIDE DEF pc
<1>10. t \in Transactions(S)
  BY <1>2, <1>7, <1>8, <1>9 DEF Transactions
<1>11. /\ t.pc = pc /\ t.own = row /\ t.writes = W /\ t.work = tx[p].work
       /\ t.touched = tx[p].touched /\ t.fetched = tx[p].fetched /\ t.held = tx[p].held
       /\ t.placing = tx[p].placing
  BY <1>2, <1>3, <1>7 DEF Transactions
<1>12. tx' = [tx EXCEPT ![p] = t] /\ tx'[p] = t
  <2>1. tx' = [tx EXCEPT ![p] = t]
    BY <1>6, <1>7
  <2> QED
    BY <1>1, <2>1, OnlyOne
<1>13. View(p)' = View(p) /\ Mine(p)' = Mine(p)
  BY <1>1, <1>11, <1>12 DEF View, Mine
<1>14. WorksOnItsRows(p)'
  BY <1>1, <1>3, <1>8, <1>11, <1>12, <1>13 DEF WorksOnItsRows, Item
<1>15. TouchesItsKeys(p)'
  BY <1>1, <1>11, <1>12 DEF Sound, TouchesItsKeys, Item
<1>16. /\ tx[p].placing => op[p].kind = "place" /\ row # NoRow
       /\ ~tx[p].placing => tx[p].work = EmptyTable
  BY <1>1, <1>3, Course
<1>17. RemovesItsRow(p)'
  <2>1. RemovesItsRow(p)
    BY <1>1 DEF Sound
  <2>2. op[p].kind = "remove" => Item(p) \notin DOMAIN t.work
    BY <1>11, <1>16 DEF EmptyTable
  <2> QED
    BY <1>1, <1>3, <1>8, <1>9, <1>11, <1>12, <2>1, <2>2 DEF RemovesItsRow, Item
<1>18. FollowsItsCourse(p)'
  <2>1. pc = "validate" => row = NoRow
    BY DEF pc
  <2> QED
    BY <1>1, <1>9, <1>11, <1>12, <1>16, <2>1 DEF FollowsItsCourse, Item
<1>19. Sound(p)'
  BY <1>1, <1>13, <1>14, <1>15, <1>17, <1>18 DEF Sound, UniqueKeys
<1>20. \A q \in Procs \ {p} : t.held \cap tx[q].held = {} /\ t.touched \cap tx[q].touched = {}
  BY <1>11 DEF OrderTxInv, Apart
<1>21. \E T \in SUBSET Items : t \in Transactions(T)
  BY <1>10
<1> QED
  BY <1>1, <1>12, <1>19, <1>20, <1>21, QuietStep

-----------------------------------------------------------------------------
(* The invariant and what follows.                                         *)

LEMMA InitOrderTxInv == Init => OrderTxInv
<1> SUFFICES ASSUME Init PROVE OrderTxInv
  OBVIOUS
<1>1. (\E S \in SUBSET Items : db \in [S -> Rows]) /\ UniqueKeys(db)
  BY OrderTxAssumption DEF Init
<1>2. \A p \in Procs : tx[p] = Fresh("start", 1)
  BY DEF Init
<1>3. PICK t : t = Fresh("start", 1)
  OBVIOUS
<1>4. t \in Transactions({})
  <2>1. "start" \in Stages /\ 1 \in 1..RetryLimit /\ "none" \in Results
    BY StageNames
  <2> QED
    BY <1>3, <2>1, FreshType
<1>5. TypeOK
  <2>1. \A p \in Procs : tx[p] \in Transactions({})
    BY <1>2, <1>3, <1>4
  <2>2. DOMAIN tx = Procs
    BY DEF Init
  <2> QED
    BY <1>1, <2>1, <2>2 DEF TypeOK, Init
<1>6. /\ t.pc = "start" /\ t.own = NoRow /\ t.writes = <<>> /\ t.work = EmptyTable /\ t.touched = {}
      /\ t.fetched = [g \in Groups |-> <<>>] /\ t.held = {} /\ t.placing = FALSE
  BY <1>3 DEF Fresh
<1>7. Apart
  BY <1>2, <1>3, <1>6 DEF Apart
<1>8. ASSUME NEW p \in Procs PROVE Sound(p)
  <2>1. tx[p] = t
    BY <1>2, <1>3
  <2>2. View(p) = db
    <3>1. db = [i \in DOMAIN db |-> db[i]]
      BY <1>1
    <3>2. tx[p].work = EmptyTable /\ DOMAIN EmptyTable = {}
      BY <1>6, <2>1 DEF EmptyTable
    <3> QED
      BY <3>1, <3>2 DEF View
  <2>3. WorksOnItsRows(p) /\ TouchesItsKeys(p)
    BY <1>6, <2>1 DEF WorksOnItsRows, TouchesItsKeys, EmptyTable
  <2>4. RemovesItsRow(p) /\ FollowsItsCourse(p)
    BY <1>6, <2>1 DEF RemovesItsRow, FollowsItsCourse, EmptyTable
  <2> QED
    BY <1>1, <2>2, <2>3, <2>4 DEF Sound
<1>9. RowsHaveSchedules
  BY <1>1 DEF RowsHaveSchedules, Init
<1> QED
  BY <1>1, <1>5, <1>7, <1>8, <1>9 DEF OrderTxInv, Init

LEMMA StepKeepsOrderTxInv ==
    ASSUME OrderTxInv, NEW p \in Procs, Step(p)
    PROVE  OrderTxInv'
BY ReadScheduleKeeps, LockScheduleKeeps, LockOwnKeeps, StartFetchKeeps, LockRowKeeps,
   EndFetchKeeps, ComputeKeeps, ValidateKeeps, WriteRowKeeps, PlaceNextKeeps, EndWritesKeeps,
   CommitKeeps, AbortKeeps
   DEF Step

LEMMA StutterKeeps ==
    ASSUME OrderTxInv, UNCHANGED vars
    PROVE  OrderTxInv'
<1>1. db' = db /\ schedules' = schedules /\ op' = op /\ tx' = tx
  BY DEF vars
<1>2. \A q \in Procs : Sound(q)'
  BY <1>1, SameSound DEF OrderTxInv
<1>3. TypeOK' /\ Apart' /\ UniqueKeys(db)' /\ RowsHaveSchedules'
  BY <1>1 DEF OrderTxInv, TypeOK, Apart, UniqueKeys, RowsHaveSchedules
<1> QED
  BY <1>1, <1>2, <1>3 DEF OrderTxInv, Item

(* What every transaction relies on from one statement to the next.        *)
THEOREM OrderTxInvHolds == Spec => []OrderTxInv
<1>1. Init => OrderTxInv
  BY InitOrderTxInv
<1>2. OrderTxInv /\ [Next]_vars => OrderTxInv'
  BY StepKeepsOrderTxInv, StutterKeeps DEF Next
<1> QED
  BY <1>1, <1>2, PTL DEF Spec

(* Type correctness of the table and of every running transaction.         *)
THEOREM TypeOKHolds == Spec => []TypeOK
<1>1. OrderTxInv => TypeOK
  BY DEF OrderTxInv
<1> QED
  BY <1>1, OrderTxInvHolds, PTL

(* No order row outlives its schedule: a sync that loses the race against  *)
(* delete_schedule cannot bring the row back.                              *)
THEOREM RowsHaveSchedulesHolds == Spec => []RowsHaveSchedules
<1>1. OrderTxInv => RowsHaveSchedules
  BY DEF OrderTxInv
<1> QED
  BY <1>1, OrderTxInvHolds, PTL

-----------------------------------------------------------------------------
(* Groups: positions 1..n, from dense tables.                              *)

(* Every table to start from has positions 1..n in each group.             *)
DenseTables == \A r \in Tables : Dense(r)

-----------------------------------------------------------------------------
(* A statement of another transaction that leaves the table alone.         *)

LEMMA SameOrderly ==
    ASSUME NEW q, UNCHANGED <<db, op>>, tx'[q] = tx[q], Orderly(q)
    PROVE  Orderly(q)'
<1>1. View(q)' = View(q) /\ Item(q)' = Item(q)
  BY DEF View, Item
<1>2. /\ Renumbers(q)' = Renumbers(q) /\ (Moves(q)' <=> Moves(q)) /\ (Wrote(q)' <=> Wrote(q))
      /\ (Arrives(q)' <=> Arrives(q))
  BY DEF Renumbers, Moves, Arrives, Wrote, Item
<1>3. /\ \A g : Listed(q, g)' = Listed(q, g)
      /\ \A g : Members(q, g)' = Members(q, g)
      /\ \A i : RowInTheEnd(q, i)' = RowInTheEnd(q, i)
  BY <1>1 DEF Listed, Members, RowInTheEnd, Names, Item
<1>4. \A g : Affects(q, g)' <=> Affects(q, g)
  BY DEF Affects
<1>5. LocksItsGroups(q)'
  BY <1>4 DEF LocksItsGroups, Orderly
<1>6. HoldsItsRow(q)'
  BY <1>1, <1>2, <1>4 DEF HoldsItsRow, Orderly
<1>7. ListsRows(q)'
  BY <1>1, <1>2, <1>3 DEF ListsRows, Remaining, Waiting, Tells, Orderly, Dense, DenseGroup
<1>8. WritesItsLists(q)'
  BY <1>1, <1>2, <1>3 DEF WritesItsLists, Complete, Orderly, DenseGroup
<1>9. ArrivesFirst(q)'
  BY <1>1, <1>2, <1>3 DEF ArrivesFirst, Arrival, Orderly
<1>10. EndsInOrder(q)'
  BY <1>1, <1>2, <1>3 DEF EndsInOrder, Orderly
<1>11. Closes(q)'
  BY <1>1 DEF Closes, Orderly, Dense, DenseGroup
<1> QED
  BY <1>5, <1>6, <1>7, <1>8, <1>9, <1>10, <1>11 DEF Orderly, NamedOnce

(* A statement of p that leaves the committed rows alone.                  *)
LEMMA QuietOrder ==
    ASSUME GroupsInv, OrderTxInv', NEW p \in Procs, NEW t,
           UNCHANGED <<db, op>>, tx' = [tx EXCEPT ![p] = t], Orderly(p)'
    PROVE  GroupsInv'
<1>1. \A q \in Procs \ {p} : tx'[q] = tx[q]
  BY OnlyOne DEF GroupsInv, OrderTxInv
<1>2. \A q \in Procs \ {p} : Orderly(q)'
  BY <1>1, SameOrderly DEF GroupsInv
<1>3. Dense(db)'
  BY DEF GroupsInv, Dense, DenseGroup
<1> QED
  BY <1>2, <1>3 DEF GroupsInv

(* A transaction that has not begun, or has ended.                         *)
LEMMA FreshOrderly ==
    ASSUME NEW p, tx'[p].pc \in {"start", "schedule", "own", "ended"},
           tx'[p].work = EmptyTable, ~tx'[p].placing,
           \A g \in Groups : tx'[p].fetched[g] = <<>>
    PROVE  Orderly(p)'
<1>1. \A g \in Groups : NamedOnce(tx[p].fetched[g])'
  BY DEF NamedOnce
<1>2. LocksItsGroups(p)'
  BY DEF LocksItsGroups, Affects, EmptyTable
<1>3. /\ HoldsItsRow(p)' /\ ListsRows(p)' /\ WritesItsLists(p)' /\ ArrivesFirst(p)'
      /\ EndsInOrder(p)' /\ Closes(p)'
  BY DEF HoldsItsRow, ListsRows, WritesItsLists, ArrivesFirst, EndsInOrder, Closes
<1> QED
  BY <1>1, <1>2, <1>3 DEF Orderly

(* A transaction that has ended relies on nothing.                         *)
LEMMA EndedOrderly ==
    ASSUME TypeOK, NEW p \in Procs, NEW result, Ended(p, result)
    PROVE  Orderly(p)'
<1>1. PICK t : t = [Fresh("ended", tx[p].attempt) EXCEPT !.result = result]
  OBVIOUS
<1>2. tx'[p] = t
  BY <1>1, OnlyOne DEF Ended, Goto
<1>3. t.pc = "ended" /\ t.work = EmptyTable /\ t.placing = FALSE /\ t.fetched = [g \in Groups |-> <<>>]
  BY <1>1 DEF Fresh
<1>4. /\ tx'[p].pc \in {"start", "schedule", "own", "ended"} /\ tx'[p].work = EmptyTable
      /\ ~tx'[p].placing /\ \A g \in Groups : tx'[p].fetched[g] = <<>>
  BY <1>2, <1>3
<1> QED
  BY <1>4, FreshOrderly

(* Nor does one that starts again.                                         *)
LEMMA RestartOrderly ==
    ASSUME TypeOK, NEW p \in Procs, NEW pc \in {"schedule", "own"}, NEW attempt,
           Goto(p, Fresh(pc, attempt))
    PROVE  Orderly(p)'
<1>1. PICK t : t = Fresh(pc, attempt)
  OBVIOUS
<1>2. tx'[p] = t
  BY <1>1, OnlyOne DEF Goto
<1>3. t.pc = pc /\ t.work = EmptyTable /\ t.placing = FALSE /\ t.fetched = [g \in Groups |-> <<>>]
  BY <1>1 DEF Fresh
<1>4. /\ tx'[p].pc \in {"start", "schedule", "own", "ended"} /\ tx'[p].work = EmptyTable
      /\ ~tx'[p].placing /\ \A g \in Groups : tx'[p].fetched[g] = <<>>
  BY <1>2, <1>3
<1> QED
  BY <1>4, FreshOrderly

(* A step of one process that changes neither the rows nor operations.     *)
LEMMA QuietStepOrder ==
    ASSUME GroupsInv, OrderTxInv', NEW p \in Procs, UNCHANGED <<db, op>>,
           NEW t, Goto(p, t), Orderly(p)'
    PROVE  GroupsInv'
BY QuietOrder DEF Goto

(* A rollback leaves the others what they rely on.                         *)
LEMMA IntegrityErrorOrder ==
    ASSUME GroupsInv, OrderTxInv', NEW p \in Procs, UNCHANGED <<db, op>>, IntegrityError(p)
    PROVE  GroupsInv'
<1>1. TypeOK
  BY DEF GroupsInv, OrderTxInv
<1>2. CASE \E result \in {"died", "gave_up"} : Ended(p, result)
  BY <1>1, <1>2, EndedOrderly, QuietStepOrder DEF Ended
<1>3. CASE Goto(p, Fresh("own", tx[p].attempt + 1))
  BY <1>1, <1>3, RestartOrderly, QuietStepOrder
<1> QED
  BY <1>2, <1>3 DEF IntegrityError

(* A request that ends leaves the others what they rely on.                *)
LEMMA EndedOrder ==
    ASSUME GroupsInv, OrderTxInv', NEW p \in Procs, UNCHANGED <<db, op>>, NEW result, Ended(p, result)
    PROVE  GroupsInv'
<1>1. TypeOK
  BY DEF GroupsInv, OrderTxInv
<1> QED
  BY <1>1, EndedOrderly, QuietStepOrder DEF Ended

(* get_schedule, before the transaction.                                   *)
LEMMA ReadScheduleOrder ==
    ASSUME GroupsInv, OrderTxInv', NEW p \in Procs, ReadSchedule(p)
    PROVE  GroupsInv'
<1>1. TypeOK /\ UNCHANGED <<db, op>>
  BY DEF GroupsInv, OrderTxInv, ReadSchedule
<1>2. CASE \E pc \in {"schedule", "own"} : Goto(p, Fresh(pc, 1))
  BY <1>1, <1>2, RestartOrderly, QuietStepOrder
<1>3. CASE Ended(p, "absent")
  BY <1>1, <1>3, EndedOrder
<1> QED
  BY <1>2, <1>3 DEF ReadSchedule

(* delete_schedule locks its schedule.                                     *)
LEMMA LockScheduleOrder ==
    ASSUME GroupsInv, OrderTxInv', NEW p \in Procs, LockSchedule(p)
    PROVE  GroupsInv'
<1>1. TypeOK /\ UNCHANGED <<db, op>> /\ tx[p].pc = "schedule" /\ FollowsItsCourse(p)
  BY DEF GroupsInv, OrderTxInv, LockSchedule, Sound
<1>2. CASE Ended(p, "absent")
  BY <1>1, <1>2, EndedOrder
<1>3. CASE Goto(p, [tx[p] EXCEPT !.pc = "own", !.held = {ScheduleLock(Item(p))}])
  <2>1. PICK S \in SUBSET Items : tx[p] \in Transactions(S)
    BY <1>1 DEF TypeOK
  <2>2. PICK t : t = [tx[p] EXCEPT !.pc = "own", !.held = {ScheduleLock(Item(p))}]
    OBVIOUS
  <2>3. t.pc = "own" /\ t.work = tx[p].work /\ t.placing = tx[p].placing /\ t.fetched = tx[p].fetched
    BY <2>1, <2>2 DEF Transactions
  <2>4. tx[p].placing = FALSE
    BY <1>1, <2>1 DEF FollowsItsCourse, Transactions
  <2>5. tx'[p] = t
    BY <1>1, <1>3, <2>2, OnlyOne DEF Goto
  <2>6. /\ tx'[p].pc \in {"start", "schedule", "own", "ended"} /\ tx'[p].work = EmptyTable
        /\ ~tx'[p].placing /\ \A g \in Groups : tx'[p].fetched[g] = <<>>
    BY <1>1, <2>3, <2>4, <2>5 DEF FollowsItsCourse
  <2>7. Orderly(p)'
    BY <2>6, FreshOrderly
  <2> QED
    BY <1>1, <1>3, <2>7, QuietStepOrder
<1> QED
  BY <1>2, <1>3 DEF LockSchedule

(* The database breaks a deadlock.                                         *)
LEMMA AbortDeadlockOrder ==
    ASSUME GroupsInv, OrderTxInv', NEW p \in Procs, AbortDeadlock(p)
    PROVE  GroupsInv'
BY EndedOrder DEF AbortDeadlock

-----------------------------------------------------------------------------
(* Locking and fetching.                                                   *)

(* A statement of p that writes nothing.                                   *)
LEMMA KeepsItsGroups ==
    ASSUME UNCHANGED <<db, op>>, NEW p, tx'[p].work = tx[p].work,
           tx[p].touched \subseteq tx'[p].touched, tx[p].held \subseteq tx'[p].held,
           LocksItsGroups(p)
    PROVE  /\ View(p)' = View(p) /\ Item(p)' = Item(p) /\ (Wrote(p)' <=> Wrote(p))
           /\ \A g : Affects(p, g)' <=> Affects(p, g)
           /\ LocksItsGroups(p)'
<1>1. View(p)' = View(p) /\ Item(p)' = Item(p) /\ (Wrote(p)' <=> Wrote(p))
  BY DEF View, Item, Wrote
<1>2. \A g : Affects(p, g)' <=> Affects(p, g)
  BY DEF Affects
<1> QED
  BY <1>1, <1>2 DEF LocksItsGroups

(* What an operation's groups are.                                         *)
LEMMA GroupsToFetchGroups ==
    ASSUME TypeOK, NEW p \in Procs, NEW row \in Rows \cup {NoRow}
    PROVE  LET G == GroupsToFetch(p, row)
           IN  /\ \A k \in DOMAIN G : \/ row # NoRow /\ G[k] = row.group
                                      \/ op[p].kind # "remove" /\ G[k] = op[p].group
               /\ \A k, m \in DOMAIN G : G[k] = G[m] => k = m
               /\ row # NoRow => \E k \in DOMAIN G : G[k] = row.group
<1>1. PICK g \in Groups : g = op[p].group
  BY OpType
<1>2. g \in Nat
  BY OrderTxAssumption
<1>3. CASE row = NoRow
  BY <1>1, <1>3 DEF GroupsToFetch
<1>4. CASE row # NoRow
  <2>1. PICK h \in Groups : h = row.group
    BY <1>4, RowType
  <2>2. h \in Nat
    BY OrderTxAssumption
  <2>3. CASE op[p].kind = "remove" \/ h = g
    <3>1. GroupsToFetch(p, row) = <<h>>
      BY <1>1, <1>4, <2>1, <2>3 DEF GroupsToFetch
    <3> QED
      BY <1>4, <2>1, <3>1
  <2>4. CASE op[p].kind # "remove" /\ h < g
    <3>1. GroupsToFetch(p, row) = <<h, g>>
      BY <1>1, <1>2, <1>4, <2>1, <2>2, <2>4 DEF GroupsToFetch
    <3> QED
      BY <1>1, <1>2, <1>4, <2>1, <2>2, <2>4, <3>1
  <2>5. CASE op[p].kind # "remove" /\ g < h
    <3>1. GroupsToFetch(p, row) = <<g, h>>
      BY <1>1, <1>2, <1>4, <2>1, <2>2, <2>5 DEF GroupsToFetch
    <3> QED
      BY <1>1, <1>2, <1>4, <2>1, <2>2, <2>5, <3>1
  <2> QED
    BY <1>2, <2>2, <2>3, <2>4, <2>5
<1> QED
  BY <1>3, <1>4

(* The own row is locked: it stays in its group from now on.               *)
LEMMA LockOwnOrder ==
    ASSUME GroupsInv, OrderTxInv', NEW p \in Procs, LockOwn(p)
    PROVE  GroupsInv'
<1>1. /\ UNCHANGED <<db, schedules, op>> /\ tx[p].pc = "own" /\ TypeOK /\ Sound(p)
      /\ FollowsItsCourse(p) /\ OrderTxInv /\ Dense(db) /\ LocksItsGroups(p)
  BY DEF LockOwn, GroupsInv, OrderTxInv, Sound, Orderly
<1>2. PICK S \in SUBSET Items : tx[p] \in Transactions(S)
  BY <1>1 DEF TypeOK
<1>3. PICK row \in Rows \cup {NoRow} : row = IF Item(p) \in DOMAIN db THEN db[Item(p)] ELSE NoRow
  BY <1>1 DEF TypeOK
<1>4. PICK groups : groups = GroupsToFetch(p, row)
  OBVIOUS
<1>5. PICK pc : pc = IF row = NoRow /\ op[p].kind = "remove" THEN "commit" ELSE "fetch"
  OBVIOUS
<1>6. PICK t : t = [tx[p] EXCEPT !.pc = pc, !.own = row, !.groups = groups,
                                 !.held = @ \cup Needs(p)]
  OBVIOUS
<1>7. tx' = [tx EXCEPT ![p] = t] /\ Goto(p, t)
  BY <1>1, <1>3, <1>4, <1>5, <1>6 DEF LockOwn, Goto
<1>8. /\ t.pc = pc /\ t.own = row /\ t.groups = groups /\ t.held = tx[p].held \cup Needs(p)
      /\ t.work = tx[p].work /\ t.touched = tx[p].touched /\ t.fetched = tx[p].fetched
      /\ t.placing = tx[p].placing
      /\ pc \in {"fetch", "commit"} /\ (pc = "commit" => op[p].kind = "remove")
  BY <1>2, <1>5, <1>6 DEF Transactions
<1>9. tx'[p] = t
  BY <1>1, <1>7, OnlyOne
<1>10. /\ tx'[p].work = tx[p].work /\ tx[p].touched \subseteq tx'[p].touched
       /\ tx[p].held \subseteq tx'[p].held
  BY <1>8, <1>9
<1>11. /\ View(p)' = View(p) /\ Item(p)' = Item(p) /\ (Wrote(p)' <=> Wrote(p))
       /\ LocksItsGroups(p)'
  BY <1>1, <1>10, KeepsItsGroups
<1>12. tx[p].work = EmptyTable /\ ~tx[p].placing /\ tx[p].own = NoRow
  BY <1>1, <1>2 DEF FollowsItsCourse, Transactions
<1>13. View(p) = db /\ ~Wrote(p)
  <2>1. db = [i \in DOMAIN db |-> db[i]] /\ DOMAIN EmptyTable = {}
    BY <1>1 DEF TypeOK, EmptyTable
  <2> QED
    BY <1>12, <2>1 DEF View, Wrote
<1>14. /\ \A k \in DOMAIN groups : \/ row # NoRow /\ groups[k] = row.group
                                   \/ op[p].kind # "remove" /\ groups[k] = op[p].group
       /\ \A k, m \in DOMAIN groups : groups[k] = groups[m] => k = m
       /\ row # NoRow => \E k \in DOMAIN groups : groups[k] = row.group
  BY <1>1, <1>4, GroupsToFetchGroups
<1>15. \A g \in Groups : t.fetched[g] = <<>>
  BY <1>1, <1>8 DEF FollowsItsCourse
<1>16. groups \in Seq(Groups)
  BY <1>1, <1>4, GroupsToFetchType
<1>17. row # NoRow => /\ Item(p) \in Siblings(db, row.group) /\ RowLock(Item(p)) \in t.held
                      /\ Item(p) \in DOMAIN db /\ row = db[Item(p)]
  BY <1>1, <1>3, <1>8 DEF Needs, Siblings
<1>18. HoldsItsRow(p)'
  BY <1>1, <1>8, <1>9, <1>11, <1>12, <1>13, <1>17 DEF HoldsItsRow
<1>19. Renumbers(p)' = {g \in Groups : \/ (row # NoRow /\ g = row.group)
                                       \/ (op[p].kind # "remove" /\ g = op[p].group)}
  BY <1>1, <1>8, <1>9 DEF Renumbers
<1>20. Remaining(p)' = DOMAIN groups
  BY <1>8, <1>9 DEF Remaining
<1>21. \A k \in DOMAIN groups : groups[k] \in Renumbers(p)' /\ groups[k] \in Groups
  BY <1>14, <1>16, <1>19
<1>22. ListsRows(p)'
  <2>1. Dense(View(p))'
    BY <1>1, <1>11, <1>13 DEF Dense, DenseGroup
  <2>2. row # NoRow => Item(p) \in DOMAIN View(p) /\ View(p)[Item(p)] = row
    BY <1>13, <1>17
  <2>3. \A g \in Renumbers(p)' : t.fetched[g] = <<>>
    BY <1>15, <1>19
  <2>4. \A k \in Remaining(p)' : t.fetched[t.groups[k]] = <<>>
    BY <1>8, <1>15, <1>20, <1>21
  <2>5. row # NoRow => \E k \in Remaining(p)' : t.groups[k] = row.group
    BY <1>8, <1>14, <1>20
  <2> QED
    BY <1>8, <1>9, <1>11, <1>14, <1>21, <2>1, <2>2, <2>3, <2>4, <2>5 DEF ListsRows
<1>23. Orderly(p)'
  <2>1. \A g \in Groups : NamedOnce(t.fetched[g])
    BY <1>15 DEF NamedOnce
  <2>2. WritesItsLists(p)' /\ ArrivesFirst(p)' /\ EndsInOrder(p)'
    BY <1>8, <1>9 DEF WritesItsLists, ArrivesFirst, EndsInOrder
  <2>3. Dense(View(p))'
    BY <1>1, <1>11, <1>13 DEF Dense, DenseGroup
  <2>4. Closes(p)'
    BY <1>1, <1>8, <1>9, <2>3 DEF Closes
  <2> QED
    BY <1>9, <1>11, <1>18, <1>22, <2>1, <2>2, <2>4 DEF Orderly, NamedOnce
<1> QED
  BY <1>1, <1>7, <1>23, QuietStepOrder

(* A statement of a fetch: what else it has to preserve are the lists.     *)
LEMMA FetchingOrder ==
    ASSUME GroupsInv, OrderTxInv', NEW p \in Procs, NEW t, Goto(p, t), UNCHANGED <<db, op>>,
           tx[p].pc \in {"fetch", "lock"}, t.pc \in {"fetch", "lock"},
           t.work = tx[p].work, t.touched = tx[p].touched, tx[p].held \subseteq t.held,
           t.own = tx[p].own, t.placing = tx[p].placing,
           \A g \in Groups : NamedOnce(t.fetched[g]),
           ListsRows(p)'
    PROVE  GroupsInv'
<1>1. TypeOK /\ Orderly(p)
  BY DEF GroupsInv, OrderTxInv
<1>2. tx'[p] = t
  BY <1>1, OnlyOne DEF Goto
<1>3. LocksItsGroups(p)
  BY <1>1 DEF Orderly
<1>4. /\ tx'[p].work = tx[p].work /\ tx[p].touched \subseteq tx'[p].touched
      /\ tx[p].held \subseteq tx'[p].held
  BY <1>2
<1>5. /\ Item(p)' = Item(p) /\ (Wrote(p)' <=> Wrote(p))
      /\ \A g : Affects(p, g)' <=> Affects(p, g)
      /\ LocksItsGroups(p)'
  BY <1>3, <1>4, KeepsItsGroups
<1>6. HoldsItsRow(p)'
  BY <1>1, <1>2, <1>4, <1>5 DEF Orderly, HoldsItsRow
<1>7. /\ WritesItsLists(p)' /\ ArrivesFirst(p)' /\ EndsInOrder(p)' /\ Closes(p)'
      /\ \A g \in Groups : NamedOnce(tx[p].fetched[g])'
  BY <1>2 DEF WritesItsLists, ArrivesFirst, EndsInOrder, Closes, NamedOnce
<1>8. Orderly(p)'
  BY <1>5, <1>6, <1>7 DEF Orderly
<1> QED
  BY <1>8, QuietStepOrder

(* A fetch starts with the rows the group has then.                        *)
LEMMA StartFetchOrder ==
    ASSUME GroupsInv, OrderTxInv', NEW p \in Procs, StartFetch(p)
    PROVE  GroupsInv'
<1>1. /\ UNCHANGED <<db, schedules, op>> /\ tx[p].pc = "fetch" /\ tx[p].groups # <<>>
      /\ TypeOK /\ Sound(p) /\ Orderly(p) /\ ListsRows(p) /\ UniqueKeys(View(p))
      /\ \A g \in Groups : NamedOnce(tx[p].fetched[g])
  BY DEF StartFetch, GroupsInv, OrderTxInv, Orderly, Sound
<1>2. PICK S \in SUBSET Items : tx[p] \in Transactions(S)
  BY <1>1 DEF TypeOK
<1>3. PICK g \in Groups : g = Head(tx[p].groups) /\ g = tx[p].groups[1] /\ 1 \in DOMAIN tx[p].groups
  <2>1. PICK G \in Seq(Groups) : G = tx[p].groups
    BY <1>2 DEF Transactions
  <2>2. Head(G) \in Groups /\ Head(G) = G[1] /\ 1 \in DOMAIN G
    BY <1>1, <2>1
  <2> QED
    BY <2>1, <2>2
<1>4. PICK todo : todo = FetchGroup(View(p), g)
  OBVIOUS
<1>5. PICK t : t = [tx[p] EXCEPT !.pc = "lock", !.todo = todo]
  OBVIOUS
<1>6. Goto(p, t)
  BY <1>1, <1>3, <1>4, <1>5 DEF StartFetch
<1>7. /\ t.pc = "lock" /\ t.todo = todo /\ t.groups = tx[p].groups /\ t.fetched = tx[p].fetched
      /\ t.work = tx[p].work /\ t.touched = tx[p].touched /\ t.held = tx[p].held
      /\ t.own = tx[p].own /\ t.placing = tx[p].placing
  BY <1>2, <1>5 DEF Transactions
<1>8. tx'[p] = t
  BY <1>1, <1>6, OnlyOne DEF Goto
<1>9. Lists(todo, Siblings(View(p), g), Cardinality(Siblings(View(p), g)))
  BY <1>1, <1>4, FetchGroupType
<1>10. /\ \A k, m \in DOMAIN todo : todo[k] = todo[m] => k = m
       /\ \A i \in Siblings(View(p), g) : \E k \in DOMAIN todo : todo[k] = i
  BY <1>9 DEF Lists
<1>11. View(p)' = View(p) /\ Item(p)' = Item(p)
  BY <1>1, <1>7, <1>8 DEF View, Item
<1>12. Renumbers(p)' = Renumbers(p) /\ \A h : Listed(p, h)' = Listed(p, h)
  BY <1>1, <1>7, <1>8 DEF Renumbers, Listed
<1>13. Remaining(p) = DOMAIN tx[p].groups /\ Remaining(p)' = Remaining(p) \ {1}
  <2>1. DOMAIN tx[p].groups \subseteq Nat \ {0}
    BY <1>2 DEF Transactions
  <2>2. Remaining(p) = DOMAIN tx[p].groups
    BY <1>1 DEF Remaining
  <2>3. Remaining(p)' = {k \in DOMAIN tx[p].groups : k > 1}
    BY <1>7, <1>8 DEF Remaining
  <2>4. \A k \in DOMAIN tx[p].groups : k > 1 <=> k # 1
    BY <2>1
  <2> QED
    BY <2>2, <2>3, <2>4
<1>14. Siblings(View(p), g) \subseteq Waiting(p, g)'
  <2>1. Head(tx'[p].groups) = g
    BY <1>3, <1>7, <1>8
  <2>2. Waiting(p, g)' = {todo[k] : k \in {m \in DOMAIN todo : "lock" = "lock" /\ g = g}}
    BY <1>7, <1>8, <2>1 DEF Waiting
  <2> QED
    BY <1>10, <2>2
<1>15. Listed(p, g) = {}
  BY <1>1, <1>3, <1>13 DEF ListsRows, Listed, Names
<1>16. ListsRows(p)'
  <2>1. Dense(View(p))'
    BY <1>1, <1>11 DEF ListsRows, Dense, DenseGroup
  <2>2. t.own # NoRow => Item(p) \in DOMAIN View(p) /\ View(p)[Item(p)] = t.own
    BY <1>1, <1>7 DEF ListsRows
  <2>3. ASSUME NEW h \in Renumbers(p), NEW k \in DOMAIN t.fetched[h]
        PROVE  Tells(p, h, t.fetched[h][k])'
    <3>1. Tells(p, h, t.fetched[h][k])
      BY <1>1, <1>7 DEF ListsRows
    <3> QED
      BY <1>11, <3>1 DEF Tells
  <2>4. /\ \A k \in DOMAIN t.groups : t.groups[k] \in Renumbers(p)
        /\ \A k, m \in DOMAIN t.groups : t.groups[k] = t.groups[m] => k = m
        /\ \A k \in Remaining(p)' : t.fetched[t.groups[k]] = <<>>
    BY <1>1, <1>7, <1>13 DEF ListsRows
  <2>5. \A k \in DOMAIN t.todo : t.todo[k] \notin Listed(p, Head(t.groups))
    BY <1>3, <1>7, <1>15
  <2>6. t.own # NoRow =>
              \/ \E k \in Remaining(p)' : t.groups[k] = t.own.group
              \/ Siblings(View(p), t.own.group) \subseteq
                    Listed(p, t.own.group) \cup Waiting(p, t.own.group)'
    <3>1. CASE \E k \in Remaining(p) : tx[p].groups[k] = t.own.group
      BY <1>3, <1>7, <1>13, <1>14, <3>1
    <3>2. CASE Siblings(View(p), t.own.group) \subseteq
                  Listed(p, t.own.group) \cup Waiting(p, t.own.group)
      <4>1. Waiting(p, t.own.group) = {}
        BY <1>1 DEF Waiting
      <4> QED
        BY <3>2, <4>1
    <3> QED
      BY <1>1, <1>7, <3>1, <3>2 DEF ListsRows
  <2> QED
    BY <1>7, <1>8, <1>10, <1>11, <1>12, <2>1, <2>2, <2>3, <2>4, <2>5, <2>6 DEF ListsRows
<1> QED
  BY <1>1, <1>6, <1>7, <1>16, FetchingOrder

(* A fetch ends: its list is true, and complete if the own row is in it.   *)
LEMMA EndFetchOrder ==
    ASSUME GroupsInv, OrderTxInv', NEW p \in Procs, EndFetch(p)
    PROVE  GroupsInv'
<1>1. /\ UNCHANGED <<db, schedules, op>> /\ tx[p].pc = "lock" /\ tx[p].todo = <<>>
      /\ TypeOK /\ Orderly(p) /\ ListsRows(p) /\ tx[p].groups # <<>>
      /\ \A g \in Groups : NamedOnce(tx[p].fetched[g])
  BY DEF EndFetch, GroupsInv, OrderTxInv, Orderly, Sound, FollowsItsCourse
<1>2. PICK S \in SUBSET Items : tx[p] \in Transactions(S)
  BY <1>1 DEF TypeOK
<1>3. PICK G \in Seq(Groups) : G = tx[p].groups
  BY <1>2 DEF Transactions
<1>4. /\ Tail(G) \in Seq(Groups)
      /\ \A k \in DOMAIN Tail(G) : k + 1 \in DOMAIN G /\ k + 1 > 1 /\ Tail(G)[k] = G[k + 1]
      /\ \A k \in DOMAIN G : k > 1 => k - 1 \in DOMAIN Tail(G) /\ Tail(G)[k - 1] = G[k]
      /\ DOMAIN G \subseteq Nat /\ DOMAIN Tail(G) \subseteq Nat
  BY <1>1, <1>3
<1>5. PICK rest : rest = Tail(G)
  OBVIOUS
<1>6. PICK t : t = [tx[p] EXCEPT !.pc = "fetch", !.groups = rest]
  OBVIOUS
<1>7. Goto(p, t)
  <2>1. t = [tx[p] EXCEPT !.pc = "fetch", !.groups = Tail(@)]
    BY <1>3, <1>5, <1>6
  <2> QED
    BY <1>1, <2>1 DEF EndFetch
<1>8. /\ t.pc = "fetch" /\ t.groups = rest /\ t.fetched = tx[p].fetched
      /\ t.work = tx[p].work /\ t.touched = tx[p].touched /\ t.held = tx[p].held
      /\ t.own = tx[p].own /\ t.placing = tx[p].placing
  BY <1>2, <1>6 DEF Transactions
<1>9. tx'[p] = t
  BY <1>1, <1>7, OnlyOne DEF Goto
<1>10. View(p)' = View(p) /\ Item(p)' = Item(p)
  BY <1>1, <1>8, <1>9 DEF View, Item
<1>11. Renumbers(p)' = Renumbers(p) /\ \A h : Listed(p, h)' = Listed(p, h)
  BY <1>1, <1>8, <1>9 DEF Renumbers, Listed
<1>12. Remaining(p) = {k \in DOMAIN G : k > 1} /\ Remaining(p)' = DOMAIN rest
  BY <1>1, <1>3, <1>8, <1>9 DEF Remaining
<1>13. ListsRows(p)'
  <2>1. Dense(View(p))'
    BY <1>1, <1>10 DEF ListsRows, Dense, DenseGroup
  <2>2. t.own # NoRow => Item(p) \in DOMAIN View(p) /\ View(p)[Item(p)] = t.own
    BY <1>1, <1>8 DEF ListsRows
  <2>3. ASSUME NEW h \in Renumbers(p), NEW k \in DOMAIN t.fetched[h]
        PROVE  Tells(p, h, t.fetched[h][k])'
    <3>1. Tells(p, h, t.fetched[h][k])
      BY <1>1, <1>8 DEF ListsRows
    <3> QED
      BY <1>10, <3>1 DEF Tells
  <2>4. /\ \A k \in DOMAIN G : G[k] \in Renumbers(p)
        /\ \A k, m \in DOMAIN G : G[k] = G[m] => k = m
        /\ \A k \in DOMAIN G : k > 1 => tx[p].fetched[G[k]] = <<>>
    BY <1>1, <1>3, <1>12 DEF ListsRows
  <2>5. \A k \in DOMAIN rest : /\ rest[k] \in Renumbers(p)
                               /\ t.fetched[rest[k]] = <<>>
    BY <1>4, <1>5, <1>8, <2>4
  <2>6. \A k, m \in DOMAIN rest : rest[k] = rest[m] => k = m
    <3>1. ASSUME NEW k \in DOMAIN rest, NEW m \in DOMAIN rest, rest[k] = rest[m] PROVE k = m
      <4>1. k + 1 = m + 1 /\ k \in Nat /\ m \in Nat
        BY <1>4, <1>5, <2>4, <3>1
      <4> QED
        BY <4>1
    <3> QED
      BY <3>1
  <2>7. t.own # NoRow =>
              \/ \E k \in Remaining(p)' : t.groups[k] = t.own.group
              \/ Siblings(View(p), t.own.group) \subseteq
                    Listed(p, t.own.group) \cup Waiting(p, t.own.group)'
    <3>1. CASE \E k \in Remaining(p) : tx[p].groups[k] = t.own.group
      BY <1>3, <1>4, <1>5, <1>8, <1>12, <3>1
    <3>2. CASE Siblings(View(p), t.own.group) \subseteq
                  Listed(p, t.own.group) \cup Waiting(p, t.own.group)
      <4>1. Waiting(p, t.own.group) = {}
        BY <1>1 DEF Waiting
      <4> QED
        BY <3>2, <4>1
    <3> QED
      BY <1>1, <1>8, <3>1, <3>2 DEF ListsRows
  <2> QED
    BY <1>8, <1>9, <1>10, <1>11, <1>12, <2>1, <2>2, <2>3, <2>5, <2>6, <2>7 DEF ListsRows
<1> QED
  BY <1>1, <1>7, <1>8, <1>13, FetchingOrder

(* A row is locked that may have left since the fetch started.             *)
LEMMA LockRowOrder ==
    ASSUME GroupsInv, OrderTxInv', NEW p \in Procs, LockRow(p)
    PROVE  GroupsInv'
<1>1. /\ UNCHANGED <<db, schedules, op>> /\ tx[p].pc = "lock" /\ tx[p].todo # <<>>
      /\ TypeOK /\ Orderly(p) /\ ListsRows(p) /\ tx[p].groups # <<>> /\ WorksOnItsRows(p)
      /\ \A g \in Groups : NamedOnce(tx[p].fetched[g])
  BY DEF LockRow, GroupsInv, OrderTxInv, Orderly, Sound, FollowsItsCourse
<1>2. PICK S \in SUBSET Items : tx[p] \in Transactions(S)
  BY <1>1 DEF TypeOK
<1>3. PICK G \in Seq(Groups) : G = tx[p].groups
  BY <1>2 DEF Transactions
<1>4. PICK g \in Groups : g = Head(G) /\ g = G[1] /\ 1 \in DOMAIN G
  BY <1>1, <1>3
<1>5. PICK todo \in Seq(Items) : todo = tx[p].todo
  BY <1>2 DEF Transactions
<1>6. PICK i \in Items : i = Head(todo) /\ i = todo[1] /\ 1 \in DOMAIN todo
  BY <1>1, <1>5
<1>7. PICK rest : rest = Tail(todo)
  OBVIOUS
<1>8. /\ \A k \in DOMAIN rest : k \in Nat /\ k # 0 /\ k + 1 \in DOMAIN todo /\ rest[k] = todo[k + 1]
      /\ \A k \in DOMAIN todo : k # 1 => k - 1 \in DOMAIN rest /\ rest[k - 1] = todo[k]
  <2>1. PICK n \in Nat : n = Len(todo) /\ DOMAIN todo = 1..n /\ n > 0
    BY <1>1, <1>5
  <2>2. DOMAIN rest = 1..(n - 1) /\ \A k \in 1..(n - 1) : rest[k] = todo[k + 1]
    BY <1>1, <1>5, <1>7, <2>1
  <2> QED
    BY <2>1, <2>2
<1> DEFINE here == i \in DOMAIN View(p) /\ View(p)[i].group = g
           entry == [item |-> i, position |-> View(p)[i].position]
<1>9. PICK items \in Seq(Entries) : items = tx[p].fetched[g]
  BY <1>1, FetchedEntries
<1>10. PICK more : more = IF here THEN Append(items, entry) ELSE items
  OBVIOUS
<1>11. PICK t : t = [tx[p] EXCEPT !.todo = rest, !.held = @ \cup Needs(p), !.fetched[g] = more]
  OBVIOUS
<1>12. Goto(p, t)
  <2>1. t = [tx[p] EXCEPT !.todo = Tail(@), !.held = @ \cup Needs(p),
                          !.fetched[g] = IF here THEN Append(@, entry) ELSE @]
    <3>1. tx[p].fetched \in [Groups -> Seq(Entries)] /\ tx[p].todo = todo
      BY <1>2, <1>5 DEF Transactions
    <3>2. [tx[p].fetched EXCEPT ![g] = more]
             = [tx[p].fetched EXCEPT ![g] = IF here THEN Append(@, entry) ELSE @]
      BY <1>9, <1>10, <3>1
    <3> QED
      BY <1>7, <1>11, <3>1, <3>2
  <2> QED
    BY <1>1, <1>3, <1>4, <1>5, <1>6, <1>7, <2>1 DEF LockRow
<1>13. /\ t.pc = "lock" /\ t.todo = rest /\ t.groups = G
       /\ t.fetched = [tx[p].fetched EXCEPT ![g] = more]
       /\ t.work = tx[p].work /\ t.touched = tx[p].touched /\ tx[p].held \subseteq t.held
       /\ t.own = tx[p].own /\ t.placing = tx[p].placing
  BY <1>1, <1>2, <1>3, <1>11 DEF Transactions
<1>14. t.fetched[g] = more /\ \A h \in Groups \ {g} : t.fetched[h] = tx[p].fetched[h]
  BY <1>2, <1>13 DEF Transactions
<1>15. tx'[p] = t
  BY <1>1, <1>12, OnlyOne DEF Goto
<1>16. View(p)' = View(p) /\ Item(p)' = Item(p) /\ Renumbers(p)' = Renumbers(p)
  BY <1>1, <1>13, <1>15 DEF View, Item, Renumbers
<1>17. /\ \A k, m \in DOMAIN todo : todo[k] = todo[m] => k = m
       /\ \A k \in DOMAIN todo : todo[k] \notin Listed(p, g)
  BY <1>1, <1>3, <1>4, <1>5 DEF ListsRows
<1>18. /\ \A k \in DOMAIN more : \/ (k \in DOMAIN items /\ more[k] = items[k])
                                 \/ (here /\ k = Len(items) + 1 /\ more[k] = entry)
       /\ \A k \in DOMAIN items : k \in DOMAIN more /\ more[k] = items[k]
       /\ here => \E k \in DOMAIN more : more[k] = entry
  <2>1. CASE here
    <3>1. PICK e : e = entry
      OBVIOUS
    <3>2. more = Append(items, e)
      BY <1>10, <2>1, <3>1
    <3>3. /\ Len(items) \in Nat /\ DOMAIN items = 1..Len(items)
          /\ DOMAIN more = 1..(Len(items) + 1)
          /\ more[Len(items) + 1] = e /\ \A k \in 1..Len(items) : more[k] = items[k]
      BY <3>2
    <3> QED
      BY <2>1, <3>1, <3>3
  <2>2. CASE ~here
    BY <1>10, <2>2
  <2> QED
    BY <2>1, <2>2
<1> HIDE DEF here
<1>19. Listed(p, g) = Names(items) /\ Listed(p, g)' = Names(more)
       /\ \A h \in Groups \ {g} : Listed(p, h)' = Listed(p, h)
  BY <1>9, <1>14, <1>15 DEF Listed
<1>20. Names(more) = Names(items) \cup (IF here THEN {i} ELSE {})
  BY <1>18 DEF Names
<1>21. \A h \in Groups : NamedOnce(t.fetched[h])
  <2>1. i \notin Names(items)
    BY <1>6, <1>17, <1>19
  <2>2. NamedOnce(items)
    BY <1>1, <1>9
  <2>3. ASSUME NEW k \in DOMAIN more, NEW m \in DOMAIN more, more[k].item = more[m].item
        PROVE  k = m
    BY <1>18, <2>1, <2>2, <2>3 DEF Names, NamedOnce
  <2>4. NamedOnce(more)
    BY <2>3 DEF NamedOnce
  <2> QED
    BY <1>1, <1>14, <2>4
<1>22. Remaining(p)' = {k \in DOMAIN G : k > 1} /\ Remaining(p) = Remaining(p)'
  BY <1>1, <1>3, <1>13, <1>15 DEF Remaining
<1>23. ListsRows(p)'
  <2>1. Dense(View(p))'
    BY <1>1, <1>16 DEF ListsRows, Dense, DenseGroup
  <2>2. t.own # NoRow => Item(p) \in DOMAIN View(p) /\ View(p)[Item(p)] = t.own
    BY <1>1, <1>13 DEF ListsRows
  <2>3. ASSUME NEW h \in Renumbers(p), NEW k \in DOMAIN t.fetched[h]
        PROVE  Tells(p, h, t.fetched[h][k])'
    <3>1. h \in Groups
      BY DEF Renumbers
    <3>2. CASE h = g /\ here /\ more[k] = entry
      <4>1. View(p)[i] \in Rows
        BY <1>1, <3>2, ViewType DEF here
      <4>2. View(p)[i] = [group |-> g, position |-> View(p)[i].position]
        BY <3>2, <4>1, RowType DEF here
      <4>3. t.fetched[h][k] = entry
        BY <1>14, <3>2
      <4> QED
        BY <1>16, <3>2, <4>2, <4>3 DEF Tells, here
    <3>3. CASE k \in DOMAIN tx[p].fetched[h] /\ t.fetched[h][k] = tx[p].fetched[h][k]
      <4>1. Tells(p, h, t.fetched[h][k])
        BY <1>1, <3>3 DEF ListsRows
      <4> QED
        BY <1>16, <4>1 DEF Tells
    <3> QED
      BY <1>9, <1>14, <1>18, <3>1, <3>2, <3>3
  <2>4. /\ \A k \in DOMAIN G : G[k] \in Renumbers(p)
        /\ \A k, m \in DOMAIN G : G[k] = G[m] => k = m
        /\ \A k \in Remaining(p) : tx[p].fetched[G[k]] = <<>> /\ G[k] \in Groups
    BY <1>1, <1>3 DEF ListsRows, Renumbers, Remaining
  <2>5. \A k \in Remaining(p)' : t.fetched[G[k]] = <<>>
    BY <1>4, <1>14, <1>22, <2>4
  <2>6. /\ \A k \in DOMAIN rest : rest[k] \notin Listed(p, g)'
        /\ \A k, m \in DOMAIN rest : rest[k] = rest[m] => k = m
    <3>1. ASSUME NEW k \in DOMAIN rest
          PROVE  rest[k] \notin Listed(p, g)' /\ rest[k] # i
      <4>1. k + 1 \in DOMAIN todo /\ k + 1 # 1 /\ rest[k] = todo[k + 1]
        BY <1>8
      <4> QED
        BY <1>6, <1>17, <1>19, <1>20, <4>1
    <3>2. ASSUME NEW k \in DOMAIN rest, NEW m \in DOMAIN rest, rest[k] = rest[m] PROVE k = m
      <4>1. k + 1 = m + 1 /\ k \in Nat /\ m \in Nat
        BY <1>8, <1>17, <3>2
      <4> QED
        BY <4>1
    <3> QED
      BY <3>1, <3>2
  <2>7. t.own # NoRow =>
              \/ \E k \in Remaining(p)' : t.groups[k] = t.own.group
              \/ Siblings(View(p), t.own.group) \subseteq
                    Listed(p, t.own.group)' \cup Waiting(p, t.own.group)'
    <3>1. CASE \E k \in Remaining(p) : tx[p].groups[k] = t.own.group
      BY <1>3, <1>13, <1>22, <3>1
    <3>2. ASSUME t.own # NoRow, 
                 Siblings(View(p), t.own.group) \subseteq
                  Listed(p, t.own.group) \cup Waiting(p, t.own.group)
          PROVE  Siblings(View(p), t.own.group) \subseteq
                    Listed(p, t.own.group)' \cup Waiting(p, t.own.group)'
      <4>1. t.own.group \in Groups
        BY <1>2, <1>13, <3>2, RowType DEF Transactions
      <4>2. CASE t.own.group # g
        <5>1. Waiting(p, t.own.group) = {}
          BY <1>3, <1>4, <4>2 DEF Waiting
        <5> QED
          BY <1>19, <3>2, <4>1, <4>2, <5>1
      <4>3. CASE t.own.group = g
        <5>1. Waiting(p, g) = {todo[k] : k \in DOMAIN todo}
          BY <1>1, <1>3, <1>4, <1>5 DEF Waiting
        <5>2. Waiting(p, g)' = {rest[k] : k \in DOMAIN rest}
          BY <1>4, <1>13, <1>15 DEF Waiting
        <5>3. i \in Siblings(View(p), g) => i \in Listed(p, g)'
          BY <1>19, <1>20 DEF Siblings, here
        <5>4. ASSUME NEW j \in Waiting(p, g) PROVE j = i \/ j \in Waiting(p, g)'
          <6>1. PICK k \in DOMAIN todo : todo[k] = j
            BY <5>1
          <6>2. CASE k = 1
            BY <1>6, <6>1, <6>2
          <6>3. CASE k # 1
            <7>1. k - 1 \in DOMAIN rest /\ rest[k - 1] = j
              BY <1>8, <6>1, <6>3
            <7> QED
              BY <5>2, <7>1
          <6> QED
            BY <6>2, <6>3
        <5> QED
          BY <1>19, <1>20, <3>2, <4>3, <5>3, <5>4
      <4> QED
        BY <4>2, <4>3
    <3> QED
      BY <1>1, <1>13, <3>1, <3>2 DEF ListsRows
  <2>8. \A k \in DOMAIN t.todo : t.todo[k] \notin Listed(p, Head(t.groups))'
    <3>1. Head(t.groups) = g /\ t.todo = rest
      BY <1>4, <1>13
    <3>2. Listed(p, Head(t.groups))' = Names(t.fetched[Head(t.groups)])
      BY <1>15 DEF Listed
    <3>3. Listed(p, g)' = Names(t.fetched[g])
      BY <1>15 DEF Listed
    <3> QED
      BY <2>6, <3>1, <3>2, <3>3
  <2>9. (tx[p].own # NoRow => Item(p) \in DOMAIN View(p) /\ View(p)[Item(p)] = tx[p].own)'
    BY <1>15, <1>16, <2>2
  <2>10. (\A h \in Renumbers(p) : \A k \in DOMAIN tx[p].fetched[h] : Tells(p, h, tx[p].fetched[h][k]))'
    BY <1>15, <1>16, <2>3
  <2>11. (/\ \A k \in DOMAIN tx[p].groups : tx[p].groups[k] \in Renumbers(p)
          /\ \A k, m \in DOMAIN tx[p].groups : tx[p].groups[k] = tx[p].groups[m] => k = m
          /\ \A k \in Remaining(p) : tx[p].fetched[tx[p].groups[k]] = <<>>)'
    BY <1>13, <1>15, <1>16, <2>4, <2>5
  <2>12. (/\ \A k, m \in DOMAIN tx[p].todo : tx[p].todo[k] = tx[p].todo[m] => k = m
          /\ \A k \in DOMAIN tx[p].todo : tx[p].todo[k] \notin Listed(p, Head(tx[p].groups)))'
    BY <1>13, <1>15, <2>6, <2>8
  <2>13. (tx[p].own # NoRow =>
              \/ \E k \in Remaining(p) : tx[p].groups[k] = tx[p].own.group
              \/ Siblings(View(p), tx[p].own.group) \subseteq
                    Listed(p, tx[p].own.group) \cup Waiting(p, tx[p].own.group))'
    BY <1>15, <1>16, <2>7
  <2> QED
    BY <2>1, <2>9, <2>10, <2>11, <2>12, <2>13 DEF ListsRows
<1> QED
  BY <1>1, <1>12, <1>13, <1>21, <1>23, FetchingOrder

-----------------------------------------------------------------------------
(* Who may write rows of a group.                                          *)

(* Two tables that agree on a group.                                       *)
SameGroup(r, s, g) ==
    Siblings(r, g) = Siblings(s, g) /\ \A i \in Siblings(r, g) : r[i] = s[i]

(* A group that keeps its rows keeps its positions.                        *)
LEMMA SameGroupDense ==
    ASSUME NEW r, NEW s, NEW g, SameGroup(r, s, g)
    PROVE  DenseGroup(r, g) <=> DenseGroup(s, g)
BY DEF SameGroup, DenseGroup

(* A group that one transaction has written to is closed to the others.    *)
LEMMA Exclusive ==
    ASSUME OrderTxInv, NEW p \in Procs, NEW q \in Procs, p # q, NEW g \in Groups,
           LocksItsGroups(p), Affects(p, g)
    PROVE  /\ \A i \in Siblings(db, g) : RowLock(i) \notin tx[q].held
           /\ LocksItsGroups(q) => ~Affects(q, g)
<1>1. tx[p].held \cap tx[q].held = {} /\ tx[p].touched \cap tx[q].touched = {}
  BY DEF OrderTxInv, Apart
<1>2. \A i \in Siblings(db, g) : RowLock(i) \in tx[p].held /\ RowLock(i) \notin tx[q].held
  BY <1>1 DEF LocksItsGroups
<1>3. ASSUME LocksItsGroups(q), Affects(q, g) PROVE FALSE
  <2>1. Siblings(db, g) = {}
    BY <1>2, <1>3 DEF LocksItsGroups
  <2>2. <<g, 1>> \in tx[p].touched /\ <<g, 1>> \in tx[q].touched
    BY <1>3, <2>1 DEF LocksItsGroups
  <2> QED
    BY <1>1, <2>2
<1> QED
  BY <1>2, <1>3

(* A transaction has no uncommitted row in a group it has not affected.    *)
LEMMA NotAffected ==
    ASSUME TypeOK, NEW p \in Procs, NEW g, ~Affects(p, g)
    PROVE  SameGroup(View(p), db, g)
<1>1. \A i \in DOMAIN tx[p].work : /\ i \in DOMAIN db => db[i].group # g
                                   /\ tx[p].work[i] # NoRow => tx[p].work[i].group # g
  BY DEF Affects
<1>2. \A i \in Siblings(View(p), g) : i \in Siblings(db, g) /\ View(p)[i] = db[i]
  BY <1>1, ViewType DEF Siblings
<1>3. \A i \in Siblings(db, g) : i \in Siblings(View(p), g)
  BY <1>1, ViewType DEF Siblings
<1> QED
  BY <1>2, <1>3 DEF SameGroup

(* What others see of the commit of p: their own rows as they were, groups *)
(* that p did not write to as they were, and the others as p leaves them.  *)
LEMMA SeenBeside ==
    ASSUME GroupsInv, NEW p \in Procs, NEW q \in Procs, p # q,
           db' = View(p), op' = op, tx'[q] = tx[q]
    PROVE  /\ \A i \in Mine(q) : /\ i \in DOMAIN View(q)' <=> i \in DOMAIN View(q)
                                 /\ i \in DOMAIN View(q) => View(q)'[i] = View(q)[i]
                                 /\ i \in DOMAIN db' <=> i \in DOMAIN db
                                 /\ i \in DOMAIN db => db'[i] = db[i]
           /\ \A g \in Groups : Affects(q, g)' <=> Affects(q, g)
           /\ \A g \in Groups : ~Affects(p, g) =>
                 SameGroup(db', db, g) /\ SameGroup(View(q)', View(q), g)
           /\ \A g \in Groups : Affects(p, g) => SameGroup(View(q)', View(p), g)
           /\ \A i \in DOMAIN View(q)' : View(q)'[i] \in Rows
<1>1. OrderTxInv /\ TypeOK /\ Sound(q) /\ LocksItsGroups(p) /\ LocksItsGroups(q)
  BY DEF GroupsInv, OrderTxInv, Orderly
<1>2. PICK w : w = tx[q].work
  OBVIOUS
<1>3. PICK u : u = tx[p].work
  OBVIOUS
<1>4. PICK d : d = db'
  OBVIOUS
<1>5. PICK v : v = View(q)'
  OBVIOUS
<1>6. PICK old : old = View(q)
  OBVIOUS
<1>7. /\ DOMAIN w \subseteq Mine(q) /\ DOMAIN u \subseteq Mine(p) /\ Mine(p) \cap Mine(q) = {}
  BY <1>1, <1>2, <1>3, MineApart DEF OrderTxInv, Sound, WorksOnItsRows
<1>8. \A i \in Mine(q) : i \notin DOMAIN u
  BY <1>7
<1>9. /\ \A i : i \in DOMAIN d <=> IF i \in DOMAIN u THEN u[i] # NoRow ELSE i \in DOMAIN db
      /\ \A i \in DOMAIN d : d[i] = IF i \in DOMAIN u THEN u[i] ELSE db[i]
  BY <1>1, <1>3, <1>4, ViewType
<1>10. /\ \A i : i \in DOMAIN v <=> IF i \in DOMAIN w THEN w[i] # NoRow ELSE i \in DOMAIN d
       /\ \A i \in DOMAIN v : v[i] = IF i \in DOMAIN w THEN w[i] ELSE d[i]
  <2>1. v = [i \in {j \in DOMAIN d \cup DOMAIN w : j \in DOMAIN w => w[j] # NoRow} |->
                IF i \in DOMAIN w THEN w[i] ELSE d[i]]
    BY <1>2, <1>4, <1>5 DEF View
  <2> QED
    BY <2>1
<1>11. /\ \A i : i \in DOMAIN old <=> IF i \in DOMAIN w THEN w[i] # NoRow ELSE i \in DOMAIN db
       /\ \A i \in DOMAIN old : old[i] = IF i \in DOMAIN w THEN w[i] ELSE db[i]
  BY <1>1, <1>2, <1>6, ViewType
<1>12. \A i \in Mine(q) : /\ i \in DOMAIN v <=> i \in DOMAIN old
                          /\ i \in DOMAIN old => v[i] = old[i]
                          /\ i \in DOMAIN d <=> i \in DOMAIN db
                          /\ i \in DOMAIN db => d[i] = db[i]
  BY <1>8, <1>9, <1>10, <1>11
<1>13. \A i \in DOMAIN w : i \notin DOMAIN u
  BY <1>7, <1>8
<1>14. ASSUME NEW g \in Groups PROVE Affects(q, g)' <=> Affects(q, g)
  <2>1. Affects(q, g)' <=> \E i \in DOMAIN w : \/ (i \in DOMAIN d /\ d[i].group = g)
                                              \/ (w[i] # NoRow /\ w[i].group = g)
    BY <1>2, <1>4 DEF Affects
  <2>2. Affects(q, g) <=> \E i \in DOMAIN w : \/ (i \in DOMAIN db /\ db[i].group = g)
                                             \/ (w[i] # NoRow /\ w[i].group = g)
    BY <1>2 DEF Affects
  <2>3. \A i \in DOMAIN w : (i \in DOMAIN d /\ d[i].group = g) <=> (i \in DOMAIN db /\ db[i].group = g)
    BY <1>7, <1>12
  <2> QED
    BY <2>1, <2>2, <2>3
<1>15. ASSUME NEW g \in Groups, ~Affects(p, g)
       PROVE  SameGroup(d, db, g) /\ SameGroup(v, old, g)
  <2>1. SameGroup(d, db, g)
    BY <1>1, <1>4, <1>15, NotAffected
  <2>2. \A i \in DOMAIN u : /\ i \in DOMAIN db => db[i].group # g
                            /\ u[i] # NoRow => u[i].group # g
    BY <1>3, <1>15 DEF Affects
  <2>3. \A i \in Siblings(v, g) : i \in Siblings(old, g) /\ v[i] = old[i]
    BY <1>9, <1>10, <1>11, <2>2 DEF Siblings
  <2>4. \A i \in Siblings(old, g) : i \in Siblings(v, g)
    BY <1>9, <1>10, <1>11, <2>2 DEF Siblings
  <2> QED
    BY <2>1, <2>3, <2>4 DEF SameGroup
<1>16. ASSUME NEW g \in Groups, Affects(p, g)
       PROVE  SameGroup(v, d, g)
  <2>1. ~Affects(q, g)
    BY <1>1, <1>16, Exclusive
  <2>2. \A i \in DOMAIN w : /\ i \in DOMAIN db => db[i].group # g
                            /\ w[i] # NoRow => w[i].group # g
    BY <1>2, <2>1 DEF Affects
  <2>3. \A i \in Siblings(v, g) : i \in Siblings(d, g) /\ v[i] = d[i]
    BY <1>10, <2>2 DEF Siblings
  <2>4. \A i \in DOMAIN w : i \in DOMAIN d => i \in DOMAIN db /\ d[i] = db[i]
    BY <1>7, <1>12
  <2>5. \A i \in Siblings(d, g) : i \in Siblings(v, g)
    BY <1>10, <2>2, <2>4 DEF Siblings
  <2> QED
    BY <2>3, <2>5 DEF SameGroup
<1>17. \A i \in DOMAIN v : v[i] \in Rows
  <2>1. w \in [DOMAIN w -> Rows \cup {NoRow}]
    BY <1>1, <1>2 DEF TypeOK, Transactions
  <2>2. d \in [DOMAIN d -> Rows]
    BY <1>1, <1>4, ViewType
  <2> QED
    BY <1>10, <2>1, <2>2
<1> QED
  BY <1>4, <1>5, <1>6, <1>12, <1>14, <1>15, <1>16, <1>17

(* A table is dense when each of its groups is.                            *)
LEMMA DenseGroups ==
    ASSUME NEW r, \A i \in DOMAIN r : r[i] \in Rows, \A g \in Groups : DenseGroup(r, g)
    PROVE  Dense(r)
BY RowType DEF Dense

(* No other transaction has written to the group of the own row.           *)
LEMMA OwnGroupClosed ==
    ASSUME GroupsInv, NEW p \in Procs, NEW q \in Procs, p # q, tx[q].own # NoRow,
           tx[q].pc \in {"fetch", "lock", "validate", "write", "commit"}
    PROVE  tx[q].own.group \in Groups /\ ~Affects(p, tx[q].own.group)
<1>1. OrderTxInv /\ TypeOK /\ LocksItsGroups(p) /\ LocksItsGroups(q) /\ HoldsItsRow(q)
  BY DEF GroupsInv, OrderTxInv, Orderly
<1>2. PICK g \in Groups : g = tx[q].own.group
  <2>1. tx[q].own \in Rows
    BY <1>1 DEF TypeOK, Transactions
  <2> QED
    BY <2>1, RowType
<1>3. ASSUME Affects(p, g) PROVE FALSE
  <2>1. /\ \A i \in Siblings(db, g) : RowLock(i) \notin tx[q].held
        /\ ~Affects(q, g)
    BY <1>1, <1>3, Exclusive
  <2> QED
    BY <1>1, <1>2, <2>1 DEF HoldsItsRow
<1> QED
  BY <1>2, <1>3

(* What another transaction relies on survives the commit of p.            *)
LEMMA CommitLeavesOrder ==
    ASSUME GroupsInv, NEW p \in Procs, NEW q \in Procs, p # q,
           db' = View(p), op' = op, tx'[q] = tx[q], Dense(View(p))
    PROVE  Orderly(q)'
<1>1. /\ OrderTxInv /\ TypeOK /\ Orderly(q) /\ LocksItsGroups(p) /\ LocksItsGroups(q)
      /\ WorksOnItsRows(q)
  BY DEF GroupsInv, OrderTxInv, Orderly, Sound
<1>2. PICK v : v = View(q)'
  OBVIOUS
<1>3. PICK old : old = View(q)
  OBVIOUS
<1>4. PICK d : d = db'
  OBVIOUS
<1>5. /\ \A i \in Mine(q) : /\ i \in DOMAIN v <=> i \in DOMAIN old
                            /\ i \in DOMAIN old => v[i] = old[i]
                            /\ i \in DOMAIN d <=> i \in DOMAIN db
                            /\ i \in DOMAIN db => d[i] = db[i]
      /\ \A g \in Groups : Affects(q, g)' <=> Affects(q, g)
      /\ \A g \in Groups : ~Affects(p, g) => SameGroup(d, db, g) /\ SameGroup(v, old, g)
      /\ \A g \in Groups : Affects(p, g) => SameGroup(v, View(p), g)
      /\ \A i \in DOMAIN v : v[i] \in Rows
  BY <1>2, <1>3, <1>4, SeenBeside
<1>6. /\ Item(q)' = Item(q) /\ (Wrote(q)' <=> Wrote(q)) /\ Renumbers(q)' = Renumbers(q)
      /\ (Moves(q)' <=> Moves(q)) /\ (Arrives(q)' <=> Arrives(q)) /\ Remaining(q)' = Remaining(q)
  BY DEF Item, Wrote, Renumbers, Moves, Arrives, Remaining
<1>7. /\ \A g : Listed(q, g)' = Listed(q, g)
      /\ \A g : Members(q, g)' = Members(q, g)
      /\ \A g : Waiting(q, g)' = Waiting(q, g)
  BY DEF Listed, Members, Names, Item, Waiting
<1>8. /\ \A g \in Groups : Listed(q, g) \subseteq Mine(q)
      /\ tx[q].own # NoRow => Item(q) \in Mine(q)
      /\ Wrote(q) => Item(q) \in Mine(q)
  BY <1>1 DEF WorksOnItsRows, Listed, Names, Wrote
<1> DEFINE started == tx[q].pc \in {"fetch", "lock", "validate", "write", "commit"}
<1>9. tx[q].own # NoRow /\ started => /\ tx[q].own.group \in Groups
                                      /\ SameGroup(d, db, tx[q].own.group)
                                      /\ SameGroup(v, old, tx[q].own.group)
  BY <1>5, OwnGroupClosed
<1>10. \A g \in Groups : Affects(q, g) => SameGroup(d, db, g) /\ SameGroup(v, old, g)
  BY <1>1, <1>5, Exclusive
<1>11. \A g \in Groups : DenseGroup(old, g) => DenseGroup(v, g)
  <2>1. \A g \in Groups : DenseGroup(View(p), g)
    BY DenseEveryGroup
  <2> QED
    BY <1>5, <2>1, SameGroupDense
<1>12. Dense(old) => Dense(v)
  BY <1>5, <1>11, DenseGroups, DenseEveryGroup
<1>13. LocksItsGroups(q)'
  BY <1>1, <1>4, <1>5, <1>10 DEF LocksItsGroups, SameGroup
<1>14. HoldsItsRow(q)'
  <2>1. HoldsItsRow(q)
    BY <1>1 DEF Orderly
  <2> QED
    BY <1>4, <1>5, <1>6, <1>9, <2>1 DEF HoldsItsRow, SameGroup
<1>15. ListsRows(q)'
  <2>1. SUFFICES ASSUME tx[q].pc \in {"fetch", "lock"} PROVE ListsRows(q)'
    BY DEF ListsRows
  <2>2. ListsRows(q)
    BY <1>1 DEF Orderly
  <2>3. Dense(View(q))'
    BY <1>2, <1>3, <1>12, <2>1, <2>2 DEF ListsRows, Dense, DenseGroup
  <2>4. tx[q].own # NoRow => Item(q) \in DOMAIN v /\ v[Item(q)] = tx[q].own
    BY <1>3, <1>5, <1>8, <2>1, <2>2 DEF ListsRows
  <2>5. ASSUME NEW g \in Renumbers(q), NEW k \in DOMAIN tx[q].fetched[g]
        PROVE  Tells(q, g, tx[q].fetched[g][k])'
    <3>1. Tells(q, g, tx[q].fetched[g][k])
      BY <2>1, <2>2 DEF ListsRows
    <3>2. tx[q].fetched[g][k].item \in Mine(q)
      BY <1>1 DEF WorksOnItsRows, Renumbers
    <3> QED
      BY <1>2, <1>3, <1>5, <3>1, <3>2 DEF Tells
  <2>6. tx[q].own # NoRow => Siblings(v, tx[q].own.group) = Siblings(old, tx[q].own.group)
    BY <1>9, <2>1 DEF SameGroup
  <2> QED
    BY <1>2, <1>3, <1>6, <1>7, <2>1, <2>2, <2>3, <2>4, <2>5, <2>6 DEF ListsRows
<1>16. WritesItsLists(q)'
  <2>1. SUFFICES ASSUME tx[q].pc \in {"validate", "write"} PROVE WritesItsLists(q)'
    BY DEF WritesItsLists
  <2>2. WritesItsLists(q) /\ ArrivesFirst(q) /\ HoldsItsRow(q)
    BY <1>1 DEF Orderly
  <2>3. \A g \in Groups \ Renumbers(q) : DenseGroup(v, g)
    BY <1>3, <1>11, <2>1, <2>2 DEF WritesItsLists
  <2>4. ASSUME NEW g \in Renumbers(q), NEW i \in Listed(q, g)
        PROVE  i \in Siblings(v, g) \/ (Moves(q) /\ i = Item(q))
    <3>1. i \in Siblings(old, g) \/ (Moves(q) /\ i = Item(q))
      BY <1>3, <2>1, <2>2 DEF WritesItsLists
    <3>2. i \in Mine(q)
      BY <1>8 DEF Renumbers
    <3> QED
      BY <1>5, <3>1, <3>2 DEF Siblings
  <2>5. ASSUME NEW g \in Renumbers(q), Complete(q, g)
        PROVE  Siblings(v, g) \subseteq Listed(q, g) \cup {Item(q)}
    <3>1. Siblings(old, g) \subseteq Listed(q, g) \cup {Item(q)}
      BY <1>3, <2>1, <2>2, <2>5 DEF WritesItsLists
    <3>2. CASE tx[q].own # NoRow /\ g = tx[q].own.group
      BY <1>9, <2>1, <3>1, <3>2 DEF SameGroup
    <3>3. CASE Wrote(q) /\ ~(tx[q].own # NoRow /\ g = tx[q].own.group)
      <4>1. g \in Groups /\ op[q].kind # "remove" /\ g = op[q].group
        BY <3>3 DEF Renumbers
      <4>2. ~tx[q].placing
        BY <1>1, <2>2, <3>3, <4>1, Course DEF HoldsItsRow, OrderTxInv
      <4>3. Arrives(q)
        BY <3>3, <4>1, <4>2 DEF Arrives
      <4>4. tx[q].work[Item(q)] # NoRow /\ tx[q].work[Item(q)].group = g
        BY <2>1, <2>2, <3>3, <4>1, <4>3 DEF ArrivesFirst
      <4>5. Affects(q, g)
        BY <3>3, <4>4 DEF Affects, Wrote
      <4> QED
        BY <1>10, <3>1, <4>1, <4>5 DEF SameGroup
    <3> QED
      BY <2>5, <3>2, <3>3 DEF Complete
  <2>6. \A g : Complete(q, g)' <=> Complete(q, g)
    BY <1>6 DEF Complete
  <2> QED
    BY <1>2, <1>6, <1>7, <2>1, <2>2, <2>3, <2>4, <2>5, <2>6 DEF WritesItsLists
<1>17. ArrivesFirst(q)'
  <2>1. Arrival(q)' = Arrival(q) /\ ArrivesFirst(q)
    BY <1>1, <1>6 DEF Arrival, Orderly
  <2> QED
    BY <1>6, <2>1 DEF ArrivesFirst
<1>18. \A i \in Mine(q) : RowInTheEnd(q, i)' = RowInTheEnd(q, i)
  BY <1>2, <1>3, <1>5 DEF RowInTheEnd, RowAfter
<1>19. EndsInOrder(q)'
  <2>1. SUFFICES ASSUME tx[q].pc \in {"validate", "write"} PROVE EndsInOrder(q)'
    BY DEF EndsInOrder
  <2>2. EndsInOrder(q)
    BY <1>1 DEF Orderly
  <2>3. ASSUME NEW g \in Renumbers(q), tx[q].own # NoRow \/ Wrote(q)
        PROVE  \A i \in Members(q, g) : RowInTheEnd(q, i)' = RowInTheEnd(q, i)
    BY <1>8, <1>18, <2>3 DEF Members, Renumbers
  <2>4. tx[q].placing => RowInTheEnd(q, Item(q))' = RowInTheEnd(q, Item(q))
    BY <1>1, <1>6, <1>8, <1>18, Course DEF OrderTxInv
  <2> QED
    BY <1>6, <1>7, <2>1, <2>2, <2>3, <2>4 DEF EndsInOrder
<1>20. Closes(q)'
  <2>1. SUFFICES ASSUME tx[q].pc = "commit" PROVE Closes(q)'
    BY DEF Closes
  <2>2. Closes(q) /\ HoldsItsRow(q)
    BY <1>1 DEF Orderly
  <2>3. Dense(View(q))'
    BY <1>2, <1>3, <1>12, <2>1, <2>2 DEF Closes, Dense, DenseGroup
  <2>4. ASSUME op[q].kind = "place"
        PROVE  /\ tx[q].placing /\ Item(q) \in DOMAIN v
               /\ v[Item(q)].position =
                     Clamp(op[q].position, Cardinality(Siblings(v, op[q].group)))
    <3>1. /\ tx[q].placing /\ Item(q) \in DOMAIN old
          /\ old[Item(q)].position =
                Clamp(op[q].position, Cardinality(Siblings(old, op[q].group)))
      BY <1>3, <2>1, <2>2, <2>4 DEF Closes
    <3>2. tx[q].own # NoRow /\ tx[q].own.group = op[q].group
      BY <1>1, <2>2, <3>1, Course DEF HoldsItsRow, OrderTxInv
    <3>3. Siblings(v, op[q].group) = Siblings(old, op[q].group)
      BY <1>9, <2>1, <3>2 DEF SameGroup
    <3> QED
      BY <1>5, <1>8, <3>1, <3>2, <3>3
  <2> QED
    BY <1>2, <1>6, <2>1, <2>3, <2>4 DEF Closes
<1>21. \A g \in Groups : NamedOnce(tx[q].fetched[g])'
  BY <1>1 DEF Orderly, NamedOnce
<1> QED
  BY <1>13, <1>14, <1>15, <1>16, <1>17, <1>19, <1>20, <1>21 DEF Orderly

(* The commit shows the rows to the others, who hold none of those groups. *)
LEMMA CommitOrder ==
    ASSUME GroupsInv, OrderTxInv', NEW p \in Procs, Commit(p)
    PROVE  GroupsInv'
<1>1. tx[p].pc = "commit" /\ op' = op /\ TypeOK /\ Closes(p)
  BY DEF Commit, GroupsInv, OrderTxInv, Orderly
<1>2. CASE Created(p) \ schedules # {}
  BY <1>1, <1>2, IntegrityErrorOrder DEF Commit
<1>3. CASE Created(p) \subseteq schedules
  <2>1. db' = View(p) /\ Ended(p, "done") /\ Dense(View(p))
    BY <1>1, <1>3 DEF Commit, Closes
  <2>2. Orderly(p)'
    BY <1>1, <2>1, EndedOrderly
  <2>3. \A q \in Procs \ {p} : tx'[q] = tx[q]
    BY <1>1, <2>1, OnlyOne DEF Ended, Goto
  <2>4. ASSUME NEW q \in Procs, q # p PROVE Orderly(q)'
    BY <1>1, <2>1, <2>3, <2>4, CommitLeavesOrder
  <2>5. Dense(db)'
    BY <2>1 DEF Dense, DenseGroup
  <2> QED
    BY <2>2, <2>4, <2>5 DEF GroupsInv
<1> QED
  BY <1>2, <1>3

-----------------------------------------------------------------------------
(* Before and after the writes.                                            *)

LEMMA ValidateOrder ==
    ASSUME GroupsInv, OrderTxInv', NEW p \in Procs, Validate(p)
    PROVE  GroupsInv'
<1>1. /\ UNCHANGED <<db, schedules, op>> /\ tx[p].pc = "validate" /\ TypeOK /\ Orderly(p)
      /\ LocksItsGroups(p)
  BY DEF Validate, GroupsInv, OrderTxInv, Orderly
<1>2. CASE Ended(p, "died")
  BY <1>1, <1>2, EndedOrder
<1>3. CASE Goto(p, [tx[p] EXCEPT !.pc = "write"])
  <2>1. PICK t : t = [tx[p] EXCEPT !.pc = "write"]
    OBVIOUS
  <2>2. PICK S \in SUBSET Items : tx[p] \in Transactions(S)
    BY <1>1 DEF TypeOK
  <2>3. /\ t.pc = "write" /\ t.own = tx[p].own /\ t.fetched = tx[p].fetched /\ t.work = tx[p].work
        /\ t.touched = tx[p].touched /\ t.held = tx[p].held /\ t.writes = tx[p].writes
        /\ t.placing = tx[p].placing
    BY <2>1, <2>2 DEF Transactions
  <2>4. tx'[p] = t
    BY <1>1, <1>3, <2>1, OnlyOne DEF Goto
  <2>5. /\ tx'[p].work = tx[p].work /\ tx[p].touched \subseteq tx'[p].touched
        /\ tx[p].held \subseteq tx'[p].held
    BY <2>3, <2>4
  <2>6. /\ View(p)' = View(p) /\ Item(p)' = Item(p) /\ (Wrote(p)' <=> Wrote(p))
        /\ \A g : Affects(p, g)' <=> Affects(p, g)
        /\ LocksItsGroups(p)'
    BY <1>1, <2>5, KeepsItsGroups
  <2>7. /\ Renumbers(p)' = Renumbers(p) /\ (Moves(p)' <=> Moves(p)) /\ (Arrives(p)' <=> Arrives(p))
        /\ \A g : Listed(p, g)' = Listed(p, g)
        /\ \A g : Members(p, g)' = Members(p, g)
        /\ \A g : Complete(p, g)' <=> Complete(p, g)
    BY <1>1, <2>3, <2>4 DEF Renumbers, Moves, Arrives, Listed, Names, Members, Complete, Item, Wrote
  <2>8. \A i : RowInTheEnd(p, i)' = RowInTheEnd(p, i)
    BY <2>3, <2>4, <2>6 DEF RowInTheEnd
  <2>9. HoldsItsRow(p)'
    BY <1>1, <2>3, <2>4, <2>6 DEF HoldsItsRow, Orderly
  <2>10. WritesItsLists(p)'
    BY <1>1, <2>3, <2>4, <2>6, <2>7 DEF WritesItsLists, Orderly, DenseGroup
  <2>11. ArrivesFirst(p)'
    BY <1>1, <2>3, <2>4, <2>6, <2>7 DEF ArrivesFirst, Arrival, Orderly
  <2>12. EndsInOrder(p)'
    BY <1>1, <2>3, <2>4, <2>6, <2>7, <2>8 DEF EndsInOrder, Orderly
  <2>13. ListsRows(p)' /\ Closes(p)' /\ \A g \in Groups : NamedOnce(tx[p].fetched[g])'
    BY <1>1, <2>3, <2>4 DEF ListsRows, Closes, NamedOnce, Orderly
  <2>14. Orderly(p)'
    BY <2>6, <2>9, <2>10, <2>11, <2>12, <2>13 DEF Orderly
  <2> QED
    BY <1>1, <1>3, <2>14, QuietStepOrder
<1> QED
  BY <1>2, <1>3 DEF Validate

(* When all is written the rows are in the order the lists give.           *)
LEMMA WrittenOut ==
    ASSUME GroupsInv, NEW p \in Procs, tx[p].pc = "write", tx[p].writes = <<>>
    PROVE  /\ Dense(View(p))
           /\ tx[p].own = NoRow => Wrote(p)
           /\ Arrives(p) => Wrote(p)
           /\ \A g \in Renumbers(p) : Siblings(View(p), g) = Members(p, g)
           /\ tx[p].placing =>
                 View(p)[Item(p)].position =
                     Clamp(op[p].position, Cardinality(Members(p, op[p].group)))
<1>1. /\ TypeOK /\ Sound(p) /\ RemovesItsRow(p) /\ HoldsItsRow(p)
      /\ WritesItsLists(p) /\ ArrivesFirst(p) /\ EndsInOrder(p)
  BY DEF GroupsInv, OrderTxInv, Sound, Orderly
<1>2. Arrives(p) => Wrote(p)
  BY <1>1 DEF ArrivesFirst
<1>3. tx[p].own = NoRow \/ op[p].kind = "remove" => Wrote(p)
  <2>1. op[p].kind = "remove" => tx[p].own # NoRow
    BY <1>1 DEF RemovesItsRow
  <2> QED
    BY <1>1, <2>1 DEF RemovesItsRow, Wrote
<1>4. PICK v : v = View(p)
  OBVIOUS
<1>5. \A i : RowInTheEnd(p, i) = IF i \in DOMAIN v THEN v[i] ELSE NoRow
  BY <1>1, <1>4 DEF RowInTheEnd, RowAfter
<1>6. /\ \A i \in DOMAIN v : v[i] \in Rows
      /\ Wrote(p) => /\ Item(p) \in DOMAIN v <=> tx[p].work[Item(p)] # NoRow
                     /\ Item(p) \in DOMAIN v => v[Item(p)] = tx[p].work[Item(p)]
  BY <1>1, <1>4, ViewType DEF Wrote
<1>7. ASSUME NEW g \in Renumbers(p)
      PROVE  /\ \A i \in Members(p, g) : /\ i \in DOMAIN v /\ v[i].group = g
                                         /\ v[i].position \in 1..Cardinality(Members(p, g))
             /\ \A i, j \in Members(p, g) : v[i].position = v[j].position => i = j
  <2>1. \A i \in Members(p, g) : RowInTheEnd(p, i) # NoRow
    BY <1>1, <1>3 DEF EndsInOrder
  <2> QED
    BY <1>1, <1>3, <1>5, <2>1 DEF EndsInOrder
<1>8. ASSUME NEW g \in Renumbers(p)
      PROVE  Siblings(v, g) = Members(p, g)
  <2>1. Members(p, g) \subseteq Siblings(v, g)
    BY <1>7 DEF Siblings
  <2>2. Complete(p, g)
    <3>1. CASE tx[p].own # NoRow /\ g # tx[p].own.group
      <4>1. g = op[p].group /\ op[p].kind # "remove"
        BY <3>1 DEF Renumbers
      <4>2. ~tx[p].placing
        BY <1>1, <3>1, <4>1 DEF HoldsItsRow
      <4> QED
        BY <1>2, <3>1, <4>1, <4>2 DEF Arrives, Complete
    <3> QED
      BY <1>3, <3>1 DEF Complete
  <2>3. Siblings(v, g) \subseteq Listed(p, g) \cup {Item(p)}
    BY <1>1, <1>4, <2>2 DEF WritesItsLists
  <2>4. CASE op[p].kind # "remove" /\ g = op[p].group
    BY <2>1, <2>3, <2>4 DEF Members
  <2>5. CASE ~(op[p].kind # "remove" /\ g = op[p].group)
    <3>1. Item(p) \notin Siblings(v, g)
      <4>1. CASE op[p].kind = "remove"
        <5>1. Item(p) \notin DOMAIN v
          BY <1>1, <1>3, <1>6, <4>1 DEF RemovesItsRow, Wrote
        <5> QED
          BY <5>1 DEF Siblings
      <4>2. CASE op[p].kind # "remove"
        <5>1. g # op[p].group /\ tx[p].own # NoRow /\ g = tx[p].own.group
          BY <2>5, <4>2 DEF Renumbers
        <5>2. Arrives(p)
          BY <1>1, <4>2, <5>1 DEF Arrives, HoldsItsRow
        <5>3. Wrote(p) /\ tx[p].work[Item(p)].group = op[p].group
          BY <1>1, <1>2, <5>2 DEF ArrivesFirst
        <5> QED
          BY <1>6, <5>1, <5>3 DEF Siblings
      <4> QED
        BY <4>1, <4>2
    <3> QED
      BY <2>1, <2>3, <2>5, <3>1 DEF Members
  <2> QED
    BY <2>4, <2>5
<1>9. Dense(v)
  <2>1. ASSUME NEW g \in Renumbers(p) PROVE DenseGroup(v, g)
    BY <1>7, <1>8 DEF DenseGroup
  <2>2. \A g \in Groups \ Renumbers(p) : DenseGroup(v, g)
    BY <1>1, <1>4 DEF WritesItsLists
  <2>3. \A g \in Groups : DenseGroup(v, g)
    BY <2>1, <2>2
  <2> QED
    BY <1>6, <2>3, DenseGroups
<1>10. ASSUME tx[p].placing
       PROVE  v[Item(p)].position = Clamp(op[p].position, Cardinality(Members(p, op[p].group)))
  <2>1. op[p].group \in Renumbers(p) /\ Item(p) \in Members(p, op[p].group)
    BY <1>1, <1>10, Course, OpType DEF Renumbers, Members
  <2>2. RowInTheEnd(p, Item(p)) = v[Item(p)]
    BY <1>5, <1>7, <2>1
  <2> QED
    BY <1>1, <1>10, <2>2 DEF EndsInOrder
<1> QED
  BY <1>2, <1>3, <1>4, <1>8, <1>9, <1>10

(* Nothing is left to write: the rows are in order.                        *)
LEMMA EndWritesOrder ==
    ASSUME GroupsInv, OrderTxInv', NEW p \in Procs, EndWrites(p)
    PROVE  GroupsInv'
<1>1. /\ UNCHANGED <<db, schedules, op>> /\ tx[p].pc = "write" /\ tx[p].writes = <<>>
      /\ op[p].kind = "place" => tx[p].placing
      /\ TypeOK /\ Sound(p) /\ Orderly(p) /\ LocksItsGroups(p) /\ HoldsItsRow(p)
  BY DEF EndWrites, GroupsInv, OrderTxInv, Orderly
<1>2. PICK S \in SUBSET Items : tx[p] \in Transactions(S)
  BY <1>1 DEF TypeOK
<1>3. PICK t : t = [tx[p] EXCEPT !.pc = "commit"]
  OBVIOUS
<1>4. Goto(p, t)
  BY <1>1, <1>3 DEF EndWrites
<1>5. /\ t.pc = "commit" /\ t.own = tx[p].own /\ t.fetched = tx[p].fetched /\ t.work = tx[p].work
      /\ t.touched = tx[p].touched /\ t.held = tx[p].held /\ t.placing = tx[p].placing
  BY <1>2, <1>3 DEF Transactions
<1>6. tx'[p] = t
  BY <1>1, <1>4, OnlyOne DEF Goto
<1>7. /\ tx'[p].work = tx[p].work /\ tx[p].touched \subseteq tx'[p].touched
      /\ tx[p].held \subseteq tx'[p].held
  BY <1>5, <1>6
<1>8. /\ View(p)' = View(p) /\ Item(p)' = Item(p) /\ (Wrote(p)' <=> Wrote(p))
      /\ \A g : Affects(p, g)' <=> Affects(p, g)
      /\ LocksItsGroups(p)'
  BY <1>1, <1>7, KeepsItsGroups
<1>9. HoldsItsRow(p)'
  BY <1>1, <1>5, <1>6, <1>8 DEF HoldsItsRow
<1>10. Closes(p)'
  <2>1. Dense(View(p))
    BY <1>1, WrittenOut
  <2>2. Dense(View(p))'
    BY <1>8, <2>1 DEF Dense, DenseGroup
  <2>3. ASSUME op[p].kind = "place"
        PROVE  /\ Item(p) \in DOMAIN View(p)
               /\ View(p)[Item(p)].position =
                     Clamp(op[p].position, Cardinality(Siblings(View(p), op[p].group)))
    <3>1. op[p].group \in Renumbers(p) /\ Item(p) \in Members(p, op[p].group) /\ tx[p].placing
      BY <1>1, <2>3, OpType DEF Renumbers, Members
    <3>2. /\ Siblings(View(p), op[p].group) = Members(p, op[p].group)
          /\ View(p)[Item(p)].position =
                Clamp(op[p].position, Cardinality(Members(p, op[p].group)))
      BY <1>1, <3>1, WrittenOut
    <3> QED
      BY <3>1, <3>2 DEF Siblings
  <2> QED
    BY <1>1, <1>5, <1>6, <1>8, <2>2, <2>3 DEF Closes
<1>11. /\ ListsRows(p)' /\ WritesItsLists(p)' /\ ArrivesFirst(p)' /\ EndsInOrder(p)'
       /\ \A g \in Groups : NamedOnce(tx[p].fetched[g])'
  BY <1>1, <1>5, <1>6 DEF ListsRows, WritesItsLists, ArrivesFirst, EndsInOrder, NamedOnce, Orderly
<1>12. Orderly(p)'
  BY <1>8, <1>9, <1>10, <1>11 DEF Orderly
<1> QED
  BY <1>1, <1>4, <1>12, QuietStepOrder

(* The placement fetches the group of its row again.                       *)
LEMMA PlaceNextOrder ==
    ASSUME GroupsInv, OrderTxInv', NEW p \in Procs, PlaceNext(p)
    PROVE  GroupsInv'
<1>1. /\ UNCHANGED <<db, schedules, op>> /\ tx[p].pc = "write" /\ tx[p].writes = <<>>
      /\ op[p].kind = "place" /\ ~tx[p].placing
      /\ TypeOK /\ Sound(p) /\ Orderly(p) /\ LocksItsGroups(p) /\ HoldsItsRow(p)
      /\ \A g \in Groups : NamedOnce(tx[p].fetched[g])
  BY DEF PlaceNext, GroupsInv, OrderTxInv, Orderly
<1>2. PICK S \in SUBSET Items : tx[p] \in Transactions(S)
  BY <1>1 DEF TypeOK
<1>3. PICK g \in Groups : g = op[p].group
  BY <1>1, OpType
<1>4. /\ Dense(View(p)) /\ (tx[p].own = NoRow => Wrote(p)) /\ (Arrives(p) => Wrote(p))
      /\ \A h \in Renumbers(p) : Siblings(View(p), h) = Members(p, h)
  BY <1>1, WrittenOut
<1>5. Item(p) \in Siblings(View(p), g)
  <2>1. g \in Renumbers(p) /\ Item(p) \in Members(p, g)
    BY <1>1, <1>3 DEF Renumbers, Members
  <2> QED
    BY <1>4, <2>1
<1>6. PICK row \in Rows : row = View(p)[Item(p)] /\ row.group = g /\ Item(p) \in DOMAIN View(p)
  BY <1>1, <1>5, ViewType DEF Siblings
<1>7. row # NoRow
  BY RowType
<1>8. PICK t : t = [tx[p] EXCEPT !.pc = "fetch", !.placing = TRUE, !.own = row,
                                 !.groups = <<g>>, !.fetched[g] = <<>>]
  OBVIOUS
<1>9. Goto(p, t)
  BY <1>1, <1>6, <1>8 DEF PlaceNext
<1>10. /\ t.pc = "fetch" /\ t.placing = TRUE /\ t.own = row /\ t.groups = <<g>>
       /\ t.fetched[g] = <<>> /\ \A h \in Groups \ {g} : t.fetched[h] = tx[p].fetched[h]
       /\ t.work = tx[p].work /\ t.touched = tx[p].touched /\ t.held = tx[p].held
  BY <1>2, <1>8 DEF Transactions
<1>11. tx'[p] = t
  BY <1>1, <1>9, OnlyOne DEF Goto
<1>12. /\ tx'[p].work = tx[p].work /\ tx[p].touched \subseteq tx'[p].touched
       /\ tx[p].held \subseteq tx'[p].held
  BY <1>10, <1>11
<1>13. /\ View(p)' = View(p) /\ Item(p)' = Item(p) /\ (Wrote(p)' <=> Wrote(p))
       /\ \A h : Affects(p, h)' <=> Affects(p, h)
       /\ LocksItsGroups(p)'
  BY <1>1, <1>12, KeepsItsGroups
<1>14. HoldsItsRow(p)'
  <2>1. CASE Wrote(p)
    <3>1. tx[p].work[Item(p)] = row
      BY <1>1, <1>6, <2>1, ViewType DEF Wrote
    <3>2. Affects(p, g)
      BY <1>6, <1>7, <2>1, <3>1 DEF Affects, Wrote
    <3> QED
      BY <1>3, <1>1, <1>6, <1>10, <1>11, <1>13, <2>1, <3>2 DEF HoldsItsRow
  <2>2. CASE ~Wrote(p)
    <3>1. tx[p].own # NoRow /\ tx[p].own.group = g
      BY <1>1, <1>3, <1>4, <2>2 DEF Arrives
    <3>2. Item(p) \in Siblings(db, g) /\ RowLock(Item(p)) \in tx[p].held
      BY <1>1, <2>2, <3>1 DEF HoldsItsRow
    <3> QED
      BY <1>3, <1>1, <1>6, <1>10, <1>11, <1>13, <2>2, <3>2 DEF HoldsItsRow
  <2> QED
    BY <2>1, <2>2
<1>15. Renumbers(p)' = {g}
  BY <1>1, <1>3, <1>6, <1>7, <1>10, <1>11 DEF Renumbers
<1>16. ListsRows(p)'
  <2>1. Dense(View(p))'
    BY <1>4, <1>13 DEF Dense, DenseGroup
  <2>2. DOMAIN t.groups = {1} /\ t.groups[1] = g
    BY <1>10
  <2>3. Remaining(p)' = {1}
    BY <1>10, <1>11, <2>2 DEF Remaining
  <2> QED
    BY <1>6, <1>10, <1>11, <1>13, <1>15, <2>1, <2>2, <2>3 DEF ListsRows
<1>17. /\ WritesItsLists(p)' /\ ArrivesFirst(p)' /\ EndsInOrder(p)' /\ Closes(p)'
       /\ \A h \in Groups : NamedOnce(tx[p].fetched[h])'
  BY <1>1, <1>10, <1>11 DEF WritesItsLists, ArrivesFirst, EndsInOrder, Closes, NamedOnce
<1>18. Orderly(p)'
  BY <1>13, <1>14, <1>16, <1>17 DEF Orderly
<1> QED
  BY <1>1, <1>9, <1>18, QuietStepOrder

-----------------------------------------------------------------------------
(* Where writes leave a row.                                               *)

LEMMA LastExists ==
    ASSUME NEW ws \in Seq(Writes), NEW i, NEW k \in DOMAIN ws, ws[k].item = i
    PROVE  \E m \in DOMAIN ws : IsLast(ws, m, i)
<1>1. PICK K : K = {m \in DOMAIN ws : ws[m].item = i}
  OBVIOUS
<1>2. DOMAIN ws = 1..Len(ws) /\ Len(ws) \in Nat
  OBVIOUS
<1>3. IsFiniteSet(K) /\ K \subseteq Int /\ K # {}
  <2>1. IsFiniteSet(1..Len(ws))
    BY <1>2, FS_Interval
  <2>2. K \subseteq 1..Len(ws)
    BY <1>1, <1>2
  <2>3. IsFiniteSet(K)
    BY <2>1, <2>2, FS_Subset
  <2> QED
    BY <1>1, <2>2, <2>3
<1>4. PICK m \in K : \A y \in K : m >= y
  BY <1>3, MaxIsGreatest
<1>5. IsLast(ws, m, i)
  <2>1. ASSUME NEW n \in DOMAIN ws, n > m, ws[n].item = i PROVE FALSE
    <3>1. n \in K /\ m >= n /\ n \in Int /\ m \in Int
      BY <1>1, <1>3, <1>4, <2>1
    <3> QED
      BY <2>1, <3>1
  <2> QED
    BY <1>1, <2>1 DEF IsLast
<1> QED
  BY <1>1, <1>5

(* The last write of a row tells what it is.                               *)
LEMMA RowAfterLast ==
    ASSUME NEW ws \in Seq(Writes), NEW r, NEW i, NEW k \in DOMAIN ws, IsLast(ws, k, i)
    PROVE  RowAfter(ws, r, i) = ws[k].row
<1>1. \A m, n \in DOMAIN ws : IsLast(ws, m, i) /\ IsLast(ws, n, i) => m = n
  <2>1. SUFFICES ASSUME NEW m \in DOMAIN ws, NEW n \in DOMAIN ws,
                        IsLast(ws, m, i), IsLast(ws, n, i)
                 PROVE  m = n
    OBVIOUS
  <2>2. m \in Int /\ n \in Int
    OBVIOUS
  <2>3. ~(m > n) /\ ~(n > m)
    BY <2>1 DEF IsLast
  <2> QED
    BY <2>2, <2>3
<1>2. (CHOOSE m \in DOMAIN ws : IsLast(ws, m, i)) = k
  BY <1>1
<1> QED
  BY <1>2 DEF RowAfter

(* A row that no write names is as it was.                                 *)
LEMMA RowAfterNone ==
    ASSUME NEW ws, NEW r, NEW i, \A k \in DOMAIN ws : ws[k].item # i
    PROVE  RowAfter(ws, r, i) = IF i \in DOMAIN r THEN r[i] ELSE NoRow
BY DEF RowAfter, IsLast

(* A write that is done leaves what the others will leave.                 *)
LEMMA RowAfterOneMore ==
    ASSUME NEW ws \in Seq(Writes), ws # <<>>, NEW w, w = Head(ws), NEW r, NEW s,
           \A j : j # w.item => /\ j \in DOMAIN s <=> j \in DOMAIN r
                                /\ j \in DOMAIN r => s[j] = r[j],
           w.item \in DOMAIN s <=> w.row # NoRow,
           w.item \in DOMAIN s => s[w.item] = w.row,
           NEW i
    PROVE  RowAfter(Tail(ws), s, i) = RowAfter(ws, r, i)
<1>1. PICK rest \in Seq(Writes) : rest = Tail(ws)
  <2>1. Tail(ws) \in Seq(Writes)
    OBVIOUS
  <2> QED
    BY <2>1
<1>2. /\ \A k \in DOMAIN rest : k \in Nat /\ k > 0 /\ k + 1 \in DOMAIN ws /\ rest[k] = ws[k + 1]
      /\ \A k \in DOMAIN ws : k \in Nat /\ (k # 1 => k - 1 \in DOMAIN rest /\ rest[k - 1] = ws[k])
      /\ 1 \in DOMAIN ws /\ ws[1] = w
  <2>1. PICK n \in Nat : n = Len(ws) /\ DOMAIN ws = 1..n /\ n > 0
    OBVIOUS
  <2>2. DOMAIN rest = 1..(n - 1) /\ \A k \in 1..(n - 1) : rest[k] = ws[k + 1]
    BY <1>1, <2>1
  <2> QED
    BY <2>1, <2>2
<1>3. CASE \E k \in DOMAIN rest : rest[k].item = i
  <2>1. PICK k \in DOMAIN rest : IsLast(rest, k, i)
    BY <1>3, LastExists
  <2>2. k + 1 \in DOMAIN ws /\ rest[k] = ws[k + 1] /\ k \in Nat
    BY <1>2
  <2>3. IsLast(ws, k + 1, i)
    <3>1. ASSUME NEW m \in DOMAIN ws, m > k + 1, ws[m].item = i PROVE FALSE
      <4>1. m - 1 \in DOMAIN rest /\ rest[m - 1] = ws[m] /\ m \in Nat /\ m - 1 > k
        BY <1>2, <2>2, <3>1
      <4> QED
        BY <2>1, <3>1, <4>1 DEF IsLast
    <3> QED
      BY <2>1, <2>2, <3>1 DEF IsLast
  <2>4. RowAfter(rest, s, i) = rest[k].row
    BY <2>1, RowAfterLast
  <2>5. PICK n \in DOMAIN ws : n = k + 1
    BY <2>2
  <2>6. RowAfter(ws, r, i) = ws[n].row
    BY <2>3, <2>5, RowAfterLast
  <2> QED
    BY <1>1, <2>2, <2>4, <2>5, <2>6
<1>4. CASE ~\E k \in DOMAIN rest : rest[k].item = i
  <2>1. RowAfter(rest, s, i) = IF i \in DOMAIN s THEN s[i] ELSE NoRow
    BY <1>4, RowAfterNone
  <2>2. CASE w.item = i
    <3>1. PICK n \in DOMAIN ws : n = 1
      BY <1>2
    <3>2. IsLast(ws, n, i)
      <4>1. \A m \in DOMAIN ws : m > 1 => m - 1 \in DOMAIN rest /\ rest[m - 1] = ws[m]
        BY <1>2
      <4>2. \A m \in DOMAIN ws : m > 1 => ws[m].item # i
        BY <1>4, <4>1
      <4> QED
        BY <1>2, <2>2, <3>1, <4>2 DEF IsLast
    <3>3. RowAfter(ws, r, i) = w.row
      BY <1>2, <3>1, <3>2, RowAfterLast
    <3> QED
      BY <1>1, <2>1, <2>2, <3>3
  <2>3. CASE w.item # i
    <3>1. \A k \in DOMAIN ws : ws[k].item # i
      BY <1>2, <1>4, <2>3
    <3>2. RowAfter(ws, r, i) = IF i \in DOMAIN r THEN r[i] ELSE NoRow
      BY <3>1, RowAfterNone
    <3> QED
      BY <1>1, <2>1, <2>3, <3>2
  <2> QED
    BY <2>2, <2>3
<1> QED
  BY <1>3, <1>4

-----------------------------------------------------------------------------
(* Writing.                                                                *)

(* A dense group has a row at each position.                               *)
LEMMA DenseOnto ==
    ASSUME NEW r, NEW g, IsFiniteSet(Siblings(r, g)), DenseGroup(r, g),
           NEW k \in 1..Cardinality(Siblings(r, g))
    PROVE  \E i \in Siblings(r, g) : r[i].position = k
<1>1. PICK S : S = Siblings(r, g)
  OBVIOUS
<1>2. PICK n \in Nat : n = Cardinality(S)
  BY <1>1, FS_CardinalityType
<1>3. PICK f : f = [i \in S |-> r[i].position]
  OBVIOUS
<1>4. f \in [S -> 1..n] /\ \A i, j \in S : f[i] = f[j] => i = j
  BY <1>1, <1>2, <1>3 DEF DenseGroup
<1>5. f \in Injection(S, 1..n)
  BY <1>4 DEF Injection, IsInjective
<1>6. IsFiniteSet(1..n) /\ Cardinality(1..n) = n
  BY FS_Interval
<1>7. f \in Surjection(S, 1..n)
  BY <1>2, <1>5, <1>6, FS_Injection
<1> QED
  BY <1>1, <1>2, <1>3, <1>7 DEF Surjection

(* A list that names each row once has as many names as entries.           *)
LEMMA NamesCardinality ==
    ASSUME NEW items \in Seq(Entries), NamedOnce(items)
    PROVE  IsFiniteSet(Names(items)) /\ Cardinality(Names(items)) = Len(items)
<1>1. PICK n \in Nat : n = Len(items) /\ DOMAIN items = 1..n
  OBVIOUS
<1>2. PICK f : f = [k \in 1..n |-> items[k].item]
  OBVIOUS
<1>3. f \in Bijection(1..n, Names(items))
  <2>1. f \in [1..n -> Names(items)]
    BY <1>1, <1>2 DEF Names
  <2>2. \A k, m \in 1..n : f[k] = f[m] => k = m
    BY <1>1, <1>2 DEF NamedOnce
  <2>3. \A i \in Names(items) : \E k \in 1..n : f[k] = i
    BY <1>1, <1>2 DEF Names
  <2> QED
    BY <2>1, <2>2, <2>3 DEF Bijection, Injection, Surjection, IsInjective
<1>4. IsFiniteSet(1..n) /\ Cardinality(1..n) = n
  BY FS_Interval
<1>5. ExistsBijection(1..n, Names(items))
  BY <1>3 DEF ExistsBijection
<1> QED
  BY <1>1, <1>4, <1>5, FS_Bijection

(* The rows of a group it knows completely are its own.                    *)
LEMMA HoldsKnownGroup ==
    ASSUME GroupsInv, NEW p \in Procs, tx[p].pc \in {"validate", "write"},
           NEW g \in Renumbers(p), Complete(p, g), ~Affects(p, g)
    PROVE  \A j \in Siblings(db, g) : RowLock(j) \in tx[p].held
<1>1. /\ OrderTxInv /\ TypeOK /\ WorksOnItsRows(p) /\ TouchesItsKeys(p) /\ WritesItsLists(p)
      /\ g \in Groups
  BY DEF GroupsInv, OrderTxInv, Sound, Orderly, Renumbers
<1>2. Siblings(db, g) = Siblings(View(p), g)
  BY <1>1, NotAffected DEF SameGroup
<1>3. Siblings(View(p), g) \subseteq Listed(p, g) \cup {Item(p)}
  BY <1>1 DEF WritesItsLists
<1>4. Listed(p, g) \subseteq Mine(p) /\ Item(p) \in Mine(p)
  BY <1>1 DEF WorksOnItsRows, Listed, Names, Complete, Wrote
<1>5. \A j \in Mine(p) : j \in DOMAIN db => RowLock(j) \in tx[p].held
  BY <1>1 DEF Mine, TouchesItsKeys
<1> QED
  BY <1>2, <1>3, <1>4, <1>5 DEF Siblings

(* A row comes to the end of its group: the group is as it was listed, or  *)
(* the position would be taken.                                            *)
LEMMA ArrivesAtTheEnd ==
    ASSUME GroupsInv, NEW p \in Procs, tx[p].pc = "write", Arrives(p), ~Wrote(p),
           NEW g \in Groups, g = op[p].group,
           ~Taken(p, Item(p), Arrival(p).row), ~(tx[p].own = NoRow /\ Item(p) \in DOMAIN db)
    PROVE  /\ Siblings(View(p), g) = Listed(p, g) /\ Siblings(db, g) = Listed(p, g)
           /\ Item(p) \notin Listed(p, g)
           /\ DenseGroup(View(p), g)
           /\ Cardinality(Listed(p, g)) = Len(tx[p].fetched[g])
           /\ \A j \in Listed(p, g) : RowLock(j) \in tx[p].held
<1>1. /\ OrderTxInv /\ TypeOK /\ WorksOnItsRows(p) /\ TouchesItsKeys(p) /\ WritesItsLists(p)
      /\ ArrivesFirst(p) /\ HoldsItsRow(p) /\ Dense(db) /\ NamedOnce(tx[p].fetched[g])
  BY DEF GroupsInv, OrderTxInv, Sound, Orderly
<1>2. tx[p].work = EmptyTable
  BY <1>1 DEF ArrivesFirst
<1>3. ~Affects(p, g)
  BY <1>2 DEF Affects, EmptyTable
<1>4. PICK v : v = View(p)
  OBVIOUS
<1>5. Siblings(v, g) = Siblings(db, g) /\ \A i \in Siblings(v, g) : v[i] = db[i]
  BY <1>1, <1>3, <1>4, NotAffected DEF SameGroup
<1>6. DenseGroup(v, g)
  BY <1>1, <1>3, <1>4, NotAffected, SameGroupDense, DenseEveryGroup
<1>7. g \in Renumbers(p) /\ Moves(p)
  BY DEF Renumbers, Arrives, Moves
<1>8. \A j \in Mine(p) : j \in DOMAIN db /\ RowLock(j) \in tx[p].held
  BY <1>1, <1>2 DEF Mine, TouchesItsKeys, EmptyTable
<1>9. Listed(p, g) \subseteq Mine(p)
  BY <1>1 DEF WorksOnItsRows, Listed, Names
<1>10. Item(p) \notin Listed(p, g)
  BY <1>1, <1>8, <1>9 DEF WritesItsLists
<1>11. Listed(p, g) \subseteq Siblings(v, g)
  BY <1>1, <1>4, <1>7, <1>10 DEF WritesItsLists
<1>12. Item(p) \notin Siblings(v, g)
  BY <1>1, <1>5 DEF HoldsItsRow, Siblings, Arrives
<1>13. IsFiniteSet(Siblings(v, g))
  <2>1. Siblings(v, g) \subseteq Items
    BY <1>1, <1>4, ViewType DEF Siblings
  <2> QED
    BY <2>1, OrderTxAssumption, FS_Subset
<1>14. PICK n \in Nat : n = Cardinality(Siblings(v, g))
  BY <1>13, FS_CardinalityType
<1>15. PICK m \in Nat : m = Len(tx[p].fetched[g]) /\ m = Cardinality(Listed(p, g))
  <2>1. tx[p].fetched[g] \in Seq(Entries)
    BY <1>1, FetchedEntries
  <2> QED
    BY <1>1, <2>1, NamesCardinality DEF Listed
<1>16. n <= m
  <2>1. SUFFICES ASSUME m < n PROVE FALSE
    OBVIOUS
  <2>2. m + 1 \in 1..n
    BY <2>1
  <2>3. PICK j \in Siblings(v, g) : v[j].position = m + 1
    BY <1>6, <1>13, <1>14, <2>2, DenseOnto
  <2>4. j \in DOMAIN v /\ j # Item(p) /\ v[j].group = g
    BY <1>12 DEF Siblings
  <2>5. Arrival(p).row = [group |-> g, position |-> m + 1]
    BY <1>15 DEF Arrival, Write
  <2>6. KeyOf(v[j]) = KeyOf(Arrival(p).row)
    BY <2>3, <2>4, <2>5 DEF KeyOf
  <2> QED
    BY <1>4, <2>4, <2>6 DEF Taken
<1>17. Listed(p, g) = Siblings(v, g)
  <2>1. m <= n
    BY <1>11, <1>13, <1>14, <1>15, FS_Subset
  <2>2. m = n
    BY <1>16, <2>1
  <2> QED
    BY <1>11, <1>13, <1>14, <1>15, <2>2, FS_Subset
<1> QED
  BY <1>4, <1>5, <1>6, <1>8, <1>9, <1>10, <1>15, <1>17

(* What the next write of p is: it renumbers a row of a group that p knows,*)
(* brings its own row to a group or takes it away.                         *)
Renumbered(p, w, g) ==
    /\ ~(Moves(p) /\ w.item = Item(p))
    /\ g \in Renumbers(p) /\ Complete(p, g)
    /\ w.item \in Listed(p, g) /\ w.item \in Siblings(View(p), g)
    /\ w.row # NoRow /\ w.row.group = g

Brought(p, w) ==
    /\ Arrives(p) /\ ~Wrote(p) /\ tx[p].work = EmptyTable
    /\ w = Arrival(p) /\ w.item = Item(p) /\ w.row # NoRow /\ w.row.group = op[p].group

TakenAway(p, w) ==
    /\ op[p].kind = "remove" /\ ~Wrote(p)
    /\ w.item = Item(p) /\ w.row = NoRow
    /\ tx[p].own # NoRow /\ Item(p) \in Siblings(db, tx[p].own.group)

(* What a write does to its row.                                           *)
LEMMA WriteKinds ==
    ASSUME GroupsInv, NEW p \in Procs, tx[p].pc = "write", tx[p].writes # <<>>,
           NEW w, w = Head(tx[p].writes)
    PROVE  (\E g \in Groups : Renumbered(p, w, g)) \/ Brought(p, w) \/ TakenAway(p, w)
<1>1. /\ OrderTxInv /\ TypeOK /\ Sound(p) /\ WritesItsLists(p) /\ ArrivesFirst(p) /\ HoldsItsRow(p)
      /\ RemovesItsRow(p)
  BY DEF GroupsInv, OrderTxInv, Sound, Orderly
<1>2. 1 \in DOMAIN tx[p].writes /\ w = tx[p].writes[1] /\ w \in Writes
  <2>1. tx[p].writes \in Seq(Writes)
    BY <1>1 DEF TypeOK, Transactions
  <2> QED
    BY <2>1
<1>3. tx[p].placing => op[p].kind = "place" /\ tx[p].own # NoRow
  BY <1>1, Course
<1>4. Arrives(p) /\ ~Wrote(p) => Brought(p, w)
  <2>1. SUFFICES ASSUME Arrives(p), ~Wrote(p) PROVE Brought(p, w)
    OBVIOUS
  <2>2. w = Arrival(p) /\ tx[p].work = EmptyTable
    BY <1>1, <1>2, <2>1 DEF ArrivesFirst
  <2>3. w.item = Item(p) /\ w.row = [group |-> op[p].group, position |-> w.row.position]
    BY <2>2 DEF Arrival, Write
  <2>4. w.row # NoRow
    BY <1>1, <1>2, <2>1, <2>3 DEF RemovesItsRow, Arrives
  <2> QED
    BY <2>1, <2>2, <2>3, <2>4 DEF Brought
<1>5. CASE Moves(p) /\ w.item = Item(p)
  <2>1. ~Wrote(p)
    BY <1>1, <1>2, <1>5 DEF WritesItsLists
  <2>2. CASE op[p].kind = "remove"
    <3>1. w.row = NoRow /\ tx[p].own # NoRow
      BY <1>1, <1>2, <1>5, <2>2 DEF RemovesItsRow
    <3>2. Item(p) \in Siblings(db, tx[p].own.group)
      BY <1>1, <2>1, <3>1 DEF HoldsItsRow
    <3> QED
      BY <1>5, <2>1, <2>2, <3>1, <3>2 DEF TakenAway
  <2> QED
    BY <1>4, <1>5, <2>1, <2>2 DEF Moves
<1>6. CASE ~(Moves(p) /\ w.item = Item(p))
  <2>1. PICK g \in Renumbers(p) : w.item \in Listed(p, g) /\ w.row # NoRow /\ w.row.group = g
    BY <1>1, <1>2, <1>6 DEF WritesItsLists
  <2>2. w.item \in Siblings(View(p), g)
    BY <1>1, <1>6, <2>1 DEF WritesItsLists
  <2>3. Complete(p, g)
    <3>1. SUFFICES ASSUME ~(tx[p].own # NoRow /\ g = tx[p].own.group), ~Wrote(p) PROVE FALSE
      BY DEF Complete
    <3>2. Arrives(p)
      BY <1>1, <1>3, <3>1 DEF Renumbers, Arrives, HoldsItsRow
    <3> QED
      BY <1>4, <1>6, <3>1, <3>2 DEF Brought, Moves
  <2> QED
    BY <1>6, <2>1, <2>2, <2>3 DEF Renumbered, Renumbers
<1> QED
  BY <1>5, <1>6

(* The write of a row that succeeds.                                       *)
WritesRow(p, w) ==
    /\ tx[p].pc = "write" /\ tx[p].writes # <<>> /\ w = Head(tx[p].writes)
    /\ w.row # NoRow => /\ ~Taken(p, w.item, w.row)
                        /\ ~(tx[p].own = NoRow /\ Item(p) \in DOMAIN db)
    /\ UNCHANGED <<db, op>>
    /\ tx'[p].pc = "write" /\ tx'[p].own = tx[p].own /\ tx'[p].fetched = tx[p].fetched
    /\ tx'[p].held = tx[p].held /\ tx'[p].placing = tx[p].placing
    /\ tx'[p].writes = Tail(tx[p].writes)
    /\ tx[p].touched \cup Occupies(p) \subseteq tx'[p].touched
    /\ DOMAIN tx'[p].work = DOMAIN tx[p].work \cup {w.item}
    /\ tx'[p].work[w.item] = w.row
    /\ \A j \in DOMAIN tx[p].work : j # w.item => tx'[p].work[j] = tx[p].work[j]

(* The next row is refused.                                                *)
FailsOn(p, w) ==
    /\ w = Head(tx[p].writes) /\ w.row # NoRow
    /\ Taken(p, w.item, w.row) \/ (tx[p].own = NoRow /\ Item(p) \in DOMAIN db)

(* A WriteRow that meets no taken position writes the next row.            *)
LEMMA WriteRowWrites ==
    ASSUME OrderTxInv, NEW p \in Procs, WriteRow(p)
    PROVE  \/ IntegrityError(p) /\ \E w \in Writes : FailsOn(p, w)
           \/ \E w \in Writes : WritesRow(p, w) /\ (\E t : Goto(p, t))
<1>1. /\ UNCHANGED <<db, schedules, op>> /\ tx[p].pc = "write" /\ tx[p].writes # <<>>
      /\ TypeOK
  BY DEF WriteRow, OrderTxInv
<1>2. PICK w : w = Head(tx[p].writes)
  OBVIOUS
<1>3. w \in Writes /\ Tail(tx[p].writes) \in Seq(Writes)
  BY <1>1, <1>2, WritesOwnRow
<1> DEFINE old == IF w.item \in DOMAIN View(p) THEN {KeyOf(View(p)[w.item])} ELSE {}
           exists == tx[p].own = NoRow /\ Item(p) \in DOMAIN db
<1>4. CASE w.row # NoRow /\ (Taken(p, w.item, w.row) \/ exists)
  BY <1>2, <1>3, <1>4 DEF WriteRow, FailsOn
<1>5. CASE ~(w.row # NoRow /\ (Taken(p, w.item, w.row) \/ exists))
  <2> DEFINE work == [i \in DOMAIN tx[p].work \cup {w.item} |->
                        IF i = w.item THEN w.row ELSE tx[p].work[i]]
  <2>1. PICK S \in SUBSET Items : tx[p] \in Transactions(S)
    BY <1>1 DEF TypeOK
  <2>2. PICK new : new = work
    OBVIOUS
  <2>3. PICK touched : touched = tx[p].touched \cup old \cup Occupies(p)
    OBVIOUS
  <2>4. PICK t : t = [tx[p] EXCEPT !.writes = Tail(@), !.work = new, !.touched = touched]
    OBVIOUS
  <2>5. Goto(p, t)
    <3>1. Goto(p, [tx[p] EXCEPT
                  !.writes = Tail(@),
                  !.work = work,
                  !.touched = tx[p].touched \cup old \cup Occupies(p)])
      BY <1>2, <1>5 DEF WriteRow
    <3> QED
      BY <2>2, <2>3, <2>4, <3>1
  <2>6. tx'[p] = t
    BY <1>1, <2>5, OnlyOne DEF Goto
  <2>7. /\ t.pc = "write" /\ t.own = tx[p].own /\ t.writes = Tail(tx[p].writes) /\ t.work = new
        /\ t.touched = touched /\ t.fetched = tx[p].fetched /\ t.held = tx[p].held
        /\ t.placing = tx[p].placing
    BY <1>1, <2>1, <2>4 DEF Transactions
  <2>8. /\ DOMAIN new = DOMAIN tx[p].work \cup {w.item} /\ new[w.item] = w.row
        /\ \A j \in DOMAIN tx[p].work : j # w.item => new[j] = tx[p].work[j]
    BY <2>2
  <2>9. tx[p].touched \cup Occupies(p) \subseteq touched
    BY <2>3
  <2>10. WritesRow(p, w)
    BY <1>1, <1>2, <1>5, <2>6, <2>7, <2>8, <2>9 DEF WritesRow
  <2> QED
    BY <1>3, <2>5, <2>10
<1> QED
  BY <1>4, <1>5

(* What p sees after it: that row as written, the others as before.        *)
LEMMA WriteShows ==
    ASSUME OrderTxInv, NEW p \in Procs, NEW w \in Writes, WritesRow(p, w)
    PROVE  /\ \A j : j # w.item => /\ j \in DOMAIN View(p)' <=> j \in DOMAIN View(p)
                                   /\ j \in DOMAIN View(p) => View(p)'[j] = View(p)[j]
           /\ w.item \in DOMAIN View(p)' <=> w.row # NoRow
           /\ w.item \in DOMAIN View(p)' => View(p)'[w.item] = w.row
<1>1. TypeOK
  BY DEF OrderTxInv
<1>2. PICK new : new = tx'[p].work
  OBVIOUS
<1>3. PICK u : u = View(p)'
  OBVIOUS
<1>4. PICK v : v = View(p)
  OBVIOUS
<1>5. PICK old : old = tx[p].work
  OBVIOUS
<1>6. /\ DOMAIN new = DOMAIN old \cup {w.item} /\ new[w.item] = w.row
      /\ \A j \in DOMAIN old : j # w.item => new[j] = old[j]
      /\ db' = db
  BY <1>2, <1>5 DEF WritesRow
<1>7. u = [i \in {j \in DOMAIN db \cup DOMAIN new : j \in DOMAIN new => new[j] # NoRow} |->
              IF i \in DOMAIN new THEN new[i] ELSE db[i]]
  BY <1>2, <1>3, <1>6 DEF View
<1>8. /\ \A i : i \in DOMAIN v <=> IF i \in DOMAIN old THEN old[i] # NoRow ELSE i \in DOMAIN db
      /\ \A i \in DOMAIN v : v[i] = IF i \in DOMAIN old THEN old[i] ELSE db[i]
  BY <1>1, <1>4, <1>5, ViewType
<1>9. /\ \A i : i \in DOMAIN u <=> IF i \in DOMAIN new THEN new[i] # NoRow ELSE i \in DOMAIN db
      /\ \A i \in DOMAIN u : u[i] = IF i \in DOMAIN new THEN new[i] ELSE db[i]
  BY <1>7
<1>10. /\ \A j : j # w.item => /\ j \in DOMAIN u <=> j \in DOMAIN v
                               /\ j \in DOMAIN v => u[j] = v[j]
       /\ w.item \in DOMAIN u <=> w.row # NoRow
       /\ w.item \in DOMAIN u => u[w.item] = w.row
  BY <1>6, <1>8, <1>9
<1> QED
  BY <1>3, <1>4, <1>10

(* The groups it has written to after it.                                  *)
LEMMA WriteAffects ==
    ASSUME GroupsInv, NEW p \in Procs, NEW w \in Writes, WritesRow(p, w), NEW h \in Groups
    PROVE  /\ Affects(p, h) => Affects(p, h)'
           /\ Affects(p, h)' => \/ Affects(p, h)
                                \/ w.item \in DOMAIN db /\ db[w.item].group = h
                                \/ w.row # NoRow /\ w.row.group = h
           /\ w.item \in DOMAIN db /\ db[w.item].group = h => Affects(p, h)'
<1>1. TypeOK
  BY DEF GroupsInv, OrderTxInv
<1>2. PICK new : new = tx'[p].work
  OBVIOUS
<1>3. PICK old : old = tx[p].work
  OBVIOUS
<1>4. /\ DOMAIN new = DOMAIN old \cup {w.item} /\ new[w.item] = w.row
      /\ \A j \in DOMAIN old : j # w.item => new[j] = old[j]
      /\ db' = db
  BY <1>2, <1>3 DEF WritesRow
<1>5. Affects(p, h)' <=> \E j \in DOMAIN new : \/ (j \in DOMAIN db /\ db[j].group = h)
                                              \/ (new[j] # NoRow /\ new[j].group = h)
  BY <1>2, <1>4 DEF Affects
<1>6. Affects(p, h) <=> \E j \in DOMAIN old : \/ (j \in DOMAIN db /\ db[j].group = h)
                                             \/ (old[j] # NoRow /\ old[j].group = h)
  BY <1>3 DEF Affects
<1>7. w.item \in DOMAIN old /\ old[w.item] # NoRow => w.row # NoRow /\ w.row.group = old[w.item].group
  <2>1. SUFFICES ASSUME w.item \in DOMAIN old, old[w.item] # NoRow
                 PROVE  w.row # NoRow /\ w.row.group = old[w.item].group
    OBVIOUS
  <2>2. PICK g \in Groups : Renumbered(p, w, g)
    BY <1>3, <2>1, WriteKinds DEF WritesRow, Brought, TakenAway, Wrote
  <2>3. w.item \in DOMAIN View(p) /\ View(p)[w.item] = old[w.item]
    BY <1>1, <1>3, <2>1, ViewType
  <2> QED
    BY <2>2, <2>3 DEF Renumbered, Siblings
<1>8. Affects(p, h) => Affects(p, h)'
  <2>1. SUFFICES ASSUME NEW j \in DOMAIN old, \/ (j \in DOMAIN db /\ db[j].group = h)
                                             \/ (old[j] # NoRow /\ old[j].group = h)
                 PROVE  \E k \in DOMAIN new : \/ (k \in DOMAIN db /\ db[k].group = h)
                                              \/ (new[k] # NoRow /\ new[k].group = h)
    BY <1>5, <1>6
  <2>2. j \in DOMAIN new
    BY <1>4
  <2> QED
    BY <1>4, <1>7, <2>1, <2>2
<1> QED
  BY <1>4, <1>5, <1>6, <1>8

(* A group is affected by a row of p that holds all of its rows.           *)
LEMMA WriteLocks ==
    ASSUME GroupsInv, NEW p \in Procs, NEW w \in Writes, WritesRow(p, w)
    PROVE  LocksItsGroups(p)' /\ HoldsItsRow(p)'
<1>1. /\ OrderTxInv /\ TypeOK /\ LocksItsGroups(p) /\ HoldsItsRow(p)
      /\ db' = db /\ op' = op /\ tx[p].pc = "write"
      /\ tx'[p].held = tx[p].held /\ tx[p].touched \cup Occupies(p) \subseteq tx'[p].touched
  BY DEF GroupsInv, OrderTxInv, Orderly, WritesRow
<1>2. \/ \E g \in Groups : Renumbered(p, w, g)
      \/ Brought(p, w)
      \/ TakenAway(p, w)
  BY WriteKinds DEF WritesRow
<1>3. ASSUME NEW h \in Groups, Affects(p, h)', ~Affects(p, h)
      PROVE  /\ \A j \in Siblings(db, h) : RowLock(j) \in tx[p].held
             /\ Siblings(db, h) = {} => <<h, 1>> \in Occupies(p)
  <2>1. \/ w.item \in DOMAIN db /\ db[w.item].group = h
        \/ w.row # NoRow /\ w.row.group = h
    BY <1>3, WriteAffects
  <2>2. h \in Renumbers(p) /\ Complete(p, h) => \A j \in Siblings(db, h) : RowLock(j) \in tx[p].held
    BY <1>1, <1>3, HoldsKnownGroup
  <2>3. CASE \E g \in Groups : Renumbered(p, w, g)
    <3>1. PICK g \in Groups : Renumbered(p, w, g)
      BY <2>3
    <3>2. Siblings(View(p), h) = Siblings(db, h)
      BY <1>1, <1>3, NotAffected DEF SameGroup
    <3>3. h = g
      BY <2>1, <3>1, <3>2 DEF Renumbered, Siblings
    <3>4. w.item \in Siblings(db, h)
      BY <3>1, <3>2, <3>3 DEF Renumbered
    <3> QED
      BY <2>2, <3>1, <3>3, <3>4 DEF Renumbered
  <2>4. CASE TakenAway(p, w) \/ (Brought(p, w) /\ w.item \in DOMAIN db /\ db[w.item].group = h)
    <3>1. /\ tx[p].own # NoRow /\ Item(p) \in Siblings(db, tx[p].own.group) /\ w.item = Item(p)
          /\ db[w.item].group = h
      BY <1>1, <2>1, <2>4 DEF TakenAway, Brought, HoldsItsRow, WritesRow
    <3>2. h = tx[p].own.group /\ w.item \in Siblings(db, h)
      BY <3>1 DEF Siblings
    <3> QED
      BY <2>2, <3>1, <3>2 DEF Renumbers, Complete
  <2>5. CASE Brought(p, w) /\ w.row # NoRow /\ w.row.group = h
    <3>1. /\ h = op[p].group /\ Arrives(p) /\ ~Wrote(p) /\ w = Arrival(p) /\ w.item = Item(p)
          /\ ~Taken(p, Item(p), Arrival(p).row) /\ ~(tx[p].own = NoRow /\ Item(p) \in DOMAIN db)
      BY <2>5 DEF Brought, WritesRow
    <3>2. /\ Siblings(db, h) = Listed(p, h) /\ Cardinality(Listed(p, h)) = Len(tx[p].fetched[h])
          /\ \A j \in Listed(p, h) : RowLock(j) \in tx[p].held
      BY <1>1, <3>1, ArrivesAtTheEnd
    <3>3. Siblings(db, h) = {} => KeyOf(w.row) = <<h, 1>>
      BY <3>1, <3>2, FS_EmptySet DEF Arrival, Write, KeyOf
    <3>4. KeyOf(w.row) \in Occupies(p)
      BY <2>5 DEF Occupies, WritesRow
    <3> QED
      BY <3>2, <3>3, <3>4
  <2> QED
    BY <1>2, <2>1, <2>3, <2>4, <2>5 DEF TakenAway
<1>4. LocksItsGroups(p)'
  <2>1. ASSUME NEW h \in Groups, Affects(p, h)'
        PROVE  /\ \A j \in Siblings(db, h) : RowLock(j) \in tx'[p].held
               /\ Siblings(db, h) = {} => <<h, 1>> \in tx'[p].touched
    <3>1. CASE Affects(p, h)
      BY <1>1, <3>1 DEF LocksItsGroups
    <3>2. CASE ~Affects(p, h)
      BY <1>1, <1>3, <2>1, <3>2
    <3> QED
      BY <3>1, <3>2
  <2> QED
    BY <1>1, <2>1 DEF LocksItsGroups
<1>5. HoldsItsRow(p)'
  <2>1. /\ tx'[p].own = tx[p].own /\ tx'[p].placing = tx[p].placing /\ Item(p)' = Item(p)
        /\ (Wrote(p)' <=> Wrote(p) \/ w.item = Item(p))
    BY DEF WritesRow, Item, Wrote
  <2>2. ASSUME tx[p].own # NoRow
        PROVE  IF Wrote(p)' THEN Affects(p, tx[p].own.group)'
               ELSE Item(p) \in Siblings(db, tx[p].own.group) /\ RowLock(Item(p)) \in tx[p].held
    <3>1. PICK g \in Groups : g = tx[p].own.group
      <4>1. tx[p].own \in Rows
        BY <1>1, <2>2 DEF TypeOK, Transactions
      <4> QED
        BY <4>1, RowType
    <3>2. CASE Wrote(p)
      <4>1. Affects(p, g)
        BY <1>1, <2>2, <3>1, <3>2 DEF HoldsItsRow
      <4>2. Affects(p, g)'
        BY <4>1, WriteAffects
      <4> QED
        BY <2>1, <3>1, <3>2, <4>2
    <3>3. CASE ~Wrote(p)
      <4>1. Item(p) \in Siblings(db, g) /\ RowLock(Item(p)) \in tx[p].held
        BY <1>1, <2>2, <3>1, <3>3 DEF HoldsItsRow
      <4>2. w.item = Item(p) => Affects(p, g)'
        BY <4>1, WriteAffects DEF Siblings
      <4> QED
        BY <2>1, <3>1, <3>3, <4>1, <4>2
    <3> QED
      BY <3>2, <3>3
  <2> QED
    BY <1>1, <2>1, <2>2 DEF HoldsItsRow
<1> QED
  BY <1>4, <1>5

(* The rows stay in the groups whose lists name them.                      *)
LEMMA WriteLists ==
    ASSUME GroupsInv, NEW p \in Procs, NEW w \in Writes, WritesRow(p, w)
    PROVE  WritesItsLists(p)' /\ ArrivesFirst(p)'
<1>1. /\ OrderTxInv /\ TypeOK /\ HoldsItsRow(p) /\ WritesItsLists(p) /\ ArrivesFirst(p)
      /\ db' = db /\ op' = op /\ tx[p].pc = "write" /\ tx'[p].pc = "write"
      /\ tx'[p].own = tx[p].own /\ tx'[p].placing = tx[p].placing /\ tx'[p].fetched = tx[p].fetched
      /\ tx'[p].writes = Tail(tx[p].writes) /\ tx[p].writes # <<>> /\ w = Head(tx[p].writes)
      /\ tx'[p].work[w.item] = w.row
      /\ \A j \in DOMAIN tx[p].work : j # w.item => tx'[p].work[j] = tx[p].work[j]
  BY DEF GroupsInv, OrderTxInv, Orderly, WritesRow
<1>2. \/ \E g \in Groups : Renumbered(p, w, g)
      \/ Brought(p, w)
      \/ TakenAway(p, w)
  BY <1>1, WriteKinds
<1>3. PICK u : u = View(p)'
  OBVIOUS
<1>4. PICK v : v = View(p)
  OBVIOUS
<1>5. /\ \A j : j # w.item => /\ j \in DOMAIN u <=> j \in DOMAIN v
                              /\ j \in DOMAIN v => u[j] = v[j]
      /\ w.item \in DOMAIN u <=> w.row # NoRow
      /\ w.item \in DOMAIN u => u[w.item] = w.row
  BY <1>1, <1>3, <1>4, WriteShows
<1>6. /\ Item(p)' = Item(p) /\ (Wrote(p)' <=> Wrote(p) \/ w.item = Item(p))
      /\ Renumbers(p)' = Renumbers(p) /\ (Moves(p)' <=> Moves(p)) /\ (Arrives(p)' <=> Arrives(p))
      /\ \A g : Listed(p, g)' = Listed(p, g)
  BY <1>1 DEF WritesRow, Item, Wrote, Renumbers, Moves, Arrives, Listed
<1>7. \A g \in Groups : \A j : j # w.item => (j \in Siblings(u, g) <=> j \in Siblings(v, g))
  BY <1>5 DEF Siblings
<1>8. Renumbers(p) \subseteq Groups
  BY DEF Renumbers
<1>9. \A g \in Groups : w.item \in Siblings(v, g) => g \in Renumbers(p)
  <2>1. SUFFICES ASSUME NEW g \in Groups, w.item \in Siblings(v, g) PROVE g \in Renumbers(p)
    OBVIOUS
  <2>2. CASE \E h \in Groups : Renumbered(p, w, h)
    BY <1>4, <2>1, <2>2 DEF Renumbered, Siblings
  <2>3. CASE Brought(p, w) \/ TakenAway(p, w)
    <3>1. w.item = Item(p) /\ ~Wrote(p)
      BY <2>3 DEF Brought, TakenAway
    <3>2. Item(p) \in DOMAIN db /\ v[Item(p)] = db[Item(p)]
      BY <1>1, <1>4, <2>1, <3>1, ViewType DEF Wrote, Siblings
    <3>3. tx[p].own # NoRow
      BY <2>3, <3>2 DEF Brought, TakenAway, WritesRow
    <3>4. Item(p) \in Siblings(db, tx[p].own.group)
      BY <1>1, <3>1, <3>3 DEF HoldsItsRow
    <3> QED
      BY <2>1, <3>1, <3>2, <3>3, <3>4 DEF Siblings, Renumbers
  <2> QED
    BY <1>2, <2>2, <2>3
<1>10. w.row # NoRow => w.row.group \in Renumbers(p)
  <2>1. Brought(p, w) => op[p].group \in Renumbers(p)
    BY <1>1, OpType DEF Brought, Arrives, Renumbers
  <2> QED
    BY <1>2, <2>1 DEF Renumbered, Brought, TakenAway
<1>11. ASSUME NEW g \in Groups \ Renumbers(p) PROVE DenseGroup(u, g)
  <2>1. w.item \notin Siblings(v, g)
    BY <1>9
  <2>2. w.item \notin Siblings(u, g)
    BY <1>5, <1>10 DEF Siblings
  <2>3. SameGroup(u, v, g)
    BY <1>5, <1>7, <2>1, <2>2 DEF SameGroup, Siblings
  <2>4. DenseGroup(v, g)
    BY <1>1, <1>4 DEF WritesItsLists
  <2> QED
    BY <2>3, <2>4, SameGroupDense
<1>12. ASSUME NEW g \in Renumbers(p), NEW j \in Listed(p, g)
       PROVE  j \in Siblings(u, g) \/ (Moves(p) /\ j = Item(p))
  <2>1. j \in Siblings(v, g) \/ (Moves(p) /\ j = Item(p))
    BY <1>1, <1>4 DEF WritesItsLists
  <2>2. CASE j # w.item
    BY <1>7, <1>8, <2>1, <2>2
  <2>3. CASE j = w.item /\ \E h \in Groups : Renumbered(p, w, h)
    <3>1. PICK h \in Groups : Renumbered(p, w, h)
      BY <2>3
    <3>2. j \in Siblings(v, g) => g = h
      BY <1>4, <2>3, <3>1 DEF Renumbered, Siblings
    <3>3. w.item \in Siblings(u, h)
      BY <1>5, <3>1 DEF Renumbered, Siblings
    <3> QED
      BY <2>1, <2>3, <3>2, <3>3
  <2>4. CASE j = w.item /\ (Brought(p, w) \/ TakenAway(p, w))
    BY <2>4 DEF Brought, TakenAway, Moves
  <2> QED
    BY <1>2, <2>2, <2>3, <2>4
<1>13. ASSUME NEW g \in Renumbers(p), Complete(p, g)'
       PROVE  Siblings(u, g) \subseteq Listed(p, g) \cup {Item(p)}
  <2>1. CASE Complete(p, g)
    <3>1. Siblings(v, g) \subseteq Listed(p, g) \cup {Item(p)}
      BY <1>1, <1>4, <2>1 DEF WritesItsLists
    <3>2. w.item \in Siblings(u, g) => w.item \in Listed(p, g) \cup {Item(p)}
      BY <1>2, <1>5 DEF Renumbered, Brought, TakenAway, Siblings
    <3> QED
      BY <1>7, <1>8, <3>1, <3>2
  <2>2. CASE ~Complete(p, g)
    <3>1. ~Wrote(p) /\ w.item = Item(p) /\ ~(tx[p].own # NoRow /\ g = tx[p].own.group)
      BY <1>1, <1>6, <1>13, <2>2 DEF Complete
    <3>2. op[p].kind # "remove" /\ g = op[p].group
      BY <3>1 DEF Renumbers
    <3>3. Brought(p, w)
      <4>1. ~tx[p].placing
        <5>1. Sound(p)
          BY <1>1 DEF OrderTxInv
        <5>2. tx[p].placing => tx[p].own # NoRow /\ tx[p].own.group = op[p].group
          BY <1>1, <5>1, Course DEF HoldsItsRow
        <5> QED
          BY <3>1, <3>2, <5>2
      <4>2. Arrives(p)
        BY <3>1, <3>2, <4>1 DEF Arrives
      <4> QED
        BY <1>2, <3>1, <3>2, <4>2 DEF TakenAway, Renumbered, Moves
    <3>4. /\ Arrives(p) /\ w = Arrival(p)
          /\ ~Taken(p, Item(p), Arrival(p).row) /\ ~(tx[p].own = NoRow /\ Item(p) \in DOMAIN db)
      BY <3>3 DEF Brought, WritesRow
    <3>5. g \in Groups
      BY <1>8
    <3>6. Siblings(v, g) = Listed(p, g)
      BY <1>1, <1>4, <3>1, <3>2, <3>4, <3>5, ArrivesAtTheEnd
    <3> QED
      BY <1>7, <3>1, <3>5, <3>6
  <2> QED
    BY <2>1, <2>2
<1>14. PICK ws \in Seq(Writes) : ws = tx[p].writes
  BY <1>1 DEF TypeOK, Transactions
<1>15. PICK rest : rest = Tail(ws)
  OBVIOUS
<1>16. /\ \A k \in DOMAIN rest : k \in Nat /\ k > 0 /\ k + 1 \in DOMAIN ws /\ rest[k] = ws[k + 1]
       /\ ws[1] = w
  <2>1. PICK n \in Nat : n = Len(ws) /\ DOMAIN ws = 1..n /\ n > 0
    BY <1>1, <1>14
  <2>2. DOMAIN rest = 1..(n - 1) /\ \A k \in 1..(n - 1) : rest[k] = ws[k + 1]
    BY <1>1, <1>14, <1>15, <2>1
  <2> QED
    BY <1>1, <1>14, <2>1, <2>2
<1>17. ASSUME NEW k \in DOMAIN rest
       PROVE  IF Moves(p) /\ rest[k].item = Item(p) THEN k = 1 /\ ~Wrote(p)'
              ELSE \E g \in Renumbers(p) :
                      rest[k].item \in Listed(p, g) /\ rest[k].row # NoRow /\ rest[k].row.group = g
  <2>1. k + 1 \in DOMAIN ws /\ rest[k] = ws[k + 1] /\ k + 1 # 1
    BY <1>16
  <2>2. PICK m \in DOMAIN ws : m = k + 1
    BY <2>1
  <2>3. IF Moves(p) /\ ws[m].item = Item(p) THEN m = 1 /\ ~Wrote(p)
        ELSE \E g \in Renumbers(p) :
                ws[m].item \in Listed(p, g) /\ ws[m].row # NoRow /\ ws[m].row.group = g
    BY <1>1, <1>14 DEF WritesItsLists
  <2> QED
    BY <2>1, <2>2, <2>3
<1>18. Arrives(p) /\ tx[p].own # NoRow => Item(p) \notin Listed(p, op[p].group)
  BY <1>1 DEF WritesItsLists
<1>19. WritesItsLists(p)'
  <2>1. (\A g \in Groups \ Renumbers(p) : DenseGroup(View(p), g))'
    BY <1>3, <1>6, <1>11 DEF DenseGroup
  <2>2. (\A g \in Renumbers(p) : \A i \in Listed(p, g) :
              i \in Siblings(View(p), g) \/ (Moves(p) /\ i = Item(p)))'
    BY <1>3, <1>6, <1>12
  <2>3. (\A g \in Renumbers(p) : Complete(p, g) =>
              Siblings(View(p), g) \subseteq Listed(p, g) \cup {Item(p)})'
    BY <1>3, <1>6, <1>13
  <2>4. (\A k \in DOMAIN tx[p].writes :
              LET x == tx[p].writes[k]
              IN  IF Moves(p) /\ x.item = Item(p) THEN k = 1 /\ ~Wrote(p)
                  ELSE \E g \in Renumbers(p) :
                          x.item \in Listed(p, g) /\ x.row # NoRow /\ x.row.group = g)'
    BY <1>1, <1>6, <1>14, <1>15, <1>17
  <2>5. (Arrives(p) /\ tx[p].own # NoRow => Item(p) \notin Listed(p, op[p].group))'
    BY <1>1, <1>6, <1>18
  <2> QED
    BY <2>1, <2>2, <2>3, <2>4, <2>5 DEF WritesItsLists
<1>20. ArrivesFirst(p)'
  <2>1. SUFFICES ASSUME Arrives(p)
                 PROVE  Wrote(p)' /\ tx'[p].work[Item(p)] # NoRow
                                  /\ tx'[p].work[Item(p)].group = op[p].group
    BY <1>1, <1>6 DEF ArrivesFirst
  <2>2. CASE Wrote(p)
    <3>1. tx[p].work[Item(p)] # NoRow /\ tx[p].work[Item(p)].group = op[p].group
      BY <1>1, <2>1, <2>2 DEF ArrivesFirst
    <3>2. w.item # Item(p)
      BY <1>2, <2>1, <2>2 DEF Renumbered, Brought, TakenAway, Moves
    <3> QED
      BY <1>1, <1>6, <2>2, <3>1, <3>2 DEF Wrote
  <2>3. CASE ~Wrote(p)
    <3>1. w = Arrival(p)
      BY <1>1, <1>14, <1>16, <2>1, <2>3 DEF ArrivesFirst
    <3>2. Brought(p, w)
      BY <1>2, <2>1, <3>1 DEF Renumbered, TakenAway, Arrives, Moves, Arrival, Write
    <3> QED
      BY <1>1, <1>6, <3>2 DEF Brought
  <2> QED
    BY <2>2, <2>3
<1> QED
  BY <1>19, <1>20

(* What remains to be written ends in the same rows.                       *)
LEMMA WriteEnds ==
    ASSUME GroupsInv, NEW p \in Procs, NEW w \in Writes, WritesRow(p, w)
    PROVE  EndsInOrder(p)'
<1>1. /\ OrderTxInv /\ TypeOK /\ Sound(p) /\ EndsInOrder(p) /\ ArrivesFirst(p)
      /\ db' = db /\ op' = op /\ tx[p].pc = "write" /\ tx'[p].pc = "write"
      /\ tx'[p].own = tx[p].own /\ tx'[p].placing = tx[p].placing /\ tx'[p].fetched = tx[p].fetched
      /\ tx'[p].writes = Tail(tx[p].writes) /\ tx[p].writes # <<>> /\ w = Head(tx[p].writes)
  BY DEF GroupsInv, OrderTxInv, Orderly, WritesRow
<1>2. PICK ws \in Seq(Writes) : ws = tx[p].writes
  BY <1>1 DEF TypeOK, Transactions
<1>3. PICK u : u = View(p)'
  OBVIOUS
<1>4. PICK v : v = View(p)
  OBVIOUS
<1>5. /\ \A j : j # w.item => /\ j \in DOMAIN u <=> j \in DOMAIN v
                              /\ j \in DOMAIN v => u[j] = v[j]
      /\ w.item \in DOMAIN u <=> w.row # NoRow
      /\ w.item \in DOMAIN u => u[w.item] = w.row
  BY <1>1, <1>3, <1>4, WriteShows
<1>6. /\ Item(p)' = Item(p) /\ (Wrote(p)' <=> Wrote(p) \/ w.item = Item(p))
      /\ Renumbers(p)' = Renumbers(p)
      /\ \A g : Members(p, g)' = Members(p, g)
  BY <1>1 DEF WritesRow, Item, Wrote, Renumbers, Members, Listed
<1>7. \A i : RowInTheEnd(p, i)' = RowInTheEnd(p, i)
  <2>1. ws # <<>> /\ w = Head(ws)
    BY <1>1, <1>2
  <2>2. \A i : RowAfter(Tail(ws), u, i) = RowAfter(ws, v, i)
    BY <1>5, <2>1, RowAfterOneMore
  <2>3. \A i : RowInTheEnd(p, i)' = RowAfter(Tail(ws), u, i)
    BY <1>1, <1>2, <1>3 DEF RowInTheEnd
  <2> QED
    BY <1>2, <1>4, <2>2, <2>3 DEF RowInTheEnd
<1>8. tx[p].placing =>
          RowInTheEnd(p, Item(p)).position =
              Clamp(op[p].position, Cardinality(Members(p, op[p].group)))
  BY <1>1 DEF EndsInOrder
<1>9. ASSUME tx[p].own # NoRow \/ Wrote(p)', NEW g \in Renumbers(p)
      PROVE  /\ \A i \in Members(p, g) :
                   /\ RowInTheEnd(p, i) # NoRow /\ RowInTheEnd(p, i).group = g
                   /\ RowInTheEnd(p, i).position \in 1..Cardinality(Members(p, g))
             /\ \A i, j \in Members(p, g) :
                   RowInTheEnd(p, i).position = RowInTheEnd(p, j).position => i = j
  <2>1. CASE tx[p].own # NoRow \/ Wrote(p)
    BY <1>1, <2>1 DEF EndsInOrder
  <2>2. CASE tx[p].own = NoRow /\ ~Wrote(p)
    <3>1. w.item = Item(p)
      BY <1>6, <1>9, <2>2
    <3>2. Brought(p, w)
      BY <1>1, <2>2, WriteKinds DEF Renumbered, Complete, TakenAway
    <3>3. /\ Arrives(p) /\ w = Arrival(p) /\ w.row # NoRow
          /\ ~Taken(p, Item(p), Arrival(p).row) /\ ~(tx[p].own = NoRow /\ Item(p) \in DOMAIN db)
      BY <3>2 DEF Brought, WritesRow
    <3>4. g \in Groups /\ g = op[p].group /\ op[p].kind # "remove"
      BY <2>2, <3>3 DEF Renumbers, Arrives
    <3>5. /\ Siblings(v, g) = Listed(p, g) /\ Item(p) \notin Listed(p, g)
          /\ DenseGroup(v, g)
          /\ Cardinality(Listed(p, g)) = Len(tx[p].fetched[g])
      BY <1>1, <1>4, <2>2, <3>3, <3>4, ArrivesAtTheEnd
    <3>6. PICK L : L = Listed(p, g)
      OBVIOUS
    <3>7. /\ tx[p].fetched[g] \in Seq(Entries) /\ NamedOnce(tx[p].fetched[g])
      BY <1>1, <3>4, FetchedEntries DEF Sound, GroupsInv, Orderly
    <3>8. PICK n \in Nat : n = Len(tx[p].fetched[g]) /\ n = Cardinality(L) /\ IsFiniteSet(L)
      BY <3>5, <3>6, <3>7, NamesCardinality DEF Listed
    <3>9. Members(p, g) = L \cup {Item(p)} /\ Cardinality(L \cup {Item(p)}) = n + 1
      <4>1. Item(p) \notin L
        BY <3>5, <3>6
      <4>2. Cardinality(L \cup {Item(p)}) = n + 1
        BY <3>8, <4>1, FS_AddElement
      <4> QED
        BY <3>4, <3>6, <4>2 DEF Members
    <3>10. \A k \in DOMAIN Tail(ws) : FALSE
      <4>1. Len(ws) = 1
        BY <1>1, <1>2, <2>2, <3>3 DEF ArrivesFirst
      <4>2. PICK m \in Nat : m = Len(ws) /\ DOMAIN ws = 1..m
        OBVIOUS
      <4>3. ws # <<>>
        BY <1>1, <1>2
      <4>4. DOMAIN Tail(ws) = 1..(m - 1)
        BY <4>2, <4>3
      <4> QED
        BY <4>1, <4>2, <4>4
    <3>11. \A i : RowInTheEnd(p, i) = IF i \in DOMAIN u THEN u[i] ELSE NoRow
      <4>2. \A i : RowAfter(Tail(ws), u, i) = IF i \in DOMAIN u THEN u[i] ELSE NoRow
        BY <3>10, RowAfterNone
      <4>3. ws # <<>> /\ w = Head(ws)
        BY <1>1, <1>2
      <4>4. \A i : RowAfter(Tail(ws), u, i) = RowAfter(ws, v, i)
        BY <1>5, <4>3, RowAfterOneMore
      <4> QED
        BY <1>2, <1>4, <4>2, <4>4 DEF RowInTheEnd
    <3>12. RowInTheEnd(p, Item(p)) = [group |-> g, position |-> n + 1]
      BY <1>5, <3>1, <3>3, <3>4, <3>8, <3>11 DEF Arrival, Write
    <3>13. ASSUME NEW i \in L
           PROVE  /\ RowInTheEnd(p, i) = v[i] /\ v[i].group = g /\ v[i].position \in 1..n
                  /\ RowInTheEnd(p, i) # NoRow
      <4>1. i # Item(p) /\ i \in Siblings(v, g)
        BY <3>5, <3>6
      <4>2. v[i] # NoRow
        BY <1>1, <1>4, <4>1, RowType, ViewType DEF Siblings
      <4> QED
        BY <1>5, <3>1, <3>5, <3>6, <3>8, <3>11, <4>1, <4>2 DEF Siblings, DenseGroup
    <3>14. \A i, j \in L : v[i].position = v[j].position => i = j
      BY <3>5, <3>6 DEF DenseGroup
    <3>15. RowInTheEnd(p, Item(p)) # NoRow
      BY <1>5, <3>1, <3>3, <3>11
    <3>16. \A i \in L \cup {Item(p)} :
                   /\ RowInTheEnd(p, i) # NoRow /\ RowInTheEnd(p, i).group = g
                   /\ RowInTheEnd(p, i).position \in 1..(n + 1)
      BY <3>12, <3>13, <3>15
    <3>17. \A i, j \in L \cup {Item(p)} :
                   RowInTheEnd(p, i).position = RowInTheEnd(p, j).position => i = j
      BY <3>12, <3>13, <3>14
    <3> QED
      BY <3>9, <3>16, <3>17
  <2> QED
    BY <2>1, <2>2
<1> QED
  BY <1>1, <1>6, <1>7, <1>8, <1>9 DEF EndsInOrder

(* One INSERT, UPDATE or DELETE.                                           *)
LEMMA WriteRowOrder ==
    ASSUME GroupsInv, OrderTxInv', NEW p \in Procs, WriteRow(p)
    PROVE  GroupsInv'
<1>1. UNCHANGED <<db, schedules, op>> /\ Orderly(p) /\ OrderTxInv
  BY DEF WriteRow, GroupsInv
<1>2. CASE IntegrityError(p)
  BY <1>1, <1>2, IntegrityErrorOrder
<1>3. CASE \E w \in Writes : WritesRow(p, w) /\ (\E t : Goto(p, t))
  <2>1. PICK w \in Writes : WritesRow(p, w)
    BY <1>3
  <2>2. PICK t : Goto(p, t)
    BY <1>3
  <2>3. /\ LocksItsGroups(p)' /\ HoldsItsRow(p)' /\ WritesItsLists(p)' /\ ArrivesFirst(p)'
        /\ EndsInOrder(p)'
    BY <2>1, WriteLocks, WriteLists, WriteEnds
  <2>4. tx'[p].pc = "write" /\ tx'[p].fetched = tx[p].fetched
    BY <2>1 DEF WritesRow
  <2>5. ListsRows(p)' /\ Closes(p)' /\ \A g \in Groups : NamedOnce(tx[p].fetched[g])'
    BY <1>1, <2>4 DEF ListsRows, Closes, NamedOnce, Orderly
  <2>6. Orderly(p)'
    BY <2>3, <2>5 DEF Orderly
  <2> QED
    BY <1>1, <2>2, <2>6, QuietStepOrder
<1> QED
  BY <1>1, <1>2, <1>3, WriteRowWrites

-----------------------------------------------------------------------------
(* What a renumbering leaves.                                              *)

(* Later writes of other rows change nothing.                              *)
LEMMA RowAfterOthers ==
    ASSUME NEW a \in Seq(Writes), NEW b \in Seq(Writes), NEW r, NEW i,
           \A k \in DOMAIN b : b[k].item # i
    PROVE  RowAfter(a \o b, r, i) = RowAfter(a, r, i)
<1>1. PICK c : c = a \o b
  OBVIOUS
<1>2. PICK m \in Nat : m = Len(a) /\ DOMAIN a = 1..m
  OBVIOUS
<1>3. /\ c \in Seq(Writes) /\ \A k \in 1..m : k \in DOMAIN c /\ c[k] = a[k]
      /\ \A k \in DOMAIN c : k \in 1..m \/ (k - m \in DOMAIN b /\ c[k] = b[k - m])
  BY <1>1, <1>2
<1>4. \A k \in DOMAIN c : c[k].item = i => k \in 1..m
  BY <1>3
<1>5. CASE \E k \in DOMAIN a : IsLast(a, k, i)
  <2>1. PICK k \in DOMAIN a : IsLast(a, k, i)
    BY <1>5
  <2>2. k \in DOMAIN c /\ c[k] = a[k]
    BY <1>2, <1>3, <2>1
  <2>3. IsLast(c, k, i)
    BY <1>2, <1>3, <1>4, <2>1, <2>2 DEF IsLast
  <2>4. RowAfter(c, r, i) = c[k].row
    BY <1>3, <2>2, <2>3, RowAfterLast
  <2>5. RowAfter(a, r, i) = a[k].row
    BY <2>1, RowAfterLast
  <2> QED
    BY <1>1, <2>2, <2>4, <2>5
<1>6. CASE ~(\E k \in DOMAIN a : IsLast(a, k, i))
  <2>1. \A k \in DOMAIN a : a[k].item # i
    BY <1>6, LastExists
  <2>2. \A k \in DOMAIN c : c[k].item # i
    BY <1>2, <1>3, <1>4, <2>1
  <2>3. RowAfter(a, r, i) = IF i \in DOMAIN r THEN r[i] ELSE NoRow
    BY <2>1, RowAfterNone
  <2>4. RowAfter(c, r, i) = IF i \in DOMAIN r THEN r[i] ELSE NoRow
    BY <2>2, RowAfterNone
  <2> QED
    BY <1>1, <2>3, <2>4
<1> QED
  BY <1>5, <1>6

(* A row that later writes name is what the last of these makes it.        *)
LEMMA RowAfterLater ==
    ASSUME NEW a \in Seq(Writes), NEW b \in Seq(Writes), NEW r, NEW i,
           NEW k \in DOMAIN b, IsLast(b, k, i)
    PROVE  RowAfter(a \o b, r, i) = b[k].row
<1>1. PICK c : c = a \o b
  OBVIOUS
<1>2. PICK m \in Nat : m = Len(a) /\ DOMAIN a = 1..m
  OBVIOUS
<1>3. k \in Nat /\ k >= 1
  OBVIOUS
<1>4. /\ c \in Seq(Writes) /\ m + k \in DOMAIN c /\ c[m + k] = b[k]
      /\ \A n \in DOMAIN c : n > m => n - m \in DOMAIN b /\ c[n] = b[n - m] /\ n \in Nat
  BY <1>1, <1>2, <1>3
<1>5. IsLast(c, m + k, i)
  <2>1. ASSUME NEW n \in DOMAIN c, n > m + k PROVE c[n].item # i
    <3>1. n \in Nat
      BY <1>4
    <3>2. n > m /\ n - m > k
      BY <1>3, <2>1, <3>1
    <3> QED
      BY <1>4, <3>2 DEF IsLast
  <2> QED
    BY <1>4, <2>1 DEF IsLast
<1>6. RowAfter(c, r, i) = c[m + k].row
  <2>1. PICK n \in DOMAIN c : n = m + k
    BY <1>4
  <2>2. IsLast(c, n, i)
    BY <1>5, <2>1
  <2>3. RowAfter(c, r, i) = c[n].row
    BY <1>4, <2>2, RowAfterLast
  <2> QED
    BY <2>1, <2>3
<1> QED
  BY <1>1, <1>4, <1>6

(* Each row that is not at its index is brought there, the others are left.*)
LEMMA RenumberingMoves ==
    ASSUME NEW items \in Seq(Entries), NEW g \in Groups
    PROVE  \A n \in DOMAIN Renumbering(items, g) :
              /\ \E k \in DOMAIN items : /\ Renumbering(items, g)[n].item = items[k].item
                                         /\ items[k].position # k
              /\ Renumbering(items, g)[n].row # NoRow /\ Renumbering(items, g)[n].row.group = g
<1>1. PICK W : W = Renumbering(items, g)
  OBVIOUS
<1>2. PICK m \in Nat, base \in Nat, pending \in Seq(Nat) :
              /\ Lists(pending, {k \in DOMAIN items : items[k].position # k}, m)
              /\ W \in Seq([item : Items, row : Rows]) /\ Len(W) = 2 * m
              /\ \A n \in 1..m :
                    /\ W[n] = Write(items[pending[n]].item, g, base + n - 1)
                    /\ W[m + n] = Write(items[pending[n]].item, g, pending[n])
  BY <1>1, RenumberingShape
<1>3. \A n \in 1..m : pending[n] \in DOMAIN items /\ items[pending[n]].position # pending[n]
  BY <1>2 DEF Lists
<1>4. \A n \in DOMAIN W : W[n].row # NoRow
  BY <1>1, RenumberingWrites
<1>5. ASSUME NEW k \in DOMAIN W
      PROVE  /\ \E j \in DOMAIN items : W[k].item = items[j].item /\ items[j].position # j
             /\ W[k].row.group = g
  <2>1. PICK n \in 1..m : k = n \/ k = m + n
    <3>1. k \in 1..(2 * m)
      BY <1>2
    <3>2. CASE k <= m
      BY <3>1, <3>2
    <3>3. CASE k > m
      <4>1. k - m \in 1..m /\ k = m + (k - m)
        BY <3>1, <3>3
      <4> QED
        BY <4>1
    <3> QED
      BY <3>1, <3>2, <3>3
  <2>2. \E x : W[k] = Write(items[pending[n]].item, g, x)
    BY <1>2, <2>1
  <2>3. W[k].item = items[pending[n]].item /\ W[k].row.group = g
    BY <2>2 DEF Write
  <2> QED
    BY <1>3, <2>3
<1> QED
  BY <1>1, <1>4, <1>5

(* A renumbering leaves every listed row at its index.                     *)
LEMMA RenumberingEnds ==
    ASSUME NEW items \in Seq(Entries), NamedOnce(items), NEW g \in Groups,
           NEW a \in Seq(Writes), NEW r, NEW k \in DOMAIN items,
           RowAfter(a, r, items[k].item) = [group |-> g, position |-> items[k].position]
    PROVE  RowAfter(a \o Renumbering(items, g), r, items[k].item) = [group |-> g, position |-> k]
<1>1. PICK W : W = Renumbering(items, g)
  OBVIOUS
<1>2. PICK m \in Nat, base \in Nat, pending \in Seq(Nat) :
              /\ Lists(pending, {n \in DOMAIN items : items[n].position # n}, m)
              /\ W \in Seq([item : Items, row : Rows]) /\ Len(W) = 2 * m
              /\ \A n \in 1..m :
                    /\ W[n] = Write(items[pending[n]].item, g, base + n - 1)
                    /\ W[m + n] = Write(items[pending[n]].item, g, pending[n])
  BY <1>1, RenumberingShape
<1>3. W \in Seq(Writes)
  BY <1>1, RenumberingWrites
<1>4. /\ \A n \in 1..m : pending[n] \in DOMAIN items
      /\ \A n, l \in 1..m : pending[n] = pending[l] => n = l
      /\ \A j \in DOMAIN items : items[j].position # j => \E n \in 1..m : pending[n] = j
  BY <1>2 DEF Lists
<1>5. DOMAIN W = 1..(2 * m)
  BY <1>2
<1>6. CASE items[k].position = k
  <2>1. \A n \in DOMAIN W : \E j \in DOMAIN items : W[n].item = items[j].item /\ items[j].position # j
    BY <1>1, RenumberingMoves
  <2>2. \A n \in DOMAIN W : W[n].item # items[k].item
    BY <1>6, <2>1 DEF NamedOnce
  <2>3. RowAfter(a \o W, r, items[k].item) = RowAfter(a, r, items[k].item)
    BY <1>3, <2>2, RowAfterOthers
  <2> QED
    BY <1>1, <1>6, <2>3
<1>7. CASE items[k].position # k
  <2>1. PICK n \in 1..m : pending[n] = k
    BY <1>4, <1>7
  <2>2. m + n \in DOMAIN W /\ W[m + n] = Write(items[k].item, g, k)
    BY <1>2, <1>5, <2>1
  <2>3. ASSUME NEW x \in DOMAIN W, x > m + n PROVE W[x].item # items[k].item
    <3>1. PICK l \in 1..m : x = m + l /\ l # n
      <4>1. x \in Int /\ x <= 2 * m
        BY <1>5
      <4>2. x - m \in 1..m /\ x = m + (x - m) /\ x - m # n
        BY <2>3, <4>1
      <4> QED
        BY <4>2
    <3>2. W[x].item = items[pending[l]].item
      <4>1. W[x] = Write(items[pending[l]].item, g, pending[l])
        BY <1>2, <3>1
      <4> QED
        BY <4>1 DEF Write
    <3>3. pending[l] # k /\ pending[l] \in DOMAIN items
      BY <1>4, <2>1, <3>1
    <3> QED
      BY <3>2, <3>3 DEF NamedOnce
  <2>4. IsLast(W, m + n, items[k].item)
    BY <2>2, <2>3 DEF IsLast, Write
  <2>5. RowAfter(a \o W, r, items[k].item) = W[m + n].row
    BY <1>3, <2>2, <2>4, RowAfterLater
  <2> QED
    BY <1>1, <2>2, <2>5 DEF Write
<1> QED
  BY <1>6, <1>7


-----------------------------------------------------------------------------
(* The lists that are renumbered.                                          *)

LEMMA WithoutNames ==
    ASSUME NEW items \in Seq(Entries), NamedOnce(items), NEW i
    PROVE  /\ Without(items, i) \in Seq(Entries)
           /\ NamedOnce(Without(items, i))
           /\ Names(Without(items, i)) = Names(items) \ {i}
           /\ i \notin Names(items) => Len(Without(items, i)) = Len(items)
           /\ \A k \in DOMAIN Without(items, i) :
                 /\ Without(items, i)[k].item # i
                 /\ \E j \in DOMAIN items : Without(items, i)[k] = items[j]
<1>1. PICK W : W = Without(items, i)
  OBVIOUS
<1>2. PICK n \in Nat, kept \in Seq(Nat) :
              /\ Lists(kept, Others(items, i), n)
              /\ W \in Seq(Entries) /\ Len(W) = n
              /\ \A k \in 1..n : W[k] = items[kept[k]]
  BY <1>1, WithoutShape
<1>3. /\ \A k \in 1..n : kept[k] \in DOMAIN items /\ items[kept[k]].item # i
      /\ \A k, m \in 1..n : kept[k] = kept[m] => k = m
      /\ \A j \in DOMAIN items : items[j].item # i => \E k \in 1..n : kept[k] = j
  BY <1>2 DEF Lists, Others
<1>4. DOMAIN W = 1..n
  BY <1>2
<1>5. NamedOnce(W)
  <2>1. SUFFICES ASSUME NEW k \in 1..n, NEW m \in 1..n, W[k].item = W[m].item PROVE k = m
    BY <1>4 DEF NamedOnce
  <2>2. items[kept[k]].item = items[kept[m]].item /\ kept[k] \in DOMAIN items /\ kept[m] \in DOMAIN items
    BY <1>2, <1>3, <2>1
  <2>3. kept[k] = kept[m]
    BY <2>2 DEF NamedOnce
  <2> QED
    BY <1>3, <2>3
<1>6. Names(W) = Names(items) \ {i}
  <2>1. ASSUME NEW x \in Names(W) PROVE x \in Names(items) \ {i}
    BY <1>2, <1>3, <1>4, <2>1 DEF Names
  <2>2. ASSUME NEW x \in Names(items), x # i PROVE x \in Names(W)
    <3>1. PICK j \in DOMAIN items : x = items[j].item
      BY <2>2 DEF Names
    <3>2. PICK k \in 1..n : kept[k] = j
      BY <1>3, <2>2, <3>1
    <3> QED
      BY <1>2, <1>4, <3>1, <3>2 DEF Names
  <2> QED
    BY <2>1, <2>2
<1>7. i \notin Names(items) => Len(W) = Len(items)
  <2>1. Cardinality(Names(W)) = Len(W) /\ Cardinality(Names(items)) = Len(items)
    BY <1>2, <1>5, NamesCardinality
  <2>2. i \notin Names(items) => Names(W) = Names(items)
    BY <1>6
  <2> QED
    BY <2>1, <2>2
<1>8. \A k \in DOMAIN W : W[k].item # i /\ \E j \in DOMAIN items : W[k] = items[j]
  BY <1>1, WithoutEntries
<1> QED
  BY <1>1, <1>2, <1>5, <1>6, <1>7, <1>8

(* An insertion at an index of the list.                                   *)
LEMMA InsertItemNames ==
    ASSUME NEW items \in Seq(Entries), NamedOnce(items), NEW e \in Entries,
           e.item \notin Names(items), NEW k \in 1..(Len(items) + 1)
    PROVE  LET q == InsertItem(items, k, e)
           IN  /\ q \in Seq(Entries) /\ Len(q) = Len(items) + 1
               /\ NamedOnce(q) /\ Names(q) = Names(items) \cup {e.item}
               /\ k \in DOMAIN q /\ q[k] = e
               /\ \A m \in DOMAIN q : q[m] = e \/ \E j \in DOMAIN items : q[m] = items[j]
<1>1. PICK n \in Nat : n = Len(items) /\ DOMAIN items = 1..n
  OBVIOUS
<1>2. PICK q : q = InsertItem(items, k, e)
  OBVIOUS
<1>3. /\ q \in Seq(Entries) /\ Len(q) = n + 1
      /\ \A m \in DOMAIN q : q[m] = e \/ \E j \in DOMAIN items : q[m] = items[j]
  BY <1>1, <1>2, InsertItemEntries
<1>4. q = [m \in 1..(n + 1) |->
             IF m < k THEN items[m] ELSE IF m = k THEN e ELSE items[m - 1]]
  BY <1>1, <1>2 DEF InsertItem
<1>5. k \in 1..(n + 1) /\ DOMAIN q = 1..(n + 1) /\ q[k] = e
  BY <1>1, <1>4
<1>6. \A m \in 1..(n + 1) : m < k => m \in 1..n /\ q[m] = items[m]
  BY <1>4, <1>5
<1>7. \A m \in 1..(n + 1) : m > k => m - 1 \in 1..n /\ q[m] = items[m - 1]
  BY <1>4, <1>5
<1>8. \A m \in 1..n : items[m].item # e.item
  BY <1>1 DEF Names
<1>9. NamedOnce(q)
  <2>1. SUFFICES ASSUME NEW x \in 1..(n + 1), NEW y \in 1..(n + 1), q[x].item = q[y].item
                 PROVE  x = y
    BY <1>5 DEF NamedOnce
  <2>2. \A a, b \in 1..n : items[a].item = items[b].item => a = b
    BY <1>1 DEF NamedOnce
  <2>3. x \in Int /\ y \in Int /\ k \in Int
    BY <1>5
  <2>4. CASE x = k \/ y = k
    BY <1>5, <1>6, <1>7, <1>8, <2>1, <2>3, <2>4
  <2>5. CASE x < k /\ y < k
    BY <1>6, <2>1, <2>2, <2>5
  <2>6. CASE x > k /\ y > k
    <3>1. x - 1 = y - 1
      BY <1>7, <2>1, <2>2, <2>6
    <3> QED
      BY <2>3, <3>1
  <2>7. CASE x < k /\ y > k
    <3>1. x = y - 1
      BY <1>6, <1>7, <2>1, <2>2, <2>7
    <3> QED
      BY <2>3, <2>7, <3>1
  <2>8. CASE x > k /\ y < k
    <3>1. x - 1 = y
      BY <1>6, <1>7, <2>1, <2>2, <2>8
    <3> QED
      BY <2>3, <2>8, <3>1
  <2> QED
    BY <2>3, <2>4, <2>5, <2>6, <2>7, <2>8
<1>10. Names(q) = Names(items) \cup {e.item}
  <2>1. ASSUME NEW x \in Names(q) PROVE x \in Names(items) \cup {e.item}
    BY <1>3, <2>1 DEF Names
  <2>2. ASSUME NEW m \in 1..n PROVE items[m].item \in Names(q)
    <3>1. CASE m < k
      <4>1. m \in DOMAIN q /\ q[m] = items[m]
        BY <1>5, <1>6, <3>1
      <4> QED
        BY <4>1 DEF Names
    <3>2. CASE m >= k
      <4>1. m + 1 \in 1..(n + 1) /\ m + 1 > k /\ (m + 1) - 1 = m
        BY <1>5, <3>2
      <4>2. m + 1 \in DOMAIN q /\ q[m + 1] = items[m]
        BY <1>5, <1>7, <4>1
      <4> QED
        BY <4>2 DEF Names
    <3> QED
      BY <1>5, <3>1, <3>2
  <2>3. e.item \in Names(q)
    BY <1>5 DEF Names
  <2> QED
    BY <1>1, <2>1, <2>2, <2>3 DEF Names
<1> QED
  BY <1>1, <1>2, <1>3, <1>5, <1>9, <1>10

(* An entry at the end of the list.                                        *)
LEMMA AppendNames ==
    ASSUME NEW items \in Seq(Entries), NamedOnce(items), NEW e \in Entries,
           e.item \notin Names(items)
    PROVE  LET q == Append(items, e)
           IN  /\ q \in Seq(Entries)
               /\ NamedOnce(q) /\ Names(q) = Names(items) \cup {e.item}
               /\ \A m \in DOMAIN q : \/ m = Len(items) + 1 /\ q[m] = e
                                      \/ m \in DOMAIN items /\ q[m] = items[m]
<1>1. PICK n \in Nat : n = Len(items) /\ DOMAIN items = 1..n
  OBVIOUS
<1>2. PICK q : q = Append(items, e)
  OBVIOUS
<1>3. /\ q \in Seq(Entries) /\ DOMAIN q = 1..(n + 1) /\ q[n + 1] = e
      /\ \A m \in 1..n : q[m] = items[m]
  BY <1>1, <1>2
<1>4. \A m \in 1..(n + 1) : m \in 1..n \/ m = n + 1
  OBVIOUS
<1>5. \A m \in 1..n : items[m].item # e.item /\ m \in 1..(n + 1)
  BY <1>1 DEF Names
<1>6. NamedOnce(q)
  <2>1. \A a, b \in 1..n : items[a].item = items[b].item => a = b
    BY <1>1 DEF NamedOnce
  <2> QED
    BY <1>3, <1>4, <1>5, <2>1 DEF NamedOnce
<1>7. Names(q) = Names(items) \cup {e.item}
  <2>1. ASSUME NEW x \in Names(q) PROVE x \in Names(items) \cup {e.item}
    BY <1>1, <1>3, <1>4, <2>1 DEF Names
  <2>2. ASSUME NEW x \in Names(items) \cup {e.item} PROVE x \in Names(q)
    <3>1. n + 1 \in 1..(n + 1)
      OBVIOUS
    <3> QED
      BY <1>1, <1>3, <1>5, <2>2, <3>1 DEF Names
  <2> QED
    BY <2>1, <2>2
<1> QED
  BY <1>1, <1>2, <1>3, <1>4, <1>6, <1>7

(* The rows of a list end at its indexes.                                  *)
InOrderAfter(ws, r, M, g) ==
    /\ \A i \in M : /\ RowAfter(ws, r, i) # NoRow /\ RowAfter(ws, r, i).group = g
                    /\ RowAfter(ws, r, i).position \in 1..Cardinality(M)
    /\ \A i, j \in M : RowAfter(ws, r, i).position = RowAfter(ws, r, j).position => i = j

(* Rows at the indexes of a list are in order.                             *)
LEMMA ListEndsInOrder ==
    ASSUME NEW items \in Seq(Entries), NamedOnce(items), NEW g \in Groups, NEW ws, NEW r,
           \A k \in DOMAIN items : RowAfter(ws, r, items[k].item) = [group |-> g, position |-> k]
    PROVE  InOrderAfter(ws, r, Names(items), g)
<1>1. PICK n \in Nat : n = Len(items) /\ DOMAIN items = 1..n
  OBVIOUS
<1>2. PICK M : M = Names(items)
  OBVIOUS
<1>3. Cardinality(M) = n
  BY <1>1, <1>2, NamesCardinality
<1>4. \A i \in M : \E k \in 1..n : i = items[k].item
  BY <1>1, <1>2 DEF Names
<1>5. ASSUME NEW i \in M
      PROVE  \E k \in 1..n : /\ i = items[k].item /\ RowAfter(ws, r, i).position = k
                             /\ RowAfter(ws, r, i).group = g /\ RowAfter(ws, r, i) # NoRow
  <2>1. PICK k \in 1..n : i = items[k].item
    BY <1>4
  <2>2. PICK row : row = [group |-> g, position |-> k]
    OBVIOUS
  <2>3. row.group = g /\ row.position = k /\ row \in Rows
    BY <2>2 DEF Rows
  <2>4. RowAfter(ws, r, i) = row
    BY <1>1, <2>1, <2>2
  <2> QED
    BY <2>1, <2>3, <2>4, RowType
<1> QED
  BY <1>2, <1>3, <1>5 DEF InOrderAfter

(* A list of different rows of a group, with their positions after writes. *)
Tracks(items, g, a, r) ==
    /\ items \in Seq(Entries) /\ NamedOnce(items)
    /\ \A k \in DOMAIN items :
          RowAfter(a, r, items[k].item) = [group |-> g, position |-> items[k].position]

(* Its renumbering after them leaves the rows at their indexes.            *)
LEMMA RenumberingOrders ==
    ASSUME NEW items, NEW g \in Groups, NEW a \in Seq(Writes), NEW r, Tracks(items, g, a, r)
    PROVE  LET W == a \o Renumbering(items, g)
           IN  /\ InOrderAfter(W, r, Names(items), g)
               /\ \A k \in DOMAIN items :
                     RowAfter(W, r, items[k].item) = [group |-> g, position |-> k]
<1>1. PICK W : W = a \o Renumbering(items, g)
  OBVIOUS
<1>4. items \in Seq(Entries) /\ NamedOnce(items)
  BY DEF Tracks
<1>2. \A k \in DOMAIN items : RowAfter(W, r, items[k].item) = [group |-> g, position |-> k]
  <2>1. SUFFICES ASSUME NEW k \in DOMAIN items
                 PROVE  RowAfter(W, r, items[k].item) = [group |-> g, position |-> k]
    OBVIOUS
  <2>2. RowAfter(a, r, items[k].item) = [group |-> g, position |-> items[k].position]
    BY DEF Tracks
  <2>3. RowAfter(a \o Renumbering(items, g), r, items[k].item) = [group |-> g, position |-> k]
    BY <1>4, <2>2, RenumberingEnds
  <2> QED
    BY <1>1, <2>3
<1>3. InOrderAfter(W, r, Names(items), g)
  BY <1>2, <1>4, ListEndsInOrder
<1> QED
  BY <1>1, <1>2, <1>3

(* A list that tells the rows of a table.                                  *)
TrueList(L, g, r) ==
    \A k \in DOMAIN L : /\ L[k].item \in DOMAIN r
                        /\ r[L[k].item] = [group |-> g, position |-> L[k].position]

RenumbersList(W, L, g) ==
    \A k \in DOMAIN W : W[k].item \in Names(L) /\ W[k].row # NoRow /\ W[k].row.group = g

(* A renumbering writes listed rows, in their group.                       *)
LEMMA RenumberingRenumbers ==
    ASSUME NEW items \in Seq(Entries), NEW g \in Groups
    PROVE  /\ Renumbering(items, g) \in Seq(Writes)
           /\ RenumbersList(Renumbering(items, g), items, g)
<1>1. \A n \in DOMAIN Renumbering(items, g) :
              /\ \E k \in DOMAIN items : /\ Renumbering(items, g)[n].item = items[k].item
                                         /\ items[k].position # k
              /\ Renumbering(items, g)[n].row # NoRow /\ Renumbering(items, g)[n].row.group = g
  BY RenumberingMoves
<1>2. Renumbering(items, g) \in Seq(Writes)
  BY RenumberingWrites
<1> QED
  BY <1>1, <1>2 DEF RenumbersList, Names

(* The other rows of a list, after a write of i's row.                     *)
LEMMA OthersAfterWrite ==
    ASSUME NEW L \in Seq(Entries), NamedOnce(L), NEW g \in Groups, NEW i, NEW r, TrueList(L, g, r),
           NEW a \in Seq(Writes), \A m \in DOMAIN a : a[m].item = i,
           NEW items, items = Without(L, i)
    PROVE  Tracks(items, g, a, r) /\ Names(items) = Names(L) \ {i}
<1>1. /\ items \in Seq(Entries) /\ NamedOnce(items) /\ Names(items) = Names(L) \ {i}
      /\ \A k \in DOMAIN items : items[k].item # i /\ \E j \in DOMAIN L : items[k] = L[j]
  BY WithoutNames
<1>3. ASSUME NEW k \in DOMAIN items
      PROVE  RowAfter(a, r, items[k].item) = [group |-> g, position |-> items[k].position]
  <2>1. PICK j \in DOMAIN L : items[k] = L[j]
    BY <1>1
  <2>2. items[k].item \in DOMAIN r /\ r[items[k].item] = [group |-> g, position |-> items[k].position]
    BY <2>1 DEF TrueList
  <2>3. \A m \in DOMAIN a : a[m].item # items[k].item
    BY <1>1
  <2> QED
    BY <2>2, <2>3, RowAfterNone
<1> QED
  BY <1>1, <1>3 DEF Tracks

(* What the statements of a removal, and of a move to another group, are.  *)
RemovesFrom(W, L, g, i, r) ==
    /\ W \in Seq(Writes) /\ 1 \in DOMAIN W
    /\ W[1].item = i
    /\ \A k \in DOMAIN W :
          k = 1 \/ (/\ W[k].item \in Names(L) \ {i}
                    /\ W[k].row # NoRow /\ W[k].row.group = g)
    /\ InOrderAfter(W, r, Names(L) \ {i}, g)

BringsTo(W, w, L, g, T, h, i, r) ==
    /\ W \in Seq(Writes) /\ 1 \in DOMAIN W /\ W[1] = w
    /\ \A k \in DOMAIN W :
          \/ k = 1
          \/ W[k].item \in Names(L) \ {i} /\ W[k].row # NoRow /\ W[k].row.group = g
          \/ W[k].item \in Names(T) /\ W[k].row # NoRow /\ W[k].row.group = h
    /\ InOrderAfter(W, r, Names(L) \ {i}, g)
    /\ InOrderAfter(W, r, Names(T) \cup {i}, h)

(* The statements of delete_schedule leave the other rows in order.        *)
LEMMA RemovalEnds ==
    ASSUME NEW L \in Seq(Entries), NamedOnce(L), NEW g \in Groups, NEW i \in Items, NEW r,
           TrueList(L, g, r)
    PROVE  RemovesFrom(<<[item |-> i, row |-> NoRow]>> \o Renumbering(Without(L, i), g),
                       L, g, i, r)
<1>1. PICK w : w = [item |-> i, row |-> NoRow]
  OBVIOUS
<1>2. w \in Writes /\ w.item = i
  BY <1>1 DEF Writes
<1>3. PICK a \in Seq(Writes) : a = <<w>>
  <2>1. <<w>> \in Seq(Writes)
    BY <1>2
  <2> QED
    BY <2>1
<1>4. PICK items : items = Without(L, i)
  OBVIOUS
<1>5. Tracks(items, g, a, r) /\ Names(items) = Names(L) \ {i} /\ items \in Seq(Entries)
  <2>1. \A m \in DOMAIN a : a[m].item = i
    BY <1>2, <1>3
  <2>2. Tracks(items, g, a, r) /\ Names(items) = Names(L) \ {i}
    BY <1>4, <2>1, OthersAfterWrite
  <2> QED
    BY <2>2 DEF Tracks
<1>6. PICK A : A = Renumbering(items, g)
  OBVIOUS
<1>7. A \in Seq(Writes) /\ RenumbersList(A, items, g)
  BY <1>5, <1>6, RenumberingRenumbers
<1>8. PICK W : W = a \o A
  OBVIOUS
<1>9. InOrderAfter(W, r, Names(items), g)
  <2>1. InOrderAfter(a \o Renumbering(items, g), r, Names(items), g)
    BY <1>5, RenumberingOrders
  <2> QED
    BY <1>6, <1>8, <2>1
<1>10. /\ W \in Seq(Writes) /\ 1 \in DOMAIN W /\ W[1] = w
       /\ \A k \in DOMAIN W : k = 1 \/ (k - 1 \in DOMAIN A /\ W[k] = A[k - 1])
  BY <1>2, <1>3, <1>7, <1>8
<1>11. \A k \in DOMAIN W :
          k = 1 \/ (W[k].item \in Names(L) \ {i} /\ W[k].row # NoRow /\ W[k].row.group = g)
  BY <1>5, <1>7, <1>10 DEF RenumbersList
<1>12. RemovesFrom(W, L, g, i, r)
  BY <1>2, <1>5, <1>9, <1>10, <1>11 DEF RemovesFrom
<1> QED
  BY <1>1, <1>3, <1>4, <1>6, <1>8, <1>12

(* The statements of a move inside the group put the row at the index.     *)
LEMMA PlacementEnds ==
    ASSUME NEW L \in Seq(Entries), NamedOnce(L), NEW g \in Groups, NEW i \in Names(L), NEW r,
           TrueList(L, g, r), NEW desired \in Int,
           NEW others, others = Without(L, i),
           NEW self, self = [item |-> i, position |-> r[i].position]
    PROVE  LET W == Renumbering(InsertItem(others, Clamp(desired, Len(others) + 1), self), g)
           IN  /\ W \in Seq(Writes)
               /\ RenumbersList(W, L, g)
               /\ InOrderAfter(W, r, Names(L), g)
               /\ RowAfter(W, r, i).position = Clamp(desired, Cardinality(Names(L)))
<1>1. /\ others \in Seq(Entries) /\ NamedOnce(others) /\ Names(others) = Names(L) \ {i}
      /\ \A k \in DOMAIN others : \E j \in DOMAIN L : others[k] = L[j]
  BY WithoutNames
<1>2. PICK n \in Nat : n = Len(others)
  BY <1>1
<1>3. PICK x \in 1..(n + 1) : x = Clamp(desired, n + 1)
  BY DEF Clamp
<1>4. PICK j \in DOMAIN L : i = L[j].item
  BY DEF Names
<1>5. r[i] = [group |-> g, position |-> L[j].position] /\ i \in DOMAIN r
  BY <1>4 DEF TrueList
<1>6. self \in Entries /\ self.item = i /\ r[i] = [group |-> g, position |-> self.position]
  <2>1. L[j].item \in Items /\ L[j].position \in Nat
    BY EntriesOf
  <2>2. r[i].position = L[j].position
    BY <1>5
  <2> QED
    BY <1>4, <1>5, <2>1, <2>2 DEF Entries
<1>7. PICK items : items = InsertItem(others, x, self)
  OBVIOUS
<1>8. /\ items \in Seq(Entries) /\ Len(items) = n + 1
      /\ NamedOnce(items) /\ Names(items) = Names(others) \cup {i}
      /\ x \in DOMAIN items /\ items[x] = self
      /\ \A m \in DOMAIN items : items[m] = self \/ \E k \in DOMAIN others : items[m] = others[k]
  <2>1. /\ others \in Seq(Entries) /\ NamedOnce(others) /\ self \in Entries
        /\ self.item \notin Names(others) /\ x \in 1..(Len(others) + 1)
    BY <1>1, <1>2, <1>6
  <2>2. LET q == InsertItem(others, x, self)
        IN  /\ q \in Seq(Entries) /\ Len(q) = Len(others) + 1
            /\ NamedOnce(q) /\ Names(q) = Names(others) \cup {self.item}
            /\ x \in DOMAIN q /\ q[x] = self
            /\ \A m \in DOMAIN q : q[m] = self \/ \E k \in DOMAIN others : q[m] = others[k]
    BY <2>1, InsertItemNames
  <2> QED
    BY <1>2, <1>6, <1>7, <2>2
<1>9. Names(items) = Names(L)
  BY <1>1, <1>8
<1>10. PICK a \in Seq(Writes) : a = <<>>
  <2>1. <<>> \in Seq(Writes)
    OBVIOUS
  <2> QED
    BY <2>1
<1>11. Tracks(items, g, a, r)
  <2>1. SUFFICES ASSUME NEW k \in DOMAIN items
                 PROVE  RowAfter(a, r, items[k].item) = [group |-> g, position |-> items[k].position]
    BY <1>8 DEF Tracks
  <2>2. items[k].item \in DOMAIN r /\ r[items[k].item] = [group |-> g, position |-> items[k].position]
    BY <1>1, <1>5, <1>6, <1>8 DEF TrueList
  <2>3. \A m \in DOMAIN a : a[m].item # items[k].item
    BY <1>10
  <2> QED
    BY <2>2, <2>3, RowAfterNone
<1>12. PICK W : W = Renumbering(items, g)
  OBVIOUS
<1>13. W \in Seq(Writes) /\ RenumbersList(W, items, g)
  BY <1>8, <1>12, RenumberingRenumbers
<1>14. a \o W = W
  BY <1>10, <1>13, ConcatEmptySeq
<1>15. /\ InOrderAfter(W, r, Names(items), g)
       /\ RowAfter(W, r, items[x].item) = [group |-> g, position |-> x]
  <2>2. LET V == a \o Renumbering(items, g)
        IN  /\ InOrderAfter(V, r, Names(items), g)
            /\ \A k \in DOMAIN items :
                  RowAfter(V, r, items[k].item) = [group |-> g, position |-> k]
    BY <1>11, RenumberingOrders
  <2> QED
    BY <1>8, <1>12, <1>14, <2>2
<1>16. Cardinality(Names(L)) = n + 1
  BY <1>8, <1>9, NamesCardinality
<1>17. RenumbersList(W, L, g)
  BY <1>9, <1>13 DEF RenumbersList
<1>18. RowAfter(W, r, i).position = x
  BY <1>6, <1>8, <1>15
<1> QED
  BY <1>2, <1>3, <1>7, <1>9, <1>12, <1>13, <1>15, <1>16, <1>17, <1>18

(* Writes that agree on the rows agree on their order.                     *)
LEMMA SameInOrder ==
    ASSUME NEW ws, NEW xs, NEW r, NEW M, NEW g, InOrderAfter(xs, r, M, g),
           \A i \in M : RowAfter(ws, r, i) = RowAfter(xs, r, i)
    PROVE  InOrderAfter(ws, r, M, g)
BY DEF InOrderAfter

(* The statements of a move to another group leave both in order.          *)
LEMMA RelocationEnds ==
    ASSUME NEW L \in Seq(Entries), NamedOnce(L), NEW g \in Groups, NEW r, TrueList(L, g, r),
           NEW T \in Seq(Entries), NamedOnce(T), NEW h \in Groups, g # h, TrueList(T, h, r),
           NEW i \in Items, i \notin Names(T), NEW last \in Nat \ {0}, last = Len(T) + 1,
           NEW self, self = [item |-> i, position |-> last]
    PROVE  BringsTo(<<Write(i, h, last)>>
                      \o Renumbering(Without(L, i), g)
                      \o Renumbering(Append(Without(T, i), self), h),
                    Write(i, h, last), L, g, T, h, i, r)
<1>1. PICK w \in Writes : /\ w = Write(i, h, last) /\ w.item = i
                          /\ w.row = [group |-> h, position |-> last]
  BY WriteType
<1>2. PICK a \in Seq(Writes) : a = <<w>>
  <2>1. <<w>> \in Seq(Writes)
    BY <1>1
  <2> QED
    BY <2>1
<1>3. DOMAIN a = {1} /\ a[1] = w /\ \A m \in DOMAIN a : a[m].item = i
  BY <1>1, <1>2
<1>4. PICK left : left = Without(L, i)
  OBVIOUS
<1>5. Tracks(left, g, a, r) /\ Names(left) = Names(L) \ {i}
  BY <1>3, <1>4, OthersAfterWrite
<1>6. left \in Seq(Entries)
  BY <1>5 DEF Tracks
<1>7. PICK A \in Seq(Writes) : A = Renumbering(left, g)
  BY <1>6, RenumberingRenumbers
<1>8. \A k \in DOMAIN A : A[k].item \in Names(L) \ {i} /\ A[k].row # NoRow /\ A[k].row.group = g
  <2>1. RenumbersList(A, left, g)
    BY <1>6, <1>7, RenumberingRenumbers
  <2> QED
    BY <1>5, <2>1 DEF RenumbersList
<1>9. PICK target : target = Without(T, i)
  OBVIOUS
<1>10. Tracks(target, h, a, r) /\ Names(target) = Names(T) \ {i}
  BY <1>3, <1>9, OthersAfterWrite
<1>11. /\ target \in Seq(Entries) /\ NamedOnce(target) /\ Names(target) = Names(T)
       /\ last = Len(target) + 1
  BY <1>9, <1>10, WithoutNames DEF Tracks
<1>12. self \in Entries /\ self.item = i /\ self.position = last
  BY DEF Entries
<1>13. PICK items : items = Append(target, self)
  OBVIOUS
<1>14. /\ items \in Seq(Entries) /\ NamedOnce(items) /\ Names(items) = Names(T) \cup {i}
       /\ \A m \in DOMAIN items : \/ m = last /\ items[m] = self
                                  \/ m \in DOMAIN target /\ items[m] = target[m]
  <2>1. self.item \notin Names(target)
    BY <1>11, <1>12
  <2>2. LET q == Append(target, self)
        IN  /\ q \in Seq(Entries)
            /\ NamedOnce(q) /\ Names(q) = Names(target) \cup {self.item}
            /\ \A m \in DOMAIN q : \/ m = Len(target) + 1 /\ q[m] = self
                                   \/ m \in DOMAIN target /\ q[m] = target[m]
    BY <1>11, <1>12, <2>1, AppendNames
  <2> QED
    BY <1>11, <1>12, <1>13, <2>2
<1>15. PICK B \in Seq(Writes) : B = Renumbering(items, h)
  BY <1>14, RenumberingRenumbers
<1>16. \A k \in DOMAIN B : B[k].item \in Names(T) /\ B[k].row # NoRow /\ B[k].row.group = h
  <2>1. SUFFICES ASSUME NEW k \in DOMAIN B
                 PROVE  B[k].item \in Names(T) /\ B[k].row # NoRow /\ B[k].row.group = h
    OBVIOUS
  <2>2. \A n \in DOMAIN Renumbering(items, h) :
              /\ \E m \in DOMAIN items : /\ Renumbering(items, h)[n].item = items[m].item
                                         /\ items[m].position # m
              /\ Renumbering(items, h)[n].row # NoRow /\ Renumbering(items, h)[n].row.group = h
    BY <1>14, RenumberingMoves
  <2>3. PICK m \in DOMAIN items : B[k].item = items[m].item /\ items[m].position # m
    BY <1>15, <2>2
  <2>4. m \in DOMAIN target /\ items[m] = target[m]
    BY <1>12, <1>14, <2>3
  <2>5. B[k].item \in Names(target)
    BY <2>3, <2>4 DEF Names
  <2> QED
    BY <1>11, <1>15, <2>2, <2>5
<1>17. \A x \in Names(L) : x \notin Names(T)
  <2>1. SUFFICES ASSUME NEW k \in DOMAIN L, NEW m \in DOMAIN T, L[k].item = T[m].item PROVE FALSE
    BY DEF Names
  <2>2. PICK x : x = L[k].item /\ x = T[m].item
    BY <2>1
  <2>3. PICK y : y = [group |-> g, position |-> L[k].position]
    OBVIOUS
  <2>4. PICK z : z = [group |-> h, position |-> T[m].position]
    OBVIOUS
  <2>5. r[x] = y /\ r[x] = z
    BY <2>2, <2>3, <2>4 DEF TrueList
  <2>6. y.group = g /\ z.group = h
    BY <2>3, <2>4
  <2> QED
    BY <2>5, <2>6
<1>18. PICK C \in Seq(Writes) : C = a \o A
  <2>1. a \o A \in Seq(Writes)
    OBVIOUS
  <2> QED
    BY <2>1
<1>19. \A x : x \notin Names(L) \ {i} => RowAfter(C, r, x) = RowAfter(a, r, x)
  <2>1. SUFFICES ASSUME NEW x, x \notin Names(L) \ {i} PROVE RowAfter(C, r, x) = RowAfter(a, r, x)
    OBVIOUS
  <2>2. \A k \in DOMAIN A : A[k].item # x
    BY <1>8, <2>1
  <2>3. RowAfter(a \o A, r, x) = RowAfter(a, r, x)
    BY <2>2, RowAfterOthers
  <2> QED
    BY <1>18, <2>3
<1>20. Tracks(items, h, C, r)
  <2>1. SUFFICES ASSUME NEW k \in DOMAIN items
                 PROVE  RowAfter(C, r, items[k].item) = [group |-> h, position |-> items[k].position]
    BY <1>14 DEF Tracks
  <2>2. CASE k = last /\ items[k] = self
    <3>1. IsLast(a, 1, i)
      BY <1>3 DEF IsLast
    <3>2. PICK one \in DOMAIN a : one = 1
      BY <1>3
    <3>3. RowAfter(a, r, i) = a[one].row
      BY <3>1, <3>2, RowAfterLast
    <3>4. RowAfter(C, r, i) = w.row
      BY <1>3, <1>19, <3>2, <3>3
    <3> QED
      BY <1>1, <1>12, <2>2, <3>4
  <2>3. CASE k \in DOMAIN target /\ items[k] = target[k]
    <3>1. RowAfter(a, r, target[k].item) = [group |-> h, position |-> target[k].position]
      BY <1>10, <2>3 DEF Tracks
    <3>2. target[k].item \in Names(T)
      BY <1>11, <2>3 DEF Names
    <3> QED
      BY <1>17, <1>19, <2>3, <3>1, <3>2
  <2> QED
    BY <1>14, <2>2, <2>3
<1>21. PICK W : W = C \o B
  OBVIOUS
<1>22. InOrderAfter(W, r, Names(T) \cup {i}, h)
  <2>1. InOrderAfter(C \o Renumbering(items, h), r, Names(items), h)
    BY <1>20, RenumberingOrders
  <2> QED
    BY <1>14, <1>15, <1>21, <2>1
<1>23. InOrderAfter(W, r, Names(L) \ {i}, g)
  <2>1. InOrderAfter(a \o Renumbering(left, g), r, Names(left), g)
    BY <1>5, RenumberingOrders
  <2>2. InOrderAfter(C, r, Names(L) \ {i}, g)
    BY <1>5, <1>7, <1>18, <2>1
  <2>3. ASSUME NEW x \in Names(L) \ {i} PROVE RowAfter(W, r, x) = RowAfter(C, r, x)
    <3>1. \A k \in DOMAIN B : B[k].item # x
      BY <1>16, <1>17
    <3>2. RowAfter(C \o B, r, x) = RowAfter(C, r, x)
      BY <3>1, RowAfterOthers
    <3> QED
      BY <1>21, <3>2
  <2> QED
    BY <2>2, <2>3, SameInOrder
<1>24. /\ C \in Seq(Writes) /\ 1 \in DOMAIN C /\ C[1] = w
       /\ \A k \in DOMAIN C : k = 1 \/ (k - 1 \in DOMAIN A /\ C[k] = A[k - 1])
  BY <1>1, <1>2, <1>18
<1>25. /\ W \in Seq(Writes) /\ 1 \in DOMAIN W /\ W[1] = w
       /\ \A k \in DOMAIN W : \/ k \in DOMAIN C /\ W[k] = C[k]
                              \/ k - Len(C) \in DOMAIN B /\ W[k] = B[k - Len(C)]
  BY <1>21, <1>24
<1>26. \A k \in DOMAIN W :
           \/ k = 1
           \/ W[k].item \in Names(L) \ {i} /\ W[k].row # NoRow /\ W[k].row.group = g
           \/ W[k].item \in Names(T) /\ W[k].row # NoRow /\ W[k].row.group = h
  <2>1. SUFFICES ASSUME NEW k \in DOMAIN W, k # 1
                 PROVE  \/ W[k].item \in Names(L) \ {i} /\ W[k].row # NoRow /\ W[k].row.group = g
                        \/ W[k].item \in Names(T) /\ W[k].row # NoRow /\ W[k].row.group = h
    OBVIOUS
  <2>2. CASE k \in DOMAIN C /\ W[k] = C[k]
    <3>1. PICK m \in DOMAIN A : C[k] = A[m]
      BY <1>24, <2>1, <2>2
    <3> QED
      BY <1>8, <2>2, <3>1
  <2>3. CASE k - Len(C) \in DOMAIN B /\ W[k] = B[k - Len(C)]
    <3>1. PICK m \in DOMAIN B : W[k] = B[m]
      BY <2>3
    <3> QED
      BY <1>16, <3>1
  <2> QED
    BY <1>25, <2>2, <2>3
<1>27. W = <<Write(i, h, last)>>
             \o Renumbering(Without(L, i), g)
             \o Renumbering(Append(Without(T, i), self), h)
  BY <1>1, <1>2, <1>4, <1>7, <1>9, <1>13, <1>15, <1>18, <1>21
<1>28. BringsTo(W, w, L, g, T, h, i, r)
  BY <1>22, <1>23, <1>25, <1>26 DEF BringsTo
<1> QED
  BY <1>1, <1>27, <1>28

-----------------------------------------------------------------------------
(* The statements of an operation.                                         *)

AllFetched(p) == tx[p].pc = "fetch" /\ tx[p].groups = <<>>

(* When all is fetched, the lists tell what p sees, and that of its own    *)
(* row's group is complete.                                                *)
LEMMA ListsComplete ==
    ASSUME GroupsInv, NEW p \in Procs, AllFetched(p)
    PROVE  /\ \A g \in Renumbers(p) :
                 /\ g \in Groups /\ tx[p].fetched[g] \in Seq(Entries) /\ NamedOnce(tx[p].fetched[g])
                 /\ TrueList(tx[p].fetched[g], g, View(p))
                 /\ Listed(p, g) \subseteq Siblings(View(p), g)
           /\ tx[p].own # NoRow =>
                 /\ tx[p].own \in Rows /\ tx[p].own.group \in Renumbers(p)
                 /\ Item(p) \in DOMAIN View(p) /\ View(p)[Item(p)] = tx[p].own
                 /\ Item(p) \in Listed(p, tx[p].own.group)
                 /\ Siblings(View(p), tx[p].own.group) \subseteq Listed(p, tx[p].own.group)
                 /\ tx[p].own.group # op[p].group /\ op[p].group \in Renumbers(p) =>
                       Item(p) \notin Listed(p, op[p].group)
           /\ tx[p].placing => /\ tx[p].own # NoRow /\ tx[p].own.group = op[p].group
                               /\ op[p].kind = "place"
           /\ ~tx[p].placing => tx[p].work = EmptyTable /\ ~Wrote(p)
           /\ op[p].kind = "remove" => tx[p].own # NoRow
           /\ op[p].kind # "remove" => op[p].group \in Renumbers(p)
           /\ Item(p) \in Items /\ op[p].group \in Groups
<1>1. /\ TypeOK /\ Sound(p) /\ WorksOnItsRows(p) /\ RemovesItsRow(p) /\ ListsRows(p)
      /\ HoldsItsRow(p) /\ \A g \in Groups : NamedOnce(tx[p].fetched[g])
      /\ tx[p].pc = "fetch"
  BY DEF GroupsInv, OrderTxInv, Sound, Orderly, AllFetched
<1>2. Renumbers(p) \subseteq Groups
  BY DEF Renumbers
<1>3. ASSUME NEW g \in Renumbers(p)
      PROVE  /\ tx[p].fetched[g] \in Seq(Entries)
             /\ TrueList(tx[p].fetched[g], g, View(p))
             /\ Listed(p, g) \subseteq Siblings(View(p), g)
  <2>1. \A k \in DOMAIN tx[p].fetched[g] : Tells(p, g, tx[p].fetched[g][k])
    BY <1>1 DEF ListsRows
  <2>2. \A k \in DOMAIN tx[p].fetched[g] : tx[p].fetched[g][k].item \in Siblings(View(p), g)
    <3>1. SUFFICES ASSUME NEW k \in DOMAIN tx[p].fetched[g]
                   PROVE  tx[p].fetched[g][k].item \in Siblings(View(p), g)
      OBVIOUS
    <3>2. PICK j : j = tx[p].fetched[g][k].item
      OBVIOUS
    <3>3. PICK row : row = [group |-> g, position |-> tx[p].fetched[g][k].position]
      OBVIOUS
    <3>4. j \in DOMAIN View(p) /\ View(p)[j] = row
      BY <2>1, <3>1, <3>2, <3>3 DEF Tells
    <3>5. row.group = g
      BY <3>3
    <3> QED
      BY <3>2, <3>4, <3>5 DEF Siblings
  <2>3. tx[p].fetched[g] \in Seq(Entries)
    BY <1>1, <1>2, FetchedEntries
  <2>4. TrueList(tx[p].fetched[g], g, View(p))
    BY <2>1 DEF TrueList, Tells
  <2> QED
    BY <2>2, <2>3, <2>4 DEF Listed, Names
<1>4. ASSUME tx[p].own # NoRow
      PROVE  /\ tx[p].own \in Rows /\ tx[p].own.group \in Renumbers(p)
             /\ Item(p) \in DOMAIN View(p) /\ View(p)[Item(p)] = tx[p].own
             /\ Item(p) \in Listed(p, tx[p].own.group)
             /\ Siblings(View(p), tx[p].own.group) \subseteq Listed(p, tx[p].own.group)
             /\ tx[p].own.group # op[p].group /\ op[p].group \in Renumbers(p) =>
                   Item(p) \notin Listed(p, op[p].group)
  <2>1. tx[p].own \in Rows
    BY <1>1, <1>4 DEF TypeOK, Transactions
  <2>2. PICK g \in Groups : g = tx[p].own.group
    BY <2>1, RowType
  <2>3. g \in Renumbers(p)
    BY <1>4, <2>2 DEF Renumbers
  <2>4. Item(p) \in DOMAIN View(p) /\ View(p)[Item(p)] = tx[p].own
    BY <1>1, <1>4 DEF ListsRows
  <2>5. Siblings(View(p), g) \subseteq Listed(p, g)
    <3>4. tx[p].groups = <<>>
      BY DEF AllFetched
    <3>1. DOMAIN tx[p].groups = {}
      BY <3>4
    <3>2. Remaining(p) = {} /\ Waiting(p, g) = {}
      BY <1>1, <3>1 DEF Remaining, Waiting
    <3>3. \/ \E k \in Remaining(p) : tx[p].groups[k] = g
          \/ Siblings(View(p), g) \subseteq Listed(p, g) \cup Waiting(p, g)
      BY <1>1, <1>4, <2>2 DEF ListsRows
    <3> QED
      BY <3>2, <3>3
  <2>6. Item(p) \in Siblings(View(p), g)
    BY <2>2, <2>4 DEF Siblings
  <2>7. op[p].group # g /\ op[p].group \in Renumbers(p) => Item(p) \notin Listed(p, op[p].group)
    BY <1>3, <2>6 DEF Siblings
  <2> QED
    BY <2>1, <2>2, <2>3, <2>4, <2>5, <2>6, <2>7
<1>5. tx[p].placing => /\ tx[p].own # NoRow /\ tx[p].own.group = op[p].group
                       /\ op[p].kind = "place"
  BY <1>1, Course DEF HoldsItsRow
<1>6. ~tx[p].placing => tx[p].work = EmptyTable /\ ~Wrote(p)
  <2>1. DOMAIN EmptyTable = {}
    BY DEF EmptyTable
  <2> QED
    BY <1>1, <2>1, Course DEF Wrote
<1>7. op[p].kind = "remove" => tx[p].own # NoRow
  BY <1>1 DEF RemovesItsRow
<1>8. Item(p) \in Items /\ op[p].group \in Groups
  BY <1>1, OpType
<1>9. op[p].kind # "remove" => op[p].group \in Renumbers(p)
  BY <1>8 DEF Renumbers
<1> QED
  BY <1>1, <1>2, <1>3, <1>4, <1>5, <1>6, <1>7, <1>8, <1>9

(* What the statements W of p are to be.                                   *)
Computed(p, W) ==
    /\ W \in Seq(Writes)
    /\ \A k \in DOMAIN W :
          IF Moves(p) /\ W[k].item = Item(p) THEN k = 1 /\ ~Wrote(p)
          ELSE \E g \in Renumbers(p) :
                  W[k].item \in Listed(p, g) /\ W[k].row # NoRow /\ W[k].row.group = g
    /\ Arrives(p) => /\ W # <<>> /\ W[1] = Arrival(p)
                     /\ tx[p].own = NoRow => Len(W) = 1
    /\ tx[p].own # NoRow =>
          \A g \in Renumbers(p) : InOrderAfter(W, View(p), Members(p, g), g)
    /\ tx[p].placing =>
          RowAfter(W, View(p), Item(p)).position =
              Clamp(op[p].position, Cardinality(Members(p, op[p].group)))

Creates(p) == op[p].kind # "remove" /\ tx[p].own = NoRow

Deletes(p) == op[p].kind = "remove"

Relocates(p) ==
    op[p].kind # "remove" /\ tx[p].own # NoRow /\ tx[p].own.group # op[p].group

(* The statements of a creation.                                           *)
LEMMA CreationComputed ==
    ASSUME GroupsInv, NEW p \in Procs, AllFetched(p), Creates(p)
    PROVE  Computed(p, Creation(p))
<1>1. PICK h \in Groups : h = op[p].group
  BY ListsComplete
<1>2. /\ h \in Renumbers(p) /\ tx[p].fetched[h] \in Seq(Entries) /\ Item(p) \in Items
      /\ ~tx[p].placing /\ ~Wrote(p)
  BY <1>1, ListsComplete DEF Creates
<1>3. PICK last \in Nat \ {0} : last = Len(tx[p].fetched[h]) + 1
  BY <1>2, EntriesOf
<1>4. PICK i \in Items : i = Item(p)
  BY <1>2
<1>5. PICK w \in Writes : w = Write(i, h, last) /\ w.item = i
  <2>1. Write(i, h, last) \in Writes
    BY WriteType
  <2>2. Write(i, h, last).item = i
    BY DEF Write
  <2> QED
    BY <2>1, <2>2
<1>6. Creation(p) = <<w>> /\ w = Arrival(p)
  BY <1>1, <1>3, <1>4, <1>5 DEF Creation, Arrival
<1>7. /\ <<w>> \in Seq(Writes) /\ DOMAIN <<w>> = {1} /\ <<w>>[1] = w /\ Len(<<w>>) = 1
      /\ <<w>> # <<>>
  BY <1>5
<1>8. Moves(p)
  BY <1>2 DEF Moves, Arrives, Creates
<1> QED
  BY <1>2, <1>4, <1>5, <1>6, <1>7, <1>8 DEF Computed, Creates

(* The statements of a removal.                                            *)
LEMMA RemovalComputed ==
    ASSUME GroupsInv, NEW p \in Procs, AllFetched(p), Deletes(p)
    PROVE  Computed(p, Removal(p, tx[p].own))
<1>1. PICK row \in Rows : row = tx[p].own /\ row # NoRow
  BY ListsComplete DEF Deletes
<1>2. PICK g \in Groups : g = row.group
  BY RowType
<1>3. PICK i \in Items : i = Item(p)
  BY ListsComplete
<1>4. ~tx[p].placing /\ ~Wrote(p)
  <2>1. tx[p].placing => op[p].kind = "place"
    BY ListsComplete
  <2> QED
    BY <2>1, ListsComplete DEF Deletes
<1>5. Renumbers(p) = {g}
  BY <1>1, <1>2 DEF Renumbers, Deletes
<1>6. PICK v : v = View(p)
  OBVIOUS
<1>7. PICK L \in Seq(Entries) : L = tx[p].fetched[g] /\ NamedOnce(L) /\ TrueList(L, g, v)
  BY <1>5, <1>6, ListsComplete
<1>8. PICK W : W = <<[item |-> i, row |-> NoRow]>> \o Renumbering(Without(L, i), g)
  OBVIOUS
<1>9. Removal(p, row) = W
  BY <1>2, <1>3, <1>7, <1>8 DEF Removal
<1>10. RemovesFrom(W, L, g, i, v)
  BY <1>7, <1>8, RemovalEnds
<1>11. Listed(p, g) = Names(L) /\ Members(p, g) = Names(L) \ {i}
  BY <1>3, <1>7 DEF Members, Listed, Deletes
<1>12. Moves(p) /\ ~Arrives(p)
  BY DEF Moves, Arrives, Deletes
<1>13. W \in Seq(Writes) /\ W[1].item = i /\ InOrderAfter(W, v, Names(L) \ {i}, g)
  BY <1>10 DEF RemovesFrom
<1>14. \A k \in DOMAIN W :
          IF Moves(p) /\ W[k].item = Item(p) THEN k = 1 /\ ~Wrote(p)
          ELSE \E x \in Renumbers(p) :
                  W[k].item \in Listed(p, x) /\ W[k].row # NoRow /\ W[k].row.group = x
  BY <1>3, <1>4, <1>5, <1>10, <1>11, <1>12 DEF RemovesFrom
<1>15. \A x \in Renumbers(p) : InOrderAfter(W, View(p), Members(p, x), x)
  BY <1>5, <1>6, <1>11, <1>13
<1>16. Computed(p, W)
  BY <1>4, <1>12, <1>13, <1>14, <1>15 DEF Computed
<1> QED
  BY <1>1, <1>9, <1>16

(* The statements of a move inside the group.                              *)
LEMMA PlacementComputed ==
    ASSUME GroupsInv, NEW p \in Procs, AllFetched(p), op[p].kind # "remove", tx[p].own # NoRow,
           tx[p].own.group = op[p].group,
           NEW desired \in Int, tx[p].placing => desired = op[p].position
    PROVE  Computed(p, Placement(p, tx[p].own, desired))
<1>1. PICK row \in Rows : row = tx[p].own /\ row # NoRow
  BY ListsComplete
<1>2. PICK g \in Groups : g = row.group /\ g = op[p].group
  BY <1>1, RowType
<1>3. PICK i \in Items : i = Item(p)
  BY ListsComplete
<1>4. PICK v : v = View(p)
  OBVIOUS
<1>5. Renumbers(p) = {g}
  BY <1>1, <1>2 DEF Renumbers
<1>6. PICK L \in Seq(Entries) : L = tx[p].fetched[g] /\ NamedOnce(L) /\ TrueList(L, g, v)
  BY <1>4, <1>5, ListsComplete
<1>7. Listed(p, g) = Names(L)
  BY <1>6 DEF Listed
<1>8. i \in Names(L) /\ v[i] = row
  BY <1>1, <1>2, <1>3, <1>4, <1>7, ListsComplete
<1>9. PICK others : others = Without(L, i)
  OBVIOUS
<1>10. PICK self : self = [item |-> i, position |-> v[i].position]
  OBVIOUS
<1>11. PICK W : W = Renumbering(InsertItem(others, Clamp(desired, Len(others) + 1), self), g)
  OBVIOUS
<1>12. Placement(p, row, desired) = W
  BY <1>2, <1>3, <1>6, <1>8, <1>9, <1>10, <1>11 DEF Placement
<1>13. /\ W \in Seq(Writes) /\ RenumbersList(W, L, g) /\ InOrderAfter(W, v, Names(L), g)
       /\ RowAfter(W, v, i).position = Clamp(desired, Cardinality(Names(L)))
  BY <1>6, <1>8, <1>9, <1>10, <1>11, PlacementEnds
<1>14. Members(p, g) = Names(L)
  BY <1>2, <1>3, <1>7, <1>8 DEF Members
<1>15. ~Moves(p) /\ ~Arrives(p)
  BY <1>1, <1>2 DEF Moves, Arrives
<1> QED
  BY <1>1, <1>2, <1>3, <1>4, <1>5, <1>7, <1>12, <1>13, <1>14, <1>15 DEF Computed, RenumbersList

(* The statements of a move to another group.                              *)
LEMMA RelocationComputed ==
    ASSUME GroupsInv, NEW p \in Procs, AllFetched(p), Relocates(p)
    PROVE  Computed(p, Relocation(p, tx[p].own))
<1>1. PICK row \in Rows : row = tx[p].own /\ row # NoRow
  BY ListsComplete DEF Relocates
<1>2. PICK g \in Groups : g = row.group
  BY RowType
<1>3. PICK h \in Groups : h = op[p].group
  BY ListsComplete
<1>4. PICK i \in Items : i = Item(p)
  BY ListsComplete
<1>5. PICK v : v = View(p)
  OBVIOUS
<1>6. g \in Renumbers(p) /\ h \in Renumbers(p) /\ g # h /\ Renumbers(p) = {g, h}
  BY <1>1, <1>2, <1>3 DEF Renumbers, Relocates
<1>7. PICK L \in Seq(Entries) : L = tx[p].fetched[g] /\ NamedOnce(L) /\ TrueList(L, g, v)
  BY <1>5, <1>6, ListsComplete
<1>8. PICK T \in Seq(Entries) : T = tx[p].fetched[h] /\ NamedOnce(T) /\ TrueList(T, h, v)
  BY <1>5, <1>6, ListsComplete
<1>9. Listed(p, g) = Names(L) /\ Listed(p, h) = Names(T)
  BY <1>7, <1>8 DEF Listed
<1>10. i \notin Names(T)
  BY <1>1, <1>2, <1>3, <1>4, <1>6, <1>9, ListsComplete
<1>11. PICK last \in Nat \ {0} : last = Len(T) + 1
  BY EntriesOf
<1>12. PICK self : self = [item |-> i, position |-> last]
  OBVIOUS
<1>13. PICK w : w = Write(i, h, last)
  OBVIOUS
<1>14. PICK W : W = <<w>> \o Renumbering(Without(L, i), g)
                          \o Renumbering(Append(Without(T, i), self), h)
  OBVIOUS
<1>15. Relocation(p, row) = W /\ w = Arrival(p)
  BY <1>2, <1>3, <1>4, <1>7, <1>8, <1>11, <1>12, <1>13, <1>14 DEF Relocation, Arrival
<1>23. BringsTo(W, w, L, g, T, h, i, v)
  BY <1>6, <1>7, <1>8, <1>10, <1>11, <1>12, <1>13, <1>14, RelocationEnds
<1>16. /\ W \in Seq(Writes) /\ 1 \in DOMAIN W /\ W[1] = w
       /\ \A k \in DOMAIN W :
             \/ k = 1
             \/ W[k].item \in Names(L) \ {i} /\ W[k].row # NoRow /\ W[k].row.group = g
             \/ W[k].item \in Names(T) /\ W[k].row # NoRow /\ W[k].row.group = h
       /\ InOrderAfter(W, v, Names(L) \ {i}, g)
       /\ InOrderAfter(W, v, Names(T) \cup {i}, h)
  BY <1>23 DEF BringsTo
<1>17. Members(p, g) = Names(L) \ {i} /\ Members(p, h) = Names(T) \cup {i}
  BY <1>3, <1>4, <1>6, <1>9 DEF Members, Relocates
<1>18. /\ ~tx[p].placing /\ ~Wrote(p)
  <2>1. ~tx[p].placing
    BY ListsComplete DEF Relocates
  <2> QED
    BY <2>1, ListsComplete
<1>19. Moves(p) /\ Arrives(p)
  BY <1>18 DEF Moves, Arrives, Relocates
<1>20. w.item = i
  BY <1>13 DEF Write
<1>21. W # <<>>
  BY <1>16
<1>22. ASSUME NEW k \in DOMAIN W
       PROVE  IF Moves(p) /\ W[k].item = Item(p) THEN k = 1 /\ ~Wrote(p)
              ELSE \E x \in Renumbers(p) :
                      W[k].item \in Listed(p, x) /\ W[k].row # NoRow /\ W[k].row.group = x
  BY <1>4, <1>6, <1>9, <1>10, <1>16, <1>18, <1>19, <1>20
<1>24. \A x \in Renumbers(p) : InOrderAfter(W, View(p), Members(p, x), x)
  BY <1>5, <1>6, <1>16, <1>17
<1>25. Computed(p, W)
  BY <1>1, <1>15, <1>16, <1>18, <1>21, <1>22, <1>24 DEF Computed
<1> QED
  BY <1>1, <1>15, <1>25

(* What p is to write is what its lists make it.                           *)
LEMMA ComputeWrites ==
    ASSUME GroupsInv, NEW p \in Procs, Compute(p)
    PROVE  \E W : /\ Computed(p, W)
                  /\ Goto(p, [tx[p] EXCEPT !.pc = IF tx[p].own = NoRow THEN "validate" ELSE "write",
                                           !.writes = W])
<1>1. AllFetched(p) /\ TypeOK
  BY DEF Compute, AllFetched, GroupsInv, OrderTxInv
<1>2. PICK row : row = tx[p].own
  OBVIOUS
<1>3. PICK pc : pc = IF row = NoRow THEN "validate" ELSE "write"
  OBVIOUS
<1>4. op[p].kind = "remove" => row # NoRow
  BY <1>1, <1>2, ListsComplete
<1>5. CASE op[p].kind = "remove"
  <2>1. Computed(p, Removal(p, row))
    BY <1>1, <1>2, <1>5, RemovalComputed DEF Deletes
  <2>2. Goto(p, [tx[p] EXCEPT !.pc = pc, !.writes = Removal(p, row)])
    BY <1>2, <1>3, <1>5 DEF Compute
  <2> QED
    BY <1>2, <1>3, <2>1, <2>2
<1>6. CASE op[p].kind # "remove" /\ row = NoRow
  <2>1. Computed(p, Creation(p))
    BY <1>1, <1>2, <1>6, CreationComputed DEF Creates
  <2>2. Goto(p, [tx[p] EXCEPT !.pc = pc, !.writes = Creation(p)])
    BY <1>2, <1>3, <1>6 DEF Compute
  <2> QED
    BY <1>2, <1>3, <2>1, <2>2
<1>7. CASE op[p].kind # "remove" /\ row # NoRow /\ row.group = op[p].group
  <2>1. row \in Rows
    BY <1>1, <1>2, <1>7, ListsComplete
  <2>2. (IF tx[p].placing THEN op[p].position ELSE row.position) \in Int
    BY <1>1, <2>1, OpType, RowType
  <2>3. PICK n \in Int : n = IF tx[p].placing THEN op[p].position ELSE row.position
    BY <2>2
  <2>4. tx[p].placing => n = op[p].position
    BY <2>3
  <2>5. Computed(p, Placement(p, row, n))
    BY <1>1, <1>2, <1>7, <2>4, PlacementComputed
  <2>6. Goto(p, [tx[p] EXCEPT !.pc = pc, !.writes = Placement(p, row, n)])
    BY <1>2, <1>3, <1>7, <2>3 DEF Compute
  <2> QED
    BY <1>2, <1>3, <2>5, <2>6
<1>8. CASE op[p].kind # "remove" /\ row # NoRow /\ row.group # op[p].group
  <2>1. Computed(p, Relocation(p, row))
    BY <1>1, <1>2, <1>8, RelocationComputed DEF Relocates
  <2>2. Goto(p, [tx[p] EXCEPT !.pc = pc, !.writes = Relocation(p, row)])
    BY <1>2, <1>3, <1>8 DEF Compute
  <2> QED
    BY <1>2, <1>3, <2>1, <2>2
<1> QED
  BY <1>5, <1>6, <1>7, <1>8

(* All rows are fetched, and the statements known.                         *)
LEMMA ComputeOrder ==
    ASSUME GroupsInv, OrderTxInv', NEW p \in Procs, Compute(p)
    PROVE  GroupsInv'
<1>1. /\ UNCHANGED <<db, schedules, op>> /\ tx[p].pc = "fetch" /\ tx[p].groups = <<>>
      /\ AllFetched(p) /\ TypeOK /\ Sound(p) /\ Orderly(p) /\ LocksItsGroups(p) /\ HoldsItsRow(p)
      /\ ListsRows(p) /\ OrderTxInv
  BY DEF Compute, AllFetched, GroupsInv, OrderTxInv, Orderly
<1>2. PICK W : /\ Computed(p, W)
               /\ Goto(p, [tx[p] EXCEPT !.pc = IF tx[p].own = NoRow THEN "validate" ELSE "write",
                                        !.writes = W])
  BY ComputeWrites
<1>3. PICK pc \in {"validate", "write"} : pc = IF tx[p].own = NoRow THEN "validate" ELSE "write"
  OBVIOUS
<1>4. PICK t : t = [tx[p] EXCEPT !.pc = pc, !.writes = W]
  OBVIOUS
<1>5. Goto(p, t)
  BY <1>2, <1>3, <1>4
<1>6. PICK S \in SUBSET Items : tx[p] \in Transactions(S)
  BY <1>1 DEF TypeOK
<1>7. /\ t.pc = pc /\ t.own = tx[p].own /\ t.fetched = tx[p].fetched /\ t.work = tx[p].work
      /\ t.touched = tx[p].touched /\ t.held = tx[p].held /\ t.writes = W
      /\ t.placing = tx[p].placing
  BY <1>4, <1>6 DEF Transactions
<1>8. tx'[p] = t
  BY <1>1, <1>5, OnlyOne DEF Goto
<1>9. /\ tx'[p].work = tx[p].work /\ tx[p].touched \subseteq tx'[p].touched
      /\ tx[p].held \subseteq tx'[p].held
  BY <1>7, <1>8
<1>10. /\ View(p)' = View(p) /\ Item(p)' = Item(p) /\ (Wrote(p)' <=> Wrote(p))
       /\ \A g : Affects(p, g)' <=> Affects(p, g)
       /\ LocksItsGroups(p)'
  BY <1>1, <1>9, KeepsItsGroups
<1>11. /\ Renumbers(p)' = Renumbers(p) /\ (Moves(p)' <=> Moves(p)) /\ (Arrives(p)' <=> Arrives(p))
       /\ \A g : Listed(p, g)' = Listed(p, g)
       /\ \A g : Members(p, g)' = Members(p, g)
       /\ \A g : Complete(p, g)' <=> Complete(p, g)
       /\ Arrival(p)' = Arrival(p)
  BY <1>1, <1>7, <1>8
     DEF Renumbers, Moves, Arrives, Listed, Names, Members, Complete, Item, Wrote, Arrival
<1>12. \A i : RowInTheEnd(p, i)' = RowAfter(W, View(p), i)
  BY <1>7, <1>8, <1>10 DEF RowInTheEnd
<1>13. /\ tx[p].pc = "fetch"
       /\ \A g \in Renumbers(p) : g \in Groups /\ Listed(p, g) \subseteq Siblings(View(p), g)
       /\ tx[p].own # NoRow =>
             /\ tx[p].own.group \in Renumbers(p)
             /\ Item(p) \in Listed(p, tx[p].own.group)
             /\ Siblings(View(p), tx[p].own.group) \subseteq Listed(p, tx[p].own.group)
             /\ tx[p].own.group # op[p].group /\ op[p].group \in Renumbers(p) =>
                   Item(p) \notin Listed(p, op[p].group)
       /\ tx[p].placing => /\ tx[p].own # NoRow /\ tx[p].own.group = op[p].group
                           /\ op[p].kind = "place"
       /\ ~tx[p].placing => tx[p].work = EmptyTable /\ ~Wrote(p)
       /\ op[p].kind # "remove" => op[p].group \in Renumbers(p)
       /\ op[p].group \in Groups
  BY <1>1, ListsComplete
<1>14. HoldsItsRow(p)'
  BY <1>1, <1>7, <1>8, <1>10 DEF HoldsItsRow
<1>15. Wrote(p) => tx[p].placing /\ tx[p].own # NoRow
  BY <1>13
<1>16. Arrives(p) => ~tx[p].placing /\ op[p].kind # "remove"
  BY DEF Arrives
<1>17. WritesItsLists(p)'
  <2>1. \A g \in Groups \ Renumbers(p) : DenseGroup(View(p), g)
    BY <1>1, DenseEveryGroup DEF ListsRows
  <2>2. \A g \in Renumbers(p) : \A i \in Listed(p, g) : i \in Siblings(View(p), g)
    BY <1>13
  <2>3. ASSUME NEW g \in Renumbers(p), Complete(p, g)
        PROVE  Siblings(View(p), g) \subseteq Listed(p, g) \cup {Item(p)}
    <3>1. tx[p].own # NoRow
      BY <1>15, <2>3 DEF Complete
    <3>2. CASE g = tx[p].own.group
      BY <1>13, <3>1, <3>2
    <3>3. CASE Wrote(p)
      <4>1. tx[p].own.group = op[p].group
        BY <1>13, <1>15, <3>3
      <4>2. g = tx[p].own.group
        BY <4>1 DEF Renumbers
      <4> QED
        BY <1>13, <3>1, <4>2
    <3> QED
      BY <2>3, <3>2, <3>3 DEF Complete
  <2>4. \A k \in DOMAIN W :
           IF Moves(p) /\ W[k].item = Item(p) THEN k = 1 /\ ~Wrote(p)
           ELSE \E g \in Renumbers(p) :
                   W[k].item \in Listed(p, g) /\ W[k].row # NoRow /\ W[k].row.group = g
    BY <1>2 DEF Computed
  <2>5. Arrives(p) /\ tx[p].own # NoRow => Item(p) \notin Listed(p, op[p].group)
    BY <1>13 DEF Arrives
  <2>6. (\A g \in Groups \ Renumbers(p) : DenseGroup(View(p), g))'
    BY <1>10, <1>11, <2>1 DEF DenseGroup
  <2>7. (\A g \in Renumbers(p) : \A i \in Listed(p, g) :
            i \in Siblings(View(p), g) \/ (Moves(p) /\ i = Item(p)))'
    BY <1>10, <1>11, <2>2
  <2>8. (\A g \in Renumbers(p) : Complete(p, g) =>
            Siblings(View(p), g) \subseteq Listed(p, g) \cup {Item(p)})'
    BY <1>10, <1>11, <2>3
  <2>9. (\A k \in DOMAIN tx[p].writes :
            LET w == tx[p].writes[k]
            IN  IF Moves(p) /\ w.item = Item(p) THEN k = 1 /\ ~Wrote(p)
                ELSE \E g \in Renumbers(p) :
                        w.item \in Listed(p, g) /\ w.row # NoRow /\ w.row.group = g)'
    BY <1>7, <1>8, <1>10, <1>11, <2>4
  <2>10. (Arrives(p) /\ tx[p].own # NoRow => Item(p) \notin Listed(p, op[p].group))'
    BY <1>1, <1>7, <1>8, <1>10, <1>11, <2>5
  <2> QED
    BY <2>6, <2>7, <2>8, <2>9, <2>10 DEF WritesItsLists
<1>18. ArrivesFirst(p)'
  <2>1. Arrives(p) => /\ ~Wrote(p) /\ tx[p].work = EmptyTable
                      /\ W # <<>> /\ W[1] = Arrival(p)
                      /\ tx[p].own = NoRow => Len(W) = 1
    BY <1>2, <1>13, <1>16 DEF Computed
  <2> QED
    BY <1>7, <1>8, <1>10, <1>11, <2>1 DEF ArrivesFirst
<1>19. EndsInOrder(p)'
  <2>1. ASSUME tx[p].own # NoRow \/ Wrote(p), NEW g \in Renumbers(p)
        PROVE  /\ \A i \in Members(p, g) :
                     /\ RowInTheEnd(p, i)' # NoRow /\ RowInTheEnd(p, i)'.group = g
                     /\ RowInTheEnd(p, i)'.position \in 1..Cardinality(Members(p, g))
               /\ \A i, j \in Members(p, g) :
                     RowInTheEnd(p, i)'.position = RowInTheEnd(p, j)'.position => i = j
    <3>1. InOrderAfter(W, View(p), Members(p, g), g)
      BY <1>2, <1>15, <2>1 DEF Computed
    <3> QED
      BY <1>12, <3>1 DEF InOrderAfter
  <2>3. (tx[p].own # NoRow \/ Wrote(p) =>
              \A g \in Renumbers(p) :
                  /\ \A i \in Members(p, g) :
                        /\ RowInTheEnd(p, i) # NoRow /\ RowInTheEnd(p, i).group = g
                        /\ RowInTheEnd(p, i).position \in 1..Cardinality(Members(p, g))
                  /\ \A i, j \in Members(p, g) :
                        RowInTheEnd(p, i).position = RowInTheEnd(p, j).position => i = j)'
    BY <1>7, <1>8, <1>10, <1>11, <2>1
  <2>4. (tx[p].placing =>
              RowInTheEnd(p, Item(p)).position =
                  Clamp(op[p].position, Cardinality(Members(p, op[p].group))))'
    <3>1. RowInTheEnd(p, Item(p))' = RowAfter(W, View(p), Item(p))
      BY <1>7, <1>8, <1>10 DEF RowInTheEnd
    <3>2. /\ Members(p, op[p].group)' = Members(p, op[p].group)
          /\ op[p]' = op[p] /\ tx[p].placing' = tx[p].placing
      BY <1>1, <1>7, <1>8, <1>11
    <3>3. tx[p].placing =>
              RowAfter(W, View(p), Item(p)).position =
                  Clamp(op[p].position, Cardinality(Members(p, op[p].group)))
      BY <1>2 DEF Computed
    <3> QED
      BY <3>1, <3>2, <3>3
  <2> QED
    BY <2>3, <2>4 DEF EndsInOrder
<1>20. ListsRows(p)' /\ Closes(p)' /\ \A g \in Groups : NamedOnce(tx[p].fetched[g])'
  BY <1>1, <1>3, <1>7, <1>8 DEF ListsRows, Closes, NamedOnce, Orderly
<1>21. Orderly(p)'
  BY <1>10, <1>14, <1>17, <1>18, <1>19, <1>20 DEF Orderly
<1> QED
  BY <1>1, <1>5, <1>21, QuietStepOrder

-----------------------------------------------------------------------------
(* The invariant and what follows.                                         *)

LEMMA InitGroupsInv ==
    ASSUME DenseTables, Init
    PROVE  GroupsInv
<1>1. OrderTxInv
  BY InitOrderTxInv
<1>2. Dense(db)
  BY DEF DenseTables, Init
<1>3. ASSUME NEW p \in Procs PROVE Orderly(p)
  <2>1. PICK t : t = Fresh("start", 1)
    OBVIOUS
  <2>2. tx[p] = t
    BY <2>1 DEF Init
  <2>3. /\ t.pc = "start" /\ t.work = EmptyTable /\ t.placing = FALSE
        /\ t.fetched = [g \in Groups |-> <<>>]
    BY <2>1 DEF Fresh
  <2>4. \A g \in Groups : NamedOnce(tx[p].fetched[g])
    BY <2>2, <2>3 DEF NamedOnce
  <2>5. LocksItsGroups(p)
    BY <2>2, <2>3 DEF LocksItsGroups, Affects, EmptyTable
  <2>6. /\ HoldsItsRow(p) /\ ListsRows(p) /\ WritesItsLists(p) /\ ArrivesFirst(p)
        /\ EndsInOrder(p) /\ Closes(p)
    BY <2>2, <2>3 DEF HoldsItsRow, ListsRows, WritesItsLists, ArrivesFirst, EndsInOrder, Closes
  <2> QED
    BY <2>4, <2>5, <2>6 DEF Orderly
<1> QED
  BY <1>1, <1>2, <1>3 DEF GroupsInv

(* Every statement keeps what transactions rely on.                        *)
LEMMA StepKeepsGroupsInv ==
    ASSUME GroupsInv, NEW p \in Procs, Step(p)
    PROVE  GroupsInv'
<1>1. OrderTxInv'
  BY StepKeepsOrderTxInv DEF GroupsInv
<1> QED
  BY <1>1, ReadScheduleOrder, LockScheduleOrder, LockOwnOrder, StartFetchOrder, LockRowOrder,
     EndFetchOrder, ComputeOrder, ValidateOrder, WriteRowOrder, PlaceNextOrder, EndWritesOrder,
     CommitOrder, AbortDeadlockOrder
     DEF Step

(* So does no statement.                                                   *)
LEMMA StutterKeepsGroupsInv ==
    ASSUME GroupsInv, UNCHANGED vars
    PROVE  GroupsInv'
<1>1. db' = db /\ schedules' = schedules /\ op' = op /\ tx' = tx
  BY DEF vars
<1>2. OrderTxInv'
  BY StutterKeeps DEF GroupsInv
<1>3. \A q \in Procs : Orderly(q)'
  BY <1>1, SameOrderly DEF GroupsInv
<1>4. Dense(db)'
  BY <1>1 DEF GroupsInv, Dense, DenseGroup
<1> QED
  BY <1>2, <1>3, <1>4 DEF GroupsInv

(* What transactions rely on to keep the positions 1..n.                   *)
THEOREM GroupsInvHolds ==
    ASSUME DenseTables
    PROVE  Spec => []GroupsInv
<1>1. Init => GroupsInv
  BY InitGroupsInv
<1>2. GroupsInv /\ [Next]_vars => GroupsInv'
  BY StepKeepsGroupsInv, StutterKeepsGroupsInv DEF Next
<1> QED
  BY <1>1, <1>2, PTL DEF Spec

(* Sibling positions are 1..n after every commit, however many requests    *)
(* interleave their SELECT FOR UPDATEs and UPDATEs, miss rows that arrive, *)
(* retry or are aborted.                                                   *)
THEOREM ContiguousHolds ==
    ASSUME DenseTables
    PROVE  Spec => []Contiguous
<1>1. GroupsInv => Contiguous
  BY DEF GroupsInv, Contiguous
<1> QED
  BY <1>1, GroupsInvHolds, PTL

-----------------------------------------------------------------------------
(* A placement that commits.                                               *)

(* A request that has not ended has no result.                             *)
Unanswered == \A p \in Procs : tx[p].pc # "ended" => tx[p].result = "none"

(* The result of a transaction that ends or starts again.                  *)
LEMMA EndedOrFresh ==
    ASSUME TypeOK, NEW p \in Procs
    PROVE  /\ \A result : Ended(p, result) => tx'[p].pc = "ended" /\ tx'[p].result = result
           /\ \A pc, attempt : Goto(p, Fresh(pc, attempt)) => tx'[p].pc = pc /\ tx'[p].result = "none"
           /\ IntegrityError(p) => \/ tx'[p].pc = "ended" /\ tx'[p].result \in {"died", "gave_up"}
                                   \/ tx'[p].pc = "own" /\ tx'[p].result = "none"
<1>1. ASSUME NEW result, Ended(p, result) PROVE tx'[p].pc = "ended" /\ tx'[p].result = result
  <2>1. PICK t : t = [Fresh("ended", tx[p].attempt) EXCEPT !.result = result]
    OBVIOUS
  <2>2. tx'[p] = t
    BY <1>1, <2>1, OnlyOne DEF Ended, Goto
  <2> QED
    BY <2>1, <2>2 DEF Fresh
<1>2. ASSUME NEW pc, NEW attempt, Goto(p, Fresh(pc, attempt))
      PROVE  tx'[p].pc = pc /\ tx'[p].result = "none"
  <2>1. PICK t : t = Fresh(pc, attempt)
    OBVIOUS
  <2>2. tx'[p] = t
    BY <1>2, <2>1, OnlyOne DEF Goto
  <2> QED
    BY <2>1, <2>2 DEF Fresh
<1> QED
  BY <1>1, <1>2 DEF IntegrityError

(* A statement gives a result only when it ends the request.               *)
LEMMA StepAnswers ==
    ASSUME TypeOK, Unanswered, NEW p \in Procs, Step(p)
    PROVE  tx'[p].pc # "ended" => tx'[p].result = "none"
<1>1. PICK S \in SUBSET Items : tx[p] \in Transactions(S)
  BY DEF TypeOK
<1>2. ASSUME tx[p].pc # "ended", NEW t, Goto(p, t), t.result = tx[p].result
      PROVE  tx'[p].result = "none"
  BY <1>2, OnlyOne DEF Goto, Unanswered
<1>3. ASSUME \E result : Ended(p, result) PROVE tx'[p].pc = "ended"
  BY <1>3, EndedOrFresh
<1>4. CASE ReadSchedule(p)
  BY <1>4, EndedOrFresh DEF ReadSchedule
<1>5. CASE LockSchedule(p)
  <2>1. CASE Item(p) \in schedules
    <3>1. PICK t : t = [tx[p] EXCEPT !.pc = "own", !.held = {ScheduleLock(Item(p))}]
      OBVIOUS
    <3>2. t.result = tx[p].result
      BY <1>1, <3>1 DEF Transactions
    <3> QED
      BY <1>2, <1>5, <2>1, <3>1, <3>2 DEF LockSchedule
  <2>2. CASE Item(p) \notin schedules
    BY <1>3, <1>5, <2>2 DEF LockSchedule
  <2> QED
    BY <2>1, <2>2
<1>6. CASE LockOwn(p)
  <2>1. PICK row : row = IF Item(p) \in DOMAIN db THEN db[Item(p)] ELSE NoRow
    OBVIOUS
  <2>2. PICK t : t = [tx[p] EXCEPT !.pc = IF row = NoRow /\ op[p].kind = "remove"
                                          THEN "commit" ELSE "fetch",
                                   !.own = row,
                                   !.groups = GroupsToFetch(p, row),
                                   !.held = @ \cup Needs(p)]
    OBVIOUS
  <2>3. t.result = tx[p].result
    BY <1>1, <2>2 DEF Transactions
  <2>4. Goto(p, t) /\ tx[p].pc = "own"
    BY <1>6, <2>1, <2>2 DEF LockOwn
  <2> QED
    BY <1>2, <2>3, <2>4
<1>7. CASE StartFetch(p)
  <2>1. PICK t : t = [tx[p] EXCEPT !.pc = "lock",
                                   !.todo = FetchGroup(View(p), Head(tx[p].groups))]
    OBVIOUS
  <2>2. t.result = tx[p].result
    BY <1>1, <2>1 DEF Transactions
  <2> QED
    BY <1>2, <1>7, <2>1, <2>2 DEF StartFetch
<1>8. CASE LockRow(p)
  <2>1. PICK here, entry :
           Goto(p, [tx[p] EXCEPT !.todo = Tail(@),
                                 !.held = @ \cup Needs(p),
                                 !.fetched[Head(tx[p].groups)] =
                                     IF here THEN Append(@, entry) ELSE @])
    BY <1>8 DEF LockRow
  <2>2. PICK t : t = [tx[p] EXCEPT !.todo = Tail(@),
                                   !.held = @ \cup Needs(p),
                                   !.fetched[Head(tx[p].groups)] =
                                       IF here THEN Append(@, entry) ELSE @]
    OBVIOUS
  <2>3. t.result = tx[p].result
    BY <1>1, <2>2 DEF Transactions
  <2> QED
    BY <1>2, <1>8, <2>1, <2>2, <2>3 DEF LockRow
<1>9. CASE EndFetch(p)
  <2>1. PICK t : t = [tx[p] EXCEPT !.pc = "fetch", !.groups = Tail(@)]
    OBVIOUS
  <2>2. t.result = tx[p].result
    BY <1>1, <2>1 DEF Transactions
  <2> QED
    BY <1>2, <1>9, <2>1, <2>2 DEF EndFetch
<1>10. CASE Compute(p)
  <2>1. PICK pc, W : Goto(p, [tx[p] EXCEPT !.pc = pc, !.writes = W])
    BY <1>10 DEF Compute
  <2>2. PICK t : t = [tx[p] EXCEPT !.pc = pc, !.writes = W]
    OBVIOUS
  <2>3. t.result = tx[p].result
    BY <1>1, <2>2 DEF Transactions
  <2> QED
    BY <1>2, <1>10, <2>1, <2>2, <2>3 DEF Compute
<1>11. CASE Validate(p)
  <2>1. CASE Goto(p, [tx[p] EXCEPT !.pc = "write"])
    <3>1. PICK t : t = [tx[p] EXCEPT !.pc = "write"]
      OBVIOUS
    <3>2. t.result = tx[p].result
      BY <1>1, <3>1 DEF Transactions
    <3> QED
      BY <1>2, <1>11, <2>1, <3>1, <3>2 DEF Validate
  <2> QED
    BY <1>3, <1>11, <2>1 DEF Validate
<1>12. CASE WriteRow(p)
  <2>1. CASE IntegrityError(p)
    BY <2>1, EndedOrFresh
  <2>2. CASE ~IntegrityError(p)
    <3>1. PICK writes, work, touched :
             Goto(p, [tx[p] EXCEPT !.writes = writes, !.work = work, !.touched = touched])
      BY <1>12, <2>2 DEF WriteRow
    <3>2. PICK t : t = [tx[p] EXCEPT !.writes = writes, !.work = work, !.touched = touched]
      OBVIOUS
    <3>3. t.result = tx[p].result
      BY <1>1, <3>2 DEF Transactions
    <3> QED
      BY <1>2, <1>12, <3>1, <3>2, <3>3 DEF WriteRow
  <2> QED
    BY <2>1, <2>2
<1>13. CASE PlaceNext(p)
  <2>1. PICK row, fetched :
           Goto(p, [tx[p] EXCEPT !.pc = "fetch", !.placing = TRUE, !.own = row,
                                 !.groups = <<row.group>>,
                                 !.fetched[row.group] = fetched])
    BY <1>13 DEF PlaceNext
  <2>2. PICK t : t = [tx[p] EXCEPT !.pc = "fetch", !.placing = TRUE, !.own = row,
                                   !.groups = <<row.group>>,
                                   !.fetched[row.group] = fetched]
    OBVIOUS
  <2>3. t.result = tx[p].result
    BY <1>1, <2>2 DEF Transactions
  <2> QED
    BY <1>2, <1>13, <2>1, <2>2, <2>3 DEF PlaceNext
<1>14. CASE EndWrites(p)
  <2>1. PICK t : t = [tx[p] EXCEPT !.pc = "commit"]
    OBVIOUS
  <2>2. t.result = tx[p].result
    BY <1>1, <2>1 DEF Transactions
  <2> QED
    BY <1>2, <1>14, <2>1, <2>2 DEF EndWrites
<1>15. CASE Commit(p)
  BY <1>15, EndedOrFresh DEF Commit
<1>16. CASE AbortDeadlock(p)
  BY <1>3, <1>16 DEF AbortDeadlock
<1> QED
  BY <1>4, <1>5, <1>6, <1>7, <1>8, <1>9, <1>10, <1>11, <1>12, <1>13, <1>14, <1>15, <1>16 DEF Step

(* A statement of p changes no other transaction and no operation.         *)
LEMMA StepOnlyOne ==
    ASSUME TypeOK, NEW p \in Procs, Step(p)
    PROVE  /\ op' = op
           /\ \A q \in Procs \ {p} : tx'[q] = tx[q]
<1>1. op' = op
  BY DEF Step, ReadSchedule, LockSchedule, LockOwn, StartFetch, LockRow, EndFetch, Compute,
         Validate, WriteRow, PlaceNext, EndWrites, Commit, AbortDeadlock
<1>2. \E t : Goto(p, t)
  BY DEF Step, ReadSchedule, LockSchedule, LockOwn, StartFetch, LockRow, EndFetch, Compute,
         Validate, WriteRow, PlaceNext, EndWrites, Commit, AbortDeadlock, IntegrityError, Ended
<1> QED
  BY <1>1, <1>2, OnlyOne DEF Goto

THEOREM UnansweredHolds == Spec => []Unanswered
<1>1. Init => Unanswered
  <2>1. ASSUME Init, NEW p \in Procs PROVE tx[p].result = "none"
    BY <2>1 DEF Init, Fresh
  <2> QED
    BY <2>1 DEF Unanswered
<1>2. OrderTxInv /\ Unanswered /\ [Next]_vars => Unanswered'
  <2> SUFFICES ASSUME OrderTxInv, Unanswered, [Next]_vars PROVE Unanswered'
    OBVIOUS
  <2>1. TypeOK
    BY DEF OrderTxInv
  <2>2. ASSUME NEW p \in Procs, Step(p) PROVE Unanswered'
    BY <2>1, <2>2, StepAnswers, StepOnlyOne DEF Unanswered
  <2>3. ASSUME UNCHANGED vars PROVE Unanswered'
    BY <2>3 DEF vars, Unanswered
  <2> QED
    BY <2>2, <2>3 DEF Next
<1> QED
  BY <1>1, <1>2, OrderTxInvHolds, PTL DEF Spec

(* A placement that commits puts the row where the client asked, whatever  *)
(* ran beside it: the transaction holds the whole group when it renumbers  *)
(* it (set_schedule_item_order_position).                                  *)
THEOREM PlaceLandsHolds ==
    ASSUME DenseTables
    PROVE  Spec => PlaceLands
<1> DEFINE Lands(p) ==
             tx[p].pc = "commit" /\ op[p].kind = "place" /\ tx'[p].result = "done" =>
                 db'[Item(p)].position =
                     Clamp(op[p].position, Cardinality(Siblings(db', op[p].group)))
<1>1. ASSUME GroupsInv, Unanswered, [Next]_vars, ~UNCHANGED vars, NEW p \in Procs
      PROVE  Lands(p)
  <2>1. PICK q \in Procs : Step(q)
    BY <1>1 DEF Next
  <2>2. SUFFICES ASSUME tx[p].pc = "commit", op[p].kind = "place", tx'[p].result = "done"
                 PROVE  db'[Item(p)].position =
                          Clamp(op[p].position, Cardinality(Siblings(db', op[p].group)))
    OBVIOUS
  <2>3. TypeOK /\ Closes(p) /\ tx[p].result = "none"
    BY <1>1, <2>2 DEF GroupsInv, OrderTxInv, Orderly, Unanswered
  <2>4. q = p
    BY <2>1, <2>2, <2>3, StepOnlyOne
  <2>5. ~AbortDeadlock(p)
    BY <2>2, <2>3, EndedOrFresh DEF AbortDeadlock
  <2>6. Commit(p)
    BY <2>1, <2>2, <2>4, <2>5
       DEF Step, ReadSchedule, LockSchedule, LockOwn, StartFetch, LockRow, EndFetch, Compute,
           Validate, WriteRow, PlaceNext, EndWrites
  <2>7. ~IntegrityError(p)
    BY <2>2, <2>3, EndedOrFresh
  <2>8. db' = View(p)
    BY <2>6, <2>7 DEF Commit
  <2> QED
    BY <2>2, <2>3, <2>8 DEF Closes
<1>2. GroupsInv /\ Unanswered /\ [Next]_vars => [\A p \in Procs : Lands(p)]_vars
  BY <1>1
<1> QED
  BY <1>2, GroupsInvHolds, UnansweredHolds, PTL DEF Spec, PlaceLands

=============================================================================
