------------------------------ MODULE OrderTx ------------------------------
(***************************************************************************)
(* The schedule order operations as database transactions, statement by    *)
(* statement: sync_schedule_item_order, set_schedule_item_order_position   *)
(* and delete_schedule of concurrent requests (schedule/services.py).      *)
(*                                                                         *)
(* A process runs one operation.  Its statements read and write one table  *)
(* under PostgreSQL's READ COMMITTED: a SELECT ... FOR UPDATE fixes its    *)
(* rows and their order when it starts, locks them one by one, and takes   *)
(* the values they have once locked; a write to a position that another    *)
(* running transaction has touched waits for that transaction; a cycle of  *)
(* waiting transactions is broken by aborting one of them.                 *)
(***************************************************************************)
EXTENDS OrderRows, FiniteSetsExt, Functions

CONSTANTS
    Procs,       \* request handlers
    Items,       \* schedules
    Groups,      \* group keys, numbered in the order sorted() gives them
    Tables,      \* the order tables the operations may start from
    Operations,  \* the operations a process may run
    RetryLimit,  \* _SCHEDULE_ITEM_ORDER_RETRY_LIMIT
    NoRow

Rows == [group : Groups, position : Nat \ {0}]

(* The unique constraint on the table.                                     *)
KeyOf(row) == <<row.group, row.position>>
UniqueKeys(r) == \A i, j \in DOMAIN r : KeyOf(r[i]) = KeyOf(r[j]) => i = j

ASSUME OrderTxAssumption ==
    /\ IsFiniteSet(Items)
    /\ Groups \subseteq Nat /\ RetryLimit \in Nat \ {0}
    /\ NoRow \notin Groups /\ NoRow \notin Rows
    /\ \A r \in Tables : (\E S \in SUBSET Items : r \in [S -> Rows]) /\ UniqueKeys(r)
    /\ \A o \in Operations : /\ o.kind \in {"sync", "place", "remove"}
                             /\ o.item \in Items /\ o.group \in Groups /\ o.position \in Int

VARIABLES
    db,          \* the committed order rows
    schedules,   \* the committed Schedule rows
    op,          \* the operation of each process
    tx           \* what each process has done so far in its transaction

vars == <<db, schedules, op, tx>>

RowLock(i) == <<"row", i>>
ScheduleLock(i) == <<"schedule", i>>

Item(p) == op[p].item

EmptyTable == [i \in {} |-> NoRow]

(* A transaction that has done nothing yet. *)
Fresh(pc, attempt) ==
    [pc |-> pc, result |-> "none", attempt |-> attempt, placing |-> FALSE,
     own |-> NoRow, groups |-> <<>>, todo |-> <<>>,
     fetched |-> [g \in Groups |-> <<>>], writes |-> <<>>,
     work |-> EmptyTable, touched |-> {}, held |-> {}]

(* The rows a statement of p sees: the committed ones and its own writes.  *)
View(p) ==
    LET w == tx[p].work
    IN  [i \in {j \in DOMAIN db \cup DOMAIN w : j \in DOMAIN w => w[j] # NoRow} |->
            IF i \in DOMAIN w THEN w[i] ELSE db[i]]

-----------------------------------------------------------------------------
(* Waiting.                                                                *)

ItemKey(i) == <<NoRow, i>>

(* The item whose row p has inserted. *)
Created(p) == {i \in {Item(p)} : ItemKey(i) \in tx[p].touched}

(* The row locks the next statement of p has to take.  COMMIT checks the   *)
(* deferred foreign key of an inserted row, which locks its schedule.      *)
Needs(p) ==
    CASE tx[p].pc = "schedule" -> {ScheduleLock(Item(p))}
      [] tx[p].pc = "own"      -> {RowLock(i) : i \in {Item(p)} \cap DOMAIN db}
      [] tx[p].pc = "lock"     -> {RowLock(tx[p].todo[k]) : k \in {1} \cap DOMAIN tx[p].todo}
      [] tx[p].pc = "commit"   -> {ScheduleLock(i) : i \in Created(p)}
      [] OTHER                 -> {}

(* The unique keys the next write of p occupies: its position and, when    *)
(* the row is new, its schedule.                                           *)
Occupies(p) ==
    IF tx[p].pc # "write" \/ tx[p].writes = <<>> THEN {}
    ELSE LET w == Head(tx[p].writes)
         IN  {KeyOf(r) : r \in {w.row} \ {NoRow}}
               \cup {ItemKey(i) : i \in {w.item} \ DOMAIN View(p)}

Blockers(p) ==
    {q \in Procs \ {p} : \/ Needs(p) \cap tx[q].held # {}
                         \/ Occupies(p) \cap tx[q].touched # {}}

Ready(p) == Blockers(p) = {}

(* p waits, through others, for itself: every set that has what p waits    *)
(* for, and with a process what that one waits for, has p.                 *)
OnCycle(p) ==
    \A S \in SUBSET Procs :
        Blockers(p) \subseteq S /\ (\A q \in S : Blockers(q) \subseteq S) => p \in S

-----------------------------------------------------------------------------
(* Statements.                                                             *)

Goto(p, t) == tx' = [tx EXCEPT ![p] = t]

Ended(p, result) ==
    Goto(p, [Fresh("ended", tx[p].attempt) EXCEPT !.result = result])

RetryForever(p) ==
    IF op[p].kind = "remove" THEN Ended(p, "died") ELSE Goto(p, Fresh("own", 1))

(* The transaction is rolled back: IntegrityError is retried by            *)
(* _run_schedule_item_order_operation_with_retries, whose callers swallow  *)
(* the last one; delete_schedule lets it through.                          *)
IntegrityError(p) ==
    IF op[p].kind = "remove" THEN Ended(p, "died")
    ELSE IF tx[p].attempt = RetryLimit THEN Ended(p, "gave_up")
    ELSE Goto(p, Fresh("own", tx[p].attempt + 1))

(* get_schedule, before the transaction. *)
ReadSchedule(p) ==
    /\ tx[p].pc = "start"
    /\ IF op[p].kind = "remove" THEN Goto(p, Fresh("schedule", 1))
       ELSE IF Item(p) \in schedules THEN Goto(p, Fresh("own", 1))
       ELSE Ended(p, "absent")
    /\ UNCHANGED <<db, schedules, op>>

(* delete_schedule: Schedule.objects.select_for_update() *)
LockSchedule(p) ==
    /\ tx[p].pc = "schedule" /\ Ready(p)
    /\ IF Item(p) \in schedules
       THEN Goto(p, [tx[p] EXCEPT !.pc = "own", !.held = {ScheduleLock(Item(p))}])
       ELSE Ended(p, "absent")
    /\ UNCHANGED <<db, schedules, op>>

(* The groups whose rows the operation locks next, in key order. *)
GroupsToFetch(p, row) ==
    IF row = NoRow THEN IF op[p].kind = "remove" THEN <<>> ELSE <<op[p].group>>
    ELSE IF op[p].kind = "remove" \/ row.group = op[p].group THEN <<row.group>>
    ELSE IF row.group < op[p].group THEN <<row.group, op[p].group>>
    ELSE <<op[p].group, row.group>>

(* ScheduleItemOrder.objects.select_for_update().filter(schedule_id=...) *)
LockOwn(p) ==
    /\ tx[p].pc = "own" /\ Ready(p)
    /\ LET row == IF Item(p) \in DOMAIN db THEN db[Item(p)] ELSE NoRow
       IN  Goto(p, [tx[p] EXCEPT !.pc = IF row = NoRow /\ op[p].kind = "remove"
                                        THEN "commit" ELSE "fetch",
                                 !.own = row,
                                 !.groups = GroupsToFetch(p, row),
                                 !.held = @ \cup Needs(p)])
    /\ UNCHANGED <<db, schedules, op>>

(* _fetch_group_items_for_update starts: its rows and their order are      *)
(* those of now.                                                           *)
StartFetch(p) ==
    /\ tx[p].pc = "fetch" /\ tx[p].groups # <<>>
    /\ Goto(p, [tx[p] EXCEPT !.pc = "lock",
                             !.todo = FetchGroup(View(p), Head(tx[p].groups))])
    /\ UNCHANGED <<db, schedules, op>>

(* It locks the next row, which must still be in the group.                *)
LockRow(p) ==
    /\ tx[p].pc = "lock" /\ tx[p].todo # <<>> /\ Ready(p)
    /\ LET i == Head(tx[p].todo)
           g == Head(tx[p].groups)
           here == i \in DOMAIN View(p) /\ View(p)[i].group = g
           entry == [item |-> i, position |-> View(p)[i].position]
       IN  Goto(p, [tx[p] EXCEPT !.todo = Tail(@),
                                 !.held = @ \cup Needs(p),
                                 !.fetched[g] = IF here THEN Append(@, entry) ELSE @])
    /\ UNCHANGED <<db, schedules, op>>

EndFetch(p) ==
    /\ tx[p].pc = "lock" /\ tx[p].todo = <<>>
    /\ Goto(p, [tx[p] EXCEPT !.pc = "fetch", !.groups = Tail(@)])
    /\ UNCHANGED <<db, schedules, op>>

Write(i, g, x) == [item |-> i, row |-> [group |-> g, position |-> x]]

(* Some indexes of a list, in their order.                                 *)
InOrder(K) == SortBy(K, {m \in K \X K : m[1] < m[2]})

RenumberingFromZero(items, g) ==
    [k \in DOMAIN items |-> Write(items[k].item, g, k - 1)]

(* The UPDATEs of _persist_group_positions: every item that is not at its  *)
(* index goes to a temporary position beyond all others, then to its index.*)
Renumbering(items, g) ==
    LET pending == InOrder({k \in DOMAIN items : items[k].position # k})
        highest == Max({items[k].position : k \in DOMAIN items} \cup {Len(items)})
        base == highest + Len(pending) + 1
    IN  [n \in DOMAIN pending |-> Write(items[pending[n]].item, g, base + n - 1)]
          \o [n \in DOMAIN pending |-> Write(items[pending[n]].item, g, pending[n])]

Without(items, i) ==
    LET kept == InOrder({k \in DOMAIN items : items[k].item # i})
    IN  [k \in DOMAIN kept |-> items[kept[k]]]

PlacementBeforeEnd(p, row, desired) ==
    LET others == Without(tx[p].fetched[row.group], Item(p))
        self == [item |-> Item(p), position |-> row.position]
    IN  Renumbering(InsertItem(others, Clamp(desired, Len(others)), self), row.group)

(* The UPDATEs of a move inside the group. *)
Placement(p, row, desired) ==
    LET others == Without(tx[p].fetched[row.group], Item(p))
        self == [item |-> Item(p), position |-> row.position]
    IN  Renumbering(InsertItem(others, Clamp(desired, Len(others) + 1), self), row.group)

RelocationLeavesGap(p, row) ==
    <<Write(Item(p), op[p].group, Len(tx[p].fetched[op[p].group]) + 1)>>

(* The statements of a move to another group, of a creation, a removal.    *)
Relocation(p, row) ==
    LET target == tx[p].fetched[op[p].group]
        last == Len(target) + 1
        self == [item |-> Item(p), position |-> last]
    IN  <<Write(Item(p), op[p].group, last)>>
          \o Renumbering(Without(tx[p].fetched[row.group], Item(p)), row.group)
          \o Renumbering(Append(Without(target, Item(p)), self), op[p].group)

Creation(p) == <<Write(Item(p), op[p].group, Len(tx[p].fetched[op[p].group]) + 1)>>

Removal(p, row) ==
    <<[item |-> Item(p), row |-> NoRow]>>
      \o Renumbering(Without(tx[p].fetched[row.group], Item(p)), row.group)

(* All rows are locked: the remaining statements are known. *)
Compute(p) ==
    /\ tx[p].pc = "fetch" /\ tx[p].groups = <<>>
    /\ LET row == tx[p].own
           desired == IF tx[p].placing THEN op[p].position ELSE row.position
           writes == CASE op[p].kind = "remove"     -> Removal(p, row)
                       [] op[p].kind # "remove" /\ row = NoRow -> Creation(p)
                       [] OTHER -> IF row.group = op[p].group
                                   THEN Placement(p, row, desired)
                                   ELSE Relocation(p, row)
       IN  Goto(p, [tx[p] EXCEPT
                      !.pc = IF row = NoRow THEN "validate" ELSE "write",
                      !.writes = writes])
    /\ UNCHANGED <<db, schedules, op>>

Taken(p, i, row) ==
    \E j \in DOMAIN View(p) \ {i} : KeyOf(View(p)[j]) = KeyOf(row)

(* ScheduleItemOrder.save: full_clean reports a schedule that is gone, a   *)
(* taken position or an existing row as ValidationError, which nobody      *)
(* retries.                                                                *)
Validate(p) ==
    /\ tx[p].pc = "validate"
    /\ LET w == Head(tx[p].writes)
       IN  IF Item(p) \notin schedules \/ Item(p) \in DOMAIN db \/ Taken(p, Item(p), w.row)
           THEN Ended(p, "died")
           ELSE Goto(p, [tx[p] EXCEPT !.pc = "write"])
    /\ UNCHANGED <<db, schedules, op>>

(* One INSERT, UPDATE or DELETE. *)
WriteRow(p) ==
    /\ tx[p].pc = "write" /\ tx[p].writes # <<>> /\ Ready(p)
    /\ LET w == Head(tx[p].writes)
           old == IF w.item \in DOMAIN View(p) THEN {KeyOf(View(p)[w.item])} ELSE {}
           exists == tx[p].own = NoRow /\ Item(p) \in DOMAIN db
       IN  IF w.row # NoRow /\ (Taken(p, w.item, w.row) \/ exists)
           THEN IntegrityError(p)
           ELSE Goto(p, [tx[p] EXCEPT
                  !.writes = Tail(@),
                  !.work = [i \in DOMAIN @ \cup {w.item} |->
                              IF i = w.item THEN w.row ELSE @[i]],
                  !.touched = @ \cup old \cup Occupies(p)])
    /\ UNCHANGED <<db, schedules, op>>

(* The sync of a placement is complete: the row's group is fetched again.  *)
PlaceNext(p) ==
    /\ tx[p].pc = "write" /\ tx[p].writes = <<>>
    /\ op[p].kind = "place" /\ ~tx[p].placing
    /\ LET row == View(p)[Item(p)]
       IN  Goto(p, [tx[p] EXCEPT !.pc = "fetch", !.placing = TRUE, !.own = row,
                                 !.groups = <<row.group>>,
                                 !.fetched[row.group] = <<>>])
    /\ UNCHANGED <<db, schedules, op>>

EndWrites(p) ==
    /\ tx[p].pc = "write" /\ tx[p].writes = <<>>
    /\ op[p].kind = "place" => tx[p].placing
    /\ Goto(p, [tx[p] EXCEPT !.pc = "commit"])
    /\ UNCHANGED <<db, schedules, op>>

CommitUnchecked(p) ==
    /\ tx[p].pc = "commit"
    /\ db' = View(p)
    /\ schedules' = IF op[p].kind = "remove" THEN schedules \ {Item(p)} ELSE schedules
    /\ Ended(p, "done")
    /\ UNCHANGED op

(* COMMIT.  The foreign key of an inserted row is checked only here, behind *)
(* a removal of the schedule that is under way.                            *)
Commit(p) ==
    /\ tx[p].pc = "commit" /\ Ready(p)
    /\ IF Created(p) \ schedules # {}
       THEN IntegrityError(p) /\ UNCHANGED <<db, schedules>>
       ELSE /\ db' = View(p)
            /\ schedules' = IF op[p].kind = "remove" THEN schedules \ {Item(p)}
                            ELSE schedules
            /\ Ended(p, "done")
    /\ UNCHANGED op

(* The database aborts a transaction of a deadlock: OperationalError,      *)
(* which all three operations swallow.                                     *)
AbortDeadlock(p) ==
    /\ OnCycle(p)
    /\ Ended(p, "swallowed")
    /\ UNCHANGED <<db, schedules, op>>

Step(p) ==
    \/ ReadSchedule(p) \/ LockSchedule(p) \/ LockOwn(p)
    \/ StartFetch(p) \/ LockRow(p) \/ EndFetch(p) \/ Compute(p)
    \/ Validate(p) \/ WriteRow(p) \/ PlaceNext(p) \/ EndWrites(p) \/ Commit(p)
    \/ AbortDeadlock(p)

(* Requests come when they come.  A schedule may lack its row, since a sync *)
(* that found no position or was a deadlock's victim leaves it without.    *)
Init ==
    /\ db \in Tables
    /\ schedules = Items
    /\ op \in [Procs -> Operations]
    /\ tx = [p \in Procs |-> Fresh("start", 1)]

AllEnded == \A p \in Procs : tx[p].pc = "ended"

Next == (\E p \in Procs : Step(p)) \/ (AllEnded /\ UNCHANGED vars)

(* A handler that can go on does, and the database breaks every deadlock.  *)
Spec == Init /\ [][Next]_vars /\ \A p \in Procs : WF_vars(Step(p))

-----------------------------------------------------------------------------
(* Properties.                                                             *)

Results == {"none", "absent", "done", "gave_up", "swallowed", "died"}

Stages == {"start", "schedule", "own", "fetch", "lock", "validate", "write",
           "commit", "ended"}

Entries == [item : Items, position : Nat]

Writes == [item : Items, row : Rows \cup {NoRow}]

(* What is known of an operation while it runs: the rows it has fetched and *)
(* is to write, its uncommitted rows, the unique keys they have or had, and *)
(* its row locks.  S are the rows it has written.                          *)
Transactions(S) ==
    [pc : Stages, result : Results, attempt : 1..RetryLimit, placing : BOOLEAN,
     own : Rows \cup {NoRow}, groups : Seq(Groups), todo : Seq(Items),
     fetched : [Groups -> Seq(Entries)], writes : Seq(Writes),
     work : [S -> Rows \cup {NoRow}],
     touched : SUBSET ((Groups \X Nat) \cup ({NoRow} \X Items)),
     held : SUBSET ({"row", "schedule"} \X Items)]

(* Type invariant: the committed table holds one row per schedule, and a   *)
(* transaction only what its statements have read, locked and written.     *)
TypeOK ==
    /\ \E S \in SUBSET Items : db \in [S -> Rows]
    /\ schedules \subseteq Items
    /\ op \in [Procs -> Operations]
    /\ DOMAIN tx = Procs
    /\ \A p \in Procs : \E S \in SUBSET Items : tx[p] \in Transactions(S)

(* Sibling positions are 1..n after every commit, although transactions    *)
(* lock rows in stale order, miss rows that arrive and retry               *)
(* (_fetch_group_items_for_update, _persist_group_positions).              *)
Contiguous == Dense(db)

(* A placement that commits puts the row where the client asked, whatever  *)
(* ran beside it (set_schedule_item_order_position).                       *)
PlaceLands ==
    [][\A p \in Procs :
          tx[p].pc = "commit" /\ op[p].kind = "place" /\ tx'[p].result = "done" =>
              db'[Item(p)].position =
                  Clamp(op[p].position, Cardinality(Siblings(db', op[p].group)))]_vars

(* No order row outlives its schedule: a sync that loses the race against  *)
(* delete_schedule cannot bring the row back.                              *)
RowsHaveSchedules == DOMAIN db \subseteq schedules

(* "Retry the transaction to resolve transient UNIQUE collisions": no      *)
(* request dies of a position another one took first                       *)
(* (_run_schedule_item_order_operation_with_retries).                      *)
NoRequestDies == \A p \in Procs : tx[p].result # "died"

(* Row locks taken in conflicting orders never leave requests waiting for  *)
(* each other, and retries come to an end.                                 *)
EveryRequestEnds == <>AllEnded

(* A transaction that runs alone does what the operators of OrderRows say  *)
(* in one step: its two passes of UPDATEs meet no occupied position, from  *)
(* any table, unless the operation as a whole meets one.                   *)
Atomic == INSTANCE OrderAtomic WITH
            rows <- db, ended <- {p \in Procs : tx[p].pc = "ended"}

RunsAtomically == Atomic!Spec

-----------------------------------------------------------------------------
(* The inductive invariant behind TypeOK and RowsHaveSchedules             *)
(* (module OrderTxProofs): what a transaction relies on from one statement *)
(* to a later one, since others run in between.                            *)

(* The rows that only p can change: committed ones it has locked, and the  *)
(* one it has created.                                                     *)
Mine(p) ==
    {i \in DOMAIN db : RowLock(i) \in tx[p].held}
      \cup {i \in Items : ItemKey(i) \in tx[p].touched}

Apart == \A p, q \in Procs : p # q =>
    tx[p].held \cap tx[q].held = {} /\ tx[p].touched \cap tx[q].touched = {}

(* It has fetched, written and is to write its own rows only.              *)
WorksOnItsRows(p) ==
    /\ tx[p].own # NoRow => Item(p) \in Mine(p)
    /\ \A g \in Groups : \A k \in DOMAIN tx[p].fetched[g] : tx[p].fetched[g][k].item \in Mine(p)
    /\ \A k \in DOMAIN tx[p].writes :
          \/ tx[p].writes[k].item \in Mine(p)
          \/ tx[p].writes[k].item = Item(p) /\ tx[p].own = NoRow
    /\ DOMAIN tx[p].work \subseteq Mine(p)

(* The unique keys of what it has written, before and after, are touched,  *)
(* and a row is created for its own schedule, which has no committed one.  *)
TouchesItsKeys(p) ==
    /\ \A i \in DOMAIN tx[p].work : tx[p].work[i] # NoRow => KeyOf(tx[p].work[i]) \in tx[p].touched
    /\ \A i \in DOMAIN db : KeyOf(db[i]) \in tx[p].touched <=> i \in DOMAIN tx[p].work
    /\ \A i \in Items : ItemKey(i) \in tx[p].touched =>
          i = Item(p) /\ i \in DOMAIN tx[p].work \ DOMAIN db

(* It removes a row in delete_schedule only, and only that of its schedule,*)
(* once; it removes it, or creates one if there is none, before the commit.*)
(* A removal that finds no row keeps others from committing one.           *)
RemovesItsRow(p) ==
    LET removes == op[p].kind = "remove"
        started == tx[p].pc \in {"fetch", "lock", "validate", "write", "commit"}
    IN  /\ \A k \in DOMAIN tx[p].writes :
              tx[p].writes[k].row = NoRow <=> removes /\ tx[p].writes[k].item = Item(p)
        /\ \A i \in DOMAIN tx[p].work : tx[p].work[i] = NoRow <=> removes /\ i = Item(p)
        /\ removes => \A k \in DOMAIN tx[p].writes :
              tx[p].writes[k].item = Item(p) => k = 1 /\ Item(p) \notin DOMAIN tx[p].work
        /\ removes /\ (started \/ tx[p].pc = "own") =>
              ScheduleLock(Item(p)) \in tx[p].held /\ Item(p) \in schedules
        /\ removes /\ started => (tx[p].own # NoRow <=> Item(p) \in DOMAIN db)
        /\ removes /\ started /\ tx[p].own = NoRow =>
              tx[p].pc = "commit" /\ tx[p].work = EmptyTable
        /\ (removes <=> tx[p].own # NoRow) /\ tx[p].pc \in {"validate", "write", "commit"} =>
              \/ Item(p) \in DOMAIN tx[p].work
              \/ \E k \in DOMAIN tx[p].writes : tx[p].writes[k].item = Item(p)

(* It writes what it has computed and commits when it has written it; the  *)
(* second fetch of a placement is the only one after writes.               *)
FollowsItsCourse(p) ==
    /\ tx[p].pc \in {"start", "schedule", "own", "ended"} =>
          /\ tx[p].own = NoRow /\ tx[p].work = EmptyTable /\ tx[p].touched = {}
          /\ tx[p].fetched = [g \in Groups |-> <<>>]
    /\ tx[p].pc \notin {"validate", "write"} => tx[p].writes = <<>>
    /\ tx[p].pc \in {"fetch", "lock", "validate"} /\ ~tx[p].placing => tx[p].work = EmptyTable
    /\ tx[p].placing => op[p].kind = "place" /\ tx[p].own # NoRow
    /\ tx[p].pc = "lock" => tx[p].groups # <<>>

Sound(p) ==
    /\ UniqueKeys(View(p))
    /\ WorksOnItsRows(p)
    /\ TouchesItsKeys(p)
    /\ RemovesItsRow(p)
    /\ FollowsItsCourse(p)

OrderTxInv ==
    /\ TypeOK
    /\ Apart
    /\ UniqueKeys(db)
    /\ \A p \in Procs : Sound(p)
    /\ RowsHaveSchedules

-----------------------------------------------------------------------------
(* The inductive invariant behind Contiguous and PlaceLands, from dense    *)
(* tables (module OrderTxProofs): a transaction that writes rows of a      *)
(* group has the whole group to itself, and its statements end in 1..n.    *)

Names(items) == {items[k].item : k \in DOMAIN items}

NamedOnce(items) == \A k, m \in DOMAIN items : items[k].item = items[m].item => k = m

Listed(p, g) == Names(tx[p].fetched[g])

(* The groups whose rows it renumbers in this pass.                        *)
Renumbers(p) ==
    {g \in Groups : \/ tx[p].own # NoRow /\ g = tx[p].own.group
                    \/ op[p].kind # "remove" /\ g = op[p].group}

(* Its row comes to the group, with the first write, or goes.              *)
Arrives(p) ==
    /\ op[p].kind # "remove" /\ ~tx[p].placing
    /\ tx[p].own # NoRow => tx[p].own.group # op[p].group

Moves(p) == Arrives(p) \/ op[p].kind = "remove"

Wrote(p) == Item(p) \in DOMAIN tx[p].work

(* The rows that are to be in the group, as far as it knows.               *)
Members(p, g) ==
    IF op[p].kind # "remove" /\ g = op[p].group THEN Listed(p, g) \cup {Item(p)}
    ELSE Listed(p, g) \ {Item(p)}

(* The row of i in a table after some writes, and when all of p's are done.*)
IsLast(ws, k, i) == ws[k].item = i /\ \A m \in DOMAIN ws : m > k => ws[m].item # i

RowAfter(ws, r, i) ==
    IF \E k \in DOMAIN ws : IsLast(ws, k, i)
    THEN ws[CHOOSE k \in DOMAIN ws : IsLast(ws, k, i)].row
    ELSE IF i \in DOMAIN r THEN r[i] ELSE NoRow

RowInTheEnd(p, i) == RowAfter(tx[p].writes, View(p), i)

(* The groups it has taken rows from or brought rows to: it holds all of   *)
(* their rows, or the first position if there are none.                    *)
Affects(p, g) ==
    \E i \in DOMAIN tx[p].work :
        \/ i \in DOMAIN db /\ db[i].group = g
        \/ tx[p].work[i] # NoRow /\ tx[p].work[i].group = g

LocksItsGroups(p) ==
    \A g \in Groups : Affects(p, g) =>
        /\ \A i \in Siblings(db, g) : RowLock(i) \in tx[p].held
        /\ Siblings(db, g) = {} => <<g, 1>> \in tx[p].touched

HoldsItsRow(p) ==
    /\ tx[p].placing => tx[p].own.group = op[p].group
    /\ tx[p].pc \in {"fetch", "lock", "validate", "write", "commit"} /\ tx[p].own # NoRow =>
          IF Wrote(p) THEN Affects(p, tx[p].own.group)
          ELSE Item(p) \in Siblings(db, tx[p].own.group) /\ RowLock(Item(p)) \in tx[p].held

(* While it fetches, its lists are true, and that of its own row's group   *)
(* is complete, since that row is locked.                                  *)
Remaining(p) == {k \in DOMAIN tx[p].groups : tx[p].pc = "lock" => k > 1}

Waiting(p, g) ==
    {tx[p].todo[k] : k \in {m \in DOMAIN tx[p].todo : tx[p].pc = "lock" /\ Head(tx[p].groups) = g}}

Tells(p, g, e) ==
    e.item \in DOMAIN View(p) /\ View(p)[e.item] = [group |-> g, position |-> e.position]

ListsRows(p) ==
    tx[p].pc \in {"fetch", "lock"} =>
        /\ Dense(View(p))
        /\ tx[p].own # NoRow => Item(p) \in DOMAIN View(p) /\ View(p)[Item(p)] = tx[p].own
        /\ \A g \in Renumbers(p) : \A k \in DOMAIN tx[p].fetched[g] : Tells(p, g, tx[p].fetched[g][k])
        /\ \A k \in DOMAIN tx[p].groups : tx[p].groups[k] \in Renumbers(p)
        /\ \A k, m \in DOMAIN tx[p].groups : tx[p].groups[k] = tx[p].groups[m] => k = m
        /\ \A k \in Remaining(p) : tx[p].fetched[tx[p].groups[k]] = <<>>
        /\ tx[p].pc = "lock" =>
              /\ \A k, m \in DOMAIN tx[p].todo : tx[p].todo[k] = tx[p].todo[m] => k = m
              /\ \A k \in DOMAIN tx[p].todo : tx[p].todo[k] \notin Listed(p, Head(tx[p].groups))
        /\ tx[p].own # NoRow =>
              \/ \E k \in Remaining(p) : tx[p].groups[k] = tx[p].own.group
              \/ Siblings(View(p), tx[p].own.group) \subseteq
                    Listed(p, tx[p].own.group) \cup Waiting(p, tx[p].own.group)

(* While it writes, it keeps every row but its own in its group; the list  *)
(* of a group it brings its row to is complete when that row is written.   *)
Complete(p, g) == (tx[p].own # NoRow /\ g = tx[p].own.group) \/ Wrote(p)

WritesItsLists(p) ==
    tx[p].pc \in {"validate", "write"} =>
        /\ \A g \in Groups \ Renumbers(p) : DenseGroup(View(p), g)
        /\ \A g \in Renumbers(p) : \A i \in Listed(p, g) :
              i \in Siblings(View(p), g) \/ (Moves(p) /\ i = Item(p))
        /\ \A g \in Renumbers(p) : Complete(p, g) =>
              Siblings(View(p), g) \subseteq Listed(p, g) \cup {Item(p)}
        /\ \A k \in DOMAIN tx[p].writes :
              LET w == tx[p].writes[k]
              IN  IF Moves(p) /\ w.item = Item(p) THEN k = 1 /\ ~Wrote(p)
                  ELSE \E g \in Renumbers(p) :
                          w.item \in Listed(p, g) /\ w.row # NoRow /\ w.row.group = g
        /\ Arrives(p) /\ tx[p].own # NoRow => Item(p) \notin Listed(p, op[p].group)

Arrival(p) == Write(Item(p), op[p].group, Len(tx[p].fetched[op[p].group]) + 1)

ArrivesFirst(p) ==
    tx[p].pc \in {"validate", "write"} /\ Arrives(p) =>
        IF Wrote(p) THEN tx[p].work[Item(p)] # NoRow /\ tx[p].work[Item(p)].group = op[p].group
        ELSE /\ tx[p].work = EmptyTable
             /\ tx[p].writes # <<>> /\ tx[p].writes[1] = Arrival(p)
             /\ tx[p].own = NoRow => Len(tx[p].writes) = 1

(* Its writes end in an order of the rows that it knows; a new row may     *)
(* miss others until it is written.                                        *)
EndsInOrder(p) ==
    tx[p].pc \in {"validate", "write"} =>
        /\ tx[p].own # NoRow \/ Wrote(p) =>
              \A g \in Renumbers(p) :
                  /\ \A i \in Members(p, g) :
                        /\ RowInTheEnd(p, i) # NoRow /\ RowInTheEnd(p, i).group = g
                        /\ RowInTheEnd(p, i).position \in 1..Cardinality(Members(p, g))
                  /\ \A i, j \in Members(p, g) :
                        RowInTheEnd(p, i).position = RowInTheEnd(p, j).position => i = j
        /\ tx[p].placing =>
              RowInTheEnd(p, Item(p)).position =
                  Clamp(op[p].position, Cardinality(Members(p, op[p].group)))

Closes(p) ==
    tx[p].pc = "commit" =>
        /\ Dense(View(p))
        /\ op[p].kind = "place" =>
              /\ tx[p].placing /\ Item(p) \in DOMAIN View(p)
              /\ View(p)[Item(p)].position =
                    Clamp(op[p].position, Cardinality(Siblings(View(p), op[p].group)))

Orderly(p) ==
    /\ \A g \in Groups : NamedOnce(tx[p].fetched[g])
    /\ LocksItsGroups(p)
    /\ HoldsItsRow(p)
    /\ ListsRows(p)
    /\ WritesItsLists(p)
    /\ ArrivesFirst(p)
    /\ EndsInOrder(p)
    /\ Closes(p)

GroupsInv ==
    /\ OrderTxInv
    /\ Dense(db)
    /\ \A p \in Procs : Orderly(p)

=============================================================================
