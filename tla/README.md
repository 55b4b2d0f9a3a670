# A TLA+ model of Taiga's schedule

This is a verification project for the Taiga backend with schedule management:
a Django 3.2 application over PostgreSQL. Its own core is
`src/taiga/projects/schedule/`, which gives epics, user stories and tasks
dates, dependencies, colours and an order among their siblings, and keeps all of
that in step with the rest of the application through signal handlers. The
models here are about that core and about the parts of the rest that keep one
piece of state in step with another: versions and history, closing, counters,
boards, ownership. This file says what they stand for, what the checks and the
proofs show, and what is left.

All line numbers are of files under `src/taiga/`; `services.py` is
`projects/schedule/services.py`.

## 1. The system

### 1.1 The schedule subsystem

| State | Where | Kept in step by |
| --- | --- | --- |
| `Schedule`: one row per epic, story or task, with estimated and actual start, due date, colour | models.py 13-59 | `upsert_schedule` (services.py 440-485), called by every `post_save` handler (signals.py 14-94) and by the schedule API |
| `ScheduleItemOrder`: group (project, kind, parent) and position of a schedule among its siblings; (group, position) is unique | models.py 155-260 | `sync_schedule_item_order` (228-244), `set_schedule_item_order_position` (259-298), the epic-wide reindex (301-392), `delete_schedule` (403-437) |
| `ScheduleDependency`: target starts after the source is due | models.py 62-152 | `clean` on creation; `propagate_dependency_chain_forward_from_schedule` (934-1004) afterwards |
| the due date of a task or story, a second copy of the schedule's | task and story models | handlers copy it to the schedule, shifts and widenings copy it back (834-849, 1049-1060) |
| `RelatedUserStory`: the epics of a story, each with an order; the first by (order, id) is primary and decides the story's group, colour and parent | epics/models.py 105-119 | epics/api.py, epics/services.py, and the handlers in signals.py 101-118 |

A request enters through a REST view, changes entities, and the rest happens in
signal handlers that run synchronously inside the request:

    view -> Model.save() -> post_save -> upsert_schedule -> sync_schedule_item_order
                                      -> ensure_*_bounds  -> (widen parent -> propagate)
                                      -> propagate chain  -> (shift -> ensure_*_bounds ...)

`update` and `destroy` run in one transaction (base/api/mixins.py 156, 226);
`create` and most list routes do not. `settings/common.py:80` sets
`ATOMIC_REQUESTS` at module level, where Django ignores it. Each order operation
opens its own (nested) transaction and is retried on `IntegrityError`;
`OperationalError` is swallowed.

### 1.2 The other components

| Component | State and operations | What would make it correct |
| --- | --- | --- |
| optimistic concurrency and history (projects/occ, base/api/mixins.py, base/decorators.py, projects/history) | a version per entity, an advisory lock per item, entries with the fields that changed | no update is overwritten by one that did not see it; the history ends in the row |
| boards (userstories/services.py, services/bulk_update_order.py, mixins/on_destroy.py) | cell and order of every story on kanban, backlog and sprints | the dragged items end where they were dropped and nobody else changes place |
| stories, tasks, issues, milestones | CRUD, promotion, closing of a story by its tasks and of a milestone by its stories, tasks and issues | a story is closed exactly when its tasks are |
| votes, likes, watchers | rows and, of votes and likes, a counter beside them | counter equals number of rows |
| projects and memberships | owner, admins, transfer token | an owner that is an admin; a project somebody can administer |
| notifications | change notifications accumulated per user and sent later | each change is sent once |
| references | numbers from a sequence per project | no number is given twice |
| authentication, throttling | tokens, denylist; request windows in the cache | a denied token stays denied; no window admits more than its rate |
| events, timeline, webhooks | messages after commit | only committed changes are announced |
| wiki, attachments, custom attributes, tagging, users, importers, hooks, export, statistics, searches, framework | CRUD, parsing, rendering | mostly data conversion |

`PROJECT.json` lists each with its files and why it is or is not modelled.

### 1.3 What is hard here

- Handlers read what another operation of the same request is about to change:
  the reorder of an epic defers its `UPDATE` to the commit (base/utils/db.py 155)
  while the handler that reindexes the schedule already runs; the reindex
  compares positions cached before its own loop changed them (services.py 103).
- Order operations lock rows in an order fixed before they wait, so that
  concurrent ones see stale lists, deadlock, collide and are retried.
- Widening and propagation call each other recursively over a graph of parents
  and dependencies.
- Validation of a bulk update runs after its side effects, on a mixture of new
  rows and instances read at first.
- Some errors are swallowed, others end a request half way.
- A check and the write it protects are apart: the version is checked under a
  lock that is released before the commit, the last admin is looked for before a
  membership goes, a vote is looked up under a lock and deleted after it.
- Handlers judge some paths and not others: updates of a table, bulk creations
  that disconnect the handlers, statuses that change under their items.
- A drop of several stories is three statements, and so is what comes between.

`PROJECT.json` lists these and the others under "hazards", each with the line
where it bites and the properties that would notice.

## 2. Modules

    OrderRows            positions of siblings as pure operators on the table
      OrderRowsLemmas      what those operators preserve (proved)
      ItemOrder            the order subsystem, one request at a time
        ItemOrderProofs      contiguity, one row per item, rows follow parents (proved)
        MCItemOrder          instances for TLC
      OrderTx              order operations as concurrent transactions
        OrderTxProofs        no row without its schedule, contiguity, placements land (proved)
        OrderTxAloneProofs   alone, a transaction is one step of OrderAtomic (proved)
        MCOrderTx
      OrderAtomic          what one order operation promises
    ScheduleDates        dates, dependencies and bounds, one request at a time
      ScheduleDatesProofs  copies agree, parents contain, bulks are consistent (proved)
      MCScheduleDates
    Widening             a story and its tasks saved at once, statement by statement
      Backend              the parts side by side
        BackendProofs        history, counters, ownership, widening (proved)
        ClosingProofs        stories and milestones follow their work (proved)
        BoardProofs          drops, places and bystanders on the boards (proved)
        MCBackend
    Edits                versions, locks and history of one item
    Colours              inherited and chosen colours
    Closing              when stories and milestones are closed
    Counters             votes and likes beside their counters
    Boards               kanban, backlog and sprints
    Ownership            owner, admins and transfer of a project

`OrderTx` composes with the rest through `OrderAtomic`: run alone, its
statement-by-statement transactions refine the one-step operators of `OrderRows`
that `ItemOrder` runs in sequence.

### 2.1 OrderRows and ItemOrder

`rows` is the table `ScheduleItemOrder`: a function from items to group and
position. `OrderRows` translates the helpers of services.py 41-180: `MoveWithin`
and `MoveAcross` are the two halves of `_move_order_item_between_groups`,
`CreateRow` and `DeleteRow` the creation and the removal with its renumbering.

`ItemOrder` adds the entities that decide a row's group. An item's `Schedule` is
named by the item. `live` are the items that exist, `story` is `Task.user_story`,
`related` the `RelatedUserStory` rows in id order. Each request of a client is an
action (`CreateEpic`, `CreateStory`, `CreateTask`, `SaveItem`, `SaveEpic`, `MoveTask`,
`Relate`, `Unrelate`, `Reorder`, `BulkCreate`, `SetPosition`, `DeleteTask`,
`DeleteStory`, `DeleteEpic`): it changes entities and leaves in `job` the
database operations the handlers will run, in their order, with the cascades of a
deletion included. The stories of one bulk creation are of one project, which need
not be the epic's. A reorder and a bulk creation sync the stories they name before
the reindex and, with their colours, again after it (signals.py 116-118). Each
operation is a step (`StepSync`, `StepPlace`,
`StepRemove`, `StepRelate`, `StepOnCommit`); the epic-wide reindex is several
(`StepBulk`, `StepCollect` per story, `StepReindex`), with its state in `bulk`:
the instances collected so far with the positions they had then, and the table
to return to if a collision rolls the reindex back (`ReindexFails`,
`CollectFails`; then `dropped` is set).

### 2.2 OrderTx and OrderAtomic

A process is a request handler that runs one operation (sync, place or remove).
`tx[p]` holds its program counter, the row lists it has fetched, its pending
writes, its uncommitted rows (`work`) and its locks; `db` is the committed
table. A `SELECT ... FOR UPDATE` fixes rows and order when it starts
(`StartFetch`), locks one by one (`LockRow`) and reads values once locked
(`EndFetch`); writes go row by row in the two passes of `_persist_group_positions`
(`WriteRow`); a write to a key another transaction has touched waits for it;
`Validate` is `full_clean` before an insert, which looks for the schedule, for a
row it has already and for another row at the position; `Commit` checks the
deferred foreign key, and waits for a removal that holds the schedule's lock.
`IntegrityError` retries up to `RetryLimit`, `AbortDeadlock` ends a
transaction on a cycle of waits. A schedule may be without a row at the start, as
an operation that was swallowed leaves it. The parts that stand for PostgreSQL itself are
marked external in the map: the unique constraint as PostgreSQL keeps it among
running transactions is `touched`, the unique keys a transaction has written,
before and after.

### 2.3 ScheduleDates

`sched` holds the dates of every schedule, `due` the copies on tasks and stories,
`links` the dependencies, `story` and `epics` the parents. A request
(`SaveEntity`, `SaveEpic`, `MoveTask`, `Relate`, `CreateLink`, `DeleteLink`,
`BulkApply`) makes its own change and pushes activations of the services on
`calls`; `StepEnsure`, `StepPropagate` and `StepTarget`
are one turn of the innermost one, and push what it calls. `StepRespond` ends the
request, for a bulk after the validation. `StepEpicFails` is the shift of an
epic, which raises `FieldDoesNotExist` after the schedule is written
(`Epic` has no `due_date`, services.py 846): it undoes the request if the request
is one transaction, and leaves it half done otherwise. The order in which the dependents of one
schedule are visited is not specified by the query and is left open (`Orders`).

### 2.4 Widening

A handler saves the story or one of its tasks in a transaction. `ReadStory` is
the `SELECT` of the story's schedule, without lock, on which
`_build_expand_bounds_updates` decides; `WriteStory` writes one copy of the due
date and takes its row lock, the schedule first for a task, the story's row
first for a story; `Commit` shows both; `Deadlock` rolls one of two transactions
back that wait for each other. `crossed` and `ending` are history variables that
say which saves another one overlapped.

### 2.5 Edits

`item` is the committed row, in which every field holds the number of the edit
that wrote it (negative for a bulk edit); `entries` are the history entries. An
update of a handler goes through `Read` (the view loads the instance before
`update` opens its transaction), `Lock` (`model_pk_lock`), `Check`
(`_validate_and_update_version`), `Save` (every column of the instance, version
+ 1), `Record` (`take_snapshot`), `Unlock`, `Commit`. `SideWrite` and
`SideRecord` are what goes round the version: bulk edits and entries about
attachments or custom attributes.

### 2.6 Colours

`colour` is the colour of every schedule (and of an epic's row, which is written
together with it), `related` the relations in id order, each with an order.
Actions are the requests with the handlers that synchronise colours; `Reorder`
shifts the other relations of the epic after that, as the deferred update does.
What `DeleteEpic` leaves of `related` is stated by an increasing enumeration of
the rows that stay.

### 2.7 Closing

`board` holds the rows as the handlers see them, `is_closed` of the statuses
included; it is passed through the handlers as a value, in their order:
`StorySaved` and `TaskSaved` are the `post_save` chains, `Flipped` the nested
save of a story that is closed or opened, `Judged` the closing or opening of
milestones. `jobs` are the calls for the worker, which `Work` runs at any later
time; without Celery (the default) that is at once.

### 2.8 Counters

Votes: `StartVote`, `TakeLock`, `LookUp`, `Insert` or `Delete`, `UpdateCount`,
`Commit`, with the advisory lock left where the code leaves it. Likes have no
lock: `StartLike`, `LookUp`, `Insert` or `Delete`, then `CountFans` and
`SaveFans` of `refresh_totals`.

### 2.9 Boards

`place` is the cell of a story (swimlane or sprint), `order` its order in each
column of the table. A drop is `StartDrop` (rows are read and the new orders
computed), `NumberDrop` and `PlaceDrop`, one statement each. A drop is marked
`crossed` when another request comes in between that touches one of its stories,
one of those it renumbers or its cell; what it leaves then is the work of two
readings. `OrdersApplied` is
`apply_order_updates`, used by `MoveOnBacklog` and `MoveToSprint`: a turn per new
position (`Shifted`), in the order of the positions. `Sorted` gives a story the
place that others come before, which is the query's `ORDER BY order, id`.
`DeleteSwimlane`, `DeleteStatus` and `DeleteSprint` are what happens to the
stories of a cell that goes.

### 2.10 Ownership

A request that checks first (`AskTo...`) keeps what it read in `doing` and
writes later (`Remove`, `SetAdmin`, `AcceptAsAdmin`, `SaveProject`, which writes
all columns of the copy); `Join`, `Reassign` and `Cancel` are one step.
`crossed` marks requests that another one has overtaken.

### 2.11 Backend

These parts share the rows of a story and of its project, but each looks only at
its own columns; what a save of a whole stale row does to the columns of others
is what `Edits` (and, of a project, `Ownership`) is about. `Backend` therefore composes them by choice: `part` names the one that runs, and
the variables of the others stay at `Off`. It restates their properties, each
for its part.

## 3. Runs

Every run ends with a complete search of its state space.

| Run | Question | Instance |
| --- | --- | --- |
| requests | Do positions stay 1..n, does every item keep one row, do rows follow their parents, and is nobody reordered behind a client's back? | 2 epics, 2 stories, 2 tasks, at most 3 relations with orders 0..1, positions 0..2; up to symmetry of the items |
| reorder | Does the epic-wide reindex from stale instances follow the relations, and is the inductive invariant of the proof one? | 2 epics, 3 stories, 4 relations with any orders 0..2, every initial sibling order |
| projects | With stories of another project under an epic, do creations still find a free position, and is the inductive invariant about rows and their items one, in the middle of requests and of reindexes that are rolled back? | 1 epic, 1 story of its project, 2 of another, 3 relations |
| stale (violation) | Does the reindex ever meet an occupied position? | as reorder |
| gap (violation) | Are positions contiguous across projects too, when no request is under way? | as projects |
| races | Do three concurrent requests ever commit a gap, a row without its schedule, or a misplaced row? | 3 handlers, 8 operations on two groups and 4 items, the removal of a schedule whose row is being created among them; up to symmetry of the handlers |
| pairs | Do waits and retries end? | 2 handlers, 8 operations that lock both groups, with and without a gap |
| alone | Do the statements of one transaction add up to the one-step operators? | 1 handler, every table of 3 rows on positions 1..4 in two groups, 26 operations |
| create_race (violation) | Is a lost race for a position always retried? | one handler creates a row in a group, the other moves another schedule's row into it |
| dates | Do the two due dates agree, are dependencies broken only where the code widens, are accepted bulks consistent, do parents contain what was edited, is nothing due earlier behind a client's back, and does every request end? | 1 epic, 2 stories, 3 tasks, two of them in one story; three initial plans; two requests in a row |
| ancestors (violation) | Does an accepted bulk spare the story its task belongs to? | as dates |
| parts | Of each part: is a field that was named ever overwritten unseen but where the code hides it, does the history end in the row and has every save its version (Edits); are inherited colours in step and chosen ones kept (Colours); are stories and milestones closed just when their work is (Closing); do counters count (Counters); do drops land together, on free places, and leave bystanders alone (Boards); has the project an owner and an admin (Ownership); do the two due dates of a story agree, and contain its tasks (Widening)? | below; up to exchange of the handlers, and of the other pairs at once |

Bounds. `MaxOrder`, `MaxPosition` and `MaxRelated` bound what clients can choose:
three siblings with all relative orders exhibit every case of the renumbering
(before, at, after the moved row; ends; out of range), and the proofs are free of
those bounds. In `OrderTx`, three handlers allow an arrival, a departure and a
reorder of one group at once; the retry limit is the code's own.
In `ScheduleDates`, `MaxRequests = 2`, so that each request also starts from what another
one left behind, inconsistent plans included; `MaxIterations = 10` replaces
the code's 10000 and is never reached with acyclic links (no propagation of the run takes seven).

In `parts` there are two handlers everywhere. `Edits`: two fields and three
requests, so that a third one meets what two others did to each other's checks.
`Colours`: two epics, two stories, a task, three relations with orders 0..1: a
story with two epics and an epic with two stories, with ties of order. `Closing`:
two stories, a task, an issue, two milestones, two statuses, every initial
combination of them in one milestone, two requests and the jobs they leave. `Counters`: two
users, at most two removals that miss. `Boards`: four stories, of which one or
two are dropped, two lanes, two requests, so that drops cross each other and
saves; positions 2 and 3 lie between, before and after the orders 1..4; `Gap` is
the distance of two `timestamp_mics`. `Ownership`: three users and three
requests, so that both parties of a race and a third one that follows them fit.
`Widening`: two tasks, dates 1..3. Requests are bounded, so that a behaviour may
end: deadlock is not checked there.

What the violations show:

- **stale.** `_persist_group_positions` says "Avoid transient UNIQUE collisions
  while reindexing siblings" (services.py 110). It skips rows by cached position
  (103); the loop that collected the instances has since renumbered some of
  them, so that a skipped row still occupies a position another is given. All
  retries fail the same way and the schedule keeps the old order.
- **gap.** The reindex compares parents but not projects; a story of another
  project is numbered by its place in the mixed list. The request syncs the stories
  it names once more, which closes the gap in their groups, but not that of another
  story: after a reorder of the epic's own story, the other project's group is
  not 1..n, against `tests/integration/test_schedule_position_api.py:81`.
- **create_race.** A schedule gets its first row in a group while another
  schedule's row moves into it; both compute the position after the last.
  `ScheduleItemOrder.save` calls `full_clean`, whose `ValidationError` for the
  position the arrival has taken is neither retried nor caught, against the
  comment at services.py 217.
- **ancestors.** The object built for a task's validation (1425) has no user
  story, so `get_ancestor_dependency_start_violation_error` returns before it
  checks anything, against
  `tests/integration/test_schedule_dependencies.py:177`.

Observations that no statement of the repository contradicts, and which the
properties therefore allow: a story that was shifted behind its source is pulled
back by the next widening from one of its tasks, even later in the same bulk
(`OnlyWideningBreaks` excludes items that contain, at any depth, an edited item
or one that starts too early); a story without a due date, which gets one from
one task of an accepted bulk, is not compared with its other tasks
(`AcceptedIsConsistent` excludes that); an order operation that is a
deadlock victim is lost silently; a crash on an epic leaves the rest of its chain
where it was.

The properties of `parts` carry further exceptions of this kind. Each names what
the code does not guarantee; the run shows that it does everywhere else:

- `NamedFieldsAreChecked`: an update overwrites a field its client did not see
  if a bulk edit wrote it, if an entry without version stands in the window of
  entries that is compared, or if the other update had released the lock and not
  committed.
- `HistoryTellsTheRow`: a field that an entry without version told last may be
  out of date. Such an entry, of a bulk edit or about attachments, compares with
  the row it reads, and comes after the entry of a save under way that the row
  then ends in.
- `OnlyReorderLosesColour`: a reorder leaves a story whose relation it shifts in
  the colour of before.
- `StoriesFollowTheirTasks`, `ClosedMeansNothingOpen`, `DoneMilestonesClose`:
  deleting a status, bulk creation of stories and issues, `bulk_update_milestone`
  and a client that writes `closed` judge nothing; an edited status of tasks or
  issues judges no milestone; a save that moves a story and closes or opens it
  forgets the milestone it left, since the nested save overwrites
  `instance.prev`.
- `OnlyRacedRemovalsMiscount`: two removals of one vote that pass the check
  together count twice. `FansRecounted`: overlapping likes miss each other until
  the next one.
- `DropsLandTogether`, `BystandersKeepTheirOrder`: drops that cross each other
  write orders of two readings; several stories moved to a sprint at once can
  push two of it to one place.
- `OwnerStaysAdmin`, `SomebodyAdministers`: two requests that checked before
  either wrote; an edit of the owner's membership that names another user; the
  last admin's account cancelled.
- `OnlyCrossedSavesLoseWidening`: overlapping saves, and a due date a client
  gives the story, which nothing compares with its tasks.

## 4. Fairness

The safety runs need none. `OrderTx` assumes weak fairness of each process'
steps: a handler that can execute its next statement eventually does, and
PostgreSQL aborts a transaction of every deadlock (`AbortDeadlock` is one of the
steps). `ScheduleDates` assumes weak fairness of `Step`: a request that has begun runs
on in its own thread, no other request is needed for it to end. Requests
themselves are never required to arrive. `Backend` and its parts state safety
only and assume nothing.

## 5. Proofs

Every theorem holds for all values of the constants that satisfy the named
assumptions; TLC evaluates those on every run. The assumptions only say what the
constants are: finite sets of items whose kinds are disjoint, dates and bounds
that are naturals, a `Root`, `Free`, `NoItem`, `NoRow` that is no item. No bound
on requests, positions, dates or retries enters a proof. Where a theorem needs
more it is said below.

### 5.1 Order: `ItemOrderProofs`, `OrderRowsLemmas`

| Theorem | Inductive invariant | Needs |
| --- | --- | --- |
| `TypeCorrect`, `IInvHolds`, `ContiguousHolds`, `CreateNeverCollidesHolds` | `IInv` | `OneProjectOnly` |
| `BystandersKeepTheirOrderHolds` | `IInv` | `OneProjectOnly` |
| `ReindexInvHolds`, `ReindexFollowsRelationsHolds` | `IInv` and `ReindexInv` | `OneProjectOnly` |
| `RowInvHolds`, `EveryItemHasItsRowHolds` | `RowInv` | nothing more |
| `HomeInvHolds`, `RowsFollowParentsHolds` | `IInv`, `RowInv` and `HomeInv` | `OneProjectOnly` |

`OneProjectOnly` puts all items in one project: run gap shows that positions have
gaps without it, even between requests.

`Contiguous` alone is not inductive: the reindex can roll back to a
table saved earlier, or renumber rows of another group. `IInv` adds that the
table is dense (every group has positions 1..n, no two rows share one), that the
saved table of a running reindex is dense as well, that the collected stories are
distinct, are not also still to be collected and sit in the epic's group, and
that no (epic, story) pair has two relations, neither now nor in an update that a
commit is still to write. The lemmas of `OrderRowsLemmas` say that moving within
a group, moving across, creating and deleting take dense tables to dense tables;
`ReindexDense` that a reindex that does not collide does, since it permutes
positions of one group. A dense group of n rows has position n+1 free, whence
`CreateNeverCollides`.

The action property `BystandersKeepTheirOrder` follows from what these moves do to
the order, which `OrderRowsLemmas` states for any table: `ORDER BY position` lists rows by
position (`SortByOrder`), the renumbering keeps the order of the list
(`PersistKeepsOrder`), and two dense numberings of one group that agree on one row
and on the order of the others are the same (`SameOrderSamePlaces`). So the sync of
a row that is where its parent is changes no position (`MoveWithinStays`), and a row
that leaves a group only lowers those behind it (`MoveAcrossOrder`).

A reindex skips every instance whose cached position is its index, and the syncs
of the loop have moved rows since that position was read.
`ReindexFollowsRelations` holds nevertheless. `ReindexInv` says why, for the
middle of the loop: the stories under the epic that the loop has had are kept in
relation order, and none is behind its cached position. At the end, a reindex that meets no
occupied position finds each skipped row at a position that no renumbered row
gets, hence at the index of a skipped one, and not behind its own; of the skipped rows that
are not at their index take the first: it is at the index of an earlier one,
which is there already (`ReindexPlaces`). So every row ends at its index.

`EveryItemHasItsRow` speaks of the time between requests. In the middle of one,
`RowInv` says where a missing row still comes from: a `sync` of the item in the
queue of operations. For that it must say what queues look like (`QueueFits`):
they sync and place living items, nothing but syncs and a deferred write of
relations comes after a reorder, and what that writes are the pairs there are. A reorder
that is rolled back returns to a table with a row for every item (`BulkRows`).
Positions do not occur in it, so that it needs no assumption on projects.
`HomeInv` adds that a row that is not under the parent its relations say is
about to be synced or removed, before any reorder.

### 5.2 Concurrent order operations: `OrderTxProofs`, `OrderTxAloneProofs`

| Theorem | Inductive invariant | Needs |
| --- | --- | --- |
| `OrderTxInvHolds`, `TypeOKHolds`, `RowsHaveSchedulesHolds` | `OrderTxInv` | nothing more |
| `GroupsInvHolds`, `ContiguousHolds`, `PlaceLandsHolds` | `OrderTxInv` and `GroupsInv` | `DenseTables` |
| `RunsAtomicallyHolds` | `OrderTxInv` and `AlonePart` | one process |

`OrderTxInvHolds`, and from it `TypeOKHolds` and `RowsHaveSchedulesHolds`, for any
numbers of handlers, schedules and groups, any retry limit and from any table
that satisfies the unique constraint, dense or not (`OrderTxAssumption`).

That a sync never brings back the row of a removed schedule depends on what a
transaction may rely on from one statement to the next. `OrderTxInv` says it in
parts. `Apart`: no two transactions hold one lock or have touched one unique key.
`WorksOnItsRows`: the rows in its lists, pending and uncommitted writes are
locked by it, or created by it. `TouchesItsKeys`: the keys of all it has
written are touched, those of committed rows exactly when it has written them; so another transaction's
commit cannot collide with its view, and `UniqueKeys(View(p))` is kept by
the commits of others and by its own (`CommitLeavesOthers`, `CommitKeeps`).
`RemovesItsRow`: a removal holds the lock of its schedule and has removed the row
by the time it commits, and nothing else deletes; if it finds no row, nobody can
commit one meanwhile, since that takes the lock (`InsertsBehindNoRemoval`).
`FollowsItsCourse`: it has
written nothing where its stage says so. `RenumberingShape` and `WithoutShape`
say what the two passes of `_persist_group_positions` write.

`DenseTables` says that the tables to start from have positions 1..n in each
group, without which `Contiguous` is false at the start. From such a table no
interleaving, collision, retry or deadlock victim leaves a gap (`ContiguousHolds`),
and a placement that commits has put its row at the clamped position
(`PlaceLandsHolds`), again for any numbers of handlers, rows and groups.
`GroupsInv` is why, `Orderly(p)` for each transaction. A fetch may miss rows that
arrive after it has started, so its list is complete only if the own row is in
the group: that row is locked, and whoever moves another row in or out would
have to lock it too (`ListsRows`, `HoldsItsRow`). Whoever has written in a group
holds all of its committed rows, or position 1 if there are none
(`LocksItsGroups`); so two transactions never write in one group
(`Exclusive`), and a commit leaves the lists of others true
(`CommitLeavesOrder`). A row that is brought to a group is written first, at the
position after the listed ones (`ArrivesFirst`): if the list has missed a row,
that position is taken and the statement fails; if not, the list is complete
from then on (`ArrivesAtTheEnd`). `EndsInOrder` says that what remains to be
written takes every listed row to its index, which the temporary positions of
the first pass do not disturb (`RenumberingEnds`); `ComputeWrites` is where the
code's four cases establish it.

`RunsAtomicallyHolds` is the refinement. With one process, and from any table with
the unique constraint, gaps included, every step is a stutter or `Run` of `OrderAtomic`:
the table changes at the commit, to `Result` of the operation, and a transaction
that fails for good ends as the operation that was refused. `AlonePart`
relates each stage to the table found at the start. While it fetches, its lists
are a prefix of `FetchGroup` of the table, `todo` the rest (`Reads`). Once it has
computed, its statements *lead* from the present table to that of the operation
(`Leads`): in the end every row is the one promised, and no statement meets a
position that is taken when it runs (`Clear`). The second is where the two
passes of `_persist_group_positions` matter: the first moves the rows that change
behind the largest position, the second to their indexes, and neither meets the
other's rows nor one that stays. The exception is a row that comes to a group whose
next position is taken, which a table with gaps allows (`Blocked`): then the
first statement fails, after each retry again, and the operation too leaves the
table as it was. A placement is two passes, the first to the table of the sync
(`Base`), the second from there (`Goal`).

### 5.3 Dates: `ScheduleDatesProofs`

`TypeOKHolds`, `DueCopiesAgreeHolds`, `AcceptedIsConsistentHolds`,
`ParentsContainEditedHolds` and the action property `NoDuePulledBackHolds`, for
any items, plans, links (cycles included), requests and iteration bounds
(`DatesAssumption`), from `DatesInv`. What a
request will still do is in `calls`, so the invariant speaks of it: the response
is the last call (`RespondsLast`); an edited item's parents contain it, or its
`ensure` is still to run (`EditedContained`); the due date that a bulk will
validate, on an instance read at first, is no later than the row's
(`ValidatedInTime`, whence `AcceptedIsConsistent`); and what a rolled-back request
returns to has agreeing copies too.

### 5.4 Widening: `BackendProofs`

`WideningTypeHolds`, `CopiesAgreeHolds` and `WideningIsKept`
(`OnlyCrossedSavesLoseWidening`), for any numbers of tasks, handlers and dates
(`WideningAssumption`). `CopiesAgree` needs the lock discipline
`LocksFollowSteps`: a transaction that commits holds both rows of the story or
neither, so that it shows both due dates at once. For the action property
`WideningInv` adds `UncrossedSaves`: a save that no other has overlapped is the
only one under way, so that what it read of the story is still true, and
it either writes a date that is not earlier or has seen that the task is not due
later. `UncrossedCommit` is the step from the invariant to the property.

### 5.5 Versions and history: `BackendProofs`

`HistoryTellsTheRowHolds` and `EverySaveHasItsVersionHolds`, for any fields,
handlers and numbers of edits. `EditsInv` follows each update through its
stages (`SaveInv`): whoever has checked has not necessarily the row's version,
but whoever has written holds the row, so that its version is the next one and
nobody's write comes between; until it commits, only entries without version
can follow its own. `Tells` says of a prefix of the history in which value of a field it ends, which
is what `Rebuilt` computes.

`NamedFieldsAreCheckedHolds` needs what clients saw as well (`ReadersInv`). For
each there is a length `m` of the history at which its copy was true
(`Looked`), and of the entries after `m` no more carry a version than versions
have passed, as long as no entry without version follows: those are the entries
that `ModifiedFields` looks through, so that a request that passes the check
finds none of its fields there. The advisory lock keeps it true until the save
(`CheckInv`): the only entries that come between are those of requests that had
given the lock back and not yet committed when it was taken, which is `late`.

### 5.6 Counters and ownership: `BackendProofs`

`OnlyRacedRemovalsMiscountHolds` and `FansRecountedHolds` from `CountersInv`, for
any users and requests: the row of a counter is locked from the statement that
changes it to the commit (`RequestInv`), so that what a transaction is to commit
is the number of rows it will leave; two that have changed rows have changed
those of different users, and two likes that run at once both know it (`Apart`).
`OwnerStaysAdminHolds` and `SomebodyAdministersHolds` from `OwnershipInv`: what a
request has checked is still so when it writes, unless it is marked crossed
(`AsChecked`).

### 5.7 Closing: `ClosingProofs`

`StoriesFollowTheirTasksHolds`, `ClosedMeansNothingOpenHolds` and
`DoneMilestonesCloseHolds`, for any stories, tasks, issues, milestones, statuses
and requests. `ClosingInv` is short: every row has its fields, and a task that
exists is in a story that exists, which `DeleteStory` keeps by taking the tasks
along. (`ClosingAssumption` says that `Gone`, which stands for a missing row, is
no row.) The properties are about single steps, so the proof is about
boards: `Tends(b, c)` says that on the way from board b to c every story that was
right stays right and every milestone has been judged on its final work or has
the work it had; it composes (`TendsAfter`), closing and opening stories and
judging milestones have it (`FlipsTend`, `JudgedTends`), and what a request does
before its handlers is compared by `LessWork` and `StoryAlike`. A deletion only
takes work away, so that a closed milestone may stay closed and the one left is
looked at (`ClosedOnlyKeeps`). `StorySavedKeeps` is the exception in the code: a
story that moves and is flipped at once leaves its old milestone unjudged.

### 5.8 Colours: `BackendProofs`

`OnlyReorderLosesColourHolds` and `ChosenColourStaysHolds`, for any epics,
stories, tasks and bounds, from `ColoursInv`: no story is related twice to one
epic. The proof is about the least relation of a story by (order, id): it exists
(`HasLeast`), it is the one `Inherited` takes, and a deletion or a shift of the
relations of one epic that keeps their order keeps it for every story that is
not related to that epic. `ColoursAssumption` says that epics, stories and tasks
are different things, as they are different tables in the code.

### 5.9 Boards: `BoardProofs`

`DropsLandTogetherHolds`, `PlacesGivenAreFreeHolds` and
`BoardBystandersKeepTheirOrder`, for any stories, cells, handlers, requests and
positions, from `BoardsInv`. A drop writes what it has computed from rows read
two statements earlier. `BoardsInv` says what it relies on meanwhile:
`DropPlanned`, that its plan numbers the stories it moves in a row and those it
displaces behind them; `DropStands`, that unless it is crossed the cell is as it
was read, so that everything else in the cell stays before the row, and, once
the orders are written, the table has the plan's; `DropsApart`, that a drop under
way which does not cross it shares none of its stories and will number none of
its cell. A request that does not cross a drop leaves its stories and its cell
alone (`StoodBy`, `StandsStill`); one that does is marked (`CrossedStays`). At
the last statement the moved stories have orders f, f + 1, ... in the cell and no
other has one of those, so that they are next to each other in the list
(`RowLands`), and what stands before and after them is where the client asked
(`PlaceDropLands`).

For the other two properties the proofs say what `apply_order_updates` computes. It
is a fold, of which the library proves nothing: `FoldExists` and
`OrdersAppliedInTurns` show that the fold is the sequence of its turns, by the
least number of turns at which it would not be. A turn leaves the new position free and
keeps those free that earlier turns have freed, since positions come in order
(`TurnFrees`, `OrdersAppliedFree`); a single one shifts all from the position on
(`SingleOrderApplied`), which keeps every order but that of the story moved. A
deleted swimlane renumbers by counting who comes before, which is strictly
monotone (`SwimlaneBystanders`).

`BoardsAssumption` says that clients drop different stories, which
`validate_bulk_userstories` (userstories/validators.py 157) requires by counting
them, and that the set of stories is finite.

### 5.10 What the proofs changed

Five properties held in their runs only because the instance was small, which
the attempt to prove them showed; they are now stated as they are true, and the
instances were enlarged where the case fits:

- `HistoryTellsTheRow` used to except only stale saves over bulk edits. With more
  edits than the run had, an entry without version can also be out of date.
- `AcceptedIsConsistent` used to claim that a story contains all its tasks after
  a bulk. In the instance each story had one task; with two, a story that gets
  its due date from one of them is not compared with the other.
- `OnlyWideningBreaks` excepted items that contain an edited one as a child. An
  epic over a story over an edited task is another case, which the order of ids
  in the instance hid.
- `DropsLandTogether` and `BystandersKeepTheirOrder` of `Boards` used to count a
  drop as crossed only if another drop shared a story or the cell. A drop
  elsewhere that takes a story out of the cell, or that is still to number one
  which has come to it, disturbs the drop too, and is now marked; the instance
  has a fourth story and starts that show it.

`EditsInv` used to leave open that a row is out of step with its history
whenever a bulk edit is under way; it now says that only the fields such an edit wrote
can be, which `NamedFieldsAreChecked` needs.

`OnCycle` of `OrderTx` used to be written with a transitive closure, whose
functions of two arguments no prover reads; it now says the same with sets that
are closed under waiting. For the same reason `Sorted` and `DeleteSwimlane` of
`Boards` count what comes before a story instead of sorting with `SortSeq`. The
runs reach the same states.

### 5.11 Model-checked only

Liveness (`EveryRequestEnds` of `OrderTx` and of `ScheduleDates`) is out of the
prover's reach. So is induction over data: where a proof needs a greatest
element or the length of a list, it uses a library theorem on finite sets or the
well-foundedness of the naturals instead. `OnlyWideningBreaks` is false without
a bound on links and iterations (a propagation that is cut off leaves broken
dependencies), and a proof would be about
termination over an acyclic graph. Also only checked: `TypeOK` of `Backend`, of
which the proofs state the parts they need.

## 6. Simplifications

- ItemOrder: an entity stays in its project; a relation stays with its epic
  (PATCH of `epic` is left out); reorders of one relation without the set-orders
  header; permissions and field validation are taken as passed. An on-commit
  update is never lost (its own retries exhausted).
- OrderTx: one operation per handler. A request that runs several in one
  enclosing transaction holds the locks of all of them until its end, which adds
  waits; the reindex of an epic and the schedule's other columns are left out.
- ScheduleDates: all items and schedules exist from the start; requests do not overlap;
  dependencies have no cycle through dependents and parents (nothing in the code
  enforces it; with one, propagation runs to its iteration limit or recursion
  does not end). Dates are small naturals; the difference of two dates is in
  days, as in the code.
- RowsFollowParents requires a story's row under *an* epic it is related to, not
  under the primary one: the deferred update of a reorder makes the stronger
  statement false until the next save.
- Widening: one story; dates only move by these saves. Due dates alone, not the
  starts; `_propagate` is `ScheduleDates`.
- Edits: values are named by the edit that wrote them; a comment alone names no
  field. The item is neither created nor deleted.
- Colours: a relation stays with its epic. The colour of an epic's row and of its
  schedule are one, since both requests that write one write the other.
- Closing: rows start in one milestone and one story; promotion is left out. One
  request at a time: handlers of overlapping requests are not interleaved.
- Counters: one voted item, one liked project; the other totals that
  `refresh_totals` saves are read from the timeline.
- Boards: statuses and swimlanes are both cells, since a drop treats the pair as
  one; swimlanes have different places on the board; the positions that clients give several stories are distinct; all stories
  have different orders at first; ids order equal ones, as the queries do. The
  deletion of the last swimlane (its stories go to none) is left out.
- Ownership: one project; invitations are members once they are accepted; the
  token of a transfer is the user it names and does not expire.
- In `Backend` the properties of a part are restated for the behaviours in which
  it runs.

## 7. Plan

Done in this order: OrderRows, ItemOrder, proofs of contiguity, OrderTx with its
refinement, ScheduleDates; then Edits, Colours, Closing, Counters, Boards,
Ownership, Widening with its proofs, and Backend; then the proofs of rows and
parents, counters, ownership, history, dates, concurrent order operations and
closing; then those of bystanders and reindexes, versions, colours, of the
refinement of OrderAtomic by a transaction that runs alone, and of the boards.
Left:

1. **Refinement**: Edits against an abstract register in which edits of one
   field are serialized.
2. **Breadth**: task boards and issue orders with `apply_order_updates`; bulk
   creation on the boards; concurrent handlers in Closing; promotion.

## 8. Not modelled

- **Notifications, events, timeline, webhooks**: what they send is rendered text
  to hosts outside; what they keep is a log. When they send depends on the clock
  and on a scheduler outside the repository.
- **References**: uniqueness is a promise of a PostgreSQL sequence, which the
  code calls in one statement.
- **Authentication, throttling, external applications**: signatures, clock
  arithmetic and a cache outside the repository; little state of their own.
- **Importers, export, hooks**: translation of foreign formats; the state they
  produce is that of the other components, with their handlers disconnected.
- **The REST framework** (vendored), serializers, validators and permissions:
  they decide which requests get through, which the guards of the actions state
  where it matters (Ownership); parsing and rendering change no state.
- **Searches, statistics, CSV**: read-only queries.
- **Wiki, attachments, custom attributes, tagging, contact, user storage**: CRUD
  on single rows; where they touch the history they are `SideRecord` of Edits.
