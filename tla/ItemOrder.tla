----------------------------- MODULE ItemOrder -----------------------------
(***************************************************************************)
(* The order of scheduled items among their siblings, one request at a     *)
(* time (taiga/projects/schedule: services.py, signals.py, models.py; and  *)
(* the epic/user story relations of taiga/projects/epics that decide a     *)
(* user story's group).                                                    *)
(*                                                                         *)
(* A request changes entities or relations and then runs the database      *)
(* operations its signal handlers call, in their order: they are the       *)
(* queue job.  A request starts only when the queue is empty, so this      *)
(* module is the sequential specification; OrderTx interleaves             *)
(* transactions.  An upsert of a schedule syncs its row.  Left out are the *)
(* upserts of a story's tasks, whose rows stay at home in dense groups, and *)
(* those of a widened parent, which change what SaveItem or SaveEpic of it *)
(* changes.                                                                *)
(***************************************************************************)
EXTENDS OrderRows

CONSTANTS
    Epics, Stories, Tasks,  \* entity ids; an entity's Schedule is named by it
    Project,                \* project_id of every entity
    Root,                   \* the root parent ("", 0)
    MaxOrder,               \* bound on RelatedUserStory.order
    MaxPosition,            \* bound on the position a client may ask for
    MaxRelated              \* bound on the number of RelatedUserStory rows

Items == Epics \cup Stories \cup Tasks

ASSUME ItemsAssumption ==
    /\ IsFiniteSet(Items)
    /\ Epics \cap Stories = {} /\ Epics \cap Tasks = {} /\ Stories \cap Tasks = {}
    /\ Root \notin Items

ASSUME BoundsAssumption ==
    /\ MaxOrder \in Nat /\ MaxPosition \in Nat /\ MaxRelated \in Nat
    /\ Items \subseteq DOMAIN Project

VARIABLES
    live,      \* entities whose Schedule exists
    story,     \* Task.user_story
    related,   \* RelatedUserStory rows in id order
    rows,      \* the ScheduleItemOrder table (module OrderRows)
    job,       \* operations the current request still has to run
    bulk,      \* the running epic-wide reorder, or NoBulk
    dropped    \* the last epic-wide reorder was given up after its retries

vars == <<live, story, related, rows, job, bulk, dropped>>

NoBulk == [active |-> FALSE]

Kinds == {"epic", "userstory", "task"}

KindOf(i) == IF i \in Epics THEN "epic"
             ELSE IF i \in Stories THEN "userstory" ELSE "task"

Relations == [epic : Epics, story : Stories, order : 0..MaxOrder]

(* ORDER BY order, id over a set K of indices into rel: id order is index  *)
(* order.                                                                  *)
ByOrderThenId(rel, K) ==
    {p \in K \X K : \/ rel[p[1]].order < rel[p[2]].order
                    \/ rel[p[1]].order = rel[p[2]].order /\ p[1] < p[2]}

RelationsOfStory(rel, s) == {k \in DOMAIN rel : rel[k].story = s}
RelationsOfEpic(rel, e) == {k \in DOMAIN rel : rel[k].epic = e}

(* _get_primary_epic_relation: the story's first relation by (order, id).  *)
PrimaryEpic(rel, s) ==
    LET K == RelationsOfStory(rel, s)
    IN  IF K = {} THEN Root ELSE rel[SortBy(K, ByOrderThenId(rel, K))[1]].epic

(* _resolve_order_parent *)
ResolveParent(i) ==
    CASE i \in Epics   -> Root
      [] i \in Stories -> PrimaryEpic(related, i)
      [] i \in Tasks   -> story[i]

GroupKeyParentFirst(i) == <<Project[i], ResolveParent(i), KindOf(i)>>

(* _build_order_group_key *)
GroupKey(i) == <<Project[i], KindOf(i), ResolveParent(i)>>

(* target_group_key of the epic-wide reorder *)
EpicGroup(e) == <<Project[e], "userstory", e>>

(* ordered_userstory_ids of sync_epic_userstories_..._in_bulk *)
OrderedStories(rel, e) ==
    LET K == RelationsOfEpic(rel, e)
        q == SortBy(K, ByOrderThenId(rel, K))
    IN  [k \in DOMAIN q |-> rel[q[k]].story]

SyncOp(i) == [op |-> "sync", item |-> i]
PlaceOp(i, p) == [op |-> "place", item |-> i, position |-> p]
RemoveOp(i) == [op |-> "remove", item |-> i]
RelateOp(e, s) == [op |-> "relate", epic |-> e, item |-> s]
BulkOp(e) == [op |-> "bulk", epic |-> e]
OnCommitOp(rel) == [op |-> "on_commit", related |-> rel]

-----------------------------------------------------------------------------
(* Requests.                                                               *)

Idle == job = <<>> /\ ~bulk.active

Run(ops) ==
    /\ Idle
    /\ job' = ops
    /\ dropped' = FALSE
    /\ UNCHANGED <<rows, bulk>>

(* _epic_post_save on creation *)
CreateEpic(e) ==
    /\ e \in Epics \ live
    /\ live' = live \cup {e}
    /\ Run(<<SyncOp(e)>>)
    /\ UNCHANGED <<story, related>>

(* _userstory_post_save on creation *)
CreateStory(s) ==
    /\ s \in Stories \ live
    /\ live' = live \cup {s}
    /\ Run(<<SyncOp(s)>>)
    /\ UNCHANGED <<story, related>>

(* _task_post_save on creation *)
CreateTask(t, u) ==
    /\ t \in Tasks \ live
    /\ u \in {Root} \cup {s \in Stories \cap live : Project[s] = Project[t]}
    /\ live' = live \cup {t}
    /\ story' = [story EXCEPT ![t] = u]
    /\ Run(<<SyncOp(t)>>)
    /\ UNCHANGED related

(* Any other save of a story or a task: the handlers upsert, hence sync,   *)
(* again.                                                                  *)
SaveItem(i) ==
    /\ i \in live \ Epics
    /\ Run(<<SyncOp(i)>>)
    /\ UNCHANGED <<live, story, related>>

(* The listed set as the sequence of its operations. *)
OpsFor(q, Op(_)) == [k \in DOMAIN q |-> Op(q[k])]

StoriesOf(rel, e) == {rel[k].story : k \in RelationsOfEpic(rel, e)}

(* A save or a new colour of an epic: its stories inherit the colour, and  *)
(* the upsert syncs each of them (sync_epic_related_schedule_colors).      *)
SaveEpic(e) ==
    /\ e \in Epics \cap live
    /\ \E q \in [1..Cardinality(StoriesOf(related, e)) -> StoriesOf(related, e)] :
          /\ \A a, b \in DOMAIN q : q[a] = q[b] => a = b
          /\ Run(<<SyncOp(e)>> \o OpsFor(q, SyncOp))
    /\ UNCHANGED <<live, story, related>>

(* A task is given another user story. *)
MoveTask(t, u) ==
    /\ t \in Tasks \cap live
    /\ u \in {Root} \cup {s \in Stories \cap live : Project[s] = Project[t]}
    /\ u # story[t]
    /\ story' = [story EXCEPT ![t] = u]
    /\ Run(<<SyncOp(t)>>)
    /\ UNCHANGED <<live, related>>

Unrelated(rel, e, s) == \A k \in DOMAIN rel : ~(rel[k].epic = e /\ rel[k].story = s)

(* POST of a RelatedUserStory and _related_userstory_post_save. *)
Relate(e, s, o) ==
    /\ e \in Epics \cap live /\ s \in Stories \cap live
    /\ Len(related) < MaxRelated
    /\ Unrelated(related, e, s)
    /\ related' = Append(related, [epic |-> e, story |-> s, order |-> o])
    /\ Run(<<SyncOp(s)>>)
    /\ UNCHANGED <<live, story>>

(* The relations listed by the indices in K, in id order. *)
Keep(rel, K) ==
    LET q == SortBy(K, {p \in K \X K : p[1] < p[2]})
    IN  [k \in DOMAIN q |-> rel[q[k]]]

(* DELETE of a RelatedUserStory and _related_userstory_post_delete. *)
Unrelate(e, s) ==
    /\ ~Unrelated(related, e, s)
    /\ related' = Keep(related, {k \in DOMAIN related :
                                  ~(related[k].epic = e /\ related[k].story = s)})
    /\ Run(<<SyncOp(s)>>)
    /\ UNCHANGED <<live, story>>

WithOrder(x, o) == [epic |-> x.epic, story |-> x.story, order |-> o]

(* apply_order_updates for one relation whose new order o is already       *)
(* saved: old and new order are equal, so every other relation of the epic *)
(* at or behind o moves one up.                                            *)
ShiftOrders(rel, e, s, o) ==
    [k \in DOMAIN rel |->
        IF rel[k].epic = e /\ rel[k].story # s /\ rel[k].order >= o
        THEN WithOrder(rel[k], rel[k].order + 1)
        ELSE rel[k]]

(* PATCH of a relation's order (EpicRelatedUserStoryViewSet): the save     *)
(* syncs the story; _reorder_if_needed computes the shifted orders, whose  *)
(* UPDATE waits for the commit, and announces the bulk change at once; the *)
(* handler reindexes the epic, then upserts the named story's colour,      *)
(* hence syncs it again.                                                   *)
Reorder(e, s, o) ==
    \E k \in DOMAIN related :
        LET saved == [related EXCEPT ![k] = WithOrder(related[k], o)]
            shifted == ShiftOrders(saved, e, s, o)
        IN  /\ related[k].epic = e /\ related[k].story = s
            /\ related[k].order # o
            /\ \A m \in DOMAIN shifted : shifted[m].order <= MaxOrder
            /\ related' = saved
            /\ Run(<<SyncOp(s), BulkOp(e), SyncOp(s), OnCommitOp(shifted)>>)
            /\ UNCHANGED <<live, story>>

(* create_related_userstories_in_bulk: the stories, all of one project     *)
(* which need not be the epic's, are saved, then the relations (order      *)
(* defaults to the current time), then the bulk signal, whose handler      *)
(* syncs the named stories again after the reindex.                        *)
BulkCreate(e, s1, s2) ==
    /\ e \in Epics \cap live
    /\ s1 \in Stories \ live /\ s2 \in Stories \ live /\ s1 # s2
    /\ Project[s1] = Project[s2]
    /\ Len(related) + 2 <= MaxRelated
    /\ live' = live \cup {s1, s2}
    /\ Run(<<SyncOp(s1), SyncOp(s2), RelateOp(e, s1), RelateOp(e, s2), BulkOp(e),
             SyncOp(s1), SyncOp(s2)>>)
    /\ UNCHANGED <<story, related>>

(* PATCH schedule-items with a position: upsert_schedule, then             *)
(* set_schedule_item_order_position.                                       *)
SetPosition(i, p) ==
    /\ i \in live
    /\ Run(<<SyncOp(i), PlaceOp(i, p)>>)
    /\ UNCHANGED <<live, story, related>>

DeleteTask(t) ==
    /\ t \in Tasks \cap live
    /\ Run(<<RemoveOp(t)>>)
    /\ UNCHANGED <<live, story, related>>



(* Deleting a user story cascades to its tasks and relations; every        *)
(* deleted row sends its post_delete.                                      *)
DeleteStory(s) ==
    /\ s \in Stories \cap live
    /\ \E q \in [1..Cardinality({t \in Tasks \cap live : story[t] = s})
                    -> {t \in Tasks \cap live : story[t] = s}] :
          /\ \A a, b \in DOMAIN q : q[a] = q[b] => a = b
          /\ Run(OpsFor(q, RemoveOp)
                   \o [k \in 1..Cardinality(RelationsOfStory(related, s)) |-> SyncOp(s)]
                   \o <<RemoveOp(s)>>)
    /\ related' = Keep(related, DOMAIN related \ RelationsOfStory(related, s))
    /\ story' = [t \in Tasks |-> IF story[t] = s THEN Root ELSE story[t]]
    /\ UNCHANGED live

(* Deleting an epic cascades to its relations; every story is re-homed. *)
DeleteEpic(e) ==
    /\ e \in Epics \cap live
    /\ LET K == RelationsOfEpic(related, e)
           q == SortBy(K, {p \in K \X K : p[1] < p[2]})
       IN  Run([k \in DOMAIN q |-> SyncOp(related[q[k]].story)] \o <<RemoveOp(e)>>)
    /\ related' = Keep(related, DOMAIN related \ RelationsOfEpic(related, e))
    /\ UNCHANGED <<live, story>>

Request ==
    \/ \E e \in Epics : CreateEpic(e) \/ SaveEpic(e) \/ DeleteEpic(e)
    \/ \E s \in Stories : CreateStory(s) \/ DeleteStory(s)
    \/ \E t \in Tasks : DeleteTask(t)
    \/ \E t \in Tasks, u \in Stories \cup {Root} : CreateTask(t, u) \/ MoveTask(t, u)
    \/ \E i \in Stories \cup Tasks : SaveItem(i)
    \/ \E i \in Items, p \in 0..MaxPosition : SetPosition(i, p)
    \/ \E e \in Epics, s \in Stories : Unrelate(e, s)
    \/ \E e \in Epics, s \in Stories, o \in 0..MaxOrder : Relate(e, s, o) \/ Reorder(e, s, o)
    \/ \E e \in Epics, s1 \in Stories, s2 \in Stories : BulkCreate(e, s1, s2)

-----------------------------------------------------------------------------
(* The operations of a request.                                            *)

Head1 == Head(job)

Done == job' = Tail(job)

(* _sync_schedule_item_order_for_schedule: the row is created or moved to  *)
(* the group of the item's current parent.  A collision on creation is     *)
(* found by full_clean, is no IntegrityError and kills the request; none   *)
(* happens while requests run one at a time (CreateNeverCollides), so the  *)
(* operations below are not defined for it.  A collision on a move is an   *)
(* IntegrityError: after the retries sync_schedule_item_order leaves the   *)
(* row as it was.                                                          *)
CanCreate(i) == i \in DOMAIN rows \/ EndIsFree(rows, GroupKey(i))

SyncedRowsParentIgnored(i) ==
    IF i \notin DOMAIN rows THEN CreateRow(rows, i, GroupKey(i))
    ELSE MoveWithin(rows, i, rows[i].position)

SyncedRows(i) == Synced(rows, i, GroupKey(i))

(* sync_schedule_item_order *)
StepSync ==
    /\ job # <<>> /\ Head1.op = "sync" /\ ~bulk.active
    /\ CanCreate(Head1.item)
    /\ rows' = SyncedRows(Head1.item)
    /\ Done
    /\ UNCHANGED <<live, story, related, bulk, dropped>>

(* The sync inside a larger transaction: its IntegrityError ends that.     *)
SyncFails(i) == i \in DOMAIN rows /\ SyncedRows(i)[i].group # GroupKey(i)

(* set_schedule_item_order_position: sync and place in one transaction. *)
StepPlace ==
    /\ job # <<>> /\ Head1.op = "place" /\ ~bulk.active
    /\ CanCreate(Head1.item)
    /\ rows' = IF SyncFails(Head1.item) THEN rows
               ELSE MoveWithin(SyncedRows(Head1.item), Head1.item, Head1.position)
    /\ Done
    /\ UNCHANGED <<live, story, related, bulk, dropped>>

(* delete_schedule *)
StepRemove ==
    /\ job # <<>> /\ Head1.op = "remove" /\ ~bulk.active
    /\ rows' = DeleteRow(rows, Head1.item)
    /\ live' = live \ {Head1.item}
    /\ Done
    /\ UNCHANGED <<story, related, bulk, dropped>>

(* RelatedUserStory(user_story, epic).save(): order is the current time,   *)
(* later than every order in use; the post_save handler syncs the story.   *)
StepRelate ==
    /\ job # <<>> /\ Head1.op = "relate" /\ ~bulk.active
    /\ Unrelated(related, Head1.epic, Head1.item)
    /\ \E now \in 0..MaxOrder :
          /\ \A k \in DOMAIN related : related[k].order <= now
          /\ related' = Append(related, [epic |-> Head1.epic, story |-> Head1.item,
                                         order |-> now])
    /\ job' = <<SyncOp(Head1.item)>> \o Tail(job)
    /\ UNCHANGED <<live, story, rows, bulk, dropped>>

(* sync_epic_userstories_schedule_item_order_in_bulk opens a transaction   *)
(* over the epic's stories in relation order, or has nothing to do.        *)
StepBulk ==
    /\ job # <<>> /\ Head1.op = "bulk" /\ ~bulk.active
    /\ IF OrderedStories(related, Head1.epic) = <<>>
       THEN Done /\ UNCHANGED bulk
       ELSE /\ bulk' = [active |-> TRUE, epic |-> Head1.epic,
                        todo |-> OrderedStories(related, Head1.epic),
                        ordered |-> <<>>, saved |-> rows]
            /\ UNCHANGED job
    /\ UNCHANGED <<live, story, related, rows, dropped>>

(* One turn of the loop: the story is synced, and its instance, with the   *)
(* position it has now, is kept when it belongs to the epic.  The project  *)
(* is not compared.                                                        *)
StepCollect ==
    /\ bulk.active /\ bulk.todo # <<>>
    /\ LET s == Head(bulk.todo)
           synced == SyncedRows(s)
           entry == [item |-> s, position |-> synced[s].position]
           mine == synced[s].group[3] = bulk.epic
       IN  /\ CanCreate(s)
           /\ ~SyncFails(s)
           /\ rows' = synced
           /\ bulk' = [active |-> TRUE, epic |-> bulk.epic, todo |-> Tail(bulk.todo),
                       ordered |-> IF mine THEN Append(bulk.ordered, entry)
                                   ELSE bulk.ordered,
                       saved |-> bulk.saved]
    /\ UNCHANGED <<live, story, related, job, dropped>>

(* The retries of the whole loop meet the same collision; the reorder is   *)
(* rolled back and [] is returned.                                         *)
Drop ==
    /\ rows' = bulk.saved
    /\ bulk' = NoBulk
    /\ dropped' = TRUE
    /\ Done
    /\ UNCHANGED <<live, story, related>>

CollectFails ==
    /\ bulk.active /\ bulk.todo # <<>>
    /\ SyncFails(Head(bulk.todo))
    /\ Drop

(* _persist_group_positions over instances whose cached positions may be   *)
(* stale: an instance whose cached position is its index is skipped, the   *)
(* others go through a temporary position to their index.                  *)
MaxOf(S) == CHOOSE m \in S : \A n \in S : n <= m

Pending(items) == {k \in DOMAIN items : items[k].position # k}

TemporaryBase(items) ==
    MaxOf({items[k].position : k \in DOMAIN items} \cup {Len(items)})
        + Cardinality(Pending(items)) + 1

Renumber(r, items) ==
    [i \in DOMAIN r |->
        IF \E k \in Pending(items) : items[k].item = i
        THEN [group |-> r[i].group,
              position |-> CHOOSE k \in Pending(items) : items[k].item = i]
        ELSE r[i]]

(* A row that is not being renumbered holds a temporary or a final         *)
(* position of one that is: the UPDATE violates the unique constraint.     *)
CollidesNever(r, items) == FALSE

Collides(r, items) ==
    LET moving == {items[k].item : k \in Pending(items)}
        base == TemporaryBase(items)
        temporary == base..(base + Cardinality(Pending(items)) - 1)
    IN  \E k \in Pending(items), j \in DOMAIN r \ moving :
            /\ r[j].group = r[items[k].item].group
            /\ r[j].position = k \/ r[j].position \in temporary

ReindexItemsInOldOrder ==
    LET q == FetchGroup(rows, EpicGroup(bulk.epic))
    IN  [k \in DOMAIN q |-> [item |-> q[k], position |-> rows[q[k]].position]]

(* ordered_items + remaining_items *)
ReindexItems ==
    LET key == EpicGroup(bulk.epic)
        mine == {bulk.ordered[k].item : k \in DOMAIN bulk.ordered}
        rest == OrderByPosition(rows, Siblings(rows, key) \ mine)
    IN  bulk.ordered \o
          [k \in DOMAIN rest |-> [item |-> rest[k], position |-> rows[rest[k]].position]]

StepReindex ==
    /\ bulk.active /\ bulk.todo = <<>>
    /\ \/ bulk.ordered = <<>> /\ rows' = rows
       \/ /\ bulk.ordered # <<>> /\ ~Collides(rows, ReindexItems)
          /\ rows' = Renumber(rows, ReindexItems)
    /\ bulk' = NoBulk
    /\ Done
    /\ UNCHANGED <<live, story, related, dropped>>

ReindexFails ==
    /\ bulk.active /\ bulk.todo = <<>>
    /\ bulk.ordered # <<>> /\ Collides(rows, ReindexItems)
    /\ Drop

(* transaction.on_commit of update_attr_in_bulk_for_ids: the shifted       *)
(* orders reach the database after the handlers have run.                  *)
StepOnCommit ==
    /\ job # <<>> /\ Head1.op = "on_commit" /\ ~bulk.active
    /\ related' = Head1.related
    /\ Done
    /\ UNCHANGED <<live, story, rows, bulk, dropped>>

Operation ==
    \/ StepSync \/ StepPlace \/ StepRemove \/ StepRelate
    \/ StepBulk \/ StepCollect \/ CollectFails \/ StepReindex \/ ReindexFails
    \/ StepOnCommit

Init ==
    /\ live = {}
    /\ story = [t \in Tasks |-> Root]
    /\ related = <<>>
    /\ rows = [i \in {} |-> Root]
    /\ job = <<>>
    /\ bulk = NoBulk
    /\ dropped = FALSE

Next == Request \/ Operation

Spec == Init /\ [][Next]_vars

-----------------------------------------------------------------------------
(* Properties.                                                             *)

Groups == {Project[i] : i \in Items} \X Kinds \X (Items \cup {Root})

IsTable(r) ==
    /\ DOMAIN r \subseteq Items
    /\ \A i \in DOMAIN r : r[i].group \in Groups /\ r[i].position \in Nat

Ops == [op : {"sync", "remove"}, item : Items]
         \cup [op : {"place"}, item : Items, position : Nat]
         \cup [op : {"relate"}, epic : Epics, item : Stories]
         \cup [op : {"bulk"}, epic : Epics]
         \cup [op : {"on_commit"}, related : Seq(Relations)]

IsBulk(b) ==
    /\ b = [active |-> TRUE, epic |-> b.epic, todo |-> b.todo,
             ordered |-> b.ordered, saved |-> b.saved]
    /\ b.epic \in Epics /\ b.todo \in Seq(Stories)
    /\ b.ordered \in Seq([item : Stories, position : Nat])
    /\ IsTable(b.saved)

(* Type invariant: every variable holds what the columns and the request   *)
(* queue of the code can hold.                                             *)
TypeOK ==
    /\ live \subseteq Items
    /\ story \in [Tasks -> Stories \cup {Root}]
    /\ related \in Seq(Relations)
    /\ IsTable(rows)
    /\ job \in Seq(Ops)
    /\ bulk = NoBulk \/ IsBulk(bulk)
    /\ dropped \in BOOLEAN

(* Sibling positions are 1..n without gap or repetition after every single *)
(* operation, the middle of a cascade or of a bulk reorder included: what  *)
(* _persist_group_positions and the "len + 1" of every insertion rely on.  *)
Contiguous ==
    \A g \in {rows[i].group : i \in DOMAIN rows} :
        {rows[i].position : i \in Siblings(rows, g)} = 1..Cardinality(Siblings(rows, g))

(* Positions are 1..n when a request has ended, as a client reads them     *)
(* after it (list of ScheduleItemViewSet).                                 *)
ContiguousBetweenRequests == Idle => Contiguous

(* Between requests every scheduled entity has exactly one order row and   *)
(* no row outlives its entity, whatever cascades ran (upsert_schedule,     *)
(* delete_schedule and the post_delete handlers).                          *)
EveryItemHasItsRow == Idle => DOMAIN rows = live

(* Between requests a task's row is in its user story's group, an epic's   *)
(* in the root group, and a user story's row is under an epic it is        *)
(* related to, or in the root group exactly when it has no epic left       *)
(* (_resolve_order_parent re-evaluated by every handler that can change    *)
(* its answer).                                                            *)
RowsFollowParents ==
    Idle => \A i \in DOMAIN rows :
        LET g == rows[i].group
        IN  /\ g[1] = Project[i] /\ g[2] = KindOf(i)
            /\ i \notin Stories => g = GroupKey(i)
            /\ i \in Stories /\ g[3] # Root => ~Unrelated(related, g[3], i)
            /\ i \in Stories /\ g[3] = Root => RelationsOfStory(related, i) = {}

(* No request dies of a position that is already taken: whenever a row is  *)
(* about to be created, ScheduleItemOrder.objects.create passes            *)
(* validate_unique.                                                        *)
CreateNeverCollides ==
    /\ job # <<>> /\ Head1.op \in {"sync", "place"} => CanCreate(Head1.item)
    /\ bulk.active /\ bulk.todo # <<>> => CanCreate(Head(bulk.todo))

(* The reindex that announces an epic's new order never meets an occupied  *)
(* position ("Avoid transient UNIQUE collisions while reindexing           *)
(* siblings", _persist_group_positions).                                   *)
ReindexNeverCollides == ~dropped

(* Renumbering never reorders bystanders: two siblings that stay in their  *)
(* group swap places only in an epic-wide reorder or when one of the two   *)
(* is the item being placed (every path through _persist_group_positions). *)
Swapped(i, j) ==
    /\ {i, j} \subseteq DOMAIN rows \cap DOMAIN rows'
    /\ rows[i].group = rows[j].group
    /\ rows'[i].group = rows[i].group /\ rows'[j].group = rows[j].group
    /\ rows[i].position < rows[j].position
    /\ rows'[i].position > rows'[j].position

BystandersKeepTheirOrder ==
    [][\A i, j \in Items :
          Swapped(i, j) =>
              \/ bulk.active
              \/ job # <<>> /\ Head1.op = "place" /\ Head1.item \in {i, j}]_vars

(* A reindex that is not dropped leaves the stories that are under the     *)
(* epic in the order of its relations, those of other projects included,   *)
(* although it skips the instances whose cached position looks right and   *)
(* the loop before it moved rows behind those instances' back              *)
(* (_sync_epic_userstories_schedule_item_order_for_epic).                  *)
ReindexFollowsRelations ==
    [][(bulk.active /\ bulk.todo = <<>> /\ ~dropped') =>
          LET q == OrderedStories(related, bulk.epic)
              under == {k \in DOMAIN q : rows'[q[k]].group[3] = bulk.epic}
          IN  \A a, b \in under :
                  a < b => rows'[q[a]].position < rows'[q[b]].position]_vars

(* The inductive invariant behind Contiguous (module ItemOrderProofs): the *)
(* table is dense also where the running reorder would return to; that     *)
(* reorder lists distinct stories, the collected ones sit in the epic's    *)
(* group; and (user_story, epic) is unique among relations, those a commit *)
(* is still to write included.                                             *)
UniqueRelations(rel) ==
    \A k, m \in DOMAIN rel :
        rel[k].epic = rel[m].epic /\ rel[k].story = rel[m].story => k = m

BulkConsistent ==
    bulk.active =>
        /\ job # <<>>
        /\ Dense(bulk.saved)
        /\ \A a, b \in DOMAIN bulk.todo : bulk.todo[a] = bulk.todo[b] => a = b
        /\ \A a, b \in DOMAIN bulk.ordered :
              bulk.ordered[a].item = bulk.ordered[b].item => a = b
        /\ \A a \in DOMAIN bulk.todo, b \in DOMAIN bulk.ordered :
              bulk.todo[a] # bulk.ordered[b].item
        /\ \A b \in DOMAIN bulk.ordered :
              bulk.ordered[b].item \in Siblings(rows, EpicGroup(bulk.epic))

IInv ==
    /\ TypeOK
    /\ Dense(rows)
    /\ UniqueRelations(related)
    /\ \A k \in DOMAIN job : job[k].op = "on_commit" => UniqueRelations(job[k].related)
    /\ BulkConsistent

(* What a reorder of epic e knows halfway (module ItemOrderProofs): of the *)
(* stories q it has had some; those that are under the epic it keeps, in   *)
(* the order of q, and a sync since then moved a kept one to the front at  *)
(* most, never behind its cached position.                                 *)
KeptInOrder(kept, e, q, had, r) ==
    /\ \A k \in 1..had :
          /\ q[k] \in DOMAIN r
          /\ r[q[k]].group[3] = e => \E b \in DOMAIN kept : kept[b].item = q[k]
    /\ \A b \in DOMAIN kept : r[kept[b].item].position <= kept[b].position
    /\ \A a, b \in DOMAIN kept, k, m \in 1..had :
          kept[a].item = q[k] /\ kept[b].item = q[m] /\ k < m => a < b

ReindexHalfway(b, rel, r) ==
    LET q == OrderedStories(rel, b.epic)
        had == Len(q) - Len(b.todo)
    IN  /\ had >= 0
        /\ \A k \in DOMAIN b.todo : b.todo[k] = q[had + k]
        /\ KeptInOrder(b.ordered, b.epic, q, had, r)

ReindexInv == bulk.active => ReindexHalfway(bulk, related, rows)

(* The inductive invariant behind EveryItemHasItsRow (module               *)
(* ItemOrderProofs).  A queue syncs, places and relates living items only; *)
(* nothing but syncs and a deferred write of the relations comes after a   *)
(* reorder, and what that writes are the present pairs; no relation names  *)
(* an item that is about to be removed.                                    *)
SamePairs(a, b) ==
    /\ DOMAIN a = DOMAIN b
    /\ \A k \in DOMAIN a : a[k].epic = b[k].epic /\ a[k].story = b[k].story

QueueFits(ops, items, rel) ==
    /\ ops \in Seq(Ops)
    /\ \A k \in DOMAIN ops : ops[k].op \in {"sync", "place", "relate"} =>
          /\ ops[k].item \in items
          /\ \A m \in 1..(k - 1) : ops[m].op = "remove" => ops[m].item # ops[k].item
    /\ \A k, m \in DOMAIN ops :
          ops[k].op = "bulk" /\ k < m => ops[m].op \in {"sync", "on_commit"}
    /\ \A k, m \in DOMAIN ops : ops[k].op = "remove" => ops[m].op \notin {"relate", "on_commit"}
    /\ \A k, m \in DOMAIN ops : ops[k].op = "on_commit" => ops[m].op # "relate"
    /\ \A k \in DOMAIN ops : ops[k].op = "on_commit" => SamePairs(ops[k].related, rel)
    /\ \A k \in DOMAIN ops, m \in DOMAIN rel :
          ops[k].op = "remove" => rel[m].story # ops[k].item

BulkRows ==
    bulk.active =>
        /\ job # <<>> /\ Head1.op = "bulk"
        /\ DOMAIN rows = live /\ DOMAIN bulk.saved = live
        /\ bulk.todo \in Seq(live \cap Stories)

(* An operation of these kinds on item i comes before any reorder.         *)
Due(ops, kinds, i) ==
    \E k \in DOMAIN ops :
        /\ ops[k].op \in kinds /\ ops[k].item = i
        /\ \A m \in 1..(k - 1) : ops[m].op # "bulk"

(* No row outlives its entity, and one that is missing is about to be      *)
(* created, in the middle of every request and of every reorder that may   *)
(* still be rolled back.                                                   *)
RowInv ==
    /\ live \subseteq Items
    /\ related \in Seq(Relations)
    /\ \A m \in DOMAIN related : related[m].story \in live
    /\ QueueFits(job, live, related)
    /\ DOMAIN rows \subseteq live
    /\ \A i \in live \ DOMAIN rows : Due(job, {"sync"}, i)
    /\ BulkRows

(* The inductive invariant behind RowsFollowParents: a row that is not     *)
(* where the relations say is synced or removed before any reorder, and a  *)
(* reorder that is rolled back returns to rows that are all at home.       *)
EpicsOf(rel, s) == {rel[k].epic : k \in RelationsOfStory(rel, s)}

AtHome(g, i, rel, st) ==
    /\ i \in Epics => g[3] = Root
    /\ i \in Tasks => g[3] = st[i]
    /\ i \in Stories => g[3] \in EpicsOf(rel, i) \/ (g[3] = Root /\ EpicsOf(rel, i) = {})

OwnGroup(g, i) == g[1] = Project[i] /\ g[2] = KindOf(i)

Awaited(i) == Due(job, {"sync", "remove"}, i)

HomeInv ==
    /\ \A i \in DOMAIN rows :
          /\ OwnGroup(rows[i].group, i)
          /\ AtHome(rows[i].group, i, related, story) \/ Awaited(i)
    /\ bulk.active =>
          \A i \in DOMAIN bulk.saved :
              /\ OwnGroup(bulk.saved[i].group, i)
              /\ AtHome(bulk.saved[i].group, i, related, story)

=============================================================================
