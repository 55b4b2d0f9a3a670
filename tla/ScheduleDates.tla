--------------------------- MODULE ScheduleDates ---------------------------
(***************************************************************************)
(* Schedule dates: how a change of one item's dates moves its dependents   *)
(* and widens its parents (taiga/projects/schedule: services.py,           *)
(* signals.py, models.py, api.py), one request at a time.                  *)
(*                                                                         *)
(* The services call each other recursively: widening a parent propagates  *)
(* its dependency chain, propagation shifts items, and a shifted item      *)
(* widens its parents.  The activations are the stack calls; one step is   *)
(* one turn of the innermost activation.                                   *)
(***************************************************************************)
EXTENDS Integers, FiniteSets, SequencesExt

CONSTANTS
    Epics, Stories, Tasks,  \* entity ids; an entity's Schedule is named by it
    NoItem,                 \* no user story
    NoDate,                 \* None
    Keep,                   \* a field the client did not send
    Plans,                  \* the plans that may exist at first
    Dues,                   \* due dates clients save through the entity APIs
    Bulks,                  \* the bulk updates clients send
    Links,                  \* the dependencies clients create
    Homes,                  \* the parents clients give to tasks and stories
    MaxRequests,            \* bound on the number of requests
    MaxIterations           \* max_iterations of one propagation

Items == Epics \cup Stories \cup Tasks

Dates == Nat \cup {NoDate}

Rows == [estimated_start : Dates, actual_start : Dates, due_date : Dates]

Updates == [field : {"estimated_start", "actual_start"},
            start : Dates \cup {Keep}, due : Dates \cup {Keep}]

ASSUME DatesAssumption ==
    /\ IsFiniteSet(Items)
    /\ Epics \cap Stories = {} /\ Epics \cap Tasks = {} /\ Stories \cap Tasks = {}
    /\ NoItem \notin Stories /\ NoDate \notin Nat /\ Keep \notin Dates
    /\ Dues \subseteq Dates
    /\ Links \subseteq Items \X Items
    /\ \A p \in Plans :
          /\ p.sched \in [Items -> Rows]
          /\ p.story \in [Tasks -> Stories \cup {NoItem}]
          /\ p.epics \in [Stories -> Seq(Epics)]
          /\ p.links \subseteq Links
    /\ \A u \in Bulks : \E S \in SUBSET Items : u \in [S -> Updates]
    /\ \A h \in Homes :
          \/ h.item \in Tasks /\ h.parent \in Stories \cup {NoItem}
          \/ h.item \in Stories /\ h.parent \in Seq(Epics)
    /\ MaxRequests \in Nat /\ MaxIterations \in Nat \ {0}

VARIABLES
    sched,     \* Schedule.estimated_start, actual_start, due_date
    due,       \* Task.due_date, UserStory.due_date; an epic has none
    story,     \* Task.user_story
    epics,     \* the epics of a user story by (order, id), the primary first
    links,     \* ScheduleDependency rows
    calls,     \* activations of the services, innermost first
    request,   \* the running or last request
    outcome,   \* how it ended
    served     \* number of requests so far

vars == <<sched, due, story, epics, links, calls, request, outcome, served>>

-----------------------------------------------------------------------------
(* Dates.                                                                  *)

(* _get_effective_start *)
Start(row) ==
    IF row.actual_start # NoDate THEN row.actual_start ELSE row.estimated_start

(* The start column in use is set to d. *)
WithStart(row, d) ==
    IF row.actual_start # NoDate THEN [row EXCEPT !.actual_start = d]
    ELSE [row EXCEPT !.estimated_start = d]

(* _get_due_from_schedule_or_fallback *)
Due(i) ==
    IF sched[i].due_date # NoDate \/ i \in Epics THEN sched[i].due_date ELSE due[i]

(* _get_required_start_from_incoming_dependencies *)
RequiredStart(i) ==
    LET dues == {sched[l[1]].due_date : l \in {m \in links : m[2] = i}} \ {NoDate}
    IN  IF dues = {} THEN NoDate ELSE Max(dues) + 1

MustShiftAlways(i) == RequiredStart(i) # NoDate

(* _shift_schedule_forward_to_start *)
MustShift(i) ==
    /\ RequiredStart(i) # NoDate
    /\ Start(sched[i]) # NoDate => Start(sched[i]) < RequiredStart(i)

Shifted(i) ==
    LET row == sched[i]
        required == RequiredStart(i)
        next == IF Start(row) = NoDate THEN Max({row.due_date, required})
                ELSE required + Max({row.due_date - Start(row), 0})
    IN  [WithStart(row, required) EXCEPT
            !.due_date = IF row.due_date = NoDate THEN NoDate ELSE next]

ExpandedNever(p, i) == sched[p]

(* _build_expand_bounds_updates: parent p is to contain i. *)
Expanded(p, i) ==
    LET start == Start(sched[i])
        earlier == start # NoDate /\ (Start(sched[p]) # NoDate => start < Start(sched[p]))
        later == Due(i) # NoDate /\ (Due(p) # NoDate => Due(i) > Due(p))
        row == IF earlier THEN WithStart(sched[p], start) ELSE sched[p]
    IN  IF later THEN [row EXCEPT !.due_date = Due(i)] ELSE row

(* A schedule row is written, and a new due date also to the entity, which *)
(* an epic does not have.                                                  *)
WriteScheduleOnly(i, row) ==
    /\ sched' = [sched EXCEPT ![i] = row]
    /\ UNCHANGED due

Write(i, row) ==
    /\ sched' = [sched EXCEPT ![i] = row]
    /\ due' = IF i \in Epics \/ row.due_date = sched[i].due_date THEN due
              ELSE [due EXCEPT ![i] = row.due_date]

-----------------------------------------------------------------------------
(* Activations.                                                            *)

Ensuring(i) == [call |-> "ensure", item |-> i]

EnsureAll(i) == <<Ensuring(i)>>

(* ensure_userstory_and_epic_bounds_from_task, ensure_epic_bounds_for_userstory; *)
(* an epic has nothing to be contained in.                                 *)
Ensure(i) == IF i \in Epics THEN <<>> ELSE <<Ensuring(i)>>

(* propagate_dependency_chain_forward_from_schedule *)
Propagate(i) ==
    [call |-> "propagate", queue |-> <<i>>, targets |-> {}, iterations |-> 0]

Respond == [call |-> "respond"]

Idle == calls = <<>>

Top(name) == ~Idle /\ Head(calls).call = name

(* What is widened to contain an item: a task's story, a story's primary   *)
(* epic.                                                                   *)
Parents(i) ==
    CASE i \in Tasks   -> {story[i]} \ {NoItem}
      [] i \in Stories -> IF epics[i] = <<>> THEN {} ELSE {Head(epics[i])}
      [] i \in Epics   -> {}

(* A parent that changes propagates its own chain. *)
Widening(p, row) == IF row = sched[p] THEN <<>> ELSE <<Propagate(p)>>

(* The parent is widened, and what contains the parent after that: a       *)
(* task's story and its primary epic, or a story's primary epic only.      *)
StepEnsure ==
    /\ Top("ensure")
    /\ LET i == Head(calls).item
       IN  \/ /\ Parents(i) = {}
              /\ calls' = Tail(calls)
              /\ UNCHANGED <<sched, due>>
           \/ \E p \in Parents(i) :
                 /\ Write(p, Expanded(p, i))
                 /\ calls' = Widening(p, Expanded(p, i)) \o Ensure(p) \o Tail(calls)
    /\ UNCHANGED <<story, epics, links, request, outcome, served>>

WithTop(c) == <<c>> \o Tail(calls)

StepPropagateKeepsQueue ==
    /\ Top("propagate") /\ Head(calls).targets = {}
    /\ LET c == Head(calls)
       IN  calls' = IF c.queue = <<>> THEN Tail(calls)
                    ELSE WithTop([c EXCEPT !.targets = {l[2] : l \in {m \in links :
                                                            m[1] = Head(c.queue)}}])
    /\ UNCHANGED <<sched, due, story, epics, links, request, outcome, served>>

(* The next schedule of the queue, or the end of the loop. *)
StepPropagate ==
    /\ Top("propagate") /\ Head(calls).targets = {}
    /\ LET c == Head(calls)
       IN  calls' = IF c.queue = <<>> \/ c.iterations = MaxIterations THEN Tail(calls)
                    ELSE WithTop([c EXCEPT !.queue = Tail(@),
                                           !.iterations = @ + 1,
                                           !.targets = {l[2] : l \in {m \in links :
                                                            m[1] = Head(c.queue)}}])
    /\ UNCHANGED <<sched, due, story, epics, links, request, outcome, served>>

EnqueueNever(q, i) == q

Enqueue(q, i) == IF i \in Range(q) THEN q ELSE Append(q, i)

(* One dependent, in any order: it is shifted behind its sources when it   *)
(* starts too early, its parents are widened and its own dependents        *)
(* queued.                                                                 *)
StepTarget ==
    /\ Top("propagate")
    /\ \E i \in Head(calls).targets :
          LET c == [Head(calls) EXCEPT !.targets = @ \ {i}]
              row == Shifted(i)
          IN  IF ~MustShift(i)
              THEN calls' = WithTop(c) /\ UNCHANGED <<sched, due>>
              ELSE IF row.due_date = sched[i].due_date
              THEN calls' = WithTop(c) /\ Write(i, row)
              ELSE /\ i \notin Epics
                   /\ Write(i, row)
                   /\ calls' = Ensure(i) \o WithTop([c EXCEPT !.queue = Enqueue(@, i)])
    /\ UNCHANGED <<story, epics, links, request, outcome, served>>

(* The transaction of the request is rolled back. *)
Restore ==
    /\ sched' = request.sched /\ due' = request.due
    /\ story' = request.story /\ epics' = request.epics

(* An epic is shifted: its schedule is written, then                       *)
(* Epic.objects.update(due_date=...) raises FieldDoesNotExist, and what    *)
(* was done before stays unless the request is one transaction.            *)
StepEpicFails ==
    /\ Top("propagate")
    /\ \E i \in Head(calls).targets \cap Epics :
          /\ MustShift(i)
          /\ Shifted(i).due_date # sched[i].due_date
          /\ IF request.atomic THEN Restore
             ELSE WriteScheduleOnly(i, Shifted(i)) /\ UNCHANGED <<story, epics>>
    /\ calls' = <<>>
    /\ outcome' = "crashed"
    /\ UNCHANGED <<links, request, served>>

-----------------------------------------------------------------------------
(* Validation at the end of a bulk request.                                *)

Children(i) ==
    IF i \in Stories THEN {t \in Tasks : story[t] = i}
    ELSE {s \in Stories : i \in Range(epics[s])}

(* get_userstory_bounds_violation_error, get_epic_bounds_violation_error *)
ViolatesBounds(i, start, end) ==
    \E c \in Children(i) :
        \/ end # NoDate /\ Due(c) # NoDate /\ Due(c) > end
        \/ start # NoDate /\ Start(sched[c]) # NoDate /\ Start(sched[c]) < start

(* get_dependency_start_violation_error *)
ViolatesDependencies(i, start) ==
    \E l \in links :
        /\ l[2] = i
        /\ \/ start = NoDate
           \/ sched[l[1]].due_date # NoDate /\ start <= sched[l[1]].due_date

(* _get_epic_dependency_violation_for_userstory_candidate_start *)
ViolatesEpicDependencies(s, start) ==
    \E e \in Parents(s) :
        /\ start # NoDate /\ RequiredStart(e) # NoDate
        /\ Min({start} \cup ({Start(sched[e])} \ {NoDate})) < RequiredStart(e)

(* _build_schedule_validation_obj: the due date is that of the instance    *)
(* locked at first, with the client's value.                               *)
ValidatedDue(i) ==
    IF i \in Epics THEN sched[i].due_date
    ELSE IF request.updates[i].due # Keep THEN request.updates[i].due
    ELSE request.due[i]

AcceptableAlways(i) == TRUE

(* _validate_schedule_bulk_updates.  The object it builds for a task names *)
(* no user story, so a task's ancestors are not checked.                   *)
Acceptable(i) ==
    LET start == Start(sched[i])
    IN  /\ i \in Epics \cup Stories => ~ViolatesBounds(i, start, ValidatedDue(i))
        /\ ~ViolatesDependencies(i, start)
        /\ i \in Stories => ~ViolatesEpicDependencies(i, start)

StepRespond ==
    /\ Top("respond")
    /\ IF request.kind = "bulk" /\ \E i \in DOMAIN request.updates : ~Acceptable(i)
       THEN Restore /\ outcome' = "rejected"
       ELSE UNCHANGED <<sched, due, story, epics>>
              /\ outcome' = IF request.kind = "bulk" THEN "accepted" ELSE "saved"
    /\ calls' = <<>>
    /\ UNCHANGED <<links, request, served>>

Step ==
    \/ StepEnsure \/ StepPropagate \/ StepTarget
    \/ StepEpicFails \/ StepRespond

-----------------------------------------------------------------------------
(* Requests.                                                               *)

NoUpdates == [i \in {} |-> Keep]

(* A request whose handler is one transaction if atomic holds. *)
Begin(kind, atomic, edited, updates) ==
    /\ Idle /\ served < MaxRequests
    /\ served' = served + 1
    /\ outcome' = "none"
    /\ request' = [kind |-> kind, atomic |-> atomic, edited |-> edited, updates |-> updates,
                   sched |-> sched, due |-> due, story |-> story, epics |-> epics]

(* A task or story is saved with due date d (the same one when another     *)
(* field changes): _task_post_save, _userstory_post_save.                  *)
SaveEntity(i, d) ==
    /\ Begin("save", TRUE, {i}, NoUpdates)
    /\ due' = [due EXCEPT ![i] = d]
    /\ sched' = [sched EXCEPT ![i].due_date = d]
    /\ calls' = Ensure(i) \o <<Propagate(i), Respond>>
    /\ UNCHANGED <<story, epics, links>>

(* _epic_post_save: an epic's dates are not on its instance. *)
SaveEpic(e) ==
    /\ Begin("save", TRUE, {e}, NoUpdates)
    /\ calls' = <<Propagate(e), Respond>>
    /\ UNCHANGED <<sched, due, story, epics, links>>

(* A task is saved with another story. *)
MoveTask(t, s) ==
    /\ Begin("save", TRUE, {t}, NoUpdates)
    /\ story[t] # s
    /\ story' = [story EXCEPT ![t] = s]
    /\ sched' = [sched EXCEPT ![t].due_date = due[t]]
    /\ calls' = Ensure(t) \o <<Propagate(t), Respond>>
    /\ UNCHANGED <<due, epics, links>>

(* A relation of the story is created, deleted or reordered:               *)
(* _related_userstory_post_save and its siblings.  The creation is not one *)
(* transaction.                                                            *)
Relate(s, q) ==
    /\ Begin("relate", Len(q) <= Len(epics[s]), {s}, NoUpdates)
    /\ epics[s] # q
    /\ epics' = [epics EXCEPT ![s] = q]
    /\ calls' = Ensure(s) \o <<Respond>>
    /\ UNCHANGED <<sched, due, story, links>>

(* ScheduleDependency.clean and save *)
CreateLink(i, j) ==
    /\ Begin("link", FALSE, {}, NoUpdates)
    /\ <<i, j>> \in Links \ links
    /\ i # j
    /\ sched[i].due_date # NoDate /\ Start(sched[j]) # NoDate
    /\ Start(sched[j]) > sched[i].due_date
    /\ links' = links \cup {<<i, j>>}
    /\ UNCHANGED <<sched, due, story, epics, calls>>

DeleteLink(i, j) ==
    /\ Begin("link", FALSE, {}, NoUpdates)
    /\ <<i, j>> \in links
    /\ links' = links \ {<<i, j>>}
    /\ UNCHANGED <<sched, due, story, epics, calls>>

(* upsert_schedule with the fields the client sent. *)
Updated(row, u) ==
    LET start(field) == IF u.start # Keep /\ u.field = field THEN u.start ELSE row[field]
    IN  [estimated_start |-> start("estimated_start"),
         actual_start    |-> start("actual_start"),
         due_date        |-> IF u.due # Keep THEN u.due ELSE row.due_date]

(* The orders of the items of one kind: by id, whatever their ids.         *)
Orders(S) == {q \in [1..Cardinality(S) -> S] : Range(q) = S}

(* apply_schedule_dates_in_bulk: all updates, then the parents of each     *)
(* item, then the dependents of each, then the validation; sorted() puts   *)
(* epics first and stories last.                                           *)
BulkApply(u) ==
    /\ Begin("bulk", TRUE, DOMAIN u, u)
    /\ sched' = [i \in Items |->
                    IF i \in DOMAIN u THEN Updated(sched[i], u[i]) ELSE sched[i]]
    /\ due' = [i \in DOMAIN due |->
                  IF i \in DOMAIN u /\ u[i].due # Keep THEN u[i].due ELSE due[i]]
    /\ \E e \in Orders(DOMAIN u \cap Epics), t \in Orders(DOMAIN u \cap Tasks),
          s \in Orders(DOMAIN u \cap Stories) :
          LET q == t \o s
          IN  calls' = [k \in DOMAIN q |-> Ensuring(q[k])]
                         \o [k \in DOMAIN (e \o q) |-> Propagate((e \o q)[k])]
                         \o <<Respond>>
    /\ UNCHANGED <<story, epics, links>>

Request ==
    \/ \E i \in Tasks \cup Stories, d \in Dues : SaveEntity(i, d)
    \/ \E i \in Tasks \cup Stories : SaveEntity(i, due[i])
    \/ \E e \in Epics : SaveEpic(e)
    \/ \E h \in Homes : \/ h.item \in Tasks /\ MoveTask(h.item, h.parent)
                        \/ h.item \in Stories /\ Relate(h.item, h.parent)
    \/ \E l \in Links : CreateLink(l[1], l[2]) \/ DeleteLink(l[1], l[2])
    \/ \E u \in Bulks : BulkApply(u)

Init ==
    /\ \E p \in Plans :
          /\ sched = p.sched
          /\ due = [i \in Tasks \cup Stories |-> p.sched[i].due_date]
          /\ story = p.story /\ epics = p.epics /\ links = p.links
    /\ calls = <<>>
    /\ request = [kind |-> "none", atomic |-> FALSE, edited |-> {}, updates |-> NoUpdates,
                  sched |-> sched, due |-> due, story |-> story, epics |-> epics]
    /\ outcome = "none"
    /\ served = 0

(* The bound on requests is reached. *)
Rest == Idle /\ served = MaxRequests /\ UNCHANGED vars

Next == Request \/ Step \/ Rest

(* A request that has begun runs to its end. *)
Spec == Init /\ [][Next]_vars /\ WF_vars(Step)

-----------------------------------------------------------------------------
(* Properties.                                                             *)

Ensurings == [call : {"ensure"}, item : Tasks \cup Stories]

Propagations == [call : {"propagate"}, queue : Seq(Items), targets : SUBSET Items,
                 iterations : 0..MaxIterations]

(* Type invariant of the tables and of the call stack.                     *)
TypeOK ==
    /\ sched \in [Items -> Rows]
    /\ due \in [Tasks \cup Stories -> Dates]
    /\ story \in [Tasks -> Stories \cup {NoItem}]
    /\ epics \in [Stories -> Seq(Epics)]
    /\ links \subseteq Links
    /\ calls \in Seq({Respond} \cup Ensurings \cup Propagations)
    /\ outcome \in {"none", "saved", "accepted", "rejected", "crashed"}

(* The two copies of a due date, on the entity and on its schedule, agree  *)
(* between requests, whatever path wrote them: the entity APIs, a bulk,    *)
(* a shift or the widening of a parent (_shift_schedule_forward_to_start,  *)
(* _expand_userstory_bounds, _apply_schedule_bulk_updates).                *)
DueCopiesAgree ==
    Idle => \A i \in Tasks \cup Stories : due[i] = sched[i].due_date

(* An accepted bulk leaves every item it names behind its sources and      *)
(* around its children, although the validation reads a locked instance    *)
(* that the side effects have overtaken (apply_schedule_dates_in_bulk).    *)
(* Only a story without a due date in that instance, which then gets one   *)
(* from a task, is not compared with its other tasks.                      *)
AcceptedIsConsistent ==
    Idle /\ outcome = "accepted" =>
        \A i \in request.edited :
            /\ ~ViolatesDependencies(i, Start(sched[i]))
            /\ i \in Epics \cup Stories =>
                  ~ViolatesBounds(i, Start(sched[i]),
                                  IF ValidatedDue(i) = NoDate THEN NoDate ELSE Due(i))

(* A request that goes through breaks no dependency, however far from the  *)
(* items it edits, except on an item that contains an edited one or one    *)
(* that starts too early: widening may pull it back, even after it was     *)
(* shifted.  Every due date that moves later, by an edit, a shift or a     *)
(* widening, is propagated                                                 *)
(* (propagate_dependency_chain_forward_from_schedule).                     *)
Broken(table, l) ==
    /\ table[l[1]].due_date # NoDate
    /\ Start(table[l[2]]) # NoDate => Start(table[l[2]]) <= table[l[1]].due_date

Contents(i) == IF i \in Tasks THEN {} ELSE Children(i) \cup UNION {Children(c) : c \in Children(i) \cap Stories}

ContainsEarlier(l) ==
    \E c \in Contents(l[2]) :
        \/ c \in request.edited
        \/ Start(sched[c]) # NoDate /\ Start(sched[c]) <= sched[l[1]].due_date

OnlyWideningBreaks ==
    Idle /\ outcome \in {"saved", "accepted"} =>
        \A l \in links :
            Broken(sched, l) => Broken(request.sched, l) \/ ContainsEarlier(l)

DueWithin(i, p) == Due(i) # NoDate => Due(p) # NoDate /\ Due(p) >= Due(i)

(* When a request has gone through, the story of an edited task and the    *)
(* primary epic of an edited story are not due before it                   *)
(* (ensure_userstory_and_epic_bounds_from_task).                           *)
ParentsContainEdited ==
    Idle /\ outcome \in {"saved", "accepted"} =>
        \A i \in request.edited :
            \A p \in Parents(i) : DueWithin(i, p)

(* Nobody's due date moves earlier behind a client's back: only the edited *)
(* items can become due earlier, unless a transaction is rolled back       *)
(* (test_propagation_does_not_pull_targets_backwards).                     *)
NoDuePulledBack ==
    [][\A i \in Items :
          sched'[i].due_date # sched[i].due_date /\ sched[i].due_date # NoDate =>
              \/ sched'[i].due_date # NoDate /\ sched'[i].due_date > sched[i].due_date
              \/ Idle /\ i \in request'.edited
              \/ outcome' \in {"rejected", "crashed"}]_vars

(* Every request comes to an end: the mutual recursion of widening and     *)
(* propagation stops.                                                      *)
EveryRequestEnds == []<>Idle

(* "test_ancestor_dependency_violation_blocks_when_task_would_pull_        *)
(* userstory_start_too_early": an accepted bulk never widens a story or an *)
(* epic to before the sources it depends on.                               *)
AcceptedSparesAncestors ==
    Idle /\ outcome = "accepted" =>
        \A i \in request.edited \cap Tasks, l \in links :
            l[2] = story[i] /\ Broken(sched, l) => Broken(request.sched, l)

-----------------------------------------------------------------------------
(* The inductive invariant behind the type invariant and the properties of *)
(* due dates and accepted bulks (module ScheduleDatesProofs).              *)

(* What is kept of the request: its updates and the tables it began with.  *)
RequestTyped ==
    /\ request.edited \subseteq Items
    /\ request.kind = "bulk" => request.updates \in [request.edited -> Updates]
    /\ request.sched \in [Items -> Rows]
    /\ request.due \in [Tasks \cup Stories -> Dates]
    /\ request.story \in [Tasks -> Stories \cup {NoItem}]
    /\ request.epics \in [Stories -> Seq(Epics)]

Agree(rows, dues) == \A i \in Tasks \cup Stories : dues[i] = rows[i].due_date

(* The response is the last thing to do.                                   *)
RespondsLast ==
    /\ ~Idle => outcome = "none" /\ calls[Len(calls)] = Respond
    /\ \A k \in DOMAIN calls : calls[k] = Respond => k = Len(calls)

(* What an edited item is in contains it, or is going to be widened.       *)
EditedContained ==
    outcome \in {"none", "saved", "accepted"} =>
        \A i \in request.edited :
            \/ Ensuring(i) \in Range(calls)
            \/ \A p \in Parents(i) : DueWithin(i, p)

(* The due date that a bulk is going to validate is no later than the row's. *)
ValidatedInTime ==
    request.kind = "bulk" /\ outcome \in {"none", "accepted"} =>
        \A i \in request.edited \ Epics :
            ValidatedDue(i) # NoDate => due[i] # NoDate /\ due[i] >= ValidatedDue(i)

DatesInv ==
    /\ TypeOK
    /\ RequestTyped
    /\ Agree(sched, due) /\ Agree(request.sched, request.due)
    /\ RespondsLast
    /\ EditedContained
    /\ ValidatedInTime
    /\ AcceptedIsConsistent

=============================================================================
