------------------------------ MODULE Closing ------------------------------
(* When stories and milestones are closed: the signal handlers of           *)
(* userstories/signals.py, tasks/signals.py, issues/signals.py and          *)
(* projects/signals.py, and the bulk operations that go round them. One     *)
(* request at a time; what a bulk operation leaves to a worker is later.    *)
EXTENDS Integers, FiniteSets

CONSTANTS Stories, Tasks, Issues, Milestones,
          Statuses,     \* the statuses of each kind
          Gone,         \* an item that does not exist
          Nowhere,      \* no milestone, no user story
          MaxRequests   \* bound on requests

(* The rows of stories, tasks and issues.                                    *)
StoryRows == [status : Statuses, milestone : Milestones \cup {Nowhere}, closed : BOOLEAN]
TaskRows == [status : Statuses, story : Stories \cup {Nowhere},
             milestone : Milestones \cup {Nowhere}]
IssueRows == [status : Statuses, milestone : Milestones \cup {Nowhere}]

ClosingAssumption ==
    /\ MaxRequests \in Nat
    /\ Nowhere \notin Stories \cup Milestones
    /\ Gone \notin StoryRows \cup TaskRows \cup IssueRows

VARIABLES
    board,     \* [us, task, issue, closed, done]: rows of stories, tasks and issues,
               \* Milestone.closed, is_closed of the statuses of each kind
    jobs,      \* tasks for the worker: [kind, items]
    last,      \* how the last request changed rows: "signals" if every handler ran,
               \* "status" if a status did, "table" if none ran
    requests   \* number of requests

closingVars == <<board, jobs, last, requests>>

Kinds == {"us", "task", "issue"}

Exists(b, kind) == {i \in DOMAIN b[kind] : b[kind][i] # Gone}
StoriesIn(b, m) == {s \in Exists(b, "us") : b.us[s].milestone = m}
TasksOf(b, s) == {t \in Exists(b, "task") : b.task[t].story = s}
LooseTasksIn(b, m) == {t \in TasksOf(b, Nowhere) : b.task[t].milestone = m}
IssuesIn(b, m) == {i \in Exists(b, "issue") : b.issue[i].milestone = m}

Finished(b, kind, i) == b.done[kind][b[kind][i].status]

(* calculate_userstory_is_closed                                            *)
StoryDone(b, s) ==
    IF TasksOf(b, s) = {} THEN Finished(b, "us", s)
    ELSE \A t \in TasksOf(b, s) : Finished(b, "task", t)

NothingOpen(b, m) ==
    /\ \A s \in StoriesIn(b, m) : b.us[s].closed
    /\ \A t \in LooseTasksIn(b, m) : Finished(b, "task", t)
    /\ \A i \in IssuesIn(b, m) : Finished(b, "issue", i)

(* calculate_milestone_is_closed                                            *)
MilestoneDone(b, m) ==
    /\ StoriesIn(b, m) \cup LooseTasksIn(b, m) \cup IssuesIn(b, m) # {}
    /\ NothingOpen(b, m)

(* close_milestone or open_milestone, for every milestone of M              *)
Judged(b, M) ==
    [b EXCEPT !.closed = [m \in Milestones |->
                             IF m \in M THEN MilestoneDone(b, m) ELSE b.closed[m]]]

(* After a deletion a milestone is only ever closed.                        *)
ClosedOnly(b, m) ==
    IF m # Nowhere /\ MilestoneDone(b, m) THEN Judged(b, {m}) ELSE b

(* close_userstory or open_userstory: only a change is saved, and the save  *)
(* has its own handlers judge the story's milestone.                        *)
Flipped(b, s) ==
    IF b.us[s].closed = StoryDone(b, s) THEN b
    ELSE Judged([b EXCEPT !.us[s].closed = ~@], {b.us[s].milestone})

FlippedAll(b, S) ==
    LET f == [b EXCEPT !.us = [s \in Stories |->
                 IF s \in S THEN [b.us[s] EXCEPT !.closed = StoryDone(b, s)] ELSE b.us[s]]]
    IN  Judged(f, {b.us[s].milestone : s \in {u \in S : f.us[u] # b.us[u]}})

(* Mutant: the former milestone is forgotten.                               *)
LeftForgotten(row) == {}

(* The milestone an existing row was in                                     *)
Left(row) == IF row = Gone THEN {} ELSE {row.milestone}

(* The handlers after the save of a story: its tasks follow it, then it is  *)
(* closed or opened, then its milestones are judged. The nested save of a   *)
(* flip overwrites instance.prev, so that the milestone the story has left  *)
(* is forgotten.                                                            *)
StorySaved(b, s, row) ==
    LET moved == [b EXCEPT !.us[s] = row,
                           !.task = [t \in Tasks |->
                               IF t \in TasksOf(b, s)
                               THEN [b.task[t] EXCEPT !.milestone = row.milestone]
                               ELSE b.task[t]]]
        flipped == Flipped(moved, s)
        prev == IF flipped.us[s].closed = row.closed THEN Left(b.us[s]) ELSE {}
    IN  Judged(flipped, prev \cup {row.milestone})

(* Mutant: the story that the task leaves is not looked at.                 *)
TaskSavedInNewStory(b, t, row) ==
    Judged(FlippedAll([b EXCEPT !.task[t] = row], {row.story} \ {Nowhere}),
           Left(b.task[t]) \cup {row.milestone})

(* The stories a task is or was in, then its milestones                     *)
TaskSaved(b, t, row) ==
    LET saved == [b EXCEPT !.task[t] = row]
        prev == IF b.task[t] = Gone THEN {} ELSE {b.task[t].story}
    IN  Judged(FlippedAll(saved, ({row.story} \cup prev) \ {Nowhere}),
               Left(b.task[t]) \cup {row.milestone})

Ask(b, kind) ==
    /\ requests < MaxRequests
    /\ requests' = requests + 1
    /\ board' = b
    /\ last' = kind

(* Every story in one milestone, the tasks in one story, the issues beside  *)
(* them, whatever their statuses are.                                       *)
ClosingInit ==
    /\ \E m \in Milestones, home \in Stories, done \in Statuses,
          us \in [Stories -> Statuses], task \in [Tasks -> Statuses],
          issue \in [Issues -> Statuses] :
          LET b == [us |-> [s \in Stories |-> [status |-> us[s], milestone |-> m,
                                              closed |-> us[s] = done]],
                    task |-> [t \in Tasks |-> [status |-> task[t], story |-> home,
                                              milestone |-> m]],
                    issue |-> [i \in Issues |-> [status |-> issue[i], milestone |-> m]],
                    closed |-> [n \in Milestones |-> FALSE],
                    done |-> [k \in Kinds |-> [s \in Statuses |-> s = done]]]
          IN  board = Judged(FlippedAll(b, Stories), Milestones)
    /\ jobs = {}
    /\ last = "signals"
    /\ requests = 0

(* A story keeps is_closed through a save; a new one is open.               *)
SaveStory(s, status, m) ==
    /\ Ask(StorySaved(board, s, [status |-> status, milestone |-> m,
               closed |-> board.us[s] # Gone /\ board.us[s].closed]), "signals")
    /\ UNCHANGED jobs

(* A task of a story is in the story's milestone.                           *)
SaveTask(t, status, s, m) ==
    /\ IF s = Nowhere THEN TRUE ELSE s \in Exists(board, "us") /\ m = board.us[s].milestone
    /\ Ask(TaskSaved(board, t, [status |-> status, story |-> s, milestone |-> m]), "signals")
    /\ UNCHANGED jobs

(* Mutant: the milestone that gets the issue is not looked at.              *)
SaveIssueInOldMilestone(i, status, m) ==
    /\ Ask(Judged([board EXCEPT !.issue[i] = [status |-> status, milestone |-> m]],
                  Left(board.issue[i])), "signals")
    /\ UNCHANGED jobs

SaveIssue(i, status, m) ==
    /\ Ask(Judged([board EXCEPT !.issue[i] = [status |-> status, milestone |-> m]],
                  Left(board.issue[i]) \cup {m}), "signals")
    /\ UNCHANGED jobs

(* The tasks of a deleted story go with it, their handlers disconnected.    *)
DeleteStory(s) ==
    /\ s \in Exists(board, "us")
    /\ LET b == [board EXCEPT !.us[s] = Gone,
                              !.task = [t \in Tasks |-> IF t \in TasksOf(board, s) THEN Gone
                                                        ELSE board.task[t]]]
       IN  Ask(ClosedOnly(b, board.us[s].milestone), "signals")
    /\ UNCHANGED jobs

DeleteTask(t) ==
    /\ t \in Exists(board, "task")
    /\ LET b == [board EXCEPT !.task[t] = Gone]
       IN  Ask(ClosedOnly(FlippedAll(b, {board.task[t].story} \ {Nowhere}),
                          board.task[t].milestone), "signals")
    /\ UNCHANGED jobs

DeleteIssue(i) ==
    /\ i \in Exists(board, "issue")
    /\ Ask(ClosedOnly([board EXCEPT !.issue[i] = Gone], board.issue[i].milestone), "signals")
    /\ UNCHANGED jobs

(* is_closed of a status changes: stories are looked at again, and no       *)
(* milestone for its own tasks and issues.                                  *)
EditStatus(kind, status) ==
    LET b == [board EXCEPT !.done[kind][status] = ~@]
        touched == CASE kind = "us" -> {s \in Exists(b, "us") : b.us[s].status = status}
                     [] kind = "task" -> {s \in Exists(b, "us") :
                            \E t \in TasksOf(b, s) : b.task[t].status = status}
                     [] kind = "issue" -> {}
    IN  /\ Ask(FlippedAll(b, touched), IF kind = "us" THEN "signals" ELSE "status")
        /\ UNCHANGED jobs

(* Deleting a status moves its items to another by an update of the table.  *)
DeleteStatus(kind, status, to) ==
    /\ status # to
    /\ Ask([board EXCEPT ![kind] = [i \in DOMAIN board[kind] |->
               IF i \in Exists(board, kind) /\ board[kind][i].status = status
               THEN [board[kind][i] EXCEPT !.status = to] ELSE board[kind][i]]], "table")
    /\ UNCHANGED jobs

(* create_userstories_in_bulk disconnects the handlers.                     *)
BulkCreate(s, status) ==
    /\ board.us[s] = Gone
    /\ Ask([board EXCEPT !.us[s] = [status |-> status, milestone |-> Nowhere,
                                    closed |-> FALSE]], "table")
    /\ UNCHANGED jobs

(* create_issues_in_bulk disconnects the handlers, create_tasks_in_bulk not.*)
CreateIssues(I, status, m) ==
    /\ \A i \in I : board.issue[i] = Gone
    /\ Ask([board EXCEPT !.issue = [i \in Issues |->
               IF i \in I THEN [status |-> status, milestone |-> m] ELSE board.issue[i]]],
           "table")
    /\ UNCHANGED jobs

(* Items of one kind are put into a milestone, the rest of the rows as it is. *)
PutInto(kind, I, m) ==
    [board EXCEPT ![kind] = [i \in DOMAIN board[kind] |->
        IF i \in I THEN [board[kind][i] EXCEPT !.milestone = m] ELSE board[kind][i]]]

(* bulk_update_milestone of tasks, and that of issues, judge none.          *)
BulkTaskMilestone(T, m) ==
    /\ Ask(PutInto("task", T, m), "table")
    /\ UNCHANGED jobs

BulkIssueMilestone(I, m) ==
    /\ Ask(PutInto("issue", I, m), "table")
    /\ UNCHANGED jobs

(* move_tasks_to_sprint saves tasks, whatever milestone their story is in;  *)
(* move_userstories_to_sprint and move_issues_to_sprint are a SaveStory and *)
(* a SaveIssue for each item.                                               *)
MoveTaskToSprint(t, m) ==
    /\ t \in Exists(board, "task")
    /\ Ask(TaskSaved(board, t, [board.task[t] EXCEPT !.milestone = m]), "signals")
    /\ UNCHANGED jobs

(* A client can write Milestone.closed.                                     *)
SaveMilestone(m, closed) ==
    /\ Ask([board EXCEPT !.closed[m] = closed], "table")
    /\ UNCHANGED jobs

(* A deleted milestone is null in the rows that named it; it is created     *)
(* again at once.                                                           *)
DeleteMilestone(m) ==
    LET leave(row) == IF row # Gone /\ row.milestone = m
                      THEN [row EXCEPT !.milestone = Nowhere] ELSE row
        without(kind) == [i \in DOMAIN board[kind] |-> leave(board[kind][i])]
    IN  /\ Ask([board EXCEPT !.us = without("us"), !.task = without("task"),
                             !.issue = without("issue"), !.closed[m] = FALSE], "signals")
        /\ jobs' = {[job EXCEPT !.items = @ \ {m}] : job \in jobs}

Moved(b, S, m) ==
    [b EXCEPT !.us = [s \in Stories |->
                         IF s \in S THEN [b.us[s] EXCEPT !.milestone = m] ELSE b.us[s]],
              !.task = [t \in Tasks |->
                           IF \E s \in S : t \in TasksOf(b, s)
                           THEN [b.task[t] EXCEPT !.milestone = m] ELSE b.task[t]]]

(* bulk_update_milestone of stories judges no milestone.                    *)
BulkMilestone(S, m) ==
    /\ Ask(Moved(board, S, m), "table")
    /\ UNCHANGED jobs

(* A drop on the backlog or on a sprint: the worker gets the milestones.    *)
BulkSprint(S, m) ==
    /\ Ask(Moved(board, S, m), "signals")
    /\ jobs' = jobs \cup {[kind |-> "milestones",
                           items |-> ({m} \cup {board.us[s].milestone : s \in S}) \ {Nowhere}]}

(* A drop on the kanban: the worker gets the stories.                       *)
BulkKanban(S, status) ==
    /\ Ask([board EXCEPT !.us = [s \in Stories |->
               IF s \in S THEN [board.us[s] EXCEPT !.status = status] ELSE board.us[s]]],
           "signals")
    /\ jobs' = jobs \cup {[kind |-> "stories", items |-> S]}

(* _async_tasks_after_backlog_or_sprint_order_change,                       *)
(* _async_tasks_after_kanban_order_change                                   *)
Work(job) ==
    /\ board' = IF job.kind = "milestones" THEN Judged(board, job.items)
                ELSE FlippedAll(board, job.items \cap Exists(board, "us"))
    /\ jobs' = jobs \ {job}
    /\ last' = "signals"
    /\ UNCHANGED requests

Some(kind) == (SUBSET Exists(board, kind)) \ {{}}

ClosingNext ==
    \/ \E s \in Stories, status \in Statuses :
          \/ \E m \in Milestones \cup {Nowhere} : SaveStory(s, status, m)
          \/ BulkCreate(s, status)
    \/ \E t \in Tasks, status \in Statuses, s \in Stories \cup {Nowhere},
          m \in Milestones \cup {Nowhere} : SaveTask(t, status, s, m)
    \/ \E i \in Issues, status \in Statuses, m \in Milestones \cup {Nowhere} :
          SaveIssue(i, status, m)
    \/ \E s \in Stories : DeleteStory(s)
    \/ \E t \in Tasks : DeleteTask(t)
    \/ \E i \in Issues : DeleteIssue(i)
    \/ \E kind \in Kinds, status \in Statuses : EditStatus(kind, status)
    \/ \E kind \in Kinds, status \in Statuses, to \in Statuses : DeleteStatus(kind, status, to)
    \/ \E S \in Some("us"), m \in Milestones \cup {Nowhere} : BulkSprint(S, m)
    \/ \E S \in Some("us"), status \in Statuses : BulkKanban(S, status)
    \/ \E I \in (SUBSET Issues) \ {{}}, status \in Statuses, m \in Milestones :
          CreateIssues(I, status, m)
    \/ \E m \in Milestones :
          \/ \E S \in Some("us") : BulkMilestone(S, m)
          \/ \E T \in Some("task") : BulkTaskMilestone(T, m)
          \/ \E I \in Some("issue") : BulkIssueMilestone(I, m)
          \/ \E t \in Tasks : MoveTaskToSprint(t, m)
          \/ \E closed \in BOOLEAN : SaveMilestone(m, closed)
          \/ DeleteMilestone(m)
    \/ \E job \in jobs : Work(job)

ClosingSpec == ClosingInit /\ [][ClosingNext]_closingVars

---------------------------------------------------------------------------
ClosingTypeOK ==
    /\ \A s \in Exists(board, "us") : board.us[s].milestone \in Milestones \cup {Nowhere}
    /\ \A t \in Exists(board, "task") :
          board.task[t].story \in Exists(board, "us") \cup {Nowhere}
    /\ board.closed \in [Milestones -> BOOLEAN]
    /\ \A job \in jobs : job.items \subseteq Stories \cup Milestones
    /\ requests \in 0..MaxRequests

Waiting == UNION {job.items : job \in jobs}

StoryJudged(s) == s \notin Exists(board, "us") \/ board.us[s].closed = StoryDone(board, s)

(* A story that is closed just when its tasks are (or its status, without   *)
(* tasks) stays so through every request, or is waiting for the worker; the *)
(* exceptions are updates of the table: a deleted status, a bulk creation.  *)
StoriesFollowTheirTasks ==
    \A s \in Stories :
        StoryJudged(s) => StoryJudged(s)' \/ s \in Waiting' \/ last' = "table"

(* No request leaves open work in a milestone that is marked closed, unless *)
(* it is waiting for the worker, or through an update of the table, of the  *)
(* flag itself or of a status of tasks or issues.                           *)
ClosedMeansNothingOpen ==
    \A m \in Milestones :
        ~board.closed[m] \/ NothingOpen(board, m) =>
            \/ ~board'.closed[m] \/ NothingOpen(board', m)
            \/ m \in Waiting' \/ last' \in {"table", "status"}

(* A milestone whose work is all done does not stay open, with the same     *)
(* exceptions and one more: a save that moves a story out of it and at the  *)
(* same time closes or opens the story.                                     *)
DoneMilestonesClose ==
    \A m \in Milestones :
        board.closed[m] \/ ~MilestoneDone(board, m) =>
            \/ board'.closed[m] \/ ~MilestoneDone(board', m)
            \/ m \in Waiting' \/ last' \in {"table", "status"}
            \/ \E s \in StoriesIn(board, m) \ StoriesIn(board', m) :
                  board'.us[s] # Gone /\ board'.us[s].closed # board.us[s].closed

(* The inductive invariant behind them (module ClosingProofs): the types,   *)
(* and a task is in a story that exists.                                    *)
BoardStates ==
    [us : [Stories -> StoryRows \cup {Gone}], task : [Tasks -> TaskRows \cup {Gone}],
     issue : [Issues -> IssueRows \cup {Gone}], closed : [Milestones -> BOOLEAN],
     done : [Kinds -> [Statuses -> BOOLEAN]]]

TasksHaveStories(b) ==
    \A t \in Exists(b, "task") : b.task[t].story \in Exists(b, "us") \cup {Nowhere}

ClosingInv == board \in BoardStates /\ TasksHaveStories(board)

=============================================================================
