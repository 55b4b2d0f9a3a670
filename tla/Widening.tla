------------------------------ MODULE Widening ------------------------------
(* Concurrent saves of a story and of its tasks: a task that is due later   *)
(* widens the story (_expand_userstory_bounds of schedule/services.py),     *)
(* whose due date is in its own row and in its schedule. Requests are       *)
(* transactions of PostgreSQL at READ COMMITTED, statement by statement.    *)
EXTENDS Integers

CONSTANTS Tasks,     \* the tasks of the story
          Handlers,  \* request handlers
          Dates,     \* due dates
          Free       \* nobody holds the lock, no task

ASSUME WideningAssumption ==
    Dates \subseteq Nat /\ Free \notin Handlers /\ Free \notin Tasks

VARIABLES
    taskDue,   \* Task.due_date, committed
    storyDue,  \* committed: UserStory.due_date (row), Schedule.due_date (schedule)
    step,      \* what the transaction of each handler does next
    saving,    \* the task it saves, if it is not the story
    due,       \* the due date it writes
    named,     \* whether a client named that date of the story
    crossed,   \* (history variable) whether another save was under way meanwhile
    held,      \* who holds the lock of either row of the story
    ending     \* the last commit: [named, crossed]

saveVars == <<step, saving, due, named, crossed>>
wideningVars == <<taskDue, storyDue, saveVars, held, ending>>

Copies == {"row", "schedule"}
Steps == {"idle", "read", "commit"} \cup Copies

NoEnding == [named |-> FALSE, crossed |-> FALSE]

Busy == {h \in Handlers : step[h] # "idle"}

Begin(h, first, t, d, byClient) ==
    /\ h \notin Busy
    /\ step' = [step EXCEPT ![h] = first]
    /\ saving' = [saving EXCEPT ![h] = t]
    /\ due' = [due EXCEPT ![h] = d]
    /\ named' = [named EXCEPT ![h] = byClient]
    /\ crossed' = [g \in Handlers |-> IF g = h THEN Busy # {} ELSE crossed[g] \/ g \in Busy]
    /\ ending' = NoEnding
    /\ UNCHANGED <<taskDue, storyDue, held>>

WideningInit ==
    /\ taskDue \in [Tasks -> Dates]
    /\ \E d \in Dates :
          /\ \A t \in Tasks : taskDue[t] <= d
          /\ storyDue = [k \in Copies |-> d]
          /\ due = [h \in Handlers |-> d]
    /\ step = [h \in Handlers |-> "idle"]
    /\ saving = [h \in Handlers |-> Free]
    /\ named = [h \in Handlers |-> FALSE]
    /\ crossed = [h \in Handlers |-> FALSE]
    /\ held = [k \in Copies |-> Free]
    /\ ending = NoEnding

(* A task's row is written and locked until the end.                        *)
BeginTask(h, t, d) ==
    /\ \A g \in Busy : saving[g] # t
    /\ Begin(h, "read", t, d, FALSE)

(* A story is saved with a new due date, or with the one it was read with.  *)
BeginStory(h, d, byClient) ==
    /\ byClient \/ d = storyDue["row"]
    /\ Begin(h, "row", Free, d, byClient)

Goto(h, next) == step' = [step EXCEPT ![h] = next]

(* Mutant: the story is left as it is.                                      *)
ReadStoryOnly(h) ==
    /\ step[h] = "read"
    /\ Goto(h, "commit")
    /\ ending' = NoEnding
    /\ UNCHANGED <<taskDue, storyDue, saving, due, named, crossed, held>>

(* _build_expand_bounds_updates                                             *)
ReadStory(h) ==
    /\ step[h] = "read"
    /\ Goto(h, IF due[h] > storyDue["schedule"] THEN "schedule" ELSE "commit")
    /\ ending' = NoEnding
    /\ UNCHANGED <<taskDue, storyDue, saving, due, named, crossed, held>>

(* The save of a task writes the story's schedule and then its row, the     *)
(* save of the story the other way round.                                   *)
WriteStory(h, copy) ==
    LET other == CHOOSE k \in Copies : k # copy
    IN  /\ step[h] = copy
        /\ held[copy] = Free
        /\ held' = [held EXCEPT ![copy] = h]
        /\ Goto(h, IF held[other] = h THEN "commit" ELSE other)
        /\ ending' = NoEnding
        /\ UNCHANGED <<taskDue, storyDue, saving, due, named, crossed>>

Released(h) == [k \in Copies |-> IF held[k] = h THEN Free ELSE held[k]]

(* The end of a transaction                                                 *)
End(h) ==
    /\ Goto(h, "idle")
    /\ saving' = [saving EXCEPT ![h] = Free]
    /\ named' = [named EXCEPT ![h] = FALSE]
    /\ crossed' = [crossed EXCEPT ![h] = FALSE]
    /\ held' = Released(h)
    /\ UNCHANGED due

(* Mutant: the story's row keeps its date.                                  *)
CommitSchedule(h) ==
    /\ step[h] = "commit"
    /\ taskDue' = [t \in Tasks |-> IF t = saving[h] THEN due[h] ELSE taskDue[t]]
    /\ storyDue' = [storyDue EXCEPT !["schedule"] = IF held["schedule"] = h THEN due[h] ELSE @]
    /\ ending' = [named |-> named[h], crossed |-> crossed[h]]
    /\ End(h)

Commit(h) ==
    /\ step[h] = "commit"
    /\ taskDue' = [t \in Tasks |-> IF t = saving[h] THEN due[h] ELSE taskDue[t]]
    /\ storyDue' = [k \in Copies |-> IF held[k] = h THEN due[h] ELSE storyDue[k]]
    /\ ending' = [named |-> named[h], crossed |-> crossed[h]]
    /\ End(h)

(* Each waits for the row the other has written: one is rolled back.        *)
Deadlock(h, g) ==
    /\ step[h] = "row" /\ step[g] = "schedule"
    /\ held["row"] = g /\ held["schedule"] = h
    /\ End(h) \/ End(g)
    /\ ending' = NoEnding
    /\ UNCHANGED <<taskDue, storyDue>>

WideningNext ==
    \/ \E h \in Handlers :
          \/ \E t \in Tasks, d \in Dates : BeginTask(h, t, d)
          \/ \E d \in Dates, byClient \in BOOLEAN : BeginStory(h, d, byClient)
          \/ ReadStory(h)
          \/ \E copy \in Copies : WriteStory(h, copy)
          \/ Commit(h)
    \/ \E h, g \in Handlers : Deadlock(h, g)

WideningSpec == WideningInit /\ [][WideningNext]_wideningVars

---------------------------------------------------------------------------
WideningTypeOK ==
    /\ taskDue \in [Tasks -> Dates]
    /\ storyDue \in [Copies -> Dates]
    /\ step \in [Handlers -> Steps]
    /\ due \in [Handlers -> Dates]
    /\ named \in [Handlers -> BOOLEAN]
    /\ crossed \in [Handlers -> BOOLEAN]
    /\ held \in [Copies -> Handlers \cup {Free}]

(* The two copies of the story's due date agree whenever transactions have  *)
(* committed, in whatever order they took the rows.                         *)
CopiesAgree == storyDue["row"] = storyDue["schedule"]

Contained == \A t \in Tasks : taskDue[t] <= storyDue["row"]

(* No commit leaves a task due after its story but one that another save    *)
(* overlapped, or that of a story whose new due date a client named.        *)
OnlyCrossedSavesLoseWidening ==
    [][Contained => Contained' \/ ending'.crossed \/ ending'.named]_wideningVars

(* A transaction has written both copies at its commit or none, and before  *)
(* that never the one it is to write next.                                  *)
LocksFollowSteps ==
    \A h \in Handlers :
        /\ step[h] \in {"idle", "read"} => \A k \in Copies : held[k] # h
        /\ step[h] \in Copies => held[step[h]] # h
        /\ step[h] = "commit" => (held["row"] = h <=> held["schedule"] = h)

(* The story contains the task already.                                     *)
LeavesStory(h) == step[h] = "commit" /\ held["row"] # h

(* A save that no other has overlapped is the only one under way, and still *)
(* knows the due date of the story: it writes none that is earlier, and     *)
(* leaves the story alone only if the task is not due later.                *)
UncrossedSaves ==
    \A h \in Busy : ~crossed[h] =>
        /\ Busy = {h}
        /\ LeavesStory(h) => due[h] <= storyDue["row"]
        /\ step[h] # "read" /\ ~LeavesStory(h) /\ ~named[h] => due[h] >= storyDue["row"]

WideningInv == WideningTypeOK /\ CopiesAgree /\ LocksFollowSteps /\ UncrossedSaves

=============================================================================
