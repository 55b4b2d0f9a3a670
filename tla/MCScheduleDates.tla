-------------------------- MODULE MCScheduleDates --------------------------
(* ScheduleDates on a small plan for TLC. *)
EXTENDS ScheduleDates

CONSTANTS e1, s1, s2, t1, t2, t3

Row(est, act, d) == [estimated_start |-> est, actual_start |-> act, due_date |-> d]

Story == [t \in Tasks |-> CASE t = t1 -> s1 [] t = t2 -> s2 [] OTHER -> NoItem]

(* An epic of two stories, the first with two tasks. Everything fits; s2   *)
(* has really started.                                                     *)
Plan ==
    [sched |-> [i \in Items |->
                  CASE i = e1 -> Row(1, NoDate, 5)
                    [] i = s1 -> Row(1, NoDate, 5)
                    [] i = s2 -> Row(1, 3, 4)
                    [] i = t1 -> Row(1, NoDate, 2)
                    [] i = t2 -> Row(3, NoDate, 3)
                    [] i = t3 -> Row(4, NoDate, 5)],
     story |-> [Story EXCEPT ![t3] = s1], epics |-> [s \in Stories |-> <<e1>>],
     links |-> {<<t1, t2>>}]

(* Nothing is dated or linked yet. *)
EmptyPlan ==
    [sched |-> [i \in Items |-> Row(NoDate, NoDate, NoDate)],
     story |-> Story, epics |-> [s \in Stories |-> IF s = s1 THEN <<e1>> ELSE <<>>],
     links |-> {}]

(* Work that waits for t3: the epic, its story and the next story.           *)
WaitingPlan ==
    [sched |-> [i \in Items |->
                  CASE i \in {e1, s1, t1} -> Row(3, NoDate, 4)
                    [] i = s2 -> Row(5, NoDate, 5)
                    [] i = t2 -> Row(NoDate, NoDate, NoDate)
                    [] i = t3 -> Row(1, NoDate, 2)],
     story |-> Story, epics |-> [s \in Stories |-> IF s = s1 THEN <<e1>> ELSE <<>>],
     links |-> {<<t3, e1>>, <<t3, s1>>, <<s1, s2>>}]

AnyPlan == {Plan, WaitingPlan, EmptyPlan}

AnyDue == {NoDate, 1, 3}

Field == {"estimated_start", "actual_start"}

Update(field, start, end) == [field |-> field, start |-> start, due |-> end]

AnyUpdate ==
    {Update(f, b, d) : f \in Field, b \in {Keep, NoDate, 2, 4}, d \in {Keep, NoDate, 3}}
      \ {Update(f, Keep, Keep) : f \in Field}

(* One item, or a task and its story, or two linked tasks at once. *)
AnyBulk ==
    [{t1} -> AnyUpdate] \cup [{t2} -> AnyUpdate] \cup [{t3} -> AnyUpdate]
      \cup [{s2} -> AnyUpdate] \cup [{e1} -> AnyUpdate]
      \cup [{s1, t1} -> {Update("estimated_start", b, d) : b \in {Keep, 2}, d \in {NoDate, 3, 5}}]
      \cup [{t1, t2} -> {Update("estimated_start", b, d) : b \in {1, 4}, d \in {Keep, 5}}]

(* Dependencies without a cycle through dependents and parents. *)
AcyclicLinks == {<<t1, t2>>, <<s1, s2>>, <<t3, e1>>, <<t3, s1>>}

Home(i, p) == [item |-> i, parent |-> p]

AnyHome == {Home(t3, s2), Home(t1, NoItem), Home(s1, <<>>), Home(s2, <<e1>>)}

=============================================================================
