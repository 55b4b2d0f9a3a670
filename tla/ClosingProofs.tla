---------------------------- MODULE ClosingProofs ----------------------------
(***************************************************************************)
(* When stories and milestones are closed, for any number of stories,      *)
(* tasks, issues, milestones, statuses and requests: the three action      *)
(* properties of module Closing are proved of its instance in module       *)
(* Backend. What a handler does is a board computed from another; the      *)
(* lemmas compare the two, and only the last section speaks of steps.      *)
(***************************************************************************)
EXTENDS Backend, TLAPS

LEMMA GoneIsNoRow ==
    /\ Nowhere \notin Stories /\ Nowhere \notin Milestones
    /\ Gone \notin M!StoryRows /\ Gone \notin M!TaskRows /\ Gone \notin M!IssueRows
BY BackendAssumption DEF M!ClosingAssumption

LEMMA BoardFields ==
    ASSUME NEW b \in M!BoardStates
    PROVE  /\ b.us \in [Stories -> M!StoryRows \cup {Gone}]
           /\ b.task \in [StoryTasks -> M!TaskRows \cup {Gone}]
           /\ b.issue \in [Issues -> M!IssueRows \cup {Gone}]
           /\ b.closed \in [Milestones -> BOOLEAN]
           /\ b.done["us"] \in [Statuses -> BOOLEAN] /\ b.done["task"] \in [Statuses -> BOOLEAN]
           /\ b.done["issue"] \in [Statuses -> BOOLEAN]
           /\ M!Exists(b, "us") = {s \in Stories : b.us[s] # Gone}
           /\ M!Exists(b, "task") = {t \in StoryTasks : b.task[t] # Gone}
           /\ M!Exists(b, "issue") = {i \in Issues : b.issue[i] # Gone}
BY DEF M!BoardStates, M!Exists, M!Kinds

LEMMA RowFields ==
    /\ \A row \in M!StoryRows : /\ row.status \in Statuses /\ row.closed \in BOOLEAN
                                /\ row.milestone \in Milestones \cup {Nowhere}
    /\ \A row \in M!TaskRows : /\ row.status \in Statuses /\ row.story \in Stories \cup {Nowhere}
                               /\ row.milestone \in Milestones \cup {Nowhere}
    /\ \A row \in M!IssueRows : /\ row.status \in Statuses
                                /\ row.milestone \in Milestones \cup {Nowhere}
BY DEF M!StoryRows, M!TaskRows, M!IssueRows

(* Judging changes the flags of milestones only.                            *)
LEMMA JudgedShape ==
    ASSUME NEW b \in M!BoardStates, NEW N
    PROVE  LET c == M!Judged(b, N)
           IN  /\ c \in M!BoardStates
               /\ c.us = b.us /\ c.task = b.task /\ c.issue = b.issue /\ c.done = b.done
               /\ \A m \in Milestones :
                     c.closed[m] = IF m \in N THEN M!MilestoneDone(b, m) ELSE b.closed[m]
<1>1. \A m : M!MilestoneDone(b, m) \in BOOLEAN
  BY DEF M!MilestoneDone
<1>2. PICK f : f = [m \in Milestones |-> IF m \in N THEN M!MilestoneDone(b, m) ELSE b.closed[m]]
  OBVIOUS
<1>3. f \in [Milestones -> BOOLEAN]
  BY <1>1, <1>2, BoardFields
<1>4. PICK c : c = [b EXCEPT !.closed = f]
  OBVIOUS
<1>5. /\ c \in M!BoardStates /\ c.closed = f
      /\ c.us = b.us /\ c.task = b.task /\ c.issue = b.issue /\ c.done = b.done
  BY <1>3, <1>4 DEF M!BoardStates
<1>6. c = M!Judged(b, N)
  BY <1>2, <1>4 DEF M!Judged
<1> QED
  BY <1>2, <1>5, <1>6

(* Two boards with the same work.                                           *)
SameItems(b, c) == c.us = b.us /\ c.task = b.task /\ c.issue = b.issue /\ c.done = b.done

LEMMA SameItemsSame ==
    ASSUME NEW b, NEW c, SameItems(b, c)
    PROVE  /\ \A m : M!NothingOpen(c, m) <=> M!NothingOpen(b, m)
           /\ \A m : M!MilestoneDone(c, m) <=> M!MilestoneDone(b, m)
           /\ \A m : M!StoriesIn(c, m) = M!StoriesIn(b, m)
           /\ \A s : M!StoryDone(c, s) <=> M!StoryDone(b, s)
           /\ \A s : M!TasksOf(c, s) = M!TasksOf(b, s)
           /\ \A k \in M!Kinds : M!Exists(c, k) = M!Exists(b, k)
           /\ M!TasksHaveStories(c) <=> M!TasksHaveStories(b)
<1>1. c["us"] = b["us"] /\ c["task"] = b["task"] /\ c["issue"] = b["issue"] /\ c["done"] = b["done"]
  BY DEF SameItems
<1>2. \A k \in M!Kinds : M!Exists(c, k) = M!Exists(b, k)
  BY <1>1 DEF M!Exists, M!Kinds
<1>3. M!Exists(c, "us") = M!Exists(b, "us") /\ M!Exists(c, "task") = M!Exists(b, "task")
      /\ M!Exists(c, "issue") = M!Exists(b, "issue")
  BY <1>2 DEF M!Kinds
<1>4. /\ \A m : M!StoriesIn(c, m) = M!StoriesIn(b, m)
      /\ \A s : M!TasksOf(c, s) = M!TasksOf(b, s)
      /\ \A m : M!LooseTasksIn(c, m) = M!LooseTasksIn(b, m)
      /\ \A m : M!IssuesIn(c, m) = M!IssuesIn(b, m)
  BY <1>3 DEF SameItems, M!StoriesIn, M!TasksOf, M!LooseTasksIn, M!IssuesIn
<1>5. /\ \A i : M!Finished(c, "us", i) <=> M!Finished(b, "us", i)
      /\ \A i : M!Finished(c, "task", i) <=> M!Finished(b, "task", i)
      /\ \A i : M!Finished(c, "issue", i) <=> M!Finished(b, "issue", i)
  BY <1>1 DEF SameItems, M!Finished
<1>6. \A m : M!NothingOpen(c, m) <=> M!NothingOpen(b, m)
  BY <1>4, <1>5 DEF SameItems, M!NothingOpen
<1>7. \A m : M!MilestoneDone(c, m) <=> M!MilestoneDone(b, m)
  BY <1>4, <1>6 DEF M!MilestoneDone
<1>8. \A s : M!StoryDone(c, s) <=> M!StoryDone(b, s)
  BY <1>4, <1>5 DEF M!StoryDone
<1>9. M!TasksHaveStories(c) <=> M!TasksHaveStories(b)
  BY <1>3 DEF SameItems, M!TasksHaveStories
<1> QED
  BY <1>2, <1>4, <1>6, <1>7, <1>8, <1>9

-----------------------------------------------------------------------------
(* Stories that are closed or opened.                                         *)

(* What is done is a truth value.                                           *)
LEMMA StoryDoneType ==
    ASSUME NEW b \in M!BoardStates, NEW s \in M!Exists(b, "us")
    PROVE  /\ M!StoryDone(b, s) \in BOOLEAN
           /\ b.us[s] \in M!StoryRows /\ b.us[s] # Gone /\ s \in Stories
<1>1. s \in Stories /\ b.us[s] \in M!StoryRows /\ b.us[s] # Gone
  BY BoardFields
<1>2. M!Finished(b, "us", s) \in BOOLEAN
  BY <1>1, BoardFields, RowFields DEF M!Finished
<1> QED
  BY <1>1, <1>2 DEF M!StoryDone

(* The stories S are closed or opened, and c is the board then.             *)
Flips(b, c, S) ==
    /\ c \in M!BoardStates
    /\ c.task = b.task /\ c.issue = b.issue /\ c.done = b.done
    /\ \A s \in Stories : c.us[s] = IF s \in S THEN [b.us[s] EXCEPT !.closed = M!StoryDone(b, s)]
                                    ELSE b.us[s]
    /\ \A m \in Milestones :
          \/ c.closed[m] = M!MilestoneDone(c, m)
          \/ c.closed[m] = b.closed[m] /\ \A s \in M!StoriesIn(b, m) : c.us[s] = b.us[s]

(* The rows of stories in which some are closed or opened.                  *)
LEMMA FlippedRows ==
    ASSUME NEW b \in M!BoardStates, NEW S, S \subseteq M!Exists(b, "us"),
           NEW us, us = [s \in Stories |-> IF s \in S
                                           THEN [b.us[s] EXCEPT !.closed = M!StoryDone(b, s)]
                                           ELSE b.us[s]]
    PROVE  /\ us \in [Stories -> M!StoryRows \cup {Gone}]
           /\ \A s \in S : /\ us[s] \in M!StoryRows /\ us[s].closed = M!StoryDone(b, s)
                           /\ us[s].milestone = b.us[s].milestone /\ us[s].status = b.us[s].status
<1>1. ASSUME NEW s \in S
      PROVE  /\ us[s] \in M!StoryRows /\ us[s].closed = M!StoryDone(b, s)
             /\ us[s].milestone = b.us[s].milestone /\ us[s].status = b.us[s].status
  <2>1. PICK row \in M!StoryRows : row = b.us[s] /\ s \in Stories
    BY StoryDoneType
  <2>2. PICK d \in BOOLEAN : d = M!StoryDone(b, s)
    BY StoryDoneType
  <2>3. us[s] = [row EXCEPT !.closed = d]
    BY <2>1, <2>2
  <2> QED
    BY <2>1, <2>2, <2>3 DEF M!StoryRows
<1>2. ASSUME NEW s \in Stories PROVE us[s] \in M!StoryRows \cup {Gone}
  <2>1. CASE s \in S
    BY <1>1, <2>1
  <2>2. CASE s \notin S
    BY <2>2, BoardFields
  <2> QED
    BY <2>1, <2>2
<1> QED
  BY <1>1, <1>2

LEMMA FlippedAllFlips ==
    ASSUME NEW b \in M!BoardStates, NEW S, S \subseteq M!Exists(b, "us")
    PROVE  Flips(b, M!FlippedAll(b, S), S)
<1>1. PICK us : us = [s \in Stories |-> IF s \in S
                                        THEN [b.us[s] EXCEPT !.closed = M!StoryDone(b, s)]
                                        ELSE b.us[s]]
  OBVIOUS
<1>2. us \in [Stories -> M!StoryRows \cup {Gone}]
  BY <1>1, FlippedRows
<1>3. PICK f : f = [b EXCEPT !.us = us]
  OBVIOUS
<1>4. f \in M!BoardStates /\ f.us = us /\ f.task = b.task /\ f.issue = b.issue /\ f.done = b.done
      /\ f.closed = b.closed
  BY <1>2, <1>3 DEF M!BoardStates
<1>5. PICK N : N = {b.us[s].milestone : s \in {u \in S : f.us[u] # b.us[u]}}
  OBVIOUS
<1>6. PICK c : c = M!Judged(f, N)
  OBVIOUS
<1>7. c = M!FlippedAll(b, S)
  BY <1>1, <1>3, <1>5, <1>6 DEF M!FlippedAll
<1>8. /\ c \in M!BoardStates
      /\ c.us = us /\ c.task = b.task /\ c.issue = b.issue /\ c.done = b.done
      /\ \A m \in Milestones : c.closed[m] = IF m \in N THEN M!MilestoneDone(f, m) ELSE b.closed[m]
  BY <1>4, <1>6, JudgedShape
<1>9. SameItems(f, c)
  BY <1>4, <1>8 DEF SameItems
<1>10. ASSUME NEW m \in Milestones
       PROVE  \/ c.closed[m] = M!MilestoneDone(c, m)
              \/ c.closed[m] = b.closed[m] /\ \A s \in M!StoriesIn(b, m) : c.us[s] = b.us[s]
  <2>1. CASE m \in N
    BY <1>8, <1>9, <2>1, SameItemsSame DEF M!MilestoneDone
  <2>2. CASE m \notin N
    <3>1. ASSUME NEW s \in M!StoriesIn(b, m), us[s] # b.us[s] PROVE FALSE
      <4>1. s \in Stories /\ b.us[s].milestone = m
        BY BoardFields DEF M!StoriesIn
      <4>2. s \in S
        BY <1>1, <3>1, <4>1
      <4> QED
        BY <1>4, <1>5, <2>2, <3>1, <4>1, <4>2
    <3> QED
      BY <1>8, <2>2, <3>1
  <2> QED
    BY <2>1, <2>2
<1> QED
  BY <1>1, <1>7, <1>8, <1>10 DEF Flips

LEMMA FlippedFlips ==
    ASSUME NEW b \in M!BoardStates, NEW s \in M!Exists(b, "us")
    PROVE  Flips(b, M!Flipped(b, s), {s})
<1>1. PICK row \in M!StoryRows : row = b.us[s] /\ s \in Stories
  BY StoryDoneType
<1>2. PICK d \in BOOLEAN : d = M!StoryDone(b, s)
  BY StoryDoneType
<1>3. row.closed \in BOOLEAN
  BY RowFields
<1>4. CASE row.closed = d
  <2>1. M!Flipped(b, s) = b
    BY <1>1, <1>2, <1>4 DEF M!Flipped
  <2>2. [row EXCEPT !.closed = d] = row
    BY <1>4 DEF M!StoryRows
  <2> QED
    BY <1>1, <1>2, <2>1, <2>2 DEF Flips
<1>5. CASE row.closed # d
  <2>1. PICK us : us = [b.us EXCEPT ![s] = [row EXCEPT !.closed = d]]
    OBVIOUS
  <2>2. [row EXCEPT !.closed = d] \in M!StoryRows
    BY DEF M!StoryRows
  <2>3. /\ us \in [Stories -> M!StoryRows \cup {Gone}] /\ us[s] = [row EXCEPT !.closed = d]
        /\ \A u \in Stories : u # s => us[u] = b.us[u]
    BY <1>1, <2>1, <2>2, BoardFields
  <2>4. PICK f : f = [b EXCEPT !.us = us]
    OBVIOUS
  <2>5. f \in M!BoardStates /\ f.us = us /\ f.task = b.task /\ f.issue = b.issue /\ f.done = b.done
        /\ f.closed = b.closed
    BY <2>3, <2>4 DEF M!BoardStates
  <2>6. f = [b EXCEPT !.us[s].closed = ~@]
    <3>1. (~row.closed) = d
      BY <1>3, <1>5
    <3>2. [row EXCEPT !.closed = ~@] = [row EXCEPT !.closed = d]
      BY <3>1
    <3>3. us = [b.us EXCEPT ![s] = [row EXCEPT !.closed = ~@]]
      BY <2>1, <3>2
    <3>4. us = [b.us EXCEPT ![s] = [b.us[s] EXCEPT !.closed = ~@]]
      BY <1>1, <3>3
    <3>5. [b EXCEPT !.us[s].closed = ~@] = [b EXCEPT !.us = us]
      BY <3>4
    <3> QED
      BY <2>4, <3>5
  <2>7. PICK c : c = M!Judged(f, {row.milestone})
    OBVIOUS
  <2>8. c = M!Flipped(b, s)
    BY <1>1, <1>2, <1>5, <2>6, <2>7 DEF M!Flipped
  <2>9. /\ c \in M!BoardStates
        /\ c.us = us /\ c.task = b.task /\ c.issue = b.issue /\ c.done = b.done
        /\ \A m \in Milestones :
              c.closed[m] = IF m \in {row.milestone} THEN M!MilestoneDone(f, m) ELSE b.closed[m]
    BY <2>5, <2>7, JudgedShape
  <2>10. SameItems(f, c)
    BY <2>5, <2>9 DEF SameItems
  <2>11. ASSUME NEW m \in Milestones
         PROVE  \/ c.closed[m] = M!MilestoneDone(c, m)
                \/ c.closed[m] = b.closed[m] /\ \A u \in M!StoriesIn(b, m) : c.us[u] = b.us[u]
    <3>1. CASE m = row.milestone
      BY <2>9, <2>10, <3>1, SameItemsSame DEF M!MilestoneDone
    <3>2. CASE m # row.milestone
      <4>1. \A u \in M!StoriesIn(b, m) : u \in Stories /\ u # s
        BY <1>1, <3>2, BoardFields DEF M!StoriesIn
      <4> QED
        BY <2>3, <2>9, <3>2, <4>1
    <3> QED
      BY <3>1, <3>2
  <2>12. \A u \in Stories : c.us[u] = IF u \in {s} THEN [b.us[u] EXCEPT !.closed = M!StoryDone(b, u)]
                                      ELSE b.us[u]
    BY <1>1, <1>2, <2>3, <2>9
  <2> QED
    BY <2>8, <2>9, <2>11, <2>12 DEF Flips
<1> QED
  BY <1>4, <1>5

(* What closing and opening stories leaves alone.                           *)
LEMMA FlipsKeep ==
    ASSUME NEW b \in M!BoardStates, NEW S, S \subseteq M!Exists(b, "us"), NEW c, Flips(b, c, S)
    PROVE  /\ M!Exists(c, "us") = M!Exists(b, "us") /\ M!Exists(c, "task") = M!Exists(b, "task")
           /\ \A m : M!StoriesIn(c, m) = M!StoriesIn(b, m)
           /\ \A s : M!TasksOf(c, s) = M!TasksOf(b, s)
           /\ \A m : M!LooseTasksIn(c, m) = M!LooseTasksIn(b, m)
           /\ \A m : M!IssuesIn(c, m) = M!IssuesIn(b, m)
           /\ \A t : M!Finished(c, "task", t) = M!Finished(b, "task", t)
           /\ \A i : M!Finished(c, "issue", i) = M!Finished(b, "issue", i)
           /\ \A s \in M!Exists(b, "us") : M!StoryDone(c, s) = M!StoryDone(b, s)
           /\ \A s \in S : c.us[s].closed = M!StoryDone(c, s)
           /\ M!TasksHaveStories(c) <=> M!TasksHaveStories(b)
<1>1. /\ c \in M!BoardStates /\ c.task = b.task /\ c.issue = b.issue /\ c.done = b.done
      /\ \A s \in Stories : c.us[s] = IF s \in S THEN [b.us[s] EXCEPT !.closed = M!StoryDone(b, s)]
                                      ELSE b.us[s]
  BY DEF Flips
<1>2. ASSUME NEW s \in S
      PROVE  /\ c.us[s].closed = M!StoryDone(b, s) /\ c.us[s].milestone = b.us[s].milestone
             /\ c.us[s].status = b.us[s].status /\ c.us[s] # Gone
  <2>1. PICK row \in M!StoryRows : row = b.us[s] /\ s \in Stories
    BY StoryDoneType
  <2>2. PICK d \in BOOLEAN : d = M!StoryDone(b, s)
    BY StoryDoneType
  <2>3. c.us[s] = [row EXCEPT !.closed = d]
    BY <1>1, <2>1, <2>2
  <2>4. c.us[s] \in M!StoryRows
    BY <2>1, <2>2, <2>3 DEF M!StoryRows
  <2>5. c.us[s] # Gone
    BY <2>4, GoneIsNoRow
  <2> QED
    BY <2>1, <2>2, <2>3, <2>5 DEF M!StoryRows
<1>3. M!Exists(c, "us") = M!Exists(b, "us")
  <2>1. \A s \in Stories : c.us[s] # Gone <=> b.us[s] # Gone
    BY <1>1, <1>2, BoardFields
  <2>2. M!Exists(b, "us") = {s \in Stories : b.us[s] # Gone}
    BY BoardFields
  <2>3. M!Exists(c, "us") = {s \in Stories : c.us[s] # Gone}
    BY <1>1, BoardFields
  <2> QED
    BY <2>1, <2>2, <2>3
<1>4. M!Exists(c, "task") = M!Exists(b, "task") /\ M!Exists(c, "issue") = M!Exists(b, "issue")
  <2>1. c["task"] = b["task"] /\ c["issue"] = b["issue"]
    BY <1>1
  <2> QED
    BY <2>1 DEF M!Exists
<1>5. \A s \in M!Exists(b, "us") : /\ c.us[s].milestone = b.us[s].milestone
                                   /\ c.us[s].status = b.us[s].status
  BY <1>1, <1>2, BoardFields
<1>6. \A m : M!StoriesIn(c, m) = M!StoriesIn(b, m)
  BY <1>3, <1>5 DEF M!StoriesIn
<1>7. \A s : M!TasksOf(c, s) = M!TasksOf(b, s)
  BY <1>1, <1>4 DEF M!TasksOf
<1>8. \A m : M!LooseTasksIn(c, m) = M!LooseTasksIn(b, m)
  BY <1>1, <1>7 DEF M!LooseTasksIn
<1>9. \A m : M!IssuesIn(c, m) = M!IssuesIn(b, m)
  BY <1>1, <1>4 DEF M!IssuesIn
<1>10. /\ \A t : M!Finished(c, "task", t) = M!Finished(b, "task", t)
       /\ \A i : M!Finished(c, "issue", i) = M!Finished(b, "issue", i)
  BY <1>1 DEF M!Finished
<1>11. \A s \in M!Exists(b, "us") : M!Finished(c, "us", s) = M!Finished(b, "us", s)
  BY <1>1, <1>5 DEF M!Finished
<1>12. \A s \in M!Exists(b, "us") : M!StoryDone(c, s) = M!StoryDone(b, s)
  BY <1>7, <1>10, <1>11 DEF M!StoryDone
<1>13. M!TasksHaveStories(c) <=> M!TasksHaveStories(b)
  BY <1>1, <1>3, <1>4 DEF M!TasksHaveStories
<1> QED
  BY <1>2, <1>3, <1>4, <1>6, <1>7, <1>8, <1>9, <1>10, <1>12, <1>13

-----------------------------------------------------------------------------
(* Stories and milestones that stay right.                                    *)

(* A story that is closed just when its work is done.                       *)
StoryFine(b, s) == s \notin M!Exists(b, "us") \/ b.us[s].closed = M!StoryDone(b, s)

(* A milestone without open work if it is closed; one that is closed if its *)
(* work is done.                                                            *)
NotClosedEarly(b, m) == ~b.closed[m] \/ M!NothingOpen(b, m)
NotOpenLate(b, m) == b.closed[m] \/ ~M!MilestoneDone(b, m)

(* Milestone m has been judged in board c, or it is as it was in board b.   *)
JustJudged(c, m) == c.closed[m] = M!MilestoneDone(c, m)

Alike(b, c, m) ==
    /\ c.closed[m] = b.closed[m]
    /\ M!NothingOpen(c, m) <=> M!NothingOpen(b, m)
    /\ M!MilestoneDone(c, m) <=> M!MilestoneDone(b, m)

Tended(b, c, m) == JustJudged(c, m) \/ Alike(b, c, m)

(* On its way from board b to board c a request leaves every story and      *)
(* every milestone right that was.                                          *)
Tends(b, c) ==
    /\ c \in M!BoardStates
    /\ M!TasksHaveStories(b) => M!TasksHaveStories(c)
    /\ \A s \in Stories : StoryFine(b, s) => StoryFine(c, s)
    /\ \A m \in Milestones : Tended(b, c, m)

LEMMA TendedIsFine ==
    ASSUME NEW b, NEW c, NEW m, Tended(b, c, m)
    PROVE  /\ NotClosedEarly(b, m) => NotClosedEarly(c, m)
           /\ NotOpenLate(b, m) => NotOpenLate(c, m)
<1>1. CASE JustJudged(c, m)
  BY <1>1 DEF JustJudged, NotClosedEarly, NotOpenLate, M!MilestoneDone
<1>2. CASE Alike(b, c, m)
  BY <1>2 DEF Alike, NotClosedEarly, NotOpenLate
<1> QED
  BY <1>1, <1>2 DEF Tended

(* Judging what was tended leaves it tended.                                *)
LEMMA AlikeAfter ==
    ASSUME NEW b, NEW f, NEW c, NEW m, Tended(b, f, m), Alike(f, c, m)
    PROVE  Tended(b, c, m)
<1>1. CASE JustJudged(f, m)
  <2>1. PICK d : d = M!MilestoneDone(f, m)
    OBVIOUS
  <2>2. M!MilestoneDone(f, m) = M!MilestoneDone(c, m)
    BY DEF Alike, M!MilestoneDone
  <2> QED
    BY <1>1, <2>2 DEF JustJudged, Alike, Tended
<1>2. CASE Alike(b, f, m)
  BY <1>2 DEF Alike, Tended
<1> QED
  BY <1>1, <1>2 DEF Tended

LEMMA TendedAfter ==
    ASSUME NEW b, NEW f, NEW c, NEW m, Tended(b, f, m), Tended(f, c, m)
    PROVE  Tended(b, c, m)
BY AlikeAfter DEF Tended

LEMMA TendsAfter ==
    ASSUME NEW b, NEW f, NEW c, Tends(b, f), Tends(f, c)
    PROVE  Tends(b, c)
<1>1. \A m \in Milestones : Tended(b, c, m)
  BY TendedAfter DEF Tends
<1> QED
  BY <1>1 DEF Tends

LEMMA JudgedTends ==
    ASSUME NEW b \in M!BoardStates, NEW N, NEW c, c = M!Judged(b, N)
    PROVE  /\ Tends(b, c) /\ SameItems(b, c)
           /\ \A m \in Milestones : m \in N => JustJudged(c, m)
           /\ \A m \in Milestones : m \notin N => c.closed[m] = b.closed[m]
<1>1. /\ c \in M!BoardStates
      /\ c.us = b.us /\ c.task = b.task /\ c.issue = b.issue /\ c.done = b.done
      /\ \A m \in Milestones :
            c.closed[m] = IF m \in N THEN M!MilestoneDone(b, m) ELSE b.closed[m]
  BY JudgedShape
<1>2. SameItems(b, c)
  BY <1>1 DEF SameItems
<1>3. ASSUME NEW m \in Milestones, m \in N PROVE JustJudged(c, m)
  BY <1>1, <1>2, <1>3, SameItemsSame DEF JustJudged, M!MilestoneDone
<1>4. ASSUME NEW m \in Milestones, m \notin N PROVE Alike(b, c, m)
  BY <1>1, <1>2, <1>4, SameItemsSame DEF Alike
<1>5. ASSUME NEW s \in Stories, StoryFine(b, s) PROVE StoryFine(c, s)
  <2>1. M!Exists(c, "us") = M!Exists(b, "us")
    BY <1>2, SameItemsSame DEF M!Kinds
  <2>2. M!StoryDone(c, s) <=> M!StoryDone(b, s)
    BY <1>2, SameItemsSame
  <2>3. CASE s \in M!Exists(b, "us")
    <3>1. M!StoryDone(b, s) \in BOOLEAN /\ M!StoryDone(c, s) \in BOOLEAN
      BY <1>1, <2>1, <2>3, StoryDoneType
    <3> QED
      BY <1>1, <1>5, <2>1, <2>2, <2>3, <3>1 DEF StoryFine
  <2> QED
    BY <2>1, <2>3 DEF StoryFine
<1>6. M!TasksHaveStories(b) => M!TasksHaveStories(c)
  BY <1>2, SameItemsSame
<1> QED
  BY <1>1, <1>2, <1>3, <1>4, <1>5, <1>6 DEF Tends, Tended

(* Milestone m has the same work in both boards, or less of it in c.        *)
LessWork(b, c, m) ==
    /\ \A s \in M!StoriesIn(c, m) : s \in M!StoriesIn(b, m) /\ c.us[s].closed = b.us[s].closed
    /\ \A t \in M!LooseTasksIn(c, m) :
          /\ t \in M!LooseTasksIn(b, m)
          /\ M!Finished(c, "task", t) = M!Finished(b, "task", t)
    /\ \A i \in M!IssuesIn(c, m) :
          /\ i \in M!IssuesIn(b, m)
          /\ M!Finished(c, "issue", i) = M!Finished(b, "issue", i)

LEMMA LessWorkStaysClosed ==
    ASSUME NEW b, NEW c, NEW m, c.closed[m] = b.closed[m], LessWork(b, c, m)
    PROVE  NotClosedEarly(b, m) => NotClosedEarly(c, m)
BY DEF LessWork, NotClosedEarly, M!NothingOpen

LEMMA SameWorkAlike ==
    ASSUME NEW b, NEW c, NEW m, c.closed[m] = b.closed[m], LessWork(b, c, m), LessWork(c, b, m)
    PROVE  Alike(b, c, m)
<1>1. /\ M!StoriesIn(c, m) = M!StoriesIn(b, m) /\ M!LooseTasksIn(c, m) = M!LooseTasksIn(b, m)
      /\ M!IssuesIn(c, m) = M!IssuesIn(b, m)
  BY DEF LessWork
<1>2. M!NothingOpen(c, m) <=> M!NothingOpen(b, m)
  BY DEF LessWork, M!NothingOpen
<1>3. M!MilestoneDone(c, m) <=> M!MilestoneDone(b, m)
  BY <1>1, <1>2 DEF M!MilestoneDone
<1> QED
  BY <1>2, <1>3 DEF Alike

LEMMA FlipsTend ==
    ASSUME NEW b \in M!BoardStates, NEW S, S \subseteq M!Exists(b, "us"), NEW c, Flips(b, c, S)
    PROVE  Tends(b, c) /\ \A s \in S : StoryFine(c, s)
<1>1. /\ M!Exists(c, "us") = M!Exists(b, "us") /\ M!Exists(c, "task") = M!Exists(b, "task")
      /\ \A m : M!StoriesIn(c, m) = M!StoriesIn(b, m)
      /\ \A s : M!TasksOf(c, s) = M!TasksOf(b, s)
      /\ \A m : M!LooseTasksIn(c, m) = M!LooseTasksIn(b, m)
      /\ \A m : M!IssuesIn(c, m) = M!IssuesIn(b, m)
      /\ \A t : M!Finished(c, "task", t) = M!Finished(b, "task", t)
      /\ \A i : M!Finished(c, "issue", i) = M!Finished(b, "issue", i)
      /\ \A s \in M!Exists(b, "us") : M!StoryDone(c, s) = M!StoryDone(b, s)
      /\ \A s \in S : c.us[s].closed = M!StoryDone(c, s)
      /\ M!TasksHaveStories(c) <=> M!TasksHaveStories(b)
  BY FlipsKeep
<1>2. /\ c \in M!BoardStates
      /\ \A s \in Stories : s \notin S => c.us[s] = b.us[s]
      /\ \A m \in Milestones :
            \/ c.closed[m] = M!MilestoneDone(c, m)
            \/ c.closed[m] = b.closed[m] /\ \A s \in M!StoriesIn(b, m) : c.us[s] = b.us[s]
  BY DEF Flips
<1>3. ASSUME NEW m \in Milestones PROVE Tended(b, c, m)
  <2>1. CASE c.closed[m] = M!MilestoneDone(c, m)
    BY <2>1 DEF Tended, JustJudged
  <2>2. CASE c.closed[m] = b.closed[m] /\ \A s \in M!StoriesIn(b, m) : c.us[s] = b.us[s]
    <3>1. LessWork(b, c, m) /\ LessWork(c, b, m)
      BY <1>1, <2>2 DEF LessWork
    <3> QED
      BY <2>2, <3>1, SameWorkAlike DEF Tended
  <2> QED
    BY <1>2, <2>1, <2>2
<1>4. \A s \in S : StoryFine(c, s)
  BY <1>1 DEF StoryFine
<1>5. ASSUME NEW s \in Stories, StoryFine(b, s) PROVE StoryFine(c, s)
  BY <1>1, <1>2, <1>4, <1>5 DEF StoryFine
<1> QED
  BY <1>1, <1>2, <1>3, <1>4, <1>5 DEF Tends

LEMMA ClosedOnlyTends ==
    ASSUME NEW b \in M!BoardStates, NEW m \in Milestones \cup {Nowhere},
           NEW c, c = M!ClosedOnly(b, m)
    PROVE  Tends(b, c) /\ SameItems(b, c) /\ (m \in Milestones => NotOpenLate(c, m))
<1>1. CASE m # Nowhere /\ M!MilestoneDone(b, m)
  <2>1. c = M!Judged(b, {m})
    BY <1>1 DEF M!ClosedOnly
  <2>2. Tends(b, c) /\ SameItems(b, c) /\ (m \in Milestones => JustJudged(c, m))
    BY <2>1, JudgedTends
  <2> QED
    BY <2>2 DEF JustJudged, NotOpenLate
<1>2. CASE ~(m # Nowhere /\ M!MilestoneDone(b, m))
  <2>1. c = b
    BY <1>2 DEF M!ClosedOnly
  <2>2. m \in Milestones => NotOpenLate(c, m)
    BY <1>2, <2>1, GoneIsNoRow DEF NotOpenLate
  <2>3. Tends(b, c) /\ SameItems(b, c)
    BY <2>1 DEF Tends, Tended, Alike, SameItems
  <2> QED
    BY <2>2, <2>3
<1> QED
  BY <1>1, <1>2

-----------------------------------------------------------------------------
(* Saves and deletions.                                                       *)

(* Story s is no other in board c, and neither are its tasks.               *)
StoryAlike(b, c, s) ==
    /\ s \in M!Exists(b, "us") /\ c.us[s].closed = b.us[s].closed
    /\ M!Finished(c, "us", s) = M!Finished(b, "us", s)
    /\ M!TasksOf(c, s) = M!TasksOf(b, s)
    /\ \A t \in M!TasksOf(b, s) : M!Finished(c, "task", t) = M!Finished(b, "task", t)

LEMMA StoryAlikeFine ==
    ASSUME NEW b, NEW c, NEW s, s \in M!Exists(c, "us") => StoryAlike(b, c, s)
    PROVE  StoryFine(b, s) => StoryFine(c, s)
<1>1. CASE StoryAlike(b, c, s)
  <2>1. M!StoryDone(c, s) = M!StoryDone(b, s)
    BY <1>1 DEF StoryAlike, M!StoryDone
  <2> QED
    BY <1>1, <2>1 DEF StoryAlike, StoryFine
<1>2. CASE s \notin M!Exists(c, "us")
  BY <1>2 DEF StoryFine
<1> QED
  BY <1>1, <1>2

(* The row of a task is written.                                            *)
LEMMA TaskRow ==
    ASSUME NEW b \in M!BoardStates, NEW t \in StoryTasks, NEW row \in M!TaskRows \cup {Gone},
           NEW f, f = [b EXCEPT !.task[t] = row]
    PROVE  /\ f \in M!BoardStates
           /\ f.us = b.us /\ f.issue = b.issue /\ f.done = b.done /\ f.closed = b.closed
           /\ f.task[t] = row /\ \A u \in StoryTasks : u # t => f.task[u] = b.task[u]
           /\ M!Exists(f, "us") = M!Exists(b, "us") /\ M!Exists(f, "issue") = M!Exists(b, "issue")
           /\ M!Exists(f, "task") = {u \in StoryTasks : f.task[u] # Gone}
           /\ \A m : M!StoriesIn(f, m) = M!StoriesIn(b, m)
           /\ \A m : M!IssuesIn(f, m) = M!IssuesIn(b, m)
           /\ \A s : M!Finished(f, "us", s) = M!Finished(b, "us", s)
           /\ \A i : M!Finished(f, "issue", i) = M!Finished(b, "issue", i)
           /\ \A u \in StoryTasks : u # t => M!Finished(f, "task", u) = M!Finished(b, "task", u)
<1>1. PICK task : task = [b.task EXCEPT ![t] = row]
  OBVIOUS
<1>2. /\ task \in [StoryTasks -> M!TaskRows \cup {Gone}] /\ task[t] = row
      /\ \A u \in StoryTasks : u # t => task[u] = b.task[u]
  BY <1>1, BoardFields
<1>3. f = [b EXCEPT !.task = task]
  BY <1>1
<1>4. /\ f \in M!BoardStates /\ f.task = task
      /\ f.us = b.us /\ f.issue = b.issue /\ f.done = b.done /\ f.closed = b.closed
  BY <1>2, <1>3 DEF M!BoardStates
<1>5. f["us"] = b["us"] /\ f["issue"] = b["issue"]
  BY <1>4
<1>6. M!Exists(f, "us") = M!Exists(b, "us") /\ M!Exists(f, "issue") = M!Exists(b, "issue")
  BY <1>5 DEF M!Exists
<1>7. M!Exists(f, "task") = {u \in StoryTasks : f.task[u] # Gone}
  BY <1>4, BoardFields
<1>8. /\ \A s : M!Finished(f, "us", s) = M!Finished(b, "us", s)
      /\ \A i : M!Finished(f, "issue", i) = M!Finished(b, "issue", i)
      /\ \A u \in StoryTasks : u # t => M!Finished(f, "task", u) = M!Finished(b, "task", u)
  BY <1>2, <1>4 DEF M!Finished
<1>9. /\ \A m : M!StoriesIn(f, m) = M!StoriesIn(b, m)
      /\ \A m : M!IssuesIn(f, m) = M!IssuesIn(b, m)
  BY <1>4, <1>6 DEF M!StoriesIn, M!IssuesIn
<1> QED
  BY <1>2, <1>4, <1>6, <1>7, <1>8, <1>9

(* It changes the work of the stories and milestones it names only.         *)
LEMMA TaskRowAlike ==
    ASSUME NEW b \in M!BoardStates, NEW t \in StoryTasks, NEW row \in M!TaskRows \cup {Gone},
           NEW f, f = [b EXCEPT !.task[t] = row]
    PROVE  /\ \A s : (b.task[t] # Gone => b.task[t].story # s) /\ (row # Gone => row.story # s) =>
                 /\ M!TasksOf(f, s) = M!TasksOf(b, s)
                 /\ \A u \in M!TasksOf(b, s) : M!Finished(f, "task", u) = M!Finished(b, "task", u)
           /\ \A m : (b.task[t] # Gone => b.task[t].milestone # m)
                     /\ (row # Gone => row.milestone # m) =>
                 LessWork(b, f, m) /\ LessWork(f, b, m)
           /\ row = Gone => \A m : LessWork(b, f, m)
<1>1. /\ f.us = b.us /\ f.issue = b.issue
      /\ f.task[t] = row /\ \A u \in StoryTasks : u # t => f.task[u] = b.task[u]
      /\ M!Exists(f, "task") = {u \in StoryTasks : f.task[u] # Gone}
      /\ M!Exists(b, "task") = {u \in StoryTasks : b.task[u] # Gone}
      /\ \A m : M!StoriesIn(f, m) = M!StoriesIn(b, m)
      /\ \A m : M!IssuesIn(f, m) = M!IssuesIn(b, m)
      /\ \A i : M!Finished(f, "issue", i) = M!Finished(b, "issue", i)
      /\ \A u \in StoryTasks : u # t => M!Finished(f, "task", u) = M!Finished(b, "task", u)
  BY TaskRow, BoardFields
<1>2. ASSUME NEW s, (b.task[t] # Gone => b.task[t].story # s), (row # Gone => row.story # s)
      PROVE  /\ M!TasksOf(f, s) = M!TasksOf(b, s)
             /\ \A u \in M!TasksOf(b, s) : M!Finished(f, "task", u) = M!Finished(b, "task", u)
  <2>1. t \notin M!TasksOf(f, s) /\ t \notin M!TasksOf(b, s)
    BY <1>1, <1>2 DEF M!TasksOf
  <2>2. \A u \in StoryTasks : u # t => (u \in M!TasksOf(f, s) <=> u \in M!TasksOf(b, s))
    BY <1>1 DEF M!TasksOf
  <2>3. M!TasksOf(f, s) \subseteq StoryTasks /\ M!TasksOf(b, s) \subseteq StoryTasks
    BY <1>1 DEF M!TasksOf
  <2> QED
    BY <1>1, <2>1, <2>2, <2>3
<1>3. \A m : \A u \in StoryTasks : u # t => (u \in M!LooseTasksIn(f, m) <=> u \in M!LooseTasksIn(b, m))
  BY <1>1 DEF M!LooseTasksIn, M!TasksOf
<1>4. \A m : M!LooseTasksIn(f, m) \subseteq StoryTasks /\ M!LooseTasksIn(b, m) \subseteq StoryTasks
  BY <1>1 DEF M!LooseTasksIn, M!TasksOf
<1>5. ASSUME NEW m, row # Gone => row.milestone # m
      PROVE  LessWork(b, f, m)
  <2>1. t \notin M!LooseTasksIn(f, m)
    BY <1>1, <1>5 DEF M!LooseTasksIn, M!TasksOf
  <2> QED
    BY <1>1, <1>3, <1>4, <2>1 DEF LessWork
<1>6. ASSUME NEW m, b.task[t] # Gone => b.task[t].milestone # m
      PROVE  LessWork(f, b, m)
  <2>1. t \notin M!LooseTasksIn(b, m)
    BY <1>1, <1>6 DEF M!LooseTasksIn, M!TasksOf
  <2> QED
    BY <1>1, <1>3, <1>4, <2>1 DEF LessWork
<1> QED
  BY <1>2, <1>5, <1>6

(* The handlers of a task.                                                  *)
LEMMA TaskSavedTends ==
    ASSUME NEW b \in M!BoardStates, M!TasksHaveStories(b), NEW t \in StoryTasks,
           NEW row \in M!TaskRows, row.story \in M!Exists(b, "us") \cup {Nowhere},
           NEW c, c = M!TaskSaved(b, t, row)
    PROVE  Tends(b, c)
<1>1. PICK f : f = [b EXCEPT !.task[t] = row]
  OBVIOUS
<1>2. PICK S : S = ({row.story} \cup (IF b.task[t] = Gone THEN {} ELSE {b.task[t].story})) \ {Nowhere}
  OBVIOUS
<1>3. PICK N : N = M!Left(b.task[t]) \cup {row.milestone}
  OBVIOUS
<1>4. PICK g : g = M!FlippedAll(f, S)
  OBVIOUS
<1>5. c = M!Judged(g, N)
  BY <1>1, <1>2, <1>3, <1>4 DEF M!TaskSaved
<1>6. /\ f \in M!BoardStates /\ row # Gone
      /\ f.us = b.us /\ f.issue = b.issue /\ f.done = b.done /\ f.closed = b.closed
      /\ f.task[t] = row /\ \A u \in StoryTasks : u # t => f.task[u] = b.task[u]
      /\ M!Exists(f, "us") = M!Exists(b, "us")
      /\ M!Exists(f, "task") = {u \in StoryTasks : f.task[u] # Gone}
      /\ M!Exists(b, "task") = {u \in StoryTasks : b.task[u] # Gone}
      /\ \A s : M!Finished(f, "us", s) = M!Finished(b, "us", s)
  BY <1>1, TaskRow, GoneIsNoRow, BoardFields
<1>7. S \subseteq M!Exists(f, "us")
  BY <1>2, <1>6 DEF M!TasksHaveStories
<1>8. Tends(f, g) /\ \A s \in S : StoryFine(g, s)
  <2>1. Flips(f, g, S)
    BY <1>4, <1>6, <1>7, FlippedAllFlips
  <2> QED
    BY <1>6, <1>7, <2>1, FlipsTend
<1>9. Tends(g, c) /\ \A m \in Milestones : m \in N => JustJudged(c, m)
  <2>1. g \in M!BoardStates
    BY <1>8 DEF Tends
  <2> QED
    BY <1>5, <2>1, JudgedTends
<1>10. Tends(f, c)
  BY <1>8, <1>9, TendsAfter
<1>11. M!TasksHaveStories(f)
  BY <1>6 DEF M!TasksHaveStories
<1>12. ASSUME NEW s \in Stories, StoryFine(b, s) PROVE StoryFine(c, s)
  <2>1. CASE s \in S
    BY <1>8, <1>9, <2>1 DEF Tends
  <2>2. CASE s \notin S
    <3>1. s # Nowhere
      BY GoneIsNoRow
    <3>2. (b.task[t] # Gone => b.task[t].story # s) /\ (row # Gone => row.story # s)
      BY <1>2, <2>2, <3>1
    <3>3. /\ M!TasksOf(f, s) = M!TasksOf(b, s)
          /\ \A u \in M!TasksOf(b, s) : M!Finished(f, "task", u) = M!Finished(b, "task", u)
      BY <1>1, <3>2, TaskRowAlike
    <3>4. s \in M!Exists(f, "us") => StoryAlike(b, f, s)
      BY <1>6, <3>3 DEF StoryAlike
    <3>5. StoryFine(f, s)
      BY <1>12, <3>4, StoryAlikeFine
    <3> QED
      BY <1>10, <3>5 DEF Tends
  <2> QED
    BY <2>1, <2>2
<1>13. ASSUME NEW m \in Milestones PROVE Tended(b, c, m)
  <2>1. CASE m \in N
    BY <1>9, <2>1 DEF Tended
  <2>2. CASE m \notin N
    <3>1. (b.task[t] # Gone => b.task[t].milestone # m) /\ (row # Gone => row.milestone # m)
      BY <1>3, <2>2 DEF M!Left
    <3>2. LessWork(b, f, m) /\ LessWork(f, b, m)
      BY <1>1, <3>1, TaskRowAlike
    <3>3. Tended(b, f, m)
      BY <1>6, <3>2, SameWorkAlike DEF Tended
    <3> QED
      BY <1>10, <3>3, TendedAfter DEF Tends
  <2> QED
    BY <2>1, <2>2
<1> QED
  BY <1>10, <1>11, <1>12, <1>13 DEF Tends

(* A story leaves milestone m and is closed or opened at the same time.     *)
LeftWhileFlipped(b, c, m) ==
    \E s \in M!StoriesIn(b, m) \ M!StoriesIn(c, m) :
        c.us[s] # Gone /\ c.us[s].closed # b.us[s].closed

(* What a request whose handlers ran leaves right.                          *)
Keeps(b, c) ==
    /\ c \in M!BoardStates /\ M!TasksHaveStories(c)
    /\ \A s \in Stories : StoryFine(b, s) => StoryFine(c, s)
    /\ \A m \in Milestones : NotClosedEarly(b, m) => NotClosedEarly(c, m)
    /\ \A m \in Milestones : NotOpenLate(b, m) => NotOpenLate(c, m) \/ LeftWhileFlipped(b, c, m)

LEMMA TendsKeeps ==
    ASSUME NEW b, M!TasksHaveStories(b), NEW c, Tends(b, c)
    PROVE  Keeps(b, c)
BY TendedIsFine DEF Tends, Keeps

LEMMA IssueRow ==
    ASSUME NEW b \in M!BoardStates, NEW i \in Issues, NEW row \in M!IssueRows \cup {Gone},
           NEW f, f = [b EXCEPT !.issue[i] = row]
    PROVE  /\ f \in M!BoardStates /\ (M!TasksHaveStories(f) <=> M!TasksHaveStories(b))
           /\ f.closed = b.closed
           /\ \A s \in Stories : StoryFine(b, s) => StoryFine(f, s)
           /\ \A m : (b.issue[i] # Gone => b.issue[i].milestone # m)
                     /\ (row # Gone => row.milestone # m) =>
                 LessWork(b, f, m) /\ LessWork(f, b, m)
           /\ row = Gone => \A m : LessWork(b, f, m)
<1>1. PICK issue : issue = [b.issue EXCEPT ![i] = row]
  OBVIOUS
<1>2. /\ issue \in [Issues -> M!IssueRows \cup {Gone}] /\ issue[i] = row
      /\ \A u \in Issues : u # i => issue[u] = b.issue[u]
  BY <1>1, BoardFields
<1>3. f = [b EXCEPT !.issue = issue]
  BY <1>1
<1>4. /\ f \in M!BoardStates /\ f.issue = issue
      /\ f.us = b.us /\ f.task = b.task /\ f.done = b.done /\ f.closed = b.closed
  BY <1>2, <1>3 DEF M!BoardStates
<1>5. f["us"] = b["us"] /\ f["task"] = b["task"]
  BY <1>4
<1>6. M!Exists(f, "us") = M!Exists(b, "us") /\ M!Exists(f, "task") = M!Exists(b, "task")
  BY <1>5 DEF M!Exists
<1>7. /\ M!Exists(f, "issue") = {u \in Issues : f.issue[u] # Gone}
      /\ M!Exists(b, "issue") = {u \in Issues : b.issue[u] # Gone}
  BY <1>4, BoardFields
<1>8. /\ \A s : M!Finished(f, "us", s) = M!Finished(b, "us", s)
      /\ \A t : M!Finished(f, "task", t) = M!Finished(b, "task", t)
      /\ \A u \in Issues : u # i => M!Finished(f, "issue", u) = M!Finished(b, "issue", u)
  BY <1>2, <1>4 DEF M!Finished
<1>9. /\ \A s : M!TasksOf(f, s) = M!TasksOf(b, s)
      /\ \A m : M!StoriesIn(f, m) = M!StoriesIn(b, m)
  BY <1>4, <1>6 DEF M!StoriesIn, M!TasksOf
<1>10. \A m : M!LooseTasksIn(f, m) = M!LooseTasksIn(b, m)
  BY <1>4, <1>9 DEF M!LooseTasksIn
<1>11. ASSUME NEW s \in Stories, StoryFine(b, s) PROVE StoryFine(f, s)
  <2>1. s \in M!Exists(f, "us") => StoryAlike(b, f, s)
    BY <1>4, <1>6, <1>8, <1>9 DEF StoryAlike
  <2> QED
    BY <1>11, <2>1, StoryAlikeFine
<1>12. \A m : \A u \in Issues : u # i => (u \in M!IssuesIn(f, m) <=> u \in M!IssuesIn(b, m))
  BY <1>2, <1>4, <1>7 DEF M!IssuesIn
<1>13. \A m : M!IssuesIn(f, m) \subseteq Issues /\ M!IssuesIn(b, m) \subseteq Issues
  BY <1>7 DEF M!IssuesIn
<1>14. ASSUME NEW m, row # Gone => row.milestone # m PROVE LessWork(b, f, m)
  <2>1. i \notin M!IssuesIn(f, m)
    BY <1>2, <1>4, <1>7, <1>14 DEF M!IssuesIn
  <2> QED
    BY <1>4, <1>8, <1>9, <1>10, <1>12, <1>13, <2>1 DEF LessWork
<1>15. ASSUME NEW m, b.issue[i] # Gone => b.issue[i].milestone # m PROVE LessWork(f, b, m)
  <2>1. i \notin M!IssuesIn(b, m)
    BY <1>7, <1>15 DEF M!IssuesIn
  <2> QED
    BY <1>4, <1>8, <1>9, <1>10, <1>12, <1>13, <2>1 DEF LessWork
<1>16. M!TasksHaveStories(f) <=> M!TasksHaveStories(b)
  BY <1>4, <1>6 DEF M!TasksHaveStories
<1> QED
  BY <1>4, <1>11, <1>14, <1>15, <1>16

(* The handlers of an issue.                                                *)
LEMMA IssueSavedTends ==
    ASSUME NEW b \in M!BoardStates, NEW i \in Issues, NEW row \in M!IssueRows,
           NEW c, c = M!Judged([b EXCEPT !.issue[i] = row], M!Left(b.issue[i]) \cup {row.milestone})
    PROVE  Tends(b, c)
<1>1. PICK f : f = [b EXCEPT !.issue[i] = row]
  OBVIOUS
<1>2. PICK N : N = M!Left(b.issue[i]) \cup {row.milestone}
  OBVIOUS
<1>3. /\ f \in M!BoardStates /\ (M!TasksHaveStories(f) <=> M!TasksHaveStories(b))
      /\ f.closed = b.closed
      /\ \A s \in Stories : StoryFine(b, s) => StoryFine(f, s)
      /\ \A m : (b.issue[i] # Gone => b.issue[i].milestone # m)
                /\ (row # Gone => row.milestone # m) =>
            LessWork(b, f, m) /\ LessWork(f, b, m)
  BY <1>1, IssueRow
<1>4. c = M!Judged(f, N)
  BY <1>1, <1>2
<1>5. Tends(f, c) /\ \A m \in Milestones : m \in N => JustJudged(c, m)
  BY <1>3, <1>4, JudgedTends
<1>6. ASSUME NEW m \in Milestones PROVE Tended(b, c, m)
  <2>1. CASE m \in N
    BY <1>5, <2>1 DEF Tended
  <2>2. CASE m \notin N
    <3>1. (b.issue[i] # Gone => b.issue[i].milestone # m) /\ (row # Gone => row.milestone # m)
      BY <1>2, <2>2 DEF M!Left
    <3>2. LessWork(b, f, m) /\ LessWork(f, b, m)
      BY <1>3, <3>1
    <3>3. Tended(b, f, m)
      BY <1>3, <3>2, SameWorkAlike DEF Tended
    <3> QED
      BY <1>5, <3>3, TendedAfter DEF Tends
  <2> QED
    BY <2>1, <2>2
<1> QED
  BY <1>3, <1>5, <1>6 DEF Tends

(* After a deletion the milestone left has less work, and is closed if that *)
(* is done; the others have the same.                                       *)
Lessens(b, f, left) ==
    /\ f \in M!BoardStates /\ f.closed = b.closed /\ M!TasksHaveStories(f)
    /\ LessWork(b, f, left)
    /\ \A m : m # left => LessWork(b, f, m) /\ LessWork(f, b, m)

LEMMA ClosedOnlyKeeps ==
    ASSUME NEW b \in M!BoardStates, NEW left \in Milestones \cup {Nowhere},
           NEW f, Lessens(b, f, left), NEW g, Tends(f, g), NEW c, c = M!ClosedOnly(g, left),
           \A s \in Stories : StoryFine(b, s) => StoryFine(g, s)
    PROVE  Keeps(b, c)
<1>1. /\ f \in M!BoardStates /\ f.closed = b.closed /\ M!TasksHaveStories(f)
      /\ LessWork(b, f, left)
      /\ \A m : m # left => LessWork(b, f, m) /\ LessWork(f, b, m)
  BY DEF Lessens
<1>2. Tends(g, c) /\ (left \in Milestones => NotOpenLate(c, left))
  <2>1. g \in M!BoardStates
    BY DEF Tends
  <2> QED
    BY <2>1, ClosedOnlyTends
<1>3. Tends(f, c)
  BY <1>2, TendsAfter
<1>4. ASSUME NEW m \in Milestones, NotClosedEarly(b, m) PROVE NotClosedEarly(c, m)
  <2>1. LessWork(b, f, m) /\ f.closed[m] = b.closed[m]
    BY <1>1
  <2>2. NotClosedEarly(f, m)
    BY <1>4, <2>1, LessWorkStaysClosed
  <2>3. Tended(f, c, m)
    BY <1>3 DEF Tends
  <2> QED
    BY <2>2, <2>3, TendedIsFine
<1>5. ASSUME NEW m \in Milestones, NotOpenLate(b, m) PROVE NotOpenLate(c, m)
  <2>1. CASE m = left
    BY <1>2, <2>1
  <2>2. CASE m # left
    <3>1. LessWork(b, f, m) /\ LessWork(f, b, m) /\ f.closed[m] = b.closed[m]
      BY <1>1, <2>2
    <3>2. Tended(b, f, m)
      BY <3>1, SameWorkAlike DEF Tended
    <3>3. Tended(f, c, m)
      BY <1>3 DEF Tends
    <3>4. Tended(b, c, m)
      BY <3>2, <3>3, TendedAfter
    <3> QED
      BY <1>5, <3>4, TendedIsFine
  <2> QED
    BY <2>1, <2>2
<1> QED
  BY <1>1, <1>2, <1>3, <1>4, <1>5 DEF Tends, Keeps

LEMMA IssueDeletedKeeps ==
    ASSUME NEW b \in M!BoardStates, M!TasksHaveStories(b), NEW i \in M!Exists(b, "issue"),
           NEW c, c = M!ClosedOnly([b EXCEPT !.issue[i] = Gone], b.issue[i].milestone)
    PROVE  Keeps(b, c)
<1>1. PICK f : f = [b EXCEPT !.issue[i] = Gone]
  OBVIOUS
<1>2. i \in Issues /\ b.issue[i] \in M!IssueRows
  BY BoardFields
<1>3. PICK left \in Milestones \cup {Nowhere} : left = b.issue[i].milestone
  BY <1>2, RowFields
<1>4. /\ f \in M!BoardStates /\ (M!TasksHaveStories(f) <=> M!TasksHaveStories(b))
      /\ f.closed = b.closed
      /\ \A s \in Stories : StoryFine(b, s) => StoryFine(f, s)
      /\ \A m : (b.issue[i] # Gone => b.issue[i].milestone # m) =>
            LessWork(b, f, m) /\ LessWork(f, b, m)
      /\ \A m : LessWork(b, f, m)
  <2>1. PICK row \in M!IssueRows \cup {Gone} : row = Gone
    OBVIOUS
  <2>2. f = [b EXCEPT !.issue[i] = row]
    BY <1>1, <2>1
  <2> QED
    BY <1>2, <2>1, <2>2, IssueRow
<1>5. Lessens(b, f, left)
  BY <1>3, <1>4 DEF Lessens
<1>6. Tends(f, f)
  BY <1>4 DEF Tends, Tended, Alike
<1>7. c = M!ClosedOnly(f, left)
  BY <1>1, <1>3
<1> QED
  BY <1>4, <1>5, <1>6, <1>7, ClosedOnlyKeeps

LEMMA TaskDeletedKeeps ==
    ASSUME NEW b \in M!BoardStates, M!TasksHaveStories(b), NEW t \in M!Exists(b, "task"),
           NEW c, c = M!ClosedOnly(M!FlippedAll([b EXCEPT !.task[t] = Gone],
                                                {b.task[t].story} \ {Nowhere}),
                                   b.task[t].milestone)
    PROVE  Keeps(b, c)
<1>1. PICK f : f = [b EXCEPT !.task[t] = Gone]
  OBVIOUS
<1>2. t \in StoryTasks /\ b.task[t] \in M!TaskRows /\ b.task[t] # Gone
  BY BoardFields
<1>3. PICK left \in Milestones \cup {Nowhere} : left = b.task[t].milestone
  BY <1>2, RowFields
<1>4. PICK S : S = {b.task[t].story} \ {Nowhere}
  OBVIOUS
<1>5. PICK row \in M!TaskRows \cup {Gone} : row = Gone
  OBVIOUS
<1>6. f = [b EXCEPT !.task[t] = row]
  BY <1>1, <1>5
<1>7. /\ f \in M!BoardStates
      /\ f.us = b.us /\ f.closed = b.closed
      /\ f.task[t] = row /\ \A u \in StoryTasks : u # t => f.task[u] = b.task[u]
      /\ M!Exists(f, "us") = M!Exists(b, "us")
      /\ M!Exists(f, "task") = {u \in StoryTasks : f.task[u] # Gone}
      /\ \A s : M!Finished(f, "us", s) = M!Finished(b, "us", s)
  BY <1>2, <1>6, TaskRow
<1>8. /\ \A s : (b.task[t] # Gone => b.task[t].story # s) /\ (row # Gone => row.story # s) =>
            /\ M!TasksOf(f, s) = M!TasksOf(b, s)
            /\ \A u \in M!TasksOf(b, s) : M!Finished(f, "task", u) = M!Finished(b, "task", u)
      /\ \A m : (b.task[t] # Gone => b.task[t].milestone # m)
                /\ (row # Gone => row.milestone # m) =>
            LessWork(b, f, m) /\ LessWork(f, b, m)
      /\ row = Gone => \A m : LessWork(b, f, m)
  BY <1>2, <1>6, TaskRowAlike
<1>9. M!TasksHaveStories(f)
  BY <1>5, <1>7, BoardFields DEF M!TasksHaveStories
<1>10. Lessens(b, f, left)
  BY <1>3, <1>5, <1>7, <1>8, <1>9 DEF Lessens
<1>11. PICK g : g = M!FlippedAll(f, S)
  OBVIOUS
<1>12. S \subseteq M!Exists(f, "us")
  BY <1>4, <1>7 DEF M!TasksHaveStories
<1>13. Tends(f, g) /\ \A s \in S : StoryFine(g, s)
  <2>1. Flips(f, g, S)
    BY <1>7, <1>11, <1>12, FlippedAllFlips
  <2> QED
    BY <1>7, <1>12, <2>1, FlipsTend
<1>14. ASSUME NEW s \in Stories, StoryFine(b, s) PROVE StoryFine(g, s)
  <2>1. CASE s \in S
    BY <1>13, <2>1
  <2>2. CASE s \notin S
    <3>1. b.task[t].story # s
      BY <1>4, <2>2, GoneIsNoRow
    <3>2. /\ M!TasksOf(f, s) = M!TasksOf(b, s)
          /\ \A u \in M!TasksOf(b, s) : M!Finished(f, "task", u) = M!Finished(b, "task", u)
      BY <1>5, <1>8, <3>1
    <3>3. s \in M!Exists(f, "us") => StoryAlike(b, f, s)
      BY <1>7, <3>2 DEF StoryAlike
    <3>4. StoryFine(f, s)
      BY <1>14, <3>3, StoryAlikeFine
    <3> QED
      BY <1>13, <3>4 DEF Tends
  <2> QED
    BY <2>1, <2>2
<1>15. c = M!ClosedOnly(g, left)
  BY <1>1, <1>3, <1>4, <1>11
<1> QED
  BY <1>10, <1>13, <1>14, <1>15, ClosedOnlyKeeps

(* The rows of stories are written, and their tasks follow them into other  *)
(* milestones.                                                              *)
Follows(b, f) ==
    /\ f.issue = b.issue /\ f.done = b.done /\ f.closed = b.closed
    /\ f.us \in [Stories -> M!StoryRows \cup {Gone}]
    /\ f.task \in [StoryTasks -> M!TaskRows \cup {Gone}]
    /\ \A t \in StoryTasks :
          \/ f.task[t] = b.task[t]
          \/ /\ b.task[t] # Gone /\ b.task[t].story \in Stories /\ f.task[t] \in M!TaskRows
             /\ f.task[t].story = b.task[t].story /\ f.task[t].status = b.task[t].status
    /\ M!Exists(b, "us") \subseteq M!Exists(f, "us")

LEMMA FollowsKeeps ==
    ASSUME NEW b \in M!BoardStates, NEW f \in M!BoardStates, Follows(b, f)
    PROVE  /\ M!Exists(f, "task") = M!Exists(b, "task")
           /\ \A s : M!TasksOf(f, s) = M!TasksOf(b, s)
           /\ \A t : t \in M!Exists(b, "task") => M!Finished(f, "task", t) = M!Finished(b, "task", t)
           /\ \A m : M!LooseTasksIn(f, m) = M!LooseTasksIn(b, m)
           /\ \A m : M!IssuesIn(f, m) = M!IssuesIn(b, m)
           /\ \A i : M!Finished(f, "issue", i) = M!Finished(b, "issue", i)
           /\ M!TasksHaveStories(b) => M!TasksHaveStories(f)
<1>1. /\ f.issue = b.issue /\ f.done = b.done
      /\ \A t \in StoryTasks :
            \/ f.task[t] = b.task[t]
            \/ /\ b.task[t] # Gone /\ b.task[t].story \in Stories /\ f.task[t] \in M!TaskRows
               /\ f.task[t].story = b.task[t].story /\ f.task[t].status = b.task[t].status
      /\ M!Exists(b, "us") \subseteq M!Exists(f, "us")
  BY DEF Follows
<1>2. M!Exists(b, "task") = {t \in StoryTasks : b.task[t] # Gone}
  BY BoardFields
<1>3. M!Exists(f, "task") = {t \in StoryTasks : f.task[t] # Gone}
  BY BoardFields
<1>4. \A t \in StoryTasks : f.task[t] # Gone <=> b.task[t] # Gone
  BY <1>1, GoneIsNoRow
<1>5. M!Exists(f, "task") = M!Exists(b, "task")
  BY <1>2, <1>3, <1>4
<1>6. \A t \in StoryTasks : f.task[t].story = b.task[t].story /\ f.task[t].status = b.task[t].status
  BY <1>1
<1>7. \A s : M!TasksOf(f, s) = M!TasksOf(b, s)
  BY <1>2, <1>5, <1>6 DEF M!TasksOf
<1>8. \A t : t \in M!Exists(b, "task") => M!Finished(f, "task", t) = M!Finished(b, "task", t)
  BY <1>1, <1>2, <1>6 DEF M!Finished
<1>9. \A t \in M!TasksOf(b, Nowhere) : f.task[t] = b.task[t]
  BY <1>1, <1>2, GoneIsNoRow DEF M!TasksOf
<1>10. \A m : M!LooseTasksIn(f, m) = M!LooseTasksIn(b, m)
  BY <1>7, <1>9 DEF M!LooseTasksIn
<1>11. f["issue"] = b["issue"]
  BY <1>1
<1>12. M!Exists(f, "issue") = M!Exists(b, "issue")
  BY <1>11 DEF M!Exists
<1>13. /\ \A m : M!IssuesIn(f, m) = M!IssuesIn(b, m)
       /\ \A i : M!Finished(f, "issue", i) = M!Finished(b, "issue", i)
  BY <1>1, <1>12 DEF M!IssuesIn, M!Finished
<1>14. M!TasksHaveStories(b) => M!TasksHaveStories(f)
  BY <1>1, <1>2, <1>5, <1>6 DEF M!TasksHaveStories
<1> QED
  BY <1>5, <1>7, <1>8, <1>10, <1>13, <1>14

(* A story whose status and flag stay is as fine as before.                 *)
LEMMA FollowsFine ==
    ASSUME NEW b \in M!BoardStates, NEW f \in M!BoardStates, Follows(b, f), NEW s \in Stories,
           \/ f.us[s] = b.us[s]
           \/ /\ b.us[s] # Gone
              /\ f.us[s].closed = b.us[s].closed /\ f.us[s].status = b.us[s].status
    PROVE  StoryFine(b, s) => StoryFine(f, s)
<1>1. /\ \A u : M!TasksOf(f, u) = M!TasksOf(b, u)
      /\ \A t : t \in M!Exists(b, "task") => M!Finished(f, "task", t) = M!Finished(b, "task", t)
  BY FollowsKeeps
<1>2. f.done = b.done
  BY DEF Follows
<1>3. ASSUME s \in M!Exists(f, "us") PROVE StoryAlike(b, f, s)
  <2>1. f.us[s] # Gone
    BY <1>3, BoardFields
  <2>2. s \in M!Exists(b, "us")
    BY <2>1, BoardFields
  <2>3. f.us[s].closed = b.us[s].closed /\ f.us[s].status = b.us[s].status
    OBVIOUS
  <2>4. M!Finished(f, "us", s) = M!Finished(b, "us", s)
    BY <1>2, <2>3 DEF M!Finished
  <2>5. \A t \in M!TasksOf(b, s) : M!Finished(f, "task", t) = M!Finished(b, "task", t)
    BY <1>1 DEF M!TasksOf
  <2> QED
    BY <1>1, <2>2, <2>3, <2>4, <2>5 DEF StoryAlike
<1> QED
  BY <1>3, StoryAlikeFine

(* Milestone m has the stories it had, open or closed as they were.         *)
LEMMA FollowsWork ==
    ASSUME NEW b \in M!BoardStates, NEW f \in M!BoardStates, Follows(b, f), NEW m
    PROVE  /\ (\A s \in M!StoriesIn(f, m) : s \in M!StoriesIn(b, m)
                                            /\ f.us[s].closed = b.us[s].closed) =>
                 LessWork(b, f, m)
           /\ (\A s \in M!StoriesIn(b, m) : s \in M!StoriesIn(f, m)
                                            /\ f.us[s].closed = b.us[s].closed) =>
                 LessWork(f, b, m)
<1>1. /\ M!LooseTasksIn(f, m) = M!LooseTasksIn(b, m) /\ M!IssuesIn(f, m) = M!IssuesIn(b, m)
      /\ \A t : t \in M!Exists(b, "task") => M!Finished(f, "task", t) = M!Finished(b, "task", t)
      /\ \A i : M!Finished(f, "issue", i) = M!Finished(b, "issue", i)
  BY FollowsKeeps
<1>2. \A t \in M!LooseTasksIn(b, m) : t \in M!Exists(b, "task")
  BY DEF M!LooseTasksIn, M!TasksOf
<1> QED
  BY <1>1, <1>2 DEF LessWork

(* The rows of the items I of S with milestone m, the others as they are.   *)
Put(rows, S, I, m) ==
    [i \in S |-> IF i \in I THEN [rows[i] EXCEPT !.milestone = m] ELSE rows[i]]

(* Tasks put into a milestone.                                              *)
TasksArePut(b, task, T, m) ==
    /\ task \in [StoryTasks -> M!TaskRows \cup {Gone}]
    /\ \A t \in T : /\ task[t] \in M!TaskRows /\ b.task[t] # Gone
                    /\ task[t].story = b.task[t].story /\ task[t].status = b.task[t].status
                    /\ task[t].milestone = m
    /\ \A t \in StoryTasks : t \notin T => task[t] = b.task[t]

LEMMA TasksPut ==
    ASSUME NEW b \in M!BoardStates, NEW T, NEW m \in Milestones \cup {Nowhere},
           T \subseteq M!Exists(b, "task")
    PROVE  TasksArePut(b, Put(b.task, StoryTasks, T, m), T, m)
<1>1. PICK task : task = Put(b.task, StoryTasks, T, m)
  OBVIOUS
<1>2. ASSUME NEW t \in T
      PROVE  /\ task[t] \in M!TaskRows /\ b.task[t] # Gone
             /\ task[t].story = b.task[t].story /\ task[t].status = b.task[t].status
             /\ task[t].milestone = m
  <2>1. b.task[t] # Gone /\ t \in StoryTasks
    BY BoardFields
  <2>2. PICK row \in M!TaskRows : row = b.task[t]
    BY <2>1, BoardFields
  <2>3. task[t] = [row EXCEPT !.milestone = m]
    BY <1>1, <2>1, <2>2 DEF Put
  <2> QED
    BY <2>1, <2>2, <2>3 DEF M!TaskRows
<1>3. \A t \in StoryTasks : t \notin T => task[t] = b.task[t]
  BY <1>1 DEF Put
<1>4. task \in [StoryTasks -> M!TaskRows \cup {Gone}]
  <2>1. \A t \in StoryTasks : task[t] \in M!TaskRows \cup {Gone}
    BY <1>2, <1>3, BoardFields
  <2>2. task = [t \in StoryTasks |-> task[t]]
    BY <1>1 DEF Put
  <2> QED
    BY <2>1, <2>2
<1> QED
  BY <1>1, <1>2, <1>3, <1>4 DEF TasksArePut

(* The same for stories.                                                    *)
StoriesArePut(b, us, S, m) ==
    /\ us \in [Stories -> M!StoryRows \cup {Gone}]
    /\ \A s \in S : /\ us[s] \in M!StoryRows /\ b.us[s] # Gone /\ us[s] # Gone
                    /\ us[s].closed = b.us[s].closed /\ us[s].status = b.us[s].status
                    /\ us[s].milestone = m
    /\ \A s \in Stories : s \notin S => us[s] = b.us[s]

LEMMA StoriesPut ==
    ASSUME NEW b \in M!BoardStates, NEW S, NEW m \in Milestones \cup {Nowhere},
           S \subseteq M!Exists(b, "us")
    PROVE  StoriesArePut(b, Put(b.us, Stories, S, m), S, m)
<1>1. PICK us : us = Put(b.us, Stories, S, m)
  OBVIOUS
<1>2. ASSUME NEW s \in S
      PROVE  /\ us[s] \in M!StoryRows /\ b.us[s] # Gone /\ us[s] # Gone
             /\ us[s].closed = b.us[s].closed /\ us[s].status = b.us[s].status
             /\ us[s].milestone = m
  <2>1. b.us[s] # Gone /\ s \in Stories
    BY BoardFields
  <2>2. PICK row \in M!StoryRows : row = b.us[s]
    BY <2>1, BoardFields
  <2>3. us[s] = [row EXCEPT !.milestone = m]
    BY <1>1, <2>1, <2>2 DEF Put
  <2>4. us[s] \in M!StoryRows
    BY <2>2, <2>3 DEF M!StoryRows
  <2> QED
    BY <2>1, <2>2, <2>3, <2>4, GoneIsNoRow DEF M!StoryRows
<1>3. \A s \in Stories : s \notin S => us[s] = b.us[s]
  BY <1>1 DEF Put
<1>4. us \in [Stories -> M!StoryRows \cup {Gone}]
  <2>1. \A s \in Stories : us[s] \in M!StoryRows \cup {Gone}
    BY <1>2, <1>3, BoardFields
  <2>2. us = [s \in Stories |-> us[s]]
    BY <1>1 DEF Put
  <2> QED
    BY <2>1, <2>2
<1> QED
  BY <1>1, <1>2, <1>3, <1>4 DEF StoriesArePut

(* The handlers of a story.                                                 *)
LEMMA StorySavedKeeps ==
    ASSUME NEW b \in M!BoardStates, M!TasksHaveStories(b), NEW s \in Stories,
           NEW row \in M!StoryRows, row.closed = (b.us[s] # Gone /\ b.us[s].closed),
           NEW c, c = M!StorySaved(b, s, row)
    PROVE  Keeps(b, c)
<1>1. PICK m0 \in Milestones \cup {Nowhere} : m0 = row.milestone
  BY RowFields
<1>2. PICK T : T = M!TasksOf(b, s)
  OBVIOUS
<1>3. PICK task : task = Put(b.task, StoryTasks, T, m0)
  OBVIOUS
<1>4. PICK us : us = [b.us EXCEPT ![s] = row]
  OBVIOUS
<1>5. PICK f : f = [b EXCEPT !.us = us, !.task = task]
  OBVIOUS
<1>6. T \subseteq M!Exists(b, "task") /\ \A t \in T : b.task[t].story = s
  BY <1>2 DEF M!TasksOf
<1>7. /\ task \in [StoryTasks -> M!TaskRows \cup {Gone}]
      /\ \A t \in T : /\ task[t] \in M!TaskRows /\ b.task[t] # Gone
                      /\ task[t].story = b.task[t].story /\ task[t].status = b.task[t].status
                      /\ task[t].milestone = m0
      /\ \A t \in StoryTasks : t \notin T => task[t] = b.task[t]
  <2>1. T \subseteq M!Exists(b, "task")
    BY <1>6
  <2>2. TasksArePut(b, task, T, m0)
    BY <1>3, <2>1, TasksPut
  <2> QED
    BY <2>2 DEF TasksArePut
<1>8. /\ us \in [Stories -> M!StoryRows \cup {Gone}] /\ us[s] = row /\ row # Gone
      /\ \A u \in Stories : u # s => us[u] = b.us[u]
  BY <1>4, BoardFields, GoneIsNoRow
<1>9. /\ f \in M!BoardStates /\ f.us = us /\ f.task = task
      /\ f.issue = b.issue /\ f.done = b.done /\ f.closed = b.closed
  BY <1>5, <1>7, <1>8 DEF M!BoardStates
<1>10. /\ M!Exists(f, "us") = {u \in Stories : f.us[u] # Gone}
       /\ M!Exists(b, "us") = {u \in Stories : b.us[u] # Gone}
       /\ M!Exists(b, "task") = {t \in StoryTasks : b.task[t] # Gone}
  BY <1>9, BoardFields
<1>11. Follows(b, f)
  <2>1. M!Exists(b, "us") \subseteq M!Exists(f, "us")
    BY <1>8, <1>9, <1>10
  <2>2. \A t \in StoryTasks :
          \/ f.task[t] = b.task[t]
          \/ /\ b.task[t] # Gone /\ b.task[t].story \in Stories /\ f.task[t] \in M!TaskRows
             /\ f.task[t].story = b.task[t].story /\ f.task[t].status = b.task[t].status
    BY <1>6, <1>7, <1>9
  <2> QED
    BY <1>7, <1>8, <1>9, <2>1, <2>2 DEF Follows
<1>12. PICK g : g = M!Flipped(f, s)
  OBVIOUS
<1>13. s \in M!Exists(f, "us")
  BY <1>8, <1>9, <1>10
<1>14. Flips(f, g, {s})
  BY <1>9, <1>12, <1>13, FlippedFlips
<1>15. Tends(f, g) /\ StoryFine(g, s)
  <2>1. {s} \subseteq M!Exists(f, "us")
    BY <1>13
  <2> QED
    BY <1>9, <1>14, <2>1, FlipsTend
<1>16. PICK prev : prev = IF g.us[s].closed = row.closed THEN M!Left(b.us[s]) ELSE {}
  OBVIOUS
<1>17. c = M!Judged(g, prev \cup {m0})
  <2>1. task = [t \in StoryTasks |-> IF t \in M!TasksOf(b, s)
                                     THEN [b.task[t] EXCEPT !.milestone = row.milestone]
                                     ELSE b.task[t]]
    BY <1>1, <1>2, <1>3 DEF Put
  <2>2. f = [b EXCEPT !.us[s] = row,
                      !.task = [t \in StoryTasks |-> IF t \in M!TasksOf(b, s)
                                     THEN [b.task[t] EXCEPT !.milestone = row.milestone]
                                     ELSE b.task[t]]]
    BY <1>4, <1>5, <2>1
  <2> QED
    BY <1>1, <1>12, <1>16, <2>2 DEF M!StorySaved
<1>18. /\ Tends(g, c) /\ SameItems(g, c)
       /\ \A m \in Milestones : m \in prev \cup {m0} => JustJudged(c, m)
  <2>1. g \in M!BoardStates
    BY <1>15 DEF Tends
  <2> QED
    BY <1>17, <2>1, JudgedTends
<1>19. Tends(f, c)
  BY <1>15, <1>18, TendsAfter
<1>20. M!TasksHaveStories(f)
  BY <1>9, <1>11, FollowsKeeps
<1>21. ASSUME NEW u \in Stories, StoryFine(b, u) PROVE StoryFine(c, u)
  <2>1. CASE u = s
    BY <1>15, <1>18, <2>1 DEF Tends
  <2>2. CASE u # s
    <3>1. f.us[u] = b.us[u]
      BY <1>8, <1>9, <2>2
    <3>2. StoryFine(f, u)
      BY <1>9, <1>11, <1>21, <3>1, FollowsFine
    <3> QED
      BY <1>19, <3>2 DEF Tends
  <2> QED
    BY <2>1, <2>2
<1>22. ASSUME NEW m \in Milestones, m # m0
       PROVE  /\ LessWork(b, f, m)
              /\ m \notin M!Left(b.us[s]) => LessWork(f, b, m)
  <2>1. \A u \in M!StoriesIn(f, m) : u # s
    BY <1>1, <1>8, <1>9, <1>22 DEF M!StoriesIn
  <2>2. \A u \in M!StoriesIn(f, m) : u \in M!StoriesIn(b, m) /\ f.us[u].closed = b.us[u].closed
    BY <1>8, <1>9, <1>10, <2>1 DEF M!StoriesIn
  <2>3. ASSUME m \notin M!Left(b.us[s])
        PROVE  \A u \in M!StoriesIn(b, m) : u \in M!StoriesIn(f, m) /\ f.us[u].closed = b.us[u].closed
    <3>1. \A u \in M!StoriesIn(b, m) : u # s
      BY <1>10, <2>3 DEF M!StoriesIn, M!Left
    <3> QED
      BY <1>8, <1>9, <1>10, <3>1 DEF M!StoriesIn
  <2>4. LessWork(b, f, m)
    BY <1>9, <1>11, <2>2, FollowsWork
  <2>5. m \notin M!Left(b.us[s]) => LessWork(f, b, m)
    BY <1>9, <1>11, <2>3, FollowsWork
  <2> QED
    BY <2>4, <2>5
<1>23. ASSUME NEW m \in Milestones, m \notin prev \cup {m0}, m \notin M!Left(b.us[s])
       PROVE  Tended(b, c, m)
  <2>1. LessWork(b, f, m) /\ LessWork(f, b, m) /\ f.closed[m] = b.closed[m]
    BY <1>9, <1>22, <1>23
  <2>2. Tended(b, f, m)
    BY <2>1, SameWorkAlike DEF Tended
  <2> QED
    BY <1>19, <2>2, TendedAfter DEF Tends
<1>24. ASSUME NEW m \in Milestones, NotClosedEarly(b, m) PROVE NotClosedEarly(c, m)
  <2>1. CASE m \in prev \cup {m0}
    <3>1. Tended(b, c, m)
      BY <1>18, <2>1 DEF Tended
    <3> QED
      BY <1>24, <3>1, TendedIsFine
  <2>2. CASE m \notin prev \cup {m0}
    <3>1. LessWork(b, f, m) /\ f.closed[m] = b.closed[m]
      BY <1>9, <1>22, <2>2
    <3>2. NotClosedEarly(f, m)
      BY <1>24, <3>1, LessWorkStaysClosed
    <3>3. Tended(f, c, m)
      BY <1>19 DEF Tends
    <3> QED
      BY <3>2, <3>3, TendedIsFine
  <2> QED
    BY <2>1, <2>2
<1>25. ASSUME NEW m \in Milestones, NotOpenLate(b, m)
       PROVE  NotOpenLate(c, m) \/ LeftWhileFlipped(b, c, m)
  <2>1. CASE m \in prev \cup {m0}
    <3>1. Tended(b, c, m)
      BY <1>18, <2>1 DEF Tended
    <3> QED
      BY <1>25, <3>1, TendedIsFine
  <2>2. CASE m \notin prev \cup {m0} /\ m \notin M!Left(b.us[s])
    <3>1. Tended(b, c, m)
      BY <1>23, <2>2
    <3> QED
      BY <1>25, <3>1, TendedIsFine
  <2>3. CASE m \notin prev \cup {m0} /\ m \in M!Left(b.us[s])
    <3>1. g.us[s].closed # row.closed /\ b.us[s] # Gone /\ b.us[s].milestone = m /\ m # m0
      BY <1>16, <2>3 DEF M!Left
    <3>2. b.us[s] \in M!StoryRows
      BY <3>1, BoardFields
    <3>3. b.us[s].closed \in BOOLEAN
      BY <3>2, RowFields
    <3>4. row.closed = b.us[s].closed
      BY <3>1, <3>3
    <3>5. c.us = g.us
      BY <1>18 DEF SameItems
    <3>6. M!StoriesIn(c, m) = M!StoriesIn(f, m)
      <4>1. M!StoriesIn(g, m) = M!StoriesIn(f, m)
        <5>1. {s} \subseteq M!Exists(f, "us")
          BY <1>13
        <5>2. f \in M!BoardStates
          BY <1>9
        <5>3. \A n : M!StoriesIn(g, n) = M!StoriesIn(f, n)
          BY <1>14, <5>1, <5>2, FlipsKeep
        <5> QED
          BY <5>3
      <4> QED
        BY <1>18, <4>1, SameItemsSame
    <3>7. s \in M!StoriesIn(b, m)
      BY <1>10, <3>1 DEF M!StoriesIn
    <3>8. s \notin M!StoriesIn(f, m)
      BY <1>1, <1>8, <1>9, <3>1 DEF M!StoriesIn
    <3>9. g.us[s] # Gone
      <4>1. M!Exists(g, "us") = M!Exists(f, "us") /\ g \in M!BoardStates
        <5>1. {s} \subseteq M!Exists(f, "us")
          BY <1>13
        <5> QED
          BY <1>9, <1>14, <1>15, <5>1, FlipsKeep DEF Tends
      <4>2. s \in M!Exists(g, "us")
        BY <1>13, <4>1
      <4> QED
        BY <4>1, <4>2, BoardFields
    <3> QED
      BY <3>1, <3>4, <3>5, <3>6, <3>7, <3>8, <3>9 DEF LeftWhileFlipped
  <2> QED
    BY <2>1, <2>2, <2>3
<1> QED
  BY <1>19, <1>20, <1>21, <1>24, <1>25 DEF Tends, Keeps

(* The deletion of a story and its tasks.                                   *)
LEMMA StoryDeletedKeeps ==
    ASSUME NEW b \in M!BoardStates, M!TasksHaveStories(b), NEW s \in M!Exists(b, "us"),
           NEW c, c = M!ClosedOnly([b EXCEPT !.us[s] = Gone,
                                      !.task = [t \in StoryTasks |-> IF t \in M!TasksOf(b, s) THEN Gone
                                                                     ELSE b.task[t]]],
                                   b.us[s].milestone)
    PROVE  Keeps(b, c)
<1>1. s \in Stories /\ b.us[s] \in M!StoryRows /\ s # Nowhere
  BY StoryDoneType, GoneIsNoRow
<1>2. PICK left \in Milestones \cup {Nowhere} : left = b.us[s].milestone
  BY <1>1, RowFields
<1>3. PICK T : T = M!TasksOf(b, s)
  OBVIOUS
<1>4. PICK task : task = [t \in StoryTasks |-> IF t \in M!TasksOf(b, s) THEN Gone ELSE b.task[t]]
  OBVIOUS
<1>5. PICK us : us = [b.us EXCEPT ![s] = Gone]
  OBVIOUS
<1>6. PICK f : f = [b EXCEPT !.us = us, !.task = task]
  OBVIOUS
<1>7. c = M!ClosedOnly(f, left)
  <2>1. f = [b EXCEPT !.us[s] = Gone,
                      !.task = [t \in StoryTasks |-> IF t \in M!TasksOf(b, s) THEN Gone
                                                     ELSE b.task[t]]]
    BY <1>4, <1>5, <1>6
  <2> QED
    BY <1>2, <2>1
<1>8. /\ task \in [StoryTasks -> M!TaskRows \cup {Gone}]
      /\ \A t \in StoryTasks : task[t] = IF t \in T THEN Gone ELSE b.task[t]
  BY <1>3, <1>4, BoardFields
<1>9. /\ us \in [Stories -> M!StoryRows \cup {Gone}] /\ us[s] = Gone
      /\ \A u \in Stories : u # s => us[u] = b.us[u]
  BY <1>1, <1>5, BoardFields
<1>10. /\ f \in M!BoardStates /\ f.us = us /\ f.task = task
       /\ f.issue = b.issue /\ f.done = b.done /\ f.closed = b.closed
  BY <1>6, <1>8, <1>9 DEF M!BoardStates
<1>11. /\ M!Exists(b, "us") = {u \in Stories : b.us[u] # Gone}
       /\ M!Exists(b, "task") = {t \in StoryTasks : b.task[t] # Gone}
  BY BoardFields
<1>12. M!Exists(f, "us") = M!Exists(b, "us") \ {s}
  BY <1>9, <1>10, <1>11, BoardFields
<1>13. M!Exists(f, "task") = M!Exists(b, "task") \ T
  BY <1>8, <1>10, <1>11, BoardFields
<1>14. \A t \in M!Exists(f, "task") : f.task[t] = b.task[t] /\ b.task[t].story # s
  BY <1>3, <1>8, <1>10, <1>11, <1>13 DEF M!TasksOf
<1>15. ASSUME NEW u, u # s PROVE M!TasksOf(f, u) = M!TasksOf(b, u)
  <2>1. \A t \in M!TasksOf(b, u) : t \notin T
    BY <1>3, <1>15 DEF M!TasksOf
  <2> QED
    BY <1>13, <1>14, <2>1 DEF M!TasksOf
<1>16. M!TasksHaveStories(f)
  BY <1>12, <1>13, <1>14 DEF M!TasksHaveStories
<1>17. \A t \in M!Exists(f, "task") : M!Finished(f, "task", t) = M!Finished(b, "task", t)
  BY <1>10, <1>14 DEF M!Finished
<1>18. \A i : M!Finished(f, "issue", i) = M!Finished(b, "issue", i)
  BY <1>10 DEF M!Finished
<1>19. \A m : M!IssuesIn(f, m) = M!IssuesIn(b, m)
  <2>1. f["issue"] = b["issue"]
    BY <1>10
  <2> QED
    BY <1>10, <2>1 DEF M!IssuesIn, M!Exists
<1>20. \A m : M!LooseTasksIn(f, m) = M!LooseTasksIn(b, m)
  <2>1. M!TasksOf(f, Nowhere) = M!TasksOf(b, Nowhere)
    BY <1>1, <1>15
  <2>2. \A t \in M!TasksOf(f, Nowhere) : f.task[t] = b.task[t]
    BY <1>14 DEF M!TasksOf
  <2> QED
    BY <2>1, <2>2 DEF M!LooseTasksIn
<1>21. \A m : \A t \in M!LooseTasksIn(f, m) : t \in M!Exists(f, "task")
  BY DEF M!LooseTasksIn, M!TasksOf
<1>22. \A u \in M!Exists(f, "us") : f.us[u] = b.us[u] /\ u \in M!Exists(b, "us") /\ u # s
  BY <1>9, <1>10, <1>11, <1>12
<1>23. \A m : LessWork(b, f, m)
  <2>1. \A m : \A u \in M!StoriesIn(f, m) : u \in M!StoriesIn(b, m) /\ f.us[u].closed = b.us[u].closed
    BY <1>22 DEF M!StoriesIn
  <2> QED
    BY <1>17, <1>18, <1>19, <1>20, <1>21, <2>1 DEF LessWork
<1>24. \A m : m # left => LessWork(f, b, m)
  <2>1. \A m : m # left => \A u \in M!StoriesIn(b, m) : u # s
    BY <1>2 DEF M!StoriesIn
  <2>2. \A m : m # left => \A u \in M!StoriesIn(b, m) : u \in M!StoriesIn(f, m)
                                                        /\ f.us[u].closed = b.us[u].closed
    BY <1>12, <1>22, <2>1 DEF M!StoriesIn
  <2> QED
    BY <1>17, <1>18, <1>19, <1>20, <1>21, <2>2 DEF LessWork
<1>25. Lessens(b, f, left)
  BY <1>10, <1>16, <1>23, <1>24 DEF Lessens
<1>26. Tends(f, f)
  BY <1>10 DEF Tends, Tended, Alike
<1>27. ASSUME NEW u \in Stories, StoryFine(b, u) PROVE StoryFine(f, u)
  <2>1. ASSUME u \in M!Exists(f, "us") PROVE StoryAlike(b, f, u)
    <3>1. f.us[u] = b.us[u] /\ u \in M!Exists(b, "us") /\ u # s
      BY <1>22, <2>1
    <3>2. M!TasksOf(f, u) = M!TasksOf(b, u)
      BY <1>15, <3>1
    <3>3. \A t \in M!TasksOf(b, u) : M!Finished(f, "task", t) = M!Finished(b, "task", t)
      BY <1>17, <3>2 DEF M!TasksOf
    <3>4. M!Finished(f, "us", u) = M!Finished(b, "us", u)
      BY <1>10, <3>1 DEF M!Finished
    <3> QED
      BY <3>1, <3>2, <3>3, <3>4 DEF StoryAlike
  <2> QED
    BY <1>27, <2>1, StoryAlikeFine
<1> QED
  BY <1>7, <1>25, <1>26, <1>27, ClosedOnlyKeeps

-----------------------------------------------------------------------------
(* Bulk moves, statuses and milestones.                                       *)

(* Stories, and their tasks with them, put into a milestone.                *)
MovedTo(b, f, S, m) ==
    /\ f \in M!BoardStates /\ Follows(b, f)
    /\ M!Exists(f, "us") = M!Exists(b, "us")
    /\ \A s \in Stories : s \notin S => f.us[s] = b.us[s]
    /\ \A s \in S : /\ b.us[s] # Gone /\ f.us[s].milestone = m
                    /\ f.us[s].closed = b.us[s].closed /\ f.us[s].status = b.us[s].status

LEMMA MovedFollows ==
    ASSUME NEW b \in M!BoardStates, NEW S, S \subseteq M!Exists(b, "us"),
           NEW m \in Milestones \cup {Nowhere}
    PROVE  MovedTo(b, M!Moved(b, S, m), S, m)
<1> PICK f : f = M!Moved(b, S, m)
  OBVIOUS
<1>1. PICK us : us = Put(b.us, Stories, S, m)
  OBVIOUS
<1>2. PICK T : T = {t \in StoryTasks : \E s \in S : t \in M!TasksOf(b, s)}
  OBVIOUS
<1>3. PICK task : task = Put(b.task, StoryTasks, T, m)
  OBVIOUS
<1>4. PICK g : g = [b EXCEPT !.us = us, !.task = task]
  OBVIOUS
<1>5. f = g
  <2>1. us = [s \in Stories |-> IF s \in S THEN [b.us[s] EXCEPT !.milestone = m] ELSE b.us[s]]
    BY <1>1 DEF Put
  <2>2. task = [t \in StoryTasks |-> IF \E s \in S : t \in M!TasksOf(b, s)
                                     THEN [b.task[t] EXCEPT !.milestone = m] ELSE b.task[t]]
    <3>1. \A t \in StoryTasks : t \in T <=> \E s \in S : t \in M!TasksOf(b, s)
      BY <1>2
    <3> QED
      BY <1>3, <3>1 DEF Put
  <2> QED
    BY <1>4, <2>1, <2>2 DEF M!Moved
<1>6. S \subseteq Stories
  BY BoardFields
<1>7. T \subseteq M!Exists(b, "task") /\ \A t \in T : b.task[t].story \in Stories
  BY <1>2, <1>6 DEF M!TasksOf
<1>8. /\ us \in [Stories -> M!StoryRows \cup {Gone}]
      /\ \A s \in S : /\ us[s] \in M!StoryRows /\ b.us[s] # Gone /\ us[s] # Gone
                      /\ us[s].closed = b.us[s].closed /\ us[s].status = b.us[s].status
                      /\ us[s].milestone = m
      /\ \A s \in Stories : s \notin S => us[s] = b.us[s]
  <2>1. StoriesArePut(b, us, S, m)
    BY <1>1, StoriesPut
  <2> QED
    BY <2>1 DEF StoriesArePut
<1>9. /\ task \in [StoryTasks -> M!TaskRows \cup {Gone}]
      /\ \A t \in T : /\ task[t] \in M!TaskRows /\ b.task[t] # Gone
                      /\ task[t].story = b.task[t].story /\ task[t].status = b.task[t].status
                      /\ task[t].milestone = m
      /\ \A t \in StoryTasks : t \notin T => task[t] = b.task[t]
  <2>1. T \subseteq M!Exists(b, "task")
    BY <1>7
  <2>2. TasksArePut(b, task, T, m)
    BY <1>3, <2>1, TasksPut
  <2> QED
    BY <2>2 DEF TasksArePut
<1>10. /\ f \in M!BoardStates /\ f.us = us /\ f.task = task
       /\ f.issue = b.issue /\ f.done = b.done /\ f.closed = b.closed
  BY <1>4, <1>5, <1>8, <1>9 DEF M!BoardStates
<1>11. M!Exists(f, "us") = M!Exists(b, "us")
  <2>1. \A s \in Stories : f.us[s] # Gone <=> b.us[s] # Gone
    BY <1>8, <1>10
  <2>2. M!Exists(f, "us") = {s \in Stories : f.us[s] # Gone}
    BY <1>10, BoardFields
  <2>3. M!Exists(b, "us") = {s \in Stories : b.us[s] # Gone}
    BY BoardFields
  <2> QED
    BY <2>1, <2>2, <2>3
<1>12. \A t \in StoryTasks :
          \/ f.task[t] = b.task[t]
          \/ /\ b.task[t] # Gone /\ b.task[t].story \in Stories /\ f.task[t] \in M!TaskRows
             /\ f.task[t].story = b.task[t].story /\ f.task[t].status = b.task[t].status
  BY <1>7, <1>9, <1>10
<1>13. Follows(b, f)
  BY <1>8, <1>9, <1>10, <1>11, <1>12 DEF Follows
<1> QED
  BY <1>8, <1>10, <1>11, <1>13 DEF MovedTo

(* It changes the work of the milestones that lose or get stories only.     *)
LEMMA MovedKeeps ==
    ASSUME NEW b \in M!BoardStates, M!TasksHaveStories(b), NEW S, S \subseteq M!Exists(b, "us"),
           NEW m \in Milestones \cup {Nowhere}, NEW f, f = M!Moved(b, S, m)
    PROVE  /\ f \in M!BoardStates /\ M!TasksHaveStories(f)
           /\ \A s \in Stories : StoryFine(b, s) => StoryFine(f, s)
           /\ \A n \in Milestones : n # m /\ (\A s \in S : b.us[s].milestone # n) => Tended(b, f, n)
<1>1. /\ f \in M!BoardStates /\ Follows(b, f)
      /\ M!Exists(f, "us") = M!Exists(b, "us")
      /\ \A s \in Stories : s \notin S => f.us[s] = b.us[s]
      /\ \A s \in S : /\ b.us[s] # Gone /\ f.us[s].milestone = m
                      /\ f.us[s].closed = b.us[s].closed /\ f.us[s].status = b.us[s].status
  <2>1. MovedTo(b, f, S, m)
    BY MovedFollows
  <2> QED
    BY <2>1 DEF MovedTo
<1>2. M!TasksHaveStories(f)
  BY <1>1, FollowsKeeps
<1>3. ASSUME NEW s \in Stories, StoryFine(b, s) PROVE StoryFine(f, s)
  <2>1. \/ f.us[s] = b.us[s]
        \/ /\ b.us[s] # Gone
           /\ f.us[s].closed = b.us[s].closed /\ f.us[s].status = b.us[s].status
    BY <1>1
  <2> QED
    BY <1>1, <1>3, <2>1, FollowsFine
<1>4. ASSUME NEW n \in Milestones, n # m, \A s \in S : b.us[s].milestone # n
      PROVE  Tended(b, f, n)
  <2>1. \A s \in Stories : s \in S => s \notin M!StoriesIn(f, n) /\ s \notin M!StoriesIn(b, n)
    BY <1>1, <1>4 DEF M!StoriesIn
  <2>2. M!StoriesIn(f, n) \subseteq Stories /\ M!StoriesIn(b, n) \subseteq Stories
    BY <1>1, BoardFields DEF M!StoriesIn
  <2>3. \A s \in M!StoriesIn(f, n) : s \in M!StoriesIn(b, n) /\ f.us[s].closed = b.us[s].closed
    BY <1>1, <2>1, <2>2 DEF M!StoriesIn
  <2>4. \A s \in M!StoriesIn(b, n) : s \in M!StoriesIn(f, n) /\ f.us[s].closed = b.us[s].closed
    BY <1>1, <2>1, <2>2 DEF M!StoriesIn
  <2>5. LessWork(b, f, n)
    BY <1>1, <2>3, FollowsWork
  <2>6. LessWork(f, b, n)
    BY <1>1, <2>4, FollowsWork
  <2>7. f.closed[n] = b.closed[n]
    BY <1>1 DEF Follows
  <2> QED
    BY <2>5, <2>6, <2>7, SameWorkAlike DEF Tended
<1> QED
  BY <1>1, <1>2, <1>3, <1>4

(* A drop on the kanban changes the status of stories: those of others and  *)
(* the milestones are as they were.                                         *)
WithStatus(b, S, status) ==
    [b EXCEPT !.us = [s \in Stories |->
        IF s \in S THEN [b.us[s] EXCEPT !.status = status] ELSE b.us[s]]]

KeepsTheOthers(b, f, S) ==
    /\ f \in M!BoardStates /\ M!TasksHaveStories(f)
    /\ \A s \in Stories : s \notin S => (StoryFine(b, s) => StoryFine(f, s))
    /\ \A m \in Milestones : Tended(b, f, m)

LEMMA StatusesKeep ==
    ASSUME NEW b \in M!BoardStates, M!TasksHaveStories(b), NEW S, S \subseteq M!Exists(b, "us"),
           NEW status \in Statuses
    PROVE  KeepsTheOthers(b, WithStatus(b, S, status), S)
<1> PICK f : f = WithStatus(b, S, status)
  OBVIOUS
<1>1. PICK us : us = [s \in Stories |-> IF s \in S THEN [b.us[s] EXCEPT !.status = status]
                                        ELSE b.us[s]]
  OBVIOUS
<1>2. f = [b EXCEPT !.us = us]
  BY <1>1 DEF WithStatus
<1>3. ASSUME NEW s \in S
      PROVE  /\ us[s] \in M!StoryRows /\ b.us[s] # Gone
             /\ us[s].closed = b.us[s].closed /\ us[s].milestone = b.us[s].milestone
  <2>1. b.us[s] # Gone /\ s \in Stories
    BY BoardFields
  <2>2. PICK row \in M!StoryRows : row = b.us[s]
    BY <2>1, BoardFields
  <2>3. us[s] = [row EXCEPT !.status = status]
    BY <1>1, <2>1, <2>2
  <2> QED
    BY <2>1, <2>2, <2>3 DEF M!StoryRows
<1>4. \A s \in Stories : s \notin S => us[s] = b.us[s]
  BY <1>1
<1>5. us \in [Stories -> M!StoryRows \cup {Gone}]
  <2>1. \A s \in Stories : us[s] \in M!StoryRows \cup {Gone}
    BY <1>3, <1>4, BoardFields
  <2>2. us = [s \in Stories |-> us[s]]
    BY <1>1
  <2> QED
    BY <2>1, <2>2
<1>6. /\ f \in M!BoardStates /\ f.us = us /\ f.task = b.task
      /\ f.issue = b.issue /\ f.done = b.done /\ f.closed = b.closed
  BY <1>2, <1>5 DEF M!BoardStates
<1>7. M!Exists(f, "us") = M!Exists(b, "us")
  <2>1. \A s \in Stories : f.us[s] # Gone <=> b.us[s] # Gone
    BY <1>3, <1>4, <1>6, GoneIsNoRow
  <2>2. M!Exists(f, "us") = {s \in Stories : f.us[s] # Gone}
    BY <1>6, BoardFields
  <2>3. M!Exists(b, "us") = {s \in Stories : b.us[s] # Gone}
    BY BoardFields
  <2> QED
    BY <2>1, <2>2, <2>3
<1>8. Follows(b, f)
  BY <1>5, <1>6, <1>7, BoardFields DEF Follows
<1>9. M!TasksHaveStories(f)
  BY <1>6, <1>8, FollowsKeeps
<1>10. ASSUME NEW s \in Stories, s \notin S, StoryFine(b, s) PROVE StoryFine(f, s)
  <2>1. f.us[s] = b.us[s]
    BY <1>4, <1>6, <1>10
  <2> QED
    BY <1>6, <1>8, <1>10, <2>1, FollowsFine
<1>11. ASSUME NEW m \in Milestones PROVE Tended(b, f, m)
  <2>1. \A s \in Stories : f.us[s].closed = b.us[s].closed /\ f.us[s].milestone = b.us[s].milestone
    BY <1>3, <1>4, <1>6
  <2>2. \A s \in M!Exists(b, "us") : s \in Stories
    BY BoardFields
  <2>3. \A s \in M!StoriesIn(f, m) : s \in M!StoriesIn(b, m) /\ f.us[s].closed = b.us[s].closed
    BY <1>7, <2>1, <2>2 DEF M!StoriesIn
  <2>4. \A s \in M!StoriesIn(b, m) : s \in M!StoriesIn(f, m) /\ f.us[s].closed = b.us[s].closed
    BY <1>7, <2>1, <2>2 DEF M!StoriesIn
  <2>5. LessWork(b, f, m)
    BY <1>6, <1>8, <2>3, FollowsWork
  <2>6. LessWork(f, b, m)
    BY <1>6, <1>8, <2>4, FollowsWork
  <2> QED
    BY <1>6, <2>5, <2>6, SameWorkAlike DEF Tended
<1> QED
  BY <1>6, <1>9, <1>10, <1>11 DEF KeepsTheOthers

(* A status is marked closed or open.                                       *)
LEMMA StatusFlipped ==
    ASSUME NEW b \in M!BoardStates, NEW kind \in M!Kinds, NEW status \in Statuses,
           NEW f, f = [b EXCEPT !.done[kind][status] = ~@]
    PROVE  /\ f \in M!BoardStates
           /\ f.us = b.us /\ f.task = b.task /\ f.issue = b.issue /\ f.closed = b.closed
           /\ \A k \in M!Kinds, x \in Statuses :
                 k # kind \/ x # status => f.done[k][x] = b.done[k][x]
<1>1. b.done \in [M!Kinds -> [Statuses -> BOOLEAN]]
  BY DEF M!BoardStates
<1>2. PICK row \in [Statuses -> BOOLEAN] : row = b.done[kind]
  BY <1>1
<1>3. PICK flip \in [Statuses -> BOOLEAN] : flip = [row EXCEPT ![status] = ~@]
  BY <1>2
<1>4. PICK done : done = [b.done EXCEPT ![kind] = flip]
  OBVIOUS
<1>5. done \in [M!Kinds -> [Statuses -> BOOLEAN]]
  BY <1>1, <1>3, <1>4
<1>6. f = [b EXCEPT !.done = done]
  BY <1>2, <1>3, <1>4
<1>7. /\ f \in M!BoardStates /\ f.done = done
      /\ f.us = b.us /\ f.task = b.task /\ f.issue = b.issue /\ f.closed = b.closed
  BY <1>5, <1>6 DEF M!BoardStates
<1>8. ASSUME NEW k \in M!Kinds, NEW x \in Statuses, k # kind \/ x # status
      PROVE  done[k][x] = b.done[k][x]
  <2>1. CASE k # kind
    BY <1>1, <1>4, <2>1
  <2>2. CASE k = kind /\ x # status
    BY <1>1, <1>2, <1>3, <1>4, <2>2
  <2> QED
    BY <1>8, <2>1, <2>2
<1> QED
  BY <1>7, <1>8

(* The stories that EditStatus looks at again.                              *)
Touched(f, kind, status) ==
    CASE kind = "us" -> {s \in M!Exists(f, "us") : f.us[s].status = status}
      [] kind = "task" -> {s \in M!Exists(f, "us") :
             \E t \in M!TasksOf(f, s) : f.task[t].status = status}
      [] kind = "issue" -> {}

LEMMA StatusEditedKeeps ==
    ASSUME NEW b \in M!BoardStates, M!TasksHaveStories(b), NEW kind \in M!Kinds,
           NEW status \in Statuses,
           NEW f, f = [b EXCEPT !.done[kind][status] = ~@],
           NEW c, c = M!FlippedAll(f, Touched(f, kind, status))
    PROVE  /\ c \in M!BoardStates /\ M!TasksHaveStories(c)
           /\ \A s \in Stories : StoryFine(b, s) => StoryFine(c, s)
           /\ kind = "us" => Tends(b, c)
<1>1. /\ f \in M!BoardStates
      /\ f.us = b.us /\ f.task = b.task /\ f.issue = b.issue /\ f.closed = b.closed
      /\ \A k \in M!Kinds, x \in Statuses :
            k # kind \/ x # status => f.done[k][x] = b.done[k][x]
  BY StatusFlipped
<1>2. PICK S : S = Touched(f, kind, status)
  OBVIOUS
<1>3. S \subseteq M!Exists(f, "us")
  <2>1. kind = "us" \/ kind = "task" \/ kind = "issue"
    BY DEF M!Kinds
  <2> QED
    BY <1>2, <2>1 DEF Touched
<1>4. Flips(f, c, S)
  BY <1>1, <1>2, <1>3, FlippedAllFlips
<1>5. Tends(f, c) /\ \A s \in S : StoryFine(c, s)
  BY <1>1, <1>3, <1>4, FlipsTend
<1>6. /\ f["us"] = b["us"] /\ f["task"] = b["task"] /\ f["issue"] = b["issue"]
  BY <1>1
<1>7. /\ M!Exists(f, "us") = M!Exists(b, "us") /\ M!Exists(f, "task") = M!Exists(b, "task")
      /\ M!Exists(f, "issue") = M!Exists(b, "issue")
  BY <1>6 DEF M!Exists
<1>8. /\ \A s : M!TasksOf(f, s) = M!TasksOf(b, s)
      /\ \A m : M!StoriesIn(f, m) = M!StoriesIn(b, m)
      /\ \A m : M!IssuesIn(f, m) = M!IssuesIn(b, m)
  BY <1>1, <1>7 DEF M!StoriesIn, M!TasksOf, M!IssuesIn
<1>9. \A m : M!LooseTasksIn(f, m) = M!LooseTasksIn(b, m)
  BY <1>1, <1>8 DEF M!LooseTasksIn
<1>10. M!TasksHaveStories(f)
  BY <1>1, <1>7 DEF M!TasksHaveStories
<1>11. /\ \A s \in M!Exists(b, "us") : b.us[s].status \in Statuses
       /\ \A t \in M!Exists(b, "task") : b.task[t].status \in Statuses
       /\ \A i \in M!Exists(b, "issue") : b.issue[i].status \in Statuses
  BY BoardFields, RowFields
<1>12. /\ \A s \in M!Exists(b, "us") : kind # "us" \/ b.us[s].status # status =>
             M!Finished(f, "us", s) = M!Finished(b, "us", s)
       /\ \A t \in M!Exists(b, "task") : kind # "task" \/ b.task[t].status # status =>
             M!Finished(f, "task", t) = M!Finished(b, "task", t)
       /\ \A i \in M!Exists(b, "issue") : kind # "issue" =>
             M!Finished(f, "issue", i) = M!Finished(b, "issue", i)
  BY <1>1, <1>6, <1>11 DEF M!Finished, M!Kinds
<1>13. ASSUME NEW s \in Stories, StoryFine(b, s) PROVE StoryFine(c, s)
  <2>1. CASE s \in S
    BY <1>5, <2>1
  <2>2. CASE s \notin S
    <3>1. ASSUME s \in M!Exists(f, "us") PROVE StoryAlike(b, f, s)
      <4>1. kind # "us" \/ b.us[s].status # status
        BY <1>1, <1>2, <2>2, <3>1 DEF Touched
      <4>2. kind = "task" => \A t \in M!TasksOf(b, s) : b.task[t].status # status
        BY <1>1, <1>2, <1>8, <2>2, <3>1 DEF Touched
      <4>3. \A t \in M!TasksOf(b, s) : t \in M!Exists(b, "task")
        BY DEF M!TasksOf
      <4>4. \A t \in M!TasksOf(b, s) : M!Finished(f, "task", t) = M!Finished(b, "task", t)
        BY <1>12, <4>2, <4>3
      <4>5. s \in M!Exists(b, "us") /\ M!Finished(f, "us", s) = M!Finished(b, "us", s)
        BY <1>7, <1>12, <3>1, <4>1
      <4> QED
        BY <1>1, <1>8, <4>4, <4>5 DEF StoryAlike
    <3>2. StoryFine(f, s)
      BY <1>13, <3>1, StoryAlikeFine
    <3> QED
      BY <1>5, <3>2 DEF Tends
  <2> QED
    BY <2>1, <2>2
<1>14. ASSUME kind = "us", NEW m \in Milestones PROVE Tended(b, c, m)
  <2>1. \A t \in M!LooseTasksIn(b, m) : t \in M!Exists(b, "task")
    BY DEF M!LooseTasksIn, M!TasksOf
  <2>2. \A i \in M!IssuesIn(b, m) : i \in M!Exists(b, "issue")
    BY DEF M!IssuesIn
  <2>3. LessWork(b, f, m) /\ LessWork(f, b, m)
    BY <1>1, <1>8, <1>9, <1>12, <1>14, <2>1, <2>2 DEF LessWork
  <2>4. Tended(b, f, m)
    BY <1>1, <2>3, SameWorkAlike DEF Tended
  <2> QED
    BY <1>5, <2>4, TendedAfter DEF Tends
<1> QED
  BY <1>5, <1>10, <1>13, <1>14 DEF Tends

(* A milestone is deleted: what was in it is in none, and it has no work.   *)
Leave(row, m) == IF row # Gone /\ row.milestone = m THEN [row EXCEPT !.milestone = Nowhere] ELSE row

LEMMA LeaveRow ==
    ASSUME NEW m \in Milestones
    PROVE  /\ \A row \in M!StoryRows : /\ Leave(row, m) \in M!StoryRows
                                       /\ Leave(row, m).status = row.status
                                       /\ Leave(row, m).closed = row.closed
           /\ \A row \in M!TaskRows : /\ Leave(row, m) \in M!TaskRows
                                      /\ Leave(row, m).status = row.status
                                      /\ Leave(row, m).story = row.story
           /\ \A row \in M!IssueRows : /\ Leave(row, m) \in M!IssueRows
                                       /\ Leave(row, m).status = row.status
           /\ \A row \in M!StoryRows \cup M!TaskRows \cup M!IssueRows :
                 Leave(row, m).milestone = IF row.milestone = m THEN Nowhere ELSE row.milestone
           /\ Leave(Gone, m) = Gone
BY GoneIsNoRow DEF Leave, M!StoryRows, M!TaskRows, M!IssueRows

LEMMA MilestoneDeletedTends ==
    ASSUME NEW b \in M!BoardStates, M!TasksHaveStories(b), NEW m \in Milestones,
           NEW c, c = [b EXCEPT !.us = [i \in DOMAIN b["us"] |-> Leave(b["us"][i], m)],
                                !.task = [i \in DOMAIN b["task"] |-> Leave(b["task"][i], m)],
                                !.issue = [i \in DOMAIN b["issue"] |-> Leave(b["issue"][i], m)],
                                !.closed[m] = FALSE]
    PROVE  Tends(b, c)
<1>1. PICK us : us = [i \in Stories |-> Leave(b.us[i], m)]
  OBVIOUS
<1>2. PICK task : task = [i \in StoryTasks |-> Leave(b.task[i], m)]
  OBVIOUS
<1>3. PICK issue : issue = [i \in Issues |-> Leave(b.issue[i], m)]
  OBVIOUS
<1>4. PICK closed : closed = [b.closed EXCEPT ![m] = FALSE]
  OBVIOUS
<1>5. c = [b EXCEPT !.us = us, !.task = task, !.issue = issue, !.closed = closed]
  <2>1. DOMAIN b["us"] = Stories /\ DOMAIN b["task"] = StoryTasks /\ DOMAIN b["issue"] = Issues
    BY BoardFields
  <2> QED
    BY <1>1, <1>2, <1>3, <1>4, <2>1
<1>6. us \in [Stories -> M!StoryRows \cup {Gone}]
  BY <1>1, BoardFields, LeaveRow
<1>7. task \in [StoryTasks -> M!TaskRows \cup {Gone}]
  BY <1>2, BoardFields, LeaveRow
<1>8. issue \in [Issues -> M!IssueRows \cup {Gone}]
  BY <1>3, BoardFields, LeaveRow
<1>9. closed \in [Milestones -> BOOLEAN] /\ ~closed[m] /\ \A n \in Milestones : n # m => closed[n] = b.closed[n]
  BY <1>4, BoardFields
<1>10. /\ c \in M!BoardStates /\ c.done = b.done
       /\ c.us = us /\ c.task = task /\ c.issue = issue /\ c.closed = closed
  BY <1>5, <1>6, <1>7, <1>8, <1>9 DEF M!BoardStates
<1>11. /\ M!Exists(c, "us") = M!Exists(b, "us")
       /\ \A s \in M!Exists(b, "us") :
             /\ s \in Stories
             /\ c.us[s].status = b.us[s].status /\ c.us[s].closed = b.us[s].closed
             /\ c.us[s].milestone = IF b.us[s].milestone = m THEN Nowhere ELSE b.us[s].milestone
  <2>1. M!Exists(b, "us") = {s \in Stories : b.us[s] # Gone}
    BY BoardFields
  <2>2. M!Exists(c, "us") = {s \in Stories : c.us[s] # Gone}
    BY <1>10, BoardFields
  <2>3. ASSUME NEW s \in Stories, b.us[s] # Gone
        PROVE  /\ c.us[s] # Gone
               /\ c.us[s].status = b.us[s].status /\ c.us[s].closed = b.us[s].closed
               /\ c.us[s].milestone = IF b.us[s].milestone = m THEN Nowhere ELSE b.us[s].milestone
    <3>1. PICK row \in M!StoryRows : row = b.us[s]
      BY <2>3, BoardFields
    <3>2. c.us[s] = Leave(row, m)
      BY <1>1, <1>10, <3>1
    <3> QED
      BY <3>1, <3>2, LeaveRow, GoneIsNoRow
  <2>4. \A s \in Stories : b.us[s] = Gone => c.us[s] = Gone
    BY <1>1, <1>10, LeaveRow
  <2> QED
    BY <2>1, <2>2, <2>3, <2>4
<1>12. /\ M!Exists(c, "task") = M!Exists(b, "task")
       /\ \A t \in M!Exists(b, "task") :
             /\ c.task[t].status = b.task[t].status /\ c.task[t].story = b.task[t].story
             /\ c.task[t].milestone = IF b.task[t].milestone = m THEN Nowhere ELSE b.task[t].milestone
  <2>1. M!Exists(b, "task") = {t \in StoryTasks : b.task[t] # Gone}
    BY BoardFields
  <2>2. M!Exists(c, "task") = {t \in StoryTasks : c.task[t] # Gone}
    BY <1>10, BoardFields
  <2>3. ASSUME NEW t \in StoryTasks, b.task[t] # Gone
        PROVE  /\ c.task[t] # Gone
               /\ c.task[t].status = b.task[t].status /\ c.task[t].story = b.task[t].story
               /\ c.task[t].milestone = IF b.task[t].milestone = m THEN Nowhere ELSE b.task[t].milestone
    <3>1. PICK row \in M!TaskRows : row = b.task[t]
      BY <2>3, BoardFields
    <3>2. c.task[t] = Leave(row, m)
      BY <1>2, <1>10, <3>1
    <3> QED
      BY <3>1, <3>2, LeaveRow, GoneIsNoRow
  <2>4. \A t \in StoryTasks : b.task[t] = Gone => c.task[t] = Gone
    BY <1>2, <1>10, LeaveRow
  <2> QED
    BY <2>1, <2>2, <2>3, <2>4
<1>13. /\ M!Exists(c, "issue") = M!Exists(b, "issue")
       /\ \A i \in M!Exists(b, "issue") :
             /\ c.issue[i].status = b.issue[i].status
             /\ c.issue[i].milestone = IF b.issue[i].milestone = m THEN Nowhere ELSE b.issue[i].milestone
  <2>1. M!Exists(b, "issue") = {i \in Issues : b.issue[i] # Gone}
    BY BoardFields
  <2>2. M!Exists(c, "issue") = {i \in Issues : c.issue[i] # Gone}
    BY <1>10, BoardFields
  <2>3. ASSUME NEW i \in Issues, b.issue[i] # Gone
        PROVE  /\ c.issue[i] # Gone
               /\ c.issue[i].status = b.issue[i].status
               /\ c.issue[i].milestone = IF b.issue[i].milestone = m THEN Nowhere ELSE b.issue[i].milestone
    <3>1. PICK row \in M!IssueRows : row = b.issue[i]
      BY <2>3, BoardFields
    <3>2. c.issue[i] = Leave(row, m)
      BY <1>3, <1>10, <3>1
    <3> QED
      BY <3>1, <3>2, LeaveRow, GoneIsNoRow
  <2>4. \A i \in Issues : b.issue[i] = Gone => c.issue[i] = Gone
    BY <1>3, <1>10, LeaveRow
  <2> QED
    BY <2>1, <2>2, <2>3, <2>4
<1>14. /\ \A s \in M!Exists(b, "us") : M!Finished(c, "us", s) = M!Finished(b, "us", s)
       /\ \A t \in M!Exists(b, "task") : M!Finished(c, "task", t) = M!Finished(b, "task", t)
       /\ \A i \in M!Exists(b, "issue") : M!Finished(c, "issue", i) = M!Finished(b, "issue", i)
  BY <1>10, <1>11, <1>12, <1>13 DEF M!Finished
<1>15. \A s : M!TasksOf(c, s) = M!TasksOf(b, s)
  BY <1>12 DEF M!TasksOf
<1>16. ASSUME NEW s \in Stories, StoryFine(b, s) PROVE StoryFine(c, s)
  <2>1. \A t \in M!TasksOf(b, s) : t \in M!Exists(b, "task")
    BY DEF M!TasksOf
  <2>2. s \in M!Exists(c, "us") => StoryAlike(b, c, s)
    BY <1>11, <1>14, <1>15, <2>1 DEF StoryAlike
  <2> QED
    BY <1>16, <2>2, StoryAlikeFine
<1>17. M!TasksHaveStories(c)
  BY <1>11, <1>12 DEF M!TasksHaveStories
<1>18. /\ \A n \in Milestones : n # Nowhere
       /\ \A s \in M!Exists(b, "us") : c.us[s].milestone # m
       /\ \A t \in M!Exists(b, "task") : c.task[t].milestone # m
       /\ \A i \in M!Exists(b, "issue") : c.issue[i].milestone # m
       /\ \A n \in Milestones : n # m =>
             /\ \A s \in M!Exists(b, "us") : c.us[s].milestone = n <=> b.us[s].milestone = n
             /\ \A t \in M!Exists(b, "task") : c.task[t].milestone = n <=> b.task[t].milestone = n
             /\ \A i \in M!Exists(b, "issue") : c.issue[i].milestone = n <=> b.issue[i].milestone = n
  <2>1. \A n \in Milestones : n # Nowhere
    BY GoneIsNoRow
  <2> QED
    BY <1>11, <1>12, <1>13, <2>1
<1>19. ASSUME NEW n \in Milestones, n # m PROVE Tended(b, c, n)
  <2>1. M!StoriesIn(c, n) = M!StoriesIn(b, n)
    BY <1>11, <1>18, <1>19 DEF M!StoriesIn
  <2>2. M!LooseTasksIn(c, n) = M!LooseTasksIn(b, n)
    <3>1. \A t \in M!TasksOf(b, Nowhere) : t \in M!Exists(b, "task")
      BY DEF M!TasksOf
    <3>2. \A t \in M!TasksOf(b, Nowhere) : c.task[t].milestone = n <=> b.task[t].milestone = n
      BY <1>18, <1>19, <3>1
    <3>3. M!TasksOf(c, Nowhere) = M!TasksOf(b, Nowhere)
      BY <1>15
    <3> QED
      BY <3>2, <3>3 DEF M!LooseTasksIn
  <2>3. M!IssuesIn(c, n) = M!IssuesIn(b, n)
    BY <1>13, <1>18, <1>19 DEF M!IssuesIn
  <2>4. /\ \A s \in M!StoriesIn(b, n) : s \in M!Exists(b, "us")
        /\ \A t \in M!LooseTasksIn(b, n) : t \in M!Exists(b, "task")
        /\ \A i \in M!IssuesIn(b, n) : i \in M!Exists(b, "issue")
    BY DEF M!StoriesIn, M!LooseTasksIn, M!TasksOf, M!IssuesIn
  <2>5. LessWork(b, c, n) /\ LessWork(c, b, n)
    BY <1>11, <1>14, <2>1, <2>2, <2>3, <2>4 DEF LessWork
  <2>6. c.closed[n] = b.closed[n]
    BY <1>9, <1>10, <1>19
  <2> QED
    BY <2>5, <2>6, SameWorkAlike DEF Tended
<1>20. Tended(b, c, m)
  <2>2. M!StoriesIn(c, m) = {}
    BY <1>11, <1>18 DEF M!StoriesIn
  <2>3. M!LooseTasksIn(c, m) = {}
    <3>1. \A t \in M!TasksOf(b, Nowhere) : t \in M!Exists(b, "task")
      BY DEF M!TasksOf
    <3> QED
      BY <1>15, <1>18, <3>1 DEF M!LooseTasksIn
  <2>4. M!IssuesIn(c, m) = {}
    BY <1>13, <1>18 DEF M!IssuesIn
  <2>5. ~M!MilestoneDone(c, m)
    BY <2>2, <2>3, <2>4 DEF M!MilestoneDone
  <2>6. M!MilestoneDone(c, m) \in BOOLEAN /\ c.closed[m] = FALSE
    BY <1>9, <1>10 DEF M!MilestoneDone
  <2>7. c.closed[m] = M!MilestoneDone(c, m)
    BY <2>5, <2>6
  <2> QED
    BY <2>7 DEF Tended, JustJudged
<1> QED
  BY <1>10, <1>16, <1>17, <1>19, <1>20 DEF Tends

-----------------------------------------------------------------------------
(* Updates of the table.                                                      *)

(* Board c has the stories of board b, perhaps more, and the tasks of b in  *)
(* their stories.                                                           *)
TasksStay(b, c) ==
    /\ M!Exists(b, "us") \subseteq M!Exists(c, "us")
    /\ M!Exists(c, "task") = M!Exists(b, "task")
    /\ \A t \in M!Exists(b, "task") : c.task[t].story = b.task[t].story

LEMMA TasksStayHaveStories ==
    ASSUME NEW b, NEW c, TasksStay(b, c), M!TasksHaveStories(b)
    PROVE  M!TasksHaveStories(c)
BY DEF TasksStay, M!TasksHaveStories

LEMMA SameRowsStay ==
    ASSUME NEW b, NEW c, c.us = b.us, c.task = b.task, M!TasksHaveStories(b)
    PROVE  M!TasksHaveStories(c)
<1>1. c["us"] = b["us"] /\ c["task"] = b["task"]
  OBVIOUS
<1> QED
  BY <1>1 DEF M!TasksHaveStories, M!Exists

(* A status is deleted, and the items that had it get another.              *)
Restated(row, status, to) == IF row.status = status THEN [row EXCEPT !.status = to] ELSE row

LEMMA RestatedRow ==
    ASSUME NEW status, NEW to \in Statuses
    PROVE  /\ \A row \in M!StoryRows : Restated(row, status, to) \in M!StoryRows
           /\ \A row \in M!TaskRows : /\ Restated(row, status, to) \in M!TaskRows
                                      /\ Restated(row, status, to).story = row.story
           /\ \A row \in M!IssueRows : Restated(row, status, to) \in M!IssueRows
BY DEF Restated, M!StoryRows, M!TaskRows, M!IssueRows

LEMMA StatusDeletedType ==
    ASSUME NEW b \in M!BoardStates, M!TasksHaveStories(b), NEW kind \in M!Kinds,
           NEW status \in Statuses, NEW to \in Statuses,
           NEW c, c = [b EXCEPT ![kind] = [i \in DOMAIN b[kind] |->
               IF i \in M!Exists(b, kind) /\ b[kind][i].status = status
               THEN [b[kind][i] EXCEPT !.status = to] ELSE b[kind][i]]]
    PROVE  c \in M!BoardStates /\ M!TasksHaveStories(c)
<1>1. PICK rows : rows = [i \in DOMAIN b[kind] |->
               IF i \in M!Exists(b, kind) /\ b[kind][i].status = status
               THEN [b[kind][i] EXCEPT !.status = to] ELSE b[kind][i]]
  OBVIOUS
<1>2. c = [b EXCEPT ![kind] = rows]
  BY <1>1
<1>3. /\ DOMAIN rows = DOMAIN b[kind]
      /\ \A i \in DOMAIN b[kind] :
            rows[i] = IF i \in M!Exists(b, kind) THEN Restated(b[kind][i], status, to) ELSE b[kind][i]
  BY <1>1 DEF Restated
<1>4. CASE kind = "us"
  <2>1. rows \in [Stories -> M!StoryRows \cup {Gone}]
    <3>1. \A s \in Stories : rows[s] \in M!StoryRows \cup {Gone}
      BY <1>3, <1>4, BoardFields, RestatedRow
    <3>2. DOMAIN b[kind] = Stories /\ rows = [i \in DOMAIN b[kind] |-> rows[i]]
      BY <1>1, <1>4, BoardFields
    <3> QED
      BY <3>1, <3>2
  <2>2. c = [b EXCEPT !.us = rows]
    BY <1>2, <1>4
  <2>3. c \in M!BoardStates /\ c.us = rows /\ c.task = b.task
    BY <2>1, <2>2 DEF M!BoardStates
  <2>4. M!Exists(b, "us") \subseteq M!Exists(c, "us")
    <3>1. M!Exists(b, "us") = {s \in Stories : b.us[s] # Gone}
      BY BoardFields
    <3>2. M!Exists(c, "us") = {s \in Stories : c.us[s] # Gone}
      BY <2>3, BoardFields
    <3>3. \A s \in M!Exists(b, "us") : rows[s] \in M!StoryRows
      BY <1>3, <1>4, <3>1, BoardFields, RestatedRow
    <3> QED
      BY <2>3, <3>1, <3>2, <3>3, GoneIsNoRow
  <2>5. M!Exists(c, "task") = M!Exists(b, "task")
    <3>1. c["task"] = b["task"]
      BY <2>3
    <3> QED
      BY <3>1 DEF M!Exists
  <2>6. TasksStay(b, c)
    BY <2>3, <2>4, <2>5 DEF TasksStay
  <2> QED
    BY <2>3, <2>6, TasksStayHaveStories
<1>5. CASE kind = "task"
  <2>1. rows \in [StoryTasks -> M!TaskRows \cup {Gone}]
    <3>1. \A t \in StoryTasks : rows[t] \in M!TaskRows \cup {Gone}
      BY <1>3, <1>5, BoardFields, RestatedRow
    <3>2. DOMAIN b[kind] = StoryTasks /\ rows = [i \in DOMAIN b[kind] |-> rows[i]]
      BY <1>1, <1>5, BoardFields
    <3> QED
      BY <3>1, <3>2
  <2>2. c = [b EXCEPT !.task = rows]
    BY <1>2, <1>5
  <2>3. c \in M!BoardStates /\ c.us = b.us /\ c.task = rows
    BY <2>1, <2>2 DEF M!BoardStates
  <2>4. M!Exists(c, "us") = M!Exists(b, "us")
    <3>1. c["us"] = b["us"]
      BY <2>3
    <3> QED
      BY <3>1 DEF M!Exists
  <2>5. /\ M!Exists(c, "task") = M!Exists(b, "task")
        /\ \A t \in M!Exists(b, "task") : c.task[t].story = b.task[t].story
    <3>1. M!Exists(b, "task") = {t \in StoryTasks : b.task[t] # Gone}
      BY BoardFields
    <3>2. M!Exists(c, "task") = {t \in StoryTasks : c.task[t] # Gone}
      BY <2>3, BoardFields
    <3>3. \A t \in M!Exists(b, "task") : rows[t] \in M!TaskRows /\ rows[t].story = b.task[t].story
      BY <1>3, <1>5, <3>1, BoardFields, RestatedRow
    <3>4. \A t \in StoryTasks : t \notin M!Exists(b, "task") => rows[t] = b.task[t]
      BY <1>3, <1>5, BoardFields
    <3> QED
      BY <2>3, <3>1, <3>2, <3>3, <3>4, GoneIsNoRow
  <2>6. TasksStay(b, c)
    BY <2>4, <2>5 DEF TasksStay
  <2> QED
    BY <2>3, <2>6, TasksStayHaveStories
<1>6. CASE kind = "issue"
  <2>1. rows \in [Issues -> M!IssueRows \cup {Gone}]
    <3>1. \A i \in Issues : rows[i] \in M!IssueRows \cup {Gone}
      BY <1>3, <1>6, BoardFields, RestatedRow
    <3>2. DOMAIN b[kind] = Issues /\ rows = [i \in DOMAIN b[kind] |-> rows[i]]
      BY <1>1, <1>6, BoardFields
    <3> QED
      BY <3>1, <3>2
  <2>2. c = [b EXCEPT !.issue = rows]
    BY <1>2, <1>6
  <2>3. c \in M!BoardStates /\ c.us = b.us /\ c.task = b.task
    BY <2>1, <2>2 DEF M!BoardStates
  <2> QED
    BY <2>3, SameRowsStay
<1> QED
  BY <1>4, <1>5, <1>6 DEF M!Kinds

(* A new row of a story.                                                    *)
LEMMA StoryCreatedType ==
    ASSUME NEW b \in M!BoardStates, M!TasksHaveStories(b), NEW s \in Stories,
           NEW row \in M!StoryRows, NEW c, c = [b EXCEPT !.us[s] = row]
    PROVE  c \in M!BoardStates /\ M!TasksHaveStories(c)
<1>1. PICK us : us = [b.us EXCEPT ![s] = row]
  OBVIOUS
<1>2. /\ us \in [Stories -> M!StoryRows \cup {Gone}] /\ us[s] = row
      /\ \A u \in Stories : u # s => us[u] = b.us[u]
  BY <1>1, BoardFields
<1>3. c = [b EXCEPT !.us = us]
  BY <1>1
<1>4. c \in M!BoardStates /\ c.us = us /\ c.task = b.task
  BY <1>2, <1>3 DEF M!BoardStates
<1>5. M!Exists(c, "task") = M!Exists(b, "task")
  <2>1. c["task"] = b["task"]
    BY <1>4
  <2> QED
    BY <2>1 DEF M!Exists
<1>6. M!Exists(b, "us") \subseteq M!Exists(c, "us")
  <2>1. M!Exists(b, "us") = {u \in Stories : b.us[u] # Gone}
    BY BoardFields
  <2>2. M!Exists(c, "us") = {u \in Stories : c.us[u] # Gone}
    BY <1>4, BoardFields
  <2> QED
    BY <1>2, <1>4, <2>1, <2>2, GoneIsNoRow
<1>7. TasksStay(b, c)
  BY <1>4, <1>5, <1>6 DEF TasksStay
<1> QED
  BY <1>4, <1>7, TasksStayHaveStories

(* Issues are created, or put into a milestone.                             *)
LEMMA IssuesType ==
    ASSUME NEW b \in M!BoardStates, M!TasksHaveStories(b),
           NEW issue \in [Issues -> M!IssueRows \cup {Gone}], NEW c, c = [b EXCEPT !.issue = issue]
    PROVE  c \in M!BoardStates /\ M!TasksHaveStories(c)
<1>1. c \in M!BoardStates /\ c.us = b.us /\ c.task = b.task
  BY DEF M!BoardStates
<1> QED
  BY <1>1, SameRowsStay

LEMMA IssuesPut ==
    ASSUME NEW b \in M!BoardStates, NEW I, I \subseteq M!Exists(b, "issue"),
           NEW m \in Milestones \cup {Nowhere}
    PROVE  Put(b.issue, Issues, I, m) \in [Issues -> M!IssueRows \cup {Gone}]
<1>1. PICK issue : issue = Put(b.issue, Issues, I, m)
  OBVIOUS
<1>2. ASSUME NEW i \in Issues PROVE issue[i] \in M!IssueRows \cup {Gone}
  <2>1. CASE i \in I
    <3>1. PICK row \in M!IssueRows : row = b.issue[i]
      BY <2>1, BoardFields
    <3>2. issue[i] = [row EXCEPT !.milestone = m]
      BY <1>1, <2>1, <3>1 DEF Put
    <3> QED
      BY <3>1, <3>2 DEF M!IssueRows
  <2>2. CASE i \notin I
    BY <1>1, <2>2, BoardFields DEF Put
  <2> QED
    BY <2>1, <2>2
<1>3. issue = [i \in Issues |-> issue[i]]
  BY <1>1 DEF Put
<1> QED
  BY <1>1, <1>2, <1>3

LEMMA TasksPutType ==
    ASSUME NEW b \in M!BoardStates, M!TasksHaveStories(b), NEW T, T \subseteq M!Exists(b, "task"),
           NEW m \in Milestones \cup {Nowhere},
           NEW c, c = [b EXCEPT !.task = Put(b.task, StoryTasks, T, m)]
    PROVE  c \in M!BoardStates /\ M!TasksHaveStories(c)
<1>1. PICK task : task = Put(b.task, StoryTasks, T, m)
  OBVIOUS
<1>2. TasksArePut(b, task, T, m)
  BY <1>1, TasksPut
<1>3. /\ task \in [StoryTasks -> M!TaskRows \cup {Gone}]
      /\ \A t \in T : /\ task[t] \in M!TaskRows /\ b.task[t] # Gone
                      /\ task[t].story = b.task[t].story
      /\ \A t \in StoryTasks : t \notin T => task[t] = b.task[t]
  BY <1>2 DEF TasksArePut
<1>4. c \in M!BoardStates /\ c.us = b.us /\ c.task = task
  BY <1>1, <1>3 DEF M!BoardStates
<1>5. M!Exists(c, "us") = M!Exists(b, "us")
  <2>1. c["us"] = b["us"]
    BY <1>4
  <2> QED
    BY <2>1 DEF M!Exists
<1>6. M!Exists(b, "task") = {t \in StoryTasks : b.task[t] # Gone}
  BY BoardFields
<1>7. M!Exists(c, "task") = {t \in StoryTasks : c.task[t] # Gone}
  BY <1>4, BoardFields
<1>8. \A t \in StoryTasks : /\ c.task[t] # Gone <=> b.task[t] # Gone
                            /\ c.task[t].story = b.task[t].story
  BY <1>3, <1>4, GoneIsNoRow
<1>9. TasksStay(b, c)
  BY <1>5, <1>6, <1>7, <1>8 DEF TasksStay
<1> QED
  BY <1>4, <1>9, TasksStayHaveStories

LEMMA FlagSavedType ==
    ASSUME NEW b \in M!BoardStates, M!TasksHaveStories(b), NEW m \in Milestones,
           NEW flag \in BOOLEAN, NEW c, c = [b EXCEPT !.closed[m] = flag]
    PROVE  c \in M!BoardStates /\ M!TasksHaveStories(c)
<1>1. PICK closed \in [Milestones -> BOOLEAN] : closed = [b.closed EXCEPT ![m] = flag]
  BY BoardFields
<1>2. c = [b EXCEPT !.closed = closed]
  BY <1>1
<1>3. c \in M!BoardStates /\ c.us = b.us /\ c.task = b.task
  BY <1>2 DEF M!BoardStates
<1> QED
  BY <1>3, SameRowsStay

-----------------------------------------------------------------------------
(* The steps, the invariant and the properties.                               *)

(* What a step has to be for the invariant and the three action properties. *)
StepIsSound ==
    /\ M!ClosingInv'
    /\ M!StoriesFollowTheirTasks /\ M!ClosedMeansNothingOpen /\ M!DoneMilestonesClose

LEMMA SoundStep ==
    ASSUME board' \in M!BoardStates, M!TasksHaveStories(board'),
           \A s \in Stories : StoryFine(board, s) =>
               StoryFine(board', s) \/ s \in M!Waiting' \/ last' = "table",
           \A m \in Milestones : NotClosedEarly(board, m) =>
               NotClosedEarly(board', m) \/ m \in M!Waiting' \/ last' \in {"table", "status"},
           \A m \in Milestones : NotOpenLate(board, m) =>
               \/ NotOpenLate(board', m) \/ m \in M!Waiting' \/ last' \in {"table", "status"}
               \/ LeftWhileFlipped(board, board', m)
    PROVE  StepIsSound
<1>1. M!ClosingInv'
  BY DEF M!ClosingInv
<1>2. M!StoriesFollowTheirTasks
  BY DEF M!StoriesFollowTheirTasks, M!StoryJudged, StoryFine
<1>3. M!ClosedMeansNothingOpen
  BY DEF M!ClosedMeansNothingOpen, NotClosedEarly
<1>4. M!DoneMilestonesClose
  BY DEF M!DoneMilestonesClose, NotOpenLate, LeftWhileFlipped
<1> QED
  BY <1>1, <1>2, <1>3, <1>4 DEF StepIsSound

LEMMA KeepsIsSound ==
    ASSUME Keeps(board, board')
    PROVE  StepIsSound
BY SoundStep DEF Keeps

LEMMA TableIsSound ==
    ASSUME board' \in M!BoardStates, M!TasksHaveStories(board'), last' = "table"
    PROVE  StepIsSound
BY SoundStep

LEMMA AskBoard ==
    ASSUME NEW b, NEW kind, M!Ask(b, kind)
    PROVE  board' = b /\ last' = kind
BY DEF M!Ask

LEMMA SaveStorySound ==
    ASSUME M!ClosingInv, NEW s \in Stories, NEW status \in Statuses,
           NEW m \in Milestones \cup {Nowhere}, M!SaveStory(s, status, m)
    PROVE  StepIsSound
<1>1. board \in M!BoardStates /\ M!TasksHaveStories(board)
  BY DEF M!ClosingInv
<1>2. PICK d : d = (board.us[s] # Gone /\ board.us[s].closed)
  OBVIOUS
<1>3. d \in BOOLEAN
  BY <1>2
<1>4. PICK row : row = [status |-> status, milestone |-> m, closed |-> d]
  OBVIOUS
<1>5. row \in M!StoryRows /\ row.closed = d
  BY <1>3, <1>4 DEF M!StoryRows
<1>6. board' = M!StorySaved(board, s, row)
  BY <1>2, <1>4, AskBoard DEF M!SaveStory
<1>7. PICK b : b = board
  OBVIOUS
<1>8. PICK c : c = board'
  OBVIOUS
<1>9. b \in M!BoardStates /\ M!TasksHaveStories(b) /\ row.closed = (b.us[s] # Gone /\ b.us[s].closed)
      /\ c = M!StorySaved(b, s, row)
  BY <1>1, <1>2, <1>5, <1>6, <1>7, <1>8
<1>10. Keeps(b, c)
  BY <1>5, <1>9, StorySavedKeeps
<1> QED
  BY <1>7, <1>8, <1>10, KeepsIsSound

LEMMA SaveTaskSound ==
    ASSUME M!ClosingInv, NEW t \in StoryTasks, NEW status \in Statuses,
           NEW s \in Stories \cup {Nowhere},
           NEW m \in Milestones \cup {Nowhere}, M!SaveTask(t, status, s, m)
    PROVE  StepIsSound
<1>1. PICK b : b = board
  OBVIOUS
<1>2. b \in M!BoardStates /\ M!TasksHaveStories(b)
  BY <1>1 DEF M!ClosingInv
<1>3. PICK row : row = [status |-> status, story |-> s, milestone |-> m]
  OBVIOUS
<1>4. row \in M!TaskRows /\ row.story = s
  BY <1>3 DEF M!TaskRows
<1>5. row.story \in M!Exists(b, "us") \cup {Nowhere}
  BY <1>1, <1>4 DEF M!SaveTask
<1>6. PICK c : c = M!TaskSaved(b, t, row)
  OBVIOUS
<1>7. board' = c
  BY <1>1, <1>3, <1>6, AskBoard DEF M!SaveTask
<1>8. Tends(b, c)
  BY <1>2, <1>4, <1>5, <1>6, TaskSavedTends
<1> QED
  BY <1>1, <1>2, <1>7, <1>8, TendsKeeps, KeepsIsSound

LEMMA MoveTaskToSprintSound ==
    ASSUME M!ClosingInv, NEW t \in StoryTasks, NEW m \in Milestones, M!MoveTaskToSprint(t, m)
    PROVE  StepIsSound
<1>1. PICK b : b = board
  OBVIOUS
<1>2. b \in M!BoardStates /\ M!TasksHaveStories(b)
  BY <1>1 DEF M!ClosingInv
<1>3. PICK old \in M!TaskRows : old = b.task[t]
  BY <1>1, <1>2, BoardFields DEF M!MoveTaskToSprint
<1>4. PICK row : row = [old EXCEPT !.milestone = m]
  OBVIOUS
<1>5. row \in M!TaskRows /\ row.story = old.story
  BY <1>4 DEF M!TaskRows
<1>6. row.story \in M!Exists(b, "us") \cup {Nowhere}
  BY <1>1, <1>2, <1>3, <1>5 DEF M!MoveTaskToSprint, M!TasksHaveStories
<1>7. PICK c : c = M!TaskSaved(b, t, row)
  OBVIOUS
<1>8. board' = c
  BY <1>1, <1>3, <1>4, <1>7, AskBoard DEF M!MoveTaskToSprint
<1>9. Tends(b, c)
  BY <1>2, <1>5, <1>6, <1>7, TaskSavedTends
<1> QED
  BY <1>1, <1>2, <1>8, <1>9, TendsKeeps, KeepsIsSound

LEMMA SaveIssueSound ==
    ASSUME M!ClosingInv, NEW i \in Issues, NEW status \in Statuses,
           NEW m \in Milestones \cup {Nowhere}, M!SaveIssue(i, status, m)
    PROVE  StepIsSound
<1>1. PICK b : b = board
  OBVIOUS
<1>2. b \in M!BoardStates /\ M!TasksHaveStories(b)
  BY <1>1 DEF M!ClosingInv
<1>3. PICK row : row = [status |-> status, milestone |-> m]
  OBVIOUS
<1>4. row \in M!IssueRows /\ row.milestone = m
  BY <1>3 DEF M!IssueRows
<1>5. PICK c : c = M!Judged([b EXCEPT !.issue[i] = row], M!Left(b.issue[i]) \cup {row.milestone})
  OBVIOUS
<1>6. board' = c
  BY <1>1, <1>3, <1>4, <1>5, AskBoard DEF M!SaveIssue
<1>7. Tends(b, c)
  BY <1>2, <1>4, <1>5, IssueSavedTends
<1> QED
  BY <1>1, <1>2, <1>6, <1>7, TendsKeeps, KeepsIsSound

LEMMA DeletionsSound ==
    ASSUME M!ClosingInv,
           \/ \E s \in Stories : M!DeleteStory(s)
           \/ \E t \in StoryTasks : M!DeleteTask(t)
           \/ \E i \in Issues : M!DeleteIssue(i)
    PROVE  StepIsSound
<1>1. PICK b : b = board
  OBVIOUS
<1>2. b \in M!BoardStates /\ M!TasksHaveStories(b)
  BY <1>1 DEF M!ClosingInv
<1>3. ASSUME NEW s \in Stories, M!DeleteStory(s) PROVE StepIsSound
  <2>1. s \in M!Exists(b, "us")
    BY <1>1, <1>3 DEF M!DeleteStory
  <2>2. PICK c : c = M!ClosedOnly([b EXCEPT !.us[s] = Gone,
                                      !.task = [t \in StoryTasks |-> IF t \in M!TasksOf(b, s) THEN Gone
                                                                     ELSE b.task[t]]],
                                  b.us[s].milestone)
    OBVIOUS
  <2>3. board' = c
    BY <1>1, <1>3, <2>2, AskBoard DEF M!DeleteStory
  <2>4. Keeps(b, c)
    BY <1>2, <2>1, <2>2, StoryDeletedKeeps
  <2> QED
    BY <1>1, <2>3, <2>4, KeepsIsSound
<1>4. ASSUME NEW t \in StoryTasks, M!DeleteTask(t) PROVE StepIsSound
  <2>1. t \in M!Exists(b, "task")
    BY <1>1, <1>4 DEF M!DeleteTask
  <2>2. PICK c : c = M!ClosedOnly(M!FlippedAll([b EXCEPT !.task[t] = Gone],
                                               {b.task[t].story} \ {Nowhere}),
                                  b.task[t].milestone)
    OBVIOUS
  <2>3. board' = c
    BY <1>1, <1>4, <2>2, AskBoard DEF M!DeleteTask
  <2>4. Keeps(b, c)
    BY <1>2, <2>1, <2>2, TaskDeletedKeeps
  <2> QED
    BY <1>1, <2>3, <2>4, KeepsIsSound
<1>5. ASSUME NEW i \in Issues, M!DeleteIssue(i) PROVE StepIsSound
  <2>1. i \in M!Exists(b, "issue")
    BY <1>1, <1>5 DEF M!DeleteIssue
  <2>2. PICK c : c = M!ClosedOnly([b EXCEPT !.issue[i] = Gone], b.issue[i].milestone)
    OBVIOUS
  <2>3. board' = c
    BY <1>1, <1>5, <2>2, AskBoard DEF M!DeleteIssue
  <2>4. Keeps(b, c)
    BY <1>2, <2>1, <2>2, IssueDeletedKeeps
  <2> QED
    BY <1>1, <2>3, <2>4, KeepsIsSound
<1> QED
  BY <1>3, <1>4, <1>5

LEMMA EditStatusSound ==
    ASSUME M!ClosingInv, NEW kind \in M!Kinds, NEW status \in Statuses, M!EditStatus(kind, status)
    PROVE  StepIsSound
<1>1. PICK b : b = board
  OBVIOUS
<1>2. b \in M!BoardStates /\ M!TasksHaveStories(b)
  BY <1>1 DEF M!ClosingInv
<1>3. PICK f : f = [b EXCEPT !.done[kind][status] = ~@]
  OBVIOUS
<1>4. PICK c : c = M!FlippedAll(f, Touched(f, kind, status))
  OBVIOUS
<1>5. board' = c /\ last' = IF kind = "us" THEN "signals" ELSE "status"
  BY <1>1, <1>3, <1>4, AskBoard DEF M!EditStatus, Touched
<1>6. /\ c \in M!BoardStates /\ M!TasksHaveStories(c)
      /\ \A s \in Stories : StoryFine(b, s) => StoryFine(c, s)
      /\ kind = "us" => Tends(b, c)
  BY <1>2, <1>3, <1>4, StatusEditedKeeps
<1>7. CASE kind = "us"
  BY <1>1, <1>2, <1>5, <1>6, <1>7, TendsKeeps, KeepsIsSound
<1>8. CASE kind # "us"
  BY <1>1, <1>5, <1>6, <1>8, SoundStep
<1> QED
  BY <1>7, <1>8

LEMMA BulkSprintSound ==
    ASSUME M!ClosingInv, NEW S \in M!Some("us"), NEW m \in Milestones \cup {Nowhere},
           M!BulkSprint(S, m)
    PROVE  StepIsSound
<1>1. PICK b : b = board
  OBVIOUS
<1>2. b \in M!BoardStates /\ M!TasksHaveStories(b)
  BY <1>1 DEF M!ClosingInv
<1>3. S \subseteq M!Exists(b, "us")
  BY <1>1 DEF M!Some
<1>4. PICK f : f = M!Moved(b, S, m)
  OBVIOUS
<1>5. board' = f
  BY <1>1, <1>4, AskBoard DEF M!BulkSprint
<1>6. /\ f \in M!BoardStates /\ M!TasksHaveStories(f)
      /\ \A s \in Stories : StoryFine(b, s) => StoryFine(f, s)
      /\ \A n \in Milestones : n # m /\ (\A s \in S : b.us[s].milestone # n) => Tended(b, f, n)
  BY <1>2, <1>3, <1>4, MovedKeeps
<1>7. PICK items : items = ({m} \cup {b.us[s].milestone : s \in S}) \ {Nowhere}
  OBVIOUS
<1>8. items \subseteq M!Waiting'
  <2>1. PICK job : job = [kind |-> "milestones", items |-> items]
    OBVIOUS
  <2>2. jobs' = jobs \cup {job}
    BY <1>1, <1>7, <2>1 DEF M!BulkSprint
  <2>3. job \in jobs' /\ job.items = items
    BY <2>1, <2>2
  <2> QED
    BY <2>3 DEF M!Waiting
<1>9. ASSUME NEW n \in Milestones
      PROVE  n \in M!Waiting' \/ Tended(b, f, n)
  <2>1. CASE n \in items
    BY <1>8, <2>1
  <2>2. CASE n \notin items
    <3>1. n # Nowhere
      BY GoneIsNoRow
    <3>2. n # m /\ \A s \in S : b.us[s].milestone # n
      BY <1>7, <2>2, <3>1
    <3> QED
      BY <1>6, <3>2
  <2> QED
    BY <2>1, <2>2
<1>10. ASSUME NEW n \in Milestones
       PROVE  /\ NotClosedEarly(board, n) => NotClosedEarly(board', n) \/ n \in M!Waiting'
              /\ NotOpenLate(board, n) => NotOpenLate(board', n) \/ n \in M!Waiting'
  BY <1>1, <1>5, <1>9, TendedIsFine
<1> QED
  BY <1>1, <1>5, <1>6, <1>10, SoundStep

LEMMA BulkKanbanSound ==
    ASSUME M!ClosingInv, NEW S \in M!Some("us"), NEW status \in Statuses, M!BulkKanban(S, status)
    PROVE  StepIsSound
<1>1. PICK b : b = board
  OBVIOUS
<1>2. b \in M!BoardStates /\ M!TasksHaveStories(b)
  BY <1>1 DEF M!ClosingInv
<1>3. S \subseteq M!Exists(b, "us")
  BY <1>1 DEF M!Some
<1>4. PICK f : f = WithStatus(b, S, status)
  OBVIOUS
<1>5. board' = f
  BY <1>1, <1>4, AskBoard DEF M!BulkKanban, WithStatus
<1>6. /\ f \in M!BoardStates /\ M!TasksHaveStories(f)
      /\ \A s \in Stories : s \notin S => (StoryFine(b, s) => StoryFine(f, s))
      /\ \A m \in Milestones : Tended(b, f, m)
  <2>1. KeepsTheOthers(b, f, S)
    BY <1>2, <1>3, <1>4, StatusesKeep
  <2> QED
    BY <2>1 DEF KeepsTheOthers
<1>7. S \subseteq M!Waiting'
  <2>1. PICK job : job = [kind |-> "stories", items |-> S]
    OBVIOUS
  <2>2. jobs' = jobs \cup {job}
    BY <2>1 DEF M!BulkKanban
  <2>3. job \in jobs' /\ job.items = S
    BY <2>1, <2>2
  <2> QED
    BY <2>3 DEF M!Waiting
<1>8. ASSUME NEW n \in Milestones
      PROVE  /\ NotClosedEarly(board, n) => NotClosedEarly(board', n)
             /\ NotOpenLate(board, n) => NotOpenLate(board', n)
  BY <1>1, <1>5, <1>6, TendedIsFine
<1> QED
  BY <1>1, <1>5, <1>6, <1>7, <1>8, SoundStep

LEMMA DeleteMilestoneSound ==
    ASSUME M!ClosingInv, NEW m \in Milestones, M!DeleteMilestone(m)
    PROVE  StepIsSound
<1>1. PICK b : b = board
  OBVIOUS
<1>2. b \in M!BoardStates /\ M!TasksHaveStories(b)
  BY <1>1 DEF M!ClosingInv
<1>3. PICK c : c = [b EXCEPT !.us = [i \in DOMAIN b["us"] |-> Leave(b["us"][i], m)],
                             !.task = [i \in DOMAIN b["task"] |-> Leave(b["task"][i], m)],
                             !.issue = [i \in DOMAIN b["issue"] |-> Leave(b["issue"][i], m)],
                             !.closed[m] = FALSE]
  OBVIOUS
<1>4. board' = c
  BY <1>1, <1>3, AskBoard DEF M!DeleteMilestone, Leave
<1>5. Tends(b, c)
  BY <1>2, <1>3, MilestoneDeletedTends
<1> QED
  BY <1>1, <1>2, <1>4, <1>5, TendsKeeps, KeepsIsSound

LEMMA WorkSound ==
    ASSUME M!ClosingInv, NEW job \in jobs, M!Work(job)
    PROVE  StepIsSound
<1>1. PICK b : b = board
  OBVIOUS
<1>2. b \in M!BoardStates /\ M!TasksHaveStories(b)
  BY <1>1 DEF M!ClosingInv
<1>3. PICK c : c = board'
  OBVIOUS
<1>4. Tends(b, c)
  <2>1. CASE job.kind = "milestones"
    <3>1. c = M!Judged(b, job.items)
      BY <1>1, <1>3, <2>1 DEF M!Work
    <3> QED
      BY <1>2, <3>1, JudgedTends
  <2>2. CASE job.kind # "milestones"
    <3>1. PICK S : S = job.items \cap M!Exists(b, "us")
      OBVIOUS
    <3>2. c = M!FlippedAll(b, S) /\ S \subseteq M!Exists(b, "us")
      BY <1>1, <1>3, <2>2, <3>1 DEF M!Work
    <3>3. Flips(b, c, S)
      BY <1>2, <3>2, FlippedAllFlips
    <3> QED
      BY <1>2, <3>2, <3>3, FlipsTend
  <2> QED
    BY <2>1, <2>2
<1> QED
  BY <1>1, <1>2, <1>3, <1>4, TendsKeeps, KeepsIsSound

(* The updates of the table.                                                *)
LEMMA DeleteStatusSound ==
    ASSUME M!ClosingInv, NEW kind \in M!Kinds, NEW status \in Statuses, NEW to \in Statuses,
           M!DeleteStatus(kind, status, to)
    PROVE  StepIsSound
<1>1. PICK b : b = board
  OBVIOUS
<1>2. b \in M!BoardStates /\ M!TasksHaveStories(b)
  BY <1>1 DEF M!ClosingInv
<1>3. PICK c : c = [b EXCEPT ![kind] = [i \in DOMAIN b[kind] |->
               IF i \in M!Exists(b, kind) /\ b[kind][i].status = status
               THEN [b[kind][i] EXCEPT !.status = to] ELSE b[kind][i]]]
  OBVIOUS
<1>4. board' = c /\ last' = "table"
  BY <1>1, <1>3, AskBoard DEF M!DeleteStatus
<1>5. c \in M!BoardStates /\ M!TasksHaveStories(c)
  BY <1>2, <1>3, StatusDeletedType
<1> QED
  BY <1>4, <1>5, TableIsSound

LEMMA BulkCreateSound ==
    ASSUME M!ClosingInv, NEW s \in Stories, NEW status \in Statuses, M!BulkCreate(s, status)
    PROVE  StepIsSound
<1>1. PICK b : b = board
  OBVIOUS
<1>2. b \in M!BoardStates /\ M!TasksHaveStories(b)
  BY <1>1 DEF M!ClosingInv
<1>3. PICK row : row = [status |-> status, milestone |-> Nowhere, closed |-> FALSE]
  OBVIOUS
<1>4. row \in M!StoryRows
  BY <1>3 DEF M!StoryRows
<1>5. PICK c : c = [b EXCEPT !.us[s] = row]
  OBVIOUS
<1>6. board' = c /\ last' = "table"
  BY <1>1, <1>3, <1>5, AskBoard DEF M!BulkCreate
<1>7. c \in M!BoardStates /\ M!TasksHaveStories(c)
  BY <1>2, <1>4, <1>5, StoryCreatedType
<1> QED
  BY <1>6, <1>7, TableIsSound

LEMMA CreateIssuesSound ==
    ASSUME M!ClosingInv, NEW I \in (SUBSET Issues) \ {{}}, NEW status \in Statuses,
           NEW m \in Milestones, M!CreateIssues(I, status, m)
    PROVE  StepIsSound
<1>1. PICK b : b = board
  OBVIOUS
<1>2. b \in M!BoardStates /\ M!TasksHaveStories(b)
  BY <1>1 DEF M!ClosingInv
<1>3. PICK row : row = [status |-> status, milestone |-> m]
  OBVIOUS
<1>4. row \in M!IssueRows
  BY <1>3 DEF M!IssueRows
<1>5. PICK issue : issue = [i \in Issues |-> IF i \in I THEN row ELSE b.issue[i]]
  OBVIOUS
<1>6. issue \in [Issues -> M!IssueRows \cup {Gone}]
  BY <1>2, <1>4, <1>5, BoardFields
<1>7. PICK c : c = [b EXCEPT !.issue = issue]
  OBVIOUS
<1>8. board' = c /\ last' = "table"
  BY <1>1, <1>3, <1>5, <1>7, AskBoard DEF M!CreateIssues
<1>9. c \in M!BoardStates /\ M!TasksHaveStories(c)
  BY <1>2, <1>6, <1>7, IssuesType
<1> QED
  BY <1>8, <1>9, TableIsSound

LEMMA BulkMilestonesSound ==
    ASSUME M!ClosingInv, NEW m \in Milestones,
           \/ \E S \in M!Some("us") : M!BulkMilestone(S, m)
           \/ \E T \in M!Some("task") : M!BulkTaskMilestone(T, m)
           \/ \E I \in M!Some("issue") : M!BulkIssueMilestone(I, m)
           \/ \E closed \in BOOLEAN : M!SaveMilestone(m, closed)
    PROVE  StepIsSound
<1>1. PICK b : b = board
  OBVIOUS
<1>2. b \in M!BoardStates /\ M!TasksHaveStories(b)
  BY <1>1 DEF M!ClosingInv
<1>3. ASSUME NEW S \in M!Some("us"), M!BulkMilestone(S, m) PROVE StepIsSound
  <2>1. S \subseteq M!Exists(b, "us")
    BY <1>1 DEF M!Some
  <2>2. PICK c : c = M!Moved(b, S, m)
    OBVIOUS
  <2>3. board' = c /\ last' = "table"
    BY <1>1, <1>3, <2>2, AskBoard DEF M!BulkMilestone
  <2>4. c \in M!BoardStates /\ M!TasksHaveStories(c)
    BY <1>2, <2>1, <2>2, MovedKeeps
  <2> QED
    BY <2>3, <2>4, TableIsSound
<1>4. ASSUME NEW T \in M!Some("task"), M!BulkTaskMilestone(T, m) PROVE StepIsSound
  <2>1. T \subseteq M!Exists(b, "task")
    BY <1>1 DEF M!Some
  <2>2. PICK c : c = [b EXCEPT !.task = Put(b.task, StoryTasks, T, m)]
    OBVIOUS
  <2>3. board' = c /\ last' = "table"
    <3>1. b["task"] = b.task /\ DOMAIN b["task"] = StoryTasks
      BY <1>2, BoardFields
    <3>2. M!PutInto("task", T, m) = c
      BY <1>1, <2>2, <3>1 DEF M!PutInto, Put
    <3> QED
      BY <1>4, <3>2, AskBoard DEF M!BulkTaskMilestone
  <2>4. c \in M!BoardStates /\ M!TasksHaveStories(c)
    BY <1>2, <2>1, <2>2, TasksPutType
  <2> QED
    BY <2>3, <2>4, TableIsSound
<1>5. ASSUME NEW I \in M!Some("issue"), M!BulkIssueMilestone(I, m) PROVE StepIsSound
  <2>1. I \subseteq M!Exists(b, "issue")
    BY <1>1 DEF M!Some
  <2>2. PICK issue : issue = Put(b.issue, Issues, I, m)
    OBVIOUS
  <2>3. issue \in [Issues -> M!IssueRows \cup {Gone}]
    BY <1>2, <2>1, <2>2, IssuesPut
  <2>4. PICK c : c = [b EXCEPT !.issue = issue]
    OBVIOUS
  <2>5. board' = c /\ last' = "table"
    <3>1. b["issue"] = b.issue /\ DOMAIN b["issue"] = Issues
      BY <1>2, BoardFields
    <3>2. M!PutInto("issue", I, m) = c
      BY <1>1, <2>2, <2>4, <3>1 DEF M!PutInto, Put
    <3> QED
      BY <1>5, <3>2, AskBoard DEF M!BulkIssueMilestone
  <2>6. c \in M!BoardStates /\ M!TasksHaveStories(c)
    BY <1>2, <2>3, <2>4, IssuesType
  <2> QED
    BY <2>5, <2>6, TableIsSound
<1>6. ASSUME NEW closed \in BOOLEAN, M!SaveMilestone(m, closed) PROVE StepIsSound
  <2>1. PICK c : c = [b EXCEPT !.closed[m] = closed]
    OBVIOUS
  <2>2. board' = c /\ last' = "table"
    BY <1>1, <1>6, <2>1, AskBoard DEF M!SaveMilestone
  <2>3. c \in M!BoardStates /\ M!TasksHaveStories(c)
    BY <1>2, <2>1, FlagSavedType
  <2> QED
    BY <2>2, <2>3, TableIsSound
<1> QED
  BY <1>3, <1>4, <1>5, <1>6

LEMMA ClosingStepSound == M!ClosingInv /\ M!ClosingNext => StepIsSound
<1> SUFFICES ASSUME M!ClosingInv, M!ClosingNext
             PROVE  StepIsSound
  OBVIOUS
<1>1. CASE \E s \in Stories, status \in Statuses :
              \/ \E m \in Milestones \cup {Nowhere} : M!SaveStory(s, status, m)
              \/ M!BulkCreate(s, status)
  BY <1>1, SaveStorySound, BulkCreateSound
<1>2. CASE \E t \in StoryTasks, status \in Statuses, s \in Stories \cup {Nowhere},
              m \in Milestones \cup {Nowhere} : M!SaveTask(t, status, s, m)
  BY <1>2, SaveTaskSound
<1>3. CASE \E i \in Issues, status \in Statuses, m \in Milestones \cup {Nowhere} :
              M!SaveIssue(i, status, m)
  BY <1>3, SaveIssueSound
<1>4. CASE \/ \E s \in Stories : M!DeleteStory(s)
           \/ \E t \in StoryTasks : M!DeleteTask(t)
           \/ \E i \in Issues : M!DeleteIssue(i)
  BY <1>4, DeletionsSound
<1>5. CASE \E kind \in M!Kinds, status \in Statuses : M!EditStatus(kind, status)
  BY <1>5, EditStatusSound
<1>6. CASE \E kind \in M!Kinds, status \in Statuses, to \in Statuses :
              M!DeleteStatus(kind, status, to)
  BY <1>6, DeleteStatusSound
<1>7. CASE \E S \in M!Some("us"), m \in Milestones \cup {Nowhere} : M!BulkSprint(S, m)
  BY <1>7, BulkSprintSound
<1>8. CASE \E S \in M!Some("us"), status \in Statuses : M!BulkKanban(S, status)
  BY <1>8, BulkKanbanSound
<1>9. CASE \E I \in (SUBSET Issues) \ {{}}, status \in Statuses, m \in Milestones :
              M!CreateIssues(I, status, m)
  BY <1>9, CreateIssuesSound
<1>10. CASE \E m \in Milestones :
              \/ \E S \in M!Some("us") : M!BulkMilestone(S, m)
              \/ \E T \in M!Some("task") : M!BulkTaskMilestone(T, m)
              \/ \E I \in M!Some("issue") : M!BulkIssueMilestone(I, m)
              \/ \E t \in StoryTasks : M!MoveTaskToSprint(t, m)
              \/ \E closed \in BOOLEAN : M!SaveMilestone(m, closed)
              \/ M!DeleteMilestone(m)
  BY <1>10, BulkMilestonesSound, MoveTaskToSprintSound, DeleteMilestoneSound
<1>11. CASE \E job \in jobs : M!Work(job)
  BY <1>11, WorkSound
<1> QED
  BY <1>1, <1>2, <1>3, <1>4, <1>5, <1>6, <1>7, <1>8, <1>9, <1>10, <1>11 DEF M!ClosingNext

LEMMA ClosingInitInv == M!ClosingInit => M!ClosingInv
<1> SUFFICES ASSUME M!ClosingInit
             PROVE  M!ClosingInv
  OBVIOUS
<1>1. PICK m \in Milestones, home \in Stories, done \in Statuses,
           us \in [Stories -> Statuses], task \in [StoryTasks -> Statuses],
           issue \in [Issues -> Statuses] :
           LET b == [us |-> [s \in Stories |-> [status |-> us[s], milestone |-> m,
                                                closed |-> us[s] = done]],
                     task |-> [t \in StoryTasks |-> [status |-> task[t], story |-> home,
                                                     milestone |-> m]],
                     issue |-> [i \in Issues |-> [status |-> issue[i], milestone |-> m]],
                     closed |-> [n \in Milestones |-> FALSE],
                     done |-> [k \in M!Kinds |-> [s \in Statuses |-> s = done]]]
           IN  board = M!Judged(M!FlippedAll(b, Stories), Milestones)
  BY DEF M!ClosingInit
<1>2. PICK uss : uss = [s \in Stories |-> [status |-> us[s], milestone |-> m, closed |-> us[s] = done]]
  OBVIOUS
<1>3. PICK tasks : tasks = [t \in StoryTasks |-> [status |-> task[t], story |-> home, milestone |-> m]]
  OBVIOUS
<1>4. PICK issues : issues = [i \in Issues |-> [status |-> issue[i], milestone |-> m]]
  OBVIOUS
<1>5. PICK b : b = [us |-> uss, task |-> tasks, issue |-> issues,
                    closed |-> [n \in Milestones |-> FALSE],
                    done |-> [k \in M!Kinds |-> [s \in Statuses |-> s = done]]]
  OBVIOUS
<1>6. board = M!Judged(M!FlippedAll(b, Stories), Milestones)
  BY <1>1, <1>2, <1>3, <1>4, <1>5
<1>7. uss \in [Stories -> M!StoryRows]
  BY <1>2 DEF M!StoryRows
<1>8. tasks \in [StoryTasks -> M!TaskRows] /\ \A t \in StoryTasks : tasks[t].story = home
  BY <1>3 DEF M!TaskRows
<1>9. issues \in [Issues -> M!IssueRows]
  BY <1>4 DEF M!IssueRows
<1>10. b \in M!BoardStates /\ b.us = uss /\ b.task = tasks
  BY <1>5, <1>7, <1>8, <1>9 DEF M!BoardStates
<1>11. Stories \subseteq M!Exists(b, "us")
  BY <1>7, <1>10, BoardFields, GoneIsNoRow
<1>12. M!TasksHaveStories(b)
  BY <1>8, <1>10, <1>11, BoardFields DEF M!TasksHaveStories
<1>13. PICK g : g = M!FlippedAll(b, Stories)
  OBVIOUS
<1>14. Tends(b, g)
  <2>1. Flips(b, g, Stories)
    BY <1>10, <1>11, <1>13, FlippedAllFlips
  <2> QED
    BY <1>10, <1>11, <2>1, FlipsTend
<1>15. g \in M!BoardStates
  BY <1>14 DEF Tends
<1>16. PICK c : c = M!Judged(g, Milestones)
  OBVIOUS
<1>17. Tends(g, c)
  BY <1>15, <1>16, JudgedTends
<1> QED
  BY <1>6, <1>12, <1>13, <1>14, <1>16, <1>17 DEF Tends, M!ClosingInv

LEMMA ClosingRest == UNCHANGED closingVars => (M!ClosingInv' <=> M!ClosingInv)
BY DEF closingVars, M!ClosingInv

(* The invariant of the part.                                               *)
ClosingPart == part = "closing" => M!ClosingInv

LEMMA ClosingPartInvariant == Spec => []ClosingPart
<1>1. Init => ClosingPart
  BY ClosingInitInv DEF Init, ClosingPart
<1>2. ClosingPart /\ [Next]_backendVars => ClosingPart'
  <2> SUFFICES ASSUME ClosingPart, [Next]_backendVars
               PROVE  ClosingPart'
    OBVIOUS
  <2>1. CASE ClosingStep
    BY <2>1, ClosingStepSound DEF ClosingStep, ClosingPart, StepIsSound
  <2>2. CASE UNCHANGED <<part, closingVars>>
    BY <2>2, ClosingRest DEF ClosingPart
  <2> QED
    BY <2>1, <2>2 DEF Next, EditsStep, ColoursStep, CountersStep, BoardsStep, OwnershipStep,
                      WideningStep, backendVars
<1> QED
  BY <1>1, <1>2, PTL DEF Spec

LEMMA ClosingAlways ==
    ClosingPart /\ [Next]_backendVars =>
        /\ [part = "closing" => M!StoriesFollowTheirTasks]_backendVars
        /\ [part = "closing" => M!ClosedMeansNothingOpen]_backendVars
        /\ [part = "closing" => M!DoneMilestonesClose]_backendVars
<1> SUFFICES ASSUME ClosingPart, Next, part = "closing"
             PROVE  /\ M!StoriesFollowTheirTasks /\ M!ClosedMeansNothingOpen
                    /\ M!DoneMilestonesClose
  OBVIOUS
<1>1. M!ClosingInv /\ M!ClosingNext
  BY DEF ClosingPart, Next, EditsStep, ColoursStep, ClosingStep, CountersStep, BoardsStep,
         OwnershipStep, WideningStep
<1> QED
  BY <1>1, ClosingStepSound DEF StepIsSound

(* A story stays closed just when its tasks are done (its status is, if it  *)
(* has none), for any number of stories, tasks and requests, unless it      *)
(* waits for the worker or an update of the table went round the handlers   *)
(* (userstories/signals.py, tasks/signals.py).                              *)
THEOREM StoriesFollowTheirTasksHolds == Spec => StoriesFollowTheirTasks
BY ClosingPartInvariant, ClosingAlways, PTL DEF Spec, StoriesFollowTheirTasks

(* No milestone is marked closed with open work in it, with the same        *)
(* exceptions (milestones/services.py, signals.py of its items).            *)
THEOREM ClosedMeansNothingOpenHolds == Spec => ClosedMeansNothingOpen
BY ClosingPartInvariant, ClosingAlways, PTL DEF Spec, ClosedMeansNothingOpen

(* A milestone whose work is all done is closed, except when a story leaves *)
(* it in the save that closes or opens the story (userstories/signals.py).  *)
THEOREM DoneMilestonesCloseHolds == Spec => DoneMilestonesClose
BY ClosingPartInvariant, ClosingAlways, PTL DEF Spec, DoneMilestonesClose

=============================================================================
