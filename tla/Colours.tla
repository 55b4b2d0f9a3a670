------------------------------ MODULE Colours ------------------------------
(* Colours of scheduled items (taiga/projects/schedule: services.py,        *)
(* signals.py, api.py), one request at a time: stories and tasks take the   *)
(* colour of the story's primary epic, others keep what a client chose.     *)
EXTENDS Integers, Sequences, FiniteSets, SequencesExt

CONSTANTS Epics, Stories, Tasks,
          Shades,      \* colours a client can choose
          NoColour,    \* Schedule.color is NULL
          NoStory,     \* a task without user story
          MaxRelated,  \* bound on relations
          MaxOrder     \* bound on RelatedUserStory.order

ColoursAssumption ==
    /\ NoColour \notin Shades /\ NoStory \notin Stories
    /\ Epics \cap (Stories \cup Tasks) = {} /\ Stories \cap Tasks = {}
    /\ MaxRelated \in Nat /\ MaxOrder \in Nat

VARIABLES
    colour,   \* Schedule.color of every item, and Epic.color of an epic
    related,  \* RelatedUserStory rows in id order: [epic, story, order]
    storyOf,  \* Task.user_story
    request   \* the item last recoloured or reordered, if that was the last request

colourVars == <<colour, related, storyOf, request>>

Before(rel, k, m) ==
    rel[k].order < rel[m].order \/ (rel[k].order = rel[m].order /\ k <= m)

(* get_primary_epic_color_for_userstory, given the colours and relations    *)
Inherited(col, rel, s) ==
    LET K == {k \in DOMAIN rel : rel[k].story = s}
    IN  IF K = {} THEN NoColour
        ELSE col[rel[CHOOSE k \in K : \A m \in K : Before(rel, k, m)].epic]

TasksOf(s) == {t \in Tasks : storyOf[t] = s}

(* sync_userstory_and_tasks_schedule_color for every story of U             *)
Synced(col, rel, U) ==
    [i \in DOMAIN col |->
        IF i \in U THEN Inherited(col, rel, i)
        ELSE IF i \in Tasks /\ storyOf[i] \in U THEN Inherited(col, rel, storyOf[i])
        ELSE col[i]]

(* sync_epic_related_schedule_colors: every story that is related to e      *)
SyncedForEpic(col, rel, e) ==
    Synced(col, rel, {s \in Stories : \E k \in DOMAIN rel :
                                         rel[k].epic = e /\ rel[k].story = s})

(* The colour of a story or task that inherits c, or else given             *)
Chosen(c, given) == IF c # NoColour THEN c ELSE given

NoRequest == <<"other", NoStory>>

ColoursInit ==
    /\ colour \in {c \in [Epics \cup Stories \cup Tasks -> Shades \cup {NoColour}] :
                     /\ \A e \in Epics : c[e] \in Shades
                     /\ \A i \in Stories \cup Tasks : c[i] = NoColour}
    /\ related = <<>>
    /\ storyOf = [t \in Tasks |-> NoStory]
    /\ request = NoRequest

(* An epic is saved with a colour, or update_item recolours it: its row,    *)
(* its schedule and then its stories.                                       *)
ColourEpic(e, c) ==
    /\ colour' = SyncedForEpic([colour EXCEPT ![e] = c], related, e)
    /\ request' = <<"colour", e>>
    /\ UNCHANGED <<related, storyOf>>

(* update_item recolours a story; only a story without epic takes the       *)
(* colour, and its tasks do not follow.                                     *)
ColourStory(s, c) ==
    /\ colour' = [colour EXCEPT ![s] = Chosen(Inherited(colour, related, s), c)]
    /\ request' = <<"colour", s>>
    /\ UNCHANGED <<related, storyOf>>

ColourTask(t, c) ==
    /\ colour' = [colour EXCEPT ![t] =
                     Chosen(Inherited(colour, related, storyOf[t]), c)]
    /\ request' = <<"colour", t>>
    /\ UNCHANGED <<related, storyOf>>

(* Mutant: without an epic the colour is cleared.                           *)
SaveStoryInherited(s) ==
    /\ colour' = [colour EXCEPT ![s] = Inherited(colour, related, s)]
    /\ request' = NoRequest
    /\ UNCHANGED <<related, storyOf>>

(* _userstory_post_save writes the inherited colour, if there is one.       *)
SaveStory(s) ==
    /\ colour' = [colour EXCEPT ![s] = Chosen(Inherited(colour, related, s), @)]
    /\ request' = NoRequest
    /\ UNCHANGED <<related, storyOf>>

(* _task_post_save after a save that puts the task in story u.              *)
SaveTask(t, u) ==
    /\ storyOf' = [storyOf EXCEPT ![t] = u]
    /\ colour' = [colour EXCEPT ![t] = Chosen(Inherited(colour, related, u), @)]
    /\ request' = NoRequest
    /\ UNCHANGED related

(* _related_userstory_post_save                                             *)
Relate(e, s, o) ==
    /\ Len(related) < MaxRelated
    /\ \A k \in DOMAIN related : ~(related[k].epic = e /\ related[k].story = s)
    /\ related' = Append(related, [epic |-> e, story |-> s, order |-> o])
    /\ colour' = Synced(colour, related', {s})
    /\ request' = NoRequest
    /\ UNCHANGED storyOf

(* Mutant: the story keeps the colour of the epic it leaves.                *)
UnrelateOnly(k) ==
    /\ related' = RemoveAt(related, k)
    /\ request' = NoRequest
    /\ UNCHANGED <<colour, storyOf>>

(* _related_userstory_post_delete                                           *)
Unrelate(k) ==
    /\ related' = RemoveAt(related, k)
    /\ colour' = Synced(colour, related', {related[k].story})
    /\ request' = NoRequest
    /\ UNCHANGED storyOf

(* The relations of an epic go before it does, and only then its handlers   *)
(* run; the epic is created again at once.                                  *)
DeleteEpic(e) ==
    /\ LET left == {k \in DOMAIN related : related[k].epic # e}
       IN  \E n \in 0..Len(related) : \E ids \in Bijection(1..n, left) :
               /\ \A i, j \in DOMAIN ids : i < j => ids[i] < ids[j]
               /\ related' = [i \in DOMAIN ids |-> related[ids[i]]]
    /\ colour' = Synced(colour, related', {s \in Stories : \E k \in DOMAIN related :
                                              related[k].epic = e /\ related[k].story = s})
    /\ request' = NoRequest
    /\ UNCHANGED storyOf

(* PATCH of a relation's order: the save and the bulk signal synchronise    *)
(* the story before the orders of the epic's other relations are shifted,   *)
(* which waits for the commit.                                              *)
Reorder(k, o) ==
    LET saved == [related EXCEPT ![k].order = o]
    IN  /\ related[k].order # o
        /\ colour' = Synced(colour, saved, {related[k].story})
        /\ related' = [m \in DOMAIN saved |->
                          IF m # k /\ saved[m].epic = saved[k].epic /\ saved[m].order >= o
                          THEN [saved[m] EXCEPT !.order = @ + 1] ELSE saved[m]]
        /\ \A m \in DOMAIN related' : related'[m].order <= MaxOrder
        /\ request' = <<"reorder", related[k].story>>
        /\ UNCHANGED storyOf

ColoursNext ==
    \/ \E e \in Epics, c \in Shades : ColourEpic(e, c)
    \/ \E s \in Stories, c \in Shades : ColourStory(s, c)
    \/ \E t \in Tasks, c \in Shades : ColourTask(t, c)
    \/ \E s \in Stories : SaveStory(s)
    \/ \E t \in Tasks, u \in Stories \cup {NoStory} : SaveTask(t, u)
    \/ \E e \in Epics, s \in Stories, o \in 0..MaxOrder : Relate(e, s, o)
    \/ \E k \in DOMAIN related : Unrelate(k)
    \/ \E e \in Epics : DeleteEpic(e)
    \/ \E k \in DOMAIN related, o \in 0..MaxOrder : Reorder(k, o)

ColoursSpec == ColoursInit /\ [][ColoursNext]_colourVars

---------------------------------------------------------------------------
ColoursTypeOK ==
    /\ colour \in [Epics \cup Stories \cup Tasks -> Shades \cup {NoColour}]
    /\ \A e \in Epics : colour[e] \in Shades
    /\ related \in Seq([epic : Epics, story : Stories, order : 0..MaxOrder])
    /\ Len(related) <= MaxRelated
    /\ storyOf \in [Tasks -> Stories \cup {NoStory}]

(* And nobody relates a story to one epic twice.                            *)
ColoursInv ==
    /\ ColoursTypeOK
    /\ \A k, m \in DOMAIN related :
           related[k].epic = related[m].epic /\ related[k].story = related[m].story => k = m

(* A story with an epic, and every task of it, have its first epic's colour *)
Coloured(s) ==
    Inherited(colour, related, s) # NoColour =>
        \A i \in {s} \cup TasksOf(s) : colour[i] = Inherited(colour, related, s)

(* No request leaves a story or its tasks in another colour than the first  *)
(* epic's, except a reorder that shifts the relation of another story after *)
(* the colours were synchronised.                                           *)
OnlyReorderLosesColour ==
    \A s \in Stories : Coloured(s) =>
        \/ Coloured(s)'
        \/ request'[1] = "reorder" /\ request'[2] # s

(* What a client chose for a story or task outside of any epic stays until  *)
(* a request on that item or on its story's epics.                          *)
ChosenColourStays ==
    \A s \in Stories :
        Inherited(colour, related, s) = NoColour /\ Inherited(colour, related, s)' = NoColour =>
            \A i \in {s} \cup (TasksOf(s) \cap TasksOf(s)') :
                colour'[i] = colour[i] \/ request' = <<"colour", i>>

=============================================================================
