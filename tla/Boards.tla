------------------------------- MODULE Boards -------------------------------
(* The order of user stories on the kanban, the backlog and the sprints:    *)
(* drops of several stories, which are not one transaction                  *)
(* (userstories/services.py), the orders a save or a bulk move gives        *)
(* (apply_order_updates of projects/services/bulk_update_order.py), and the *)
(* deletion of what a cell stands for (projects/mixins/on_destroy.py).      *)
EXTENDS Integers, Sequences, FiniteSets, SequencesExt

CONSTANTS Stories,   \* ids of user stories
          Lanes,     \* swimlanes, or sprints
          None,      \* no swimlane, or the backlog
          Droppers,  \* request handlers
          Starts,    \* where the stories may be at first
          Bulks,     \* the stories clients drop together
          Positions, \* the orders clients give
          Gap,       \* at least the microseconds between two new orders
          MaxAsks    \* bound on requests

(* Clients drop different stories (validate_bulk_userstories).              *)
BoardsAssumption ==
    /\ Stories \subseteq Nat /\ IsFiniteSet(Stories)
    /\ None \notin Lanes /\ Gap \in Nat \ {0} /\ MaxAsks \in Nat
    /\ Positions \subseteq Nat
    /\ Starts \subseteq [Stories -> Lanes \cup {None}]
    /\ \A moved \in Bulks : moved \in Seq(Stories) /\ moved # <<>> /\ IsInjective(moved)

VARIABLES
    view,   \* the board: "kanban" or "backlog"
    place,  \* the cell of every story
    order,  \* per order column, the order of every story
    drops,  \* the drop each handler is at
    asked,  \* the stories the last request or step moves
    asks    \* number of requests so far

boardVars == <<view, place, order, drops, asked, asks>>

Cells == Lanes \cup {None}
Columns == {"board", "sprint"}  \* kanban_order or backlog_order, sprint_order

(* order_param *)
Column(c) == IF view = "backlog" /\ c # None THEN "sprint" ELSE "board"

InCell(c) == {s \in Stories : place[s] = c}

Earlier(ord, s, t) == ord[s] < ord[t] \/ (ord[s] = ord[t] /\ s < t)

(* ORDER BY order, id: a story is at the place that k - 1 others come before *)
Sorted(ord, S) ==
    [k \in 1..Cardinality(S) |->
        CHOOSE s \in S : Cardinality({t \in S : Earlier(ord, t, s)}) = k - 1]

NoDrop == [pc |-> "idle", moved |-> <<>>, to |-> None, side |-> "first", anchor |-> 0,
           plan |-> <<>>, crossed |-> FALSE]

Busy == {h \in Droppers : drops[h].pc # "idle"}

Touched(d) == DOMAIN d.plan \cup {d.anchor}

(* crossed (history variable): a request came before the drop ended that    *)
(* moves one of the drop's stories or one of those it renumbers, or another *)
(* story into the cell; or another drop was still to number a story of it.  *)
Crosses(h, S, c) == h \in Busy /\ (drops[h].to = c \/ Touched(drops[h]) \cap S # {})

Crossed(S, c) ==
    [h \in Droppers |-> IF Crosses(h, S, c) THEN [drops[h] EXCEPT !.crossed = TRUE]
                        ELSE drops[h]]

Ask(S) ==
    /\ asks < MaxAsks
    /\ asks' = asks + 1
    /\ asked' = S
    /\ UNCHANGED view

(* timestamp_mics *)
Now(n) == Gap * (Cardinality(Stories) + n)

BoardsInit ==
    /\ view \in {"kanban", "backlog"}
    /\ place \in Starts
    /\ order = [k \in Columns |-> [s \in Stories |->
                   Cardinality({t \in Stories : t <= s})]]
    /\ drops = [h \in Droppers |-> NoDrop]
    /\ asked = {}
    /\ asks = 0

(* Mutant: the story at the place of the drop stays.                        *)
DisplacedBehind(moved, to, side, anchor) ==
    {s \in InCell(to) \ Range(moved) :
        side = "first" \/ order[Column(to)][s] > order[Column(to)][anchor]}

(* The stories of the cell that come after the place of the drop            *)
Displaced(moved, to, side, anchor) ==
    {s \in InCell(to) \ Range(moved) :
        \/ side = "first"
        \/ order[Column(to)][s] >= order[Column(to)][anchor] /\ (side = "after" => s # anchor)}

FirstOrder(to, side, anchor) ==
    CASE side = "first"  -> 1
      [] side = "before" -> order[Column(to)][anchor]
      [] side = "after"  -> order[Column(to)][anchor] + 1

(* The moved stories and then the displaced ones, numbered in a row         *)
Plan(moved, to, side, anchor) ==
    LET ids == moved \o Sorted(order[Column(to)], Displaced(moved, to, side, anchor))
    IN  [s \in Range(ids) |-> FirstOrder(to, side, anchor)
                              + (CHOOSE i \in DOMAIN ids : ids[i] = s) - 1]

(* update_userstories_kanban_order_in_bulk,                                 *)
(* update_userstories_backlog_or_sprint_order_in_bulk: the stories and      *)
(* their orders are read ...                                                *)
StartDrop(h, moved, to, side, anchor) ==
    LET plan == Plan(moved, to, side, anchor)
        touched == DOMAIN plan \cup {anchor}
        meets(g) == Crosses(g, touched, to)
        takes(g) == Range(moved) \cap InCell(drops[g].to) # {}
        gives(g) == drops[g].pc = "read" /\ DOMAIN drops[g].plan \cap InCell(to) # {}
    IN  /\ h \notin Busy
        /\ IF side = "first" THEN anchor = moved[1] ELSE anchor \in InCell(to)
        /\ Ask(Range(moved))
        /\ drops' = [g \in Droppers |->
               IF g = h
               THEN [pc |-> "read", moved |-> moved, to |-> to, side |-> side,
                     anchor |-> anchor, plan |-> plan,
                     crossed |-> \E f \in Busy : meets(f) \/ gives(f)]
               ELSE IF g \in Busy /\ (meets(g) \/ takes(g))
               THEN [drops[g] EXCEPT !.crossed = TRUE]
               ELSE drops[g]]
        /\ UNCHANGED <<place, order>>

(* ... the orders are written ...                                           *)
NumberDrop(h) ==
    /\ drops[h].pc = "read"
    /\ order' = [order EXCEPT ![Column(drops[h].to)] =
                    [s \in Stories |-> IF s \in DOMAIN drops[h].plan THEN drops[h].plan[s]
                                       ELSE @[s]]]
    /\ drops' = [drops EXCEPT ![h].pc = "numbered"]
    /\ asked' = Range(drops[h].moved)
    /\ UNCHANGED <<view, place, asks>>

(* ... and the stories are put into the cell.                               *)
PlaceDrop(h) ==
    /\ drops[h].pc = "numbered"
    /\ place' = [s \in Stories |-> IF s \in Range(drops[h].moved) THEN drops[h].to
                                   ELSE place[s]]
    /\ drops' = [drops EXCEPT ![h] = NoDrop]
    /\ asked' = Range(drops[h].moved)
    /\ UNCHANGED <<view, order, asks>>

(* Mutant: the story at the position stays.                                 *)
ShiftedBehind(ord, s, o) ==
    [t \in DOMAIN ord |->
        IF ord[t] > o /\ (o >= ord[s] \/ ord[t] < ord[s]) THEN ord[t] + 1 ELSE ord[t]]

(* Mutant: only the story at the position makes room.                       *)
ShiftedOne(ord, s, o) ==
    [t \in DOMAIN ord |-> IF ord[t] = o THEN ord[t] + 1 ELSE ord[t]]

(* One turn of apply_order_updates: story s is to be at position o.         *)
Shifted(ord, s, o) ==
    [t \in DOMAIN ord |->
        IF ord[t] >= o /\ (o >= ord[s] \/ ord[t] < ord[s]) THEN ord[t] + 1 ELSE ord[t]]

(* apply_order_updates: the new positions in their order, and then exactly. *)
OrdersApplied(base, new) ==
    LET turn(ord, s) == Shifted(ord, s, new[s])
        shifted == FoldLeft(turn, base, Sorted(new, DOMAIN new))
    IN  [t \in DOMAIN base |-> IF t \in DOMAIN new THEN new[t] ELSE shifted[t]]

(* The orders f of some stories in a column                                 *)
Reordered(ord, f) == [s \in Stories |-> IF s \in DOMAIN f THEN f[s] ELSE ord[s]]

Among(ord, S) == [s \in S |-> ord[s]]

Set(f, s, v) == [f EXCEPT ![s] = v]

(* A save puts a story into another cell of the kanban: it comes last.      *)
MoveOnKanban(s, c) ==
    /\ view = "kanban" /\ c # place[s]
    /\ Ask({s})
    /\ place' = Set(place, s, c)
    /\ order' = [order EXCEPT !["board"] = Set(@, s, Now(asks'))]
    /\ drops' = Crossed({s}, c)

(* A save of a story with another sprint or other orders (b, p): the        *)
(* stories of the project are shifted in the backlog, and those of the      *)
(* sprint, if there is one, in the sprint.                                  *)
MoveOnBacklog(s, c, b, p) ==
    LET saved == [board |-> Set(order["board"], s, b), sprint |-> Set(order["sprint"], s, p)]
        mates == IF c = None THEN Stories ELSE InCell(c) \cup {s}
    IN  /\ view = "backlog"
        /\ Ask({s})
        /\ place' = Set(place, s, c)
        /\ order' = [board |-> IF b = order["board"][s] THEN saved.board
                               ELSE OrdersApplied(saved.board, [t \in {s} |-> b]),
                     sprint |-> IF c = place[s] /\ p = order["sprint"][s] THEN saved.sprint
                                ELSE Reordered(saved.sprint,
                                         OrdersApplied(Among(saved.sprint, mates),
                                                       [t \in {s} |-> p]))]
        /\ drops' = Crossed(Stories, c)

(* update_userstories_milestone_in_bulk, with the positions new             *)
MoveToSprint(new, m) ==
    LET base == Reordered(order["sprint"], new)
    IN  /\ view = "backlog" /\ m # None
        /\ Ask(DOMAIN new)
        /\ place' = [s \in Stories |-> IF s \in DOMAIN new THEN m ELSE place[s]]
        /\ order' = [order EXCEPT !["sprint"] =
               Reordered(@, OrdersApplied(Among(base, InCell(m) \cup DOMAIN new), new))]
        /\ drops' = Crossed(InCell(m) \cup DOMAIN new, m)

(* A swimlane is deleted and its stories go to another, after the stories   *)
(* there: all stories are numbered anew, swimlane by swimlane. Another one  *)
(* is created in its place.                                                 *)
DeleteSwimlane(l, to, rank) ==
    LET lane(s) == IF place[s] = l THEN to ELSE place[s]
        at(s) == IF lane(s) = None THEN 0 ELSE rank[lane(s)]
        precedes(s, t) ==
            \/ at(s) < at(t)
            \/ at(s) = at(t) /\ place[s] # l /\ place[t] = l
            \/ /\ at(s) = at(t) /\ (place[s] = l <=> place[t] = l)
               /\ Earlier(order["board"], s, t)
    IN  /\ view = "kanban" /\ l # to
        /\ Ask(InCell(l))
        /\ place' = [s \in Stories |-> lane(s)]
        /\ order' = [order EXCEPT !["board"] =
               [t \in Stories |-> Cardinality({s \in Stories : precedes(s, t)})]]
        /\ drops' = Crossed(Stories, to)

(* A status is deleted and its stories go to another, in their order and    *)
(* after all that were there (move_on_destroy_reorder_after_moved).         *)
DeleteStatus(c, to) ==
    LET ids == Sorted(order["board"], InCell(c))
    IN  /\ view = "kanban" /\ c # to
        /\ Ask(InCell(c))
        /\ place' = [s \in Stories |-> IF place[s] = c THEN to ELSE place[s]]
        /\ order' = [order EXCEPT !["board"] =
               Reordered(@, [s \in Range(ids) |->
                                Now(asks') + (CHOOSE i \in DOMAIN ids : ids[i] = s) - 1])]
        /\ drops' = Crossed(InCell(c), to)

(* A sprint is deleted: its stories are in the backlog again, where they    *)
(* were before.                                                             *)
DeleteSprint(m) ==
    /\ view = "backlog"
    /\ Ask(InCell(m))
    /\ place' = [s \in Stories |-> IF place[s] = m THEN None ELSE place[s]]
    /\ drops' = Crossed(InCell(m), None)
    /\ UNCHANGED order

BoardsNext ==
    \/ \E h \in Droppers :
          \/ \E moved \in Bulks, to \in Cells, side \in {"first", "before", "after"},
                anchor \in Stories : StartDrop(h, moved, to, side, anchor)
          \/ NumberDrop(h)
          \/ PlaceDrop(h)
    \/ \E s \in Stories, c \in Cells :
          \/ MoveOnKanban(s, c)
          \/ \E b \in Positions \cup {order["board"][s]},
                p \in Positions \cup {order["sprint"][s]} : MoveOnBacklog(s, c, b, p)
    \/ \E S \in SUBSET Stories, m \in Lanes :
          \E new \in [S -> Positions] : IsInjective(new) /\ MoveToSprint(new, m)
    \/ \E l \in Lanes, to \in Lanes :
          \E rank \in Injection(Lanes \ {l}, 1..(Cardinality(Lanes) - 1)) :
              DeleteSwimlane(l, to, rank)
    \/ \E c \in Cells, to \in Cells : DeleteStatus(c, to)
    \/ \E m \in Lanes : DeleteSprint(m)

BoardsSpec == BoardsInit /\ [][BoardsNext]_boardVars

---------------------------------------------------------------------------
BoardsTypeOK ==
    /\ view \in {"kanban", "backlog"}
    /\ place \in [Stories -> Cells]
    /\ order \in [Columns -> [Stories -> Nat]]
    /\ asks \in 0..MaxAsks

(* A drop that has read keeps the plan it made: the stories it moves are    *)
(* numbered in a row, before those they displace, and only stories with the *)
(* order of the anchor and a smaller id are put before it.                  *)
DropPlanned(d) ==
    LET own == Range(d.moved)
        first == d.plan[d.moved[1]]
        displaced == DOMAIN d.plan \ own
    IN  /\ d.moved \in Bulks
        /\ d.anchor \in Stories
        /\ own \subseteq DOMAIN d.plan
        /\ \A j \in 1..Len(d.moved) : d.plan[d.moved[j]] = first + j - 1
        /\ \A s \in displaced : d.plan[s] >= first + Len(d.moved)
        /\ d.side = "before" /\ d.anchor \notin own =>
               /\ d.anchor \in displaced
               /\ \A s \in displaced : d.plan[s] < d.plan[d.anchor] => s < d.anchor
        /\ d.side = "after" /\ d.anchor \notin own => d.anchor \notin DOMAIN d.plan

(* The cell of a drop is as it was read.                                    *)
DropStands(d) ==
    LET ord == order[Column(d.to)]
        own == Range(d.moved)
        displaced == DOMAIN d.plan \ own
        rest == InCell(d.to) \ DOMAIN d.plan
    IN  /\ displaced \subseteq InCell(d.to)
        /\ \A s \in rest : ord[s] < d.plan[d.moved[1]]
        /\ d.side = "first" => rest = {}
        /\ d.side # "first" /\ d.anchor \notin own => d.anchor \in InCell(d.to)
        /\ d.side = "after" /\ d.anchor \notin own =>
               \A s \in rest \ {d.anchor} : ord[s] < ord[d.anchor]
        /\ d.pc = "read" =>
               /\ \A s, t \in displaced : ord[s] < ord[t] => d.plan[s] < d.plan[t]
               /\ \A s \in rest, t \in displaced : ord[s] <= ord[t]
        /\ d.pc = "numbered" => \A s \in DOMAIN d.plan : ord[s] = d.plan[s]

(* Drop e does not meet what d relies on.                                   *)
DropsApart(d, e) ==
    /\ d.to # e.to
    /\ Touched(d) \cap Touched(e) = {}
    /\ e.pc = "read" => DOMAIN e.plan \cap InCell(d.to) = {}

DropShape(d) ==
    /\ d = [pc |-> d.pc, moved |-> d.moved, to |-> d.to, side |-> d.side,
            anchor |-> d.anchor, plan |-> d.plan, crossed |-> d.crossed]
    /\ d.pc \in {"idle", "read", "numbered"} /\ d.to \in Cells
    /\ d.side \in {"first", "before", "after"} /\ d.crossed \in BOOLEAN
    /\ DOMAIN d.plan \subseteq Stories /\ d.plan \in [DOMAIN d.plan -> Nat]

DropsInv ==
    \A h \in Busy :
        /\ DropPlanned(drops[h])
        /\ ~drops[h].crossed =>
               /\ DropStands(drops[h])
               /\ \A g \in Busy \ {h} : DropsApart(drops[h], drops[g])

BoardsInv ==
    /\ BoardsTypeOK
    /\ drops = [h \in Droppers |-> drops[h]]
    /\ \A h \in Droppers : DropShape(drops[h])
    /\ DropsInv

(* The stories of the drop d are together from place i of the cell: first,  *)
(* or just after the story they were dropped after, or before the other,    *)
(* with at most stories in between that had its order and a smaller id.     *)
LandedAt(i, cell, d) ==
    /\ SubSeq(cell, i, i + Len(d.moved) - 1) = d.moved
    /\ \/ d.side = "first" /\ i = 1
       \/ d.side = "after" /\ i > 1 /\ cell[i - 1] = d.anchor
       \/ d.side = "before" /\ \E k \in (i + Len(d.moved))..Len(cell) :
              /\ cell[k] = d.anchor
              /\ \A j \in (i + Len(d.moved))..(k - 1) : cell[j] < d.anchor
       \/ d.side # "first" /\ d.anchor \in Range(d.moved)

(* A drop that no other request crosses leaves its stories one after the    *)
(* other in the cell, where they were dropped.                              *)
DropsLandTogether ==
    \A h \in Droppers :
        LET d == drops[h]
            cell == Sorted(order[Column(d.to)], {s \in Stories : place'[s] = d.to})
        IN  d.pc = "numbered" /\ drops'[h] = NoDrop /\ ~d.crossed =>
            \E i \in DOMAIN cell : LandedAt(i, cell, d)

(* No story shares the place in a backlog or sprint that a save or a move   *)
(* to a sprint gives to another.                                            *)
PlacesGivenAreFree ==
    view = "backlog" /\ asks' # asks =>
        \A s \in asked', t \in Stories \ asked' :
            LET col == Column(place'[s])
            IN  place'[s] = place'[t] /\ order'[col] # order[col] =>
                    order'[col][s] # order'[col][t]

(* Two stories of one cell that no request moves keep their order, except   *)
(* that drops which cross each other write orders of two readings, and that *)
(* several stories moved to a sprint at once can push two of it together.   *)
BystandersKeepTheirOrder ==
    \A s, t \in Stories :
        LET col == Column(place[s])
        IN  /\ place[s] = place[t] /\ place'[s] = place[s] /\ place'[t] = place[t]
            /\ {s, t} \cap asked' = {}
            /\ order[col][s] < order[col][t]
            => \/ order'[col][s] < order'[col][t]
               \/ \E h \in Droppers : drops[h].crossed /\ drops'[h].pc = "numbered"
               \/ view = "backlog" /\ asks' # asks /\ Cardinality(asked') > 1

=============================================================================
