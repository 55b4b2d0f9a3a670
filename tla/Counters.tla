------------------------------ MODULE Counters ------------------------------
(* The votes of one item (projects/votes/services.py), which keep a counter *)
(* beside their rows, and the likes of one project (projects/likes and      *)
(* refresh_totals of projects/models.py), which are counted anew: requests  *)
(* as transactions of PostgreSQL at READ COMMITTED, statement by statement. *)
EXTENDS Integers, FiniteSets

CONSTANTS Handlers,   \* request handlers
          Users,
          MaxMisses,  \* bound on removals that delete nothing
          Free        \* nobody holds the lock

CountersAssumption == MaxMisses \in Nat /\ Free \notin Handlers

VARIABLES
    votes,    \* committed: [rows, count]; misses (history variable): removals
              \* that decremented the counter and deleted no row
    likes,    \* committed: [rows, fans]
    tx,       \* what each handler does
    voteLock, \* holder of the advisory lock of the item's votes
    rowLock   \* per table, the transaction that holds the row of the counter

counterVars == <<votes, likes, tx, voteLock, rowLock>>

Tables == {"votes", "likes"}

(* crossed (history variable): another like was under way meanwhile         *)
Idle == [pc |-> "idle", table |-> "votes", add |-> FALSE, user |-> Free, changed |-> FALSE,
         total |-> 0, crossed |-> FALSE]

CountersInit ==
    /\ votes = [rows |-> {}, count |-> 0, misses |-> 0]
    /\ likes = [rows |-> {}, fans |-> 0]
    /\ tx = [h \in Handlers |-> Idle]
    /\ voteLock = Free
    /\ rowLock = [k \in Tables |-> Free]

Rows(table) == IF table = "votes" THEN votes.rows ELSE likes.rows

Others(h) == {g \in Handlers \ {h} : tx[g].pc # "idle" /\ tx[g].table = tx[h].table}

(* Another transaction has written the user's row and not ended.            *)
RowInDoubt(h) ==
    \E g \in Others(h) : tx[g].user = tx[h].user /\ tx[g].changed

Goto(h, pc) == tx' = [tx EXCEPT ![h].pc = pc]

Changes(h, pc, changed) == tx' = [tx EXCEPT ![h].pc = pc, ![h].changed = changed]

End(h) == tx' = [tx EXCEPT ![h] = Idle]

StartVote(h, u, add) ==
    /\ tx[h].pc = "idle"
    /\ tx' = [tx EXCEPT ![h] = [Idle EXCEPT !.pc = "lock", !.add = add, !.user = u]]
    /\ UNCHANGED <<votes, likes, voteLock, rowLock>>

StartLike(h, u, add) ==
    LET busy == {g \in Handlers : tx[g].pc # "idle" /\ tx[g].table = "likes"}
    IN  /\ tx[h].pc = "idle"
        /\ tx' = [g \in Handlers |->
                     IF g = h THEN [Idle EXCEPT !.pc = IF add THEN "write" ELSE "exists",
                                                !.table = "likes", !.add = add,
                                                !.user = u, !.crossed = busy # {}]
                     ELSE IF g \in busy THEN [tx[g] EXCEPT !.crossed = TRUE] ELSE tx[g]]
        /\ UNCHANGED <<votes, likes, voteLock, rowLock>>

TakeLock(h) ==
    /\ tx[h].pc = "lock"
    /\ voteLock = Free
    /\ voteLock' = h
    /\ Goto(h, IF tx[h].add THEN "write" ELSE "exists")
    /\ UNCHANGED <<votes, likes, rowLock>>

(* A removal looks for the row first, that of a vote under the lock, which  *)
(* it then leaves.                                                          *)
LookUp(h) ==
    /\ tx[h].pc = "exists"
    /\ voteLock' = IF voteLock = h THEN Free ELSE voteLock
    /\ IF tx[h].user \in Rows(tx[h].table) THEN Goto(h, "write") ELSE End(h)
    /\ UNCHANGED <<votes, likes, rowLock>>

(* Mutant: a second vote of one user is counted.                            *)
InsertAgain(h) ==
    /\ tx[h].pc = "write" /\ tx[h].add
    /\ ~RowInDoubt(h)
    /\ Changes(h, "total", TRUE)
    /\ UNCHANGED <<votes, likes, voteLock, rowLock>>

(* get_or_create of the row: a committed one is found, an insertion waits   *)
(* for the other transaction that inserts the same.                         *)
Insert(h) ==
    /\ tx[h].pc = "write" /\ tx[h].add
    /\ IF tx[h].user \in Rows(tx[h].table)
       THEN IF tx[h].table = "votes" THEN End(h) /\ voteLock' = Free
            ELSE Goto(h, "total") /\ UNCHANGED voteLock
       ELSE ~RowInDoubt(h) /\ Changes(h, "total", TRUE) /\ UNCHANGED voteLock
    /\ UNCHANGED <<votes, likes, rowLock>>

(* The deletion waits for one of the same row and then finds nothing.       *)
Delete(h) ==
    /\ tx[h].pc = "write" /\ ~tx[h].add
    /\ ~RowInDoubt(h)
    /\ Changes(h, "total", tx[h].user \in Rows(tx[h].table))
    /\ UNCHANGED <<votes, likes, voteLock, rowLock>>

(* Mutant: the counter may fall below zero.                                 *)
UpdateCountUnchecked(h) ==
    /\ tx[h].pc = "total" /\ tx[h].table = "votes"
    /\ rowLock["votes"] = Free
    /\ rowLock' = [rowLock EXCEPT !["votes"] = h]
    /\ tx' = [tx EXCEPT ![h].pc = "commit",
                        ![h].total = votes.count + (IF tx[h].add THEN 1 ELSE -1)]
    /\ voteLock' = IF voteLock = h THEN Free ELSE voteLock
    /\ UNCHANGED <<votes, likes>>

(* count = count + 1 or - 1 in the database, which holds the row of the     *)
(* counter until the end; below zero the statement and the request fail.    *)
UpdateCount(h) ==
    /\ tx[h].pc = "total" /\ tx[h].table = "votes"
    /\ rowLock["votes"] = Free
    /\ IF tx[h].add \/ votes.count > 0
       THEN /\ rowLock' = [rowLock EXCEPT !["votes"] = h]
            /\ tx' = [tx EXCEPT ![h].pc = "commit",
                                ![h].total = votes.count + (IF tx[h].add THEN 1 ELSE -1)]
       ELSE End(h) /\ UNCHANGED rowLock
    /\ voteLock' = IF voteLock = h THEN Free ELSE voteLock
    /\ UNCHANGED <<votes, likes>>

RowsAfter(h) ==
    IF ~tx[h].changed THEN Rows(tx[h].table)
    ELSE IF tx[h].add THEN Rows(tx[h].table) \cup {tx[h].user}
    ELSE Rows(tx[h].table) \ {tx[h].user}

(* Mutant: the rows are counted as they were before the request.            *)
CountFansBefore(h) ==
    /\ tx[h].pc = "total" /\ tx[h].table = "likes"
    /\ tx' = [tx EXCEPT ![h].pc = "save", ![h].total = Cardinality(likes.rows)]
    /\ UNCHANGED <<votes, likes, voteLock, rowLock>>

(* refresh_totals counts the rows this transaction can see ...              *)
CountFans(h) ==
    /\ tx[h].pc = "total" /\ tx[h].table = "likes"
    /\ tx' = [tx EXCEPT ![h].pc = "save", ![h].total = Cardinality(RowsAfter(h))]
    /\ UNCHANGED <<votes, likes, voteLock, rowLock>>

(* ... and saves the number in the project's row.                           *)
SaveFans(h) ==
    /\ tx[h].pc = "save"
    /\ rowLock["likes"] = Free
    /\ rowLock' = [rowLock EXCEPT !["likes"] = h]
    /\ Goto(h, "commit")
    /\ UNCHANGED <<votes, likes, voteLock>>

Commit(h) ==
    /\ tx[h].pc = "commit"
    /\ IF tx[h].table = "votes"
       THEN /\ votes' = [rows |-> RowsAfter(h), count |-> tx[h].total,
                         misses |-> votes.misses + (IF tx[h].changed THEN 0 ELSE 1)]
            /\ votes'.misses <= MaxMisses
            /\ UNCHANGED likes
       ELSE likes' = [rows |-> RowsAfter(h), fans |-> tx[h].total] /\ UNCHANGED votes
    /\ rowLock' = [rowLock EXCEPT ![tx[h].table] = Free]
    /\ End(h)
    /\ UNCHANGED voteLock

CountersNext ==
    \E h \in Handlers :
        \/ \E u \in Users, add \in BOOLEAN : StartVote(h, u, add) \/ StartLike(h, u, add)
        \/ TakeLock(h) \/ LookUp(h) \/ Insert(h) \/ Delete(h)
        \/ UpdateCount(h) \/ CountFans(h) \/ SaveFans(h) \/ Commit(h)

CountersSpec == CountersInit /\ [][CountersNext]_counterVars

---------------------------------------------------------------------------
CountersTypeOK ==
    /\ votes.rows \subseteq Users /\ votes.count \in Nat /\ votes.misses \in 0..MaxMisses
    /\ likes.rows \subseteq Users /\ likes.fans \in 0..Cardinality(Users)
    /\ voteLock \in Handlers \cup {Free}
    /\ rowLock \in [Tables -> Handlers \cup {Free}]

(* The counter of votes is the number of votes, less one for every removal  *)
(* that waited for another of the same vote and found nothing to delete:    *)
(* adding is idempotent however the requests overlap, removing is not.      *)
OnlyRacedRemovalsMiscount ==
    votes.count + votes.misses = Cardinality(votes.rows)

(* A like that no other overlaps leaves the right number of fans, whatever  *)
(* number earlier ones left.                                                *)
FansRecounted ==
    \A h \in Handlers :
        tx[h].pc = "commit" /\ tx[h].table = "likes" /\ ~tx[h].crossed /\ tx'[h].pc = "idle" =>
            likes'.fans = Cardinality(likes'.rows)

(* The inductive invariant behind both (module BackendProofs): a            *)
(* transaction that has written a user's row is the only one, and the row   *)
(* is there just when it deletes; what it will commit as the counter counts *)
(* on from the committed one, whose row it holds; and a like that no other  *)
(* crossed is alone.                                                        *)
Transaction ==
    [pc : {"idle", "lock", "exists", "write", "total", "save", "commit"},
     table : Tables, add : BOOLEAN, user : Users \cup {Free}, changed : BOOLEAN,
     total : Int, crossed : BOOLEAN]

RequestInv(h) ==
    /\ tx[h].pc = "commit" => rowLock[tx[h].table] = h
    /\ tx[h].pc = "commit" /\ tx[h].table = "votes" =>
          tx[h].total = votes.count + (IF tx[h].add THEN 1 ELSE -1)
    /\ tx[h].pc \in {"total", "commit"} /\ tx[h].table = "votes" /\ tx[h].add => tx[h].changed
    /\ tx[h].pc = "save" => tx[h].table = "likes"
    /\ tx[h].changed =>
          /\ tx[h].pc \in {"total", "save", "commit"}
          /\ tx[h].user \in Rows(tx[h].table) <=> ~tx[h].add
    /\ tx[h].pc \in {"save", "commit"} /\ tx[h].table = "likes" /\ ~tx[h].crossed =>
          tx[h].total = Cardinality(RowsAfter(h))

Apart(g, h) ==
    tx[g].table = tx[h].table =>
        /\ tx[g].changed /\ tx[h].changed => tx[g].user # tx[h].user
        /\ tx[g].pc # "idle" /\ tx[h].pc # "idle" /\ tx[h].table = "likes" =>
              tx[g].crossed /\ tx[h].crossed

CountersInv ==
    /\ votes.count \in Int /\ votes.misses \in Int /\ IsFiniteSet(votes.rows)
    /\ IsFiniteSet(likes.rows)
    /\ OnlyRacedRemovalsMiscount
    /\ tx \in [Handlers -> Transaction]
    /\ rowLock \in [Tables -> Handlers \cup {Free}]
    /\ \A h \in Handlers : RequestInv(h)
    /\ \A g, h \in Handlers : g # h => Apart(g, h)

=============================================================================
