------------------------------- MODULE Edits -------------------------------
(* Concurrent updates of one item (epic, story, task, issue): the version   *)
(* check of projects/occ/mixins.py against the history, the advisory lock   *)
(* of base/decorators.py inside the transaction of base/api/mixins.py, and  *)
(* the history entry of projects/history/services.py.                       *)
EXTENDS Integers, Sequences, FiniteSets, SequencesExt

CONSTANTS Handlers,  \* request handlers
          Fields,    \* fields a client can edit
          MaxEdits,  \* bound: requests in a behaviour
          Free       \* nobody holds the lock

EditsAssumption == MaxEdits \in Nat /\ Free \notin Handlers

VARIABLES
    item,     \* the committed row: its version and, per field, the edit that wrote it
    entries,  \* the committed history, oldest first: [diff, edit]; edit 0 is no versioned one
    upd,      \* what each handler does
    seen,     \* what the client of each handler saw last
    pkLock,   \* holder of the advisory lock of model_pk_lock
    writer,   \* transaction that holds the lock of the row
    edits     \* number of requests so far

editVars == <<item, entries, upd, seen, pkLock, writer, edits>>

NoVal == [f \in Fields |-> 0]

Idle == [pc |-> "idle", id |-> 0, named |-> {}, comment |-> FALSE, copy |-> NoVal,
         late |-> {}, version |-> 0, diff |-> <<>>, at |-> 0]

LastEntry(f) ==
    SelectLastInSeq(entries, LAMBDA e : f \in DOMAIN e.diff)

(* get_last_snapshot_for_key: the row as the history tells it, every field  *)
(* as in the last entry that has it.                                        *)
Rebuilt ==
    [f \in Fields |-> IF LastEntry(f) = 0 THEN 0 ELSE entries[LastEntry(f)].diff[f]]

(* make_diff between the history and the row a snapshot is taken of.        *)
Diff(val) ==
    LET old == Rebuilt IN [f \in {g \in Fields : val[g] # old[g]} |-> val[f]]

(* Mutant: misses the oldest entry since the client looked.                 *)
ModifiedFieldsTooFew(n) ==
    UNION {DOMAIN entries[i].diff : i \in {k \in 1..Len(entries) : k > Len(entries) - n + 1}}

(* get_modified_fields: the fields of the last n entries.                   *)
ModifiedFields(n) ==
    UNION {DOMAIN entries[i].diff : i \in {k \in 1..Len(entries) : k > Len(entries) - n}}

Pc(h) == upd[h].pc

EditsInit ==
    /\ item = [version |-> 1, val |-> NoVal]
    /\ entries = <<>>
    /\ upd = [h \in Handlers |-> Idle]
    /\ seen = [h \in Handlers |-> [version |-> 1, val |-> NoVal]]
    /\ pkLock = Free
    /\ writer = Free
    /\ edits = 0

(* A client loads the item.                                                 *)
Fetch(h) ==
    /\ Pc(h) = "idle"
    /\ seen' = [seen EXCEPT ![h] = item]
    /\ UNCHANGED <<item, entries, upd, pkLock, writer, edits>>

(* The viewset reads the row before it enters update, which opens the       *)
(* transaction and takes the lock. A comment alone names no field.          *)
Read(h, named, comment) ==
    /\ Pc(h) = "idle"
    /\ edits < MaxEdits
    /\ edits' = edits + 1
    /\ upd' = [upd EXCEPT ![h] = [Idle EXCEPT !.pc = "read", !.id = edits + 1,
                                  !.named = named, !.comment = comment, !.copy = item.val]]
    /\ UNCHANGED <<item, entries, seen, pkLock, writer>>

(* late (history variable): the edits that have released the lock while     *)
(* their transaction is still open.                                         *)
Lock(h) ==
    /\ Pc(h) = "read"
    /\ pkLock = Free
    /\ pkLock' = h
    /\ upd' = [upd EXCEPT ![h].pc = "locked",
                          ![h].late = {upd[g].id : g \in {k \in Handlers : Pc(k) = "unlocked"}}]
    /\ UNCHANGED <<item, entries, seen, writer, edits>>

(* _validate_and_update_version: the fields named are compared with those   *)
(* of as many entries as there are versions in between.                     *)
Conflict(h) ==
    upd[h].named \cap ModifiedFields(item.version - seen[h].version) # {}

Check(h) ==
    /\ Pc(h) = "locked"
    /\ IF Conflict(h)
       THEN pkLock' = Free /\ upd' = [upd EXCEPT ![h] = Idle]
       ELSE pkLock' = pkLock /\ upd' = [upd EXCEPT ![h].pc = "checked"]
    /\ UNCHANGED <<item, entries, seen, writer, edits>>

(* Mutant: the version is counted from what the client saw.                 *)
SaveSeenVersion(h) ==
    /\ Pc(h) = "checked"
    /\ writer = Free
    /\ writer' = h
    /\ upd' = [upd EXCEPT
                 ![h].pc = "saved",
                 ![h].version = seen[h].version + 1,
                 ![h].copy = [f \in Fields |-> IF f \in upd[h].named THEN upd[h].id
                                               ELSE upd[h].copy[f]]]
    /\ UNCHANGED <<item, entries, seen, pkLock, edits>>

(* The save writes every column of the instance and version = version + 1,  *)
(* once no other transaction holds the row.                                 *)
Save(h) ==
    /\ Pc(h) = "checked"
    /\ writer = Free
    /\ writer' = h
    /\ upd' = [upd EXCEPT
                 ![h].pc = "saved",
                 ![h].version = item.version + 1,
                 ![h].copy = [f \in Fields |-> IF f \in upd[h].named THEN upd[h].id
                                               ELSE upd[h].copy[f]]]
    /\ UNCHANGED <<item, entries, seen, pkLock, edits>>

(* Mutant: the entry tells the fields of the request only.                  *)
RecordNamed(h) ==
    LET diff == Diff(upd[h].copy)
    IN  /\ Pc(h) = "saved"
        /\ upd' = [upd EXCEPT ![h].pc = "recorded", ![h].at = Len(entries),
                              ![h].diff = [f \in DOMAIN diff \cap upd[h].named |-> diff[f]]]
        /\ UNCHANGED <<item, entries, seen, pkLock, writer, edits>>

(* post_save takes the snapshot; its place in the history is now.           *)
Record(h) ==
    /\ Pc(h) = "saved"
    /\ upd' = [upd EXCEPT ![h].pc = "recorded", ![h].diff = Diff(upd[h].copy),
                          ![h].at = Len(entries)]
    /\ UNCHANGED <<item, entries, seen, pkLock, writer, edits>>

Unlock(h) ==
    /\ Pc(h) = "recorded"
    /\ pkLock' = Free
    /\ upd' = [upd EXCEPT ![h].pc = "unlocked"]
    /\ UNCHANGED <<item, entries, seen, writer, edits>>

(* No entry is made of an empty diff without a comment.                     *)
Entered(es, at, diff, kept, edit) ==
    IF diff = <<>> /\ ~kept THEN es ELSE InsertAt(es, at + 1, [diff |-> diff, edit |-> edit])

Commit(h) ==
    /\ Pc(h) = "unlocked"
    /\ item' = [version |-> upd[h].version, val |-> upd[h].copy]
    /\ entries' = Entered(entries, upd[h].at, upd[h].diff, upd[h].comment, upd[h].id)
    /\ writer' = Free
    /\ upd' = [upd EXCEPT ![h] = Idle]
    /\ seen' = [seen EXCEPT ![h] = item']
    /\ UNCHANGED <<pkLock, edits>>

(* A bulk edit updates a column and takes the snapshot afterwards, neither  *)
(* with a version nor in one transaction.                                   *)
SideWrite(h, f) ==
    /\ Pc(h) = "idle"
    /\ edits < MaxEdits
    /\ writer = Free
    /\ edits' = edits + 1
    /\ item' = [item EXCEPT !.val[f] = -(edits + 1)]
    /\ upd' = [upd EXCEPT ![h] = [Idle EXCEPT !.pc = "side"]]
    /\ UNCHANGED <<entries, seen, pkLock, writer>>

(* A snapshot after a bulk edit, or after a change of an attachment or of a *)
(* custom attribute of the item (other), which is in the diff then.         *)
SideRecord(h, other) ==
    /\ \/ Pc(h) = "side" /\ ~other /\ edits' = edits
       \/ Pc(h) = "idle" /\ other /\ edits < MaxEdits /\ edits' = edits + 1
    /\ entries' = Entered(entries, Len(entries), Diff(item.val), other, 0)
    /\ upd' = [upd EXCEPT ![h] = Idle]
    /\ UNCHANGED <<item, seen, pkLock, writer>>

EditsNext ==
    \E h \in Handlers :
        \/ Fetch(h)
        \/ \E named \in SUBSET Fields, comment \in BOOLEAN :
               (comment => named = {}) /\ Read(h, named, comment)
        \/ Lock(h)
        \/ Check(h)
        \/ Save(h)
        \/ Record(h)
        \/ Unlock(h)
        \/ Commit(h)
        \/ \E f \in Fields : SideWrite(h, f)
        \/ \E other \in BOOLEAN : SideRecord(h, other)

EditsSpec == EditsInit /\ [][EditsNext]_editVars

---------------------------------------------------------------------------
EditsTypeOK ==
    /\ item.version \in 1..(MaxEdits + 1)
    /\ item.val \in [Fields -> -MaxEdits..MaxEdits]
    /\ \A i \in DOMAIN entries : DOMAIN entries[i].diff \subseteq Fields
    /\ pkLock \in Handlers \cup {Free}
    /\ writer \in Handlers \cup {Free}
    /\ \A h \in Handlers : seen[h].version <= item.version

(* A field that a request names is overwritten without the client having    *)
(* seen its value only if a bulk edit is involved, or an entry without      *)
(* version hides the last change from the check, or that change was made by *)
(* a transaction that had released the lock but not committed when the      *)
(* request took it.                                                         *)
NamedFieldsAreChecked ==
    \A h \in Handlers : Pc(h) = "checked" /\ Pc(h)' = "saved" =>
        \A f \in upd[h].named :
            \/ item.val[f] = seen[h].val[f]
            \/ item.val[f] < 0 \/ seen[h].val[f] < 0
            \/ \E j \in LastEntry(f)..Len(entries) : entries[j].edit = 0
            \/ entries[LastEntry(f)].edit \in upd[h].late

(* When no request is running, the history ends in the values of the row,   *)
(* whatever was overwritten; only what an entry without version told last   *)
(* can be out of date, as it may come after that of a save that was under   *)
(* way.                                                                     *)
HistoryTellsTheRow ==
    (\A h \in Handlers : Pc(h) = "idle") =>
        \A f \in Fields : Rebuilt[f] = item.val[f] \/ entries[LastEntry(f)].edit = 0

(* Two saves never get one version, also when the second was checked before *)
(* the first committed.                                                     *)
EverySaveHasItsVersion ==
    \A h \in Handlers : Pc(h) = "unlocked" /\ Pc(h)' = "idle" =>
        item'.version = item.version + 1

(* The inductive invariant (module BackendProofs): EditsInv for the last    *)
(* two, and ReadersInv with it for the first.                               *)
Diffs == UNION {[F -> Int] : F \in SUBSET Fields}

Doing ==
    [pc : {"idle", "read", "locked", "checked", "saved", "recorded", "unlocked", "side"},
     id : Nat, named : SUBSET Fields, comment : BOOLEAN, copy : [Fields -> Int],
     late : SUBSET Nat, version : Int, diff : Diffs, at : Nat]

(* Entry k is the last of the first n of es that has field f.               *)
IsLast(es, k, n, f) ==
    k \in 1..n /\ f \in DOMAIN es[k].diff /\ \A j \in (k + 1)..n : f \notin DOMAIN es[j].diff

(* The first n entries end in value v of field f.                           *)
Tells(es, n, f, v) ==
    \/ v = 0 /\ \A k \in 1..n : f \notin DOMAIN es[k].diff
    \/ \E k \in 1..n : IsLast(es, k, n, f) /\ es[k].diff[f] = v

EndsUnversioned(es, f) ==
    \E k \in 1..Len(es) : IsLast(es, k, Len(es), f) /\ es[k].edit = 0

(* A save that is under way holds the row, and its entry, at its place,     *)
(* brings the history to what was saved; only entries without version come  *)
(* after.                                                                   *)
SaveInv(h) ==
    /\ Pc(h) \in {"saved", "recorded", "unlocked"} =>
          writer = h /\ upd[h].version = item.version + 1
    /\ Pc(h) \in {"recorded", "unlocked"} =>
          /\ upd[h].at <= Len(entries)
          /\ \A k \in (upd[h].at + 1)..Len(entries) : entries[k].edit = 0
          /\ \A f \in Fields :
                IF f \in DOMAIN upd[h].diff THEN upd[h].diff[f] = upd[h].copy[f]
                ELSE Tells(entries, upd[h].at, f, upd[h].copy[f])

EditsInv ==
    /\ item \in [version : Int, val : [Fields -> Int]]
    /\ entries \in Seq([diff : Diffs, edit : Int])
    /\ upd \in [Handlers -> Doing]
    /\ edits \in Nat
    /\ \A h \in Handlers : SaveInv(h)
    /\ \A f \in Fields : \/ Tells(entries, Len(entries), f, item.val[f])
                         \/ EndsUnversioned(entries, f)
                         \/ item.val[f] < 0 /\ \E h \in Handlers : Pc(h) = "side"

(* What a client saw of the item when its history had the first m entries,  *)
(* or was told by an entry without version since; n versions have been      *)
(* saved after, and the last entry with a field of fs, if it is one of      *)
(* theirs and none without version follows, was made by an edit of late.    *)
Looked(es, m, n, val, fs, late) ==
    /\ \A f \in Fields :
           \/ val[f] < 0 \/ Tells(es, m, f, val[f])
           \/ \E k \in 1..Len(es) : /\ es[k].edit = 0 /\ f \in DOMAIN es[k].diff
                                    /\ \A j \in (k + 1)..m : f \notin DOMAIN es[j].diff
    /\ \A k \in (m + 1)..Len(es) :
           (\A j \in k..Len(es) : es[j].edit # 0) =>
               /\ Len(es) - k + 1 <= n
               /\ \A f \in fs : IsLast(es, k, Len(es), f) => es[k].edit \in late

(* The advisory lock keeps those who compare versions apart; only who had   *)
(* released it before can commit between the comparison and the save.       *)
CheckInv(h) ==
    /\ Pc(h) \in {"locked", "checked", "saved", "recorded"} => pkLock = h
    /\ Pc(h) \in {"locked", "checked"} =>
          \A g \in Handlers : Pc(g) = "unlocked" => upd[g].id \in upd[h].late
    /\ seen[h].version <= item.version
    /\ \E m \in 0..Len(entries) :
           Looked(entries, m, item.version - seen[h].version, seen[h].val,
                  IF Pc(h) = "checked" THEN upd[h].named ELSE {}, upd[h].late)

ReadersInv ==
    /\ seen \in [Handlers -> [version : Int, val : [Fields -> Int]]]
    /\ \A h \in Handlers : CheckInv(h)

=============================================================================
