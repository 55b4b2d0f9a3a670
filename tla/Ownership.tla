----------------------------- MODULE Ownership -----------------------------
(* The owner and the admins of one project: memberships (projects/api.py,   *)
(* services/members.py, validators.py), the transfer to another member      *)
(* (services/transfer.py), which saves the whole project as do its edits,   *)
(* and the cancellation of accounts (users/models.py). A request reads,     *)
(* checks, and writes later.                                                *)
EXTENDS Integers, FiniteSets

CONSTANTS Users,
          Requests,  \* request handlers
          Nobody,    \* no transfer is offered
          MaxReads   \* bound on requests

OwnershipAssumption == Nobody \notin Users \cup Requests /\ MaxReads \in Nat

VARIABLES
    project,  \* the row: owner, the user its transfer token names, blocked_code
    member,   \* "none", "member" or "admin", per user
    active,   \* users whose account is not cancelled
    doing,    \* the request of each handler
    ended,    \* the last step: [kind, user, crossed]
    reads     \* number of requests so far

ownershipVars == <<project, member, active, doing, ended, reads>>

Nothing == [kind |-> "none", user |-> Nobody, pc |-> "idle", crossed |-> FALSE]

Admins == {u \in active : member[u] = "admin"}

(* project_has_valid_admins                                                 *)
OtherAdmins(u) == Admins \ {u}

(* Mutant: the owner may leave.                                             *)
CanLeaveAsOwner(u) == member[u] = "admin" => OtherAdmins(u) # {}

(* Mutant: the last admin may leave.                                        *)
CanLeaveAsLast(u) == member[u] = "admin" => u # project.owner

(* can_user_leave_project                                                   *)
CanLeave(u) ==
    member[u] = "admin" => u # project.owner /\ OtherAdmins(u) # {}

Busy == {h \in Requests : doing[h].kind # "none"}

OwnershipInit ==
    /\ project \in [owner : Users, offered : {Nobody}, blocked : {FALSE}]
    /\ member \in [Users -> {"none", "member", "admin"}]
    /\ member[project.owner] = "admin"
    /\ active = Users
    /\ doing = [h \in Requests |-> Nothing]
    /\ ended = Nothing
    /\ reads = 0

(* A request of some kind about user u, with the rows as it read them.      *)
Begin(h, kind, u) ==
    /\ h \notin Busy
    /\ reads < MaxReads
    /\ reads' = reads + 1
    /\ doing' = [doing EXCEPT ![h] = [kind |-> kind, user |-> u, pc |-> "write",
                                      crossed |-> FALSE, was |-> member[u], copy |-> project]]
    /\ ended' = Nothing
    /\ UNCHANGED <<project, member, active>>

(* crossed (history variable): the request acts on what another has changed *)
Crossing(h) ==
    [g \in Requests |-> IF g \in Busy \ {h} THEN [doing[g] EXCEPT !.crossed = TRUE]
                        ELSE doing[g]]

Ending(h) ==
    [kind |-> doing[h].kind, user |-> doing[h].user, pc |-> "end",
     crossed |-> doing[h].crossed]

End(h) ==
    /\ doing' = [Crossing(h) EXCEPT ![h] = Nothing]
    /\ ended' = Ending(h)
    /\ UNCHANGED <<active, reads>>

Writes(h, kind) == doing[h].kind = kind /\ doing[h].pc = "write"

(* leave, or the destruction of a membership by an admin                    *)
AskToRemove(h, u) ==
    /\ member[u] # "none" /\ ~project.blocked
    /\ CanLeave(u)
    /\ Begin(h, "remove", u)

Remove(h) ==
    /\ Writes(h, "remove")
    /\ member' = [member EXCEPT ![doing[h].user] = "none"]
    /\ End(h)
    /\ UNCHANGED project

(* An admin edits a membership: validate_is_admin.                          *)
AskToSet(h, u, kind) ==
    /\ member[u] # "none" /\ ~project.blocked
    /\ u = project.owner => kind = "promote"
    /\ OtherAdmins(u) # {}
    /\ Begin(h, kind, u)

(* The save fails if the row has gone.                                      *)
SetAdmin(h, kind) ==
    /\ Writes(h, kind)
    /\ LET u == doing[h].user
       IN  member' = IF member[u] = "none" THEN member
                     ELSE [member EXCEPT ![u] = IF kind = "promote" THEN "admin" ELSE "member"]
    /\ End(h)
    /\ UNCHANGED project

(* An edit of a membership that names another user gives it to that user.   *)
Reassign(u, v) ==
    /\ member[u] # "none" /\ member[v] = "none" /\ v \in active /\ ~project.blocked
    /\ Admins # {}
    /\ reads < MaxReads /\ reads' = reads + 1
    /\ member' = [member EXCEPT ![v] = member[u], ![u] = "none"]
    /\ doing' = Crossing(Nobody)
    /\ ended' = [Nothing EXCEPT !.kind = "reassign", !.user = u]
    /\ UNCHANGED <<project, active>>

(* A new member                                                             *)
Join(u) ==
    /\ member[u] = "none" /\ u \in active /\ ~project.blocked
    /\ Admins # {}
    /\ reads < MaxReads /\ reads' = reads + 1
    /\ member' = [member EXCEPT ![u] = "member"]
    /\ ended' = Nothing
    /\ UNCHANGED <<project, active, doing>>

(* transfer_start, by the owner                                             *)
AskToOffer(h, u) ==
    /\ project.owner \in active /\ member[u] # "none"
    /\ Begin(h, "offer", u)

(* validate_project_transfer_token                                          *)
AskToAnswer(h, u, kind) ==
    /\ project.offered = u /\ u \in active
    /\ kind = "accept" => member[u] # "none"
    /\ Begin(h, kind, u)

(* An edit of the project by an admin                                       *)
AskToEdit(h, u) ==
    /\ u \in Admins /\ ~project.blocked
    /\ Begin(h, "edit", u)

(* Project.save writes every column of the copy.                            *)
Saved(h) ==
    LET p == doing[h].copy
    IN  CASE doing[h].kind = "offer"  -> [p EXCEPT !.offered = doing[h].user]
          [] doing[h].kind = "reject" -> [p EXCEPT !.offered = Nobody]
          [] doing[h].kind = "accept" -> [p EXCEPT !.offered = Nobody, !.owner = doing[h].user]
          [] doing[h].kind = "edit"   -> p

(* accept_project_transfer: the member is made an admin first, which brings *)
(* a membership back that was removed meanwhile.                            *)
AcceptAsAdmin(h) ==
    /\ Writes(h, "accept")
    /\ IF doing[h].was = "admin"
       THEN /\ doing' = [doing EXCEPT ![h].pc = "save"]
            /\ UNCHANGED member
       ELSE /\ doing' = [Crossing(h) EXCEPT ![h].pc = "save"]
            /\ member' = [member EXCEPT ![doing[h].user] = "admin"]
    /\ ended' = Nothing
    /\ UNCHANGED <<project, active, reads>>

SaveProject(h) ==
    /\ \/ doing[h].pc = "save"
       \/ \E kind \in {"offer", "reject", "edit"} : Writes(h, kind)
    /\ project' = Saved(h)
    /\ End(h)
    /\ UNCHANGED member

(* User.cancel: what the user owns is blocked, the memberships go.          *)
Cancel(u) ==
    /\ u \in active
    /\ reads < MaxReads /\ reads' = reads + 1
    /\ active' = active \ {u}
    /\ project' = [project EXCEPT !.blocked = @ \/ project.owner = u]
    /\ member' = [member EXCEPT ![u] = "none"]
    /\ doing' = Crossing(Nobody)
    /\ ended' = [Nothing EXCEPT !.kind = "cancel", !.user = u]

OwnershipNext ==
    \/ \E h \in Requests, u \in Users :
          \/ AskToRemove(h, u)
          \/ \E kind \in {"promote", "demote"} : AskToSet(h, u, kind)
          \/ AskToOffer(h, u)
          \/ \E kind \in {"accept", "reject"} : AskToAnswer(h, u, kind)
          \/ AskToEdit(h, u)
    \/ \E h \in Requests :
          \/ Remove(h)
          \/ \E kind \in {"promote", "demote"} : SetAdmin(h, kind)
          \/ AcceptAsAdmin(h)
          \/ SaveProject(h)
    \/ \E u \in Users : Join(u) \/ Cancel(u) \/ \E v \in Users : Reassign(u, v)

OwnershipSpec == OwnershipInit /\ [][OwnershipNext]_ownershipVars

---------------------------------------------------------------------------
OwnershipTypeOK ==
    /\ project.owner \in Users /\ project.offered \in Users \cup {Nobody}
    /\ member \in [Users -> {"none", "member", "admin"}]
    /\ active \subseteq Users
    /\ reads \in 0..MaxReads

OwnerIsAdmin == project.blocked \/ project.owner \in Admins

(* The owner of a project that is not blocked stays an active admin of it,  *)
(* except through a request that acts on what another has changed, and the  *)
(* edit that gives the owner's membership to another user.                  *)
OwnerStaysAdmin ==
    OwnerIsAdmin => \/ OwnerIsAdmin' \/ ended'.crossed
                    \/ ended'.kind = "reassign"

(* While the owner is none, the last active admin can still not leave or be *)
(* made a plain member, only cancel the account.                            *)
SomebodyAdministers ==
    Admins # {} => \/ Admins' # {} \/ project'.blocked
                   \/ ended'.crossed \/ ended'.kind = "cancel"

(* The inductive invariant behind both (module BackendProofs): a request    *)
(* that no other has crossed acts on what it checked.                       *)
ProjectRow == [owner : Users, offered : Users \cup {Nobody}, blocked : BOOLEAN]

Levels == {"none", "member", "admin"}

Request ==
    [kind : {"remove", "promote", "demote", "offer", "accept", "reject", "edit"},
     user : Users, pc : {"write", "save"}, crossed : BOOLEAN, was : Levels, copy : ProjectRow]

AsChecked(h) ==
    LET u == doing[h].user
    IN  /\ doing[h].pc = "save" => doing[h].kind = "accept"
        /\ ~doing[h].crossed =>
              /\ doing[h].copy = project
              /\ doing[h].kind = "remove" => CanLeave(u)
              /\ doing[h].kind \in {"promote", "demote"} => OtherAdmins(u) # {}
              /\ doing[h].kind = "demote" => u # project.owner
              /\ doing[h].kind = "accept" =>
                    /\ u \in active
                    /\ doing[h].pc = "save" \/ doing[h].was = "admin" => member[u] = "admin"

OwnershipInv ==
    /\ project \in ProjectRow
    /\ member \in [Users -> Levels]
    /\ active \subseteq Users
    /\ reads \in 0..MaxReads
    /\ doing \in [Requests -> {Nothing} \cup Request]
    /\ \A h \in Busy : AsChecked(h)

=============================================================================
