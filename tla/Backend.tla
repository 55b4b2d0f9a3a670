------------------------------ MODULE Backend ------------------------------
(* The parts of the back end beside the schedule's order and plan. They     *)
(* share no state, so that their interleavings say nothing more: part is    *)
(* the one that runs, the others keep Off in their variables (the story of  *)
(* Widening an initial state).                                              *)
EXTENDS Widening

CONSTANTS Fields, MaxEdits,
          Epics, Stories, StoryTasks, Shades, NoColour, MaxRelated, MaxOrder,
          Milestones, Issues, Statuses, Gone, Nowhere, MaxRequests,
          Voters, MaxMisses,
          Ids, Lanes, None, Starts, Bulks, Positions, Gap, MaxAsks,
          Users, Nobody, MaxReads,
          Off

VARIABLES part,
          item, entries, upd, seen, pkLock, writer, edits,
          colour, related, storyOf, request,
          board, jobs, last, requests,
          votes, likes, tx, voteLock, rowLock,
          view, place, order, drops, asked, asks,
          project, member, active, doing, ended, reads

E == INSTANCE Edits
C == INSTANCE Colours WITH Tasks <- StoryTasks, NoStory <- Nowhere
M == INSTANCE Closing WITH Tasks <- StoryTasks
K == INSTANCE Counters WITH Users <- Voters
B == INSTANCE Boards WITH Stories <- Ids, Droppers <- Handlers
O == INSTANCE Ownership WITH Requests <- Handlers

ASSUME BackendAssumption ==
    /\ E!EditsAssumption /\ C!ColoursAssumption /\ M!ClosingAssumption
    /\ K!CountersAssumption /\ B!BoardsAssumption /\ O!OwnershipAssumption

editVars == <<item, entries, upd, seen, pkLock, writer, edits>>
colourVars == <<colour, related, storyOf, request>>
closingVars == <<board, jobs, last, requests>>
counterVars == <<votes, likes, tx, voteLock, rowLock>>
boardVars == <<view, place, order, drops, asked, asks>>
ownershipVars == <<project, member, active, doing, ended, reads>>

backendVars == <<part, editVars, colourVars, closingVars, counterVars,
                 boardVars, ownershipVars, wideningVars>>

(* Every date of the story and its tasks is the latest.                     *)
Resting == \A t \in Tasks, d \in Dates : d <= taskDue[t] /\ d <= storyDue["row"]

EditsOff ==
    /\ item = Off /\ entries = Off /\ upd = Off /\ seen = Off
    /\ pkLock = Off /\ writer = Off /\ edits = Off

ColoursOff == colour = Off /\ related = Off /\ storyOf = Off /\ request = Off

ClosingOff == board = Off /\ jobs = Off /\ last = Off /\ requests = Off

CountersOff == votes = Off /\ likes = Off /\ tx = Off /\ voteLock = Off /\ rowLock = Off

BoardsOff ==
    view = Off /\ place = Off /\ order = Off /\ drops = Off /\ asked = Off /\ asks = Off

OwnershipOff ==
    /\ project = Off /\ member = Off /\ active = Off
    /\ doing = Off /\ ended = Off /\ reads = Off

Init ==
    /\ part \in {"edits", "colours", "closing", "counters", "boards", "ownership", "widening"}
    /\ IF part = "edits" THEN E!EditsInit ELSE EditsOff
    /\ IF part = "colours" THEN C!ColoursInit ELSE ColoursOff
    /\ IF part = "closing" THEN M!ClosingInit ELSE ClosingOff
    /\ IF part = "counters" THEN K!CountersInit ELSE CountersOff
    /\ IF part = "boards" THEN B!BoardsInit ELSE BoardsOff
    /\ IF part = "ownership" THEN O!OwnershipInit ELSE OwnershipOff
    /\ WideningInit
    /\ part # "widening" => Resting

EditsStep ==
    /\ part = "edits" /\ E!EditsNext
    /\ UNCHANGED <<part, colourVars, closingVars, counterVars, boardVars,
                   ownershipVars, wideningVars>>

ColoursStep ==
    /\ part = "colours" /\ C!ColoursNext
    /\ UNCHANGED <<part, editVars, closingVars, counterVars, boardVars,
                   ownershipVars, wideningVars>>

ClosingStep ==
    /\ part = "closing" /\ M!ClosingNext
    /\ UNCHANGED <<part, editVars, colourVars, counterVars, boardVars,
                   ownershipVars, wideningVars>>

CountersStep ==
    /\ part = "counters" /\ K!CountersNext
    /\ UNCHANGED <<part, editVars, colourVars, closingVars, boardVars,
                   ownershipVars, wideningVars>>

BoardsStep ==
    /\ part = "boards" /\ B!BoardsNext
    /\ UNCHANGED <<part, editVars, colourVars, closingVars, counterVars,
                   ownershipVars, wideningVars>>

OwnershipStep ==
    /\ part = "ownership" /\ O!OwnershipNext
    /\ UNCHANGED <<part, editVars, colourVars, closingVars, counterVars,
                   boardVars, wideningVars>>

WideningStep ==
    /\ part = "widening" /\ WideningNext
    /\ UNCHANGED <<part, editVars, colourVars, closingVars, counterVars,
                   boardVars, ownershipVars>>

Next ==
    \/ EditsStep
    \/ ColoursStep
    \/ ClosingStep
    \/ CountersStep
    \/ BoardsStep
    \/ OwnershipStep
    \/ WideningStep

Spec == Init /\ [][Next]_backendVars

---------------------------------------------------------------------------
(* The state of the part that runs stays in the ranges its module names.    *)
TypeOK ==
    /\ part = "edits" => E!EditsTypeOK
    /\ part = "colours" => C!ColoursTypeOK
    /\ part = "closing" => M!ClosingTypeOK
    /\ part = "counters" => K!CountersTypeOK
    /\ part = "boards" => B!BoardsTypeOK
    /\ part = "ownership" => O!OwnershipTypeOK
    /\ WideningTypeOK

(* A field an update names is overwritten unseen only next to a bulk edit,  *)
(* an entry without version or a transaction that has released the lock and *)
(* not committed (occ/mixins.py).                                           *)
NamedFieldsAreChecked == [][part = "edits" => E!NamedFieldsAreChecked]_backendVars

(* At rest the history of an item ends in the values of its row             *)
(* (history/services.py).                                                   *)
HistoryTellsTheRow == part = "edits" => E!HistoryTellsTheRow

(* Two saves of an item never get one version (occ/mixins.py).              *)
EverySaveHasItsVersion == [][part = "edits" => E!EverySaveHasItsVersion]_backendVars

(* Stories and tasks keep the colour of their first epic through every      *)
(* request but a reorder (schedule/services.py).                            *)
OnlyReorderLosesColour == [][part = "colours" => C!OnlyReorderLosesColour]_backendVars

(* A colour that a client chose stays (schedule/services.py).               *)
ChosenColourStays == [][part = "colours" => C!ChosenColourStays]_backendVars

(* A story is closed just when its tasks are (userstories/services.py).     *)
StoriesFollowTheirTasks == [][part = "closing" => M!StoriesFollowTheirTasks]_backendVars

(* A closed milestone gets no open work (milestones/services.py).           *)
ClosedMeansNothingOpen == [][part = "closing" => M!ClosedMeansNothingOpen]_backendVars

(* A milestone whose work is done does not stay open (userstories/signals.py). *)
DoneMilestonesClose == [][part = "closing" => M!DoneMilestonesClose]_backendVars

(* Only removals that raced for one vote make the counter of votes differ   *)
(* from their number (votes/services.py).                                   *)
OnlyRacedRemovalsMiscount == part = "counters" => K!OnlyRacedRemovalsMiscount

(* A like that no other overlaps leaves the right number of fans            *)
(* (likes/services.py, refresh_totals).                                     *)
FansRecounted == [][part = "counters" => K!FansRecounted]_backendVars

(* The stories of a drop are together where they were dropped               *)
(* (userstories/services.py).                                               *)
DropsLandTogether == [][part = "boards" => B!DropsLandTogether]_backendVars

(* A save or move gives no place that is taken (bulk_update_order.py).      *)
PlacesGivenAreFree == [][part = "boards" => B!PlacesGivenAreFree]_backendVars

(* The stories no request moves keep their order (bulk_update_order.py).    *)
BystandersKeepTheirOrder == [][part = "boards" => B!BystandersKeepTheirOrder]_backendVars

(* The owner of a project stays an admin of it (services/members.py,        *)
(* services/transfer.py).                                                   *)
OwnerStaysAdmin == [][part = "ownership" => O!OwnerStaysAdmin]_backendVars

(* The last admin can only cancel the account (validators.py).              *)
SomebodyAdministers == [][part = "ownership" => O!SomebodyAdministers]_backendVars

=============================================================================
