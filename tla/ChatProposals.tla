---------------------------- MODULE ChatProposals ----------------------------
(***************************************************************************)
(* A proposal or recommendation of the chat: stored with its row, cached as*)
(* a shared object, and confirmed or turned down by requests that await    *)
(* GitHub and the database in between.  Reading it when it is not cached   *)
(* makes a new object of its row, one per reader.                          *)
(***************************************************************************)
EXTENDS Naturals, FiniteSets

CONSTANTS Requests,         \* requests handled at a time
          ProposalFaults    \* bound on failing calls and restarts

\* "none" and "first" stand for no object and for the one stored with the row
ASSUME ProposalAssumption == ProposalFaults \in Nat /\ Requests \cap {"none", "first"} = {}

VARIABLES
    rKind,     \* proposal or recommendation
    rRow,      \* its row: none, pending, confirmed, cancelled
    rCache,    \* its cached object: none, first, or the request that loaded it
    rObject,   \* each object's status: pending, edited, confirmed, cancelled
    rWork,     \* each request: where it is, what for, its object, the row it read
    rIssues,   \* issues created for it
    rUsed,     \* the objects it was confirmed by
    rExcused,  \* a second issue is possible
    rClaimed,  \* who claimed its input lately: none, this or an other recommendation
    rFaults

rHistory == <<rUsed, rExcused>>
rVars == <<rKind, rRow, rCache, rObject, rWork, rIssues, rHistory, rClaimed, rFaults>>
NoWork == [at |-> "idle", goal |-> "none", object |-> "first", seen |-> "none"]

ProposalInit ==
    /\ rKind \in {"proposal", "recommendation"} /\ rRow = "none" /\ rCache = "none"
    /\ rObject = [o \in Requests \cup {"first"} |-> "pending"] /\ rWork = [x \in Requests |-> NoWork]
    /\ rIssues = 0 /\ rUsed = {} /\ rExcused = FALSE /\ rClaimed = "none" /\ rFaults = 0

ProposalFault == rFaults < ProposalFaults /\ rFaults' = rFaults + 1
At(x, at) == rWork[x].at = at
StatusOf(x) == rObject[rWork[x].object]
Mark(x, status) == rObject' = [rObject EXCEPT ![rWork[x].object] = status]
Moves(x, at) == rWork' = [rWork EXCEPT ![x].at = at]
EndsRequest(x) == rWork' = [rWork EXCEPT ![x] = NoWork]
WriteRow(x, status) ==   \* best effort: a failing write is only logged
    \/ rRow' = status /\ UNCHANGED rFaults
    \/ ProposalFault /\ UNCHANGED rRow
InProgress == {x \in Requests : rWork[x].at \in {"create", "card", "launch"}}

---------------------------------------------------------------------------
(* The answer of the language model becomes an item: its row first, then   *)
(* the cache; a row that is refused three times leaves neither.            *)
store_proposal ==
    /\ rRow = "none" /\ rRow' = "pending" /\ rCache' = "first"
    /\ UNCHANGED <<rObject, rWork, rIssues, rHistory, rClaimed, rFaults>>

(* A request reads the item: the cached object at once, or the row now and *)
(* an object of it when the read returns.                                  *)
FromCache(x, kind) ==
    /\ At(x, "idle") /\ rCache # "none"
    /\ rWork' = [rWork EXCEPT ![x] = [at |-> kind, goal |-> kind, object |-> rCache, seen |-> "none"]]
    /\ UNCHANGED <<rRow, rCache, rObject, rIssues, rHistory, rClaimed, rFaults>>
FromRow(x, kind) ==
    /\ At(x, "idle") /\ rCache = "none" /\ rRow # "none"
    /\ rWork' = [rWork EXCEPT ![x] = [at |-> "load", goal |-> kind, object |-> x, seen |-> rRow]]
    /\ UNCHANGED <<rRow, rCache, rObject, rIssues, rHistory, rClaimed, rFaults>>
get_proposal(x) ==
    /\ At(x, "load") /\ Moves(x, rWork[x].goal)
    /\ Mark(x, rWork[x].seen) /\ rCache' = x
    /\ UNCHANGED <<rRow, rIssues, rHistory, rClaimed, rFaults>>

(* Checks that a confirmation makes before its first await.  Edits mark the*)
(* object at once; a recommendation claims its input; neither marks an item*)
(* confirmed without edits.                                                *)
Refuse(x) ==
    /\ At(x, "confirm") /\ EndsRequest(x)
    /\ StatusOf(x) # "pending" \/ (rKind = "recommendation" /\ rClaimed = "other")
    /\ UNCHANGED <<rRow, rCache, rObject, rIssues, rHistory, rClaimed, rFaults>>
Expired(x) ==
    /\ At(x, "confirm") /\ rKind = "proposal"
    /\ Mark(x, "cancelled") /\ WriteRow(x, "cancelled") /\ EndsRequest(x)
    /\ UNCHANGED <<rCache, rIssues, rHistory, rClaimed>>
EditedStatus(x) == "edited"
NotCancelled(x) == StatusOf(x) # "cancelled"
Confirmable(x) == StatusOf(x) = "pending"
Confirm(x, edits) ==
    /\ At(x, "confirm") /\ Confirmable(x) /\ Moves(x, "create")
    /\ IF rKind = "recommendation"
       THEN ~edits /\ rClaimed # "other" /\ rClaimed' = "this" /\ UNCHANGED rObject
       ELSE Mark(x, IF edits THEN EditedStatus(x) ELSE "pending") /\ UNCHANGED rClaimed
    \* another object, or no edits to mark this one, lets a second confirmation pass
    /\ rUsed' = rUsed \cup {rWork[x].object}
    /\ rExcused' = \/ rExcused \/ ~(rUsed \subseteq {rWork[x].object})
                   \/ \E z \in InProgress : StatusOf(z) = "pending"
    /\ UNCHANGED <<rRow, rCache, rIssues, rFaults>>
InputClaims ==   \* by another recommendation of the same input, or forgotten after five minutes
    /\ rClaimed' = (IF rClaimed = "none" THEN "other" ELSE "none")
    /\ UNCHANGED <<rRow, rCache, rObject, rWork, rIssues, rHistory, rFaults>>

(* The issue, then its card on the board (for a recommendation: the whole  *)
(* workflow).  A failure ends the request; what the issue's creation left  *)
(* behind is not undone.                                                   *)
CreateIssue(x) ==
    /\ At(x, "create") /\ Moves(x, "card") /\ rIssues' = rIssues + 1
    /\ UNCHANGED <<rRow, rCache, rObject, rHistory, rClaimed, rFaults>>
IssueCreationFails(x) ==
    /\ rWork[x].at \in {"create", "card"} /\ ProposalFault /\ EndsRequest(x)
    /\ rExcused' = (rExcused \/ At(x, "card"))
    /\ UNCHANGED <<rRow, rCache, rObject, rIssues, rClaimed, rUsed>>
confirm_proposal(x) ==
    /\ At(x, "card") /\ Moves(x, "launch")
    /\ Mark(x, "confirmed") /\ WriteRow(x, "confirmed")
    /\ UNCHANGED <<rCache, rIssues, rHistory, rClaimed>>
(* Message, configuration and launch; none of them changes the item.       *)
LaunchAfterConfirm(x) ==
    /\ At(x, "launch") /\ EndsRequest(x)
    /\ UNCHANGED <<rRow, rCache, rObject, rIssues, rHistory, rClaimed, rFaults>>

(* Cancelling a proposal asks nothing; rejecting a recommendation asks     *)
(* that it be pending.                                                     *)
cancel_proposal(x) ==
    /\ At(x, "cancel") /\ (rKind = "recommendation" => StatusOf(x) = "pending")
    /\ Mark(x, "cancelled") /\ WriteRow(x, "cancelled") /\ EndsRequest(x)
    /\ UNCHANGED <<rCache, rIssues, rHistory, rClaimed>>
RejectRefused(x) ==
    /\ At(x, "cancel") /\ rKind = "recommendation" /\ StatusOf(x) # "pending" /\ EndsRequest(x)
    /\ UNCHANGED <<rRow, rCache, rObject, rIssues, rHistory, rClaimed, rFaults>>

RestartChat ==
    /\ ProposalFault /\ rCache' = "none" /\ rWork' = [x \in Requests |-> NoWork] /\ rClaimed' = "none"
    /\ rExcused' = (rExcused \/ (rIssues > 0 /\ rRow # "confirmed"))
    /\ UNCHANGED <<rRow, rObject, rIssues, rUsed>>

ProposalNext ==
    /\ UNCHANGED rKind
    /\ \/ store_proposal \/ InputClaims \/ RestartChat
       \/ \E x \in Requests, kind \in {"confirm", "cancel"} : FromCache(x, kind) \/ FromRow(x, kind)
       \/ \E x \in Requests, edits \in BOOLEAN : Confirm(x, edits)
       \/ \E x \in Requests : \/ get_proposal(x) \/ Refuse(x) \/ Expired(x) \/ CreateIssue(x) \/ IssueCreationFails(x)
                              \/ confirm_proposal(x) \/ LaunchAfterConfirm(x) \/ cancel_proposal(x) \/ RejectRefused(x)
ProposalSpec == ProposalInit /\ [][ProposalNext]_rVars

---------------------------------------------------------------------------
(* A proposal gives one issue, unless two confirmations without edits, or of  *)
(* two objects, overlap, an earlier one failed after creating its issue,   *)
(* or a restart came before its row was written.                           *)
OneIssuePerItem == rIssues <= 1 \/ rExcused
=============================================================================
