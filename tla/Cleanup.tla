------------------------------ MODULE Cleanup ------------------------------
(***************************************************************************)
(* Cleaning up a repository: a look at its branches, open pull requests,   *)
(* the board and the issues the app made says what may go; the person      *)
(* agrees, and the items go one by one, without another look.  The look is *)
(* several reads, each of its own moment, while pipelines go on.           *)
(***************************************************************************)
EXTENDS Naturals, FiniteSets

CONSTANTS
    SubBranches,    \* branches named after the sub-issue
    OwnBranches,    \* branches with a prefix of the app's
    OtherBranches,  \* branches with neither
    Clicks,         \* the request that carries out what the look listed, and its repetitions
    CleanupChanges, \* bound on what happens to the repository meanwhile
    CleanupFaults   \* bound on failed calls and restarts

ASSUME CleanupAssumption ==
    /\ IsFiniteSet(SubBranches \cup OwnBranches \cup OtherBranches \cup Clicks)
    /\ CleanupChanges \in Nat /\ CleanupFaults \in Nat

Branch == SubBranches \cup OwnBranches \cup OtherBranches
Issue == {"sub", "top"}        \* an issue with a parent, and one without
Sources == {"branches", "pulls", "board", "app"}
Items == [branches : SUBSET Branch, pulls : SUBSET Branch, issues : SUBSET Issue]
NoItems == [branches |-> {}, pulls |-> {}, issues |-> {}]

VARIABLES
    xIssues,   \* GitHub: the issues, all with a label of the app's: absent, open, closed or deleted
    xBoard,    \* those of them on the board
    xParent,   \* the sub-issue's parent is open
    xBranches, \* branches there are
    xPulls,    \* branches with an open pull request
    xRefs,     \* the issues its body refers to
    xStep,     \* the look: idle, reading, listed
    xGot,      \* the reads that have answered
    xSeen,     \* what they answered
    xList,     \* what may go
    xRun,      \* each request: what is left to do, what was done, the issue to be closed as it
               \* could not be deleted, its audit row and what was asked of it
    xRemoved,  \* the items that requests have removed, branches with their pull requests
    xLinked,   \* <<b, i>>: since the look began, b's name or body refers to i and i is on the board
    xCarded,   \* issues on the board since the look began
    xChanges, xFaults

xVars == <<xIssues, xBoard, xParent, xBranches, xPulls, xRefs, xStep, xGot, xSeen, xList, xRun, xRemoved, xLinked, xCarded, xChanges, xFaults>>
xWorld == <<xIssues, xBoard, xParent, xBranches, xPulls, xRefs>>
xGhosts == <<xLinked, xCarded>>
xLook == <<xStep, xGot, xSeen, xList>>

Unasked == [todo |-> NoItems, done |-> NoItems, fallback |-> {}, audit |-> "none", asked |-> NoItems]
NothingSeen == [branches |-> {}, pulls |-> {}, refs |-> [b \in Branch |-> {}], board |-> {}, app |-> {}, closed |-> {}]

CleanupInit ==
    /\ xIssues \in [Issue -> {"absent", "open"}] /\ xBoard \in SUBSET {i \in Issue : xIssues[i] = "open"} /\ xParent \in BOOLEAN
    /\ xBranches \in SUBSET Branch /\ xPulls \in SUBSET xBranches
    /\ xRefs \in {f \in [Branch -> SUBSET xBoard] : \A b \in Branch \ xPulls : f[b] = {}}
    /\ xStep = "idle" /\ xGot = {} /\ xSeen = NothingSeen /\ xList = NoItems
    /\ xRun = [c \in Clicks |-> Unasked] /\ xRemoved = NoItems
    /\ xLinked = {} /\ xCarded = {} /\ xChanges = 0 /\ xFaults = 0

Fails == xFaults < CleanupFaults /\ xFaults' = xFaults + 1
FailsUnless(fine) == IF fine THEN UNCHANGED xFaults ELSE Fails
_extract_issue_numbers_from_branch(b) == IF b \in SubBranches THEN {"sub"} ELSE {}
Named(b) == _extract_issue_numbers_from_branch(b)
OpenIssues == {i \in Issue : xIssues[i] = "open"}

---------------------------------------------------------------------------
(* The look.  A read that fails fails the look.                            *)
BeginLook ==
    /\ xStep = "idle" /\ xStep' = "reading"
    /\ xCarded' = xBoard
    /\ xLinked' = {l \in xBranches \X xBoard : l[2] \in Named(l[1]) \/ (l[1] \in xPulls /\ l[2] \in xRefs[l[1]])}
    /\ UNCHANGED <<xWorld, xGot, xSeen, xList, xRun, xRemoved, xChanges, xFaults>>
fetch_all_branches == [xSeen EXCEPT !.branches = xBranches]
fetch_open_prs == [xSeen EXCEPT !.pulls = xPulls, !.refs = xRefs]
fetch_open_issues_on_board == [xSeen EXCEPT !.board = xBoard]
fetch_app_created_open_issues == [xSeen EXCEPT !.app = OpenIssues]
ReadsSource(source) ==
    /\ xStep = "reading" /\ source \notin xGot /\ xGot' = xGot \cup {source}
    /\ xSeen' = CASE source = "branches" -> fetch_all_branches
                  [] source = "pulls" -> fetch_open_prs
                  [] source = "board" -> fetch_open_issues_on_board
                  [] source = "app" -> fetch_app_created_open_issues
    /\ UNCHANGED <<xWorld, xStep, xList, xRun, xRemoved, xGhosts, xChanges, xFaults>>
LookFails ==
    /\ xStep = "reading" /\ Fails /\ xStep' = "idle" /\ xGot' = {} /\ xSeen' = NothingSeen
    /\ UNCHANGED <<xWorld, xList, xRun, xRemoved, xGhosts, xChanges>>

(* What an item is linked to: the issues on the board by the branch's name *)
(* or, with none, by its pull request's body.  Of several the first in the *)
(* order of a set counts.                                                  *)
First(issues, order) == IF order \in issues THEN order ELSE CHOOSE i \in issues : TRUE
BodyLinks(b) == IF b \in xSeen.pulls THEN xSeen.refs[b] \cap xSeen.board ELSE {}
NameLinks(b) == Named(b) \cap xSeen.board
NameOrBody(b) == IF NameLinks(b) # {} THEN NameLinks(b) ELSE BodyLinks(b)
NameOnly(b) == NameLinks(b)
BranchLinks(b) == NameOrBody(b)
_is_solune_owned_pr(b) == b \in OwnBranches \/ (xSeen.refs[b] \cup Named(b)) \cap xSeen.app # {}
_is_solune_owned_branch(b) ==
    b \in OwnBranches \/ Named(b) \cap xSeen.app # {} \/ (b \in xSeen.pulls /\ _is_solune_owned_pr(b))
_categorize_branch(b, order, closed) ==
    IF BranchLinks(b) # {} THEN First(BranchLinks(b), order) \in closed ELSE _is_solune_owned_branch(b)
_categorize_pr(b, order, closed, preserved) ==
    /\ _is_solune_owned_pr(b)
    /\ IF BodyLinks(b) # {} THEN First(BodyLinks(b), order) \in closed ELSE b \notin preserved
Orphaned == xSeen.app \ xSeen.board
(* The parents are read last; one that cannot be read counts as none.      *)
fetch_parent_issue_states(read) == IF read /\ ~xParent THEN xSeen.app \cap {"sub"} ELSE {}
preflight(order, read) ==
    /\ xStep = "reading" /\ xGot = Sources /\ xStep' = "listed" /\ FailsUnless(read)
    /\ LET closed == fetch_parent_issue_states(read)
           goes == {b \in xSeen.branches : _categorize_branch(b, order, closed)}
       IN /\ xSeen' = [NothingSeen EXCEPT !.closed = closed] /\ xGot' = {}
          /\ xList' = [branches |-> goes,
                       pulls |-> {b \in xSeen.pulls : _categorize_pr(b, order, closed, xSeen.branches \ goes)},
                       issues |-> Orphaned]
    /\ UNCHANGED <<xWorld, xRun, xRemoved, xGhosts, xChanges>>

---------------------------------------------------------------------------
(* Carrying it out: the audit row first, then the branches, the pull       *)
(* requests and the issues in turn, and the row's outcome.                 *)
RowFirst(c, asked) ==
    xRun' = [xRun EXCEPT ![c] = [Unasked EXCEPT !.todo = asked, !.asked = asked, !.audit = "in_progress"]]
execute_cleanup(c, kinds) ==
    /\ xStep = "listed" /\ xRun[c] = Unasked
    /\ LET asked == [k \in DOMAIN NoItems |-> IF k \in kinds THEN xList[k] ELSE {}]
       IN RowFirst(c, asked) /\ \A d \in Clicks : xRun[d] # Unasked => xRun[d].asked = asked
    /\ UNCHANGED <<xWorld, xLook, xRemoved, xGhosts, xChanges, xFaults>>
Working(c) == xRun[c].audit = "in_progress" /\ xRun[c].fallback = {}
Left(c, kind) ==
    /\ Working(c)
    /\ kind = "pulls" => xRun[c].todo.branches = {}
    /\ kind = "issues" => xRun[c].todo.branches = {} /\ xRun[c].todo.pulls = {}
Tells(c, kind, item, done) ==
    xRun' = [xRun EXCEPT ![c].todo[kind] = @ \ {item}, ![c].fallback = {},
                         ![c].done[kind] = IF done THEN @ \cup {item} ELSE @]

(* GitHub closes the pull request of a branch that goes.  An answer that   *)
(* is lost counts as a failure, a branch that is gone already as a success.*)
delete_branch(c, b, made, answered) ==
    /\ Left(c, "branches") /\ b \in xRun[c].todo.branches
    /\ (b \in xBranches \/ ~made)
    /\ LET gone == made \/ b \notin xBranches
           real == b \in xBranches /\ made
       IN /\ FailsUnless(answered /\ gone)
          /\ xBranches' = IF real THEN xBranches \ {b} ELSE xBranches
          /\ xPulls' = IF real THEN xPulls \ {b} ELSE xPulls
          /\ xRemoved' = IF real THEN [xRemoved EXCEPT !.branches = @ \cup {b}, !.pulls = @ \cup ({b} \cap xPulls)] ELSE xRemoved
          /\ Tells(c, "branches", b, gone /\ answered)
    /\ UNCHANGED <<xIssues, xBoard, xParent, xRefs, xLook, xGhosts, xChanges>>
ClosePr(c, b, made, answered) ==
    /\ Left(c, "pulls") /\ b \in xRun[c].todo.pulls
    /\ FailsUnless(made /\ answered)
    /\ xPulls' = IF made THEN xPulls \ {b} ELSE xPulls
    /\ xRemoved' = IF made THEN [xRemoved EXCEPT !.pulls = @ \cup ({b} \cap xPulls)] ELSE xRemoved
    /\ Tells(c, "pulls", b, made /\ answered)
    /\ UNCHANGED <<xIssues, xBoard, xParent, xBranches, xRefs, xLook, xGhosts, xChanges>>
Exists(i) == xIssues[i] \in {"open", "closed"}
IssueGoes(i, gone, to) ==
    /\ xIssues' = IF gone THEN [xIssues EXCEPT ![i] = to] ELSE xIssues
    /\ xBoard' = IF gone THEN xBoard \ {i} ELSE xBoard
    /\ xRemoved' = IF gone THEN [xRemoved EXCEPT !.issues = @ \cup ({i} \cap OpenIssues)] ELSE xRemoved
    /\ UNCHANGED <<xParent, xBranches, xPulls, xRefs>>
DeleteIssue(c, i, made, answered) ==
    /\ Left(c, "issues") /\ i \in xRun[c].todo.issues
    /\ FailsUnless((made \/ ~Exists(i)) /\ answered) /\ (Exists(i) \/ ~made) /\ IssueGoes(i, made, "deleted")
    /\ IF made /\ answered THEN Tells(c, "issues", i, TRUE)
       ELSE xRun' = [xRun EXCEPT ![c].fallback = {i}]
    /\ UNCHANGED <<xLook, xGhosts, xChanges>>
(* It could not be deleted: it is closed, which is reported as the same.   *)
CloseInstead(c, i, made, answered) ==
    /\ xRun[c].audit = "in_progress" /\ i \in xRun[c].fallback
    /\ FailsUnless((made \/ ~Exists(i)) /\ answered) /\ (Exists(i) \/ ~made) /\ IssueGoes(i, made, "closed")
    /\ Tells(c, "issues", i, made /\ answered)
    /\ UNCHANGED <<xLook, xGhosts, xChanges>>
WithErrors(c) == xRun[c].done # xRun[c].asked
Outcome(c) == IF WithErrors(c) THEN "completed_with_errors" ELSE "completed"
CompleteAudit(c) ==
    /\ Working(c) /\ xRun[c].todo = NoItems
    /\ xRun' = [xRun EXCEPT ![c].audit = Outcome(c)]
    /\ UNCHANGED <<xWorld, xLook, xRemoved, xGhosts, xChanges, xFaults>>
(* A restart: the row of a request that was under way stays in_progress.   *)
Stopped == "stopped"
RestartInCleanup ==
    /\ Fails /\ \E c \in Clicks : xRun[c].audit = "in_progress"
    /\ xRun' = [c \in Clicks |-> IF xRun[c].audit = "in_progress" THEN [xRun[c] EXCEPT !.audit = Stopped] ELSE xRun[c]]
    /\ UNCHANGED <<xWorld, xLook, xRemoved, xGhosts, xChanges>>

---------------------------------------------------------------------------
(* What pipelines and people do meanwhile.                                 *)
Change == xChanges < CleanupChanges /\ xChanges' = xChanges + 1 /\ UNCHANGED <<xLook, xRun, xRemoved, xFaults>>
IssueOpened(i) ==
    /\ Change /\ xIssues[i] = "absent" /\ xIssues' = [xIssues EXCEPT ![i] = "open"]
    /\ UNCHANGED <<xBoard, xParent, xBranches, xPulls, xRefs, xGhosts>>
Carded(i) ==
    /\ Change /\ i \in OpenIssues \ xBoard /\ xBoard' = xBoard \cup {i}
    /\ UNCHANGED <<xIssues, xParent, xBranches, xPulls, xRefs, xGhosts>>
IssueClosed(i) ==
    /\ Change /\ xIssues[i] = "open" /\ xIssues' = [xIssues EXCEPT ![i] = "closed"] /\ xBoard' = xBoard \ {i}
    /\ xCarded' = xCarded \ {i} /\ xLinked' = {l \in xLinked : l[2] # i}
    /\ UNCHANGED <<xParent, xBranches, xPulls, xRefs>>
ParentCloses == Change /\ xParent /\ xParent' = FALSE /\ UNCHANGED <<xIssues, xBoard, xBranches, xPulls, xRefs, xGhosts>>
BranchPushed(b, refs) ==  \* a name that was seen is not used again
    /\ Change /\ b \notin xBranches \cup xSeen.branches \cup xSeen.pulls \cup xList.branches \cup xList.pulls
    /\ refs \subseteq OpenIssues
    /\ xBranches' = xBranches \cup {b} /\ xPulls' = xPulls \cup {b} /\ xRefs' = [xRefs EXCEPT ![b] = refs]
    /\ UNCHANGED <<xIssues, xBoard, xParent, xGhosts>>
BranchDropped(b) ==      \* after a merge, or by a person
    /\ Change /\ b \in xBranches /\ xBranches' = xBranches \ {b} /\ xPulls' = xPulls \ {b}
    /\ xLinked' = {l \in xLinked : l[1] # b}
    /\ UNCHANGED <<xIssues, xBoard, xParent, xRefs, xCarded>>
PullClosed(b) ==
    /\ Change /\ b \in xPulls /\ xPulls' = xPulls \ {b}
    /\ xLinked' = {l \in xLinked : l[1] # b \/ l[2] \in Named(b)}
    /\ UNCHANGED <<xIssues, xBoard, xParent, xBranches, xRefs, xCarded>>

CleanupNext ==
    \/ BeginLook \/ LookFails \/ RestartInCleanup \/ ParentCloses
    \/ \E source \in Sources : ReadsSource(source)
    \/ \E order \in Issue, read \in BOOLEAN : preflight(order, read)
    \/ \E c \in Clicks :
          \/ \E kinds \in {DOMAIN NoItems, {"branches", "issues"}, {"pulls"}} : execute_cleanup(c, kinds)
          \/ \E made, answered \in BOOLEAN :
                \/ \E b \in Branch : delete_branch(c, b, made, answered) \/ ClosePr(c, b, made, answered)
                \/ \E i \in Issue : DeleteIssue(c, i, made, answered) \/ CloseInstead(c, i, made, answered)
          \/ CompleteAudit(c)
    \/ \E i \in Issue : IssueOpened(i) \/ Carded(i) \/ IssueClosed(i)
    \/ \E b \in Branch : PullClosed(b) \/ BranchDropped(b) \/ \E refs \in SUBSET Issue : BranchPushed(b, refs)
CleanupSpec == CleanupInit /\ [][CleanupNext]_xVars

---------------------------------------------------------------------------
(* What the board needs stays.  An issue on the board since the look began *)
(* is not removed, nor a branch or pull request linked to one all that     *)
(* time - through a name or a body, whichever read answered when - unless  *)
(* it is linked to the sub-issue, whose parent was then closed.            *)
LinkedToSub(b) == "sub" \in Named(b) \cup xRefs[b]
BoardKeepsItsWork ==
    /\ xCarded \cap xRemoved.issues = {}
    /\ \A l \in xLinked : l[1] \in xRemoved.branches \cup xRemoved.pulls => xSeen.closed # {} /\ LinkedToSub(l[1])

(* The audit tells what happened: nothing goes before a request has its    *)
(* row; what it lists as done is gone from GitHub; and a row that says     *)
(* completed has done all that was asked.                                  *)
AuditIsTrue ==
    /\ xRemoved # NoItems => \E c \in Clicks : xRun[c].audit # "none"
    /\ \A c \in Clicks :
          /\ xRun[c].done.branches \cap xBranches = {}
          /\ xRun[c].done.pulls \cap xPulls = {} /\ xRun[c].done.issues \cap OpenIssues = {}
          /\ xRun[c].audit = "completed" => xRun[c].done = xRun[c].asked

(* Cleaning up takes nothing the board needs and accounts for what it took *)
CleanupIsSafe == BoardKeepsItsWork /\ AuditIsTrue
=============================================================================
