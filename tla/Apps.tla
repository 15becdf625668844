-------------------------------- MODULE Apps --------------------------------
(***************************************************************************)
(* The apps table and what it owns on GitHub.  Creating an app makes its   *)
(* repository and project first and its row after that; its pipeline's     *)
(* parent issue is recorded later still; deleting goes the other way.      *)
(* Requests for the same name overlap at every await.                      *)
(***************************************************************************)
EXTENDS Naturals, FiniteSets

CONSTANTS Creators,   \* requests that create an app of one name, each with assets of its own
          NewRepo,    \* those that ask for a new repository; the others scaffold an existing one
          AppFaults   \* bound on failing calls and restarts

ASSUME AppsAssumption == IsFiniteSet(Creators) /\ NewRepo \subseteq Creators /\ AppFaults \in Nat

Absent == [owner |-> {}, status |-> "stopped", project |-> FALSE, parent |-> {}]

VARIABLES
    yRow,      \* the row: whose assets it names (none: no row), its status, project and parent issue
    yAt,       \* each creating request: idle, checked, repo, project, inserted, launched, over
    yRepo, yProject, yIssue,   \* whose repository, project and open parent issue exist
    yAsk,      \* a status change whose check is done: start, stop or none
    yDelete,   \* a deletion under way: its step, the row it read, whether it is forced
    yOrphan,   \* assets that no row will ever name again
    yFaults

yVars == <<yRow, yAt, yRepo, yProject, yIssue, yAsk, yDelete, yOrphan, yFaults>>
yGitHub == <<yRepo, yProject, yIssue>>
NotDeletingApp == [step |-> "none", row |-> Absent, force |-> FALSE]

AppsInit ==
    /\ yRow = Absent /\ yAt = [c \in Creators |-> "idle"] /\ yRepo = {} /\ yProject = {} /\ yIssue = {}
    /\ yAsk = "none" /\ yDelete = NotDeletingApp /\ yOrphan = {} /\ yFaults = 0

AppFault == yFaults < AppFaults /\ yFaults' = yFaults + 1
Step(c, stage) == yAt' = [yAt EXCEPT ![c] = stage]
Maybe(ok) == IF ok THEN UNCHANGED yFaults ELSE AppFault
AssetsOf(c) ==
    {<<"repo", c>> : x \in yRepo \cap {c}} \cup {<<"project", c>> : x \in yProject \cap {c}}
        \cup {<<"issue", c>> : x \in yIssue \cap {c}}
AssetsNamed(row) ==
    {<<"repo", c>> : c \in row.owner} \cup {<<"project", c>> : c \in row.owner} \cup {<<"issue", c>> : c \in row.parent}
Existing == {<<"repo", c>> : c \in yRepo} \cup {<<"project", c>> : c \in yProject} \cup {<<"issue", c>> : c \in yIssue}

---------------------------------------------------------------------------
(* Creation.  The name is checked first and the row inserted last, where a *)
(* second row of that name is an error; what was made by then stays.       *)
CheckName(c) ==
    /\ yAt[c] = "idle" /\ yRow.owner = {} /\ Step(c, "checked")
    /\ UNCHANGED <<yRow, yGitHub, yAsk, yDelete, yOrphan, yFaults>>
create_repository(c) ==
    /\ yAt[c] = "checked" /\ Step(c, "repo")
    /\ yRepo' = IF c \in NewRepo THEN yRepo \cup {c} ELSE yRepo
    /\ UNCHANGED <<yRow, yProject, yIssue, yAsk, yDelete, yOrphan, yFaults>>
create_project(c, made) ==
    /\ yAt[c] = "repo" /\ Step(c, "project") /\ Maybe(made)
    /\ yProject' = IF made /\ c \in NewRepo THEN yProject \cup {c} ELSE yProject
    /\ UNCHANGED <<yRow, yRepo, yIssue, yAsk, yDelete, yOrphan>>
CreationFails(c) ==
    /\ yAt[c] \in {"checked", "repo"} /\ AppFault /\ Step(c, "over")
    /\ yOrphan' = yOrphan \cup AssetsOf(c)
    /\ UNCHANGED <<yRow, yGitHub, yAsk, yDelete>>
Replace(c) == TRUE
NameIsFree(c) == yRow.owner = {}
InsertRow(c) ==
    /\ yAt[c] = "project"
    /\ IF NameIsFree(c)
       THEN /\ yRow' = [owner |-> {c}, status |-> "active", project |-> c \in yProject, parent |-> {}]
            /\ Step(c, "inserted") /\ UNCHANGED yOrphan
       ELSE Step(c, "over") /\ yOrphan' = yOrphan \cup AssetsOf(c) /\ UNCHANGED yRow
    /\ UNCHANGED <<yGitHub, yAsk, yDelete, yFaults>>

(* The endpoint then launches the pipeline and records its parent issue in *)
(* the row of that name, whosever it is by now.                            *)
LaunchAppPipeline(c, launches) ==
    /\ yAt[c] = "inserted" /\ Maybe(launches) /\ Step(c, IF launches THEN "launched" ELSE "over")
    /\ yIssue' = IF launches THEN yIssue \cup {c} ELSE yIssue
    /\ UNCHANGED <<yRow, yRepo, yProject, yAsk, yDelete, yOrphan>>
RecordParent(c) ==
    /\ yAt[c] = "launched" /\ Step(c, "over")
    /\ yRow' = IF yRow.owner = {} THEN yRow ELSE [yRow EXCEPT !.parent = {c}]
    /\ yOrphan' = yOrphan \cup (IF yRow.owner = {} THEN {<<"issue", c>>}
                                ELSE {<<"issue", d>> : d \in yRow.parent})
    /\ UNCHANGED <<yGitHub, yAsk, yDelete, yFaults>>

(* start_app and stop_app check the status and write it in two statements. *)
AskStatus(ask) ==
    /\ yAsk = "none" /\ yRow.owner # {} /\ yAsk' = ask
    /\ yRow.status = (IF ask = "start" THEN "stopped" ELSE "active")
    /\ UNCHANGED <<yRow, yAt, yGitHub, yDelete, yOrphan, yFaults>>
WriteStatus ==
    /\ yAsk # "none" /\ yAsk' = "none"
    /\ yRow' = IF yRow.owner = {} THEN yRow
               ELSE [yRow EXCEPT !.status = IF yAsk = "start" THEN "active" ELSE "stopped"]
    /\ UNCHANGED <<yAt, yGitHub, yDelete, yOrphan, yFaults>>

(* Deletion goes by the row it read.  Each call to GitHub is best effort.  *)
delete_app(force) ==
    /\ yDelete.step = "none" /\ yRow.owner # {} /\ yRow.status # "active"
    /\ yDelete' = [step |-> "issue", row |-> yRow, force |-> force]
    /\ UNCHANGED <<yRow, yAt, yGitHub, yAsk, yOrphan, yFaults>>
DeleteStep(from, to) == yDelete.step = from /\ yDelete' = [yDelete EXCEPT !.step = to]
CloseParentIssue(done) ==
    /\ DeleteStep("issue", IF yDelete.force THEN "project" ELSE "row") /\ Maybe(done)
    /\ yIssue' = IF done THEN yIssue \ yDelete.row.parent ELSE yIssue
    /\ UNCHANGED <<yRow, yAt, yRepo, yProject, yAsk, yOrphan>>
delete_project(done) ==
    /\ DeleteStep("project", "repo") /\ Maybe(done)
    /\ yProject' = IF done THEN yProject \ yDelete.row.owner ELSE yProject
    /\ UNCHANGED <<yRow, yAt, yRepo, yIssue, yAsk, yOrphan>>
(* The repository to delete is the one the parent issue is in; without one *)
(* it is the app's own.                                                    *)
RepoToDelete == IF yDelete.row.owner \cap NewRepo = {} THEN {}
                ELSE IF yDelete.row.parent # {} THEN yDelete.row.parent ELSE yDelete.row.owner
delete_repository(done) ==
    /\ DeleteStep("repo", "row") /\ Maybe(done)
    /\ yRepo' = IF done THEN yRepo \ RepoToDelete ELSE yRepo
    /\ UNCHANGED <<yRow, yAt, yProject, yIssue, yAsk, yOrphan>>
DeleteAppRow ==
    /\ yDelete.step = "row" /\ yDelete' = NotDeletingApp
    /\ yRow' = Absent
    /\ yOrphan' = yOrphan \cup (Existing \cap (AssetsNamed(yRow) \cup AssetsNamed(yDelete.row)))
    /\ UNCHANGED <<yAt, yGitHub, yAsk, yFaults>>

(* A restart ends the requests under way and what they alone knew is lost. *)
RestartApps ==
    /\ AppFault /\ (yDelete.step # "none" \/ \E c \in Creators : yAt[c] \notin {"idle", "over"})
    /\ yOrphan' = yOrphan \cup (UNION {AssetsOf(c) : c \in {d \in Creators : yAt[d] \in {"repo", "project"}}})
                     \cup {<<"issue", c>> : c \in {d \in Creators : yAt[d] = "launched"}}
    /\ yAt' = [c \in Creators |-> IF yAt[c] = "idle" THEN "idle" ELSE "over"]
    /\ yAsk' = "none" /\ yDelete' = NotDeletingApp
    /\ UNCHANGED <<yRow, yGitHub>>

AppsNext ==
    \/ \E c \in Creators : CheckName(c) \/ create_repository(c) \/ CreationFails(c) \/ InsertRow(c) \/ RecordParent(c)
    \/ \E c \in Creators, ok \in BOOLEAN : create_project(c, ok) \/ LaunchAppPipeline(c, ok)
    \/ (\E ask \in {"start", "stop"} : AskStatus(ask)) \/ WriteStatus
    \/ \E ok \in BOOLEAN : delete_app(ok) \/ CloseParentIssue(ok) \/ delete_project(ok) \/ delete_repository(ok)
    \/ DeleteAppRow \/ RestartApps
AppsSpec == AppsInit /\ [][AppsNext]_yVars

---------------------------------------------------------------------------
(* What exists on GitHub is named by the row, or known to a request that   *)
(* is still at work, or was given up: by a failed creation, by a plain     *)
(* deletion, which keeps the repository, or by a lost race.                *)
Known(c) == yAt[c] \in {"repo", "project", "inserted", "launched"}
AssetsAccounted ==
    \A asset \in Existing :
        asset \in AssetsNamed(yRow) \cup yOrphan \/ Known(asset[2])
=============================================================================
