----------------------------- MODULE AgentRows -----------------------------
(***************************************************************************)
(* A custom agent lives in two places: its file on the repository's default*)
(* branch, which only merged pull requests change, and a row of            *)
(* agent_configs, which holds what is pending.  Each request opens its pull*)
(* request first and writes the row after; listing the agents drops the    *)
(* rows whose pull request has come true, by a list cached for 15 minutes. *)
(* The rows of one slug are not told apart, nor its pull requests of a kind*)
(***************************************************************************)
EXTENDS Naturals, FiniteSets

CONSTANTS Callers,     \* requests under way at a time
          RowFaults    \* bound on failing calls

Cache == "cache"
ASSUME AgentRowsAssumption == IsFiniteSet(Callers) /\ Cache \notin Callers /\ RowFaults \in Nat

Kinds == {"add", "delete"}

VARIABLES
    wRow,      \* the row's lifecycle status, or none
    wFile,     \* the agent's file is on the default branch
    wPulls,    \* the kinds of its open pull requests: to add or change the file, to delete it
    wCache,    \* the cached list of agents: none valid, or whether the agent is in it
    wOld,      \* where a list is older than the file's last change: a request, or Cache
    wAt,       \* each request: its kind and step
    wOverlap,  \* requests that had passed their check when a deletion was recorded
    wFaults

wVars == <<wRow, wFile, wPulls, wCache, wOld, wAt, wOverlap, wFaults>>
wRepo == <<wFile, wPulls>>
Rest == [kind |-> "none", step |-> "idle"]

AgentRowsInit ==
    /\ wRow = "none" /\ wFile = FALSE /\ wPulls = {} /\ wCache = "none" /\ wOld = {}
    /\ wAt = [u \in Callers |-> Rest] /\ wOverlap = {} /\ wFaults = 0

RowFault == wFaults < RowFaults /\ wFaults' = wFaults + 1
Idle(u) == wAt[u] = Rest
To(u, kind, step) == wAt' = [wAt EXCEPT ![u] = [kind |-> kind, step |-> step]]
Ends(u) == wAt' = [wAt EXCEPT ![u] = Rest] /\ wOverlap' = wOverlap \ {u}
Begins(u, kind) ==
    Idle(u) /\ To(u, kind, "commit") /\ UNCHANGED <<wRow, wRepo, wCache, wOld, wOverlap, wFaults>>
HasRow == wRow # "none"
Listed == HasRow \/ wCache = "present" \/ (wCache = "none" /\ wFile)

---------------------------------------------------------------------------
(* list_agents reads the cached list, or the repository; a repository that *)
(* cannot be read gives the stale list and drops nothing.  What the list   *)
(* says is used after more awaits.                                         *)
list_agents(u) ==
    /\ Idle(u)
    /\ IF wCache = "none"
       THEN wCache' = (IF wFile THEN "present" ELSE "absent") /\ wOld' = wOld \ {Cache, u}
       ELSE UNCHANGED wCache /\ wOld' = IF Cache \in wOld THEN wOld \cup {u} ELSE wOld \ {u}
    /\ To(u, "list", wCache')
    /\ UNCHANGED <<wRow, wRepo, wOverlap, wFaults>>
ListUnavailable(u) ==
    /\ Idle(u) /\ wCache = "none" /\ RowFault
    /\ UNCHANGED <<wRow, wRepo, wCache, wOld, wAt, wOverlap>>
DropsWhatIsListed(list) == wRow \in {"pending_pr", "pending_deletion"} /\ list = "present"
Resolved(list) ==
    \/ wRow = "pending_pr" /\ list = "present"
    \/ wRow = "pending_deletion" /\ list = "absent"
_cleanup_resolved_pending_agents(u) ==
    /\ wAt[u].kind = "list" /\ Ends(u)
    /\ wRow' = IF Resolved(wAt[u].step) THEN "none" ELSE wRow
    /\ UNCHANGED <<wRepo, wCache, wOld, wFaults>>
purge_pending_agents(u) ==
    /\ Idle(u) /\ HasRow /\ wRow # "active" /\ wRow' = "none"
    /\ UNCHANGED <<wRepo, wCache, wOld, wAt, wOverlap, wFaults>>

(* The checks with which the requests begin.  A file that cannot be looked *)
(* up does not keep an agent from being created.                           *)
create_agent(u, looked) ==
    /\ Idle(u) /\ ~HasRow /\ (looked => ~wFile) /\ (IF looked THEN UNCHANGED wFaults ELSE RowFault)
    /\ To(u, "create", "commit")
    /\ UNCHANGED <<wRow, wRepo, wCache, wOld, wOverlap>>
import_agent(u) ==
    /\ Idle(u) /\ ~HasRow /\ wRow' = "imported"
    /\ UNCHANGED <<wRepo, wCache, wOld, wAt, wOverlap, wFaults>>
install_agent(u) == wRow = "imported" /\ Begins(u, "install")
delete_agent(u) == Listed /\ wRow # "pending_deletion" /\ Begins(u, "delete")
Editable == Listed /\ wRow # "pending_deletion"
update_agent(u) == Editable /\ Begins(u, "update")
_save_runtime_preferences(u) ==
    /\ Idle(u) /\ Listed /\ wRow # "pending_deletion"
    /\ wRow' = IF HasRow THEN wRow ELSE "active"
    /\ UNCHANGED <<wRepo, wCache, wOld, wAt, wOverlap, wFaults>>

(* commit_files_workflow: branch, commit, pull request; then the row.      *)
commit_files_workflow(u) ==
    /\ wAt[u].step = "commit" /\ To(u, wAt[u].kind, "write")
    /\ wPulls' = wPulls \cup {IF wAt[u].kind = "delete" THEN "delete" ELSE "add"}
    /\ UNCHANGED <<wRow, wFile, wCache, wOld, wOverlap, wFaults>>
CommitFails(u) ==
    /\ wAt[u].step = "commit" /\ RowFault /\ Ends(u)
    /\ UNCHANGED <<wRow, wRepo, wCache, wOld>>
RowWritten(u, status) ==
    /\ wAt[u].step = "write"
    /\ wRow' = status /\ Ends(u)
    /\ UNCHANGED <<wRepo, wFaults>>
RecordCreated(u) ==
    /\ wAt[u] = [kind |-> "create", step |-> "write"] /\ Ends(u)
    /\ wRow' = IF HasRow THEN wRow ELSE "pending_pr"
    /\ UNCHANGED <<wRepo, wCache, wOld, wFaults>>
RecordInstalled(u) ==
    /\ wAt[u].kind = "install" /\ RowWritten(u, IF HasRow THEN "installed" ELSE "none")
    /\ wCache' = "none" /\ UNCHANGED wOld
RecordUpdated(u) ==
    /\ wAt[u].kind = "update" /\ UNCHANGED <<wCache, wOld>>
    /\ RowWritten(u, "pending_pr") \/ (~HasRow /\ RowWritten(u, "none"))  \* the row it read may be gone
_mark_agent_pending_deletion(u) ==
    /\ wAt[u] = [kind |-> "delete", step |-> "write"]
    /\ wRow' = "pending_deletion" /\ wAt' = [wAt EXCEPT ![u] = Rest]
    /\ wOverlap' = {v \in Callers \ {u} : wAt[v].step \in {"commit", "write"}}
    /\ UNCHANGED <<wRepo, wCache, wOld, wFaults>>

MergePull(kind) ==
    /\ kind \in wPulls /\ wPulls' \in {wPulls, wPulls \ {kind}} /\ wFile' = (kind # "delete")
    /\ wOld' = IF wFile' = wFile THEN wOld ELSE {Cache} \cup {u \in Callers : wAt[u].kind = "list"}
    /\ UNCHANGED <<wRow, wCache, wAt, wOverlap, wFaults>>
ClosePull(kind) ==
    /\ kind \in wPulls /\ wPulls' = wPulls \ {kind}
    /\ UNCHANGED <<wRow, wFile, wCache, wOld, wAt, wOverlap, wFaults>>
CacheExpires ==
    /\ wCache \in {"present", "absent"} /\ wCache' = "none"
    /\ UNCHANGED <<wRow, wRepo, wOld, wAt, wOverlap, wFaults>>

AgentRowsNext ==
    \/ \E u \in Callers :
          \/ list_agents(u) \/ ListUnavailable(u) \/ _cleanup_resolved_pending_agents(u) \/ purge_pending_agents(u)
          \/ (\E looked \in BOOLEAN : create_agent(u, looked)) \/ import_agent(u) \/ install_agent(u)
          \/ delete_agent(u) \/ update_agent(u) \/ _save_runtime_preferences(u)
          \/ commit_files_workflow(u) \/ CommitFails(u) \/ RecordCreated(u)
          \/ RecordInstalled(u) \/ RecordUpdated(u) \/ _mark_agent_pending_deletion(u)
    \/ (\E kind \in Kinds : MergePull(kind) \/ ClosePull(kind)) \/ CacheExpires
AgentRowsSpec == AgentRowsInit /\ [][AgentRowsNext]_wVars

---------------------------------------------------------------------------
(* Listing drops the row of a pending deletion only when the file is gone, *)
(* unless the list it goes by is older than the file's last change: the    *)
(* agent does not reappear as an active one while its deletion is open.    *)
DropsResolvedOnly ==
    [][\A u \in Callers :
          wAt[u].kind = "list" /\ wRow = "pending_deletion" /\ wRow' = "none" /\ Idle(u)' =>
              ~wFile \/ u \in wOld]_wVars

(* A pending deletion is not undone by an edit: its row goes by being      *)
(* dropped or purged, or by a request that had passed its check before the *)
(* deletion was recorded.                                                  *)
DeletionNotUndone ==
    [][wRow = "pending_deletion" /\ wRow' \notin {"pending_deletion", "none"} =>
          \E u \in wOverlap : wAt[u].step = "write" /\ Idle(u)']_wVars

(* The rows as a whole: a pending deletion ends with the file's and by     *)
(* nothing else.                                                           *)
DeletionsHold == DropsResolvedOnly /\ DeletionNotUndone
=============================================================================
