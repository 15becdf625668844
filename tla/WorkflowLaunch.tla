--------------------------- MODULE WorkflowLaunch ---------------------------
(***************************************************************************)
(* Launching an issue, from the orchestrator's execute_full_workflow: the  *)
(* workflow configuration, one object per project that launches share and  *)
(* overwrite, then the issue, its card, its sub-issues, its state and its  *)
(* first agent, while the poll looks at the board and starts what it finds *)
(* there without a state.                                                  *)
(*                                                                         *)
(* A pipeline is named by its first agent; the later ones are              *)
(* PipelineExec's.  The pending mark does not expire here (TriggerGuard    *)
(* has that), and the first group is not parallel.                         *)
(***************************************************************************)
EXTENDS Naturals, FiniteSets

CONSTANTS Launches,     \* launches under way, each of an issue of its own
          Followed,     \* those that are followed beyond their issue
          Pipelines,    \* pipelines to choose from
          LaunchFaults  \* bound on failing calls and restarts

ASSUME LaunchAssumption ==
    /\ Followed \subseteq Launches /\ LaunchFaults \in Nat
    /\ "none" \notin Pipelines \cup Launches /\ "nothing" \notin Pipelines

VARIABLES
    oObject,   \* each configuration object's mappings
    oCache,    \* _workflow_configs: an object, or none
    oRow,      \* the mappings in the database
    oLoad,     \* mappings a read of the row has returned to each reader, or none
    oWrite,    \* mappings each launch has yet to write to the row, or none
    oRaced,    \* a load or a write of the row came after a later one of the cache
    oAt,       \* each launch: idle, config, issue, board, subs, state, assign, trigger, asking,
               \* asked, done, failed
    oMine,     \* the object each launch holds
    oChosen,   \* the pipeline chosen for it
    oMixed,    \* its object was overwritten by another launch
    oTable,    \* GitHub: the agents in the issue's body
    oBoard,    \* GitHub: the issue is in the first column of the board
    oSubs,     \* GitHub: the sub-issues attached to it, [agent, nth]
    oStore,    \* its sub-issues in memory
    oState,    \* its pipeline state: the agent, or none
    oMark,     \* agents marked as pending
    oActive,   \* GitHub: agents the table shows as active
    oPoll,     \* the poll at the issue: idle, assign, trigger, asking, asked
    oBlind,    \* the poll began to start it without a view of all its sub-issues
    oAssigned, \* GitHub: assignments of the issue's first agent
    oForgotten,\* as many of them as the program has lost sight of
    oFaults

oConfig == <<oObject, oCache, oRow, oLoad, oWrite, oRaced>>
oLaunch == <<oAt, oMine, oChosen, oMixed>>
oGitHub == <<oTable, oBoard, oSubs, oActive, oAssigned>>
oMemory == <<oStore, oState, oMark, oPoll, oBlind, oForgotten>>
oVars == <<oConfig, oLaunch, oGitHub, oMemory, oFaults>>
Each(value) == [l \in Launches |-> value]

LaunchInit ==
    /\ oObject = [o \in Launches |-> "none"] /\ oCache = "none" /\ oRow = "none"
    /\ oLoad = [o \in Launches |-> "nothing"] /\ oWrite = Each("none") /\ oRaced = FALSE
    /\ oAt = Each("idle") /\ oMine = [l \in Launches |-> l] /\ oChosen = Each("none") /\ oMixed = Each(FALSE)
    /\ oTable = Each("none") /\ oBoard = Each(FALSE) /\ oSubs = Each({}) /\ oActive = Each({}) /\ oAssigned = Each(0)
    /\ oStore = Each({}) /\ oState = Each("none") /\ oMark = Each({}) /\ oPoll = Each("idle") /\ oBlind = Each(FALSE)
    /\ oForgotten = Each(0)
    /\ oFaults = 0

LaunchFault == oFaults < LaunchFaults /\ oFaults' = oFaults + 1
Fine(ok) == IF ok THEN UNCHANGED oFaults ELSE LaunchFault
Goes(l, from, to) == oAt[l] = from /\ oAt' = [oAt EXCEPT ![l] = to]

---------------------------------------------------------------------------
(* config.py: the cached object, or a new one of the row when the read     *)
(* returns; several may read the row at once.                              *)
ReadRow(o) ==
    /\ oCache = "none" /\ oLoad[o] = "nothing" /\ oAt[o] = "idle"
    /\ oLoad' = [oLoad EXCEPT ![o] = oRow]
    /\ UNCHANGED <<oObject, oCache, oRow, oWrite, oRaced, oLaunch, oGitHub, oMemory, oFaults>>
_load_workflow_config_from_db(l) ==
    /\ oLoad[l] # "nothing" /\ oLoad' = [oLoad EXCEPT ![l] = "nothing"]
    /\ Goes(l, "idle", "config") /\ oMine' = [oMine EXCEPT ![l] = l]
    /\ oObject' = [oObject EXCEPT ![l] = oLoad[l]] /\ oCache' = l
    /\ oRaced' = (oRaced \/ (oCache # "none" /\ oObject[oCache] # oLoad[l]))
    /\ UNCHANGED <<oRow, oWrite, oChosen, oMixed, oGitHub, oMemory, oFaults>>
get_workflow_config(l) ==
    /\ oCache # "none" /\ oLoad[l] = "nothing" /\ Goes(l, "idle", "config") /\ oMine' = [oMine EXCEPT ![l] = oCache]
    /\ UNCHANGED <<oChosen, oMixed, oConfig, oGitHub, oMemory, oFaults>>

(* The chosen pipeline's mappings go into the object that is held, the     *)
(* object into the cache, and then the mappings into the row, best effort. *)
KeepMappings(l, p) == IF oObject[oMine[l]] = "none" THEN p ELSE oObject[oMine[l]]
Overwritten(l, p) == p
ToPersist(p) == p
set_workflow_config(l, p) ==
    /\ Goes(l, "config", "issue") /\ oChosen' = [oChosen EXCEPT ![l] = p] /\ UNCHANGED oMine
    /\ oObject' = [oObject EXCEPT ![oMine[l]] = Overwritten(l, p)] /\ oCache' = oMine[l]
    /\ oMixed' = [k \in Launches |-> oMixed[k] \/ (k # l /\ oMine[k] = oMine[l] /\ oAt[k] \notin {"idle", "config"})]
    /\ oWrite' = [oWrite EXCEPT ![l] = ToPersist(p)]
    /\ UNCHANGED <<oRow, oLoad, oRaced, oGitHub, oMemory, oFaults>>
_persist_workflow_config_to_db(l, ok) ==
    /\ oWrite[l] # "none" /\ oWrite' = [oWrite EXCEPT ![l] = "none"] /\ Fine(ok)
    /\ oRow' = IF ok THEN oWrite[l] ELSE oRow
    /\ oRaced' = (oRaced \/ ~ok \/ oCache = "none" \/ oObject[oCache] # oWrite[l])
    /\ UNCHANGED <<oObject, oCache, oLoad, oLaunch, oGitHub, oMemory>>

(* orchestrator.py: without an issue the launch ends; a card that was not  *)
(* made, or did not get its column, goes unnoticed.                        *)
create_issue_from_recommendation(l, ok) ==
    /\ oWrite[l] = "none" /\ Goes(l, "issue", IF ok THEN "board" ELSE "failed") /\ Fine(ok)
    /\ oTable' = IF ok THEN [oTable EXCEPT ![l] = oObject[oMine[l]]] ELSE oTable
    /\ UNCHANGED <<oConfig, oMine, oChosen, oMixed, oBoard, oSubs, oActive, oAssigned, oMemory>>
add_to_project_with_backlog(l, ok) ==
    /\ l \in Followed /\ Goes(l, "board", "subs") /\ Fine(ok) /\ oBoard' = [oBoard EXCEPT ![l] = ok]
    /\ UNCHANGED <<oConfig, oMine, oChosen, oMixed, oTable, oSubs, oActive, oAssigned, oMemory>>

(* create_sub_issue: an issue is made and then attached to its parent.  It *)
(* may fail, or its answer get lost, before the second step, and a failure *)
(* of that step goes unnoticed.                                            *)
SubOutcomes == {"attached", "loose", "failed"}
WithSub(l, agent) == [oSubs EXCEPT ![l] = @ \cup {[agent |-> agent, nth |-> Cardinality(@)]}]
create_sub_issue(l, agent, outcome) ==
    /\ Fine(outcome = "attached")
    /\ oSubs' = IF outcome = "attached" THEN WithSub(l, agent) ELSE oSubs
    /\ oStore' = IF outcome = "failed" THEN oStore ELSE [oStore EXCEPT ![l] = @ \cup {agent}]

(* Without sub-issues there is no state either; the assignment makes one.  *)
create_all_sub_issues(l, outcome) ==
    /\ Goes(l, "subs", IF outcome = "failed" THEN "assign" ELSE "state")
    /\ create_sub_issue(l, oObject[oMine[l]], outcome)
    /\ UNCHANGED <<oConfig, oMine, oChosen, oMixed, oTable, oBoard, oActive, oAssigned, oState, oMark, oPoll, oBlind, oForgotten>>
SetInitialState(l) ==
    /\ Goes(l, "state", "assign") /\ oState' = [oState EXCEPT ![l] = oObject[oMine[l]]]
    /\ UNCHANGED <<oConfig, oMine, oChosen, oMixed, oGitHub, oStore, oMark, oPoll, oBlind, oForgotten, oFaults>>

(* An assignment, by the launch or the poll: the agent that the issue's    *)
(* table names, its sub-issue if one is known or else a new one, a mark,   *)
(* unless another has just set it, Copilot, and the table.                 *)
Ended(by) == IF by = "launch" THEN "done" ELSE "idle"
AssignerGoes(l, by, from, to) ==
    IF by = "launch" THEN Goes(l, from, to) /\ UNCHANGED oPoll
    ELSE oPoll[l] = from /\ oPoll' = [oPoll EXCEPT ![l] = to] /\ UNCHANGED oAt
Launched == <<oConfig, oMine, oChosen, oMixed, oTable, oBoard>>
SubIssueKnown(l) == oTable[l] \in oStore[l]
_resolve_sub_issue(l, by, outcome) ==
    /\ AssignerGoes(l, by, "assign", "trigger")
    /\ IF SubIssueKnown(l) THEN UNCHANGED <<oSubs, oStore, oFaults>> ELSE create_sub_issue(l, oTable[l], outcome)
    /\ oBlind' = [oBlind EXCEPT ![l] = @ \/ (by = "poll" /\ oAt[l] \in {"subs", "state", "assign"})]
    /\ UNCHANGED <<Launched, oActive, oAssigned, oState, oMark, oForgotten>>
RecentlyAssigned(l) == oTable[l] \in oMark[l]
MarkPending(l, by) ==
    /\ AssignerGoes(l, by, "trigger", IF RecentlyAssigned(l) THEN Ended(by) ELSE "asking")
    /\ oMark' = [oMark EXCEPT ![l] = @ \cup {oTable[l]}]
    /\ UNCHANGED <<Launched, oSubs, oActive, oAssigned, oStore, oState, oBlind, oForgotten, oFaults>>
assign_copilot_to_issue(l, by) ==
    /\ AssignerGoes(l, by, "asking", "asked") /\ oAssigned' = [oAssigned EXCEPT ![l] = @ + 1]
    /\ UNCHANGED <<Launched, oSubs, oActive, oStore, oState, oMark, oBlind, oForgotten, oFaults>>

(* A call that failed, or whose answer got lost, is tried again or given   *)
(* up: the mark goes, and the state has the error.                         *)
AssignmentFails(l, by, again) ==
    /\ \E from \in {"asking", "asked"} :
          /\ AssignerGoes(l, by, from, IF again THEN "asking" ELSE Ended(by))
          /\ oForgotten' = IF from = "asked" THEN [oForgotten EXCEPT ![l] = oAssigned[l]] ELSE oForgotten
    /\ LaunchFault
    /\ oMark' = IF again THEN oMark ELSE [oMark EXCEPT ![l] = @ \ {oTable[l]}]
    /\ oState' = IF again THEN oState ELSE [oState EXCEPT ![l] = oTable[l]]
    /\ UNCHANGED <<Launched, oSubs, oActive, oAssigned, oStore, oBlind>>

(* A success is written to the table; that this failed goes unnoticed.     *)
_update_agent_tracking_state(l, by, ok) ==
    /\ AssignerGoes(l, by, "asked", Ended(by)) /\ Fine(ok)
    /\ oActive' = IF ok THEN [oActive EXCEPT ![l] = @ \cup {oTable[l]}] ELSE oActive
    /\ oState' = [oState EXCEPT ![l] = oTable[l]]
    /\ UNCHANGED <<Launched, oSubs, oAssigned, oStore, oMark, oBlind, oForgotten>>
_execute_copilot_assignment(l, by) ==
    \/ MarkPending(l, by) \/ assign_copilot_to_issue(l, by)
    \/ \E outcome \in SubOutcomes : _resolve_sub_issue(l, by, outcome)
    \/ \E ok \in BOOLEAN : AssignmentFails(l, by, ok) \/ _update_agent_tracking_state(l, by, ok)

(* The poll: an issue in the first column whose agent is neither active nor*)
(* marked.  Without a state it makes one of the table and of the sub-issues*)
(* there are.  Each of the two reads may fail: nothing is active then, and *)
(* no sub-issue is found.                                                  *)
Reads == {"both", "no table", "no subs"}
SeenActive(l, read) == IF read = "no table" THEN {} ELSE oActive[l]
NeedsStateToo(l, read) == oTable[l] \notin SeenActive(l, read) \cup oMark[l] /\ oState[l] # "none"
NeedsAgent(l, read) == oTable[l] \notin SeenActive(l, read) \cup oMark[l]
check_backlog_issues(l, read) ==
    /\ oBoard[l] /\ oPoll[l] = "idle" /\ NeedsAgent(l, read) /\ oPoll' = [oPoll EXCEPT ![l] = "assign"]
    /\ Fine(read = "both")
    /\ oState' = [oState EXCEPT ![l] = IF @ = "none" THEN oTable[l] ELSE @]
    /\ oStore' = [oStore EXCEPT ![l] = IF oState[l] = "none" /\ read # "no subs" THEN @ \cup {s.agent : s \in oSubs[l]}
                                       ELSE @]
    /\ oBlind' = [oBlind EXCEPT ![l] = @ \/ oAt[l] \in {"subs", "state", "assign"} \/ read = "no subs"]
    /\ oForgotten' = IF SeenActive(l, read) = oActive[l] THEN oForgotten ELSE [oForgotten EXCEPT ![l] = oAssigned[l]]
    /\ UNCHANGED <<oConfig, oLaunch, oGitHub, oMark>>

(* A restart: states and sub-issues that had been stored come back, marks  *)
(* and what was under way do not.                                          *)
RestartLaunches ==
    /\ LaunchFault
    /\ oCache' = "none" /\ oLoad' = [o \in Launches |-> "nothing"] /\ oWrite' = Each("none")
    /\ oRaced' = (oRaced \/ \E l \in Launches : oWrite[l] # "none")
    /\ oAt' = [l \in Launches |-> IF oAt[l] \in {"idle", "done"} THEN oAt[l] ELSE "failed"]
    /\ \E states \in SUBSET {l \in Launches : oState[l] # "none"}, subs \in SUBSET {l \in Launches : oStore[l] # {}} :
          /\ oState' = [l \in Launches |-> IF l \in states THEN oState[l] ELSE "none"]
          /\ oStore' = [l \in Launches |-> IF l \in subs THEN oStore[l] ELSE {}]
          /\ oBlind' = [l \in Launches |-> oBlind[l] \/ (l \in states /\ oStore'[l] # oStore[l])]
    /\ oForgotten' = [l \in Launches |-> IF oTable[l] \in oActive[l] THEN oForgotten[l] ELSE oAssigned[l]]
    /\ oMark' = Each({}) /\ oPoll' = Each("idle")
    /\ UNCHANGED <<oObject, oRow, oMine, oChosen, oMixed, oGitHub>>

LaunchStep(l) ==
    \/ _load_workflow_config_from_db(l) \/ SetInitialState(l) \/ _execute_copilot_assignment(l, "launch")
    \/ \E p \in Pipelines : set_workflow_config(l, p)
    \/ \E ok \in BOOLEAN :
          \/ _persist_workflow_config_to_db(l, ok) \/ create_issue_from_recommendation(l, ok)
          \/ add_to_project_with_backlog(l, ok)
    \/ \E outcome \in SubOutcomes : create_all_sub_issues(l, outcome)
PollAtIssue(l) == _execute_copilot_assignment(l, "poll") \/ \E read \in Reads : check_backlog_issues(l, read)
LaunchNext ==
    \/ RestartLaunches
    \/ \E l \in Launches : ReadRow(l) \/ get_workflow_config(l) \/ LaunchStep(l) \/ PollAtIssue(l)

(* A launch goes on once it has begun, and every cycle looks at each issue.*)
LaunchFairness == \A l \in Launches : WF_oVars(LaunchStep(l)) /\ WF_oVars(PollAtIssue(l))
LaunchSpec == LaunchInit /\ [][LaunchNext]_oVars /\ LaunchFairness

---------------------------------------------------------------------------
(* The issue's table names the pipeline that was chosen for it, unless     *)
(* another launch overwrote the configuration that this one holds.         *)
LaunchedAsChosen ==
    \A l \in Launches : oTable[l] # "none" /\ ~oMixed[l] => oTable[l] = oChosen[l]

(* An agent has one sub-issue attached to the issue, unless the poll came  *)
(* between the card and the state, could not read the sub-issues or was    *)
(* left with a state and no sub-issues by a restart.                       *)
OneSubIssue ==
    \A l \in Launches : oBlind[l] \/ \A s, t \in oSubs[l] : s.agent = t.agent => s = t

(* With no write to come the row has the mappings of the cached object: a  *)
(* restart brings them back, unless a write failed or overlapping reads    *)
(* and writes left the two apart.                                          *)
ConfigIsStored ==
    oRaced \/ oCache = "none" \/ (\E l \in Launches : oWrite[l] # "none") \/ oRow = oObject[oCache]

(* A launched issue gets its first agent once, whoever of the launch and   *)
(* the poll comes first, and once more for each assignment the program has *)
(* lost sight of: its answer was lost, a restart came before its row in the*)
(* table, or the table could not be read.                                  *)
FirstAgentOnce == \A l \in Launches : oAssigned[l] <= 1 + oForgotten[l]
LaunchedIsStarted == \A l \in Followed : oBoard[l] ~> oAssigned[l] > 0

(* A launch as a whole: the chosen pipeline, one sub-issue for each agent, *)
(* one first assignment, and a configuration that survives.                *)
LaunchIsOnce == LaunchedAsChosen /\ OneSubIssue /\ ConfigIsStored /\ FirstAgentOnce
=============================================================================
