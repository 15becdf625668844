----------------------------- MODULE MCServices ------------------------------
(****************************************************************************)
(* The services beside the pipelines - chores, apps, repository agents, the *)
(* chat, pipeline configurations and run records, the calls that hand an    *)
(* issue to Copilot and the discovery of its main pull request - for one TLC*)
(* run; they share no state here, and a behaviour runs the part that focus  *)
(* names.                                                                   *)
(****************************************************************************)
EXTENDS Chores, Apps, AgentRows, AgentCommand, ChatProposals, PlanSteps, ChatPlans, ChatSessions, SharedConnection, CopilotAssign, PipelineConfigs, RunRecords, MainPr, ChatMessages, Cleanup, SignalChat, SignalLink

(* What the chat proposes: an issue for a proposal, a launch for a plan.    *)
ProposalsHold == OneIssuePerItem /\ StepsAreOrdered /\ PlanIsAccounted
(* What the chat says: to whom, and with whose action.                      *)
ChatHolds == SessionsKeptApart /\ AnswersHold
(* Rows: what a request reports, pipeline configurations, records of runs.  *)
RowsHold == ReportsAreTrue /\ ConfigsConsistent /\ RecordsAreWhole
(* What is made on GitHub for apps and agents.                              *)
CreationsHold == AssetsAccounted /\ CreationIsWhole
(* An issue in Copilot's hands, and the pull request its work goes to.      *)
CopilotHolds == AssignmentIsReal /\ WorkGoesThroughMain
(* Signal: what was proposed and answered, who is linked and listened to.   *)
SignalHolds == ConversationHolds /\ LinkHolds

VARIABLE focus
Init ==
    /\ focus \in {"chores", "apps", "rows", "command", "proposals", "steps", "plans", "sessions", "connection", "copilot", "configs", "records", "main", "messages", "cleanup", "signal", "link"}
    /\ ChoreInit /\ AppsInit /\ AgentRowsInit /\ AgentCommandInit /\ ProposalInit /\ PlanStepsInit /\ ChatPlansInit /\ ChatSessionsInit /\ ConnectionInit /\ AssignInit /\ ConfigsInit /\ RecordsInit /\ MainInit /\ ChatMessagesInit /\ CleanupInit /\ SignalInit /\ LinkInit
    /\ focus # "proposals" => rKind = "proposal"
    /\ focus # "messages" => mProvider /\ mAgent
    /\ focus # "cleanup" => xBranches = {} /\ xBoard = Issue
    /\ focus = "cleanup" => "top" \in xBoard /\ xPulls = xBranches
    /\ xParent    \* the parent closes later, if at all
    /\ focus # "link" => gAccount /\ Holders # {}
vars == <<focus, kVars, yVars, wVars, vVars, rVars, dVars, zVars, nVars, cVars, sVars, eVars, iVars, jVars, mVars, xVars, hVars, gVars>>
Next ==
    /\ UNCHANGED focus
    /\ \/ focus = "chores" /\ ChoreNext /\ UNCHANGED <<yVars, wVars, vVars, rVars, dVars, zVars, nVars, cVars, sVars, eVars, iVars, jVars, mVars, xVars, hVars, gVars>>
       \/ focus = "apps" /\ AppsNext /\ UNCHANGED <<kVars, wVars, vVars, rVars, dVars, zVars, nVars, cVars, sVars, eVars, iVars, jVars, mVars, xVars, hVars, gVars>>
       \/ focus = "rows" /\ AgentRowsNext /\ UNCHANGED <<kVars, yVars, vVars, rVars, dVars, zVars, nVars, cVars, sVars, eVars, iVars, jVars, mVars, xVars, hVars, gVars>>
       \/ focus = "command" /\ AgentCommandNext /\ UNCHANGED <<kVars, yVars, wVars, rVars, dVars, zVars, nVars, cVars, sVars, eVars, iVars, jVars, mVars, xVars, hVars, gVars>>
       \/ focus = "proposals" /\ ProposalNext /\ UNCHANGED <<kVars, yVars, wVars, vVars, dVars, zVars, nVars, cVars, sVars, eVars, iVars, jVars, mVars, xVars, hVars, gVars>>
       \/ focus = "steps" /\ PlanStepsNext /\ UNCHANGED <<kVars, yVars, wVars, vVars, rVars, zVars, nVars, cVars, sVars, eVars, iVars, jVars, mVars, xVars, hVars, gVars>>
       \/ focus = "plans" /\ ChatPlansNext /\ UNCHANGED <<kVars, yVars, wVars, vVars, rVars, dVars, nVars, cVars, sVars, eVars, iVars, jVars, mVars, xVars, hVars, gVars>>
       \/ focus = "sessions" /\ ChatSessionsNext /\ UNCHANGED <<kVars, yVars, wVars, vVars, rVars, dVars, zVars, cVars, sVars, eVars, iVars, jVars, mVars, xVars, hVars, gVars>>
       \/ focus = "connection" /\ ConnectionNext /\ UNCHANGED <<kVars, yVars, wVars, vVars, rVars, dVars, zVars, nVars, sVars, eVars, iVars, jVars, mVars, xVars, hVars, gVars>>
       \/ focus = "copilot" /\ AssignNext /\ UNCHANGED <<kVars, yVars, wVars, vVars, rVars, dVars, zVars, nVars, cVars, eVars, iVars, jVars, mVars, xVars, hVars, gVars>>
       \/ focus = "configs" /\ ConfigsNext /\ UNCHANGED <<kVars, yVars, wVars, vVars, rVars, dVars, zVars, nVars, cVars, sVars, iVars, jVars, mVars, xVars, hVars, gVars>>
       \/ focus = "records" /\ RecordsNext /\ UNCHANGED <<kVars, yVars, wVars, vVars, rVars, dVars, zVars, nVars, cVars, sVars, eVars, jVars, mVars, xVars, hVars, gVars>>
       \/ focus = "main" /\ MainNext /\ UNCHANGED <<kVars, yVars, wVars, vVars, rVars, dVars, zVars, nVars, cVars, sVars, eVars, iVars, mVars, xVars, hVars, gVars>>
       \/ focus = "messages" /\ ChatMessagesNext /\ UNCHANGED <<kVars, yVars, wVars, vVars, rVars, dVars, zVars, nVars, cVars, sVars, eVars, iVars, jVars, xVars, hVars, gVars>>
       \/ focus = "cleanup" /\ CleanupNext /\ UNCHANGED <<kVars, yVars, wVars, vVars, rVars, dVars, zVars, nVars, cVars, sVars, eVars, iVars, jVars, mVars, hVars, gVars>>
       \/ focus = "signal" /\ SignalNext /\ UNCHANGED <<kVars, yVars, wVars, vVars, rVars, dVars, zVars, nVars, cVars, sVars, eVars, iVars, jVars, mVars, xVars, gVars>>
       \/ focus = "link" /\ LinkNext /\ UNCHANGED <<kVars, yVars, wVars, vVars, rVars, dVars, zVars, nVars, cVars, sVars, eVars, iVars, jVars, mVars, xVars, hVars>>
Spec == Init /\ [][Next]_vars
==============================================================================
