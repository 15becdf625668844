------------------------------ MODULE ChatPlans ------------------------------
(***************************************************************************)
(* A plan of the chat's plan mode: saved and saved again by the agent's    *)
(* tool, versioned by a hook of the streaming run, edited, and approved    *)
(* once into one GitHub issue with its pipeline.  Every request reads the  *)
(* plan, awaits, and writes.                                               *)
(***************************************************************************)
EXTENDS Naturals, FiniteSets

CONSTANTS PlanRequests,  \* requests and runs handled at a time
          MaxContent,    \* bound on contents the plan has had
          PlanFaults     \* bound on failing launches and restarts

ASSUME ChatPlansAssumption == MaxContent \in Nat /\ PlanFaults \in Nat

VARIABLES
    zStatus,    \* none, draft, approved, completed, failed
    zContent,   \* which content the plan has
    zParent,    \* it knows its parent issue
    zVersion,   \* its version
    zHistory,   \* versions kept, each with the content it holds
    zWork,      \* each request: what it does, the plan it read
    zLaunches,  \* issues created for it
    zAgain,     \* approvals may have overlapped, or a save made the plan a draft again
    zFaults

zVars == <<zStatus, zContent, zParent, zVersion, zHistory, zWork, zLaunches, zAgain, zFaults>>
NoTask == [at |-> "idle", content |-> 0, version |-> 0]

ChatPlansInit ==
    /\ zStatus = "none" /\ zContent = 0 /\ zParent = FALSE /\ zVersion = 1 /\ zHistory = {}
    /\ zWork = [x \in PlanRequests |-> NoTask] /\ zLaunches = 0 /\ zAgain = FALSE /\ zFaults = 0

PlanFault == zFaults < PlanFaults /\ zFaults' = zFaults + 1
PlanIdle(x) == zWork[x].at = "idle"
Doing(x, at) == zWork[x].at = at
Turns(x, at) == zWork' = [zWork EXCEPT ![x] = [at |-> at, content |-> zContent, version |-> zVersion]]
GoesOn(x, at) == zWork' = [zWork EXCEPT ![x].at = at]
Finishes(x) == zWork' = [zWork EXCEPT ![x] = NoTask]
Fields == <<zContent, zParent, zVersion, zHistory>>
NewContent == zContent < MaxContent /\ zContent' = zContent + 1

---------------------------------------------------------------------------
(* The save_plan tool: it refuses what is not a draft, then writes the     *)
(* whole plan as a draft without a parent issue, keeping the version.      *)
save_plan(x) ==
    /\ PlanIdle(x) /\ zStatus \in {"none", "draft"} /\ Turns(x, "save")
    /\ UNCHANGED <<zStatus, Fields, zLaunches, zAgain, zFaults>>
StorePlan(x, streaming) ==
    /\ Doing(x, "save") /\ NewContent /\ zStatus' = "draft" /\ zParent' = FALSE
    /\ zAgain' = (zAgain \/ zStatus \notin {"none", "draft"})
    /\ IF streaming THEN GoesOn(x, "hook") ELSE Finishes(x)
    /\ UNCHANGED <<zVersion, zHistory, zLaunches, zFaults>>

(* The hook reads the plan and keeps it as its version; a version that is  *)
(* there already is left alone, and then the plan's version stays too.     *)
on_pre_tool_use_hook(x) ==
    /\ Doing(x, "hook") /\ Turns(x, "snapshot") /\ UNCHANGED <<zStatus, Fields, zLaunches, zAgain, zFaults>>
VersionIsNew(x) == \A h \in zHistory : h.version # zWork[x].version
snapshot_plan_version(x) ==
    /\ Doing(x, "snapshot") /\ Finishes(x)
    /\ IF VersionIsNew(x)
       THEN /\ zHistory' = zHistory \cup {[version |-> zWork[x].version, content |-> zWork[x].content]}
            /\ zVersion' = zVersion + 1
       ELSE UNCHANGED <<zHistory, zVersion>>
    /\ UNCHANGED <<zStatus, zContent, zParent, zLaunches, zAgain, zFaults>>

(* Title and summary, by the user.                                         *)
UpdateReads(x) ==
    /\ PlanIdle(x) /\ zStatus = "draft" /\ Turns(x, "update") /\ UNCHANGED <<zStatus, Fields, zLaunches, zAgain, zFaults>>
update_plan(x) ==
    /\ Doing(x, "update") /\ NewContent /\ Finishes(x)
    /\ UNCHANGED <<zStatus, zParent, zVersion, zHistory, zLaunches, zAgain, zFaults>>

(* Approval: of a draft, marked before the launch and settled after it.    *)
(* The issue has the content that was read.                                *)
IsDraft == zStatus = "draft"
approve_plan(x) ==
    /\ PlanIdle(x) /\ IsDraft /\ Turns(x, "approve")
    /\ zAgain' = (zAgain \/ \E z \in PlanRequests : Doing(z, "approve"))
    /\ UNCHANGED <<zStatus, Fields, zLaunches, zFaults>>
MarkApproved(x) ==
    /\ Doing(x, "approve") /\ GoesOn(x, "launch") /\ zStatus' = "approved"
    /\ UNCHANGED <<Fields, zLaunches, zAgain, zFaults>>
execute_pipeline_launch(x) ==
    /\ Doing(x, "launch") /\ GoesOn(x, "record") /\ zLaunches' = zLaunches + 1
    /\ UNCHANGED <<zStatus, Fields, zAgain, zFaults>>
LaunchFails(x) ==
    /\ Doing(x, "launch") /\ PlanFault /\ Finishes(x) /\ zStatus' = "failed"
    /\ UNCHANGED <<Fields, zLaunches, zAgain>>
update_plan_parent_issue(x) ==
    /\ Doing(x, "record") /\ GoesOn(x, "complete") /\ zParent' = TRUE
    /\ UNCHANGED <<zStatus, zContent, zVersion, zHistory, zLaunches, zAgain, zFaults>>
CompletePlan(x) ==
    /\ Doing(x, "complete") /\ Finishes(x) /\ zStatus' = "completed"
    /\ UNCHANGED <<Fields, zLaunches, zAgain, zFaults>>

RestartPlans ==
    /\ PlanFault /\ zWork' = [x \in PlanRequests |-> NoTask]
    /\ UNCHANGED <<zStatus, Fields, zLaunches, zAgain>>

ChatPlansNext ==
    \/ RestartPlans
    \/ \E x \in PlanRequests, streaming \in BOOLEAN : StorePlan(x, streaming)
    \/ \E x \in PlanRequests :
          \/ save_plan(x) \/ on_pre_tool_use_hook(x) \/ snapshot_plan_version(x) \/ UpdateReads(x) \/ update_plan(x)
          \/ approve_plan(x) \/ MarkApproved(x) \/ execute_pipeline_launch(x) \/ LaunchFails(x)
          \/ update_plan_parent_issue(x) \/ CompletePlan(x)
ChatPlansSpec == ChatPlansInit /\ [][ChatPlansNext]_zVars

---------------------------------------------------------------------------
(* A plan becomes one issue, unless two approvals both read the draft or a *)
(* save that had read it wrote the plan back to a draft.                   *)
OnePlanLaunch == zLaunches <= 1 \/ zAgain

(* The history has each version up to the plan's own exactly once, however *)
(* the hooks of two runs overlap.                                          *)
VersionsWithoutGap ==
    /\ {h.version : h \in zHistory} = 1..(zVersion - 1)
    /\ Cardinality(zHistory) = zVersion - 1

(* The plan as a whole: launched once, with a history that misses nothing. *)
PlanIsAccounted == OnePlanLaunch /\ VersionsWithoutGap
=============================================================================
