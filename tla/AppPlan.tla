------------------------------ MODULE AppPlan ------------------------------
(***************************************************************************)
(* Plan-driven creation of an app: one background task runs the plan agent,*)
(* waits for speckit.plan on a planning issue, parses plan.md into phases  *)
(* with dependencies, opens an issue per phase and launches a pipeline per *)
(* phase, wave by wave.  A row in SQLite holds the status that users read  *)
(* and a user may cancel.                                                  *)
(***************************************************************************)
EXTENDS Naturals, FiniteSets

CONSTANTS MaxPhases,   \* bound on the phases of plan.md
          PlanPolls,   \* polls for the agent's Done! comment before speckit.plan times out
          PlanFaults   \* bound on failing calls, timeouts and restarts

ASSUME AppPlanAssumption == {MaxPhases, PlanPolls, PlanFaults} \subseteq Nat

Phases == 1 .. MaxPhases
Plans == UNION {[1 .. n -> SUBSET Phases] : n \in 0 .. MaxPhases}

VARIABLES
    aRow,       \* the row: its status and how many phase issues it records
    aAt,        \* where the background task is
    aPlan,      \* the phases of plan.md and what each depends on
    aPlanning,  \* the planning issue: none, open, closed
    aPolls,
    aMade,      \* phase issues opened, in plan order
    aTried,     \* phases whose launch was attempted
    aResolved,  \* phases of the waves that are behind it
    aLaunched,  \* phases with a pipeline
    aLost,      \* planning: its closing call failed; status: a write failed; task: a restart
    aFaults

aVars == <<aRow, aAt, aPlan, aPlanning, aPolls, aMade, aTried, aResolved, aLaunched, aLost, aFaults>>
aWork == <<aPlan, aPlanning, aPolls, aMade, aTried, aResolved, aLaunched>>
aRest == <<aLost, aFaults>>

AppPlanInit ==
    /\ aRow = [status |-> "none", issues |-> 0] /\ aAt = "idle" /\ aPlan = <<>>
    /\ aPlanning = "none" /\ aPolls = 0 /\ aMade = 0 /\ aTried = {} /\ aResolved = {}
    /\ aLaunched = {} /\ aLost = {} /\ aFaults = 0

PlanFault == aFaults < PlanFaults /\ aFaults' = aFaults + 1
SpeckitStages == {"assign", "wait", "read", "close_ok", "close_failed"}

(* _update_status writes the status whatever the row says; a failing write *)
(* is swallowed.                                                           *)
_update_status(status) ==
    \/ aRow' = [aRow EXCEPT !.status = status] /\ UNCHANGED aRest
    \/ PlanFault /\ aLost' = aLost \cup {"status"} /\ UNCHANGED aRow
Enter(stage) == aAt' = stage
Proceeds(stage) == Enter(stage) /\ UNCHANGED <<aRow, aRest>>

---------------------------------------------------------------------------
create_with_plan ==
    /\ aRow.status = "none"
    /\ aRow' = [status |-> "planning", issues |-> 0] /\ Enter("plan")
    /\ UNCHANGED <<aWork, aRest>>
_run_plan_agent == aAt = "plan" /\ Enter("issue") /\ _update_status("speckit_running") /\ UNCHANGED aWork

(* _run_speckit_plan: the issue, the assignment, the wait, the file; the   *)
(* finally block closes the issue on the way out of each of these.         *)
OpenPlanningIssue ==
    /\ aAt = "issue" /\ aPlanning' = "open" /\ Proceeds("assign")
    /\ UNCHANGED <<aPlan, aPolls, aMade, aTried, aResolved, aLaunched>>
AssignSpeckit == aAt = "assign" /\ Proceeds("wait") /\ UNCHANGED aWork
PollSpeckit(done) ==
    /\ aAt = "wait" /\ aPolls < PlanPolls /\ aPolls' = aPolls + 1
    /\ Proceeds(IF done THEN "read" ELSE IF aPolls + 1 = PlanPolls THEN "close_failed" ELSE "wait")
    /\ UNCHANGED <<aPlan, aPlanning, aMade, aTried, aResolved, aLaunched>>
ReadPlan(found) == aAt = "read" /\ Proceeds(IF found THEN "close_ok" ELSE "close_failed") /\ UNCHANGED aWork
CloseAlways == aAt \in {"close_ok", "close_failed"}
Outcome ==
    \/ aAt = "close_ok" /\ Enter("parse") /\ _update_status("parsing_phases")
    \/ aAt = "close_failed" /\ Proceeds("fail")
ClosePlanningIssue ==
    /\ aAt \in {"close_ok", "close_failed"} /\ Outcome
    /\ aPlanning' = IF CloseAlways THEN "closed" ELSE aPlanning
    /\ UNCHANGED <<aPlan, aPolls, aMade, aTried, aResolved, aLaunched>>
ClosingFails ==
    /\ aAt \in {"close_ok", "close_failed"} /\ PlanFault /\ aLost' = aLost \cup {"planning"}
    /\ aAt' = (IF aAt = "close_ok" THEN "parse" ELSE "fail")
    /\ aRow' = [aRow EXCEPT !.status = IF aAt = "close_ok" THEN "parsing_phases" ELSE @]
    /\ UNCHANGED <<aWork>>

(* parse_plan refuses an empty plan, a dependency on no phase and a cycle; *)
(* group_into_waves needs a phase whose dependencies are resolved at each  *)
(* turn.                                                                   *)
Cyclic(plan) == \E set \in SUBSET DOMAIN plan : set # {} /\ \A p \in set : plan[p] \cap set # {}
parse_plan(plan) ==
    DOMAIN plan # {} /\ (\A p \in DOMAIN plan : plan[p] \subseteq DOMAIN plan) /\ ~Cyclic(plan)
ParsePlan(plan) ==
    /\ aAt = "parse" /\ aPlan' = plan
    /\ IF parse_plan(plan) THEN Enter("phases") /\ _update_status("creating_issues") ELSE Proceeds("fail")
    /\ UNCHANGED <<aPlanning, aPolls, aMade, aTried, aResolved, aLaunched>>

_create_phase_issues ==
    /\ aAt = "phases" /\ aMade' = aMade + 1
    /\ IF aMade' = Cardinality(DOMAIN aPlan)
       THEN Enter("launch") /\ _update_status("launching_pipelines")
       ELSE Proceeds("phases")
    /\ UNCHANGED <<aPlan, aPlanning, aPolls, aTried, aResolved, aLaunched>>

(* A wave is every phase whose dependencies lie in earlier waves; it is    *)
(* launched in plan order, and the next one follows.  A launch that fails  *)
(* is skipped.                                                             *)
WaveInPlanOrder(resolved) == DOMAIN aPlan \ resolved
group_into_waves(resolved) == {p \in DOMAIN aPlan \ resolved : aPlan[p] \subseteq resolved}
CurrentWave == group_into_waves(aResolved)
_launch_phase_pipelines(launches) ==
    /\ aAt = "launch"
    /\ \E p \in CurrentWave \ aTried :
          /\ \A q \in CurrentWave \ aTried : p <= q
          /\ aTried' = aTried \cup {p}
          /\ aLaunched' = IF launches THEN aLaunched \cup {p} ELSE aLaunched
    /\ aResolved' = IF CurrentWave \subseteq aTried' THEN aResolved \cup CurrentWave ELSE aResolved
    /\ aAt' = (IF aTried' = DOMAIN aPlan THEN "activate" ELSE "launch")
    /\ IF launches THEN UNCHANGED aFaults ELSE PlanFault
    /\ UNCHANGED <<aRow, aPlan, aPlanning, aPolls, aMade, aLost>>

(* The end: the status, then the record with the issue numbers.            *)
Activate == aAt = "activate" /\ Enter("save") /\ _update_status("active") /\ UNCHANGED aWork
Saved(status, issues) ==
    \/ aRow' = [status |-> status, issues |-> issues] /\ UNCHANGED aRest
    \/ PlanFault /\ aLost' = aLost \cup {"status"} /\ UNCHANGED aRow
_save_orchestration == aAt = "save" /\ Enter("idle") /\ Saved("active", aMade) /\ UNCHANGED aWork
LeaveStatus == aAt = "fail" /\ Proceeds("idle") /\ UNCHANGED aWork
MarkFailed == aAt = "fail" /\ Enter("save_failed") /\ _update_status("failed") /\ UNCHANGED aWork
SaveFailed == aAt = "save_failed" /\ Enter("idle") /\ Saved("failed", aRow.issues) /\ UNCHANGED aWork

(* Any call may raise; the orchestration's own timeout may strike at any of*)
(* them, also in the finally block, whose closing call it then cuts short. *)
orchestration_fails ==
    /\ aAt \in {"plan", "issue", "assign", "wait", "read", "parse", "phases", "launch"} /\ PlanFault
    /\ aAt' = (IF aAt \in SpeckitStages THEN "close_failed" ELSE "fail")
    /\ UNCHANGED <<aRow, aWork, aLost>>
TimesOutLate ==
    /\ aAt \in {"close_ok", "close_failed", "activate", "save"} /\ PlanFault /\ Enter("fail")
    /\ aLost' = IF aAt \in SpeckitStages THEN aLost \cup {"planning"} ELSE aLost
    /\ UNCHANGED <<aRow, aWork>>

cancel_plan_orchestration ==
    /\ aRow.status \notin {"none", "active", "failed"}
    /\ aRow' = [aRow EXCEPT !.status = "failed"]
    /\ UNCHANGED <<aAt, aWork, aLost, aFaults>>
RestartAppPlan ==
    /\ aAt # "idle" /\ PlanFault /\ Enter("idle") /\ aLost' = aLost \cup {"task"}
    /\ UNCHANGED <<aRow, aWork>>

AppPlanStep ==
    \/ _run_plan_agent \/ OpenPlanningIssue \/ AssignSpeckit \/ (\E done \in BOOLEAN : PollSpeckit(done))
    \/ (\E found \in BOOLEAN : ReadPlan(found)) \/ ClosePlanningIssue
    \/ (\E plan \in Plans : ParsePlan(plan)) \/ _create_phase_issues
    \/ (\E launches \in BOOLEAN : _launch_phase_pipelines(launches))
    \/ Activate \/ _save_orchestration \/ MarkFailed \/ SaveFailed
AppPlanNext ==
    \/ create_with_plan \/ AppPlanStep \/ ClosingFails \/ orchestration_fails \/ TimesOutLate
    \/ cancel_plan_orchestration \/ RestartAppPlan
(* The task runs until it ends, as the event loop schedules it.            *)
AppPlanFairness == WF_aVars(AppPlanStep)
AppPlanSpec == AppPlanInit /\ [][AppPlanNext]_aVars

---------------------------------------------------------------------------
(* The planning issue is open only while speckit.plan is awaited: success, *)
(* failure and timeout all close it, unless the closing call is lost.      *)
PlanningIssueClosed ==
    aPlanning = "open" => aAt \in SpeckitStages \/ aLost \cap {"planning", "task"} # {}

(* A plan that parses falls into waves that reach every phase: the launch  *)
(* of each is tried, none before the launch of those it depends on, and an *)
(* active app has an issue for each.  A launch that fails is passed over:  *)
(* its dependents are launched all the same and the app becomes active.    *)
(* Only while no call fails is what was tried also launched.               *)
WavesAreTriedInOrder ==
    /\ \A p \in aTried : aPlan[p] \subseteq aTried
    /\ aRow.status = "active" => aTried = DOMAIN aPlan /\ aMade = Cardinality(DOMAIN aPlan)
    /\ aLaunched \subseteq aTried /\ (aFaults = 0 => aLaunched = aTried)

(* The task ends, and the row with it: users do not wait for ever for a    *)
(* creation whose task is over, unless a write was lost or the server went *)
(* down, which nothing repairs.                                            *)
CreationSettles ==
    (aAt # "idle") ~> (aAt = "idle" /\ (aRow.status \in {"active", "failed"} \/ aLost # {}))

(* The creation of a planned app as a whole: no planning issue left open,  *)
(* and no phase tried before what it needs.                                *)
AppFollowsPlan == PlanningIssueClosed /\ WavesAreTriedInOrder
=============================================================================
