-------------------------- MODULE PollingLifecycle --------------------------
(***************************************************************************)
(* Who polls which project: ensure_polling_started, stop_polling, the main *)
(* loop of polling_loop.py, the loops scoped to an app's project, the      *)
(* registry of projects, and the watchdog that restarts and re-registers.  *)
(*                                                                         *)
(* is_running is one flag for whichever task is the loop, and a cancelled  *)
(* task clears it when its own finally clause gets to run, possibly after a*)
(* successor was started.                                                  *)
(***************************************************************************)
EXTENDS Naturals, FiniteSets

CONSTANTS Projects,   \* boards with pipelines
          Selected,   \* projects that some user session has selected
          AppProjects,\* projects on a repository of their own, with a scoped loop
          Fallback,   \* the project of the webhook token's configuration
          Slots,      \* asyncio tasks that run or unwind at the same time
          MaxStops    \* bound on stops, launches and lost states

Nobody == "nobody"
Unregistered == 3          \* age of no registration; 2 watchdog rounds make 60 s

ASSUME LifecycleAssumption ==
    /\ IsFiniteSet(Projects) /\ (Selected \cup AppProjects) \subseteq Projects /\ Fallback \in Projects
    /\ IsFiniteSet(Slots) /\ Nobody \notin Slots /\ MaxStops \in Nat

VARIABLES
    lRunning,   \* _polling_state.is_running
    lTask,      \* _polling_task: a slot, or Nobody
    lStage,     \* each task: free, delayed, scanning, looping, unwinding
    lPrimary,   \* the project each task was started for
    lMonitored, \* _monitored_projects: age of the registration
    lPipe,      \* the project's pipeline: "none", "active", "complete", or
                \* "between" statuses, when it has no state
    lNews,      \* something on GitHub that a poll of the project would act on
    lScoped,    \* _app_polling_tasks: consecutive polls without a state, or 4
    lDog,       \* the watchdog: "off" before start-up, "asleep", or "halfway"
    lStops

lVars == <<lRunning, lTask, lStage, lPrimary, lMonitored, lPipe, lNews, lScoped, lDog, lStops>>
lLoop == <<lRunning, lTask, lStage, lPrimary>>
lWork == <<lPipe, lNews>>

LifecycleInit ==
    /\ lRunning = FALSE /\ lTask = Nobody /\ lDog = "off" /\ lStops = 0
    /\ lStage = [s \in Slots |-> "free"] /\ lPrimary = [s \in Slots |-> Fallback]
    /\ lMonitored = [p \in Projects |-> Unregistered] /\ lScoped = [p \in Projects |-> 4]
    /\ lPipe = [p \in Projects |-> "none"] /\ lNews = [p \in Projects |-> FALSE]

Done(s) == s = Nobody \/ lStage[s] = "free"
Loops == {s \in Slots : lStage[s] \in {"scanning", "looping"}}
StatesOf(kinds) == {p \in Projects : lPipe[p] \in kinds}

---------------------------------------------------------------------------
(* register_project keeps the age of a project it knows.                   *)
register_project(P, m) == [p \in Projects |-> IF p \in P /\ m[p] = Unregistered THEN 0 ELSE m[p]]

(* ensure_polling_started, after the registration: under the startup lock. *)
FlagAlone == ~lRunning
MayStart == ~lRunning /\ Done(lTask)
CreateTask(p, later) ==
    IF MayStart
    THEN \E s \in Slots :
            /\ lStage[s] = "free"
            /\ lStage' = [lStage EXCEPT ![s] = IF later THEN "delayed" ELSE "scanning"]
            /\ lPrimary' = [lPrimary EXCEPT ![s] = p] /\ lTask' = s /\ lRunning' = TRUE
    ELSE UNCHANGED lLoop
ensure_polling_started(p, later) ==
    /\ lMonitored' = register_project({p}, lMonitored)
    /\ CreateTask(p, later)
    /\ UNCHANGED <<lWork, lScoped, lDog, lStops>>

(* stop_polling: flag, cancel, forget.  A task that has not entered the    *)
(* loop's try block is gone with its cancellation.                         *)
Cancelled(stage) == IF stage = "looping" THEN "unwinding" ELSE "free"
FlagAfterStop == FALSE
stop_polling ==
    /\ lRunning /\ lStops < MaxStops /\ lStops' = lStops + 1
    /\ lRunning' = FlagAfterStop /\ lTask' = Nobody
    /\ lStage' = IF Done(lTask) THEN lStage ELSE [lStage EXCEPT ![lTask] = Cancelled(@)]
    /\ UNCHANGED <<lPrimary, lMonitored, lWork, lScoped, lDog>>

(* poll_for_copilot_completion: the delay, the scan for stalled pipelines, *)
(* the loop, and the finally clause of a task on its way out.              *)
DelayEnds(s) ==
    /\ lStage[s] = "delayed" /\ lRunning' = TRUE /\ lStage' = [lStage EXCEPT ![s] = "scanning"]
    /\ UNCHANGED <<lTask, lPrimary, lMonitored, lWork, lScoped, lDog, lStops>>
_startup_resume_scan(s) ==
    /\ lStage[s] = "scanning" /\ lStage' = [lStage EXCEPT ![s] = "looping"]
    /\ UNCHANGED <<lRunning, lTask, lPrimary, lMonitored, lWork, lScoped, lDog, lStops>>
LeaveLoop(s) ==
    /\ lStage[s] = "unwinding" \/ (lStage[s] = "looping" /\ ~lRunning)
    /\ lRunning' = FALSE /\ lStage' = [lStage EXCEPT ![s] = "free"]
    /\ lPrimary' = [lPrimary EXCEPT ![s] = Fallback]
    /\ UNCHANGED <<lTask, lMonitored, lWork, lScoped, lDog, lStops>>

(* One cycle over the primary project and the registered ones.  What it    *)
(* finds is acted on; a finished pipeline takes its state with it, and the *)
(* project's registration when nothing else is active or queued.           *)
Registered == {p \in Projects : lMonitored[p] # Unregistered}
OnlyPrimary(s) == {lPrimary[s]}
ToPoll(s) == {lPrimary[s]} \cup Registered
Handled(P) ==
    /\ lNews' = [p \in Projects |-> lNews[p] /\ p \notin P]
    /\ \E f \in [P -> {"active", "complete", "none"}] :
          lPipe' = [p \in Projects |->
                      IF p \notin P THEN lPipe[p]
                      ELSE IF lPipe[p] = "complete" THEN "none"
                      ELSE IF lPipe[p] = "active" /\ lNews[p] THEN f[p] ELSE lPipe[p]]
Dropped == {p \in Projects : lPipe[p] # "none" /\ lPipe'[p] = "none"}
unregister_project(P, m) == [p \in Projects |-> IF p \in P THEN Unregistered ELSE m[p]]
_poll_loop(s) ==
    /\ lStage[s] = "looping" /\ lRunning
    /\ Handled(ToPoll(s)) /\ lMonitored' = unregister_project(Dropped, lMonitored)
    /\ UNCHANGED <<lLoop, lScoped, lDog, lStops>>

(* The state is removed before the first agent of the next status is       *)
(* assigned; unregistered, the project waits for the watchdog.             *)
_transition_gap(p) ==
    /\ lPipe[p] = "active" /\ lStops < MaxStops /\ lStops' = lStops + 1
    /\ lPipe' = [lPipe EXCEPT ![p] = "between"] /\ lMonitored' = unregister_project({p}, lMonitored)
    /\ UNCHANGED <<lLoop, lNews, lScoped, lDog>>
AssignNextStatus(p) ==
    /\ lPipe[p] = "between" /\ lPipe' = [lPipe EXCEPT ![p] = "active"]
    /\ UNCHANGED <<lLoop, lMonitored, lNews, lScoped, lDog, lStops>>

---------------------------------------------------------------------------
(* Start-up: states are loaded, their projects registered, scoped loops    *)
(* restored for the apps among them, and the watchdog begins.              *)
StartServer(P) ==
    /\ lDog = "off" /\ lDog' = "asleep"
    /\ lPipe' = [p \in Projects |-> IF p \in P THEN "active" ELSE "none"]
    /\ lMonitored' = register_project(P, lMonitored)
    /\ lScoped' = [p \in Projects |-> IF p \in P \cap AppProjects THEN 0 ELSE 4]
    /\ UNCHANGED <<lLoop, lNews, lStops>>

(* The watchdog, every 30 s.  First it starts the loop for a selected      *)
(* project with an active pipeline, for any selected one if none is active,*)
(* or for the fallback project.                                            *)
Startable ==
    LET active == StatesOf({"active"})
        chosen == IF active = {} THEN Selected ELSE Selected \cap active
    IN  IF chosen = {} THEN {Fallback} ELSE chosen
auto_start_copilot_polling ==
    /\ lDog = "asleep" /\ lDog' = "halfway"
    /\ IF lRunning THEN UNCHANGED <<lLoop, lMonitored>>
       ELSE \E p \in Startable : /\ lMonitored' = register_project({p}, lMonitored)
                                 /\ CreateTask(p, FALSE)
    /\ UNCHANGED <<lWork, lScoped, lStops>>

(* Then it registers the projects of all states, and unregisters those that*)
(* have been idle for a minute.                                            *)
discover_and_register_active_projects == register_project(StatesOf({"active", "complete"}), lMonitored)
WatchdogPrunes(m) ==
    [p \in Projects |-> IF m[p] = 2 /\ lPipe[p] # "active" THEN Unregistered
                        ELSE IF m[p] < 2 THEN m[p] + 1 ELSE m[p]]
WatchdogSecondHalf ==
    /\ lDog = "halfway" /\ lDog' = "asleep"
    /\ lMonitored' = WatchdogPrunes(discover_and_register_active_projects)
    /\ UNCHANGED <<lLoop, lWork, lScoped, lStops>>

---------------------------------------------------------------------------
(* The loop scoped to one project: it ends with its pipeline, or after     *)
(* three polls that found no state.                                        *)
MissingLimit == 3
Scoping(p) == lScoped[p] < 4
ensure_app_pipeline_polling(p) ==
    /\ p \in AppProjects /\ ~Scoping(p) /\ lPipe[p] = "active" /\ lScoped' = [lScoped EXCEPT ![p] = 0]
    /\ UNCHANGED <<lLoop, lMonitored, lWork, lDog, lStops>>
poll_app_pipeline(p) ==
    /\ Scoping(p)
    /\ IF lPipe[p] = "complete" THEN lScoped' = [lScoped EXCEPT ![p] = 4] /\ UNCHANGED <<lWork, lMonitored>>
       ELSE /\ Handled({p}) /\ lMonitored' = unregister_project(Dropped, lMonitored)
            /\ lScoped' = [lScoped EXCEPT ![p] =
                 IF lPipe'[p] = "complete" \/ (lPipe'[p] # "active" /\ @ >= MissingLimit - 1) THEN 4
                 ELSE IF lPipe'[p] = "active" THEN 0 ELSE @ + 1]
    /\ UNCHANGED <<lLoop, lDog, lStops>>

(* A launch stores a state, registers the project and wants the main loop; *)
(* news arrives.                                                           *)
LaunchOn(p) ==
    /\ lDog # "off" /\ lPipe[p] = "none" /\ lStops < MaxStops /\ lStops' = lStops + 1
    /\ lPipe' = [lPipe EXCEPT ![p] = "active"] /\ lMonitored' = register_project({p}, lMonitored)
    /\ CreateTask(p, FALSE) /\ UNCHANGED <<lNews, lScoped, lDog>>
News(p) ==
    /\ lPipe[p] = "active" /\ ~lNews[p] /\ lNews' = [lNews EXCEPT ![p] = TRUE]
    /\ UNCHANGED <<lLoop, lPipe, lMonitored, lScoped, lDog, lStops>>

LifecycleNext ==
    \/ \E p \in Projects :
          \/ \E later \in BOOLEAN : lDog # "off" /\ lStops < MaxStops /\ ensure_polling_started(p, later)
          \/ _transition_gap(p) \/ AssignNextStatus(p)
          \/ ensure_app_pipeline_polling(p) \/ poll_app_pipeline(p) \/ LaunchOn(p) \/ News(p)
    \/ \E s \in Slots : DelayEnds(s) \/ _startup_resume_scan(s) \/ LeaveLoop(s) \/ _poll_loop(s)
    \/ \E P \in SUBSET Projects : StartServer(P)
    \/ stop_polling \/ auto_start_copilot_polling \/ WatchdogSecondHalf

(* Tasks of the event loop run; the watchdog is never cancelled.           *)
LifecycleFairness ==
    /\ \A s \in Slots : /\ WF_lVars(DelayEnds(s)) /\ WF_lVars(_startup_resume_scan(s))
                        /\ WF_lVars(LeaveLoop(s)) /\ WF_lVars(_poll_loop(s))
    /\ \A p \in Projects : WF_lVars(AssignNextStatus(p)) /\ WF_lVars(poll_app_pipeline(p))
    /\ WF_lVars(auto_start_copilot_polling) /\ WF_lVars(WatchdogSecondHalf)

LifecycleSpec == LifecycleInit /\ [][LifecycleNext]_lVars /\ LifecycleFairness

---------------------------------------------------------------------------
(* However stops, starts and late finally clauses interleave, there is one *)
(* main loop at most.                                                      *)
OneMainLoop == Cardinality(Loops) <= 1

(* The flag is never left set with no task behind it: the watchdog would   *)
(* take a dead loop for a running one.                                     *)
FlagHasTask == lRunning => \E s \in Slots : lStage[s] \in {"delayed", "scanning", "looping"}

(* What happens to a project with a pipeline state is noticed, although    *)
(* loops are stopped, flags cleared late and projects unregistered between *)
(* two statuses.                                                           *)
NewsNoticed == \A p \in Projects : lNews[p] ~> ~lNews[p]

(* The polling task as a whole: there is one at most, and the flag that    *)
(* says so is not left behind by it.                                       *)
LoopIsSole == OneMainLoop /\ FlagHasTask
=============================================================================
