----------------------------- MODULE AutoMerge -----------------------------
(***************************************************************************)
(* Squash-merging the main pull request of one issue whose agents are all  *)
(* done: services/copilot_polling/auto_merge.py, the end of                *)
(* services/copilot_polling/pipeline.py that calls it, and the CI webhooks *)
(* of api/webhooks.py.                                                     *)
(*                                                                         *)
(* Everything runs on one event loop: a step below is the code between two *)
(* awaits.  The polling loop, the retry loop, the loop that waits for the  *)
(* DevOps agent and the webhooks interleave at the awaits and share        *)
(* _devops_tracking, the two tables of pending loops and the pipeline      *)
(* state of the issue.                                                     *)
(***************************************************************************)
EXTENDS Naturals, FiniteSets

CONSTANTS Retriers,    \* tasks that can run _auto_merge_retry_loop
          Watchers,    \* tasks that can run _post_devops_retry_loop
          Hooks,       \* webhook deliveries, each handled once
          None,
          MaxRetries,  \* MAX_AUTO_MERGE_RETRIES
          MaxPolls,    \* POST_DEVOPS_MAX_POLLS
          MaxDevops    \* MAX_DEVOPS_ATTEMPTS

ASSUME LimitsAssumption ==
    MaxRetries \in Nat \ {0} /\ MaxPolls \in Nat \ {0} /\ MaxDevops \in Nat \ {0}
ASSUME TasksAssumption ==
    /\ IsFiniteSet(Retriers) /\ IsFiniteSet(Watchers) /\ IsFiniteSet(Hooks)
    /\ Retriers \cap Watchers = {} /\ Hooks \cap (Retriers \cup Watchers) = {}
    /\ "polling" \notin Retriers \cup Watchers \cup Hooks

VARIABLES
    board,          \* GitHub: the column of the issue
    pr,             \* GitHub: the main pull request
    ci,             \* GitHub: its check runs
    conflict,       \* GitHub: it conflicts with its base
    working,        \* GitHub: DevOps agents at work on the issue
    marker,         \* GitHub: a "devops: Done!" comment exists
    projectAuto,    \* settings: auto-merge is on for the project
    cycle,          \* what the poll cycle has left to do for the issue: the column
                    \* it read from the board, then the DevOps fallback, or None
    state,          \* L1: the pipeline state of the issue, or None
    tracking,       \* _devops_tracking[issue]
    pendingRetry,   \* issue \in _pending_auto_merge_retries
    pendingWatch,   \* issue \in _pending_post_devops_retries
    frame           \* where each coroutine stands

github == <<board, pr, ci, conflict, working, marker>>
memory == <<state, tracking, pendingRetry, pendingWatch>>
vars   == <<github, projectAuto, cycle, memory, frame>>

Coroutines == {"polling"} \cup Retriers \cup Watchers \cup Hooks
Jobs == {"transition", "fallback", "retry", "watch", "check_run", "check_suite"}
PCs  == {"idle", "sleep", "comments", "ci", "mergeable", "merge", "finish",
         "assign", "schedule", "tail", "over"}

(* seen: the attempts read before the awaited dispatch; round: the loop    *)
(* counter; drop: the caller of the transition removes the state after it. *)
Frame == [pc: PCs, job: Jobs \cup {None}, round: Nat, seen: Nat, drop: BOOLEAN]
Idle  == [pc |-> "idle", job |-> None, round |-> 0, seen |-> 0, drop |-> FALSE]
Start(job, pc) == [Idle EXCEPT !.pc = pc, !.job = job]
Running(c)     == frame[c].pc \notin {"idle", "over"}

PipelineState == [complete: BOOLEAN, auto: BOOLEAN]

(* create_task: which of the idle tasks it is makes no difference. *)
NewTask(tasks) ==
    LET idle == {t \in tasks : frame[t].pc = "idle"}
    IN  IF idle = {} THEN {} ELSE {CHOOSE t \in idle : TRUE}

(* Auto-merge is active for the project or for this pipeline. *)
Active(s) == projectAuto \/ (s # None /\ s.auto)

Init ==
    /\ board = "InProgress" /\ cycle = None /\ pr = "open"
    /\ ci \in {"running", "failed", "passed"} /\ conflict \in BOOLEAN
    /\ working = 0
    /\ projectAuto \in BOOLEAN
    /\ state \in [complete: BOOLEAN, auto: BOOLEAN] /\ Active(state)
    \* a child PR of this issue may have needed DevOps while the agents ran
    /\ \/ tracking = [active |-> FALSE, attempts |-> 0] /\ marker = FALSE
       \/ tracking = [active |-> TRUE, attempts |-> 1] /\ marker = TRUE
    /\ pendingRetry = FALSE /\ pendingWatch = FALSE
    /\ frame = [c \in Coroutines |-> Idle]

---------------------------------------------------------------------------
(* Leaving a job: a transition still requests the review and broadcasts    *)
(* before it returns to its caller; a webhook is answered for good; a loop *)
(* ends.                                                                   *)
AfterJob(c) ==
    IF frame[c].job = "transition" THEN [frame[c] EXCEPT !.pc = "tail"]
    ELSE IF c \in Hooks THEN [frame[c] EXCEPT !.pc = "over"]
    ELSE Idle

(* The retry loop's epilogue pops its table entry and removes the pipeline *)
(* state; the watcher's pops its entry only.                               *)
EndLoops(c) ==
    /\ pendingRetry' = (pendingRetry /\ frame[c].job # "retry")
    /\ pendingWatch' = (pendingWatch /\ frame[c].job # "watch")
Releases(c) == frame[c].job \in {"transition", "retry"}

Leave(c) ==
    /\ frame' = [frame EXCEPT ![c] = AfterJob(c)]
    /\ EndLoops(c)
    /\ state' = IF Releases(c) THEN None ELSE state

(* schedule_auto_merge_retry: nothing if a loop is already pending. *)
StartRetryLoop(c) ==
    \E r \in NewTask(Retriers) :
      /\ pendingRetry' = TRUE
      /\ frame' = [frame EXCEPT ![c] = AfterJob(c), ![r] = Start("retry", "sleep")]
ScheduleUnchecked(c) == StartRetryLoop(c)
schedule_auto_merge_retry(c) ==
    \/ /\ pendingRetry
       /\ frame' = [frame EXCEPT ![c] = AfterJob(c)]
       /\ UNCHANGED pendingRetry
    \/ ~pendingRetry /\ StartRetryLoop(c)

(* dispatch_devops_agent up to its first await: refuse while a DevOps      *)
(* agent is active or when the cap is reached, else remember the count.    *)
MayDispatch == ~tracking.active /\ tracking.attempts < MaxDevops
dispatch_devops_agent(c) ==
    \/ /\ MayDispatch
       /\ frame' = [frame EXCEPT ![c].pc = "assign", ![c].seen = tracking.attempts]
       /\ state' = IF frame[c].job = "transition" THEN None ELSE state
       /\ UNCHANGED <<tracking, pendingRetry, pendingWatch>>
    \/ ~MayDispatch /\ Leave(c) /\ UNCHANGED tracking

---------------------------------------------------------------------------
(* What each caller does with the answer of _attempt_auto_merge.           *)
RetryLater(c) ==
    \/ /\ frame[c].job = "transition"
       /\ schedule_auto_merge_retry(c)
       /\ UNCHANGED <<state, tracking, pendingWatch>>
    \/ /\ \/ frame[c].job = "retry" /\ frame[c].round < MaxRetries
          \/ frame[c].job = "watch" /\ frame[c].round < MaxPolls
       /\ frame' = [frame EXCEPT ![c].pc = "sleep"]
       /\ UNCHANGED memory
    \/ /\ \/ frame[c].job = "retry" /\ frame[c].round = MaxRetries
          \/ frame[c].job = "watch" /\ frame[c].round = MaxPolls
          \/ frame[c].job \in {"fallback", "check_suite"}
       /\ Leave(c)
       /\ UNCHANGED tracking

MergeFailed(c) == Leave(c) /\ UNCHANGED tracking

DevopsNeeded(c) ==
    IF frame[c].job = "check_suite" THEN Leave(c) /\ UNCHANGED tracking
    ELSE dispatch_devops_agent(c)

(* _attempt_auto_merge: three reads and a merge, an await at each.         *)
CheckRuns(c) ==
    /\ frame[c].pc = "ci"
    /\ \/ MergeFailed(c)                          \* no main PR was found
       \/ ci # "failed" /\ RetryLater(c)          \* unreadable, or still running
       \/ ci = "failed" /\ (RetryLater(c) \/ DevopsNeeded(c))
       \/ /\ ci = "passed"
          /\ frame' = [frame EXCEPT ![c].pc = "mergeable"]
          /\ UNCHANGED memory
    /\ UNCHANGED <<github, projectAuto, cycle>>

Mergeable(c) ==
    /\ frame[c].pc = "mergeable"
    /\ \/ RetryLater(c)                           \* GitHub has not computed it
       \/ conflict /\ pr = "open" /\ DevopsNeeded(c)
       \/ /\ ~conflict
          /\ frame' = [frame EXCEPT ![c].pc = "merge"]
          /\ UNCHANGED memory
    /\ UNCHANGED <<github, projectAuto, cycle>>

Merge(c) ==
    /\ frame[c].pc = "merge"
    /\ \/ /\ pr = "open" /\ ~conflict
          /\ pr' = "merged"
          /\ frame' = [frame EXCEPT ![c].pc = "finish"]
          /\ UNCHANGED memory
       \/ MergeFailed(c) /\ UNCHANGED pr
    /\ UNCHANGED <<board, ci, conflict, working, marker, projectAuto, cycle>>

(* A merge by a transition or the retry loop moves the item to Done, best  *)
(* effort, and closes the issue; the other callers only report it.         *)
Finish(c) ==
    /\ frame[c].pc = "finish"
    /\ IF frame[c].job \in {"transition", "retry"}
       THEN board' \in {board, "Done"}
       ELSE UNCHANGED board
    /\ Leave(c)
    /\ UNCHANGED <<pr, ci, conflict, working, marker, projectAuto, cycle, tracking>>

---------------------------------------------------------------------------
(* dispatch_devops_agent after its awaits: the node id or the assignment   *)
(* may fail; success is recorded from the count read before the awaits.    *)
Record(c) == tracking' = [active |-> TRUE, attempts |-> frame[c].seen + 1]
Assign(c) ==
    /\ frame[c].pc = "assign"
    /\ \/ /\ working' = working + 1
          /\ Record(c)
          /\ frame' = [frame EXCEPT ![c].pc = "schedule", ![c].seen = 0]
          /\ UNCHANGED <<state, pendingRetry, pendingWatch>>
       \/ Leave(c) /\ UNCHANGED <<working, tracking>>
    /\ UNCHANGED <<board, pr, ci, conflict, marker, projectAuto, cycle>>

(* schedule_post_devops_merge_retry, after the broadcast: nothing if a     *)
(* watcher is already pending, the one that dispatches included.  Then     *)
(* dispatch returns and its caller goes on.                                *)
StartWatch(c) ==
    \E w \in NewTask(Watchers) :
      /\ frame' = [frame EXCEPT ![c] = AfterJob(c), ![w] = Start("watch", "sleep")]
      /\ pendingWatch' = TRUE
      /\ pendingRetry' = (pendingRetry /\ frame[c].job # "retry")
      /\ state' = IF Releases(c) THEN None ELSE state
Schedule(c) ==
    /\ frame[c].pc = "schedule"
    /\ \/ pendingWatch /\ Leave(c)
       \/ ~pendingWatch /\ StartWatch(c)
    /\ UNCHANGED <<github, projectAuto, cycle, tracking>>

WakeUncounted(c) ==
    /\ frame[c].pc = "sleep"
    /\ frame' = [frame EXCEPT ![c].pc = IF frame[c].job = "retry" THEN "ci" ELSE "comments"]
    /\ UNCHANGED <<github, projectAuto, cycle, memory>>

(* The sleep of a loop ends: the retry loop attempts, the watcher reads    *)
(* the comments first.                                                     *)
Wake(c) ==
    /\ frame[c].pc = "sleep"
    /\ frame' = [frame EXCEPT ![c].round = @ + 1,
                              ![c].pc = IF frame[c].job = "retry" THEN "ci" ELSE "comments"]
    /\ UNCHANGED <<github, projectAuto, cycle, memory>>

(* _check_devops_done_comment: without a marker, or when the comments      *)
(* cannot be read, wait for the next poll; with one, DevOps is inactive    *)
(* and the merge is attempted.                                             *)
Comments(c) ==
    /\ frame[c].pc = "comments"
    /\ \/ RetryLater(c)
       \/ /\ marker
          /\ tracking' = IF frame[c].job = "watch" THEN [tracking EXCEPT !.active = FALSE]
                                                   ELSE tracking
          /\ frame' = [frame EXCEPT ![c].pc = "ci"]
          /\ UNCHANGED <<state, pendingRetry, pendingWatch>>
    /\ UNCHANGED <<github, projectAuto, cycle>>

---------------------------------------------------------------------------
(* _transition_after_pipeline_complete: the item moves, then the branch of *)
(* its new column runs.  drop tells _advance_pipeline, which removes the   *)
(* state when the transition has returned, from the completion check of    *)
(* the poll, which leaves that to the transition.                          *)
Transition(to, drop) ==
    /\ frame["polling"].pc = "idle"
    /\ state # None
    /\ IF drop THEN ~state.complete ELSE state.complete
    /\ \/ /\ board' = to
          /\ \/ /\ to = "Done" /\ pr = "merged"     \* and its sub-issues completed
                /\ state' = None
                /\ frame' = [frame EXCEPT !["polling"] =
                                [Start("transition", "tail") EXCEPT !.drop = drop]]
             \/ /\ state' = IF Active(state) THEN [state EXCEPT !.complete = TRUE] ELSE None
                /\ frame' = [frame EXCEPT !["polling"] =
                                [Start("transition", IF Active(state) THEN "ci" ELSE "tail")
                                   EXCEPT !.drop = drop]]
       \/ /\ state' = IF drop THEN None ELSE state  \* the board update failed
          /\ UNCHANGED <<board, frame>>
    /\ cycle' = IF to = "Done" THEN "fallback" ELSE None
    /\ UNCHANGED <<pr, ci, conflict, working, marker, projectAuto,
                   tracking, pendingRetry, pendingWatch>>

ToReview == cycle = "InProgress" /\ \E drop \in BOOLEAN : Transition("InReview", drop)
ToDone   == cycle = "InReview" /\ \E drop \in BOOLEAN : Transition("Done", drop)

(* The rest of the transition: the caller inside _advance_pipeline removes *)
(* the state whatever the transition decided.                              *)
Tail ==
    /\ frame["polling"].pc = "tail"
    /\ state' = IF frame["polling"].drop THEN None ELSE state
    /\ frame' = [frame EXCEPT !["polling"] = Idle]
    /\ UNCHANGED <<github, projectAuto, cycle, tracking, pendingRetry, pendingWatch>>

(* A poll cycle reads the board once; every check of the cycle works on    *)
(* what it read.                                                           *)
ReadBoard ==
    /\ frame["polling"].pc = "idle"
    /\ cycle' = IF board = "Done" THEN None ELSE board
    /\ UNCHANGED <<github, projectAuto, memory, frame>>

(* The next poll finds no state and rebuilds it from the issue, for the    *)
(* agents of the column it read; the auto_merge flag of the launch is lost. *)
Rebuild ==
    /\ frame["polling"].pc = "idle"
    /\ cycle \in {"InProgress", "InReview"} /\ state = None
    /\ \E c \in BOOLEAN :
         /\ cycle = "InProgress" => c
         /\ state' = [complete |-> c, auto |-> FALSE]
    /\ UNCHANGED <<github, projectAuto, cycle, tracking, pendingRetry, pendingWatch, frame>>

(* check_in_review_issues, DevOps recovery fallback. *)
Fallback ==
    /\ frame["polling"].pc = "idle"
    /\ cycle \in {"InReview", "fallback"}
    /\ state # None /\ state.complete /\ state.auto
    /\ ~pendingWatch
    /\ cycle' = None
    /\ frame' = [frame EXCEPT !["polling"] = Start("fallback", "comments")]
    /\ UNCHANGED <<github, projectAuto, memory>>

(* The CI webhooks act on an issue whose pipeline they find, complete and  *)
(* flagged, or of a project with auto-merge on.                            *)
Eligible == state # None /\ ((state.complete /\ state.auto) \/ projectAuto)
CheckRunFailed(h) ==
    /\ frame[h].pc = "idle" /\ ci = "failed" /\ Eligible
    /\ \/ /\ MayDispatch
          /\ frame' = [frame EXCEPT ![h] = [Start("check_run", "assign")
                                              EXCEPT !.seen = tracking.attempts]]
       \/ /\ ~MayDispatch
          /\ frame' = [frame EXCEPT ![h].pc = "over"]
    /\ UNCHANGED <<github, projectAuto, cycle, memory>>
CheckSuitePassed(h) ==
    /\ frame[h].pc = "idle" /\ ci = "passed" /\ Eligible
    /\ frame' = [frame EXCEPT ![h] = Start("check_suite", "ci")]
    /\ UNCHANGED <<github, projectAuto, cycle, memory>>

---------------------------------------------------------------------------
(* GitHub: checks end, the DevOps agent pushes a fix and posts its marker. *)
ChecksEnd ==
    /\ ci = "running" /\ ci' \in {"failed", "passed"}
    /\ UNCHANGED <<board, pr, conflict, working, marker>>
DevopsPushes ==
    /\ working > 0 /\ ci' = "running" /\ conflict' = FALSE
    /\ UNCHANGED <<board, pr, working, marker>>
DevopsDone ==
    /\ working > 0 /\ working' = working - 1 /\ marker' = TRUE
    /\ UNCHANGED <<board, pr, ci, conflict>>
GitHub == (ChecksEnd \/ DevopsPushes \/ DevopsDone)
          /\ UNCHANGED <<projectAuto, cycle, memory, frame>>

Step(c) == Wake(c) \/ Comments(c) \/ CheckRuns(c) \/ Mergeable(c) \/ Merge(c)
           \/ Finish(c) \/ Assign(c) \/ Schedule(c)
Polling == ReadBoard \/ ToReview \/ ToDone \/ Tail \/ Rebuild \/ Fallback
Webhook(h) == CheckRunFailed(h) \/ CheckSuitePassed(h)

Next == \/ \E c \in Coroutines : Step(c)
        \/ Polling
        \/ \E h \in Hooks : Webhook(h)
        \/ GitHub

Spec     == Init /\ [][Next]_vars
(* The event loop resumes every coroutine whose await has ended; nothing   *)
(* is assumed of GitHub's checks, of the agents or of the webhooks.        *)
LiveSpec == Spec /\ \A c \in Coroutines : WF_vars(Step(c))
---------------------------------------------------------------------------
(* Every variable holds a value of its type. *)
TypeOK ==
    /\ board \in {"InProgress", "InReview", "Done"}
    /\ cycle \in {"InProgress", "InReview", "fallback", None}
    /\ pr \in {"open", "merged"}
    /\ ci \in {"running", "failed", "passed"}
    /\ {conflict, marker, projectAuto} \subseteq BOOLEAN
    /\ working \in Nat
    /\ state \in PipelineState \cup {None}
    /\ tracking \in [active: BOOLEAN, attempts: Nat]
    /\ {pendingRetry, pendingWatch} \subseteq BOOLEAN
    /\ frame \in [Coroutines -> Frame]

(* At most one retry loop and one DevOps watcher run for the issue, however *)
(* many callers schedule one, and the tables of pending loops say exactly   *)
(* whether one does: an entry left behind would refuse every later loop.    *)
Live(tasks) == Cardinality({t \in tasks : Running(t)})
PendingLoops ==
    /\ Live(Retriers) = IF pendingRetry THEN 1 ELSE 0
    /\ Live(Watchers) = IF pendingWatch THEN 1 ELSE 0

(* DevOps is recorded as active only when an agent was really put to work:  *)
(* it is still at it or has posted its marker.  A record of an assignment   *)
(* that failed would refuse every later dispatch.                           *)
ActiveIsReal == tracking.active => working > 0 \/ marker

(* The dispatches recorded for an issue never pass the cap, although the    *)
(* count is read before the awaited assignment and written after it.        *)
AttemptsCapped == tracking.attempts <= MaxDevops

(* However the retry loop ends, merged, failed, handed to DevOps or out of  *)
(* attempts, it leaves no pipeline state behind.                            *)
RetryEndReleases ==
    [][\A r \in Retriers : Running(r) /\ frame'[r].pc = "idle" => state' = None]_vars

(* Both background loops come to an end, whatever GitHub answers and even   *)
(* when the checks never end and the DevOps agent never posts its marker.   *)
LoopsEnd == <>[](Live(Retriers \cup Watchers) = 0)

(* The loops of auto-merge as a whole: the tables name the loops that run, *)
(* the record stands for an agent at work, attempts are counted, and the   *)
(* state goes with its retry loop.                                         *)
LoopsAccounted ==
    [](TypeOK /\ PendingLoops /\ ActiveIsReal /\ AttemptsCapped) /\ RetryEndReleases
=============================================================================
