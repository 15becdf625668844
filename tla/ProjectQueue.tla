---------------------------- MODULE ProjectQueue ----------------------------
(***************************************************************************)
(* Launching the pipelines of one project and queue mode: execute_pipeline *)
(* _launch of api/pipelines.py, start_pipeline of pipeline_launcher.py and *)
(* _dequeue_next_pipeline of copilot_polling/pipeline.py.                  *)
(*                                                                         *)
(* Each launch is a request of its own; the polling loop is one coroutine. *)
(* They interleave at the awaits and share the pipeline states, the launch *)
(* lock of the project and its queue-mode setting.  A column of the board  *)
(* is "early" (its completion leads to another column with agents), "late" *)
(* (it leads to In Review) or "review".                                    *)
(***************************************************************************)
EXTENDS Naturals, FiniteSets

CONSTANTS Issues,      \* parent issues, one launch each
          Prereqs,     \* [Issues -> SUBSET Issues]: prerequisite_issues
          Ungated,     \* issues launched without enable_queue_mode_gate
          FirstColumn, \* [Issues -> {"early", "late"}]: where each starts
          Absent,
          MaxSettings  \* bound on changes of the queue-mode setting

ASSUME QueueAssumption ==
    /\ IsFiniteSet(Issues) /\ Ungated \subseteq Issues
    /\ Absent \notin Issues \cup [queued: BOOLEAN, complete: BOOLEAN]
    /\ Prereqs \in [Issues -> SUBSET Issues]

VARIABLES
    qSetting,    \* SQLite: queue_mode of the project
    qChanges,    \* how often it was changed
    qState,      \* L1: the pipeline state of each issue, or Absent
    qStarted,    \* pairs of issues, the first with the older started_at
    qLaunch,     \* where the launch request of each issue stands
    qColumn,     \* GitHub: the column of each issue
    qWork,       \* GitHub: the agent of the column: none or busy
    qLock,       \* the project launch lock is held across an await
    qPoll,       \* the frame of the polling coroutine
    qIn          \* history: issues let in by the gate or a dequeue whose
                 \* state has not been removed since

qMemory == <<qState, qStarted, qIn>>
qVars == <<qSetting, qChanges, qMemory, qLaunch, qColumn, qWork, qLock, qPoll>>

QueueEntry == [queued: BOOLEAN, complete: BOOLEAN]
NoFrame == [pc |-> "idle", issue |-> Absent, rest |-> {}]

QueueInit ==
    /\ qSetting = TRUE /\ qChanges = 0
    /\ qState = [i \in Issues |-> Absent] /\ qStarted = {} /\ qIn = {}
    /\ qLaunch = [i \in Issues |-> "new"]
    /\ qColumn = [i \in Issues |-> "none"] /\ qWork = [i \in Issues |-> "none"]
    /\ qLock = FALSE /\ qPoll = NoFrame

---------------------------------------------------------------------------
(* The reads of the store: a pipeline without a state is not counted.      *)
Unqueued == {i \in Issues : qState[i] # Absent /\ ~qState[i].queued}
count_active_pipelines_for_project(exclude) == Cardinality(Unqueued \ {exclude})
get_queued_pipelines_for_project == {i \in Issues : qState[i] # Absent /\ qState[i].queued}

(* The queued ones are sorted by started_at: the first of them, and what a *)
(* new started_at makes of the order.                                      *)
Youngest(i, S) == i \in S /\ \A j \in S \ {i} : <<j, i>> \in qStarted
Oldest(i, S) == i \in S /\ \A j \in S \ {i} : <<i, j>> \in qStarted
Newest(i) ==
    {p \in qStarted : i \notin {p[1], p[2]}} \cup ({j \in Issues \ {i} : qState[j] # Absent} \X {i})
StoreNew(i, queued) ==
    /\ qState' = [qState EXCEPT ![i] = [queued |-> queued, complete |-> FALSE]]
    /\ qStarted' = Newest(i)

(* The settings API writes the row and drops the cached value, but a fill  *)
(* whose read overtook the write puts the old value back for 10 s: after a *)
(* change either value can be answered.                                    *)
is_queue_mode_enabled(v) == v = qSetting \/ qChanges > 0
SetQueueMode ==
    /\ qChanges < MaxSettings /\ qChanges' = qChanges + 1 /\ qSetting' = ~qSetting
    /\ UNCHANGED <<qMemory, qLaunch, qColumn, qWork, qLock, qPoll>>

---------------------------------------------------------------------------
At(i, pc) == qLaunch[i] = pc
Goto(i, pc) == qLaunch' = [qLaunch EXCEPT ![i] = pc]
LaunchOnly == UNCHANGED <<qSetting, qChanges, qLock, qPoll>>

(* Up to the item on the board.  A launch that fails before leaves at most *)
(* an issue outside the project, which nothing here ever sees: it is the   *)
(* launch that stays "new".                                                *)
CreateParent(i) ==
    /\ At(i, "new") /\ Goto(i, "board")
    /\ qColumn' = [qColumn EXCEPT ![i] = FirstColumn[i]]
    /\ LaunchOnly /\ UNCHANGED <<qMemory, qWork>>

(* start_pipeline up to the state: with no sub-issue at all no state is    *)
(* stored and the queue is not consulted.  What the last await answers is  *)
(* acted upon in a later step, the gate.                                   *)
CreateSubIssues(i) ==
    /\ At(i, "board") /\ LaunchOnly /\ UNCHANGED <<qColumn, qWork, qIn>>
    /\ \/ Goto(i, "assign") /\ UNCHANGED <<qState, qStarted>>
       \/ /\ i \in Ungated \/ is_queue_mode_enabled(FALSE)
          /\ Goto(i, "assign") /\ StoreNew(i, FALSE)
       \/ /\ i \notin Ungated /\ is_queue_mode_enabled(TRUE)
          /\ Goto(i, "gate") /\ UNCHANGED <<qState, qStarted>>

(* The gate: no await while the lock is held.                              *)
LockIgnored == TRUE
LockFree == ~qLock
QueueGate(i) ==
    /\ At(i, "gate") /\ LockFree /\ LaunchOnly /\ UNCHANGED <<qColumn, qWork>>
    /\ LET queued == count_active_pipelines_for_project(i) > 0
       IN  /\ StoreNew(i, queued)
           /\ Goto(i, IF queued THEN "queued" ELSE "assign")
           /\ qIn' = IF queued THEN qIn ELSE qIn \cup {i}

(* The first agent.  Without a state a successful assignment stores one; a *)
(* failure or an exception leaves what there is and answers with an error. *)
AssignFirst(i) ==
    /\ At(i, "assign") /\ Goto(i, "done") /\ LaunchOnly /\ UNCHANGED <<qColumn, qIn>>
    /\ \/ /\ qWork' = [qWork EXCEPT ![i] = IF @ = "none" THEN "busy" ELSE @]
          /\ IF qState[i] = Absent THEN StoreNew(i, FALSE) ELSE UNCHANGED <<qState, qStarted>>
       \/ UNCHANGED <<qWork, qState, qStarted>>

Launch(i) == \/ CreateParent(i) \/ CreateSubIssues(i) \/ QueueGate(i) \/ AssignFirst(i)

---------------------------------------------------------------------------
(* The polling coroutine.                                                  *)
Poll(pc) == qPoll.pc = pc
PollOnly == UNCHANGED <<qSetting, qChanges, qLaunch>>

(* A board item whose state was lost or removed is given one again.        *)
PollReconstructs(i) ==
    /\ Poll("idle") /\ qColumn[i] \in {"early", "late"} /\ qState[i] = Absent
    /\ StoreNew(i, FALSE)
    /\ PollOnly /\ UNCHANGED <<qIn, qColumn, qWork, qLock, qPoll>>

PollSkipsQueued(i) ==
    /\ Poll("idle") /\ qState[i] # Absent /\ ~qState[i].queued
    /\ qLaunch[i] = "done" /\ qColumn[i] \in {"early", "late"} /\ qWork[i] = "none"
    /\ qWork' = [qWork EXCEPT ![i] = "busy"] /\ qStarted' = Newest(i)
    /\ PollOnly /\ UNCHANGED <<qState, qIn, qColumn, qLock, qPoll>>
(* The recovery branch of _process_pipeline_completion: the grace period   *)
(* is over and the tracking table shows nobody at work.  It does not look  *)
(* at queued.                                                              *)
PollAssigns(i) ==
    /\ Poll("idle") /\ qColumn[i] \in {"early", "late"} /\ qState[i] # Absent
    /\ qLaunch[i] \in {"done", "queued"} /\ qWork[i] = "none"
    /\ qWork' = [qWork EXCEPT ![i] = "busy"] /\ qStarted' = Newest(i)
    /\ PollOnly /\ UNCHANGED <<qState, qIn, qColumn, qLock, qPoll>>

(* The agent at work has posted its Done! marker: the board moves, and the *)
(* queue is asked only on the way to In Review.                            *)
PollFinishes(i) ==
    /\ Poll("idle") /\ qState[i] # Absent /\ qWork[i] = "busy"
    /\ qState' = [qState EXCEPT ![i].complete = TRUE]
    /\ LET to == IF qColumn[i] = "early" THEN "late" ELSE "review"
       IN  /\ qColumn' = [qColumn EXCEPT ![i] = to]
           /\ qPoll' = [NoFrame EXCEPT !.pc = IF to = "review" THEN "mode" ELSE "remove", !.issue = i]
    /\ PollOnly /\ UNCHANGED <<qStarted, qIn, qWork, qLock>>

DequeueReadsMode ==
    /\ Poll("mode") /\ PollOnly /\ UNCHANGED <<qMemory, qColumn, qWork, qLock>>
    /\ \E v \in BOOLEAN :
         /\ is_queue_mode_enabled(v)
         /\ qPoll' = [qPoll EXCEPT !.pc = IF v THEN "lock" ELSE "remove"]

(* The finished pipeline still has its state here and counts as active     *)
(* unless it is itself marked queued.                                      *)
DequeueLooks ==
    /\ Poll("lock") /\ LockFree /\ PollOnly /\ UNCHANGED <<qMemory, qColumn, qWork>>
    /\ IF count_active_pipelines_for_project(Absent) > 0 \/ get_queued_pipelines_for_project = {}
       THEN qPoll' = [qPoll EXCEPT !.pc = "remove"] /\ UNCHANGED qLock
       ELSE /\ qPoll' = [qPoll EXCEPT !.pc = "prereq", !.rest = get_queued_pipelines_for_project]
            /\ qLock' = TRUE

(* One candidate: its prerequisites are read across awaits.                *)
PrereqMet(p) == qState[p] \in {Absent, [queued |-> FALSE, complete |-> TRUE]}
DequeueTries ==
    /\ Poll("prereq") /\ PollOnly /\ UNCHANGED <<qColumn, qWork, qStarted>>
    /\ \/ /\ qPoll.rest = {}
          /\ qPoll' = [qPoll EXCEPT !.pc = "remove"] /\ qLock' = FALSE /\ UNCHANGED <<qState, qIn>>
       \/ \E i \in qPoll.rest :
             /\ Oldest(i, qPoll.rest) /\ \E p \in Prereqs[i] : ~PrereqMet(p)
             /\ qPoll' = [qPoll EXCEPT !.rest = @ \ {i}] /\ UNCHANGED <<qLock, qState, qIn>>
       \/ \E i \in qPoll.rest :
             /\ Oldest(i, qPoll.rest) /\ \A p \in Prereqs[i] : PrereqMet(p)
             /\ qState' = [qState EXCEPT ![i].queued = FALSE] /\ qIn' = qIn \cup {i}
             /\ qPoll' = [qPoll EXCEPT !.pc = "remove"] /\ qLock' = FALSE

(* The dequeue builds its context without issue_id, so the assignment that *)
(* follows raises and is logged: nothing of the state changes.  Then the   *)
(* finished pipeline's state goes, and the next column's agent is assigned *)
(* unless its assignment fails; the caller may drop that new state again.  *)
TransitionEnds ==
    /\ Poll("remove") /\ PollOnly /\ UNCHANGED <<qColumn, qLock>>
    /\ LET i == qPoll.issue
       IN  /\ qIn' = qIn \ {i} /\ qPoll' = NoFrame
           /\ \/ /\ qState' = [qState EXCEPT ![i] = Absent] /\ UNCHANGED qStarted
                 /\ \E w \in {"none", "busy"} :
                      qWork' = [qWork EXCEPT ![i] = IF qColumn[i] = "late" THEN w ELSE "none"]
              \/ /\ qColumn[i] = "late" /\ StoreNew(i, FALSE)
                 /\ qWork' = [qWork EXCEPT ![i] = "busy"]

Polling == \/ DequeueReadsMode \/ DequeueLooks \/ DequeueTries \/ TransitionEnds
PollVisits(i) == PollReconstructs(i) \/ PollAssigns(i) \/ PollFinishes(i)

QueueNext ==
    \/ SetQueueMode \/ Polling
    \/ \E i \in Issues : Launch(i) \/ PollVisits(i)

---------------------------------------------------------------------------
(* Shapes of the variables; the pipelines with a state are ordered by age. *)
QueueTypeOK ==
    /\ qState \in [Issues -> QueueEntry \cup {Absent}]
    /\ qWork \in [Issues -> {"none", "busy"}]
    /\ qIn \subseteq Issues
    /\ \A i, j \in Issues : <<i, j>> \in qStarted => <<j, i>> \notin qStarted
    /\ \A i, j \in Issues : i # j /\ Absent \notin {qState[i], qState[j]} => <<i, j>> \in qStarted \/ <<j, i>> \in qStarted
    /\ qLock <=> qPoll.pc = "prereq"

(* The launch lock does its work: however launches, dequeues and changes   *)
(* of the setting interleave, the queue never lets in a pipeline while one *)
(* it let in before still has its state (pipeline_state_store.py:56-66).   *)
AdmittedOne == Cardinality(qIn) <= 1

(* FIFO by started_at: a dequeue never passes over a pipeline that waits   *)
(* with nobody at work, has its prerequisites met and started earlier than *)
(* the one it lets in (pipeline.py:62-64).                                 *)
Waits(i) == qState[i] # Absent /\ qState[i].queued /\ qWork[i] = "none"
LetIn(i) == /\ Poll("prereq") /\ qState[i] # Absent /\ qState[i].queued
            /\ qState'[i] # Absent /\ ~qState'[i].queued
FifoAmongWaiting ==
    [][\A i, j \in Issues :
         LetIn(i) /\ Waits(j) /\ <<j, i>> \in qStarted => \E p \in Prereqs[j] : ~PrereqMet(p)]_qVars

(* A pipeline told that it is queued is started in the end, although the   *)
(* dequeue itself never assigns an agent: the recovery branch of the poll  *)
(* does it.                                                                *)
QueuedIsStarted == \A i \in Issues : qLaunch[i] = "queued" ~> (qWork[i] = "busy" \/ qColumn[i] = "review")

(* Fairness: the loop visits every item of the board in every cycle, and   *)
(* an assignment that is retried for ever succeeds at some time.           *)
QueueFairness ==
    /\ WF_qVars(Polling)
    /\ \A i \in Issues : SF_qVars(PollReconstructs(i) \/ PollAssigns(i))
QueueSpec == QueueInit /\ [][QueueNext]_qVars

(* The queue of a project as a whole: it lets in one pipeline at a time,   *)
(* in the order of arrival.                                                *)
QueueKeepsOrder == []QueueTypeOK /\ []AdmittedOne /\ FifoAmongWaiting
=============================================================================
