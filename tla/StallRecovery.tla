---------------------------- MODULE StallRecovery ----------------------------
(***************************************************************************)
(* The self-healing of copilot_polling/recovery.py for one issue: a pass   *)
(* looks for the first step of the tracking table that is not done, and    *)
(* assigns its agent again when nobody is at work on it, with a cooldown,  *)
(* a grace period and a cap on the attempts.                               *)
(*                                                                         *)
(* A pass reads GitHub before it acts, and agents go on working meanwhile. *)
(* The passes and the ordinary poll share one coroutine, so those two do   *)
(* not interleave.  Time is counted in poll intervals.                     *)
(***************************************************************************)
EXTENDS Naturals, FiniteSets

CONSTANTS RecAgents,   \* agents of the issue's pipeline, numbered in order
          HumanSteps,  \* those that are human or copilot-review steps
          MaxRetries,  \* MAX_RECOVERY_RETRIES
          Cooldown,    \* RECOVERY_COOLDOWN_SECONDS, in poll intervals
          Grace,       \* ASSIGNMENT_GRACE_PERIOD_SECONDS, in poll intervals
          MaxFaults    \* bound on the faults of the environment

ASSUME RecoveryAssumption ==
    /\ RecAgents \in Nat \ {0} /\ HumanSteps \subseteq 1..RecAgents
    /\ {MaxRetries, Cooldown, Grace} \subseteq Nat \ {0} /\ MaxFaults \in Nat

Steps == 1..RecAgents
NoScan == 0

VARIABLES
    rTable,     \* GitHub: the tracking table
    rMarked,    \* GitHub: agents whose Done! marker exists
    rMerged,    \* GitHub: agents whose child pull request is merged or complete
    rWork,      \* GitHub: what the current agent is doing
    rIndex,     \* the current agent of the cached pipeline state; 0 without one
    rBlocked,   \* an error of the pipeline, or a count of merge failures
    rPending,   \* age of _pending_agent_assignments; Grace + 1 without an entry
    rCount,     \* _recovery_attempt_counts
    rAge,       \* age of _recovery_last_attempt, at most Cooldown
    rEscalated, \* _recovery_escalated
    rStage,     \* "before" its agents are assigned, "open", "moved" to the next status
    rScan,      \* the agent this pass takes for stalled, or NoScan
    rFaults,    \* faults of the environment so far
    rGap        \* history: time since the last attempt that was counted or raised

rVars == <<rTable, rMarked, rMerged, rWork, rIndex, rBlocked, rPending, rCount,
           rAge, rEscalated, rStage, rScan, rFaults, rGap>>
rGithub == <<rTable, rMarked, rMerged, rWork, rStage>>
rMemory == <<rIndex, rBlocked, rPending, rCount, rAge, rEscalated>>
rHistory == <<rFaults, rGap>>

RecoveryInit ==
    /\ rTable = [a \in Steps |-> "queued"]
    /\ rMarked = {} /\ rMerged = {} /\ rWork = "none" /\ rStage = "before"
    /\ rIndex = 0 /\ rBlocked = FALSE /\ rPending = 0 /\ rCount = 0 /\ rAge = Cooldown
    /\ rEscalated = FALSE /\ rScan = NoScan /\ rFaults = 0 /\ rGap = Cooldown

---------------------------------------------------------------------------
(* The step that recovery expects to be at work: the first one not done.   *)
FirstOpen(t) == IF \A a \in Steps : t[a] = "done" THEN 0
                ELSE CHOOSE a \in Steps : t[a] # "done" /\ \A b \in 1..(a - 1) : t[b] = "done"
(* _validate_and_reconcile_tracking_table: markers win over the table.     *)
Reconciled(t) == [a \in Steps |-> IF a \in rMarked THEN "done" ELSE t[a]]

(* _should_skip_recovery: attempts that are used up are looked at before   *)
(* the cooldown of the last one.                                           *)
Exhausted == rCount >= MaxRetries
AnyTime == ~rEscalated
Eligible == ~rEscalated /\ (Exhausted \/ rAge >= Cooldown)

(* An assignment: table, cached state and pending entry; the agent starts  *)
(* over on GitHub.                                                         *)
Assign(a, table) ==
    /\ rTable' = [table EXCEPT ![a] = "active"]
    /\ rIndex' = a /\ rPending' = 0 /\ rWork' = "none"

(* _advance_pipeline as seen from here: the next agent, or the next status.*)
Advance(a, table) ==
    LET t == [table EXCEPT ![a] = "done"]
    IN  IF a < RecAgents THEN Assign(a + 1, t) /\ UNCHANGED rStage
        ELSE rTable' = t /\ rStage' = "moved" /\ rIndex' = 0 /\ rWork' = "none" /\ UNCHANGED rPending

---------------------------------------------------------------------------
(* The first agent of the status is assigned, or that assignment failed    *)
(* after the tracking table was written.                                   *)
EnterStatus(works) ==
    /\ rStage = "before" /\ rStage' = "open"
    /\ rTable' = [rTable EXCEPT ![1] = IF works THEN "active" ELSE "queued"]
    /\ rIndex' = 1 /\ rPending' = IF works THEN 0 ELSE Grace + 1
    /\ UNCHANGED <<rMarked, rMerged, rWork, rBlocked, rCount, rAge, rEscalated, rScan, rHistory>>

(* One pass, up to the point where the agent counts as stalled.            *)
BeginScan(saved) == rScan = NoScan /\ rStage = "open" /\ Eligible
                    /\ rTable' = IF saved THEN Reconciled(rTable) ELSE rTable

(* No step is left: the pass makes the transition that was lost.           *)
ForceTransition(saved, works) ==
    /\ BeginScan(saved) /\ FirstOpen(Reconciled(rTable)) = 0
    /\ rAge' = 0 /\ rStage' = IF works THEN "moved" ELSE "open"
    /\ rFaults' = IF works THEN rFaults ELSE rFaults + 1
    /\ UNCHANGED <<rMarked, rMerged, rWork, rIndex, rBlocked, rPending, rCount, rEscalated, rScan, rGap>>

OpenStep == FirstOpen(Reconciled(rTable))

_escalate_exhausted_recovery(saved) ==
    /\ BeginScan(saved) /\ OpenStep # 0 /\ Exhausted
    /\ rEscalated' = TRUE
    /\ UNCHANGED <<rMarked, rMerged, rWork, rStage, rIndex, rBlocked, rPending, rCount, rAge, rScan, rHistory>>

(* An error or a merge failure is left for an operator; a human step and a *)
(* review wait for their own handlers.                                     *)
LeaveAlone(saved) ==
    /\ BeginScan(saved) /\ OpenStep # 0 /\ ~Exhausted
    /\ \/ rBlocked
       \/ ~rBlocked /\ rPending >= Grace /\ OpenStep \in HumanSteps
    /\ rAge' = 0
    /\ UNCHANGED <<rMarked, rMerged, rWork, rStage, rIndex, rBlocked, rPending, rCount, rEscalated, rScan, rHistory>>

(* A young pending entry ends the pass without a cooldown; an old one goes.*)
PendingExpired == rPending >= Grace
InGrace(saved) ==
    /\ BeginScan(saved) /\ OpenStep # 0 /\ ~Exhausted /\ ~rBlocked /\ ~PendingExpired
    /\ UNCHANGED <<rMarked, rMerged, rWork, rStage, rMemory, rScan, rHistory>>

(* _detect_stalled_issue and _check_copilot_session_health: assigned, with *)
(* work in progress, and no error in the session.                          *)
Healthy(w) == w = "working"
DetectStall(saved) ==
    /\ BeginScan(saved) /\ OpenStep \notin HumanSteps \cup {0} /\ ~Exhausted /\ ~rBlocked /\ PendingExpired
    /\ rPending' = Grace + 1
    /\ rScan' = IF Healthy(rWork) THEN NoScan ELSE OpenStep
    /\ UNCHANGED <<rMarked, rMerged, rWork, rStage, rIndex, rBlocked, rCount, rAge, rEscalated, rHistory>>

(* The rest of the pass, after the answers from GitHub.                    *)
AlreadyDone ==
    /\ rScan # NoScan /\ rScan \in rMarked
    /\ rAge' = 0 /\ rScan' = NoScan
    /\ UNCHANGED <<rGithub, rIndex, rBlocked, rPending, rCount, rEscalated, rHistory>>

(* A merged or complete child pull request without a marker: the marker is *)
(* posted for the agent, and the pipeline driven on if it was.             *)
SelfHeal(posted) ==
    LET a == rScan
    IN  /\ rScan # NoScan /\ a \notin rMarked /\ a \in rMerged
        /\ IF posted
           THEN /\ rMarked' = rMarked \cup {a} /\ UNCHANGED rFaults
                /\ Advance(a, Reconciled(rTable))
           ELSE /\ rFaults < MaxFaults /\ rFaults' = rFaults + 1
                /\ UNCHANGED <<rMarked, rTable, rIndex, rPending, rWork, rStage>>
        /\ rAge' = 0 /\ rScan' = NoScan
        /\ UNCHANGED <<rMerged, rBlocked, rCount, rEscalated, rGap>>

(* _attempt_reassignment: a call that raises costs only the cooldown, an   *)
(* answer costs an attempt too; near the rate limit nothing is recorded.   *)
FreeRefusal(o) == IF o = "assigned" THEN rCount + 1 ELSE rCount
Attempts(o) == IF o = "raised" THEN rCount ELSE rCount + 1
_attempt_reassignment(o) ==
    /\ rScan # NoScan /\ rScan \notin rMarked \cup rMerged
    /\ rScan' = NoScan
    /\ o \in {"raised", "limited"} => rFaults < MaxFaults
    /\ rFaults' = IF o \in {"raised", "limited"} THEN rFaults + 1 ELSE rFaults
    /\ IF o = "limited" THEN UNCHANGED <<rAge, rCount, rGap>>
       ELSE rAge' = 0 /\ rCount' = Attempts(o) /\ rGap' = 0
    /\ IF o = "assigned" THEN Assign(rScan, rTable) ELSE UNCHANGED <<rTable, rIndex, rPending, rWork>>
    /\ UNCHANGED <<rMarked, rMerged, rStage, rBlocked, rEscalated>>

---------------------------------------------------------------------------
(* The ordinary poll: it rebuilds a lost state from the markers, advances  *)
(* past an agent whose marker it finds, and after the grace period assigns *)
(* one that the table does not show as active.                             *)
Unreported == FirstOpen([a \in Steps |-> IF a \in rMarked THEN "done" ELSE "queued"])
PollRebuilds ==
    /\ rScan = NoScan /\ rStage = "open" /\ rIndex = 0
    /\ IF Unreported = 0
       THEN rStage' = "moved" /\ rTable' = [a \in Steps |-> "done"] /\ UNCHANGED rIndex
       ELSE rIndex' = Unreported /\ UNCHANGED <<rStage, rTable>>
    /\ UNCHANGED <<rMarked, rMerged, rWork, rBlocked, rPending, rCount, rAge, rEscalated, rScan, rHistory>>
PollReassigns ==
    /\ rScan = NoScan /\ rStage = "open" /\ ~rBlocked /\ rIndex \in Steps \ rMarked /\ rTable[rIndex] = "queued"
    /\ PendingExpired /\ Assign(rIndex, rTable)
    /\ UNCHANGED <<rMarked, rMerged, rStage, rBlocked, rCount, rAge, rEscalated, rScan, rHistory>>
PollAdvances(fails) ==
    /\ rScan = NoScan /\ rStage = "open" /\ ~rBlocked /\ rIndex \in rMarked
    /\ Advance(rIndex, rTable)
    /\ rBlocked' = fails /\ (fails => rFaults < MaxFaults)
    /\ rFaults' = IF fails THEN rFaults + 1 ELSE rFaults
    /\ UNCHANGED <<rMarked, rMerged, rCount, rAge, rEscalated, rScan, rGap>>
PollPass == PollRebuilds \/ PollReassigns \/ \E fails \in BOOLEAN : PollAdvances(fails)

Older(n, cap) == IF n < cap THEN n + 1 ELSE n
Elapse ==
    /\ rScan = NoScan /\ rStage = "open"
    /\ rAge' = Older(rAge, Cooldown) /\ rGap' = Older(rGap, Cooldown)
    /\ rPending' = IF rPending < Grace THEN rPending + 1 ELSE rPending
    /\ UNCHANGED <<rGithub, rIndex, rBlocked, rCount, rEscalated, rScan, rFaults>>

(* The agent on GitHub: it starts or not, it can stop or fail, it finishes *)
(* with a marker or with a merged pull request whose marker was lost; a    *)
(* person answers a human step.                                            *)
OnDuty == IF FirstOpen(rTable) = 0 THEN {} ELSE {FirstOpen(rTable)} \ rMarked
AgentEvent(e) ==
    /\ rStage = "open" /\ OnDuty # {} /\ rTable[FirstOpen(rTable)] = "active"
    /\ \/ e = "starts" /\ rWork = "none" /\ rWork' = "working" /\ UNCHANGED <<rMarked, rMerged, rFaults>>
       \/ e \in {"errored", "none"} /\ rWork = "working" /\ rFaults < MaxFaults /\ rFaults' = rFaults + 1
          /\ rWork' = e /\ UNCHANGED <<rMarked, rMerged>>
       \/ e = "finishes" /\ (rWork = "working" \/ OnDuty \subseteq HumanSteps)
          /\ rWork' = "none" /\ rMarked' = rMarked \cup OnDuty /\ UNCHANGED <<rMerged, rFaults>>
       \/ e = "loses marker" /\ rWork = "working" /\ OnDuty \cap HumanSteps = {}
          /\ rWork' = "none" /\ rMerged' = rMerged \cup OnDuty /\ UNCHANGED <<rMarked, rFaults>>
    /\ UNCHANGED <<rTable, rStage, rMemory, rScan, rGap>>

(* A restart loses the tables of recovery, and the state if it was not     *)
(* stored; an operator clears an error.                                    *)
RestartLoses ==
    /\ rFaults < MaxFaults /\ rFaults' = rFaults + 1 /\ rScan' = NoScan
    /\ rIndex' = 0 /\ rBlocked' = FALSE /\ rPending' = Grace + 1 /\ rCount' = 0 /\ rAge' = Cooldown
    /\ rEscalated' = FALSE /\ rGap' = Cooldown
    /\ UNCHANGED rGithub
ClearError ==
    /\ rBlocked /\ rBlocked' = FALSE
    /\ UNCHANGED <<rGithub, rIndex, rPending, rCount, rAge, rEscalated, rScan, rHistory>>

RecoveryPass ==
    \/ \E saved \in BOOLEAN :
          \/ ForceTransition(saved, TRUE) \/ _escalate_exhausted_recovery(saved)
          \/ LeaveAlone(saved) \/ InGrace(saved) \/ DetectStall(saved)
          \/ rFaults < MaxFaults /\ ForceTransition(saved, FALSE)
    \/ AlreadyDone \/ \E posted \in BOOLEAN : SelfHeal(posted)
    \/ \E o \in {"assigned", "refused", "raised", "limited"} : _attempt_reassignment(o)

RecoveryNext ==
    \/ RecoveryPass \/ PollPass
    \/ \E works \in BOOLEAN : EnterStatus(works)
    \/ Elapse \/ RestartLoses \/ ClearError
    \/ \E e \in {"starts", "errored", "none", "finishes", "loses marker"} : AgentEvent(e)

(* One coroutine polls for as long as the server runs.                     *)
RecoveryFairness ==
    /\ WF_rVars(Elapse) /\ WF_rVars(RecoveryPass) /\ WF_rVars(PollPass)

RecoverySpec == RecoveryInit /\ [][RecoveryNext]_rVars /\ RecoveryFairness

---------------------------------------------------------------------------
RecoveryTypeOK ==
    /\ rTable \in [Steps -> {"queued", "active", "done"}] /\ rMarked \subseteq Steps /\ rMerged \subseteq Steps
    /\ rWork \in {"none", "working", "errored"} /\ rIndex \in 0..RecAgents /\ rPending \in 0..(Grace + 1)
    /\ rCount \in 0..MaxRetries /\ rAge \in 0..Cooldown /\ rScan \in 0..RecAgents
    /\ {rBlocked, rEscalated} \subseteq BOOLEAN /\ rStage \in {"before", "open", "moved"}

(* No agent is at work before the ones ahead of it have reported: whatever *)
(* the poll, the recovery and a restart do to the table and the state.     *)
PredecessorsReported ==
    \A a \in Steps : rTable[a] \in {"active", "done"} => 1..(a - 1) \subseteq rMarked

(* The issue goes on to the next status only when every agent reported.    *)
MovedWhenDone == rStage = "moved" => rMarked = Steps

(* Two attempts at one issue are a cooldown apart, whichever way the first *)
(* one ended.                                                              *)
AttemptsApart == [][rCount' > rCount => rGap >= Cooldown]_rVars

(* A stall ends: unless an error waits for an operator or for a person,    *)
(* somebody gets to work, the issue moves on, or recovery gives up.        *)
StallEnds ==
    []<>(\/ rStage # "open" \/ rEscalated \/ rBlocked \/ rWork = "working"
         \/ \E a \in HumanSteps : rTable[a] = "active")

(* Recovery as a whole: it mends the order of the agents and never breaks  *)
(* it, and keeps its attempts apart.                                       *)
RecoveryInOrder ==
    []RecoveryTypeOK /\ []PredecessorsReported /\ []MovedWhenDone /\ AttemptsApart
=============================================================================
