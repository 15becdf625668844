----------------------------- MODULE PollPacing -----------------------------
(***************************************************************************)
(* How the polling loop spends GitHub's request quota: the budget it last  *)
(* saw, the pauses before a cycle and after each step, the expensive steps *)
(* it leaves out, and the stale figures it forgets.  The quota counts the  *)
(* requests whose answer carries rate-limit headers, in units of 50.       *)
(***************************************************************************)
EXTENDS Naturals

CONSTANTS Quota,      \* requests in a window
          StepCost,   \* requests of one step at most
          Others      \* bound on requests of the API and of webhooks

PauseThreshold == 1          \* RATE_LIMIT_PAUSE_THRESHOLD = 50
SkipExpensiveThreshold == 2  \* 100
SlowThreshold == 4           \* 200
Steps == 1 .. 3              \* outputs (expensive), the columns, recovery (expensive)
Expensive == {1, 3}
NoInfo == [left |-> Quota + 1, old |-> FALSE]

(* A window allows more requests than the reserve: 5000 against 50.        *)
ASSUME PacingAssumption ==
    /\ Quota \in Nat /\ StepCost \in Nat /\ Others \in Nat
    /\ Quota > PauseThreshold

VARIABLES
    pLeft,     \* what is left of the window, on GitHub
    pMine,     \* the headers last seen by the polling task (its contextvar)
    pLast,     \* the headers last seen by anybody (_last_rate_limit)
    pAt,       \* off, start, polling, tail, paused or waiting
    pStep,     \* next step of the project
    pSkip,     \* expensive steps are left out
    pTheirs    \* spent by others, in this window

pVars == <<pLeft, pMine, pLast, pAt, pStep, pSkip, pTheirs>>

PacingInit ==
    /\ pLeft = Quota /\ pMine = NoInfo /\ pLast = NoInfo
    /\ pAt = "off" /\ pStep = 1 /\ pSkip = FALSE /\ pTheirs = 0

(* get_last_rate_limit: the task's own figures first.  A window that has   *)
(* rolled over since makes them old.                                       *)
get_last_rate_limit(mine, last) == IF mine # NoInfo THEN mine ELSE last
KnownBudget == get_last_rate_limit(pMine, pLast)
Low(info) == info.left <= PauseThreshold

(* clear_last_rate_limit, when the pause would wait for a window that has  *)
(* passed already.                                                         *)
clear_last_rate_limit == pMine' = NoInfo /\ pLast' = NoInfo

(* _pause_if_rate_limited: sleep, or go on with next.                      *)
NeverCleared(info) == FALSE
StaleCleared(info) == Low(info) /\ info.old
MustPause(info) == Low(info) /\ ~StaleCleared(info)
_pause_if_rate_limited(info, mine, last, next) ==
    /\ pAt' = IF MustPause(info) THEN "paused" ELSE next
    /\ IF StaleCleared(info) THEN clear_last_rate_limit ELSE pMine' = mine /\ pLast' = last

---------------------------------------------------------------------------
poll_for_copilot_completion ==
    /\ pAt = "off" /\ pAt' = "start"
    /\ UNCHANGED <<pLeft, pMine, pLast, pStep, pSkip, pTheirs>>

(* A cycle: the pause before it, then the project's items and steps.       *)
PreCycle ==
    /\ pAt = "start"
    /\ _pause_if_rate_limited(KnownBudget, pMine, pLast, "polling")
    /\ pStep' = 1 /\ pSkip' = (KnownBudget.left <= SkipExpensiveThreshold)
    /\ UNCHANGED <<pLeft, pTheirs>>

(* One step of _poll_single_project and the pause after it.  A step that   *)
(* sends no request learns nothing; without quota its request fails.       *)
NextStep(i) == IF i + 1 \in Steps THEN "polling" ELSE "tail"
SkipStep ==
    /\ pAt = "polling" /\ pStep \in Expensive /\ pSkip
    /\ pAt' = NextStep(pStep) /\ pStep' = pStep + 1
    /\ UNCHANGED <<pLeft, pMine, pLast, pSkip, pTheirs>>
AfterStep(info, next) == _pause_if_rate_limited(get_last_rate_limit(info.mine, info.last), info.mine, info.last, next)
OnlyBeforeCycles(info, next) == pAt' = next /\ pMine' = info.mine /\ pLast' = info.last
PauseAfter(info, next) == AfterStep(info, next)
_poll_single_project(cost) ==
    /\ pAt = "polling" /\ ~(pStep \in Expensive /\ pSkip) /\ cost <= pLeft
    /\ pLeft' = pLeft - cost
    /\ LET seen == [left |-> pLeft', old |-> FALSE]
       IN  PauseAfter(IF cost = 0 THEN [mine |-> pMine, last |-> pLast] ELSE [mine |-> seen, last |-> seen],
                      NextStep(pStep))
    /\ pStep' = pStep + 1 /\ UNCHANGED <<pSkip, pTheirs>>
StepFails ==
    /\ pAt = "polling" /\ pLeft < StepCost
    /\ LET seen == [left |-> 0, old |-> FALSE]
       IN  pMine' = seen /\ pLast' = seen
    /\ pLeft' = 0 /\ pAt' = "failed" /\ UNCHANGED <<pStep, pSkip, pTheirs>>

(* After an error the figures are looked at again, and forgotten if old.   *)
PostError ==
    /\ pAt = "failed" /\ pAt' = "tail"
    /\ IF StaleCleared(KnownBudget) THEN clear_last_rate_limit ELSE UNCHANGED <<pMine, pLast>>
    /\ UNCHANGED <<pLeft, pStep, pSkip, pTheirs>>

(* The interval before the next cycle, and a pause, come to an end; a pause*)
(* lasts 15 minutes at most, so perhaps before the window rolls over.      *)
Tail ==
    /\ pAt = "tail" /\ pAt' = IF KnownBudget.left <= SlowThreshold THEN "waiting longer" ELSE "waiting"
    /\ UNCHANGED <<pLeft, pMine, pLast, pStep, pSkip, pTheirs>>
SleepEnds ==
    /\ pAt \in {"waiting", "waiting longer", "paused"} /\ pAt' = "start"
    /\ UNCHANGED <<pLeft, pMine, pLast, pStep, pSkip, pTheirs>>

(* GitHub's window rolls over; others use the same quota.                  *)
Aged(info) == IF info = NoInfo THEN info ELSE [info EXCEPT !.old = TRUE]
WindowRolls ==
    /\ pAt # "off" /\ pLeft' = Quota /\ pTheirs' = 0 /\ pMine' = Aged(pMine) /\ pLast' = Aged(pLast)
    /\ UNCHANGED <<pAt, pStep, pSkip>>
OthersSpend ==
    /\ pTheirs < Others /\ pLeft > 0
    /\ pTheirs' = pTheirs + 1 /\ pLeft' = pLeft - 1
    /\ pLast' = [left |-> pLeft', old |-> FALSE]
    /\ UNCHANGED <<pMine, pAt, pStep, pSkip>>

PacingNext ==
    \/ poll_for_copilot_completion \/ PreCycle \/ SkipStep \/ StepFails \/ PostError \/ Tail \/ SleepEnds
    \/ WindowRolls \/ OthersSpend
    \/ \E cost \in 0 .. StepCost : _poll_single_project(cost)

PollStep == SkipStep \/ StepFails \/ \E cost \in 0 .. StepCost : _poll_single_project(cost)
(* The loop runs, sleeps end, and windows roll over.                       *)
PacingFairness ==
    /\ WF_pVars(PreCycle) /\ WF_pVars(PollStep) /\ WF_pVars(PostError) /\ WF_pVars(Tail)
    /\ WF_pVars(SleepEnds) /\ WF_pVars(WindowRolls)

PacingSpec == PacingInit /\ [][PacingNext]_pVars /\ PacingFairness

---------------------------------------------------------------------------
(* What polling itself spends leaves a reserve: it goes below the pause    *)
(* threshold by the cost of one step at most, whatever figures it goes by. *)
PollingLeavesReserve == pLeft + pTheirs + StepCost > PauseThreshold

(* A pause ends in polling: the figures of a window that is over do not    *)
(* keep the loop asleep.                                                   *)
PausesEnd == pAt = "paused" ~> pAt = "polling"
=============================================================================
