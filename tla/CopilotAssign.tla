--------------------------- MODULE CopilotAssign ----------------------------
(***************************************************************************)
(* Handing a sub-issue to Copilot: _execute_copilot_assignment's attempts, *)
(* each of which takes Copilot off the issue if it seems to be on it, asks *)
(* by GraphQL and, if that seems to have failed, by REST.  GitHub starts a *)
(* session when Copilot is put on an issue it was not on; an answer may be *)
(* lost after its call took effect.  The recovery and the completion check *)
(* share the answer whether Copilot is on the issue for one polling cycle. *)
(***************************************************************************)
EXTENDS Naturals

CONSTANTS Attempts,      \* max_retries
          AssignFaults   \* bound on failed calls and lost answers

ASSUME AssignAssumption == Attempts \in Nat \ {0} /\ AssignFaults \in Nat

VARIABLES
    sOn,       \* GitHub: Copilot is on the issue
    sSessions, \* GitHub: sessions started since the assignment began
    sCached,   \* the cycle cache: "none", or whether Copilot is on the issue
    sRead,     \* the answer on its way to another reader, or "none"
    sAt,       \* idle, look, unassign, graphql, rest, sleep, assigned, refused
    sAttempt,
    sLost,     \* answers lost in this assignment
    sStayed,   \* it was not taken off, its removal having failed or the cache being old
    sCrossed,  \* an answer of before the assignment was cached after it
    sFaults

sVars == <<sOn, sSessions, sCached, sRead, sAt, sAttempt, sLost, sStayed, sCrossed, sFaults>>

AssignInit ==
    /\ sOn = FALSE /\ sSessions = 0 /\ sCached = "none" /\ sRead = "none" /\ sAt = "idle" /\ sAttempt = 0
    /\ sLost = 0 /\ sStayed = FALSE /\ sCrossed = FALSE /\ sFaults = 0

AssignFault == sFaults < AssignFaults /\ sFaults' = sFaults + 1
CallGoes(from, to) == sAt = from /\ sAt' = to
IsOn == IF sOn THEN "yes" ELSE "no"

(* What a call comes to: it works, fails, or works and its answer is lost. *)
Outcomes == {"works", "fails", "lost"}
AnswerTo(how) ==
    /\ IF how = "works" THEN UNCHANGED sFaults ELSE AssignFault
    /\ sLost' = IF how = "lost" THEN sLost + 1 ELSE sLost

---------------------------------------------------------------------------
BeginAssign ==
    /\ sAt \in {"idle", "assigned", "refused"} /\ sAt' = "look" /\ sAttempt' = 1
    /\ sSessions' = 0 /\ sLost' = 0 /\ sStayed' = FALSE /\ sCrossed' = FALSE
    /\ UNCHANGED <<sOn, sCached, sRead, sFaults>>

(* Whether Copilot is on the issue: from the cycle cache, or of GitHub; an *)
(* error counts as yes and is not cached.                                  *)
TakeOff(answer) == IF answer = "yes" THEN "unassign" ELSE "graphql"
is_copilot_assigned_to_issue(ok) ==
    /\ sAt = "look"
    /\ IF sCached # "none" THEN sAt' = TakeOff(sCached) /\ UNCHANGED <<sCached, sFaults>>
       ELSE IF ok THEN sAt' = TakeOff(IsOn) /\ sCached' = IsOn /\ UNCHANGED sFaults
       ELSE sAt' = TakeOff("yes") /\ AssignFault /\ UNCHANGED sCached
    /\ sStayed' = (sStayed \/ (sOn /\ sCached = "no"))
    /\ UNCHANGED <<sOn, sSessions, sRead, sAttempt, sLost, sCrossed>>

(* A removal that failed is as good as one that worked.                    *)
unassign_copilot_from_issue(how) ==
    /\ CallGoes("unassign", "graphql") /\ AnswerTo(how) /\ sOn' = (sOn /\ how = "fails")
    /\ sCached' = IF how = "works" THEN "none" ELSE sCached
    /\ sStayed' = (sStayed \/ how = "fails")
    /\ UNCHANGED <<sSessions, sRead, sAttempt, sCrossed>>

(* Each of the two ways to ask; an answer drops the cached one.            *)
Invalidated(how) == IF how = "works" THEN "none" ELSE sCached
Ask(how) ==
    /\ AnswerTo(how) /\ sOn' = (sOn \/ how # "fails") /\ sCached' = Invalidated(how)
    /\ sSessions' = IF how # "fails" /\ ~sOn THEN sSessions + 1 ELSE sSessions
    /\ UNCHANGED <<sRead, sAttempt, sStayed, sCrossed>>
RestToo(how) == "rest"
AfterGraphql(how) == IF how = "works" THEN "assigned" ELSE "rest"
_assign_copilot_graphql(how) == CallGoes("graphql", AfterGraphql(how)) /\ Ask(how)
_assign_copilot_rest(how) ==
    /\ CallGoes("rest", IF how = "works" THEN "assigned" ELSE IF sAttempt < Attempts THEN "sleep" ELSE "refused")
    /\ Ask(how)
_execute_copilot_assignment ==
    /\ CallGoes("sleep", "look") /\ sAttempt' = sAttempt + 1
    /\ UNCHANGED <<sOn, sSessions, sCached, sRead, sLost, sStayed, sCrossed, sFaults>>

(* Another reader of the same answer, and the cycle that forgets it.       *)
ReadAssigned ==
    /\ sCached = "none" /\ sRead = "none" /\ sRead' = IsOn
    /\ UNCHANGED <<sOn, sSessions, sCached, sAt, sAttempt, sLost, sStayed, sCrossed, sFaults>>
_cycle_cached ==
    /\ sRead # "none" /\ sRead' = "none" /\ sCached' = sRead /\ sCrossed' = (sCrossed \/ sRead # IsOn)
    /\ UNCHANGED <<sOn, sSessions, sAt, sAttempt, sLost, sStayed, sFaults>>
clear_cycle_cache ==
    /\ sCached # "none" /\ sCached' = "none"
    /\ UNCHANGED <<sOn, sSessions, sRead, sAt, sAttempt, sLost, sStayed, sCrossed, sFaults>>

(* Copilot takes itself off the issue when its session is over.            *)
CopilotLeaves ==
    /\ sOn /\ sOn' = FALSE
    /\ UNCHANGED <<sSessions, sCached, sRead, sAt, sAttempt, sLost, sStayed, sCrossed, sFaults>>

AssignNext ==
    \/ BeginAssign \/ _execute_copilot_assignment \/ ReadAssigned \/ _cycle_cached \/ clear_cycle_cache \/ CopilotLeaves
    \/ \E ok \in BOOLEAN : is_copilot_assigned_to_issue(ok)
    \/ \E how \in Outcomes : unassign_copilot_from_issue(how) \/ _assign_copilot_graphql(how) \/ _assign_copilot_rest(how)
AssignSpec == AssignInit /\ [][AssignNext]_sVars

---------------------------------------------------------------------------
(* The attempts of an assignment start one session of the agent, and at    *)
(* most one more for each answer that was lost.                            *)
SessionsExplained == sSessions <= 1 + sLost

(* An assignment that reports success has started a session of its own and *)
(* has not met that of an earlier agent, unless Copilot could not be taken *)
(* off or an old answer had it off already.                                *)
AssignedHasSession == sAt = "assigned" /\ ~sStayed => sSessions > 0

(* What the cycle remembers does not hide an assignment that was answered, *)
(* unless another reader's question overlapped it: a completion check      *)
(* would take an agent that has just begun for one that is done.           *)
AssignmentNotHidden == sAt = "assigned" /\ sOn /\ ~sCrossed => sCached # "no"

(* The assignment as a whole: a success stands for a session, no session   *)
(* is paid for twice, and the cycle's memory does not deny it.             *)
AssignmentIsReal == SessionsExplained /\ AssignedHasSession /\ AssignmentNotHidden
=============================================================================
