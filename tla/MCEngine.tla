------------------------------ MODULE MCEngine -------------------------------
(****************************************************************************)
(* The parts of the polling engine for one TLC run: the queue of a project, *)
(* an issue across the columns of the board, the recovery of a stalled one, *)
(* the guard against assigning an agent twice, and the table of agents in   *)
(* the issue.  They share no state here, and a behaviour runs the part that *)
(* focus names.                                                             *)
(****************************************************************************)
EXTENDS ProjectQueue, StatusFlow, StallRecovery, TriggerGuard, TrackingTable
CONSTANTS i1, i2, i3
IssueSet == {i1, i2, i3}
Prerequisites == [i \in IssueSet |-> IF i = i3 THEN {i1} ELSE {}]
Columns == [i \in IssueSet |-> IF i = i1 THEN "early" ELSE "late"]
PlanSet == {<<1, 2, 1, 1>>, <<2, 0, 1, 0>>, <<1, 1, 0, 1>>, <<1, 0, 0, 1>>, <<0, 2, 2, 0>>}
(* Nothing waits for ever: a queued pipeline starts, an issue reaches the  *)
(* end of its columns, a stall ends, a marker blocks no agent for good and *)
(* the table comes to show what is done.                                   *)
EngineMovesOn ==
    QueuedIsStarted /\ ReachesTheEnd /\ StallEnds /\ EventuallyAssigned /\ DoneIsShown

VARIABLE focus
Init ==
    /\ focus \in {"queue", "flow", "recovery", "trigger", "table"}
    /\ QueueInit /\ FlowInit /\ RecoveryInit /\ GuardInit /\ TableInit
vars == <<focus, qVars, fVars, rVars, gVars, tVars>>
Next ==
    /\ UNCHANGED focus
    /\ \/ focus = "queue" /\ QueueNext /\ UNCHANGED <<fVars, rVars, gVars, tVars>>
       \/ focus = "flow" /\ FlowNext /\ UNCHANGED <<qVars, rVars, gVars, tVars>>
       \/ focus = "recovery" /\ RecoveryNext /\ UNCHANGED <<qVars, fVars, gVars, tVars>>
       \/ focus = "trigger" /\ GuardNext /\ UNCHANGED <<qVars, fVars, rVars, tVars>>
       \/ focus = "table" /\ TableNext /\ UNCHANGED <<qVars, fVars, rVars, gVars>>
Spec == Init /\ [][Next]_vars /\ QueueFairness /\ FlowFairness /\ RecoveryFairness /\ GuardFairness /\ TableFairness
==============================================================================
