------------------------------ MODULE MCAgents -------------------------------
(****************************************************************************)
(* Launching an issue, noticing that an agent has finished, having the work *)
(* reviewed, and creating a planned app, for one TLC run.  They share no    *)
(* state here, and a behaviour runs the part that focus names.              *)
(****************************************************************************)
EXTENDS WorkflowLaunch, CompletionSignals, CopilotReview, AppPlan
(* Work comes to its end: a launched issue gets its first agent, finished  *)
(* work its credit, the review step its review, and the creation of an app *)
(* a row that says how it ended.                                           *)
WorkIsSettled == LaunchedIsStarted /\ FinishedIsCredited /\ ReviewIsAccepted /\ CreationSettles

VARIABLE focus
Init ==
    /\ focus \in {"launch", "signals", "review", "app"}
    /\ LaunchInit /\ SignalInit /\ ReviewInit /\ AppPlanInit
vars == <<focus, oVars, uVars, cVars, aVars>>
Next ==
    /\ UNCHANGED focus
    /\ \/ focus = "launch" /\ LaunchNext /\ UNCHANGED <<uVars, cVars, aVars>>
       \/ focus = "signals" /\ SignalNext /\ UNCHANGED <<oVars, cVars, aVars>>
       \/ focus = "review" /\ ReviewNext /\ UNCHANGED <<oVars, uVars, aVars>>
       \/ focus = "app" /\ AppPlanNext /\ UNCHANGED <<oVars, uVars, cVars>>
Spec == Init /\ [][Next]_vars /\ LaunchFairness /\ SignalFairness /\ ReviewFairness /\ AppPlanFairness
==============================================================================
