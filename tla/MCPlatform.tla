----------------------------- MODULE MCPlatform ------------------------------
(****************************************************************************)
(* What the pipelines run on: the polling tasks, their use of the request   *)
(* quota and the board cache, for one TLC run.  They share no state here,   *)
(* and a behaviour runs the part that focus names.                          *)
(****************************************************************************)
EXTENDS PollingLifecycle, BoardCache, PollPacing
(* Polling stays alive: news is noticed, readers are answered and a pause  *)
(* for the quota ends.                                                     *)
PollingGoesOn == NewsNoticed /\ ReadsAnswered /\ PausesEnd

VARIABLE focus
Init ==
    /\ focus \in {"polling", "board", "pacing"}
    /\ LifecycleInit /\ BoardInit /\ PacingInit
vars == <<focus, lVars, bVars, pVars>>
Next ==
    /\ UNCHANGED focus
    /\ \/ focus = "polling" /\ LifecycleNext /\ UNCHANGED <<bVars, pVars>>
       \/ focus = "board" /\ BoardNext /\ UNCHANGED <<lVars, pVars>>
       \/ focus = "pacing" /\ PacingNext /\ UNCHANGED <<lVars, bVars>>
Spec == Init /\ [][Next]_vars /\ LifecycleFairness /\ BoardFairness /\ PacingFairness
==============================================================================
