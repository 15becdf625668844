---------------------------- MODULE TriggerGuard ----------------------------
(***************************************************************************)
(* The in-flight marker that keeps two callers (the poll, the recovery, a  *)
(* request) from assigning the same agent at the same time: transitions.py *)
(* and _execute_copilot_assignment of the orchestrator, for one            *)
(* (issue, status, agent).  The marker lives in memory; tasks that the     *)
(* store lock puts in order write it behind to SQLite, from where a restart*)
(* reads it.  Callers overlap at their awaits and time passes meanwhile.   *)
(***************************************************************************)
EXTENDS Naturals, Sequences, FiniteSets

CONSTANTS Callers,       \* coroutines that assign this agent
          StaleAfter,    \* AGENT_TRIGGER_STALE_SECONDS, in ticks
          GuardFaults    \* bound on failures, restarts and calls per caller

ASSUME GuardAssumption ==
    /\ IsFiniteSet(Callers) /\ StaleAfter \in Nat \ {0} /\ GuardFaults \in Nat

NoMark == StaleAfter + 1   \* no marker; an age above StaleAfter is not told apart

VARIABLES
    gMark,     \* _agent_trigger_inflight: age of the marker, or NoMark
    gRow,      \* agent_trigger_inflight in SQLite: age of the row, or NoMark
    gWrites,   \* persist tasks waiting for the store lock, in order
    gAt,       \* where each caller is: "out", "resolving" the model, "assigning"
    gSince,    \* ticks since the caller claimed, at most StaleAfter
    gAssigned, \* the agent has been assigned
    gLate,     \* history: a caller has held its claim for StaleAfter ticks or more
    gFaults

gVars == <<gMark, gRow, gWrites, gAt, gSince, gAssigned, gLate, gFaults>>

GuardInit ==
    /\ gMark = NoMark /\ gRow = NoMark /\ gWrites = <<>> /\ gAssigned = TRUE
    /\ gAt = [c \in Callers |-> "out"] /\ gSince = [c \in Callers |-> 0]
    /\ gLate = FALSE /\ gFaults = 0

Inside == {c \in Callers : gAt[c] # "out"}

---------------------------------------------------------------------------
(* should_skip_agent_trigger: one step of the event loop, no await between *)
(* the look and the write.                                                 *)
AnyMark == gMark # NoMark
NeverFresh == gMark < 0
MarkFresh == gMark < StaleAfter
Schedule(w) == gWrites' = Append(gWrites, w)
should_skip_agent_trigger(c) ==
    /\ gAt[c] = "out" /\ ~gAssigned /\ ~MarkFresh
    /\ gMark' = 0 /\ Schedule([op |-> "set", age |-> 0])
    /\ gAt' = [gAt EXCEPT ![c] = "resolving"] /\ gSince' = [gSince EXCEPT ![c] = 0]
    /\ UNCHANGED <<gRow, gAssigned, gLate, gFaults>>

(* release_agent_trigger drops the marker, whoever set it.                 *)
release_agent_trigger == gMark' = NoMark /\ Schedule([op |-> "delete", age |-> 0])

(* The model is resolved before the try block: a failure there leaves the  *)
(* marker behind.                                                          *)
ResolveModel(c, fails) ==
    /\ gAt[c] = "resolving"
    /\ gAt' = [gAt EXCEPT ![c] = IF fails THEN "out" ELSE "assigning"]
    /\ fails => gFaults < GuardFaults
    /\ gFaults' = IF fails THEN gFaults + 1 ELSE gFaults
    /\ UNCHANGED <<gMark, gRow, gWrites, gSince, gAssigned, gLate>>

(* The calls to GitHub, and the finally clause behind them.                *)
FinishAssign(c, works) ==
    /\ gAt[c] = "assigning" /\ gAt' = [gAt EXCEPT ![c] = "out"]
    /\ works \/ gFaults < GuardFaults
    /\ gFaults' = IF works THEN gFaults ELSE gFaults + 1
    /\ gAssigned' = (gAssigned \/ works)
    /\ release_agent_trigger
    /\ UNCHANGED <<gRow, gSince, gLate>>

(* One persist task, under the store lock.                                 *)
Persist ==
    /\ gWrites # <<>> /\ gWrites' = Tail(gWrites)
    /\ gRow' = IF Head(gWrites).op = "set" THEN Head(gWrites).age ELSE NoMark
    /\ UNCHANGED <<gMark, gAt, gSince, gAssigned, gLate, gFaults>>

Aged(n) == IF n < StaleAfter THEN n + 1 ELSE n
GuardTick ==
    /\ gMark' = Aged(gMark) /\ gRow' = Aged(gRow)
    /\ gWrites' = [k \in 1..Len(gWrites) |-> [gWrites[k] EXCEPT !.age = Aged(@)]]
    /\ gSince' = [c \in Callers |-> IF c \in Inside THEN Aged(gSince[c]) ELSE 0]
    /\ gLate' = (gLate \/ \E c \in Inside : gSince'[c] >= StaleAfter)
    /\ UNCHANGED <<gAt, gAssigned, gFaults>>

(* A restart: the callers and the waiting tasks are gone, the marker is    *)
(* read back from the table.                                               *)
GuardRestart ==
    /\ gFaults < GuardFaults /\ gFaults' = gFaults + 1
    /\ gAt' = [c \in Callers |-> "out"] /\ gSince' = [c \in Callers |-> 0]
    /\ gMark' = gRow /\ gWrites' = <<>>
    /\ UNCHANGED <<gRow, gAssigned, gLate>>

(* The agent is wanted again: a retry, or the next run of the pipeline.    *)
WantedAgain ==
    /\ gAssigned /\ gFaults < GuardFaults /\ gFaults' = gFaults + 1 /\ gAssigned' = FALSE
    /\ UNCHANGED <<gMark, gRow, gWrites, gAt, gSince, gLate>>

GuardNext ==
    \/ \E c \in Callers : should_skip_agent_trigger(c)
    \/ \E c \in Callers, b \in BOOLEAN : ResolveModel(c, b) \/ FinishAssign(c, b)
    \/ Persist \/ GuardTick \/ GuardRestart \/ WantedAgain

(* The poll comes back to an agent that was not assigned, the calls return *)
(* and time passes.                                                        *)
GuardFairness ==
    /\ \A c \in Callers : WF_gVars(should_skip_agent_trigger(c))
    /\ \A c \in Callers : WF_gVars(\E b \in BOOLEAN : ResolveModel(c, b)) /\ WF_gVars(\E b \in BOOLEAN : FinishAssign(c, b))
    /\ WF_gVars(Persist) /\ WF_gVars(GuardTick)

GuardSpec == GuardInit /\ [][GuardNext]_gVars /\ GuardFairness

---------------------------------------------------------------------------
(* While nobody has outlived its claim, at most one caller is assigning:   *)
(* not two at once, whatever failed, restarted or was written late.        *)
OneAssignment == ~gLate => Cardinality(Inside) <= 1

(* The row that a restart would read follows the marker once the writes    *)
(* are through: present or absent together.                                *)
RowFollowsMark == gWrites = <<>> => (gRow = NoMark <=> gMark = NoMark)

(* No marker, left behind by a failure or a restart, blocks an agent for   *)
(* good: an agent that is wanted is assigned.                              *)
EventuallyAssigned == []<>gAssigned

(* The guard as a whole: it excludes, and its row follows it.              *)
GuardExcludes == OneAssignment /\ RowFollowsMark
=============================================================================
