---------------------------- MODULE ChatSessions ----------------------------
(***************************************************************************)
(* The chat agent's sessions: a bounded map from a conversation's key to   *)
(* the session the agent framework resumes, the slot in a session's state  *)
(* through which a tool hands its action to the run that called it, and    *)
(* plan mode.  Plan runs use the key of the whole chat session, chat runs  *)
(* one key per conversation.                                               *)
(***************************************************************************)
EXTENDS Naturals, FiniteSets

CONSTANTS Conversations,  \* keys of chat runs
          PlanKey,        \* the key of plan runs
          Runs,           \* runs under way at a time
          MaxAgentSessions, \* agent_max_concurrent_sessions
          MaxMade         \* bound on sessions ever made

ASSUME ChatSessionsAssumption ==
    IsFiniteSet(Conversations) /\ PlanKey \notin Conversations /\ MaxAgentSessions \in Nat \ {0} /\ MaxMade \in Nat

VARIABLES
    nEntry,    \* the session of each key, 0 without one
    nUsed,     \* last_accessed: each key's place in the order of last use, 0 at first
    nOld,      \* keys not used for the time to live
    nSlot,     \* each session's slot: the run whose tool filled it, or none
    nPlan,     \* sessions in plan mode
    nRun,      \* each run: idle, chat, plan, acted; its session; whether another joined it
    nGot,      \* whose action each run's last answer carried: none, own, shared or foreign
    nStuck,    \* sessions whose run failed
    nMade

nVars == <<nEntry, nUsed, nOld, nSlot, nPlan, nRun, nGot, nStuck, nMade>>
Keys == Conversations \cup {PlanKey}
NoRun == [at |-> "idle", session |-> 0, key |-> PlanKey, shared |-> FALSE, acted |-> FALSE]

ChatSessionsInit ==
    /\ nEntry = [k \in Keys |-> 0] /\ nUsed = [k \in Keys |-> 0] /\ nOld = {} /\ nSlot = [m \in 1..MaxMade |-> "none"]
    /\ nPlan = {} /\ nRun = [r \in Runs |-> NoRun] /\ nGot = [r \in Runs |-> "none"] /\ nStuck = {} /\ nMade = 0

FreshKeys == {k \in Keys \ nOld : nEntry[k] # 0}
InUse(m) == {r \in Runs : nRun[r].at # "idle" /\ nRun[r].session = m}

---------------------------------------------------------------------------
(* A run asks for its session.  What is too old goes first; a full map     *)
(* loses the least recently used one.                                      *)
_evict_oldest ==
    IF Cardinality(FreshKeys) >= MaxAgentSessions THEN {k \in FreshKeys : \A x \in FreshKeys : nUsed[k] <= nUsed[x]} ELSE {}
StartRun(r, k, at, session, kept) ==
    /\ nRun' = [x \in Runs |->
          IF x = r THEN [at |-> at, session |-> session, key |-> k, shared |-> InUse(session) # {}, acted |-> FALSE]
          ELSE [nRun[x] EXCEPT !.shared = @ \/ x \in InUse(session)]]
    /\ nEntry' = [x \in Keys |-> IF x = k THEN session ELSE IF x \in kept THEN nEntry[x] ELSE 0]
    /\ nUsed' = [x \in Keys |-> IF x = k THEN Cardinality(Keys) ELSE IF nUsed[x] > nUsed[k] THEN nUsed[x] - 1 ELSE nUsed[x]]
    /\ nOld' = {} /\ nGot' = [nGot EXCEPT ![r] = "none"]
    /\ nPlan' = IF at = "plan" THEN nPlan \cup {session} ELSE nPlan
    /\ UNCHANGED <<nSlot, nStuck>>
Resume(r, k, at) ==
    /\ nEntry[k] # 0 /\ k \notin nOld
    /\ StartRun(r, k, at, nEntry[k], FreshKeys) /\ UNCHANGED nMade
Live(r, k, at) ==
    /\ nEntry[k] = 0 \/ k \in nOld
    /\ nMade < MaxMade /\ nMade' = nMade + 1
    /\ StartRun(r, k, at, nMade + 1, FreshKeys \ _evict_oldest)
get_or_create(r, k, at) == nRun[r].at = "idle" /\ (Resume(r, k, at) \/ Live(r, k, at))

(* A chat run whose session is in plan mode goes on as a plan run.         *)
run_plan(r) == get_or_create(r, PlanKey, "plan")
run(r, k) == IF nEntry[k] \in nPlan THEN run_plan(r) ELSE get_or_create(r, k, "chat")

(* A tool leaves its action in the session; the run takes what is there.   *)
ToolActs(r) ==
    /\ nRun[r].at \in {"chat", "plan"} /\ ~nRun[r].acted
    /\ nSlot' = [nSlot EXCEPT ![nRun[r].session] = r] /\ nRun' = [nRun EXCEPT ![r].acted = TRUE]
    /\ UNCHANGED <<nEntry, nUsed, nOld, nPlan, nGot, nStuck, nMade>>
PeekAction(r) == nSlot' = nSlot
PopAction(r) == nSlot' = [nSlot EXCEPT ![nRun[r].session] = "none"]
Taken(r) ==
    LET left == nSlot[nRun[r].session]
    IN IF left = "none" THEN "none"
       ELSE IF left = r /\ nRun[r].acted THEN "own"
       ELSE IF nRun[r].shared \/ nRun[r].session \in nStuck THEN "shared" ELSE "foreign"
_consume_session_tool_action(r) ==
    /\ nRun[r].at # "idle" /\ nGot' = [nGot EXCEPT ![r] = Taken(r)] /\ PopAction(r)
    /\ nRun' = [nRun EXCEPT ![r] = NoRun] /\ UNCHANGED <<nEntry, nUsed, nOld, nPlan, nStuck, nMade>>

(* A run that fails drops the session of the plan key, whatever key it ran *)
(* under, and leaves the slot as it is.                                    *)
invalidate(r) ==
    /\ nRun[r].at # "idle" /\ nRun' = [nRun EXCEPT ![r] = NoRun]
    /\ nEntry' = [nEntry EXCEPT ![PlanKey] = 0] /\ UNCHANGED nUsed /\ nOld' = nOld \ {PlanKey}
    /\ nStuck' = nStuck \cup {nRun[r].session} /\ UNCHANGED <<nSlot, nPlan, nGot, nMade>>

exit_plan_mode ==
    /\ nEntry[PlanKey] # 0 /\ nPlan' = nPlan \ {nEntry[PlanKey]}
    /\ UNCHANGED <<nEntry, nUsed, nOld, nSlot, nRun, nGot, nStuck, nMade>>
SessionGrowsOld(k) ==
    /\ nEntry[k] # 0 /\ nOld' = nOld \cup {k}
    /\ UNCHANGED <<nEntry, nUsed, nSlot, nPlan, nRun, nGot, nStuck, nMade>>

ChatSessionsNext ==
    \/ \E r \in Runs : \/ run_plan(r) \/ ToolActs(r) \/ _consume_session_tool_action(r) \/ invalidate(r)
                       \/ \E k \in Conversations : run(r, k)
    \/ exit_plan_mode \/ \E k \in Keys : SessionGrowsOld(k)
ChatSessionsSpec == ChatSessionsInit /\ [][ChatSessionsNext]_nVars

---------------------------------------------------------------------------
(* The map never holds more sessions than it may.                          *)
SessionsBounded == Cardinality({k \in Keys : nEntry[k] # 0}) <= MaxAgentSessions

(* An answer carries the action of its own run's tool, unless another run  *)
(* shared the session or an earlier one in it failed with its action still *)
(* in the slot.                                                            *)
ActionIsOwn == \A r \in Runs : nGot[r] # "foreign"

(* The sessions as a whole: as many as may be, and none that hands its     *)
(* action to a stranger.                                                   *)
SessionsKeptApart == SessionsBounded /\ ActionIsOwn
=============================================================================
