----------------------------- MODULE StatusFlow -----------------------------
(***************************************************************************)
(* One issue on its way across the columns of the board, each with agents  *)
(* of its own: the check handlers and the transition of copilot_polling/   *)
(* pipeline.py.  1 Backlog, 2 Ready, 3 In Progress, 4 In Review, 5 Done.   *)
(*                                                                         *)
(* The poll acts on a snapshot of the board, so the column it saw may be   *)
(* stale: GitHub's own automation moves an issue to In Progress when a     *)
(* pull request is linked to it, whatever agents are still to come.        *)
(* PipelineExec has the agents of one column in detail; here an agent is   *)
(* its column and its position in it, and only the order counts.  The      *)
(* issue was launched with the default workflow: it has no pipeline:<name> *)
(* label, so a lost state is rebuilt from the tracking table.              *)
(***************************************************************************)
EXTENDS Naturals, FiniteSets

CONSTANTS Plans,     \* possible workflow configurations: [1..4 -> Nat]
          MaxMoves   \* bound on moves by the automation and on losses of the state

(* A workflow without any agent makes no pipeline state                    *)
(* (pipeline_launcher.py:157).                                             *)
ASSUME FlowAssumption ==
    /\ Plans \subseteq [1..4 -> Nat] /\ MaxMoves \in Nat
    /\ \A plan \in Plans : \E s \in 1..4 : plan[s] > 0

NoPipeline == [status |-> 0, from |-> 0, to |-> 0, next |-> 0]
ZeroPlan == [s \in 1..4 |-> 0]

VARIABLES
    fPlan,      \* the number of agents configured for each status
    fBoard,     \* GitHub: the column of the issue, 0 before the launch
    fTable,     \* GitHub: the tracking table of the issue body
    fMarkers,   \* GitHub: the agents whose Done! marker exists
    fState,     \* L1: the pipeline state; from and to are original_status
                \* and target_status, next the position of the current agent
    fSeen,      \* the column in the snapshot of this cycle, 0 between cycles
    fMoves,     \* moves made by the automation, and losses of the state
    fAssigns,   \* history: assignments per agent
    fAstray     \* history: the poll went on in a column that its state was not made for

fVars == <<fPlan, fBoard, fTable, fMarkers, fState, fSeen, fMoves, fAssigns, fAstray>>
github_ == <<fBoard, fTable, fMarkers>>

AgentsOfPlan(plan) == UNION {{s} \X (1..plan[s]) : s \in 1..4}
FlowAgents == AgentsOfPlan(fPlan)
Earlier(a, b) == a[1] < b[1] \/ (a[1] = b[1] /\ a[2] < b[2])

FlowInit ==
    /\ fPlan = ZeroPlan /\ fBoard = 0 /\ fTable = <<>> /\ fMarkers = {}
    /\ fState = NoPipeline /\ fSeen = 0 /\ fMoves = 0 /\ fAssigns = <<>> /\ fAstray = FALSE

---------------------------------------------------------------------------
(* models.py: the status order and the pass-through of empty columns.      *)
get_next_status(s) == IF s < 4 THEN s + 1 ELSE 0
StopsAtNext(s) == IF s >= 4 THEN s ELSE s + 1
find_next_actionable_status(s) ==
    IF s >= 4 THEN s
    ELSE CHOOSE c \in (s + 1)..4 :
           /\ fPlan[c] > 0 \/ c = 4
           /\ \A d \in (s + 1)..(c - 1) : fPlan[d] = 0

(* The agents a state lists are those of the column it was made for, which *)
(* original_status remembers once the board's move has been accepted.      *)
AgentsOf(p) == IF p.from # 0 THEN p.from ELSE p.status
is_complete(p) == p.next > fPlan[AgentsOf(p)]
Current(p) == <<AgentsOf(p), p.next>>

(* A state that was rebuilt for another column, but is used with the column*)
(* and the target of the one that was seen.                                *)
Strays(p) == p.from = 0 /\ p.status # fSeen

(* assign_agent_for_status: a column without agents or a position past its *)
(* end counts as success and changes nothing.                              *)
Assignable(s, k) == s \in 1..4 /\ k <= fPlan[s]
Dispatch(s, k, table) ==
    /\ fTable' = [table EXCEPT ![<<s, k>>] = "active"]
    /\ fAssigns' = [fAssigns EXCEPT ![<<s, k>>] = @ + 1]
NewState(s, k) == [status |-> s, from |-> 0, to |-> 0, next |-> k]

(* _transition_after_pipeline_complete: the board moves, the state goes,   *)
(* empty columns are passed, the first agent is assigned with a new state. *)
(* _advance_pipeline removes the state once more after it.                 *)
_transition_after_pipeline_complete(p, to, table, drops) ==
    LET eff == IF to < 4 /\ fPlan[to] = 0 THEN find_next_actionable_status(to) ELSE to
    IN  /\ fBoard' = eff /\ fAstray' = (fAstray \/ Strays(p))
        /\ IF Assignable(eff, 1)
           THEN Dispatch(eff, 1, table) /\ fState' = IF drops THEN NoPipeline ELSE NewState(eff, 1)
           ELSE fTable' = table /\ fState' = NoPipeline /\ UNCHANGED fAssigns

MarkDone(a) == [fTable EXCEPT ![a] = "done"]

(* _advance_pipeline: the next agent is looked up in the column the state  *)
(* belongs to, and its new state forgets original and target status.       *)
_advance_pipeline(p, to) ==
    LET q == [p EXCEPT !.next = @ + 1]
    IN  IF is_complete(q)
        THEN _transition_after_pipeline_complete(p, to, MarkDone(Current(p)), TRUE)
        ELSE /\ UNCHANGED <<fBoard, fAstray>>
             /\ Dispatch(AgentsOf(p), q.next, MarkDone(Current(p)))
             /\ fState' = NewState(AgentsOf(p), q.next)

(* _process_pipeline_completion: a finished pipeline, a finished agent, an *)
(* agent at work, or one that was never assigned.                          *)
AllDoneIn(p) == [a \in DOMAIN fTable |-> IF a[1] = AgentsOf(p) THEN "done" ELSE fTable[a]]
RecoverAssign(p, from) ==
    LET s == IF p.from # 0 THEN p.from ELSE from
    IN  /\ fState' = p /\ UNCHANGED fBoard /\ fAstray' = (fAstray \/ Strays(p))
        /\ IF Assignable(s, p.next) THEN Dispatch(s, p.next, fTable) ELSE UNCHANGED <<fTable, fAssigns>>
_process_pipeline_completion(p, from, to) ==
    \/ is_complete(p) /\ _transition_after_pipeline_complete(p, to, AllDoneIn(p), FALSE)
    \/ ~is_complete(p) /\ Current(p) \in fMarkers /\ _advance_pipeline(p, to)
    \/ /\ ~is_complete(p) /\ Current(p) \notin fMarkers /\ fTable[Current(p)] = "active"
       /\ fState' = p /\ UNCHANGED <<fBoard, fTable, fAssigns, fAstray>>
    \/ /\ ~is_complete(p) /\ Current(p) \notin fMarkers /\ fTable[Current(p)] # "active"
       /\ RecoverAssign(p, from)

(* _get_or_reconstruct_pipeline without a usable cached state: the tracking*)
(* table can say that an earlier column is not finished; the position is   *)
(* that of the first agent without a Done! marker.                         *)
Incomplete == {a \in FlowAgents : fTable[a] # "done"}
RebuildStatus(s) ==
    IF \E a \in Incomplete : a[1] = s
    THEN CHOOSE e \in 1..s : /\ \E a \in Incomplete : a[1] = e
                             /\ \A a \in Incomplete : a[1] >= e
    ELSE s
_reconstruct_pipeline_state(s) ==
    NewState(s, CHOOSE k \in 1..(fPlan[s] + 1) :
                  /\ <<s, k>> \notin fMarkers \/ k = fPlan[s] + 1
                  /\ \A j \in 1..(k - 1) : <<s, j>> \in fMarkers)
_get_or_reconstruct_pipeline(s, expected) ==
    IF fState # NoPipeline /\ (expected = 0 \/ fState.status = expected)
    THEN fState ELSE _reconstruct_pipeline_state(RebuildStatus(s))

---------------------------------------------------------------------------
(* start_pipeline: the first column with agents, and its first agent.      *)
LaunchIssue(plan) ==
    /\ fBoard = 0 /\ fPlan' = plan
    /\ LET s == CHOOSE c \in 1..4 : plan[c] > 0 /\ \A d \in 1..(c - 1) : plan[d] = 0
       IN  /\ fBoard' = s /\ fState' = NewState(s, 1)
           /\ fTable' = [a \in AgentsOfPlan(plan) |-> IF a = <<s, 1>> THEN "active" ELSE "pending"]
           /\ fAssigns' = [a \in AgentsOfPlan(plan) |-> IF a = <<s, 1>> THEN 1 ELSE 0]
    /\ UNCHANGED <<fMarkers, fSeen, fMoves, fAstray>>

TakeSnapshot ==
    /\ fBoard # 0 /\ fSeen = 0 /\ fSeen' = fBoard
    /\ UNCHANGED <<fPlan, github_, fState, fMoves, fAssigns, fAstray>>

(* The automation; an agent that finishes; and the state, which is evicted *)
(* or lost by a restart at any time.                                       *)
LinkMovesBoard ==
    /\ fBoard \in {1, 2} /\ fMoves < MaxMoves /\ fMoves' = fMoves + 1 /\ fBoard' = 3
    /\ UNCHANGED <<fPlan, fTable, fMarkers, fState, fSeen, fAssigns, fAstray>>
AgentIsDone(a) ==
    /\ fTable[a] = "active" /\ a \notin fMarkers /\ fMarkers' = fMarkers \cup {a}
    /\ UNCHANGED <<fPlan, fBoard, fTable, fState, fSeen, fMoves, fAssigns, fAstray>>
LoseState ==
    /\ fState # NoPipeline /\ fMoves < MaxMoves /\ fMoves' = fMoves + 1 /\ fState' = NoPipeline
    /\ UNCHANGED <<fPlan, github_, fSeen, fAssigns, fAstray>>

Checked == fSeen' = 0 /\ UNCHANGED <<fPlan, fMarkers, fMoves>>
NothingDone == UNCHANGED <<fBoard, fTable, fState, fAssigns, fAstray>>

(* Backlog and Ready: any cached state is used, whatever its status.       *)
check_backlog_issues ==
    /\ fSeen = 1 /\ Checked
    /\ LET p == _get_or_reconstruct_pipeline(1, 0)
       IN  IF fPlan[AgentsOf(p)] = 0 THEN NothingDone ELSE _process_pipeline_completion(p, 1, 2)
check_ready_issues ==
    /\ fSeen = 2 /\ Checked
    /\ LET p == _get_or_reconstruct_pipeline(2, 0)
       IN  IF fPlan[AgentsOf(p)] = 0 THEN NothingDone ELSE _process_pipeline_completion(p, 2, 3)

(* The legacy path for a column without agents: the finished pull request  *)
(* moves the issue to In Review, whoever has yet to work on it.            *)
process_in_progress_issue ==
    /\ fBoard' \in {fBoard, 4} /\ fAstray' = (fAstray \/ \E a \in Incomplete : a[1] < 4)
    /\ UNCHANGED <<fTable, fState, fAssigns>>

(* In Progress: an unfinished pipeline of another column keeps its agents  *)
(* and its own target; the board's column becomes its status.  Without     *)
(* agents for the column the pull request alone decides.                   *)
AcceptedToReview == [fState EXCEPT !.status = 3, !.from = fState.status, !.to = 4]
Accepted == [fState EXCEPT !.status = 3, !.from = fState.status,
                           !.to = IF fState.status < 4 THEN get_next_status(fState.status) ELSE 4]
check_in_progress_issues ==
    /\ fSeen = 3 /\ Checked
    /\ IF fState # NoPipeline /\ ~is_complete(fState)
       THEN IF fState.status # 3
            THEN _process_pipeline_completion(Accepted, Accepted.from, Accepted.to)
            ELSE _process_pipeline_completion(fState, IF fState.from # 0 THEN fState.from ELSE 3,
                                              IF fState.from # 0 THEN fState.to ELSE 4)
       ELSE LET p == _get_or_reconstruct_pipeline(3, 3)
            IN  IF fPlan[AgentsOf(p)] # 0 THEN _process_pipeline_completion(p, 3, 4)
                ELSE process_in_progress_issue

(* In Review: nothing to do without agents of its own.                     *)
check_in_review_issues ==
    /\ fSeen = 4 /\ Checked
    /\ IF fPlan[4] = 0 THEN NothingDone
       ELSE IF fState # NoPipeline /\ ~is_complete(fState)
       THEN LET next == IF fState.status # 4 THEN get_next_status(fState.status) ELSE 0
            IN  _process_pipeline_completion(fState, IF next # 0 THEN fState.status ELSE 4,
                                             IF next # 0 THEN next ELSE 5)
       ELSE _process_pipeline_completion(_get_or_reconstruct_pipeline(4, 0), 4, 5)
IgnoreDone == fSeen = 5 /\ Checked /\ NothingDone

CheckHandlers == \/ check_backlog_issues \/ check_ready_issues
                 \/ check_in_progress_issues \/ check_in_review_issues \/ IgnoreDone

FlowNext ==
    \/ \E plan \in Plans : LaunchIssue(plan)
    \/ TakeSnapshot \/ CheckHandlers \/ LinkMovesBoard \/ LoseState
    \/ \E a \in DOMAIN fTable : AgentIsDone(a)

---------------------------------------------------------------------------
(* Shapes; a state lists a position of its column, and has an original and *)
(* a target status only while it stands for an accepted move of the board. *)
FlowTypeOK ==
    /\ fBoard \in 0..5 /\ fSeen \in 0..5 /\ fMarkers \subseteq DOMAIN fTable
    /\ fState \in [status: 0..4, from: 0..4, to: 0..4, next: Nat]
    /\ fState # NoPipeline => fState.next <= fPlan[AgentsOf(fState)] + 1
    /\ fState.from # 0 => fState.status = 3 /\ fState.to > 1
    /\ \A a \in DOMAIN fTable : fTable[a] \in {"pending", "active", "done"}

(* A row that shows done belongs to an agent that has said so, even of an  *)
(* issue that went astray.                                                 *)
DoneHasMarker == \A a \in DOMAIN fTable : fTable[a] = "done" => a \in fMarkers

(* No agent is skipped: when the issue is in review every agent of the     *)
(* earlier columns is done, and when it is Done every agent is, although   *)
(* the automation moved the board under the pipeline's feet.               *)
NoAgentSkipped ==
    fBoard >= 4 => \A a \in DOMAIN fTable : a[1] < fBoard => a \in fMarkers

(* The agents start in the order of the plan, one after the other, and     *)
(* each is assigned once, whatever column the poll believed it saw.        *)
StartsInOrder ==
    \A a, b \in DOMAIN fTable :
        Earlier(a, b) /\ fTable[b] # "pending" => a \in fMarkers
AssignedOnce == \A a \in DOMAIN fAssigns : fAssigns[a] <= 1

(* The issue gets to the end of its workflow, In Review when that has no   *)
(* agents, Done otherwise, unless it goes astray.                          *)
FlowFairness ==
    /\ WF_fVars(TakeSnapshot) /\ WF_fVars(CheckHandlers)
    /\ WF_fVars(\E a \in DOMAIN fTable : AgentIsDone(a))
ReachesTheEnd == (fBoard # 0) ~> (fAstray \/ fBoard = IF fPlan[4] = 0 THEN 4 ELSE 5)

FlowSpec == FlowInit /\ [][FlowNext]_fVars

(* One issue across the columns: nobody is skipped, passed or assigned     *)
(* twice on the way, unless the poll used a state in a column that it was  *)
(* not rebuilt for, or moved the issue on a pull request alone.            *)
FlowKeepsOrder ==
    /\ FlowTypeOK /\ DoneHasMarker
    /\ fAstray \/ (NoAgentSkipped /\ StartsInOrder /\ AssignedOnce)
=============================================================================
