---------------------------- MODULE PipelineExec ----------------------------
(***************************************************************************)
(* The execution of one issue's agent pipeline inside one board status:    *)
(* the coroutine of the polling loop that posts agent outputs (Step 0),    *)
(* detects finished agents, advances the pipeline, merges child PRs, rolls *)
(* back when a merge is blocked, assigns the next agents and moves the     *)
(* board item when all agents are done.                                    *)
(*                                                                         *)
(* Abstraction.  An agent is its 1-based position in the flat list         *)
(* PipelineState.agents.  A group is an interval of positions.  Group      *)
(* positions are 1-based (current_group_index + 1).  Every block of code   *)
(* between two awaits that matter is one action; a crash can happen        *)
(* between any two actions.  Sub-issues, labels, comments other than the   *)
(* Done! markers, timestamps other than the assignment grace period and    *)
(* the main-branch cache are left out.                                     *)
(***************************************************************************)
EXTENDS Naturals, Sequences

CONSTANTS
  N,                \* number of agents configured for the status
  Groups,           \* sequence of [mode, first, last]; <<>> is the flat list
  Human,            \* position of the "human" agent, 0 when there is none
  HumanDelay,       \* TRUE: the human step has a valid delay_seconds
  AutoMerge,        \* pipeline or project auto-merge setting
  MaxMergeRetries,  \* MAX_MERGE_RETRIES (3)
  MaxDevops,        \* MAX_DEVOPS_ATTEMPTS (2)
  Faults,           \* kinds of external failure considered, see FaultKinds
  MaxCrashes,       \* bound: process restarts
  MaxDone           \* bound: length of completed_agents, which can repeat agents

Agents == 1..N
Grouped == Groups # <<>>
FaultKinds == {"assign", "tracking", "conflict", "unavailable", "defer",
               "marker", "board", "dispatch"}

ASSUME SizeAssumption == N \in Nat \ {0} /\ MaxMergeRetries \in Nat \ {0}
ASSUME HumanAssumption == Human \in 0..N
ASSUME GroupAssumption ==
  /\ Groups \in Seq([mode : {"sequential", "parallel"}, first : Agents, last : Agents])
  /\ \A g \in DOMAIN Groups : Groups[g].first <= Groups[g].last
  /\ Grouped => Groups[1].first = 1 /\ Groups[Len(Groups)].last = N
  /\ \A g \in DOMAIN Groups : g > 1 => Groups[g].first = Groups[g - 1].last + 1
ASSUME BoundAssumption == MaxDone \in Nat /\ MaxDone >= N /\ MaxCrashes \in Nat
ASSUME FaultAssumption == Faults \subseteq FaultKinds

VARIABLES
  l1,       \* the PipelineState in the L1 cache, see State
  st,       \* agent_statuses of the parallel groups (shared by all copies)
  db,       \* the row in SQLite
  dirty,    \* a write-behind task of the store is outstanding
  pend,     \* agents in _pending_agent_assignments
  fresh,    \* started_at is younger than ASSIGNMENT_GRACE_PERIOD_SECONDS
  mfail,    \* _merge_failure_counts
  devops,   \* _devops_tracking: [active, attempts]
  claimed,  \* agents whose child PR is in _claimed_child_prs
  work,     \* Copilot session of each agent: idle, busy, ready
  starts,   \* number of sessions started for each agent
  marker,   \* agents with a Done! comment
  track,    \* tracking table in the issue body
  child,    \* child PR of each agent: none, open, merged
  conflict, \* agents whose child PR cannot be merged
  board,    \* status of the board item: here, moved
  pc,       \* program counter of the polling coroutine
  loop,     \* rest of current_agents iterated by the poll
  cur,      \* completed_agent of the advance under way, 0 for none
  snap,     \* group position saved by the advance before it mutates
  held,     \* the coroutine's pipeline object while assignments run
  plan,     \* the assignments under way: [kind, todo, calls, ok]
  crashes,  \* restarts so far
  passed    \* history: agents moved past, in this life of the process, while their
            \* open and unclaimed child PR could not be read

memory == <<l1, st, dirty, pend, mfail, devops, claimed>>
github == <<work, starts, marker, track, child, conflict, board>>
frame  == <<pc, loop, cur, snap, held, plan>>
vars   == <<l1, st, db, dirty, pend, fresh, mfail, devops, claimed, work, starts,
            marker, track, child, conflict, board, pc, loop, cur, snap, held,
            plan, crashes, passed>>

Errors == {"none", "assign", "merge"}
State == [present : BOOLEAN, grouped : BOOLEAN, idx : Nat, done : Seq(Agents),
          gi : Nat \ {0}, ai : Nat, err : Errors, failed : SUBSET Agents]

\* groups, current_group_index and current_agent_index_in_group are not columns
\* of the table nor keys of its metadata: a reloaded state is flat.
Flatten(s) == [s EXCEPT !.grouped = FALSE, !.gi = 1, !.ai = 0]

Empty == [present |-> FALSE, grouped |-> FALSE, idx |-> 0, done |-> <<>>,
          gi |-> 1, ai |-> 0, err |-> "none", failed |-> {}]

First(k) == [i \in 1..k |-> i]
InSeq(a, s) == \E i \in DOMAIN s : s[i] = a
NoPlan == [kind |-> "none", todo |-> {}, calls |-> {}, ok |-> {}]
Lossy(fault, new, old) == IF fault \in Faults THEN {new, old} ELSE {new}

-----------------------------------------------------------------------------
(* PipelineState's derived properties                                      *)

Members(g) == Groups[g].first .. Groups[g].last
InGroup(s) == s.grouped /\ s.gi <= Len(Groups)
ParallelNow(s) == InGroup(s) /\ Groups[s.gi].mode = "parallel"
Terminal(status) == status \in {"completed", "failed"}
\* Variant: one finished agent ends the group.
AnyTerminal(g, t) == \E a \in Members(g) : Terminal(t[a])

AllTerminal(g, t) == \A a \in Members(g) : Terminal(t[a])

current_agent(s) ==
  CASE InGroup(s) /\ Groups[s.gi].first + s.ai <= Groups[s.gi].last
                         -> Groups[s.gi].first + s.ai
    [] ~s.grouped /\ s.idx < N -> s.idx + 1
    [] OTHER             -> 0

current_agents(s) ==
  IF ParallelNow(s)
  THEN [i \in 1..(Groups[s.gi].last - Groups[s.gi].first + 1)
          |-> Groups[s.gi].first + i - 1]
  ELSE IF current_agent(s) # 0 THEN <<current_agent(s)>> ELSE <<>>

\* Variants with an off-by-one.
is_complete_early(s, t) ==
  IF s.grouped THEN InGroup(s) => Groups[s.gi].first + s.ai >= Groups[s.gi].last
  ELSE s.idx + 1 >= N

is_complete(s, t) ==
  IF s.grouped
  THEN InGroup(s) => IF ParallelNow(s) THEN AllTerminal(s.gi, t)
                     ELSE Groups[s.gi].first + s.ai > Groups[s.gi].last
  ELSE s.idx >= N

-----------------------------------------------------------------------------
(* The initial state: start_pipeline has stored the state and the first    *)
(* agents have been assigned successfully; the row is not written yet.     *)

FirstAgents == IF Grouped /\ Groups[1].mode = "parallel" THEN Members(1) ELSE {1}

Init ==
  /\ l1 = [Empty EXCEPT !.present = TRUE, !.grouped = Grouped]
  /\ st = [a \in Agents |->
             IF \E g \in DOMAIN Groups : a \in Members(g) /\ Groups[g].mode = "parallel"
             THEN IF a \in FirstAgents THEN "active" ELSE "pending"
             ELSE "none"]
  /\ db = Empty /\ dirty = TRUE
  /\ pend = FirstAgents
  /\ fresh = TRUE
  /\ mfail = 0
  /\ devops = [active |-> FALSE, attempts |-> 0]
  /\ claimed = {}
  /\ work = [a \in Agents |-> IF a \in FirstAgents THEN "busy" ELSE "idle"]
  /\ starts = [a \in Agents |-> IF a \in FirstAgents THEN 1 ELSE 0]
  /\ marker = {}
  /\ track = [a \in Agents |-> IF a \in FirstAgents THEN "active" ELSE "pending"]
  /\ child = [a \in Agents |-> "none"]
  /\ conflict = {}
  /\ board = "here"
  /\ pc = "outputs" /\ loop = <<>> /\ cur = 0
  /\ snap = [gi |-> 1, ai |-> 0, status |-> "none"]
  /\ held = Empty
  /\ plan = NoPlan
  /\ crashes = 0 /\ passed = {}

-----------------------------------------------------------------------------
(* The world outside the process                                           *)

\* A coding agent finishes: it leaves a child PR (agents after the first) or
\* works on the main PR, and may post its own Done! marker.
AgentFinishes(a) ==
  /\ work[a] = "busy" /\ a # Human
  /\ work' = [work EXCEPT ![a] = "ready"]
  /\ child' \in {child, [child EXCEPT ![a] = IF a > 1 /\ @ = "none" THEN "open" ELSE @]}
  /\ conflict' \in (IF "conflict" \in Faults /\ child'[a] = "open"
                    THEN {conflict, conflict \union {a}} ELSE {conflict})
  /\ marker' \in {marker, marker \union {a}}
  /\ UNCHANGED <<memory, db, fresh, starts, track, board, frame, crashes, passed>>

\* The human closes the sub-issue or comments Done!.
HumanFinishes ==
  /\ Human # 0 /\ work[Human] = "busy"
  /\ work' = [work EXCEPT ![Human] = "ready"]
  /\ marker' = marker \union {Human}
  /\ UNCHANGED <<memory, db, fresh, starts, track, child, conflict, board, frame, crashes, passed>>

\* The DevOps agent repairs a child PR.
DevopsRepairs(a) ==
  /\ devops.active /\ a \in conflict
  /\ conflict' = conflict \ {a}
  /\ UNCHANGED <<memory, db, fresh, work, starts, marker, track, child, board, frame, crashes, passed>>

GraceElapses ==
  /\ fresh
  /\ fresh' = FALSE
  /\ UNCHANGED <<memory, db, github, frame, crashes, passed>>

\* A write-behind task of the store runs: the row is computed from the state
\* object when the task runs.
Persist ==
  /\ dirty
  /\ db' = Flatten(l1)
  /\ dirty' = FALSE
  /\ UNCHANGED <<l1, st, pend, fresh, mfail, devops, claimed, github, frame, crashes, passed>>

\* Restart: rows are loaded into the cache, everything else in memory is lost.
\* A call in flight may or may not have reached GitHub.
Crash ==
  /\ crashes < MaxCrashes
  /\ crashes' = crashes + 1
  /\ l1' = db
  /\ st' = [a \in Agents |-> "none"]
  /\ dirty' = FALSE
  /\ pend' = {}
  /\ mfail' = 0
  /\ devops' = [active |-> FALSE, attempts |-> 0]
  /\ claimed' = {}
  /\ \E landed \in SUBSET plan.calls :
       /\ work' = [a \in Agents |-> IF a \in landed /\ work[a] # "ready" THEN "busy" ELSE work[a]]
       /\ starts' = [a \in Agents |-> IF a \in landed THEN starts[a] + 1 ELSE starts[a]]
  /\ pc' = "outputs" /\ loop' = <<>> /\ cur' = 0 /\ plan' = NoPlan
  /\ passed' = {}
  /\ UNCHANGED <<db, fresh, marker, track, child, conflict, board, snap, held>>

-----------------------------------------------------------------------------
(* Step 0: post_agent_outputs_from_pr                                      *)

OutputsDue ==
  LET c == current_agent(l1) IN
  /\ l1.present /\ ~is_complete(l1, st)
  /\ c # 0 /\ c # Human
  /\ c \notin marker /\ work[c] = "ready"

ActiveInTable == \E a \in Agents : track[a] = "active"

\* Variant: the first agent without a marker counts.
IsMarkedPrefixPlusOne(k) == 1..k - 1 \subseteq marker /\ k \notin marker

\* The agents before the first one without a Done! marker.
IsMarkedPrefix(k) == 1..k \subseteq marker /\ k + 1 \notin marker

Rebuilt(k) == [Empty EXCEPT !.present = TRUE, !.idx = k, !.done = First(k)]

\* The state is missing but the table shows an active agent: a flat state is
\* rebuilt from the Done! markers and cached.
ReconstructIfMissing ==
  /\ pc = "outputs" /\ board = "here" /\ ~l1.present /\ ActiveInTable
  /\ \E k \in 0..N : IsMarkedPrefix(k) /\ l1' = Rebuilt(k)
  /\ dirty' = TRUE
  /\ fresh' \in BOOLEAN
  /\ UNCHANGED <<st, db, pend, mfail, devops, claimed, github, frame, crashes, passed>>

NoOutputs ==
  /\ pc = "outputs" /\ board = "here"
  /\ IF l1.present THEN ~OutputsDue ELSE ~ActiveInTable
  /\ pc' = "check"
  /\ UNCHANGED <<memory, db, fresh, github, loop, cur, snap, held, plan, crashes, passed>>

\* What the merge call can answer for a's child PR.  Exceptions and pull
\* requests whose details cannot be read are answered with None, too.
Mergeable(a) == child[a] = "open" /\ a \notin claimed /\ a \notin conflict
MergeAnswers(a) ==
  (IF a \in claimed \/ Mergeable(a) THEN {"merged"} ELSE {})
  \union (IF child[a] = "open" /\ a \in conflict \ claimed THEN {"merge_failed"} ELSE {})
  \union (IF "unavailable" \in Faults \/ (a \notin claimed /\ child[a] # "open")
          THEN {"none"} ELSE {})
Merged(a) == [child EXCEPT ![a] = IF @ = "open" /\ a \notin claimed THEN "merged" ELSE @]

\* The child PR is merged if possible and claimed whatever the outcome.
MergeAndClaim ==
  /\ pc = "outputs" /\ board = "here" /\ OutputsDue
  /\ LET c == current_agent(l1) IN
       \E answer \in MergeAnswers(c) :
         /\ child' = IF answer = "merged" THEN Merged(c) ELSE child
         /\ mfail' = IF answer = "merged" /\ child[c] = "open" THEN 0 ELSE mfail
         /\ claimed' = IF child[c] = "none" THEN claimed ELSE claimed \union {c}
  /\ pc' = "marker"
  /\ UNCHANGED <<l1, st, db, dirty, pend, fresh, devops, work, starts, marker, track,
                 conflict, board, loop, cur, snap, held, plan, crashes, passed>>

PostMarker ==
  /\ pc = "marker"
  /\ marker' = marker \union {current_agent(l1)}
  /\ pc' = "track"
  /\ UNCHANGED <<memory, db, fresh, work, starts, track, child, conflict, board,
                 loop, cur, snap, held, plan, crashes, passed>>

PostMarkerFails ==
  /\ pc = "marker" /\ "marker" \in Faults
  /\ pc' = "check"
  /\ UNCHANGED <<memory, db, fresh, github, loop, cur, snap, held, plan, crashes, passed>>

TrackDone ==
  /\ pc = "track"
  /\ track' \in Lossy("tracking", [track EXCEPT ![current_agent(l1)] = "done"], track)
  /\ pc' = "check"
  /\ UNCHANGED <<memory, db, fresh, work, starts, marker, child, conflict, board,
                 loop, cur, snap, held, plan, crashes, passed>>

-----------------------------------------------------------------------------
(* Steps 1-3: check_*_issues, _process_pipeline_completion                 *)

\* Groups rebuilt from the table: statuses of parallel agents come from the
\* table, the position is the first unfinished group.
RebuiltStatuses ==
  [a \in Agents |->
     IF \E g \in DOMAIN Groups : a \in Members(g) /\ Groups[g].mode = "parallel"
     THEN CASE track[a] = "done" -> "completed" [] track[a] = "active" -> "active"
            [] OTHER -> "pending"
     ELSE "none"]
Unfinished(g, k) == IF Groups[g].mode = "parallel" THEN ~AllTerminal(g, RebuiltStatuses)
                    ELSE Groups[g].last > k
FirstUnfinished(g, k) == /\ \A h \in 1..g - 1 : ~Unfinished(h, k)
                         /\ g <= Len(Groups) => Unfinished(g, k)
RebuiltOffset(g, k) ==
  IF g <= Len(Groups) /\ Groups[g].mode = "sequential" /\ Groups[g].first <= k
  THEN k + 1 - Groups[g].first ELSE 0

Reconstruct ==
  /\ pc = "check" /\ ~l1.present
  /\ \E k \in 0..N :
       /\ IsMarkedPrefix(k)
       /\ IF Grouped
          THEN \E g \in 1..Len(Groups) + 1 :
                 /\ FirstUnfinished(g, k)
                 /\ l1' = [Rebuilt(k) EXCEPT !.grouped = TRUE, !.gi = g,
                                             !.ai = RebuiltOffset(g, k)]
          ELSE l1' = Rebuilt(k)
  /\ st' = RebuiltStatuses
  /\ dirty' = TRUE
  /\ fresh' \in BOOLEAN
  /\ claimed' = claimed \union {a \in Agents : child[a] = "merged"}
  /\ UNCHANGED <<db, pend, mfail, devops, github, frame, crashes, passed>>

\* All agents are done: the table is brought up to date before the transition.
DetectComplete ==
  /\ pc = "check" /\ l1.present /\ is_complete(l1, st)
  /\ track' \in Lossy("tracking",
                  [a \in Agents |-> IF InSeq(a, l1.done) THEN "done" ELSE track[a]], track)
  /\ pc' = "transition" /\ cur' = 0
  /\ UNCHANGED <<memory, db, fresh, work, starts, marker, child, conflict, board,
                 loop, snap, held, plan, crashes, passed>>

BeginLoop ==
  /\ pc = "check" /\ l1.present /\ ~is_complete(l1, st)
  /\ pc' = "loop" /\ loop' = current_agents(l1)
  /\ UNCHANGED <<memory, db, fresh, github, cur, snap, held, plan, crashes, passed>>

EndLoop ==
  /\ pc = "loop" /\ loop = <<>>
  /\ pc' = "outputs"
  /\ UNCHANGED <<memory, db, fresh, github, loop, cur, snap, held, plan, crashes, passed>>

Finished(s, a) == InSeq(a, s.done) \/ a \in s.failed
Inspect == pc = "loop" /\ loop # <<>> /\ ~Finished(l1, Head(loop))

\* Skipped: already terminal, or the pipeline is halted by an error.
SkipAgent ==
  /\ pc = "loop" /\ loop # <<>>
  /\ \/ Finished(l1, Head(loop))
     \/ /\ Head(loop) \in marker
        /\ (l1.err # "none" \/ current_agent(l1) = 0)
  /\ loop' = Tail(loop)
  /\ UNCHANGED <<memory, db, fresh, github, pc, cur, snap, held, plan, crashes, passed>>

-----------------------------------------------------------------------------
(* _advance_pipeline                                                       *)

\* The position of the group after agent c is recorded as completed.
GroupAdvance(s, t) ==
  CASE ~InGroup(s) -> [gi |-> s.gi, ai |-> s.ai]
    [] ParallelNow(s) -> IF AllTerminal(s.gi, t) THEN [gi |-> s.gi + 1, ai |-> 0]
                         ELSE [gi |-> s.gi, ai |-> s.ai]
    [] OTHER -> IF Groups[s.gi].first + s.ai + 1 > Groups[s.gi].last
                THEN [gi |-> s.gi + 1, ai |-> 0] ELSE [gi |-> s.gi, ai |-> s.ai + 1]

\* Variant: the marker is not asked for.
AdvanceUnmarked ==
  /\ Inspect /\ current_agent(l1) # 0
  /\ l1' = [l1 EXCEPT !.done = Append(@, current_agent(l1)), !.idx = @ + 1]
  /\ cur' = current_agent(l1)
  /\ loop' = Tail(loop) /\ pc' = "merge"
  /\ UNCHANGED <<st, pend, snap, db, dirty, fresh, mfail, devops, claimed, github, held,
                 plan, crashes, passed>>

\* The agent recorded as completed is current_agent, whichever agent of the
\* group the poll found finished.
AdvanceBegin ==
  /\ Inspect /\ Head(loop) \in marker
  /\ l1.err = "none" /\ current_agent(l1) # 0
  /\ LET c == current_agent(l1)
         t == IF ParallelNow(l1) THEN [st EXCEPT ![c] = "completed"] ELSE st
         p == GroupAdvance(l1, t)
         full == l1.idx >= MaxDone  \* bound: duplicates are not added
     IN /\ l1' = [l1 EXCEPT !.done = IF full THEN @ ELSE Append(@, c),
                            !.idx = IF full THEN @ ELSE @ + 1,
                            !.gi = p.gi, !.ai = p.ai]
        /\ st' = t
        /\ cur' = c
        /\ pend' = pend \ {c}
        /\ snap' = [gi |-> l1.gi, ai |-> l1.ai, status |-> st[c]]
  /\ loop' = Tail(loop)
  /\ pc' = "merge"
  /\ UNCHANGED <<db, dirty, fresh, mfail, devops, claimed, github, held, plan, crashes, passed>>

\* Variant: nothing is taken back.
RemoveNone(q, a) == q

\* list.remove: the first occurrence goes.
RemoveFirst(q, a) ==
  IF ~InSeq(a, q) THEN q
  ELSE LET k == CHOOSE k \in DOMAIN q : q[k] = a /\ \A j \in 1..k - 1 : q[j] # a
       IN [j \in 1..Len(q) - 1 |-> IF j < k THEN q[j] ELSE q[j + 1]]

\* Variant: the group position is not restored.
RollBackIndexOnly(err) ==
  /\ l1' = [l1 EXCEPT !.idx = @ - 1, !.done = RemoveFirst(@, cur), !.err = err]
  /\ UNCHANGED st
  /\ dirty' = TRUE
  /\ pc' = "loop" /\ cur' = 0

RollBack(err) ==
  /\ l1' = [l1 EXCEPT !.idx = @ - 1, !.done = RemoveFirst(@, cur),
                      !.gi = snap.gi, !.ai = snap.ai, !.err = err]
  /\ st' = IF l1.grouped THEN [st EXCEPT ![cur] = snap.status] ELSE st
  /\ dirty' = TRUE
  /\ pc' = "loop" /\ cur' = 0

\* The agent's child PR is merged, or counts as merged because it was claimed.
MergeLands ==
  /\ "merged" \in MergeAnswers(cur)
  /\ child' = Merged(cur)
  /\ claimed' = claimed \union {cur}
  /\ mfail' = 0
  /\ UNCHANGED passed

\* No child PR is found: there is none, or the main branch is not known (no
\* merge is tried), or neither the merge nor _find_open_child_pr could read it.
NoChildFound ==
  /\ "none" \in MergeAnswers(cur)
  /\ child[cur] # "open" \/ "unavailable" \in Faults
  /\ passed' = IF child[cur] = "open" /\ cur \notin claimed THEN passed \union {cur} ELSE passed
  /\ UNCHANGED <<child, claimed, mfail>>

\* Variant: a merge that was refused lets the advance go on.
MergeRefusedPasses ==
  /\ pc = "merge"
  /\ \/ MergeLands \/ NoChildFound
     \/ "merge_failed" \in MergeAnswers(cur) /\ UNCHANGED <<child, claimed, mfail, passed>>
  /\ pc' = "effects"
  /\ UNCHANGED <<l1, st, db, dirty, pend, fresh, devops, work, starts, marker, track,
                 conflict, board, loop, cur, snap, held, plan, crashes>>

MergePasses ==
  /\ pc = "merge"
  /\ MergeLands \/ NoChildFound
  /\ pc' = "effects"
  /\ UNCHANGED <<l1, st, db, dirty, pend, fresh, devops, work, starts, marker, track,
                 conflict, board, loop, cur, snap, held, plan, crashes>>

\* The merge call failed without an answer and the child PR is found open.
MergeUnknown ==
  /\ pc = "merge" /\ "none" \in MergeAnswers(cur) /\ child[cur] = "open"
  /\ RollBack(l1.err)
  /\ UNCHANGED <<db, pend, fresh, mfail, devops, claimed, github, loop, snap, held,
                 plan, crashes, passed>>

\* Variant: the failure is not counted.
MergeRetryUncounted ==
  /\ pc = "merge" /\ "merge_failed" \in MergeAnswers(cur)
  /\ mfail + 1 < MaxMergeRetries
  /\ RollBack(l1.err)
  /\ UNCHANGED <<mfail, db, pend, fresh, devops, claimed, github, loop, snap, held, plan,
                 crashes, passed>>

MergeRetryLater ==
  /\ pc = "merge" /\ "merge_failed" \in MergeAnswers(cur)
  /\ mfail + 1 < MaxMergeRetries
  /\ mfail' = mfail + 1
  /\ RollBack(l1.err)
  /\ UNCHANGED <<db, pend, fresh, devops, claimed, github, loop, snap, held, plan, crashes, passed>>

MergeExhausted ==
  /\ pc = "merge" /\ "merge_failed" \in MergeAnswers(cur)
  /\ mfail + 1 >= MaxMergeRetries

CanDispatch == ~devops.active /\ devops.attempts < MaxDevops

\* dispatch_devops_agent with skip_post_merge_retry accepts.
DispatchDevops ==
  /\ MergeExhausted /\ CanDispatch
  /\ devops' = [active |-> TRUE, attempts |-> devops.attempts + 1]
  /\ mfail' = 0
  /\ RollBack(l1.err)
  /\ UNCHANGED <<db, pend, fresh, claimed, github, loop, snap, held, plan, crashes, passed>>

DevopsAlreadyActive ==
  /\ MergeExhausted /\ devops.active
  /\ mfail' = IF mfail < MaxMergeRetries THEN mfail + 1 ELSE mfail  \* saturates
  /\ RollBack(l1.err)
  /\ UNCHANGED <<db, pend, fresh, devops, claimed, github, loop, snap, held, plan, crashes, passed>>

\* The dispatch cap is reached or the dispatch fails: the pipeline halts.
Halt ==
  /\ MergeExhausted /\ ~devops.active
  /\ ~CanDispatch \/ "dispatch" \in Faults
  /\ mfail' = mfail + 1
  /\ RollBack("merge")
  /\ UNCHANGED <<db, pend, fresh, devops, claimed, github, loop, snap, held, plan, crashes, passed>>

\* The merge call is answered.
MergeAnswered ==
  \/ MergePasses /\ UNCHANGED passed
  \/ MergeRetryLater \/ DispatchDevops \/ DevopsAlreadyActive \/ Halt

\* The tracking table is marked and the sub-issue closed after the merge.
Effects ==
  /\ pc = "effects"
  /\ track' \in Lossy("tracking", [track EXCEPT ![cur] = "done"], track)
  /\ pc' = "decide"
  /\ UNCHANGED <<memory, db, fresh, work, starts, marker, child, conflict, board,
                 loop, cur, snap, held, plan, crashes, passed>>

AdvanceComplete ==
  /\ pc = "decide" /\ is_complete(l1, st)
  /\ pc' = "transition"
  /\ UNCHANGED <<memory, db, fresh, github, loop, cur, snap, held, plan, crashes, passed>>

Started(g, t) == \E a \in Members(g) : t[a] \in {"active", "completed", "failed"}
Waiting(s, t) == ParallelNow(s) /\ Started(s.gi, t) /\ ~AllTerminal(s.gi, t)

ParallelWait ==
  /\ pc = "decide" /\ ~is_complete(l1, st) /\ Waiting(l1, st)
  /\ fresh' = TRUE /\ dirty' = TRUE
  /\ pc' = "loop" /\ cur' = 0
  /\ UNCHANGED <<l1, st, db, pend, mfail, devops, claimed, github, loop, snap, held,
                 plan, crashes, passed>>

Continue == pc = "decide" /\ ~is_complete(l1, st) /\ ~Waiting(l1, st)

\* The human step does not hold the pipeline: its delay elapses, or it is the
\* last step and auto-merge is active.  The group position stays.
PassesHuman(s) == /\ current_agent(s) = Human /\ Human # 0
                  /\ HumanDelay \/ (AutoMerge /\ s.idx = N - 1)

PassHuman ==
  /\ Continue /\ PassesHuman(l1)
  /\ l1' = [l1 EXCEPT !.done = Append(@, Human), !.idx = @ + 1]
  /\ st' = IF ParallelNow(l1) THEN [st EXCEPT ![Human] = "completed"] ELSE st
  /\ fresh' = TRUE /\ dirty' = TRUE
  /\ pc' = IF is_complete(l1', st') THEN "transition" ELSE "next"
  /\ UNCHANGED <<db, pend, mfail, devops, claimed, github, loop, cur, snap, held,
                 plan, crashes, passed>>

\* The assignment of the next agent, or of every agent of a parallel group.
NextAgents ==
  IF ParallelNow(l1) /\ Groups[l1.gi].first < Groups[l1.gi].last
  THEN Members(l1.gi) ELSE {l1.idx + 1} \intersect Agents

AssignNext ==
  /\ pc = "next" \/ (Continue /\ ~PassesHuman(l1))
  /\ fresh' = TRUE /\ dirty' = TRUE
  /\ held' = l1
  /\ plan' = [kind |-> IF ParallelNow(l1) /\ Groups[l1.gi].first < Groups[l1.gi].last
                       THEN "group" ELSE "next",
              todo |-> NextAgents, calls |-> {}, ok |-> {}]
  /\ pc' = "assign" /\ cur' = 0
  /\ UNCHANGED <<l1, st, db, pend, mfail, devops, claimed, github, loop, snap, crashes, passed>>

\* Variant: the deferred agent keeps the pending flag.
DeferPending ==
  /\ "defer" \in Faults
  /\ pc = "next" \/ (Continue /\ ~PassesHuman(l1))
  /\ pend' = pend \union NextAgents
  /\ fresh' = TRUE /\ dirty' = TRUE
  /\ pc' = "loop" /\ cur' = 0
  /\ UNCHANGED <<l1, st, db, mfail, devops, claimed, github, loop, snap, held, plan, crashes, passed>>

\* The rate-limit budget is low: the assignment is left to a later poll.
DeferNext ==
  /\ "defer" \in Faults
  /\ pc = "next" \/ (Continue /\ ~PassesHuman(l1))
  /\ fresh' = TRUE /\ dirty' = TRUE
  /\ pc' = "loop" /\ cur' = 0
  /\ UNCHANGED <<l1, st, db, pend, mfail, devops, claimed, github, loop, snap, held,
                 plan, crashes, passed>>

-----------------------------------------------------------------------------
(* The recovery branch of the loop: an agent that was never assigned       *)

\* Variant: the tracking table and the pending flag are not read.
UnassignedAny == {a \in Agents : InSeq(a, current_agents(l1)) /\ ~Finished(l1, a)}
Unassigned == {a \in Agents : /\ InSeq(a, current_agents(l1)) /\ ~Finished(l1, a)
                              /\ track[a] # "active" /\ a \notin pend}

\* No Done! marker was found.  In the grace period the rest of the loop is given up.
LookAtMarker ==
  /\ Inspect /\ Head(loop) \notin marker
  /\ pc' = IF fresh THEN "outputs" ELSE "table"
  /\ loop' = <<>>
  /\ UNCHANGED <<memory, db, fresh, github, cur, snap, held, plan, crashes, passed>>

\* The table is fetched: the agents it does not show as active are to be assigned.
ReadTable ==
  /\ pc = "table"
  /\ IF Unassigned = {} THEN pc' = "outputs" /\ UNCHANGED <<held, plan>>
     ELSE /\ pc' = "budget"
          /\ held' = l1
          /\ plan' = [kind |-> IF \E a \in Agents : Unassigned = {a} THEN "missing" ELSE "siblings",
                      todo |-> Unassigned, calls |-> {}, ok |-> {}]
  /\ UNCHANGED <<memory, db, fresh, github, loop, cur, snap, crashes, passed>>

\* The wait for the rate limit ends with too small a budget.
DeferMissing ==
  /\ pc = "budget" /\ "defer" \in Faults
  /\ pc' = "outputs" /\ plan' = NoPlan
  /\ UNCHANGED <<memory, db, fresh, github, loop, cur, snap, held, crashes, passed>>

\* The marker and the table are not read again.
AssignMissing ==
  /\ pc = "budget"
  /\ pc' = "assign"
  /\ UNCHANGED <<memory, db, fresh, github, loop, cur, snap, held, plan, crashes, passed>>

-----------------------------------------------------------------------------
(* assign_agent_for_status                                                 *)

\* The state stored by an assignment: completed agents are those before it in
\* the list, except in a parallel group, where they are kept.
AssignedState(a, err) ==
  IF ParallelNow(l1) THEN [l1 EXCEPT !.present = TRUE, !.err = err]
  ELSE [l1 EXCEPT !.present = TRUE, !.done = First(a - 1), !.idx = a - 1, !.err = err]

StartSession(a) ==
  /\ work' = [work EXCEPT ![a] = "busy"]
  /\ starts' = [starts EXCEPT ![a] = @ + 1]
  /\ track' \in Lossy("tracking", [track EXCEPT ![a] = "active"], track)

\* The dedup guard on a pending assignment does not fire here: the poll is the
\* only caller, and it assigns no agent that is pending.
CallAssign(a) ==
  /\ pc = "assign" /\ a \in plan.todo /\ a # Human
  /\ pend' = pend \union {a}
  /\ plan' = [plan EXCEPT !.todo = @ \ {a}, !.calls = @ \union {a}]
  /\ UNCHANGED <<l1, st, db, dirty, fresh, mfail, devops, claimed, github,
                 pc, loop, cur, snap, held, crashes, passed>>

AssignSucceeds(a) ==
  /\ pc = "assign" /\ a \in plan.calls
  /\ StartSession(a)
  /\ l1' = AssignedState(a, "none")
  /\ fresh' = TRUE /\ dirty' = TRUE
  /\ plan' = [plan EXCEPT !.calls = @ \ {a}, !.ok = @ \union {a}]
  /\ UNCHANGED <<st, db, pend, mfail, devops, claimed, marker, child, conflict, board,
                 pc, loop, cur, snap, held, crashes, passed>>

\* All the retries of the call failed.
AssignFails(a) ==
  /\ "assign" \in Faults
  /\ pc = "assign" /\ a \in plan.calls
  /\ pend' = pend \ {a}
  /\ l1' = AssignedState(a, "assign")
  /\ fresh' = TRUE /\ dirty' = TRUE
  /\ plan' = [plan EXCEPT !.calls = @ \ {a}]
  /\ UNCHANGED <<st, db, mfail, devops, claimed, github, pc, loop, cur, snap, held, crashes, passed>>

\* _handle_human_agent: no Copilot call, no pending flag.
AssignHuman ==
  /\ pc = "assign" /\ Human \in plan.todo
  /\ StartSession(Human)
  /\ l1' = [l1 EXCEPT !.present = TRUE, !.done = First(Human - 1), !.idx = Human - 1,
                      !.err = "none"]
  /\ fresh' = TRUE /\ dirty' = TRUE
  /\ plan' = [plan EXCEPT !.todo = @ \ {Human}, !.ok = @ \union {Human}]
  /\ UNCHANGED <<st, db, pend, mfail, devops, claimed, marker, child, conflict, board,
                 pc, loop, cur, snap, held, crashes, passed>>

Assigned == pc = "assign" /\ plan.todo = {} /\ plan.calls = {}
MarkActive == [a \in Agents |-> IF a \in plan.ok THEN "active" ELSE track[a]]

EndAssignNext ==
  /\ Assigned /\ plan.kind = "next"
  /\ pc' = "loop" /\ plan' = NoPlan
  /\ UNCHANGED <<memory, db, fresh, github, loop, cur, snap, held, crashes, passed>>

\* The coroutine's own object is stored back over the one the assignments
\* stored.  An agent whose assignment failed is terminal.
EndAssignGroup ==
  /\ Assigned /\ plan.kind = "group"
  /\ LET bad == Members(held.gi) \ plan.ok IN
       /\ st' = [a \in Agents |-> IF a \in plan.ok THEN "active"
                                  ELSE IF a \in bad THEN "failed" ELSE st[a]]
       /\ l1' = [held EXCEPT !.failed = @ \union bad]
  /\ track' \in Lossy("tracking", MarkActive, track)
  /\ dirty' = TRUE
  /\ pc' = "loop" /\ plan' = NoPlan
  /\ UNCHANGED <<db, pend, fresh, mfail, devops, claimed, work, starts, marker, child,
                 conflict, board, loop, cur, snap, held, crashes, passed>>

EndAssignMissing ==
  /\ Assigned /\ plan.kind \in {"missing", "siblings"}
  /\ IF plan.ok = {}
     THEN UNCHANGED <<l1, st, pend, fresh, dirty, track>>
     ELSE /\ pend' = pend \union plan.ok
          /\ st' = IF ParallelNow(held)
                   THEN [a \in Agents |-> IF a \in plan.ok THEN "active" ELSE st[a]] ELSE st
          /\ l1' = held
          /\ fresh' = TRUE /\ dirty' = TRUE
          /\ track' \in IF plan.kind = "missing" THEN {track}
                       ELSE Lossy("tracking", MarkActive, track)
  /\ pc' = "outputs" /\ plan' = NoPlan
  /\ UNCHANGED <<db, mfail, devops, claimed, work, starts, marker, child, conflict,
                 board, loop, cur, snap, held, crashes, passed>>

-----------------------------------------------------------------------------
(* _transition_after_pipeline_complete                                     *)

\* The board item moves; the state is removed.  The agents of the next status
\* belong to another instance of this module.
Transition ==
  /\ pc = "transition"
  /\ board' = "moved"
  /\ l1' = Empty /\ dirty' = TRUE
  /\ pc' = "outputs" /\ loop' = <<>> /\ cur' = 0
  /\ UNCHANGED <<st, db, pend, fresh, mfail, devops, claimed, work, starts, marker, track,
                 child, conflict, snap, held, plan, crashes, passed>>

\* _advance_pipeline removes the state even when the board update failed.
TransitionFails ==
  /\ pc = "transition" /\ "board" \in Faults
  /\ IF cur # 0 THEN l1' = Empty /\ dirty' = TRUE ELSE UNCHANGED <<l1, dirty>>
  /\ pc' = "outputs" /\ loop' = <<>> /\ cur' = 0
  /\ UNCHANGED <<st, db, pend, fresh, mfail, devops, claimed, github, snap, held, plan,
                 crashes, passed>>

Terminated == board = "moved" /\ UNCHANGED vars

-----------------------------------------------------------------------------

Poll ==
  \/ ReconstructIfMissing \/ NoOutputs \/ MergeAndClaim \/ PostMarker \/ TrackDone
  \/ Reconstruct \/ DetectComplete \/ BeginLoop \/ EndLoop \/ SkipAgent
  \/ AdvanceBegin \/ MergePasses \/ MergeUnknown \/ MergeRetryLater
  \/ DispatchDevops \/ DevopsAlreadyActive \/ Halt
  \/ Effects \/ AdvanceComplete \/ ParallelWait \/ PassHuman \/ AssignNext
  \/ LookAtMarker \/ ReadTable \/ AssignMissing
  \/ \E a \in Agents : CallAssign(a) \/ AssignSucceeds(a)
  \/ AssignHuman \/ EndAssignNext \/ EndAssignGroup \/ EndAssignMissing
  \/ Transition

Failure == \/ PostMarkerFails \/ DeferNext \/ DeferMissing \/ TransitionFails
           \/ \E a \in Agents : AssignFails(a)

World == \/ \E a \in Agents : AgentFinishes(a) \/ DevopsRepairs(a)
         \/ HumanFinishes \/ GraceElapses \/ Persist

Next == Poll \/ Failure \/ World \/ Crash \/ Terminated

Spec == Init /\ [][Next]_vars

\* The polling loop keeps running, tasks of the event loop run, agents and the
\* human finish, time passes, and GitHub does not fail for ever.
Fairness ==
  /\ WF_vars(Poll)
  /\ WF_vars(Persist) /\ WF_vars(GraceElapses) /\ WF_vars(HumanFinishes)
  /\ \A a \in Agents : WF_vars(AgentFinishes(a)) /\ SF_vars(AssignSucceeds(a))
  /\ SF_vars(PostMarker) /\ SF_vars(Transition) /\ SF_vars(AssignNext)
  /\ SF_vars(AssignMissing) /\ SF_vars(MergeAnswered)

LiveSpec == Spec /\ Fairness

-----------------------------------------------------------------------------
(* Properties                                                              *)

Pc == {"outputs", "marker", "track", "check", "loop", "merge", "effects", "decide",
       "next", "table", "budget", "assign", "transition"}
PlanType == [kind : {"none", "next", "group", "missing", "siblings"}, todo : SUBSET Agents,
             calls : SUBSET Agents, ok : SUBSET Agents]

Statuses == {"none", "pending", "active", "completed", "failed"}

StoreType ==
  /\ l1 \in State /\ db \in State /\ held \in State
  /\ dirty \in BOOLEAN /\ fresh \in BOOLEAN

MemoryType ==
  /\ st \in [Agents -> Statuses]
  /\ pend \subseteq Agents /\ claimed \subseteq Agents
  /\ mfail \in Nat /\ devops \in [active : BOOLEAN, attempts : Nat]

GithubType ==
  /\ marker \subseteq Agents /\ conflict \subseteq Agents
  /\ work \in [Agents -> {"idle", "busy", "ready"}]
  /\ starts \in [Agents -> Nat]
  /\ track \in [Agents -> {"pending", "active", "done"}]
  /\ child \in [Agents -> {"none", "open", "merged"}]
  /\ board \in {"here", "moved"}

FrameType ==
  /\ pc \in Pc /\ loop \in Seq(Agents) /\ cur \in 0..N
  /\ snap \in [gi : Nat \ {0}, ai : Nat, status : Statuses]
  /\ plan \in PlanType
  /\ crashes \in Nat /\ passed \subseteq Agents

\* The coroutine works on an agent that exists.
Designated ==
  /\ pc = "marker" => current_agent(l1) # 0
  /\ pc = "merge" => cur # 0 /\ l1.idx > 0
  /\ pc \in {"budget", "assign"} /\ plan.kind = "group" => InGroup(held)

TypeOK == StoreType /\ MemoryType /\ GithubType /\ FrameType /\ Designated

\* Agents that may be recorded as completed without having posted a marker: a
\* human whose step is delayed or skipped.
Excused == IF HumanDelay \/ AutoMerge THEN {Human} ELSE {}

\* No copy of the state records an agent as completed before its Done! marker
\* is on the issue, whatever crashes, rollbacks and failed calls occur.
CompletedHaveMarkers ==
  \A s \in {l1, db} : \A i \in DOMAIN s.done : s.done[i] \in marker \union Excused

\* A pipeline executed as a list has completed exactly the agents before
\* current_agent_index, in order: no rollback, failed assignment, retry or
\* restart repeats or skips an agent.
CompletedIsPrefix ==
  \A s \in {l1, db} : s.done = First(s.idx)

\* The position inside the groups designates the same agent as the flat index.
GroupMatchesIndex ==
  l1.present /\ l1.grouped /\ pc # "next" => current_agent(l1) = (IF l1.idx < N THEN l1.idx + 1 ELSE 0)

\* A Copilot session is started once for an agent, plus once per restart at
\* most, although the poll re-examines and re-assigns whatever looks unassigned.
SingleStart == \A a \in Agents \ {Human} : starts[a] <= 1 + crashes

\* In one life of the process the next agent starts with the child PR of an
\* earlier one still open only when Step 0 claimed that PR, or when GitHub did
\* not answer for that PR when the position moved past it: a refused merge, a
\* retry, a rollback or a DevOps dispatch never lets the next agent start.
OpenPredecessorsClaimed ==
  crashes = 0 =>
    \A a, b \in Agents : b < a /\ starts[a] > 0 /\ child[b] = "open" => b \in claimed \union passed

\* The next agent never starts while the child PR of an earlier one is open.
PredecessorsMerged ==
  \A a, b \in Agents : b < a /\ starts[a] > 0 => child[b] # "open"

\* Agents that finish before a begins: those of earlier positions, except the
\* siblings of a's own parallel group.
Before == [a \in Agents |->
             {b \in 1..a - 1 : \A g \in DOMAIN Groups :
                Groups[g].mode = "parallel" => ~({a, b} \subseteq Members(g))}]

Contract == INSTANCE AgentSequence
              WITH Optional <- Excused, finished <- marker,
                   started <- {a \in Agents : starts[a] > 0},
                   moved <- (board = "moved")

\* The execution implements the contract: whatever fails or restarts, no agent
\* begins before its predecessors have posted their Done! markers, and the
\* board item moves only when all have.
ImplementsContract == Contract!Spec

\* Every pipeline leaves the status.
Finishes == <>(board = "moved")

\* Every pipeline leaves the status, halts with the merge error or waits for a
\* DevOps agent.
FinishesOrBlocks == <>(board = "moved" \/ l1.err = "merge" \/ devops.active)

(* The position as a whole: it names one agent in the list and in the      *)
(* groups, and starts it once in each life of the process.                 *)
PositionIsOne == GroupMatchesIndex /\ SingleStart
=============================================================================
