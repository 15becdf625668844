# Verification of the Solune agent pipeline

Solune takes a GitHub issue through a board. For every status of the board (Backlog,
Ready, In Progress, In Review) a list of coding agents works on the issue one after the
other, or in groups that run in parallel. A FastAPI backend polls GitHub, recognises
finished agents, merges their pull requests, assigns the next agents and moves the issue
on. Around that engine it launches and queues pipelines, runs chores, creates apps, edits
the repository's agents and talks to its users in a chat. Everything runs as coroutines of
one event loop, with in-memory caches in front of one SQLite connection, against a GitHub
API that fails, delays and forgets.

This directory holds TLA+ modules of that backend, TLC configurations that check them on
small instances, and proofs checked by TLAPS. Paths below are relative to
`src/solune/backend/src/`; `pipeline.py`, `agent_output.py`, `auto_merge.py`,
`completion.py`, `helpers.py`, `recovery.py` and `polling_loop.py` are in
`services/copilot_polling/`, `orchestrator.py`, `config.py` and `transitions.py` in
`services/workflow_orchestrator/`.

    tlc -workers 2 -config flat_faults.cfg MCPipelineExec.tla
    tlc -workers 2 -config auto_merge.cfg AutoMerge.tla
    tlc -workers 2 -config store.cfg PipelineStateStore.tla
    tlc -workers 2 -config engine.cfg MCEngine.tla
    tlc -workers 2 -config platform.cfg MCPlatform.tla
    tlc -workers 2 -config agents.cfg MCAgents.tla
    tlc -workers 2 -config services.cfg MCServices.tla
    tlapm PipelineExec_proofs.tla
    tlapm PipelineStateStore_proofs.tla
    tlapm AutoMerge_proofs.tla
    tlapm Engine_proofs.tla
    tlapm Requests_proofs.tla
    tlapm Chat_proofs.tla
    tlapm Services_proofs.tla
    tlapm Platform_proofs.tla

## 1. The system

### Components

| Component | State | Operations | Hard behaviour | Correct when |
|---|---|---|---|---|
| Pipeline execution (`pipeline.py`, `agent_output.py`, `completion.py`, assignment in `orchestrator.py`) | `PipelineState`: agents, index, completed agents, groups, error; pending assignments; claimed child PRs; merge-failure counts | poll a status, post outputs, advance, merge, roll back, assign, rebuild, transition | state read before an await and written back after it; rollback; restart with half the state; calls that failed but took effect | agents run in order, once each, and the item moves last |
| Auto-merge and DevOps (`auto_merge.py`, CI handlers of `api/webhooks.py`) | DevOps record, tables of pending loops | attempt, retry loop, dispatch, watcher, webhooks | five kinds of caller interleave at awaits | one loop of a kind per issue, loops end, caps hold |
| Pipeline state store (`services/pipeline_state_store.py`, `transitions.py`) | L1 caches, SQLite rows, a lock | set, remove, load, read past the lock | write-behind tasks, failing commits, restart | the row ends as the last request asked, never an older one |
| Queue mode and launch (`services/pipeline_launcher.py`, `api/pipelines.py`) | `queued` flag, `started_at`, prerequisites, a lock per project | gate, enqueue, dequeue, change of the setting | gate and dequeue race; the poll does not look at the flag | one admitted pipeline per project, first in first out, everyone in the end |
| Statuses (`check_*_issues`, transitions) | the board's column, the state's status and transition target | snapshot, check, transition | the board moves by itself between snapshot and use | nobody skipped, nobody twice, the end reached |
| Recovery (`recovery.py`) | attempts, cooldown, escalated set | detect, re-assign, escalate | competes with the poll's own recovery branch and a late answer | a stalled agent is re-assigned, not a working one |
| Trigger guard (`transitions.py:80-156`) | in-flight marker and its row | claim, release, replace | a stale claim replaced under its owner | one assignment of an agent at a time |
| Tracking table (`agent_tracking.py`, `helpers.py`) | a table in the issue's body | mark, reconcile, rebuild | read-modify-write of the whole body by five writers | shows what is done, in the end all of it |
| Completion signals (`completion.py`, `agent_output.py`) | claims, SHAs, draft flags, all bounded | detect, claim | children and main PR look alike; memory is lost | credit for finished work only, for all of it |
| Copilot review (`completion.py`, `helpers.py`) | request time in memory, row and body | request, check, mark | reviews that nobody asked for | the review asked for, and not for ever |
| Main pull request (`helpers.py`, `orchestrator.py`) | branch and PR of each issue | discover, set once, base of the next agent | the first PR seen wins | agents build on the main branch |
| Workflow launch (`orchestrator.py`, `config.py`) | one configuration object per project | create issue, card, sub-issues, state, assign | shared object; the poll meets the half-launched issue | the chosen pipeline starts once |
| Copilot assignment (`orchestrator.py`, `github_projects/copilot.py`) | the cycle's cache | unassign, GraphQL, REST, retry | answers lost after their effect | one session for a success |
| Polling lifecycle, pacing (`polling_loop.py`, `copilot_polling/__init__.py`, start-up) | `is_running`, the task, registered projects; quota figures | start, stop, watchdog, register, pause | cancel against restart; figures of another window | one loop, every project polled, quota left |
| Board cache (`services/cache.py`, `api/board.py`) | cached board, fetches in flight | get, refresh, move, warm up | a fetch under way at a change | a moved card is shown, every reader answered |
| App plan, apps (`app_plan_orchestrator.py`, `app_service.py`) | a status row; an apps row | create, poll, launch waves, delete | twenty calls, any of which fails | nothing unaccounted for on GitHub |
| Chores (`services/chores/`) | `current_issue`, `last_triggered_at` | evaluate, trigger, clear, delete | two triggers read one row | one open instance |
| Agents and their command (`services/agents/service.py`, `agent_creator.py`) | rows, files, a session | create, update, delete, list; converse, confirm | stale lists; answers that come during a creation | a deletion holds; one creation at a time |
| Chat (`api/chat.py`, `chat_store.py`, `chat_agent.py`, plan tools) | messages, proposals, plans with steps, agent sessions | send, confirm, save, edit, approve | read, await, write by several requests | one issue each, a plan without circles, answers in their place |
| Configurations, run records (`pipelines/service.py`, `pipeline_state_service.py`) | rows | create, assign, delete; create, cancel | overlapping statements on one connection | one preset a user, runs whole |
| Shared connection (`database.py`, `chat_store.py`) | one open transaction | begin, execute, commit, roll back | one's commit ends another's transaction | what was reported is on disk |
| Cleanup (`cleanup_service.py`, `api/cleanup.py`) | an audit row | look, execute | five reads of different moments, executed later without another look | nothing the board needs goes, the row tells what went |
| Signal (`signal_bridge.py`, `signal_chat.py`, `signal_delivery.py`) | a slot for one proposal, connections, a listener, audit rows | converse, confirm, reject; link, restart, deliver | a task for every message, overlapping restarts, lost answers | one answer for a proposal, one holder of the phone, somebody listening |
| Webhooks other than CI, WebSocket, tools, settings, sessions, MCP server, migrations, monitoring, frontend | see `PROJECT.json` | single requests, mostly | little or none shared with the engine | |

### Interactions

- A launch (`start_pipeline`) stores a `PipelineState`, assigns the first agents and makes
  sure a polling loop runs. From then on the loop drives the pipeline.
- In a poll, Step 0 (`post_agent_outputs_from_pr`) merges and claims child PRs and posts
  `<agent>: Done!` on the issue. Steps 1 to 3 (`check_*_issues`) look for these markers,
  call `_advance_pipeline`, and that assigns the next agent or moves the item. Recovery and
  the review checks run later in the same poll.
- All of them read and write `PipelineState` through the wrappers of `transitions.py`: the
  cache is changed at once and in place, SQLite by a background task.
- When the item reaches In Review, auto-merge takes over: retry loop, DevOps agent, CI
  webhooks. The state may be gone, kept or rebuilt meanwhile.
- A restart loads SQLite into the cache; markers and the tracking table in the issue body
  rebuild what SQLite does not have.
- Chores, app plans, chat proposals and chat plans all end in a launch; so do requests of
  the board. They share the connection, the board cache and the configurations.

### Hazards

`PROJECT.json` lists each one at its line, with the properties that watch it. The themes
are: objects read before an await and stored after it (`pipeline.py:950`), in-place
advances taken back on failure (`pipeline.py:1984`), claims that count as merges
(`agent_output.py:723`), state that does not survive a restart
(`pipeline_state_store.py:186`), check-then-act across an await (`auto_merge.py:347`, the
launch gate, every confirmation in the chat), read-modify-write of a whole document (the
issue body), effects on GitHub that no row knows yet (apps, chores, agents), and the one
connection that everybody commits.

## 2. The modules

The engine, in detail:

| Module | Models | Extends / instances |
|---|---|---|
| `AgentSequence` | what a pipeline promises about one status | |
| `PipelineExec` | pipeline execution | instances `AgentSequence` |
| `MCPipelineExec` | group structures for the runs | extends `PipelineExec` |
| `PipelineExec_proofs` | theorems | extends `PipelineExec` |
| `AutoMerge` | auto-merge and DevOps recovery | |
| `AutoMerge_proofs` | theorems | extends `AutoMerge` |
| `PipelineStateStore` | cache, write-behind tasks and row of one pipeline | |
| `PipelineStateStore_proofs` | theorems | extends `PipelineStateStore` |

What surrounds it, a component each, with a specification of its own (`QueueSpec`,
`FlowSpec`, ...):

| Module | Models | Part of |
|---|---|---|
| `ProjectQueue` | launches, gate, dequeue, prerequisites, queue setting of a project | `MCEngine` |
| `StatusFlow` | one issue across the columns, the board's automation | `MCEngine` |
| `StallRecovery` | recovery of a stalled issue next to the ordinary poll | `MCEngine` |
| `TriggerGuard` | the in-flight marker of an assignment and its row | `MCEngine` |
| `TrackingTable` | the table in the issue body and its writers | `MCEngine` |
| `PollingLifecycle` | main and scoped loops, watchdog, registry | `MCPlatform` |
| `BoardCache` | the board's cache, shared fetches, offline board | `MCPlatform` |
| `PollPacing` | the loop's pauses against the request quota | `MCPlatform` |
| `WorkflowLaunch` | launching issues against the poll and each other | `MCAgents` |
| `CompletionSignals` | how a finished agent is recognised | `MCAgents` |
| `CopilotReview` | the copilot-review step | `MCAgents` |
| `AppPlan` | plan-driven creation of an app | `MCAgents` |
| `MainPr` | discovery and use of the main pull request | `MCServices` |
| `CopilotAssign` | the calls that put Copilot on an issue | `MCServices` |
| `Chores`, `Apps`, `AgentRows`, `AgentCommand` | rows against what they stand for on GitHub | `MCServices` |
| `ChatMessages`, `ChatProposals`, `ChatPlans`, `PlanSteps`, `ChatSessions` | the chat | `MCServices` |
| `PipelineConfigs`, `RunRecords`, `SharedConnection` | configurations, records of runs, the connection | `MCServices` |
| `Cleanup` | what may be deleted from a repository, and its deletion | `MCServices` |
| `SignalChat`, `SignalLink` | the conversation over Signal; its connection, listener and delivery | `MCServices` |

The theorems about them:

| Module | Theorems about |
|---|---|
| `Engine_proofs` | `TriggerGuard`, `TrackingTable`, `StallRecovery`, `ProjectQueue`, `StatusFlow` |
| `Requests_proofs` | `SharedConnection`, `PipelineConfigs`, `RunRecords`, `Chores`, `Apps`, `AgentCommand`, `AgentRows` |
| `Chat_proofs` | `ChatMessages`, `ChatPlans`, `ChatProposals`, `PlanSteps`, `ChatSessions`, `SignalChat`, `SignalLink` |
| `Services_proofs` | `CopilotAssign`, `MainPr`, `Cleanup`; `MCServices`, the composition of all of these |
| `Platform_proofs` | `PollingLifecycle`, `BoardCache`, `PollPacing`, `WorkflowLaunch`, `CompletionSignals`, `CopilotReview`, `AppPlan` |

`MCEngine`, `MCPlatform`, `MCAgents` and `MCServices` put modules that share no state into
one run: `focus` says which of them a behaviour is about, the others keep their initial
state. A property of one module is therefore checked in all behaviours of that module. The
variables of a module begin with a letter of its own where several meet.

Definitions named as variants in comments (`RemoveNone`, `FreeRefusal`, `PeekAction`, ...)
are plausible bugs of the definition after them. The specifications do not use them: each
property is shown to fail when the variant takes the place of the definition.

### PipelineExec

An agent is its position in the flat list `PipelineState.agents`; a group is an interval.
`pc` is where the polling coroutine stands between two awaits that matter:

| pc | code | actions |
|---|---|---|
| outputs, marker, track | Step 0, `agent_output.py` | `ReconstructIfMissing`, `MergeAndClaim`, `PostMarker`, `TrackDone`, `NoOutputs` |
| check, loop | `_process_pipeline_completion` | `Reconstruct`, `DetectComplete`, `BeginLoop`, `SkipAgent`, `LookAtMarker`, `ReadTable`, `DeferMissing`, `AssignMissing` |
| merge, effects, decide | `_advance_pipeline` | `AdvanceBegin`, `MergePasses`, `MergeUnknown`, `MergeRetryLater`, `DispatchDevops`, `DevopsAlreadyActive`, `Halt`, `Effects`, `ParallelWait`, `PassHuman` |
| next, assign | assignment, `orchestrator.py` | `AssignNext`, `DeferNext`, `CallAssign`, `AssignSucceeds`, `AssignFails`, `AssignHuman`, `EndAssign*` |
| transition | `_transition_after_pipeline_complete` | `Transition`, `TransitionFails` |

`l1` is the cached object, `db` the row, `held` the coroutine's own object while
assignments run (it is stored back over what they stored), `snap` the group position saved
before an advance. `work`, `child`, `marker`, `track`, `board` are GitHub. `Crash` keeps
the row, the issue and the sessions, loses the rest, and lets each call in flight have
taken effect or not. `Faults` says which calls may fail in a run.

Abstractions: time is one bit (`fresh`: the assignment is younger than the grace period);
comments are the set of posted markers; a child PR is none, open or merged, and when neither
the merge nor the search for it can read it ("unavailable") the advance goes on over it
(`NoChildFound`, history variable `passed`). The recovery branch looks at the marker, reads
the table, waits for the rate limit and assigns in four steps, and the agents may finish in
between. Sub-issues,
labels, models and instructions are left out; `MaxDone` limits `completed_agents`, which
can repeat an agent in parallel groups only (3 and 5 are enough for the runs: the flat
runs never pass N).

### AutoMerge

A coroutine is a record `frame[c]`: the job that called `_attempt_auto_merge` and the next
await. The polling loop, the retry tasks, the watcher tasks and the webhook deliveries run
the same steps `CheckRuns`, `Mergeable`, `Merge`, and differ in what they do with each
answer (`RetryLater`, `MergeFailed`, `DevopsNeeded`, `Finish`). The shared tables are
`tracking` (`_devops_tracking`), `pendingRetry`, `pendingWatch`, and the pipeline state.
`cycle` is the board as the poll read it. The initial states include one where a DevOps
agent was already used for a child PR of the issue, so that its marker exists.

Left out: closing the issue, broadcasts, the SQLite fallback of the webhook lookup and
exceptions thrown by `_attempt_auto_merge` itself (its callers log them and go on).

### PipelineStateStore

Requests are numbered; a stored state is known by the number of the request whose content
it holds. `content` are the Python objects, because a cached object is changed in place
after tasks that hold it were created. `scheduled` are tasks that have not run yet,
`waiting` the queue of the lock with its holder at the head, `executed` whether the
holder's statement was issued. `row` is what the connection sees, `disk` what is committed;
other stores commit and roll back on the same connection (`OtherCommit`, `OtherRollback`);
`undone` says that the last write was discarded by such a rollback. `SetNew` and `SetCached` are
the synchronous wrapper, `retry_pipeline` the one awaited write of a cached object,
`Select`/`Repopulate` a read past the lock, `Restart` a crash and the load at start-up.

One assumption about the event loop: a created task starts before an answer of SQLite that
arrives later is seen (`HasLock` and `Repopulate` ask for `scheduled = <<>>`). asyncio
keeps ready callbacks in order, so it holds unless the answer was already queued.

Left out: the awaited writes of the restore steps (`s12_multi_project.py`,
`s13_pipeline_restore.py`), whose objects may no longer be cached; rows that cannot be
read at start-up; eviction from the bounded cache.

### The queue, the columns and what keeps an issue going (`MCEngine`)

`ProjectQueue`: every launch is a request at its own step (`CreateParent`, `CreateSubIssues`, `QueueGate`, `AssignFirst`) and the
poll one coroutine; `qState` holds each issue's state with its `queued` flag, `qStarted` the
order of the `started_at`, as pairs of an older and a newer state, the launch
lock is held over the gate as in `pipeline_launcher.py:170-190`. The poll assigns whatever
looks unassigned, queued or not, because the code does not read the flag. A column is
"early", "late" or "review", which decides who dequeues. `AdmittedOne` therefore speaks of
pipelines that the queue let in, and `QueuedIsStarted` needs the poll.

`StatusFlow`: the board, the snapshot of it that the poll acts on, and the pipeline's own
status with its transition target; `find_next_actionable_status` passes columns without
agents. A workflow with no agent at all makes no pipeline state and is not a plan. GitHub's
automation may move the issue to In Progress, and a restart lose its state, between any two
steps. `fAstray` records that the issue went astray: the poll used a state in a column that
it was not rebuilt for, or moved the issue on a pull request alone (section 6). People who
move the card by hand are left out.

`StallRecovery`: time is counted in poll intervals, with `Cooldown` and `Grace` in the same
unit; a pass reads the table and the signs of work, then acts; agents may answer late.

`TriggerGuard`: ages of the marker and of its row are counted to `StaleAfter`; the writes
behind it are a queue in the order of the store's lock. A caller that outlives its claim
sets `gLate`, and `OneAssignment` is stated for the others.

`TrackingTable`: each writer holds the body it read. What shows that an agent is done
(`tEvidence`: comment, closed sub-issue) is kept apart from the row that says so.

### What the engine runs on (`MCPlatform`)

`PollingLifecycle`: a slot is an asyncio task, a cancelled one unwinds at a time of its
own; the watchdog acts in two halves with an await between them. `BoardCache`: a version
stands for what GitHub knows; entry, fetches in flight and sub-issue cache hold versions,
readers join fetches and are cancelled with their owner; a request for sub-issues may be
refused, which is cached as an empty list, or raise, which is not, and polling reads and
fills the same cache. `PollPacing`: the quota in units
of 50 requests, the figures of the task and of the instance with their age, the pauses.

### Launches, agents' signals and planned apps (`MCAgents`)

`WorkflowLaunch`: configuration objects are told apart from what they hold, because two
launches share one; a launch and the poll at the same issue are two actors, each going
through the sub-issue, the mark, the call of Copilot and the table in steps of its own. A
call may fail or take effect without an answer; `oForgotten` counts the assignments that the
program has lost sight of, `oBlind` marks an issue whose sub-issues the poll could not see.
`CompletionSignals`: agents and pull requests are numbered alike, commits counted; claims
and SHAs may be evicted and are lost at a restart (`uForgot`). `CopilotReview`: ticks of
the request buffer; the request time in memory, in its row and in the body, each of which
may be missing or be that of an earlier cycle. `AppPlan`: the stages of the background task, phases with dependencies, the
row's status, cancellation by another request.

### Requests and rows (`MCServices`)

In each of these modules a request is a member of a small set at one of a few steps, and
holds what it read; the row, the cached object and GitHub are separate variables. `Chores`
numbers the issues opened; `Apps` has repositories, projects and issues by creator;
`AgentRows` merges rows of one slug; `AgentCommand` has the session as one shared object;
`ChatProposals` tells objects of one row apart; `ChatPlans` numbers contents and versions;
`PlanSteps` has positions and dependencies, which are lists and may name a step twice
(`dTwice`); `ChatSessions` the map of sessions, each key with its place in the order of last
use, and the slot of each session; `SharedConnection` the one open transaction; `CopilotAssign` GitHub's view of the
issue next to the cycle's; `PipelineConfigs` and `RunRecords` their tables, the second as
seen on the connection and as committed, with the commits and rollbacks of others
(`iMixed`, `iUndone`); `MainPr` memory, row, links and the pull requests
with base and state; `ChatMessages` where a message and its answer are stored. `Cleanup`
takes two issues, one of them a sub-issue, branches known by a name or a prefix, each with
at most one pull request, and lets pipelines and people change the repository between the
reads and between the deletions; `xLinked` and `xCarded` hold what has been on the board
since the look began. A branch name that was seen is not used again. `main` and the
permission check, which only refuse, are left out; so is a list of deletions that the client
did not get from a look (the API takes the list it is sent, `api/cleanup.py:55-97`).
In `SignalChat` a message is a task with its word and step, proposals are numbered in the order they are made, and a card or a
move of the board may fail without a word (`hSilent`); `SignalLink` has
polls that write the connection, the restarts that follow (`gOverlap` when they meet), and
messages with their tries.

What a request cannot know is not hidden: where the code lets two requests overlap and the
result is wrong, a history variable records that the overlap took place (`oMixed`,
`zAgain`, `rExcused`, `cHit`, `gLate`, `uForgot`, ...), the property is stated for all other
behaviours, and section 6 says what happens in those.

## 3. What is checked

| Run | Distinct states | Shows |
|---|---|---|
| `flat_faults` | 8.1 M | three agents, every failure, one restart: markers before completion, agents completed in order, one session per agent and life of the process, no start over an open unclaimed child but one that could not be read, the contract |
| `flat_merge` | 26 k | merges at the real limits of 3 retries and 2 dispatches, refused, conflicting or unreadable: the pipeline finishes, halts or waits for DevOps |
| `groups_human` | 1.2 M | two sequential groups and a human step, one restart that flattens them: group position and flat index agree; the contract |
| `parallel` | 18 k | a parallel group second: the contract |
| `live_flat` | 21 k | with lost markers, failed board updates, deferred assignments, a delayed human and a restart, the item always leaves the status |
| `auto_merge` | 1.4 M | two retriers, two watchers, a webhook: the loop tables are exact, DevOps is active only when put to work, the cap holds, the retry loop releases the state, loops end |
| `store` | 1.8 M | five requests, two awaited writes, a read, a restart, others' commits and rollbacks: the last request is in the row unless its write was rolled back by another, the cache is never stale, the row advances, everything ends |
| `engine` | 192 k | `ProjectQueue`, `StatusFlow`, `StallRecovery`, `TriggerGuard`, `TrackingTable`, safety and liveness |
| `platform` | 329 k | `PollingLifecycle`, `BoardCache`, `PollPacing`, safety and liveness |
| `agents` | 267 k | `WorkflowLaunch`, `CompletionSignals`, `CopilotReview`, `AppPlan`, safety and liveness |
| `services` | 2.5 M | the seventeen modules of `MCServices`, safety |
| `bad_claim_unmerged` | | violated: a claimed PR counts as merged and never is; the finding in `PROJECT.json` quotes the docstring |

**The properties.** A property of the runs is often a conjunction of named parts, one per
promise, each with its comment in the module:

- `ImplementsContract` says an agent begins only when all earlier ones (except siblings of
  its parallel group) have posted their markers, and that the item moves when all have.
  `CompletedIsPrefix` and `CompletedHaveMarkers` say the same of the state and the row,
  which drive later decisions. `SingleStart` bounds sessions by the number of restarts,
  because a call in flight at a crash may be repeated. `PositionIsOne` adds that the group
  position and the flat index name one agent. `OpenPredecessorsClaimed` has what remains true
  of merges: without a restart an agent starts over an open child only if that was claimed,
  or if the merge stage could not read it and passed (`passed`). `FinishesOrBlocks` says that the pipeline finishes or
  blocks. `PredecessorsMerged` is what the docstring promises and is refuted.
- `LoopsAccounted`: exact loop tables, an honest DevOps record, the cap, release; and
  `LoopsEnd`.
- `Settled` relates log and row at rest, `DiskAdvances` earlier and later rows over
  crashes, `CacheNeverStale` the cache and the log; the last two hold while only the
  synchronous wrappers write. `RequestsEnd` says that every write ends.
- In `engine`, for safety: `QueueKeepsOrder` (`AdmittedOne`, `FifoAmongWaiting`),
  `FlowKeepsOrder` (`DoneHasMarker` always; `NoAgentSkipped`, `StartsInOrder`,
  `AssignedOnce` unless the issue went astray), `RecoveryInOrder`
  (`PredecessorsReported`, `MovedWhenDone`, `AttemptsApart`), `GuardExcludes`
  (`OneAssignment`, `RowFollowsMark`), `ShownIsDone`. For liveness, `EngineMovesOn`:
  `QueuedIsStarted`, `ReachesTheEnd`, `StallEnds`, `EventuallyAssigned`, `DoneIsShown`.
- In `platform`: `LoopIsSole` (`OneMainLoop`, `FlagHasTask`), `BoardShowsNews`
  (`MovedCardsShown`, `RefreshReloadsOrDrops`), `PollingLeavesReserve`; `PollingGoesOn`:
  `NewsNoticed`, `ReadsAnswered`, `PausesEnd`.
- In `agents`: `LaunchIsOnce` (`LaunchedAsChosen`, `OneSubIssue`, `ConfigIsStored`,
  `FirstAgentOnce`), `CreditIsTrue` (`CreditIsEarned`, `OneCreditPerChild`),
  `ReviewWasAskedFor`, `AppFollowsPlan` (`PlanningIssueClosed`,
  `WavesAreTriedInOrder`); `WorkIsSettled`: `LaunchedIsStarted`, `FinishedIsCredited`,
  `ReviewIsAccepted`, `CreationSettles`.
- In `services`: `OneInstance`, `CreationsHold` (`AssetsAccounted`, `CreationIsWhole`),
  `ProposalsHold` (`OneIssuePerItem`, `StepsAreOrdered`, `PlanIsAccounted`), `ChatHolds`
  (`SessionsKeptApart`, `AnswersHold`), `RowsHold` (`ReportsAreTrue`, `ConfigsConsistent`,
  `RecordsAreWhole`), `CopilotHolds` (`AssignmentIsReal`, `WorkGoesThroughMain`),
  `CleanupIsSafe` (`BoardKeepsItsWork`, `AuditIsTrue`), `SignalHolds` (`AnsweredOnce`,
  `ToldUnlessSilent`, `OneHolder`, `Listened`, `MailIsTrue`), and of steps, `DeletionsHold`.

Safety and liveness are properties of their own: every safety property of a passing run is
also a theorem (section 4), those of `PipelineExec` for serial pipelines or under the
hypothesis the theorem names; the liveness properties are TLC's alone. The liveness parts of a
composition are checked on behaviours of one part at a time; the others wait in a first
state in which their fairness asks nothing.

**Bounds.** Three agents are the fewest with a predecessor, a current agent and a
successor, and with a group next to another. One restart is enough to lose each piece of
memory once, at any point; the second restart starts from a state of the same kind, and
the theorems cover any number. The limits of the merge are real in `flat_merge` (3 and 2)
and reduced to 2 and 1 elsewhere. Two tasks of each kind in AutoMerge are one more than may
run, so that a second one would be seen; counters are reduced to 2. Five requests in the
store let a set, a removal, a newer set, an in-place change and a restart meet; the
theorems cover any number. Three issues in the queue are one that runs and two that wait, the
third with a prerequisite. Two requests of a kind are the fewest that overlap; the third,
where there is one (`PipelineConfigs`), is another user's. `Cleanup` has the request and
its repetition, and one change of the repository at any point: a card, a push, a merge or a
closed parent between two reads, or between the look and the deletions. Every bound on faults
(`MaxMoves`, `GuardFaults`, `LaunchFaults`, ...) is a CONSTANT in the guards of the actions
it limits, 1 to 4; with 2, a failure and a restart meet in either order
(`WorkflowLaunch` has 1, the theorems about it any number). In the runs with
liveness the bounds also say what is assumed: faults are finitely many.

**Fairness.** `PipelineExec.Fairness`: the loop continues after every failure
(`polling_loop.py` catches exceptions and sleeps), hence weak fairness of `Poll`; tasks of
the event loop run (`Persist`); time passes; agents and the human finish, which is an
assumption about the outside and is not made in the safety runs; and GitHub does not
refuse the same call for ever, hence strong fairness of the five calls that a failure
action competes with. `AutoMerge.LiveSpec`: every awaiting coroutine is resumed; nothing is
assumed of checks, agents or webhooks, so `LoopsEnd` rests on the counters alone.
`PipelineStateStore.LiveSpec`: tasks run and the connection answers, possibly with an error.
In the other modules it is weak fairness of the coroutines' own steps (poll, watchdog,
background tasks, resumed requests, each whether its call succeeds or fails) and of time,
plus an outside assumption where a property needs one: agents finish in `StatusFlow`
(`AgentIsDone`) and `CompletionSignals` (`AgentWorks`), Copilot reviews what it was asked to
review in `CopilotReview`, the quota window rolls in `PollPacing`. `QueueFairness` asks
strong fairness of the poll's assignment of one issue, since the poll goes round all issues
and other launches come between. No fairness is given to users, webhooks, launches, stops
or the board's automation.
`CHECK_DEADLOCK FALSE` is set where requests, deliveries and loops are finitely many and
the system may stop.

## 4. What is proved

All theorems hold for every value of the constants that satisfies the named ASSUMEs of the
modules. These say that bounds are natural numbers, that sets of requests are finite where
something is counted over them, and that the names the model uses for "nobody" or "free" are
not names of requests. What is assumed beyond that is a hypothesis of the theorem.

### The pipeline

`PipelineExec_proofs`, for every number of agents, retry limits, faults and restarts:

- `TypeCorrect`: `[]TypeOK`, for flat and grouped pipelines.
- `SerialCorrect`: `[](TypeOK /\ SerialInv)` for `Serial` pipelines: a flat list with or
  without a human step, or any number of sequential groups, in which no human step is passed
  over (`NoSkip`; passing over it moves the flat index and not the group position, section 6).
  From it `SerialPrefix` (`CompletedIsPrefix`), `SerialMarkers` (`CompletedHaveMarkers`) and
  `SerialImplementsContract`: the pipeline implements `AgentSequence`.
- `SerialStarts`: `[]StartInv` if also `NotRevisited`: no step is passed over, or the board
  item's update does not fail. From it `SerialSingleStart` (`SingleStart`), `SerialPosition`
  (`PositionIsOne`).
- `SerialClaims`: `OpenPredecessorsClaimed`, which speaks of the time before a restart,
  under the same hypothesis.

`CompletedIsPrefix` is not inductive: an advance followed by a failed merge is taken back
with `list.remove`, which restores the prefix only because the removed agent is the last of
it, and the assignment replaces the list by the agents before the assigned one. `SerialInv`
adds what the coroutine holds: that each copy of the state (cache, row, the object held
over the assignments) is a prefix with its markers whose group position names the next agent
(`Matches`; so does the position saved in `snap` while a merge is under way), that the agents
being assigned or in flight are ready, that a session or a marker exists only for a started
agent, and that `cur` is the last completed agent in an advance. `SerialView` reduces the
derived properties of a state (`current_agent`, `is_complete`, ...) to its index, and the
proof has a step per action (`SerialStep`). The refinement maps `CallAssign`'s completion, a
crash with calls that landed, `PostMarker`, and `Transition` to the steps of the contract and
the others to stuttering.

`SingleStart` needs to know who was *not* started. `StartInv` says: in this life of the
process nobody past the position was, and the agent at the position only if it is pending or
has its marker; while an advance is under way, not even that one. When the state is lost,
either every marker is there or nobody was started in this life; a rebuilt state then has
nobody to start, or nobody who was started. Without `NotRevisited` the invariant fails, and
so does `SingleStart` itself: see the observations. `ClaimInv` follows the pull requests:
those before the position are merged, claimed or passed unread, and stay so, because an agent
with its marker does not work again. A restart empties the claims, hence `crashes = 0`.

### The store

`PipelineStateStore_proofs`, for any number of requests, awaited writes, reads and restarts:

- `TypeCorrect`, `SettledCorrect` (`Settled`), `CacheCorrect` (`CacheNeverStale`),
  `DiskCorrect` (`DiskAdvances`).

The invariant looks at the lock queue followed by the tasks not yet started: the last entry
writes the last request, whose row is there when it has been written unless somebody else
rolled the connection back since (`LastWins`); an awaited write, which overtakes tasks not yet
started, is harmless because the last of them writes the same object (`ScheduledIsCached`);
and without awaited writes the queue is in the order of the requests, which in-place changes
respect because the entries holding the cached object are the last ones (`InOrder`). TLC
checked both invariants with the bounds of the runs before they were proved.

### Auto-merge

`AutoMerge_proofs`, for any number of pollers, retriers, watchers and webhook deliveries, any
caps and any outcomes of checks and merges: `MergeTypes` (`TypeOK`),
`LoopsCounted`, `DevopsAccounted` and `RetryReleases`, all from `[]MergeInv`, and together
`LoopsAreAccounted` (`LoopsAccounted`).

`MergeInv` is `WorldTypes` (what board, pull request and CI may be), `RecordInv` and
`LoopInv`. The tables of the loops are exact because of `OneLoop`: at most one task of a kind
runs, and the entry is there exactly while it does; it is preserved because a task only ever
runs the loop it was made for (`JobsApart`), so that whoever ends takes its own entry away. The
DevOps record is honest because "active" is written together with the dispatch that raises
the counter (`RecordInv`), and the cap holds because whoever is about to dispatch has read a
count below it (`SeenBelowCap`).

### What surrounds the pipeline

`Engine_proofs` and `Platform_proofs`, a component at a time, for any number of issues,
launches, callers, readers, attempts, failures and restarts:

| Theorem | Property | What the invariant adds, and why |
|---|---|---|
| `GuardCorrect` | `GuardExcludes` | unless a claim was once replaced as stale, one at most is in its call and the mark is as old as its claim (`ClaimIsYoung`); the last write that waits, or the row when none does, tells whether there is a mark (`LastWriteTells`) |
| `TableShowsTheTruth` | `ShownIsDone` | the table and every body that a writer holds show as done only what is (`TrueBodies`), the agents the index has passed are done (`PassedAreDone`), and a writer marks what is done (`TrueWork`): evidence is never taken back, so an old body is incomplete and not wrong |
| `RecoveryKeepsOrder` | `PredecessorsReported`, `MovedWhenDone` | the table, the cached index and the agent a pass has picked are none of them beyond the first agent that has not reported (`ReportsInOrder`) |
| `RecoveryAttemptsApart` | `AttemptsApart`, with the former `RecoveryInOrder` (`RecoveryIsOrderly`) | a pass that has picked an agent found the cooldown over and attempts left, and neither changes before it acts (`AttemptDue`) |
| `OneIsLetIn` | `AdmittedOne` | one at most is let in, its state is not queued and its launch is beyond the gate (`LetInOnce`); while a dequeue holds the lock nothing is in, its candidates are still queued, and who is queued and no candidate waits for a prerequisite (`LockedOut`) |
| `FirstInFirstOut` | `FifoAmongWaiting`, with the former `QueueKeepsOrder` (`QueueIsOrderly`) | `qStarted` orders the states (`ByAge`), and with `LockedOut` a dequeue takes the first of those whose prerequisites are met |
| `NobodyIsSkipped` | `FlowKeepsOrder` | unless astray: not launched, finished, or one agent at work: those ahead of it done, those behind it untouched, the state standing for it if there is one, the board in its column or in In Progress where the automation moved it (`AtWork`, `Going`). Once astray the issue stays so; what remains is that every state is at a position whose earlier agents have their markers (`Positioned`) |
| `OneLoopPolls` | `LoopIsSole` | what delays, scans or loops is the task that `_polling_task` names: a stop cancels it before it forgets it, and nothing starts before it is done |
| `BoardIsTrue` | `BoardShowsNews` | no entry and no answered fetch is older than the last update that met no fetch (`NothingOld`); who joins a fetch is promised no more than it brings (`ReaderServed`); while a reload waits, what the sub-issue cache and polling hold is as new as it was promised, or empty (`ReloadServed`) |
| `ReserveIsLeft` | `PollingLeavesReserve` | the task's figures, unless of an earlier window, are never above what polling has left (`FiguresAreHonest`); a cycle begins above the threshold (`PausedInTime`) |
| `LaunchesAsChosen` | `LaunchedAsChosen`, `ConfigIsStored` | an object is made once, before anybody holds it (`MadeOnce`); a read under way has what the row has while nothing is cached (`RowInStep`) |
| `LaunchesOnce` | `OneSubIssue`, `FirstAgentOnce`, with the former `LaunchIsOnce` (`LaunchedOnceAsChosen`) | unless the poll was blind, memory knows every sub-issue or was lost with the state, from which the poll starts again (`SubsOf`); who was assigned is marked, shown as active and no longer about to be assigned, or counted as forgotten, and of launch and poll one at most is about to ask (`AssignedOf`) |
| `CreditIsFair` | `CreditIsTrue` | later agents have no pull request and earlier ones have claimed theirs (`EarlierClaimed`), so a child that is found is the current agent's; new commits are its own (`OnlyItsCommits`) |
| `ReviewedOnRequest` | `ReviewWasAskedFor` | a recorded time is no earlier than the first request, of this cycle or an earlier one (`Recorded`), and a review a buffer after it was made after it (`Given`). That the request is of this cycle is not promised, section 6 |
| `PlannedAppInOrder` | `AppFollowsPlan` | what was tried is the waves behind and a part of the current one (`WaveByWave`); the row is active only at the end, and what was tried was launched while nothing failed (`LaunchInv`) |

The proofs made some assumptions explicit that the models had left unsaid, among them that
the quota is larger than the threshold at which polling pauses (5000 against 50), that
readers and background tasks are different callers, and that "nobody" is not the name of a
slot. `AppPlan` carries the phases of the waves behind it (`aResolved`, the `resolved` set of
`group_into_waves`) where it had computed the waves by recursion, which the prover cannot
follow; the state space is the same.

### The services

The invariants of `MCServices` are proved component by component, then for the composition:
`Services_proofs` shows that each step of the whole is a step of one component or leaves its
variables alone (`EachStepsByItself`), so every theorem below holds in it too: `RowsAreKept`,
`ProposalsAreKept`, `ChatIsKept`, `CreationsAreKept`, `CopilotIsKept`, `SignalIsKept`,
`DeletionsKeptBeside` and `ChoresAndCleanupKept` have the properties of the run. In each case a request may be repeated, overlap and fail any
number of times. The invariants add to the property what requests hold between their steps:

| Theorem | Property | What the invariant adds, and why |
|---|---|---|
| `ReportsTrue` | `ReportsAreTrue` | who was not hit (`NotHit`) has its writes in the open transaction or on disk, depending on its step; only the committer's own step may turn one into the other |
| `ConfigurationsConsistent` | `ConfigsConsistent` | ids are given out once (`IdsGivenOut`), so a configuration seen to be gone, or by a launch to be another's, stays so (`GoneForGood`) while the reader decides |
| `RunRecordsWhole` | `RecordsAreWhole` | the lock's holder is the one in its transaction (`LockInv`), a stage is inserted only beside its run, so that a run whose row another rolled back ends in a refusal, and uncommitted groups are the first n of one request unless another rolled back (`UnmixedInv`), a cancelled run stays so (`CancelInv`) |
| `ChoreOneInstance` | `OneInstance` | `SwapIsSafe`: while `last_triggered_at` is what a caller saw, so is the current issue unless cleared; this is why the compare-and-swap on the time protects the issue |
| `AgentCreationWhole` | `CreationIsWhole` | a creation under way means the session says "executing" (`ExecutingAlone`), unless an answer came late |
| `AppAssetsAccounted` | `AssetsAccounted` | at each stage of a creation, whose its repository, project and issue are (`AssetsAre`) |
| `DeletionsAreKept` | `DeletionsHold` | a list not older than the file's last change tells the truth (`ListsAreTrue`); a writer that may overwrite a pending deletion overlapped it (`WritersOverlapped`) |
| `AnswersHoldAlways` | `AnswersHold` | where the rows of a message are at each of its stages, given what was deleted (`MessageIsStaged`) |
| `PlanAccounted` | `PlanIsAccounted` | one request at most has read the draft or is about to launch (`ApprovedOnce`), a hook's version is one the plan has had |
| `OneIssueEach` | `OneIssuePerItem` | one object of the row is used at most, and is used up when the issue is there (`IssueIsOnly`) |
| `StepsOrdered` | `StepsAreOrdered` | what `validate_dag` accepts has no circle: `CirclesStay`, by induction on the rounds of Kahn's algorithm; insertion, compaction and order keep positions apart |
| `SessionsApart` | `SessionsKeptApart` | a slot is filled only while the run that filled it is in the session (`SlotIsHeld`), and two runs in a session know of each other (`SharersKnow`) |
| `ConversationKept` | `AnsweredOnce`, `ToldUnlessSilent` | what each step of a task has done about its proposal, or which call failed silently (`TaskHasDone`, `OfferIsTold`), one task at most answers one (`OfferHasOneAnswer`), proposals are newer one than the other |
| `LinkIsHeld` | `OneHolder`, `Listened`, `MailIsTrue` | without overlap one restart is under way and no loop runs meanwhile (`OneRestarts`); a linked user has a loop or a restart to come (`ToBeHeard`) |
| `AssignmentReal` | `AssignmentIsReal` | sessions are counted against lost answers; before Copilot is asked, it is off the issue or a session has begun (`BegunOrOff`) |
| `WorkThroughMain` | `WorkGoesThroughMain` | how pull requests stand on each other (`PullIsWired`), that memory, row and search know existing ones, and that they are against the default branch unless a child was taken |
| `CleanupSafe` | `CleanupIsSafe` | each read that has answered still shows what is linked to the board (`LookIsRight`); the list then spares it (`ListIsRight`) and requests keep to the list |

All of these invariants were checked by TLC on the instances of `services` first. Some
proofs needed the model to say more exactly what the code does: the dependencies of a step
are a list that may name a step twice (`PlanSteps.dTwice`, because `deps.remove` takes one
mention away), a reorder is validated too (`chat_store.py:1278`), and the assumptions that
reserved names are not request names (`RecordAssumption`, `ProposalAssumption`,
`LinkAssumption`, `AgentRowsAssumption`) had been left unsaid.

### Only model-checked

Everything about liveness, because the prover does not handle fairness and ENABLED:
`Finishes`, `FinishesOrBlocks`, `LoopsEnd`, `RequestsEnd`, `EngineMovesOn`, `PollingGoesOn`,
`WorkIsSettled`. Pipelines with parallel groups, for which
`CompletedIsPrefix` and `SingleStart` do not hold (section 6), and sequential groups in which
a human step is passed over; their contract is checked with TLC.

## 5. The plan

Done: the engine, its store, its end, a module for each component that keeps state over
an await, and theorems for the serial pipeline, the store, auto-merge, and the safety
properties of every other component. Next, in this order:

1. The contract for pipelines with parallel groups, for any number of groups: it needs an
   invariant of its own, because there the flat list is no prefix.
2. The compositions `MCEngine`, `MCPlatform` and `MCAgents`, as `Services_proofs` has
   `MCServices`.
3. The drain of background tasks at shutdown, and the delivery cache of the webhooks.
4. `TriggerGuard` and `StallRecovery` composed with `PipelineExec` as second drivers of
   `_advance_pipeline`.

## 6. What is not modelled, and what follows

- **One poll per pipeline.** PipelineExec has one coroutine. A launch on a target repository
  starts a scoped loop and registers the project with the main loop too
  (`api/pipelines.py:496-497`): `PollingLifecycle` has the two loops, PipelineExec has one.
  The results about one pipeline are about pipelines driven by one poll.
- **Composition.** The modules of a composite run do not share state. Where one needs
  another it has a coarse picture of it: `StatusFlow` of the agents of a column,
  `ProjectQueue` of an assignment, `WorkflowLaunch` of the pending mark.
- **Labels.** `label_manager.py`, `validate_pipeline_labels`, `state_validation.py` and the
  label recovery of `recovery.py:1267-1517` have no callers. The fast path that builds a
  pipeline from labels (`pipeline.py:330-394`) never yields one, see below.
- **What a language model answers**, what is parsed from it, and how it is worded.
- **Eviction** is modelled where a bounded table is read as memory (`CompletionSignals`);
  elsewhere no bounded collection is full.
- Components listed as `not_modelled` in `PROJECT.json`, each with its reason.

### Observations while modelling

Behaviours of the code met on the way. Where a property of section 3 excludes one, the
history variable that marks it is named.

**Pipeline execution**

- With parallel groups, an agent whose sibling finished first can be recorded twice and the
  sibling not at all (`pipeline.py:1642` records `current_agent`; the comment at 764-765
  speaks of the agent found finished), and a finished sibling can be assigned again
  (808-871). After a restart the next group may start while a sibling works.
- The merge stage goes on over an open child that nobody claimed when it cannot read it: it is
  skipped if the main branch is unknown (`pipeline.py:1758-1765`), and an exception or
  unreadable details answer "nothing to merge" (`completion.py:50-51`, 82-83, 99-107).
  `passed` has these agents, and `OpenPredecessorsClaimed` allows no others.
- The recovery branch of the poll looks at the marker, reads the table, waits for the rate
  limit and assigns at `pipeline.py:754`, 808, 894 and 908, with awaits between: an agent
  whose session survived a restart may finish meanwhile and is assigned all the same. Only
  an agent not yet started in this life of the process gets that far, which is why
  `SingleStart` allows one more start for each restart.
- A successful assignment keeps the error of a failed one (`pipeline.py:950` stores the
  object read before), and the pipeline halts.
- With conflicts that no DevOps agent repairs `devops.active` is never reset
  (`pipeline.py:1870`), so the merge is retried for ever.
- A delayed human step advances the flat index and not the group position
  (`pipeline.py:2354`, 2463): in a grouped pipeline the two designate different agents.
- `_build_pipeline_from_labels` (`pipeline.py:330-394`) reads `agent.slug`, but the nodes
  have `agent_slug`, so it always answers None and the slow path runs.
- A human step that was passed over leaves no marker. If the update of the board then fails,
  the state is dropped (`pipeline.py:2880`), it is rebuilt at the human's position, and the
  agents after it are started once more: `SingleStart` fails for a flat list with a delayed
  human and a failing board, without any restart.
- Between two statuses the state is removed, which also unregisters the project: a launch
  can pass the queue's gate then, and if the next assignment raises, a project that is not
  the primary one is no longer polled.
- An issue that the automation moves to In Progress, or whose state is lost there, may go
  astray (`fAstray`), and agents are then skipped, started out of order or twice. The poll
  uses the state it finds with the column and the target of the snapshot
  (`pipeline.py:3829-3875`): a state rebuilt for an earlier column is advanced to the end of
  the seen one. Without agents in In Progress and without a state a pull request alone moves
  the issue on; and recovery assigns the seen column's agent at the rebuilt position. What
  makes a rebuilt state wrong is a `Done!` that nobody read while the state was missing: the
  row stays active, and the rebuild takes its column for unfinished, contrary to the comment
  at 473-520.

**Auto-merge and store**

- Two failing check runs dispatch two DevOps agents (`auto_merge.py:347`; docstring at
  324-326).
- A dispatch made by the watcher itself finds the watcher's own entry and starts no new one
  (`auto_merge.py:664`), although the comment at 455-456 says the loop is scheduled.
- An old `devops: Done!` comment ends the wait for a new DevOps agent (`auto_merge.py:506`).
- `pipeline.py:2153` removes the state that 2936-2939 promises to keep for the retry loop.
- A merge by the webhook, the watcher or the fallback does not move the item to Done or close
  the issue, and the retry loop may then report a failure for an issue already merged.
- The connection is shared, and a failing caller elsewhere rolls it back
  (`chat_store.py:36-42`; `pipeline_state_service.py:114`, 238, 324, 412). Between a persist's
  INSERT and its commit this discards the row, the commit succeeds, and the write is logged
  as done: SQLite keeps the older state until the next write (`undone`).
- A late delete pops a newer state from the cache (`pipeline_state_store.py:502`; its
  docstring, 4-5, says cache and row agree); a read past the lock can put a deleted state
  back, and the awaited write of the retry tool can put its object back over a newer one.

**Queue, recovery, guard, table**

- A finished pipeline still counts as active when it dequeues the next (`pipeline.py:2930`,
  3043 run before the removal). `_dequeue_next_pipeline` builds a context without
  `issue_id`, so its assignment raises, is logged, and the poll's recovery branch starts the
  pipeline after the grace period, whatever its prerequisites and other active pipelines.
- A prerequisite without a state counts as merged (`pipeline.py:110`), and the plan
  orchestrator's prerequisites are issues that no pipeline runs on
  (`app_plan_orchestrator.py:555`, `api/pipelines.py:411`).
- Recovery looks for "exhausted" before the cooldown and before it knows of a stall;
  attempts are counted per issue and reset by a restart only.
- A release by an owner whose claim went stale removes its successor's marker, and a third
  caller assigns next to it (`gLate`; `OneAssignment` says nothing of these); a
  failure in `_resolve_effective_model` leaves the marker until it is stale.
- Overlapping or failed updates of the table lose marks; only recovery mends them, and
  after the pipeline is complete nobody does (`tLost`). `ShownIsDone` says only that no mark
  is false; that each appears is `DoneIsShown`.

**Completion, review, main pull request, assignment**

- A restart empties the tables of claims, and agents are then credited with children of
  others (`pipeline.py:2095-2100`, `completion.py:958-961`); so is an agent that could not
  be assigned when its state is rebuilt (`uForgot`). A child is claimed for the next agents
  although its merge failed. When the record of the main PR cannot be read twice, the next
  agent is taken for a first one.
- With the request time of an earlier cycle a review that nobody asked for finishes the
  step, contrary to the docstring at `helpers.py:266-272`.
- A transient failure reading the main PR's details clears the recorded main branch
  (`orchestrator.py:1090`); the next search has no check of the base and may take a child
  for it. Discovery returns what memory has, whatever state that pull request is in.
- A failed removal counts as done, so an assignment may report success without a session
  (`sStayed`); a lost answer may cost a second session; a look begun before the assignment
  leaves "no" in the cycle's cache.

**Polling, board, launch**

- `/polling/stop` is undone by the watchdog within 30 s; a late `finally` of a cancelled
  loop clears `is_running` under its successor; the main loop and a scoped one may poll the
  same project.
- A board fetch under way when a card is moved stores the old board afterwards, for up to
  five minutes; coalesced fetches are awaited without a shield; a refresh after the board
  expired does not drop sub-issue caches, and one that joins a fetch under way shows what
  that brings: `MovedCardsShown` and the promise to a reader are about updates and readers that
  met no fetch. A refused request for sub-issues is cached as "none" for ten minutes
  (`issues.py:863-875`), and polling reads and fills the same cache (871), so a refresh
  shows what is true or nothing (`RefreshReloadsOrDrops`). The WebSocket subscription
  (`api/projects.py:621-637`) looks for a `data_hash` nobody sets, so it never says
  "refresh". `async_graphql` records no rate-limit headers, and a task's own figures win
  over newer ones of the instance.
- A launch overwrites the configuration object that another holds (`oMixed`); the poll may
  find an issue between its card and its state, or not see its sub-issues because the read
  failed or they are not attached (`issues.py:792-820`), and make second ones (`oBlind`); a
  late load puts an old configuration back in the cache.
- Mark, assignment and table of an agent are three awaits (`orchestrator.py:1809`, 1841,
  1898). A lost answer pops the mark (1952), a failure of the table is swallowed (195-267) and
  a restart falls between any two, so the poll assigns an agent that is at work once more
  (`oForgotten` counts what was lost sight of, `FirstAgentOnce` allows no other). A card that
  could not be made is not noticed, and the poll never sees the issue. A first parallel agent whose
  assignment fails is not retried though the message says so.

**Apps, chores, agents**

- A plan's cancellation is not honoured (docstring at `api/apps.py:682-686`); failing
  launches are swallowed, the waves that depend on them are launched and the status is still
  "active", so `WavesAreTriedInOrder` promises launches only while nothing failed; a restart leaves the row where
  it is; of two plans for one name a cancellation reaches the newer.
- An app's row is inserted after its effects on GitHub (`yOrphan`); a late parent issue is
  written into whatever row has the name; a deletion checks "stopped", awaits, and deletes
  even if the app was started meanwhile.
- A late `clear_current_issue` wipes a newer issue of a chore, which gets a second one; the
  loser's pipeline runs on; a restart or a failing close leaves an issue unrecorded.
- A list that is fifteen minutes old drops the row of a pending deletion while the file is
  there; `purge_pending` deletes imported and installed rows too; a rename leaves the old
  files; an INSERT refused after the pull request is open orphans it.
- In `#agent`, `available_projects` is never filled; an answer that comes during the creation
  makes it confirmable again (`vLate`); "start over" does nothing while executing.

**Chat**

- Two unedited confirmations create two issues, and an edited proposal whose creation
  failed can never be confirmed again; a confirmed status change creates an issue; a
  recommendation whose workflow fails after its issue stays pending (`rExcused`).
- An answer of the fallback carries no conversation; an answer to a conversation deleted
  meanwhile is refused by the foreign key.
- Plan runs and chat runs use different session keys, so the automatic delegation to plan
  mode (`chat_agent.py:391`) never happens; a failing chat run invalidates the plan session
  and leaves its own; two runs in one session share the action's slot.
- The "pre-save" hook of plans runs after the save; a save that read before an approval
  makes the plan a draft again, to be launched twice (`zAgain`); a restart during approval
  leaves it "approved"; concurrent edits of steps can close a circle (`dOverlap`).
  Deleting a step removes one mention of it from each list (`chat_store.py:1223`; docstring
  at 1186: "cascade removal"), so a list that names it twice keeps one, and additions
  and reorders are refused until that list is set anew (`dDangling`).

**Configurations, records, connection**

- A launch by a user who cannot see the assigned configuration clears the project's
  assignment, live as it is, taking the configuration for deleted (`config.py:484-500`).
  `UNIQUE(name, project_id)` of migration 023 remains although migration 039 (lines 4-6) says
  same-named configurations of several users are possible: the presets of a project's second
  user are skipped without a word. `ConfigsConsistent` promises neither: it says that a user
  has one copy of a preset, and that nobody clears what it may see.
- Another's rollback in the midst of a request discards its rows while the rest is committed:
  groups of a run are then incomplete, and a cancellation that was reported is gone
  (`iUndone`). A run itself cannot be halved so, because the foreign key refuses the stages of
  a run that is not there.
- Nothing moves a run from pending except a cancellation, so "recover" always refuses; lists
  read uncommitted rows.
- Another coroutine's commit commits half a transaction, its rollback discards others'
  writes (`cHit`); `BEGIN IMMEDIATE` is refused while an implicit transaction is open.

**Cleanup and Signal**

- The look of a cleanup reads branches, pull requests and board separately. An issue between
  its creation and its card is listed as an orphan (`cleanup_service.py:848`), and nothing
  is looked at again before it is deleted. A pull request listed as preserved is closed when
  its branch is deleted. A deletion whose answer is lost is reported as failed; after a
  restart the audit row stays `in_progress`.
- A message that finds the session expired puts its proposal back over a newer one
  (`signal_chat.py:325`; the comment at 36 has it the other way round). A confirmation that fails has lost its proposal, although the
  reply says "try again", also when the issue is made and only the message about it failed.
- A proposal is in the slot before it is shown (`signal_chat.py:713`): a "yes" to something
  else confirms it.
- A card that cannot be made is swallowed and its id is empty (`issues.py:335-343`,
  `github_projects/service.py:224-315`); a board move that fails answers False
  (`projects.py:647-664`). The conversation looks at neither (`signal_chat.py:367-425`,
  446-505, 517-553), stores CONFIRMED and reports "Issue created" or "Status Updated".
  `hSilent` has these proposals, and `ToldUnlessSilent` speaks of the others.
- Two overlapping restarts of the listener start two loops, one of them without a handle
  (`gOverlap`); inbound messages are then processed twice. An INSERT refused by the unique
  phone leaves the DELETE before it in the shared transaction. A delivered message whose row
  cannot be written is written down as failed; deliveries go on after a disconnection.
