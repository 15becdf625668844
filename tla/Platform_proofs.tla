--------------------------- MODULE Platform_proofs ---------------------------
(***************************************************************************)
(* Proofs about what surrounds the pipelines: the polling task, the cache  *)
(* of the board and the request quota; the launch of an issue beside the   *)
(* poll, the signals that an agent has finished, the review step, and the  *)
(* creation of a planned app.                                              *)
(***************************************************************************)
EXTENDS PollingLifecycle, BoardCache, PollPacing, WorkflowLaunch, CompletionSignals, CopilotReview, AppPlan,
        FiniteSetTheorems, TLAPS

---------------------------------------------------------------------------
(* The polling tasks.  Whatever task delays, scans or loops is the one that*)
(* _polling_task names: a stop cancels that one before forgetting it, and  *)
(* nothing is started while it is not done.  The flag is set by such a task*)
(* or for it.                                                              *)
AtWorkStages == {"delayed", "scanning", "looping"}
TaskStages == AtWorkStages \cup {"free", "unwinding"}
LoopInv ==
    /\ lStage \in [Slots -> TaskStages] /\ lTask \in Slots \cup {Nobody}
    /\ \A s \in Slots : lStage[s] \in AtWorkStages => s = lTask
    /\ FlagHasTask

LEMMA LoopStarts == LifecycleInit => LoopInv
BY LifecycleAssumption DEF LifecycleInit, LoopInv, AtWorkStages, TaskStages, FlagHasTask

LEMMA TaskCreated ==
  ASSUME LoopInv, NEW p, NEW later \in BOOLEAN, CreateTask(p, later)
  PROVE  LoopInv'
<1>1. CASE MayStart
  <2>1. PICK s \in Slots : /\ lStage' = [lStage EXCEPT ![s] = IF later THEN "delayed" ELSE "scanning"]
                           /\ lTask' = s /\ lRunning' = TRUE
    BY <1>1 DEF CreateTask
  <2>2. \A t \in Slots : lStage[t] \notin AtWorkStages
    BY <1>1, LifecycleAssumption DEF MayStart, Done, LoopInv, AtWorkStages
  <2>3. QED BY <2>1, <2>2 DEF LoopInv, AtWorkStages, TaskStages, FlagHasTask
<1>2. CASE ~MayStart
  BY <1>2 DEF CreateTask, lLoop, LoopInv, FlagHasTask
<1>3. QED BY <1>1, <1>2

LEMMA LoopKept == LoopInv /\ [LifecycleNext]_lVars => LoopInv'
<1> SUFFICES ASSUME LoopInv, [LifecycleNext]_lVars PROVE LoopInv'
  OBVIOUS
<1> USE LifecycleAssumption
<1>1. ASSUME UNCHANGED lLoop PROVE LoopInv'
  BY <1>1 DEF lLoop, LoopInv, FlagHasTask
<1>2. ASSUME stop_polling PROVE LoopInv'
  <2>1. lRunning' = FALSE /\ lTask' = Nobody
        /\ lStage' = IF Done(lTask) THEN lStage ELSE [lStage EXCEPT ![lTask] = Cancelled(@)]
    BY <1>2 DEF stop_polling, FlagAfterStop
  <2>2. \A s \in Slots : lStage'[s] \in TaskStages \ AtWorkStages
    BY <2>1 DEF LoopInv, Done, Cancelled, TaskStages, AtWorkStages
  <2>3. lStage' \in [Slots -> TaskStages]
    BY <2>1, <2>2 DEF LoopInv
  <2>4. QED BY <2>1, <2>2, <2>3 DEF LoopInv, FlagHasTask
<1>3. ASSUME NEW s \in Slots, DelayEnds(s) \/ _startup_resume_scan(s) PROVE LoopInv'
  <2>1. lStage[s] \in AtWorkStages /\ lTask' = lTask
        /\ (lStage' = [lStage EXCEPT ![s] = "scanning"] \/ lStage' = [lStage EXCEPT ![s] = "looping"])
    BY <1>3 DEF DelayEnds, _startup_resume_scan, AtWorkStages
  <2>2. QED BY <2>1 DEF LoopInv, AtWorkStages, TaskStages, FlagHasTask
<1>4. ASSUME NEW s \in Slots, LeaveLoop(s) PROVE LoopInv'
  <2>1. lRunning' = FALSE /\ lTask' = lTask /\ lStage' = [lStage EXCEPT ![s] = "free"]
    BY <1>4 DEF LeaveLoop
  <2>2. QED BY <2>1 DEF LoopInv, AtWorkStages, TaskStages, FlagHasTask
<1>5. ASSUME NEW p \in Projects, NEW later \in BOOLEAN, ensure_polling_started(p, later) PROVE LoopInv'
  BY <1>5, TaskCreated DEF ensure_polling_started
<1>6. ASSUME NEW p \in Projects, LaunchOn(p) PROVE LoopInv'
  BY <1>6, TaskCreated DEF LaunchOn
<1>7. ASSUME auto_start_copilot_polling PROVE LoopInv'
  <2>1. (UNCHANGED lLoop) \/ \E p : CreateTask(p, FALSE)
    BY <1>7 DEF auto_start_copilot_polling
  <2>2. QED BY <2>1, <1>1, TaskCreated
<1>8. ASSUME NEW p \in Projects,
             _transition_gap(p) \/ AssignNextStatus(p) \/ ensure_app_pipeline_polling(p)
             \/ poll_app_pipeline(p) \/ News(p)
      PROVE  LoopInv'
  BY <1>1, <1>8 DEF _transition_gap, AssignNextStatus, ensure_app_pipeline_polling, poll_app_pipeline, News
<1>9. ASSUME (\E s \in Slots : _poll_loop(s)) \/ (\E P \in SUBSET Projects : StartServer(P))
             \/ WatchdogSecondHalf \/ UNCHANGED lVars
      PROVE  LoopInv'
  BY <1>1, <1>9 DEF _poll_loop, StartServer, WatchdogSecondHalf, lVars, lLoop
<1>10. QED BY <1>2, <1>3, <1>4, <1>5, <1>6, <1>7, <1>8, <1>9 DEF LifecycleNext

(* However stops, starts, late finally clauses and the watchdog interleave,*)
(* there is one main loop at most, and the flag is never left set without  *)
(* a task behind it (copilot_polling/polling_loop.py, __init__.py).        *)
THEOREM OneLoopPolls == LifecycleSpec => []LoopIsSole
<1>1. LoopInv => OneMainLoop
  <2> SUFFICES ASSUME LoopInv PROVE OneMainLoop
    OBVIOUS
  <2>1. Loops \subseteq {lTask}
    BY DEF LoopInv, Loops, AtWorkStages
  <2>2. IsFiniteSet({lTask}) /\ Cardinality({lTask}) = 1
    BY FS_Singleton
  <2>3. Cardinality(Loops) <= 1
    BY <2>1, <2>2, FS_Subset
  <2>4. QED BY <2>3 DEF OneMainLoop
<1>2. LoopInv => FlagHasTask
  BY DEF LoopInv
<1>3. LoopInv => LoopIsSole
  BY <1>1, <1>2 DEF LoopIsSole
<1>4. QED BY <1>3, LoopStarts, LoopKept, PTL DEF LifecycleSpec

---------------------------------------------------------------------------
(* The board.  No entry and no answered fetch is older than the last status*)
(* update that met no fetch; who waits for a fetch gets what it was        *)
(* promised, and who has dropped the sub-issues finds them dropped, or     *)
(* fetched anew, until its board comes, and no older ones with polling.    *)
Board == [ver : Nat, sub : Nat, complete : BOOLEAN]
FetchEntry == [stage : {"none", "asked", "answered", "failing"}, board : Board]
Callers == Readers \cup Background
BoardTypes ==
    /\ bServer \in Nat /\ bWritten \in Nat /\ bWritten <= bServer /\ bSub \in Nat /\ bPoll \in Nat
    /\ bEntry \in Board /\ bFetch \in [Modes -> FetchEntry]
    /\ bJoined \in [Callers -> Modes \cup {"idle", "done", "starting"}]
    /\ bKind \in [Readers -> {"initial", "refresh"}]
    /\ bAnswer \in [Readers -> Board] /\ bPromised \in [Readers -> Nat]
NothingOld ==
    /\ bEntry # NoBoard => bEntry.ver >= bWritten
    /\ \A mode \in Modes : bFetch[mode].stage = "answered" => bFetch[mode].board.ver >= bWritten
WaitsFor(r, mode) == bJoined[r] = mode /\ bFetch[mode].stage = "answered"
Reloads(r) == bKind[r] = "refresh" /\ bPromised[r] > bWritten
ReaderServed(r) ==
    /\ bPromised[r] <= bServer
    /\ \A mode \in Modes : WaitsFor(r, mode) => bFetch[mode].board.ver >= bPromised[r]
    /\ Shown(r) => bAnswer[r].ver >= bPromised[r]
ReloadServed(r) ==
    Reloads(r) =>
       /\ bJoined[r] \in Modes => bJoined[r] = "full" /\ \A seen \in {bSub, bPoll} : seen = 0 \/ seen >= bPromised[r]
       /\ WaitsFor(r, "full") => bFetch["full"].board.sub >= bPromised[r] \/ bFetch["full"].board.sub = 0
       /\ Shown(r) => bAnswer[r].sub >= bPromised[r] \/ bAnswer[r].sub = 0
BoardInv == BoardTypes /\ NothingOld /\ \A r \in Readers : ReaderServed(r) /\ ReloadServed(r)

LEMMA NoBoardIsOne == NoBoard \in Board /\ OfflineBoard \in Board /\ NoFetch \in FetchEntry /\ NoFetch.stage = "none"
BY DEF NoBoard, OfflineBoard, Board, NoFetch, FetchEntry

LEMMA BoardStarts == BoardInit => BoardInv
<1> SUFFICES ASSUME BoardInit PROVE BoardInv
  OBVIOUS
<1>1. BoardTypes
  <2>1. bServer = 1 /\ bWritten = 0 /\ bSub = 0 /\ bPoll = 0
    BY DEF BoardInit
  <2>2. bEntry \in Board
    BY NoBoardIsOne DEF BoardInit
  <2>3. bFetch \in [Modes -> FetchEntry] /\ bAnswer \in [Readers -> Board] /\ bPromised \in [Readers -> Nat]
    BY NoBoardIsOne DEF BoardInit
  <2>4. bJoined \in [Callers -> Modes \cup {"idle", "done", "starting"}] /\ bKind \in [Readers -> {"initial", "refresh"}]
    BY DEF BoardInit, Callers
  <2>5. QED BY <2>1, <2>2, <2>3, <2>4 DEF BoardTypes
<1>2. NothingOld
  BY NoBoardIsOne DEF BoardInit, NothingOld
<1>3. ASSUME NEW r \in Readers PROVE ReaderServed(r) /\ ReloadServed(r)
  <2>1. bJoined[r] = "idle" /\ bPromised[r] = 0 /\ bServer = 1 /\ bKind[r] = "initial"
    BY DEF BoardInit
  <2>2. QED BY <2>1 DEF ReaderServed, ReloadServed, WaitsFor, Reloads, Shown, Modes
<1>4. QED BY <1>1, <1>2, <1>3 DEF BoardInv

(* A fetch that is joined or begun, and a completion that is scheduled,    *)
(* answer nobody.                                                          *)
LEMMA FetchJoined ==
  ASSUME NEW f \in [Modes -> FetchEntry], NEW mode \in Modes
  PROVE  /\ coalesced_fetch(f, mode) \in [Modes -> FetchEntry]
         /\ \A m \in Modes : coalesced_fetch(f, mode)[m].stage = "answered" => coalesced_fetch(f, mode)[m] = f[m]
         /\ f[mode].stage = "none" => coalesced_fetch(f, mode)[mode].stage = "asked"
BY NoBoardIsOne DEF coalesced_fetch, FetchEntry

LEMMA CompletionSet ==
  ASSUME NEW joined \in [Callers -> Modes \cup {"idle", "done", "starting"}], NEW board
  PROVE  /\ SetCompletion(joined, board) \in [Callers -> Modes \cup {"idle", "done", "starting"}]
         /\ \A r \in Readers : SetCompletion(joined, board)[r] = joined[r]
BY BoardAssumption DEF SetCompletion, Callers, Background

LEMMA AllWoken ==
  ASSUME BoardTypes, NEW mode \in Modes
  PROVE  /\ Woken(mode) \in [Callers -> Modes \cup {"idle", "done", "starting"}]
         /\ \A r \in Readers : Woken(mode)[r] = IF r \in Waiters(mode) THEN "done" ELSE bJoined[r]
         /\ \A r \in Readers : r \in Waiters(mode) <=> bJoined[r] = mode
BY DEF BoardTypes, Woken, Waiters, Callers

(* A reader that the step leaves alone is served as before.                *)
LEMMA ServedStays ==
  ASSUME BoardInv, NEW r \in Readers, BoardTypes',
         bServer' >= bServer, bWritten' \in {bWritten, bServer'},
         UNCHANGED <<bKind[r], bPromised[r], bJoined[r], bAnswer[r]>>,
         \A mode \in Modes : bFetch'[mode].stage = "answered" => bFetch'[mode] = bFetch[mode],
         bSub' \in {bSub, 0, bPoll}, bPoll' \in {bPoll, 0, bServer}
  PROVE  ReaderServed(r)' /\ ReloadServed(r)'
<1>1. ReaderServed(r) /\ ReloadServed(r) /\ BoardTypes /\ bPromised[r] \in Nat
  BY DEF BoardInv, BoardTypes
<1>2. ReaderServed(r)'
  BY <1>1 DEF ReaderServed, WaitsFor, Shown, BoardTypes
<1>3. Reloads(r)' => Reloads(r)
  BY <1>1 DEF Reloads, BoardTypes
<1>4. bJoined[r] \in Modes /\ Reloads(r) => \A seen \in {bSub', bPoll'} : seen = 0 \/ seen >= bPromised[r]
  BY <1>1 DEF ReloadServed, ReaderServed, BoardTypes
<1>5. ReloadServed(r)'
  BY <1>1, <1>3, <1>4 DEF ReloadServed, WaitsFor, Shown, BoardTypes, Modes
<1>6. QED BY <1>2, <1>5

LEMMA BoardReadKept ==
  ASSUME BoardInv, NEW r \in Readers, NEW kind \in {"initial", "refresh"}, get_board_data(r, kind)
  PROVE  BoardInv'
<1>1. BoardTypes /\ NothingOld
  BY DEF BoardInv
<1>2. /\ bServer' = bServer /\ bWritten' = bWritten /\ bOffline' = bOffline /\ bExpired' = FALSE
      /\ bKind' = [bKind EXCEPT ![r] = kind]
      /\ bPromised' = [bPromised EXCEPT ![r] = IF Reloaded(kind) THEN bServer ELSE bWritten]
      /\ bEntry' = (IF bExpired THEN NoBoard ELSE bEntry) /\ bSub' = SubAfter(kind) /\ bSub' \in {bSub, 0} /\ bPoll' = bPoll
  BY DEF get_board_data, SubAfter
<1>3. r \in Callers /\ ModeOf(kind) \in Modes
  BY DEF Callers, ModeOf, Modes
<1>4. bPromised'[r] = IF Reloaded(kind) THEN bServer ELSE bWritten
  BY <1>1, <1>2 DEF BoardTypes
<1>5. bPromised' \in [Readers -> Nat] /\ bKind' \in [Readers -> {"initial", "refresh"}] /\ bKind'[r] = kind
  BY <1>1, <1>2 DEF BoardTypes
<1>6. CASE FromCache(kind)
  <2>1. /\ bAnswer' = [bAnswer EXCEPT ![r] = bEntry] /\ bFetch' = bFetch
        /\ bJoined' = SetCompletion([bJoined EXCEPT ![r] = "done"], bEntry)
    BY <1>6 DEF get_board_data
  <2>2. [bJoined EXCEPT ![r] = "done"] \in [Callers -> Modes \cup {"idle", "done", "starting"}]
    BY <1>1, <1>3 DEF BoardTypes
  <2>3. /\ bJoined' \in [Callers -> Modes \cup {"idle", "done", "starting"}]
        /\ \A k \in Readers : bJoined'[k] = IF k = r THEN "done" ELSE bJoined[k]
    BY <2>1, <2>2, <1>1, CompletionSet DEF BoardTypes, Callers
  <2>4. bEntry # NoBoard /\ kind = "initial" /\ bPromised'[r] = bWritten
    BY <1>6, <1>4 DEF FromCache, IsFresh, SubDropped, Reloaded
  <2>5. BoardTypes'
    <3>1. bEntry' \in Board /\ bAnswer' \in [Readers -> Board]
      BY <1>1, <1>2, <2>1, NoBoardIsOne DEF BoardTypes
    <3>2. bSub' \in Nat
      BY <1>1, <1>2 DEF BoardTypes
    <3>3. QED BY <1>1, <1>2, <1>5, <2>1, <2>3, <3>1, <3>2 DEF BoardTypes
  <2>6. NothingOld'
    BY <1>1, <1>2, <2>1 DEF NothingOld
  <2>7. ReaderServed(r)' /\ ReloadServed(r)'
    <3>1. bAnswer'[r] = bEntry /\ bJoined'[r] = "done" /\ bAnswer'[r].ver >= bPromised'[r] /\ bPromised'[r] <= bServer'
      BY <2>1, <2>3, <2>4, <1>1, <1>2 DEF NothingOld, BoardTypes
    <3>2. QED BY <3>1, <2>4, <1>5 DEF ReaderServed, ReloadServed, WaitsFor, Reloads, Modes
  <2>8. ASSUME NEW k \in Readers, k # r PROVE ReaderServed(k)' /\ ReloadServed(k)'
    <3>1. UNCHANGED <<bKind[k], bPromised[k], bJoined[k], bAnswer[k]>>
      BY <2>1, <2>3, <2>8, <1>1, <1>2 DEF BoardTypes
    <3>2. bServer' >= bServer
      BY <1>1, <1>2 DEF BoardTypes
    <3>3. QED BY <3>1, <3>2, <1>2, <2>1, <2>5, ServedStays
  <2>9. QED BY <2>5, <2>6, <2>7, <2>8 DEF BoardInv
<1>7. CASE ~FromCache(kind)
  <2>1. /\ bAnswer' = bAnswer /\ bFetch' = coalesced_fetch(bFetch, ModeOf(kind))
        /\ bJoined' = [bJoined EXCEPT ![r] = ModeOf(kind)]
    BY <1>7 DEF get_board_data
  <2>2. /\ bFetch' \in [Modes -> FetchEntry]
        /\ \A m \in Modes : bFetch'[m].stage = "answered" => bFetch'[m] = bFetch[m]
        /\ bFetch[ModeOf(kind)].stage = "none" => bFetch'[ModeOf(kind)].stage = "asked"
    BY <2>1, <1>1, <1>3, FetchJoined DEF BoardTypes
  <2>3. BoardTypes'
    BY <1>1, <1>2, <1>3, <1>5, <2>1, <2>2, NoBoardIsOne DEF BoardTypes
  <2>4. NothingOld'
    BY <1>1, <1>2, <2>2 DEF NothingOld
  <2>5. bJoined'[r] = ModeOf(kind)
    BY <2>1, <1>1, <1>3 DEF BoardTypes
  <2>6. ASSUME Reloaded(kind) PROVE ReaderServed(r)' /\ ReloadServed(r)'
    <3>1. kind = "refresh" /\ ModeOf(kind) = "full" /\ bSub' = 0 /\ bPoll' = 0 /\ bPromised'[r] = bServer
      BY <2>6, <1>2, <1>4 DEF Reloaded, SubDropped, SubAfter, ModeOf
    <3>2. bFetch["full"].stage = "none"
      BY <2>6 DEF Reloaded, InFlight, Modes
    <3>3. bFetch'["full"].stage = "asked" /\ bJoined'[r] = "full"
      BY <2>2, <2>5, <3>1, <3>2
    <3>4. bPromised'[r] <= bServer' /\ \A m \in Modes : ~(bJoined'[r] = m /\ bFetch'[m].stage = "answered")
      BY <1>1, <1>2, <3>1, <3>3 DEF Modes, BoardTypes
    <3>5. ReaderServed(r)'
      BY <3>3, <3>4 DEF ReaderServed, WaitsFor, Shown
    <3>6. ReloadServed(r)'
      BY <3>1, <3>3 DEF ReloadServed, WaitsFor, Shown, Modes
    <3>7. QED BY <3>5, <3>6
  <2>7. ASSUME ~Reloaded(kind) PROVE ReaderServed(r)' /\ ReloadServed(r)'
    <3>1. bPromised'[r] = bWritten /\ ~Reloads(r)'
      BY <2>7, <1>1, <1>2, <1>4 DEF Reloads, BoardTypes
    <3>2. bJoined'[r] # "done"
      BY <2>5, <1>3 DEF Modes
    <3>3. \A m \in Modes : bFetch'[m].stage = "answered" => bFetch'[m].board.ver >= bPromised'[r]
      BY <3>1, <2>2, <1>1 DEF NothingOld
    <3>4. bPromised'[r] <= bServer'
      BY <1>1, <1>2, <3>1 DEF BoardTypes
    <3>5. ReaderServed(r)'
      BY <3>2, <3>3, <3>4 DEF ReaderServed, WaitsFor, Shown
    <3>6. ReloadServed(r)'
      BY <3>1 DEF ReloadServed
    <3>7. QED BY <3>5, <3>6
  <2>8. ASSUME NEW k \in Readers, k # r PROVE ReaderServed(k)' /\ ReloadServed(k)'
    <3>1. UNCHANGED <<bKind[k], bPromised[k], bJoined[k], bAnswer[k]>>
      BY <2>1, <2>8, <1>1, <1>2 DEF BoardTypes, Callers
    <3>2. bServer' >= bServer
      BY <1>1, <1>2 DEF BoardTypes
    <3>3. QED BY <3>1, <3>2, <1>2, <2>2, <2>3, ServedStays
  <2>9. QED BY <2>3, <2>4, <2>6, <2>7, <2>8 DEF BoardInv
<1>8. QED BY <1>6, <1>7

(* The background task of a partial board, and a warm-up that begins.      *)
LEMMA BackgroundKept ==
  ASSUME BoardInv, _complete \/ _schedule_board_warmup PROVE BoardInv'
<1>1. BoardTypes /\ NothingOld
  BY DEF BoardInv
<1>2. UNCHANGED <<bServer, bSub, bPoll, bAnswer, bReading, bWritten>> /\ bEntry' \in {bEntry, NoBoard}
  BY DEF _complete, _schedule_board_warmup, bSubs
<1>3. bFetch' = bFetch \/ \E mode \in Modes : bFetch' = coalesced_fetch(bFetch, mode)
  BY DEF _complete, _schedule_board_warmup, Modes
<1>4. bFetch' \in [Modes -> FetchEntry] /\ \A m \in Modes : bFetch'[m].stage = "answered" => bFetch'[m] = bFetch[m]
  BY <1>1, <1>3, FetchJoined DEF BoardTypes
<1>5. \E c \in Background, to \in {"idle", "full", "initial"} : bJoined' = [bJoined EXCEPT ![c] = to]
  BY DEF _complete, _schedule_board_warmup, Background
<1>6. /\ bJoined' \in [Callers -> Modes \cup {"idle", "done", "starting"}]
      /\ \A r \in Readers : bJoined'[r] = bJoined[r]
  BY <1>1, <1>5, BoardAssumption DEF BoardTypes, Callers, Modes
<1>7. BoardTypes'
  <2>1. bEntry' \in Board
    BY <1>1, <1>2, NoBoardIsOne DEF BoardTypes
  <2>2. QED BY <1>1, <1>2, <1>4, <1>6, <2>1 DEF BoardTypes, bReading
<1>8. NothingOld'
  BY <1>1, <1>2, <1>4 DEF NothingOld
<1>9. ASSUME NEW r \in Readers PROVE ReaderServed(r)' /\ ReloadServed(r)'
  <2>1. UNCHANGED <<bKind[r], bPromised[r], bJoined[r], bAnswer[r]>>
    BY <1>2, <1>6 DEF bReading
  <2>2. bServer' >= bServer
    BY <1>1, <1>2 DEF BoardTypes
  <2>3. QED BY <2>1, <2>2, <1>2, <1>4, <1>7, ServedStays
<1>10. QED BY <1>7, <1>8, <1>9 DEF BoardInv

(* Versions move on, and entries, sub-issues and fetches fail or expire.   *)
LEMMA ChangesKept ==
  ASSUME BoardInv,
         \/ update_board_item_status \/ ChangeOnGitHub \/ BoardExpires \/ SubIssuesExpire
         \/ (\E mode \in Modes : GitHubFails(mode)) \/ UNCHANGED bVars
         \/ PollAsks \/ (\E outcome \in Outcomes : PollStores(outcome))
  PROVE  BoardInv'
<1>1. BoardTypes /\ NothingOld
  BY DEF BoardInv
<1>2. /\ UNCHANGED <<bJoined, bAnswer, bReading>> /\ bServer' \in {bServer, bServer + 1} /\ bSub' \in {bSub, 0, bPoll} /\ bPoll' \in {bPoll, 0, bServer}
      /\ bEntry' \in {bEntry, NoBoard}
      /\ bWritten' = bWritten \/ (bWritten' = bServer' /\ InFlight = {} /\ bEntry' = NoBoard /\ bFetch' = bFetch)
  <2>1. CASE update_board_item_status
    BY <2>1 DEF update_board_item_status, Forgotten, bSubs
  <2>2. CASE ChangeOnGitHub
    BY <2>2 DEF ChangeOnGitHub, bSubs
  <2>3. CASE BoardExpires \/ SubIssuesExpire \/ (\E mode \in Modes : GitHubFails(mode)) \/ UNCHANGED bVars
    BY <2>3 DEF BoardExpires, SubIssuesExpire, GitHubFails, bVars, bReading, bSubs
  <2>4. CASE PollAsks \/ (\E outcome \in Outcomes : PollStores(outcome))
    BY <2>4 DEF PollAsks, PollStores, Outcomes, bReading
  <2>5. QED BY <2>1, <2>2, <2>3, <2>4
<1>3. bFetch' = bFetch \/ \E mode \in Modes : bFetch' = [bFetch EXCEPT ![mode].stage = "failing"]
  BY DEF update_board_item_status, ChangeOnGitHub, BoardExpires, SubIssuesExpire, GitHubFails, PollAsks, PollStores, bVars
<1>4. bFetch' \in [Modes -> FetchEntry] /\ \A m \in Modes : bFetch'[m].stage = "answered" => bFetch'[m] = bFetch[m]
  <2>1. ASSUME NEW mode \in Modes, bFetch' = [bFetch EXCEPT ![mode].stage = "failing"]
        PROVE  bFetch' \in [Modes -> FetchEntry] /\ \A m \in Modes : bFetch'[m].stage = "answered" => bFetch'[m] = bFetch[m]
    BY <2>1, <1>1 DEF BoardTypes, FetchEntry
  <2>2. QED BY <1>1, <1>3, <2>1 DEF BoardTypes
<1>5. BoardTypes' /\ bServer' >= bServer
  <2>1. bEntry' \in Board
    BY <1>1, <1>2, NoBoardIsOne DEF BoardTypes
  <2>2. bSub' \in Nat /\ bPoll' \in Nat /\ bServer' \in Nat /\ bWritten' \in Nat /\ bWritten' <= bServer' /\ bServer' >= bServer
    BY <1>1, <1>2 DEF BoardTypes
  <2>3. QED BY <1>1, <1>2, <1>4, <2>1, <2>2 DEF BoardTypes, bReading
<1>6. NothingOld'
  <2>1. CASE bWritten' = bWritten
    BY <2>1, <1>1, <1>2, <1>4 DEF NothingOld
  <2>2. CASE InFlight = {} /\ bEntry' = NoBoard /\ bFetch' = bFetch
    BY <2>2 DEF NothingOld, InFlight
  <2>3. QED BY <2>1, <2>2, <1>2
<1>7. ASSUME NEW r \in Readers PROVE ReaderServed(r)' /\ ReloadServed(r)'
  <2>1. UNCHANGED <<bKind[r], bPromised[r], bJoined[r], bAnswer[r]>> /\ bWritten' \in {bWritten, bServer'}
    BY <1>2 DEF bReading
  <2>2. QED BY <2>1, <1>2, <1>4, <1>5, ServedStays
<1>8. QED BY <1>5, <1>6, <1>7 DEF BoardInv

(* GitHub's answer is as new as the moment, its sub-issues as new as their *)
(* cache, or none.                                                         *)
LEMMA AnswerKept ==
  ASSUME BoardInv, NEW mode \in Modes, NEW outcome \in Outcomes, GitHubAnswers(mode, outcome) PROVE BoardInv'
<1> DEFINE sub == SubGot(outcome)
           board == [ver |-> bServer, sub |-> sub, complete |-> mode = "full"]
<1>1. BoardTypes /\ NothingOld
  BY DEF BoardInv
<1>2. /\ bFetch[mode].stage = "asked" /\ bSub' = sub
      /\ bFetch' = [bFetch EXCEPT ![mode] = [stage |-> "answered", board |-> board]]
      /\ UNCHANGED <<bServer, bPoll, bEntry, bJoined, bAnswer, bReading, bWritten>>
  BY DEF GitHubAnswers
<1>3. sub \in {bSub, bServer, 0} /\ sub \in Nat /\ board \in Board
  BY <1>1 DEF BoardTypes, Board, SubGot
<1> HIDE DEF sub
<1>4. /\ bFetch'[mode] = [stage |-> "answered", board |-> board]
      /\ \A m \in Modes \ {mode} : bFetch'[m] = bFetch[m]
      /\ bFetch' \in [Modes -> FetchEntry]
  BY <1>1, <1>2, <1>3 DEF BoardTypes, FetchEntry
<1>5. BoardTypes'
  BY <1>1, <1>2, <1>3, <1>4 DEF BoardTypes, bReading
<1>6. NothingOld'
  BY <1>1, <1>2, <1>4 DEF NothingOld, BoardTypes
<1>7. ASSUME NEW r \in Readers PROVE ReaderServed(r)' /\ ReloadServed(r)'
  <2>1. ReaderServed(r) /\ ReloadServed(r) /\ bPromised[r] \in Nat
    BY <1>1 DEF BoardInv, BoardTypes
  <2>2. bPromised' = bPromised /\ bKind' = bKind
    BY <1>2 DEF bReading
  <2>3. ReaderServed(r)'
    BY <2>1, <2>2, <1>2, <1>4 DEF ReaderServed, WaitsFor, Shown
  <2>4. ReloadServed(r)'
    <3>1. SUFFICES ASSUME Reloads(r) PROVE ReloadServed(r)'
      BY <2>2, <1>2 DEF ReloadServed, Reloads
    <3>2. bPromised[r] > 0 /\ bPromised[r] <= bServer
      BY <2>1, <3>1, <1>1 DEF ReaderServed, Reloads, BoardTypes
    <3>3. bJoined[r] \in Modes => bJoined[r] = "full" /\ \A seen \in {sub, bPoll'} : seen = 0 \/ seen >= bPromised[r]
      BY <2>1, <3>1, <3>2, <1>1, <1>2, <1>3 DEF ReloadServed, BoardTypes
    <3>4. WaitsFor(r, "full")' => bFetch'["full"].board.sub >= bPromised[r] \/ bFetch'["full"].board.sub = 0
      BY <2>1, <3>1, <3>3, <1>2, <1>4 DEF ReloadServed, WaitsFor, Modes
    <3>5. Shown(r)' => bAnswer'[r].sub >= bPromised[r] \/ bAnswer'[r].sub = 0
      BY <2>1, <3>1, <1>2 DEF ReloadServed, Shown
    <3>6. QED BY <3>3, <3>4, <3>5, <2>2, <1>2 DEF ReloadServed, Modes
  <2>5. QED BY <2>3, <2>4
<1>8. QED BY <1>5, <1>6, <1>7 DEF BoardInv

(* A fetch ends: its callers go on with one board, which is what they were *)
(* promised, or none, or the offline one with the promise withdrawn.       *)
LEMMA FetchEnds ==
  ASSUME BoardInv, NEW mode \in Modes, NEW board \in Board, BoardTypes', NothingOld',
         UNCHANGED <<bServer, bWritten, bSub, bPoll, bKind>>,
         \A r \in Readers : bPromised'[r] = bPromised[r] \/ (bJoined[r] = mode /\ bPromised'[r] = 0),
         bAnswer' = [r \in Readers |-> IF r \in Waiters(mode) THEN board ELSE bAnswer[r]],
         \A r \in Readers : bJoined'[r] = IF r \in Waiters(mode) THEN "done" ELSE bJoined[r],
         bFetch' = [bFetch EXCEPT ![mode] = NoFetch],
         \/ board = NoBoard
         \/ \A r \in Waiters(mode) \cap Readers : bPromised'[r] = 0
         \/ bFetch[mode].stage = "answered" /\ board = bFetch[mode].board /\ bPromised' = bPromised
  PROVE  BoardInv'
<1>1. BoardTypes /\ NothingOld
  BY DEF BoardInv
<1>2. \A r \in Readers : r \in Waiters(mode) <=> bJoined[r] = mode
  BY <1>1, AllWoken
<1>3. \A m \in Modes : bFetch'[m].stage = "answered" => bFetch'[m] = bFetch[m] /\ m # mode
  BY <1>1, NoBoardIsOne DEF BoardTypes
<1>4. ASSUME NEW r \in Readers, bJoined[r] # mode PROVE ReaderServed(r)' /\ ReloadServed(r)'
  <2>1. UNCHANGED <<bKind[r], bPromised[r], bJoined[r], bAnswer[r]>>
    BY <1>2, <1>4
  <2>2. bServer' >= bServer
    BY <1>1 DEF BoardTypes
  <2>3. QED BY <2>1, <2>2, <1>3, ServedStays
<1>5. ASSUME NEW r \in Readers, bJoined[r] = mode PROVE ReaderServed(r)' /\ ReloadServed(r)'
  <2>1. bAnswer'[r] = board /\ bJoined'[r] = "done" /\ bPromised'[r] \in Nat /\ bPromised'[r] <= bServer' /\ bPromised[r] \in Nat
    <3>1. ReaderServed(r)
      BY DEF BoardInv
    <3>2. QED BY <3>1, <1>1, <1>2, <1>5 DEF BoardTypes, ReaderServed
  <2>2. ReaderServed(r) /\ ReloadServed(r)
    BY DEF BoardInv
  <2>3. CASE board = NoBoard
    BY <2>1, <2>3 DEF ReaderServed, ReloadServed, WaitsFor, Shown, Modes
  <2>4. CASE bPromised'[r] = 0
    <3>1. board.ver >= 0 /\ ~(bPromised'[r] > bWritten')
      BY <2>1, <2>4, <1>1 DEF BoardTypes, Board
    <3>2. QED BY <2>1, <2>4, <3>1 DEF ReaderServed, ReloadServed, WaitsFor, Shown, Modes, Reloads
  <2>5. CASE bFetch[mode].stage = "answered" /\ board = bFetch[mode].board /\ bPromised' = bPromised
    <3>1. WaitsFor(r, mode) /\ board.ver >= bPromised[r]
      BY <2>2, <2>5, <1>5 DEF WaitsFor, ReaderServed
    <3>2. Reloads(r) => board.sub >= bPromised[r] \/ board.sub = 0
      BY <2>2, <2>5, <1>5, <3>1 DEF WaitsFor, ReloadServed
    <3>3. QED BY <2>1, <2>5, <3>1, <3>2 DEF ReaderServed, ReloadServed, WaitsFor, Shown, Modes, Reloads
  <2>6. QED BY <2>3, <2>4, <2>5, <1>2, <1>5
<1>6. QED BY <1>4, <1>5 DEF BoardInv

LEMMA FetchEndsKept ==
  ASSUME BoardInv, NEW mode \in Modes,
         \/ CancelWarmup /\ mode = "initial"
         \/ _fetch_and_cache_board_data(mode)
         \/ \E auth \in BOOLEAN : _build_done_fallback_board(mode, auth)
  PROVE  BoardInv'
<1>1. BoardTypes /\ NothingOld
  BY DEF BoardInv
<1>2. /\ Woken(mode) \in [Callers -> Modes \cup {"idle", "done", "starting"}]
      /\ \A r \in Readers : Woken(mode)[r] = IF r \in Waiters(mode) THEN "done" ELSE bJoined[r]
      /\ \A r \in Readers : r \in Waiters(mode) <=> bJoined[r] = mode
  BY <1>1, AllWoken
<1>3. ASSUME bFetch' = [bFetch EXCEPT ![mode] = NoFetch]
      PROVE  bFetch' \in [Modes -> FetchEntry] /\ \A m \in Modes : bFetch'[m].stage = "answered" => bFetch'[m] = bFetch[m]
  BY <1>1, <1>3, NoBoardIsOne DEF BoardTypes
<1>4. ASSUME NEW board \in Board
      PROVE  [r \in Readers |-> IF r \in Waiters(mode) THEN board ELSE bAnswer[r]] \in [Readers -> Board]
  BY <1>1 DEF BoardTypes
<1>5. CASE CancelWarmup /\ mode = "initial"
  <2>1. /\ UNCHANGED <<bServer, bWritten, bSub, bPoll, bKind, bPromised, bEntry>>
        /\ bAnswer' = [r \in Readers |-> IF r \in Waiters(mode) THEN NoBoard ELSE bAnswer[r]]
        /\ bJoined' = Woken(mode) /\ bFetch' = [bFetch EXCEPT ![mode] = NoFetch]
    BY <1>5 DEF CancelWarmup, bReading, bSubs
  <2>2. NothingOld'
    BY <2>1, <1>1, <1>3 DEF NothingOld
  <2>3. BoardTypes'
    BY <2>1, <1>1, <1>2, <1>3, <1>4, NoBoardIsOne DEF BoardTypes
  <2>4. QED BY <2>1, <2>2, <2>3, <1>2, NoBoardIsOne, FetchEnds
<1>6. ASSUME NEW auth \in BOOLEAN, _build_done_fallback_board(mode, auth) PROVE BoardInv'
  <2> DEFINE offline == IF auth \/ ~bOffline THEN NoBoard ELSE OfflineBoard
  <2>1. /\ UNCHANGED <<bServer, bWritten, bSub, bPoll, bKind, bEntry>>
        /\ bAnswer' = [r \in Readers |-> IF r \in Waiters(mode) THEN offline ELSE bAnswer[r]]
        /\ bPromised' = [r \in Readers |-> IF r \in Waiters(mode) THEN 0 ELSE bPromised[r]]
        /\ bJoined' = Woken(mode) /\ bFetch' = [bFetch EXCEPT ![mode] = NoFetch]
    BY <1>6 DEF _build_done_fallback_board, bSubs
  <2>2. NothingOld'
    BY <2>1, <1>1, <1>3 DEF NothingOld
  <2>3. offline \in Board
    BY NoBoardIsOne
  <2>4. BoardTypes'
    <3>1. bPromised' \in [Readers -> Nat]
      BY <2>1, <1>1 DEF BoardTypes
    <3> HIDE DEF offline
    <3>2. QED BY <2>1, <2>3, <3>1, <1>1, <1>2, <1>3, <1>4 DEF BoardTypes
  <2>5. \A r \in Waiters(mode) \cap Readers : bPromised'[r] = 0
    BY <2>1
  <2>6. \A r \in Readers : bPromised'[r] = bPromised[r] \/ (bJoined[r] = mode /\ bPromised'[r] = 0)
    BY <2>1, <1>2
  <2> HIDE DEF offline
  <2>7. QED BY <2>1, <2>2, <2>3, <2>4, <2>5, <2>6, <1>2, FetchEnds
<1>7. CASE _fetch_and_cache_board_data(mode)
  <2> DEFINE board == bFetch[mode].board
  <2>1. /\ UNCHANGED <<bServer, bWritten, bSub, bPoll, bKind, bPromised>> /\ bFetch[mode].stage = "answered" /\ bEntry' = board
        /\ bAnswer' = [r \in Readers |-> IF r \in Waiters(mode) THEN board ELSE bAnswer[r]]
        /\ bJoined' \in {SetCompletion(Woken(mode), board), Woken(mode)}
        /\ bFetch' = [bFetch EXCEPT ![mode] = NoFetch]
    BY <1>7 DEF _fetch_and_cache_board_data, bReading, bSubs
  <2>2. board \in Board /\ board.ver >= bWritten
    BY <2>1, <1>1 DEF BoardTypes, FetchEntry, NothingOld
  <2>3. /\ bJoined' \in [Callers -> Modes \cup {"idle", "done", "starting"}]
        /\ \A r \in Readers : bJoined'[r] = IF r \in Waiters(mode) THEN "done" ELSE bJoined[r]
    BY <2>1, <1>2, CompletionSet
  <2>4. NothingOld'
    BY <2>1, <2>2, <1>1, <1>3 DEF NothingOld
  <2>5. BoardTypes'
    BY <2>1, <2>2, <2>3, <1>1, <1>3, <1>4 DEF BoardTypes
  <2>6. QED BY <2>1, <2>2, <2>3, <2>4, <2>5, FetchEnds
<1>8. QED BY <1>5, <1>6, <1>7

LEMMA BoardKept == BoardInv /\ [BoardNext]_bVars => BoardInv'
BY BoardReadKept, BackgroundKept, ChangesKept, AnswerKept, FetchEndsKept DEF BoardNext, Modes

(* A board read after a status update shows the moved card unless a fetch  *)
(* was under way, and a refresh with nobody reading shows sub-issues as    *)
(* they were when it was asked for, or none, however fetches are shared,   *)
(* fail, are cancelled or expire and polling fills the same cache, for any *)
(* number of requests (api/board.py, services/cache.py, issues.py).        *)
THEOREM BoardIsTrue == BoardSpec => []BoardShowsNews
<1>1. BoardInv => MovedCardsShown
  BY DEF BoardInv, ReaderServed, MovedCardsShown
<1>2. BoardInv => RefreshReloadsOrDrops
  BY DEF BoardInv, ReloadServed, Reloads, RefreshReloadsOrDrops
<1>3. BoardInv => BoardShowsNews
  BY <1>1, <1>2 DEF BoardShowsNews
<1>4. QED BY <1>3, BoardStarts, BoardKept, PTL DEF BoardSpec

---------------------------------------------------------------------------
(* Pacing.  In this window others have spent pTheirs and the polling the   *)
(* rest, so pLeft + pTheirs is what polling has left of the window.  The   *)
(* task's own figures are from its last request: they are never above that *)
(* unless they are of an earlier window, and then it has spent nothing yet.*)
Info == [left : 0..(Quota + 1), old : BOOLEAN]
PacingTypes ==
    /\ pLeft \in Nat /\ pTheirs \in Nat /\ pLeft + pTheirs <= Quota
    /\ pMine \in Info /\ pLast \in Info /\ pStep \in Nat /\ pSkip \in BOOLEAN
FiguresAreHonest ==
    IF pMine = NoInfo \/ pMine.old THEN pLeft + pTheirs = Quota ELSE pMine.left <= pLeft + pTheirs
PausedInTime == pAt = "polling" => pLeft + pTheirs > PauseThreshold
PacingInv == PacingTypes /\ FiguresAreHonest /\ PausedInTime /\ PollingLeavesReserve

LEMMA PacingStarts == PacingInit => PacingInv
<1> USE PacingAssumption
<1> SUFFICES ASSUME PacingInit PROVE PacingInv
  OBVIOUS
<1>1. PacingTypes /\ FiguresAreHonest
  <2>1. NoInfo \in Info
    BY DEF Info, NoInfo
  <2>2. PacingTypes
    <3>1. pLeft = Quota /\ pTheirs = 0 /\ pStep = 1 /\ pMine \in Info /\ pLast \in Info
      BY <2>1 DEF PacingInit
    <3>2. pSkip \in BOOLEAN
      BY DEF PacingInit
    <3>3. QED BY <3>1, <3>2 DEF PacingTypes
  <2>3. pMine = NoInfo /\ pLeft + pTheirs = Quota
    BY DEF PacingInit
  <2>4. QED BY <2>2, <2>3 DEF FiguresAreHonest
<1>2. PausedInTime /\ PollingLeavesReserve
  BY DEF PacingInit, PausedInTime, PollingLeavesReserve, PauseThreshold
<1>3. QED BY <1>1, <1>2 DEF PacingInv

(* Looking at figures that hold, the loop goes on only with a reserve left:*)
(* it pauses for low ones, and forgets old ones.                           *)
LEMMA PauseKept ==
  ASSUME NEW mine \in Info, NEW last \in Info, NEW next, NEW left \in Nat,
         IF mine = NoInfo \/ mine.old THEN left = Quota ELSE mine.left <= left,
         _pause_if_rate_limited(get_last_rate_limit(mine, last), mine, last, next)
  PROVE  /\ pMine' \in Info /\ pLast' \in Info
         /\ IF pMine' = NoInfo \/ pMine'.old THEN left = Quota ELSE pMine'.left <= left
         /\ pAt' \in {"paused", next}
         /\ pAt' = next /\ next # "paused" => left > PauseThreshold
<1> DEFINE info == get_last_rate_limit(mine, last)
<1>1. info \in Info /\ NoInfo \in Info /\ NoInfo.left = Quota + 1
  BY PacingAssumption DEF get_last_rate_limit, Info, NoInfo
<1>2. CASE StaleCleared(info)
  <2>1. pMine' = NoInfo /\ pLast' = NoInfo /\ pAt' = next
    BY <1>2 DEF _pause_if_rate_limited, MustPause, clear_last_rate_limit
  <2>2. left = Quota
    BY <1>2 DEF StaleCleared, get_last_rate_limit
  <2>3. QED BY <2>1, <2>2, <1>1, PacingAssumption
<1>3. CASE ~StaleCleared(info)
  <2>1. pMine' = mine /\ pLast' = last /\ pAt' = IF Low(info) THEN "paused" ELSE next
    BY <1>3 DEF _pause_if_rate_limited, MustPause
  <2>2. ~Low(info) => left > PauseThreshold
    BY <1>1, PacingAssumption DEF Low, get_last_rate_limit, Info, PauseThreshold
  <2>3. QED BY <2>1, <2>2
<1>4. QED BY <1>2, <1>3

LEMMA PacingKept == PacingInv /\ [PacingNext]_pVars => PacingInv'
<1> SUFFICES ASSUME PacingInv, [PacingNext]_pVars PROVE PacingInv'
  OBVIOUS
<1> USE PacingAssumption
<1>1. PacingTypes /\ FiguresAreHonest /\ PausedInTime /\ PollingLeavesReserve
  BY DEF PacingInv
<1>2. ASSUME poll_for_copilot_completion \/ PostError \/ Tail \/ SleepEnds \/ SkipStep \/ UNCHANGED pVars PROVE PacingInv'
  <2>1. UNCHANGED <<pLeft, pTheirs>> /\ (pAt' = "polling" => pAt = "polling")
    BY <1>2 DEF poll_for_copilot_completion, PostError, Tail, SleepEnds, SkipStep, NextStep, pVars
  <2>2. pStep' \in Nat /\ pSkip' \in BOOLEAN
    <3>1. pStep' \in {pStep, pStep + 1} /\ pSkip' = pSkip
      BY <1>2 DEF poll_for_copilot_completion, PostError, Tail, SleepEnds, SkipStep, pVars
    <3>2. QED BY <3>1, <1>1 DEF PacingTypes
  <2>3. (UNCHANGED <<pMine, pLast>>) \/ (clear_last_rate_limit /\ StaleCleared(KnownBudget))
    BY <1>2 DEF poll_for_copilot_completion, PostError, Tail, SleepEnds, SkipStep, pVars
  <2>4. pMine' \in Info /\ pLast' \in Info /\ FiguresAreHonest'
    <3>1. CASE UNCHANGED <<pMine, pLast>>
      BY <3>1, <2>1, <1>1 DEF PacingTypes, FiguresAreHonest
    <3>2. CASE clear_last_rate_limit /\ StaleCleared(KnownBudget)
      BY <3>2, <2>1, <1>1 DEF PacingTypes, FiguresAreHonest, clear_last_rate_limit, StaleCleared, KnownBudget, get_last_rate_limit, Info, NoInfo
    <3>3. QED BY <3>1, <3>2, <2>3
  <2>5. QED BY <2>1, <2>2, <2>4, <1>1 DEF PacingInv, PacingTypes, PausedInTime, PollingLeavesReserve
<1>3. ASSUME PreCycle PROVE PacingInv'
  <2>1. UNCHANGED <<pLeft, pTheirs>> /\ pStep' = 1 /\ pSkip' \in BOOLEAN
    BY <1>3 DEF PreCycle
  <2>2. /\ pMine' \in Info /\ pLast' \in Info
        /\ IF pMine' = NoInfo \/ pMine'.old THEN pLeft + pTheirs = Quota ELSE pMine'.left <= pLeft + pTheirs
        /\ pAt' \in {"paused", "polling"}
        /\ pAt' = "polling" => pLeft + pTheirs > PauseThreshold
    <3>1. pLeft + pTheirs \in Nat
      BY <1>1 DEF PacingTypes
    <3>2. QED BY <1>1, <1>3, <3>1, PauseKept DEF PreCycle, KnownBudget, PacingTypes, FiguresAreHonest
  <2>3. QED BY <2>1, <2>2, <1>1 DEF PacingInv, PacingTypes, FiguresAreHonest, PausedInTime, PollingLeavesReserve
<1>4. ASSUME NEW cost \in 0..StepCost, _poll_single_project(cost) PROVE PacingInv'
  <2> DEFINE seen == [left |-> pLeft', old |-> FALSE]
             mine == IF cost = 0 THEN pMine ELSE seen
             last == IF cost = 0 THEN pLast ELSE seen
             left == pLeft' + pTheirs'
  <2>1. /\ pLeft' = pLeft - cost /\ pLeft' \in Nat /\ pTheirs' = pTheirs /\ pLeft + pTheirs > PauseThreshold
        /\ pStep' = pStep + 1 /\ pSkip' = pSkip
    BY <1>1, <1>4 DEF _poll_single_project, PacingTypes, PausedInTime
  <2>2. seen \in Info /\ seen.left = pLeft' /\ ~seen.old /\ seen # NoInfo
    BY <2>1, <1>1 DEF Info, PacingTypes, NoInfo
  <2>3. left \in Nat /\ left <= Quota /\ left + StepCost > PauseThreshold
    BY <2>1, <1>1 DEF PacingTypes, PauseThreshold
  <2>4. mine \in Info /\ last \in Info /\ IF mine = NoInfo \/ mine.old THEN left = Quota ELSE mine.left <= left
    BY <2>1, <2>2, <1>1 DEF PacingTypes, FiguresAreHonest
  <2>5. _pause_if_rate_limited(get_last_rate_limit(mine, last), mine, last, NextStep(pStep))
    BY <1>4 DEF _poll_single_project, PauseAfter, AfterStep
  <2>6. /\ pMine' \in Info /\ pLast' \in Info
        /\ IF pMine' = NoInfo \/ pMine'.old THEN left = Quota ELSE pMine'.left <= left
        /\ pAt' \in {"paused", NextStep(pStep)}
        /\ pAt' = NextStep(pStep) /\ NextStep(pStep) # "paused" => left > PauseThreshold
    <3> HIDE DEF mine, last, left
    <3> QED BY <2>3, <2>4, <2>5, PauseKept
  <2>7. PausedInTime'
    BY <2>6 DEF PausedInTime
  <2>8. QED BY <2>1, <2>3, <2>6, <2>7, <1>1 DEF PacingInv, PacingTypes, FiguresAreHonest, PollingLeavesReserve
<1>5. ASSUME StepFails PROVE PacingInv'
  <2>1. /\ pLeft' = 0 /\ pMine' = [left |-> 0, old |-> FALSE] /\ pLast' = pMine' /\ pAt' = "failed"
        /\ UNCHANGED <<pStep, pSkip, pTheirs>> /\ pLeft < StepCost /\ pLeft + pTheirs > PauseThreshold
    BY <1>1, <1>5 DEF StepFails, PausedInTime
  <2>2. QED BY <2>1, <1>1 DEF PacingInv, PacingTypes, FiguresAreHonest, PausedInTime, PollingLeavesReserve, Info, NoInfo, PauseThreshold
<1>6. ASSUME WindowRolls PROVE PacingInv'
  <2>1. pLeft' = Quota /\ pTheirs' = 0 /\ pMine' = Aged(pMine) /\ pLast' = Aged(pLast) /\ UNCHANGED <<pStep, pSkip>>
    BY <1>6 DEF WindowRolls
  <2>2. pMine' \in Info /\ pLast' \in Info /\ (pMine' = NoInfo \/ pMine'.old)
    BY <2>1, <1>1 DEF PacingTypes, Aged, Info
  <2>3. QED BY <2>1, <2>2, <1>1 DEF PacingInv, PacingTypes, FiguresAreHonest, PausedInTime, PollingLeavesReserve, PauseThreshold
<1>7. ASSUME OthersSpend PROVE PacingInv'
  <2>1. /\ pTheirs' = pTheirs + 1 /\ pLeft' = pLeft - 1 /\ pLeft > 0 /\ pLast' = [left |-> pLeft', old |-> FALSE]
        /\ UNCHANGED <<pMine, pAt, pStep, pSkip>>
    BY <1>7 DEF OthersSpend
  <2>2. pLeft' + pTheirs' = pLeft + pTheirs /\ pLeft' \in Nat /\ pTheirs' \in Nat /\ pLast' \in Info
    BY <2>1, <1>1 DEF PacingTypes, Info
  <2>3. QED BY <2>1, <2>2, <1>1 DEF PacingInv, PacingTypes, FiguresAreHonest, PausedInTime, PollingLeavesReserve
<1>8. QED BY <1>2, <1>3, <1>4, <1>5, <1>6, <1>7 DEF PacingNext

(* Whatever quota others use, whatever figures the loop goes by and however*)
(* windows roll over, polling pauses with a reserve left, but for one step *)
(* (polling_loop.py, rate_limit.py).                                       *)
THEOREM ReserveIsLeft == PacingSpec => []PollingLeavesReserve
<1>1. PacingInv => PollingLeavesReserve
  BY DEF PacingInv
<1>2. QED BY <1>1, PacingStarts, PacingKept, PTL DEF PacingSpec

---------------------------------------------------------------------------
(* Launches and the configuration they share.  An object is made once, by  *)
(* the launch it is named after, before anybody can hold it; whoever is    *)
(* about to create an issue finds its choice in the object it holds, unless*)
(* another launch has written there.                                       *)
Chosable == Pipelines \cup {"none"}
LaunchStages == {"idle", "config", "issue", "board", "subs", "state", "assign", "trigger", "asking", "asked",
                 "done", "failed"}
ChoiceTypes ==
    /\ oAt \in [Launches -> LaunchStages] /\ oMine \in [Launches -> Launches]
    /\ oObject \in [Launches -> Chosable] /\ oChosen \in [Launches -> Chosable] /\ oTable \in [Launches -> Chosable]
    /\ oMixed \in [Launches -> BOOLEAN] /\ oCache \in Launches \cup {"none"} /\ oRow \in Chosable
    /\ oLoad \in [Launches -> Chosable \cup {"nothing"}] /\ oWrite \in [Launches -> Chosable]
MadeOnce ==
    /\ \A l \in Launches : oMine[l] # l => oAt[oMine[l]] # "idle"
    /\ oCache # "none" => oAt[oCache] # "idle"
ChoiceHeld(l) ==
    /\ oAt[l] \in {"idle", "config"} => oTable[l] = "none"
    /\ oAt[l] = "issue" /\ ~oMixed[l] => oObject[oMine[l]] = oChosen[l]
    /\ oTable[l] # "none" /\ ~oMixed[l] => oTable[l] = oChosen[l]
RowInStep ==
    /\ ConfigIsStored
    /\ oRaced \/ \A o \in Launches : oCache = "none" /\ oLoad[o] # "nothing" => oRow = oLoad[o]
ChoiceInv == ChoiceTypes /\ MadeOnce /\ RowInStep /\ \A l \in Launches : ChoiceHeld(l)

LEMMA ChoiceStarts == LaunchInit => ChoiceInv
<1> SUFFICES ASSUME LaunchInit PROVE ChoiceInv
  OBVIOUS
<1>1. ChoiceTypes
  BY DEF LaunchInit, ChoiceTypes, Each, Chosable, LaunchStages
<1>2. MadeOnce /\ RowInStep
  BY DEF LaunchInit, MadeOnce, RowInStep, ConfigIsStored
<1>3. \A l \in Launches : ChoiceHeld(l)
  BY DEF LaunchInit, ChoiceHeld, Each
<1>4. QED BY <1>1, <1>2, <1>3 DEF ChoiceInv

(* Steps that leave the configuration alone and move a launch on.          *)
LEMMA ChoiceCarried ==
  ASSUME ChoiceInv, UNCHANGED <<oConfig, oMine, oChosen, oMixed>>,
         oAt' \in [Launches -> LaunchStages], oTable' \in [Launches -> Chosable],
         \A l \in Launches : \/ oAt'[l] = oAt[l] /\ oTable'[l] = oTable[l]
                             \/ /\ oAt'[l] \notin {"idle", "config", "issue"}
                                /\ \/ oTable'[l] = oTable[l]
                                   \/ oAt[l] = "issue" /\ oTable'[l] = oObject[oMine[l]]
  PROVE  ChoiceInv'
<1>1. ChoiceTypes /\ MadeOnce /\ RowInStep /\ \A l \in Launches : ChoiceHeld(l)
  BY DEF ChoiceInv
<1>2. ChoiceTypes' /\ RowInStep'
  BY <1>1 DEF ChoiceTypes, RowInStep, ConfigIsStored, oConfig
<1>3. MadeOnce'
  BY <1>1 DEF ChoiceTypes, MadeOnce, oConfig
<1>4. ASSUME NEW l \in Launches PROVE ChoiceHeld(l)'
  BY <1>1 DEF ChoiceHeld, ChoiceTypes, oConfig
<1>5. QED BY <1>2, <1>3, <1>4 DEF ChoiceInv

(* An assignment touches nothing of the configuration, and its steps are   *)
(* those of one assigner.                                                  *)
AssignStages == {"trigger", "asking", "asked", "done"}
LEMMA AssignmentMoves ==
  ASSUME NEW l \in Launches, NEW by \in {"launch", "poll"}, _execute_copilot_assignment(l, by)
  PROVE  /\ UNCHANGED <<oConfig, oMine, oChosen, oMixed, oTable, oBoard>>
         /\ oAt' = oAt \/ \E to \in AssignStages : oAt' = [oAt EXCEPT ![l] = to]
<1>1. CASE \E outcome \in SubOutcomes : _resolve_sub_issue(l, by, outcome)
  BY <1>1 DEF _resolve_sub_issue, Launched, AssignerGoes, Goes, AssignStages
<1>2. CASE MarkPending(l, by) \/ assign_copilot_to_issue(l, by)
  BY <1>2 DEF MarkPending, assign_copilot_to_issue, Launched, AssignerGoes, Goes, AssignStages, Ended
<1>3. CASE \E ok \in BOOLEAN : AssignmentFails(l, by, ok) \/ _update_agent_tracking_state(l, by, ok)
  BY <1>3 DEF AssignmentFails, _update_agent_tracking_state, Launched, AssignerGoes, Goes, AssignStages, Ended
<1>4. QED BY <1>1, <1>2, <1>3 DEF _execute_copilot_assignment

LEMMA ChoiceKept == ChoiceInv /\ [LaunchNext]_oVars => ChoiceInv'
<1> SUFFICES ASSUME ChoiceInv, [LaunchNext]_oVars PROVE ChoiceInv'
  OBVIOUS
<1> USE LaunchAssumption
<1>1. ChoiceTypes /\ MadeOnce /\ RowInStep /\ \A l \in Launches : ChoiceHeld(l)
  BY DEF ChoiceInv
<1>2. ASSUME NEW l \in Launches, ReadRow(l) PROVE ChoiceInv'
  <2>1. /\ oCache = "none" /\ oLoad' = [oLoad EXCEPT ![l] = oRow]
        /\ UNCHANGED <<oObject, oCache, oRow, oWrite, oRaced, oAt, oMine, oChosen, oMixed, oTable>>
    BY <1>2 DEF ReadRow, oLaunch, oGitHub
  <2>2. ChoiceTypes' /\ MadeOnce'
    BY <2>1, <1>1 DEF ChoiceTypes, MadeOnce
  <2>3. RowInStep'
    BY <2>1, <1>1 DEF ChoiceTypes, RowInStep, ConfigIsStored
  <2>4. \A k \in Launches : ChoiceHeld(k)'
    BY <2>1, <1>1 DEF ChoiceHeld
  <2>5. QED BY <2>2, <2>3, <2>4 DEF ChoiceInv
<1>3. ASSUME NEW l \in Launches, _load_workflow_config_from_db(l) PROVE ChoiceInv'
  <2>1. /\ oLoad[l] # "nothing" /\ oLoad' = [oLoad EXCEPT ![l] = "nothing"]
        /\ oAt[l] = "idle" /\ oAt' = [oAt EXCEPT ![l] = "config"] /\ oMine' = [oMine EXCEPT ![l] = l]
        /\ oObject' = [oObject EXCEPT ![l] = oLoad[l]] /\ oCache' = l
        /\ oRaced' = (oRaced \/ (oCache # "none" /\ oObject[oCache] # oLoad[l]))
        /\ UNCHANGED <<oRow, oWrite, oChosen, oMixed, oTable>>
    BY <1>3 DEF _load_workflow_config_from_db, Goes, oGitHub
  <2>2. ChoiceTypes'
    BY <2>1, <1>1 DEF ChoiceTypes, LaunchStages
  <2>3. MadeOnce'
    BY <2>1, <1>1 DEF ChoiceTypes, MadeOnce
  <2>4. RowInStep'
    <3>1. oObject'[oCache'] = oLoad[l] /\ oCache' # "none"
      BY <2>1, <1>1 DEF ChoiceTypes
    <3>2. SUFFICES ASSUME ~oRaced', \A k \in Launches : oWrite[k] = "none" PROVE oRow = oLoad[l]
      BY <2>1, <3>1 DEF RowInStep, ConfigIsStored
    <3>3. ~oRaced /\ (oCache = "none" \/ oObject[oCache] = oLoad[l])
      BY <2>1, <3>2
    <3>4. QED BY <2>1, <3>2, <3>3, <1>1 DEF RowInStep, ConfigIsStored
  <2>5. ASSUME NEW k \in Launches PROVE ChoiceHeld(k)'
    <3>1. CASE k = l
      BY <3>1, <2>1, <1>1 DEF ChoiceHeld, ChoiceTypes
    <3>2. CASE k # l
      <4>1. oAt'[k] = oAt[k] /\ oMine'[k] = oMine[k] /\ oMine[k] \in Launches /\ oMine[k] # l
        BY <3>2, <2>1, <1>1 DEF ChoiceTypes, MadeOnce
      <4>2. oObject'[oMine'[k]] = oObject[oMine[k]]
        BY <4>1, <2>1, <1>1 DEF ChoiceTypes
      <4>3. QED BY <4>1, <4>2, <2>1, <1>1 DEF ChoiceHeld
    <3>3. QED BY <3>1, <3>2
  <2>6. QED BY <2>2, <2>3, <2>4, <2>5 DEF ChoiceInv
<1>4. ASSUME NEW l \in Launches, get_workflow_config(l) PROVE ChoiceInv'
  <2>1. /\ oCache # "none" /\ oAt[l] = "idle" /\ oAt' = [oAt EXCEPT ![l] = "config"] /\ oMine' = [oMine EXCEPT ![l] = oCache]
        /\ UNCHANGED <<oChosen, oMixed, oObject, oCache, oRow, oLoad, oWrite, oRaced, oTable>>
    BY <1>4 DEF get_workflow_config, Goes, oConfig, oGitHub
  <2>2. ChoiceTypes' /\ RowInStep'
    BY <2>1, <1>1 DEF ChoiceTypes, LaunchStages, RowInStep, ConfigIsStored
  <2>3. MadeOnce'
    BY <2>1, <1>1 DEF ChoiceTypes, MadeOnce
  <2>4. \A k \in Launches : ChoiceHeld(k)'
    BY <2>1, <1>1 DEF ChoiceHeld, ChoiceTypes
  <2>5. QED BY <2>2, <2>3, <2>4 DEF ChoiceInv
<1>5. ASSUME NEW l \in Launches, NEW p \in Pipelines, set_workflow_config(l, p) PROVE ChoiceInv'
  <2>1. /\ oAt[l] = "config" /\ oAt' = [oAt EXCEPT ![l] = "issue"] /\ oChosen' = [oChosen EXCEPT ![l] = p] /\ oMine' = oMine
        /\ oObject' = [oObject EXCEPT ![oMine[l]] = p] /\ oCache' = oMine[l]
        /\ oMixed' = [k \in Launches |-> oMixed[k] \/ (k # l /\ oMine[k] = oMine[l] /\ oAt[k] \notin {"idle", "config"})]
        /\ oWrite' = [oWrite EXCEPT ![l] = p] /\ UNCHANGED <<oRow, oLoad, oRaced, oTable>>
    BY <1>5 DEF set_workflow_config, Overwritten, ToPersist, Goes, oGitHub
  <2>2. oMine[l] \in Launches /\ oMine[l] # "none" /\ p \in Chosable /\ p # "none"
    BY <1>1 DEF ChoiceTypes, Chosable
  <2>3. ChoiceTypes'
    BY <2>1, <2>2, <1>1 DEF ChoiceTypes, LaunchStages
  <2>4. MadeOnce'
    BY <2>1, <2>2, <1>1 DEF ChoiceTypes, MadeOnce
  <2>5. RowInStep'
    BY <2>1, <2>2, <1>1 DEF ChoiceTypes, RowInStep, ConfigIsStored
  <2>6. ASSUME NEW k \in Launches PROVE ChoiceHeld(k)'
    <3>1. CASE k = l
      BY <3>1, <2>1, <2>2, <1>1 DEF ChoiceHeld, ChoiceTypes
    <3>2. CASE k # l /\ ~oMixed'[k]
      <4>1. oAt'[k] = oAt[k] /\ oChosen'[k] = oChosen[k] /\ ~oMixed[k] /\ (oMine[k] = oMine[l] => oAt[k] \in {"idle", "config"})
        BY <3>2, <2>1, <1>1 DEF ChoiceTypes
      <4>2. oMine[k] # oMine[l] => oObject'[oMine[k]] = oObject[oMine[k]]
        BY <2>1, <1>1 DEF ChoiceTypes
      <4>3. QED BY <4>1, <4>2, <2>1, <1>1 DEF ChoiceHeld
    <3>3. CASE k # l /\ oMixed'[k]
      BY <3>3, <2>1, <1>1 DEF ChoiceHeld, ChoiceTypes
    <3>4. QED BY <3>1, <3>2, <3>3
  <2>7. QED BY <2>3, <2>4, <2>5, <2>6 DEF ChoiceInv
<1>6. ASSUME NEW l \in Launches, NEW ok \in BOOLEAN, _persist_workflow_config_to_db(l, ok) PROVE ChoiceInv'
  <2>1. /\ oWrite[l] # "none" /\ oWrite' = [oWrite EXCEPT ![l] = "none"]
        /\ oRow' = (IF ok THEN oWrite[l] ELSE oRow)
        /\ oRaced' = (oRaced \/ ~ok \/ oCache = "none" \/ oObject[oCache] # oWrite[l])
        /\ UNCHANGED <<oObject, oCache, oLoad, oAt, oMine, oChosen, oMixed, oTable>>
    BY <1>6 DEF _persist_workflow_config_to_db, oLaunch, oGitHub
  <2>2. ChoiceTypes' /\ MadeOnce'
    BY <2>1, <1>1 DEF ChoiceTypes, MadeOnce, Chosable
  <2>3. RowInStep'
    BY <2>1 DEF RowInStep, ConfigIsStored
  <2>4. \A k \in Launches : ChoiceHeld(k)'
    BY <2>1, <1>1 DEF ChoiceHeld
  <2>5. QED BY <2>2, <2>3, <2>4 DEF ChoiceInv
<1>7. ASSUME RestartLaunches PROVE ChoiceInv'
  <2>1. /\ oCache' = "none" /\ oLoad' = [o \in Launches |-> "nothing"] /\ oWrite' = [o \in Launches |-> "none"]
        /\ oAt' = [l \in Launches |-> IF oAt[l] \in {"idle", "done"} THEN oAt[l] ELSE "failed"]
        /\ UNCHANGED <<oObject, oRow, oMine, oChosen, oMixed, oTable>>
    BY <1>7 DEF RestartLaunches, Each, oGitHub
  <2>2. ChoiceTypes'
    BY <2>1, <1>1 DEF ChoiceTypes, LaunchStages, Chosable
  <2>3. MadeOnce'
    BY <2>1, <1>1 DEF ChoiceTypes, MadeOnce
  <2>4. RowInStep'
    BY <2>1 DEF RowInStep, ConfigIsStored
  <2>5. \A k \in Launches : ChoiceHeld(k)'
    BY <2>1, <1>1 DEF ChoiceHeld
  <2>6. QED BY <2>2, <2>3, <2>4, <2>5 DEF ChoiceInv
<1>8. ASSUME NEW l \in Launches,
             \/ SetInitialState(l) \/ (\E ok \in BOOLEAN : add_to_project_with_backlog(l, ok))
             \/ \E outcome \in SubOutcomes : create_all_sub_issues(l, outcome)
      PROVE  ChoiceInv'
  <2>1. UNCHANGED <<oConfig, oMine, oChosen, oMixed, oTable>>
    BY <1>8 DEF SetInitialState, add_to_project_with_backlog, create_all_sub_issues, oGitHub
  <2>2. PICK to \in LaunchStages \ {"idle", "config", "issue"} : oAt' = [oAt EXCEPT ![l] = to]
    BY <1>8 DEF SetInitialState, add_to_project_with_backlog, create_all_sub_issues, Goes, LaunchStages
  <2>3. QED BY <2>1, <2>2, <1>1, ChoiceCarried DEF ChoiceTypes
<1>9. ASSUME NEW l \in Launches, NEW ok \in BOOLEAN, create_issue_from_recommendation(l, ok) PROVE ChoiceInv'
  <2>1. UNCHANGED <<oConfig, oMine, oChosen, oMixed>> /\ oAt[l] = "issue"
    BY <1>9 DEF create_issue_from_recommendation, Goes
  <2>2. PICK to \in {"board", "failed"} : oAt' = [oAt EXCEPT ![l] = to]
    BY <1>9 DEF create_issue_from_recommendation, Goes
  <2>3. oTable' \in {oTable, [oTable EXCEPT ![l] = oObject[oMine[l]]]}
    BY <1>9 DEF create_issue_from_recommendation
  <2>4. oAt' \in [Launches -> LaunchStages] /\ oTable' \in [Launches -> Chosable]
    BY <2>2, <2>3, <1>1 DEF ChoiceTypes, LaunchStages
  <2>5. QED BY <2>1, <2>2, <2>3, <2>4, <1>1, ChoiceCarried DEF ChoiceTypes
<1>10. ASSUME (\E l \in Launches, read \in Reads : check_backlog_issues(l, read)) \/ UNCHANGED oVars PROVE ChoiceInv'
  <2>1. UNCHANGED <<oConfig, oMine, oChosen, oMixed, oTable, oAt>>
    BY <1>10 DEF check_backlog_issues, oVars, oLaunch, oGitHub
  <2>2. QED BY <2>1, <1>1, ChoiceCarried DEF ChoiceTypes
<1>11. ASSUME NEW l \in Launches, NEW by \in {"launch", "poll"}, _execute_copilot_assignment(l, by) PROVE ChoiceInv'
  <2>1. UNCHANGED <<oConfig, oMine, oChosen, oMixed, oTable>>
    BY <1>11, AssignmentMoves
  <2>2. oAt' = oAt \/ \E to \in AssignStages : oAt' = [oAt EXCEPT ![l] = to]
    BY <1>11, AssignmentMoves
  <2>3. AssignStages \subseteq LaunchStages \ {"idle", "config", "issue"}
    BY DEF AssignStages, LaunchStages
  <2>4. QED BY <2>1, <2>2, <2>3, <1>1, ChoiceCarried DEF ChoiceTypes
<1>12. QED
  <2>1. ASSUME NEW l \in Launches, LaunchStep(l) PROVE ChoiceInv'
    BY <2>1, <1>3, <1>5, <1>6, <1>8, <1>9, <1>11 DEF LaunchStep
  <2>2. ASSUME NEW l \in Launches, PollAtIssue(l) PROVE ChoiceInv'
    BY <2>2, <1>10, <1>11 DEF PollAtIssue
  <2>3. QED BY <2>1, <2>2, <1>2, <1>4, <1>7, <1>10 DEF LaunchNext

(* The issue of a launch.  Until it is on the board nothing is done for it.*)
(* While its sub-issues are made and its state is stored, the poll stays   *)
(* away or is blind.  Memory knows every sub-issue, unless a restart has   *)
(* lost it with the state: then the poll begins with the sub-issues there  *)
(* are.  One assigner at a time asks, under the mark, and an assignment    *)
(* that is remembered is marked, or shown as active and nobody is about to *)
(* make another one.                                                       *)
Before == {"idle", "config", "issue", "board"}
Making == {"subs", "state", "assign"}
Asking == {"asking", "asked"}
PollStages == {"idle", "assign", "trigger", "asking", "asked"}
Who == {"launch", "poll"}
IssueTypes ==
    /\ oAt \in [Launches -> LaunchStages] /\ oPoll \in [Launches -> PollStages]
    /\ oBoard \in [Launches -> BOOLEAN] /\ oBlind \in [Launches -> BOOLEAN]
    /\ oAssigned \in [Launches -> Nat] /\ oForgotten \in [Launches -> Nat]
    /\ DOMAIN oTable = Launches /\ oTable = [l \in Launches |-> oTable[l]]
    /\ oSubs = [l \in Launches |-> oSubs[l]] /\ oActive = [l \in Launches |-> oActive[l]]
    /\ oStore = [l \in Launches |-> oStore[l]] /\ oMark = [l \in Launches |-> oMark[l]]
    /\ oState = [l \in Launches |-> oState[l]]
OnBoard(l) ==
    /\ oAt[l] \in Before => ~oBoard[l] /\ oSubs[l] = {} /\ oAssigned[l] = 0
    /\ ~oBoard[l] => oPoll[l] = "idle"
Sole(l) == \A s, t \in oSubs[l] : s.agent = t.agent => s = t
Synced(l) == \A s \in oSubs[l] : s.agent \in oStore[l]
Lost(l) == oState[l] = "none" /\ oPoll[l] = "idle" /\ oAt[l] \in {"idle", "done", "failed"}
SubsOf(l) ==
    ~oBlind[l] =>
       /\ Sole(l) /\ (Synced(l) \/ Lost(l))
       /\ oAt[l] \in Making => oPoll[l] = "idle"
       /\ oAt[l] = "subs" => oSubs[l] = {}
OneAsks(l) ==
    /\ oAt[l] \in Asking \/ oPoll[l] \in Asking => oTable[l] \in oMark[l]
    /\ ~(oAt[l] \in Asking /\ oPoll[l] \in Asking)
    /\ oAt[l] = "asking" \/ oPoll[l] = "asking" => oAssigned[l] = oForgotten[l]
AssignedOf(l) ==
    /\ oForgotten[l] <= oAssigned[l] /\ oAssigned[l] <= oForgotten[l] + 1
    /\ oAssigned[l] > oForgotten[l] =>
          \/ oTable[l] \in oMark[l]
          \/ oTable[l] \in oActive[l] /\ oPoll[l] = "idle" /\ oAt[l] \in {"done", "failed"}
IssueOf(l) == OnBoard(l) /\ SubsOf(l) /\ OneAsks(l) /\ AssignedOf(l)
IssueInv == IssueTypes /\ \A l \in Launches : IssueOf(l)
AllOf(l) == <<oAt[l], oTable[l], oBoard[l], oSubs[l], oActive[l], oAssigned[l],
              oStore[l], oState[l], oMark[l], oPoll[l], oBlind[l], oForgotten[l]>>

LEMMA IssueStarts == LaunchInit => IssueInv
<1> SUFFICES ASSUME LaunchInit PROVE IssueInv
  OBVIOUS
<1>1. IssueTypes
  BY DEF LaunchInit, IssueTypes, Each, LaunchStages, PollStages
<1>2. ASSUME NEW l \in Launches PROVE IssueOf(l)
  <2>1. /\ oAt[l] = "idle" /\ ~oBoard[l] /\ oPoll[l] = "idle" /\ oSubs[l] = {} /\ oState[l] = "none"
        /\ oAssigned[l] = 0 /\ oForgotten[l] = 0
    BY DEF LaunchInit, Each
  <2>2. QED BY <2>1 DEF IssueOf, OnBoard, SubsOf, Sole, Synced, OneAsks, AssignedOf, Before, Making, Asking
<1>3. QED BY <1>1, <1>2 DEF IssueInv

LEMMA SameIssue ==
  ASSUME NEW l \in Launches, IssueOf(l), UNCHANGED AllOf(l)
  PROVE  IssueOf(l)'
<1>1. /\ oAt'[l] = oAt[l] /\ oTable'[l] = oTable[l] /\ oBoard'[l] = oBoard[l] /\ oSubs'[l] = oSubs[l]
      /\ oActive'[l] = oActive[l] /\ oAssigned'[l] = oAssigned[l] /\ oStore'[l] = oStore[l]
      /\ oState'[l] = oState[l] /\ oMark'[l] = oMark[l] /\ oPoll'[l] = oPoll[l] /\ oBlind'[l] = oBlind[l]
      /\ oForgotten'[l] = oForgotten[l]
  BY DEF AllOf
<1>2. QED BY <1>1 DEF IssueOf, OnBoard, SubsOf, Sole, Synced, Lost, OneAsks, AssignedOf

LEMMA OneIssueMoves ==
  ASSUME IssueInv, NEW l \in Launches, IssueTypes', IssueOf(l)',
         \A k \in Launches \ {l} : UNCHANGED AllOf(k)
  PROVE  IssueInv'
BY SameIssue DEF IssueInv

(* A step of the launch or of the poll, and a sub-issue that is made.      *)
LEMMA AssignerMoved ==
  ASSUME IssueTypes, NEW l \in Launches, NEW by \in Who, NEW from, NEW to, AssignerGoes(l, by, from, to),
         to \in IF by = "launch" THEN LaunchStages ELSE PollStages
  PROVE  /\ oAt' \in [Launches -> LaunchStages] /\ oPoll' \in [Launches -> PollStages]
         /\ \A k \in Launches \ {l} : oAt'[k] = oAt[k] /\ oPoll'[k] = oPoll[k]
         /\ \/ by = "launch" /\ oAt[l] = from /\ oAt'[l] = to /\ oPoll'[l] = oPoll[l]
            \/ by = "poll" /\ oPoll[l] = from /\ oPoll'[l] = to /\ oAt'[l] = oAt[l]
<1>1. CASE by = "launch"
  BY <1>1 DEF AssignerGoes, Goes, IssueTypes
<1>2. CASE by = "poll"
  BY <1>2 DEF AssignerGoes, IssueTypes
<1>3. QED BY <1>1, <1>2 DEF Who

LEMMA SubIssueMade ==
  ASSUME IssueTypes, NEW l \in Launches, NEW agent, NEW outcome, create_sub_issue(l, agent, outcome)
  PROVE  /\ oSubs' = [k \in Launches |-> oSubs'[k]] /\ oStore' = [k \in Launches |-> oStore'[k]]
         /\ \A k \in Launches \ {l} : oSubs'[k] = oSubs[k] /\ oStore'[k] = oStore[k]
         /\ Synced(l) => Synced(l)'
         /\ Sole(l) /\ (\A s \in oSubs[l] : s.agent # agent) => Sole(l)'
<1>1. \/ oSubs' = oSubs
      \/ oSubs' = [oSubs EXCEPT ![l] = @ \cup {[agent |-> agent, nth |-> Cardinality(@)]}]
         /\ oStore' = [oStore EXCEPT ![l] = @ \cup {agent}]
  BY DEF create_sub_issue, WithSub
<1>2. oStore' = oStore \/ oStore' = [oStore EXCEPT ![l] = @ \cup {agent}]
  BY DEF create_sub_issue
<1>3. /\ oStore' = [k \in Launches |-> oStore'[k]] /\ \A k \in Launches \ {l} : oStore'[k] = oStore[k]
      /\ oStore[l] \subseteq oStore'[l]
  BY <1>2 DEF IssueTypes
<1>4. CASE oSubs' = oSubs
  BY <1>3, <1>4 DEF IssueTypes, Synced, Sole
<1>5. CASE /\ oSubs' = [oSubs EXCEPT ![l] = @ \cup {[agent |-> agent, nth |-> Cardinality(@)]}]
           /\ oStore' = [oStore EXCEPT ![l] = @ \cup {agent}]
  <2> DEFINE sub == [agent |-> agent, nth |-> Cardinality(oSubs[l])]
  <2>1. /\ oSubs' = [k \in Launches |-> oSubs'[k]] /\ \A k \in Launches \ {l} : oSubs'[k] = oSubs[k]
        /\ oSubs'[l] = oSubs[l] \cup {sub} /\ agent \in oStore'[l]
    BY <1>5 DEF IssueTypes
  <2>2. sub.agent = agent
    OBVIOUS
  <2> HIDE DEF sub
  <2>3. QED BY <1>3, <2>1, <2>2 DEF Synced, Sole
<1>6. QED BY <1>1, <1>4, <1>5

LEMMA IssueKept == IssueInv /\ [LaunchNext]_oVars => IssueInv'
<1> SUFFICES ASSUME IssueInv, [LaunchNext]_oVars PROVE IssueInv'
  OBVIOUS
<1>1. IssueTypes /\ \A l \in Launches : OnBoard(l) /\ SubsOf(l) /\ OneAsks(l) /\ AssignedOf(l)
  BY DEF IssueInv, IssueOf
(* Steps before the issue is on the board.                                 *)
<1>2. ASSUME NEW l \in Launches,
             \/ ReadRow(l) \/ _load_workflow_config_from_db(l) \/ get_workflow_config(l)
             \/ (\E p \in Pipelines : set_workflow_config(l, p))
             \/ (\E ok \in BOOLEAN : _persist_workflow_config_to_db(l, ok) \/ create_issue_from_recommendation(l, ok))
      PROVE  IssueInv'
  <2>1. UNCHANGED <<oBoard, oSubs, oActive, oAssigned, oStore, oState, oMark, oPoll, oBlind, oForgotten>>
    BY <1>2 DEF ReadRow, _load_workflow_config_from_db, get_workflow_config, set_workflow_config,
                _persist_workflow_config_to_db, create_issue_from_recommendation, oMemory, oGitHub
  <2>2. (oAt' = oAt /\ oTable' = oTable) \/ \E to \in (Before \cup {"failed"}) \ {"idle"} :
            /\ oAt[l] \in Before /\ oAt' = [oAt EXCEPT ![l] = to]
            /\ oTable' = oTable \/ \E v : oTable' = [oTable EXCEPT ![l] = v]
    BY <1>2 DEF ReadRow, _load_workflow_config_from_db, get_workflow_config, set_workflow_config, Goes, Before,
                _persist_workflow_config_to_db, create_issue_from_recommendation, oLaunch, oGitHub
  <2>3. CASE oAt' = oAt /\ oTable' = oTable
    <3>1. IssueTypes' /\ \A k \in Launches : UNCHANGED AllOf(k)
      BY <2>1, <2>3, <1>1 DEF IssueTypes, AllOf
    <3>2. QED BY <3>1, SameIssue DEF IssueInv
  <2>4. ASSUME NEW to \in (Before \cup {"failed"}) \ {"idle"}, oAt[l] \in Before, oAt' = [oAt EXCEPT ![l] = to],
               oTable' = oTable \/ \E v : oTable' = [oTable EXCEPT ![l] = v]
        PROVE  IssueInv'
    <3>1. IssueTypes' /\ oAt'[l] = to /\ \A k \in Launches \ {l} : UNCHANGED AllOf(k)
      BY <2>1, <2>4, <1>1 DEF IssueTypes, AllOf, LaunchStages, Before
    <3>2. ~oBoard[l] /\ oSubs[l] = {} /\ oAssigned[l] = 0 /\ oPoll[l] = "idle"
      BY <2>4, <1>1 DEF OnBoard
    <3>3. oForgotten[l] = 0
      BY <3>2, <1>1 DEF AssignedOf, IssueTypes
    <3>4. IssueOf(l)'
      BY <3>1, <3>2, <3>3, <2>1 DEF IssueOf, OnBoard, SubsOf, Sole, Synced, OneAsks, AssignedOf, Before, Making, Asking
    <3>5. QED BY <3>1, <3>4, OneIssueMoves
  <2>5. QED BY <2>2, <2>3, <2>4
<1>3. ASSUME NEW l \in Launches, NEW ok \in BOOLEAN, add_to_project_with_backlog(l, ok) PROVE IssueInv'
  <2>1. /\ oAt[l] = "board" /\ oAt' = [oAt EXCEPT ![l] = "subs"] /\ oBoard' = [oBoard EXCEPT ![l] = ok]
        /\ UNCHANGED <<oTable, oSubs, oActive, oAssigned, oStore, oState, oMark, oPoll, oBlind, oForgotten>>
    BY <1>3 DEF add_to_project_with_backlog, Goes, oMemory
  <2>2. IssueTypes' /\ \A k \in Launches \ {l} : UNCHANGED AllOf(k)
    BY <2>1, <1>1 DEF IssueTypes, AllOf, LaunchStages
  <2>3. oSubs[l] = {} /\ oAssigned[l] = 0 /\ oPoll[l] = "idle" /\ oBoard'[l] = ok /\ oAt'[l] = "subs"
    BY <2>1, <1>1 DEF OnBoard, IssueTypes, Before
  <2>4. oForgotten[l] = 0
    BY <2>3, <1>1 DEF AssignedOf, IssueTypes
  <2>5. IssueOf(l)'
    BY <2>1, <2>3, <2>4 DEF IssueOf, OnBoard, SubsOf, Sole, Synced, OneAsks, AssignedOf, Before, Making, Asking
  <2>6. QED BY <2>2, <2>5, OneIssueMoves
<1>4. ASSUME NEW l \in Launches, NEW outcome \in SubOutcomes, create_all_sub_issues(l, outcome) PROVE IssueInv'
  <2> DEFINE agent == oObject[oMine[l]]
             to == IF outcome = "failed" THEN "assign" ELSE "state"
  <2>1. /\ oAt[l] = "subs" /\ oAt' = [oAt EXCEPT ![l] = to] /\ create_sub_issue(l, agent, outcome)
        /\ UNCHANGED <<oTable, oBoard, oActive, oAssigned, oState, oMark, oPoll, oBlind, oForgotten>>
    BY <1>4 DEF create_all_sub_issues, Goes
  <2> HIDE DEF agent
  <2>2. /\ oSubs' = [k \in Launches |-> oSubs'[k]] /\ oStore' = [k \in Launches |-> oStore'[k]]
        /\ \A k \in Launches \ {l} : oSubs'[k] = oSubs[k] /\ oStore'[k] = oStore[k]
        /\ Synced(l) => Synced(l)'
        /\ Sole(l) /\ (\A s \in oSubs[l] : s.agent # agent) => Sole(l)'
    BY <2>1, <1>1, SubIssueMade
  <2>3. IssueTypes' /\ oAt'[l] = to /\ \A k \in Launches \ {l} : UNCHANGED AllOf(k)
    BY <2>1, <2>2, <1>1 DEF IssueTypes, AllOf, LaunchStages
  <2>4. OnBoard(l)' /\ OneAsks(l)' /\ AssignedOf(l)'
    BY <2>1, <2>3, <1>1 DEF OnBoard, OneAsks, AssignedOf, Before, Asking
  <2>5. SubsOf(l)'
    <3>1. SUFFICES ASSUME ~oBlind[l] PROVE Sole(l)' /\ Synced(l)' /\ oPoll[l] = "idle" /\ oAt'[l] # "subs"
      BY <2>1 DEF SubsOf
    <3>2. oSubs[l] = {} /\ oPoll[l] = "idle" /\ oAt'[l] # "subs"
      BY <3>1, <2>1, <2>3, <1>1 DEF SubsOf, Making
    <3>3. Synced(l) /\ Sole(l)
      BY <3>2 DEF Synced, Sole
    <3>4. QED BY <3>2, <3>3, <2>2
  <2>6. QED BY <2>3, <2>4, <2>5, OneIssueMoves DEF IssueOf
<1>5. ASSUME NEW l \in Launches, SetInitialState(l) PROVE IssueInv'
  <2>1. /\ oAt[l] = "state" /\ oAt' = [oAt EXCEPT ![l] = "assign"] /\ oState' = [oState EXCEPT ![l] = oObject[oMine[l]]]
        /\ UNCHANGED <<oTable, oBoard, oSubs, oActive, oAssigned, oStore, oMark, oPoll, oBlind, oForgotten>>
    BY <1>5 DEF SetInitialState, Goes, oGitHub
  <2>2. IssueTypes' /\ oAt'[l] = "assign" /\ \A k \in Launches \ {l} : UNCHANGED AllOf(k)
    BY <2>1, <1>1 DEF IssueTypes, AllOf, LaunchStages
  <2>3. OnBoard(l) /\ SubsOf(l) /\ OneAsks(l) /\ AssignedOf(l)
    BY <1>1
  <2>4. IssueOf(l)'
    BY <2>1, <2>2, <2>3 DEF IssueOf, OnBoard, SubsOf, Sole, Synced, Lost, OneAsks, AssignedOf, Before, Making, Asking
  <2>5. QED BY <2>2, <2>4, OneIssueMoves
(* The steps of an assignment, whoever makes them.                         *)
<1>6. ASSUME NEW l \in Launches, NEW by \in Who, NEW outcome \in SubOutcomes, _resolve_sub_issue(l, by, outcome)
      PROVE  IssueInv'
  <2>1. /\ AssignerGoes(l, by, "assign", "trigger")
        /\ \/ UNCHANGED <<oSubs, oStore>>
           \/ ~SubIssueKnown(l) /\ create_sub_issue(l, oTable[l], outcome)
        /\ oBlind' = [oBlind EXCEPT ![l] = @ \/ (by = "poll" /\ oAt[l] \in Making)]
        /\ UNCHANGED <<oTable, oBoard, oActive, oAssigned, oState, oMark, oForgotten>>
    BY <1>6 DEF _resolve_sub_issue, Launched, Making
  <2>2. /\ oAt' \in [Launches -> LaunchStages] /\ oPoll' \in [Launches -> PollStages]
        /\ \A k \in Launches \ {l} : oAt'[k] = oAt[k] /\ oPoll'[k] = oPoll[k]
        /\ \/ by = "launch" /\ oAt[l] = "assign" /\ oAt'[l] = "trigger" /\ oPoll'[l] = oPoll[l]
           \/ by = "poll" /\ oPoll[l] = "assign" /\ oPoll'[l] = "trigger" /\ oAt'[l] = oAt[l]
    BY <2>1, <1>1, AssignerMoved DEF LaunchStages, PollStages
  <2>3. /\ oSubs' = [k \in Launches |-> oSubs'[k]] /\ oStore' = [k \in Launches |-> oStore'[k]]
        /\ \A k \in Launches \ {l} : oSubs'[k] = oSubs[k] /\ oStore'[k] = oStore[k]
        /\ Synced(l) => Synced(l)'
        /\ Sole(l) /\ Synced(l) => Sole(l)'
    <3>1. CASE UNCHANGED <<oSubs, oStore>>
      BY <3>1, <1>1 DEF IssueTypes, Synced, Sole
    <3>2. CASE ~SubIssueKnown(l) /\ create_sub_issue(l, oTable[l], outcome)
      <4>1. Synced(l) => \A s \in oSubs[l] : s.agent # oTable[l]
        BY <3>2 DEF SubIssueKnown, Synced
      <4>2. QED BY <3>2, <4>1, <1>1, SubIssueMade
    <3>3. QED BY <2>1, <3>1, <3>2
  <2>4. /\ oBlind' \in [Launches -> BOOLEAN] /\ \A k \in Launches \ {l} : oBlind'[k] = oBlind[k]
        /\ oBlind'[l] = (oBlind[l] \/ (by = "poll" /\ oAt[l] \in Making))
    BY <2>1, <1>1 DEF IssueTypes
  <2>5. IssueTypes' /\ \A k \in Launches \ {l} : UNCHANGED AllOf(k)
    BY <2>1, <2>2, <2>3, <2>4, <1>1 DEF IssueTypes, AllOf
  <2>6. OnBoard(l)' /\ OneAsks(l)' /\ AssignedOf(l)'
    BY <2>1, <2>2, <1>1 DEF OnBoard, OneAsks, AssignedOf, Before, Asking
  <2>7. SubsOf(l)'
    <3>1. SUFFICES ASSUME ~oBlind'[l] PROVE SubsOf(l)'
      BY DEF SubsOf
    <3>2. Sole(l) /\ Synced(l) /\ (oAt[l] \in Making => oPoll[l] = "idle") /\ (oAt[l] = "subs" => oPoll[l] = "idle")
      BY <3>1, <2>2, <2>4, <1>1 DEF SubsOf, Lost, Making
    <3>3. QED BY <3>1, <3>2, <2>2, <2>3, <2>4 DEF SubsOf, Making
  <2>8. QED BY <2>5, <2>6, <2>7, OneIssueMoves DEF IssueOf
<1>7. ASSUME NEW l \in Launches, NEW by \in Who, MarkPending(l, by) PROVE IssueInv'
  <2> DEFINE to == IF RecentlyAssigned(l) THEN Ended(by) ELSE "asking"
  <2>1. /\ AssignerGoes(l, by, "trigger", to) /\ oMark' = [oMark EXCEPT ![l] = @ \cup {oTable[l]}]
        /\ UNCHANGED <<oTable, oBoard, oSubs, oActive, oAssigned, oStore, oState, oBlind, oForgotten>>
    BY <1>7 DEF MarkPending, Launched
  <2>2. /\ oAt' \in [Launches -> LaunchStages] /\ oPoll' \in [Launches -> PollStages]
        /\ \A k \in Launches \ {l} : oAt'[k] = oAt[k] /\ oPoll'[k] = oPoll[k]
        /\ \/ by = "launch" /\ oAt[l] = "trigger" /\ oAt'[l] = to /\ oPoll'[l] = oPoll[l]
           \/ by = "poll" /\ oPoll[l] = "trigger" /\ oPoll'[l] = to /\ oAt'[l] = oAt[l]
    BY <2>1, <1>1, AssignerMoved DEF LaunchStages, PollStages, Ended, Who
  <2>3. /\ oMark' = [k \in Launches |-> oMark'[k]] /\ \A k \in Launches \ {l} : oMark'[k] = oMark[k]
        /\ oTable[l] \in oMark'[l] /\ oMark[l] \subseteq oMark'[l]
    BY <2>1, <1>1 DEF IssueTypes
  <2>4. IssueTypes' /\ \A k \in Launches \ {l} : UNCHANGED AllOf(k)
    BY <2>1, <2>2, <2>3, <1>1 DEF IssueTypes, AllOf
  <2>5. to \in {"asking", "done", "idle"} /\ (to = "asking" => oTable[l] \notin oMark[l])
        /\ (by = "launch" => to # "idle")
    BY DEF Ended, RecentlyAssigned, Who
  <2>6. to = "asking" => oAssigned[l] = oForgotten[l] /\ oAt[l] \notin Asking /\ oPoll[l] \notin Asking
    BY <2>2, <2>5, <1>1 DEF OneAsks, AssignedOf, IssueTypes
  <2> HIDE DEF to
  <2>7. OnBoard(l)' /\ AssignedOf(l)'
    BY <2>1, <2>2, <2>3, <2>5, <1>1 DEF OnBoard, AssignedOf, Before
  <2>8. OneAsks(l)'
    BY <2>1, <2>2, <2>3, <2>5, <2>6, <1>1 DEF OneAsks, Asking
  <2>9. SubsOf(l)'
    BY <2>1, <2>2, <2>5, <1>1 DEF SubsOf, Sole, Synced, Lost, Making
  <2>10. QED BY <2>4, <2>7, <2>8, <2>9, OneIssueMoves DEF IssueOf
<1>8. ASSUME NEW l \in Launches, NEW by \in Who, assign_copilot_to_issue(l, by) PROVE IssueInv'
  <2>1. /\ AssignerGoes(l, by, "asking", "asked") /\ oAssigned' = [oAssigned EXCEPT ![l] = @ + 1]
        /\ UNCHANGED <<oTable, oBoard, oSubs, oActive, oStore, oState, oMark, oBlind, oForgotten>>
    BY <1>8 DEF assign_copilot_to_issue, Launched
  <2>2. /\ oAt' \in [Launches -> LaunchStages] /\ oPoll' \in [Launches -> PollStages]
        /\ \A k \in Launches \ {l} : oAt'[k] = oAt[k] /\ oPoll'[k] = oPoll[k]
        /\ \/ by = "launch" /\ oAt[l] = "asking" /\ oAt'[l] = "asked" /\ oPoll'[l] = oPoll[l]
           \/ by = "poll" /\ oPoll[l] = "asking" /\ oPoll'[l] = "asked" /\ oAt'[l] = oAt[l]
    BY <2>1, <1>1, AssignerMoved DEF LaunchStages, PollStages
  <2>3. /\ oAssigned' \in [Launches -> Nat] /\ \A k \in Launches \ {l} : oAssigned'[k] = oAssigned[k]
        /\ oAssigned'[l] = oAssigned[l] + 1
    BY <2>1, <1>1 DEF IssueTypes
  <2>4. IssueTypes' /\ \A k \in Launches \ {l} : UNCHANGED AllOf(k)
    BY <2>1, <2>2, <2>3, <1>1 DEF IssueTypes, AllOf
  <2>5. oAssigned[l] = oForgotten[l] /\ oTable[l] \in oMark[l] /\ ~(oAt[l] \in Asking /\ oPoll[l] \in Asking)
        /\ oAssigned[l] \in Nat
    BY <2>2, <1>1 DEF OneAsks, Asking, IssueTypes
  <2>6. OnBoard(l)' /\ AssignedOf(l)'
    BY <2>1, <2>2, <2>3, <2>5, <1>1 DEF OnBoard, AssignedOf, Before
  <2>7. OneAsks(l)'
    BY <2>1, <2>2, <2>5 DEF OneAsks, Asking
  <2>8. SubsOf(l)'
    BY <2>1, <2>2, <1>1 DEF SubsOf, Sole, Synced, Lost, Making
  <2>9. QED BY <2>4, <2>6, <2>7, <2>8, OneIssueMoves DEF IssueOf
<1>9. ASSUME NEW l \in Launches, NEW by \in Who, NEW again \in BOOLEAN, AssignmentFails(l, by, again) PROVE IssueInv'
  <2> DEFINE to == IF again THEN "asking" ELSE Ended(by)
  <2>1. PICK from \in Asking :
          /\ AssignerGoes(l, by, from, to)
          /\ oForgotten' = IF from = "asked" THEN [oForgotten EXCEPT ![l] = oAssigned[l]] ELSE oForgotten
    BY <1>9 DEF AssignmentFails, Asking
  <2>2. /\ oMark' = IF again THEN oMark ELSE [oMark EXCEPT ![l] = @ \ {oTable[l]}]
        /\ oState' = IF again THEN oState ELSE [oState EXCEPT ![l] = oTable[l]]
        /\ UNCHANGED <<oTable, oBoard, oSubs, oActive, oAssigned, oStore, oBlind>>
    BY <1>9 DEF AssignmentFails, Launched
  <2>3. /\ oAt' \in [Launches -> LaunchStages] /\ oPoll' \in [Launches -> PollStages]
        /\ \A k \in Launches \ {l} : oAt'[k] = oAt[k] /\ oPoll'[k] = oPoll[k]
        /\ \/ by = "launch" /\ oAt[l] = from /\ oAt'[l] = to /\ oPoll'[l] = oPoll[l]
           \/ by = "poll" /\ oPoll[l] = from /\ oPoll'[l] = to /\ oAt'[l] = oAt[l]
    BY <2>1, <1>1, AssignerMoved DEF LaunchStages, PollStages, Ended, Who
  <2>4. /\ oMark' = [k \in Launches |-> oMark'[k]] /\ \A k \in Launches \ {l} : oMark'[k] = oMark[k]
        /\ again => oMark' = oMark
    BY <2>2, <1>1 DEF IssueTypes
  <2>5. oState' = [k \in Launches |-> oState'[k]] /\ \A k \in Launches \ {l} : oState'[k] = oState[k]
    BY <2>2, <1>1 DEF IssueTypes
  <2>6. /\ oForgotten' \in [Launches -> Nat] /\ \A k \in Launches \ {l} : oForgotten'[k] = oForgotten[k]
        /\ oForgotten'[l] = oAssigned[l]
    <3>1. from = "asking" => oAssigned[l] = oForgotten[l]
      BY <2>3, <1>1 DEF OneAsks
    <3>2. QED BY <2>1, <3>1, <1>1 DEF IssueTypes, Asking
  <2>7. IssueTypes' /\ \A k \in Launches \ {l} : UNCHANGED AllOf(k)
    BY <2>2, <2>3, <2>4, <2>5, <2>6, <1>1 DEF IssueTypes, AllOf
  <2>8. to \in {"asking", "done", "idle"} /\ (to = "asking" => again) /\ (by = "launch" => to # "idle")
    BY DEF Ended, Who
  <2>9. ~(oAt[l] \in Asking /\ oPoll[l] \in Asking) /\ oTable[l] \in oMark[l] /\ oAssigned[l] \in Nat
    BY <2>1, <2>3, <1>1 DEF OneAsks, IssueTypes
  <2> HIDE DEF to
  <2>10. OnBoard(l)' /\ AssignedOf(l)'
    BY <2>2, <2>3, <2>6, <2>8, <2>9, <1>1 DEF OnBoard, AssignedOf, Before, Asking
  <2>11. OneAsks(l)'
    BY <2>1, <2>2, <2>3, <2>4, <2>6, <2>8, <2>9 DEF OneAsks, Asking
  <2>12. SubsOf(l)'
    <3>1. oAt[l] \in Asking \/ oPoll[l] \in Asking
      BY <2>1, <2>3
    <3>2. ~Lost(l)
      BY <3>1 DEF Lost, Asking
    <3>3. QED BY <2>2, <2>3, <2>8, <3>2, <1>1 DEF SubsOf, Sole, Synced, Making, Asking
  <2>13. QED BY <2>7, <2>10, <2>11, <2>12, OneIssueMoves DEF IssueOf
<1>10. ASSUME NEW l \in Launches, NEW by \in Who, NEW ok \in BOOLEAN, _update_agent_tracking_state(l, by, ok) PROVE IssueInv'
  <2>1. /\ AssignerGoes(l, by, "asked", Ended(by)) /\ oState' = [oState EXCEPT ![l] = oTable[l]]
        /\ oActive' = IF ok THEN [oActive EXCEPT ![l] = @ \cup {oTable[l]}] ELSE oActive
        /\ UNCHANGED <<oTable, oBoard, oSubs, oAssigned, oStore, oMark, oBlind, oForgotten>>
    BY <1>10 DEF _update_agent_tracking_state, Launched
  <2>2. /\ oAt' \in [Launches -> LaunchStages] /\ oPoll' \in [Launches -> PollStages]
        /\ \A k \in Launches \ {l} : oAt'[k] = oAt[k] /\ oPoll'[k] = oPoll[k]
        /\ \/ by = "launch" /\ oAt[l] = "asked" /\ oAt'[l] = "done" /\ oPoll'[l] = oPoll[l]
           \/ by = "poll" /\ oPoll[l] = "asked" /\ oPoll'[l] = "idle" /\ oAt'[l] = oAt[l]
    BY <2>1, <1>1, AssignerMoved DEF LaunchStages, PollStages, Ended, Who
  <2>3. oActive' = [k \in Launches |-> oActive'[k]] /\ \A k \in Launches \ {l} : oActive'[k] = oActive[k]
    BY <2>1, <1>1 DEF IssueTypes
  <2>4. oState' = [k \in Launches |-> oState'[k]] /\ \A k \in Launches \ {l} : oState'[k] = oState[k]
    BY <2>1, <1>1 DEF IssueTypes
  <2>5. IssueTypes' /\ \A k \in Launches \ {l} : UNCHANGED AllOf(k)
    BY <2>1, <2>2, <2>3, <2>4, <1>1 DEF IssueTypes, AllOf
  <2>6. oTable[l] \in oMark[l] /\ ~Lost(l)
    BY <2>2, <1>1 DEF OneAsks, Asking, Lost
  <2>7. OnBoard(l)' /\ OneAsks(l)' /\ AssignedOf(l)'
    BY <2>1, <2>2, <2>6, <1>1 DEF OnBoard, OneAsks, AssignedOf, Before, Asking
  <2>8. SubsOf(l)'
    BY <2>1, <2>2, <2>6, <1>1 DEF SubsOf, Sole, Synced, Making
  <2>9. QED BY <2>5, <2>7, <2>8, OneIssueMoves DEF IssueOf
<1>11. ASSUME NEW l \in Launches, NEW by \in Who, _execute_copilot_assignment(l, by) PROVE IssueInv'
  BY <1>11, <1>6, <1>7, <1>8, <1>9, <1>10 DEF _execute_copilot_assignment
(* The poll at the issue.                                                  *)
<1>12. ASSUME NEW l \in Launches, NEW read \in Reads, check_backlog_issues(l, read) PROVE IssueInv'
  <2>1. /\ oBoard[l] /\ oPoll[l] = "idle" /\ NeedsAgent(l, read) /\ oPoll' = [oPoll EXCEPT ![l] = "assign"]
        /\ oState' = [oState EXCEPT ![l] = IF @ = "none" THEN oTable[l] ELSE @]
        /\ oStore' = [oStore EXCEPT ![l] = IF oState[l] = "none" /\ read # "no subs"
                                           THEN @ \cup {s.agent : s \in oSubs[l]} ELSE @]
        /\ oBlind' = [oBlind EXCEPT ![l] = @ \/ oAt[l] \in Making \/ read = "no subs"]
        /\ oForgotten' = IF SeenActive(l, read) = oActive[l] THEN oForgotten ELSE [oForgotten EXCEPT ![l] = oAssigned[l]]
        /\ UNCHANGED <<oAt, oTable, oBoard, oSubs, oActive, oAssigned, oMark>>
    BY <1>12 DEF check_backlog_issues, oLaunch, oGitHub, Making
  <2>2. /\ oPoll' \in [Launches -> PollStages] /\ oPoll'[l] = "assign" /\ \A k \in Launches \ {l} : oPoll'[k] = oPoll[k]
    BY <2>1, <1>1 DEF IssueTypes, PollStages
  <2>3. /\ oBlind' \in [Launches -> BOOLEAN] /\ oBlind'[l] = (oBlind[l] \/ oAt[l] \in Making \/ read = "no subs")
        /\ \A k \in Launches \ {l} : oBlind'[k] = oBlind[k]
    BY <2>1, <1>1 DEF IssueTypes
  <2>4. /\ oStore' = [k \in Launches |-> oStore'[k]] /\ \A k \in Launches \ {l} : oStore'[k] = oStore[k]
        /\ oStore'[l] = IF oState[l] = "none" /\ read # "no subs" THEN oStore[l] \cup {s.agent : s \in oSubs[l]} ELSE oStore[l]
    BY <2>1, <1>1 DEF IssueTypes
  <2>5. oState' = [k \in Launches |-> oState'[k]] /\ \A k \in Launches \ {l} : oState'[k] = oState[k]
    BY <2>1, <1>1 DEF IssueTypes
  <2>6. /\ oForgotten' \in [Launches -> Nat] /\ \A k \in Launches \ {l} : oForgotten'[k] = oForgotten[k]
        /\ oForgotten'[l] = IF SeenActive(l, read) = oActive[l] THEN oForgotten[l] ELSE oAssigned[l]
    BY <2>1, <1>1 DEF IssueTypes
  <2>7. UNCHANGED <<oAt, oTable, oBoard, oSubs, oActive, oAssigned, oMark>>
    BY <2>1
  <2>8. IssueTypes' /\ \A k \in Launches \ {l} : UNCHANGED AllOf(k)
    <3>1. IssueTypes
      BY <1>1
    <3>2. IssueTypes'
      BY <2>2, <2>3, <2>4, <2>5, <2>6, <2>7, <3>1 DEF IssueTypes
    <3>3. QED BY <2>2, <2>3, <2>4, <2>5, <2>6, <2>7, <3>2 DEF AllOf
  <2>9. OnBoard(l)' /\ OneAsks(l)' /\ AssignedOf(l)'
    <3>1. OnBoard(l) /\ OneAsks(l) /\ AssignedOf(l) /\ oAssigned[l] \in Nat /\ oForgotten[l] \in Nat
      BY <1>1 DEF IssueTypes
    <3>2. oTable[l] \notin SeenActive(l, read) /\ oTable[l] \notin oMark[l]
      BY <2>1 DEF NeedsAgent
    <3>3. oForgotten'[l] = oAssigned[l]
      <4>1. CASE SeenActive(l, read) = oActive[l]
        BY <4>1, <2>6, <3>1, <3>2 DEF AssignedOf
      <4>2. CASE SeenActive(l, read) # oActive[l]
        BY <4>2, <2>6
      <4>3. QED BY <4>1, <4>2
    <3>4. oBoard[l]
      BY <2>1
    <3>5. OnBoard(l)'
      BY <2>7, <3>1, <3>4 DEF OnBoard
    <3>6. OneAsks(l)'
      BY <2>2, <2>7, <3>1, <3>3 DEF OneAsks, Asking
    <3>7. AssignedOf(l)'
      BY <2>7, <3>1, <3>3 DEF AssignedOf
    <3>8. QED BY <3>5, <3>6, <3>7
  <2>10. SubsOf(l)'
    <3>1. SUFFICES ASSUME ~oBlind[l], oAt[l] \notin Making, read # "no subs" PROVE SubsOf(l)'
      BY <2>3 DEF SubsOf
    <3>2. Sole(l) /\ (oState[l] # "none" => Synced(l)) /\ oAt[l] # "subs"
      BY <3>1, <1>1 DEF SubsOf, Lost, Making
    <3>3. Synced(l)'
      BY <2>1, <2>4, <3>1, <3>2 DEF Synced
    <3>4. QED BY <2>1, <3>1, <3>2, <3>3 DEF SubsOf, Sole
  <2>11. QED BY <2>8, <2>9, <2>10, OneIssueMoves DEF IssueOf
<1>13. ASSUME RestartLaunches PROVE IssueInv'
  <2>1. PICK states \in SUBSET {l \in Launches : oState[l] # "none"}, subs \in SUBSET {l \in Launches : oStore[l] # {}} :
          /\ oState' = [l \in Launches |-> IF l \in states THEN oState[l] ELSE "none"]
          /\ oStore' = [l \in Launches |-> IF l \in subs THEN oStore[l] ELSE {}]
          /\ oBlind' = [l \in Launches |-> oBlind[l] \/ (l \in states /\ oStore'[l] # oStore[l])]
    BY <1>13 DEF RestartLaunches
  <2>2. /\ oAt' = [l \in Launches |-> IF oAt[l] \in {"idle", "done"} THEN oAt[l] ELSE "failed"]
        /\ oForgotten' = [l \in Launches |-> IF oTable[l] \in oActive[l] THEN oForgotten[l] ELSE oAssigned[l]]
        /\ oMark' = [l \in Launches |-> {}] /\ oPoll' = [l \in Launches |-> "idle"]
        /\ UNCHANGED <<oTable, oBoard, oSubs, oActive, oAssigned>>
    BY <1>13 DEF RestartLaunches, Each, oGitHub
  <2>3. IssueTypes'
    <3>1. oBlind' \in [Launches -> BOOLEAN]
      BY <2>1, <1>1 DEF IssueTypes
    <3>2. QED BY <2>1, <2>2, <3>1, <1>1 DEF IssueTypes, LaunchStages, PollStages
  <2>4. ASSUME NEW l \in Launches PROVE IssueOf(l)'
    <3>1. /\ oAt'[l] \in {"idle", "done", "failed"} /\ (oAt'[l] = "idle" => oAt[l] = "idle") /\ oPoll'[l] = "idle"
          /\ oForgotten'[l] = IF oTable[l] \in oActive[l] THEN oForgotten[l] ELSE oAssigned[l]
      BY <2>2, <1>1 DEF IssueTypes
    <3>2. OnBoard(l) /\ SubsOf(l) /\ OneAsks(l) /\ AssignedOf(l) /\ oAssigned[l] \in Nat /\ oForgotten[l] \in Nat
      BY <1>1 DEF IssueTypes
    <3>3. OnBoard(l)'
      BY <2>2, <3>1, <3>2 DEF OnBoard, Before
    <3>4. SubsOf(l)'
      <4>1. SUFFICES ASSUME ~oBlind'[l] PROVE Sole(l)' /\ (Synced(l)' \/ Lost(l)')
        BY <3>1 DEF SubsOf, Making
      <4>2. ~oBlind[l] /\ (l \in states => oStore'[l] = oStore[l] /\ oState[l] # "none")
        BY <4>1, <2>1
      <4>3. Sole(l) /\ (Synced(l) \/ Lost(l))
        BY <4>2, <3>2 DEF SubsOf
      <4>4. CASE l \in states
        BY <4>2, <4>3, <4>4, <2>2 DEF Sole, Synced, Lost
      <4>5. CASE l \notin states
        <5>1. oState'[l] = "none"
          BY <4>5, <2>1
        <5>2. QED BY <4>3, <5>1, <3>1, <2>2 DEF Sole, Lost
      <4>6. QED BY <4>4, <4>5
    <3>5. OneAsks(l)' /\ AssignedOf(l)'
      <4>1. oAt[l] = "idle" => oAssigned[l] = 0
        BY <3>2 DEF OnBoard, Before
      <4>2. QED BY <2>2, <3>1, <3>2, <4>1 DEF OneAsks, AssignedOf, Asking
    <3>6. QED BY <3>3, <3>4, <3>5 DEF IssueOf
  <2>5. QED BY <2>3, <2>4 DEF IssueInv
<1>14. ASSUME NEW l \in Launches, LaunchStep(l) PROVE IssueInv'
  BY <1>14, <1>2, <1>3, <1>4, <1>5, <1>11 DEF LaunchStep, Who
<1>15. ASSUME NEW l \in Launches, PollAtIssue(l) PROVE IssueInv'
  BY <1>15, <1>11, <1>12 DEF PollAtIssue, Who
<1>16. ASSUME NEW l \in Launches, ReadRow(l) \/ get_workflow_config(l) PROVE IssueInv'
  BY <1>16, <1>2
<1>17. CASE UNCHANGED oVars
  <2>1. IssueTypes' /\ \A k \in Launches : UNCHANGED AllOf(k)
    BY <1>17, <1>1 DEF IssueTypes, AllOf, oVars, oLaunch, oGitHub, oMemory
  <2>2. QED BY <2>1, SameIssue DEF IssueInv
<1>18. QED BY <1>13, <1>14, <1>15, <1>16, <1>17 DEF LaunchNext

(* However launches share a configuration, overlap with the poll and are   *)
(* cut short by restarts: an issue's table names the pipeline chosen for   *)
(* it, and the row has the mappings of the cached object, unless two       *)
(* launches overlapped (orchestrator.py, config.py).                       *)
THEOREM LaunchesAsChosen == LaunchSpec => [](LaunchedAsChosen /\ ConfigIsStored)
<1>1. ChoiceInv => LaunchedAsChosen /\ ConfigIsStored
  BY DEF ChoiceInv, ChoiceHeld, RowInStep, LaunchedAsChosen
<1>2. QED BY <1>1, ChoiceStarts, ChoiceKept, PTL DEF LaunchSpec

(* An agent has one sub-issue attached to the issue, unless the poll went  *)
(* to it without a view of its sub-issues, and the first agent is assigned *)
(* once, and once more for each assignment that a lost answer, a restart   *)
(* before its row in the table or a failed read of it made the program     *)
(* forget (orchestrator.py, copilot_polling/pipeline.py).                  *)
THEOREM LaunchesOnce == LaunchSpec => [](OneSubIssue /\ FirstAgentOnce)
<1>1. IssueInv => OneSubIssue /\ FirstAgentOnce
  <2>1. SUFFICES ASSUME IssueInv PROVE OneSubIssue /\ FirstAgentOnce
    OBVIOUS
  <2>2. OneSubIssue
    BY <2>1 DEF IssueInv, IssueOf, SubsOf, Sole, OneSubIssue
  <2>3. ASSUME NEW l \in Launches PROVE oAssigned[l] <= 1 + oForgotten[l]
    BY <2>1 DEF IssueInv, IssueOf, IssueTypes, AssignedOf
  <2>4. QED BY <2>2, <2>3 DEF FirstAgentOnce
<1>2. QED BY <1>1, IssueStarts, IssueKept, PTL DEF LaunchSpec

(* Both together: each launch starts what was chosen for it, once as far as*)
(* the program can know (orchestrator.py, config.py).                      *)
THEOREM LaunchedOnceAsChosen == LaunchSpec => []LaunchIsOnce
<1>1. (LaunchedAsChosen /\ ConfigIsStored) /\ (OneSubIssue /\ FirstAgentOnce) => LaunchIsOnce
  BY DEF LaunchIsOnce
<1>2. QED BY <1>1, LaunchesAsChosen, LaunchesOnce, PTL

---------------------------------------------------------------------------
(* Completion signals.  Agents after the current one have no pull request, *)
(* and every child of an earlier agent is claimed by that agent, so that   *)
(* the only child that can be found is the current agent's own.  What      *)
(* signals on the main pull request is an event, new commits that nobody   *)
(* but the current agent can have made, or its being ready, which is       *)
(* remembered once the first agent is behind.                              *)
PullStates == {"none", "draft", "wip", "ready", "merged"}
SignalTypes ==
    /\ uNow \in 0..(MaxAgents + 1) /\ uCopilot \in BOOLEAN /\ uOwn \in [Agents -> PullStates]
    /\ uBy \in [Agents -> Agents \cup {0}] /\ uMain \in BOOLEAN /\ uMarked \in BOOLEAN
    /\ uTip \in Nat /\ uSha \in Nat /\ uHead \in Nat
FinishShown ==
    /\ uEvents \subseteq uFinished
    /\ \A p \in Agents : uOwn[p] \in {"ready", "merged"} => p \in uFinished
    /\ \A p \in Agents : p > uNow => uOwn[p] = "none"
EarlierClaimed ==
    /\ \A p \in Agents \ {Main} : p < uNow /\ uOwn[p] # "none" => <<p, p>> \in uClaims
    /\ \A p, b \in Agents : <<p, b>> \in uClaims => <<p, p>> \in uClaims
MainRemembered == (~uMain => uNow <= Main) /\ (uNow > Main /\ uOwn[Main] = "ready" => uMarked)
OnlyItsCommits == InPipeline /\ ~uCopilot /\ uNow \notin uFinished => uTip = uSha
CreditedRight == \A a \in Agents : uBy[a] # 0 => a \in uFinished /\ uBy[a] \in {Main, a}
SignalsHonest == FinishShown /\ EarlierClaimed /\ MainRemembered /\ OnlyItsCommits /\ CreditedRight
SignalInv == SignalTypes /\ (uForgot \/ SignalsHonest)

LEMMA SignalStarts == SignalInit => SignalInv
<1> SUFFICES ASSUME SignalInit PROVE SignalInv
  OBVIOUS
<1> USE SignalAssumption
<1>1. SignalTypes
  <2>1. uOwn \in [Agents -> PullStates] /\ uBy \in [Agents -> Agents \cup {0}]
    BY DEF SignalInit, PullStates
  <2>2. uNow \in 0..(MaxAgents + 1) /\ uTip \in Nat /\ uSha \in Nat /\ uHead \in Nat
    BY DEF SignalInit
  <2>3. QED BY <2>1, <2>2 DEF SignalInit, SignalTypes
<1>2. FinishShown /\ EarlierClaimed /\ CreditedRight
  BY DEF SignalInit, FinishShown, EarlierClaimed, CreditedRight, Agents
<1>3. MainRemembered /\ OnlyItsCommits
  BY DEF SignalInit, MainRemembered, OnlyItsCommits, InPipeline, Agents, Main
<1>4. QED BY <1>1, <1>2, <1>3 DEF SignalInv, SignalsHonest

(* A signal comes of work that the current agent has finished, and names   *)
(* its own pull request, or the main one.  An own child is not passed over,*)
(* unless it is claimed already.                                           *)
LEMMA SignalIsHonest ==
  ASSUME SignalTypes, SignalsHonest, InPipeline, NEW p \in _detect_completion_signals(uNow)
  PROVE  /\ uNow \in uFinished /\ p \in {Main, uNow} /\ p \in Agents
         /\ p = Main /\ uNow # Main /\ uOwn[uNow] # "none" => <<uNow, uNow>> \in uClaims
         /\ ~uMain => p = Main /\ uNow = Main
<1> USE SignalAssumption
<1>1. uNow \in Agents /\ FinishShown /\ EarlierClaimed /\ MainRemembered /\ OnlyItsCommits
  BY DEF InPipeline, SignalsHonest
<1>2. NotClaimedByOther(uNow) \subseteq {uNow} \ {Main}
  <2>1. ASSUME NEW q \in NotClaimedByOther(uNow) PROVE q = uNow /\ q # Main
    <3>1. q \in Agents \ {Main} /\ uOwn[q] # "none" /\ \A b \in Agents \ {uNow} : <<q, b>> \notin uClaims
      BY DEF NotClaimedByOther, Children
    <3>2. ~(q < uNow)
      <4>1. SUFFICES ASSUME q < uNow PROVE FALSE
        OBVIOUS
      <4>2. q \in Agents \ {uNow}
        BY <4>1, <3>1, <1>1 DEF Agents
      <4>3. QED BY <4>1, <4>2, <3>1, <1>1 DEF EarlierClaimed
    <3>3. ~(q > uNow)
      BY <3>1, <1>1 DEF FinishShown
    <3>4. QED BY <3>1, <3>2, <3>3, <1>1 DEF Agents
  <2>2. QED BY <2>1
<1>3. CASE ~uMain
  <2>1. uNow = Main
    BY <1>1, <1>3 DEF MainRemembered, Agents, Main
  <2>2. p \in Agents /\ (uOwn[p] = "ready" \/ (uOwn[p] # "none" /\ p \in uEvents))
    BY <1>3 DEF _detect_completion_signals, check_copilot_pr_completion
  <2>3. p = Main
    BY <2>1, <2>2, <1>1 DEF FinishShown, Agents, Main
  <2>4. QED BY <2>1, <2>2, <2>3, <1>1 DEF FinishShown
<1>4. CASE uMain /\ _find_completed_child_pr(uNow) # {}
  <2>1. p \in NotClaimedByOther(uNow) /\ Complete(p)
    BY <1>4 DEF _detect_completion_signals, _find_completed_child_pr
  <2>2. QED BY <2>1, <1>1, <1>2, <1>4 DEF Complete, FinishShown
<1>5. CASE uMain /\ _find_completed_child_pr(uNow) = {}
  <2>1. _check_main_pr_completion
    BY <1>5 DEF _detect_completion_signals
  <2>2. uNow \in uFinished
    <3>1. CASE MadeReady
      BY <3>1, <1>1 DEF MadeReady, MainRemembered, FinishShown, Agents, Main
    <3>2. CASE FreshEvents
      BY <3>2, <1>1 DEF FreshEvents, FinishShown
    <3>3. CASE NewCommits
      BY <3>3, <1>1 DEF NewCommits, OnlyItsCommits, InPipeline
    <3>4. QED BY <2>1, <3>1, <3>2, <3>3 DEF _check_main_pr_completion
  <2>3. CASE _find_open_child_pr(uNow) # {}
    <3>1. p \in NotClaimedByOther(uNow)
      BY <1>5, <2>1, <2>3 DEF _detect_completion_signals, _find_open_child_pr
    <3>2. QED BY <3>1, <2>2, <1>1, <1>2, <1>5
  <2>4. CASE _find_open_child_pr(uNow) = {}
    <3>1. p = Main
      BY <1>5, <2>1, <2>4 DEF _detect_completion_signals
    <3>2. ASSUME uNow # Main, uOwn[uNow] # "none" PROVE <<uNow, uNow>> \in uClaims
      <4>1. uNow \notin NotClaimedByOther(uNow)
        BY <1>5, <2>4 DEF _find_open_child_pr, _find_completed_child_pr, Complete
      <4>2. QED BY <4>1, <3>2, <1>1 DEF NotClaimedByOther, Children, EarlierClaimed
    <3>3. QED BY <3>1, <3>2, <2>2, <1>1, <1>5 DEF Agents, Main
  <2>5. QED BY <2>3, <2>4
<1>6. QED BY <1>3, <1>4, <1>5

(* The pull request and its claim after a credit, with a marker or without.*)
LEMMA MergeKept ==
  ASSUME SignalTypes, SignalsHonest, InPipeline, NEW p \in _detect_completion_signals(uNow), NEW merges \in BOOLEAN,
         _merge_and_claim_child_pr(p, merges)
  PROVE  /\ uOwn' \in [Agents -> PullStates] /\ uTip' \in Nat /\ uClaims \subseteq uClaims'
         /\ \A q \in Agents \ {Main} : q = uNow /\ uOwn'[q] # "none" => <<q, q>> \in uClaims'
         /\ \A q, b \in Agents : <<q, b>> \in uClaims' => <<q, q>> \in uClaims'
         /\ \A q \in Agents : uOwn'[q] # uOwn[q] => q = uNow /\ uOwn'[q] = "merged" /\ uOwn[q] # "none"
         /\ uOwn'[Main] = uOwn[Main]
<1> USE SignalAssumption
<1>1. /\ uNow \in uFinished /\ p \in {Main, uNow} /\ p \in Agents /\ uNow \in Agents
      /\ p = Main /\ uNow # Main /\ uOwn[uNow] # "none" => <<uNow, uNow>> \in uClaims
      /\ ~uMain => p = Main /\ uNow = Main
  BY SignalIsHonest DEF InPipeline
<1>2. uClaims' = IF IsChild(p) THEN uClaims \cup {<<p, uNow>>} ELSE uClaims
  BY DEF _merge_and_claim_child_pr, Claims
<1>3. \/ UNCHANGED <<uOwn, uTip>>
      \/ uMain /\ p # Main /\ p = uNow /\ uOwn' = [uOwn EXCEPT ![p] = "merged"] /\ uTip' = uTip + 1
  BY <1>1 DEF _merge_and_claim_child_pr, IsChild
<1>4. uOwn' \in [Agents -> PullStates] /\ uTip' \in Nat
  BY <1>1, <1>3 DEF SignalTypes, PullStates
<1>5. /\ uOwn'[Main] = uOwn[Main]
      /\ \A q \in Agents : uOwn'[q] # uOwn[q] => q = uNow /\ uOwn'[q] = "merged"
  <2>1. CASE UNCHANGED uOwn
    BY <2>1
  <2>2. CASE p # Main /\ p = uNow /\ uOwn' = [uOwn EXCEPT ![p] = "merged"]
    BY <2>2, <1>1 DEF SignalTypes, Agents, Main
  <2>3. QED BY <1>3, <2>1, <2>2
<1>6. \A q, b \in Agents : <<q, b>> \in uClaims' => <<q, q>> \in uClaims'
  BY <1>1, <1>2 DEF SignalsHonest, EarlierClaimed, IsChild
<1>7. p # Main => uOwn[p] # "none"
  <2>1. CASE ~uMain
    BY <2>1, <1>1
  <2>2. CASE uMain /\ p # Main
    <3>1. p \in _find_completed_child_pr(uNow) \/ p \in _find_open_child_pr(uNow)
      BY <2>2 DEF _detect_completion_signals
    <3>2. QED BY <3>1 DEF _find_completed_child_pr, _find_open_child_pr, NotClaimedByOther, Children
  <2>3. QED BY <2>1, <2>2
<1>8. \A q \in Agents \ {Main} : q = uNow /\ uOwn'[q] # "none" => <<q, q>> \in uClaims'
  <2>1. CASE p = Main
    BY <2>1, <1>1, <1>2, <1>3
  <2>2. CASE p # Main
    BY <2>2, <1>1, <1>2 DEF IsChild
  <2>3. QED BY <2>1, <2>2
<1>9. \A q \in Agents : uOwn'[q] # uOwn[q] => uOwn[q] # "none"
  BY <1>1, <1>3, <1>5, <1>7
<1>10. uClaims \subseteq uClaims'
  BY <1>2
<1>11. QED BY <1>4, <1>5, <1>6, <1>8, <1>9, <1>10

LEMMA SignalKept == SignalInv /\ [SignalNext]_uVars => SignalInv'
<1> SUFFICES ASSUME SignalInv, [SignalNext]_uVars PROVE SignalInv'
  OBVIOUS
<1> USE SignalAssumption
<1>1. SignalTypes
  BY DEF SignalInv
<1>2. uForgot => uForgot'
  BY DEF SignalNext, BeginPipeline, AgentWorks, OpensPull, CommitsToMain, Finishes, CreditSome, Credit, CreditWithoutMarker,
         RecoveryReassigns, SignalRestart, Reconstructed, uVars
(* The agent at work.                                                      *)
<1>3. CASE BeginPipeline \/ RecoveryReassigns
  <2>1. /\ uNow' \in 0..(MaxAgents + 1) /\ uCopilot' = TRUE /\ uSha' \in {uSha, uTip} /\ (uNow' = uNow \/ (uNow = 0 /\ uNow' = 1))
        /\ UNCHANGED <<uOwn, uEvents, uFinished, uBy, uMain, uMarked, uClaims, uHead, uTip, uForgot>>
    BY <1>1, <1>3 DEF BeginPipeline, RecoveryReassigns, uTables, SignalTypes
  <2>2. SignalTypes'
    BY <2>1, <1>1 DEF SignalTypes
  <2>3. ASSUME SignalsHonest PROVE SignalsHonest'
    <3>1. FinishShown' /\ CreditedRight'
      BY <2>1, <2>3, <1>1 DEF SignalsHonest, FinishShown, CreditedRight, SignalTypes, Agents
    <3>2. EarlierClaimed' /\ MainRemembered'
      BY <2>1, <2>3, <1>1 DEF SignalsHonest, EarlierClaimed, MainRemembered, SignalTypes, Agents, Main
    <3>3. QED BY <2>1, <3>1, <3>2 DEF SignalsHonest, OnlyItsCommits
  <2>4. QED BY <1>2, <2>2, <2>3 DEF SignalInv
<1>4. ASSUME InPipeline, NEW how, OpensPull(how) \/ CommitsToMain PROVE SignalInv'
  <2>1. /\ uCopilot /\ uTip' \in {uTip, 1, uTip + 1} /\ uNow \in Agents
        /\ UNCHANGED <<uNow, uCopilot, uEvents, uFinished, uBy, uMain, uMarked, uClaims, uHead, uSha, uForgot>>
        /\ \/ uOwn' = uOwn
           \/ \E new \in {"draft", "wip"} : uOwn[uNow] = "none" /\ uOwn' = [uOwn EXCEPT ![uNow] = new]
    BY <1>4 DEF OpensPull, CommitsToMain, uTables, InPipeline
  <2>2. SignalTypes'
    BY <2>1, <1>1 DEF SignalTypes, PullStates
  <2>3. ASSUME SignalsHonest PROVE SignalsHonest'
    <3>1. \A p \in Agents : uOwn'[p] = uOwn[p] \/ (p = uNow /\ uOwn'[p] \in {"draft", "wip"})
      BY <2>1, <1>1 DEF SignalTypes
    <3>2. FinishShown' /\ CreditedRight'
      BY <2>1, <2>3, <3>1, <1>1 DEF SignalsHonest, FinishShown, CreditedRight, SignalTypes, Agents
    <3>3. EarlierClaimed' /\ MainRemembered'
      BY <2>1, <2>3, <3>1, <1>1 DEF SignalsHonest, EarlierClaimed, MainRemembered, SignalTypes, Agents, Main
    <3>4. QED BY <2>1, <3>2, <3>3 DEF SignalsHonest, OnlyItsCommits
  <2>4. QED BY <1>2, <2>2, <2>3 DEF SignalInv
<1>5. ASSUME InPipeline, NEW event \in BOOLEAN, NEW ready \in BOOLEAN, Finishes(event, ready) PROVE SignalInv'
  <2>1. /\ uCopilot' = FALSE /\ uFinished' = uFinished \cup {uNow} /\ uNow \in Agents
        /\ uEvents' \in {uEvents, uEvents \cup {uNow}}
        /\ UNCHANGED <<uNow, uBy, uMain, uMarked, uClaims, uHead, uTip, uSha, uForgot>>
        /\ uOwn' = [uOwn EXCEPT ![uNow] = IF ready /\ @ \in {"draft", "wip"} THEN "ready" ELSE @]
    BY <1>5 DEF Finishes, uTables, InPipeline
  <2>2. SignalTypes'
    BY <2>1, <1>1 DEF SignalTypes, PullStates
  <2>3. ASSUME SignalsHonest PROVE SignalsHonest'
    <3>1. \A p \in Agents : uOwn'[p] = uOwn[p] \/ (p = uNow /\ uOwn[p] \in {"draft", "wip"} /\ uOwn'[p] = "ready")
      BY <2>1, <1>1 DEF SignalTypes
    <3>2. FinishShown' /\ CreditedRight'
      BY <2>1, <2>3, <3>1, <1>1 DEF SignalsHonest, FinishShown, CreditedRight, SignalTypes, Agents
    <3>3. EarlierClaimed' /\ MainRemembered'
      BY <2>1, <2>3, <3>1, <1>1 DEF SignalsHonest, EarlierClaimed, MainRemembered, SignalTypes, Agents, Main
    <3>4. QED BY <2>1, <3>2, <3>3 DEF SignalsHonest, OnlyItsCommits
  <2>4. QED BY <1>2, <2>2, <2>3 DEF SignalInv
(* Credits.                                                                *)
<1>6. ASSUME NEW p \in Agents, CreditWithoutMarker(p) PROVE SignalInv'
  <2>1. /\ InPipeline /\ p \in _detect_completion_signals(uNow) /\ _merge_and_claim_child_pr(p, TRUE)
        /\ uMain' = TRUE /\ uMarked' = (uMarked \/ (~uMain /\ uOwn[p] = "ready")) /\ uHead' \in {uHead, uTip'}
        /\ UNCHANGED <<uNow, uCopilot, uEvents, uFinished, uBy, uSha, uForgot>>
    BY <1>6 DEF CreditWithoutMarker, _track_main_branch_if_needed, HeadAfterMerge
  <2>2. SignalTypes'
    <3>1. uOwn' \in [Agents -> PullStates] /\ uTip' \in Nat
      BY <2>1, <1>1 DEF _merge_and_claim_child_pr, SignalTypes, PullStates
    <3>2. QED BY <2>1, <3>1, <1>1 DEF SignalTypes
  <2>3. ASSUME SignalsHonest PROVE SignalsHonest'
    <3>1. uNow \in uFinished
      BY <2>1, <2>3, <1>1, SignalIsHonest
    <3>2. /\ uClaims \subseteq uClaims'
          /\ \A q \in Agents \ {Main} : q = uNow /\ uOwn'[q] # "none" => <<q, q>> \in uClaims'
          /\ \A q, b \in Agents : <<q, b>> \in uClaims' => <<q, q>> \in uClaims'
          /\ \A q \in Agents : uOwn'[q] # uOwn[q] => q = uNow /\ uOwn'[q] = "merged" /\ uOwn[q] # "none"
          /\ uOwn'[Main] = uOwn[Main]
      BY <2>1, <2>3, <1>1, MergeKept
    <3>3. FinishShown' /\ CreditedRight'
      BY <2>1, <2>3, <3>1, <3>2, <1>1 DEF SignalsHonest, FinishShown, CreditedRight, SignalTypes, Agents
    <3>4. EarlierClaimed' /\ MainRemembered'
      BY <2>1, <2>3, <3>2, <1>1 DEF SignalsHonest, EarlierClaimed, MainRemembered, SignalTypes, Agents, Main
    <3>5. QED BY <2>1, <3>1, <3>3, <3>4 DEF SignalsHonest, OnlyItsCommits
  <2>4. QED BY <1>2, <2>2, <2>3 DEF SignalInv
<1>7. ASSUME NEW p \in Agents, NEW merges \in BOOLEAN, NEW works \in BOOLEAN, NEW fetched \in BOOLEAN,
             Credit(p, merges, works, fetched)
      PROVE  SignalInv'
  <2>1. /\ InPipeline /\ p \in _detect_completion_signals(uNow) /\ _merge_and_claim_child_pr(p, merges)
        /\ uMain' = TRUE /\ uMarked' = (uMarked \/ uOwn[Main] = "ready") /\ uHead' \in {uHead, uTip'}
        /\ uBy' = [uBy EXCEPT ![uNow] = p] /\ uNow' = uNow + 1 /\ uCopilot' \in BOOLEAN /\ uSha' = uTip'
        /\ UNCHANGED <<uEvents, uFinished, uForgot>>
    BY <1>7 DEF Credit, RemembersReady, AssignNext, _determine_base_ref, HeadAfterMerge
  <2>2. SignalTypes'
    <3>1. uOwn' \in [Agents -> PullStates] /\ uTip' \in Nat
      BY <2>1, <1>1 DEF _merge_and_claim_child_pr, SignalTypes, PullStates
    <3>2. uNow' \in 0..(MaxAgents + 1) /\ uBy' \in [Agents -> Agents \cup {0}]
      BY <2>1, <1>1 DEF InPipeline, SignalTypes, Agents
    <3>3. QED BY <2>1, <3>1, <3>2, <1>1 DEF SignalTypes
  <2>3. ASSUME SignalsHonest PROVE SignalsHonest'
    <3>1. uNow \in uFinished /\ p \in {Main, uNow} /\ uNow \in Agents
      BY <2>1, <2>3, <1>1, SignalIsHonest DEF InPipeline
    <3>2. /\ uClaims \subseteq uClaims'
          /\ \A q \in Agents \ {Main} : q = uNow /\ uOwn'[q] # "none" => <<q, q>> \in uClaims'
          /\ \A q, b \in Agents : <<q, b>> \in uClaims' => <<q, q>> \in uClaims'
          /\ \A q \in Agents : uOwn'[q] # uOwn[q] => q = uNow /\ uOwn'[q] = "merged" /\ uOwn[q] # "none"
          /\ uOwn'[Main] = uOwn[Main]
      BY <2>1, <2>3, <1>1, MergeKept
    <3>3. FinishShown'
      <4>1. \A q \in Agents : q > uNow' => q > uNow
        BY <2>1, <1>1 DEF SignalTypes, Agents
      <4>2. QED BY <2>1, <2>3, <3>1, <3>2, <4>1 DEF SignalsHonest, FinishShown
    <3>4. CreditedRight'
      BY <2>1, <2>3, <3>1, <1>1 DEF SignalsHonest, CreditedRight, SignalTypes
    <3>5. EarlierClaimed'
      <4>1. \A q \in Agents : q < uNow' => q < uNow \/ q = uNow
        BY <2>1, <1>1 DEF SignalTypes, Agents
      <4>2. QED BY <2>1, <2>3, <3>2, <4>1 DEF SignalsHonest, EarlierClaimed
    <3>6. MainRemembered'
      BY <2>1, <3>2 DEF MainRemembered
    <3>7. QED BY <2>1, <3>3, <3>4, <3>5, <3>6 DEF SignalsHonest, OnlyItsCommits
  <2>4. QED BY <1>2, <2>2, <2>3 DEF SignalInv
(* What the process forgets.                                               *)
<1>8. ASSUME NEW how \in {"evict", "rebuild"}, Reconstructed(how) \/ SignalRestart PROVE SignalInv'
  <2>1. /\ InPipeline /\ uSha' \in {uSha, uTip, uHead} /\ uMarked' \in BOOLEAN
        /\ UNCHANGED <<uNow, uCopilot, uOwn, uEvents, uFinished, uTip, uBy, uMain, uHead>>
    BY <1>8, <1>1 DEF Reconstructed, SignalRestart, uWork, SignalTypes
  <2>2. SignalTypes'
    BY <2>1, <1>1 DEF SignalTypes
  <2>3. ASSUME SignalsHonest, ~uForgot' PROVE SignalsHonest'
    <3>1. Reconstructed(how) /\ uSha' = uTip
      BY <1>8, <2>3 DEF Reconstructed, SignalRestart
    <3>2. uMarked => uMarked'
      BY <3>1 DEF Reconstructed
    <3>3. uClaims' = IF uMain THEN uClaims \cup ({q \in Children : uOwn[q] = "merged"} \X Agents) ELSE uClaims
      BY <3>1 DEF Reconstructed, _claim_merged_child_prs_for_pipeline
    <3>4. FinishShown' /\ CreditedRight'
      BY <2>1, <2>3 DEF SignalsHonest, FinishShown, CreditedRight
    <3>5. EarlierClaimed'
      BY <2>1, <2>3, <3>3 DEF SignalsHonest, EarlierClaimed, Children
    <3>6. MainRemembered' /\ OnlyItsCommits'
      BY <2>1, <2>3, <3>1, <3>2 DEF SignalsHonest, MainRemembered, OnlyItsCommits
    <3>7. QED BY <3>4, <3>5, <3>6 DEF SignalsHonest
  <2>4. QED BY <1>2, <2>2, <2>3 DEF SignalInv
<1>9. CASE UNCHANGED uVars
  BY <1>9 DEF uVars, SignalInv, SignalTypes, SignalsHonest, FinishShown, EarlierClaimed, MainRemembered, OnlyItsCommits,
     CreditedRight, InPipeline
<1>10. CASE AgentWorks
  BY <1>10, <1>4, <1>5 DEF AgentWorks
<1>11. CASE CreditSome
  BY <1>11, <1>6, <1>7 DEF CreditSome
<1>12. QED BY <1>3, <1>8, <1>9, <1>10, <1>11 DEF SignalNext

(* No agent is credited, and so no successor started, before it has        *)
(* finished, and a child pull request counts for one agent, whatever pull  *)
(* requests of others lie about and whatever call failed, for any number of*)
(* agents; unless a restart emptied the claims or a state was rebuilt      *)
(* (copilot_polling/agent_output.py, completion.py).                       *)
THEOREM CreditIsFair == SignalSpec => []CreditIsTrue
<1>1. SignalInv => CreditIsTrue
  BY DEF SignalInv, SignalsHonest, CreditedRight, CreditIsTrue, CreditIsEarned, OneCreditPerChild
<1>2. QED BY <1>1, SignalStarts, SignalKept, PTL DEF SignalSpec

---------------------------------------------------------------------------
(* The review.  A time on record is that of a request, of this cycle or of *)
(* an earlier one; no review is later than the clock but one that is there *)
(* before the turn, and one that is a buffer later than the first request  *)
(* was made after it; the marker is older than the report of the agent     *)
(* before.                                                                 *)
Recorded(t) == t \in Nat /\ (t # 0 => cEarliest # 0 /\ t >= cEarliest)
Given(r) == r \in Nat /\ r <= cNow /\ (cEarliest # 0 /\ r >= cEarliest + ReviewBuffer => cGood)
MarkerIsOld == cMarker = NoMarker \/ (Recorded(cMarker.asked) /\ cMarker.at < cOther)
ReviewInv ==
    /\ cNow \in Nat /\ cEarliest \in Nat /\ cEarliest <= cNow
    /\ Recorded(cMemory) /\ Recorded(cRow) /\ Recorded(cBody) /\ (cNow = 0 => ~cAccepted)
    /\ \A r \in cReviews : Given(r)
    /\ MarkerIsOld /\ ReviewWasAskedFor

LEMMA ReviewStarts == ReviewInit => ReviewInv
BY DEF ReviewInit, ReviewInv, Recorded, MarkerIsOld, ReviewWasAskedFor

(* A request, whatever of it gets recorded, is no earlier than the first,  *)
(* and the reviews there are were made before its buffer began.            *)
LEMMA RequestKept ==
  ASSUME ReviewInv, Waiting, request_copilot_review, cReviews' \subseteq cReviews, UNCHANGED <<cNow, cOther, cGood, cAccepted>>,
         {cMemory', cRow', cBody'} \subseteq {cMemory, cRow, cBody, cNow}, cMarker' \in {cMarker, NoMarker}
  PROVE  ReviewInv'
<1> USE ReviewAssumption
<1>1. /\ cEarliest' = (IF cEarliest = 0 THEN cNow ELSE cEarliest) /\ cNow \in Nat /\ cNow > 0
      /\ cEarliest \in Nat /\ cEarliest <= cNow
  BY DEF request_copilot_review, ReviewInv, Waiting
<1>2. cEarliest' \in Nat /\ cEarliest' # 0 /\ cEarliest' <= cNow
  BY <1>1 DEF request_copilot_review
<1>3. /\ \A t \in {cMemory, cRow, cBody, cNow} : Recorded(t)'
      /\ cMarker # NoMarker => Recorded(cMarker.asked) /\ \A t : Recorded(t) => Recorded(t)'
  BY <1>1, <1>2 DEF ReviewInv, Recorded, MarkerIsOld
<1>4. ASSUME NEW r \in cReviews' PROVE Given(r)'
  BY <1>1, <1>2 DEF ReviewInv, Given
<1>5. MarkerIsOld' /\ ReviewWasAskedFor'
  <2>1. CASE cMarker' = NoMarker
    BY <2>1 DEF ReviewInv, MarkerIsOld, ReviewWasAskedFor
  <2>2. CASE cMarker' = cMarker /\ cMarker # NoMarker
    BY <1>3, <2>2 DEF ReviewInv, MarkerIsOld, ReviewWasAskedFor, Recorded
  <2>3. QED BY <2>1, <2>2
<1>6. Recorded(cMemory)' /\ Recorded(cRow)' /\ Recorded(cBody)'
  BY <1>3
<1>7. QED BY <1>1, <1>2, <1>4, <1>5, <1>6 DEF ReviewInv

(* A step that asks for nothing new and sees no new review.                *)
LEMMA NothingAsked ==
  ASSUME ReviewInv, UNCHANGED <<cLast, cEarliest, cGood>>, cReviews' = cReviews, cOther' = cOther,
         cNow' \in {cNow, cNow + 1},
         Recorded(cMemory'), Recorded(cRow'), Recorded(cBody'), cMarker' \in {cMarker, NoMarker},
         cNow' # cNow => cNow # 0, cAccepted' => cAccepted \/ (cGood /\ cNow # 0)
  PROVE  ReviewInv'
<1>1. ASSUME NEW r \in cReviews' PROVE Given(r)'
  BY DEF ReviewInv, Given
<1>2. MarkerIsOld' /\ ReviewWasAskedFor'
  BY DEF ReviewInv, MarkerIsOld, ReviewWasAskedFor, Recorded
<1>3. Recorded(cMemory)' /\ Recorded(cRow)' /\ Recorded(cBody)'
  BY DEF Recorded
<1>4. QED BY <1>1, <1>2, <1>3 DEF ReviewInv

(* The time of the request is that of one that was made, no marker counts, *)
(* and a review that does was made after the first request.                *)
LEMMA RequestTimeHonest ==
  ASSUME ReviewInv
  PROVE  /\ Recorded(RequestTime) /\ Recorded(0) /\ ~MarkerCounts
         /\ RequestTime # 0 /\ Reviewed => cGood
<1> USE ReviewAssumption
<1>1. Recorded(RequestTime) /\ Recorded(0)
  BY DEF ReviewInv, RequestTime, Recorded, MarkerIsOld, NoMarker
<1>2. ~MarkerCounts
  BY DEF ReviewInv, MarkerIsOld, MarkerCounts, MarkerStale
<1>3. ASSUME RequestTime # 0, Reviewed PROVE cGood
  <2>1. PICK r \in cReviews : r > RequestTime + ReviewBuffer
    BY <1>3 DEF Reviewed
  <2>2. RequestTime \in Nat /\ cEarliest # 0 /\ RequestTime >= cEarliest /\ Given(r) /\ cEarliest \in Nat
    BY <1>1, <1>3 DEF ReviewInv, Recorded
  <2>3. QED BY <2>1, <2>2 DEF Given
<1>4. QED BY <1>1, <1>2, <1>3

LEMMA ReviewKept == ReviewInv /\ [ReviewNext]_cVars => ReviewInv'
<1> SUFFICES ASSUME ReviewInv, [ReviewNext]_cVars PROVE ReviewInv'
  OBVIOUS
<1> USE ReviewAssumption
<1>1. ASSUME NEW asked \in EarlierRequests, NEW m \in BOOLEAN, NEW rs \in SUBSET {1, 3}, TurnBegins(asked, m, rs)
      PROVE  ReviewInv'
  <2>1. /\ cNow' = 3 /\ cOther' = 3 /\ cReviews' = rs /\ cMemory' = asked /\ cRow' = asked /\ cBody' = asked
        /\ cMarker' \in {[at |-> 2, asked |-> asked], NoMarker} /\ UNCHANGED cAccepted
        /\ cEarliest' = asked /\ cGood' = (asked # 0 /\ \E r \in rs : r >= asked + ReviewBuffer)
    BY <1>1 DEF TurnBegins
  <2>2. asked \in 0..1 /\ ~cAccepted
    BY <1>1 DEF TurnBegins, ReviewInv
  <2>3. Recorded(asked)' /\ MarkerIsOld'
    BY <2>1, <2>2 DEF Recorded, MarkerIsOld
  <2>4. ASSUME NEW r \in rs PROVE Given(r)'
    <3>1. r \in {1, 3} /\ (asked # 0 /\ r >= asked + ReviewBuffer => cGood')
      BY <2>1
    <3>2. QED BY <2>1, <2>2, <3>1 DEF Given
  <2>5. Recorded(cMemory)' /\ Recorded(cRow)' /\ Recorded(cBody)' /\ ReviewWasAskedFor'
    BY <2>1, <2>2, <2>3 DEF Recorded, ReviewWasAskedFor
  <2>6. QED BY <2>1, <2>2, <2>3, <2>4, <2>5 DEF ReviewInv
<1>2. ASSUME NEW lost, NEW fails \in BOOLEAN, _handle_copilot_review(lost, fails) \/ ensure_copilot_review_requested(lost, fails)
      PROVE  ReviewInv'
  <2>1. CASE ~fails
    BY <1>2, <2>1, RequestKept DEF _handle_copilot_review, ensure_copilot_review_requested, Request,
       _record_copilot_review_request_timestamp, dismiss_copilot_reviews
  <2>2. CASE fails
    BY <1>2, <2>2, NothingAsked DEF _handle_copilot_review, ensure_copilot_review_requested, cTimes, ReviewInv
  <2>3. QED BY <2>1, <2>2
<1>3. CASE MarkerAccepted
  BY <1>3, RequestTimeHonest DEF MarkerAccepted
<1>4. ASSUME NEW kept \in BOOLEAN, NEW lost, CheckRequests(lost, kept) PROVE ReviewInv'
  BY <1>4, RequestKept DEF CheckRequests, CheckBegins, MarkerAfter, Request,
     _record_copilot_review_request_timestamp, dismiss_copilot_reviews
<1>5. ASSUME NEW kept \in BOOLEAN, CheckAsksAgain(kept) \/ \E posted \in BOOLEAN : CheckConfirms(kept, posted) PROVE ReviewInv'
  <2>1. /\ UNCHANGED <<cNow, cRow, cBody, cOther, cReviews, cLast, cEarliest, cGood>> /\ cMemory' = RequestTime
        /\ cMarker' \in {cMarker, NoMarker} /\ (cAccepted' => cAccepted \/ (RequestTime # 0 /\ Reviewed)) /\ cNow > 0
    BY <1>5 DEF CheckAsksAgain, CheckConfirms, CheckBegins, MarkerAfter, Waiting
  <2>2. Recorded(cMemory') /\ (cAccepted' => cAccepted \/ (cGood /\ cNow # 0))
    BY <2>1, RequestTimeHonest
  <2>3. QED BY <2>1, <2>2, NothingAsked DEF ReviewInv
<1>6. CASE ReviewTick \/ ReviewRestart \/ UNCHANGED cVars
  <2>1. /\ UNCHANGED <<cReviews, cLast, cEarliest, cGood, cOther, cMarker, cAccepted>>
        /\ cNow' \in {cNow, cNow + 1} /\ (cNow' # cNow => cNow # 0)
        /\ cMemory' \in {cMemory, 0} /\ cRow' = cRow /\ cBody' = cBody
    <3>1. CASE ReviewTick
      BY <3>1 DEF ReviewTick, cTimes, cPull, Waiting, ReviewInv
    <3>2. CASE ReviewRestart
      BY <3>2 DEF ReviewRestart, cPull
    <3>3. CASE UNCHANGED cVars
      BY <3>3 DEF cVars
    <3>4. QED BY <1>6, <3>1, <3>2, <3>3
  <2>2. Recorded(cMemory') /\ Recorded(cRow') /\ Recorded(cBody')
    BY <2>1, RequestTimeHonest DEF ReviewInv
  <2>3. QED BY <2>1, <2>2, NothingAsked
<1>7. ASSUME NEW asked \in BOOLEAN, CopilotReviews(asked) PROVE ReviewInv'
  <2>1. /\ cReviews' = cReviews \cup {cNow} /\ cGood' = (cGood \/ (cEarliest # 0 /\ cNow >= cEarliest + ReviewBuffer))
        /\ UNCHANGED <<cNow, cMemory, cRow, cBody, cMarker, cOther, cLast, cEarliest, cAccepted>>
    BY <1>7 DEF CopilotReviews, cTimes
  <2>2. ASSUME NEW r \in cReviews' PROVE Given(r)'
    <3>1. CASE r \in cReviews
      BY <2>1, <3>1 DEF ReviewInv, Given
    <3>2. CASE r = cNow
      <4>1. cEarliest # 0 /\ cNow >= cEarliest + ReviewBuffer => cGood'
        BY <2>1
      <4>2. QED BY <2>1, <3>2, <4>1 DEF ReviewInv, Given
    <3>3. QED BY <2>1, <3>1, <3>2
  <2>3. QED BY <2>1, <2>2 DEF ReviewInv, Recorded, MarkerIsOld, ReviewWasAskedFor
<1>8. QED BY <1>1, <1>2, <1>3, <1>4, <1>5, <1>6, <1>7 DEF ReviewNext, CheckReview

(* The review step is done only when Copilot has reviewed a buffer after an*)
(* explicit request, of this cycle or an earlier one, whatever is lost,    *)
(* restarted or left over, for any buffer (copilot_polling/completion.py,  *)
(* helpers.py).                                                            *)
THEOREM ReviewedOnRequest == ReviewSpec => []ReviewWasAskedFor
<1>1. ReviewInv => ReviewWasAskedFor
  BY DEF ReviewInv
<1>2. QED BY <1>1, ReviewKept, ReviewStarts, PTL DEF ReviewSpec

---------------------------------------------------------------------------
(* A planned app.  Waves are worked off one after another: what has been   *)
(* tried is the waves behind the task and a part of the current one, whose *)
(* dependencies all lie behind it.  A row is active only at the end of a   *)
(* task that has made an issue and tried a launch for each phase.          *)
Statuses == {"none", "planning", "speckit_running", "parsing_phases", "creating_issues", "launching_pipelines", "active", "failed"}
BeforeLaunch == {"plan", "issue", "assign", "wait", "read", "close_ok", "close_failed", "parse", "phases"}
AfterLaunch == {"save", "fail", "save_failed", "idle"}
Untried == aTried = {} /\ aResolved = {}
WaveByWave ==
    /\ aResolved \subseteq aTried /\ aTried \subseteq aResolved \cup CurrentWave
    /\ \A p \in aResolved : aPlan[p] \subseteq aResolved
AllTried == aTried = DOMAIN aPlan /\ aMade = Cardinality(DOMAIN aPlan)
AppPlanInv ==
    /\ aRow \in [status : Statuses, issues : Nat] /\ aMade \in Nat
    /\ aRow.status = "none" => aAt = "idle" /\ Untried
    /\ aAt \in BeforeLaunch => Untried
    /\ WaveByWave
    /\ aAt = "launch" => aMade = Cardinality(DOMAIN aPlan)
    /\ aAt \in {"activate", "save"} => AllTried
    /\ aRow.status = "active" => AllTried /\ aAt \in AfterLaunch
    /\ PlanningIssueClosed

LEMMA AppPlanStarts == AppPlanInit => AppPlanInv
BY DEF AppPlanInit, AppPlanInv, Untried, WaveByWave, PlanningIssueClosed, BeforeLaunch, Statuses, CurrentWave, group_into_waves

(* A step that leaves the plan and its launches alone: the task moves on,  *)
(* the row with it.                                                        *)
LEMMA TaskMoves ==
  ASSUME AppPlanInv, UNCHANGED <<aPlan, aTried, aResolved>>, aMade' \in Nat,
         aRow' \in [status : Statuses, issues : Nat],
         aAt' = "launch" => aMade' = Cardinality(DOMAIN aPlan),
         aAt' \in {"activate", "save"} => AllTried /\ aMade' = aMade,
         aRow'.status = "none" => aRow.status = "none" /\ aAt' = aAt,
         aAt' \in BeforeLaunch => Untried,
         aRow'.status = "active" => AllTried /\ aMade' = aMade /\ aAt' \in AfterLaunch,
         PlanningIssueClosed'
  PROVE  AppPlanInv'
BY DEF AppPlanInv, Untried, WaveByWave, CurrentWave, group_into_waves, AllTried

(* What a write of the row leaves in it.                                   *)
LEMMA StatusWritten ==
  ASSUME aRow \in [status : Statuses, issues : Nat], aMade \in Nat, NEW status \in Statuses, NEW issues \in Nat,
         _update_status(status) \/ Saved(status, issues)
  PROVE  /\ aRow' \in [status : Statuses, issues : Nat] /\ aRow'.status \in {aRow.status, status}
         /\ aLost \subseteq aLost'
BY DEF _update_status, Saved, aRest, PlanFault

LEMMA AppPlanKept == AppPlanInv /\ [AppPlanNext]_aVars => AppPlanInv'
<1> SUFFICES ASSUME AppPlanInv, [AppPlanNext]_aVars PROVE AppPlanInv'
  OBVIOUS
<1>1. /\ aRow \in [status : Statuses, issues : Nat] /\ aMade \in Nat
      /\ aRow.status = "none" => aAt = "idle" /\ Untried
      /\ aAt \in BeforeLaunch => Untried
      /\ WaveByWave
      /\ aAt = "launch" => aMade = Cardinality(DOMAIN aPlan)
      /\ aAt \in {"activate", "save"} => AllTried
      /\ aRow.status = "active" => AllTried /\ aAt \in AfterLaunch
      /\ PlanningIssueClosed
  BY DEF AppPlanInv
<1>2. CASE create_with_plan
  <2>1. /\ aRow' = [status |-> "planning", issues |-> 0] /\ aAt' = "plan" /\ aRow.status = "none"
        /\ UNCHANGED <<aPlan, aPlanning, aMade, aTried, aResolved, aLost>>
    BY <1>2 DEF create_with_plan, Enter, aWork, aRest
  <2>2. PlanningIssueClosed'
    BY <2>1, <1>1 DEF PlanningIssueClosed, SpeckitStages
  <2>3. aRow' \in [status : Statuses, issues : Nat] /\ aRow'.status = "planning"
    BY <2>1 DEF Statuses
  <2>4. QED BY <2>1, <2>2, <2>3, <1>1, TaskMoves
<1>3. CASE \/ _run_plan_agent \/ Activate \/ _save_orchestration \/ MarkFailed \/ SaveFailed
  <2>1. /\ UNCHANGED <<aPlan, aPlanning, aMade, aTried, aResolved>>
        /\ \/ aAt = "plan" /\ aAt' = "issue" /\ _update_status("speckit_running")
           \/ aAt = "activate" /\ aAt' = "save" /\ _update_status("active")
           \/ aAt = "save" /\ aAt' = "idle" /\ Saved("active", aMade)
           \/ aAt = "fail" /\ aAt' = "save_failed" /\ _update_status("failed")
           \/ aAt = "save_failed" /\ aAt' = "idle" /\ Saved("failed", aRow.issues)
    BY <1>3 DEF _run_plan_agent, Activate, _save_orchestration, MarkFailed, SaveFailed, Enter, aWork
  <2>2. /\ aRow' \in [status : Statuses, issues : Nat] /\ aLost \subseteq aLost'
        /\ aRow'.status \in {aRow.status} \cup (IF aAt \in {"activate", "save"} THEN {"active"} ELSE {"speckit_running", "failed"})
    BY <2>1, <1>1, StatusWritten DEF Statuses
  <2>3. PlanningIssueClosed'
    BY <2>1, <2>2, <1>1 DEF PlanningIssueClosed, SpeckitStages
  <2>4. QED BY <2>1, <2>2, <2>3, <1>1, TaskMoves DEF BeforeLaunch, AfterLaunch
<1>4. CASE OpenPlanningIssue \/ AssignSpeckit \/ (\E done \in BOOLEAN : PollSpeckit(done)) \/ (\E found \in BOOLEAN : ReadPlan(found))
  <2>1. /\ UNCHANGED <<aRow, aPlan, aMade, aTried, aResolved, aLost>>
        /\ aAt \in {"issue", "assign", "wait", "read"} /\ aAt' \in SpeckitStages
    BY <1>4 DEF OpenPlanningIssue, AssignSpeckit, PollSpeckit, ReadPlan, Proceeds, Enter, aWork, aRest, SpeckitStages
  <2>2. PlanningIssueClosed'
    BY <2>1 DEF PlanningIssueClosed
  <2>3. QED BY <2>1, <2>2, <1>1, TaskMoves DEF BeforeLaunch, AfterLaunch, SpeckitStages
<1>5. CASE ClosePlanningIssue \/ ClosingFails
  <2>1. /\ UNCHANGED <<aPlan, aMade, aTried, aResolved>> /\ aAt \in {"close_ok", "close_failed"}
        /\ aAt' \in {"parse", "fail"}
    BY <1>5 DEF ClosePlanningIssue, Outcome, ClosingFails, Proceeds, Enter, aWork
  <2>2. aRow' \in [status : Statuses, issues : Nat] /\ aRow'.status \in {aRow.status, "parsing_phases"}
    <3>1. CASE ClosePlanningIssue
      BY <3>1, <1>1, StatusWritten DEF ClosePlanningIssue, Outcome, Proceeds, aRest, Statuses
    <3>2. CASE ClosingFails
      BY <3>2, <1>1 DEF ClosingFails, Statuses
    <3>3. QED BY <1>5, <3>1, <3>2
  <2>3. PlanningIssueClosed'
    BY <1>5, <2>1 DEF ClosePlanningIssue, CloseAlways, ClosingFails, PlanningIssueClosed
  <2>4. QED BY <2>1, <2>2, <2>3, <1>1, TaskMoves DEF BeforeLaunch, AfterLaunch
<1>6. ASSUME NEW plan \in Plans, ParsePlan(plan) PROVE AppPlanInv'
  <2>1. /\ aAt = "parse" /\ aAt' \in {"phases", "fail"} /\ UNCHANGED <<aPlanning, aMade, aTried, aResolved>>
        /\ aRow' \in [status : Statuses, issues : Nat] /\ aRow'.status \in {aRow.status, "creating_issues"}
        /\ aLost \subseteq aLost'
    BY <1>6, <1>1, StatusWritten DEF ParsePlan, Enter, Proceeds, aRest, Statuses
  <2>2. Untried /\ Untried' /\ aRow.status \notin {"none", "active"}
    BY <2>1, <1>1 DEF BeforeLaunch, AfterLaunch, Untried
  <2>3. WaveByWave' /\ PlanningIssueClosed'
    BY <2>1, <2>2, <1>1 DEF WaveByWave, Untried, PlanningIssueClosed, SpeckitStages
  <2>4. QED BY <2>1, <2>2, <2>3, <1>1 DEF AppPlanInv, AfterLaunch
<1>7. CASE _create_phase_issues
  <2>1. /\ aAt = "phases" /\ aMade' = aMade + 1 /\ UNCHANGED <<aPlan, aPlanning, aTried, aResolved>>
        /\ aAt' \in {"phases", "launch"} /\ (aAt' = "launch" => aMade' = Cardinality(DOMAIN aPlan))
        /\ aRow' \in [status : Statuses, issues : Nat] /\ aRow'.status \in {aRow.status, "launching_pipelines"}
        /\ aLost \subseteq aLost'
    BY <1>7, <1>1, StatusWritten DEF _create_phase_issues, Enter, Proceeds, aRest, Statuses
  <2>2. PlanningIssueClosed' /\ Untried /\ aRow.status \notin {"none", "active"}
    BY <2>1, <1>1 DEF PlanningIssueClosed, SpeckitStages, BeforeLaunch, AfterLaunch
  <2>3. QED BY <2>1, <2>2, <1>1, TaskMoves
<1>8. ASSUME NEW launches \in BOOLEAN, _launch_phase_pipelines(launches) PROVE AppPlanInv'
  <2>1. PICK p \in CurrentWave \ aTried : aTried' = aTried \cup {p}
    BY <1>8 DEF _launch_phase_pipelines
  <2>2. /\ aResolved' = IF CurrentWave \subseteq aTried' THEN aResolved \cup CurrentWave ELSE aResolved
        /\ aAt = "launch" /\ aAt' = (IF aTried' = DOMAIN aPlan THEN "activate" ELSE "launch")
        /\ UNCHANGED <<aRow, aPlan, aPlanning, aMade, aLost>>
    BY <1>8 DEF _launch_phase_pipelines
  <2>3. WaveByWave'
    BY <2>1, <2>2, <1>1 DEF WaveByWave, CurrentWave, group_into_waves
  <2>4. PlanningIssueClosed' /\ aRow.status \notin {"none", "active"}
    BY <2>2, <1>1 DEF PlanningIssueClosed, SpeckitStages, AfterLaunch
  <2>5. QED BY <2>2, <2>3, <2>4, <1>1 DEF AppPlanInv, BeforeLaunch, AllTried
<1>9. CASE orchestration_fails \/ TimesOutLate \/ RestartAppPlan
  <2>1. /\ UNCHANGED <<aRow, aPlan, aPlanning, aMade, aTried, aResolved>> /\ aLost \subseteq aLost' /\ aAt # "idle"
        /\ aAt' \in {"close_failed", "fail", "idle"} /\ (aAt' = "close_failed" => aAt \in SpeckitStages)
    BY <1>9 DEF orchestration_fails, TimesOutLate, RestartAppPlan, Enter, aWork
  <2>2. aAt' \notin SpeckitStages => aAt \notin SpeckitStages \/ aLost' \cap {"planning", "task"} # {}
    BY <1>9 DEF orchestration_fails, TimesOutLate, RestartAppPlan, Enter, SpeckitStages
  <2>3. PlanningIssueClosed'
    BY <2>1, <2>2, <1>1 DEF PlanningIssueClosed
  <2>4. QED BY <2>1, <2>3, <1>1, TaskMoves DEF BeforeLaunch, AfterLaunch, SpeckitStages
<1>10. CASE cancel_plan_orchestration \/ UNCHANGED aVars
  <2>1. /\ UNCHANGED <<aAt, aPlan, aPlanning, aMade, aTried, aResolved, aLost>>
        /\ aRow' \in [status : Statuses, issues : Nat] /\ aRow'.status \in {aRow.status, "failed"}
    BY <1>10, <1>1 DEF cancel_plan_orchestration, aVars, aWork, Statuses
  <2>2. PlanningIssueClosed'
    BY <2>1, <1>1 DEF PlanningIssueClosed
  <2>3. QED BY <2>1, <2>2, <1>1, TaskMoves
<1>11. QED BY <1>2, <1>3, <1>4, <1>5, <1>6, <1>7, <1>8, <1>9, <1>10 DEF AppPlanNext, AppPlanStep

(* While nothing has failed every launch that was tried was made.          *)
LaunchInv == aFaults \in Nat /\ aLaunched \subseteq aTried /\ (aFaults = 0 => aLaunched = aTried)
LEMMA LaunchesStart == AppPlanInit => LaunchInv
BY DEF AppPlanInit, LaunchInv

LEMMA LaunchesCounted == LaunchInv /\ [AppPlanNext]_aVars => LaunchInv'
<1> SUFFICES ASSUME LaunchInv, [AppPlanNext]_aVars PROVE LaunchInv'
  OBVIOUS
<1>1. ASSUME NEW launches \in BOOLEAN, _launch_phase_pipelines(launches) PROVE LaunchInv'
  <2>1. CASE launches
    BY <1>1, <2>1 DEF _launch_phase_pipelines, LaunchInv
  <2>2. CASE ~launches
    BY <1>1, <2>2 DEF _launch_phase_pipelines, PlanFault, LaunchInv
  <2>3. QED BY <2>1, <2>2
<1>2. ASSUME UNCHANGED <<aTried, aLaunched>>, aFaults' = aFaults \/ PlanFault PROVE LaunchInv'
  BY <1>2 DEF LaunchInv, PlanFault
<1>3. CASE create_with_plan \/ _run_plan_agent \/ Activate \/ _save_orchestration \/ MarkFailed \/ SaveFailed
  BY <1>2, <1>3 DEF create_with_plan, _run_plan_agent, Activate, _save_orchestration, MarkFailed, SaveFailed,
     _update_status, Saved, aWork, aRest
<1>4. CASE OpenPlanningIssue \/ AssignSpeckit \/ (\E done \in BOOLEAN : PollSpeckit(done)) \/ (\E found \in BOOLEAN : ReadPlan(found))
  BY <1>2, <1>4 DEF OpenPlanningIssue, AssignSpeckit, PollSpeckit, ReadPlan, Proceeds, aWork, aRest
<1>5. CASE ClosePlanningIssue \/ ClosingFails \/ _create_phase_issues \/ \E plan \in Plans : ParsePlan(plan)
  BY <1>2, <1>5 DEF ClosePlanningIssue, ClosingFails, Outcome, _create_phase_issues, ParsePlan, Proceeds,
     _update_status, aWork, aRest
<1>6. CASE orchestration_fails \/ TimesOutLate \/ cancel_plan_orchestration \/ RestartAppPlan \/ UNCHANGED aVars
  BY <1>2, <1>6 DEF orchestration_fails, TimesOutLate, cancel_plan_orchestration, RestartAppPlan, aWork, aVars
<1>7. QED BY <1>1, <1>3, <1>4, <1>5, <1>6 DEF AppPlanNext, AppPlanStep

(* A planning issue is open only while speckit.plan is awaited, unless its *)
(* closing call is lost; the launch of no phase is tried before that of    *)
(* those it depends on, a failed one being passed over; and the row of an  *)
(* app is active only when an issue was made and a launch tried for each   *)
(* phase, and made for each while nothing failed, for any plan             *)
(* (app_plan_orchestrator.py, plan_parser.py).                             *)
THEOREM PlannedAppInOrder == AppPlanSpec => []AppFollowsPlan
<1>1. AppPlanInv /\ LaunchInv => PlanningIssueClosed /\ WavesAreTriedInOrder
  BY DEF AppPlanInv, WaveByWave, CurrentWave, group_into_waves, AllTried, WavesAreTriedInOrder, LaunchInv
<1>2. AppPlanInv /\ LaunchInv => AppFollowsPlan
  BY <1>1 DEF AppFollowsPlan
<1>3. QED BY <1>2, AppPlanStarts, AppPlanKept, LaunchesStart, LaunchesCounted, PTL DEF AppPlanSpec
===============================================================================
