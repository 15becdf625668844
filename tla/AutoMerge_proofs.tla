-------------------------- MODULE AutoMerge_proofs --------------------------
(***************************************************************************)
(* Proofs about the loops of auto-merge: for any number of tasks, webhooks *)
(* and attempts, the tables of pending loops are exact, a DevOps record    *)
(* stands for an agent at work, and the cap on dispatches holds.           *)
(***************************************************************************)
EXTENDS AutoMerge, FiniteSetTheorems, TLAPS

---------------------------------------------------------------------------
(* What runs where: a task runs the loop it was made for, the tables have  *)
(* an entry exactly while a loop runs, and whoever is about to dispatch    *)
(* read a count below the cap.                                             *)
JobsOf(c) ==
    IF c \in Retriers THEN {"retry"} ELSE IF c \in Watchers THEN {"watch"}
    ELSE IF c \in Hooks THEN {"check_run", "check_suite"} ELSE {"transition", "fallback"}
JobsApart == \A c \in Coroutines : Running(c) => frame[c].job \in JobsOf(c)
OneLoop(tasks, pending) ==
    /\ \A s, t \in tasks : Running(s) /\ Running(t) => s = t
    /\ pending <=> \E t \in tasks : Running(t)
SeenBelowCap == \A c \in Coroutines : frame[c].pc = "assign" => frame[c].seen < MaxDevops
LoopTypes ==
    /\ frame \in [Coroutines -> Frame] /\ state \in PipelineState \cup {None}
    /\ pendingRetry \in BOOLEAN /\ pendingWatch \in BOOLEAN
LoopInv ==
    /\ LoopTypes /\ JobsApart /\ SeenBelowCap
    /\ OneLoop(Retriers, pendingRetry) /\ OneLoop(Watchers, pendingWatch)
ReleasesState == \A r \in Retriers : Running(r) /\ frame'[r].pc = "idle" => state' = None

(* The coroutines are of four kinds, and a kind says what its loop is.     *)
LEMMA Kinds ==
  ASSUME NEW c \in Coroutines
  PROVE  /\ c \in Retriers => c \notin Watchers /\ c \notin Hooks /\ c # "polling" /\ JobsOf(c) = {"retry"}
         /\ c \in Watchers => c \notin Retriers /\ c \notin Hooks /\ c # "polling" /\ JobsOf(c) = {"watch"}
         /\ c \in Hooks => c \notin Retriers /\ c \notin Watchers /\ c # "polling" /\ JobsOf(c) = {"check_run", "check_suite"}
         /\ c = "polling" => c \notin Retriers /\ c \notin Watchers /\ c \notin Hooks /\ JobsOf(c) = {"transition", "fallback"}
         /\ c \in Retriers \/ c \in Watchers \/ c \in Hooks \/ c = "polling"
BY TasksAssumption DEF Coroutines, JobsOf

(* A coroutine goes on with its job.                                       *)
LEMMA GoesOn ==
  ASSUME LoopInv, NEW c \in Coroutines, Running(c), NEW f \in Frame,
         frame' = [frame EXCEPT ![c] = f], f.pc \notin {"idle", "over"}, f.job = frame[c].job,
         f.pc = "assign" => f.seen < MaxDevops,
         UNCHANGED <<pendingRetry, pendingWatch>>, state' \in PipelineState \cup {None}
  PROVE  LoopInv' /\ ReleasesState
<1>1. LoopTypes'
  BY DEF LoopInv, LoopTypes
<1>2. /\ frame'[c] = f /\ \A d \in Coroutines : d # c => frame'[d] = frame[d]
  BY DEF LoopInv, LoopTypes
<1>3. \A d \in Coroutines : Running(d)' <=> Running(d)
  BY <1>2 DEF Running
<1>4. JobsApart' /\ SeenBelowCap'
  BY <1>2, <1>3 DEF LoopInv, JobsApart, SeenBelowCap, JobsOf
<1>5. Retriers \subseteq Coroutines /\ Watchers \subseteq Coroutines
  BY DEF Coroutines
<1>6. OneLoop(Retriers, pendingRetry)' /\ OneLoop(Watchers, pendingWatch)'
  BY <1>3, <1>5 DEF LoopInv, OneLoop
<1>7. ReleasesState
  BY <1>2, <1>5 DEF ReleasesState, Running
<1>8. QED BY <1>1, <1>4, <1>6, <1>7 DEF LoopInv

(* A coroutine leaves its job; what it releases and which table entry it   *)
(* takes away are those of its loop.                                       *)
LEMMA Leaves ==
  ASSUME LoopInv, NEW c \in Coroutines, Running(c), Leave(c)
  PROVE  LoopInv' /\ ReleasesState
<1>1. /\ frame \in [Coroutines -> Frame] /\ frame[c] \in Frame /\ frame[c].job \in JobsOf(c)
      /\ pendingRetry \in BOOLEAN /\ pendingWatch \in BOOLEAN /\ state \in PipelineState \cup {None}
  BY DEF LoopInv, LoopTypes, JobsApart
<1>2. /\ frame'[c] = AfterJob(c) /\ \A d \in Coroutines : d # c => frame'[d] = frame[d]
      /\ pendingRetry' = (pendingRetry /\ frame[c].job # "retry")
      /\ pendingWatch' = (pendingWatch /\ frame[c].job # "watch")
  BY <1>1 DEF Leave, EndLoops
<1>3. /\ c = "polling" => c \notin Hooks /\ frame[c].job \in {"transition", "fallback"}
      /\ c \in Hooks => frame[c].job \in {"check_run", "check_suite"}
      /\ c \in Retriers => frame[c].job = "retry"
      /\ c \in Watchers => frame[c].job = "watch"
      /\ frame[c].job = "transition" => c = "polling"
      /\ frame[c].job = "retry" <=> c \in Retriers
      /\ frame[c].job = "watch" <=> c \in Watchers
  BY <1>1, Kinds
<1>4. Idle \in Frame
  BY DEF Idle, Frame, PCs
<1>5. AfterJob(c) \in Frame /\ AfterJob(c).pc # "assign"
  BY <1>1, <1>4 DEF AfterJob, Frame, PCs, Idle
<1>6. LoopTypes'
  BY <1>1, <1>2, <1>5 DEF LoopTypes, Leave
<1>7. \A d \in Coroutines : Running(d)' <=> Running(d) /\ (d = c => frame[c].job = "transition")
  BY <1>2, <1>1 DEF Running, AfterJob, Idle, Frame
<1>8. \A d \in Coroutines : Running(d)' => frame'[d].job = frame[d].job
  BY <1>2, <1>1, <1>7 DEF AfterJob, Frame
<1>9. JobsApart' /\ SeenBelowCap'
  BY <1>2, <1>5, <1>7, <1>8 DEF LoopInv, JobsApart, SeenBelowCap, JobsOf
<1>10. Retriers \subseteq Coroutines /\ Watchers \subseteq Coroutines
  BY DEF Coroutines
<1>11. OneLoop(Retriers, pendingRetry)'
  <2>1. OneLoop(Retriers, pendingRetry)
    BY DEF LoopInv
  <2>2. CASE c \in Retriers
    BY <2>1, <2>2, <1>2, <1>3, <1>7, <1>10 DEF OneLoop
  <2>3. CASE c \notin Retriers
    BY <2>1, <2>3, <1>2, <1>3, <1>7, <1>10 DEF OneLoop
  <2>4. QED BY <2>2, <2>3
<1>12. OneLoop(Watchers, pendingWatch)'
  <2>1. OneLoop(Watchers, pendingWatch)
    BY DEF LoopInv
  <2>2. CASE c \in Watchers
    BY <2>1, <2>2, <1>2, <1>3, <1>7, <1>10 DEF OneLoop
  <2>3. CASE c \notin Watchers
    BY <2>1, <2>3, <1>2, <1>3, <1>7, <1>10 DEF OneLoop
  <2>4. QED BY <2>2, <2>3
<1>13. ReleasesState
  <2> SUFFICES ASSUME NEW r \in Retriers, Running(r), frame'[r].pc = "idle" PROVE state' = None
    BY DEF ReleasesState
  <2>1. r = c
    BY <1>2, <1>10 DEF Running
  <2>2. QED BY <2>1, <1>3 DEF Leave, Releases
<1>14. QED BY <1>6, <1>9, <1>11, <1>12, <1>13 DEF LoopInv

(* A caller goes on to the rest of its job, and a task of one kind, of     *)
(* which none runs, begins: only then is its table entry made.             *)
LEMMA TaskBegins ==
  ASSUME LoopInv, NEW c \in Coroutines, Running(c), NEW tasks, NEW job \in {"retry", "watch"},
         NEW t \in NewTask(tasks), t # c,
         frame' = [frame EXCEPT ![c] = AfterJob(c), ![t] = Start(job, "sleep")],
         \/ tasks = Retriers /\ job = "retry" /\ ~pendingRetry /\ pendingRetry' = TRUE
            /\ pendingWatch' = (pendingWatch /\ frame[c].job # "watch")
         \/ tasks = Watchers /\ job = "watch" /\ ~pendingWatch /\ pendingWatch' = TRUE
            /\ pendingRetry' = (pendingRetry /\ frame[c].job # "retry"),
         state' \in {state, None}, frame[c].job = "retry" => state' = None
  PROVE  LoopInv' /\ ReleasesState
<1>1. /\ frame \in [Coroutines -> Frame] /\ frame[c] \in Frame /\ frame[c].job \in JobsOf(c)
      /\ pendingRetry \in BOOLEAN /\ pendingWatch \in BOOLEAN /\ state \in PipelineState \cup {None}
  BY DEF LoopInv, LoopTypes, JobsApart
<1>2. Retriers \subseteq Coroutines /\ Watchers \subseteq Coroutines
  BY DEF Coroutines
<1>3. t \in tasks /\ frame[t].pc = "idle" /\ t \in Coroutines
  BY <1>2 DEF NewTask
<1>4. /\ frame'[c] = AfterJob(c) /\ frame'[t] = Start(job, "sleep")
      /\ \A d \in Coroutines : d # c /\ d # t => frame'[d] = frame[d]
  BY <1>1, <1>3
<1>5. /\ c \in Retriers => frame[c].job = "retry"
      /\ c \in Watchers => frame[c].job = "watch"
      /\ c \in Hooks => frame[c].job \in {"check_run", "check_suite"}
      /\ frame[c].job = "transition" => c = "polling"
      /\ frame[c].job = "retry" <=> c \in Retriers
      /\ frame[c].job = "watch" <=> c \in Watchers
      /\ JobsOf(t) = {job}
      /\ tasks = Retriers => t \notin Watchers
      /\ tasks = Watchers => t \notin Retriers
  BY <1>1, <1>3, Kinds
<1>6. Idle \in Frame
  BY DEF Idle, Frame, PCs
<1>7. Start(job, "sleep") \in Frame /\ Start(job, "sleep").pc = "sleep" /\ Start(job, "sleep").job = job
  BY <1>6 DEF Start, Frame, PCs, Jobs, Idle
<1>8. AfterJob(c) \in Frame /\ AfterJob(c).pc # "assign"
  BY <1>1, <1>6 DEF AfterJob, Frame, PCs, Idle
<1>9. LoopTypes'
  BY <1>1, <1>3, <1>7, <1>8 DEF LoopTypes
<1>10. \A d \in Coroutines : Running(d)' <=> d = t \/ (Running(d) /\ (d = c => frame[c].job = "transition"))
  BY <1>1, <1>3, <1>4, <1>7 DEF Running, AfterJob, Idle, Frame
<1>11. \A d \in Coroutines : d # t /\ Running(d)' => frame'[d].job = frame[d].job
  BY <1>4, <1>1, <1>10 DEF AfterJob, Frame
<1>12. JobsApart' /\ SeenBelowCap'
  <2>1. \A d \in Coroutines : Running(d)' => frame'[d].job \in JobsOf(d)
    BY <1>4, <1>5, <1>7, <1>10, <1>11 DEF LoopInv, JobsApart
  <2>2. \A d \in Coroutines : frame'[d].pc = "assign" => d # c /\ d # t
    BY <1>4, <1>7, <1>8
  <2>3. SeenBelowCap'
    BY <2>2, <1>4 DEF LoopInv, SeenBelowCap
  <2>4. QED BY <2>1, <2>3 DEF JobsApart, JobsOf
<1>13. OneLoop(Retriers, pendingRetry) /\ OneLoop(Watchers, pendingWatch)
  BY DEF LoopInv
<1>14. ASSUME tasks = Retriers PROVE OneLoop(Retriers, pendingRetry)' /\ OneLoop(Watchers, pendingWatch)'
  <2>1. (~pendingRetry /\ pendingRetry' /\ pendingWatch' = (pendingWatch /\ frame[c].job # "watch")) \/ Retriers = Watchers
    BY <1>14
  <2>2. Retriers # Watchers
    BY <1>3, <1>5, <1>14
  <2>3. OneLoop(Retriers, pendingRetry)'
    BY <2>1, <2>2, <1>13, <1>10, <1>2, <1>3, <1>14 DEF OneLoop
  <2>4. OneLoop(Watchers, pendingWatch)'
    <3>1. CASE c \in Watchers
      BY <3>1, <2>1, <2>2, <1>13, <1>10, <1>2, <1>5, <1>14 DEF OneLoop
    <3>2. CASE c \notin Watchers
      BY <3>2, <2>1, <2>2, <1>13, <1>10, <1>2, <1>5, <1>14 DEF OneLoop
    <3>3. QED BY <3>1, <3>2
  <2>5. QED BY <2>3, <2>4
<1>15. ASSUME tasks = Watchers PROVE OneLoop(Retriers, pendingRetry)' /\ OneLoop(Watchers, pendingWatch)'
  <2>1. (~pendingWatch /\ pendingWatch' /\ pendingRetry' = (pendingRetry /\ frame[c].job # "retry")) \/ Retriers = Watchers
    BY <1>15
  <2>2. Retriers # Watchers
    BY <1>3, <1>5, <1>15
  <2>3. OneLoop(Watchers, pendingWatch)'
    BY <2>1, <2>2, <1>13, <1>10, <1>2, <1>3, <1>15 DEF OneLoop
  <2>4. OneLoop(Retriers, pendingRetry)'
    <3>1. CASE c \in Retriers
      BY <3>1, <2>1, <2>2, <1>13, <1>10, <1>2, <1>5, <1>15 DEF OneLoop
    <3>2. CASE c \notin Retriers
      BY <3>2, <2>1, <2>2, <1>13, <1>10, <1>2, <1>5, <1>15 DEF OneLoop
    <3>3. QED BY <3>1, <3>2
  <2>5. QED BY <2>3, <2>4
<1>16. ReleasesState
  <2> SUFFICES ASSUME NEW r \in Retriers, Running(r), frame'[r].pc = "idle" PROVE state' = None
    BY DEF ReleasesState
  <2>1. r = c
    BY <1>2, <1>4, <1>7 DEF Running
  <2>2. QED BY <2>1, <1>5
<1>17. QED BY <1>9, <1>12, <1>14, <1>15, <1>16 DEF LoopInv

(* What a caller does with an answer keeps the loops in order: it comes    *)
(* back later, it gives up, or it hands over to DevOps.                    *)
LEMMA LaterKept ==
  ASSUME LoopInv, NEW c \in Coroutines, Running(c), RetryLater(c)
  PROVE  LoopInv' /\ ReleasesState
<1>1. /\ frame \in [Coroutines -> Frame] /\ frame[c] \in Frame /\ frame[c].job \in JobsOf(c)
      /\ pendingRetry \in BOOLEAN /\ pendingWatch \in BOOLEAN /\ state \in PipelineState \cup {None}
  BY DEF LoopInv, LoopTypes, JobsApart
<1>2. CASE frame[c].job = "transition" /\ schedule_auto_merge_retry(c) /\ UNCHANGED <<state, tracking, pendingWatch>>
  <2>1. c = "polling" /\ c \notin Retriers /\ c \notin Watchers
    BY <1>1, <1>2, Kinds
  <2>2. CASE pendingRetry /\ frame' = [frame EXCEPT ![c] = AfterJob(c)] /\ UNCHANGED pendingRetry
    <3>1. AfterJob(c) \in Frame /\ AfterJob(c).pc = "tail" /\ AfterJob(c).job = frame[c].job
      BY <1>1, <1>2 DEF AfterJob, Frame, PCs
    <3>2. QED BY <3>1, <2>2, <1>1, <1>2, GoesOn
  <2>3. CASE ~pendingRetry /\ StartRetryLoop(c)
    <3>1. PICK r \in NewTask(Retriers) :
            pendingRetry' = TRUE /\ frame' = [frame EXCEPT ![c] = AfterJob(c), ![r] = Start("retry", "sleep")]
      BY <2>3 DEF StartRetryLoop
    <3>2. r \in Retriers
      BY DEF NewTask
    <3>3. r # c /\ pendingWatch' = (pendingWatch /\ frame[c].job # "watch") /\ state' = state /\ frame[c].job # "retry"
      BY <3>2, <2>1, <1>1, <1>2
    <3>4. QED BY <3>1, <3>3, <2>3, TaskBegins
  <2>4. QED BY <2>2, <2>3, <1>2 DEF schedule_auto_merge_retry
<1>3. CASE frame' = [frame EXCEPT ![c].pc = "sleep"] /\ UNCHANGED memory
  <2>1. [frame[c] EXCEPT !.pc = "sleep"] \in Frame
    BY <1>1 DEF Frame, PCs
  <2>2. QED BY <2>1, <1>3, <1>1, GoesOn DEF memory, Frame
<1>4. CASE Leave(c)
  BY <1>4, Leaves
<1>5. QED BY <1>2, <1>3, <1>4 DEF RetryLater

LEMMA DispatchKept ==
  ASSUME LoopInv, tracking.attempts \in Nat, NEW c \in Coroutines, Running(c), DevopsNeeded(c)
  PROVE  LoopInv' /\ ReleasesState
<1>1. /\ frame \in [Coroutines -> Frame] /\ frame[c] \in Frame
      /\ pendingRetry \in BOOLEAN /\ pendingWatch \in BOOLEAN /\ state \in PipelineState \cup {None}
  BY DEF LoopInv, LoopTypes
<1>2. CASE Leave(c)
  BY <1>2, Leaves
<1>3. CASE /\ MayDispatch /\ frame' = [frame EXCEPT ![c].pc = "assign", ![c].seen = tracking.attempts]
           /\ state' = (IF frame[c].job = "transition" THEN None ELSE state)
           /\ UNCHANGED <<tracking, pendingRetry, pendingWatch>>
  <2> DEFINE f == [frame[c] EXCEPT !.pc = "assign", !.seen = tracking.attempts]
  <2>1. f \in Frame /\ f.pc = "assign" /\ f.seen = tracking.attempts /\ f.job = frame[c].job
    BY <1>1 DEF Frame, PCs
  <2>2. frame' = [frame EXCEPT ![c] = f] /\ tracking.attempts < MaxDevops
    BY <1>1, <1>3 DEF MayDispatch
  <2>3. state' \in PipelineState \cup {None} /\ UNCHANGED <<pendingRetry, pendingWatch>>
    BY <1>1, <1>3
  <2> HIDE DEF f
  <2>4. QED BY <2>1, <2>2, <2>3, GoesOn
<1>4. QED BY <1>2, <1>3 DEF DevopsNeeded, dispatch_devops_agent

(* The polling coroutine and the webhooks, which are no loops, go where    *)
(* they like.                                                              *)
LEMMA Begins ==
  ASSUME LoopInv, NEW c \in {"polling"} \cup Hooks, NEW f \in Frame, frame' = [frame EXCEPT ![c] = f],
         f.pc \notin {"idle", "over"} => f.job \in JobsOf(c), f.pc = "assign" => f.seen < MaxDevops,
         UNCHANGED <<pendingRetry, pendingWatch>>, state' \in PipelineState \cup {None}
  PROVE  LoopInv' /\ ReleasesState
<1>1. c \in Coroutines /\ c \notin Retriers /\ c \notin Watchers /\ Retriers \subseteq Coroutines /\ Watchers \subseteq Coroutines
  BY TasksAssumption DEF Coroutines
<1>2. LoopTypes'
  BY DEF LoopInv, LoopTypes
<1>3. frame'[c] = f /\ \A d \in Coroutines : d # c => frame'[d] = frame[d]
  BY <1>1 DEF LoopInv, LoopTypes
<1>4. \A d \in Coroutines : d # c => (Running(d)' <=> Running(d))
  BY <1>3 DEF Running
<1>5. Running(c)' => frame'[c].job \in JobsOf(c)
  BY <1>3 DEF Running
<1>6. JobsApart'
  <2>1. \A d \in Coroutines : Running(d)' => frame'[d].job \in JobsOf(d)
    BY <1>3, <1>4, <1>5 DEF LoopInv, JobsApart
  <2>2. QED BY <2>1 DEF JobsApart, JobsOf
<1>7. SeenBelowCap'
  BY <1>3 DEF LoopInv, SeenBelowCap
<1>8. OneLoop(Retriers, pendingRetry)' /\ OneLoop(Watchers, pendingWatch)'
  BY <1>1, <1>4 DEF LoopInv, OneLoop
<1>9. ReleasesState
  BY <1>1, <1>3 DEF ReleasesState, Running
<1>10. QED BY <1>2, <1>6, <1>7, <1>8, <1>9 DEF LoopInv

LEMMA FramesStay ==
  ASSUME LoopInv, UNCHANGED <<frame, pendingRetry, pendingWatch>>, state' \in PipelineState \cup {None}
  PROVE  LoopInv' /\ ReleasesState
<1>1. \A d \in Coroutines : Running(d)' <=> Running(d)
  BY DEF Running
<1>2. Retriers \subseteq Coroutines /\ Watchers \subseteq Coroutines
  BY DEF Coroutines
<1>3. LoopTypes' /\ SeenBelowCap'
  BY DEF LoopInv, LoopTypes, SeenBelowCap
<1>4. JobsApart'
  BY <1>1 DEF LoopInv, JobsApart, JobsOf
<1>5. OneLoop(Retriers, pendingRetry)' /\ OneLoop(Watchers, pendingWatch)'
  BY <1>1, <1>2 DEF LoopInv, OneLoop
<1>6. ReleasesState
  BY <1>2 DEF ReleasesState, Running
<1>7. QED BY <1>3, <1>4, <1>5, <1>6 DEF LoopInv

---------------------------------------------------------------------------
(* The whole: the types, the loops, and the record of DevOps.              *)
WorldTypes ==
    /\ board \in {"InProgress", "InReview", "Done"} /\ cycle \in {"InProgress", "InReview", "fallback", None}
    /\ pr \in {"open", "merged"} /\ ci \in {"running", "failed", "passed"} /\ conflict \in BOOLEAN /\ projectAuto \in BOOLEAN
RecordInv ==
    /\ working \in Nat /\ marker \in BOOLEAN /\ tracking \in [active: BOOLEAN, attempts: Nat]
    /\ ActiveIsReal /\ AttemptsCapped
MergeInv == WorldTypes /\ RecordInv /\ LoopInv

LEMMA MergeStarts == Init => MergeInv
<1> SUFFICES ASSUME Init PROVE MergeInv
  OBVIOUS
<1>1. WorldTypes /\ LoopTypes
  <2>1. Idle \in Frame
    BY DEF Idle, Frame, PCs
  <2>2. QED BY <2>1 DEF Init, WorldTypes, LoopTypes, PipelineState
<1>2. RecordInv
  <2>1. working \in Nat /\ marker \in BOOLEAN /\ (tracking.active => marker)
    <3>1. CASE tracking = [active |-> FALSE, attempts |-> 0] /\ marker = FALSE
      BY <3>1 DEF Init
    <3>2. CASE tracking = [active |-> TRUE, attempts |-> 1] /\ marker = TRUE
      BY <3>2 DEF Init
    <3>3. QED BY <3>1, <3>2 DEF Init
  <2>2. tracking \in [active: BOOLEAN, attempts: Nat] /\ tracking.attempts \in {0, 1}
    <3>1. CASE tracking = [active |-> FALSE, attempts |-> 0]
      BY <3>1
    <3>2. CASE tracking = [active |-> TRUE, attempts |-> 1]
      BY <3>2
    <3>3. QED BY <3>1, <3>2 DEF Init
  <2>3. AttemptsCapped
    BY <2>2, LimitsAssumption DEF AttemptsCapped
  <2>4. QED BY <2>1, <2>2, <2>3 DEF RecordInv, ActiveIsReal
<1>3. \A c \in Coroutines : ~Running(c) /\ frame[c].pc # "assign"
  BY DEF Init, Running, Idle
<1>4. Retriers \subseteq Coroutines /\ Watchers \subseteq Coroutines /\ ~pendingRetry /\ ~pendingWatch
  BY DEF Coroutines, Init
<1>5. QED BY <1>1, <1>2, <1>3, <1>4 DEF MergeInv, LoopInv, JobsApart, SeenBelowCap, OneLoop

(* The steps of a job.                                                     *)
LEMMA StepKept ==
  ASSUME MergeInv, NEW c \in Coroutines, Step(c)
  PROVE  MergeInv' /\ ReleasesState
<1>1. /\ frame \in [Coroutines -> Frame] /\ frame[c] \in Frame
      /\ pendingRetry \in BOOLEAN /\ pendingWatch \in BOOLEAN /\ state \in PipelineState \cup {None} /\ LoopInv
      /\ tracking \in [active: BOOLEAN, attempts: Nat] /\ tracking.attempts \in Nat /\ working \in Nat /\ marker \in BOOLEAN
  BY DEF MergeInv, LoopInv, LoopTypes, RecordInv
<1>2. WorldTypes /\ RecordInv
  BY DEF MergeInv
<1>3. Running(c)
  BY DEF Step, Wake, Comments, CheckRuns, Mergeable, Merge, Finish, Assign, Schedule, Running
<1>4. \A p \in PCs : [frame[c] EXCEPT !.pc = p] \in Frame /\ [frame[c] EXCEPT !.pc = p].job = frame[c].job
                     /\ [frame[c] EXCEPT !.pc = p].pc = p
  BY <1>1 DEF Frame
<1>5. ASSUME NEW p \in PCs \ {"idle", "over", "assign"}, frame' = [frame EXCEPT ![c].pc = p],
             UNCHANGED <<pendingRetry, pendingWatch>>, state' = state
      PROVE  LoopInv' /\ ReleasesState
  BY <1>1, <1>3, <1>4, <1>5, GoesOn
<1>6. ASSUME UNCHANGED <<working, marker, tracking>> PROVE RecordInv'
  BY <1>2, <1>6 DEF RecordInv, ActiveIsReal, AttemptsCapped
<1>7. ASSUME UNCHANGED <<board, cycle, pr, ci, conflict, projectAuto>> PROVE WorldTypes'
  BY <1>2, <1>7 DEF WorldTypes
<1>8. ASSUME RetryLater(c) PROVE tracking' = tracking
  BY <1>8 DEF RetryLater, memory
<1>9. ASSUME DevopsNeeded(c) PROVE tracking' = tracking
  BY <1>9 DEF DevopsNeeded, dispatch_devops_agent
<1>10. ASSUME Wake(c) PROVE MergeInv' /\ ReleasesState
  <2> DEFINE f == [frame[c] EXCEPT !.round = @ + 1, !.pc = IF frame[c].job = "retry" THEN "ci" ELSE "comments"]
  <2>1. f \in Frame /\ f.pc \in {"ci", "comments"} /\ f.job = frame[c].job
    <3>1. frame[c].round + 1 \in Nat
      BY <1>1 DEF Frame
    <3>2. CASE frame[c].job = "retry"
      BY <3>1, <3>2, <1>1 DEF Frame, PCs
    <3>3. CASE frame[c].job # "retry"
      BY <3>1, <3>3, <1>1 DEF Frame, PCs
    <3>4. QED BY <3>2, <3>3
  <2>2. frame' = [frame EXCEPT ![c] = f]
    BY <1>1, <1>10 DEF Wake
  <2>3. UNCHANGED <<board, cycle, pr, ci, conflict, projectAuto, working, marker, tracking, pendingRetry, pendingWatch, state>>
    BY <1>10 DEF Wake, github, memory
  <2> HIDE DEF f
  <2>4. LoopInv' /\ ReleasesState
    BY <2>1, <2>2, <2>3, <1>1, <1>3, GoesOn
  <2>5. QED BY <2>3, <2>4, <1>6, <1>7 DEF MergeInv
<1>11. ASSUME Comments(c) PROVE MergeInv' /\ ReleasesState
  <2>1. UNCHANGED <<board, cycle, pr, ci, conflict, projectAuto, working, marker>>
    BY <1>11 DEF Comments, github
  <2>2. CASE RetryLater(c)
    <3>1. LoopInv' /\ ReleasesState
      BY <2>2, <1>1, <1>3, LaterKept
    <3>2. QED BY <2>1, <2>2, <3>1, <1>6, <1>7, <1>8 DEF MergeInv
  <2>3. CASE /\ tracking' = (IF frame[c].job = "watch" THEN [tracking EXCEPT !.active = FALSE] ELSE tracking)
             /\ frame' = [frame EXCEPT ![c].pc = "ci"] /\ UNCHANGED <<state, pendingRetry, pendingWatch>>
    <3>1. LoopInv' /\ ReleasesState
      BY <2>3, <1>5 DEF PCs
    <3>2. RecordInv'
      BY <2>3, <2>1, <1>1, <1>2 DEF RecordInv, ActiveIsReal, AttemptsCapped
    <3>3. QED BY <2>1, <3>1, <3>2, <1>7 DEF MergeInv
  <2>4. QED BY <1>11, <2>2, <2>3 DEF Comments
<1>12. ASSUME CheckRuns(c) PROVE MergeInv' /\ ReleasesState
  <2>1. UNCHANGED <<board, cycle, pr, ci, conflict, projectAuto, working, marker>>
    BY <1>12 DEF CheckRuns, github
  <2>2. CASE RetryLater(c)
    BY <2>1, <2>2, <1>1, <1>3, <1>6, <1>7, <1>8, LaterKept DEF MergeInv
  <2>3. CASE DevopsNeeded(c)
    BY <2>1, <2>3, <1>1, <1>3, <1>6, <1>7, <1>9, DispatchKept DEF MergeInv
  <2>4. CASE MergeFailed(c)
    BY <2>1, <2>4, <1>1, <1>3, <1>6, <1>7, Leaves DEF MergeInv, MergeFailed
  <2>5. CASE frame' = [frame EXCEPT ![c].pc = "mergeable"] /\ UNCHANGED memory
    <3>1. UNCHANGED <<state, tracking, pendingRetry, pendingWatch>>
      BY <2>5 DEF memory
    <3>2. QED BY <2>1, <3>1, <2>5, <1>5, <1>6, <1>7 DEF MergeInv, PCs
  <2>6. QED BY <1>12, <2>2, <2>3, <2>4, <2>5 DEF CheckRuns
<1>13. ASSUME Mergeable(c) PROVE MergeInv' /\ ReleasesState
  <2>1. UNCHANGED <<board, cycle, pr, ci, conflict, projectAuto, working, marker>>
    BY <1>13 DEF Mergeable, github
  <2>2. CASE RetryLater(c)
    BY <2>1, <2>2, <1>1, <1>3, <1>6, <1>7, <1>8, LaterKept DEF MergeInv
  <2>3. CASE DevopsNeeded(c)
    BY <2>1, <2>3, <1>1, <1>3, <1>6, <1>7, <1>9, DispatchKept DEF MergeInv
  <2>4. CASE frame' = [frame EXCEPT ![c].pc = "merge"] /\ UNCHANGED memory
    <3>1. UNCHANGED <<state, tracking, pendingRetry, pendingWatch>>
      BY <2>4 DEF memory
    <3>2. QED BY <2>1, <3>1, <2>4, <1>5, <1>6, <1>7 DEF MergeInv, PCs
  <2>5. QED BY <1>13, <2>2, <2>3, <2>4 DEF Mergeable
<1>14. ASSUME Merge(c) PROVE MergeInv' /\ ReleasesState
  <2>1. UNCHANGED <<board, cycle, ci, conflict, projectAuto, working, marker>> /\ pr' \in {"open", "merged"}
    BY <1>14, <1>2 DEF Merge, WorldTypes
  <2>2. WorldTypes'
    BY <2>1, <1>2 DEF WorldTypes
  <2>3. CASE MergeFailed(c)
    BY <2>1, <2>2, <2>3, <1>1, <1>3, <1>6, Leaves DEF MergeInv, MergeFailed
  <2>4. CASE frame' = [frame EXCEPT ![c].pc = "finish"] /\ UNCHANGED memory
    <3>1. UNCHANGED <<state, tracking, pendingRetry, pendingWatch>>
      BY <2>4 DEF memory
    <3>2. QED BY <2>1, <2>2, <3>1, <2>4, <1>5, <1>6 DEF MergeInv, PCs
  <2>5. QED BY <1>14, <2>3, <2>4 DEF Merge
<1>15. ASSUME Finish(c) PROVE MergeInv' /\ ReleasesState
  <2>1. UNCHANGED <<cycle, pr, ci, conflict, projectAuto, working, marker, tracking>> /\ board' \in {board, "Done"} /\ Leave(c)
    BY <1>15 DEF Finish
  <2>2. WorldTypes'
    BY <2>1, <1>2 DEF WorldTypes
  <2>3. QED BY <2>1, <2>2, <1>1, <1>3, <1>6, Leaves DEF MergeInv
<1>16. ASSUME Assign(c) PROVE MergeInv' /\ ReleasesState
  <2>1. UNCHANGED <<board, cycle, pr, ci, conflict, projectAuto, marker>>
    BY <1>16 DEF Assign
  <2>2. CASE Leave(c) /\ UNCHANGED <<working, tracking>>
    BY <2>1, <2>2, <1>1, <1>3, <1>6, <1>7, Leaves DEF MergeInv
  <2>3. CASE /\ working' = working + 1 /\ Record(c)
             /\ frame' = [frame EXCEPT ![c].pc = "schedule", ![c].seen = 0]
             /\ UNCHANGED <<state, pendingRetry, pendingWatch>>
    <3>1. frame[c].seen < MaxDevops /\ frame[c].seen \in Nat
      BY <1>1, <1>16 DEF Assign, LoopInv, SeenBelowCap, Frame
    <3>2. RecordInv'
      BY <3>1, <2>1, <2>3, <1>1, LimitsAssumption DEF RecordInv, Record, ActiveIsReal, AttemptsCapped
    <3> DEFINE f == [frame[c] EXCEPT !.pc = "schedule", !.seen = 0]
    <3>3. f \in Frame /\ f.pc = "schedule" /\ f.job = frame[c].job
      BY <1>1 DEF Frame, PCs
    <3>4. frame' = [frame EXCEPT ![c] = f]
      BY <1>1, <2>3
    <3> HIDE DEF f
    <3>5. LoopInv' /\ ReleasesState
      BY <3>3, <3>4, <2>3, <1>1, <1>3, GoesOn
    <3>6. QED BY <3>2, <3>5, <2>1, <1>7 DEF MergeInv
  <2>4. QED BY <1>16, <2>2, <2>3 DEF Assign
<1>17. ASSUME Schedule(c) PROVE MergeInv' /\ ReleasesState
  <2>1. UNCHANGED <<board, cycle, pr, ci, conflict, projectAuto, working, marker, tracking>>
    BY <1>17 DEF Schedule, github
  <2>2. CASE Leave(c)
    BY <2>1, <2>2, <1>1, <1>3, <1>6, <1>7, Leaves DEF MergeInv
  <2>3. CASE ~pendingWatch /\ StartWatch(c)
    <3>1. PICK w \in NewTask(Watchers) :
            /\ frame' = [frame EXCEPT ![c] = AfterJob(c), ![w] = Start("watch", "sleep")]
            /\ pendingWatch' = TRUE /\ pendingRetry' = (pendingRetry /\ frame[c].job # "retry")
            /\ state' = IF Releases(c) THEN None ELSE state
      BY <2>3 DEF StartWatch
    <3>2. w # c
      BY <1>3 DEF NewTask, Running
    <3>3. state' \in {state, None} /\ (frame[c].job = "retry" => state' = None)
      BY <3>1 DEF Releases
    <3>4. LoopInv' /\ ReleasesState
      BY <3>1, <3>2, <3>3, <2>3, <1>1, <1>3, TaskBegins
    <3>5. QED BY <3>4, <2>1, <1>6, <1>7 DEF MergeInv
  <2>4. QED BY <1>17, <2>2, <2>3 DEF Schedule
<1>18. QED BY <1>10, <1>11, <1>12, <1>13, <1>14, <1>15, <1>16, <1>17 DEF Step

(* The polling coroutine.                                                  *)
LEMMA TransitionKept ==
  ASSUME MergeInv, NEW to \in {"InReview", "Done"}, NEW drop \in BOOLEAN, Transition(to, drop)
  PROVE  MergeInv' /\ ReleasesState
<1>1. /\ LoopInv /\ WorldTypes /\ RecordInv
      /\ frame \in [Coroutines -> Frame] /\ state \in PipelineState \cup {None}
  BY DEF MergeInv, LoopInv, LoopTypes
<1>2. /\ UNCHANGED <<pr, ci, conflict, working, marker, projectAuto, tracking, pendingRetry, pendingWatch>>
      /\ cycle' \in {"fallback", None} /\ board' \in {board, to} /\ state # None
  BY DEF Transition
<1>3. WorldTypes' /\ RecordInv'
  BY <1>1, <1>2 DEF WorldTypes, RecordInv, ActiveIsReal, AttemptsCapped
<1>4. state' \in PipelineState \cup {None}
  <2>1. [state EXCEPT !.complete = TRUE] \in PipelineState
    BY <1>1, <1>2 DEF PipelineState
  <2>2. QED BY <2>1, <1>1 DEF Transition
<1>5. JobsOf("polling") = {"transition", "fallback"}
  BY Kinds DEF Coroutines
<1>6. CASE UNCHANGED frame
  BY <1>6, <1>1, <1>2, <1>3, <1>4, FramesStay DEF MergeInv
<1>7. ASSUME NEW p \in {"ci", "tail"},
             frame' = [frame EXCEPT !["polling"] = [Start("transition", p) EXCEPT !.drop = drop]]
      PROVE  MergeInv' /\ ReleasesState
  <2> DEFINE f == [Start("transition", p) EXCEPT !.drop = drop]
  <2>1. f \in Frame /\ f.pc = p /\ f.job = "transition"
    BY DEF Start, Idle, Frame, PCs, Jobs
  <2>2. frame' = [frame EXCEPT !["polling"] = f]
    BY <1>7
  <2> HIDE DEF f
  <2>3. LoopInv' /\ ReleasesState
    BY <2>1, <2>2, <1>1, <1>2, <1>4, <1>5, Begins
  <2>4. QED BY <2>3, <1>3 DEF MergeInv
<1>8. QED BY <1>6, <1>7 DEF Transition

LEMMA PollingKept ==
  ASSUME MergeInv, Polling
  PROVE  MergeInv' /\ ReleasesState
<1>1. /\ LoopInv /\ WorldTypes /\ RecordInv
      /\ frame \in [Coroutines -> Frame] /\ state \in PipelineState \cup {None}
  BY DEF MergeInv, LoopInv, LoopTypes
<1>2. JobsOf("polling") = {"transition", "fallback"} /\ Idle \in Frame /\ Idle.pc = "idle"
  BY Kinds DEF Coroutines, Idle, Frame, PCs
<1>3. ASSUME UNCHANGED <<working, marker, tracking>> PROVE RecordInv'
  BY <1>1, <1>3 DEF RecordInv, ActiveIsReal, AttemptsCapped
<1>5. ASSUME ToReview \/ ToDone PROVE MergeInv' /\ ReleasesState
  BY <1>5, TransitionKept DEF ToReview, ToDone
<1>6. ASSUME ReadBoard PROVE MergeInv' /\ ReleasesState
  <2>1. /\ UNCHANGED <<board, pr, ci, conflict, projectAuto, working, marker, tracking, frame, state, pendingRetry, pendingWatch>>
        /\ cycle' \in {board, None} /\ (board = "Done" => cycle' = None)
    BY <1>6 DEF ReadBoard, github, memory
  <2>2. WorldTypes'
    BY <2>1, <1>1 DEF WorldTypes
  <2>3. QED BY <2>1, <2>2, <1>1, <1>3, FramesStay DEF MergeInv
<1>7. ASSUME Tail PROVE MergeInv' /\ ReleasesState
  <2>1. /\ UNCHANGED <<board, pr, ci, conflict, projectAuto, cycle, working, marker, tracking, pendingRetry, pendingWatch>>
        /\ state' \in {state, None} /\ frame' = [frame EXCEPT !["polling"] = Idle]
    BY <1>7 DEF Tail, github
  <2>2. WorldTypes'
    BY <2>1, <1>1 DEF WorldTypes
  <2>3. LoopInv' /\ ReleasesState
    BY <2>1, <1>1, <1>2, Begins
  <2>4. QED BY <2>1, <2>2, <2>3, <1>3 DEF MergeInv
<1>8. ASSUME Rebuild PROVE MergeInv' /\ ReleasesState
  <2>1. UNCHANGED <<board, pr, ci, conflict, projectAuto, cycle, working, marker, tracking, pendingRetry, pendingWatch, frame>>
    BY <1>8 DEF Rebuild, github
  <2>2. WorldTypes' /\ state' \in PipelineState
    BY <2>1, <1>1, <1>8 DEF WorldTypes, Rebuild, PipelineState
  <2>3. QED BY <2>1, <2>2, <1>1, <1>3, FramesStay DEF MergeInv
<1>9. ASSUME Fallback PROVE MergeInv' /\ ReleasesState
  <2>1. /\ UNCHANGED <<board, pr, ci, conflict, projectAuto, working, marker, tracking, pendingRetry, pendingWatch, state>>
        /\ cycle' = None /\ frame' = [frame EXCEPT !["polling"] = Start("fallback", "comments")]
    BY <1>9 DEF Fallback, github, memory
  <2>2. WorldTypes'
    BY <2>1, <1>1 DEF WorldTypes
  <2>3. /\ Start("fallback", "comments") \in Frame /\ Start("fallback", "comments").job = "fallback"
        /\ Start("fallback", "comments").pc = "comments"
    BY DEF Start, Idle, Frame, PCs, Jobs
  <2>4. LoopInv' /\ ReleasesState
    BY <2>1, <2>3, <1>1, <1>2, Begins
  <2>5. QED BY <2>1, <2>2, <2>4, <1>3 DEF MergeInv
<1>10. QED BY <1>5, <1>6, <1>7, <1>8, <1>9 DEF Polling

(* The webhooks and GitHub.                                                *)
LEMMA WebhookKept ==
  ASSUME MergeInv, NEW h \in Hooks, Webhook(h)
  PROVE  MergeInv' /\ ReleasesState
<1>1. /\ LoopInv /\ WorldTypes /\ RecordInv /\ tracking.attempts \in Nat
      /\ frame \in [Coroutines -> Frame] /\ frame[h] \in Frame /\ state \in PipelineState \cup {None}
  BY DEF MergeInv, LoopInv, LoopTypes, RecordInv, Coroutines
<1>2. JobsOf(h) = {"check_run", "check_suite"}
  BY Kinds DEF Coroutines
<1>3. UNCHANGED <<board, pr, ci, conflict, projectAuto, cycle, working, marker, tracking, pendingRetry, pendingWatch, state>>
  BY DEF Webhook, CheckRunFailed, CheckSuitePassed, github, memory
<1>4. WorldTypes' /\ RecordInv'
  BY <1>1, <1>3 DEF WorldTypes, RecordInv, ActiveIsReal, AttemptsCapped
<1>5. CASE MayDispatch /\ frame' = [frame EXCEPT ![h] = [Start("check_run", "assign") EXCEPT !.seen = tracking.attempts]]
  <2> DEFINE f == [Start("check_run", "assign") EXCEPT !.seen = tracking.attempts]
  <2>1. f \in Frame /\ f.job = "check_run" /\ f.pc = "assign" /\ f.seen = tracking.attempts
    BY <1>1 DEF Start, Idle, Frame, PCs, Jobs
  <2>2. frame' = [frame EXCEPT ![h] = f] /\ tracking.attempts < MaxDevops
    BY <1>5 DEF MayDispatch
  <2> HIDE DEF f
  <2>3. QED BY <2>1, <2>2, <1>1, <1>2, <1>3, <1>4, Begins DEF MergeInv
<1>6. CASE frame' = [frame EXCEPT ![h].pc = "over"]
  <2>1. [frame[h] EXCEPT !.pc = "over"] \in Frame /\ [frame[h] EXCEPT !.pc = "over"].pc = "over"
    BY <1>1 DEF Frame, PCs
  <2>2. QED BY <2>1, <1>6, <1>1, <1>3, <1>4, Begins DEF MergeInv
<1>7. CASE frame' = [frame EXCEPT ![h] = Start("check_suite", "ci")]
  <2>1. Start("check_suite", "ci") \in Frame /\ Start("check_suite", "ci").job = "check_suite" /\ Start("check_suite", "ci").pc = "ci"
    BY DEF Start, Idle, Frame, PCs, Jobs
  <2>2. QED BY <2>1, <1>7, <1>1, <1>2, <1>3, <1>4, Begins DEF MergeInv
<1>8. QED BY <1>5, <1>6, <1>7 DEF Webhook, CheckRunFailed, CheckSuitePassed

LEMMA GitHubKept ==
  ASSUME MergeInv, GitHub
  PROVE  MergeInv' /\ ReleasesState
<1>1. LoopInv /\ WorldTypes /\ RecordInv /\ state \in PipelineState \cup {None}
  BY DEF MergeInv, LoopInv, LoopTypes
<1>2. UNCHANGED <<board, pr, projectAuto, cycle, tracking, pendingRetry, pendingWatch, state, frame>>
  BY DEF GitHub, ChecksEnd, DevopsPushes, DevopsDone, memory
<1>3. WorldTypes'
  BY <1>1, <1>2 DEF WorldTypes, GitHub, ChecksEnd, DevopsPushes, DevopsDone
<1>4. RecordInv'
  <2>1. UNCHANGED <<working, marker>> \/ (working > 0 /\ working' = working - 1 /\ marker' = TRUE)
    BY DEF GitHub, ChecksEnd, DevopsPushes, DevopsDone
  <2>2. working' \in Nat /\ marker' \in BOOLEAN /\ (marker => marker') /\ (working' = working \/ marker')
    <3>1. CASE UNCHANGED <<working, marker>>
      BY <3>1, <1>1 DEF RecordInv
    <3>2. CASE working > 0 /\ working' = working - 1 /\ marker' = TRUE
      <4>1. working' \in Nat
        BY <3>2, <1>1 DEF RecordInv
      <4>2. QED BY <4>1, <3>2
    <3>3. QED BY <2>1, <3>1, <3>2
  <2>3. QED BY <2>2, <1>1, <1>2 DEF RecordInv, ActiveIsReal, AttemptsCapped
<1>5. QED BY <1>1, <1>2, <1>3, <1>4, FramesStay DEF MergeInv

LEMMA MergeKept == MergeInv /\ [Next]_vars => MergeInv' /\ (ReleasesState \/ UNCHANGED vars)
<1> SUFFICES ASSUME MergeInv, [Next]_vars PROVE MergeInv' /\ (ReleasesState \/ UNCHANGED vars)
  OBVIOUS
<1>1. CASE UNCHANGED vars
  <2>1. UNCHANGED <<board, pr, ci, conflict, working, marker, projectAuto, cycle, tracking, pendingRetry, pendingWatch, state, frame>>
    BY <1>1 DEF vars, github, memory
  <2>2. WorldTypes' /\ RecordInv'
    BY <2>1 DEF MergeInv, WorldTypes, RecordInv, ActiveIsReal, AttemptsCapped
  <2>3. LoopInv'
    BY <2>1, FramesStay DEF MergeInv, LoopInv, LoopTypes
  <2>4. QED BY <2>2, <2>3, <1>1 DEF MergeInv
<1>2. CASE Next
  BY <1>2, StepKept, PollingKept, WebhookKept, GitHubKept DEF Next
<1>3. QED BY <1>1, <1>2

---------------------------------------------------------------------------
(* A table of pending loops says one when its loop runs, none when not.    *)
LEMMA LoopsAreCounted ==
  ASSUME NEW tasks, NEW pending \in BOOLEAN, OneLoop(tasks, pending)
  PROVE  Live(tasks) = IF pending THEN 1 ELSE 0
<1>1. CASE pending
  <2>1. PICK t \in tasks : Running(t)
    BY <1>1 DEF OneLoop
  <2>2. {s \in tasks : Running(s)} = {t}
    BY <2>1 DEF OneLoop
  <2>3. QED BY <1>1, <2>2, FS_Singleton DEF Live
<1>2. CASE ~pending
  <2>1. {s \in tasks : Running(s)} = {}
    BY <1>2 DEF OneLoop
  <2>2. QED BY <1>2, <2>1, FS_EmptySet DEF Live
<1>3. QED BY <1>1, <1>2

(* Every variable keeps its type, whatever interleaves (auto_merge.py,     *)
(* webhooks.py).                                                           *)
THEOREM MergeTypes == Spec => []TypeOK
<1>1. Init => MergeInv
  BY MergeStarts
<1>2. MergeInv /\ [Next]_vars => MergeInv'
  BY MergeKept
<1>3. MergeInv => TypeOK
  BY DEF MergeInv, WorldTypes, RecordInv, LoopInv, LoopTypes, TypeOK
<1>4. QED BY <1>1, <1>2, <1>3, PTL DEF Spec

(* At most one retry loop and one DevOps watcher run, and the tables of    *)
(* pending loops say exactly whether one does, for any number of tasks that*)
(* schedule one (schedule_auto_merge_retry, schedule_post_devops_merge     *)
(* _retry).                                                                *)
THEOREM LoopsCounted == Spec => []PendingLoops
<1>1. Init => MergeInv
  BY MergeStarts
<1>2. MergeInv /\ [Next]_vars => MergeInv'
  BY MergeKept
<1>3. MergeInv => PendingLoops
  BY LoopsAreCounted DEF MergeInv, LoopInv, LoopTypes, PendingLoops
<1>4. QED BY <1>1, <1>2, <1>3, PTL DEF Spec

(* A DevOps record stands for an agent at work or one that has reported,   *)
(* and no more dispatches are recorded than the cap, although the count is *)
(* read before an await and written after it (dispatch_devops_agent).      *)
THEOREM DevopsAccounted == Spec => [](ActiveIsReal /\ AttemptsCapped)
<1>1. Init => MergeInv
  BY MergeStarts
<1>2. MergeInv /\ [Next]_vars => MergeInv'
  BY MergeKept
<1>3. MergeInv => ActiveIsReal /\ AttemptsCapped
  BY DEF MergeInv, RecordInv
<1>4. QED BY <1>1, <1>2, <1>3, PTL DEF Spec

(* However the retry loop ends, no pipeline state is left behind           *)
(* (_auto_merge_retry_loop).                                               *)
THEOREM RetryReleases == Spec => RetryEndReleases
<1>1. Init => MergeInv
  BY MergeStarts
<1>2. MergeInv /\ [Next]_vars => MergeInv'
  BY MergeKept
<1>3. MergeInv /\ [Next]_vars =>
        [\A r \in Retriers : Running(r) /\ frame'[r].pc = "idle" => state' = None]_vars
  BY MergeKept DEF ReleasesState
<1>4. QED BY <1>1, <1>2, <1>3, PTL DEF Spec, RetryEndReleases

(* All of it together: tables, record, cap and release (auto_merge.py).    *)
THEOREM LoopsAreAccounted == Spec => LoopsAccounted
BY MergeTypes, LoopsCounted, DevopsAccounted, RetryReleases, PTL DEF LoopsAccounted

=============================================================================
