------------------------- MODULE PipelineStateStore -------------------------
(***************************************************************************)
(* The row of one issue in pipeline_state_store.py and the wrappers of     *)
(* workflow_orchestrator/transitions.py that the rest of the backend uses: *)
(* an in-memory cache (L1), written at once, and a SQLite row written      *)
(* behind it by tasks that take _store_lock one after the other.           *)
(*                                                                         *)
(* Requests to set or remove the state are numbered in the order they are  *)
(* made, and a stored state is known by the number of the request whose    *)
(* content it holds.  The connection runs statements in the order they are *)
(* issued, so a statement takes effect where it is issued and its answer   *)
(* arrives later.                                                          *)
(***************************************************************************)
EXTENDS Naturals, Sequences

CONSTANTS MaxRequests, MaxRetries, MaxReads, MaxCrashes   \* bounds

ASSUME BoundsAssumption ==
    {MaxRequests, MaxRetries, MaxReads, MaxCrashes} \subseteq Nat

VARIABLES
    log,        \* the requests so far: "set" or "remove"
    content,    \* the PipelineState objects: whose content each of them holds
    cache,      \* _pipeline_states[issue]: an object, or NoState
    scheduled,  \* wf-persist tasks created that have not run yet
    waiting,    \* the holder of _store_lock, then those queued for it
    executed,   \* the holder's statement was issued, its commit was not
    row,        \* the row as the connection sees it
    disk,       \* the row as committed
    failed,     \* the last write to end was dropped by an aiosqlite.Error
    undone,     \* history: another coroutine rolled back the last statement issued
    reading,    \* the row a get_pipeline_state_async has selected, or NoState
    spent       \* counters of the bounded actions

store == <<scheduled, waiting, executed>>
db    == <<row, disk, failed, undone>>
vars  == <<log, content, cache, store, db, reading, spent>>

NoState == 0
Counters == [retries: Nat, reads: Nat, crashes: Nat]
Task == [op: {"persist", "delete", "write"}, obj: Nat, num: Nat]

(* Request n left a state; 0 stands for no request yet.                    *)
Present(n) == n \in 1..Len(log) /\ log[n] = "set"
Requests   == Len(log)
Quiescent  == scheduled = <<>> /\ waiting = <<>>

(* What a task writes is read off the object when the task has the lock.   *)
Written(t) == IF t.op = "delete" THEN t.num ELSE content[t.obj]

Init ==
    /\ log = <<>> /\ content = <<>> /\ cache = NoState
    /\ scheduled = <<>> /\ waiting = <<>> /\ executed = FALSE
    /\ row = 0 /\ disk = 0 /\ failed = FALSE /\ undone = FALSE
    /\ reading = NoState
    /\ spent = [retries |-> 0, reads |-> 0, crashes |-> 0]

---------------------------------------------------------------------------
(* transitions.set_pipeline_state: a new object, or the cached one changed *)
(* in place, goes to the cache now and to SQLite by a background task.     *)
_schedule_persist(t) == scheduled' = Append(scheduled, t)
Persist(o) == [op |-> "persist", obj |-> o, num |-> 0]
Delete     == [op |-> "delete", obj |-> NoState, num |-> Requests + 1]

SetNew ==
    /\ Requests < MaxRequests
    /\ log' = Append(log, "set")
    /\ content' = Append(content, Requests + 1)
    /\ cache' = Len(content) + 1
    /\ _schedule_persist(Persist(Len(content) + 1))
    /\ UNCHANGED <<waiting, executed, db, reading, spent>>
SetCachedUnsaved ==
    /\ Requests < MaxRequests /\ cache # NoState
    /\ log' = Append(log, "set")
    /\ content' = [content EXCEPT ![cache] = Requests + 1]
    /\ UNCHANGED <<cache, store, db, reading, spent>>
SetCached ==
    /\ Requests < MaxRequests /\ cache # NoState
    /\ log' = Append(log, "set")
    /\ content' = [content EXCEPT ![cache] = Requests + 1]
    /\ _schedule_persist(Persist(cache))
    /\ UNCHANGED <<cache, waiting, executed, db, reading, spent>>
set_pipeline_state == SetNew \/ SetCached

(* transitions.remove_pipeline_state. *)
remove_pipeline_state ==
    /\ Requests < MaxRequests
    /\ log' = Append(log, "remove")
    /\ cache' = NoState
    /\ _schedule_persist(Delete)
    /\ UNCHANGED <<content, waiting, executed, db, reading, spent>>

(* retry_pipeline of the MCP server changes the cached object and awaits   *)
(* the store's own set_pipeline_state, which queues for the lock at once.  *)
retry_pipeline ==
    /\ Requests < MaxRequests /\ spent.retries < MaxRetries
    /\ cache # NoState
    /\ log' = Append(log, "set")
    /\ content' = [content EXCEPT ![cache] = Requests + 1]
    /\ waiting' = Append(waiting, [op |-> "write", obj |-> cache, num |-> 0])
    /\ spent' = [spent EXCEPT !.retries = @ + 1]
    /\ UNCHANGED <<cache, scheduled, executed, db, reading>>

---------------------------------------------------------------------------
StartLatest ==
    /\ scheduled # <<>>
    /\ waiting' = Append(waiting, scheduled[Len(scheduled)])
    /\ scheduled' = SubSeq(scheduled, 1, Len(scheduled) - 1)
    /\ UNCHANGED <<log, content, cache, executed, db, reading, spent>>
(* The loop runs a created task before the next answer of SQLite reaches   *)
(* the coroutine that awaits it.                                           *)
Start ==
    /\ scheduled # <<>>
    /\ waiting' = Append(waiting, Head(scheduled))
    /\ scheduled' = Tail(scheduled)
    /\ UNCHANGED <<log, content, cache, executed, db, reading, spent>>

Holder == Head(waiting)
HasLock == scheduled = <<>> /\ waiting # <<>>
Release == waiting' = Tail(waiting) /\ executed' = FALSE

(* With the lock: a delete pops the cache first, then the statement is     *)
(* issued.                                                                 *)
Acquired == cache' = IF Holder.op = "delete" THEN NoState ELSE cache
Execute ==
    /\ HasLock /\ ~executed
    /\ Acquired
    /\ row' = Written(Holder) /\ executed' = TRUE /\ undone' = FALSE
    /\ UNCHANGED <<log, content, scheduled, waiting, disk, failed, reading, spent>>
ExecuteFails ==
    /\ HasLock /\ ~executed
    /\ Acquired
    /\ failed' = TRUE
    /\ Release
    /\ UNCHANGED <<log, content, scheduled, row, disk, undone, reading, spent>>

CommitCaches ==
    /\ HasLock /\ executed
    /\ disk' = row /\ failed' = FALSE
    /\ cache' = IF Holder.op # "delete" THEN Holder.obj ELSE cache
    /\ Release
    /\ UNCHANGED <<log, content, scheduled, row, undone, reading, spent>>
(* The commit; only the awaited write then puts its object in the cache.   *)
Commit ==
    /\ HasLock /\ executed
    /\ disk' = row /\ failed' = FALSE
    /\ cache' = IF Holder.op = "write" THEN Holder.obj ELSE cache
    /\ Release
    /\ UNCHANGED <<log, content, scheduled, row, undone, reading, spent>>
CommitFailsRetries ==
    /\ HasLock /\ executed
    /\ failed' = TRUE /\ executed' = FALSE
    /\ UNCHANGED <<log, content, cache, scheduled, waiting, row, disk, undone, reading, spent>>
CommitFails ==
    /\ HasLock /\ executed
    /\ failed' = TRUE
    /\ Release
    /\ UNCHANGED <<log, content, cache, scheduled, row, disk, undone, reading, spent>>

(* The stores that share the connection end their own transactions without *)
(* this lock, with a commit or, when one of their statements failed, with a *)
(* rollback; either takes the pending statement of this store with it.     *)
OtherCommit ==
    /\ disk # row /\ disk' = row
    /\ UNCHANGED <<log, content, cache, store, row, failed, undone, reading, spent>>
OtherRollback ==
    /\ disk # row /\ row' = disk
    /\ undone' = (undone \/ executed)
    /\ UNCHANGED <<log, content, cache, store, disk, failed, reading, spent>>

(* get_pipeline_state_async on a cache miss: select without the lock, and  *)
(* put what was selected in the cache when the answer arrives.             *)
Select ==
    /\ cache = NoState /\ reading = NoState /\ Present(row)
    /\ spent.reads < MaxReads
    /\ reading' = row
    /\ spent' = [spent EXCEPT !.reads = @ + 1]
    /\ UNCHANGED <<log, content, cache, store, db>>
Repopulate ==
    /\ scheduled = <<>> /\ reading # NoState
    /\ content' = Append(content, reading)
    /\ cache' = Len(content) + 1
    /\ reading' = NoState
    /\ UNCHANGED <<log, store, db, spent>>

(* A crash, and init_pipeline_state_store: the requests that had not been  *)
(* committed are forgotten.                                                *)
Restart ==
    /\ spent.crashes < MaxCrashes
    /\ log' = SubSeq(log, 1, disk)
    /\ content' = IF Present(disk) THEN <<disk>> ELSE <<>>
    /\ cache' = IF Present(disk) THEN 1 ELSE NoState
    /\ scheduled' = <<>> /\ waiting' = <<>> /\ executed' = FALSE
    /\ row' = disk /\ failed' = FALSE /\ undone' = FALSE /\ reading' = NoState
    /\ spent' = [spent EXCEPT !.crashes = @ + 1]
    /\ UNCHANGED disk

StoreStep == Start \/ Execute \/ ExecuteFails \/ Commit \/ CommitFails
Next == \/ set_pipeline_state \/ remove_pipeline_state \/ retry_pipeline
        \/ StoreStep \/ OtherCommit \/ OtherRollback
        \/ Select \/ Repopulate
        \/ Restart

Spec     == Init /\ [][Next]_vars
(* The loop runs its tasks and the connection answers, with an error       *)
(* perhaps; nothing is assumed of the callers.                             *)
LiveSpec == Spec /\ WF_vars(StoreStep)
---------------------------------------------------------------------------
(* Every variable holds a value of its type, and what is queued or cached  *)
(* refers to objects and requests that exist.                              *)
Tasks(objects, requests) ==
    {t \in Task : IF t.op = "delete" THEN t.num \in 1..requests ELSE t.obj \in 1..objects}
TypeOK ==
    /\ log \in Seq({"set", "remove"})
    /\ content \in Seq(0..Requests)
    /\ cache \in 0..Len(content)
    /\ scheduled \in Seq(Tasks(Len(content), Requests))
    /\ waiting \in Seq(Tasks(Len(content), Requests))
    /\ executed \in BOOLEAN /\ (executed => waiting # <<>>)
    /\ row \in 0..Requests /\ disk \in 0..Requests
    /\ failed \in BOOLEAN /\ undone \in BOOLEAN
    /\ reading \in 0..Requests
    /\ spent \in Counters

(* When nothing is left to write, the last write reported no error and no  *)
(* other coroutine rolled its statement back before the commit, SQLite     *)
(* holds what the last request asked for: whatever was queued, started and *)
(* changed in place meanwhile, no earlier request is written after it.     *)
Settled == Quiescent /\ ~failed /\ ~undone => row = Requests /\ disk = Requests

(* While only the synchronous wrappers write, and no miss is filled from   *)
(* SQLite, the cache holds the newest state or none: a background task     *)
(* never puts back the state it was created with.                          *)
CacheNeverStale ==
    spent.retries = 0 /\ spent.reads = 0 /\ cache # NoState => content[cache] = Requests

(* While only the synchronous wrappers write, what is committed only moves *)
(* forward in the order of the requests, over crashes as well: a restart   *)
(* loses the latest requests and never one that a surviving request        *)
(* followed.                                                               *)
DiskAdvances == [][spent.retries = 0 => disk' >= disk]_vars

(* Every request is written or dropped with an error: the lock is never    *)
(* kept and no task is left in its queue.                                  *)
RequestsEnd == <>[]Quiescent

=============================================================================
