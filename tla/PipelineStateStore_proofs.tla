---------------------- MODULE PipelineStateStore_proofs ----------------------
(***************************************************************************)
(* Proofs about the cache and the row of one pipeline state, for every     *)
(* value of the bounds.                                                    *)
(***************************************************************************)
EXTENDS PipelineStateStore, SequenceTheorems, TLAPS

(* The tasks that have not released the lock, in the order they will have  *)
(* it; the statement of the first may have been issued already.            *)
Queue == waiting \o scheduled
Depth == Len(Queue)
First == IF executed THEN 2 ELSE 1

(* Whatever is still to be written, the last request is written last.      *)
LastWins ==
    /\ Depth >= First => Written(Queue[Depth]) = Requests
    /\ Depth = 1 /\ executed /\ ~undone => row = Requests
    /\ Depth = 0 /\ ~failed /\ ~undone => row = Requests /\ disk = Requests

(* Why an awaited write, which overtakes the tasks that have not run yet,  *)
(* does not break that: they end with a write of the same object.          *)
ScheduledIsCached ==
    scheduled # <<>> /\ cache # NoState
        => Queue[Depth].op = "persist" /\ Queue[Depth].obj = cache

(* Why the row only moves forward: what is queued is in the order of the   *)
(* requests.  Changing the cached object in place keeps the order because  *)
(* the tasks that hold it are the last ones.                               *)
InOrder == spent.retries = 0 =>
    /\ disk <= row
    /\ \A i \in 1..Depth : Queue[i].op # "write"
    /\ \A i \in First..Depth : row <= Written(Queue[i])
    /\ \A i, j \in 1..Depth : i < j => Written(Queue[i]) <= Written(Queue[j])
    /\ \A i, j \in 1..Depth :
          i < j /\ Queue[i].op = "persist" /\ Queue[i].obj = cache
             => Queue[j].op = "persist" /\ Queue[j].obj = cache

ReadsCounted == reading # NoState => spent.reads > 0

Inv == TypeOK /\ LastWins /\ ScheduledIsCached /\ InOrder /\ ReadsCounted /\ CacheNeverStale
-----------------------------------------------------------------------------
(* Types                                                                   *)

USE DEF NoState

LEMMA InitType == Init => TypeOK
<1> SUFFICES ASSUME Init PROVE TypeOK
  OBVIOUS
<1>1. Requests = 0 /\ Len(content) = 0
  BY DEF Init, Requests
<1>2. /\ log \in Seq({"set", "remove"}) /\ content \in Seq(0..Requests)
      /\ scheduled \in Seq(Tasks(Len(content), Requests))
      /\ waiting \in Seq(Tasks(Len(content), Requests))
  BY EmptySeq DEF Init
<1>3. spent \in Counters
  BY DEF Init, Counters
<1>4. /\ cache \in 0..Len(content) /\ row \in 0..Requests /\ disk \in 0..Requests
      /\ reading \in 0..Requests
  BY <1>1 DEF Init
<1>5. executed = FALSE /\ failed = FALSE /\ undone = FALSE
  BY DEF Init
<1>6. QED BY <1>2, <1>3, <1>4, <1>5 DEF TypeOK

\* Tasks stay well formed while requests and objects are only added.
LEMMA TasksGrow ==
  ASSUME NEW o1 \in Nat, NEW r1 \in Nat, NEW o2 \in Nat, NEW r2 \in Nat,
         o1 <= o2, r1 <= r2
  PROVE  Seq(Tasks(o1, r1)) \subseteq Seq(Tasks(o2, r2))
<1>1. Tasks(o1, r1) \subseteq Tasks(o2, r2)
  BY DEF Tasks, Task
<1>2. QED BY <1>1, SeqMonotonic

\* The tasks the wrappers and the awaited write create.
LEMMA TaskTypes ==
  ASSUME NEW o \in Nat, NEW r \in Nat
  PROVE  /\ \A k \in 1..o : /\ Persist(k) \in Tasks(o, r)
                            /\ [op |-> "write", obj |-> k, num |-> 0] \in Tasks(o, r)
         /\ \A n \in 1..r : [op |-> "delete", obj |-> 0, num |-> n] \in Tasks(o, r)
BY DEF Tasks, Task, Persist

\* A request more: the log grows by one, and what was stored keeps its type.
LEMMA LogGrows ==
  ASSUME TypeOK, NEW k \in {"set", "remove"}, log' = Append(log, k)
  PROVE  /\ log' \in Seq({"set", "remove"})
         /\ Requests \in Nat /\ Requests' = Requests + 1
         /\ content \in Seq(0..Requests')
<1>1. /\ log' \in Seq({"set", "remove"})
      /\ Requests \in Nat /\ Requests' = Requests + 1
  BY DEF TypeOK, Requests
<1>2. 0..Requests \subseteq 0..Requests'
  BY <1>1
<1>3. content \in Seq(0..Requests')
  BY <1>2, SeqMonotonic DEF TypeOK
<1>4. QED BY <1>1, <1>3

LEMMA TypeStep == TypeOK /\ [Next]_vars => TypeOK'
<1> SUFFICES ASSUME TypeOK, [Next]_vars PROVE TypeOK'
  OBVIOUS
<1> DEFINE T == Tasks(Len(content), Requests)
<1>0. /\ Requests \in Nat /\ Len(content) \in Nat
      /\ scheduled \in Seq(T) /\ waiting \in Seq(T) /\ content \in Seq(0..Requests)
      /\ Requests = Len(log)
  BY DEF TypeOK, Requests
<1>1. CASE SetNew
  <2>1. Requests' = Requests + 1 /\ log' \in Seq({"set", "remove"})
        /\ content \in Seq(0..Requests')
    BY <1>1, LogGrows DEF SetNew
  <2>2. content' \in Seq(0..Requests') /\ Len(content') = Len(content) + 1
    BY <1>1, <2>1, <1>0 DEF SetNew
  <2>3. Seq(T) \subseteq Seq(T')
    BY <2>1, <2>2, <1>0, TasksGrow
  <2>4. Persist(Len(content) + 1) \in T'
    <3>1. Len(content') \in Nat /\ Requests' \in Nat /\ Len(content) + 1 \in 1..Len(content')
      BY <2>1, <2>2, <1>0
    <3>2. QED BY <3>1, TaskTypes
  <2>5. scheduled' \in Seq(T') /\ waiting' \in Seq(T')
    BY <2>3, <2>4, <1>0, <1>1 DEF SetNew, _schedule_persist
  <2>6. cache' \in 0..Len(content')
    BY <2>2, <1>0, <1>1 DEF SetNew
  <2>7. QED BY <2>1, <2>2, <2>5, <2>6, <1>0, <1>1 DEF SetNew, TypeOK, db
<1>2. CASE SetCached
  <2>1. Requests' = Requests + 1 /\ log' \in Seq({"set", "remove"})
        /\ content \in Seq(0..Requests')
    BY <1>2, LogGrows DEF SetCached
  <2>2. content' \in Seq(0..Requests') /\ Len(content') = Len(content)
    BY <1>2, <2>1, <1>0 DEF SetCached, TypeOK
  <2>3. Seq(T) \subseteq Seq(T')
    BY <2>1, <2>2, <1>0, TasksGrow
  <2>4. Persist(cache) \in T'
    <3>1. Len(content') \in Nat /\ Requests' \in Nat /\ cache \in 1..Len(content')
      BY <2>1, <2>2, <1>0, <1>2 DEF SetCached, TypeOK
    <3>2. QED BY <3>1, TaskTypes
  <2>5. scheduled' \in Seq(T') /\ waiting' \in Seq(T')
    BY <2>3, <2>4, <1>0, <1>2 DEF SetCached, _schedule_persist
  <2>6. QED BY <2>1, <2>2, <2>5, <1>0, <1>2 DEF SetCached, TypeOK, db
<1>3. CASE remove_pipeline_state
  <2>1. Requests' = Requests + 1 /\ log' \in Seq({"set", "remove"})
        /\ content' \in Seq(0..Requests') /\ content' = content
    BY <1>3, LogGrows DEF remove_pipeline_state
  <2>2. Seq(T) \subseteq Seq(T')
    BY <2>1, <1>0, TasksGrow
  <2>3. Delete \in T'
    BY <2>1, <1>0, TaskTypes DEF Delete
  <2>4. scheduled' \in Seq(T') /\ waiting' \in Seq(T')
    BY <2>2, <2>3, <1>0, <1>3 DEF remove_pipeline_state, _schedule_persist
  <2>5. QED BY <2>1, <2>4, <1>0, <1>3 DEF remove_pipeline_state, TypeOK, db
<1>4. CASE retry_pipeline
  <2>1. Requests' = Requests + 1 /\ log' \in Seq({"set", "remove"})
        /\ content \in Seq(0..Requests')
    BY <1>4, LogGrows DEF retry_pipeline
  <2>2. content' \in Seq(0..Requests') /\ Len(content') = Len(content)
    BY <1>4, <2>1, <1>0 DEF retry_pipeline, TypeOK
  <2>3. Seq(T) \subseteq Seq(T')
    BY <2>1, <2>2, <1>0, TasksGrow
  <2>4. [op |-> "write", obj |-> cache, num |-> 0] \in T'
    <3>1. Len(content') \in Nat /\ Requests' \in Nat /\ cache \in 1..Len(content')
      BY <2>1, <2>2, <1>0, <1>4 DEF retry_pipeline, TypeOK
    <3>2. QED BY <3>1, TaskTypes
  <2>5. scheduled' \in Seq(T') /\ waiting' \in Seq(T') /\ waiting' # <<>>
    BY <2>3, <2>4, <1>0, <1>4 DEF retry_pipeline
  <2>6. spent' \in Counters
    <3>1. spent \in Counters
      BY DEF TypeOK
    <3>2. spent' = [spent EXCEPT !.retries = spent.retries + 1]
      BY <1>4 DEF retry_pipeline
    <3>3. QED BY <3>1, <3>2 DEF Counters
  <2>7. QED BY <2>1, <2>2, <2>5, <2>6, <1>0, <1>4 DEF retry_pipeline, TypeOK, db
<1>5. CASE Start
  <2>1. scheduled' \in Seq(T) /\ waiting' \in Seq(T) /\ waiting' # <<>>
    BY <1>5, <1>0 DEF Start
  <2>2. T' = T /\ Requests' = Requests
    BY <1>5 DEF Start, Requests
  <2>3. QED BY <2>1, <2>2, <1>0, <1>5 DEF Start, TypeOK, db
<1>6. CASE Execute
  <2>1. Holder \in T
    BY <1>6, <1>0 DEF Execute, HasLock, Holder
  <2>2. Written(Holder) \in 0..Requests
    BY <2>1, <1>0 DEF Written, Tasks, Task
  <2>3. T' = T /\ Requests' = Requests
    BY <1>6 DEF Execute, Requests
  <2>4. executed' = TRUE /\ undone' = FALSE /\ waiting' # <<>>
    BY <1>6 DEF Execute, HasLock
  <2>6. cache' \in 0..Len(content)
    BY <1>6, <1>0 DEF Execute, Acquired, TypeOK
  <2>5. QED BY <2>2, <2>3, <2>4, <2>6, <1>0, <1>6 DEF Execute, TypeOK
<1>7. CASE ExecuteFails
  <2>1. waiting' \in Seq(T)
    BY <1>7, <1>0 DEF ExecuteFails, HasLock, Release
  <2>2. T' = T /\ Requests' = Requests
    BY <1>7 DEF ExecuteFails, Requests
  <2>3. cache' \in 0..Len(content')
    BY <1>0, <1>7 DEF ExecuteFails, Acquired, TypeOK
  <2>4. QED BY <2>1, <2>2, <2>3, <1>0, <1>7 DEF ExecuteFails, Release, TypeOK
<1>8. CASE Commit
  <2>1. waiting' \in Seq(T) /\ Holder \in T
    BY <1>8, <1>0 DEF Commit, HasLock, Release, Holder
  <2>2. T' = T /\ Requests' = Requests
    BY <1>8 DEF Commit, Requests
  <2>3. cache' \in 0..Len(content)
    BY <2>1, <1>8, <1>0 DEF Commit, TypeOK, Tasks, Task
  <2>4. QED BY <2>1, <2>2, <2>3, <1>0, <1>8 DEF Commit, Release, TypeOK
<1>9. CASE CommitFails
  <2>1. waiting' \in Seq(T)
    BY <1>9, <1>0 DEF CommitFails, HasLock, Release
  <2>2. T' = T /\ Requests' = Requests
    BY <1>9 DEF CommitFails, Requests
  <2>3. QED BY <2>1, <2>2, <1>0, <1>9 DEF CommitFails, Release, TypeOK
<1>10. CASE OtherCommit
  BY <1>10 DEF OtherCommit, store, TypeOK, Requests
<1>16. CASE OtherRollback
  BY <1>16 DEF OtherRollback, store, TypeOK, Requests
<1>11. CASE Select
  <2>1. spent \in Counters /\ spent' = [spent EXCEPT !.reads = spent.reads + 1]
    BY <1>11 DEF Select, TypeOK
  <2>2. spent' \in Counters
    BY <2>1 DEF Counters
  <2>3. QED BY <2>2, <1>11 DEF Select, store, db, TypeOK, Requests
<1>12. CASE Repopulate
  <2>1. /\ content' \in Seq(0..Requests) /\ Len(content') = Len(content) + 1
        /\ cache' \in 0..Len(content')
    BY <1>12, <1>0 DEF Repopulate, TypeOK
  <2>2. Requests' = Requests
    BY <1>12 DEF Repopulate, Requests
  <2>3. Seq(T) \subseteq Seq(T')
    BY <2>1, <2>2, <1>0, TasksGrow
  <2>4. QED BY <2>1, <2>2, <2>3, <1>0, <1>12 DEF Repopulate, store, db, TypeOK
<1>13. CASE Restart
  <2>1. log' \in Seq({"set", "remove"}) /\ Requests' = disk /\ disk \in Nat
    BY <1>13, <1>0 DEF Restart, TypeOK, Requests
  <2>2. content' \in Seq(0..Requests') /\ cache' \in 0..Len(content')
    <3>1. CASE Present(disk)
      <4>1. disk \in 0..Requests' /\ content' = <<disk>> /\ cache' = 1
        BY <2>1, <3>1, <1>13 DEF Restart
      <4>2. QED BY <4>1
    <3>2. CASE ~Present(disk)
      BY <3>2, <1>13, EmptySeq DEF Restart
    <3>3. QED BY <3>1, <3>2
  <2>3. scheduled' \in Seq(T') /\ waiting' \in Seq(T')
    BY <1>13 DEF Restart
  <2>4. spent' \in Counters
    <3>1. spent \in Counters
      BY DEF TypeOK
    <3>2. spent' = [spent EXCEPT !.crashes = spent.crashes + 1]
      BY <1>13 DEF Restart
    <3>3. QED BY <3>1, <3>2 DEF Counters
  <2>5. /\ row' \in 0..Requests' /\ disk' \in 0..Requests' /\ reading' \in 0..Requests'
        /\ executed' = FALSE /\ failed' = FALSE /\ undone' = FALSE
    BY <2>1, <1>13 DEF Restart
  <2>6. QED BY <2>1, <2>2, <2>3, <2>4, <2>5 DEF TypeOK
<1>14. CASE UNCHANGED vars
  BY <1>14 DEF vars, store, db, TypeOK, Requests
<1>15. QED
  BY <1>1, <1>2, <1>3, <1>4, <1>5, <1>6, <1>7, <1>8, <1>9, <1>10, <1>11, <1>12, <1>13, <1>14, <1>16
     DEF Next, set_pipeline_state, StoreStep

(* Every variable keeps its type, and what is queued or cached refers to    *)
(* objects and requests that exist.                                        *)
THEOREM TypeCorrect == Spec => []TypeOK
BY InitType, TypeStep, PTL DEF Spec
-----------------------------------------------------------------------------
(* The queue                                                               *)

LEMMA QueueTyped ==
  ASSUME TypeOK
  PROVE  /\ Requests \in Nat /\ Len(content) \in Nat /\ Depth \in Nat
         /\ Queue \in Seq(Tasks(Len(content), Requests))
         /\ \A i \in 1..Depth : Queue[i] \in Tasks(Len(content), Requests)
         /\ \A i \in 1..Depth : /\ Queue[i].op # "delete" => Queue[i].obj \in 1..Len(content)
                                /\ Written(Queue[i]) \in 0..Requests
         /\ executed => Depth > 0
         /\ scheduled # <<>> => Depth > 0
         /\ Quiescent <=> Depth = 0
<1> DEFINE T == Tasks(Len(content), Requests)
<1>1. /\ Requests \in Nat /\ Len(content) \in Nat
      /\ waiting \in Seq(T) /\ scheduled \in Seq(T)
      /\ \A o \in 1..Len(content) : content[o] \in 0..Requests
  BY DEF TypeOK, Requests
<1>2. /\ Queue \in Seq(T) /\ Depth = Len(waiting) + Len(scheduled)
      /\ Len(waiting) \in Nat /\ Len(scheduled) \in Nat
  BY <1>1, ConcatProperties DEF Queue, Depth
<1>3. \A i \in 1..Depth : Queue[i] \in T
  BY <1>2 DEF Depth
<1>4. \A i \in 1..Depth : /\ Queue[i].op # "delete" => Queue[i].obj \in 1..Len(content)
                          /\ Written(Queue[i]) \in 0..Requests
  BY <1>1, <1>3 DEF Tasks, Task, Written
<1>5. /\ waiting # <<>> <=> Len(waiting) > 0
      /\ scheduled # <<>> <=> Len(scheduled) > 0
  BY <1>1
<1>6. executed => waiting # <<>>
  BY DEF TypeOK
<1>7. QED BY <1>1, <1>2, <1>3, <1>4, <1>5, <1>6 DEF Quiescent

\* What the wrappers schedule goes last.
LEMMA Enqueued ==
  ASSUME TypeOK, TypeOK', NEW t, scheduled' = Append(scheduled, t), waiting' = waiting
  PROVE  /\ Depth' = Depth + 1
         /\ \A i \in 1..Depth : Queue'[i] = Queue[i]
         /\ Queue'[Depth + 1] = t
<1>1. /\ waiting \in Seq(Task) /\ scheduled \in Seq(Task) /\ scheduled' \in Seq(Task)
      /\ waiting' \in Seq(Task)
  <2>1. \A o, r : Tasks(o, r) \subseteq Task
    BY DEF Tasks
  <2>2. QED BY <2>1, SeqMonotonic DEF TypeOK
<1>2. t \in Task
  BY <1>1
<1>3. /\ Len(scheduled') = Len(scheduled) + 1
      /\ \A i \in 1..Len(scheduled) : scheduled'[i] = scheduled[i]
      /\ scheduled'[Len(scheduled) + 1] = t
  BY <1>1, <1>2
<1>4. /\ Len(waiting) \in Nat /\ Len(scheduled) \in Nat
      /\ Depth = Len(waiting) + Len(scheduled)
      /\ Depth' = Len(waiting) + Len(scheduled')
      /\ \A i \in 1..Depth : Queue[i] = IF i <= Len(waiting) THEN waiting[i]
                                        ELSE scheduled[i - Len(waiting)]
      /\ \A i \in 1..Depth' : Queue'[i] = IF i <= Len(waiting) THEN waiting[i]
                                          ELSE scheduled'[i - Len(waiting)]
  BY <1>1, ConcatProperties DEF Queue, Depth
<1>5. QED BY <1>3, <1>4

\* A task that starts keeps its place.
LEMMA Started == TypeOK /\ TypeOK' /\ Start => Queue' = Queue
<1> SUFFICES ASSUME TypeOK, TypeOK', Start PROVE Queue' = Queue
  OBVIOUS
<1>1. waiting \in Seq(Task) /\ scheduled \in Seq(Task) /\ scheduled # <<>>
  <2>1. \A o, r : Tasks(o, r) \subseteq Task
    BY DEF Tasks
  <2>2. QED BY <2>1, SeqMonotonic DEF TypeOK, Start
<1>2. /\ Head(scheduled) \in Task /\ Tail(scheduled) \in Seq(Task)
      /\ scheduled = <<Head(scheduled)>> \o Tail(scheduled)
  BY <1>1
<1>3. Append(waiting, Head(scheduled)) = waiting \o <<Head(scheduled)>>
  BY <1>1, <1>2, AppendIsConcat
<1>4. <<Head(scheduled)>> \in Seq(Task)
  BY <1>2
<1>5. (waiting \o <<Head(scheduled)>>) \o Tail(scheduled)
        = waiting \o (<<Head(scheduled)>> \o Tail(scheduled))
  BY <1>1, <1>2, <1>4, ConcatAssociative
<1>6. Queue' = Append(waiting, Head(scheduled)) \o Tail(scheduled)
  BY DEF Start, Queue
<1>7. QED BY <1>2, <1>3, <1>5, <1>6 DEF Queue

\* The holder is the first of the queue; its release lets the others move up.
LEMMA Holding ==
  ASSUME TypeOK, HasLock
  PROVE  Depth > 0 /\ Queue[1] = Holder /\ Queue = waiting
<1>1. waiting \in Seq(Task) /\ waiting # <<>> /\ scheduled = <<>>
  <2>1. \A o, r : Tasks(o, r) \subseteq Task
    BY DEF Tasks
  <2>2. QED BY <2>1, SeqMonotonic DEF TypeOK, HasLock
<1>2. Queue = waiting
  BY <1>1, ConcatEmptySeq DEF Queue
<1>3. QED BY <1>1, <1>2 DEF Depth, Holder

LEMMA Released ==
  ASSUME TypeOK, HasLock, Release, scheduled' = scheduled
  PROVE  /\ Depth' = Depth - 1
         /\ \A i \in 1..Depth' : Queue'[i] = Queue[i + 1]
         /\ ~executed' /\ First' = 1
<1>1. waiting \in Seq(Task) /\ waiting # <<>> /\ scheduled = <<>>
  <2>1. \A o, r : Tasks(o, r) \subseteq Task
    BY DEF Tasks
  <2>2. QED BY <2>1, SeqMonotonic DEF TypeOK, HasLock
<1>2. Queue' = Tail(waiting)
  BY <1>1, ConcatEmptySeq DEF Queue, Release
<1>3. QED BY <1>1, <1>2, Holding DEF Depth, First, Release

\* An awaited write goes before the tasks that have not started.
LEMMA Overtaking ==
  ASSUME TypeOK, TypeOK', NEW t, waiting' = Append(waiting, t), scheduled' = scheduled
  PROVE  /\ Depth' = Depth + 1
         /\ scheduled = <<>> => Queue'[Depth + 1] = t
         /\ scheduled # <<>> => Depth > 0 /\ Queue'[Depth + 1] = Queue[Depth]
<1>1. /\ waiting \in Seq(Task) /\ scheduled \in Seq(Task) /\ waiting' \in Seq(Task)
  <2>1. \A o, r : Tasks(o, r) \subseteq Task
    BY DEF Tasks
  <2>2. QED BY <2>1, SeqMonotonic DEF TypeOK
<1>2. /\ Len(waiting') = Len(waiting) + 1
      /\ waiting'[Len(waiting) + 1] = t
  BY <1>1
<1>3. /\ Len(waiting) \in Nat /\ Len(scheduled) \in Nat
      /\ Depth = Len(waiting) + Len(scheduled)
      /\ Depth' = Len(waiting') + Len(scheduled)
      /\ \A i \in 1..Depth : Queue[i] = IF i <= Len(waiting) THEN waiting[i]
                                        ELSE scheduled[i - Len(waiting)]
      /\ \A i \in 1..Depth' : Queue'[i] = IF i <= Len(waiting') THEN waiting'[i]
                                          ELSE scheduled[i - Len(waiting')]
  BY <1>1, ConcatProperties DEF Queue, Depth
<1>4. scheduled = <<>> <=> Len(scheduled) = 0
  BY <1>1
<1>5. QED BY <1>2, <1>3, <1>4

-----------------------------------------------------------------------------
(* Steps                                                                   *)

LEMMA InitInv == Init => Inv
<1> SUFFICES ASSUME Init PROVE Inv
  OBVIOUS
<1>1. TypeOK
  BY InitType
<1>2. Depth = 0 /\ Requests = 0 /\ Queue = <<>>
  BY ConcatEmptySeq, EmptySeq DEF Init, Queue, Depth, Requests
<1>3. First = 1
  BY DEF Init, First
<1>4. LastWins
  BY <1>2, <1>3 DEF Init, LastWins
<1>5. ScheduledIsCached /\ ReadsCounted /\ CacheNeverStale
  BY DEF Init, ScheduledIsCached, ReadsCounted, CacheNeverStale
<1>6. InOrder
  BY <1>2, <1>3 DEF Init, InOrder
<1>7. QED BY <1>1, <1>4, <1>5, <1>6 DEF Inv

LEMMA SetNewInv == Inv /\ TypeOK' /\ SetNew => Inv'
<1> SUFFICES ASSUME Inv, TypeOK', SetNew PROVE Inv'
  OBVIOUS
<1> DEFINE n == Len(content) + 1
<1>1. TypeOK
  BY DEF Inv
<1>2. /\ Depth \in Nat /\ Requests \in Nat /\ Len(content) \in Nat
      /\ \A i \in 1..Depth : /\ Queue[i].op # "delete" => Queue[i].obj \in 1..Len(content)
                             /\ Written(Queue[i]) \in 0..Requests
      /\ executed => Depth > 0
  BY <1>1, QueueTyped
<1>3. /\ Depth' = Depth + 1 /\ Queue'[Depth + 1] = Persist(n)
      /\ \A i \in 1..Depth : Queue'[i] = Queue[i]
  BY <1>1, Enqueued DEF SetNew, _schedule_persist
<1>4. Requests' = Requests + 1
  BY <1>1, LogGrows DEF SetNew
<1>5. /\ content' = Append(content, Requests + 1) /\ cache' = n
      /\ executed' = executed /\ row' = row /\ disk' = disk /\ failed' = failed /\ undone' = undone
      /\ spent' = spent /\ reading' = reading
  BY DEF SetNew, db
<1>6. content'[n] = Requests + 1 /\ \A o \in 1..Len(content) : content'[o] = content[o]
  BY <1>1, <1>5 DEF TypeOK
<1>7. /\ \A i \in 1..Depth : Written(Queue[i])' = Written(Queue[i])
      /\ Written(Queue[Depth])' = Requests'
  BY <1>2, <1>3, <1>4, <1>6 DEF Written, Persist
<1>8. LastWins'
  BY <1>2, <1>3, <1>5, <1>7 DEF LastWins
<1>9. ScheduledIsCached' /\ ReadsCounted' /\ CacheNeverStale'
  BY <1>3, <1>4, <1>5, <1>6 DEF ScheduledIsCached, ReadsCounted, CacheNeverStale, Persist, Inv
<1>10. InOrder'
  <2> SUFFICES ASSUME spent.retries = 0 PROVE InOrder'
    BY <1>5 DEF InOrder
  <2>1. disk' <= row'
    BY <1>5 DEF Inv, InOrder
  <2>2. \A i \in 1..Depth' : Queue'[i].op # "write"
    BY <1>2, <1>3 DEF Inv, InOrder, Persist
  <2>3. First' = First
    BY <1>5 DEF First
  <2>4. \A i \in First'..Depth' : row' <= Written(Queue[i])'
    <3>1. row \in 0..Requests
      BY <1>1 DEF TypeOK
    <3>2. First \in {1, 2}
      BY DEF First
    <3>3. QED BY <1>2, <1>3, <1>4, <1>5, <1>7, <2>3, <3>1, <3>2 DEF Inv, InOrder
  <2>5. \A i, j \in 1..Depth' : i < j => Written(Queue[i])' <= Written(Queue[j])'
    <3> TAKE i, j \in 1..Depth'
    <3> HAVE i < j
    <3>1. CASE j = Depth + 1
      BY <1>2, <1>3, <1>4, <1>7, <3>1
    <3>2. CASE j # Depth + 1
      <4>1. i \in 1..Depth /\ j \in 1..Depth
        BY <1>2, <1>3, <3>2
      <4>2. Written(Queue[i]) <= Written(Queue[j])
        BY <4>1 DEF Inv, InOrder
      <4>3. QED BY <4>1, <4>2, <1>7
    <3>3. QED BY <3>1, <3>2
  <2>6. \A i, j \in 1..Depth' :
            i < j /\ Queue'[i].op = "persist" /\ Queue'[i].obj = cache'
               => Queue'[j].op = "persist" /\ Queue'[j].obj = cache'
    <3>1. \A i \in 1..Depth : ~(Queue'[i].op = "persist" /\ Queue'[i].obj = cache')
      BY <1>2, <1>3, <1>5
    <3>2. \A i, j \in 1..Depth' : i < j => i \in 1..Depth
      BY <1>2, <1>3
    <3>3. QED BY <3>1, <3>2
  <2>7. QED BY <2>1, <2>2, <2>4, <2>5, <2>6 DEF InOrder
<1>11. QED BY <1>8, <1>9, <1>10 DEF Inv

LEMMA SetCachedInv == Inv /\ TypeOK' /\ SetCached => Inv'
<1> SUFFICES ASSUME Inv, TypeOK', SetCached PROVE Inv'
  OBVIOUS
<1>1. TypeOK
  BY DEF Inv
<1>2. /\ Depth \in Nat /\ Requests \in Nat /\ Len(content) \in Nat
      /\ \A i \in 1..Depth : /\ Queue[i].op # "delete" => Queue[i].obj \in 1..Len(content)
                             /\ Written(Queue[i]) \in 0..Requests
      /\ executed => Depth > 0
  BY <1>1, QueueTyped
<1>3. /\ Depth' = Depth + 1 /\ Queue'[Depth + 1] = Persist(cache)
      /\ \A i \in 1..Depth : Queue'[i] = Queue[i]
  BY <1>1, Enqueued DEF SetCached, _schedule_persist
<1>4. Requests' = Requests + 1
  BY <1>1, LogGrows DEF SetCached
<1>5. /\ content' = [content EXCEPT ![cache] = Requests + 1] /\ cache' = cache
      /\ executed' = executed /\ row' = row /\ disk' = disk /\ failed' = failed /\ undone' = undone
      /\ spent' = spent /\ reading' = reading
  BY DEF SetCached, db
<1>6. /\ cache \in 1..Len(content) /\ content'[cache] = Requests + 1
      /\ \A o \in 1..Len(content) : o # cache => content'[o] = content[o]
  BY <1>1, <1>5 DEF TypeOK, SetCached
<1>7. /\ Written(Queue[Depth])' = Requests'
      /\ \A i \in 1..Depth : \/ Written(Queue[i])' = Written(Queue[i])
                             \/ /\ Written(Queue[i])' = Requests'
                                /\ Queue[i].op # "delete" /\ Queue[i].obj = cache
      /\ \A i \in 1..Depth : Queue[i].op # "delete" /\ Queue[i].obj = cache
                                => Written(Queue[i])' = Requests'
  <2>1. Written(Queue[Depth])' = Requests'
    BY <1>3, <1>4, <1>6 DEF Written, Persist
  <2>2. ASSUME NEW i \in 1..Depth
        PROVE  IF Queue[i].op # "delete" /\ Queue[i].obj = cache
               THEN Written(Queue[i])' = Requests'
               ELSE Written(Queue[i])' = Written(Queue[i])
    <3>1. Queue'[i] = Queue[i] /\ (Queue[i].op # "delete" => Queue[i].obj \in 1..Len(content))
      BY <1>2, <1>3
    <3>2. QED BY <3>1, <1>4, <1>6 DEF Written
  <2>3. QED BY <2>1, <2>2
<1>8. LastWins'
  BY <1>2, <1>3, <1>5, <1>7 DEF LastWins
<1>9. ScheduledIsCached' /\ ReadsCounted' /\ CacheNeverStale'
  BY <1>3, <1>4, <1>5, <1>6 DEF ScheduledIsCached, ReadsCounted, CacheNeverStale, Persist, Inv
<1>10. InOrder'
  <2> SUFFICES ASSUME spent.retries = 0 PROVE InOrder'
    BY <1>5 DEF InOrder
  <2>0. /\ First \in {1, 2} /\ First' = First /\ row \in 0..Requests
        /\ \A i \in 1..Depth : Queue[i].op = "persist" \/ Queue[i].op = "delete"
    <3>1. \A i \in 1..Depth : Queue[i].op \in {"persist", "delete", "write"}
      BY <1>1, QueueTyped DEF Tasks, Task
    <3>2. QED BY <1>1, <1>5, <3>1 DEF First, TypeOK, Inv, InOrder
  <2>1. disk' <= row'
    BY <1>5 DEF Inv, InOrder
  <2>2. \A i \in 1..Depth' : Queue'[i].op # "write"
    BY <1>2, <1>3 DEF Inv, InOrder, Persist
  <2>3. \A i \in First..Depth : row <= Written(Queue[i])
    BY DEF Inv, InOrder
  <2>4. \A i \in First'..Depth' : row' <= Written(Queue[i])'
    BY <1>2, <1>3, <1>4, <1>5, <1>7, <2>0, <2>3
  <2>5. \A i, j \in 1..Depth' : i < j => Written(Queue[i])' <= Written(Queue[j])'
    <3> TAKE i, j \in 1..Depth'
    <3> HAVE i < j
    <3>1. CASE j = Depth + 1
      BY <1>2, <1>3, <1>4, <1>7, <3>1
    <3>2. CASE j # Depth + 1
      <4>1. i \in 1..Depth /\ j \in 1..Depth
        BY <1>2, <1>3, <3>2
      <4>2. Written(Queue[i]) <= Written(Queue[j])
        BY <4>1 DEF Inv, InOrder
      <4>3. CASE Queue[i].op # "delete" /\ Queue[i].obj = cache
        <5>1. Queue[j].op = "persist" /\ Queue[j].obj = cache
          BY <4>1, <4>3, <2>0 DEF Inv, InOrder
        <5>2. QED BY <4>1, <4>3, <5>1, <1>7, <1>2, <1>4
      <4>4. CASE ~(Queue[i].op # "delete" /\ Queue[i].obj = cache)
        BY <4>1, <4>2, <4>4, <1>7, <1>2, <1>4
      <4>5. QED BY <4>3, <4>4
    <3>3. QED BY <3>1, <3>2
  <2>6. \A i, j \in 1..Depth' :
            i < j /\ Queue'[i].op = "persist" /\ Queue'[i].obj = cache'
               => Queue'[j].op = "persist" /\ Queue'[j].obj = cache'
    <3> TAKE i, j \in 1..Depth'
    <3> HAVE i < j /\ Queue'[i].op = "persist" /\ Queue'[i].obj = cache'
    <3>1. CASE j = Depth + 1
      BY <1>3, <1>5, <3>1 DEF Persist
    <3>2. CASE j # Depth + 1
      <4>1. i \in 1..Depth /\ j \in 1..Depth
        BY <1>2, <1>3, <3>2
      <4>2. QED BY <4>1, <1>3, <1>5 DEF Inv, InOrder
    <3>3. QED BY <3>1, <3>2
  <2>7. QED BY <2>1, <2>2, <2>4, <2>5, <2>6 DEF InOrder
<1>11. QED BY <1>8, <1>9, <1>10 DEF Inv

LEMMA RemoveInv == Inv /\ TypeOK' /\ remove_pipeline_state => Inv'
<1> SUFFICES ASSUME Inv, TypeOK', remove_pipeline_state PROVE Inv'
  OBVIOUS
<1>1. TypeOK
  BY DEF Inv
<1>2. /\ Depth \in Nat /\ Requests \in Nat /\ Len(content) \in Nat
      /\ \A i \in 1..Depth : /\ Queue[i].op # "delete" => Queue[i].obj \in 1..Len(content)
                             /\ Written(Queue[i]) \in 0..Requests
      /\ executed => Depth > 0
  BY <1>1, QueueTyped
<1>3. /\ Depth' = Depth + 1 /\ Queue'[Depth + 1] = Delete
      /\ \A i \in 1..Depth : Queue'[i] = Queue[i]
  BY <1>1, Enqueued DEF remove_pipeline_state, _schedule_persist
<1>4. Requests' = Requests + 1
  BY <1>1, LogGrows DEF remove_pipeline_state
<1>5. /\ content' = content /\ cache' = NoState
      /\ executed' = executed /\ row' = row /\ disk' = disk /\ failed' = failed /\ undone' = undone
      /\ spent' = spent /\ reading' = reading
  BY DEF remove_pipeline_state, db
<1>6. /\ \A i \in 1..Depth : Written(Queue[i])' = Written(Queue[i])
      /\ Written(Queue[Depth])' = Requests'
  BY <1>2, <1>3, <1>4, <1>5 DEF Written, Delete
<1>7. LastWins'
  BY <1>2, <1>3, <1>5, <1>6 DEF LastWins
<1>8. ScheduledIsCached' /\ ReadsCounted' /\ CacheNeverStale'
  BY <1>5 DEF ScheduledIsCached, ReadsCounted, CacheNeverStale, Inv
<1>9. InOrder'
  <2> SUFFICES ASSUME spent.retries = 0 PROVE InOrder'
    BY <1>5 DEF InOrder
  <2>1. /\ First \in {1, 2} /\ First' = First /\ row \in 0..Requests /\ disk' <= row'
    BY <1>1, <1>5 DEF First, TypeOK, Inv, InOrder
  <2>2. \A i \in 1..Depth' : Queue'[i].op # "write"
    BY <1>2, <1>3 DEF Inv, InOrder, Delete
  <2>3. \A i \in First'..Depth' : row' <= Written(Queue[i])'
    BY <1>2, <1>3, <1>4, <1>5, <1>6, <2>1 DEF Inv, InOrder
  <2>4. \A i, j \in 1..Depth' : i < j => Written(Queue[i])' <= Written(Queue[j])'
    <3>1. \A i, j \in 1..Depth : i < j => Written(Queue[i]) <= Written(Queue[j])
      BY DEF Inv, InOrder
    <3>2. QED BY <1>2, <1>3, <1>4, <1>6, <3>1
  <2>5. \A i \in 1..Depth' : ~(Queue'[i].op = "persist" /\ Queue'[i].obj = cache')
    BY <1>2, <1>3, <1>5 DEF Delete
  <2>6. QED BY <2>1, <2>2, <2>3, <2>4, <2>5 DEF InOrder
<1>10. QED BY <1>7, <1>8, <1>9 DEF Inv

LEMMA RetryInv == Inv /\ TypeOK' /\ retry_pipeline => Inv'
<1> SUFFICES ASSUME Inv, TypeOK', retry_pipeline PROVE Inv'
  OBVIOUS
<1> DEFINE t == [op |-> "write", obj |-> cache, num |-> 0]
<1>1. TypeOK
  BY DEF Inv
<1>2. Depth \in Nat /\ Requests \in Nat /\ (executed => Depth > 0)
  BY <1>1, QueueTyped
<1>3. /\ Depth' = Depth + 1
      /\ scheduled = <<>> => Queue'[Depth + 1] = t
      /\ scheduled # <<>> => Queue'[Depth + 1] = Queue[Depth]
  BY <1>1, Overtaking DEF retry_pipeline
<1>4. Requests' = Requests + 1
  BY <1>1, LogGrows DEF retry_pipeline
<1>5. /\ content' = [content EXCEPT ![cache] = Requests + 1] /\ cache' = cache
      /\ executed' = executed /\ scheduled' = scheduled /\ reading' = reading
      /\ cache # NoState
  BY DEF retry_pipeline, db
<1>6. content'[cache] = Requests + 1
  BY <1>1, <1>5 DEF TypeOK
<1>7. spent'.retries = spent.retries + 1 /\ spent.retries \in Nat /\ spent'.reads = spent.reads
  BY <1>1 DEF retry_pipeline, TypeOK, Counters
<1>8. /\ Queue'[Depth + 1].op \in {"persist", "write"}
      /\ Queue'[Depth + 1].obj = cache
      /\ scheduled # <<>> => Queue'[Depth + 1].op = "persist"
  BY <1>3, <1>5 DEF Inv, ScheduledIsCached
<1>9. Written(Queue[Depth])' = Requests'
  BY <1>3, <1>4, <1>6, <1>8 DEF Written
<1>10. LastWins'
  BY <1>2, <1>3, <1>5, <1>9 DEF LastWins
<1>11. ScheduledIsCached'
  BY <1>3, <1>5, <1>8 DEF ScheduledIsCached
<1>12. ReadsCounted' /\ CacheNeverStale' /\ InOrder'
  BY <1>5, <1>7 DEF ReadsCounted, CacheNeverStale, InOrder, Inv
<1>13. QED BY <1>10, <1>11, <1>12 DEF Inv

LEMMA StartInv == Inv /\ TypeOK' /\ Start => Inv'
<1> SUFFICES ASSUME Inv, TypeOK', Start PROVE Inv'
  OBVIOUS
<1>1. TypeOK
  BY DEF Inv
<1>2. Queue' = Queue /\ Depth' = Depth
  BY <1>1, Started DEF Depth
<1>3. /\ content' = content /\ cache' = cache /\ log' = log /\ scheduled # <<>>
      /\ executed' = executed /\ row' = row /\ disk' = disk /\ failed' = failed /\ undone' = undone
      /\ spent' = spent /\ reading' = reading
  BY DEF Start, db
<1>4. Requests' = Requests /\ First' = First /\ \A i : Written(Queue[i])' = Written(Queue[i])
  BY <1>2, <1>3 DEF Requests, First, Written
<1>5. LastWins' /\ InOrder' /\ ReadsCounted' /\ CacheNeverStale'
  BY <1>2, <1>3, <1>4 DEF Inv, LastWins, InOrder, ReadsCounted, CacheNeverStale
<1>6. ScheduledIsCached'
  BY <1>2, <1>3 DEF Inv, ScheduledIsCached
<1>7. QED BY <1>5, <1>6 DEF Inv

LEMMA ExecuteInv == Inv /\ TypeOK' /\ Execute => Inv'
<1> SUFFICES ASSUME Inv, TypeOK', Execute PROVE Inv'
  OBVIOUS
<1>1. TypeOK /\ HasLock /\ ~executed
  BY DEF Inv, Execute
<1>2. /\ Depth \in Nat /\ Depth > 0 /\ Queue[1] = Holder
      /\ \A i \in 1..Depth : Written(Queue[i]) \in 0..Requests
  BY <1>1, QueueTyped, Holding
<1>3. /\ content' = content /\ log' = log /\ scheduled' = <<>> /\ waiting' = waiting
      /\ scheduled' = scheduled
      /\ executed' /\ row' = Written(Queue[1]) /\ disk' = disk /\ failed' = failed
      /\ spent' = spent /\ reading' = reading
      /\ cache' = cache \/ cache' = NoState
  BY <1>2 DEF Execute, HasLock, Acquired
<1>4. Queue' = Queue /\ Depth' = Depth /\ Requests' = Requests /\ First = 1 /\ First' = 2
      /\ \A i : Written(Queue[i])' = Written(Queue[i])
  BY <1>1, <1>3 DEF Queue, Depth, Requests, First, Written
<1>5. LastWins'
  BY <1>2, <1>3, <1>4 DEF Inv, LastWins
<1>6. ScheduledIsCached' /\ ReadsCounted' /\ CacheNeverStale'
  BY <1>3, <1>4 DEF Inv, ScheduledIsCached, ReadsCounted, CacheNeverStale
<1>7. InOrder'
  <2> SUFFICES ASSUME spent.retries = 0 PROVE InOrder'
    BY <1>3 DEF InOrder
  <2>1. disk' <= row'
    <3>1. disk <= row /\ row <= Written(Queue[1])
      BY <1>2, <1>4 DEF Inv, InOrder
    <3>2. disk \in Nat /\ row \in Nat /\ Written(Queue[1]) \in Nat
      BY <1>1, <1>2, QueueTyped DEF TypeOK
    <3>3. QED BY <3>1, <3>2, <1>3
  <2>2. \A i \in 1..Depth' : Queue'[i].op # "write"
    BY <1>4 DEF Inv, InOrder
  <2>3. \A i \in First'..Depth' : row' <= Written(Queue[i])'
    BY <1>2, <1>3, <1>4 DEF Inv, InOrder
  <2>4. \A i, j \in 1..Depth' : i < j => Written(Queue[i])' <= Written(Queue[j])'
    BY <1>4 DEF Inv, InOrder
  <2>5. \A i, j \in 1..Depth' :
            i < j /\ Queue'[i].op = "persist" /\ Queue'[i].obj = cache'
               => Queue'[j].op = "persist" /\ Queue'[j].obj = cache'
    <3>1. CASE cache' = cache
      BY <1>4, <3>1 DEF Inv, InOrder
    <3>2. CASE cache' = NoState
      <4>1. \A i \in 1..Depth : Queue[i].op = "persist" => Queue[i].obj # NoState
        BY <1>1, QueueTyped
      <4>2. QED BY <1>4, <3>2, <4>1
    <3>3. QED BY <1>3, <3>1, <3>2
  <2>6. QED BY <2>1, <2>2, <2>3, <2>4, <2>5 DEF InOrder
<1>8. QED BY <1>5, <1>6, <1>7 DEF Inv

\* What a release leaves of the invariant, whatever it did to SQLite: the row
\* kept its value, and an error is remembered unless the row is committed.
LEMMA ReleaseInv ==
  ASSUME Inv, TypeOK', HasLock, Release,
         log' = log, content' = content, scheduled' = scheduled, row' = row,
         reading' = reading, spent' = spent,
         cache' = cache \/ cache' = NoState \/ Holder.op = "write",
         undone' = undone, failed' \/ (executed /\ disk' = row), disk' = disk \/ (executed /\ disk' = row)
  PROVE  Inv'
<1>1. TypeOK
  BY DEF Inv
<1>2. /\ Depth \in Nat /\ Depth > 0 /\ Queue[1] = Holder /\ Requests \in Nat
      /\ \A i \in 1..Depth : /\ Written(Queue[i]) \in 0..Requests
                             /\ Queue[i].op = "persist" => Queue[i].obj # NoState
  BY <1>1, QueueTyped, Holding
<1>3. /\ Depth' = Depth - 1 /\ First' = 1 /\ ~executed'
      /\ \A i \in 1..Depth' : Queue'[i] = Queue[i + 1]
  BY <1>1, Released
<1>4. Requests' = Requests /\ \A i \in 1..Depth' : Written(Queue[i])' = Written(Queue[i + 1])
  BY <1>3 DEF Requests, Written
<1>5. First \in {1, 2} /\ (executed <=> First = 2)
  BY <1>1 DEF First, TypeOK
<1>6. LastWins'
  <2>1. CASE Depth = 1
    BY <2>1, <1>2, <1>3, <1>4, <1>5 DEF Inv, LastWins
  <2>2. CASE Depth > 1
    <3>1. Depth >= First /\ Depth' \in 1..Depth' /\ Depth' + 1 = Depth
      BY <2>2, <1>2, <1>3, <1>5
    <3>2. Written(Queue[Depth])' = Requests'
      BY <3>1, <1>4 DEF Inv, LastWins
    <3>3. QED BY <2>2, <3>2, <1>2, <1>3 DEF LastWins
  <2>3. QED BY <2>1, <2>2, <1>2
<1>7. ScheduledIsCached' /\ ReadsCounted'
  BY DEF Inv, HasLock, ScheduledIsCached, ReadsCounted
<1>8. Holder.op = "write" => spent.retries # 0
  BY <1>2 DEF Inv, InOrder
<1>9. CacheNeverStale'
  BY <1>4, <1>8 DEF Inv, CacheNeverStale
<1>10. InOrder'
  <2> SUFFICES ASSUME spent.retries = 0 PROVE InOrder'
    BY DEF InOrder
  <2>1. disk' <= row'
    <3>1. row \in Nat
      BY <1>1 DEF TypeOK
    <3>2. QED BY <3>1 DEF Inv, InOrder
  <2>2. \A i \in 1..Depth' : Queue'[i].op # "write"
    BY <1>2, <1>3 DEF Inv, InOrder
  <2>3. \A i \in First'..Depth' : row' <= Written(Queue[i])'
    BY <1>2, <1>3, <1>4, <1>5 DEF Inv, InOrder
  <2>4. \A i, j \in 1..Depth' : i < j => Written(Queue[i])' <= Written(Queue[j])'
    <3> TAKE i, j \in 1..Depth'
    <3>1. i + 1 \in 1..Depth /\ j + 1 \in 1..Depth /\ (i < j => i + 1 < j + 1)
      BY <1>2, <1>3
    <3>2. QED BY <3>1, <1>4 DEF Inv, InOrder
  <2>5. \A i, j \in 1..Depth' :
            i < j /\ Queue'[i].op = "persist" /\ Queue'[i].obj = cache'
               => Queue'[j].op = "persist" /\ Queue'[j].obj = cache'
    <3> TAKE i, j \in 1..Depth'
    <3>1. i + 1 \in 1..Depth /\ j + 1 \in 1..Depth /\ (i < j => i + 1 < j + 1)
      BY <1>2, <1>3
    <3>2. cache' = cache \/ cache' = NoState
      BY <1>8
    <3>3. QED BY <3>1, <3>2, <1>2, <1>3 DEF Inv, InOrder
  <2>6. QED BY <2>1, <2>2, <2>3, <2>4, <2>5 DEF InOrder
<1>11. QED BY <1>6, <1>7, <1>9, <1>10 DEF Inv

LEMMA ReleasingStepsInv ==
  Inv /\ TypeOK' /\ (ExecuteFails \/ Commit \/ CommitFails) => Inv'
<1> SUFFICES ASSUME Inv, TypeOK', ExecuteFails \/ Commit \/ CommitFails PROVE Inv'
  OBVIOUS
<1>1. CASE ExecuteFails
  BY <1>1, ReleaseInv DEF ExecuteFails, Acquired
<1>2. CASE Commit
  BY <1>2, ReleaseInv DEF Commit
<1>3. CASE CommitFails
  BY <1>3, ReleaseInv DEF CommitFails
<1>4. QED BY <1>1, <1>2, <1>3

LEMMA OtherRollbackInv == Inv /\ TypeOK' /\ OtherRollback => Inv'
<1> SUFFICES ASSUME Inv, TypeOK', OtherRollback PROVE Inv'
  OBVIOUS
<1>1. /\ content' = content /\ cache' = cache /\ log' = log /\ scheduled' = scheduled
      /\ waiting' = waiting /\ executed' = executed /\ row' = disk /\ disk' = disk
      /\ failed' = failed /\ spent' = spent /\ reading' = reading /\ row # disk
      /\ undone' = (undone \/ executed)
  BY DEF OtherRollback, store
<1>2. Queue' = Queue /\ Depth' = Depth /\ Requests' = Requests /\ First' = First
      /\ \A i : Written(Queue[i])' = Written(Queue[i])
  BY <1>1 DEF Queue, Depth, Requests, First, Written
<1>3. undone' \in BOOLEAN /\ undone \in BOOLEAN /\ executed \in BOOLEAN /\ failed \in BOOLEAN
  BY DEF Inv, TypeOK
<1>4. Depth = 0 /\ ~failed' /\ ~undone' => FALSE
  BY <1>1, <1>3 DEF Inv, LastWins
<1>5. Depth = 1 /\ executed' /\ ~undone' => FALSE
  BY <1>1, <1>3
<1>6. Depth >= First => Written(Queue[Depth]) = Requests
  BY DEF Inv, LastWins
<1>7. LastWins'
  BY <1>1, <1>2, <1>4, <1>5, <1>6 DEF LastWins
<1>8. ScheduledIsCached' /\ ReadsCounted' /\ CacheNeverStale'
  BY <1>1, <1>2 DEF Inv, ScheduledIsCached, ReadsCounted, CacheNeverStale
<1>9. InOrder'
  <2> SUFFICES ASSUME spent.retries = 0 PROVE InOrder'
    BY <1>1 DEF InOrder
  <2>1. disk <= row /\ disk \in Nat /\ row \in Nat
    BY DEF Inv, InOrder, TypeOK, Requests
  <2>2. TypeOK /\ Depth \in Nat /\ First \in {1, 2}
    BY QueueTyped DEF Inv, First
  <2>3. \A i \in First..Depth : row <= Written(Queue[i]) /\ Written(Queue[i]) \in Nat
    BY <2>2, QueueTyped DEF Inv, InOrder, Requests
  <2>4. \A i \in First'..Depth' : row' <= Written(Queue[i])'
    BY <1>1, <1>2, <2>1, <2>3
  <2>5. disk' <= row'
    BY <1>1, <2>1
  <2>6. QED BY <1>1, <1>2, <2>4, <2>5 DEF Inv, InOrder
<1>10. QED BY <1>7, <1>8, <1>9 DEF Inv

LEMMA OtherCommitInv == Inv /\ TypeOK' /\ OtherCommit => Inv'
<1> SUFFICES ASSUME Inv, TypeOK', OtherCommit PROVE Inv'
  OBVIOUS
<1>1. /\ content' = content /\ cache' = cache /\ log' = log /\ scheduled' = scheduled
      /\ waiting' = waiting /\ executed' = executed /\ row' = row /\ disk' = row
      /\ failed' = failed /\ undone' = undone /\ spent' = spent /\ reading' = reading
  BY DEF OtherCommit, store
<1>2. Queue' = Queue /\ Depth' = Depth /\ Requests' = Requests /\ First' = First
      /\ \A i : Written(Queue[i])' = Written(Queue[i])
  BY <1>1 DEF Queue, Depth, Requests, First, Written
<1>3. LastWins' /\ ScheduledIsCached' /\ ReadsCounted' /\ CacheNeverStale'
  BY <1>1, <1>2 DEF Inv, LastWins, ScheduledIsCached, ReadsCounted, CacheNeverStale
<1>4. row \in Nat
  BY DEF Inv, TypeOK, Requests
<1>5. InOrder'
  BY <1>1, <1>2, <1>4 DEF Inv, InOrder
<1>6. QED BY <1>3, <1>5 DEF Inv

\* A read past the lock leaves everything but the cache alone.
LEMMA SelectInv == Inv /\ TypeOK' /\ Select => Inv'
<1> SUFFICES ASSUME Inv, TypeOK', Select PROVE Inv'
  OBVIOUS
<1>1. /\ content' = content /\ cache' = cache /\ log' = log /\ scheduled' = scheduled
      /\ waiting' = waiting /\ executed' = executed /\ row' = row /\ disk' = disk
      /\ failed' = failed /\ undone' = undone /\ cache = NoState
  BY DEF Select, store, db
<1>2. Queue' = Queue /\ Depth' = Depth /\ Requests' = Requests /\ First' = First
      /\ \A i : Written(Queue[i])' = Written(Queue[i])
  BY <1>1 DEF Queue, Depth, Requests, First, Written
<1>3. spent.reads \in Nat /\ spent'.reads = spent.reads + 1 /\ spent'.retries = spent.retries
  BY DEF Select, Inv, TypeOK, Counters
<1>4. LastWins' /\ ScheduledIsCached' /\ ReadsCounted' /\ CacheNeverStale'
  BY <1>1, <1>2, <1>3 DEF Inv, LastWins, ScheduledIsCached, ReadsCounted, CacheNeverStale
<1>5. InOrder'
  BY <1>1, <1>2, <1>3 DEF Inv, InOrder
<1>6. QED BY <1>4, <1>5 DEF Inv

LEMMA RepopulateInv == Inv /\ TypeOK' /\ Repopulate => Inv'
<1> SUFFICES ASSUME Inv, TypeOK', Repopulate PROVE Inv'
  OBVIOUS
<1>1. TypeOK
  BY DEF Inv
<1>2. /\ content' = Append(content, reading) /\ cache' = Len(content) + 1 /\ log' = log
      /\ scheduled' = scheduled /\ scheduled = <<>>
      /\ waiting' = waiting /\ executed' = executed /\ row' = row /\ disk' = disk
      /\ failed' = failed /\ undone' = undone /\ spent' = spent /\ reading' = NoState /\ reading # NoState
  BY DEF Repopulate, store, db
<1>3. Queue' = Queue /\ Depth' = Depth /\ Requests' = Requests /\ First' = First
  BY <1>2 DEF Queue, Depth, Requests, First
<1>4. \A o \in 1..Len(content) : content'[o] = content[o]
  BY <1>1, <1>2 DEF TypeOK
<1>5. \A i \in 1..Depth : /\ Written(Queue[i])' = Written(Queue[i])
                          /\ Queue[i].op = "persist" => Queue[i].obj \in 1..Len(content)
  BY <1>1, <1>3, <1>4, QueueTyped DEF Written
<1>6. Depth \in Nat /\ Len(content) \in Nat /\ First \in {1, 2} /\ (executed => Depth > 0)
  BY <1>1, QueueTyped DEF First
<1>7. LastWins'
  BY <1>2, <1>3, <1>5, <1>6 DEF Inv, LastWins
<1>8. ScheduledIsCached' /\ ReadsCounted' /\ CacheNeverStale'
  <2>1. spent.reads # 0
    BY <1>2 DEF Inv, ReadsCounted
  <2>2. QED BY <1>2, <2>1 DEF ScheduledIsCached, ReadsCounted, CacheNeverStale
<1>9. InOrder'
  <2> SUFFICES ASSUME spent.retries = 0 PROVE InOrder'
    BY <1>2 DEF InOrder
  <2>1. \A i \in 1..Depth' : ~(Queue'[i].op = "persist" /\ Queue'[i].obj = cache')
    BY <1>2, <1>3, <1>5, <1>6
  <2>2. QED BY <1>2, <1>3, <1>5, <1>6, <2>1 DEF Inv, InOrder
<1>10. QED BY <1>7, <1>8, <1>9 DEF Inv

\* A restart forgets what was queued and loads what was committed.
LEMMA RestartInv == Inv /\ TypeOK' /\ Restart => Inv'
<1> SUFFICES ASSUME Inv, TypeOK', Restart PROVE Inv'
  OBVIOUS
<1>1. Requests' = disk /\ row' = disk /\ disk' = disk /\ disk \in Nat
  <2>1. log \in Seq({"set", "remove"}) /\ disk \in 0..Len(log)
    BY DEF Inv, TypeOK, Requests
  <2>2. Len(SubSeq(log, 1, disk)) = disk
    BY <2>1
  <2>3. QED BY <2>1, <2>2 DEF Restart, Requests
<1>2. Queue' = <<>> /\ Depth' = 0 /\ First' = 1 /\ scheduled' = <<>>
  BY ConcatEmptySeq, EmptySeq DEF Restart, Queue, Depth, First
<1>3. LastWins' /\ ScheduledIsCached' /\ ReadsCounted'
  BY <1>1, <1>2 DEF Restart, LastWins, ScheduledIsCached, ReadsCounted
<1>4. cache' # NoState => content'[cache'] = disk
  BY DEF Restart
<1>5. CacheNeverStale'
  BY <1>1, <1>4 DEF CacheNeverStale
<1>6. InOrder'
  BY <1>1, <1>2 DEF InOrder
<1>7. QED BY <1>3, <1>5, <1>6 DEF Inv

LEMMA StutterInv == Inv /\ TypeOK' /\ UNCHANGED vars => Inv'
<1> SUFFICES ASSUME Inv, TypeOK', UNCHANGED vars PROVE Inv'
  OBVIOUS
<1>1. /\ content' = content /\ cache' = cache /\ log' = log /\ scheduled' = scheduled
      /\ waiting' = waiting /\ executed' = executed /\ row' = row /\ disk' = disk
      /\ failed' = failed /\ undone' = undone /\ spent' = spent /\ reading' = reading
  BY DEF vars, store, db
<1>2. Queue' = Queue /\ Depth' = Depth /\ Requests' = Requests /\ First' = First
      /\ \A i : Written(Queue[i])' = Written(Queue[i])
  BY <1>1 DEF Queue, Depth, Requests, First, Written
<1>3. QED BY <1>1, <1>2 DEF Inv, LastWins, ScheduledIsCached, ReadsCounted, CacheNeverStale, InOrder

LEMMA InvStep == Inv /\ [Next]_vars => Inv'
<1> SUFFICES ASSUME Inv, [Next]_vars PROVE Inv'
  OBVIOUS
<1>1. TypeOK'
  BY TypeStep DEF Inv
<1>2. QED
  BY <1>1, SetNewInv, SetCachedInv, RemoveInv, RetryInv, StartInv, ExecuteInv,
     ReleasingStepsInv, OtherCommitInv, OtherRollbackInv, SelectInv, RepopulateInv, RestartInv, StutterInv
     DEF Next, set_pipeline_state, StoreStep

-----------------------------------------------------------------------------
(* Theorems                                                                *)

(* When nothing is left to write, and the last write neither reported an   *)
(* error nor was rolled back by another coroutine, SQLite holds what the   *)
(* last request asked for.                                                 *)
THEOREM SettledCorrect == Spec => []Settled
<1>1. Inv => Settled
  BY QueueTyped DEF Inv, LastWins, Settled
<1>2. QED BY <1>1, InitInv, InvStep, PTL DEF Spec

(* The synchronous wrappers alone never leave a state in the cache that is *)
(* older than the last request.                                            *)
THEOREM CacheCorrect == Spec => []CacheNeverStale
<1>1. Inv => CacheNeverStale
  BY DEF Inv
<1>2. QED BY <1>1, InitInv, InvStep, PTL DEF Spec

(* The synchronous wrappers alone never commit an older state over a newer *)
(* one, over restarts as well.                                             *)
THEOREM DiskCorrect == Spec => DiskAdvances
<1>1. Inv /\ [Next]_vars => [spent.retries = 0 => disk' >= disk]_vars
  <2> SUFFICES ASSUME Inv, [Next]_vars, spent.retries = 0 PROVE disk' >= disk
    OBVIOUS
  <2>1. disk <= row /\ disk \in Nat /\ row \in Nat
    BY DEF Inv, InOrder, TypeOK, Requests
  <2>2. disk' = disk \/ disk' = row
    BY DEF Next, set_pipeline_state, SetNew, SetCached, remove_pipeline_state, retry_pipeline,
           StoreStep, Start, Execute, ExecuteFails, Commit, CommitFails, OtherCommit, OtherRollback, Select,
           Repopulate, Restart, vars, db
  <2>3. QED BY <2>1, <2>2
<1>2. QED BY <1>1, InitInv, InvStep, PTL DEF Spec, DiskAdvances
=============================================================================
