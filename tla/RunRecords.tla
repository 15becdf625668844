---------------------------- MODULE RunRecords ------------------------------
(***************************************************************************)
(* The records of a configuration's runs and stage groups, from            *)
(* PipelineRunService: a run is inserted with its stages, the groups are   *)
(* replaced as a whole, each under the service's lock and in one           *)
(* transaction of the shared connection; a cancellation reads the run      *)
(* first and takes the lock afterwards.  No code moves a run on from       *)
(* pending other than to cancelled.  The lock keeps out only the service's *)
(* own requests: whoever else writes on the connection may commit or roll  *)
(* back in the midst of a transaction.                                     *)
(***************************************************************************)
EXTENDS Naturals

CONSTANTS RunsAsked,      \* runs that are created
          Cancels,        \* requests that cancel one
          GroupRequests,  \* requests that replace the groups
          RowsEach,       \* stages of a run, groups of a request
          RecordFaults    \* bound on refused statements, others' commits and rollbacks, crashes

ASSUME RecordAssumption ==
    /\ RowsEach \in Nat \ {0} /\ RecordFaults \in Nat /\ RunsAsked \cap GroupRequests = {}
    /\ Cancels \cap (RunsAsked \cup GroupRequests) = {} /\ "free" \notin Cancels
    /\ {"free", "idle", "cancelled", "refused"} \cap (RunsAsked \cup GroupRequests) = {}

Inserting == RunsAsked \cup GroupRequests

VARIABLES
    iLive,     \* what the connection sees: [status, stages, groups]
    iDb,       \* what is committed of it
    iLock,     \* the request that has the lock, or "free"
    iAt,       \* each request: idle, insert, commit, rollback, done, failed
    iDone,     \* rows it has inserted
    iCancel,   \* each cancellation: idle, the run it read as pending, cancelled, refused
    iWon,      \* cancellations answered with success, [run, by]
    iMixed,    \* another coroutine has committed in the midst of a transaction
    iUndone,   \* requests in whose midst another has rolled back
    iFaults

iVars == <<iLive, iDb, iLock, iAt, iDone, iCancel, iWon, iMixed, iUndone, iFaults>>

RecordsInit ==
    /\ iDb = [status |-> [r \in RunsAsked |-> "none"], stages |-> [r \in RunsAsked |-> 0], groups |-> {}]
    /\ iLive = iDb /\ iLock = "free" /\ iAt = [x \in Inserting |-> "idle"]
    /\ iDone = [x \in Inserting |-> 0] /\ iCancel = [c \in Cancels |-> "idle"] /\ iWon = {}
    /\ iMixed = FALSE /\ iUndone = {} /\ iFaults = 0

RecordFault == iFaults < RecordFaults /\ iFaults' = iFaults + 1
RecordGoes(x, from, to) == iAt[x] = from /\ iAt' = [iAt EXCEPT ![x] = to]

---------------------------------------------------------------------------
(* The lock and the first statement: the run's row, or the old groups away.*)
NotYet == iDb' = iDb
AtOnce == iDb' = iLive'
FirstCommitted == NotYet
create_run(r) ==
    /\ r \in RunsAsked /\ iLock = "free" /\ iLock' = r /\ RecordGoes(r, "idle", "insert")
    /\ iLive' = [iLive EXCEPT !.status[r] = "pending"] /\ FirstCommitted
    /\ UNCHANGED <<iDone, iCancel, iWon, iMixed, iUndone, iFaults>>
OldDeleted == {}
upsert_groups(x) ==
    /\ x \in GroupRequests /\ iLock = "free" /\ iLock' = x /\ RecordGoes(x, "idle", "insert")
    /\ iLive' = [iLive EXCEPT !.groups = OldDeleted]
    /\ UNCHANGED <<iDb, iDone, iCancel, iWon, iMixed, iUndone, iFaults>>

(* The other statements, one by one, and then the commit.  A statement is  *)
(* refused by the database's constraints, a stage without its run or a     *)
(* second group at a place, or otherwise, and rolls everything back.       *)
StageHasRun(x) == iLive.status[x] # "none"
Fits(x) == IF x \in RunsAsked THEN StageHasRun(x) ELSE \A g \in iLive.groups : g.at # iDone[x]
InsertOne(x) ==
    /\ iAt[x] = "insert" /\ iDone[x] < RowsEach /\ Fits(x)
    /\ iAt' = [iAt EXCEPT ![x] = IF iDone[x] + 1 = RowsEach THEN "commit" ELSE "insert"]
    /\ iDone' = [iDone EXCEPT ![x] = @ + 1]
    /\ iLive' = IF x \in RunsAsked THEN [iLive EXCEPT !.stages[x] = @ + 1]
                ELSE [iLive EXCEPT !.groups = @ \cup {[by |-> x, at |-> iDone[x]]}]
    /\ UNCHANGED <<iDb, iLock, iCancel, iWon, iMixed, iUndone, iFaults>>
InsertRefused(x) ==
    /\ RecordGoes(x, "insert", "rollback") /\ IF Fits(x) THEN RecordFault ELSE iFaults' = iFaults
    /\ UNCHANGED <<iLive, iDb, iLock, iDone, iCancel, iWon, iMixed, iUndone>>
CommitRecords(x) ==
    /\ RecordGoes(x, "commit", "done") /\ iDb' = iLive /\ iLock' = "free"
    /\ UNCHANGED <<iLive, iDone, iCancel, iWon, iMixed, iUndone, iFaults>>
RollBackRecords(x) ==
    /\ RecordGoes(x, "rollback", "failed") /\ iLive' = iDb /\ iLock' = "free"
    /\ UNCHANGED <<iDb, iDone, iCancel, iWon, iMixed, iUndone, iFaults>>

(* Cancelling: the route reads the run and checks it; the update, under the*)
(* lock, does nothing if the status is the new one already.                *)
cancel_pipeline_run(c, r) ==
    /\ iCancel[c] = "idle" /\ iAt[r] = "done" /\ iLive.status[r] = "pending" /\ iCancel' = [iCancel EXCEPT ![c] = r]
    /\ UNCHANGED <<iLive, iDb, iLock, iAt, iDone, iWon, iMixed, iUndone, iFaults>>
StatusDiffers(r) == iLive.status[r] # "cancelled"
update_run_status(c) ==
    /\ iCancel[c] \in RunsAsked /\ iLock = "free"
    /\ IF iLive.status[iCancel[c]] # "none" /\ StatusDiffers(iCancel[c])
       THEN /\ iLive' = [iLive EXCEPT !.status[iCancel[c]] = "cancelled"] /\ iLock' = c
            /\ UNCHANGED iCancel
       ELSE iCancel' = [iCancel EXCEPT ![c] = "refused"] /\ UNCHANGED <<iLive, iLock>>
    /\ UNCHANGED <<iDb, iAt, iDone, iWon, iMixed, iUndone, iFaults>>
CommitCancel(c) ==
    /\ iLock = c /\ iLock' = "free" /\ iDb' = iLive
    /\ iCancel' = [iCancel EXCEPT ![c] = "cancelled"] /\ iWon' = iWon \cup {[run |-> iCancel[c], by |-> c]}
    /\ UNCHANGED <<iLive, iAt, iDone, iMixed, iUndone, iFaults>>
CancelFails(c) ==   \* the update or its commit raises
    /\ iLock = c /\ iLock' = "free" /\ RecordFault /\ iLive' = iDb
    /\ iCancel' = [iCancel EXCEPT ![c] = "refused"]
    /\ UNCHANGED <<iDb, iAt, iDone, iWon, iMixed, iUndone>>

(* Another coroutine commits on the same connection, or rolls back; or the *)
(* server stops.                                                           *)
OtherCommit ==
    /\ iLive # iDb /\ RecordFault /\ iDb' = iLive /\ iMixed' = TRUE
    /\ UNCHANGED <<iLive, iLock, iAt, iDone, iCancel, iWon, iUndone>>
OtherRollback ==
    /\ iLive # iDb /\ RecordFault /\ iLive' = iDb /\ iUndone' = iUndone \cup {iLock}
    /\ UNCHANGED <<iDb, iLock, iAt, iDone, iCancel, iWon, iMixed>>
CrashRecords ==
    /\ iLive # iDb /\ RecordFault /\ iLive' = iDb /\ iLock' = "free"
    /\ iAt' = [x \in Inserting |-> IF iAt[x] \in {"insert", "commit", "rollback"} THEN "failed" ELSE iAt[x]]
    /\ iCancel' = [c \in Cancels |-> IF iCancel[c] \in RunsAsked THEN "refused" ELSE iCancel[c]]
    /\ UNCHANGED <<iDb, iDone, iWon, iMixed, iUndone>>

RecordsNext ==
    \/ OtherCommit \/ OtherRollback \/ CrashRecords
    \/ \E x \in Inserting :
          \/ create_run(x) \/ upsert_groups(x) \/ InsertOne(x) \/ InsertRefused(x)
          \/ CommitRecords(x) \/ RollBackRecords(x)
    \/ \E c \in Cancels :
          \/ update_run_status(c) \/ CommitCancel(c) \/ CancelFails(c)
          \/ \E r \in RunsAsked : cancel_pipeline_run(c, r)
RecordsSpec == RecordsInit /\ [][RecordsNext]_iVars

---------------------------------------------------------------------------
(* A committed run has all its stages and no stage is without its run,    *)
(* whatever was refused, rolled back, by whom ever, or crashed.  Only      *)
(* another coroutine's commit may take half a transaction with it.         *)
StagesWithRun ==
    iMixed \/ \A r \in RunsAsked : iDb.stages[r] = IF iDb.status[r] = "none" THEN 0 ELSE RowsEach

(* Likewise the committed groups are those of one request, all of them; but*)
(* no constraint holds these together, so another's rollback in their      *)
(* midst may leave the later ones without the earlier.                     *)
GroupsOfOneRequest ==
    \/ iMixed \/ iUndone \cap GroupRequests # {} \/ iDb.groups = {}
    \/ \E x \in GroupRequests : iDb.groups = {[by |-> x, at |-> k] : k \in 0..RowsEach - 1}

(* Of the requests that cancel a run one is told that it did; one whose    *)
(* update another coroutine rolled back is told so wrongly.                *)
CancelledOnce == \A a, b \in iWon : a.run = b.run /\ {a.by, b.by} \cap iUndone = {} => a = b

(* The records as a whole: a run with its stages, the groups of one        *)
(* request, a cancellation told to one.                                    *)
RecordsAreWhole == StagesWithRun /\ GroupsOfOneRequest /\ CancelledOnce
=============================================================================
