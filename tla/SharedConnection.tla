-------------------------- MODULE SharedConnection --------------------------
(***************************************************************************)
(* The one database connection all coroutines share.  Some write in a      *)
(* transaction of their own, BEGIN IMMEDIATE to COMMIT or ROLLBACK; others *)
(* execute a statement, which opens a transaction when none is open, and   *)
(* then commit.  The connection knows one open transaction, whoever began  *)
(* it.                                                                     *)
(***************************************************************************)
EXTENDS Naturals, FiniteSets

CONSTANTS Transactional,   \* coroutines that use transaction()
          Implicit,        \* coroutines that execute and commit
          MaxRetries,      \* _PERSIST_MAX_RETRIES
          StatementFaults  \* bound on statements refused

ASSUME ConnectionAssumption == Transactional \cap Implicit = {} /\ MaxRetries \in Nat \ {0} /\ StatementFaults \in Nat

VARIABLES
    cInside,    \* a transaction is open on the connection
    cPending,   \* writes in it, [by, part]
    cDurable,   \* writes committed
    cAt,        \* each coroutine: idle, begin, first, second, commit, rollback, ok, failed
    cTries,     \* attempts of a transactional coroutine
    cHit,       \* coroutines another's commit or rollback came in the midst of
    cFaults

cVars == <<cInside, cPending, cDurable, cAt, cTries, cHit, cFaults>>
Writers == Transactional \cup Implicit
WritesOf(x) == {w \in cPending \cup cDurable : w.by = x}
BusyOthers(x) == {z \in Writers \ {x} : cAt[z] \in {"first", "second", "commit", "rollback"}}

ConnectionInit ==
    /\ cInside = FALSE /\ cPending = {} /\ cDurable = {} /\ cHit = {} /\ cFaults = 0
    /\ cAt = [x \in Writers |-> "idle"] /\ cTries = [x \in Writers |-> 0]

StatementFault == cFaults < StatementFaults /\ cFaults' = cFaults + 1
Now(x, at) == cAt' = [cAt EXCEPT ![x] = at]
AddsWrite(x, part) == cInside' = TRUE /\ cPending' = cPending \cup {[by |-> x, part |-> part]}

---------------------------------------------------------------------------
(* BEGIN IMMEDIATE is refused while any transaction is open; a persisting  *)
(* coroutine tries again a bounded number of times.                        *)
BeginTransaction(x) ==
    /\ cAt[x] \in {"idle", "begin"} /\ ~cInside /\ cInside' = TRUE /\ Now(x, "first")
    /\ UNCHANGED <<cPending, cDurable, cTries, cHit, cFaults>>
_retry_persist(x) ==
    /\ cAt[x] \in {"idle", "begin"} /\ cInside /\ cTries' = [cTries EXCEPT ![x] = @ + 1]
    /\ Now(x, IF cTries[x] + 1 < MaxRetries THEN "begin" ELSE "failed")
    /\ UNCHANGED <<cInside, cPending, cDurable, cHit, cFaults>>
ExecuteStatement(x) ==
    /\ cAt[x] \in {"first", "second"} /\ AddsWrite(x, cAt[x])
    /\ Now(x, IF cAt[x] = "first" THEN "second" ELSE "commit")
    /\ UNCHANGED <<cDurable, cTries, cHit, cFaults>>
StatementRefused(x) ==   \* a constraint, for instance
    /\ cAt[x] \in {"first", "second"} /\ StatementFault /\ cInside' = TRUE /\ Now(x, "rollback")
    /\ UNCHANGED <<cPending, cDurable, cTries, cHit>>

(* COMMIT and ROLLBACK end whatever is open.  With nothing open COMMIT is  *)
(* an error of its own, and so is the ROLLBACK that follows it.            *)
CommitsAll == cDurable' = cDurable \cup cPending /\ cPending' = {} /\ cInside' = FALSE
CommitTransaction(x) ==
    /\ cAt[x] = "commit"
    /\ IF cInside THEN CommitsAll /\ Now(x, "ok") /\ cHit' = cHit \cup BusyOthers(x)
       ELSE Now(x, "failed") /\ UNCHANGED <<cInside, cPending, cDurable, cHit>>
    /\ UNCHANGED <<cTries, cFaults>>
LeaveInTransaction == UNCHANGED <<cInside, cPending>>
Discard == cPending' = {} /\ cInside' = FALSE
RollbackTransaction(x) ==
    /\ cAt[x] = "rollback" /\ Now(x, "failed") /\ Discard /\ cHit' = cHit \cup BusyOthers(x)
    /\ UNCHANGED <<cDurable, cTries, cFaults>>

(* The other writers: a statement, then a commit of all that is pending.   *)
ExecuteDirectly(x) ==
    /\ cAt[x] = "idle" /\ AddsWrite(x, "first") /\ Now(x, "commit")
    /\ UNCHANGED <<cDurable, cTries, cHit, cFaults>>
CommitDirectly(x) ==
    /\ cAt[x] = "commit" /\ CommitsAll /\ Now(x, "ok") /\ cHit' = cHit \cup BusyOthers(x)
    /\ UNCHANGED <<cTries, cFaults>>

ConnectionNext ==
    \/ \E x \in Transactional : \/ BeginTransaction(x) \/ _retry_persist(x) \/ ExecuteStatement(x)
                                \/ StatementRefused(x) \/ CommitTransaction(x) \/ RollbackTransaction(x)
    \/ \E x \in Implicit : ExecuteDirectly(x) \/ CommitDirectly(x)
ConnectionSpec == ConnectionInit /\ [][ConnectionNext]_cVars

---------------------------------------------------------------------------
(* A coroutine whose write was reported as done has it on disk, and one    *)
(* whose transaction was refused has left nothing, unless another's commit *)
(* or rollback ended the transaction under it.                             *)
ReportsAreTrue ==
    \A x \in Writers \ cHit :
        /\ cAt[x] = "ok" => WritesOf(x) # {} /\ WritesOf(x) \subseteq cDurable
        /\ cAt[x] = "failed" => WritesOf(x) = {}

=============================================================================
