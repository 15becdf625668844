--------------------------- MODULE TrackingTable ----------------------------
(***************************************************************************)
(* The table of agents in the parent issue's body.  Whoever changes a row  *)
(* reads the whole body and writes the whole body back: the polling loop   *)
(* as agents finish and start, a request that retries an agent, the        *)
(* recovery that checks every row against the comments and closed issues,  *)
(* and the self-healing that builds a table from the sub-issues.  Writes   *)
(* may fail, and nobody tries again.                                       *)
(***************************************************************************)
EXTENDS Naturals

CONSTANTS TableSize,    \* agents, in order
          HumanStep,    \* the one that is a person's, or 0
          Retries,      \* requests that retry the current agent
          TableFaults   \* bound on failed calls, retries, restarts and edits

ASSUME TableAssumption == TableSize \in Nat \ {0} /\ HumanStep \in Nat /\ TableFaults \in Nat

TableRows == 1..TableSize
TableWriters == {"loop"} \cup Retries

VARIABLES
    tTable,    \* GitHub: each agent's row, or NoTable
    tEvidence, \* GitHub: what shows each agent's work is done
    tIndex,    \* the pipeline state: the current agent; 0 before it, beyond the last: complete
    tStarted,  \* agents that were started
    tHolds,    \* the table each writer has read
    tWhat,     \* what it is to do with it, [op, agent], or NoWork
    tLost,     \* an update failed, or overwrote another, with nothing after it to mend it
    tFaults

tVars == <<tTable, tEvidence, tIndex, tStarted, tHolds, tWhat, tLost, tFaults>>
NoWork == [op |-> "none", agent |-> 0]
NoTable == <<>>

TableInit ==
    /\ tTable = NoTable /\ tEvidence = [a \in TableRows |-> {}]
    /\ tIndex = 0 /\ tStarted = {} /\ tLost = FALSE /\ tFaults = 0
    /\ tHolds = [w \in TableWriters |-> NoTable] /\ tWhat = [w \in TableWriters |-> NoWork]

append_tracking_to_issue ==
    /\ tIndex = 0 /\ tIndex' = 1 /\ tTable' = [a \in TableRows |-> "pending"]
    /\ UNCHANGED <<tEvidence, tStarted, tHolds, tWhat, tLost, tFaults>>

TableFault == tFaults < TableFaults /\ tFaults' = tFaults + 1

---------------------------------------------------------------------------
(* When an agent counts as done: its marker on the parent issue or, as     *)
(* older issues have it, on its sub-issue; for a person also the closed    *)
(* sub-issue, and the marker only if it is the assignee's.                 *)
_check_human_agent_done(a) == tEvidence[a] \cap {"closed", "assignee"} # {}
_check_agent_done_on_sub_or_parent(a) ==
    IF a = HumanStep THEN _check_human_agent_done(a) ELSE tEvidence[a] \cap {"parent", "sub"} # {}
RowDone(a) == _check_agent_done_on_sub_or_parent(a)
EvidenceOf(a) == IF a = HumanStep THEN {"closed", "assignee", "stranger"} ELSE {"parent", "sub"}
ShowsWork(a, e) ==
    /\ a \in tStarted /\ e \in EvidenceOf(a) /\ tEvidence[a] \subseteq {"stranger"} \ {e}
    /\ tEvidence' = [tEvidence EXCEPT ![a] = @ \cup {e}]
    /\ UNCHANGED <<tTable, tIndex, tStarted, tHolds, tWhat, tLost, tFaults>>

(* A row is changed if there is a table; recovery marks what is done and   *)
(* leaves what is not.                                                     *)
update_agent_state(body, a, state) == IF body = NoTable THEN body ELSE [body EXCEPT ![a] = state]
StartedToo(body) == [a \in TableRows |-> IF a \in tStarted THEN "done" ELSE body[a]]
Corrected(body) == [a \in TableRows |-> IF RowDone(a) THEN "done" ELSE body[a]]
_self_heal_tracking_table == [a \in TableRows |-> "pending"]
NewBody(w) ==
    LET body == tHolds[w] a == tWhat[w].agent IN
    CASE tWhat[w].op \in {"done", "active"} -> update_agent_state(body, a, tWhat[w].op)
      [] tWhat[w].op = "reconcile" -> Corrected(body)
      [] tWhat[w].op = "batch" -> [b \in TableRows |-> "done"]
      [] tWhat[w].op = "heal" -> _self_heal_tracking_table

FetchesBody(w, what) ==
    /\ tWhat[w] = NoWork /\ tHolds' = [tHolds EXCEPT ![w] = tTable] /\ tWhat' = [tWhat EXCEPT ![w] = what]

(* The loop: the current agent's marker moves the index on; the next agent *)
(* is started and then shown as active; a table that lags is reconciled    *)
(* while the pipeline runs, and all of it when the pipeline is complete.   *)
AdvanceMarks ==
    /\ tIndex \in TableRows \cap tStarted /\ RowDone(tIndex) /\ tIndex' = tIndex + 1
    /\ FetchesBody("loop", [op |-> "done", agent |-> tIndex])
    /\ UNCHANGED <<tTable, tEvidence, tStarted, tLost, tFaults>>
StartMarks ==
    /\ tIndex \in TableRows \ tStarted /\ tStarted' = tStarted \cup {tIndex}
    /\ FetchesBody("loop", [op |-> "active", agent |-> tIndex])
    /\ UNCHANGED <<tTable, tEvidence, tIndex, tLost, tFaults>>
NothingLags == FALSE
Lags == \E a \in TableRows : RowDone(a) /\ tTable[a] # "done"
_validate_and_reconcile_tracking_table ==
    /\ tIndex \in TableRows /\ tTable # NoTable /\ Lags
    /\ FetchesBody("loop", [op |-> "reconcile", agent |-> 0])
    /\ UNCHANGED <<tTable, tEvidence, tIndex, tStarted, tLost, tFaults>>
BatchMarks ==
    /\ tIndex = TableSize + 1 /\ tIndex' = tIndex + 1
    /\ IF tTable = NoTable THEN UNCHANGED <<tHolds, tWhat>> ELSE FetchesBody("loop", [op |-> "batch", agent |-> 0])
    /\ tWhat["loop"] = NoWork
    /\ UNCHANGED <<tTable, tEvidence, tStarted, tLost, tFaults>>
(* A request that assigns the current agent again shows it as active.      *)
RetryMarks(w) ==
    /\ w \in Retries /\ tIndex \in tStarted /\ TableFault
    /\ FetchesBody(w, [op |-> "active", agent |-> tIndex])
    /\ UNCHANGED <<tTable, tEvidence, tIndex, tStarted, tLost>>

(* The body goes back as a whole, over whatever is there by now.           *)
_update_issue_tracking(w, ok) ==
    /\ tWhat[w] # NoWork /\ IF ok THEN UNCHANGED tFaults ELSE TableFault
    /\ tTable' = IF ok THEN NewBody(w) ELSE tTable
    /\ tLost' = (tLost \/ (tIndex > TableSize /\ (~ok \/ w \in Retries)))
    /\ tHolds' = [tHolds EXCEPT ![w] = NoTable] /\ tWhat' = [tWhat EXCEPT ![w] = NoWork]
    /\ UNCHANGED <<tEvidence, tIndex, tStarted>>

(* Somebody edits the table out of the body; the server restarts, and the  *)
(* next poll counts the index again from what is done; if it finds no table*)
(* it makes one of the sub-issues.                                         *)
TableRemoved ==
    /\ tTable # NoTable /\ TableFault /\ tTable' = NoTable /\ tLost' = (tLost \/ tIndex > TableSize)
    /\ UNCHANGED <<tEvidence, tIndex, tStarted, tHolds, tWhat>>
RestartTable ==
    /\ tIndex # 0 /\ TableFault /\ tHolds' = [w \in TableWriters |-> NoTable]
    /\ tWhat' = [w \in TableWriters |-> IF w = "loop" /\ tTable = NoTable THEN [op |-> "heal", agent |-> 0] ELSE NoWork]
    /\ tIndex' = CHOOSE k \in 1..TableSize + 1 :
                    (\A a \in 1..k - 1 : RowDone(a)) /\ (k = TableSize + 1 \/ ~RowDone(k))
    /\ tLost' = (tLost \/ (tIndex > TableSize /\ tWhat["loop"] # NoWork))
    /\ UNCHANGED <<tTable, tEvidence, tStarted>>

TableStep == AdvanceMarks \/ StartMarks \/ BatchMarks
LoopWrites == \E ok \in BOOLEAN : _update_issue_tracking("loop", ok)
TableNext ==
    \/ append_tracking_to_issue \/ TableStep \/ _validate_and_reconcile_tracking_table \/ LoopWrites \/ TableRemoved \/ RestartTable
    \/ \E a \in TableRows : \E e \in EvidenceOf(a) : ShowsWork(a, e)
    \/ \E w \in Retries : RetryMarks(w) \/ \E ok \in BOOLEAN : _update_issue_tracking(w, ok)

(* The loop goes round, its calls return, and so do the requests'.         *)
TableFairness ==
    /\ WF_tVars(TableStep) /\ WF_tVars(LoopWrites) /\ WF_tVars(_validate_and_reconcile_tracking_table)
    /\ \A w \in Retries : WF_tVars(\E ok \in BOOLEAN : _update_issue_tracking(w, ok))
TableSpec == TableInit /\ [][TableNext]_tVars /\ TableFairness

---------------------------------------------------------------------------
(* No row says done before the agent's work is: not by a marker of somebody*)
(* else, not by a row next to it, not by a body that came back late.       *)
ShownIsDone == tTable # NoTable => \A a \in TableRows : tTable[a] = "done" => RowDone(a)

(* Time and again the table shows every agent that is done, however many   *)
(* updates failed or overwrote each other, unless the last of all was lost *)
(* after the pipeline was complete.                                        *)
DoneIsShown == []<>(tLost \/ tTable = NoTable \/ \A a \in TableRows : a < tIndex => tTable[a] = "done")
=============================================================================
