------------------------------- MODULE Chores -------------------------------
(***************************************************************************)
(* A recurring chore: several callers (the scheduler's evaluation and users*)
(* who trigger it by hand) read its row, find that its issue is closed,    *)
(* open a new issue, start its pipeline and record it by compare-and-swap  *)
(* on last_triggered_at; who loses the swap closes its issue again.        *)
(***************************************************************************)
EXTENDS Naturals, FiniteSets

CONSTANTS Triggers,    \* evaluations and manual triggers under way at a time
          MaxIssues,   \* bound on issues opened for the chore
          ChoreFaults  \* bound on failing calls and restarts

ASSUME ChoreAssumption == IsFiniteSet(Triggers) /\ {MaxIssues, ChoreFaults} \subseteq Nat

Numbers == 1 .. MaxIssues
NotDeleting == MaxIssues + 1
Nothing == 0    \* NULL in current_issue_number and last_triggered_at

VARIABLES
    kRow,       \* the chore's row: status, current issue, last_triggered_at
    kDue,       \* its schedule asks for a run
    kIssue,     \* its issues on GitHub: none, open, closed
    kPipeline,  \* issues whose pipeline was started
    kAt,        \* each caller: idle, loaded, checked, created, started, losing
    kSaw,       \* the row as the caller read it
    kNew,       \* the issue the caller has opened, or Nothing
    kLost,      \* open issues that nobody will close: the row forgot them, or a call failed
    kDelete,    \* the current issue as a deletion read it, or NotDeleting
    kFaults

kVars == <<kRow, kDue, kIssue, kPipeline, kAt, kSaw, kNew, kLost, kDelete, kFaults>>
kGitHub == <<kIssue, kPipeline>>

NewRow == [status |-> "active", current |-> Nothing, last |-> Nothing]
NoRow == [NewRow EXCEPT !.status = "deleted"]
Read(row) == [row EXCEPT !.status = "deleted"]   \* callers go by current and last

ChoreInit ==
    /\ kRow = NoRow /\ kDue = FALSE /\ kLost = {} /\ kFaults = 0 /\ kDelete = NotDeleting
    /\ kIssue = [n \in Numbers |-> "none"] /\ kPipeline = {}
    /\ kAt = [t \in Triggers |-> "idle"] /\ kSaw = [t \in Triggers |-> NoRow]
    /\ kNew = [t \in Triggers |-> Nothing]

Fault == kFaults < ChoreFaults /\ kFaults' = kFaults + 1
Open(n) == n # Nothing /\ kIssue[n] = "open"
Goto(t, stage) == kAt' = [kAt EXCEPT ![t] = stage]
Finish(t) == Goto(t, "idle") /\ kNew' = [kNew EXCEPT ![t] = Nothing] /\ kSaw' = [kSaw EXCEPT ![t] = NoRow]

---------------------------------------------------------------------------
(* A user creates the chore, pauses it, resumes it.  Creating goes on in a *)
(* second statement that fills in the template; no trigger depends on it.  *)
create_chore ==
    /\ kRow = NoRow /\ kLost = {} /\ \A n \in Numbers : kIssue[n] = "none"
    /\ kRow' = NewRow /\ kDue' = TRUE
    /\ UNCHANGED <<kDelete, kGitHub, kAt, kSaw, kNew, kLost, kFaults>>
update_chore(status) ==
    /\ kRow # NoRow /\ kRow' = [kRow EXCEPT !.status = status]
    /\ UNCHANGED <<kDelete, kDue, kGitHub, kAt, kSaw, kNew, kLost, kFaults>>

(* Deleting closes the issue that was current when the request read the    *)
(* row, if the call to GitHub succeeds, and then removes the row.          *)
delete_chore(closes) ==
    /\ kRow # NoRow /\ kDelete = NotDeleting /\ kDelete' = kRow.current
    /\ IF closes \/ ~Open(kRow.current) THEN UNCHANGED kFaults ELSE Fault
    /\ kIssue' = IF closes /\ Open(kRow.current) THEN [kIssue EXCEPT ![kRow.current] = "closed"] ELSE kIssue
    /\ kLost' = IF ~closes /\ Open(kRow.current) THEN kLost \cup {kRow.current} ELSE kLost
    /\ UNCHANGED <<kRow, kDue, kPipeline, kAt, kSaw, kNew>>
DeleteRow ==
    /\ kDelete # NotDeleting /\ kDelete' = NotDeleting
    /\ kRow' = NoRow /\ kDue' = FALSE
    /\ kLost' = IF Open(kRow.current) /\ kRow.current # kDelete THEN kLost \cup {kRow.current} ELSE kLost
    /\ UNCHANGED <<kGitHub, kAt, kSaw, kNew, kFaults>>

(* evaluate_triggers reads the active scheduled chores; a manual trigger   *)
(* reads any chore.                                                        *)
evaluate_triggers(t) ==
    /\ kAt[t] = "idle" /\ kRow.status = "active" /\ kDue
    /\ kSaw' = [kSaw EXCEPT ![t] = Read(kRow)] /\ Goto(t, "loaded")
    /\ UNCHANGED <<kDelete, kRow, kDue, kGitHub, kNew, kLost, kFaults>>
trigger_by_hand(t) ==
    /\ kAt[t] = "idle" /\ kRow # NoRow
    /\ kSaw' = [kSaw EXCEPT ![t] = Read(kRow)] /\ Goto(t, "loaded")
    /\ UNCHANGED <<kDelete, kRow, kDue, kGitHub, kNew, kLost, kFaults>>

(* The issue the caller knows of: open ends the trigger, closed is asked   *)
(* about here and cleared in a later statement, whatever the row says then.*)
SkipOpenInstance(t) ==
    /\ kAt[t] = "loaded" /\ Open(kSaw[t].current) /\ Finish(t)
    /\ UNCHANGED <<kDelete, kRow, kDue, kGitHub, kLost, kFaults>>
check_issue_closed(t) ==
    /\ kAt[t] = "loaded" /\ ~Open(kSaw[t].current)
    /\ Goto(t, IF kSaw[t].current = Nothing THEN "checked" ELSE "clearing")
    /\ UNCHANGED <<kDelete, kRow, kDue, kGitHub, kSaw, kNew, kLost, kFaults>>
clear_current_issue(t) ==
    /\ kAt[t] = "clearing" /\ Goto(t, "checked")
    /\ kRow' = [kRow EXCEPT !.current = Nothing]
    /\ kLost' = IF Open(kRow.current) THEN kLost \cup {kRow.current} ELSE kLost
    /\ UNCHANGED <<kDelete, kDue, kGitHub, kSaw, kNew, kFaults>>

(* The rest of trigger_chore: the issue, its pipeline, the swap.  Failing  *)
(* to open the issue ends the trigger, failing to start the pipeline does  *)
(* not.                                                                    *)
create_issue(t) ==
    /\ kAt[t] = "checked"
    /\ \E n \in Numbers :
          /\ kIssue[n] = "none" /\ \A k \in 1 .. n - 1 : kIssue[k] # "none"
          /\ kIssue' = [kIssue EXCEPT ![n] = "open"] /\ kNew' = [kNew EXCEPT ![t] = n]
    /\ Goto(t, "created")
    /\ UNCHANGED <<kDelete, kRow, kDue, kPipeline, kSaw, kLost, kFaults>>
CreateFails(t) ==
    /\ kAt[t] = "checked" /\ (Fault \/ (kIssue[MaxIssues] # "none" /\ UNCHANGED kFaults)) /\ Finish(t)
    /\ UNCHANGED <<kDelete, kRow, kDue, kGitHub, kLost>>
start_pipeline(t, starts) ==
    /\ kAt[t] = "created" /\ Goto(t, "started")
    /\ IF starts THEN kPipeline' = kPipeline \cup {kNew[t]} /\ UNCHANGED kFaults
       ELSE Fault /\ UNCHANGED kPipeline
    /\ UNCHANGED <<kDelete, kRow, kDue, kIssue, kSaw, kNew, kLost>>

(* update_chore_after_trigger: the swap.  An issue number stands for the   *)
(* time of its trigger.                                                    *)
SwapSucceeds(t) == kRow # NoRow /\ kRow.last = kSaw[t].last
update_chore_after_trigger(t) ==
    /\ kAt[t] = "started"
    /\ IF SwapSucceeds(t)
       THEN /\ kRow' = [kRow EXCEPT !.current = kNew[t], !.last = kNew[t]]
            /\ kDue' = FALSE /\ Finish(t)
       ELSE Goto(t, "losing") /\ UNCHANGED <<kRow, kDue, kSaw, kNew>>
    /\ UNCHANGED <<kDelete, kGitHub, kLost, kFaults>>
LeaveOpen(n) == kIssue
CloseIssue(n) == [kIssue EXCEPT ![n] = "closed"]
CloseDuplicate(t) ==
    /\ kAt[t] = "losing" /\ Finish(t) /\ kIssue' = CloseIssue(kNew[t])
    /\ UNCHANGED <<kDelete, kRow, kDue, kPipeline, kLost, kFaults>>
CloseDuplicateFails(t) ==
    /\ kAt[t] = "losing" /\ Fault /\ Finish(t) /\ kLost' = kLost \cup {kNew[t]}
    /\ UNCHANGED <<kDelete, kRow, kDue, kGitHub>>

(* The server restarts: callers are gone, with the issues they had opened. *)
RestartChores ==
    /\ Fault /\ \E t \in Triggers : kAt[t] # "idle"
    /\ kAt' = [t \in Triggers |-> "idle"] /\ kSaw' = [t \in Triggers |-> NoRow]
    /\ kNew' = [t \in Triggers |-> Nothing] /\ kDelete' = NotDeleting
    /\ kLost' = kLost \cup {n \in Numbers : Open(n) /\ \E t \in Triggers : kNew[t] = n}
    /\ UNCHANGED <<kRow, kDue, kGitHub>>

IssueIsClosed(n) ==
    /\ kIssue[n] = "open" /\ kIssue' = [kIssue EXCEPT ![n] = "closed"] /\ kDue' = (kRow # NoRow)
    /\ UNCHANGED <<kDelete, kRow, kPipeline, kAt, kSaw, kNew, kLost, kFaults>>
BecomesDue ==
    /\ ~kDue /\ kRow # NoRow /\ kDue' = TRUE
    /\ UNCHANGED <<kDelete, kRow, kGitHub, kAt, kSaw, kNew, kLost, kFaults>>

TriggerStep(t) ==
    \/ SkipOpenInstance(t) \/ check_issue_closed(t) \/ clear_current_issue(t) \/ create_issue(t)
    \/ CreateFails(t) \/ (\E starts \in BOOLEAN : start_pipeline(t, starts))
    \/ update_chore_after_trigger(t) \/ CloseDuplicate(t) \/ CloseDuplicateFails(t)
ChoreNext ==
    \/ create_chore \/ RestartChores \/ BecomesDue
    \/ \E status \in {"active", "paused"} : update_chore(status)
    \/ (\E closes \in BOOLEAN : delete_chore(closes)) \/ DeleteRow
    \/ \E t \in Triggers : evaluate_triggers(t) \/ trigger_by_hand(t) \/ TriggerStep(t)
    \/ \E n \in Numbers : IssueIsClosed(n)

ChoreSpec == ChoreInit /\ [][ChoreNext]_kVars

---------------------------------------------------------------------------
(* Callers that race open one instance: an open issue is the recorded one, *)
(* or that of a caller that will record or close it, unless a failing call,*)
(* a late clear or a late deletion has lost it.                            *)
Explained(n) == n = kRow.current \/ n \in kLost \/ \E t \in Triggers : kNew[t] = n
OneInstance == \A n \in Numbers : Open(n) => Explained(n)

=============================================================================
