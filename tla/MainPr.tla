------------------------------- MODULE MainPr -------------------------------
(***************************************************************************)
(* The main pull request of an issue: the first agent's, against the       *)
(* default branch; the others' are children that merge into its branch.    *)
(* Memory holds which it is, with a row behind it, and the first writer    *)
(* wins; when memory has none it is looked for among the pull requests     *)
(* linked to the issue, its sub-issues and, at last, made anew.  Once it is*)
(* merged and the sub-issues are completed, moving the issue to Done closes*)
(* it.                                                                     *)
(***************************************************************************)
EXTENDS Naturals, Sequences, FiniteSetsExt

CONSTANTS Workers,    \* agents, each with a sub-issue and a pull request of its own number
          MainFaults  \* bound on failed calls, restarts and what people do

ASSUME MainAssumption == Workers \in Nat \ {0} /\ MainFaults \in Nat

Agent == 1..Workers
Remade == Workers + 1        \* the pull request that discovery makes
Pull == 1..Remade
Default == 0                 \* the default branch; a pull request's own branch has its number

VARIABLES
    jPull,   \* GitHub: each pull request's state, absent at first, its base and its own branch
    jLinks,  \* GitHub: pull requests linked to the issue, in order
    jSubs,   \* GitHub: sub-issues: open, completed, not_planned
    jIssue,  \* GitHub: the pull request it was closed for, 0 while it is open
    jMemory, \* _issue_main_branches: the main pull request, or 0
    jRow,    \* its row
    jNext,   \* the agent to be assigned next
    jFinds,  \* a discovery under way: [step, pull]
    jCloses, \* the Done transition: the sub-issues it has read as completed, or nothing
    jMisled, \* a pull request that is not against the default branch was taken for the main one
    jFaults

jVars == <<jPull, jLinks, jSubs, jIssue, jMemory, jRow, jNext, jFinds, jCloses, jMisled, jFaults>>
jGitHub == <<jPull, jLinks, jSubs, jIssue>>
Resting == [step |-> "idle", pull |-> 0]
Unread == [read |-> FALSE, done |-> {}]

MainInit ==
    /\ jPull = [p \in Pull |-> [state |-> "absent", base |-> Default, head |-> p]] /\ jLinks = <<>>
    /\ jSubs = [a \in Agent |-> "open"] /\ jIssue = 0
    /\ jMemory = 0 /\ jRow = 0 /\ jNext = 1 /\ jFinds = Resting /\ jCloses = Unread
    /\ jMisled = FALSE /\ jFaults = 0

MainFault == jFaults < MainFaults /\ jFaults' = jFaults + 1
MainFine(ok) == IF ok THEN UNCHANGED jFaults ELSE MainFault
IsOpen(p) == jPull[p].state = "open"
IntoDefault(p) == jPull[p].base = Default
Linked(p) == \E k \in DOMAIN jLinks : jLinks[k] = p
Link(p) == jLinks' = IF Linked(p) THEN jLinks ELSE Append(jLinks, p)

---------------------------------------------------------------------------
(* transitions.py: what is there stays.                                    *)
LastWins(p) == p
FirstWins(p) == IF jMemory # 0 THEN jMemory ELSE p
set_issue_main_branch(p) == jMemory' = FirstWins(p)
Misleads(p) == jMisled' = (jMisled \/ (jMemory = 0 /\ ~IntoDefault(p)))
PersistMain == jRow # jMemory /\ jRow' = jMemory /\ UNCHANGED <<jGitHub, jMemory, jNext, jFinds, jCloses, jMisled, jFaults>>

(* The first open one that is linked; should the links be unreadable, the  *)
(* newest open one that mentions the issue.                                *)
OpenLinks == {k \in DOMAIN jLinks : IsOpen(jLinks[k])}
find_existing_pr_for_issue(ok) ==
    IF OpenLinks = {} THEN 0
    ELSE IF ok THEN jLinks[Min(OpenLinks)] ELSE Max({jLinks[k] : k \in OpenLinks})

(* An agent, perhaps beside others, begins off the main branch: memory's,  *)
(* or what is found; one whose details cannot be read is forgotten.        *)
_determine_base_ref(ok) ==
    LET kept == jMemory # 0 /\ ok IN
    LET main == IF kept THEN jMemory ELSE find_existing_pr_for_issue(ok \/ jMemory # 0) IN
    /\ jPull' = [jPull EXCEPT ![jNext] = [@ EXCEPT !.state = "open", !.base = IF main = 0 THEN Default ELSE jPull[main].head]]
    /\ jMemory' = main
    /\ jMisled' = (jMisled \/ (~kept /\ main # 0 /\ ~IntoDefault(main)))
AgentBegins(ok) ==
    /\ jIssue = 0 /\ jNext \in Agent /\ MainFine(ok) /\ jNext' = jNext + 1
    /\ _determine_base_ref(ok)
    /\ UNCHANGED <<jLinks, jSubs, jIssue, jRow, jFinds, jCloses>>

(* It reports: without a main pull request its own becomes that; a child   *)
(* is merged into the main branch, and the sub-issue completed.            *)
_track_main_branch_if_needed(p) == set_issue_main_branch(p) /\ Misleads(p)
_close_completed_sub_issues(a) == jSubs' = [jSubs EXCEPT ![a] = "completed"]
AgentReports(a, linked) ==
    /\ a \in Agent /\ IsOpen(a) /\ jSubs[a] = "open" /\ MainFine(linked) /\ _track_main_branch_if_needed(a)
    /\ IF linked THEN Link(a) ELSE UNCHANGED jLinks
    /\ jPull' = IF jMemory # 0 /\ jPull[a].base = jPull[jMemory].head THEN [jPull EXCEPT ![a].state = "merged"] ELSE jPull
    /\ _close_completed_sub_issues(a)
    /\ UNCHANGED <<jIssue, jRow, jNext, jFinds, jCloses>>

(* Every look at the pull requests of the sub-issues links them all to the *)
(* issue, children too, one call each.                                     *)
_link_prs_to_parent(p) ==
    /\ p \in Agent /\ jPull[p].state # "absent" /\ ~Linked(p) /\ Link(p)
    /\ UNCHANGED <<jPull, jSubs, jIssue, jMemory, jRow, jNext, jFinds, jCloses, jMisled, jFaults>>

(* Discovery, for a review or a merge: nothing to do if memory has one; an *)
(* open linked one; an open one of a sub-issue against the default branch; *)
(* or the branch of such a one that is no longer open, for a new one.  The *)
(* answer goes to memory after the calls that it took.                     *)
OfSubIssues == {p \in Agent : jPull[p].state # "absent" /\ IntoDefault(p)}
OpenOfSubIssues == {p \in OfSubIssues : IsOpen(p)}
_discover_main_pr_for_review(ok) ==
    /\ jFinds = Resting /\ jMemory = 0 /\ MainFine(ok)
    /\ LET found == find_existing_pr_for_issue(ok) IN
       jFinds' = CASE found # 0 -> [step |-> "found", pull |-> found]
                   [] found = 0 /\ OpenOfSubIssues # {} -> [step |-> "found", pull |-> Min(OpenOfSubIssues)]
                   [] found = 0 /\ OpenOfSubIssues = {} /\ OfSubIssues # {} -> [step |-> "create", pull |-> Min(OfSubIssues)]
                   [] OTHER -> Resting
    /\ UNCHANGED <<jGitHub, jMemory, jRow, jNext, jCloses, jMisled>>
RecordFound ==
    /\ jFinds.step = "found" /\ jFinds' = Resting
    /\ set_issue_main_branch(jFinds.pull) /\ Misleads(jFinds.pull) /\ Link(jFinds.pull)
    /\ UNCHANGED <<jPull, jSubs, jIssue, jRow, jNext, jCloses, jFaults>>
CreateMain(ok) ==
    /\ jFinds.step = "create" /\ jFinds' = Resting /\ MainFine(ok)
    /\ IF ok /\ jPull[Remade].state = "absent"
       THEN /\ jPull' = [jPull EXCEPT ![Remade] = [state |-> "open", base |-> Default, head |-> jFinds.pull]]
            /\ set_issue_main_branch(Remade) /\ Link(Remade)
       ELSE UNCHANGED <<jPull, jMemory, jLinks>>
    /\ UNCHANGED <<jSubs, jIssue, jRow, jNext, jCloses, jMisled>>

(* Done: the sub-issues are read first, then the main pull request: memory's*)
(* or the first one linked that is against the default branch, open or not.*)
BeginClosing ==
    /\ jIssue = 0 /\ jNext > Workers /\ jCloses = Unread
    /\ jCloses' = [read |-> TRUE, done |-> {a \in Agent : jSubs[a] = "completed"}]
    /\ UNCHANGED <<jGitHub, jMemory, jRow, jNext, jFinds, jMisled, jFaults>>
Candidates == {k \in DOMAIN jLinks : IntoDefault(jLinks[k])}
_resolve_main_pr_for_done_transition ==
    CASE jMemory # 0 -> jMemory
      [] jMemory = 0 /\ Candidates # {} -> jLinks[Min(Candidates)]
      [] jMemory = 0 /\ Candidates = {} /\ OfSubIssues # {} -> Min(OfSubIssues)
      [] OTHER -> 0
Merged(p) == p # 0 /\ jPull[p].state = "merged"
_close_parent_issue_if_main_pr_merged_and_sub_issues_completed(ok) ==
    /\ jCloses.read /\ jCloses' = Unread /\ MainFine(ok)
    /\ LET main == _resolve_main_pr_for_done_transition IN
       IF ok /\ Merged(main) /\ jCloses.done = Agent
       THEN jIssue' = main /\ jMemory' = 0
       ELSE UNCHANGED <<jIssue, jMemory>>
    /\ UNCHANGED <<jPull, jLinks, jSubs, jRow, jNext, jFinds, jMisled>>

(* People merge or close pull requests and set sub-issues aside; a restart *)
(* takes memory from the row.                                              *)
PersonEnds(p, state) ==
    /\ p \in Pull /\ IsOpen(p) /\ MainFault /\ jPull' = [jPull EXCEPT ![p].state = state]
    /\ UNCHANGED <<jLinks, jSubs, jIssue, jMemory, jRow, jNext, jFinds, jCloses, jMisled>>
PersonSetsAside(a) ==
    /\ jSubs[a] = "open" /\ jIssue = 0 /\ MainFault /\ jSubs' = [jSubs EXCEPT ![a] = "not_planned"]
    /\ UNCHANGED <<jPull, jLinks, jIssue, jMemory, jRow, jNext, jFinds, jCloses, jMisled>>
RestartMain ==
    /\ MainFault /\ jMemory' = jRow /\ jFinds' = Resting /\ jCloses' = Unread
    /\ UNCHANGED <<jGitHub, jRow, jNext, jMisled>>

MainNext ==
    \/ PersistMain \/ RecordFound \/ BeginClosing \/ RestartMain
    \/ \E ok \in BOOLEAN :
          \/ AgentBegins(ok) \/ _discover_main_pr_for_review(ok) \/ CreateMain(ok)
          \/ _close_parent_issue_if_main_pr_merged_and_sub_issues_completed(ok)
          \/ \E a \in Agent : AgentReports(a, ok)
    \/ \E p \in Pull : _link_prs_to_parent(p) \/ \E state \in {"merged", "closed"} : PersonEnds(p, state)
    \/ \E a \in Agent : PersonSetsAside(a)
MainSpec == MainInit /\ [][MainNext]_jVars

---------------------------------------------------------------------------
(* No agent builds on the branch of another child, whose work then never   *)
(* reaches the main branch, unless memory was lost and a child taken for   *)
(* the main pull request.                                                  *)
ChildrenOfTheMain ==
    jMisled \/ \A a \in Agent : jPull[a].base = Default \/ IntoDefault(jPull[a].base)

(* The issue is closed for a merged pull request into the default branch,  *)
(* with each of its sub-issues completed.                                  *)
ClosedWhenDone ==
    jIssue # 0 =>
        /\ jPull[jIssue].state = "merged" /\ (jMisled \/ IntoDefault(jIssue))
        /\ \A a \in Agent : jSubs[a] = "completed"

(* The main pull request as a whole: the agents' work goes through it, and *)
(* the issue is closed when all of that has happened.                      *)
WorkGoesThroughMain == ChildrenOfTheMain /\ ClosedWhenDone
=============================================================================
