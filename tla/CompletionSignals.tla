------------------------- MODULE CompletionSignals -------------------------
(***************************************************************************)
(* How the poll finds out that the current agent of an issue has finished: *)
(* _detect_completion_signals of agent_output.py and the checks of         *)
(* completion.py behind it.  The pull request of the first agent is the    *)
(* main one; a later agent pushes to its branch or opens a pull request of *)
(* its own, a child, which the pipeline merges into the main branch.       *)
(*                                                                         *)
(* Agents and their pull requests are numbered alike.  Commits of the main *)
(* branch are counted: a SHA is the count when it was read.                *)
(***************************************************************************)
EXTENDS Naturals, FiniteSets

CONSTANTS MaxAgents,   \* agents of the pipeline
          FaultBudget  \* bound on failed calls, evictions and restarts

ASSUME SignalAssumption ==
    MaxAgents \in Nat \ {0} /\ FaultBudget \in Nat

Agents == 1..MaxAgents
Main == 1

VARIABLES
    uNow,      \* the current agent; 0 before the first
    uCopilot,  \* Copilot is assigned to the agent's sub-issue
    uOwn,      \* each pull request: none, draft, wip (ready with one commit), ready, merged
    uEvents,   \* agents with a finish event on the pull request they work on
    uFinished, \* truth: agents that have finished their work
    uBy,       \* the pull request each agent was credited for; 0 if it was not
    uMain,     \* _issue_main_branches has the issue
    uMarked,   \* _system_marked_ready_prs has the main pull request
    uClaims,   \* _claimed_child_prs: <<pull request, agent>>
    uTip,      \* commits on the main branch
    uHead,     \* head_sha of the main-branch record
    uSha,      \* agent_assigned_sha of the pipeline state
    uForgot,   \* history: a restart, or a rebuild from the record of the main branch
    uFaults

uVars == <<uNow, uCopilot, uOwn, uEvents, uFinished, uBy, uMain, uMarked, uClaims, uTip, uHead, uSha, uForgot, uFaults>>
uWork == <<uCopilot, uOwn, uEvents, uFinished, uTip>>
uTables == <<uMain, uMarked, uClaims, uHead>>

SignalInit ==
    /\ uNow = 0 /\ uCopilot = FALSE /\ uOwn = [p \in Agents |-> "none"]
    /\ uEvents = {} /\ uFinished = {} /\ uBy = [a \in Agents |-> 0]
    /\ uMain = FALSE /\ uMarked = FALSE /\ uClaims = {}
    /\ uTip = 0 /\ uHead = 0 /\ uSha = 0 /\ uForgot = FALSE /\ uFaults = 0

Spend(b) == /\ b => uFaults < FaultBudget
            /\ uFaults' = IF b THEN uFaults + 1 ELSE uFaults
InPipeline == uNow \in Agents

---------------------------------------------------------------------------
(* The agent on GitHub.  It commits to the main branch, or opens a pull    *)
(* request; when it finishes it unassigns itself, and it leaves an event,  *)
(* or a pull request that is no draft, or only its commits behind.         *)
OpensPull(how) ==
    /\ uCopilot /\ uOwn[uNow] = "none" /\ uTip = uSha
    /\ how \in (IF uNow = Main THEN {"draft"} ELSE {"draft", "wip"})
    /\ uOwn' = [uOwn EXCEPT ![uNow] = how]
    /\ uTip' = IF uNow = Main THEN 1 ELSE uTip
    /\ UNCHANGED <<uNow, uCopilot, uEvents, uFinished, uBy, uTables, uSha, uForgot, uFaults>>
CommitsToMain ==
    /\ uCopilot /\ uTip = uSha /\ uTip' = uTip + 1
    /\ IF uNow = Main THEN uMain ELSE uOwn[uNow] \in {"none", "merged"}
    /\ UNCHANGED <<uNow, uCopilot, uOwn, uEvents, uFinished, uBy, uTables, uSha, uForgot, uFaults>>
Finishes(event, ready) ==
    /\ uCopilot /\ (uOwn[uNow] \in {"draft", "wip"} \/ uTip # uSha)
    /\ uOwn[uNow] \in {"draft", "wip"} => event \/ ready
    /\ uCopilot' = FALSE /\ uFinished' = uFinished \cup {uNow}
    /\ uEvents' = IF event THEN uEvents \cup {uNow} ELSE uEvents
    /\ uOwn' = [uOwn EXCEPT ![uNow] = IF ready /\ @ \in {"draft", "wip"} THEN "ready" ELSE @]
    /\ UNCHANGED <<uNow, uBy, uTables, uTip, uSha, uForgot, uFaults>>

---------------------------------------------------------------------------
(* _find_completed_child_pr: merged, or no draft and past its first commit,*)
(* or with a finish event; not if another agent has claimed it.            *)
Children == {p \in Agents \ {Main} : uOwn[p] # "none"}
AnyChild(a) == Children
NotClaimedByOther(a) == {p \in Children : \A b \in Agents \ {a} : <<p, b>> \notin uClaims}
Complete(p) == uOwn[p] \in {"ready", "merged"} \/ (uOwn[p] \in {"draft", "wip"} /\ p \in uEvents)
_find_completed_child_pr(a) == {p \in NotClaimedByOther(a) : Complete(p)}
_find_open_child_pr(a) == {p \in NotClaimedByOther(a) : uOwn[p] # "merged"}

(* _check_main_pr_completion: it is no draft and the system did not make it*)
(* so; an event since the agent was assigned; or new commits since then    *)
(* and Copilot gone.                                                       *)
MadeReady == uOwn[Main] = "ready" /\ ~uMarked
FreshEvents == uNow \in uEvents
NewCommits == uTip # uSha /\ ~uCopilot
_check_main_pr_completion == MadeReady \/ FreshEvents \/ NewCommits

(* check_copilot_pr_completion, for the agent that has no main pull request*)
(* before it: linked to the issue, ready or with an event of any time.     *)
check_copilot_pr_completion ==
    {p \in Agents : uOwn[p] = "ready" \/ (uOwn[p] \in {"draft", "wip"} /\ p \in uEvents)}

(* Children come first, and an open one takes the credit for a signal on   *)
(* the main pull request.                                                  *)
_detect_completion_signals(a) ==
    IF ~uMain THEN check_copilot_pr_completion
    ELSE IF _find_completed_child_pr(a) # {} THEN _find_completed_child_pr(a)
    ELSE IF ~_check_main_pr_completion THEN {}
    ELSE IF _find_open_child_pr(a) # {} THEN _find_open_child_pr(a) ELSE {Main}

---------------------------------------------------------------------------
(* _track_main_branch_if_needed, for a first agent's pull request.         *)
_track_main_branch_if_needed(p) ==
    uMain' = TRUE /\ uMarked' = (uMarked \/ (~uMain /\ uOwn[p] = "ready"))

(* _merge_and_claim_child_pr: a merge that fails is left to the advance,   *)
(* which takes the claim for a merge.                                      *)
IsChild(p) == uMain /\ p # Main
Claims(p, a) == uClaims' = IF IsChild(p) THEN uClaims \cup {<<p, a>>} ELSE uClaims
_merge_and_claim_child_pr(p, merges) ==
    /\ Claims(p, uNow)
    /\ IF IsChild(p) /\ merges /\ uOwn[p] # "merged"
       THEN uOwn' = [uOwn EXCEPT ![p] = "merged"] /\ uTip' = uTip + 1
       ELSE UNCHANGED <<uOwn, uTip>>
HeadAfterMerge == IF uTip' # uTip \/ ~uMain THEN uTip' ELSE uHead

(* The advance: a main pull request that is no draft is remembered, and    *)
(* the next agent is assigned with the tip of the main branch it starts    *)
(* from.  A record whose pull request cannot be read is made again from the*)
(* links of the issue.                                                     *)
RemembersReady == uMarked' = (uMarked \/ uOwn[Main] = "ready")
_determine_base_ref(fetched) == uSha' = uTip' /\ uMain' = TRUE /\ uHead' = IF fetched THEN HeadAfterMerge ELSE uTip'
AssignNext(works, fetched) ==
    /\ uNow' = uNow + 1 /\ uCopilot' = (works /\ uNow < MaxAgents)
    /\ _determine_base_ref(fetched)

(* _process_task_agent_completion up to the marker, and the advance that   *)
(* its marker brings about.                                                *)
Credit(p, merges, works, fetched) ==
    /\ InPipeline /\ p \in _detect_completion_signals(uNow)
    /\ _merge_and_claim_child_pr(p, merges) /\ RemembersReady
    /\ uBy' = [uBy EXCEPT ![uNow] = p] /\ AssignNext(works, fetched)
    /\ Spend(~merges \/ ~works \/ ~fetched)
    /\ UNCHANGED <<uEvents, uFinished, uForgot>>
CreditWithoutMarker(p) ==
    /\ InPipeline /\ p \in _detect_completion_signals(uNow) /\ Spend(TRUE)
    /\ _track_main_branch_if_needed(p) /\ _merge_and_claim_child_pr(p, TRUE)
    /\ uHead' = HeadAfterMerge
    /\ UNCHANGED <<uNow, uCopilot, uEvents, uFinished, uBy, uSha, uForgot>>

(* The pipeline state is evicted from the bounded cache or removed, and    *)
(* built again: merged children count as claimed by every agent.  The SHA  *)
(* is the tip ("evict", _reconstruct_pipeline_state) or what the record of *)
(* the main branch has ("rebuild", _reconstruct_pipeline_if_missing).      *)
_claim_merged_child_prs_for_pipeline ==
    uClaims' = IF uMain THEN uClaims \cup ({p \in Children : uOwn[p] = "merged"} \X Agents) ELSE uClaims
Reconstructed(how) ==
    /\ InPipeline /\ Spend(TRUE)
    /\ uSha' = IF how = "evict" THEN uTip ELSE uHead
    /\ _claim_merged_child_prs_for_pipeline
    /\ uMarked' = (uMarked \/ (how = "evict" /\ uNow # Main /\ uMain /\ uOwn[Main] = "ready"))
    /\ uForgot' = (uForgot \/ how = "rebuild")
    /\ UNCHANGED <<uNow, uWork, uBy, uMain, uHead>>

(* A restart reads states and main branches from SQLite and has no memory  *)
(* of claims and of what the system marked ready.                          *)
SignalRestart ==
    /\ InPipeline /\ Spend(TRUE)
    /\ uClaims' = {} /\ uMarked' = FALSE /\ uForgot' = TRUE
    /\ UNCHANGED <<uNow, uWork, uBy, uMain, uHead, uSha>>

(* Recovery assigns an agent that nobody works for once more.              *)
ReassignsInStateOnly ==
    /\ InPipeline /\ ~uCopilot /\ _detect_completion_signals(uNow) = {}
    /\ uSha' = uTip
    /\ UNCHANGED <<uNow, uCopilot, uOwn, uEvents, uFinished, uBy, uTables, uTip, uForgot, uFaults>>
RecoveryReassigns ==
    /\ InPipeline /\ ~uCopilot /\ _detect_completion_signals(uNow) = {}
    /\ uCopilot' = TRUE /\ uSha' = uTip
    /\ UNCHANGED <<uNow, uOwn, uEvents, uFinished, uBy, uTables, uTip, uForgot, uFaults>>

BeginPipeline ==
    /\ uNow = 0 /\ uNow' = 1 /\ uCopilot' = TRUE
    /\ UNCHANGED <<uOwn, uEvents, uFinished, uBy, uTables, uTip, uSha, uForgot, uFaults>>

CreditSome ==
    \E p \in Agents : \/ CreditWithoutMarker(p)
                      \/ \E merges, works, fetched \in BOOLEAN : Credit(p, merges, works, fetched)
AgentWorks ==
    \/ InPipeline /\ \E how \in {"draft", "wip"} : OpensPull(how)
    \/ InPipeline /\ CommitsToMain
    \/ InPipeline /\ \E event, ready \in BOOLEAN : Finishes(event, ready)

SignalNext ==
    \/ BeginPipeline \/ AgentWorks \/ CreditSome \/ RecoveryReassigns \/ SignalRestart
    \/ \E how \in {"evict", "rebuild"} : Reconstructed(how)

(* The poll runs, recovery too, and an assigned agent gets its work done.  *)
SignalFairness ==
    /\ WF_uVars(CreditSome) /\ WF_uVars(RecoveryReassigns) /\ WF_uVars(AgentWorks)

SignalSpec == SignalInit /\ [][SignalNext]_uVars /\ SignalFairness

---------------------------------------------------------------------------
(* Nobody is credited, and so nobody's successor started, before the agent *)
(* has finished: whatever pull requests of others lie about, and whatever  *)
(* call failed, unless a restart emptied the tables of claims, or a state  *)
(* was rebuilt whose agent could not be assigned.                          *)
CreditIsEarned == ~uForgot => \A a \in Agents : uBy[a] # 0 => a \in uFinished

(* A child pull request counts for one agent.                              *)
OneCreditPerChild ==
    ~uForgot => \A a, b \in Agents : uBy[a] = uBy[b] /\ uBy[a] \notin {0, Main} => a = b

(* Work that is finished is credited in the end, by its signals or after   *)
(* recovery has had it done again.                                         *)
FinishedIsCredited == \A a \in Agents : uNow = a ~> uBy[a] # 0

(* The signals as a whole: credit for work that is finished, and of one's  *)
(* own child.                                                              *)
CreditIsTrue == CreditIsEarned /\ OneCreditPerChild
=============================================================================
