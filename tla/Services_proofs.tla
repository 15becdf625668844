-------------------------- MODULE Services_proofs --------------------------
(***************************************************************************)
(* Proofs about the work on GitHub - handing an issue to Copilot, the main *)
(* pull request of an issue, cleaning a repository up - and about all the  *)
(* services as they run beside each other.                                 *)
(***************************************************************************)
EXTENDS MCServices, Chat_proofs, Requests_proofs

---------------------------------------------------------------------------
(* Handing an issue to Copilot.  Every session was started by the call that*)
(* ended the assignment or by one whose answer was lost, and before it is  *)
(* asked for, Copilot is off the issue or a session has begun.             *)
AssignAnswers == {"none", "yes", "no"}
AssignSteps == {"idle", "look", "unassign", "graphql", "rest", "sleep", "assigned", "refused"}
AssignNumbersOK == sSessions \in Nat /\ sLost \in Nat /\ sAttempt \in Nat /\ sFaults \in Nat
AssignTypeOK ==
    /\ AssignNumbersOK /\ sAt \in AssignSteps
    /\ sOn \in BOOLEAN /\ sStayed \in BOOLEAN /\ sCrossed \in BOOLEAN
    /\ sCached \in AssignAnswers /\ sRead \in AssignAnswers
SessionsCounted == sSessions <= sLost \/ (sAt = "assigned" /\ sSessions <= 1 + sLost)
BegunOrOff ==
    /\ sAt \in {"graphql", "rest"} => sStayed \/ ~sOn \/ sSessions > 0
    /\ sAt = "assigned" => sStayed \/ sSessions > 0
AssignInv == AssignTypeOK /\ SessionsCounted /\ BegunOrOff /\ AssignmentNotHidden

LEMMA AssignStart == AssignInit => AssignInv
<1> SUFFICES ASSUME AssignInit PROVE AssignInv
  OBVIOUS
<1>1. AssignNumbersOK /\ SessionsCounted /\ BegunOrOff
  BY DEF AssignInit, AssignNumbersOK, SessionsCounted, BegunOrOff
<1>2. sOn \in BOOLEAN /\ sStayed \in BOOLEAN /\ sCrossed \in BOOLEAN /\ AssignmentNotHidden
  BY DEF AssignInit, AssignmentNotHidden
<1>3. sAt \in AssignSteps /\ sCached \in AssignAnswers /\ sRead \in AssignAnswers
  BY DEF AssignInit, AssignSteps, AssignAnswers
<1>4. QED BY <1>1, <1>2, <1>3 DEF AssignInv, AssignTypeOK

(* A call that asks for Copilot, and where the assignment goes from there. *)
LEMMA AskKept ==
  ASSUME AssignInv, NEW how \in Outcomes, Ask(how), sAt \in {"graphql", "rest"},
         sAt' \in {"rest", "sleep", "refused", "assigned"}, sAt' = "assigned" <=> how = "works"
  PROVE  AssignInv'
<1>1. AssignTypeOK /\ AssignNumbersOK /\ BegunOrOff /\ sSessions <= sLost
  BY DEF AssignInv, SessionsCounted, AssignTypeOK
<1>2. /\ sOn' = (sOn \/ how # "fails") /\ sCached' = IF how = "works" THEN "none" ELSE sCached
      /\ sSessions' = (IF how # "fails" /\ ~sOn THEN sSessions + 1 ELSE sSessions)
      /\ sLost' = (IF how = "lost" THEN sLost + 1 ELSE sLost)
      /\ (sFaults' = sFaults \/ sFaults' = sFaults + 1)
      /\ UNCHANGED <<sRead, sAttempt, sStayed, sCrossed>>
  BY DEF Ask, Invalidated, AnswerTo, AssignFault
<1>3. AssignNumbersOK'
  BY <1>1, <1>2 DEF AssignNumbersOK
<1>4. sOn' \in BOOLEAN /\ sStayed' \in BOOLEAN /\ sCrossed' \in BOOLEAN
  BY <1>1, <1>2 DEF AssignTypeOK
<1>5. sAt' \in AssignSteps /\ sCached' \in AssignAnswers /\ sRead' \in AssignAnswers
  BY <1>1, <1>2 DEF AssignTypeOK, AssignAnswers, AssignSteps
<1>6. SessionsCounted'
  BY <1>1, <1>2 DEF SessionsCounted, AssignNumbersOK, Outcomes
<1>7. BegunOrOff'
  <2>1. sSessions' > 0 \/ sStayed' \/ ~sOn'
    <3>1. CASE how # "fails" /\ ~sOn
      BY <1>1, <1>2, <3>1 DEF AssignNumbersOK
    <3>2. CASE ~(how # "fails" /\ ~sOn)
      <4>1. sSessions' = sSessions /\ sOn' = sOn /\ sStayed' = sStayed
        BY <1>1, <1>2, <3>2 DEF AssignTypeOK
      <4>2. QED BY <1>1, <4>1 DEF BegunOrOff
    <3>3. QED BY <3>1, <3>2
  <2>2. sAt' = "assigned" => sOn'
    BY <1>2
  <2>3. QED BY <2>1, <2>2 DEF BegunOrOff
<1>8. AssignmentNotHidden'
  BY <1>2 DEF AssignmentNotHidden
<1>9. QED BY <1>3, <1>4, <1>5, <1>6, <1>7, <1>8 DEF AssignInv, AssignTypeOK

(* A step that starts no session and does not end the assignment.          *)
LEMMA AssignGoesOn ==
  ASSUME AssignInv, AssignNumbersOK', sAt' \in AssignSteps, sOn' \in BOOLEAN, sStayed' \in BOOLEAN, sCrossed' \in BOOLEAN,
         sCached' \in AssignAnswers, sRead' \in AssignAnswers,
         sSessions' = sSessions, sSessions <= sLost => sSessions' <= sLost',
         sAt' = sAt \/ (sAt # "assigned" /\ sAt' # "assigned"), sAt' = sAt => sLost' = sLost /\ sStayed' = sStayed /\ (sOn' => sOn),
         sAt' # sAt /\ sAt' \in {"graphql", "rest"} => sStayed' \/ ~sOn',
         sAt' = "assigned" /\ sOn' /\ ~sCrossed' => sCached' # "no"
  PROVE  AssignInv'
<1>1. AssignTypeOK'
  BY DEF AssignTypeOK
<1>2. SessionsCounted'
  BY DEF AssignInv, SessionsCounted
<1>3. BegunOrOff'
  BY DEF AssignInv, BegunOrOff
<1>4. AssignmentNotHidden'
  BY DEF AssignmentNotHidden
<1>5. QED BY <1>1, <1>2, <1>3, <1>4 DEF AssignInv

LEMMA AssignKept == AssignInv /\ [AssignNext]_sVars => AssignInv'
<1> SUFFICES ASSUME AssignInv, [AssignNext]_sVars PROVE AssignInv'
  OBVIOUS
<1>0. AssignTypeOK /\ AssignNumbersOK /\ AssignmentNotHidden
  BY DEF AssignInv, AssignTypeOK
<1>b. sOn \in BOOLEAN /\ sStayed \in BOOLEAN /\ sCrossed \in BOOLEAN
  BY <1>0 DEF AssignTypeOK
<1>a. sAt \in AssignSteps /\ sCached \in AssignAnswers /\ sRead \in AssignAnswers
  BY <1>0 DEF AssignTypeOK
<1>1. ASSUME NEW how \in Outcomes, _assign_copilot_graphql(how) \/ _assign_copilot_rest(how) PROVE AssignInv'
  <2>1. Ask(how) /\ sAt \in {"graphql", "rest"}
    BY <1>1 DEF _assign_copilot_graphql, _assign_copilot_rest, CallGoes
  <2>2. sAt' \in {"rest", "sleep", "refused", "assigned"} /\ (sAt' = "assigned" <=> how = "works")
    <3>1. CASE _assign_copilot_graphql(how)
      BY <3>1 DEF _assign_copilot_graphql, CallGoes, AfterGraphql
    <3>2. CASE _assign_copilot_rest(how)
      BY <3>2 DEF _assign_copilot_rest, CallGoes
    <3>3. QED BY <1>1, <3>1, <3>2
  <2>3. QED BY <2>1, <2>2, AskKept
<1>2. ASSUME NEW how \in Outcomes, unassign_copilot_from_issue(how) PROVE AssignInv'
  <2>1. /\ sAt = "unassign" /\ sAt' = "graphql" /\ sOn' = (sOn /\ how = "fails") /\ sStayed' = (sStayed \/ how = "fails")
        /\ sCached' = (IF how = "works" THEN "none" ELSE sCached) /\ UNCHANGED <<sSessions, sRead, sAttempt, sCrossed>>
        /\ sLost' = (IF how = "lost" THEN sLost + 1 ELSE sLost) /\ (sFaults' = sFaults \/ sFaults' = sFaults + 1)
    BY <1>2 DEF unassign_copilot_from_issue, CallGoes, AnswerTo, AssignFault
  <2>2. AssignNumbersOK' /\ (sSessions <= sLost => sSessions' <= sLost')
    BY <1>0, <2>1 DEF AssignNumbersOK
  <2>3. sOn' \in BOOLEAN /\ sStayed' \in BOOLEAN /\ sCrossed' \in BOOLEAN
    BY <1>b, <2>1
  <2>4. sAt' \in AssignSteps /\ sCached' \in AssignAnswers /\ sRead' \in AssignAnswers
    BY <1>a, <2>1 DEF AssignSteps, AssignAnswers
  <2>5. sStayed' \/ ~sOn'
    BY <2>1
  <2>6. QED BY <2>1, <2>2, <2>3, <2>4, <2>5, AssignGoesOn
<1>3. ASSUME NEW ok \in BOOLEAN, is_copilot_assigned_to_issue(ok) PROVE AssignInv'
  <2>1. /\ sAt = "look" /\ UNCHANGED <<sOn, sSessions, sRead, sAttempt, sLost, sCrossed>>
        /\ sStayed' = (sStayed \/ (sOn /\ sCached = "no")) /\ (sFaults' = sFaults \/ sFaults' = sFaults + 1)
    BY <1>3 DEF is_copilot_assigned_to_issue, AssignFault
  <2>2. /\ sCached' \in AssignAnswers /\ sAt' \in {"unassign", "graphql"}
        /\ sAt' = "graphql" => sCached = "no" \/ ~sOn
    BY <1>3, <1>a DEF is_copilot_assigned_to_issue, TakeOff, IsOn, AssignAnswers
  <2>3. AssignNumbersOK' /\ (sSessions <= sLost => sSessions' <= sLost')
    BY <1>0, <2>1 DEF AssignNumbersOK
  <2>4. sOn' \in BOOLEAN /\ sStayed' \in BOOLEAN /\ sCrossed' \in BOOLEAN
    BY <1>b, <2>1
  <2>5. sAt' \in AssignSteps /\ sRead' \in AssignAnswers
    BY <1>a, <2>1, <2>2 DEF AssignSteps
  <2>6. sAt' = "graphql" => sStayed' \/ ~sOn'
    BY <2>1, <2>2
  <2>7. QED BY <2>1, <2>2, <2>3, <2>4, <2>5, <2>6, AssignGoesOn
<1>4. CASE BeginAssign
  <2>1. sAt' = "look" /\ sAttempt' = 1 /\ sSessions' = 0 /\ sLost' = 0 /\ sStayed' = FALSE /\ sCrossed' = FALSE /\ UNCHANGED <<sOn, sCached, sRead, sFaults>>
    BY <1>4 DEF BeginAssign
  <2>2. AssignNumbersOK' /\ SessionsCounted' /\ BegunOrOff' /\ AssignmentNotHidden'
    BY <1>0, <2>1 DEF AssignNumbersOK, SessionsCounted, BegunOrOff, AssignmentNotHidden
  <2>3. AssignTypeOK'
    BY <1>a, <1>b, <2>1, <2>2 DEF AssignTypeOK, AssignSteps
  <2>4. QED BY <2>2, <2>3 DEF AssignInv
<1>5. CASE _execute_copilot_assignment
  <2>1. sAt = "sleep" /\ sAt' = "look" /\ sAttempt' = sAttempt + 1 /\ UNCHANGED <<sOn, sSessions, sCached, sRead, sLost, sStayed, sCrossed, sFaults>>
    BY <1>5 DEF _execute_copilot_assignment, CallGoes
  <2>2. AssignNumbersOK' /\ sAt' \in AssignSteps
    BY <1>0, <2>1 DEF AssignNumbersOK, AssignSteps
  <2>3. QED BY <1>a, <1>b, <2>1, <2>2, AssignGoesOn
<1>6. CASE ReadAssigned \/ clear_cycle_cache \/ CopilotLeaves
  <2>1. /\ UNCHANGED <<sSessions, sAt, sAttempt, sLost, sStayed, sCrossed, sFaults>> /\ (sOn' => sOn)
        /\ sRead' \in AssignAnswers /\ sOn' \in BOOLEAN /\ (sCached' = sCached \/ sCached' = "none")
    <3>1. CASE ReadAssigned
      BY <3>1, <1>a, <1>b DEF ReadAssigned, IsOn, AssignAnswers
    <3>2. CASE clear_cycle_cache
      BY <3>2, <1>a, <1>b DEF clear_cycle_cache
    <3>3. CASE CopilotLeaves
      BY <3>3, <1>a, <1>b DEF CopilotLeaves
    <3>4. QED BY <1>6, <3>1, <3>2, <3>3
  <2>2. AssignNumbersOK' /\ sCached' \in AssignAnswers
    BY <1>0, <1>a, <2>1 DEF AssignNumbersOK, AssignAnswers
  <2>3. sAt' = "assigned" /\ sOn' /\ ~sCrossed' => sCached' # "no"
    BY <1>0, <2>1 DEF AssignmentNotHidden
  <2>4. QED BY <1>a, <1>b, <2>1, <2>2, <2>3, AssignGoesOn
<1>7. CASE _cycle_cached
  <2>1. /\ sRead # "none" /\ sRead' = "none" /\ sCached' = sRead /\ sCrossed' = (sCrossed \/ sRead # IsOn)
        /\ UNCHANGED <<sOn, sSessions, sAt, sAttempt, sLost, sStayed, sFaults>>
    BY <1>7 DEF _cycle_cached
  <2>2. AssignNumbersOK' /\ sRead' \in AssignAnswers
    BY <1>0, <2>1 DEF AssignNumbersOK, AssignAnswers
  <2>3. sAt' = "assigned" /\ sOn' /\ ~sCrossed' => sCached' # "no"
    BY <2>1 DEF IsOn
  <2>4. sCrossed' \in BOOLEAN
    BY <1>b, <2>1
  <2>5. QED BY <1>a, <1>b, <2>1, <2>2, <2>3, <2>4, AssignGoesOn
<1>8. CASE UNCHANGED sVars
  BY <1>8 DEF sVars, AssignInv, AssignTypeOK, AssignNumbersOK, SessionsCounted, BegunOrOff, AssignmentNotHidden
<1>9. QED BY <1>1, <1>2, <1>3, <1>4, <1>5, <1>6, <1>7, <1>8 DEF AssignNext

(* The attempts of an assignment start one session, and one more at most   *)
(* for each lost answer; an assignment that succeeded has a session of its *)
(* own; and the cycle's cache does not deny it (_execute_copilot_assignment,*)
(* is_copilot_assigned_to_issue, _invalidate_cycle_cache).                 *)
THEOREM AssignmentReal == AssignSpec => []AssignmentIsReal
<1>1. ASSUME AssignInv PROVE AssignmentIsReal
  <2>1. SessionsExplained
    BY <1>1 DEF AssignInv, AssignTypeOK, AssignNumbersOK, SessionsCounted, SessionsExplained
  <2>2. AssignedHasSession
    BY <1>1 DEF AssignInv, BegunOrOff, AssignedHasSession
  <2>3. QED BY <1>1, <2>1, <2>2 DEF AssignInv, AssignmentIsReal
<1>2. QED BY AssignStart, AssignKept, <1>1, PTL DEF AssignSpec

(***************************************************************************)
(* The main pull request.  Pull requests are wired once, when they are     *)
(* made: each stands on the default branch or on that of another that is   *)
(* there, and a branch that serves as the main one belongs to one that is  *)
(* against the default branch, unless a child was taken for it.            *)
(***************************************************************************)
PullRecords == [state : {"absent", "open", "merged", "closed"}, base : 0..Remade, head : Pull]
MainTypeOK ==
    /\ jPull \in [Pull -> PullRecords] /\ jLinks \in Seq(Pull)
    /\ jSubs \in [Agent -> {"open", "completed", "not_planned"}]
    /\ jIssue \in 0..Remade /\ jMemory \in 0..Remade /\ jRow \in 0..Remade /\ jNext \in 1..Remade
    /\ jFinds \in [step : {"idle", "found", "create"}, pull : 0..Remade]
    /\ jCloses \in [read : BOOLEAN, done : SUBSET Agent] /\ jMisled \in BOOLEAN
There(p) == jPull[p].state # "absent"
PullIsWired(p) ==
    /\ jPull[p].state = "absent" => jPull[p].base = Default /\ jPull[p].head = p
    /\ p \in Agent => jPull[p].head = p /\ (p >= jNext => jPull[p].state = "absent")
    /\ p = Remade => jPull[p].base = Default
    /\ There(p) => There(jPull[p].head) /\ (jPull[p].base # Default => There(jPull[p].base))
    /\ IntoDefault(p) => IntoDefault(jPull[p].head)
KnownOnesThere ==
    /\ jMemory # 0 => There(jMemory)
    /\ jRow # 0 => There(jRow)
    /\ jFinds.step # "idle" => jFinds.pull \in Pull /\ There(jFinds.pull)
    /\ jFinds.step = "create" => IntoDefault(jFinds.pull)
MainIsRight ==
    jMisled \/ /\ jMemory # 0 => IntoDefault(jMemory)
               /\ jRow # 0 => IntoDefault(jRow)
               /\ \A p \in Pull : IntoDefault(p) \/ IntoDefault(jPull[p].base)
ReadWasTrue == \A a \in jCloses.done : jSubs[a] = "completed"
MainInv ==
    /\ MainTypeOK /\ (\A p \in Pull : PullIsWired(p)) /\ KnownOnesThere /\ MainIsRight /\ ReadWasTrue /\ ClosedWhenDone

LEMMA MainNumbers ==
  /\ Workers \in Nat \ {0} /\ Remade = Workers + 1 /\ Default = 0
  /\ Agent = 1..Workers /\ Pull = 1..Remade /\ Agent \subseteq Pull /\ Remade \in Pull /\ Remade \notin Agent
  /\ \A p \in Pull : p \in 0..Remade /\ p # 0 /\ (p # Remade => p \in Agent)
  /\ \A p \in 0..Remade : p # 0 => p \in Pull
BY MainAssumption DEF Remade, Agent, Pull, Default

LEMMA MainStart == MainInit => MainInv
<1> SUFFICES ASSUME MainInit PROVE MainInv
  OBVIOUS
<1>1. \A p \in Pull : [state |-> "absent", base |-> Default, head |-> p] \in PullRecords
  BY MainNumbers DEF PullRecords
<1>2. jPull \in [Pull -> PullRecords] /\ \A p \in Pull : jPull[p].state = "absent" /\ jPull[p].base = Default /\ jPull[p].head = p
  BY <1>1 DEF MainInit
<1>3. jLinks \in Seq(Pull) /\ jSubs \in [Agent -> {"open", "completed", "not_planned"}] /\ jMisled \in BOOLEAN
  <2>1. <<>> \in Seq(Pull)
    OBVIOUS
  <2>2. jLinks \in Seq(Pull)
    BY <2>1 DEF MainInit
  <2>3. QED BY <2>2 DEF MainInit
<1>4. jIssue \in 0..Remade /\ jMemory \in 0..Remade /\ jRow \in 0..Remade /\ jNext \in 1..Remade
  BY MainNumbers DEF MainInit
<1>5. jFinds \in [step : {"idle", "found", "create"}, pull : 0..Remade] /\ jCloses \in [read : BOOLEAN, done : SUBSET Agent]
  BY MainNumbers DEF MainInit, Resting, Unread
<1>6. MainTypeOK
  BY <1>2, <1>3, <1>4, <1>5 DEF MainTypeOK
<1>7. \A p \in Pull : PullIsWired(p)
  BY <1>2 DEF PullIsWired, There, IntoDefault
<1>8. KnownOnesThere /\ MainIsRight /\ ReadWasTrue /\ ClosedWhenDone
  BY <1>2, MainNumbers DEF MainInit, KnownOnesThere, MainIsRight, ReadWasTrue, ClosedWhenDone, Resting, Unread, IntoDefault
<1>9. QED BY <1>6, <1>7, <1>8 DEF MainInv

(* A step that makes no pull request, moves none from its base and closes  *)
(* no issue.                                                               *)
SameWiring ==
    /\ jPull' \in [Pull -> PullRecords]
    /\ \A p \in Pull : /\ jPull'[p].base = jPull[p].base /\ jPull'[p].head = jPull[p].head
                       /\ (jPull'[p].state = "absent" <=> jPull[p].state = "absent")
                       /\ (jPull[p].state = "merged" => jPull'[p].state = "merged")
SameSubs == jSubs' \in [Agent -> {"open", "completed", "not_planned"}] /\ \A a \in Agent : jSubs[a] = "completed" => jSubs'[a] = "completed"

LEMMA WiringStays ==
  ASSUME MainInv, SameWiring
  PROVE  /\ \A p \in Pull : (There(p)' <=> There(p)) /\ (IntoDefault(p)' <=> IntoDefault(p))
         /\ jNext' = jNext => \A p \in Pull : PullIsWired(p)'
<1>1. \A p \in Pull : (There(p)' <=> There(p)) /\ (IntoDefault(p)' <=> IntoDefault(p))
  BY DEF SameWiring, There, IntoDefault
<1>2. ASSUME jNext' = jNext, NEW p \in Pull PROVE PullIsWired(p)'
  <2>1. jPull[p].head \in Pull /\ jPull[p].base \in 0..Remade /\ PullIsWired(p)
    BY DEF MainInv, MainTypeOK, PullRecords
  <2>2. jPull[p].base # Default => jPull[p].base \in Pull
    BY <2>1, MainNumbers
  <2>3. QED BY <1>1, <1>2, <2>1, <2>2 DEF SameWiring, PullIsWired
<1>3. QED BY <1>1, <1>2

LEMMA MainGoesOn ==
  ASSUME MainInv, SameWiring, SameSubs, jNext' = jNext, jIssue' = jIssue,
         jLinks' \in Seq(Pull), jMemory' \in 0..Remade, jRow' \in 0..Remade,
         jFinds' \in [step : {"idle", "found", "create"}, pull : 0..Remade],
         jCloses' \in [read : BOOLEAN, done : SUBSET Agent], ReadWasTrue',
         jMisled' \in BOOLEAN, jMisled => jMisled',
         jMemory' # 0 => There(jMemory') /\ (jMisled' \/ IntoDefault(jMemory')),
         jRow' # 0 => There(jRow') /\ (jMisled' \/ IntoDefault(jRow')),
         jFinds'.step # "idle" => jFinds'.pull \in Pull /\ There(jFinds'.pull),
         jFinds'.step = "create" => IntoDefault(jFinds'.pull)
  PROVE  MainInv'
<1>1. MainTypeOK'
  BY DEF MainInv, MainTypeOK, SameWiring, SameSubs
<1>2. \A p \in Pull : (There(p)' <=> There(p)) /\ (IntoDefault(p)' <=> IntoDefault(p)) /\ PullIsWired(p)'
  BY WiringStays
<1>3. jMemory' # 0 => jMemory' \in Pull
  BY MainNumbers
<1>4. jRow' # 0 => jRow' \in Pull
  BY MainNumbers
<1>5. KnownOnesThere'
  BY <1>2, <1>3, <1>4 DEF KnownOnesThere, There, IntoDefault
<1>6. MainIsRight'
  <2>1. SUFFICES ASSUME ~jMisled' PROVE \A p \in Pull : IntoDefault(p)' \/ IntoDefault(jPull[p].base)'
    BY <1>2, <1>3, <1>4 DEF MainIsRight, IntoDefault
  <2>2. ASSUME NEW p \in Pull PROVE IntoDefault(p)' \/ IntoDefault(jPull[p].base)'
    <3>1. IntoDefault(p) \/ IntoDefault(jPull[p].base)
      BY <2>1 DEF MainInv, MainIsRight
    <3>2. jPull[p].base \in 0..Remade /\ jPull'[p].base = jPull[p].base
      BY DEF MainInv, MainTypeOK, PullRecords, SameWiring
    <3>3. CASE IntoDefault(p)
      BY <1>2, <3>3
    <3>4. CASE ~IntoDefault(p)
      <4>1. jPull[p].base \in Pull
        BY <3>2, <3>4, MainNumbers DEF IntoDefault
      <4>2. QED BY <1>2, <3>1, <3>2, <3>4, <4>1 DEF IntoDefault
    <3>5. QED BY <3>3, <3>4
  <2>3. QED BY <2>2
<1>7. ClosedWhenDone'
  <2>1. SUFFICES ASSUME jIssue' # 0 PROVE ClosedWhenDone'
    BY DEF ClosedWhenDone
  <2>2. jIssue \in Pull /\ jPull[jIssue].state = "merged" /\ (jMisled \/ IntoDefault(jIssue)) /\ \A a \in Agent : jSubs[a] = "completed"
    BY <2>1, MainNumbers DEF MainInv, MainTypeOK, ClosedWhenDone
  <2>3. QED BY <1>2, <2>2 DEF ClosedWhenDone, SameWiring, SameSubs, IntoDefault
<1>8. QED BY <1>1, <1>2, <1>5, <1>6, <1>7 DEF MainInv

(* What a search among the pull requests comes back with.                  *)
LEMMA LeastIsThere ==
  ASSUME NEW S, S \subseteq Nat, S # {}
  PROVE  Min(S) \in S /\ \A x \in S : Min(S) <= x
<1>1. \E n \in S : \A i \in S : ~(<<i, n>> \in OpToRel(<, Nat))
  BY NatLessThanWellFounded, WFMin
<1>2. PICK n \in S : \A i \in S : ~(<<i, n>> \in OpToRel(<, Nat))
  BY <1>1
<1>3. \A i \in S : ~(i < n)
  BY <1>2 DEF OpToRel
<1>4. \A i \in S : n <= i
  BY <1>3
<1>5. QED BY <1>4 DEF Min

LEMMA GreatestIsThere ==
  ASSUME NEW N \in Nat, NEW S, S \subseteq 0..N, S # {}
  PROVE  Max(S) \in S /\ \A x \in S : x <= Max(S)
<1> DEFINE Above == {n \in Nat : \A x \in S : x <= n}
<1>1. Above \subseteq Nat /\ N \in Above
  OBVIOUS
<1>2. Min(Above) \in Above /\ \A n \in Above : Min(Above) <= n
  BY <1>1, LeastIsThere
<1>3. PICK n \in Above : \A x \in Above : n <= x
  BY <1>2
<1>4. n \in S
  <2>1. SUFFICES ASSUME n \notin S PROVE FALSE
    OBVIOUS
  <2>2. \A x \in S : x < n /\ x \in Nat
    BY <2>1, <1>3
  <2>3. n \in Nat /\ n > 0
    <3>1. PICK x \in S : TRUE
      OBVIOUS
    <3>2. QED BY <2>2, <1>3, <3>1
  <2>4. n - 1 \in Nat /\ \A x \in S : x <= n - 1
    BY <2>2, <2>3
  <2>5. n - 1 \in Above
    BY <2>4
  <2>6. QED BY <1>3, <2>3, <2>5
<1>5. \A x \in S : n >= x
  BY <1>3
<1>6. QED BY <1>3, <1>4, <1>5 DEF Max

LEMMA SearchFindsAnOpenOne ==
  ASSUME MainInv, NEW ok \in BOOLEAN
  PROVE  /\ find_existing_pr_for_issue(ok) \in 0..Remade
         /\ find_existing_pr_for_issue(ok) # 0 => find_existing_pr_for_issue(ok) \in Pull /\ There(find_existing_pr_for_issue(ok))
<1>0. jLinks \in Seq(Pull) /\ DOMAIN jLinks \subseteq Nat /\ \A k \in DOMAIN jLinks : jLinks[k] \in Pull
  BY DEF MainInv, MainTypeOK
<1>1. CASE OpenLinks = {}
  BY <1>1, MainNumbers DEF find_existing_pr_for_issue
<1>2. CASE OpenLinks # {} /\ ok
  <2>1. Min(OpenLinks) \in OpenLinks
    BY <1>0, <1>2, LeastIsThere DEF OpenLinks
  <2>2. jLinks[Min(OpenLinks)] \in Pull /\ There(jLinks[Min(OpenLinks)])
    BY <1>0, <2>1 DEF OpenLinks, IsOpen, There
  <2>3. QED BY <1>2, <2>2, MainNumbers DEF find_existing_pr_for_issue
<1>3. CASE OpenLinks # {} /\ ~ok
  <2> DEFINE open == {jLinks[k] : k \in OpenLinks}
  <2>1. open # {} /\ open \subseteq Pull /\ \A p \in open : There(p)
    BY <1>0, <1>3 DEF OpenLinks, IsOpen, There
  <2>2. open \subseteq 0..Remade /\ Remade \in Nat
    BY <2>1, MainNumbers
  <2>3. Max(open) \in open
    BY <2>1, <2>2, GreatestIsThere
  <2>4. QED BY <1>3, <2>1, <2>3, MainNumbers DEF find_existing_pr_for_issue
<1>4. QED BY <1>1, <1>2, <1>3

LEMMA LinksStayLinks ==
  ASSUME MainInv, NEW p \in Pull, Link(p)
  PROVE  jLinks' \in Seq(Pull)
BY DEF MainInv, MainTypeOK, Link

(* Nothing that these steps do wires a pull request.                       *)
LEMMA NothingWired ==
  ASSUME MainInv, jPull' = jPull
  PROVE  SameWiring
BY DEF MainInv, MainTypeOK, SameWiring

LEMMA EndedNotRewired ==
  ASSUME MainInv, NEW p \in Pull, IsOpen(p), NEW state \in {"merged", "closed"},
         jPull' = [jPull EXCEPT ![p].state = state]
  PROVE  SameWiring
<1> DEFINE ended == [jPull[p] EXCEPT !.state = state]
<1>1. jPull[p] \in PullRecords /\ jPull \in [Pull -> PullRecords]
  BY DEF MainInv, MainTypeOK
<1>2. ended \in PullRecords /\ ended.base = jPull[p].base /\ ended.head = jPull[p].head /\ ended.state = state
  BY <1>1 DEF PullRecords
<1>3. jPull' = [jPull EXCEPT ![p] = ended]
  OBVIOUS
<1> HIDE DEF ended
<1>4. jPull' \in [Pull -> PullRecords] /\ jPull'[p] = ended /\ \A q \in Pull : q # p => jPull'[q] = jPull[q]
  BY <1>1, <1>2, <1>3
<1>5. QED BY <1>2, <1>4 DEF SameWiring, IsOpen

LEMMA OneSubChanges ==
  ASSUME MainInv, NEW a \in Agent, NEW state \in {"completed", "not_planned"},
         state = "completed" \/ jSubs[a] = "open", jSubs' = [jSubs EXCEPT ![a] = state]
  PROVE  SameSubs
<1>1. jSubs \in [Agent -> {"open", "completed", "not_planned"}]
  BY DEF MainInv, MainTypeOK
<1>2. jSubs'[a] = state /\ \A b \in Agent : b # a => jSubs'[b] = jSubs[b]
  BY <1>1
<1>3. QED BY <1>1, <1>2 DEF SameSubs

LEMMA SubsAsTheyWere ==
  ASSUME MainInv, jSubs' = jSubs
  PROVE  SameSubs /\ (jCloses' = jCloses => ReadWasTrue')
BY DEF MainInv, MainTypeOK, SameSubs, ReadWasTrue

(* What the steps that touch memory, the row and the sub-issues do.        *)
LEMMA MemoryStepsKeep ==
  ASSUME MainInv, PersistMain \/ RestartMain
  PROVE  MainInv'
<1>0. /\ jMemory \in 0..Remade /\ jRow \in 0..Remade /\ jLinks \in Seq(Pull) /\ jMisled \in BOOLEAN
      /\ jFinds \in [step : {"idle", "found", "create"}, pull : 0..Remade]
      /\ jCloses \in [read : BOOLEAN, done : SUBSET Agent] /\ KnownOnesThere /\ ReadWasTrue
      /\ (jMemory # 0 => jMisled \/ IntoDefault(jMemory)) /\ (jRow # 0 => jMisled \/ IntoDefault(jRow))
  BY DEF MainInv, MainTypeOK, MainIsRight
<1>1. CASE PersistMain
  <2>1. SameWiring /\ SameSubs /\ ReadWasTrue'
    BY <1>1, NothingWired, SubsAsTheyWere DEF PersistMain, jGitHub
  <2>2. /\ jNext' = jNext /\ jIssue' = jIssue /\ jLinks' = jLinks /\ jMemory' = jMemory /\ jRow' = jMemory
        /\ jFinds' = jFinds /\ jCloses' = jCloses /\ jMisled' = jMisled
    BY <1>1 DEF PersistMain, jGitHub
  <2>3. QED BY <1>0, <2>1, <2>2, MainGoesOn DEF KnownOnesThere
<1>2. CASE RestartMain
  <2>1. /\ jNext' = jNext /\ jIssue' = jIssue /\ jLinks' = jLinks /\ jMemory' = jRow /\ jRow' = jRow
        /\ jFinds' = Resting /\ jCloses' = Unread /\ jMisled' = jMisled /\ jPull' = jPull /\ jSubs' = jSubs
    BY <1>2 DEF RestartMain, jGitHub
  <2>2. SameWiring /\ SameSubs
    BY <2>1, NothingWired, SubsAsTheyWere
  <2>3. /\ jFinds' \in [step : {"idle", "found", "create"}, pull : 0..Remade] /\ jFinds'.step = "idle"
        /\ jCloses' \in [read : BOOLEAN, done : SUBSET Agent] /\ ReadWasTrue'
    BY <2>1, MainNumbers DEF Resting, Unread, ReadWasTrue
  <2>4. QED BY <1>0, <2>1, <2>2, <2>3, MainGoesOn DEF KnownOnesThere
<1>3. QED BY <1>1, <1>2

\* everything about memory and the row that the invariant says
LEMMA WhatIsKnown ==
  ASSUME MainInv
  PROVE  /\ jMemory \in 0..Remade /\ jRow \in 0..Remade /\ jLinks \in Seq(Pull) /\ jMisled \in BOOLEAN
         /\ jNext \in 1..Remade /\ jIssue \in 0..Remade
         /\ jFinds \in [step : {"idle", "found", "create"}, pull : 0..Remade]
         /\ jCloses \in [read : BOOLEAN, done : SUBSET Agent]
         /\ jMemory # 0 => jMemory \in Pull /\ There(jMemory) /\ (jMisled \/ IntoDefault(jMemory))
         /\ jRow # 0 => jRow \in Pull /\ There(jRow) /\ (jMisled \/ IntoDefault(jRow))
         /\ jFinds.step # "idle" => jFinds.pull \in Pull /\ There(jFinds.pull)
         /\ jFinds.step = "create" => IntoDefault(jFinds.pull)
         /\ ReadWasTrue
BY MainNumbers DEF MainInv, MainTypeOK, KnownOnesThere, MainIsRight

\* the first writer wins, and a wrong one is noted
LEMMA RecordingIsNoted ==
  ASSUME MainInv, NEW p \in Pull, There(p), set_issue_main_branch(p), Misleads(p)
  PROVE  /\ jMemory' \in Pull /\ There(jMemory') /\ (jMisled' \/ IntoDefault(jMemory'))
         /\ jMisled' \in BOOLEAN /\ (jMisled => jMisled')
<1>1. CASE jMemory = 0
  BY <1>1, WhatIsKnown, MainNumbers DEF set_issue_main_branch, FirstWins, Misleads
<1>2. CASE jMemory # 0
  BY <1>2, WhatIsKnown DEF set_issue_main_branch, FirstWins, Misleads
<1>3. QED BY <1>1, <1>2

LEMMA DiscoveryStepsKeep ==
  ASSUME MainInv, NEW ok \in BOOLEAN, _discover_main_pr_for_review(ok) \/ RecordFound
  PROVE  MainInv'
<1>a. Pull \subseteq 0..Remade /\ Agent \subseteq Pull /\ Agent \subseteq Nat
  BY MainNumbers
<1>1. CASE _discover_main_pr_for_review(ok)
  <2> DEFINE found == find_existing_pr_for_issue(ok)
  <2>1. found \in 0..Remade /\ (found # 0 => found \in Pull /\ There(found))
    BY SearchFindsAnOpenOne
  <2>2. OpenOfSubIssues # {} => Min(OpenOfSubIssues) \in Pull /\ There(Min(OpenOfSubIssues))
    <3>1. OpenOfSubIssues \subseteq Nat /\ \A p \in OpenOfSubIssues : p \in Pull /\ There(p)
      BY <1>a DEF OpenOfSubIssues, OfSubIssues, There
    <3>2. QED BY <3>1, LeastIsThere
  <2>3. OfSubIssues # {} => Min(OfSubIssues) \in Pull /\ There(Min(OfSubIssues)) /\ IntoDefault(Min(OfSubIssues))
    <3>1. OfSubIssues \subseteq Nat /\ \A p \in OfSubIssues : p \in Pull /\ There(p) /\ IntoDefault(p)
      BY <1>a DEF OfSubIssues, There
    <3>2. QED BY <3>1, LeastIsThere
  <2>4. /\ jPull' = jPull /\ jLinks' = jLinks /\ jSubs' = jSubs /\ jIssue' = jIssue
        /\ jMemory' = jMemory /\ jRow' = jRow /\ jNext' = jNext /\ jCloses' = jCloses /\ jMisled' = jMisled
    BY <1>1 DEF _discover_main_pr_for_review, jGitHub
  <2>5. jFinds' = CASE found # 0 -> [step |-> "found", pull |-> found]
                    [] found = 0 /\ OpenOfSubIssues # {} -> [step |-> "found", pull |-> Min(OpenOfSubIssues)]
                    [] found = 0 /\ OpenOfSubIssues = {} /\ OfSubIssues # {} -> [step |-> "create", pull |-> Min(OfSubIssues)]
                    [] OTHER -> Resting
    BY <1>1 DEF _discover_main_pr_for_review
  <2> HIDE DEF found
  <2>6. /\ jFinds' \in [step : {"idle", "found", "create"}, pull : 0..Remade]
        /\ jFinds'.step # "idle" => jFinds'.pull \in Pull /\ There(jFinds'.pull)
        /\ jFinds'.step = "create" => IntoDefault(jFinds'.pull)
    <3>1. CASE found # 0
      BY <2>1, <2>5, <3>1
    <3>2. CASE found = 0 /\ OpenOfSubIssues # {}
      BY <1>a, <2>2, <2>5, <3>2
    <3>3. CASE found = 0 /\ OpenOfSubIssues = {} /\ OfSubIssues # {}
      BY <1>a, <2>3, <2>5, <3>3
    <3>4. CASE found = 0 /\ OpenOfSubIssues = {} /\ OfSubIssues = {}
      BY <2>5, <3>4, MainNumbers DEF Resting
    <3>5. QED BY <3>1, <3>2, <3>3, <3>4
  <2>7. SameWiring /\ SameSubs /\ ReadWasTrue'
    BY <2>4, NothingWired, SubsAsTheyWere
  <2>8. QED BY <2>4, <2>6, <2>7, WhatIsKnown, MainGoesOn
<1>2. CASE RecordFound
  <2>1. /\ jFinds.pull \in Pull /\ There(jFinds.pull) /\ set_issue_main_branch(jFinds.pull) /\ Misleads(jFinds.pull)
        /\ Link(jFinds.pull) /\ jFinds' = Resting
        /\ jPull' = jPull /\ jSubs' = jSubs /\ jIssue' = jIssue /\ jRow' = jRow /\ jNext' = jNext /\ jCloses' = jCloses
    BY <1>2, WhatIsKnown DEF RecordFound
  <2>2. jFinds' \in [step : {"idle", "found", "create"}, pull : 0..Remade] /\ jFinds'.step = "idle"
    BY <2>1, MainNumbers DEF Resting
  <2>3. /\ jMemory' \in Pull /\ There(jMemory') /\ (jMisled' \/ IntoDefault(jMemory'))
        /\ jMisled' \in BOOLEAN /\ (jMisled => jMisled')
    BY <2>1, RecordingIsNoted
  <2>4. SameWiring /\ SameSubs /\ ReadWasTrue' /\ jLinks' \in Seq(Pull)
    BY <2>1, NothingWired, SubsAsTheyWere, LinksStayLinks
  <2>5. QED BY <1>a, <2>1, <2>2, <2>3, <2>4, WhatIsKnown, MainGoesOn
<1>3. QED BY <1>1, <1>2

LEMMA ReportKeeps ==
  ASSUME MainInv, NEW a \in Agent, NEW linked \in BOOLEAN, AgentReports(a, linked)
  PROVE  MainInv'
<1>a. Pull \subseteq 0..Remade /\ a \in Pull
  BY MainNumbers
<1>1. /\ IsOpen(a) /\ set_issue_main_branch(a) /\ Misleads(a) /\ jSubs' = [jSubs EXCEPT ![a] = "completed"]
      /\ jIssue' = jIssue /\ jRow' = jRow /\ jNext' = jNext /\ jFinds' = jFinds /\ jCloses' = jCloses
  BY DEF AgentReports, _track_main_branch_if_needed, _close_completed_sub_issues
<1>2. SameWiring
  <2>1. CASE jPull' = jPull
    BY <2>1, NothingWired
  <2>2. CASE jPull' = [jPull EXCEPT ![a].state = "merged"]
    BY <1>a, <1>1, <2>2, EndedNotRewired
  <2>3. QED BY <2>1, <2>2 DEF AgentReports
<1>3. SameSubs /\ ReadWasTrue'
  <2>1. SameSubs
    BY <1>1, OneSubChanges
  <2>2. jCloses.done \subseteq Agent /\ \A b \in jCloses.done : jSubs[b] = "completed"
    BY WhatIsKnown DEF ReadWasTrue
  <2>3. QED BY <1>1, <2>1, <2>2 DEF SameSubs, ReadWasTrue
<1>4. jLinks' \in Seq(Pull)
  BY <1>a, LinksStayLinks, WhatIsKnown DEF AgentReports
<1>5. /\ jMemory' \in Pull /\ There(jMemory') /\ (jMisled' \/ IntoDefault(jMemory'))
      /\ jMisled' \in BOOLEAN /\ (jMisled => jMisled')
  BY <1>a, <1>1, RecordingIsNoted DEF IsOpen, There
<1>6. QED BY <1>a, <1>1, <1>2, <1>3, <1>4, <1>5, WhatIsKnown, MainGoesOn

LEMMA PeopleAndLinksKeep ==
  ASSUME MainInv,
         \/ \E p \in Pull : _link_prs_to_parent(p) \/ \E state \in {"merged", "closed"} : PersonEnds(p, state)
         \/ \E a \in Agent : PersonSetsAside(a)
  PROVE  MainInv'
<1>1. CASE \E p \in Pull : _link_prs_to_parent(p)
  <2>1. PICK p \in Pull : _link_prs_to_parent(p)
    BY <1>1
  <2>2. /\ Link(p) /\ jPull' = jPull /\ jSubs' = jSubs /\ jIssue' = jIssue /\ jMemory' = jMemory /\ jRow' = jRow
        /\ jNext' = jNext /\ jFinds' = jFinds /\ jCloses' = jCloses /\ jMisled' = jMisled
    BY <2>1 DEF _link_prs_to_parent
  <2>3. SameWiring /\ SameSubs /\ ReadWasTrue' /\ jLinks' \in Seq(Pull)
    BY <2>2, NothingWired, SubsAsTheyWere, LinksStayLinks
  <2>4. QED BY <2>2, <2>3, WhatIsKnown, MainGoesOn
<1>2. CASE \E p \in Pull : \E state \in {"merged", "closed"} : PersonEnds(p, state)
  <2>1. PICK p \in Pull, state \in {"merged", "closed"} : PersonEnds(p, state)
    BY <1>2
  <2>2. /\ IsOpen(p) /\ jPull' = [jPull EXCEPT ![p].state = state] /\ jLinks' = jLinks /\ jSubs' = jSubs /\ jIssue' = jIssue
        /\ jMemory' = jMemory /\ jRow' = jRow /\ jNext' = jNext /\ jFinds' = jFinds /\ jCloses' = jCloses /\ jMisled' = jMisled
    BY <2>1 DEF PersonEnds
  <2>3. SameWiring /\ SameSubs /\ ReadWasTrue'
    BY <2>2, EndedNotRewired, SubsAsTheyWere
  <2>4. QED BY <2>2, <2>3, WhatIsKnown, MainGoesOn
<1>3. CASE \E a \in Agent : PersonSetsAside(a)
  <2>1. PICK a \in Agent : PersonSetsAside(a)
    BY <1>3
  <2>2. /\ jSubs[a] = "open" /\ jSubs' = [jSubs EXCEPT ![a] = "not_planned"] /\ jPull' = jPull /\ jLinks' = jLinks /\ jIssue' = jIssue
        /\ jMemory' = jMemory /\ jRow' = jRow /\ jNext' = jNext /\ jFinds' = jFinds /\ jCloses' = jCloses /\ jMisled' = jMisled
    BY <2>1 DEF PersonSetsAside
  <2>3. SameWiring /\ SameSubs
    BY <2>2, NothingWired, OneSubChanges
  <2>4. jCloses.done \subseteq Agent /\ \A b \in jCloses.done : jSubs[b] = "completed"
    BY WhatIsKnown DEF ReadWasTrue
  <2>5. ReadWasTrue'
    BY <2>2, <2>3, <2>4 DEF SameSubs, ReadWasTrue
  <2>6. QED BY <2>2, <2>3, <2>5, WhatIsKnown, MainGoesOn
<1>4. QED BY <1>1, <1>2, <1>3

(* A pull request is made.  What was there stays as it was, and the new    *)
(* one's base and branch are those of one that is there.                   *)
OneIsMade(n, base, head) ==
    /\ ~There(n) /\ jPull' \in [Pull -> PullRecords]
    /\ jPull'[n].state = "open" /\ jPull'[n].base = base /\ jPull'[n].head = head
    /\ \A p \in Pull : p # n => jPull'[p] = jPull[p]

LEMMA OthersAsTheyWere ==
  ASSUME MainInv, NEW n \in Pull, NEW base \in 0..Remade, NEW head \in Pull, OneIsMade(n, base, head)
  PROVE  /\ There(n)' /\ (IntoDefault(n)' <=> base = Default)
         /\ \A p \in Pull : There(p) => p # n /\ There(p)' /\ (IntoDefault(p)' <=> IntoDefault(p))
         /\ \A p \in Pull : p # n => (There(p)' <=> There(p)) /\ (IntoDefault(p)' <=> IntoDefault(p))
BY DEF OneIsMade, There, IntoDefault

LEMMA MakingKeepsTheRest ==
  ASSUME MainInv, NEW n \in Pull, NEW base \in 0..Remade, NEW head \in Pull, OneIsMade(n, base, head),
         jMemory' \in 0..Remade, jMisled' \in BOOLEAN, jMisled => jMisled', jLinks' \in Seq(Pull),
         jFinds' = jFinds \/ jFinds' = Resting, jNext' \in 1..Remade,
         jSubs' = jSubs, jIssue' = jIssue, jRow' = jRow, jCloses' = jCloses,
         jMemory' # 0 => There(jMemory)' /\ (jMisled' \/ IntoDefault(jMemory)'),
         base # Default => There(base) /\ (jMisled' \/ IntoDefault(base)),
         PullIsWired(n)', \A p \in Agent : p # n /\ p >= jNext' => p >= jNext
  PROVE  MainInv'
<1>0. /\ jPull \in [Pull -> PullRecords] /\ jPull' \in [Pull -> PullRecords]
      /\ jSubs \in [Agent -> {"open", "completed", "not_planned"}] /\ \A p \in Pull : PullIsWired(p)
  BY DEF MainInv, MainTypeOK, OneIsMade
<1>1. MainTypeOK'
  <2>1. jFinds' \in [step : {"idle", "found", "create"}, pull : 0..Remade]
    BY WhatIsKnown, MainNumbers DEF Resting
  <2>2. QED BY <1>0, <2>1, WhatIsKnown DEF MainTypeOK
<1>2. ASSUME NEW p \in Pull PROVE PullIsWired(p)'
  <2>1. CASE p = n
    BY <2>1
  <2>2. CASE p # n
    <3>1. /\ PullIsWired(p) /\ jPull'[p] = jPull[p] /\ jPull[p].head \in Pull /\ jPull[p].base \in 0..Remade
      BY <1>0, <2>2 DEF OneIsMade, PullRecords
    <3>2. jPull[p].base # Default => jPull[p].base \in Pull
      BY <3>1, MainNumbers
    <3>3. There(p) => There(jPull[p].head)' /\ (jPull[p].base # Default => There(jPull[p].base)')
      BY <3>1, <3>2, OthersAsTheyWere DEF PullIsWired
    <3>4. IntoDefault(p) => IntoDefault(jPull[p].head)'
      <4>1. CASE There(p)
        BY <3>1, <4>1, OthersAsTheyWere DEF PullIsWired
      <4>2. CASE ~There(p)
        BY <2>2, <3>1, <4>2, OthersAsTheyWere DEF PullIsWired, There, IntoDefault
      <4>3. QED BY <4>1, <4>2
    <3>5. p \in Agent => (p >= jNext' => p >= jNext)
      BY <2>2
    <3>6. QED BY <3>1, <3>3, <3>4, <3>5 DEF PullIsWired, There, IntoDefault
  <2>3. QED BY <2>1, <2>2
<1>3. KnownOnesThere'
  <2>1. jMemory' # 0 => There(jMemory)'
    OBVIOUS
  <2>2. jRow' # 0 => There(jRow)'
    BY WhatIsKnown, OthersAsTheyWere DEF There
  <2>3. jFinds'.step # "idle" => jFinds' = jFinds
    BY DEF Resting
  <2>4. /\ jFinds'.step # "idle" => jFinds'.pull \in Pull /\ There(jFinds.pull)'
        /\ jFinds'.step = "create" => IntoDefault(jFinds.pull)'
    BY <2>3, WhatIsKnown, OthersAsTheyWere DEF There, IntoDefault
  <2>5. QED BY <2>1, <2>2, <2>4 DEF KnownOnesThere, There, IntoDefault
<1>4. MainIsRight'
  <2>1. SUFFICES ASSUME ~jMisled' PROVE MainIsRight'
    BY DEF MainIsRight
  <2>2. jMemory' # 0 => IntoDefault(jMemory)'
    BY <2>1
  <2>3. jRow' # 0 => IntoDefault(jRow)'
    BY <2>1, WhatIsKnown, OthersAsTheyWere DEF IntoDefault
  <2>4. ASSUME NEW p \in Pull PROVE IntoDefault(p)' \/ IntoDefault(jPull[p].base)'
    <3>1. CASE p = n
      <4>1. base = Default \/ (base \in Pull /\ There(base) /\ IntoDefault(base))
        BY <2>1, MainNumbers
      <4>2. jPull'[p].base = base
        BY <3>1 DEF OneIsMade
      <4>3. QED BY <3>1, <4>1, <4>2, OthersAsTheyWere DEF IntoDefault
    <3>2. CASE p # n
      <4>1. IntoDefault(p) \/ IntoDefault(jPull[p].base)
        BY <2>1 DEF MainInv, MainIsRight
      <4>2. jPull'[p] = jPull[p] /\ jPull[p].base \in 0..Remade /\ PullIsWired(p)
        BY <1>0, <3>2 DEF OneIsMade, PullRecords
      <4>3. CASE IntoDefault(p)
        BY <3>2, <4>3, OthersAsTheyWere
      <4>4. CASE ~IntoDefault(p)
        <5>1. jPull[p].base \in Pull /\ jPull[p].base # Default /\ There(p)
          BY <4>2, <4>4, MainNumbers DEF IntoDefault, PullIsWired, There
        <5>2. There(jPull[p].base)
          BY <4>2, <5>1 DEF PullIsWired
        <5>3. QED BY <4>1, <4>2, <4>4, <5>1, <5>2, OthersAsTheyWere DEF IntoDefault
      <4>5. QED BY <4>3, <4>4
    <3>3. QED BY <3>1, <3>2
  <2>5. QED BY <2>2, <2>3, <2>4 DEF MainIsRight, IntoDefault
<1>5. ReadWasTrue'
  BY WhatIsKnown DEF ReadWasTrue
<1>6. ClosedWhenDone'
  <2>1. SUFFICES ASSUME jIssue' # 0 PROVE ClosedWhenDone'
    BY DEF ClosedWhenDone
  <2>2. jIssue \in Pull /\ jPull[jIssue].state = "merged" /\ (jMisled \/ IntoDefault(jIssue)) /\ \A a \in Agent : jSubs[a] = "completed"
    BY <2>1, MainNumbers DEF MainInv, MainTypeOK, ClosedWhenDone
  <2>3. jIssue # n /\ There(jIssue)
    BY <2>2 DEF OneIsMade, There
  <2>4. jPull'[jIssue] = jPull[jIssue] /\ (IntoDefault(jIssue)' <=> IntoDefault(jIssue))
    BY <2>2, <2>3, OthersAsTheyWere DEF OneIsMade
  <2>5. QED BY <2>2, <2>4 DEF ClosedWhenDone, IntoDefault
<1>7. QED BY <1>1, <1>2, <1>3, <1>4, <1>5, <1>6 DEF MainInv

LEMMA BeginningKeeps ==
  ASSUME MainInv, NEW ok \in BOOLEAN, AgentBegins(ok)
  PROVE  MainInv'
<1> DEFINE kept == jMemory # 0 /\ ok
           Main == IF kept THEN jMemory ELSE find_existing_pr_for_issue(ok \/ jMemory # 0)
<1>1. PICK n \in Agent : n = jNext
  BY DEF AgentBegins
<1>2. /\ n \in Pull /\ jNext' = n + 1 /\ jNext' \in 1..Remade
      /\ jLinks' = jLinks /\ jSubs' = jSubs /\ jIssue' = jIssue /\ jRow' = jRow /\ jFinds' = jFinds /\ jCloses' = jCloses
  BY <1>1, MainNumbers DEF AgentBegins
<1>3. Main \in 0..Remade /\ (Main # 0 => Main \in Pull /\ There(Main)) /\ (kept /\ Main # 0 => jMisled \/ IntoDefault(Main))
  <2>1. CASE kept
    BY <2>1, WhatIsKnown
  <2>2. CASE ~kept
    BY <2>2, SearchFindsAnOpenOne
  <2>3. QED BY <2>1, <2>2
<1>4. PICK main \in 0..Remade : main = Main
  BY <1>3
<1>5. PICK base \in 0..Remade : base = IF main = 0 THEN Default ELSE jPull[main].head
  BY <1>3, <1>4, MainNumbers DEF MainInv, MainTypeOK, PullRecords
<1> DEFINE made == [jPull[n] EXCEPT !.state = "open", !.base = base]
<1>6. jPull' = [jPull EXCEPT ![n] = made] /\ jMemory' = main /\ jMisled' = (jMisled \/ (~kept /\ main # 0 /\ ~IntoDefault(main)))
  BY <1>1, <1>4, <1>5 DEF AgentBegins, _determine_base_ref
<1>7. jMisled' \in BOOLEAN /\ (jMisled => jMisled') /\ (main # 0 => main \in Pull /\ There(main) /\ (jMisled' \/ IntoDefault(main)))
  BY <1>3, <1>4, <1>6, WhatIsKnown
<1> HIDE DEF kept, Main
<1>8. jPull \in [Pull -> PullRecords] /\ PullIsWired(n) /\ ~There(n) /\ jPull[n].head = n
  <2>1. PullIsWired(n) /\ n \in Nat
    BY <1>2, MainNumbers DEF MainInv
  <2>2. QED BY <1>1, <1>2, <2>1 DEF MainInv, MainTypeOK, PullIsWired, There
<1>9. base # Default => base \in Pull /\ There(base) /\ (jMisled' \/ IntoDefault(base))
  <2>1. CASE main = 0
    BY <1>5, <2>1
  <2>2. CASE main # 0
    <3>1. main \in Pull /\ There(main) /\ PullIsWired(main) /\ jPull[main].head \in Pull
      BY <1>7, <1>8, <2>2 DEF MainInv, PullRecords
    <3>2. There(jPull[main].head) /\ (IntoDefault(main) => IntoDefault(jPull[main].head))
      BY <3>1 DEF PullIsWired
    <3>3. QED BY <1>5, <1>7, <2>2, <3>1, <3>2
  <2>3. QED BY <2>1, <2>2
<1>10. made \in PullRecords /\ made.state = "open" /\ made.base = base /\ made.head = n
  <2>1. jPull[n] \in PullRecords /\ jPull[n].head = n
    BY <1>2, <1>8
  <2>2. QED BY <2>1 DEF PullRecords
<1> HIDE DEF made
<1>11. OneIsMade(n, base, n)
  BY <1>2, <1>6, <1>8, <1>10 DEF OneIsMade
<1>12. /\ There(n)' /\ (IntoDefault(n)' <=> base = Default)
       /\ \A p \in Pull : There(p) => p # n /\ There(p)' /\ (IntoDefault(p)' <=> IntoDefault(p))
  BY <1>2, <1>11, OthersAsTheyWere
<1>13. main # 0 => There(jMemory)' /\ (jMisled' \/ IntoDefault(jMemory)')
  BY <1>6, <1>7, <1>12 DEF There, IntoDefault
<1>14. PullIsWired(n)'
  <2>1. There(n)' /\ (IntoDefault(n)' <=> base = Default) /\ (base # Default => There(base)')
    BY <1>9, <1>12
  <2>2. jPull'[n].head = n /\ jPull'[n].base = base
    BY <1>11 DEF OneIsMade
  <2>3. n \in Agent /\ n # Remade /\ ~(n >= jNext')
    BY <1>2, MainNumbers
  <2>4. QED BY <2>1, <2>2, <2>3 DEF PullIsWired, There, IntoDefault
<1>15. \A p \in Agent : p # n /\ p >= jNext' => p >= jNext
  BY <1>1, <1>2, MainNumbers
<1>16. jLinks' \in Seq(Pull) /\ jMemory' \in 0..Remade /\ (jMemory' # 0 => main # 0)
  BY <1>2, <1>6, WhatIsKnown
<1>17. QED BY <1>2, <1>7, <1>9, <1>11, <1>13, <1>14, <1>15, <1>16, MakingKeepsTheRest

LEMMA CreatingKeeps ==
  ASSUME MainInv, NEW ok \in BOOLEAN, CreateMain(ok)
  PROVE  MainInv'
<1>0. /\ jFinds.step = "create" /\ jFinds' = Resting /\ jFinds.pull \in Pull /\ There(jFinds.pull) /\ IntoDefault(jFinds.pull)
      /\ jSubs' = jSubs /\ jIssue' = jIssue /\ jRow' = jRow /\ jNext' = jNext /\ jCloses' = jCloses /\ jMisled' = jMisled
      /\ jFinds' \in [step : {"idle", "found", "create"}, pull : 0..Remade] /\ jFinds'.step = "idle"
  BY WhatIsKnown, MainNumbers DEF CreateMain, Resting
<1>1. CASE ok /\ jPull[Remade].state = "absent"
  <2> DEFINE made == [state |-> "open", base |-> Default, head |-> jFinds.pull]
  <2>1. /\ jPull' = [jPull EXCEPT ![Remade] = made] /\ jMemory' = FirstWins(Remade) /\ Link(Remade)
    BY <1>1 DEF CreateMain, set_issue_main_branch
  <2>2. Remade \in Pull /\ Default \in 0..Remade /\ Remade # 0 /\ Remade \notin Agent /\ Remade \in 0..Remade
    BY MainNumbers
  <2>3. made \in PullRecords /\ made.state = "open" /\ made.base = Default /\ made.head = jFinds.pull
    BY <1>0, <2>2 DEF PullRecords
  <2> HIDE DEF made
  <2>4. OneIsMade(Remade, Default, jFinds.pull)
    BY <1>1, <2>1, <2>2, <2>3 DEF OneIsMade, There, MainInv, MainTypeOK
  <2>5. /\ There(Remade)' /\ IntoDefault(Remade)' /\ jPull'[jFinds.pull].state # "absent" /\ jPull'[jFinds.pull].base = Default
        /\ jMemory # 0 => jPull'[jMemory].state # "absent" /\ (jMisled \/ jPull'[jMemory].base = Default)
    <3>1. /\ There(Remade)' /\ (IntoDefault(Remade)' <=> Default = Default)
          /\ \A p \in Pull : There(p) => p # Remade /\ There(p)' /\ (IntoDefault(p)' <=> IntoDefault(p))
      BY <1>0, <2>2, <2>4, OthersAsTheyWere
    <3>2. jFinds.pull \in Pull /\ There(jFinds.pull) /\ IntoDefault(jFinds.pull)
      BY <1>0
    <3>3. jPull'[jFinds.pull].state # "absent" /\ jPull'[jFinds.pull].base = Default
      BY <3>1, <3>2 DEF There, IntoDefault
    <3>4. jMemory # 0 => jPull'[jMemory].state # "absent" /\ (jMisled \/ jPull'[jMemory].base = Default)
      BY <3>1, WhatIsKnown DEF There, IntoDefault
    <3>5. QED BY <3>1, <3>3, <3>4
  <2>6. jMemory' \in 0..Remade /\ There(jMemory)' /\ (jMisled' \/ IntoDefault(jMemory)')
    BY <1>0, <2>1, <2>2, <2>5, WhatIsKnown DEF FirstWins, There, IntoDefault
  <2>7. PullIsWired(Remade)'
    <3>1. jPull'[Remade].head = jFinds.pull /\ jPull'[Remade].base = Default /\ jPull'[Remade].state = "open"
      BY <2>4 DEF OneIsMade
    <3>2. QED BY <2>2, <2>5, <3>1 DEF PullIsWired, There, IntoDefault
  <2>8. jLinks' \in Seq(Pull) /\ jNext' \in 1..Remade /\ jMisled' \in BOOLEAN /\ \A p \in Agent : p # Remade /\ p >= jNext' => p >= jNext
    BY <1>0, <2>1, <2>2, LinksStayLinks, WhatIsKnown
  <2>9. QED BY <1>0, <2>2, <2>4, <2>6, <2>7, <2>8, MakingKeepsTheRest
<1>2. CASE ~(ok /\ jPull[Remade].state = "absent")
  <2>1. jPull' = jPull /\ jMemory' = jMemory /\ jLinks' = jLinks
    BY <1>2 DEF CreateMain
  <2>2. SameWiring /\ SameSubs /\ ReadWasTrue'
    BY <1>0, <2>1, NothingWired, SubsAsTheyWere
  <2>3. QED BY <1>0, <2>1, <2>2, WhatIsKnown, MainGoesOn
<1>3. QED BY <1>1, <1>2

\* the pull request that the issue is closed for
LEMMA ResolvedIsRight ==
  ASSUME MainInv
  PROVE  /\ _resolve_main_pr_for_done_transition \in 0..Remade
         /\ _resolve_main_pr_for_done_transition # 0 => jMisled \/ IntoDefault(_resolve_main_pr_for_done_transition)
<1>0. Pull \subseteq 0..Remade /\ Agent \subseteq Pull /\ Agent \subseteq Nat /\ jLinks \in Seq(Pull)
  BY WhatIsKnown, MainNumbers
<1>1. CASE jMemory # 0
  BY <1>1, WhatIsKnown DEF _resolve_main_pr_for_done_transition
<1>2. CASE jMemory = 0 /\ Candidates # {}
  <2>1. Candidates \subseteq Nat /\ \A k \in Candidates : jLinks[k] \in Pull /\ IntoDefault(jLinks[k])
    BY <1>0 DEF Candidates
  <2>2. Min(Candidates) \in Candidates
    BY <1>2, <2>1, LeastIsThere
  <2>3. _resolve_main_pr_for_done_transition = jLinks[Min(Candidates)]
    BY <1>2 DEF _resolve_main_pr_for_done_transition
  <2>4. QED BY <1>0, <2>1, <2>2, <2>3
<1>3. CASE jMemory = 0 /\ Candidates = {} /\ OfSubIssues # {}
  <2>1. OfSubIssues \subseteq Nat /\ \A p \in OfSubIssues : p \in Pull /\ IntoDefault(p)
    BY <1>0 DEF OfSubIssues
  <2>2. Min(OfSubIssues) \in OfSubIssues
    BY <1>3, <2>1, LeastIsThere
  <2>3. _resolve_main_pr_for_done_transition = Min(OfSubIssues)
    BY <1>3 DEF _resolve_main_pr_for_done_transition
  <2>4. QED BY <1>0, <2>1, <2>2, <2>3
<1>4. CASE jMemory = 0 /\ Candidates = {} /\ OfSubIssues = {}
  BY <1>4, MainNumbers DEF _resolve_main_pr_for_done_transition
<1>5. QED BY <1>1, <1>2, <1>3, <1>4

LEMMA ClosingStepsKeep ==
  ASSUME MainInv, NEW ok \in BOOLEAN,
         BeginClosing \/ _close_parent_issue_if_main_pr_merged_and_sub_issues_completed(ok)
  PROVE  MainInv'
<1>1. CASE BeginClosing
  <2>1. /\ jCloses' = [read |-> TRUE, done |-> {a \in Agent : jSubs[a] = "completed"}]
        /\ jPull' = jPull /\ jLinks' = jLinks /\ jSubs' = jSubs /\ jIssue' = jIssue /\ jMemory' = jMemory
        /\ jRow' = jRow /\ jNext' = jNext /\ jFinds' = jFinds /\ jMisled' = jMisled
    BY <1>1 DEF BeginClosing, jGitHub
  <2>2. jCloses' \in [read : BOOLEAN, done : SUBSET Agent] /\ ReadWasTrue'
    BY <2>1 DEF ReadWasTrue
  <2>3. SameWiring /\ SameSubs
    BY <2>1, NothingWired, SubsAsTheyWere
  <2>4. QED BY <2>1, <2>2, <2>3, WhatIsKnown, MainGoesOn
<1>2. CASE _close_parent_issue_if_main_pr_merged_and_sub_issues_completed(ok)
  <2> DEFINE main == _resolve_main_pr_for_done_transition
  <2>1. /\ jCloses' = Unread /\ jPull' = jPull /\ jLinks' = jLinks /\ jSubs' = jSubs
        /\ jRow' = jRow /\ jNext' = jNext /\ jFinds' = jFinds /\ jMisled' = jMisled
        /\ IF ok /\ Merged(main) /\ jCloses.done = Agent
           THEN jIssue' = main /\ jMemory' = 0 ELSE jIssue' = jIssue /\ jMemory' = jMemory
    BY <1>2 DEF _close_parent_issue_if_main_pr_merged_and_sub_issues_completed
  <2>2. main \in 0..Remade /\ (main # 0 => jMisled \/ IntoDefault(main))
    BY ResolvedIsRight
  <2> HIDE DEF main
  <2>3. jCloses' \in [read : BOOLEAN, done : SUBSET Agent] /\ ReadWasTrue'
    BY <2>1 DEF Unread, ReadWasTrue
  <2>4. CASE ok /\ Merged(main) /\ jCloses.done = Agent
    <3>1. main # 0 /\ jPull[main].state = "merged" /\ \A a \in Agent : jSubs[a] = "completed"
      BY <2>4, WhatIsKnown DEF Merged, ReadWasTrue
    <3>2. jIssue' = main /\ jMemory' = 0
      BY <2>1, <2>4
    <3>3. MainTypeOK'
      BY <2>1, <2>2, <2>3, <3>2, WhatIsKnown, MainNumbers DEF MainInv, MainTypeOK
    <3>4. \A p \in Pull : PullIsWired(p)'
      BY <2>1 DEF MainInv, PullIsWired, There, IntoDefault
    <3>5. KnownOnesThere' /\ MainIsRight'
      BY <2>1, <3>2 DEF MainInv, KnownOnesThere, MainIsRight, There, IntoDefault
    <3>6. ClosedWhenDone'
      BY <2>1, <2>2, <3>1, <3>2 DEF ClosedWhenDone, IntoDefault
    <3>7. QED BY <2>3, <3>3, <3>4, <3>5, <3>6 DEF MainInv
  <2>5. CASE ~(ok /\ Merged(main) /\ jCloses.done = Agent)
    <3>1. jIssue' = jIssue /\ jMemory' = jMemory
      BY <2>1, <2>5
    <3>2. SameWiring /\ SameSubs
      BY <2>1, NothingWired, SubsAsTheyWere
    <3>3. QED BY <2>1, <2>3, <3>1, <3>2, WhatIsKnown, MainGoesOn
  <2>6. QED BY <2>4, <2>5
<1>3. QED BY <1>1, <1>2

LEMMA MainKept == MainInv /\ [MainNext]_jVars => MainInv'
<1> SUFFICES ASSUME MainInv, [MainNext]_jVars PROVE MainInv'
  OBVIOUS
<1>1. CASE PersistMain \/ RestartMain
  BY <1>1, MemoryStepsKeep
<1>2. CASE RecordFound \/ \E ok \in BOOLEAN : _discover_main_pr_for_review(ok)
  BY <1>2, DiscoveryStepsKeep
<1>3. CASE BeginClosing \/ \E ok \in BOOLEAN : _close_parent_issue_if_main_pr_merged_and_sub_issues_completed(ok)
  BY <1>3, ClosingStepsKeep
<1>4. CASE \E ok \in BOOLEAN : AgentBegins(ok)
  BY <1>4, BeginningKeeps
<1>5. CASE \E ok \in BOOLEAN : CreateMain(ok)
  BY <1>5, CreatingKeeps
<1>6. CASE \E ok \in BOOLEAN : \E a \in Agent : AgentReports(a, ok)
  BY <1>6, ReportKeeps
<1>7. CASE \/ \E p \in Pull : _link_prs_to_parent(p) \/ \E state \in {"merged", "closed"} : PersonEnds(p, state)
           \/ \E a \in Agent : PersonSetsAside(a)
  BY <1>7, PeopleAndLinksKeep
<1>8. CASE UNCHANGED jVars
  <2>1. SameWiring /\ SameSubs /\ ReadWasTrue'
    BY <1>8, NothingWired, SubsAsTheyWere DEF jVars
  <2>2. QED BY <1>8, <2>1, WhatIsKnown, MainGoesOn DEF jVars
<1>9. QED BY <1>1, <1>2, <1>3, <1>4, <1>5, <1>6, <1>7, <1>8 DEF MainNext

(* Each agent builds on the default branch or on the branch of a pull      *)
(* request against it, and an issue is closed only for such a pull request,*)
(* merged, with every sub-issue completed, unless a child was taken for the*)
(* main one (_determine_base_ref, _discover_main_pr_for_review,            *)
(* _close_parent_issue_if_main_pr_merged_and_sub_issues_completed).        *)
THEOREM WorkThroughMain == MainSpec => []WorkGoesThroughMain
<1>1. ASSUME MainInv PROVE WorkGoesThroughMain
  <2>1. ChildrenOfTheMain
    BY <1>1, MainNumbers DEF MainInv, MainIsRight, ChildrenOfTheMain, IntoDefault
  <2>2. QED BY <1>1, <2>1 DEF MainInv, WorkGoesThroughMain
<1>2. QED BY MainStart, MainKept, <1>1, PTL DEF MainSpec

---------------------------------------------------------------------------
(* Cleaning up.  Until there is a list, an issue that was on the board when*)
(* the look began is on it and what was linked to one still is, in the     *)
(* repository and in each read that has answered; then the list spares it, *)
(* and requests keep to the list, none of whose names comes back.          *)
SeenRecords == [branches : SUBSET Branch, pulls : SUBSET Branch, refs : [Branch -> SUBSET Issue],
                board : SUBSET Issue, app : SUBSET Issue, closed : SUBSET Issue]
RunRows == [todo : Items, done : Items, fallback : SUBSET Issue,
            audit : {"none", "in_progress", "completed", "completed_with_errors", "stopped"}, asked : Items]
CleanupTypeOK ==
    /\ xIssues \in [Issue -> {"absent", "open", "closed", "deleted"}] /\ xBoard \subseteq Issue
    /\ xBranches \subseteq Branch /\ xPulls \subseteq Branch /\ xRefs \in [Branch -> SUBSET Issue]
    /\ xStep \in {"idle", "reading", "listed"} /\ xGot \subseteq Sources /\ xSeen \in SeenRecords /\ xList \in Items
    /\ xRun \in [Clicks -> RunRows] /\ xRemoved \in Items
    /\ xLinked \subseteq Branch \X Issue /\ xCarded \subseteq Issue
WithinList(items) ==
    items.branches \subseteq xList.branches /\ items.pulls \subseteq xList.pulls /\ items.issues \subseteq xList.issues
RequestKeepsToList(c) ==
    /\ WithinList(xRun[c].todo) /\ WithinList(xRun[c].done) /\ WithinList(xRun[c].asked)
    /\ xRun[c].fallback \subseteq xList.issues
RemovedWasListed ==
    /\ xRemoved.branches \subseteq xList.branches /\ xRemoved.pulls \subseteq xList.branches \cup xList.pulls
    /\ xRemoved.issues \subseteq xList.issues
ListFirst == xStep # "listed" => xRemoved = NoItems /\ \A c \in Clicks : xRun[c] = Unasked
Refers(l, pulls, refs) == l[2] \in Named(l[1]) \/ (l[1] \in pulls /\ l[2] \in refs[l[1]])
LookIsRight ==
    xStep # "listed" =>
        /\ xStep = "idle" => xGot = {}
        /\ xCarded \subseteq xBoard /\ ("board" \in xGot => xCarded \subseteq xSeen.board)
        /\ \A b \in xSeen.pulls : xSeen.refs[b] = xRefs[b]
        /\ \A l \in xLinked :
              /\ l[1] \in xBranches /\ l[2] \in xCarded /\ Refers(l, xPulls, xRefs)
              /\ "branches" \in xGot => l[1] \in xSeen.branches
              /\ "pulls" \in xGot => Refers(l, xSeen.pulls, xSeen.refs)
ListIsRight ==
    xStep = "listed" =>
        /\ xCarded \cap xList.issues = {}
        /\ \A l \in xLinked : l[1] \in xList.branches \cup xList.pulls => xSeen.closed # {} /\ LinkedToSub(l[1])
IssuesWereThere == \A i \in xSeen.app \cup xList.issues : xIssues[i] # "absent"
CleanupInv ==
    /\ CleanupTypeOK /\ (\A c \in Clicks : RequestKeepsToList(c)) /\ RemovedWasListed /\ ListFirst /\ IssuesWereThere
    /\ LookIsRight /\ ListIsRight /\ AuditIsTrue

LEMMA NoItemsAreItems ==
  /\ NoItems \in Items /\ NoItems.branches = {} /\ NoItems.pulls = {} /\ NoItems.issues = {}
  /\ Unasked \in RunRows /\ Unasked.todo = NoItems /\ Unasked.done = NoItems /\ Unasked.fallback = {}
  /\ Unasked.audit = "none" /\ Unasked.asked = NoItems
  /\ NothingSeen \in SeenRecords /\ NothingSeen.pulls = {} /\ NothingSeen.app = {}
<1>1. NoItems \in Items /\ NoItems.branches = {} /\ NoItems.pulls = {} /\ NoItems.issues = {}
  BY DEF NoItems, Items
<1>2. Unasked \in RunRows /\ Unasked.todo = NoItems /\ Unasked.done = NoItems /\ Unasked.fallback = {} /\ Unasked.audit = "none" /\ Unasked.asked = NoItems
  BY <1>1 DEF Unasked, RunRows
<1>3. NothingSeen \in SeenRecords /\ NothingSeen.pulls = {} /\ NothingSeen.app = {}
  <2>1. [b \in Branch |-> {}] \in [Branch -> SUBSET Issue]
    OBVIOUS
  <2>2. QED BY <2>1 DEF NothingSeen, SeenRecords
<1>4. QED BY <1>1, <1>2, <1>3

LEMMA CleanupStart == CleanupInit => CleanupInv
<1> SUFFICES ASSUME CleanupInit PROVE CleanupInv
  OBVIOUS
<1>1. xIssues \in [Issue -> {"absent", "open", "closed", "deleted"}] /\ xBoard \subseteq Issue /\ xBranches \subseteq Branch /\ xPulls \subseteq Branch
  BY DEF CleanupInit
<1>2. xRefs \in [Branch -> SUBSET Issue]
  <2>1. xRefs \in [Branch -> SUBSET xBoard]
    BY DEF CleanupInit
  <2>2. QED BY <1>1, <2>1
<1>3. /\ xStep = "idle" /\ xGot = {} /\ xSeen = NothingSeen /\ xList = NoItems /\ xRemoved = NoItems
      /\ xLinked = {} /\ xCarded = {} /\ xRun = [c \in Clicks |-> Unasked] /\ \A c \in Clicks : xRun[c] = Unasked
  BY DEF CleanupInit
<1>4. CleanupTypeOK
  <2>1. xRun \in [Clicks -> RunRows]
    BY <1>3, NoItemsAreItems
  <2>2. QED BY <1>1, <1>2, <1>3, <2>1, NoItemsAreItems DEF CleanupTypeOK
<1>5. \A c \in Clicks : RequestKeepsToList(c)
  BY <1>3, NoItemsAreItems DEF RequestKeepsToList, WithinList
<1>6. RemovedWasListed /\ ListFirst /\ LookIsRight /\ ListIsRight /\ IssuesWereThere
  BY <1>3, NoItemsAreItems DEF RemovedWasListed, ListFirst, LookIsRight, ListIsRight, IssuesWereThere
<1>7. AuditIsTrue
  <2>1. \A c \in Clicks : xRun[c].audit # "completed" /\ xRun[c].done = NoItems
    BY <1>3, NoItemsAreItems
  <2>2. QED BY <1>3, <2>1, NoItemsAreItems DEF AuditIsTrue
<1>8. QED BY <1>4, <1>5, <1>6, <1>7 DEF CleanupInv

\* what the invariant says of the types
LEMMA CleanupTypes ==
  ASSUME CleanupInv
  PROVE  /\ xIssues \in [Issue -> {"absent", "open", "closed", "deleted"}] /\ xBoard \subseteq Issue
         /\ xBranches \subseteq Branch /\ xPulls \subseteq Branch /\ xRefs \in [Branch -> SUBSET Issue]
         /\ xStep \in {"idle", "reading", "listed"} /\ xGot \subseteq Sources /\ xSeen \in SeenRecords /\ xList \in Items
         /\ xRun \in [Clicks -> RunRows] /\ xRemoved \in Items
         /\ xLinked \subseteq Branch \X Issue /\ xCarded \subseteq Issue
BY DEF CleanupInv, CleanupTypeOK

(* A step of the look: no request has begun and the world stays as it is.  *)
LEMMA LookGoesOn ==
  ASSUME CleanupInv, xStep # "listed", UNCHANGED <<xWorld, xRun, xRemoved>>,
         xStep' \in {"idle", "reading", "listed"}, xGot' \subseteq Sources, xSeen' \in SeenRecords, xList' \in Items,
         xLinked' \subseteq Branch \X Issue, xCarded' \subseteq Issue, LookIsRight', ListIsRight', IssuesWereThere'
  PROVE  CleanupInv'
<1>1. /\ xIssues' = xIssues /\ xBoard' = xBoard /\ xBranches' = xBranches /\ xPulls' = xPulls /\ xRefs' = xRefs
      /\ xRun' = xRun /\ xRemoved' = xRemoved
  BY DEF xWorld
<1>2. CleanupTypeOK'
  BY <1>1, CleanupTypes DEF CleanupTypeOK
<1>3. xRemoved' = NoItems /\ \A c \in Clicks : xRun'[c] = Unasked
  BY <1>1 DEF CleanupInv, ListFirst
<1>4. \A c \in Clicks : RequestKeepsToList(c)'
  BY <1>3, NoItemsAreItems DEF RequestKeepsToList, WithinList
<1>5. RemovedWasListed' /\ ListFirst'
  BY <1>3, NoItemsAreItems DEF RemovedWasListed, ListFirst
<1>6. AuditIsTrue'
  <2>1. \A c \in Clicks : xRun'[c].audit # "completed" /\ xRun'[c].done = NoItems
    BY <1>3, NoItemsAreItems
  <2>2. QED BY <1>3, <2>1, NoItemsAreItems DEF AuditIsTrue
<1>7. QED BY <1>2, <1>4, <1>5, <1>6 DEF CleanupInv

LEMMA LinksHaveTwoEnds ==
  ASSUME CleanupInv, NEW l \in xLinked
  PROVE  l[1] \in Branch /\ l[2] \in Issue
BY CleanupTypes

LEMMA BeginLookKeeps ==
  ASSUME CleanupInv, BeginLook
  PROVE  CleanupInv'
<1>1. /\ xStep = "idle" /\ xStep' = "reading" /\ xCarded' = xBoard
      /\ xLinked' = {l \in xBranches \X xBoard : l[2] \in Named(l[1]) \/ (l[1] \in xPulls /\ l[2] \in xRefs[l[1]])}
      /\ UNCHANGED <<xWorld, xRun, xRemoved>> /\ xBoard' = xBoard /\ xBranches' = xBranches /\ xPulls' = xPulls /\ xRefs' = xRefs
      /\ xGot' = xGot /\ xSeen' = xSeen /\ xList' = xList
  BY DEF BeginLook, xWorld
<1>2. xGot = {} /\ \A b \in xSeen.pulls : xSeen.refs[b] = xRefs[b]
  BY <1>1 DEF CleanupInv, LookIsRight
<1>3. \A l \in xLinked' : l[1] \in xBranches /\ l[2] \in xBoard /\ Refers(l, xPulls, xRefs)
  BY <1>1 DEF Refers
<1>4. LookIsRight' /\ ListIsRight'
  BY <1>1, <1>2, <1>3 DEF LookIsRight, ListIsRight, Refers
<1>5. xLinked' \subseteq Branch \X Issue
  BY <1>1, CleanupTypes
<1>6. IssuesWereThere'
  BY <1>1 DEF CleanupInv, IssuesWereThere, xWorld
<1>7. QED BY <1>1, <1>4, <1>5, <1>6, CleanupTypes, LookGoesOn

LEMMA LookFailsKeeps ==
  ASSUME CleanupInv, LookFails
  PROVE  CleanupInv'
<1>1. /\ xStep = "reading" /\ xStep' = "idle" /\ xCarded' = xCarded /\ xLinked' = xLinked
      /\ UNCHANGED <<xWorld, xRun, xRemoved>> /\ xBoard' = xBoard /\ xBranches' = xBranches /\ xPulls' = xPulls /\ xRefs' = xRefs
      /\ xGot' = {} /\ xSeen' = NothingSeen /\ xList' = xList
  BY DEF LookFails, xWorld, xGhosts
<1>2. /\ xCarded \subseteq xBoard /\ \A l \in xLinked : l[1] \in xBranches /\ l[2] \in xCarded /\ Refers(l, xPulls, xRefs)
  BY <1>1 DEF CleanupInv, LookIsRight
<1>3. LookIsRight' /\ ListIsRight'
  BY <1>1, <1>2, NoItemsAreItems DEF LookIsRight, ListIsRight, Refers
<1>4. IssuesWereThere'
  BY <1>1, NoItemsAreItems DEF CleanupInv, IssuesWereThere, xWorld
<1>5. QED BY <1>1, <1>3, <1>4, CleanupTypes, NoItemsAreItems, LookGoesOn

LEMMA ReadKeeps ==
  ASSUME CleanupInv, NEW source \in Sources, ReadsSource(source)
  PROVE  CleanupInv'
<1>1. /\ xStep = "reading" /\ xStep' = xStep /\ xCarded' = xCarded /\ xLinked' = xLinked /\ source \notin xGot
      /\ UNCHANGED <<xWorld, xRun, xRemoved>> /\ xBoard' = xBoard /\ xBranches' = xBranches /\ xPulls' = xPulls /\ xRefs' = xRefs
      /\ xGot' = xGot \cup {source} /\ xList' = xList
  BY DEF ReadsSource, xWorld, xGhosts
<1>2. /\ xCarded \subseteq xBoard /\ ("board" \in xGot => xCarded \subseteq xSeen.board)
      /\ \A b \in xSeen.pulls : xSeen.refs[b] = xRefs[b]
      /\ \A l \in xLinked :
              /\ l[1] \in xBranches /\ l[2] \in xCarded /\ Refers(l, xPulls, xRefs)
              /\ "branches" \in xGot => l[1] \in xSeen.branches
              /\ "pulls" \in xGot => Refers(l, xSeen.pulls, xSeen.refs)
  BY <1>1 DEF CleanupInv, LookIsRight
<1>3. /\ xSeen' \in SeenRecords /\ xSeen'.closed = xSeen.closed
      /\ IF source = "branches" THEN xSeen'.branches = xBranches ELSE xSeen'.branches = xSeen.branches
      /\ IF source = "pulls" THEN xSeen'.pulls = xPulls /\ xSeen'.refs = xRefs ELSE xSeen'.pulls = xSeen.pulls /\ xSeen'.refs = xSeen.refs
      /\ IF source = "board" THEN xSeen'.board = xBoard ELSE xSeen'.board = xSeen.board
      /\ xSeen'.app \subseteq xSeen.app \cup OpenIssues
  <2>1. xSeen \in SeenRecords /\ xBranches \subseteq Branch /\ xPulls \subseteq Branch /\ xRefs \in [Branch -> SUBSET Issue]
        /\ xBoard \subseteq Issue /\ OpenIssues \subseteq Issue
    BY CleanupTypes DEF OpenIssues
  <2>2. CASE source = "branches"
    <3>1. xSeen' = [xSeen EXCEPT !.branches = xBranches]
      BY <2>2 DEF ReadsSource, fetch_all_branches
    <3>2. QED BY <2>1, <2>2, <3>1 DEF SeenRecords
  <2>3. CASE source = "pulls"
    <3>1. xSeen' = [xSeen EXCEPT !.pulls = xPulls, !.refs = xRefs]
      BY <2>3 DEF ReadsSource, fetch_open_prs
    <3>2. QED BY <2>1, <2>3, <3>1 DEF SeenRecords
  <2>4. CASE source = "board"
    <3>1. xSeen' = [xSeen EXCEPT !.board = xBoard]
      BY <2>4 DEF ReadsSource, fetch_open_issues_on_board
    <3>2. QED BY <2>1, <2>4, <3>1 DEF SeenRecords
  <2>5. CASE source = "app"
    <3>1. xSeen' = [xSeen EXCEPT !.app = OpenIssues]
      BY <2>5 DEF ReadsSource, fetch_app_created_open_issues
    <3>2. QED BY <2>1, <2>5, <3>1 DEF SeenRecords
  <2>6. QED BY <2>2, <2>3, <2>4, <2>5 DEF Sources
<1>4. "board" \in xGot' => xCarded \subseteq xSeen'.board
  BY <1>1, <1>2, <1>3
<1>5. \A b \in xSeen'.pulls : xSeen'.refs[b] = xRefs[b]
  BY <1>2, <1>3
<1>6. ASSUME NEW l \in xLinked
      PROVE  /\ "branches" \in xGot' => l[1] \in xSeen'.branches
             /\ "pulls" \in xGot' => Refers(l, xSeen'.pulls, xSeen'.refs)
  <2>1. "branches" \in xGot' => l[1] \in xSeen'.branches
    BY <1>1, <1>2, <1>3
  <2>2. "pulls" \in xGot' => Refers(l, xSeen'.pulls, xSeen'.refs)
    <3>1. CASE source = "pulls"
      BY <1>2, <1>3, <3>1
    <3>2. CASE source # "pulls"
      BY <1>1, <1>2, <1>3, <3>2
    <3>3. QED BY <3>1, <3>2
  <2>3. QED BY <2>1, <2>2
<1>7. LookIsRight' /\ ListIsRight'
  BY <1>1, <1>2, <1>4, <1>5, <1>6 DEF LookIsRight, ListIsRight, Refers
<1>8. xGot' \subseteq Sources
  BY <1>1, CleanupTypes
<1>9. IssuesWereThere'
  BY <1>1, <1>3 DEF CleanupInv, IssuesWereThere, xWorld, OpenIssues
<1>10. QED BY <1>1, <1>3, <1>7, <1>8, <1>9, CleanupTypes, LookGoesOn

(* What is linked to an issue on the board goes only for the sub-issue.    *)
LEMMA OneOfThem ==
  ASSUME NEW issues, issues # {}, NEW order
  PROVE  First(issues, order) \in issues
BY DEF First

LEMMA ListSpares ==
  ASSUME CleanupInv, xStep = "reading", xGot = Sources, NEW order \in Issue, NEW closed, closed \subseteq {"sub"},
         NEW l \in xLinked, NEW preserved
  PROVE  /\ _categorize_branch(l[1], order, closed) => closed # {} /\ LinkedToSub(l[1])
         /\ l[1] \in xSeen.pulls /\ _categorize_pr(l[1], order, closed, preserved) =>
               (closed # {} /\ LinkedToSub(l[1])) \/ l[1] \notin preserved
<1> DEFINE b == l[1]
<1>1. /\ l[2] \in xSeen.board /\ Refers(l, xSeen.pulls, xSeen.refs) /\ \A p \in xSeen.pulls : xSeen.refs[p] = xRefs[p]
  BY DEF CleanupInv, LookIsRight, Sources
<1>2. NameLinks(b) \subseteq Named(b) /\ BodyLinks(b) \subseteq xRefs[b] /\ (BodyLinks(b) # {} => b \in xSeen.pulls)
  BY <1>1 DEF NameLinks, BodyLinks
<1>3. BranchLinks(b) # {}
  <2>1. CASE l[2] \in Named(b)
    BY <1>1, <2>1 DEF BranchLinks, NameOrBody, NameLinks
  <2>2. CASE b \in xSeen.pulls /\ l[2] \in xSeen.refs[b]
    BY <1>1, <2>2 DEF BranchLinks, NameOrBody, BodyLinks
  <2>3. QED BY <1>1, <2>1, <2>2 DEF Refers
<1>4. BranchLinks(b) \subseteq Named(b) \cup xRefs[b]
  BY <1>2 DEF BranchLinks, NameOrBody
<1>5. _categorize_branch(b, order, closed) => closed # {} /\ LinkedToSub(b)
  BY <1>3, <1>4, OneOfThem DEF _categorize_branch, LinkedToSub
<1>6. _categorize_pr(b, order, closed, preserved) => (closed # {} /\ LinkedToSub(b)) \/ b \notin preserved
  BY <1>2, OneOfThem DEF _categorize_pr, LinkedToSub
<1>7. QED BY <1>5, <1>6

LEMMA PreflightKeeps ==
  ASSUME CleanupInv, NEW order \in Issue, NEW read \in BOOLEAN, preflight(order, read)
  PROVE  CleanupInv'
<1> DEFINE closed == fetch_parent_issue_states(read)
           goes == {b \in xSeen.branches : _categorize_branch(b, order, closed)}
           pulls == {b \in xSeen.pulls : _categorize_pr(b, order, closed, xSeen.branches \ goes)}
<1>1. /\ xStep = "reading" /\ xGot = Sources /\ xStep' = "listed" /\ xGot' = {}
      /\ xSeen' = [NothingSeen EXCEPT !.closed = closed]
      /\ xList' = [branches |-> goes, pulls |-> pulls, issues |-> Orphaned]
      /\ UNCHANGED <<xWorld, xRun, xRemoved>> /\ xRefs' = xRefs /\ xLinked' = xLinked /\ xCarded' = xCarded
  BY DEF preflight, xWorld, xGhosts
<1>2. closed \subseteq {"sub"} /\ closed \subseteq Issue
  BY DEF fetch_parent_issue_states, Issue
<1>3. xSeen \in SeenRecords /\ xSeen.branches \subseteq Branch /\ xSeen.pulls \subseteq Branch /\ xSeen.app \subseteq Issue
  BY CleanupTypes DEF SeenRecords
<1>4. \A l \in xLinked : l[1] \in goes => closed # {} /\ LinkedToSub(l[1])
  BY <1>1, <1>2, ListSpares
<1>5. ASSUME NEW l \in xLinked, l[1] \in pulls PROVE closed # {} /\ LinkedToSub(l[1])
  <2>1. l[1] \in xSeen.pulls /\ _categorize_pr(l[1], order, closed, xSeen.branches \ goes)
    BY <1>5
  <2>2. (closed # {} /\ LinkedToSub(l[1])) \/ l[1] \notin xSeen.branches \ goes
    BY <1>1, <1>2, <2>1, ListSpares
  <2>3. l[1] \in xSeen.branches
    BY <1>1 DEF CleanupInv, LookIsRight, Sources
  <2>4. QED BY <1>4, <2>2, <2>3
<1>6. goes \subseteq Branch /\ pulls \subseteq Branch
  BY <1>3
<1> HIDE DEF closed, goes, pulls
<1>7. xCarded \cap Orphaned = {} /\ Orphaned \subseteq Issue
  BY <1>1, <1>3 DEF CleanupInv, LookIsRight, Orphaned, Sources
<1>8. xList' \in Items /\ xList'.branches = goes /\ xList'.pulls = pulls /\ xList'.issues = Orphaned
  BY <1>1, <1>6, <1>7 DEF Items
<1>9. xSeen' \in SeenRecords /\ xSeen'.closed = closed /\ xSeen'.app = {}
  BY <1>1, <1>2, NoItemsAreItems DEF SeenRecords
<1>10. ListIsRight' /\ LookIsRight'
  BY <1>1, <1>4, <1>5, <1>7, <1>8, <1>9 DEF ListIsRight, LookIsRight, LinkedToSub
<1>11. IssuesWereThere'
  BY <1>1, <1>8, <1>9 DEF CleanupInv, IssuesWereThere, xWorld, Orphaned
<1>12. QED BY <1>1, <1>8, <1>9, <1>10, <1>11, CleanupTypes, LookGoesOn

(* A step of a request on the list.                                        *)
LEMMA RequestGoesOn ==
  ASSUME CleanupInv, xStep = "listed", NEW c \in Clicks, UNCHANGED <<xLook, xGhosts, xRefs>>,
         xIssues' \in [Issue -> {"absent", "open", "closed", "deleted"}], xBoard' \subseteq Issue,
         \A i \in Issue : xIssues'[i] = "absent" => xIssues[i] = "absent",
         xBranches' \subseteq xBranches, xPulls' \subseteq xPulls, OpenIssues' \subseteq OpenIssues,
         xRemoved' \in Items, RemovedWasListed',
         xRun' \in [Clicks -> RunRows], \A d \in Clicks : d # c => xRun'[d] = xRun[d],
         RequestKeepsToList(c)', xRun'[c].audit # "none",
         xRun'[c].done.branches \cap xBranches' = {}, xRun'[c].done.pulls \cap xPulls' = {},
         xRun'[c].done.issues \cap OpenIssues' = {},
         xRun'[c].audit = "completed" => xRun'[c].done = xRun'[c].asked
  PROVE  CleanupInv'
<1>1. /\ xStep' = xStep /\ xGot' = xGot /\ xSeen' = xSeen /\ xList' = xList /\ xLinked' = xLinked /\ xCarded' = xCarded /\ xRefs' = xRefs
  BY DEF xLook, xGhosts
<1>2. CleanupTypeOK'
  BY <1>1, CleanupTypes DEF CleanupTypeOK
<1>3. \A d \in Clicks : RequestKeepsToList(d)'
  <2>1. ASSUME NEW d \in Clicks, d # c PROVE RequestKeepsToList(d)'
    BY <1>1, <2>1 DEF CleanupInv, RequestKeepsToList, WithinList
  <2>2. QED BY <2>1
<1>4. ListFirst' /\ LookIsRight' /\ ListIsRight'
  BY <1>1 DEF CleanupInv, ListFirst, LookIsRight, ListIsRight, LinkedToSub
<1>5. AuditIsTrue'
  <2>1. ASSUME NEW d \in Clicks
        PROVE  /\ xRun'[d].done.branches \cap xBranches' = {}
               /\ xRun'[d].done.pulls \cap xPulls' = {} /\ xRun'[d].done.issues \cap OpenIssues' = {}
               /\ xRun'[d].audit = "completed" => xRun'[d].done = xRun'[d].asked
    <3>1. CASE d = c
      BY <3>1
    <3>2. CASE d # c
      BY <3>2 DEF CleanupInv, AuditIsTrue
    <3>3. QED BY <3>1, <3>2
  <2>2. QED BY <2>1 DEF AuditIsTrue
<1>6. IssuesWereThere'
  <2>1. xSeen.app \subseteq Issue /\ xList.issues \subseteq Issue
    BY CleanupTypes DEF SeenRecords, Items
  <2>2. QED BY <1>1, <2>1 DEF CleanupInv, IssuesWereThere
<1>7. QED BY <1>2, <1>3, <1>4, <1>5, <1>6 DEF CleanupInv

(* What a request's record says after an item, of each kind.               *)
LEMMA ToldOfAnItem ==
  ASSUME CleanupInv, NEW c \in Clicks, NEW kind \in {"branches", "pulls", "issues"}, NEW done \in BOOLEAN,
         NEW item, item \in IF kind = "issues" THEN Issue ELSE Branch, Tells(c, kind, item, done)
  PROVE  /\ xRun' \in [Clicks -> RunRows] /\ \A d \in Clicks : d # c => xRun'[d] = xRun[d]
         /\ xRun'[c].audit = xRun[c].audit /\ xRun'[c].asked = xRun[c].asked /\ xRun'[c].fallback = {}
         /\ xRun'[c].todo.branches \subseteq xRun[c].todo.branches /\ xRun'[c].todo.pulls \subseteq xRun[c].todo.pulls
         /\ xRun'[c].todo.issues \subseteq xRun[c].todo.issues
         /\ xRun'[c].done.branches = IF done /\ kind = "branches" THEN xRun[c].done.branches \cup {item} ELSE xRun[c].done.branches
         /\ xRun'[c].done.pulls = IF done /\ kind = "pulls" THEN xRun[c].done.pulls \cup {item} ELSE xRun[c].done.pulls
         /\ xRun'[c].done.issues = IF done /\ kind = "issues" THEN xRun[c].done.issues \cup {item} ELSE xRun[c].done.issues
<1> DEFINE r == xRun[c]
           todo == [r.todo EXCEPT ![kind] = @ \ {item}]
           did == [r.done EXCEPT ![kind] = IF done THEN @ \cup {item} ELSE @]
           told == [r EXCEPT !.todo = todo, !.fallback = {}, !.done = did]
<1>1. xRun \in [Clicks -> RunRows] /\ r \in RunRows /\ r.todo \in Items /\ r.done \in Items
  BY CleanupTypes DEF RunRows
<1>2. xRun' = [xRun EXCEPT ![c] = told]
  BY <1>1 DEF Tells
<1>3. /\ todo \in Items /\ todo.branches \subseteq r.todo.branches /\ todo.pulls \subseteq r.todo.pulls /\ todo.issues \subseteq r.todo.issues
  <2>1. CASE kind = "branches"
    BY <1>1, <2>1 DEF Items
  <2>2. CASE kind = "pulls"
    BY <1>1, <2>2 DEF Items
  <2>3. CASE kind = "issues"
    BY <1>1, <2>3 DEF Items
  <2>4. QED BY <2>1, <2>2, <2>3
<1>4. /\ did \in Items
      /\ did.branches = IF done /\ kind = "branches" THEN r.done.branches \cup {item} ELSE r.done.branches
      /\ did.pulls = IF done /\ kind = "pulls" THEN r.done.pulls \cup {item} ELSE r.done.pulls
      /\ did.issues = IF done /\ kind = "issues" THEN r.done.issues \cup {item} ELSE r.done.issues
  <2>1. CASE kind = "branches"
    BY <1>1, <2>1 DEF Items
  <2>2. CASE kind = "pulls"
    BY <1>1, <2>2 DEF Items
  <2>3. CASE kind = "issues"
    BY <1>1, <2>3 DEF Items
  <2>4. QED BY <2>1, <2>2, <2>3
<1> HIDE DEF todo, did
<1>5. told \in RunRows /\ told.todo = todo /\ told.done = did /\ told.fallback = {} /\ told.audit = r.audit /\ told.asked = r.asked
  BY <1>1, <1>3, <1>4 DEF RunRows
<1> HIDE DEF told
<1>6. xRun' \in [Clicks -> RunRows] /\ xRun'[c] = told /\ \A d \in Clicks : d # c => xRun'[d] = xRun[d]
  BY <1>1, <1>2, <1>5
<1>7. QED BY <1>3, <1>4, <1>5, <1>6

\* what is so when a request is under way
LEMMA UnderWay ==
  ASSUME CleanupInv, NEW c \in Clicks, xRun[c].audit = "in_progress"
  PROVE  /\ xStep = "listed" /\ RequestKeepsToList(c) /\ RemovedWasListed /\ xRun[c] \in RunRows
         /\ xRun[c].todo \in Items /\ xRun[c].done \in Items /\ xRun[c].fallback \subseteq Issue
         /\ xRemoved \in Items
         /\ xRun[c].done.branches \cap xBranches = {} /\ xRun[c].done.pulls \cap xPulls = {}
         /\ xRun[c].done.issues \cap OpenIssues = {}
<1>1. xStep = "listed"
  BY NoItemsAreItems DEF CleanupInv, ListFirst
<1>2. xRun[c] \in RunRows /\ xRemoved \in Items
  BY CleanupTypes
<1>3. xRun[c].todo \in Items /\ xRun[c].done \in Items /\ xRun[c].fallback \subseteq Issue
  BY <1>2 DEF RunRows
<1>4. QED BY <1>1, <1>2, <1>3 DEF CleanupInv, AuditIsTrue

LEMMA DeleteBranchKeeps ==
  ASSUME CleanupInv, NEW c \in Clicks, NEW b \in Branch, NEW made \in BOOLEAN, NEW answered \in BOOLEAN,
         delete_branch(c, b, made, answered)
  PROVE  CleanupInv'
<1> DEFINE gone == made \/ b \notin xBranches
           real == b \in xBranches /\ made
<1>1. /\ xRun[c].audit = "in_progress" /\ b \in xRun[c].todo.branches
      /\ xBranches' = (IF real THEN xBranches \ {b} ELSE xBranches)
      /\ xPulls' = (IF real THEN xPulls \ {b} ELSE xPulls)
      /\ xRemoved' = (IF real THEN [xRemoved EXCEPT !.branches = @ \cup {b}, !.pulls = @ \cup ({b} \cap xPulls)] ELSE xRemoved)
      /\ Tells(c, "branches", b, gone /\ answered)
      /\ xIssues' = xIssues /\ xBoard' = xBoard /\ UNCHANGED <<xLook, xGhosts, xRefs>> /\ xList' = xList
  BY DEF delete_branch, Left, Working, xLook
<1>2. /\ xStep = "listed" /\ RequestKeepsToList(c) /\ RemovedWasListed /\ xRun[c].todo \in Items /\ xRun[c].done \in Items
      /\ xRun[c].done.branches \cap xBranches = {} /\ xRun[c].done.pulls \cap xPulls = {} /\ xRun[c].done.issues \cap OpenIssues = {}
  BY <1>1, UnderWay
<1>3. gone /\ answered => b \notin xBranches'
  BY <1>1
<1>4. /\ xRun' \in [Clicks -> RunRows] /\ \A d \in Clicks : d # c => xRun'[d] = xRun[d]
      /\ xRun'[c].audit = "in_progress" /\ xRun'[c].asked = xRun[c].asked /\ xRun'[c].fallback = {}
      /\ xRun'[c].todo.branches \subseteq xRun[c].todo.branches /\ xRun'[c].todo.pulls \subseteq xRun[c].todo.pulls
      /\ xRun'[c].todo.issues \subseteq xRun[c].todo.issues
      /\ xRun'[c].done.branches = IF gone /\ answered THEN xRun[c].done.branches \cup {b} ELSE xRun[c].done.branches
      /\ xRun'[c].done.pulls = xRun[c].done.pulls /\ xRun'[c].done.issues = xRun[c].done.issues
  BY <1>1, ToldOfAnItem
<1>5. /\ xRemoved' \in Items /\ xRemoved'.issues = xRemoved.issues
      /\ xRemoved'.branches \subseteq xRemoved.branches \cup {b} /\ xRemoved'.pulls \subseteq xRemoved.pulls \cup {b}
  <2>1. {b} \subseteq Branch /\ {b} \cap xPulls \subseteq Branch /\ {} \subseteq Issue
    OBVIOUS
  <2>2. xRemoved \in Items
    BY CleanupTypes
  <2>3. CASE real
    <3>1. xRemoved' = [xRemoved EXCEPT !.branches = @ \cup {b}, !.pulls = @ \cup ({b} \cap xPulls)]
      BY <1>1, <2>3
    <3>2. QED BY <2>1, <2>2, <3>1 DEF Items
  <2>4. CASE ~real
    BY <1>1, <2>2, <2>4
  <2>5. QED BY <2>3, <2>4
<1> HIDE DEF gone, real
<1>6. /\ xBranches' \subseteq xBranches /\ xPulls' \subseteq xPulls /\ OpenIssues' = OpenIssues
  BY <1>1 DEF OpenIssues
<1>7. b \in xList.branches
  BY <1>1, <1>2 DEF RequestKeepsToList, WithinList
<1>8. RequestKeepsToList(c)'
  BY <1>1, <1>2, <1>4, <1>7 DEF RequestKeepsToList, WithinList
<1>9. RemovedWasListed'
  BY <1>1, <1>2, <1>5, <1>7 DEF RemovedWasListed
<1>10. /\ xRun'[c].done.branches \cap xBranches' = {} /\ xRun'[c].done.pulls \cap xPulls' = {}
       /\ xRun'[c].done.issues \cap OpenIssues' = {}
  BY <1>2, <1>3, <1>4, <1>6
<1>11. QED BY <1>1, <1>2, <1>4, <1>5, <1>6, <1>8, <1>9, <1>10, CleanupTypes, RequestGoesOn

LEMMA ClosePrKeeps ==
  ASSUME CleanupInv, NEW c \in Clicks, NEW b \in Branch, NEW made \in BOOLEAN, NEW answered \in BOOLEAN,
         ClosePr(c, b, made, answered)
  PROVE  CleanupInv'
<1>1. /\ xRun[c].audit = "in_progress" /\ b \in xRun[c].todo.pulls
      /\ xPulls' = (IF made THEN xPulls \ {b} ELSE xPulls) /\ xBranches' = xBranches
      /\ xRemoved' = (IF made THEN [xRemoved EXCEPT !.pulls = @ \cup ({b} \cap xPulls)] ELSE xRemoved)
      /\ Tells(c, "pulls", b, made /\ answered)
      /\ xIssues' = xIssues /\ xBoard' = xBoard /\ UNCHANGED <<xLook, xGhosts, xRefs>> /\ xList' = xList
  BY DEF ClosePr, Left, Working, xLook
<1>2. /\ xStep = "listed" /\ RequestKeepsToList(c) /\ RemovedWasListed /\ xRun[c].todo \in Items /\ xRun[c].done \in Items
      /\ xRun[c].done.branches \cap xBranches = {} /\ xRun[c].done.pulls \cap xPulls = {} /\ xRun[c].done.issues \cap OpenIssues = {}
  BY <1>1, UnderWay
<1>3. /\ xRun' \in [Clicks -> RunRows] /\ \A d \in Clicks : d # c => xRun'[d] = xRun[d]
      /\ xRun'[c].audit = "in_progress" /\ xRun'[c].asked = xRun[c].asked /\ xRun'[c].fallback = {}
      /\ xRun'[c].todo.branches \subseteq xRun[c].todo.branches /\ xRun'[c].todo.pulls \subseteq xRun[c].todo.pulls
      /\ xRun'[c].todo.issues \subseteq xRun[c].todo.issues
      /\ xRun'[c].done.pulls = IF made /\ answered THEN xRun[c].done.pulls \cup {b} ELSE xRun[c].done.pulls
      /\ xRun'[c].done.branches = xRun[c].done.branches /\ xRun'[c].done.issues = xRun[c].done.issues
  BY <1>1, ToldOfAnItem
<1>4. /\ xRemoved' \in Items /\ xRemoved'.issues = xRemoved.issues
      /\ xRemoved'.branches = xRemoved.branches /\ xRemoved'.pulls \subseteq xRemoved.pulls \cup {b}
  <2>1. {b} \cap xPulls \subseteq Branch /\ {} \subseteq Issue /\ {} \subseteq Branch
    OBVIOUS
  <2>2. xRemoved \in Items
    BY CleanupTypes
  <2>3. CASE made
    <3>1. xRemoved' = [xRemoved EXCEPT !.pulls = @ \cup ({b} \cap xPulls)]
      BY <1>1, <2>3
    <3>2. QED BY <2>1, <2>2, <3>1 DEF Items
  <2>4. CASE ~made
    BY <1>1, <2>2, <2>4
  <2>5. QED BY <2>3, <2>4
<1>5. xPulls' \subseteq xPulls /\ OpenIssues' = OpenIssues /\ b \in xList.pulls
  BY <1>1, <1>2 DEF OpenIssues, RequestKeepsToList, WithinList
<1>6. RequestKeepsToList(c)'
  BY <1>1, <1>2, <1>3, <1>5 DEF RequestKeepsToList, WithinList
<1>7. RemovedWasListed'
  BY <1>1, <1>2, <1>4, <1>5 DEF RemovedWasListed
<1>8. /\ xRun'[c].done.branches \cap xBranches' = {} /\ xRun'[c].done.pulls \cap xPulls' = {}
      /\ xRun'[c].done.issues \cap OpenIssues' = {}
  BY <1>1, <1>2, <1>3, <1>5
<1>9. QED BY <1>1, <1>2, <1>3, <1>4, <1>5, <1>6, <1>7, <1>8, CleanupTypes, RequestGoesOn

\* an issue that is deleted or closed is open no longer
LEMMA IssueIsGone ==
  ASSUME CleanupInv, NEW i \in Issue, NEW gone \in BOOLEAN, NEW to \in {"closed", "deleted"}, IssueGoes(i, gone, to)
  PROVE  /\ xIssues' \in [Issue -> {"absent", "open", "closed", "deleted"}] /\ xBoard' \subseteq Issue
         /\ \A k \in Issue : xIssues'[k] = "absent" => xIssues[k] = "absent"
         /\ OpenIssues' \subseteq OpenIssues /\ (gone => i \notin OpenIssues')
         /\ xRemoved' \in Items /\ xRemoved'.issues \subseteq xRemoved.issues \cup {i}
         /\ xRemoved'.branches = xRemoved.branches /\ xRemoved'.pulls = xRemoved.pulls
         /\ xBranches' = xBranches /\ xPulls' = xPulls /\ xRefs' = xRefs
<1>1. xIssues \in [Issue -> {"absent", "open", "closed", "deleted"}] /\ xBoard \subseteq Issue /\ xRemoved \in Items
  BY CleanupTypes
<1>2. xIssues' = (IF gone THEN [xIssues EXCEPT ![i] = to] ELSE xIssues) /\ xBoard' = (IF gone THEN xBoard \ {i} ELSE xBoard)
      /\ xRemoved' = (IF gone THEN [xRemoved EXCEPT !.issues = @ \cup ({i} \cap OpenIssues)] ELSE xRemoved)
      /\ xBranches' = xBranches /\ xPulls' = xPulls /\ xRefs' = xRefs
  BY DEF IssueGoes
<1>3. /\ xIssues' \in [Issue -> {"absent", "open", "closed", "deleted"}] /\ xBoard' \subseteq Issue
      /\ (gone => xIssues'[i] = to) /\ \A k \in Issue : xIssues'[k] = xIssues[k] \/ xIssues'[k] = to
  BY <1>1, <1>2
<1>4. OpenIssues' \subseteq OpenIssues /\ (gone => i \notin OpenIssues')
  BY <1>3 DEF OpenIssues
<1>5. /\ xRemoved' \in Items /\ xRemoved'.issues \subseteq xRemoved.issues \cup {i}
      /\ xRemoved'.branches = xRemoved.branches /\ xRemoved'.pulls = xRemoved.pulls
  <2>1. CASE gone
    BY <1>1, <1>2, <2>1 DEF Items
  <2>2. CASE ~gone
    BY <1>1, <1>2, <2>2
  <2>3. QED BY <2>1, <2>2
<1>6. QED BY <1>2, <1>3, <1>4, <1>5

LEMMA IssueStepKeeps ==
  ASSUME CleanupInv, NEW c \in Clicks, NEW i \in Issue, NEW gone \in BOOLEAN, NEW to \in {"closed", "deleted"}, NEW told \in BOOLEAN,
         xRun[c].audit = "in_progress", i \in xRun[c].todo.issues \cup xRun[c].fallback, IssueGoes(i, gone, to),
         Tells(c, "issues", i, gone /\ told) \/ xRun' = [xRun EXCEPT ![c].fallback = {i}],
         UNCHANGED <<xLook, xGhosts>>
  PROVE  CleanupInv'
<1>1. /\ xStep = "listed" /\ RequestKeepsToList(c) /\ RemovedWasListed /\ xRun[c] \in RunRows /\ xRun[c].todo \in Items /\ xRun[c].done \in Items
      /\ xRun[c].done.branches \cap xBranches = {} /\ xRun[c].done.pulls \cap xPulls = {} /\ xRun[c].done.issues \cap OpenIssues = {}
  BY UnderWay
<1>2. /\ xIssues' \in [Issue -> {"absent", "open", "closed", "deleted"}] /\ xBoard' \subseteq Issue
      /\ \A k \in Issue : xIssues'[k] = "absent" => xIssues[k] = "absent"
      /\ OpenIssues' \subseteq OpenIssues /\ (gone => i \notin OpenIssues')
      /\ xRemoved' \in Items /\ xRemoved'.issues \subseteq xRemoved.issues \cup {i}
      /\ xRemoved'.branches = xRemoved.branches /\ xRemoved'.pulls = xRemoved.pulls
      /\ xBranches' = xBranches /\ xPulls' = xPulls /\ xRefs' = xRefs
  BY IssueIsGone
<1>3. i \in xList.issues /\ xList' = xList
  BY <1>1 DEF RequestKeepsToList, WithinList, xLook
<1>4. /\ xRun' \in [Clicks -> RunRows] /\ \A d \in Clicks : d # c => xRun'[d] = xRun[d]
      /\ xRun'[c].audit = "in_progress" /\ xRun'[c].asked = xRun[c].asked /\ xRun'[c].fallback \subseteq {i}
      /\ xRun'[c].todo.branches \subseteq xRun[c].todo.branches /\ xRun'[c].todo.pulls \subseteq xRun[c].todo.pulls
      /\ xRun'[c].todo.issues \subseteq xRun[c].todo.issues
      /\ xRun'[c].done.branches = xRun[c].done.branches /\ xRun'[c].done.pulls = xRun[c].done.pulls
      /\ xRun'[c].done.issues \subseteq IF gone THEN xRun[c].done.issues \cup {i} ELSE xRun[c].done.issues
  <2>1. CASE Tells(c, "issues", i, gone /\ told)
    BY <2>1, ToldOfAnItem
  <2>2. CASE xRun' = [xRun EXCEPT ![c].fallback = {i}]
    <3> DEFINE r == [xRun[c] EXCEPT !.fallback = {i}]
    <3>1. r \in RunRows /\ r.audit = xRun[c].audit /\ r.asked = xRun[c].asked /\ r.fallback = {i} /\ r.todo = xRun[c].todo /\ r.done = xRun[c].done
      BY <1>1 DEF RunRows
    <3>2. xRun' = [xRun EXCEPT ![c] = r] /\ xRun \in [Clicks -> RunRows]
      BY <2>2, CleanupTypes
    <3> HIDE DEF r
    <3>3. QED BY <3>1, <3>2
  <2>3. QED BY <2>1, <2>2
<1>5. RequestKeepsToList(c)'
  BY <1>1, <1>3, <1>4 DEF RequestKeepsToList, WithinList
<1>6. RemovedWasListed'
  BY <1>1, <1>2, <1>3 DEF RemovedWasListed
<1>7. /\ xRun'[c].done.branches \cap xBranches' = {} /\ xRun'[c].done.pulls \cap xPulls' = {}
      /\ xRun'[c].done.issues \cap OpenIssues' = {}
  BY <1>1, <1>2, <1>4
<1>8. QED BY <1>1, <1>2, <1>4, <1>5, <1>6, <1>7, RequestGoesOn

LEMMA IssueStepsKeep ==
  ASSUME CleanupInv, NEW c \in Clicks, NEW i \in Issue, NEW made \in BOOLEAN, NEW answered \in BOOLEAN,
         DeleteIssue(c, i, made, answered) \/ CloseInstead(c, i, made, answered)
  PROVE  CleanupInv'
<1>1. CASE DeleteIssue(c, i, made, answered)
  <2>1. /\ xRun[c].audit = "in_progress" /\ i \in xRun[c].todo.issues /\ IssueGoes(i, made, "deleted") /\ UNCHANGED <<xLook, xGhosts>>
        /\ IF made /\ answered THEN Tells(c, "issues", i, TRUE) ELSE xRun' = [xRun EXCEPT ![c].fallback = {i}]
    BY <1>1 DEF DeleteIssue, Left, Working
  <2>2. Tells(c, "issues", i, made /\ answered) \/ xRun' = [xRun EXCEPT ![c].fallback = {i}]
    <3>1. CASE made /\ answered
      <4>1. (made /\ answered) = TRUE
        BY <3>1
      <4>2. QED BY <2>1, <3>1, <4>1 DEF Tells
    <3>2. CASE ~(made /\ answered)
      BY <2>1, <3>2
    <3>3. QED BY <3>1, <3>2
  <2>3. QED BY <2>1, <2>2, IssueStepKeeps
<1>2. CASE CloseInstead(c, i, made, answered)
  BY <1>2, IssueStepKeeps DEF CloseInstead
<1>3. QED BY <1>1, <1>2

LEMMA AskingKeeps ==
  ASSUME CleanupInv, NEW c \in Clicks, NEW kinds, execute_cleanup(c, kinds)
  PROVE  CleanupInv'
<1> DEFINE asked == [k \in DOMAIN NoItems |-> IF k \in kinds THEN xList[k] ELSE {}]
           r == [Unasked EXCEPT !.todo = asked, !.asked = asked, !.audit = "in_progress"]
<1>1. /\ xStep = "listed" /\ xRun' = [xRun EXCEPT ![c] = r]
      /\ xIssues' = xIssues /\ xBoard' = xBoard /\ xBranches' = xBranches /\ xPulls' = xPulls /\ xRefs' = xRefs
      /\ UNCHANGED <<xLook, xGhosts>> /\ xList' = xList /\ xRemoved' = xRemoved
  BY DEF execute_cleanup, RowFirst, xWorld, xLook
<1>2. xList \in Items /\ DOMAIN NoItems = {"branches", "pulls", "issues"}
  BY CleanupTypes DEF NoItems
<1>3. /\ asked \in Items /\ asked.branches \subseteq xList.branches /\ asked.pulls \subseteq xList.pulls /\ asked.issues \subseteq xList.issues
  BY <1>2 DEF Items
<1> HIDE DEF asked
<1>4. r \in RunRows /\ r.todo = asked /\ r.asked = asked /\ r.done = NoItems /\ r.fallback = {} /\ r.audit = "in_progress"
  BY <1>3, NoItemsAreItems DEF RunRows
<1> HIDE DEF r
<1>5. xRun' \in [Clicks -> RunRows] /\ xRun'[c] = r /\ \A d \in Clicks : d # c => xRun'[d] = xRun[d]
  BY <1>1, <1>4, CleanupTypes
<1>6. RequestKeepsToList(c)'
  BY <1>1, <1>3, <1>4, <1>5, NoItemsAreItems DEF RequestKeepsToList, WithinList
<1>7. RemovedWasListed' /\ OpenIssues' = OpenIssues
  BY <1>1 DEF CleanupInv, RemovedWasListed, OpenIssues
<1>8. /\ xRun'[c].done.branches \cap xBranches' = {} /\ xRun'[c].done.pulls \cap xPulls' = {}
      /\ xRun'[c].done.issues \cap OpenIssues' = {} /\ xRun'[c].audit = "in_progress"
  BY <1>4, <1>5, NoItemsAreItems
<1>9. QED BY <1>1, <1>5, <1>6, <1>7, <1>8, CleanupTypes, RequestGoesOn

LEMMA CompletingKeeps ==
  ASSUME CleanupInv, NEW c \in Clicks, CompleteAudit(c)
  PROVE  CleanupInv'
<1> DEFINE r == [xRun[c] EXCEPT !.audit = Outcome(c)]
<1>1. /\ xRun[c].audit = "in_progress" /\ xRun' = [xRun EXCEPT ![c] = r]
      /\ xIssues' = xIssues /\ xBoard' = xBoard /\ xBranches' = xBranches /\ xPulls' = xPulls /\ xRefs' = xRefs
      /\ UNCHANGED <<xLook, xGhosts>> /\ xList' = xList /\ xRemoved' = xRemoved
  BY DEF CompleteAudit, Working, xWorld, xLook
<1>2. /\ xStep = "listed" /\ RequestKeepsToList(c) /\ RemovedWasListed /\ xRun[c] \in RunRows
      /\ xRun[c].done.branches \cap xBranches = {} /\ xRun[c].done.pulls \cap xPulls = {} /\ xRun[c].done.issues \cap OpenIssues = {}
  BY <1>1, UnderWay
<1>3. /\ Outcome(c) \in {"completed", "completed_with_errors"}
      /\ Outcome(c) = "completed" => xRun[c].done = xRun[c].asked
  BY DEF Outcome, WithErrors
<1>4. /\ r \in RunRows /\ r.todo = xRun[c].todo /\ r.done = xRun[c].done /\ r.asked = xRun[c].asked
      /\ r.fallback = xRun[c].fallback /\ r.audit = Outcome(c)
  BY <1>2, <1>3 DEF RunRows
<1> HIDE DEF r
<1>5. xRun' \in [Clicks -> RunRows] /\ xRun'[c] = r /\ \A d \in Clicks : d # c => xRun'[d] = xRun[d]
  BY <1>1, <1>4, CleanupTypes
<1>6. RequestKeepsToList(c)'
  BY <1>1, <1>2, <1>4, <1>5 DEF RequestKeepsToList, WithinList
<1>7. RemovedWasListed' /\ OpenIssues' = OpenIssues
  BY <1>1, <1>2 DEF RemovedWasListed, OpenIssues
<1>8. /\ xRun'[c].done.branches \cap xBranches' = {} /\ xRun'[c].done.pulls \cap xPulls' = {}
      /\ xRun'[c].done.issues \cap OpenIssues' = {} /\ xRun'[c].audit # "none"
      /\ xRun'[c].audit = "completed" => xRun'[c].done = xRun'[c].asked
  BY <1>1, <1>2, <1>3, <1>4, <1>5, <1>7
<1>9. QED BY <1>1, <1>2, <1>5, <1>6, <1>7, <1>8, CleanupTypes, RequestGoesOn

LEMMA StoppingKeeps ==
  ASSUME CleanupInv, RestartInCleanup
  PROVE  CleanupInv'
<1>1. /\ xRun' = [c \in Clicks |-> IF xRun[c].audit = "in_progress" THEN [xRun[c] EXCEPT !.audit = Stopped] ELSE xRun[c]]
      /\ xIssues' = xIssues /\ xBoard' = xBoard /\ xBranches' = xBranches /\ xPulls' = xPulls /\ xRefs' = xRefs
      /\ xStep' = xStep /\ xGot' = xGot /\ xSeen' = xSeen /\ xList' = xList
      /\ xLinked' = xLinked /\ xCarded' = xCarded /\ xRemoved' = xRemoved
  BY DEF RestartInCleanup, xWorld, xLook, xGhosts
<1>2. ASSUME NEW c \in Clicks
      PROVE  /\ xRun'[c] \in RunRows /\ (xRun[c] = Unasked => xRun'[c] = Unasked)
             /\ xRun'[c].todo = xRun[c].todo /\ xRun'[c].done = xRun[c].done /\ xRun'[c].asked = xRun[c].asked
             /\ xRun'[c].fallback = xRun[c].fallback /\ (xRun'[c].audit = xRun[c].audit \/ xRun'[c].audit = "stopped")
  <2>1. xRun[c] \in RunRows
    BY CleanupTypes
  <2>2. CASE xRun[c].audit = "in_progress"
    <3>1. xRun'[c] = [xRun[c] EXCEPT !.audit = "stopped"] /\ xRun[c] # Unasked
      BY <1>1, <2>2, NoItemsAreItems DEF Stopped
    <3>2. QED BY <2>1, <3>1 DEF RunRows
  <2>3. CASE xRun[c].audit # "in_progress"
    BY <1>1, <2>1, <2>3
  <2>4. QED BY <2>2, <2>3
<1>3. xRun' \in [Clicks -> RunRows]
  <2>1. xRun' = [c \in Clicks |-> xRun'[c]]
    BY <1>1
  <2>2. QED BY <1>2, <2>1
<1>4. CleanupTypeOK'
  BY <1>1, <1>3, CleanupTypes DEF CleanupTypeOK
<1>5. \A c \in Clicks : RequestKeepsToList(c)'
  BY <1>1, <1>2 DEF CleanupInv, RequestKeepsToList, WithinList
<1>6. RemovedWasListed' /\ LookIsRight' /\ ListIsRight' /\ IssuesWereThere'
  BY <1>1 DEF CleanupInv, RemovedWasListed, LookIsRight, ListIsRight, LinkedToSub, IssuesWereThere
<1>7. ListFirst'
  BY <1>1, <1>2 DEF CleanupInv, ListFirst
<1>8. AuditIsTrue'
  <2>1. OpenIssues' = OpenIssues
    BY <1>1 DEF OpenIssues
  <2>2. xRemoved' # NoItems => \E c \in Clicks : xRun'[c].audit # "none"
    <3>1. SUFFICES ASSUME xRemoved # NoItems PROVE \E c \in Clicks : xRun'[c].audit # "none"
      BY <1>1
    <3>2. PICK c \in Clicks : xRun[c].audit # "none"
      BY <3>1 DEF CleanupInv, AuditIsTrue
    <3>3. QED BY <1>2, <3>2
  <2>3. ASSUME NEW c \in Clicks
        PROVE  /\ xRun'[c].done.branches \cap xBranches' = {}
               /\ xRun'[c].done.pulls \cap xPulls' = {} /\ xRun'[c].done.issues \cap OpenIssues' = {}
               /\ xRun'[c].audit = "completed" => xRun'[c].done = xRun'[c].asked
    BY <1>1, <1>2, <2>1 DEF CleanupInv, AuditIsTrue
  <2>4. QED BY <2>2, <2>3 DEF AuditIsTrue
<1>9. QED BY <1>4, <1>5, <1>6, <1>7, <1>8 DEF CleanupInv

(* What goes on meanwhile.                                                 *)
LEMMA WorldGoesOn ==
  ASSUME CleanupInv, UNCHANGED <<xLook, xRun, xRemoved>>,
         xIssues' \in [Issue -> {"absent", "open", "closed", "deleted"}], xBoard' \subseteq Issue,
         xBranches' \subseteq Branch, xPulls' \subseteq Branch, xRefs' \in [Branch -> SUBSET Issue],
         xLinked' \subseteq xLinked, xCarded' \subseteq xCarded,
         xList.branches \cap xBranches' \subseteq xBranches, xList.pulls \cap xPulls' \subseteq xPulls,
         \A b \in xList.branches \cup xList.pulls : xRefs'[b] = xRefs[b],
         \A i \in Issue : /\ xIssues'[i] = "absent" => xIssues[i] = "absent"
                          /\ xIssues'[i] = "open" => xIssues[i] \in {"open", "absent"},
         LookIsRight'
  PROVE  CleanupInv'
<1>1. /\ xStep' = xStep /\ xGot' = xGot /\ xSeen' = xSeen /\ xList' = xList /\ xRun' = xRun /\ xRemoved' = xRemoved
      /\ xList.issues \subseteq Issue /\ xSeen.app \subseteq Issue
  BY CleanupTypes DEF xLook, SeenRecords, Items
<1>2. CleanupTypeOK'
  BY <1>1, CleanupTypes DEF CleanupTypeOK
<1>3. (\A c \in Clicks : RequestKeepsToList(c)') /\ RemovedWasListed' /\ ListFirst'
  BY <1>1 DEF CleanupInv, RequestKeepsToList, WithinList, RemovedWasListed, ListFirst
<1>4. IssuesWereThere' /\ ListIsRight'
  BY <1>1 DEF CleanupInv, IssuesWereThere, ListIsRight, LinkedToSub
<1>5. AuditIsTrue'
  <2>1. ASSUME NEW c \in Clicks
        PROVE  /\ xRun'[c].done.branches \cap xBranches' = {}
               /\ xRun'[c].done.pulls \cap xPulls' = {} /\ xRun'[c].done.issues \cap OpenIssues' = {}
               /\ xRun'[c].audit = "completed" => xRun'[c].done = xRun'[c].asked
    <3>1. /\ xRun[c].done.branches \cap xBranches = {}
          /\ xRun[c].done.pulls \cap xPulls = {} /\ xRun[c].done.issues \cap OpenIssues = {}
          /\ xRun[c].audit = "completed" => xRun[c].done = xRun[c].asked
      BY DEF CleanupInv, AuditIsTrue
    <3>2. WithinList(xRun[c].done)
      BY DEF CleanupInv, RequestKeepsToList
    <3>3. xRun[c].done.branches \cap xBranches' = {} /\ xRun[c].done.pulls \cap xPulls' = {}
      BY <3>1, <3>2 DEF WithinList
    <3>4. \A i \in xList.issues : i \in OpenIssues' => i \in OpenIssues
      BY <1>1 DEF CleanupInv, IssuesWereThere, OpenIssues
    <3>5. xRun[c].done.issues \cap OpenIssues' = {}
      BY <3>1, <3>2, <3>4 DEF WithinList
    <3>6. QED BY <1>1, <3>1, <3>3, <3>5
  <2>2. xRemoved' # NoItems => \E c \in Clicks : xRun'[c].audit # "none"
    BY <1>1 DEF CleanupInv, AuditIsTrue
  <2>3. QED BY <2>1, <2>2 DEF AuditIsTrue
<1>6. QED BY <1>2, <1>3, <1>4, <1>5 DEF CleanupInv

\* what the look relies on, while there is no list
LEMMA BeforeTheList ==
  ASSUME CleanupInv, xStep # "listed"
  PROVE  /\ xStep = "idle" => xGot = {}
         /\ xCarded \subseteq xBoard /\ ("board" \in xGot => xCarded \subseteq xSeen.board)
         /\ \A b \in xSeen.pulls : xSeen.refs[b] = xRefs[b]
         /\ \A l \in xLinked :
              /\ l[1] \in xBranches /\ l[2] \in xCarded /\ Refers(l, xPulls, xRefs)
              /\ "branches" \in xGot => l[1] \in xSeen.branches
              /\ "pulls" \in xGot => Refers(l, xSeen.pulls, xSeen.refs)
BY DEF CleanupInv, LookIsRight

LEMMA IssueChangesKeep ==
  ASSUME CleanupInv, ParentCloses \/ \E i \in Issue : IssueOpened(i) \/ Carded(i) \/ IssueClosed(i)
  PROVE  CleanupInv'
<1>0. /\ UNCHANGED <<xLook, xRun, xRemoved>> /\ xBranches' = xBranches /\ xPulls' = xPulls /\ xRefs' = xRefs
      /\ xStep' = xStep /\ xGot' = xGot /\ xSeen' = xSeen
  BY DEF ParentCloses, IssueOpened, Carded, IssueClosed, Change, xLook
<1>1. CASE ParentCloses
  <2>1. xIssues' = xIssues /\ xBoard' = xBoard /\ xLinked' = xLinked /\ xCarded' = xCarded
    BY <1>1 DEF ParentCloses, xGhosts
  <2>2. LookIsRight'
    BY <1>0, <2>1 DEF CleanupInv, LookIsRight, Refers
  <2>3. QED BY <1>0, <2>1, <2>2, CleanupTypes, WorldGoesOn
<1>2. CASE \E i \in Issue : IssueOpened(i)
  <2>1. PICK i \in Issue : IssueOpened(i)
    BY <1>2
  <2>2. /\ xIssues[i] = "absent" /\ xIssues' = [xIssues EXCEPT ![i] = "open"]
        /\ xBoard' = xBoard /\ xLinked' = xLinked /\ xCarded' = xCarded
    BY <2>1 DEF IssueOpened, xGhosts
  <2>3. LookIsRight'
    BY <1>0, <2>2 DEF CleanupInv, LookIsRight, Refers
  <2>4. QED BY <1>0, <2>2, <2>3, CleanupTypes, WorldGoesOn
<1>3. CASE \E i \in Issue : Carded(i)
  <2>1. PICK i \in Issue : Carded(i)
    BY <1>3
  <2>2. xBoard' = xBoard \cup {i} /\ xIssues' = xIssues /\ xLinked' = xLinked /\ xCarded' = xCarded
    BY <2>1 DEF Carded, xGhosts
  <2>3. LookIsRight'
    BY <1>0, <2>2, BeforeTheList DEF LookIsRight, Refers
  <2>4. QED BY <1>0, <2>2, <2>3, CleanupTypes, WorldGoesOn
<1>4. CASE \E i \in Issue : IssueClosed(i)
  <2>1. PICK i \in Issue : IssueClosed(i)
    BY <1>4
  <2>2. /\ xIssues[i] = "open" /\ xIssues' = [xIssues EXCEPT ![i] = "closed"] /\ xBoard' = xBoard \ {i}
        /\ xCarded' = xCarded \ {i} /\ xLinked' = {l \in xLinked : l[2] # i}
    BY <2>1 DEF IssueClosed
  <2>3. LookIsRight'
    <3>1. SUFFICES ASSUME xStep # "listed" PROVE LookIsRight'
      BY <1>0 DEF LookIsRight
    <3>2. \A l \in xLinked' : l \in xLinked /\ l[2] \in xCarded'
      BY <2>2, <3>1, BeforeTheList
    <3>3. xCarded' \subseteq xBoard' /\ xCarded' \subseteq xCarded
      BY <2>2, <3>1, BeforeTheList
    <3>4. QED BY <1>0, <3>1, <3>2, <3>3, BeforeTheList DEF LookIsRight, Refers
  <2>4. QED BY <1>0, <2>2, <2>3, CleanupTypes, WorldGoesOn
<1>5. QED BY <1>1, <1>2, <1>3, <1>4

LEMMA BranchChangesKeep ==
  ASSUME CleanupInv, NEW b \in Branch, PullClosed(b) \/ BranchDropped(b) \/ \E refs \in SUBSET Issue : BranchPushed(b, refs)
  PROVE  CleanupInv'
<1>0. /\ UNCHANGED <<xLook, xRun, xRemoved>> /\ xIssues' = xIssues /\ xBoard' = xBoard /\ xCarded' = xCarded
      /\ xStep' = xStep /\ xGot' = xGot /\ xSeen' = xSeen
  BY DEF PullClosed, BranchDropped, BranchPushed, Change, xLook, xGhosts
<1>1. CASE PullClosed(b)
  <2>1. /\ xPulls' = xPulls \ {b} /\ xLinked' = {l \in xLinked : l[1] # b \/ l[2] \in Named(b)}
        /\ xBranches' = xBranches /\ xRefs' = xRefs
    BY <1>1 DEF PullClosed
  <2>2. LookIsRight'
    <3>1. SUFFICES ASSUME xStep # "listed" PROVE LookIsRight'
      BY <1>0 DEF LookIsRight
    <3>2. ASSUME NEW l \in xLinked' PROVE l \in xLinked /\ Refers(l, xPulls', xRefs')
      BY <2>1, <3>1, BeforeTheList DEF Refers
    <3>3. QED BY <1>0, <2>1, <3>1, <3>2, BeforeTheList DEF LookIsRight, Refers
  <2>3. QED BY <1>0, <2>1, <2>2, CleanupTypes, WorldGoesOn
<1>2. CASE BranchDropped(b)
  <2>1. /\ xBranches' = xBranches \ {b} /\ xPulls' = xPulls \ {b} /\ xLinked' = {l \in xLinked : l[1] # b} /\ xRefs' = xRefs
    BY <1>2 DEF BranchDropped
  <2>2. LookIsRight'
    <3>1. SUFFICES ASSUME xStep # "listed" PROVE LookIsRight'
      BY <1>0 DEF LookIsRight
    <3>2. ASSUME NEW l \in xLinked' PROVE l \in xLinked /\ l[1] \in xBranches' /\ Refers(l, xPulls', xRefs')
      BY <2>1, <3>1, BeforeTheList DEF Refers
    <3>3. QED BY <1>0, <2>1, <3>1, <3>2, BeforeTheList DEF LookIsRight, Refers
  <2>3. QED BY <1>0, <2>1, <2>2, CleanupTypes, WorldGoesOn
<1>3. CASE \E refs \in SUBSET Issue : BranchPushed(b, refs)
  <2>1. PICK refs \in SUBSET Issue : BranchPushed(b, refs)
    BY <1>3
  <2>2. /\ b \notin xBranches /\ b \notin xSeen.pulls /\ b \notin xList.branches /\ b \notin xList.pulls
        /\ xBranches' = xBranches \cup {b} /\ xPulls' = xPulls \cup {b} /\ xRefs' = [xRefs EXCEPT ![b] = refs] /\ xLinked' = xLinked
    BY <2>1 DEF BranchPushed, xGhosts
  <2>3. xRefs' \in [Branch -> SUBSET Issue] /\ \A p \in Branch : p # b => xRefs'[p] = xRefs[p]
    BY <2>2, CleanupTypes
  <2>4. xList.branches \subseteq Branch /\ xList.pulls \subseteq Branch /\ xSeen.pulls \subseteq Branch
    BY CleanupTypes DEF Items, SeenRecords
  <2>5. LookIsRight'
    <3>1. SUFFICES ASSUME xStep # "listed" PROVE LookIsRight'
      BY <1>0 DEF LookIsRight
    <3>2. ASSUME NEW l \in xLinked PROVE l[1] \in xBranches' /\ Refers(l, xPulls', xRefs')
      <4>1. l[1] \in Branch /\ l[1] \in xBranches /\ Refers(l, xPulls, xRefs)
        BY <3>1, BeforeTheList, LinksHaveTwoEnds
      <4>2. xRefs'[l[1]] = xRefs[l[1]]
        BY <2>2, <2>3, <4>1
      <4>3. QED BY <2>2, <4>1, <4>2 DEF Refers
    <3>3. \A p \in xSeen.pulls : xSeen.refs[p] = xRefs'[p]
      BY <2>2, <2>3, <2>4, <3>1, BeforeTheList
    <3>4. QED BY <1>0, <2>2, <3>1, <3>2, <3>3, BeforeTheList DEF LookIsRight, Refers
  <2>6. \A p \in xList.branches \cup xList.pulls : xRefs'[p] = xRefs[p]
    BY <2>2, <2>3, <2>4
  <2>7. QED BY <1>0, <2>2, <2>3, <2>5, <2>6, CleanupTypes, WorldGoesOn
<1>4. QED BY <1>1, <1>2, <1>3

LEMMA CleanupKept == CleanupInv /\ [CleanupNext]_xVars => CleanupInv'
<1> SUFFICES ASSUME CleanupInv, [CleanupNext]_xVars PROVE CleanupInv'
  OBVIOUS
<1>1. CASE BeginLook \/ LookFails \/ \E source \in Sources : ReadsSource(source)
  BY <1>1, BeginLookKeeps, LookFailsKeeps, ReadKeeps
<1>2. CASE \E order \in Issue, read \in BOOLEAN : preflight(order, read)
  BY <1>2, PreflightKeeps
<1>3. ASSUME NEW c \in Clicks,
             \/ \E kinds \in {DOMAIN NoItems, {"branches", "issues"}, {"pulls"}} : execute_cleanup(c, kinds)
             \/ \E made, answered \in BOOLEAN :
                   \/ \E b \in Branch : delete_branch(c, b, made, answered) \/ ClosePr(c, b, made, answered)
                   \/ \E i \in Issue : DeleteIssue(c, i, made, answered) \/ CloseInstead(c, i, made, answered)
             \/ CompleteAudit(c)
      PROVE  CleanupInv'
  BY <1>3, AskingKeeps, DeleteBranchKeeps, ClosePrKeeps, IssueStepsKeep, CompletingKeeps
<1>4. CASE RestartInCleanup
  BY <1>4, StoppingKeeps
<1>5. CASE ParentCloses \/ \E i \in Issue : IssueOpened(i) \/ Carded(i) \/ IssueClosed(i)
  BY <1>5, IssueChangesKeep
<1>6. CASE \E b \in Branch : PullClosed(b) \/ BranchDropped(b) \/ \E refs \in SUBSET Issue : BranchPushed(b, refs)
  BY <1>6, BranchChangesKeep
<1>7. CASE UNCHANGED xVars
  <2>1. UNCHANGED <<xLook, xRun, xRemoved>> /\ UNCHANGED <<xStep, xGot, xSeen, xIssues, xBoard, xBranches, xPulls, xRefs, xLinked, xCarded>>
    BY <1>7 DEF xVars, xLook
  <2>2. LookIsRight'
    BY <2>1 DEF CleanupInv, LookIsRight, Refers
  <2>3. QED BY <2>1, <2>2, CleanupTypes, WorldGoesOn
<1>8. QED BY <1>1, <1>2, <1>3, <1>4, <1>5, <1>6, <1>7 DEF CleanupNext

(* A cleanup takes no issue that was on the board since the look began, and*)
(* no branch or pull request linked to one, but the sub-issue's under a    *)
(* closed parent; and its audit row tells what is gone (preflight,         *)
(* execute_cleanup, the audit row it writes).                              *)
THEOREM CleanupSafe == CleanupSpec => []CleanupIsSafe
<1>1. ASSUME CleanupInv PROVE CleanupIsSafe
  <2>1. CASE xStep = "listed"
    BY <1>1, <2>1 DEF CleanupInv, RemovedWasListed, ListIsRight, CleanupIsSafe, BoardKeepsItsWork
  <2>2. CASE xStep # "listed"
    <3>1. xRemoved = NoItems
      BY <1>1, <2>2 DEF CleanupInv, ListFirst
    <3>2. QED BY <1>1, <3>1, NoItemsAreItems DEF CleanupInv, CleanupIsSafe, BoardKeepsItsWork
  <2>3. QED BY <2>1, <2>2
<1>2. QED BY CleanupStart, CleanupKept, <1>1, PTL DEF CleanupSpec

---------------------------------------------------------------------------
(* The composition.  Each step of the whole is a step of one component and *)
(* leaves the others alone, so that what holds of a component by itself    *)
(* holds of it there.                                                      *)
LEMMA EachStartsByItself ==
  ASSUME Init
  PROVE  /\ ChoreInit /\ AppsInit /\ AgentRowsInit /\ AgentCommandInit /\ ConfigsInit /\ RecordsInit /\ ConnectionInit
         /\ AssignInit /\ MainInit /\ CleanupInit
         /\ ProposalInit /\ PlanStepsInit /\ ChatPlansInit /\ ChatSessionsInit /\ ChatMessagesInit /\ SignalInit /\ LinkInit
BY DEF Init

LEMMA EachStepsByItself ==
  ASSUME [Next]_vars
  PROVE  /\ [ChoreNext]_kVars /\ [AppsNext]_yVars /\ [AgentRowsNext]_wVars /\ [AgentCommandNext]_vVars
         /\ [ConfigsNext]_eVars /\ [RecordsNext]_iVars /\ [ConnectionNext]_cVars
         /\ [AssignNext]_sVars /\ [MainNext]_jVars /\ [CleanupNext]_xVars
         /\ [ProposalNext]_rVars /\ [PlanStepsNext]_dVars /\ [ChatPlansNext]_zVars /\ [ChatSessionsNext]_nVars
         /\ [ChatMessagesNext]_mVars /\ [SignalNext]_hVars /\ [LinkNext]_gVars
BY DEF Next, vars

(* What a request reports is in the rows, a user's preset exists once and  *)
(* only assignments that the launch had not seen are cleared, and the      *)
(* records of a run are whole unless a rollback or commit of another       *)
(* coroutine on the shared connection met them (chat_store.py,             *)
(* pipelines/service.py, pipeline_state_service.py).                       *)
THEOREM RowsAreKept == Spec => []RowsHold
<1>1. Init => ConnectionInit /\ ConfigsInit /\ RecordsInit
  BY EachStartsByItself
<1>2. [Next]_vars => [ConnectionNext]_cVars /\ [ConfigsNext]_eVars /\ [RecordsNext]_iVars
  BY EachStepsByItself
<1>3. ReportsAreTrue /\ ConfigsConsistent /\ RecordsAreWhole => RowsHold
  BY DEF RowsHold
<1>4. QED
  BY <1>1, <1>2, <1>3, ReportsTrue, ConfigurationsConsistent, RunRecordsWhole, PTL
     DEF Spec, ConnectionSpec, ConfigsSpec, RecordsSpec

(* A proposal yields one issue, the steps of a plan can be laid out, and a *)
(* plan is launched once with a history that misses nothing (chat.py,      *)
(* chat_store.py, approve_plan_endpoint).                                  *)
THEOREM ProposalsAreKept == Spec => []ProposalsHold
<1>1. Init => ProposalInit /\ PlanStepsInit /\ ChatPlansInit
  BY EachStartsByItself
<1>2. [Next]_vars => [ProposalNext]_rVars /\ [PlanStepsNext]_dVars /\ [ChatPlansNext]_zVars
  BY EachStepsByItself
<1>3. OneIssuePerItem /\ StepsAreOrdered /\ PlanIsAccounted => ProposalsHold
  BY DEF ProposalsHold
<1>4. QED
  BY <1>1, <1>2, <1>3, OneIssueEach, StepsOrdered, PlanAccounted, PTL
     DEF Spec, ProposalSpec, PlanStepsSpec, ChatPlansSpec

(* An answer of the chat stands where its question does, with the action of*)
(* its own run (chat.py, chat_agent.py).                                   *)
THEOREM ChatIsKept == Spec => []ChatHolds
<1>1. Init => ChatSessionsInit /\ ChatMessagesInit
  BY EachStartsByItself
<1>2. [Next]_vars => [ChatSessionsNext]_nVars /\ [ChatMessagesNext]_mVars
  BY EachStepsByItself
<1>3. SessionsKeptApart /\ AnswersHold => ChatHolds
  BY DEF ChatHolds
<1>4. QED BY <1>1, <1>2, <1>3, SessionsApart, AnswersHoldAlways, PTL DEF Spec, ChatSessionsSpec, ChatMessagesSpec

(* What Signal's users proposed is carried out once at most, and reported  *)
(* as done only if it was, but for silent failures of GitHub's board; and  *)
(* each link has one holder, who is listened to (signal_chat.py,           *)
(* signal_bridge.py).                                                      *)
THEOREM SignalIsKept == Spec => []SignalHolds
<1>1. Init => SignalInit /\ LinkInit
  BY EachStartsByItself
<1>2. [Next]_vars => [SignalNext]_hVars /\ [LinkNext]_gVars
  BY EachStepsByItself
<1>3. ConversationHolds /\ LinkHolds => SignalHolds
  BY DEF SignalHolds
<1>4. QED BY <1>1, <1>2, <1>3, ConversationKept, LinkIsHeld, PTL DEF Spec, SignalSpec, LinkSpec

(* What is made on GitHub for an app or an agent is on record, or counted  *)
(* among what was given up (app_service.py, agent_creator.py).             *)
THEOREM CreationsAreKept == Spec => []CreationsHold
<1>1. Init => AppsInit /\ AgentCommandInit
  BY EachStartsByItself
<1>2. [Next]_vars => [AppsNext]_yVars /\ [AgentCommandNext]_vVars
  BY EachStepsByItself
<1>3. AssetsAccounted /\ CreationIsWhole => CreationsHold
  BY DEF CreationsHold
<1>4. QED BY <1>1, <1>2, <1>3, AppAssetsAccounted, AgentCreationWhole, PTL DEF Spec, AppsSpec, AgentCommandSpec

(* An assignment of Copilot is one session and its work goes through the   *)
(* main pull request (copilot.py, copilot_polling/helpers.py).             *)
THEOREM CopilotIsKept == Spec => []CopilotHolds
<1>1. Init => AssignInit /\ MainInit
  BY EachStartsByItself
<1>2. [Next]_vars => [AssignNext]_sVars /\ [MainNext]_jVars
  BY EachStepsByItself
<1>3. AssignmentIsReal /\ WorkGoesThroughMain => CopilotHolds
  BY DEF CopilotHolds
<1>4. QED BY <1>1, <1>2, <1>3, AssignmentReal, WorkThroughMain, PTL DEF Spec, AssignSpec, MainSpec

(* A chore has one open issue and a cleanup takes nothing that is at work, *)
(* where they run beside the rest (chores/service.py, cleanup_service.py). *)
THEOREM ChoresAndCleanupKept == Spec => [](OneInstance /\ CleanupIsSafe)
<1>1. Init => ChoreInit /\ CleanupInit
  BY EachStartsByItself
<1>2. [Next]_vars => [ChoreNext]_kVars /\ [CleanupNext]_xVars
  BY EachStepsByItself
<1>3. QED BY <1>1, <1>2, ChoreOneInstance, CleanupSafe, PTL DEF Spec, ChoreSpec, CleanupSpec

(* Beside everything else too, a pending deletion of an agent ends with its*)
(* file's and by nothing else (agents/service.py).                         *)
THEOREM DeletionsKeptBeside == Spec => DeletionsHold
<1>1. Init => AgentRowsInit
  BY EachStartsByItself
<1>2. [Next]_vars => [AgentRowsNext]_wVars
  BY EachStepsByItself
<1>3. QED BY <1>1, <1>2, DeletionsAreKept, PTL DEF Spec, AgentRowsSpec
=============================================================================
