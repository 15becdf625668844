----------------------------- MODULE Chat_proofs -----------------------------
(***************************************************************************)
(* Proofs about the chat: its messages, its proposals, the plans of its    *)
(* plan mode, the sessions of its agent, and the conversation over Signal. *)
(***************************************************************************)
EXTENDS ChatMessages, ChatProposals, ChatPlans, PlanSteps, ChatSessions, SignalChat, SignalLink, FiniteSetTheorems, WellFoundedInduction, TLAPS

---------------------------------------------------------------------------
(* Messages.  A row stands where its message was sent until the            *)
(* conversation is deleted, which moves it to the global history, or the   *)
(* history is cleared; and each stage of a message fixes which rows and    *)
(* which handler it has.                                                   *)
MessagePlaces == {"global", "conversation"}
MessageStages == {"idle", "valid", "asked", "path", "item", "answer", "done"}
MessagesTypeOK ==
    /\ mProvider \in BOOLEAN /\ mAgent \in BOOLEAN /\ mOpen \in BOOLEAN
    /\ mAt \in [ChatSent -> MessageStages]
    /\ mPath \in [ChatSent -> Offering \cup {"command", "none"}]
    /\ mTo \in [ChatSent -> MessagePlaces]
    /\ mQuestion \in [ChatSent -> MessagePlaces \cup {"none", "cleared"}]
    /\ mAnswer \in [ChatSent -> MessagePlaces \cup {"none", "cleared"}]
    /\ mItem \in [ChatSent -> {"none", "stored"}]
    /\ mOffers \in [ChatSent -> BOOLEAN]
SentPlace(x) == IF mTo[x] = "conversation" /\ mOpen THEN "conversation" ELSE "global"
MessageIsStaged(x) ==
    /\ mAt[x] \in {"idle", "valid", "asked"} => mPath[x] = "none"
    /\ mAt[x] \in {"path", "item", "answer"} => mPath[x] # "none"
    /\ mAt[x] \in {"idle", "valid"} => mQuestion[x] = "none"
    /\ mAt[x] # "done" => mAnswer[x] = "none"
    /\ mAt[x] = "asked" \/ mPath[x] # "none" => mQuestion[x] # "none"
    /\ mAt[x] = "item" \/ mOffers[x] => mItem[x] = "stored"
    /\ mQuestion[x] \in {"none", "cleared", SentPlace(x)}
    /\ mPath[x] \notin Handlers => mAnswer[x] \in {"none", "cleared", SentPlace(x)}
    /\ mPath[x] \in Handlers => mOpen \/ mAnswer[x] # "conversation"
MessagesInv == MessagesTypeOK /\ \A x \in ChatSent : MessageIsStaged(x)

LEMMA MessagesStart == ChatMessagesInit => MessagesInv
  BY DEF ChatMessagesInit, MessagesInv, MessagesTypeOK, MessageStages, MessagePlaces, Offering, Handlers,
         MessageIsStaged, SentPlace

LEMMA MessagesKept == MessagesInv /\ [ChatMessagesNext]_mVars => MessagesInv'
<1> SUFFICES ASSUME MessagesInv, [ChatMessagesNext]_mVars PROVE MessagesInv'
  OBVIOUS
<1> USE DEF MessagesInv, MessageStages, MessagePlaces, Offering, Handlers
<1>1. ASSUME NEW x \in ChatSent, NEW to \in {"global", "conversation"}, _validate_chat_request_context(x, to)
      PROVE  MessagesInv'
  <2>1. MessagesTypeOK'
    BY <1>1 DEF MessagesTypeOK, _validate_chat_request_context, Reaches, Insertable, mRows
  <2>2. ASSUME NEW y \in ChatSent PROVE MessageIsStaged(y)'
    BY <1>1, <2>2 DEF MessagesTypeOK, MessageIsStaged, SentPlace, _validate_chat_request_context, Reaches, mRows
  <2>3. QED BY <2>1, <2>2
<1>2. ASSUME NEW x \in ChatSent, NEW path \in Offering \cup {"command"}, send_message(x, path) PROVE MessagesInv'
  <2>1. MessagesTypeOK'
    BY <1>2 DEF MessagesTypeOK, send_message, Reaches, mRows
  <2>2. ASSUME NEW y \in ChatSent PROVE MessageIsStaged(y)'
    BY <1>2, <2>2 DEF MessagesTypeOK, MessageIsStaged, SentPlace, send_message, Reaches, mRows
  <2>3. QED BY <2>1, <2>2
<1>3. ASSUME NEW x \in ChatSent, NothingConfigured(x) PROVE MessagesInv'
  <2>1. MessagesTypeOK'
    BY <1>3 DEF MessagesTypeOK, NothingConfigured, Reaches, Insertable
  <2>2. ASSUME NEW y \in ChatSent PROVE MessageIsStaged(y)'
    BY <1>3, <2>2 DEF MessagesTypeOK, MessageIsStaged, SentPlace, NothingConfigured, Reaches, Insertable
  <2>3. QED BY <2>1, <2>2
<1>4. ASSUME NEW x \in ChatSent, PersistQuestion(x) PROVE MessagesInv'
  <2>1. MessagesTypeOK'
    BY <1>4 DEF MessagesTypeOK, PersistQuestion, Reaches, Insertable
  <2>2. ASSUME NEW y \in ChatSent PROVE MessageIsStaged(y)'
    BY <1>4, <2>2 DEF MessagesTypeOK, MessageIsStaged, SentPlace, PersistQuestion, Reaches, Insertable
  <2>3. QED BY <2>1, <2>2
<1>5. ASSUME NEW x \in ChatSent, StoreItem(x) \/ AnswerPlainly(x) \/ HandlerFails(x) PROVE MessagesInv'
  <2>1. MessagesTypeOK'
    BY <1>5 DEF MessagesTypeOK, StoreItem, AnswerPlainly, HandlerFails, Reaches, mRows
  <2>2. ASSUME NEW y \in ChatSent PROVE MessageIsStaged(y)'
    BY <1>5, <2>2 DEF MessagesTypeOK, MessageIsStaged, SentPlace, StoreItem, AnswerPlainly, HandlerFails, Reaches, mRows
  <2>3. QED BY <2>1, <2>2
<1>6. ASSUME NEW x \in ChatSent, add_message(x) PROVE MessagesInv'
  <2>1. MessagesTypeOK'
    BY <1>6 DEF MessagesTypeOK, add_message, Reaches, Insertable, AnswerPlace, Offered
  <2>2. ASSUME NEW y \in ChatSent PROVE MessageIsStaged(y)'
    BY <1>6, <2>2 DEF MessagesTypeOK, MessageIsStaged, SentPlace, add_message, Reaches, Insertable, AnswerPlace, Offered
  <2>3. QED BY <2>1, <2>2
<1>7. ASSUME delete_conversation PROVE MessagesInv'
  <2>1. MessagesTypeOK'
    BY <1>7 DEF MessagesTypeOK, delete_conversation
  <2>2. ASSUME NEW y \in ChatSent PROVE MessageIsStaged(y)'
    BY <1>7, <2>2 DEF MessagesTypeOK, MessageIsStaged, SentPlace, delete_conversation
  <2>3. QED BY <2>1, <2>2
<1>8. ASSUME NEW place \in {"global", "conversation"}, clear_messages(place) PROVE MessagesInv'
  <2>1. MessagesTypeOK'
    BY <1>8 DEF MessagesTypeOK, clear_messages
  <2>2. ASSUME NEW y \in ChatSent PROVE MessageIsStaged(y)'
    BY <1>8, <2>2 DEF MessagesTypeOK, MessageIsStaged, SentPlace, clear_messages
  <2>3. QED BY <2>1, <2>2
<1>9. CASE UNCHANGED mVars
  BY <1>9 DEF mVars, MessagesTypeOK, MessageIsStaged, SentPlace
<1>10. QED
  BY <1>1, <1>2, <1>3, <1>4, <1>5, <1>6, <1>7, <1>8, <1>9 DEF ChatMessagesNext

(* Whatever fails and whatever is deleted or cleared in between, what an   *)
(* answer of the chat offers is stored, and the answer stands where its    *)
(* question does (send_message, add_message, delete_conversation).         *)
THEOREM AnswersHoldAlways == ChatMessagesSpec => []AnswersHold
<1>1. MessagesInv => AnswersHold
  BY DEF MessagesInv, MessagesTypeOK, MessageIsStaged, AnswersHold, OfferedIsStored, AnswersStayTogether, Offering, Handlers
<1>2. QED BY MessagesStart, MessagesKept, <1>1, PTL DEF ChatMessagesSpec

---------------------------------------------------------------------------
(* Plans.  Until approvals overlap or a save undoes one, the stages of the *)
(* approval go with the plan's status: one request at most has read the    *)
(* draft, none launches while it is a draft, and once it is not, one       *)
(* request at most is about to launch and only before anything was.  A     *)
(* hook that has read the plan's version read one that the plan has had.   *)
PlanStages == {"idle", "save", "hook", "snapshot", "update", "approve", "launch", "record", "complete"}
PlanStatuses == {"none", "draft", "approved", "completed", "failed"}
PlanTypeOK ==
    /\ zStatus \in PlanStatuses /\ zContent \in Nat /\ zVersion \in Nat \ {0} /\ zLaunches \in Nat
    /\ zAgain \in BOOLEAN /\ zHistory \subseteq [version : Nat, content : Nat] /\ IsFiniteSet(zHistory)
    /\ zWork \in [PlanRequests -> [at : PlanStages, content : Nat, version : Nat]]
ApprovedOnce ==
    \/ zAgain
    \/ /\ \A x, y \in PlanRequests : Doing(x, "approve") /\ Doing(y, "approve") => x = y
       /\ zStatus \in {"none", "draft"} =>
             zLaunches = 0 /\ \A x \in PlanRequests : zWork[x].at \notin {"launch", "record", "complete"}
       /\ zStatus \notin {"none", "draft"} =>
             /\ zLaunches <= 1
             /\ \A x \in PlanRequests : ~Doing(x, "approve") /\ (Doing(x, "launch") => zLaunches = 0)
             /\ \A x, y \in PlanRequests : Doing(x, "launch") /\ Doing(y, "launch") => x = y
VersionWasRead == \A x \in PlanRequests : Doing(x, "snapshot") => zWork[x].version \in 1..zVersion
PlanInv == PlanTypeOK /\ ApprovedOnce /\ VersionWasRead /\ VersionsWithoutGap

LEMMA PlanStart == ChatPlansInit => PlanInv
<1> SUFFICES ASSUME ChatPlansInit PROVE PlanInv
  OBVIOUS
<1>1. IsFiniteSet({}) /\ Cardinality({}) = 0
  BY FS_EmptySet
<1>2. PlanTypeOK
  <2>1. zWork \in [PlanRequests -> [at : PlanStages, content : Nat, version : Nat]]
    BY DEF ChatPlansInit, PlanStages, NoTask
  <2>2. IsFiniteSet(zHistory) /\ zHistory \subseteq [version : Nat, content : Nat]
    BY <1>1 DEF ChatPlansInit
  <2>3. zStatus \in PlanStatuses /\ zContent \in Nat /\ zVersion \in Nat \ {0} /\ zLaunches \in Nat
    BY DEF ChatPlansInit, PlanStatuses
  <2>4. zAgain \in BOOLEAN
    BY DEF ChatPlansInit
  <2>5. QED BY <2>1, <2>2, <2>3, <2>4 DEF PlanTypeOK
<1>5. \A x \in PlanRequests : zWork[x].at = "idle"
  BY DEF ChatPlansInit, NoTask
<1>6. ApprovedOnce /\ VersionWasRead
  BY <1>5 DEF ChatPlansInit, ApprovedOnce, VersionWasRead, Doing
<1>3. {h.version : h \in zHistory} = 1..(zVersion - 1)
  BY DEF ChatPlansInit
<1>4. QED BY <1>1, <1>2, <1>3, <1>6 DEF PlanInv, VersionsWithoutGap, ChatPlansInit

(* A request's stage moves with what it reads of the plan, or without.     *)
LEMMA PlanMoves ==
  ASSUME PlanTypeOK, NEW x \in PlanRequests, NEW at \in PlanStages
  PROVE  /\ Turns(x, at) =>
              /\ zWork' \in [PlanRequests -> [at : PlanStages, content : Nat, version : Nat]]
              /\ \A y \in PlanRequests : zWork'[y].at = (IF y = x THEN at ELSE zWork[y].at)
              /\ \A y \in PlanRequests : zWork'[y].version = (IF y = x THEN zVersion ELSE zWork[y].version)
         /\ GoesOn(x, at) =>
              /\ zWork' \in [PlanRequests -> [at : PlanStages, content : Nat, version : Nat]]
              /\ \A y \in PlanRequests : zWork'[y].at = (IF y = x THEN at ELSE zWork[y].at)
              /\ \A y \in PlanRequests : zWork'[y].version = zWork[y].version
         /\ Finishes(x) =>
              /\ zWork' \in [PlanRequests -> [at : PlanStages, content : Nat, version : Nat]]
              /\ \A y \in PlanRequests : zWork'[y].at = (IF y = x THEN "idle" ELSE zWork[y].at)
              /\ \A y \in PlanRequests : y # x => zWork'[y].version = zWork[y].version
  BY DEF PlanTypeOK, Turns, GoesOn, Finishes, NoTask, PlanStages

LEMMA PlanKept == PlanInv /\ [ChatPlansNext]_zVars => PlanInv'
<1> SUFFICES ASSUME PlanInv, [ChatPlansNext]_zVars PROVE PlanInv'
  OBVIOUS
<1>0. PlanTypeOK /\ ApprovedOnce /\ VersionWasRead /\ VersionsWithoutGap
  BY DEF PlanInv
<1>a. ASSUME UNCHANGED <<zVersion, zHistory>> PROVE VersionsWithoutGap'
  BY <1>0, <1>a DEF VersionsWithoutGap
<1> USE DEF PlanStages, PlanStatuses
<1>1. ASSUME NEW x \in PlanRequests, save_plan(x) \/ UpdateReads(x) \/ on_pre_tool_use_hook(x) PROVE PlanInv'
  <2>1. \E at \in {"save", "update", "snapshot"} : Turns(x, at)
    BY <1>1 DEF save_plan, UpdateReads, on_pre_tool_use_hook
  <2>2. PICK at \in {"save", "update", "snapshot"} : Turns(x, at)
    BY <2>1
  <2>3. UNCHANGED <<zStatus, Fields, zLaunches, zAgain>>
    BY <1>1 DEF save_plan, UpdateReads, on_pre_tool_use_hook
  <2>4. QED BY <1>0, <1>a, <2>2, <2>3, PlanMoves DEF PlanInv, PlanTypeOK, ApprovedOnce, VersionWasRead, Doing, Fields
<1>2. ASSUME NEW x \in PlanRequests, NEW streaming \in BOOLEAN, StorePlan(x, streaming) PROVE PlanInv'
  <2>1. (IF streaming THEN GoesOn(x, "hook") ELSE Finishes(x)) /\ zStatus' = "draft" /\ UNCHANGED <<zVersion, zHistory, zLaunches>>
        /\ zAgain' = (zAgain \/ zStatus \notin {"none", "draft"}) /\ zContent' = zContent + 1
    BY <1>2 DEF StorePlan, NewContent
  <2>2. /\ zWork' \in [PlanRequests -> [at : PlanStages, content : Nat, version : Nat]]
        /\ \A y \in PlanRequests : zWork'[y].at \in {zWork[y].at, "hook", "idle"}
        /\ \A y \in PlanRequests : zWork'[y].at = "snapshot" => zWork'[y] = zWork[y]
    <3>1. CASE streaming
      BY <1>0, <2>1, <3>1 DEF PlanTypeOK, GoesOn
    <3>2. CASE ~streaming
      BY <1>0, <2>1, <3>2 DEF PlanTypeOK, Finishes, NoTask
    <3>3. QED BY <3>1, <3>2
  <2>3. PlanTypeOK' /\ VersionWasRead'
    BY <1>0, <2>1, <2>2 DEF PlanTypeOK, VersionWasRead, Doing
  <2>4. ApprovedOnce'
    BY <1>0, <2>1, <2>2 DEF PlanTypeOK, ApprovedOnce, Doing
  <2>5. QED BY <1>a, <2>1, <2>3, <2>4 DEF PlanInv
<1>3. ASSUME NEW x \in PlanRequests, update_plan(x) PROVE PlanInv'
  <2>1. Finishes(x) /\ zContent' = zContent + 1 /\ UNCHANGED <<zStatus, zVersion, zHistory, zLaunches, zAgain>>
    BY <1>3 DEF update_plan, NewContent
  <2>2. QED BY <1>0, <1>a, <2>1, PlanMoves DEF PlanInv, PlanTypeOK, ApprovedOnce, VersionWasRead, Doing
<1>4. ASSUME NEW x \in PlanRequests, approve_plan(x) PROVE PlanInv'
  <2>1. Turns(x, "approve") /\ zStatus = "draft" /\ UNCHANGED <<zStatus, Fields, zLaunches>>
        /\ zAgain' = (zAgain \/ \E z \in PlanRequests : Doing(z, "approve"))
    BY <1>4 DEF approve_plan, IsDraft
  <2>2. QED BY <1>0, <1>a, <2>1, PlanMoves DEF PlanInv, PlanTypeOK, ApprovedOnce, VersionWasRead, Doing, Fields
<1>5. ASSUME NEW x \in PlanRequests, MarkApproved(x) PROVE PlanInv'
  <2>1. Doing(x, "approve") /\ GoesOn(x, "launch") /\ zStatus' = "approved" /\ UNCHANGED <<Fields, zLaunches, zAgain>>
    BY <1>5 DEF MarkApproved
  <2>2. QED BY <1>0, <1>a, <2>1, PlanMoves DEF PlanInv, PlanTypeOK, ApprovedOnce, VersionWasRead, Doing, Fields
<1>6. ASSUME NEW x \in PlanRequests, execute_pipeline_launch(x) PROVE PlanInv'
  <2>1. Doing(x, "launch") /\ GoesOn(x, "record") /\ zLaunches' = zLaunches + 1 /\ UNCHANGED <<zStatus, Fields, zAgain>>
    BY <1>6 DEF execute_pipeline_launch
  <2>2. QED BY <1>0, <1>a, <2>1, PlanMoves DEF PlanInv, PlanTypeOK, ApprovedOnce, VersionWasRead, Doing, Fields
<1>7. ASSUME NEW x \in PlanRequests, LaunchFails(x) \/ CompletePlan(x) PROVE PlanInv'
  <2>1. /\ zWork[x].at \in {"launch", "complete"} /\ Finishes(x) /\ zStatus' \in {"failed", "completed"}
        /\ UNCHANGED <<Fields, zLaunches, zAgain>>
    BY <1>7 DEF LaunchFails, CompletePlan, Doing
  <2>2. QED BY <1>0, <1>a, <2>1, PlanMoves DEF PlanInv, PlanTypeOK, ApprovedOnce, VersionWasRead, Doing, Fields
<1>8. ASSUME NEW x \in PlanRequests, update_plan_parent_issue(x) PROVE PlanInv'
  <2>1. Doing(x, "record") /\ GoesOn(x, "complete") /\ UNCHANGED <<zStatus, zContent, zVersion, zHistory, zLaunches, zAgain>>
    BY <1>8 DEF update_plan_parent_issue
  <2>2. QED BY <1>0, <1>a, <2>1, PlanMoves DEF PlanInv, PlanTypeOK, ApprovedOnce, VersionWasRead, Doing
<1>9. ASSUME NEW x \in PlanRequests, snapshot_plan_version(x) PROVE PlanInv'
  <2>1. Doing(x, "snapshot") /\ Finishes(x) /\ UNCHANGED <<zStatus, zContent, zLaunches, zAgain>>
    BY <1>9 DEF snapshot_plan_version
  <2>2. CASE ~VersionIsNew(x)
    <3>1. UNCHANGED <<zHistory, zVersion>>
      BY <1>9, <2>2 DEF snapshot_plan_version
    <3>2. QED BY <1>0, <1>a, <2>1, <3>1, PlanMoves DEF PlanInv, PlanTypeOK, ApprovedOnce, VersionWasRead, Doing
  <2>3. CASE VersionIsNew(x)
    <3> DEFINE kept == [version |-> zWork[x].version, content |-> zWork[x].content]
    <3>1. zHistory' = zHistory \cup {kept} /\ zVersion' = zVersion + 1
      BY <1>9, <2>3 DEF snapshot_plan_version
    <3>2. kept \in [version : Nat, content : Nat] /\ kept.version = zWork[x].version /\ kept \notin zHistory
      BY <1>0, <2>3 DEF PlanTypeOK, VersionIsNew
    <3>3. zWork[x].version \in 1..zVersion /\ zWork[x].version \notin {h.version : h \in zHistory}
      BY <1>0, <2>1, <2>3 DEF VersionWasRead, VersionIsNew
    <3>4. zWork[x].version = zVersion
      BY <1>0, <3>3 DEF VersionsWithoutGap, PlanTypeOK
    <3> HIDE DEF kept
    <3>5. {h.version : h \in zHistory'} = {h.version : h \in zHistory} \cup {zVersion}
      BY <3>1, <3>2, <3>4
    <3>6. {h.version : h \in zHistory'} = 1..(zVersion' - 1)
      BY <1>0, <3>1, <3>5 DEF VersionsWithoutGap, PlanTypeOK
    <3>7. IsFiniteSet(zHistory') /\ Cardinality(zHistory') = Cardinality(zHistory) + 1
      BY <1>0, <3>1, <3>2, FS_AddElement DEF PlanTypeOK
    <3>8. VersionsWithoutGap'
      BY <1>0, <3>1, <3>6, <3>7 DEF VersionsWithoutGap, PlanTypeOK
    <3>9. PlanTypeOK' /\ ApprovedOnce' /\ VersionWasRead'
      BY <1>0, <2>1, <3>1, <3>2, <3>7, PlanMoves DEF PlanTypeOK, ApprovedOnce, VersionWasRead, Doing
    <3>10. QED BY <3>8, <3>9 DEF PlanInv
  <2>4. QED BY <2>2, <2>3
<1>10. ASSUME RestartPlans PROVE PlanInv'
  <2>1. zWork' = [x \in PlanRequests |-> NoTask] /\ UNCHANGED <<zStatus, Fields, zLaunches, zAgain>>
    BY <1>10 DEF RestartPlans
  <2>2. \A x \in PlanRequests : zWork'[x].at = "idle"
    BY <2>1 DEF NoTask
  <2>3. zWork' \in [PlanRequests -> [at : PlanStages, content : Nat, version : Nat]]
    BY <2>1 DEF NoTask
  <2>4. QED BY <1>0, <1>a, <2>1, <2>2, <2>3 DEF PlanInv, PlanTypeOK, ApprovedOnce, VersionWasRead, Doing, Fields
<1>11. CASE UNCHANGED zVars
  BY <1>0, <1>a, <1>11 DEF PlanInv, PlanTypeOK, ApprovedOnce, VersionWasRead, Doing, zVars
<1>12. QED
  BY <1>1, <1>2, <1>3, <1>4, <1>5, <1>6, <1>7, <1>8, <1>9, <1>10, <1>11 DEF ChatPlansNext

(* A plan becomes one issue and its history has every version once, unless *)
(* two approvals read the same draft or a save undid one (approve_plan,    *)
(* save_plan, snapshot_plan_version).                                      *)
THEOREM PlanAccounted == ChatPlansSpec => []PlanIsAccounted
<1>1. PlanInv => PlanIsAccounted
  BY DEF PlanInv, PlanIsAccounted, OnePlanLaunch, ApprovedOnce, PlanTypeOK
<1>2. QED BY PlanStart, PlanKept, <1>1, PTL DEF ChatPlansSpec

---------------------------------------------------------------------------
(* Proposals.  What is on its way to an issue was confirmed by an object   *)
(* that is used up: while nothing excuses a second issue, one object is    *)
(* used at most, and once the issue is made it is no longer pending unless *)
(* the request that made it is still at work.  An object that is read from *)
(* the row is nobody else's until the reading is done, and nothing is      *)
(* under way while no object is cached.                                    *)
ItemStatuses == {"pending", "edited", "confirmed", "cancelled"}
ItemWork == [at : {"idle", "load", "confirm", "cancel", "create", "card", "launch"}, goal : {"none", "confirm", "cancel"},
             object : Requests \cup {"first"}, seen : {"none", "pending", "confirmed", "cancelled"}]
ProposalTypeOK ==
    /\ rKind \in {"proposal", "recommendation"} /\ rRow \in {"none", "pending", "confirmed", "cancelled"}
    /\ rCache \in {"none", "first"} \cup Requests
    /\ rObject \in [Requests \cup {"first"} -> ItemStatuses]
    /\ rWork \in [Requests -> ItemWork]
    /\ rIssues \in Nat /\ rUsed \subseteq Requests \cup {"first"} /\ rExcused \in BOOLEAN
WorkIsPlaced(x) ==
    /\ rWork[x].at = "load" => /\ rWork[x].object = x /\ rCache # x
                               /\ rWork[x].seen # "none" /\ rWork[x].goal # "none"
                               /\ \A z \in Requests : rWork[z].at \notin {"idle", "load"} => rWork[z].object # x
    /\ rCache = "none" => rWork[x].at \in {"idle", "load"}
    /\ rWork[x].at \in {"create", "card", "launch"} => rWork[x].object \in rUsed
    /\ rWork[x].at = "card" => rIssues > 0
    /\ rWork[x].at = "launch" => rObject[rWork[x].object] # "pending"
WorkIsPlacedAll == \A x \in Requests : WorkIsPlaced(x)
RowIsEarned == (rIssues > 0 => rUsed # {}) /\ (rRow = "confirmed" => rIssues > 0)
UsedUp(o) == rObject[o] # "pending" \/ \E z \in Requests : rWork[z].at \in {"create", "card", "launch"} /\ rWork[z].object = o
IssueIsOnly ==
    \/ rExcused
    \/ /\ rIssues <= 1
       /\ \A o, q \in rUsed : o = q
       /\ \A x, y \in Requests : rWork[x].at = "create" /\ rWork[y].at = "create" => x = y
       /\ rIssues > 0 => \A x \in Requests : rWork[x].at # "create"
       /\ rIssues > 0 => \A o \in rUsed : UsedUp(o)
       /\ rRow = "confirmed" => \A o \in rUsed : rObject[o] # "pending"
       /\ rIssues > 0 /\ rCache = "none" => rRow \notin {"none", "pending"}
       /\ rIssues > 0 => \A x \in Requests : rWork[x].at = "load" /\ x \in rUsed => rWork[x].seen # "pending"
ProposalInv == ProposalTypeOK /\ WorkIsPlacedAll /\ RowIsEarned /\ IssueIsOnly

LEMMA ProposalStart == ProposalInit => ProposalInv
<1> SUFFICES ASSUME ProposalInit PROVE ProposalInv
  OBVIOUS
<1>1. NoWork \in ItemWork /\ NoWork.at = "idle"
  BY DEF NoWork, ItemWork
<1>2. rWork \in [Requests -> ItemWork] /\ \A x \in Requests : rWork[x].at = "idle"
  BY <1>1 DEF ProposalInit
<1>3. /\ rKind \in {"proposal", "recommendation"} /\ rRow = "none" /\ rCache = "none"
      /\ rObject \in [Requests \cup {"first"} -> ItemStatuses] /\ rIssues = 0 /\ rUsed = {}
  BY DEF ProposalInit, ItemStatuses
<1>4. rExcused \in BOOLEAN
  BY DEF ProposalInit
<1>5. QED BY <1>2, <1>3, <1>4 DEF ProposalInv, ProposalTypeOK, WorkIsPlacedAll, WorkIsPlaced, RowIsEarned, IssueIsOnly

(* A request that ends, or moves on, changes nothing but its own stage.    *)
LEMMA WorkMoves ==
  ASSUME ProposalTypeOK, NEW x \in Requests
  PROVE  /\ EndsRequest(x) =>
              /\ rWork' \in [Requests -> ItemWork] /\ rWork'[x].at = "idle"
              /\ \A y \in Requests : y # x => rWork'[y] = rWork[y]
         /\ \A at \in {"confirm", "cancel", "create", "card", "launch"} : Moves(x, at) =>
              /\ rWork' \in [Requests -> ItemWork] /\ rWork'[x].at = at
              /\ rWork'[x].object = rWork[x].object /\ rWork'[x].seen = rWork[x].seen
              /\ \A y \in Requests : y # x => rWork'[y] = rWork[y]
  BY DEF ProposalTypeOK, ItemWork, EndsRequest, Moves, NoWork

LEMMA ObjectMarked ==
  ASSUME ProposalTypeOK, NEW x \in Requests, NEW status \in ItemStatuses, Mark(x, status)
  PROVE  /\ rObject' \in [Requests \cup {"first"} -> ItemStatuses]
         /\ rWork[x].object \in Requests \cup {"first"}
         /\ rObject'[rWork[x].object] = status
         /\ \A o \in Requests \cup {"first"} : o # rWork[x].object => rObject'[o] = rObject[o]
  BY DEF ProposalTypeOK, ItemWork, Mark

(* The steps that end a request before it is confirmed, marking its object *)
(* turned down or not.                                                     *)
LEMMA RequestTurnedDown ==
  ASSUME ProposalInv, UNCHANGED rKind, NEW x \in Requests,
         Refuse(x) \/ RejectRefused(x) \/ Expired(x) \/ cancel_proposal(x)
  PROVE  ProposalInv'
<1>1. ProposalTypeOK /\ WorkIsPlacedAll /\ RowIsEarned /\ IssueIsOnly
  BY DEF ProposalInv
<1>2. /\ rWork[x].at \in {"confirm", "cancel"} /\ EndsRequest(x)
      /\ UNCHANGED <<rCache, rIssues, rUsed, rExcused>>
      /\ rRow' \in {rRow, "cancelled"}
      /\ Mark(x, "cancelled") \/ UNCHANGED rObject
  BY DEF Refuse, RejectRefused, Expired, cancel_proposal, WriteRow, rHistory, At
<1>3. /\ rObject' \in [Requests \cup {"first"} -> ItemStatuses]
      /\ \A o \in Requests \cup {"first"} : rObject'[o] \in {rObject[o], "cancelled"}
  BY <1>1, <1>2, ObjectMarked DEF ProposalTypeOK, ItemStatuses
<1>4. /\ rWork' \in [Requests -> ItemWork] /\ rWork'[x].at = "idle"
      /\ \A y \in Requests : y # x => rWork'[y] = rWork[y]
  BY <1>1, <1>2, WorkMoves
<1>5. ProposalTypeOK'
  BY <1>1, <1>2, <1>3, <1>4 DEF ProposalTypeOK
<1>6. WorkIsPlacedAll'
  BY <1>1, <1>2, <1>3, <1>4 DEF ProposalTypeOK, WorkIsPlacedAll, WorkIsPlaced, ItemWork
<1>7. RowIsEarned'
  BY <1>1, <1>2 DEF RowIsEarned
<1>8. IssueIsOnly'
  <2>1. \A o \in rUsed : UsedUp(o) => UsedUp(o)'
    BY <1>1, <1>2, <1>3, <1>4 DEF ProposalTypeOK, UsedUp
  <2>2. QED BY <1>1, <1>2, <1>3, <1>4, <2>1 DEF ProposalTypeOK, IssueIsOnly
<1>9. QED BY <1>5, <1>6, <1>7, <1>8 DEF ProposalInv

(* A request reads the item, from the cache or from its row.               *)
LEMMA RequestReads ==
  ASSUME ProposalInv, UNCHANGED rKind, NEW x \in Requests, NEW kind \in {"confirm", "cancel"},
         FromCache(x, kind) \/ FromRow(x, kind)
  PROVE  ProposalInv'
<1>1. ProposalTypeOK /\ WorkIsPlacedAll /\ RowIsEarned /\ IssueIsOnly
  BY DEF ProposalInv
<1>2. rWork[x].at = "idle" /\ UNCHANGED <<rRow, rCache, rObject, rIssues, rUsed, rExcused>>
  BY DEF FromCache, FromRow, At, rHistory
<1>3. /\ rWork' \in [Requests -> ItemWork]
      /\ \A y \in Requests : y # x => rWork'[y] = rWork[y]
      /\ \/ rCache # "none" /\ rWork'[x].at \in {"confirm", "cancel"} /\ rWork'[x].object = rCache
         \/ rCache = "none" /\ rWork'[x].at = "load" /\ rWork'[x].object = x /\ rWork'[x].seen = rRow /\ rWork'[x].goal = kind
            /\ rRow # "none"
  BY <1>1 DEF FromCache, FromRow, ProposalTypeOK, ItemWork
<1>5. ProposalTypeOK'
  BY <1>1, <1>2, <1>3 DEF ProposalTypeOK
<1>6. WorkIsPlacedAll'
  BY <1>1, <1>2, <1>3, ProposalAssumption DEF ProposalTypeOK, WorkIsPlacedAll, WorkIsPlaced, ItemWork
<1>7. RowIsEarned'
  BY <1>1, <1>2 DEF RowIsEarned
<1>8. IssueIsOnly'
  <2>1. \A o \in rUsed : UsedUp(o) => UsedUp(o)'
    BY <1>1, <1>2, <1>3 DEF ProposalTypeOK, UsedUp
  <2>2. QED BY <1>1, <1>2, <1>3, <2>1 DEF ProposalTypeOK, IssueIsOnly
<1>9. QED BY <1>5, <1>6, <1>7, <1>8 DEF ProposalInv

(* The reading is done: the object gets the status that the row had.       *)
LEMMA RequestHasRead ==
  ASSUME ProposalInv, UNCHANGED rKind, NEW x \in Requests, get_proposal(x)
  PROVE  ProposalInv'
<1>1. ProposalTypeOK /\ WorkIsPlacedAll /\ RowIsEarned /\ IssueIsOnly
  BY DEF ProposalInv
<1>2. /\ rWork[x].at = "load" /\ rWork[x].object = x /\ rWork[x].goal \in {"confirm", "cancel"}
      /\ rWork[x].seen \in ItemStatuses /\ rCache' = x
      /\ UNCHANGED <<rRow, rIssues, rUsed, rExcused>>
      /\ Moves(x, rWork[x].goal) /\ Mark(x, rWork[x].seen)
  BY <1>1 DEF get_proposal, At, rHistory, WorkIsPlacedAll, WorkIsPlaced, ProposalTypeOK, ItemWork, ItemStatuses
<1>3. /\ rObject' \in [Requests \cup {"first"} -> ItemStatuses] /\ rObject'[x] = rWork[x].seen
      /\ \A o \in Requests \cup {"first"} : o # x => rObject'[o] = rObject[o]
  BY <1>1, <1>2, ObjectMarked
<1>4. /\ rWork' \in [Requests -> ItemWork] /\ rWork'[x].at \in {"confirm", "cancel"} /\ rWork'[x].object = x
      /\ \A y \in Requests : y # x => rWork'[y] = rWork[y]
  BY <1>1, <1>2, WorkMoves
<1>5. ProposalTypeOK'
  BY <1>1, <1>2, <1>3, <1>4 DEF ProposalTypeOK
<1>6. WorkIsPlacedAll'
  BY <1>1, <1>2, <1>3, <1>4, ProposalAssumption DEF ProposalTypeOK, WorkIsPlacedAll, WorkIsPlaced, ItemWork
<1>7. RowIsEarned'
  BY <1>1, <1>2 DEF RowIsEarned
<1>8. IssueIsOnly'
  <2>1. \A o \in rUsed : o # x /\ UsedUp(o) => UsedUp(o)'
    BY <1>1, <1>2, <1>3, <1>4 DEF ProposalTypeOK, UsedUp
  <2>2. rIssues > 0 /\ ~rExcused /\ x \in rUsed => rObject'[x] # "pending"
    BY <1>1, <1>2, <1>3 DEF IssueIsOnly
  <2>3. QED BY <1>1, <1>2, <1>3, <1>4, <2>1, <2>2, ProposalAssumption DEF ProposalTypeOK, IssueIsOnly, RowIsEarned, UsedUp
<1>9. QED BY <1>5, <1>6, <1>7, <1>8 DEF ProposalInv

(* A confirmation: of an object that is pending, which another one that is *)
(* under way would have to be, too.                                        *)
LEMMA RequestConfirms ==
  ASSUME ProposalInv, UNCHANGED rKind, NEW x \in Requests, NEW edits \in BOOLEAN, Confirm(x, edits)
  PROVE  ProposalInv'
<1> DEFINE o == rWork[x].object
<1>1. ProposalTypeOK /\ WorkIsPlacedAll /\ RowIsEarned /\ IssueIsOnly
  BY DEF ProposalInv
<1>2. /\ rWork[x].at = "confirm" /\ rObject[o] = "pending" /\ Moves(x, "create") /\ rUsed' = rUsed \cup {o}
      /\ UNCHANGED <<rRow, rCache, rIssues>>
      /\ rExcused' = \/ rExcused \/ ~(rUsed \subseteq {o})
                     \/ \E z \in Requests : rWork[z].at \in {"create", "card", "launch"} /\ rObject[rWork[z].object] = "pending"
      /\ Mark(x, "edited") \/ Mark(x, "pending") \/ UNCHANGED rObject
  BY DEF Confirm, At, Confirmable, StatusOf, InProgress, EditedStatus
<1>3. /\ rObject' \in [Requests \cup {"first"} -> ItemStatuses] /\ o \in Requests \cup {"first"}
      /\ \A q \in Requests \cup {"first"} : q # o => rObject'[q] = rObject[q]
  BY <1>1, <1>2, ObjectMarked DEF ProposalTypeOK, ItemStatuses, ItemWork
<1>4. /\ rWork' \in [Requests -> ItemWork] /\ rWork'[x].at = "create" /\ rWork'[x].object = o
      /\ \A y \in Requests : y # x => rWork'[y] = rWork[y]
  BY <1>1, <1>2, WorkMoves
<1>5. rExcused' \in BOOLEAN
  BY <1>2
<1>6. ProposalTypeOK'
  BY <1>1, <1>2, <1>3, <1>4, <1>5 DEF ProposalTypeOK
<1>7. WorkIsPlacedAll'
  BY <1>1, <1>2, <1>3, <1>4 DEF ProposalTypeOK, WorkIsPlacedAll, WorkIsPlaced, ItemWork
<1>8. RowIsEarned'
  BY <1>1, <1>2 DEF RowIsEarned
<1>9. IssueIsOnly'
  <2>1. ASSUME ~rExcused'
        PROVE  ~rExcused /\ rIssues = 0 /\ (\A z \in Requests : rWork[z].at # "create") /\ \A p, q \in rUsed' : p = q
    <3>1. ~rExcused /\ rUsed \subseteq {o} /\ \A p, q \in rUsed' : p = q
      BY <1>2, <2>1
    <3>2. \A z \in Requests : rWork[z].at \notin {"create", "card", "launch"}
      BY <1>1, <1>2, <2>1, <3>1 DEF WorkIsPlacedAll, WorkIsPlaced
    <3>3. rIssues = 0
      BY <1>1, <1>2, <3>1, <3>2 DEF IssueIsOnly, RowIsEarned, UsedUp, ProposalTypeOK
    <3>4. QED BY <3>1, <3>2, <3>3
  <2>2. QED BY <1>1, <1>2, <1>4, <2>1 DEF IssueIsOnly, RowIsEarned, ProposalTypeOK
<1>10. QED BY <1>6, <1>7, <1>8, <1>9 DEF ProposalInv

(* The steps from a confirmation on: the issue, its card, the launch.      *)
LEMMA IssueMade ==
  ASSUME ProposalInv, UNCHANGED rKind, NEW x \in Requests, CreateIssue(x)
  PROVE  ProposalInv'
<1>1. ProposalTypeOK /\ WorkIsPlacedAll /\ RowIsEarned /\ IssueIsOnly
  BY DEF ProposalInv
<1>2. /\ rWork[x].at = "create" /\ Moves(x, "card") /\ rIssues' = rIssues + 1
      /\ UNCHANGED <<rRow, rCache, rObject, rUsed, rExcused>>
  BY DEF CreateIssue, At, rHistory
<1>3. /\ rWork' \in [Requests -> ItemWork] /\ rWork'[x].at = "card" /\ rWork'[x].object = rWork[x].object
      /\ \A y \in Requests : y # x => rWork'[y] = rWork[y]
  BY <1>1, <1>2, WorkMoves
<1>4. rWork[x].object \in rUsed /\ rCache # "none"
      /\ \A y \in Requests : rWork[y].at = "load" => rWork[x].object # y
  BY <1>1, <1>2 DEF WorkIsPlacedAll, WorkIsPlaced
<1>5. ProposalTypeOK'
  BY <1>1, <1>2, <1>3 DEF ProposalTypeOK
<1>6. WorkIsPlacedAll'
  BY <1>1, <1>2, <1>3 DEF ProposalTypeOK, WorkIsPlacedAll, WorkIsPlaced, ItemWork
<1>7. RowIsEarned'
  BY <1>1, <1>2, <1>4 DEF RowIsEarned, ProposalTypeOK
<1>8. IssueIsOnly'
  <2>1. ~rExcused => \A q \in rUsed : UsedUp(q)'
    BY <1>1, <1>2, <1>3, <1>4 DEF IssueIsOnly, UsedUp
  <2>2. QED BY <1>1, <1>2, <1>3, <1>4, <2>1 DEF IssueIsOnly, ProposalTypeOK
<1>9. QED BY <1>5, <1>6, <1>7, <1>8 DEF ProposalInv

LEMMA IssueNotMade ==
  ASSUME ProposalInv, UNCHANGED rKind, NEW x \in Requests, IssueCreationFails(x) \/ LaunchAfterConfirm(x)
  PROVE  ProposalInv'
<1>1. ProposalTypeOK /\ WorkIsPlacedAll /\ RowIsEarned /\ IssueIsOnly
  BY DEF ProposalInv
<1>2. /\ rWork[x].at \in {"create", "card", "launch"} /\ EndsRequest(x)
      /\ rExcused' = (rExcused \/ rWork[x].at = "card")
      /\ UNCHANGED <<rRow, rCache, rObject, rIssues, rUsed>>
  BY <1>1 DEF IssueCreationFails, LaunchAfterConfirm, At, rHistory, ProposalTypeOK
<1>3. /\ rWork' \in [Requests -> ItemWork] /\ rWork'[x].at = "idle"
      /\ \A y \in Requests : y # x => rWork'[y] = rWork[y]
  BY <1>1, <1>2, WorkMoves
<1>4. rExcused' \in BOOLEAN
  BY <1>2
<1>5. ProposalTypeOK'
  BY <1>1, <1>2, <1>3, <1>4 DEF ProposalTypeOK
<1>6. WorkIsPlacedAll'
  BY <1>1, <1>2, <1>3 DEF ProposalTypeOK, WorkIsPlacedAll, WorkIsPlaced, ItemWork
<1>7. RowIsEarned'
  BY <1>1, <1>2 DEF RowIsEarned
<1>8. IssueIsOnly'
  <2>1. rWork[x].at = "launch" => rObject[rWork[x].object] # "pending"
    BY <1>1 DEF WorkIsPlacedAll, WorkIsPlaced
  <2>2. rWork[x].at = "launch" => \A q \in rUsed : UsedUp(q) => UsedUp(q)'
    BY <1>2, <1>3, <2>1 DEF UsedUp
  <2>3. CASE rWork[x].at = "card"
    BY <1>2, <2>3 DEF IssueIsOnly
  <2>4. CASE rWork[x].at = "launch"
    BY <1>1, <1>2, <1>3, <2>2, <2>4 DEF IssueIsOnly
  <2>5. CASE rWork[x].at = "create"
    <3>1. ~rExcused => ~(rIssues > 0)
      BY <1>1, <2>5 DEF IssueIsOnly
    <3>2. ~rExcused => ~(rRow = "confirmed")
      BY <1>1, <3>1 DEF RowIsEarned
    <3>3. QED BY <1>1, <1>2, <1>3, <2>5, <3>1, <3>2 DEF IssueIsOnly
  <2>6. QED BY <1>2, <2>3, <2>4, <2>5
<1>9. QED BY <1>5, <1>6, <1>7, <1>8 DEF ProposalInv

LEMMA IssueStored ==
  ASSUME ProposalInv, UNCHANGED rKind, NEW x \in Requests, confirm_proposal(x)
  PROVE  ProposalInv'
<1> DEFINE o == rWork[x].object
<1>1. ProposalTypeOK /\ WorkIsPlacedAll /\ RowIsEarned /\ IssueIsOnly
  BY DEF ProposalInv
<1>2. /\ rWork[x].at = "card" /\ Moves(x, "launch") /\ Mark(x, "confirmed") /\ rRow' \in {rRow, "confirmed"}
      /\ UNCHANGED <<rCache, rIssues, rUsed, rExcused>>
  BY DEF confirm_proposal, At, rHistory, WriteRow
<1>3. /\ rWork' \in [Requests -> ItemWork] /\ rWork'[x].at = "launch" /\ rWork'[x].object = o
      /\ \A y \in Requests : y # x => rWork'[y] = rWork[y]
  BY <1>1, <1>2, WorkMoves
<1>4. /\ rObject' \in [Requests \cup {"first"} -> ItemStatuses] /\ rObject'[o] = "confirmed"
      /\ \A q \in Requests \cup {"first"} : q # o => rObject'[q] = rObject[q]
  BY <1>1, <1>2, ObjectMarked DEF ItemStatuses
<1>5. o \in rUsed /\ rIssues > 0 /\ rCache # "none"
  BY <1>1, <1>2 DEF WorkIsPlacedAll, WorkIsPlaced
<1>6. ProposalTypeOK'
  BY <1>1, <1>2, <1>3, <1>4 DEF ProposalTypeOK
<1>7. WorkIsPlacedAll'
  <2> SUFFICES ASSUME NEW y \in Requests PROVE WorkIsPlaced(y)'
    BY DEF WorkIsPlacedAll
  <2>1. WorkIsPlaced(y)
    BY <1>1 DEF WorkIsPlacedAll
  <2>2. rObject'[rWork[y].object] \in {rObject[rWork[y].object], "confirmed"}
    BY <1>1, <1>4 DEF ProposalTypeOK, ItemWork
  <2>3. CASE y = x
    BY <1>2, <1>3, <1>4, <1>5, <2>3 DEF WorkIsPlaced
  <2>4. CASE y # x
    BY <1>1, <1>2, <1>3, <2>1, <2>2, <2>4 DEF WorkIsPlaced
  <2>5. QED BY <2>3, <2>4
<1>8. RowIsEarned'
  BY <1>1, <1>2, <1>5 DEF RowIsEarned
<1>9. IssueIsOnly'
  <2>1. ~rExcused => \A q \in rUsed : rObject'[q] # "pending"
    BY <1>1, <1>4, <1>5 DEF IssueIsOnly
  <2>2. QED BY <1>1, <1>2, <1>3, <1>5, <2>1 DEF IssueIsOnly, UsedUp
<1>10. QED BY <1>6, <1>7, <1>8, <1>9 DEF ProposalInv

LEMMA ProposalKept == ProposalInv /\ [ProposalNext]_rVars => ProposalInv'
<1> SUFFICES ASSUME ProposalInv, [ProposalNext]_rVars PROVE ProposalInv'
  OBVIOUS
<1>0. ProposalTypeOK /\ WorkIsPlacedAll /\ RowIsEarned /\ IssueIsOnly
  BY DEF ProposalInv
<1>1. ASSUME UNCHANGED rKind, store_proposal PROVE ProposalInv'
  <2>1. rRow = "none" /\ rRow' = "pending" /\ rCache' = "first" /\ UNCHANGED <<rObject, rWork, rIssues, rUsed, rExcused>>
    BY <1>1 DEF store_proposal, rHistory
  <2>2. ProposalTypeOK' /\ RowIsEarned'
    BY <1>0, <1>1, <2>1 DEF ProposalTypeOK, RowIsEarned
  <2>3. WorkIsPlacedAll'
    BY <1>0, <2>1, ProposalAssumption DEF WorkIsPlacedAll, WorkIsPlaced
  <2>4. IssueIsOnly'
    BY <1>0, <2>1 DEF IssueIsOnly, UsedUp
  <2>5. QED BY <2>2, <2>3, <2>4 DEF ProposalInv
<1>2. ASSUME UNCHANGED <<rKind, rRow, rCache, rObject, rWork, rIssues, rHistory>> PROVE ProposalInv'
  <2>1. UNCHANGED <<rKind, rRow, rCache, rObject, rWork, rIssues, rUsed, rExcused>>
    BY <1>2 DEF rHistory
  <2>2. ProposalTypeOK' /\ RowIsEarned' /\ WorkIsPlacedAll' /\ IssueIsOnly'
    BY <1>0, <2>1 DEF ProposalTypeOK, RowIsEarned, WorkIsPlacedAll, WorkIsPlaced, IssueIsOnly, UsedUp
  <2>3. QED BY <2>2 DEF ProposalInv
<1>3. ASSUME UNCHANGED rKind, RestartChat PROVE ProposalInv'
  <2>1. /\ rCache' = "none" /\ rWork' = [x \in Requests |-> NoWork]
        /\ rExcused' = (rExcused \/ (rIssues > 0 /\ rRow # "confirmed"))
        /\ UNCHANGED <<rRow, rObject, rIssues, rUsed>>
    BY <1>3 DEF RestartChat
  <2>2. NoWork \in ItemWork /\ NoWork.at = "idle"
    BY DEF NoWork, ItemWork
  <2>3. rWork' \in [Requests -> ItemWork] /\ \A x \in Requests : rWork'[x].at = "idle"
    BY <2>1, <2>2
  <2>4. rExcused' \in BOOLEAN
    BY <2>1
  <2>5. ProposalTypeOK' /\ RowIsEarned'
    BY <1>0, <1>3, <2>1, <2>3, <2>4 DEF ProposalTypeOK, RowIsEarned
  <2>6. WorkIsPlacedAll'
    BY <2>3 DEF WorkIsPlacedAll, WorkIsPlaced
  <2>7. IssueIsOnly'
    BY <1>0, <2>1, <2>3 DEF IssueIsOnly, UsedUp
  <2>8. QED BY <2>5, <2>6, <2>7 DEF ProposalInv
<1>4. CASE UNCHANGED rVars
  BY <1>2, <1>4 DEF rVars
<1>5. ASSUME UNCHANGED rKind, InputClaims PROVE ProposalInv'
  BY <1>2, <1>5 DEF InputClaims
<1>6. QED
  BY <1>1, <1>3, <1>4, <1>5, RequestTurnedDown, RequestReads, RequestHasRead, RequestConfirms, IssueMade,
     IssueNotMade, IssueStored DEF ProposalNext

(* A proposal or recommendation of the chat becomes one issue, whatever is *)
(* confirmed, cancelled, expired, read again or restarted meanwhile, unless*)
(* one of the named overlaps excuses a second (confirm_proposal,           *)
(* get_proposal, store_proposal).                                          *)
THEOREM OneIssueEach == ProposalSpec => []OneIssuePerItem
<1>1. ProposalInv => OneIssuePerItem
  BY DEF ProposalInv, IssueIsOnly, OneIssuePerItem
<1>2. QED BY ProposalStart, ProposalKept, <1>1, PTL DEF ProposalSpec

---------------------------------------------------------------------------
(* Signal.  The step of a task goes with what was done about its proposal: *)
(* nothing until the call, one call until the card, all of it after that.  *)
(* The proposals there are come before those there are not, so that the    *)
(* next one is newer than all; and while nothing fails, what is not yet    *)
(* stored or answered has a task that will.                                *)
SignalSteps == {"unsent", "agent_command", "token", "assistant", "carry_out", "card", "launch", "store", "message",
                "withdraw", "ended"}
SignalTasks == [word : Words, step : SignalSteps, offer : 0..MaxOffers]
SignalTypeOK ==
    /\ hPending \in 0..MaxOffers /\ hKind \in [Offer -> OfferKinds \cup {"absent"}]
    /\ hStored \in [Offer -> {"none", "pending", "confirmed", "rejected"}]
    /\ hDone \in [Offer -> Nat] /\ hCarded \subseteq Offer /\ hSilent \subseteq Offer /\ hTask \in [SignalMessages -> SignalTasks]
    /\ hToken \in BOOLEAN /\ hFaults \in Nat
TaskIsAt(s) ==
    /\ hTask[s].word = "text" => /\ hTask[s].step \in {"unsent", "agent_command", "token", "assistant", "message", "ended"}
                                 /\ hTask[s].step = "message" <=> hTask[s].offer # 0
    /\ hTask[s].word = "confirm" => hTask[s].step \in {"token", "carry_out", "card", "launch", "store", "message"}
    /\ hTask[s].word = "reject" => hTask[s].step \in {"withdraw", "message"}
    /\ hTask[s].word # "text" => hTask[s].offer # 0
    /\ hTask[s].offer # 0 => hKind[Of(s)] # "absent"
TaskHasDone(s) ==
    /\ hTask[s].word = "confirm" => hStored[Of(s)] # "rejected" /\ <<Of(s), "cancelled">> \notin hTold
    /\ hTask[s].word = "confirm" /\ hTask[s].step \in {"token", "carry_out"} => hDone[Of(s)] = 0
    /\ hTask[s].word = "confirm" /\ hTask[s].step = "card" => hDone[Of(s)] = 1
    /\ hTask[s].word = "confirm" /\ hTask[s].step \in {"card", "launch"} => hKind[Of(s)] # "status_update"
    /\ hTask[s].word = "confirm" /\ hTask[s].step \in {"launch", "store", "message"} => Carried(Of(s))
    /\ hTask[s].word = "reject" => hDone[Of(s)] = 0
    /\ hFaults = 0 =>
          /\ hTask[s].word = "confirm" /\ (hTask[s].step = "message" \/ (hTask[s].step = "launch" /\ hKind[Of(s)] = "task_create")) =>
                hStored[Of(s)] = "confirmed"
          /\ hTask[s].word = "reject" /\ hTask[s].step = "message" => hStored[Of(s)] # "pending"
OfferIsUnseen(o) ==
    hKind[o] = "absent" => /\ hDone[o] = 0 /\ hStored[o] = "none" /\ hPending # o /\ o \notin hSilent
                           /\ <<o, "done">> \notin hTold /\ <<o, "cancelled">> \notin hTold
OfferHasOneAnswer(o) ==
    /\ hDone[o] <= 1
    /\ hPending = o => hDone[o] = 0 /\ \A s \in SignalMessages : ~Answers(s, o)
    /\ \A s, t \in SignalMessages : Answers(s, o) /\ Answers(t, o) => s = t
    /\ hStored[o] = "rejected" \/ <<o, "cancelled">> \in hTold => hDone[o] = 0 /\ hPending # o
OfferIsTold(o) ==
    /\ <<o, "done">> \in hTold \/ hStored[o] = "confirmed" => Carried(o)
    /\ hFaults = 0 /\ o \in hSilent => hKind[o] = "status_update"
OfferIsReached(o) ==
    hFaults = 0 =>
      /\ hDone[o] = 1 => \/ hStored[o] = "confirmed"
                         \/ \E s \in SignalMessages : Of(s) = o /\ hTask[s].word = "confirm"
      /\ hStored[o] = "pending" => \/ hPending = o \/ \E newer \in Offer : newer > o /\ hKind[newer] # "absent"
                                   \/ \E s \in SignalMessages : Answers(s, o)
OffersInOrder == \E n \in 0..MaxOffers : \A o \in Offer : hKind[o] # "absent" <=> o <= n
SignalInv ==
    /\ SignalTypeOK /\ (hFaults = 0 => hToken) /\ OffersInOrder
    /\ \A s \in SignalMessages : TaskIsAt(s) /\ TaskHasDone(s)
    /\ \A o \in Offer : OfferIsUnseen(o) /\ OfferHasOneAnswer(o) /\ OfferIsTold(o) /\ OfferIsReached(o)

LEMMA SignalStart == SignalInit => SignalInv
<1> SUFFICES ASSUME SignalInit PROVE SignalInv
  OBVIOUS
<1>1. MaxOffers \in Nat
  BY SignalAssumption
<1>2. /\ hTask \in [SignalMessages -> SignalTasks]
      /\ \A s \in SignalMessages : hTask[s].word = "text" /\ hTask[s].step = "unsent" /\ hTask[s].offer = 0
  BY <1>1 DEF SignalInit, Sent, SignalTasks, SignalSteps, Words, NoOffer
<1>3. /\ hPending = 0 /\ hKind = [o \in Offer |-> "absent"] /\ hStored = [o \in Offer |-> "none"]
      /\ hDone = [o \in Offer |-> 0] /\ hCarded = {} /\ hSilent = {} /\ hTold = {} /\ hFaults = 0
  BY DEF SignalInit, NoOffer
<1>4. hToken /\ hToken \in BOOLEAN
  BY DEF SignalInit
<1>5. SignalTypeOK
  BY <1>1, <1>2, <1>3, <1>4 DEF SignalTypeOK, OfferKinds
<1>6. OffersInOrder
  <2>1. 0 \in 0..MaxOffers /\ \A o \in Offer : hKind[o] # "absent" <=> o <= 0
    BY <1>1, <1>3 DEF Offer
  <2>2. QED BY <2>1 DEF OffersInOrder
<1>7. \A s \in SignalMessages : TaskIsAt(s) /\ TaskHasDone(s)
  BY <1>2 DEF TaskIsAt, TaskHasDone, Of
<1>8. ASSUME NEW o \in Offer PROVE OfferIsUnseen(o) /\ OfferHasOneAnswer(o) /\ OfferIsTold(o) /\ OfferIsReached(o)
  <2>1. o # 0 /\ hKind[o] = "absent" /\ hDone[o] = 0 /\ hStored[o] = "none" /\ hPending # o /\ hTold = {} /\ hSilent = {}
    BY <1>1, <1>3 DEF Offer
  <2>2. \A s \in SignalMessages : ~Answers(s, o)
    BY <1>2 DEF Answers
  <2>3. QED BY <2>1, <2>2 DEF OfferIsUnseen, OfferHasOneAnswer, OfferIsTold, OfferIsReached
<1>9. QED BY <1>4, <1>5, <1>6, <1>7, <1>8 DEF SignalInv

LEMMA SignalFacts ==
  ASSUME SignalInv
  PROVE  /\ MaxOffers \in Nat /\ SignalTypeOK /\ (hFaults = 0 => hToken) /\ OffersInOrder
         /\ \A s \in SignalMessages : TaskIsAt(s) /\ TaskHasDone(s)
         /\ \A o \in Offer : OfferIsUnseen(o) /\ OfferHasOneAnswer(o) /\ OfferIsTold(o) /\ OfferIsReached(o)
         /\ \A s \in SignalMessages : /\ hTask[s] \in SignalTasks /\ Of(s) = hTask[s].offer
                                      /\ hTask[s].word \in Words /\ hTask[s].step \in SignalSteps
                                      /\ Of(s) \in 0..MaxOffers /\ (Of(s) # 0 => Of(s) \in Offer)
  BY SignalAssumption DEF SignalInv, SignalTypeOK, SignalTasks, Of, Offer

(* A task moves on to a step, to its end, or to the start of what it does. *)
LEMMA TaskMoves ==
  ASSUME SignalTypeOK, NEW s \in SignalMessages
  PROVE  /\ \A step \in SignalSteps : StepTo(s, step) =>
              /\ hTask' \in [SignalMessages -> SignalTasks]
              /\ hTask'[s].word = hTask[s].word /\ hTask'[s].step = step /\ hTask'[s].offer = hTask[s].offer
              /\ \A t \in SignalMessages : t # s => hTask'[t] = hTask[t]
         /\ TaskEnds(s) =>
              /\ hTask' \in [SignalMessages -> SignalTasks]
              /\ hTask'[s].word = "text" /\ hTask'[s].step = "ended" /\ hTask'[s].offer = 0
              /\ \A t \in SignalMessages : t # s => hTask'[t] = hTask[t]
<1>1. MaxOffers \in Nat
  BY SignalAssumption
<1>2. ASSUME NEW step \in SignalSteps, StepTo(s, step)
      PROVE  /\ hTask' \in [SignalMessages -> SignalTasks]
             /\ hTask'[s].word = hTask[s].word /\ hTask'[s].step = step /\ hTask'[s].offer = hTask[s].offer
             /\ \A t \in SignalMessages : t # s => hTask'[t] = hTask[t]
  BY <1>2 DEF SignalTypeOK, SignalTasks, StepTo
<1>3. Ended \in SignalTasks /\ Ended.word = "text" /\ Ended.step = "ended" /\ Ended.offer = 0
  BY <1>1 DEF Ended, Sent, SignalTasks, Words, SignalSteps, NoOffer
<1>4. TaskEnds(s) =>
        /\ hTask' \in [SignalMessages -> SignalTasks] /\ hTask'[s] = Ended
        /\ \A t \in SignalMessages : t # s => hTask'[t] = hTask[t]
  BY <1>3 DEF SignalTypeOK, TaskEnds
<1>5. QED BY <1>2, <1>3, <1>4

(* A task ends whose proposal is as good as answered, or that had none; or *)
(* something failed.  The user is told done by a task that carried the     *)
(* proposal out, and cancelled by one that withdrew it.                    *)
LEMMA TaskIsOver ==
  ASSUME SignalInv, NEW s \in SignalMessages, TaskEnds(s),
         UNCHANGED <<hPending, hKind, hStored, hDone, hCarded, hSilent, hToken>>,
         hFaults' \in Nat, hFaults' = 0 => hFaults = 0 /\ (hTask[s].word # "text" => hTask[s].step = "message"),
         \A o : <<o, "done">> \in hTold' =>
            <<o, "done">> \in hTold \/ (o = Of(s) /\ hTask[s].word = "confirm" /\ hTask[s].step = "message"),
         \A o : <<o, "cancelled">> \in hTold' =>
            <<o, "cancelled">> \in hTold \/ (o = Of(s) /\ hTask[s].word = "reject" /\ hTask[s].step = "message")
  PROVE  SignalInv'
<1>1. /\ MaxOffers \in Nat /\ SignalTypeOK /\ (hFaults = 0 => hToken) /\ OffersInOrder
      /\ \A t \in SignalMessages : TaskIsAt(t) /\ TaskHasDone(t)
      /\ \A o \in Offer : OfferIsUnseen(o) /\ OfferHasOneAnswer(o) /\ OfferIsTold(o) /\ OfferIsReached(o)
      /\ \A t \in SignalMessages : hTask[t].word \in Words /\ Of(t) = hTask[t].offer /\ (Of(t) # 0 => Of(t) \in Offer)
  BY SignalFacts
<1>2. /\ hTask' \in [SignalMessages -> SignalTasks]
      /\ hTask'[s].word = "text" /\ hTask'[s].step = "ended" /\ hTask'[s].offer = 0
      /\ \A t \in SignalMessages : t # s => hTask'[t] = hTask[t]
  BY <1>1, TaskMoves
<1>3. SignalTypeOK' /\ (hFaults = 0 => hToken)' /\ OffersInOrder'
  BY <1>1, <1>2 DEF SignalTypeOK, OffersInOrder
<1>4. \A o \in Offer : /\ \A t \in SignalMessages : Answers(t, o)' => t # s /\ Answers(t, o)
                       /\ Answers(s, o) => \A t \in SignalMessages : ~Answers(t, o)'
                       /\ Carried(o)' <=> Carried(o)
  <2> SUFFICES ASSUME NEW o \in Offer
               PROVE  /\ \A t \in SignalMessages : Answers(t, o)' => t # s /\ Answers(t, o)
                      /\ Answers(s, o) => \A t \in SignalMessages : ~Answers(t, o)'
                      /\ Carried(o)' <=> Carried(o)
    OBVIOUS
  <2>1. \A t \in SignalMessages : Answers(t, o)' => t # s /\ Answers(t, o)
    BY <1>2 DEF Answers, Of
  <2>2. \A t, u \in SignalMessages : Answers(t, o) /\ Answers(u, o) => t = u
    BY <1>1 DEF OfferHasOneAnswer
  <2>3. Carried(o)' <=> Carried(o)
    BY DEF Carried
  <2>4. QED BY <2>1, <2>2, <2>3
<1>5. ASSUME NEW t \in SignalMessages PROVE TaskIsAt(t)' /\ TaskHasDone(t)'
  <2>1. CASE t = s
    BY <1>2, <2>1 DEF TaskIsAt, TaskHasDone
  <2>2. CASE t # s
    <3>1. TaskIsAt(t)'
      BY <1>1, <1>2, <2>2 DEF TaskIsAt, Of
    <3>2. hTask[t].word = "confirm" /\ <<Of(t), "cancelled">> \in hTold' => <<Of(t), "cancelled">> \in hTold
      BY <1>1, <2>2 DEF OfferHasOneAnswer, Answers, TaskIsAt
    <3>3. TaskHasDone(t)'
      BY <1>1, <1>2, <1>4, <2>2, <3>2 DEF TaskHasDone, Of, TaskIsAt, Carried
    <3>4. QED BY <3>1, <3>3
  <2>3. QED BY <2>1, <2>2
<1>6. ASSUME NEW o \in Offer
      PROVE  OfferIsUnseen(o)' /\ OfferHasOneAnswer(o)' /\ OfferIsTold(o)' /\ OfferIsReached(o)'
  <2>0. OfferIsUnseen(o) /\ OfferHasOneAnswer(o) /\ OfferIsTold(o) /\ OfferIsReached(o) /\ TaskIsAt(s) /\ TaskHasDone(s)
    BY <1>1
  <2>1. OfferIsUnseen(o)'
    BY <1>1, <2>0 DEF OfferIsUnseen, TaskIsAt
  <2>2. OfferHasOneAnswer(o)'
    BY <1>1, <1>4, <2>0 DEF OfferHasOneAnswer, TaskHasDone, Answers
  <2>3. OfferIsTold(o)'
    BY <1>4, <2>0 DEF OfferIsTold, TaskHasDone
  <2>4. OfferIsReached(o)'
    <3>1. CASE o = Of(s) /\ hTask[s].word # "text" /\ hFaults' = 0
      BY <1>1, <2>0, <3>1 DEF OfferIsReached, TaskHasDone, Words
    <3>2. CASE ~(o = Of(s) /\ hTask[s].word # "text")
      BY <1>2, <2>0, <3>2 DEF OfferIsReached, Answers, Of
    <3>3. QED BY <3>1, <3>2 DEF OfferIsReached
  <2>5. QED BY <2>1, <2>2, <2>3, <2>4
<1>7. QED BY <1>3, <1>5, <1>6 DEF SignalInv

(* A task goes on, changing what is recorded of its own proposal only.     *)
LEMMA TaskGoesOn ==
  ASSUME SignalInv, NEW s \in SignalMessages,
         UNCHANGED <<hPending, hKind, hToken, hTold>>,
         hFaults' \in Nat, hFaults' = 0 => hFaults = 0,
         hTask' \in [SignalMessages -> SignalTasks],
         hTask'[s].word = hTask[s].word, hTask'[s].offer = hTask[s].offer,
         \A t \in SignalMessages : t # s => hTask'[t] = hTask[t],
         hDone' \in [Offer -> Nat], hStored' \in [Offer -> {"none", "pending", "confirmed", "rejected"}], hCarded' \subseteq Offer, hSilent' \subseteq Offer,
         \A o \in Offer : o # Of(s) =>
            hDone'[o] = hDone[o] /\ hStored'[o] = hStored[o]
            /\ (o \in hCarded' <=> o \in hCarded) /\ (o \in hSilent' <=> o \in hSilent),
         TaskIsAt(s)', TaskHasDone(s)',
         Of(s) # 0 => /\ hDone'[Of(s)] <= 1
                      /\ hStored'[Of(s)] = "rejected" \/ <<Of(s), "cancelled">> \in hTold => hDone'[Of(s)] = 0
                      /\ <<Of(s), "done">> \in hTold \/ hStored'[Of(s)] = "confirmed" => Carried(Of(s))'
                      /\ hFaults' = 0 /\ Of(s) \in hSilent' => hKind[Of(s)] = "status_update",
         hTask[s].word = "text" => UNCHANGED <<hDone, hStored, hCarded, hSilent>>
  PROVE  SignalInv'
<1>1. /\ MaxOffers \in Nat /\ SignalTypeOK /\ (hFaults = 0 => hToken) /\ OffersInOrder
      /\ \A t \in SignalMessages : TaskIsAt(t) /\ TaskHasDone(t)
      /\ \A o \in Offer : OfferIsUnseen(o) /\ OfferHasOneAnswer(o) /\ OfferIsTold(o) /\ OfferIsReached(o)
      /\ \A t \in SignalMessages : hTask[t].word \in Words /\ Of(t) = hTask[t].offer /\ (Of(t) # 0 => Of(t) \in Offer)
  BY SignalFacts
<1>2. /\ Of(s)' = Of(s) /\ \A t \in SignalMessages : t # s => Of(t)' = Of(t)
      /\ \A o \in Offer, t \in SignalMessages : Answers(t, o)' <=> Answers(t, o)
  BY DEF Of, Answers
<1>3. SignalTypeOK' /\ (hFaults = 0 => hToken)' /\ OffersInOrder'
  BY <1>1 DEF SignalTypeOK, OffersInOrder
<1>4. \A o \in Offer : o # Of(s) => (Carried(o)' <=> Carried(o))
  BY DEF Carried
<1>5. ASSUME NEW t \in SignalMessages PROVE TaskIsAt(t)' /\ TaskHasDone(t)'
  <2>1. CASE t = s
    BY <2>1
  <2>2. CASE t # s
    <3>1. TaskIsAt(t)'
      BY <1>1, <2>2 DEF TaskIsAt, Of
    <3>2. hTask[t].word # "text" => Of(t) \in Offer /\ (Of(t) # Of(s) \/ UNCHANGED <<hDone, hStored, hCarded, hSilent>>)
      BY <1>1, <2>2 DEF OfferHasOneAnswer, Answers, TaskIsAt
    <3>3. hTask[t].word # "text" => /\ hDone'[Of(t)] = hDone[Of(t)] /\ hStored'[Of(t)] = hStored[Of(t)]
                                    /\ Of(t) \in hCarded' <=> Of(t) \in hCarded
                                    /\ Of(t) \in hSilent' <=> Of(t) \in hSilent
      BY <3>2
    <3>4. TaskHasDone(t)'
      BY <1>1, <1>2, <2>2, <3>3 DEF TaskHasDone, Carried, Words
    <3>5. QED BY <3>1, <3>4
  <2>3. QED BY <2>1, <2>2
<1>6. ASSUME NEW o \in Offer
      PROVE  OfferIsUnseen(o)' /\ OfferHasOneAnswer(o)' /\ OfferIsTold(o)' /\ OfferIsReached(o)'
  <2>0. OfferIsUnseen(o) /\ OfferHasOneAnswer(o) /\ OfferIsTold(o) /\ OfferIsReached(o) /\ TaskIsAt(s) /\ o # 0
    BY <1>1 DEF Offer
  <2>1. CASE o # Of(s)
    <3>1. OfferIsUnseen(o)' /\ OfferHasOneAnswer(o)' /\ OfferIsTold(o)'
      BY <1>2, <1>4, <2>0, <2>1 DEF OfferIsUnseen, OfferHasOneAnswer, OfferIsTold
    <3>2. OfferIsReached(o)'
      BY <1>2, <2>0, <2>1 DEF OfferIsReached
    <3>3. QED BY <3>1, <3>2
  <2>2. CASE o = Of(s)
    <3>1. hKind[o] # "absent"
      BY <1>1, <2>0, <2>2 DEF TaskIsAt
    <3>2. OfferIsUnseen(o)' /\ OfferIsTold(o)'
      BY <1>2, <2>0, <2>2, <3>1 DEF OfferIsUnseen, OfferIsTold
    <3>3. hTask[s].word # "text" => Answers(s, o)
      BY <2>2 DEF Answers
    <3>4. OfferHasOneAnswer(o)'
      BY <1>2, <2>0, <2>2, <3>3 DEF OfferHasOneAnswer
    <3>5. OfferIsReached(o)'
      <4>1. CASE hTask[s].word = "text"
        BY <1>2, <2>0, <4>1 DEF OfferIsReached
      <4>2. CASE hTask[s].word # "text"
        <5>1. hTask[s].word = "reject" => hDone'[o] = 0
          BY <1>2, <2>2 DEF TaskHasDone
        <5>2. QED BY <1>1, <1>2, <2>2, <3>3, <4>2, <5>1 DEF OfferIsReached, Words
      <4>3. QED BY <4>1, <4>2
    <3>6. QED BY <3>2, <3>4, <3>5
  <2>3. QED BY <2>1, <2>2
<1>7. QED BY <1>3, <1>5, <1>6 DEF SignalInv

(* The calls and writes of consent and refusal, each one a case of that.   *)
LEMMA TokenGot == ASSUME SignalInv, NEW s \in SignalMessages, _get_user_access_token(s), hToken PROVE SignalInv'
<1> DEFINE step == IF hTask[s].word = "confirm" THEN "carry_out" ELSE "assistant"
<1>1. SignalTypeOK /\ TaskIsAt(s) /\ TaskHasDone(s) /\ Of(s) = hTask[s].offer /\ hTask[s].word \in Words
      /\ (Of(s) # 0 => Of(s) \in Offer)
  BY SignalFacts
<1>2. /\ hTask[s].step = "token" /\ step \in SignalSteps /\ StepTo(s, step)
      /\ UNCHANGED <<hPending, hKind, hStored, hDone, hCarded, hSilent, hToken, hTold, hFaults>>
  BY DEF _get_user_access_token, IsAt, hOffers, hGitHub, SignalSteps
<1>3. /\ hTask' \in [SignalMessages -> SignalTasks]
      /\ hTask'[s].word = hTask[s].word /\ hTask'[s].step = step /\ hTask'[s].offer = hTask[s].offer
      /\ \A t \in SignalMessages : t # s => hTask'[t] = hTask[t]
  BY <1>1, <1>2, TaskMoves
<1>4. TaskIsAt(s)' /\ TaskHasDone(s)'
  BY <1>1, <1>2, <1>3 DEF TaskIsAt, TaskHasDone, Of, Words
<1>5. Of(s) # 0 => OfferHasOneAnswer(Of(s)) /\ OfferIsTold(Of(s))
  BY <1>1, SignalFacts
<1>6. Carried(Of(s)) => Carried(Of(s))'
  BY <1>2, <1>3 DEF Carried, Of
<1>7. QED BY <1>1, <1>2, <1>3, <1>4, <1>5, <1>6, TaskGoesOn DEF SignalTypeOK, OfferHasOneAnswer, OfferIsTold

LEMMA CarriedOut == ASSUME SignalInv, NEW s \in SignalMessages, _handle_confirm(s, TRUE) PROVE SignalInv'
<1> DEFINE step == AfterFirst(KindOf(s))
<1>1. SignalTypeOK /\ TaskIsAt(s) /\ TaskHasDone(s) /\ Of(s) = hTask[s].offer /\ hTask[s].word \in Words
      /\ (Of(s) # 0 => Of(s) \in Offer)
  BY SignalFacts
<1>2. /\ hTask[s].step = "carry_out" /\ step \in {"store", "card"} /\ StepTo(s, step)
      /\ hDone' = [hDone EXCEPT ![Of(s)] = @ + 1]
      /\ step = "store" <=> hKind[Of(s)] = "status_update"
      /\ UNCHANGED <<hPending, hKind, hStored, hCarded, hSilent, hToken, hTold, hFaults>>
  BY DEF _handle_confirm, IsAt, hOffers, AfterFirst, KindOf
<1>3. /\ hTask' \in [SignalMessages -> SignalTasks]
      /\ hTask'[s].word = hTask[s].word /\ hTask'[s].step = step /\ hTask'[s].offer = hTask[s].offer
      /\ \A t \in SignalMessages : t # s => hTask'[t] = hTask[t]
  BY <1>1, <1>2, TaskMoves DEF SignalSteps
<1>4. hTask[s].word = "confirm" /\ Of(s) \in Offer /\ Of(s) # 0 /\ hDone[Of(s)] = 0 /\ hStored[Of(s)] # "rejected"
      /\ <<Of(s), "cancelled">> \notin hTold /\ OfferIsTold(Of(s))
  BY <1>1, <1>2, SignalFacts DEF TaskIsAt, TaskHasDone, Words
<1>5. /\ hDone' \in [Offer -> Nat] /\ hDone'[Of(s)] = 1 /\ \A o \in Offer : o # Of(s) => hDone'[o] = hDone[o]
  BY <1>1, <1>2, <1>4 DEF SignalTypeOK
<1>6. TaskIsAt(s)'
  BY <1>1, <1>2, <1>3, <1>4 DEF TaskIsAt, Of
<1>7. TaskHasDone(s)'
  BY <1>2, <1>3, <1>4, <1>5 DEF TaskHasDone, Of, Carried
<1>8. Carried(Of(s)) => Carried(Of(s))'
  BY <1>2, <1>3, <1>4, <1>5 DEF Carried, Of
<1>9. QED BY <1>1, <1>2, <1>3, <1>4, <1>5, <1>6, <1>7, <1>8, TaskGoesOn DEF SignalTypeOK, OfferIsTold

LEMMA StatusNotMoved ==
  ASSUME SignalInv, NEW s \in SignalMessages, update_item_status_by_name(s) PROVE SignalInv'
<1>1. SignalTypeOK /\ TaskIsAt(s) /\ TaskHasDone(s) /\ Of(s) = hTask[s].offer /\ hTask[s].word \in Words
      /\ (Of(s) # 0 => Of(s) \in Offer)
  BY SignalFacts
<1>2. /\ hTask[s].step = "carry_out" /\ hKind[Of(s)] = "status_update" /\ StepTo(s, "store")
      /\ hSilent' = hSilent \cup {Of(s)}
      /\ UNCHANGED <<hPending, hKind, hStored, hDone, hCarded, hToken, hTold, hFaults>>
  BY DEF update_item_status_by_name, IsAt, hOffers, AfterFirst, KindOf
<1>3. /\ hTask' \in [SignalMessages -> SignalTasks]
      /\ hTask'[s].word = hTask[s].word /\ hTask'[s].step = "store" /\ hTask'[s].offer = hTask[s].offer
      /\ \A t \in SignalMessages : t # s => hTask'[t] = hTask[t]
  BY <1>1, <1>2, TaskMoves DEF SignalSteps
<1>4. hTask[s].word = "confirm" /\ Of(s) \in Offer /\ Of(s) # 0 /\ hDone[Of(s)] = 0 /\ hStored[Of(s)] # "rejected"
      /\ <<Of(s), "cancelled">> \notin hTold /\ OfferIsTold(Of(s))
  BY <1>1, <1>2, SignalFacts DEF TaskIsAt, TaskHasDone, Words
<1>5. Of(s) \in hSilent' /\ hSilent' \subseteq Offer /\ \A o \in Offer : o # Of(s) => (o \in hSilent' <=> o \in hSilent)
  BY <1>1, <1>2, <1>4 DEF SignalTypeOK
<1>6. TaskIsAt(s)'
  BY <1>1, <1>2, <1>3, <1>4 DEF TaskIsAt, Of
<1>7. TaskHasDone(s)' /\ Carried(Of(s))'
  BY <1>2, <1>3, <1>4, <1>5 DEF TaskHasDone, Of, Carried
<1>8. QED BY <1>1, <1>2, <1>3, <1>4, <1>5, <1>6, <1>7, TaskGoesOn DEF SignalTypeOK, OfferIsTold

LEMMA OfferCarded ==
  ASSUME SignalInv, NEW s \in SignalMessages, NEW added \in BOOLEAN, add_issue_to_project(s, added) PROVE SignalInv'
<1> DEFINE step == AfterCard(KindOf(s))
<1>1. SignalTypeOK /\ TaskIsAt(s) /\ TaskHasDone(s) /\ Of(s) = hTask[s].offer /\ hTask[s].word \in Words
      /\ (Of(s) # 0 => Of(s) \in Offer)
  BY SignalFacts
<1>2. /\ hTask[s].step = "card" /\ step \in {"store", "launch"} /\ StepTo(s, step)
      /\ hCarded' = IF added THEN hCarded \cup {Of(s)} ELSE hCarded
      /\ hSilent' = IF added THEN hSilent ELSE hSilent \cup {Of(s)}
      /\ hFaults' = IF added THEN hFaults ELSE hFaults + 1
      /\ step = "launch" => hKind[Of(s)] = "issue_create"
      /\ UNCHANGED <<hPending, hKind, hStored, hDone, hToken, hTold>>
  BY DEF add_issue_to_project, IsAt, hOffers, AfterCard, KindOf, GoesWell, SignalFault
<1>3. /\ hTask' \in [SignalMessages -> SignalTasks]
      /\ hTask'[s].word = hTask[s].word /\ hTask'[s].step = step /\ hTask'[s].offer = hTask[s].offer
      /\ \A t \in SignalMessages : t # s => hTask'[t] = hTask[t]
  BY <1>1, <1>2, TaskMoves DEF SignalSteps
<1>4. hTask[s].word = "confirm" /\ Of(s) \in Offer /\ Of(s) # 0 /\ hDone[Of(s)] = 1
      /\ OfferHasOneAnswer(Of(s)) /\ OfferIsTold(Of(s)) /\ hKind[Of(s)] # "status_update"
  BY <1>1, <1>2, SignalFacts DEF TaskIsAt, TaskHasDone, Words
<1>5. /\ Of(s) \in hCarded' \cup hSilent' /\ hCarded' \subseteq Offer /\ hSilent' \subseteq Offer
      /\ \A o \in Offer : o # Of(s) => (o \in hCarded' <=> o \in hCarded) /\ (o \in hSilent' <=> o \in hSilent)
      /\ hFaults' \in Nat /\ (hFaults' = 0 => hFaults = 0 /\ hSilent' = hSilent)
  BY <1>1, <1>2, <1>4 DEF SignalTypeOK
<1>6. TaskIsAt(s)'
  BY <1>1, <1>2, <1>3, <1>4 DEF TaskIsAt, Of
<1>7. TaskHasDone(s)' /\ Carried(Of(s))'
  <2>1. Carried(Of(s))'
    BY <1>2, <1>3, <1>4, <1>5 DEF Carried, Of
  <2>2. QED BY <1>1, <1>2, <1>3, <1>4, <1>5, <2>1 DEF TaskHasDone, Of
<1>8. QED BY <1>1, <1>2, <1>3, <1>4, <1>5, <1>6, <1>7, TaskGoesOn DEF SignalTypeOK, OfferHasOneAnswer, OfferIsTold

LEMMA Launched == ASSUME SignalInv, NEW s \in SignalMessages, _run_workflow_orchestration(s) PROVE SignalInv'
<1> DEFINE step == AfterLaunch(KindOf(s))
<1>1. SignalTypeOK /\ TaskIsAt(s) /\ TaskHasDone(s) /\ Of(s) = hTask[s].offer /\ hTask[s].word \in Words
      /\ (Of(s) # 0 => Of(s) \in Offer)
  BY SignalFacts
<1>2. /\ hTask[s].step = "launch" /\ step \in {"store", "message"} /\ StepTo(s, step)
      /\ step = "store" <=> hKind[Of(s)] = "issue_create"
      /\ UNCHANGED <<hPending, hKind, hStored, hDone, hCarded, hSilent, hToken, hTold, hFaults>>
  BY DEF _run_workflow_orchestration, IsAt, hOffers, hGitHub, AfterLaunch, KindOf
<1>3. /\ hTask' \in [SignalMessages -> SignalTasks]
      /\ hTask'[s].word = hTask[s].word /\ hTask'[s].step = step /\ hTask'[s].offer = hTask[s].offer
      /\ \A t \in SignalMessages : t # s => hTask'[t] = hTask[t]
  BY <1>1, <1>2, TaskMoves DEF SignalSteps
<1>4. hTask[s].word = "confirm" /\ Of(s) \in Offer /\ Of(s) # 0 /\ Carried(Of(s)) /\ hKind[Of(s)] \in {"issue_create", "task_create"}
      /\ OfferHasOneAnswer(Of(s)) /\ OfferIsTold(Of(s))
  BY <1>1, <1>2, SignalFacts DEF TaskIsAt, TaskHasDone, Words, SignalTypeOK, OfferKinds
<1>6. TaskIsAt(s)'
  BY <1>1, <1>2, <1>3, <1>4 DEF TaskIsAt, Of
<1>7. TaskHasDone(s)'
  BY <1>1, <1>2, <1>3, <1>4 DEF TaskHasDone, Of, Carried
<1>8. Carried(Of(s))'
  BY <1>2, <1>3, <1>4 DEF Carried, Of
<1>9. QED BY <1>1, <1>2, <1>3, <1>4, <1>6, <1>7, <1>8, TaskGoesOn DEF SignalTypeOK, OfferHasOneAnswer, OfferIsTold

LEMMA Confirmed ==
  ASSUME SignalInv, NEW s \in SignalMessages, NEW stored \in BOOLEAN, StoreConfirmed(s, stored) PROVE SignalInv'
<1> DEFINE step == AfterStore(KindOf(s))
<1>1. SignalTypeOK /\ TaskIsAt(s) /\ TaskHasDone(s) /\ Of(s) = hTask[s].offer /\ hTask[s].word \in Words
      /\ (Of(s) # 0 => Of(s) \in Offer)
  BY SignalFacts
<1>2. /\ hTask[s].step = "store" /\ step \in {"launch", "message"} /\ StepTo(s, step)
      /\ step = "launch" <=> hKind[Of(s)] = "task_create"
      /\ hStored' = IF stored THEN [hStored EXCEPT ![Of(s)] = "confirmed"] ELSE hStored
      /\ hFaults' = IF stored THEN hFaults ELSE hFaults + 1
      /\ UNCHANGED <<hPending, hKind, hDone, hCarded, hSilent, hToken, hTold>>
  BY DEF StoreConfirmed, IsAt, hGitHub, AfterStore, KindOf, GoesWell, SignalFault
<1>3. /\ hTask' \in [SignalMessages -> SignalTasks]
      /\ hTask'[s].word = hTask[s].word /\ hTask'[s].step = step /\ hTask'[s].offer = hTask[s].offer
      /\ \A t \in SignalMessages : t # s => hTask'[t] = hTask[t]
  BY <1>1, <1>2, TaskMoves DEF SignalSteps
<1>4. hTask[s].word = "confirm" /\ Of(s) \in Offer /\ Of(s) # 0 /\ Carried(Of(s)) /\ OfferHasOneAnswer(Of(s))
      /\ OfferIsTold(Of(s)) /\ hStored[Of(s)] # "rejected" /\ <<Of(s), "cancelled">> \notin hTold
  BY <1>1, <1>2, SignalFacts DEF TaskIsAt, TaskHasDone, Words
<1>5. /\ hStored' \in [Offer -> {"none", "pending", "confirmed", "rejected"}]
      /\ hStored'[Of(s)] = (IF stored THEN "confirmed" ELSE hStored[Of(s)])
      /\ \A o \in Offer : o # Of(s) => hStored'[o] = hStored[o]
      /\ hFaults' \in Nat /\ (hFaults' = 0 => hFaults = 0 /\ stored)
  BY <1>1, <1>2, <1>4 DEF SignalTypeOK
<1>6. TaskIsAt(s)'
  BY <1>1, <1>2, <1>3, <1>4 DEF TaskIsAt, Of
<1>7. TaskHasDone(s)'
  BY <1>2, <1>3, <1>4, <1>5 DEF TaskHasDone, Of, Carried
<1>8. Carried(Of(s))'
  BY <1>2, <1>3, <1>4 DEF Carried, Of
<1>9. QED BY <1>1, <1>2, <1>3, <1>4, <1>5, <1>6, <1>7, <1>8, TaskGoesOn DEF SignalTypeOK, OfferHasOneAnswer, OfferIsTold

LEMMA Withdrawn ==
  ASSUME SignalInv, NEW s \in SignalMessages, NEW stored \in BOOLEAN, _handle_reject(s, stored) PROVE SignalInv'
<1>1. SignalTypeOK /\ TaskIsAt(s) /\ TaskHasDone(s) /\ Of(s) = hTask[s].offer /\ hTask[s].word \in Words
      /\ (Of(s) # 0 => Of(s) \in Offer)
  BY SignalFacts
<1>2. /\ hTask[s].step = "withdraw" /\ StepTo(s, "message")
      /\ hStored' = IF stored THEN [hStored EXCEPT ![Of(s)] = "rejected"] ELSE hStored
      /\ hFaults' = IF stored THEN hFaults ELSE hFaults + 1
      /\ UNCHANGED <<hPending, hKind, hDone, hCarded, hSilent, hToken, hTold>>
  BY DEF _handle_reject, IsAt, hGitHub, GoesWell, SignalFault
<1>3. /\ hTask' \in [SignalMessages -> SignalTasks]
      /\ hTask'[s].word = hTask[s].word /\ hTask'[s].step = "message" /\ hTask'[s].offer = hTask[s].offer
      /\ \A t \in SignalMessages : t # s => hTask'[t] = hTask[t]
  BY <1>1, <1>2, TaskMoves DEF SignalSteps
<1>4. hTask[s].word = "reject" /\ Of(s) \in Offer /\ Of(s) # 0 /\ hDone[Of(s)] = 0 /\ OfferIsTold(Of(s)) /\ OfferHasOneAnswer(Of(s))
  BY <1>1, <1>2, SignalFacts DEF TaskIsAt, TaskHasDone, Words
<1>5. /\ hStored' \in [Offer -> {"none", "pending", "confirmed", "rejected"}]
      /\ hStored'[Of(s)] = (IF stored THEN "rejected" ELSE hStored[Of(s)])
      /\ \A o \in Offer : o # Of(s) => hStored'[o] = hStored[o]
      /\ hFaults' \in Nat /\ (hFaults' = 0 => hFaults = 0 /\ stored)
  BY <1>1, <1>2, <1>4 DEF SignalTypeOK
<1>6. TaskIsAt(s)'
  BY <1>1, <1>2, <1>3, <1>4 DEF TaskIsAt, Of
<1>7. TaskHasDone(s)'
  BY <1>2, <1>3, <1>4, <1>5 DEF TaskHasDone, Of
<1>8. Carried(Of(s)) => Carried(Of(s))'
  BY <1>2, <1>3, <1>4 DEF Carried, Of
<1>9. QED BY <1>1, <1>2, <1>3, <1>4, <1>5, <1>6, <1>7, <1>8, TaskGoesOn DEF SignalTypeOK, OfferHasOneAnswer, OfferIsTold

(* A call that was carried out without an answer: the task ends, the user  *)
(* is told to try again and cannot.                                        *)
LEMMA CallUnanswered == ASSUME SignalInv, NEW s \in SignalMessages, _handle_confirm(s, FALSE) PROVE SignalInv'
<1>1. /\ MaxOffers \in Nat /\ SignalTypeOK /\ OffersInOrder
      /\ \A t \in SignalMessages : TaskIsAt(t) /\ TaskHasDone(t)
      /\ \A o \in Offer : OfferIsUnseen(o) /\ OfferHasOneAnswer(o) /\ OfferIsTold(o)
      /\ \A t \in SignalMessages : hTask[t].word \in Words /\ Of(t) = hTask[t].offer /\ (Of(t) # 0 => Of(t) \in Offer)
  BY SignalFacts
<1>2. /\ hTask[s].step = "carry_out" /\ TaskEnds(s) /\ hDone' = [hDone EXCEPT ![Of(s)] = @ + 1]
      /\ hFaults' = hFaults + 1 /\ (UNCHANGED hTold \/ hTold' = hTold \cup {<<Of(s), "try_again">>})
      /\ UNCHANGED <<hPending, hKind, hStored, hCarded, hSilent, hToken>>
  BY DEF _handle_confirm, IsAt, hOffers, FailsConfirm, SignalFault, TellIf, Tell
<1>3. \A o : /\ <<o, "done">> \in hTold' <=> <<o, "done">> \in hTold
             /\ <<o, "cancelled">> \in hTold' <=> <<o, "cancelled">> \in hTold
  BY <1>2
<1>4. /\ hTask' \in [SignalMessages -> SignalTasks]
      /\ hTask'[s].word = "text" /\ hTask'[s].step = "ended" /\ hTask'[s].offer = 0
      /\ \A t \in SignalMessages : t # s => hTask'[t] = hTask[t]
  BY <1>1, <1>2, TaskMoves
<1>5. hTask[s].word = "confirm" /\ Of(s) \in Offer /\ Of(s) # 0 /\ hDone[Of(s)] = 0 /\ hStored[Of(s)] # "rejected"
      /\ <<Of(s), "cancelled">> \notin hTold /\ hKind[Of(s)] # "absent" /\ hPending # Of(s)
  BY <1>1, <1>2 DEF TaskIsAt, TaskHasDone, Words, OfferHasOneAnswer, Answers
<1>6. /\ hDone' \in [Offer -> Nat] /\ hDone'[Of(s)] = 1 /\ \A o \in Offer : o # Of(s) => hDone'[o] = hDone[o]
      /\ hFaults' \in Nat /\ hFaults' # 0
  BY <1>1, <1>2, <1>5 DEF SignalTypeOK
<1>7. SignalTypeOK' /\ (hFaults = 0 => hToken)' /\ OffersInOrder'
  BY <1>1, <1>2, <1>4, <1>6 DEF SignalTypeOK, OffersInOrder
<1>8. ASSUME NEW t \in SignalMessages PROVE TaskIsAt(t)' /\ TaskHasDone(t)'
  <2>1. CASE t = s
    BY <1>4, <2>1 DEF TaskIsAt, TaskHasDone
  <2>2. CASE t # s
    <3>1. TaskIsAt(t)'
      BY <1>1, <1>2, <1>4, <2>2 DEF TaskIsAt, Of
    <3>2. hTask[t].word # "text" => Of(t) \in Offer /\ Of(t) # Of(s)
      BY <1>1, <1>5, <2>2 DEF OfferHasOneAnswer, Answers, TaskIsAt
    <3>3. TaskHasDone(t)'
      BY <1>1, <1>2, <1>3, <1>4, <1>6, <2>2, <3>2 DEF TaskHasDone, Of, Carried, Words
    <3>4. QED BY <3>1, <3>3
  <2>3. QED BY <2>1, <2>2
<1>9. \A t \in SignalMessages, o \in Offer : Answers(t, o)' => Answers(t, o)
  BY <1>4 DEF Answers, Of
<1>10. ASSUME NEW o \in Offer
       PROVE  OfferIsUnseen(o)' /\ OfferHasOneAnswer(o)' /\ OfferIsTold(o)' /\ OfferIsReached(o)'
  <2>1. OfferIsUnseen(o)'
    BY <1>1, <1>2, <1>3, <1>5, <1>6 DEF OfferIsUnseen
  <2>2. OfferHasOneAnswer(o)'
    BY <1>1, <1>2, <1>3, <1>5, <1>6, <1>9 DEF OfferHasOneAnswer
  <2>3. OfferIsTold(o)'
    BY <1>1, <1>2, <1>3, <1>5, <1>6 DEF OfferIsTold, Carried
  <2>4. OfferIsReached(o)'
    BY <1>6 DEF OfferIsReached
  <2>5. QED BY <2>1, <2>2, <2>3, <2>4
<1>11. QED BY <1>7, <1>8, <1>10 DEF SignalInv

(* Without a session the proposal goes back into the slot.                 *)
LEMMA TokenMissed == ASSUME SignalInv, NEW s \in SignalMessages, _get_user_access_token(s), ~hToken PROVE SignalInv'
<1>1. /\ MaxOffers \in Nat /\ SignalTypeOK /\ (hFaults = 0 => hToken) /\ OffersInOrder
      /\ \A t \in SignalMessages : TaskIsAt(t) /\ TaskHasDone(t)
      /\ \A o \in Offer : OfferIsUnseen(o) /\ OfferHasOneAnswer(o) /\ OfferIsTold(o)
      /\ \A t \in SignalMessages : hTask[t].word \in Words /\ Of(t) = hTask[t].offer /\ (Of(t) # 0 => Of(t) \in Offer)
  BY SignalFacts
<1>2. /\ hTask[s].step = "token" /\ TaskEnds(s)
      /\ hPending' = IF hTask[s].word = "confirm" THEN Of(s) ELSE hPending
      /\ UNCHANGED <<hKind, hStored, hDone, hCarded, hSilent, hToken, hTold, hFaults>>
  BY DEF _get_user_access_token, IsAt, hOffers, hGitHub
<1>3. hFaults \in Nat /\ hFaults # 0
  BY <1>1 DEF SignalTypeOK
<1>4. /\ hTask' \in [SignalMessages -> SignalTasks]
      /\ hTask'[s].word = "text" /\ hTask'[s].step = "ended" /\ hTask'[s].offer = 0
      /\ \A t \in SignalMessages : t # s => hTask'[t] = hTask[t]
  BY <1>1, <1>2, TaskMoves
<1>5. hTask[s].word = "confirm" =>
         /\ Of(s) \in Offer /\ hDone[Of(s)] = 0 /\ hStored[Of(s)] # "rejected" /\ <<Of(s), "cancelled">> \notin hTold
         /\ hKind[Of(s)] # "absent" /\ Answers(s, Of(s))
  BY <1>1, <1>2 DEF TaskIsAt, TaskHasDone, Answers
<1>6. SignalTypeOK' /\ (hFaults = 0 => hToken)' /\ OffersInOrder'
  <2>1. hPending' \in 0..MaxOffers
    BY <1>1, <1>2, SignalFacts DEF SignalTypeOK
  <2>2. QED BY <1>1, <1>2, <1>3, <1>4, <2>1 DEF SignalTypeOK, OffersInOrder
<1>7. ASSUME NEW t \in SignalMessages PROVE TaskIsAt(t)' /\ TaskHasDone(t)'
  BY <1>1, <1>2, <1>4 DEF TaskIsAt, TaskHasDone, Of, Carried
<1>8. \A t \in SignalMessages, o \in Offer : Answers(t, o)' => t # s /\ Answers(t, o)
  BY <1>4 DEF Answers, Of
<1>9. ASSUME NEW o \in Offer
      PROVE  OfferIsUnseen(o)' /\ OfferHasOneAnswer(o)' /\ OfferIsTold(o)' /\ OfferIsReached(o)'
  <2>1. OfferIsUnseen(o)'
    BY <1>1, <1>2, <1>5 DEF OfferIsUnseen
  <2>2. OfferHasOneAnswer(o)'
    BY <1>1, <1>2, <1>5, <1>8 DEF OfferHasOneAnswer
  <2>3. OfferIsTold(o)' /\ OfferIsReached(o)'
    BY <1>1, <1>2, <1>3 DEF OfferIsTold, Carried, OfferIsReached
  <2>4. QED BY <2>1, <2>2, <2>3
<1>10. QED BY <1>6, <1>7, <1>9 DEF SignalInv

(* A word takes the proposal out of the slot; a text leaves it there.      *)
LEMMA WordTakes ==
  ASSUME SignalInv, NEW s \in SignalMessages, NEW word \in Words, process_signal_chat(s, word) PROVE SignalInv'
<1>1. /\ MaxOffers \in Nat /\ SignalTypeOK /\ (hFaults = 0 => hToken) /\ OffersInOrder
      /\ \A t \in SignalMessages : TaskIsAt(t) /\ TaskHasDone(t)
      /\ \A o \in Offer : OfferIsUnseen(o) /\ OfferHasOneAnswer(o) /\ OfferIsTold(o) /\ OfferIsReached(o)
      /\ \A t \in SignalMessages : hTask[t].word \in Words /\ Of(t) = hTask[t].offer /\ (Of(t) # 0 => Of(t) \in Offer)
      /\ hPending \in 0..MaxOffers /\ (hPending # 0 => hPending \in Offer)
  BY SignalFacts DEF SignalTypeOK, Offer
<1>2. hTask[s].step = "unsent" /\ hTask[s].word = "text" /\ hTask[s].offer = 0
      /\ UNCHANGED <<hKind, hStored, hDone, hCarded, hSilent, hToken, hTold, hFaults>>
  BY <1>1 DEF process_signal_chat, IsAt, hOffers, hGitHub, TaskIsAt, Words
<1>3. \A w \in Words, step \in SignalSteps, o \in 0..MaxOffers : hTask' = [hTask EXCEPT ![s] = Sent(w, step, o)] =>
        /\ hTask' \in [SignalMessages -> SignalTasks]
        /\ hTask'[s].word = w /\ hTask'[s].step = step /\ hTask'[s].offer = o
        /\ \A t \in SignalMessages : t # s => hTask'[t] = hTask[t]
  BY <1>1 DEF SignalTypeOK, Sent, SignalTasks
<1>4. CASE ~(word \in {"confirm", "reject"} /\ hPending # NoOffer)
  <2>1. PICK step \in {"agent_command", "token"} : hTask' = [hTask EXCEPT ![s] = Sent("text", step, NoOffer)] /\ UNCHANGED hPending
    BY <1>4 DEF process_signal_chat
  <2>2. /\ hTask' \in [SignalMessages -> SignalTasks]
        /\ hTask'[s].word = "text" /\ hTask'[s].step = step /\ hTask'[s].offer = 0
        /\ \A t \in SignalMessages : t # s => hTask'[t] = hTask[t]
    <3>1. NoOffer = 0 /\ 0 \in 0..MaxOffers /\ "text" \in Words /\ step \in SignalSteps
      BY <1>1 DEF Words, SignalSteps, NoOffer
    <3>2. QED BY <1>3, <2>1, <3>1
  <2>3. TaskIsAt(s)' /\ TaskHasDone(s)'
    BY <2>2 DEF TaskIsAt, TaskHasDone
  <2>4. QED BY <1>1, <1>2, <2>1, <2>2, <2>3, TaskGoesOn DEF SignalTypeOK
<1>5. CASE word \in {"confirm", "reject"} /\ hPending # NoOffer
  <2> DEFINE step == IF word = "confirm" THEN "token" ELSE "withdraw"
  <2>1. hPending' = 0 /\ hTask' = [hTask EXCEPT ![s] = Sent(word, step, hPending)]
    BY <1>5 DEF process_signal_chat, OnConfirm, TakesPending, NoOffer
  <2>2. /\ hTask' \in [SignalMessages -> SignalTasks]
        /\ hTask'[s].word = word /\ hTask'[s].step = step /\ hTask'[s].offer = hPending
        /\ \A t \in SignalMessages : t # s => hTask'[t] = hTask[t]
    BY <1>1, <1>3, <2>1 DEF SignalSteps
  <2> HIDE DEF step
  <2>3. hPending \in Offer /\ hPending # 0 /\ hKind[hPending] # "absent" /\ hDone[hPending] = 0 /\ hStored[hPending] # "rejected"
        /\ <<hPending, "cancelled">> \notin hTold /\ \A t \in SignalMessages : ~Answers(t, hPending)
    BY <1>1, <1>5 DEF NoOffer, OfferIsUnseen, OfferHasOneAnswer
  <2>4. SignalTypeOK' /\ (hFaults = 0 => hToken)' /\ OffersInOrder'
    BY <1>1, <1>2, <2>1, <2>2 DEF SignalTypeOK, OffersInOrder
  <2>5. ASSUME NEW t \in SignalMessages PROVE TaskIsAt(t)' /\ TaskHasDone(t)'
    <3>1. CASE t = s
      BY <1>2, <1>5, <2>2, <2>3, <3>1 DEF TaskIsAt, TaskHasDone, Of, step
    <3>2. CASE t # s
      BY <1>1, <1>2, <2>2, <3>2 DEF TaskIsAt, TaskHasDone, Of, Carried
    <3>3. QED BY <3>1, <3>2
  <2>6. \A t \in SignalMessages, o \in Offer : Answers(t, o)' <=> Answers(t, o) \/ (t = s /\ o = hPending)
    <3>1. ~(word = "text")
      BY <1>5
    <3>2. \A t \in SignalMessages, o \in Offer : t # s => (Answers(t, o)' <=> Answers(t, o))
      BY <2>2 DEF Answers, Of
    <3>3. \A o \in Offer : (Answers(s, o)' <=> o = hPending) /\ ~Answers(s, o)
      BY <1>2, <2>2, <3>1 DEF Answers, Of
    <3>4. QED BY <3>2, <3>3
  <2>7. ASSUME NEW o \in Offer
        PROVE  OfferIsUnseen(o)' /\ OfferHasOneAnswer(o)' /\ OfferIsTold(o)' /\ OfferIsReached(o)'
    <3>0. o # 0 /\ OfferIsUnseen(o) /\ OfferHasOneAnswer(o) /\ OfferIsTold(o) /\ OfferIsReached(o)
      BY <1>1 DEF Offer
    <3>1. OfferIsUnseen(o)' /\ OfferIsTold(o)'
      BY <1>2, <2>1, <3>0 DEF OfferIsUnseen, OfferIsTold, Carried
    <3>2. OfferHasOneAnswer(o)'
      <4>1. \A t, u \in SignalMessages : Answers(t, o)' /\ Answers(u, o)' => t = u
        BY <2>3, <2>6, <3>0 DEF OfferHasOneAnswer
      <4>2. QED BY <1>2, <2>1, <3>0, <4>1 DEF OfferHasOneAnswer
    <3>3. OfferIsReached(o)'
      <4>1. (\E t \in SignalMessages : Of(t) = o /\ hTask[t].word = "confirm") =>
               \E t \in SignalMessages : (Of(t) = o /\ hTask[t].word = "confirm")'
        BY <1>2, <2>2 DEF Of
      <4>2. hPending = o => \E t \in SignalMessages : Answers(t, o)'
        BY <2>6
      <4>3. (\E t \in SignalMessages : Answers(t, o)) => \E t \in SignalMessages : Answers(t, o)'
        BY <2>6
      <4>4. QED BY <1>2, <3>0, <4>1, <4>2, <4>3 DEF OfferIsReached
    <3>4. QED BY <3>1, <3>2, <3>3
  <2>8. QED BY <2>4, <2>5, <2>7 DEF SignalInv
<1>6. QED BY <1>4, <1>5

(* The next proposal is newer than all there are.                          *)
LEMMA NextIsNewest ==
  ASSUME SignalInv, \E o \in Offer : hKind[o] = "absent"
  PROVE  /\ NextOffer \in Offer /\ hKind[NextOffer] = "absent"
         /\ \A o \in Offer : hKind[o] # "absent" => o < NextOffer
         /\ \A o \in Offer : o < NextOffer => hKind[o] # "absent"
<1>1. MaxOffers \in Nat /\ OffersInOrder
  BY SignalFacts
<1>2. PICK n \in 0..MaxOffers : \A o \in Offer : hKind[o] # "absent" <=> o <= n
  BY <1>1 DEF OffersInOrder
<1>3. n + 1 \in Offer /\ hKind[n + 1] = "absent" /\ \A p \in Offer : hKind[p] = "absent" => n + 1 <= p
  BY <1>1, <1>2 DEF Offer
<1>4. NextOffer \in Offer /\ hKind[NextOffer] = "absent" /\ \A p \in Offer : hKind[p] = "absent" => NextOffer <= p
  BY <1>3 DEF NextOffer
<1>5. NextOffer = n + 1
  BY <1>1, <1>2, <1>3, <1>4 DEF Offer
<1>6. QED BY <1>1, <1>2, <1>3, <1>5 DEF Offer

LEMMA OfferMade ==
  ASSUME SignalInv, NEW s \in SignalMessages, NEW kind \in OfferKinds, _run_ai_pipeline(s, kind) PROVE SignalInv'
<1> DEFINE new == NextOffer
<1>1. /\ MaxOffers \in Nat /\ SignalTypeOK /\ (hFaults = 0 => hToken) /\ OffersInOrder
      /\ \A t \in SignalMessages : TaskIsAt(t) /\ TaskHasDone(t)
      /\ \A o \in Offer : OfferIsUnseen(o) /\ OfferHasOneAnswer(o) /\ OfferIsTold(o) /\ OfferIsReached(o)
      /\ \A t \in SignalMessages : hTask[t].word \in Words /\ Of(t) = hTask[t].offer /\ (Of(t) # 0 => Of(t) \in Offer)
  BY SignalFacts
<1>2. /\ new \in Offer /\ hKind[new] = "absent" /\ new # 0 /\ new \in 0..MaxOffers
      /\ \A o \in Offer : hKind[o] # "absent" => o < new
      /\ \A o \in Offer : o < new => hKind[o] # "absent"
  BY <1>1, NextIsNewest DEF _run_ai_pipeline, Offer
<1>3. /\ hTask[s].step = "assistant" /\ hKind' = [hKind EXCEPT ![new] = kind] /\ hStored' = [hStored EXCEPT ![new] = "pending"]
      /\ hPending' = new /\ hTask' = [hTask EXCEPT ![s] = Sent("text", "message", new)]
      /\ UNCHANGED <<hDone, hCarded, hSilent, hToken, hTold, hFaults>>
  BY DEF _run_ai_pipeline, IsAt, hGitHub
<1> HIDE DEF new
<1>4. /\ hTask[s].word = "text" /\ hTask[s].offer = 0
      /\ hTask' \in [SignalMessages -> SignalTasks]
      /\ hTask'[s].word = "text" /\ hTask'[s].step = "message" /\ hTask'[s].offer = new
      /\ \A t \in SignalMessages : t # s => hTask'[t] = hTask[t]
  BY <1>1, <1>2, <1>3 DEF SignalTypeOK, Sent, SignalTasks, Words, SignalSteps, TaskIsAt
<1>5. /\ hKind' \in [Offer -> OfferKinds \cup {"absent"}] /\ hKind'[new] # "absent"
      /\ \A o \in Offer : o # new => hKind'[o] = hKind[o]
      /\ hStored' \in [Offer -> {"none", "pending", "confirmed", "rejected"}] /\ hStored'[new] = "pending"
      /\ \A o \in Offer : o # new => hStored'[o] = hStored[o]
  BY <1>1, <1>2, <1>3 DEF SignalTypeOK, OfferKinds
<1>6. /\ \A t \in SignalMessages : Of(t) # new
      /\ hDone[new] = 0 /\ hPending # new /\ <<new, "done">> \notin hTold /\ <<new, "cancelled">> \notin hTold
      /\ new \notin hSilent
  BY <1>1, <1>2 DEF TaskIsAt, OfferIsUnseen
<1>7. SignalTypeOK' /\ (hFaults = 0 => hToken)'
  BY <1>1, <1>2, <1>3, <1>4, <1>5 DEF SignalTypeOK
<1>8. OffersInOrder'
  <2>1. \A o \in Offer : hKind'[o] # "absent" <=> o <= new
    BY <1>1, <1>2, <1>5 DEF Offer
  <2>2. QED BY <1>2, <2>1 DEF OffersInOrder
<1>9. ASSUME NEW t \in SignalMessages PROVE TaskIsAt(t)' /\ TaskHasDone(t)'
  <2>1. CASE t = s
    BY <1>2, <1>4, <1>5, <2>1 DEF TaskIsAt, TaskHasDone, Of
  <2>2. CASE t # s
    <3>1. Of(t) # new /\ Of(t)' = Of(t) /\ (Of(t) # 0 => Of(t) \in Offer)
      BY <1>1, <1>4, <1>6, <2>2 DEF Of
    <3>2. Of(t) # 0 => hKind'[Of(t)] = hKind[Of(t)] /\ hStored'[Of(t)] = hStored[Of(t)]
      BY <1>5, <3>1
    <3>3. TaskIsAt(t)'
      BY <1>1, <1>4, <2>2, <3>1, <3>2 DEF TaskIsAt
    <3>4. TaskHasDone(t)'
      BY <1>1, <1>3, <1>4, <2>2, <3>1, <3>2 DEF TaskIsAt, TaskHasDone, Carried, Words
    <3>5. QED BY <3>3, <3>4
  <2>3. QED BY <2>1, <2>2
<1>10. \A t \in SignalMessages, o \in Offer : Answers(t, o)' <=> Answers(t, o)
  BY <1>4 DEF Answers, Of
<1>11. ASSUME NEW o \in Offer
       PROVE  OfferIsUnseen(o)' /\ OfferHasOneAnswer(o)' /\ OfferIsTold(o)' /\ OfferIsReached(o)'
  <2>0. OfferIsUnseen(o) /\ OfferHasOneAnswer(o) /\ OfferIsTold(o) /\ OfferIsReached(o)
    BY <1>1
  <2>1. CASE o = new
    <3>1. OfferIsUnseen(o)' /\ OfferIsTold(o)'
      BY <1>3, <1>5, <1>6, <2>1 DEF OfferIsUnseen, OfferIsTold
    <3>2. OfferHasOneAnswer(o)'
      BY <1>3, <1>5, <1>6, <1>10, <2>0, <2>1 DEF OfferHasOneAnswer, Answers
    <3>3. OfferIsReached(o)'
      BY <1>3, <1>6, <2>1 DEF OfferIsReached
    <3>4. QED BY <3>1, <3>2, <3>3
  <2>2. CASE o # new
    <3>1. OfferIsUnseen(o)' /\ OfferIsTold(o)'
      BY <1>3, <1>5, <2>0, <2>2 DEF OfferIsUnseen, OfferIsTold, Carried
    <3>2. OfferHasOneAnswer(o)'
      BY <1>3, <1>5, <1>10, <2>0, <2>2 DEF OfferHasOneAnswer
    <3>3. OfferIsReached(o)'
      <4>1. (\E t \in SignalMessages : Of(t) = o /\ hTask[t].word = "confirm") =>
               \E t \in SignalMessages : (Of(t) = o /\ hTask[t].word = "confirm")'
        BY <1>4 DEF Of
      <4>2. hStored[o] = "pending" => \E newer \in Offer : newer > o /\ hKind'[newer] # "absent"
        <5>1. hStored[o] = "pending" => new > o
          BY <1>1, <1>2, <2>0 DEF OfferIsUnseen, Offer
        <5>2. QED BY <1>2, <1>5, <5>1
      <4>3. QED BY <1>3, <1>5, <2>0, <2>2, <4>1, <4>2 DEF OfferIsReached
    <3>4. QED BY <3>1, <3>2, <3>3
  <2>3. QED BY <2>1, <2>2
<1>12. QED BY <1>7, <1>8, <1>9, <1>11 DEF SignalInv

LEMMA SignalRestarted == ASSUME SignalInv, RestartInSignal PROVE SignalInv'
<1>1. /\ MaxOffers \in Nat /\ SignalTypeOK /\ OffersInOrder
      /\ \A t \in SignalMessages : TaskIsAt(t) /\ TaskHasDone(t)
      /\ \A o \in Offer : OfferIsUnseen(o) /\ OfferHasOneAnswer(o) /\ OfferIsTold(o)
  BY SignalFacts
<1>2. /\ hPending' = 0 /\ hFaults' = hFaults + 1
      /\ hTask' = [s \in SignalMessages |-> IF hTask[s].step = "unsent" THEN hTask[s] ELSE Ended]
      /\ UNCHANGED <<hKind, hStored, hDone, hCarded, hSilent, hToken, hTold>>
  BY DEF RestartInSignal, SignalFault, IsAt, hOffers, hGitHub, NoOffer
<1>3. Ended \in SignalTasks /\ Ended.word = "text" /\ Ended.step = "ended" /\ Ended.offer = 0
  BY <1>1 DEF Ended, Sent, SignalTasks, Words, SignalSteps, NoOffer
<1>4. /\ hTask' \in [SignalMessages -> SignalTasks] /\ hFaults' \in Nat /\ hFaults' # 0
      /\ \A t \in SignalMessages : hTask'[t].word = "text" /\ hTask'[t].offer = 0 /\ hTask'[t].step \in {"unsent", "ended"}
  BY <1>1, <1>2, <1>3 DEF SignalTypeOK, TaskIsAt, SignalTasks, Words
<1>5. SignalTypeOK' /\ (hFaults = 0 => hToken)' /\ OffersInOrder'
  BY <1>1, <1>2, <1>4 DEF SignalTypeOK, OffersInOrder
<1>6. \A t \in SignalMessages : TaskIsAt(t)' /\ TaskHasDone(t)'
  BY <1>4 DEF TaskIsAt, TaskHasDone
<1>7. \A t \in SignalMessages, o \in Offer : ~Answers(t, o)'
  BY <1>4 DEF Answers
<1>8. ASSUME NEW o \in Offer
      PROVE  OfferIsUnseen(o)' /\ OfferHasOneAnswer(o)' /\ OfferIsTold(o)' /\ OfferIsReached(o)'
  <2>1. o # 0 /\ OfferIsUnseen(o) /\ OfferHasOneAnswer(o) /\ OfferIsTold(o)
    BY <1>1 DEF Offer
  <2>2. OfferHasOneAnswer(o)'
    BY <1>2, <1>7, <2>1 DEF OfferHasOneAnswer
  <2>3. QED BY <1>2, <1>4, <2>1, <2>2 DEF OfferIsUnseen, OfferIsTold, Carried, OfferIsReached
<1>9. QED BY <1>5, <1>6, <1>8 DEF SignalInv

LEMMA SessionChanges == ASSUME SignalInv, SessionEnds \/ LogsIn \/ UNCHANGED hVars PROVE SignalInv'
<1>1. /\ SignalTypeOK /\ (hFaults = 0 => hToken) /\ OffersInOrder
      /\ \A t \in SignalMessages : TaskIsAt(t) /\ TaskHasDone(t)
      /\ \A o \in Offer : OfferIsUnseen(o) /\ OfferHasOneAnswer(o) /\ OfferIsTold(o) /\ OfferIsReached(o)
  BY SignalFacts
<1>2. /\ hToken' \in BOOLEAN /\ hFaults' \in Nat /\ (hFaults' = 0 => hFaults = 0 /\ hToken')
      /\ UNCHANGED <<hPending, hKind, hStored, hDone, hCarded, hSilent, hTask, hTold>>
  <2>1. CASE SessionEnds
    <3>1. hToken' \in BOOLEAN
      BY <2>1 DEF SessionEnds
    <3>2. hFaults' = hFaults + 1 /\ UNCHANGED <<hPending, hKind, hStored, hDone, hCarded, hSilent, hTask, hTold>>
      BY <2>1 DEF SessionEnds, SignalFault, hOffers, hGitHub
    <3>3. hFaults' \in Nat /\ hFaults' # 0
      BY <1>1, <3>2 DEF SignalTypeOK
    <3>4. QED BY <3>1, <3>2, <3>3
  <2>2. CASE LogsIn
    BY <1>1, <2>2 DEF LogsIn, hOffers, hGitHub, SignalTypeOK
  <2>3. CASE UNCHANGED hVars
    BY <1>1, <2>3 DEF hVars, SignalTypeOK
  <2>4. QED BY <2>1, <2>2, <2>3
<1>3. SignalTypeOK' /\ (hFaults = 0 => hToken)' /\ OffersInOrder'
  BY <1>1, <1>2 DEF SignalTypeOK, OffersInOrder
<1>4. \A t \in SignalMessages : TaskIsAt(t)' /\ TaskHasDone(t)'
  BY <1>1, <1>2 DEF TaskIsAt, TaskHasDone, Of, Carried
<1>5. \A o \in Offer : OfferIsUnseen(o)' /\ OfferHasOneAnswer(o)' /\ OfferIsTold(o)' /\ OfferIsReached(o)'
  <2>1. \A o \in Offer, t \in SignalMessages : (Answers(t, o)' <=> Answers(t, o)) /\ Of(t)' = Of(t)
    BY <1>2 DEF Answers, Of
  <2>2. ASSUME NEW o \in Offer PROVE OfferIsUnseen(o)' /\ OfferIsTold(o)' /\ OfferHasOneAnswer(o)'
    BY <1>1, <1>2, <2>1 DEF OfferIsUnseen, OfferHasOneAnswer, OfferIsTold, Carried
  <2>3. ASSUME NEW o \in Offer PROVE OfferIsReached(o)'
    BY <1>1, <1>2, <2>1 DEF OfferIsReached
  <2>4. QED BY <2>2, <2>3
<1>6. QED BY <1>3, <1>4, <1>5 DEF SignalInv

(* The ends of a task that the lemma on them covers.                       *)
LEMMA TaskEndsSomehow ==
  ASSUME SignalInv, NEW s \in SignalMessages, NEW fine \in BOOLEAN,
         \/ ToAgentCommand(s) \/ OnlyAnswers(s) \/ TurnFails(s)
         \/ ConfirmFails(s, fine) \/ ProposalExpired(s, fine)
         \/ SaysDone(s, fine) \/ SaysCancelled(s, fine) \/ ShowsOffer(s, fine)
  PROVE  SignalInv'
<1>1. SignalTypeOK /\ TaskIsAt(s) /\ hTask[s].word \in Words
  BY SignalFacts
<1>2. CASE ToAgentCommand(s) \/ OnlyAnswers(s) \/ TurnFails(s)
  <2>1. /\ TaskEnds(s) /\ UNCHANGED <<hPending, hKind, hStored, hDone, hCarded, hSilent, hToken, hTold>>
        /\ hFaults' \in Nat /\ (hFaults' = 0 => hFaults = 0 /\ hTask[s].step \in {"agent_command", "assistant"})
    BY <1>1, <1>2 DEF ToAgentCommand, OnlyAnswers, TurnFails, SignalFault, hOffers, hGitHub, SignalTypeOK, IsAt
  <2>2. QED BY <1>1, <2>1, TaskIsOver DEF TaskIsAt, Words
<1>3. CASE ConfirmFails(s, fine) \/ ProposalExpired(s, fine)
  <2>1. /\ TaskEnds(s) /\ UNCHANGED <<hPending, hKind, hStored, hDone, hCarded, hSilent, hToken>>
        /\ hFaults' \in Nat /\ hFaults' # 0
        /\ UNCHANGED hTold \/ \E what \in {"try_again", "expired"} : hTold' = hTold \cup {<<Of(s), what>>}
    BY <1>1, <1>3 DEF ConfirmFails, ProposalExpired, FailsConfirm, SignalFault, hOffers, hGitHub, SignalTypeOK, TellIf, Tell
  <2>2. \A o : /\ <<o, "done">> \in hTold' => <<o, "done">> \in hTold
               /\ <<o, "cancelled">> \in hTold' => <<o, "cancelled">> \in hTold
    BY <2>1
  <2>3. QED BY <2>1, <2>2, TaskIsOver
<1>4. CASE SaysDone(s, fine) \/ SaysCancelled(s, fine) \/ ShowsOffer(s, fine)
  <2>1. /\ TaskEnds(s) /\ UNCHANGED <<hPending, hKind, hStored, hDone, hCarded, hSilent, hToken, hFaults>>
        /\ hTask[s].step = "message"
        /\ \/ UNCHANGED hTold
           \/ hTold' = hTold \cup {<<Of(s), "done">>} /\ hTask[s].word = "confirm"
           \/ hTold' = hTold \cup {<<Of(s), "cancelled">>} /\ hTask[s].word = "reject"
           \/ hTold' = hTold \cup {<<Of(s), "offered">>}
    BY <1>4 DEF SaysDone, SaysCancelled, ShowsOffer, hOffers, hGitHub, TellIf, Tell, IsAt
  <2>2. \A o : /\ <<o, "done">> \in hTold' => <<o, "done">> \in hTold \/ (o = Of(s) /\ hTask[s].word = "confirm")
               /\ <<o, "cancelled">> \in hTold' => <<o, "cancelled">> \in hTold \/ (o = Of(s) /\ hTask[s].word = "reject")
    BY <2>1
  <2>3. hFaults' \in Nat
    BY <1>1, <2>1 DEF SignalTypeOK
  <2>4. QED BY <2>1, <2>2, <2>3, TaskIsOver
<1>5. QED BY <1>2, <1>3, <1>4

LEMMA SignalKept == SignalInv /\ [SignalNext]_hVars => SignalInv'
<1> SUFFICES ASSUME SignalInv, [SignalNext]_hVars PROVE SignalInv'
  OBVIOUS
<1>1. ASSUME NEW s \in SignalMessages, NEW fine \in BOOLEAN, _handle_confirm(s, fine) PROVE SignalInv'
  BY <1>1, CarriedOut, CallUnanswered
<1>2. ASSUME NEW s \in SignalMessages, _get_user_access_token(s) PROVE SignalInv'
  BY <1>2, TokenGot, TokenMissed
<1>3. ASSUME NEW s \in SignalMessages, ToAgentCommand(s) \/ OnlyAnswers(s) \/ TurnFails(s) PROVE SignalInv'
  BY <1>3, TaskEndsSomehow
<1>4. CASE SessionEnds \/ LogsIn \/ UNCHANGED hVars
  BY <1>4, SessionChanges
<1>5. CASE RestartInSignal
  BY <1>5, SignalRestarted
<1>6. QED
  BY <1>1, <1>2, <1>3, <1>4, <1>5, WordTakes, StatusNotMoved, OfferCarded, Launched, OfferMade, Confirmed, Withdrawn, TaskEndsSomehow
     DEF SignalNext

(* Over Signal a proposal has one answer and is carried out once at most;  *)
(* what is reported or stored as done was carried out, except for a move   *)
(* on the board that failed without a word; and while nothing fails no     *)
(* proposal is lost (process_signal_chat, _handle_confirm, _handle_reject, *)
(* _run_ai_pipeline).                                                      *)
THEOREM ConversationKept == SignalSpec => []ConversationHolds
<1>1. SignalInv => ConversationHolds
  <2> SUFFICES ASSUME SignalInv PROVE ConversationHolds
    OBVIOUS
  <2>1. \A o \in Offer : OfferHasOneAnswer(o) /\ OfferIsTold(o) /\ OfferIsReached(o)
    BY DEF SignalInv
  <2>2. AnsweredOnce
    BY <2>1 DEF OfferHasOneAnswer, AnsweredOnce
  <2>3. ToldUnlessSilent
    BY <2>1 DEF OfferIsTold, OfferIsReached, ToldUnlessSilent, Reported, Carried, Answers
  <2>4. QED BY <2>2, <2>3 DEF ConversationHolds
<1>2. QED BY SignalStart, SignalKept, <1>1, PTL DEF SignalSpec

---------------------------------------------------------------------------
(* Sessions.  An action lies in the slot of a session only while the run   *)
(* whose tool left it is at work in that session, unless a run of the      *)
(* session failed; and two runs at work in one session both count as       *)
(* sharing it.  A session that is made for a full map follows the leaving  *)
(* of one at least, since among the last uses of its keys there is a least.*)
RunRecordsOf == [at : {"idle", "chat", "plan"}, session : 0..MaxMade, key : Keys, shared : BOOLEAN, acted : BOOLEAN]
SessionsTypeOK ==
    /\ nEntry \in [Keys -> 0..MaxMade] /\ nUsed \in [Keys -> Nat] /\ nMade \in 0..MaxMade
    /\ nSlot \in [1..MaxMade -> Runs \cup {"none"}]
    /\ nRun \in [Runs -> RunRecordsOf]
    /\ nGot \in [Runs -> {"none", "own", "shared", "foreign"}]
Entries == {k \in Keys : nEntry[k] # 0}
AtWork(r, m) == nRun[r].at # "idle" /\ nRun[r].session = m
RunHasSession(r) == nRun[r].at # "idle" => nRun[r].session \in 1..MaxMade
SlotIsHeld(m) ==
    m \notin nStuck /\ nSlot[m] # "none" => nSlot[m] \in Runs /\ AtWork(nSlot[m], m) /\ nRun[nSlot[m]].acted
SharersKnow ==
    \A r, s \in Runs, m \in 1..MaxMade : r # s /\ AtWork(r, m) /\ AtWork(s, m) => nRun[r].shared
SessionsInv ==
    /\ SessionsTypeOK /\ (\A r \in Runs : RunHasSession(r)) /\ (\A m \in 1..MaxMade : SlotIsHeld(m)) /\ SharersKnow
    /\ SessionsBounded /\ ActionIsOwn

(* Among the keys of a set that is not empty one was used least lately.    *)
LEMMA LeastUsed ==
  ASSUME nUsed \in [Keys -> Nat], NEW S, S \subseteq Keys, S # {}
  PROVE  \E k \in S : \A x \in S : nUsed[k] <= nUsed[x]
<1> DEFINE T == {nUsed[k] : k \in S}
<1>1. T \subseteq Nat /\ T # {}
  OBVIOUS
<1>2. \E n \in T : \A i \in T : ~(<<i, n>> \in OpToRel(<, Nat))
  BY <1>1, NatLessThanWellFounded, WFMin
<1>3. PICK n \in T : \A i \in T : ~(<<i, n>> \in OpToRel(<, Nat))
  BY <1>2
<1>4. \A i \in T : ~(i < n)
  BY <1>1, <1>3 DEF OpToRel
<1>5. PICK k \in S : n = nUsed[k]
  OBVIOUS
<1>6. \A x \in S : nUsed[k] <= nUsed[x]
  BY <1>1, <1>4, <1>5
<1>7. QED BY <1>6

LEMMA KeysFinite ==
  /\ IsFiniteSet(Keys) /\ Cardinality(Keys) \in Nat
  /\ \A S \in SUBSET Keys : IsFiniteSet(S) /\ Cardinality(S) \in Nat
<1>1. IsFiniteSet(Keys)
  BY ChatSessionsAssumption, FS_AddElement DEF Keys
<1>2. QED BY <1>1, FS_Subset, FS_CardinalityType

LEMMA SessionsStart == ChatSessionsInit => SessionsInv
<1> SUFFICES ASSUME ChatSessionsInit PROVE SessionsInv
  OBVIOUS
<1>1. MaxMade \in Nat /\ MaxAgentSessions \in Nat
  BY ChatSessionsAssumption
<1>2. NoRun \in RunRecordsOf /\ NoRun.at = "idle"
  BY <1>1 DEF NoRun, RunRecordsOf, Keys
<1>3. SessionsTypeOK
  BY <1>1, <1>2 DEF ChatSessionsInit, SessionsTypeOK
<1>4. (\A r \in Runs : RunHasSession(r)) /\ (\A m \in 1..MaxMade : SlotIsHeld(m)) /\ SharersKnow
  BY <1>2 DEF ChatSessionsInit, RunHasSession, SlotIsHeld, SharersKnow, AtWork
<1>5. SessionsBounded
  <2>1. {k \in Keys : nEntry[k] # 0} = {}
    BY DEF ChatSessionsInit
  <2>2. QED BY <1>1, <2>1, FS_EmptySet DEF SessionsBounded
<1>6. ActionIsOwn
  BY DEF ActionIsOwn, ChatSessionsInit
<1>7. QED BY <1>3, <1>4, <1>5, <1>6 DEF SessionsInv

(* What the map holds after a run has asked for its session is bounded: no *)
(* more than it held, or one more than was left of a map with room.        *)
LEMMA RoomForOne ==
  ASSUME SessionsInv, NEW k \in Keys, k \notin FreshKeys
  PROVE  Cardinality((FreshKeys \ _evict_oldest) \cup {k}) <= MaxAgentSessions
<1> DEFINE kept == FreshKeys \ _evict_oldest
<1>1. MaxAgentSessions \in Nat \ {0} /\ FreshKeys \subseteq Entries /\ Entries \subseteq Keys /\ nUsed \in [Keys -> Nat]
  BY ChatSessionsAssumption DEF FreshKeys, Entries, SessionsInv, SessionsTypeOK
<1>2. Cardinality(Entries) <= MaxAgentSessions
  BY DEF SessionsInv, SessionsBounded, Entries
<1>3. /\ IsFiniteSet(FreshKeys) /\ IsFiniteSet(Entries) /\ IsFiniteSet(kept)
      /\ Cardinality(FreshKeys) \in Nat /\ Cardinality(Entries) \in Nat /\ Cardinality(kept) \in Nat
  BY <1>1, KeysFinite
<1>4. Cardinality(FreshKeys) <= MaxAgentSessions
  <2>1. Cardinality(FreshKeys) <= Cardinality(Entries)
    BY <1>1, <1>3, FS_Subset
  <2>2. QED BY <1>1, <1>2, <1>3, <2>1
<1>5. Cardinality(kept) < MaxAgentSessions
  <2>1. CASE ~(Cardinality(FreshKeys) >= MaxAgentSessions)
    <3>1. kept = FreshKeys
      BY <2>1 DEF _evict_oldest
    <3>2. Cardinality(FreshKeys) < MaxAgentSessions
      BY <1>1, <1>3, <2>1
    <3> HIDE DEF kept
    <3>3. QED BY <3>1, <3>2
  <2>2. CASE Cardinality(FreshKeys) >= MaxAgentSessions
    <3>1. FreshKeys # {}
      BY <1>1, <2>2, FS_EmptySet
    <3>2. PICK e \in FreshKeys : \A x \in FreshKeys : nUsed[e] <= nUsed[x]
      BY <1>1, <3>1, LeastUsed
    <3>3. e \notin kept /\ kept \subseteq FreshKeys /\ kept # FreshKeys
      BY <2>2, <3>2 DEF _evict_oldest
    <3>4. Cardinality(kept) < Cardinality(FreshKeys)
      BY <1>3, <3>3, FS_Subset
    <3>5. QED BY <1>1, <1>3, <1>4, <3>4
  <2>3. QED BY <2>1, <2>2
<1>6. k \notin kept
  OBVIOUS
<1>7. Cardinality(kept \cup {k}) = Cardinality(kept) + 1
  BY <1>3, <1>6, FS_AddElement
<1>8. QED BY <1>1, <1>3, <1>5, <1>7

(* A run that asks for its session, kept or new.                           *)
LEMMA RunStarted ==
  ASSUME SessionsInv, NEW r \in Runs, NEW k \in Keys, NEW at \in {"chat", "plan"}, get_or_create(r, k, at)
  PROVE  SessionsInv'
<1>1. /\ SessionsTypeOK /\ (\A s \in Runs : RunHasSession(s)) /\ (\A m \in 1..MaxMade : SlotIsHeld(m)) /\ SharersKnow
      /\ SessionsBounded /\ ActionIsOwn /\ MaxMade \in Nat
  BY ChatSessionsAssumption DEF SessionsInv
<1>2. \E session \in 1..MaxMade, kept \in SUBSET FreshKeys :
         /\ StartRun(r, k, at, session, kept) /\ nMade' \in 0..MaxMade
         /\ Cardinality(kept \cup {k}) <= MaxAgentSessions
  <2>1. CASE Resume(r, k, at)
    <3>1. k \in FreshKeys /\ nEntry[k] \in 1..MaxMade
      BY <1>1, <2>1 DEF Resume, FreshKeys, SessionsTypeOK
    <3>2. FreshKeys \subseteq Entries /\ IsFiniteSet(Entries) /\ Entries \subseteq Keys
      BY KeysFinite DEF FreshKeys, Entries
    <3>3. Cardinality(FreshKeys) <= Cardinality(Entries) /\ Cardinality(FreshKeys) \in Nat /\ Cardinality(Entries) \in Nat
      BY <3>2, FS_Subset, FS_CardinalityType
    <3>4. Cardinality(Entries) <= MaxAgentSessions /\ MaxAgentSessions \in Nat
      BY <1>1, ChatSessionsAssumption DEF SessionsBounded, Entries
    <3>5. Cardinality(FreshKeys \cup {k}) <= MaxAgentSessions
      <4>1. FreshKeys \cup {k} = FreshKeys
        BY <3>1
      <4>2. QED BY <3>3, <3>4, <4>1
    <3>6. StartRun(r, k, at, nEntry[k], FreshKeys) /\ nMade' \in 0..MaxMade
      BY <1>1, <2>1 DEF Resume, SessionsTypeOK
    <3>7. QED BY <3>1, <3>5, <3>6
  <2>2. CASE Live(r, k, at)
    <3>1. k \notin FreshKeys
      BY <2>2 DEF Live, FreshKeys
    <3>2. StartRun(r, k, at, nMade + 1, FreshKeys \ _evict_oldest) /\ nMade' = nMade + 1 /\ nMade < MaxMade
      BY <2>2 DEF Live
    <3>3. nMade + 1 \in 1..MaxMade /\ nMade' \in 0..MaxMade
      BY <1>1, <3>2 DEF SessionsTypeOK
    <3>4. QED BY <3>1, <3>2, <3>3, RoomForOne
  <2>3. QED BY <2>1, <2>2 DEF get_or_create
<1>3. PICK session \in 1..MaxMade, kept \in SUBSET FreshKeys :
         /\ StartRun(r, k, at, session, kept) /\ nMade' \in 0..MaxMade
         /\ Cardinality(kept \cup {k}) <= MaxAgentSessions
  BY <1>2
<1>4. /\ nRun[r].at = "idle" /\ nMade' \in 0..MaxMade /\ UNCHANGED <<nSlot, nStuck>> /\ nGot' = [nGot EXCEPT ![r] = "none"]
      /\ nEntry' = [x \in Keys |-> IF x = k THEN session ELSE IF x \in kept THEN nEntry[x] ELSE 0]
      /\ nUsed' = [x \in Keys |-> IF x = k THEN Cardinality(Keys) ELSE IF nUsed[x] > nUsed[k] THEN nUsed[x] - 1 ELSE nUsed[x]]
  BY <1>3 DEF get_or_create, StartRun
<1>5. /\ nRun' \in [Runs -> RunRecordsOf]
      /\ nRun'[r].at = at /\ nRun'[r].session = session /\ nRun'[r].shared = (InUse(session) # {})
      /\ \A s \in Runs : s # r => /\ nRun'[s].at = nRun[s].at /\ nRun'[s].session = nRun[s].session
                                  /\ nRun'[s].acted = nRun[s].acted
                                  /\ nRun'[s].shared = (nRun[s].shared \/ s \in InUse(session))
  <2> DEFINE mine == [at |-> at, session |-> session, key |-> k, shared |-> InUse(session) # {}, acted |-> FALSE]
             joined(s) == [nRun[s] EXCEPT !.shared = @ \/ s \in InUse(session)]
  <2>1. nRun' = [s \in Runs |-> IF s = r THEN mine ELSE joined(s)]
    BY <1>3 DEF StartRun
  <2>2. mine \in RunRecordsOf /\ mine.at = at /\ mine.session = session /\ mine.shared = (InUse(session) # {})
    BY DEF RunRecordsOf
  <2>3. \A s \in Runs : /\ joined(s) \in RunRecordsOf /\ joined(s).at = nRun[s].at /\ joined(s).session = nRun[s].session
                        /\ joined(s).acted = nRun[s].acted /\ joined(s).shared = (nRun[s].shared \/ s \in InUse(session))
    BY <1>1 DEF SessionsTypeOK, RunRecordsOf
  <2> HIDE DEF mine, joined
  <2>4. QED BY <2>1, <2>2, <2>3
<1>6. SessionsTypeOK'
  <2>1. nUsed' \in [Keys -> Nat]
    BY <1>1, <1>4, KeysFinite DEF SessionsTypeOK
  <2>2. nEntry' \in [Keys -> 0..MaxMade] /\ nGot' \in [Runs -> {"none", "own", "shared", "foreign"}]
    BY <1>1, <1>4 DEF SessionsTypeOK
  <2>3. QED BY <1>1, <1>4, <1>5, <2>1, <2>2 DEF SessionsTypeOK
<1>7. \A s \in Runs : RunHasSession(s)'
  BY <1>1, <1>5 DEF RunHasSession
<1>8. \A m \in 1..MaxMade : SlotIsHeld(m)'
  BY <1>1, <1>4, <1>5 DEF SlotIsHeld, AtWork
<1>9. SharersKnow'
  <2> SUFFICES ASSUME NEW s \in Runs, NEW t \in Runs, NEW m \in 1..MaxMade, s # t, AtWork(s, m)', AtWork(t, m)'
               PROVE  nRun'[s].shared
    BY DEF SharersKnow
  <2>1. CASE s = r
    <3>1. m = session /\ t \in InUse(session)
      BY <1>5, <2>1 DEF AtWork, InUse
    <3>2. QED BY <1>5, <2>1, <3>1
  <2>2. CASE s # r /\ t = r
    <3>1. m = session /\ s \in InUse(session)
      BY <1>5, <2>2 DEF AtWork, InUse
    <3>2. QED BY <1>5, <2>2, <3>1
  <2>3. CASE s # r /\ t # r
    <3>1. AtWork(s, m) /\ AtWork(t, m)
      BY <1>5, <2>3 DEF AtWork
    <3>2. nRun[s].shared
      BY <1>1, <3>1 DEF SharersKnow
    <3>3. QED BY <1>5, <2>3, <3>2
  <2>4. QED BY <2>1, <2>2, <2>3
<1>10. SessionsBounded'
  <2>1. {x \in Keys : nEntry'[x] # 0} \subseteq kept \cup {k} /\ kept \cup {k} \subseteq Keys
    BY <1>3, <1>4 DEF FreshKeys
  <2>2. Cardinality({x \in Keys : nEntry'[x] # 0}) <= Cardinality(kept \cup {k})
    BY <2>1, KeysFinite, FS_Subset
  <2>3. Cardinality({x \in Keys : nEntry'[x] # 0}) \in Nat /\ Cardinality(kept \cup {k}) \in Nat
    BY <2>1, KeysFinite
  <2>4. QED BY <1>3, <2>2, <2>3, ChatSessionsAssumption DEF SessionsBounded
<1>11. ActionIsOwn'
  BY <1>1, <1>4 DEF ActionIsOwn, SessionsTypeOK
<1>12. QED BY <1>6, <1>7, <1>8, <1>9, <1>10, <1>11 DEF SessionsInv

LEMMA SessionsKept == SessionsInv /\ [ChatSessionsNext]_nVars => SessionsInv'
<1> SUFFICES ASSUME SessionsInv, [ChatSessionsNext]_nVars PROVE SessionsInv'
  OBVIOUS
<1>0. /\ SessionsTypeOK /\ (\A s \in Runs : RunHasSession(s)) /\ (\A m \in 1..MaxMade : SlotIsHeld(m)) /\ SharersKnow
      /\ SessionsBounded /\ ActionIsOwn /\ MaxMade \in Nat
  BY ChatSessionsAssumption DEF SessionsInv
<1>i. NoRun \in RunRecordsOf /\ NoRun.at = "idle"
  BY <1>0 DEF NoRun, RunRecordsOf, Keys
<1>1. ASSUME NEW r \in Runs, run_plan(r) PROVE SessionsInv'
  BY <1>1, RunStarted DEF run_plan, Keys
<1>2. ASSUME NEW r \in Runs, NEW k \in Conversations, run(r, k) PROVE SessionsInv'
  BY <1>1, <1>2, RunStarted DEF run, Keys
<1>3. ASSUME NEW r \in Runs, ToolActs(r) PROVE SessionsInv'
  <2> DEFINE m == nRun[r].session
  <2>1. /\ nRun[r].at # "idle" /\ nSlot' = [nSlot EXCEPT ![m] = r] /\ nRun' = [nRun EXCEPT ![r].acted = TRUE]
        /\ UNCHANGED <<nEntry, nUsed, nOld, nPlan, nGot, nStuck, nMade>>
    BY <1>3 DEF ToolActs
  <2>2. m \in 1..MaxMade
    BY <1>0, <2>1 DEF RunHasSession
  <2>3. /\ nRun' \in [Runs -> RunRecordsOf] /\ nRun'[r].acted
        /\ \A s \in Runs : /\ nRun'[s].at = nRun[s].at /\ nRun'[s].session = nRun[s].session /\ nRun'[s].shared = nRun[s].shared
                           /\ s # r => nRun'[s] = nRun[s]
    BY <1>0, <2>1 DEF SessionsTypeOK, RunRecordsOf
  <2>4. /\ nSlot' \in [1..MaxMade -> Runs \cup {"none"}] /\ nSlot'[m] = r
        /\ \A i \in 1..MaxMade : i # m => nSlot'[i] = nSlot[i]
    BY <1>0, <2>1, <2>2 DEF SessionsTypeOK
  <2>5. SessionsTypeOK' /\ SessionsBounded' /\ ActionIsOwn'
    BY <1>0, <2>1, <2>3, <2>4 DEF SessionsTypeOK, SessionsBounded, ActionIsOwn
  <2>6. (\A s \in Runs : RunHasSession(s)') /\ SharersKnow'
    BY <1>0, <2>3 DEF RunHasSession, SharersKnow, AtWork
  <2>7. ASSUME NEW i \in 1..MaxMade PROVE SlotIsHeld(i)'
    <3>1. CASE i = m
      BY <2>1, <2>3, <2>4, <3>1 DEF SlotIsHeld, AtWork
    <3>2. CASE i # m
      <4>1. SlotIsHeld(i) /\ nSlot'[i] = nSlot[i]
        BY <1>0, <2>4, <3>2
      <4>2. nSlot[i] \in Runs /\ AtWork(nSlot[i], i) => nSlot[i] # r
        BY <3>2 DEF AtWork
      <4>3. QED BY <2>1, <2>3, <4>1, <4>2 DEF SlotIsHeld, AtWork
    <3>3. QED BY <3>1, <3>2
  <2>8. QED BY <2>5, <2>6, <2>7 DEF SessionsInv
<1>4. ASSUME NEW r \in Runs, _consume_session_tool_action(r) PROVE SessionsInv'
  <2> DEFINE m == nRun[r].session
  <2>1. /\ nRun[r].at # "idle" /\ nGot' = [nGot EXCEPT ![r] = Taken(r)] /\ nSlot' = [nSlot EXCEPT ![m] = "none"]
        /\ nRun' = [nRun EXCEPT ![r] = NoRun] /\ UNCHANGED <<nEntry, nUsed, nOld, nPlan, nStuck, nMade>>
    BY <1>4 DEF _consume_session_tool_action, PopAction
  <2>2. m \in 1..MaxMade /\ AtWork(r, m)
    BY <1>0, <2>1 DEF RunHasSession, AtWork
  <2>3. /\ nRun' \in [Runs -> RunRecordsOf] /\ nRun'[r].at = "idle" /\ \A s \in Runs : s # r => nRun'[s] = nRun[s]
    BY <1>0, <1>i, <2>1 DEF SessionsTypeOK
  <2>4. /\ nSlot' \in [1..MaxMade -> Runs \cup {"none"}] /\ nSlot'[m] = "none"
        /\ \A i \in 1..MaxMade : i # m => nSlot'[i] = nSlot[i]
    BY <1>0, <2>1, <2>2 DEF SessionsTypeOK
  <2>5. Taken(r) \in {"none", "own", "shared"}
    <3>1. CASE nSlot[m] = "none" \/ (nSlot[m] = r /\ nRun[r].acted) \/ nRun[r].shared \/ m \in nStuck
      BY <3>1 DEF Taken
    <3>2. CASE nSlot[m] # "none" /\ ~nRun[r].shared /\ m \notin nStuck
      <4>1. nSlot[m] \in Runs /\ AtWork(nSlot[m], m) /\ nRun[nSlot[m]].acted
        BY <1>0, <2>2, <3>2 DEF SlotIsHeld
      <4>2. nSlot[m] = r
        BY <1>0, <2>2, <3>2, <4>1 DEF SharersKnow
      <4>3. QED BY <4>1, <4>2 DEF Taken
    <3>3. QED BY <3>1, <3>2
  <2>6. SessionsTypeOK' /\ SessionsBounded' /\ ActionIsOwn'
    BY <1>0, <2>1, <2>3, <2>4, <2>5 DEF SessionsTypeOK, SessionsBounded, ActionIsOwn
  <2>7. (\A s \in Runs : RunHasSession(s)') /\ SharersKnow'
    BY <1>0, <2>3 DEF RunHasSession, SharersKnow, AtWork
  <2>8. ASSUME NEW i \in 1..MaxMade PROVE SlotIsHeld(i)'
    <3>1. CASE i = m
      BY <2>4, <3>1 DEF SlotIsHeld
    <3>2. CASE i # m
      <4>1. SlotIsHeld(i) /\ nSlot'[i] = nSlot[i]
        BY <1>0, <2>4, <3>2
      <4>2. nSlot[i] \in Runs /\ AtWork(nSlot[i], i) => nSlot[i] # r
        BY <3>2 DEF AtWork
      <4>3. QED BY <2>1, <2>3, <4>1, <4>2 DEF SlotIsHeld, AtWork
    <3>3. QED BY <3>1, <3>2
  <2>9. QED BY <2>6, <2>7, <2>8 DEF SessionsInv
<1>5. ASSUME NEW r \in Runs, invalidate(r) PROVE SessionsInv'
  <2>1. /\ nRun[r].at # "idle" /\ nRun' = [nRun EXCEPT ![r] = NoRun] /\ nEntry' = [nEntry EXCEPT ![PlanKey] = 0]
        /\ nStuck' = nStuck \cup {nRun[r].session} /\ UNCHANGED <<nUsed, nSlot, nPlan, nGot, nMade>>
    BY <1>5 DEF invalidate
  <2>2. /\ nRun' \in [Runs -> RunRecordsOf] /\ nRun'[r].at = "idle" /\ \A s \in Runs : s # r => nRun'[s] = nRun[s]
    BY <1>0, <1>i, <2>1 DEF SessionsTypeOK
  <2>3. nEntry' \in [Keys -> 0..MaxMade] /\ \A x \in Keys : nEntry'[x] # 0 => nEntry[x] # 0
    BY <1>0, <2>1 DEF SessionsTypeOK, Keys
  <2>4. SessionsTypeOK' /\ ActionIsOwn'
    BY <1>0, <2>1, <2>2, <2>3 DEF SessionsTypeOK, ActionIsOwn
  <2>5. SessionsBounded'
    <3>1. {x \in Keys : nEntry'[x] # 0} \subseteq Entries /\ Entries \subseteq Keys
      BY <2>3 DEF Entries
    <3>2. /\ Cardinality({x \in Keys : nEntry'[x] # 0}) <= Cardinality(Entries)
          /\ Cardinality({x \in Keys : nEntry'[x] # 0}) \in Nat /\ Cardinality(Entries) \in Nat
      BY <3>1, KeysFinite, FS_Subset
    <3>3. Cardinality(Entries) <= MaxAgentSessions
      BY <1>0 DEF SessionsBounded, Entries
    <3>4. QED BY <3>2, <3>3, ChatSessionsAssumption DEF SessionsBounded
  <2>6. (\A s \in Runs : RunHasSession(s)') /\ SharersKnow'
    BY <1>0, <2>2 DEF RunHasSession, SharersKnow, AtWork
  <2>7. ASSUME NEW i \in 1..MaxMade PROVE SlotIsHeld(i)'
    <3>1. SlotIsHeld(i) /\ (i \notin nStuck' => i \notin nStuck /\ i # nRun[r].session)
      BY <1>0, <2>1
    <3>2. i # nRun[r].session /\ nSlot[i] \in Runs /\ AtWork(nSlot[i], i) => nSlot[i] # r
      BY DEF AtWork
    <3>3. QED BY <2>1, <2>2, <3>1, <3>2 DEF SlotIsHeld, AtWork
  <2>8. QED BY <2>4, <2>5, <2>6, <2>7 DEF SessionsInv
<1>6. ASSUME UNCHANGED <<nEntry, nUsed, nSlot, nRun, nGot, nStuck, nMade>> PROVE SessionsInv'
  BY <1>0, <1>6 DEF SessionsInv, SessionsTypeOK, RunHasSession, SlotIsHeld, SharersKnow, AtWork, SessionsBounded, ActionIsOwn
<1>7. CASE exit_plan_mode \/ (\E k \in Keys : SessionGrowsOld(k)) \/ UNCHANGED nVars
  BY <1>6, <1>7 DEF exit_plan_mode, SessionGrowsOld, nVars
<1>8. QED BY <1>1, <1>2, <1>3, <1>4, <1>5, <1>7 DEF ChatSessionsNext

(* The agent's map of sessions never outgrows its bound, and a run's answer*)
(* carries its own tool's action unless the session was shared or a run of *)
(* it failed (get_or_create, _evict_oldest, _consume_session_tool_action,  *)
(* invalidate).                                                            *)
THEOREM SessionsApart == ChatSessionsSpec => []SessionsKeptApart
<1>1. SessionsInv => SessionsKeptApart
  BY DEF SessionsInv, SessionsKeptApart
<1>2. QED BY SessionsStart, SessionsKept, <1>1, PTL DEF ChatSessionsSpec

(***************************************************************************)
(* The link of users to the Signal account: who holds the phone, who is    *)
(* listened to and what the deliveries write down.                         *)
(***************************************************************************)
PollSteps == {"unasked", "account", "guard", "create", "delete", "insert", "post_link", "stopping", "phone", "done"}
MailSteps == {"idle", "send", "delivered", "failed", "ended"}
LinkTypeOK ==
    /\ gAccount \in BOOLEAN /\ gOverlap \in BOOLEAN /\ gFaults \in Nat
    /\ gRow \in [LinkUsers -> {"none", "connected", "disconnected"}]
    /\ gPoll \in [Restarters -> [user : LinkUsers \cup {SomeUser}, step : PollSteps]]
    /\ gLoops \subseteq Restarters
    /\ gMail \in [Mails -> [step : MailSteps, tries : 0..MaxSends, sent : 0..MaxSends, row : {"none", "pending", "delivered", "failed"}]]
OneHoldsIt == (\A u, v \in Holders : u = v) /\ gDisplaced \subseteq gBanner
\* a poll gets past the account, and a user holds the phone, only with an account
AccountIsThere ==
    /\ Holders # {} => gAccount
    /\ \A p \in Restarters : gPoll[p].step \in {"guard", "create", "delete", "insert"} => gAccount
\* without overlap one restart is under way at most, and nothing runs meanwhile
OneRestarts ==
    gOverlap \/ /\ gLoops \subseteq {gHandle} /\ \A p, q \in Restarters : Restarting(p) /\ Restarting(q) => p = q
                /\ (\E p \in Restarters : Restarting(p)) => gLoops = {}
\* a listener runs for a linked user, or a restart of it is still to come
ToBeHeard ==
    gFaults = 0 /\ Holders # {} =>
        gLoops # {} \/ \E p \in Restarters : gPoll[p].step \in {"post_link", "stopping", "phone"}
MailOK(m, faults) ==
    /\ m.sent <= m.tries
    /\ m.step = "idle" => m.tries = 0 /\ m.row = "none"
    /\ m.step = "send" => m.row = "pending" /\ m.tries < MaxSends
    /\ m.step = "delivered" => m.row = "pending" /\ m.sent > 0
    /\ m.step = "failed" => m.row = "pending" /\ (m.sent = m.tries => faults > 0 \/ m.tries = MaxSends)
    /\ m.step = "ended" =>
          /\ m.row # "none" /\ (m.row = "delivered" => m.sent > 0) /\ (m.row = "pending" => faults > 0)
          /\ m.row = "failed" /\ m.sent = m.tries => faults > 0 \/ m.tries = MaxSends
LinkInv ==
    /\ LinkTypeOK /\ OneHoldsIt /\ AccountIsThere /\ OneRestarts /\ ToBeHeard
    /\ \A m \in Mails : MailOK(gMail[m], gFaults)

LEMMA LinkStart == LinkInit => LinkInv
<1> SUFFICES ASSUME LinkInit PROVE LinkInv
  OBVIOUS
<1>1. /\ PollIdle \in [user : LinkUsers \cup {SomeUser}, step : PollSteps] /\ PollIdle.step = "unasked"
      /\ [PollIdle EXCEPT !.step = "phone"] \in [user : LinkUsers \cup {SomeUser}, step : PollSteps]
  BY DEF PollIdle, PollSteps
<1>2. /\ gPoll \in [Restarters -> [user : LinkUsers \cup {SomeUser}, step : PollSteps]]
      /\ \A p \in Restarters : gPoll[p].step = IF p = Boot THEN "phone" ELSE "unasked"
  BY <1>1 DEF LinkInit, PollIdle
<1>3. Unmailed \in [step : MailSteps, tries : 0..MaxSends, sent : 0..MaxSends, row : {"none", "pending", "delivered", "failed"}]
      /\ MailOK(Unmailed, 0)
  BY DEF Unmailed, MailSteps, MaxSends, MailOK
<1>4. gRow \in [LinkUsers -> {"none", "connected", "disconnected"}] /\ Holders \subseteq {SomeUser} /\ (Holders # {} => gAccount)
  BY DEF LinkInit, Holders
<1>5. LinkTypeOK
  BY <1>2, <1>3, <1>4 DEF LinkInit, LinkTypeOK
<1>6. OneHoldsIt /\ AccountIsThere
  BY <1>2, <1>4 DEF LinkInit, OneHoldsIt, AccountIsThere
<1>7. OneRestarts /\ ToBeHeard
  BY <1>2 DEF LinkInit, OneRestarts, ToBeHeard, Restarting, Restarters
<1>8. \A m \in Mails : MailOK(gMail[m], gFaults)
  BY <1>3 DEF LinkInit
<1>9. QED BY <1>5, <1>6, <1>7, <1>8 DEF LinkInv

LEMMA PollMoves ==
  ASSUME LinkTypeOK, NEW p \in Restarters, NEW step \in PollSteps, PollTo(p, step) \/ (PollEnds(p) /\ step = "done")
  PROVE  /\ gPoll' \in [Restarters -> [user : LinkUsers \cup {SomeUser}, step : PollSteps]]
         /\ gPoll'[p].step = step /\ \A q \in Restarters : q # p => gPoll'[q] = gPoll[q]
<1>1. PollDone \in [user : LinkUsers \cup {SomeUser}, step : PollSteps] /\ PollDone.step = "done"
  BY DEF PollDone, PollIdle, PollSteps
<1>2. QED BY <1>1 DEF LinkTypeOK, PollTo, PollEnds

(* A poll's step that starts or ends no restart and stops no listener.     *)
LEMMA PollGoesOn ==
  ASSUME LinkInv, NEW p \in Restarters, NEW step \in {"account", "guard", "create", "delete", "insert", "post_link", "done"},
         gPoll[p].step \in {"unasked", "account", "guard", "create", "delete", "insert"},
         gPoll' \in [Restarters -> [user : LinkUsers \cup {SomeUser}, step : PollSteps]],
         gPoll'[p].step = step, \A q \in Restarters : q # p => gPoll'[q] = gPoll[q],
         step \in {"guard", "create", "delete", "insert", "post_link"} => gAccount,
         gRow' \in [LinkUsers -> {"none", "connected", "disconnected"}],
         (\A u, v \in Holders' : u = v), gDisplaced' \subseteq gBanner',
         Holders' \subseteq Holders \/ step = "post_link",
         UNCHANGED <<gAccount, gListening, gMail, gFaults>>
  PROVE  LinkInv'
<1>1. LinkTypeOK'
  BY DEF LinkInv, LinkTypeOK, gListening
<1>2. OneHoldsIt' /\ AccountIsThere'
  BY DEF LinkInv, OneHoldsIt, AccountIsThere
<1>3. \A q \in Restarters : Restarting(q)' => Restarting(q)
  BY DEF Restarting
<1>4. OneRestarts'
  BY <1>3 DEF LinkInv, OneRestarts, gListening
<1>5. ToBeHeard'
  <2>1. CASE step = "post_link"
    BY <2>1 DEF ToBeHeard
  <2>2. CASE step # "post_link"
    BY <2>2 DEF LinkInv, ToBeHeard, gListening
  <2>3. QED BY <2>1, <2>2
<1>6. (\A m \in Mails : MailOK(gMail[m], gFaults))'
  BY DEF LinkInv
<1>7. QED BY <1>1, <1>2, <1>4, <1>5, <1>6 DEF LinkInv

LEMMA PollKept ==
  ASSUME LinkInv, NEW p \in Restarters,
         \/ p \in LinkPolls /\ \E u \in LinkUsers : check_signal_link_status(p, u)
         \/ \E found \in BOOLEAN : check_link_complete(p, found)
         \/ Guard(p) \/ create_connection(p) \/ DeleteOwnRow(p) \/ InsertConnection(p)
  PROVE  LinkInv'
<1>0. LinkTypeOK /\ OneHoldsIt /\ AccountIsThere
  BY DEF LinkInv
<1>1. ASSUME p \in LinkPolls, NEW u \in LinkUsers, check_signal_link_status(p, u) PROVE LinkInv'
  <2>1. /\ gPoll' \in [Restarters -> [user : LinkUsers \cup {SomeUser}, step : PollSteps]]
        /\ gPoll'[p].step = "account" /\ \A q \in Restarters : q # p => gPoll'[q] = gPoll[q]
    BY <1>0, <1>1 DEF check_signal_link_status, LinkTypeOK, PollSteps
  <2>2. gPoll[p].step = "unasked" /\ UNCHANGED <<gAccount, gRow, gListening, gConflicts, gMail, gFaults>>
    BY <1>1 DEF check_signal_link_status, PollAt
  <2>3. Holders' = Holders /\ gDisplaced' = gDisplaced /\ gBanner' = gBanner
    BY <2>2 DEF Holders, gConflicts
  <2>4. QED BY <1>0, <2>1, <2>2, <2>3, PollGoesOn DEF OneHoldsIt, LinkTypeOK
<1>2. ASSUME (\E found \in BOOLEAN : check_link_complete(p, found)) \/ Guard(p) PROVE LinkInv'
  <2>1. PICK step \in {"guard", "create", "done"} :
           /\ PollTo(p, step) \/ (PollEnds(p) /\ step = "done")
           /\ step # "done" => gAccount
    BY <1>0, <1>2 DEF check_link_complete, Guard, AccountIsThere, PollAt
  <2>2. step \in PollSteps
    BY DEF PollSteps
  <2>3. /\ gPoll' \in [Restarters -> [user : LinkUsers \cup {SomeUser}, step : PollSteps]]
        /\ gPoll'[p].step = step /\ \A q \in Restarters : q # p => gPoll'[q] = gPoll[q]
    BY <1>0, <2>1, <2>2, PollMoves
  <2>4. gPoll[p].step \in {"account", "guard"} /\ UNCHANGED <<gAccount, gRow, gListening, gConflicts, gMail, gFaults>>
    BY <1>2 DEF check_link_complete, Guard, PollAt
  <2>5. Holders' = Holders /\ gDisplaced' = gDisplaced /\ gBanner' = gBanner
    BY <2>4 DEF Holders, gConflicts
  <2>6. QED BY <1>0, <2>1, <2>3, <2>4, <2>5, PollGoesOn DEF OneHoldsIt, LinkTypeOK
<1>3. ASSUME create_connection(p) PROVE LinkInv'
  <2>1. /\ gPoll' \in [Restarters -> [user : LinkUsers \cup {SomeUser}, step : PollSteps]]
        /\ gPoll'[p].step = "delete" /\ \A q \in Restarters : q # p => gPoll'[q] = gPoll[q]
    BY <1>0, <1>3, PollMoves DEF create_connection, PollSteps
  <2>2. /\ gPoll[p].step = "create" /\ UNCHANGED <<gAccount, gListening, gMail, gFaults>>
        /\ gRow' = [u \in LinkUsers |-> IF u \in HoldersBut(OwnerOf(p)) THEN "disconnected" ELSE gRow[u]]
        /\ gDisplaced' = gDisplaced \cup HoldersBut(OwnerOf(p)) /\ gBanner' = gBanner \cup HoldersBut(OwnerOf(p))
    BY <1>3 DEF create_connection, PollAt
  <2>3. gRow' \in [LinkUsers -> {"none", "connected", "disconnected"}] /\ Holders' \subseteq Holders
    BY <1>0, <2>2 DEF Holders, LinkTypeOK
  <2>4. (\A u, v \in Holders' : u = v) /\ gDisplaced' \subseteq gBanner'
    BY <1>0, <2>2, <2>3 DEF OneHoldsIt
  <2>5. QED BY <1>0, <2>1, <2>2, <2>3, <2>4, PollGoesOn DEF AccountIsThere
<1>4. ASSUME DeleteOwnRow(p) PROVE LinkInv'
  <2>1. /\ gPoll' \in [Restarters -> [user : LinkUsers \cup {SomeUser}, step : PollSteps]]
        /\ gPoll'[p].step = "insert" /\ \A q \in Restarters : q # p => gPoll'[q] = gPoll[q]
    BY <1>0, <1>4, PollMoves DEF DeleteOwnRow, PollSteps
  <2>2. /\ gPoll[p].step = "delete" /\ UNCHANGED <<gAccount, gListening, gConflicts, gMail, gFaults>>
        /\ gRow' = [gRow EXCEPT ![OwnerOf(p)] = "none"]
    BY <1>4 DEF DeleteOwnRow, PollAt
  <2>3. gRow' \in [LinkUsers -> {"none", "connected", "disconnected"}] /\ Holders' \subseteq Holders
    BY <1>0, <2>2 DEF Holders, LinkTypeOK
  <2>4. (\A u, v \in Holders' : u = v) /\ gDisplaced' \subseteq gBanner'
    BY <1>0, <2>2, <2>3 DEF OneHoldsIt, gConflicts
  <2>5. QED BY <1>0, <2>1, <2>2, <2>3, <2>4, PollGoesOn DEF AccountIsThere
<1>5. ASSUME InsertConnection(p), Refused(p) PROVE LinkInv'
  <2>1. /\ gPoll' \in [Restarters -> [user : LinkUsers \cup {SomeUser}, step : PollSteps]]
        /\ gPoll'[p].step = "done" /\ \A q \in Restarters : q # p => gPoll'[q] = gPoll[q]
    BY <1>0, <1>5, PollMoves DEF InsertConnection, PollSteps
  <2>2. /\ gPoll[p].step = "insert" /\ UNCHANGED <<gAccount, gRow, gListening, gConflicts, gMail, gFaults>>
    BY <1>5 DEF InsertConnection, PollAt
  <2>3. Holders' = Holders /\ gDisplaced' = gDisplaced /\ gBanner' = gBanner
    BY <2>2 DEF Holders, gConflicts
  <2>4. QED BY <1>0, <2>1, <2>2, <2>3, PollGoesOn DEF OneHoldsIt, LinkTypeOK
<1>6. ASSUME InsertConnection(p), ~Refused(p) PROVE LinkInv'
  <2>1. /\ gPoll' \in [Restarters -> [user : LinkUsers \cup {SomeUser}, step : PollSteps]]
        /\ gPoll'[p].step = "post_link" /\ \A q \in Restarters : q # p => gPoll'[q] = gPoll[q]
    BY <1>0, <1>6, PollMoves DEF InsertConnection, PollSteps
  <2>2. /\ gPoll[p].step = "insert" /\ UNCHANGED <<gAccount, gListening, gConflicts, gMail, gFaults>>
        /\ gRow' = [gRow EXCEPT ![OwnerOf(p)] = "connected"] /\ HoldersBut(OwnerOf(p)) = {}
    BY <1>6 DEF InsertConnection, PollAt, Refused
  <2>3. gRow' \in [LinkUsers -> {"none", "connected", "disconnected"}] /\ Holders' \subseteq {OwnerOf(p)}
    BY <1>0, <2>2 DEF Holders, HoldersBut, LinkTypeOK
  <2>4. (\A u, v \in Holders' : u = v) /\ gDisplaced' \subseteq gBanner'
    BY <1>0, <2>2, <2>3 DEF OneHoldsIt, gConflicts
  <2>5. QED BY <1>0, <2>1, <2>2, <2>3, <2>4, PollGoesOn DEF AccountIsThere
<1>7. QED BY <1>1, <1>2, <1>3, <1>4, <1>5, <1>6

(* A step of the restarts of the listener leaves rows and deliveries alone.*)
LEMMA RestartGoesOn ==
  ASSUME LinkInv, UNCHANGED <<gAccount, gRow, gConflicts, gMail, gFaults>>,
         gOverlap' \in BOOLEAN, gLoops' \subseteq Restarters,
         gPoll' \in [Restarters -> [user : LinkUsers \cup {SomeUser}, step : PollSteps]],
         \A q \in Restarters : gPoll'[q] = gPoll[q] \/ gPoll'[q].step \in {"stopping", "phone", "done"},
         OneRestarts', ToBeHeard'
  PROVE  LinkInv'
<1>1. LinkTypeOK'
  BY DEF LinkInv, LinkTypeOK
<1>2. OneHoldsIt' /\ AccountIsThere'
  BY DEF LinkInv, OneHoldsIt, AccountIsThere, Holders, gConflicts
<1>3. (\A m \in Mails : MailOK(gMail[m], gFaults))'
  BY DEF LinkInv
<1>4. QED BY <1>1, <1>2, <1>3 DEF LinkInv

LEMMA ListenerKept ==
  ASSUME LinkInv, NEW p \in Restarters,
         stop_signal_ws_listener(p) \/ start_signal_ws_listener(p) \/ NoPhone(p) \/ OldStopped
  PROVE  LinkInv'
<1>0. LinkTypeOK /\ OneHoldsIt /\ AccountIsThere /\ OneRestarts /\ ToBeHeard
  BY DEF LinkInv
<1>1. CASE stop_signal_ws_listener(p)
  <2>1. PICK step \in {"stopping", "phone"} : PollTo(p, step)
    BY <1>1 DEF stop_signal_ws_listener
  <2>2. /\ gPoll' \in [Restarters -> [user : LinkUsers \cup {SomeUser}, step : PollSteps]]
        /\ gPoll'[p].step = step /\ \A q \in Restarters : q # p => gPoll'[q] = gPoll[q]
    BY <1>0, <2>1, PollMoves DEF PollSteps
  <2>3. /\ gPoll[p].step = "post_link" /\ gLoops' = gLoops \ {gHandle}
        /\ gOverlap' = (gOverlap \/ \E q \in Restarters : Restarting(q))
        /\ UNCHANGED <<gAccount, gRow, gConflicts, gMail, gFaults>>
    BY <1>1 DEF stop_signal_ws_listener, PollAt
  <2>4. ToBeHeard'
    BY <2>2 DEF ToBeHeard
  <2>5. ~gOverlap' => gLoops' = {} /\ \A q \in Restarters : ~Restarting(q)
    BY <1>0, <2>3 DEF OneRestarts
  <2>6. OneRestarts'
    BY <2>2, <2>5 DEF OneRestarts, Restarting
  <2>7. gOverlap' \in BOOLEAN /\ gLoops' \subseteq Restarters
    BY <1>0, <2>3 DEF LinkTypeOK
  <2>8. QED BY <2>2, <2>3, <2>4, <2>6, <2>7, RestartGoesOn
<1>2. CASE start_signal_ws_listener(p)
  <2>1. /\ gPoll' \in [Restarters -> [user : LinkUsers \cup {SomeUser}, step : PollSteps]]
        /\ gPoll'[p].step = "done" /\ \A q \in Restarters : q # p => gPoll'[q] = gPoll[q]
    BY <1>0, <1>2, PollMoves DEF start_signal_ws_listener, PollSteps
  <2>2. /\ gPoll[p].step = "phone" /\ gHandle' = p /\ gLoops' = gLoops \cup {p}
        /\ UNCHANGED <<gAccount, gRow, gOverlap, gConflicts, gMail, gFaults>>
    BY <1>2 DEF start_signal_ws_listener, PollAt
  <2>3. ToBeHeard'
    BY <2>2 DEF ToBeHeard
  <2>4. ~gOverlap' => gLoops = {} /\ \A q \in Restarters : q # p => ~Restarting(q)
    BY <1>0, <2>2 DEF OneRestarts, Restarting
  <2>5. OneRestarts'
    BY <2>1, <2>2, <2>4 DEF OneRestarts, Restarting
  <2>6. gOverlap' \in BOOLEAN /\ gLoops' \subseteq Restarters
    BY <1>0, <2>2 DEF LinkTypeOK
  <2>7. QED BY <2>1, <2>2, <2>3, <2>5, <2>6, RestartGoesOn
<1>3. CASE NoPhone(p)
  <2>1. /\ gPoll' \in [Restarters -> [user : LinkUsers \cup {SomeUser}, step : PollSteps]]
        /\ gPoll'[p].step = "done" /\ \A q \in Restarters : q # p => gPoll'[q] = gPoll[q]
    BY <1>0, <1>3, PollMoves DEF NoPhone, PollSteps
  <2>2. /\ gPoll[p].step = "phone" /\ UNCHANGED <<gAccount, gRow, gListening, gConflicts, gMail>>
        /\ gFaults' = gFaults \/ (gAccount /\ gFaults' = gFaults + 1)
    BY <1>3 DEF NoPhone, PollAt, LinkFault
  <2>3. OneRestarts'
    BY <1>0, <2>1, <2>2 DEF OneRestarts, Restarting, gListening
  <2>4. CASE gFaults' = gFaults
    <3>1. ToBeHeard'
      BY <1>0, <1>3, <2>1, <2>2, <2>4 DEF NoPhone, LinkFault, LinkTypeOK, AccountIsThere, ToBeHeard, Holders, gListening
    <3>2. gOverlap' \in BOOLEAN /\ gLoops' \subseteq Restarters
      BY <1>0, <2>2 DEF LinkTypeOK, gListening
    <3>3. QED BY <2>1, <2>2, <2>3, <2>4, <3>1, <3>2, RestartGoesOn
  <2>5. CASE gFaults' = gFaults + 1
    <3>1. LinkTypeOK'
      BY <1>0, <2>1, <2>2, <2>5 DEF LinkTypeOK, gListening
    <3>2. OneHoldsIt' /\ AccountIsThere'
      BY <1>0, <2>1, <2>2 DEF OneHoldsIt, AccountIsThere, Holders, gConflicts
    <3>3. ToBeHeard'
      BY <1>0, <2>5 DEF ToBeHeard, LinkTypeOK
    <3>4. (\A m \in Mails : MailOK(gMail[m], gFaults))'
      BY <1>0, <2>2, <2>5 DEF LinkInv, MailOK, LinkTypeOK
    <3>5. QED BY <2>3, <3>1, <3>2, <3>3, <3>4 DEF LinkInv
  <2>6. QED BY <2>2, <2>4, <2>5
<1>4. CASE OldStopped
  <2>1. /\ gPoll' = [q \in Restarters |-> [gPoll[q] EXCEPT !.step = IF @ = "stopping" THEN "phone" ELSE @]]
        /\ \E q \in Restarters : gPoll[q].step = "stopping"
        /\ UNCHANGED <<gAccount, gRow, gLoops, gOverlap, gConflicts, gMail, gFaults>>
    BY <1>4 DEF OldStopped, PollAt
  <2>2. /\ gPoll' \in [Restarters -> [user : LinkUsers \cup {SomeUser}, step : PollSteps]]
        /\ \A q \in Restarters : gPoll'[q].step = IF gPoll[q].step = "stopping" THEN "phone" ELSE gPoll[q].step
        /\ \A q \in Restarters : gPoll[q].step # "stopping" => gPoll'[q] = gPoll[q]
    BY <1>0, <2>1 DEF LinkTypeOK, PollSteps
  <2>3. ToBeHeard'
    BY <2>1, <2>2 DEF ToBeHeard
  <2>4. \A q \in Restarters : Restarting(q)' <=> Restarting(q)
    BY <2>2 DEF Restarting
  <2>5. gOverlap \/ gLoops = {}
    BY <1>0, <2>1 DEF OneRestarts, Restarting
  <2>6. OneRestarts'
    BY <1>0, <2>1, <2>4, <2>5 DEF OneRestarts
  <2>7. QED BY <1>0, <2>1, <2>2, <2>3, <2>6, RestartGoesOn DEF LinkTypeOK
<1>5. QED BY <1>1, <1>2, <1>3, <1>4

MailRecords == [step : MailSteps, tries : 0..MaxSends, sent : 0..MaxSends, row : {"none", "pending", "delivered", "failed"}]

(* One delivery goes on and nothing else, a failed write apart.            *)
LEMMA MailGoesOn ==
  ASSUME LinkInv, NEW m \in Mails, NEW mail \in MailRecords, gMail' = [gMail EXCEPT ![m] = mail],
         gFaults' \in Nat, gFaults' >= gFaults, MailOK(mail, gFaults'),
         UNCHANGED <<gAccount, gRow, gPoll, gListening, gConflicts>>
  PROVE  LinkInv'
<1>1. LinkTypeOK'
  BY DEF LinkInv, LinkTypeOK, MailRecords, gListening
<1>2. OneHoldsIt' /\ AccountIsThere' /\ OneRestarts'
  BY DEF LinkInv, OneHoldsIt, AccountIsThere, OneRestarts, Restarting, Holders, gConflicts, gListening
<1>3. ToBeHeard'
  BY DEF LinkInv, LinkTypeOK, ToBeHeard, Holders, gListening
<1>4. ASSUME NEW n \in Mails PROVE MailOK(gMail[n], gFaults)'
  <2>1. CASE n = m
    BY <2>1 DEF LinkInv, LinkTypeOK
  <2>2. CASE n # m
    <3>1. MailOK(gMail[n], gFaults) /\ gMail'[n] = gMail[n] /\ gFaults \in Nat
      BY <2>2 DEF LinkInv, LinkTypeOK
    <3>2. QED BY <3>1 DEF MailOK
  <2>3. QED BY <2>1, <2>2
<1>5. QED BY <1>1, <1>2, <1>3, <1>4 DEF LinkInv

LEMMA MailKept ==
  ASSUME LinkInv, NEW m \in Mails,
         \/ \E u \in LinkUsers : deliver_chat_message_via_signal(m, u)
         \/ \E outcome \in {"sent", "refused", "unanswered"} : _deliver_with_retry(m, outcome)
         \/ _delivery_task(m) \/ RowNotWritten(m)
  PROVE  LinkInv'
<1>0. LinkTypeOK /\ gMail[m] \in MailRecords /\ MailOK(gMail[m], gFaults) /\ gFaults \in Nat /\ MaxSends = 4
  BY DEF LinkInv, LinkTypeOK, MailRecords, MaxSends
<1>1. ASSUME NEW u \in LinkUsers, deliver_chat_message_via_signal(m, u) PROVE LinkInv'
  <2> DEFINE mail == [gMail[m] EXCEPT !.step = "send", !.row = "pending"]
  <2>1. gMail[m].step = "idle" /\ gMail' = [gMail EXCEPT ![m] = mail] /\ UNCHANGED <<gAccount, gRow, gPoll, gListening, gConflicts, gFaults>>
    BY <1>1 DEF deliver_chat_message_via_signal
  <2>2. mail \in MailRecords /\ MailOK(mail, gFaults)
    <3>1. mail \in MailRecords /\ mail.step = "send" /\ mail.row = "pending" /\ mail.tries = gMail[m].tries /\ mail.sent = gMail[m].sent
      BY <1>0 DEF MailRecords, MailSteps
    <3>2. gMail[m].sent <= gMail[m].tries /\ gMail[m].tries = 0
      BY <1>0, <2>1 DEF MailOK
    <3> HIDE DEF mail
    <3>3. QED BY <1>0, <3>1, <3>2 DEF MailOK
  <2> HIDE DEF mail
  <2>3. gFaults' \in Nat /\ gFaults' >= gFaults /\ MailOK(mail, gFaults')
    BY <1>0, <2>1, <2>2
  <2>4. QED BY <2>1, <2>2, <2>3, MailGoesOn
<1>2. ASSUME NEW outcome \in {"sent", "refused", "unanswered"}, _deliver_with_retry(m, outcome) PROVE LinkInv'
  <2>1. PICK step \in {"send", "delivered", "failed"}, sent \in 0..1 :
           /\ MailTo(m, step, sent)
           /\ step = "send" => gMail[m].tries + 1 # MaxSends
           /\ step = "delivered" => sent = 1
           /\ step = "failed" => sent = 0 \/ gMail[m].tries + 1 = MaxSends
    <3>1. CASE outcome = "unanswered"
      <4>1. PICK sent \in 0..1 : MailTo(m, IF LastTry(m) THEN "failed" ELSE "send", sent)
        BY <1>2, <3>1 DEF _deliver_with_retry
      <4>2. CASE LastTry(m)
        BY <4>1, <4>2 DEF LastTry
      <4>3. CASE ~LastTry(m)
        BY <4>1, <4>3 DEF LastTry
      <4>4. QED BY <4>2, <4>3
    <3>2. CASE outcome # "unanswered"
      <4>1. CASE outcome = "sent"
        BY <1>2, <4>1 DEF _deliver_with_retry
      <4>2. CASE outcome = "refused"
        BY <1>2, <4>2 DEF _deliver_with_retry
      <4>3. QED BY <3>2, <4>1, <4>2
    <3>3. QED BY <3>1, <3>2
  <2> DEFINE mail == [gMail[m] EXCEPT !.step = step, !.sent = @ + sent, !.tries = @ + 1]
  <2>2. gMail[m].step = "send" /\ gMail' = [gMail EXCEPT ![m] = mail] /\ UNCHANGED <<gAccount, gRow, gPoll, gListening, gConflicts, gFaults>>
    BY <1>2, <2>1 DEF _deliver_with_retry, MailTo
  <2>3. mail \in MailRecords /\ MailOK(mail, gFaults)
    <3>1. mail.step = step /\ mail.sent = gMail[m].sent + sent /\ mail.tries = gMail[m].tries + 1 /\ mail.row = "pending"
      BY <1>0, <2>2 DEF MailRecords, MailOK
    <3>2. gMail[m].sent \in Nat /\ gMail[m].tries \in Nat /\ gMail[m].tries < 4 /\ gMail[m].sent <= gMail[m].tries
      BY <1>0, <2>2 DEF MailRecords, MailOK
    <3>3. mail.sent \in 0..4 /\ mail.tries \in 0..4
      BY <3>1, <3>2
    <3>4. mail \in MailRecords
      <4>1. step \in MailSteps
        BY DEF MailSteps
      <4>2. \A t \in 0..MaxSends, n \in 0..MaxSends : [gMail[m] EXCEPT !.step = step, !.sent = n, !.tries = t] \in MailRecords
        BY <1>0, <4>1 DEF MailRecords
      <4>3. gMail[m].tries + 1 \in 0..MaxSends /\ gMail[m].sent + sent \in 0..MaxSends
        BY <1>0, <3>2
      <4>4. QED BY <4>2, <4>3
    <3> HIDE DEF mail
    <3>5. mail.sent <= mail.tries
      BY <3>1, <3>2
    <3>6. step = "send" => mail.tries < 4
      BY <1>0, <2>1, <3>1, <3>2
    <3>7. step = "delivered" => mail.sent > 0
      BY <2>1, <3>1, <3>2
    <3>8. step = "failed" => (mail.sent = mail.tries => mail.tries = 4)
      BY <1>0, <2>1, <3>1, <3>2
    <3>9. QED BY <1>0, <3>1, <3>4, <3>5, <3>6, <3>7, <3>8 DEF MailOK
  <2> HIDE DEF mail
  <2>4. gFaults' \in Nat /\ gFaults' >= gFaults /\ MailOK(mail, gFaults')
    BY <1>0, <2>2, <2>3
  <2>5. QED BY <2>2, <2>3, <2>4, MailGoesOn
<1>3. ASSUME _delivery_task(m) PROVE LinkInv'
  <2> DEFINE mail == [gMail[m] EXCEPT !.step = "ended", !.row = gMail[m].step]
  <2>1. gMail[m].step \in {"delivered", "failed"} /\ gMail' = [gMail EXCEPT ![m] = mail] /\ UNCHANGED <<gAccount, gRow, gPoll, gListening, gConflicts, gFaults>>
    BY <1>3 DEF _delivery_task, OutcomeOf
  <2>2. mail \in MailRecords /\ MailOK(mail, gFaults)
    BY <1>0, <2>1 DEF MailRecords, MailOK, MailSteps
  <2> HIDE DEF mail
  <2>3. gFaults' \in Nat /\ gFaults' >= gFaults /\ MailOK(mail, gFaults')
    BY <1>0, <2>1, <2>2
  <2>4. QED BY <2>1, <2>2, <2>3, MailGoesOn
<1>4. ASSUME RowNotWritten(m) PROVE LinkInv'
  <2> DEFINE mail == [gMail[m] EXCEPT !.step = IF @ = "delivered" THEN "failed" ELSE "ended"]
  <2>1. /\ gMail[m].step \in {"delivered", "failed"} /\ gMail' = [gMail EXCEPT ![m] = mail]
        /\ gFaults' = gFaults + 1 /\ UNCHANGED <<gAccount, gRow, gPoll, gListening, gConflicts>>
    BY <1>4 DEF RowNotWritten, LinkFault
  <2>2. mail \in MailRecords /\ MailOK(mail, gFaults + 1)
    BY <1>0, <2>1 DEF MailRecords, MailOK, MailSteps
  <2> HIDE DEF mail
  <2>3. gFaults' \in Nat /\ gFaults' >= gFaults /\ MailOK(mail, gFaults')
    BY <1>0, <2>1, <2>2
  <2>4. QED BY <2>1, <2>2, <2>3, MailGoesOn
<1>5. QED BY <1>1, <1>2, <1>3, <1>4

LEMMA LinkRestarts == LinkInv /\ RestartLink => LinkInv'
<1> SUFFICES ASSUME LinkInv, RestartLink PROVE LinkInv'
  OBVIOUS
<1>0. LinkTypeOK /\ OneHoldsIt /\ AccountIsThere /\ gFaults \in Nat
  BY DEF LinkInv, LinkTypeOK
<1>1. /\ gFaults' = gFaults + 1 /\ gLoops' = {} /\ gOverlap' = FALSE /\ UNCHANGED <<gAccount, gRow, gConflicts>>
  BY DEF RestartLink, LinkFault
<1>2. /\ [PollDone EXCEPT !.step = "phone"] \in [user : LinkUsers \cup {SomeUser}, step : PollSteps]
      /\ PollDone \in [user : LinkUsers \cup {SomeUser}, step : PollSteps] /\ PollDone.step = "done"
      /\ [PollDone EXCEPT !.step = "phone"].step = "phone"
  BY DEF PollDone, PollIdle, PollSteps
<1>3. /\ gPoll' \in [Restarters -> [user : LinkUsers \cup {SomeUser}, step : PollSteps]]
      /\ \A p \in Restarters : gPoll'[p].step \in {"unasked", "phone", "done"} /\ (gPoll'[p].step = "phone" => p = Boot)
  BY <1>0, <1>2 DEF RestartLink, LinkTypeOK, PollAt
<1>4. /\ gMail' \in [Mails -> MailRecords]
      /\ \A m \in Mails : IF gMail[m].step = "idle" THEN gMail'[m] = gMail[m] ELSE gMail'[m] = [gMail[m] EXCEPT !.step = "ended"]
  BY <1>0 DEF RestartLink, LinkTypeOK, MailRecords, MailSteps
<1>5. LinkTypeOK'
  <2>0. gFaults' \in Nat
    BY <1>0, <1>1
  <2>1. gLoops' \subseteq Restarters /\ gOverlap' \in BOOLEAN
    BY <1>1
  <2>2. gAccount' \in BOOLEAN /\ gRow' \in [LinkUsers -> {"none", "connected", "disconnected"}]
    BY <1>0, <1>1 DEF LinkTypeOK
  <2>3. QED BY <1>3, <1>4, <2>0, <2>1, <2>2 DEF LinkTypeOK, MailRecords
<1>6. OneHoldsIt' /\ AccountIsThere' /\ OneRestarts' /\ ToBeHeard'
  <2>1. OneHoldsIt' /\ AccountIsThere'
    BY <1>0, <1>1, <1>3 DEF OneHoldsIt, AccountIsThere, Holders, gConflicts
  <2>2. OneRestarts'
    BY <1>1, <1>3 DEF OneRestarts, Restarting
  <2>3. ToBeHeard'
    BY <1>0, <1>1 DEF ToBeHeard
  <2>4. QED BY <2>1, <2>2, <2>3
<1>7. ASSUME NEW m \in Mails PROVE MailOK(gMail[m], gFaults)'
  <2>1. MailOK(gMail[m], gFaults) /\ gMail[m] \in MailRecords
    BY <1>0 DEF LinkInv, LinkTypeOK, MailRecords
  <2>2. CASE gMail[m].step = "idle"
    BY <1>0, <1>1, <1>4, <2>1, <2>2 DEF MailOK
  <2>3. CASE gMail[m].step # "idle"
    <3>1. gMail'[m] = [gMail[m] EXCEPT !.step = "ended"]
      BY <1>4, <2>3
    <3>2. MailOK([gMail[m] EXCEPT !.step = "ended"], gFaults + 1)
      BY <1>0, <2>1, <2>3 DEF MailOK, MailRecords, MailSteps
    <3>3. QED BY <1>1, <3>1, <3>2
  <2>4. QED BY <2>2, <2>3
<1>8. QED BY <1>5, <1>6, <1>7 DEF LinkInv

LEMMA LinkKept == LinkInv /\ [LinkNext]_gVars => LinkInv'
<1> SUFFICES ASSUME LinkInv, [LinkNext]_gVars PROVE LinkInv'
  OBVIOUS
<1>0. LinkTypeOK /\ OneHoldsIt /\ AccountIsThere /\ OneRestarts /\ ToBeHeard /\ \A m \in Mails : MailOK(gMail[m], gFaults)
  BY DEF LinkInv
<1>1. CASE SignalPairs
  <2>1. gAccount' = TRUE /\ UNCHANGED <<gRow, gPoll, gListening, gConflicts, gMail, gFaults>>
    BY <1>1 DEF SignalPairs
  <2>2. LinkTypeOK'
    BY <1>0, <2>1 DEF LinkTypeOK, gListening
  <2>3. OneHoldsIt' /\ AccountIsThere' /\ OneRestarts' /\ ToBeHeard'
    BY <1>0, <2>1 DEF OneHoldsIt, AccountIsThere, OneRestarts, ToBeHeard, Restarting, Holders, gConflicts, gListening
  <2>4. QED BY <1>0, <2>1, <2>2, <2>3 DEF LinkInv
<1>2. ASSUME NEW u \in LinkUsers, disconnect_and_purge(u) PROVE LinkInv'
  <2>1. gRow' = [gRow EXCEPT ![u] = "none"] /\ UNCHANGED <<gAccount, gPoll, gListening, gConflicts, gMail, gFaults>>
    BY <1>2 DEF disconnect_and_purge
  <2>2. LinkTypeOK' /\ Holders' \subseteq Holders
    BY <1>0, <2>1 DEF LinkTypeOK, Holders, gListening
  <2>3. OneHoldsIt' /\ AccountIsThere' /\ OneRestarts' /\ ToBeHeard'
    BY <1>0, <2>1, <2>2 DEF OneHoldsIt, AccountIsThere, OneRestarts, ToBeHeard, Restarting, gConflicts, gListening
  <2>4. QED BY <1>0, <2>1, <2>2, <2>3 DEF LinkInv
<1>3. CASE OldStopped
  <2>1. PICK p \in Restarters : PollAt(p, "stopping")
    BY <1>3 DEF OldStopped
  <2>2. QED BY <1>3, ListenerKept
<1>4. CASE \E p \in Restarters : stop_signal_ws_listener(p) \/ start_signal_ws_listener(p) \/ NoPhone(p)
  BY <1>4, ListenerKept
<1>5. CASE \E p \in LinkPolls, u \in LinkUsers : check_signal_link_status(p, u)
  BY <1>5, PollKept DEF Restarters
<1>6. CASE \E p \in Restarters : \/ \E found \in BOOLEAN : check_link_complete(p, found)
                                 \/ Guard(p) \/ create_connection(p) \/ DeleteOwnRow(p) \/ InsertConnection(p)
  BY <1>6, PollKept
<1>7. CASE \E m \in Mails : \/ \E u \in LinkUsers : deliver_chat_message_via_signal(m, u)
                            \/ \E outcome \in {"sent", "refused", "unanswered"} : _deliver_with_retry(m, outcome)
                            \/ _delivery_task(m) \/ RowNotWritten(m)
  BY <1>7, MailKept
<1>8. CASE UNCHANGED gVars
  <2>1. UNCHANGED <<gAccount, gRow, gPoll, gListening, gConflicts, gMail, gFaults>>
    BY <1>8 DEF gVars, gListening, gConflicts
  <2>2. LinkTypeOK'
    BY <1>0, <2>1 DEF LinkTypeOK, gListening
  <2>3. OneHoldsIt' /\ AccountIsThere' /\ OneRestarts' /\ ToBeHeard'
    BY <1>0, <2>1 DEF OneHoldsIt, AccountIsThere, OneRestarts, ToBeHeard, Restarting, Holders, gConflicts, gListening
  <2>4. QED BY <1>0, <2>1, <2>2, <2>3 DEF LinkInv
<1>9. QED BY <1>1, <1>2, <1>3, <1>4, <1>5, <1>6, <1>7, <1>8, LinkRestarts DEF LinkNext

(* Of two users one holds the phone at most, and who lost it was told; the *)
(* listener the handle can stop is the only one unless restarts overlapped,*)
(* and a linked user is listened to; an audit row is true to what was sent *)
(* (signal_bridge.py, signal_delivery.py).                                 *)
THEOREM LinkIsHeld == LinkSpec => []LinkHolds
<1>1. ASSUME LinkInv PROVE LinkHolds
  <2>1. LinkTypeOK /\ OneHoldsIt /\ OneRestarts /\ ToBeHeard /\ \A m \in Mails : MailOK(gMail[m], gFaults)
    BY <1>1 DEF LinkInv
  <2>2. OneHolder
    <3>1. CASE Holders = {}
      BY <2>1, <3>1, FS_EmptySet DEF OneHoldsIt, OneHolder
    <3>2. CASE Holders # {}
      <4>1. PICK u \in Holders : TRUE
        BY <3>2
      <4>2. Holders = {u}
        BY <2>1, <4>1 DEF OneHoldsIt
      <4>3. Cardinality({u}) = 1
        BY FS_Singleton
      <4>4. QED BY <2>1, <4>2, <4>3 DEF OneHoldsIt, OneHolder
    <3>3. QED BY <3>1, <3>2
  <2>3. Listened
    BY <2>1 DEF OneRestarts, ToBeHeard, Listened
  <2>4. MailIsTrue
    BY <2>1 DEF LinkTypeOK, MailOK, MailIsTrue, MailSteps, MaxSends
  <2>5. QED BY <2>2, <2>3, <2>4 DEF LinkHolds
<1>2. QED BY LinkStart, LinkKept, <1>1, PTL DEF LinkSpec

(***************************************************************************)
(* The steps of a plan.  Kahn's algorithm leaves every circle in, so what  *)
(* validate_dag accepts has none.                                          *)
(***************************************************************************)
LEMMA LeastNumber ==
  ASSUME NEW S, S \subseteq Nat, S # {}
  PROVE  \E n \in S : \A i \in S : n <= i
<1>1. \E n \in S : \A i \in S : ~(<<i, n>> \in OpToRel(<, Nat))
  BY NatLessThanWellFounded, WFMin
<1>2. PICK n \in S : \A i \in S : ~(<<i, n>> \in OpToRel(<, Nat))
  BY <1>1
<1>3. \A i \in S : ~(i < n)
  BY <1>2 DEF OpToRel
<1>4. \A i \in S : n <= i
  BY <1>3
<1>5. QED BY <1>4

StillLeft(needs, L) == {s \in L : needs[s] \cap L # {}}
\* f is what remains after each of the first n rounds
PeelsTo(steps, needs, f, n) ==
    /\ f \in [0..n -> SUBSET steps] /\ f[0] = steps
    /\ \A i \in 1..n : f[i] = StillLeft(needs, f[i - 1])
PeelingIs(steps, needs, f) == f = [n \in Nat |-> IF n = 0 THEN steps ELSE {s \in f[n - 1] : needs[s] \cap f[n - 1] # {}}]

LEMMA PeelsFar ==
  ASSUME NEW steps, NEW needs
  PROVE  \A n \in Nat : \E f : PeelsTo(steps, needs, f, n)
<1> DEFINE bad == {n \in Nat : ~\E f : PeelsTo(steps, needs, f, n)}
<1>1. SUFFICES ASSUME bad # {} PROVE FALSE
  OBVIOUS
<1>2. PICK n \in bad : \A i \in bad : n <= i
  BY <1>1, LeastNumber
<1>3. n \in Nat /\ n # 0
  <2>1. PeelsTo(steps, needs, [i \in 0..0 |-> steps], 0)
    BY DEF PeelsTo
  <2>2. QED BY <2>1
<1>4. n - 1 \in Nat /\ n - 1 \notin bad
  BY <1>2, <1>3
<1>5. PICK f : PeelsTo(steps, needs, f, n - 1)
  BY <1>4
<1> DEFINE g == [i \in 0..n |-> IF i = n THEN StillLeft(needs, f[n - 1]) ELSE f[i]]
<1>6. f \in [0..(n - 1) -> SUBSET steps] /\ f[0] = steps /\ \A i \in 1..(n - 1) : f[i] = StillLeft(needs, f[i - 1])
  BY <1>5 DEF PeelsTo
<1>7. \A i \in 0..n : g[i] \in SUBSET steps
  <2>1. f[n - 1] \in SUBSET steps
    BY <1>3, <1>6
  <2>2. StillLeft(needs, f[n - 1]) \in SUBSET steps
    BY <2>1 DEF StillLeft
  <2>3. \A i \in 0..n : i # n => i \in 0..(n - 1)
    BY <1>3
  <2>4. QED BY <1>6, <2>2, <2>3
<1>8. g[0] = steps /\ \A i \in 1..n : g[i] = StillLeft(needs, g[i - 1])
  <2>1. g[0] = steps
    BY <1>3, <1>6
  <2>2. ASSUME NEW i \in 1..n PROVE g[i] = StillLeft(needs, g[i - 1])
    <3>1. i \in 0..n /\ i - 1 \in 0..n /\ i - 1 # n /\ (i # n => i \in 1..(n - 1))
      BY <1>3
    <3>2. g[i - 1] = f[i - 1]
      BY <3>1
    <3>3. g[i] = IF i = n THEN StillLeft(needs, f[n - 1]) ELSE f[i]
      BY <3>1
    <3> HIDE DEF g
    <3>4. CASE i = n
      BY <3>2, <3>3, <3>4
    <3>5. CASE i # n
      BY <1>6, <3>1, <3>2, <3>3, <3>5
    <3>6. QED BY <3>4, <3>5
  <2>3. QED BY <2>1, <2>2
<1>9. g \in [0..n -> SUBSET steps]
  BY <1>7
<1> HIDE DEF g
<1>10. PeelsTo(steps, needs, g, n)
  BY <1>8, <1>9 DEF PeelsTo
<1>11. QED BY <1>2, <1>10

LEMMA PeelsAlike ==
  ASSUME NEW steps, NEW needs, NEW f, NEW g, NEW n \in Nat, NEW m \in Nat,
         PeelsTo(steps, needs, f, n), PeelsTo(steps, needs, g, m)
  PROVE  \A i \in Nat : i <= n /\ i <= m => f[i] = g[i]
<1> DEFINE bad == {i \in Nat : i <= n /\ i <= m /\ f[i] # g[i]}
<1>1. SUFFICES ASSUME bad # {} PROVE FALSE
  OBVIOUS
<1>2. PICK i \in bad : \A j \in bad : i <= j
  BY <1>1, LeastNumber
<1>3. i \in Nat /\ i <= n /\ i <= m /\ f[i] # g[i]
  BY <1>2
<1>4. i # 0
  BY <1>3 DEF PeelsTo
<1>5. i - 1 \in Nat /\ i - 1 <= n /\ i - 1 <= m /\ ~(i <= i - 1)
  BY <1>3, <1>4
<1>6. f[i - 1] = g[i - 1]
  BY <1>2, <1>5
<1>7. i \in 1..n /\ i \in 1..m
  BY <1>3, <1>4
<1>8. f[i] = StillLeft(needs, f[i - 1]) /\ g[i] = StillLeft(needs, g[i - 1])
  BY <1>7 DEF PeelsTo
<1>9. QED BY <1>3, <1>6, <1>8

LEMMA PeelingExists ==
  ASSUME NEW steps, NEW needs
  PROVE  \E f : PeelingIs(steps, needs, f)
<1> DEFINE best(n) == CHOOSE f : PeelsTo(steps, needs, f, n)
           h == [n \in Nat |-> best(n)[n]]
<1>1. \A n \in Nat : PeelsTo(steps, needs, best(n), n)
  BY PeelsFar
<1>2. ASSUME NEW n \in Nat
      PROVE  h[n] = IF n = 0 THEN steps ELSE {s \in h[n - 1] : needs[s] \cap h[n - 1] # {}}
  <2>1. CASE n = 0
    BY <1>1, <2>1 DEF PeelsTo
  <2>2. CASE n # 0
    <3>1. n - 1 \in Nat /\ n - 1 <= n /\ n - 1 <= n - 1 /\ n \in 1..n
      BY <2>2
    <3>2. PeelsTo(steps, needs, best(n), n) /\ PeelsTo(steps, needs, best(n - 1), n - 1)
      BY <1>1, <3>1
    <3>3. h[n] = best(n)[n] /\ h[n - 1] = best(n - 1)[n - 1]
      BY <3>1
    <3> HIDE DEF best, h
    <3>4. best(n)[n - 1] = best(n - 1)[n - 1]
      BY <3>1, <3>2, PeelsAlike
    <3>5. best(n)[n] = StillLeft(needs, best(n)[n - 1])
      BY <3>1, <3>2 DEF PeelsTo
    <3>6. QED BY <2>2, <3>3, <3>4, <3>5 DEF StillLeft
  <2>3. QED BY <2>1, <2>2
<1>3. h = [n \in Nat |-> h[n]]
  OBVIOUS
<1> HIDE DEF h
<1>4. PeelingIs(steps, needs, h)
  BY <1>2, <1>3 DEF PeelingIs
<1>5. QED BY <1>4

LEMMA CirclesStay ==
  ASSUME NEW steps, NEW needs, NEW f, PeelingIs(steps, needs, f),
         NEW c, c \subseteq steps, \A s \in c : needs[s] \cap c # {}
  PROVE  \A n \in Nat : c \subseteq f[n]
<1> DEFINE bad == {n \in Nat : ~(c \subseteq f[n])}
<1>1. SUFFICES ASSUME bad # {} PROVE FALSE
  OBVIOUS
<1>2. PICK n \in bad : \A i \in bad : n <= i
  BY <1>1, LeastNumber
<1>3. n \in Nat /\ n # 0
  BY <1>2 DEF PeelingIs
<1>4. n - 1 \in Nat /\ ~(n <= n - 1)
  BY <1>3
<1>5. c \subseteq f[n - 1]
  BY <1>2, <1>4
<1>6. f[n] = {s \in f[n - 1] : needs[s] \cap f[n - 1] # {}}
  BY <1>3 DEF PeelingIs
<1>7. c \subseteq f[n]
  BY <1>5, <1>6
<1>8. QED BY <1>2, <1>7

(* What validate_dag accepts names known steps only and has no circle.     *)
LEMMA ValidHasNoCircle ==
  ASSUME NEW steps, IsFiniteSet(steps), NEW needs, validate_dag(steps, needs)
  PROVE  KnownOnly(steps, needs) /\ \A c \in SUBSET steps : (\A s \in c : needs[s] \cap c # {}) => c = {}
<1> DEFINE F == CHOOSE f : PeelingIs(steps, needs, f)
<1>1. PeelingIs(steps, needs, F)
  BY PeelingExists
<1>2. Peeled(steps, needs) = F[Cardinality(steps)]
  BY DEF Peeled, PeelingIs
<1>3. Cardinality(steps) \in Nat
  BY FS_CardinalityType
<1> HIDE DEF F
<1>4. ASSUME NEW c \in SUBSET steps, \A s \in c : needs[s] \cap c # {} PROVE c \subseteq F[Cardinality(steps)]
  <2>1. \A n \in Nat : c \subseteq F[n]
    BY <1>1, <1>4, CirclesStay
  <2>2. QED BY <1>3, <2>1
<1>5. QED BY <1>2, <1>4 DEF validate_dag

(* The plan's invariant: an edit names steps and places of the plan.       *)
StepOrders == UNION {[S -> 0..MaxPosition] : S \in SUBSET Steps}
EditOps == {"none", "add", "update", "delete", "reorder"}
EditRecords ==
    [op : EditOps, step : Steps \cup {"none"}, on : SUBSET Steps, twice : SUBSET Steps, position : 0..MaxPosition,
     order : StepOrders, steps : SUBSET Steps, needs : [Steps -> SUBSET Steps]]
EditIsMeant(edit) == edit.op \in {"add", "update"} => edit.step \in Steps
StepsTypeOK ==
    /\ dPosition \in [Steps -> 0..NoPosition] /\ dNeeds \in [Steps -> SUBSET Steps] /\ dTwice \in [Steps -> SUBSET Steps]
    /\ dOverlap \in BOOLEAN /\ dDangling \in BOOLEAN
    /\ dEdit \in [Editors -> EditRecords]
StepsInv == StepsTypeOK /\ (\A e \in Editors : EditIsMeant(dEdit[e])) /\ PlanIsDag /\ PositionsDistinct

LEMMA StepsNumbers ==
  /\ MaxPosition \in Nat /\ NoPosition = MaxPosition + 1 /\ NoPosition \in Nat
  /\ IsFiniteSet(Steps) /\ \A S \in SUBSET Steps : IsFiniteSet(S) /\ Cardinality(S) \in Nat
<1>1. MaxPosition \in Nat /\ IsFiniteSet(Steps)
  BY PlanStepsAssumption
<1>2. QED BY <1>1, FS_Subset, FS_CardinalityType DEF NoPosition

LEMMA NoEditIsRecord == NoEdit \in EditRecords /\ EditIsMeant(NoEdit) /\ NoEdit.op = "none" /\ NeedsNothing \in [Steps -> SUBSET Steps]
<1>1. NeedsNothing \in [Steps -> SUBSET Steps] /\ 0 \in 0..MaxPosition
  BY StepsNumbers DEF NeedsNothing
<1>2. NoOrder \in [{} -> 0..MaxPosition] /\ {} \in SUBSET Steps
  BY DEF NoOrder
<1>3. NoOrder \in StepOrders
  BY <1>2 DEF StepOrders
<1>4. QED BY <1>1, <1>3 DEF NoEdit, EditRecords, EditOps, EditIsMeant

LEMMA StepsStart == PlanStepsInit => StepsInv
<1> SUFFICES ASSUME PlanStepsInit PROVE StepsInv
  OBVIOUS
<1>1. Present = {}
  BY DEF PlanStepsInit, Present
<1>2. StepsTypeOK
  <2>1. dPosition \in [Steps -> 0..NoPosition]
    BY StepsNumbers DEF PlanStepsInit
  <2>2. dOverlap \in BOOLEAN /\ dDangling \in BOOLEAN
    BY DEF PlanStepsInit
  <2>3. QED BY <2>1, <2>2, NoEditIsRecord DEF PlanStepsInit, StepsTypeOK
<1>3. PlanIsDag /\ PositionsDistinct
  BY <1>1 DEF PlanIsDag, PositionsDistinct, KnownOnly, Circle
<1>4. \A e \in Editors : EditIsMeant(dEdit[e])
  BY NoEditIsRecord DEF PlanStepsInit
<1>5. QED BY <1>2, <1>3, <1>4 DEF StepsInv

(* As no two steps share a position, they are as few as the positions.     *)
LEMMA FewSteps ==
  ASSUME StepsInv
  PROVE  Cardinality(Present) \in Nat /\ IsFiniteSet(Present) /\ Cardinality(Present) <= MaxPosition + 1
<1>1. Present \subseteq Steps /\ IsFiniteSet(Present) /\ Cardinality(Present) \in Nat
  BY StepsNumbers DEF Present
<1>2. IsFiniteSet(0..MaxPosition) /\ Cardinality(0..MaxPosition) = MaxPosition + 1
  BY StepsNumbers, FS_Interval
<1>3. SUFFICES ASSUME MaxPosition + 1 < Cardinality(Present) PROVE FALSE
  BY <1>1, StepsNumbers
<1> DEFINE place == [s \in Present |-> dPosition[s]]
<1>4. place \in [Present -> 0..MaxPosition]
  BY StepsNumbers DEF StepsInv, StepsTypeOK, Present
<1> HIDE DEF place
<1>5. \E s, t \in Present : s # t /\ place[s] = place[t]
  BY <1>1, <1>2, <1>3, <1>4, FS_PigeonHole
<1>6. QED BY <1>5 DEF place, StepsInv, PositionsDistinct

LEMMA EditEnded ==
  ASSUME StepsInv, NEW e \in Editors, EditEnds(e)
  PROVE  dEdit' \in [Editors -> EditRecords] /\ \A z \in Editors : EditIsMeant(dEdit'[z])
BY NoEditIsRecord DEF StepsInv, StepsTypeOK, EditEnds

(* A reading takes what it will check from the plan as it stands.          *)
LEMMA ReadingKept ==
  ASSUME StepsInv, NEW e \in Editors, NEW edit \in EditRecords, EditIsMeant(edit), Reads(e, edit)
  PROVE  StepsInv'
<1> DEFINE seen == [edit EXCEPT !.steps = Present, !.needs = dNeeds]
<1>1. /\ dEdit' = [dEdit EXCEPT ![e] = IF edit.op = "delete" THEN edit ELSE seen]
      /\ UNCHANGED <<dPosition, dNeeds, dTwice, dOverlap, dDangling>>
  BY DEF Reads
<1>2. seen \in EditRecords /\ EditIsMeant(seen)
  <2>1. Present \in SUBSET Steps /\ dNeeds \in [Steps -> SUBSET Steps]
    BY DEF Present, StepsInv, StepsTypeOK
  <2>2. QED BY <2>1 DEF EditRecords, EditIsMeant
<1> HIDE DEF seen
<1>3. dEdit' \in [Editors -> EditRecords] /\ \A z \in Editors : EditIsMeant(dEdit'[z])
  BY <1>1, <1>2 DEF StepsInv, StepsTypeOK
<1>4. Present' = Present
  BY <1>1 DEF Present
<1>5. StepsTypeOK'
  BY <1>1, <1>3 DEF StepsInv, StepsTypeOK
<1>6. PlanIsDag' /\ PositionsDistinct'
  BY <1>1, <1>4 DEF StepsInv, PlanIsDag, PositionsDistinct, KnownOnly, Circle
<1>7. QED BY <1>3, <1>5, <1>6 DEF StepsInv

LEMMA ReadingsKept ==
  ASSUME StepsInv, NEW e \in Editors,
         \/ \E s \in Steps : delete_plan_step(e, s)
         \/ \E s \in Steps, on \in SUBSET Steps : \E twice \in {{}, on} : AppendStep(e, s, on, twice) \/ update_plan_step(e, s, on, twice)
         \/ \E s \in Steps, p \in 0..(MaxPosition - 1) : add_plan_step(e, s, {}, {}, p)
         \/ \E o \in Orders : reorder_plan_steps(e, o)
  PROVE  StepsInv'
<1>1. ASSUME NEW s \in Steps, delete_plan_step(e, s) PROVE StepsInv'
  <2> DEFINE edit == [NoEdit EXCEPT !.op = "delete", !.step = s]
  <2>1. edit \in EditRecords /\ EditIsMeant(edit)
    BY NoEditIsRecord DEF EditRecords, EditOps, EditIsMeant
  <2>2. Reads(e, edit)
    BY <1>1 DEF delete_plan_step
  <2> HIDE DEF edit
  <2>3. QED BY <2>1, <2>2, ReadingKept
<1>2. ASSUME NEW s \in Steps, NEW on \in SUBSET Steps, NEW twice \in {{}, on}, NEW p \in 0..MaxPosition, add_plan_step(e, s, on, twice, p)
      PROVE  StepsInv'
  <2> DEFINE edit == [NoEdit EXCEPT !.op = "add", !.step = s, !.on = on, !.twice = twice, !.position = p]
  <2>1. edit \in EditRecords /\ EditIsMeant(edit)
    BY NoEditIsRecord DEF EditRecords, EditOps, EditIsMeant
  <2>2. Reads(e, edit)
    BY <1>2 DEF add_plan_step
  <2> HIDE DEF edit
  <2>3. QED BY <2>1, <2>2, ReadingKept
<1>3. ASSUME NEW s \in Steps, NEW on \in SUBSET Steps, NEW twice \in {{}, on}, AppendStep(e, s, on, twice) PROVE StepsInv'
  <2>1. Cardinality(Present) \in 0..MaxPosition
    BY <1>3, StepsNumbers, FewSteps DEF AppendStep
  <2>2. QED BY <1>2, <1>3, <2>1 DEF AppendStep
<1>4. ASSUME NEW s \in Steps, NEW on \in SUBSET Steps, NEW twice \in {{}, on}, update_plan_step(e, s, on, twice) PROVE StepsInv'
  <2> DEFINE edit == [NoEdit EXCEPT !.op = "update", !.step = s, !.on = on, !.twice = twice]
  <2>1. edit \in EditRecords /\ EditIsMeant(edit)
    BY NoEditIsRecord DEF EditRecords, EditOps, EditIsMeant
  <2>2. Reads(e, edit)
    BY <1>4 DEF update_plan_step
  <2> HIDE DEF edit
  <2>3. QED BY <2>1, <2>2, ReadingKept
<1>5. ASSUME NEW s \in Steps, NEW p \in 0..(MaxPosition - 1), add_plan_step(e, s, {}, {}, p) PROVE StepsInv'
  <2>1. p \in 0..MaxPosition
    BY StepsNumbers
  <2>2. QED BY <1>2, <1>5, <2>1
<1>6. ASSUME NEW o \in Orders, reorder_plan_steps(e, o) PROVE StepsInv'
  <2> DEFINE edit == [NoEdit EXCEPT !.op = "reorder", !.order = o]
  <2>1. o \in StepOrders
    <3>1. o \in [Present -> 0..MaxPosition] /\ Present \in SUBSET Steps
      <4>1. \A i \in 0..(Cardinality(Present) - 1) : i \in 0..MaxPosition
        BY FewSteps, StepsNumbers
      <4>2. o \in [Present -> 0..(Cardinality(Present) - 1)]
        BY DEF Orders
      <4>3. QED BY <4>1, <4>2 DEF Present
    <3>2. QED BY <3>1 DEF StepOrders
  <2>2. edit \in EditRecords /\ EditIsMeant(edit)
    BY <2>1, NoEditIsRecord DEF EditRecords, EditOps, EditIsMeant
  <2>3. Reads(e, edit)
    BY <1>6 DEF reorder_plan_steps
  <2> HIDE DEF edit
  <2>4. QED BY <2>2, <2>3, ReadingKept
<1>7. QED BY <1>1, <1>3, <1>4, <1>5, <1>6

(* A proposal that was checked against the plan as it stands, and is then  *)
(* what the plan becomes, leaves it without a circle.                      *)
LEMMA CheckedKept ==
  ASSUME StepsInv, NEW edit \in EditRecords, ValidProposal(edit), Proposed(edit).steps \subseteq Steps,
         dOverlap' \/ (Present' = Proposed(edit).steps /\ dNeeds' = Proposed(edit).needs)
  PROVE  PlanIsDag'
<1>1. CASE dOverlap'
  BY <1>1 DEF PlanIsDag
<1>2. CASE ~dOverlap'
  <2> DEFINE steps == Proposed(edit).steps
             needs == Proposed(edit).needs
  <2>1. IsFiniteSet(steps)
    BY StepsNumbers
  <2>2. validate_dag(steps, needs)
    BY DEF ValidProposal
  <2>3. Present' = steps /\ dNeeds' = needs
    BY <1>2
  <2> HIDE DEF steps, needs
  <2>4. KnownOnly(steps, needs) /\ \A c \in SUBSET steps : (\A s \in c : needs[s] \cap c # {}) => c = {}
    BY <2>1, <2>2, ValidHasNoCircle
  <2>5. KnownOnly(Present', dNeeds') /\ \A c \in SUBSET Present' : (\A s \in c : dNeeds'[s] \cap c # {}) => c = {}
    BY <2>3, <2>4
  <2>6. QED BY <2>5 DEF PlanIsDag, Circle, KnownOnly
<1>3. QED BY <1>1, <1>2

LEMMA InsertKept ==
  ASSUME StepsInv, NEW e \in Editors, InsertStep(e)
  PROVE  StepsInv'
<1> DEFINE edit == dEdit[e]
<1>1. /\ edit \in EditRecords /\ edit.op = "add" /\ edit.step \in Steps /\ edit.position \in 0..MaxPosition
      /\ edit.on \in SUBSET Steps /\ edit.twice \in SUBSET Steps /\ edit.steps \in SUBSET Steps
  BY DEF StepsInv, StepsTypeOK, EditRecords, EditIsMeant, InsertStep
<1>2. /\ ValidProposal(edit) /\ EditEnds(e) /\ \A s \in Present : dPosition[s] < MaxPosition
      /\ dPosition' = [ShiftFrom(edit.position) EXCEPT ![edit.step] = edit.position]
      /\ dNeeds' = [dNeeds EXCEPT ![edit.step] = edit.on] /\ dTwice' = [dTwice EXCEPT ![edit.step] = edit.twice]
      /\ UNCHANGED dDangling
  BY DEF InsertStep
<1>3. dOverlap' = (dOverlap \/ edit.steps # Present \/ edit.needs # dNeeds)
  BY DEF InsertStep, NoteOverlap
<1>4. dEdit' \in [Editors -> EditRecords] /\ \A z \in Editors : EditIsMeant(dEdit'[z])
  BY <1>2, EditEnded
<1>t. dPosition \in [Steps -> 0..NoPosition] /\ dNeeds \in [Steps -> SUBSET Steps] /\ dTwice \in [Steps -> SUBSET Steps]
  BY DEF StepsInv, StepsTypeOK
<1> HIDE DEF edit
<1>5. \A s \in Steps : dPosition'[s] = IF s = edit.step THEN edit.position
                                      ELSE IF s \in Present /\ dPosition[s] >= edit.position THEN dPosition[s] + 1 ELSE dPosition[s]
  BY <1>1, <1>2 DEF ShiftFrom
<1>6. \A s \in Steps : /\ s \in Present => dPosition[s] \in 0..MaxPosition /\ dPosition[s] + 1 \in 0..MaxPosition
                       /\ s \notin Present => dPosition[s] = NoPosition
  BY <1>2, <1>t, StepsNumbers DEF Present
<1>7. dPosition' \in [Steps -> 0..NoPosition]
  <2>1. dPosition' = [s \in Steps |-> dPosition'[s]]
    BY <1>2 DEF ShiftFrom
  <2>2. \A s \in Steps : dPosition'[s] \in 0..NoPosition
    BY <1>1, <1>5, <1>6, <1>t, StepsNumbers
  <2>3. QED BY <2>1, <2>2
<1>8. Present' = Present \cup {edit.step}
  <2>1. \A s \in Steps : dPosition'[s] # NoPosition <=> s \in Present \/ s = edit.step
    BY <1>1, <1>5, <1>6, StepsNumbers
  <2>2. Present' = {s \in Steps : dPosition'[s] # NoPosition} /\ Present \subseteq Steps
    BY StepsNumbers DEF Present, NoPosition
  <2>3. QED BY <1>1, <2>1, <2>2
<1>9. PositionsDistinct'
  <2> SUFFICES ASSUME NEW s \in Present', NEW t \in Present', s # t PROVE dPosition'[s] # dPosition'[t]
    BY DEF PositionsDistinct
  <2>1. s \in Steps /\ t \in Steps /\ (s # edit.step => s \in Present) /\ (t # edit.step => t \in Present)
    BY <1>1, <1>8 DEF Present
  <2>2. s \in Present /\ t \in Present => dPosition[s] # dPosition[t]
    BY DEF StepsInv, PositionsDistinct
  <2>3. QED BY <1>1, <1>5, <1>6, <2>1, <2>2, StepsNumbers
<1>10. StepsTypeOK'
  <2>1. dNeeds' \in [Steps -> SUBSET Steps] /\ dTwice' \in [Steps -> SUBSET Steps]
    BY <1>1, <1>2, <1>t
  <2>2. dOverlap' \in BOOLEAN /\ dDangling' \in BOOLEAN
    BY <1>2, <1>3 DEF StepsInv, StepsTypeOK
  <2>3. QED BY <1>4, <1>7, <2>1, <2>2, StepsNumbers DEF StepsTypeOK, NoPosition
<1>11. PlanIsDag'
  <2>1. Proposed(edit) = [steps |-> edit.steps \cup {edit.step}, needs |-> [edit.needs EXCEPT ![edit.step] = edit.on]]
    BY <1>1 DEF Proposed
  <2>2. Proposed(edit).steps = edit.steps \cup {edit.step} /\ Proposed(edit).needs = [edit.needs EXCEPT ![edit.step] = edit.on]
    BY <2>1
  <2>3. Proposed(edit).steps \subseteq Steps
    BY <1>1, <2>2
  <2>4. dOverlap' \/ (Present' = Proposed(edit).steps /\ dNeeds' = Proposed(edit).needs)
    BY <1>2, <1>3, <1>8, <2>2
  <2>5. QED BY <1>1, <1>2, <2>3, <2>4, CheckedKept
<1>12. QED BY <1>4, <1>9, <1>10, <1>11 DEF StepsInv

LEMMA StoreKept ==
  ASSUME StepsInv, NEW e \in Editors, StoreStep(e)
  PROVE  StepsInv'
<1> DEFINE edit == dEdit[e]
<1>1. /\ edit \in EditRecords /\ edit.op = "update" /\ edit.step \in Steps
      /\ edit.on \in SUBSET Steps /\ edit.twice \in SUBSET Steps /\ edit.steps \in SUBSET Steps
  BY DEF StepsInv, StepsTypeOK, EditRecords, EditIsMeant, StoreStep
<1>2. /\ ValidProposal(edit) /\ EditEnds(e) /\ UNCHANGED <<dPosition, dDangling>>
      /\ edit.step \in Present => /\ dNeeds' = [dNeeds EXCEPT ![edit.step] = edit.on]
                                  /\ dTwice' = [dTwice EXCEPT ![edit.step] = edit.twice]
      /\ edit.step \notin Present => UNCHANGED <<dNeeds, dTwice>>
  BY DEF StoreStep
<1>3. dOverlap' = (dOverlap \/ edit.steps # Present \/ edit.needs # dNeeds)
  BY DEF StoreStep, NoteOverlap
<1>4. dEdit' \in [Editors -> EditRecords] /\ \A z \in Editors : EditIsMeant(dEdit'[z])
  BY <1>2, EditEnded
<1> HIDE DEF edit
<1>5. Present' = Present /\ PositionsDistinct'
  BY <1>2 DEF Present, PositionsDistinct, StepsInv
<1>6. dNeeds' \in [Steps -> SUBSET Steps] /\ dTwice' \in [Steps -> SUBSET Steps]
  BY <1>1, <1>2 DEF StepsInv, StepsTypeOK
<1>7. StepsTypeOK'
  <2>1. dOverlap' \in BOOLEAN /\ dDangling' \in BOOLEAN
    BY <1>2, <1>3 DEF StepsInv, StepsTypeOK
  <2>2. QED BY <1>2, <1>4, <1>6, <2>1 DEF StepsInv, StepsTypeOK
<1>8. PlanIsDag'
  <2>1. Proposed(edit) = [steps |-> edit.steps, needs |-> [edit.needs EXCEPT ![edit.step] = edit.on]]
    BY <1>1 DEF Proposed
  <2>2. Proposed(edit).steps = edit.steps /\ Proposed(edit).needs = [edit.needs EXCEPT ![edit.step] = edit.on]
    BY <2>1
  <2>3. CASE dOverlap' \/ edit.step \in Present
    <3>1. dOverlap' \/ (Present' = Proposed(edit).steps /\ dNeeds' = Proposed(edit).needs)
      BY <1>2, <1>3, <1>5, <2>2, <2>3
    <3>2. QED BY <1>1, <1>2, <2>2, <3>1, CheckedKept
  <2>4. CASE ~dOverlap' /\ edit.step \notin Present
    <3>1. ~dOverlap /\ UNCHANGED <<dNeeds, dDangling>>
      BY <1>2, <1>3, <2>4
    <3>2. QED BY <1>5, <3>1 DEF StepsInv, PlanIsDag, KnownOnly, Circle
  <2>5. QED BY <2>3, <2>4
<1>9. QED BY <1>4, <1>5, <1>7, <1>8 DEF StepsInv

LEMMA RemoveKept ==
  ASSUME StepsInv, NEW e \in Editors, RemoveStep(e)
  PROVE  StepsInv'
<1> DEFINE gone == dEdit[e].step
           rest == Present \ {gone}
           before(s) == {t \in rest : dPosition[t] < dPosition[s]}
<1>1. /\ EditEnds(e) /\ UNCHANGED dOverlap /\ dPosition' = Compacted(rest)
      /\ dNeeds' = [s \in Steps |-> IF s = gone THEN {} ELSE Mentioned(s, gone)]
      /\ dTwice' = [s \in Steps |-> IF s = gone THEN {} ELSE dTwice[s] \ {gone}]
      /\ dDangling' = (dDangling \/ \E s \in rest : gone \in dTwice[s])
  BY DEF RemoveStep
<1>2. dEdit' \in [Editors -> EditRecords] /\ \A z \in Editors : EditIsMeant(dEdit'[z])
  BY <1>1, EditEnded
<1>3. dPosition \in [Steps -> 0..NoPosition] /\ dNeeds \in [Steps -> SUBSET Steps] /\ dTwice \in [Steps -> SUBSET Steps]
  BY DEF StepsInv, StepsTypeOK
<1> HIDE DEF gone
<1>4. /\ rest \subseteq Present /\ Present \subseteq Steps /\ IsFiniteSet(rest)
      /\ Cardinality(rest) \in Nat /\ Cardinality(rest) <= MaxPosition + 1
  <2>1. rest \subseteq Present /\ Present \subseteq Steps
    BY DEF Present
  <2>2. Cardinality(rest) <= Cardinality(Present) /\ IsFiniteSet(rest)
    BY <2>1, FewSteps, FS_Subset
  <2>3. QED BY <2>1, <2>2, FewSteps, FS_CardinalityType, StepsNumbers
<1>5. ASSUME NEW s \in rest PROVE Cardinality(before(s)) \in 0..MaxPosition /\ IsFiniteSet(before(s))
  <2>1. before(s) \subseteq rest /\ s \notin before(s) /\ before(s) # rest
    BY <1>3, <1>4, StepsNumbers
  <2> HIDE DEF before
  <2>2. IsFiniteSet(before(s)) /\ Cardinality(before(s)) \in Nat /\ Cardinality(before(s)) < Cardinality(rest)
    BY <1>4, <2>1, FS_Subset, FS_CardinalityType
  <2>3. QED BY <1>4, <2>2, StepsNumbers
<1>6. \A s \in Steps : dPosition'[s] = IF s \in rest THEN Cardinality(before(s)) ELSE NoPosition
  BY <1>1 DEF Compacted
<1>7. ASSUME NEW s \in rest, NEW t \in rest, s # t PROVE Cardinality(before(s)) # Cardinality(before(t))
  <2>1. dPosition[s] # dPosition[t] /\ dPosition[s] \in Nat /\ dPosition[t] \in Nat
    BY <1>3, <1>4, <1>7, StepsNumbers DEF StepsInv, PositionsDistinct
  <2>2. ASSUME NEW x \in rest, NEW y \in rest, dPosition[x] < dPosition[y]
        PROVE  Cardinality(before(x)) # Cardinality(before(y))
    <3>1. \A z \in rest : dPosition[z] \in Nat
      BY <1>3, <1>4, StepsNumbers
    <3>2. before(x) \subseteq before(y) /\ x \in before(y) /\ x \notin before(x)
      BY <2>2, <3>1
    <3>3. IsFiniteSet(before(y)) /\ IsFiniteSet(before(x)) /\ Cardinality(before(x)) \in Nat /\ Cardinality(before(y)) \in Nat
      BY <1>5
    <3> HIDE DEF before
    <3>4. Cardinality(before(x)) < Cardinality(before(y))
      BY <3>2, <3>3, FS_Subset
    <3>5. QED BY <3>3, <3>4
  <2>3. CASE dPosition[s] < dPosition[t]
    BY <2>2, <2>3
  <2>4. CASE dPosition[t] < dPosition[s]
    <3>1. Cardinality(before(t)) # Cardinality(before(s))
      BY <2>2, <2>4
    <3>2. QED BY <3>1
  <2>5. QED BY <2>1, <2>3, <2>4
<1> HIDE DEF before
<1>8. dPosition' \in [Steps -> 0..NoPosition]
  <2>1. dPosition' = [s \in Steps |-> dPosition'[s]]
    BY <1>1 DEF Compacted
  <2>2. \A s \in Steps : dPosition'[s] \in 0..NoPosition
    BY <1>5, <1>6, StepsNumbers
  <2>3. QED BY <2>1, <2>2
<1>9. Present' = rest
  <2>1. Present' = {s \in Steps : dPosition'[s] # NoPosition}
    BY DEF Present, NoPosition
  <2>2. \A s \in Steps : dPosition'[s] # NoPosition <=> s \in rest
    BY <1>5, <1>6, StepsNumbers
  <2>3. QED BY <1>4, <2>1, <2>2
<1>10. PositionsDistinct'
  BY <1>4, <1>6, <1>7, <1>9 DEF PositionsDistinct
<1>11. \A s \in Steps : /\ dNeeds'[s] \in SUBSET Steps /\ dNeeds'[s] \subseteq dNeeds[s]
                        /\ s # gone /\ gone \notin dTwice[s] => gone \notin dNeeds'[s]
  BY <1>1, <1>3 DEF Mentioned
<1>12. StepsTypeOK'
  <2>1. dOverlap' \in BOOLEAN /\ dDangling' \in BOOLEAN
    BY <1>1 DEF StepsInv, StepsTypeOK
  <2>2. dNeeds' \in [Steps -> SUBSET Steps]
    BY <1>1, <1>11
  <2>3. dTwice' \in [Steps -> SUBSET Steps]
    BY <1>1, <1>3
  <2>4. QED BY <1>2, <1>8, <2>1, <2>2, <2>3 DEF StepsTypeOK, NoPosition
<1>13. PlanIsDag'
  <2> SUFFICES ASSUME ~dOverlap PROVE (dDangling' \/ KnownOnly(Present', dNeeds')) /\ ~\E c \in SUBSET Present' : Circle(c)'
    BY <1>1 DEF PlanIsDag, KnownOnly
  <2>1. (dDangling \/ KnownOnly(Present, dNeeds)) /\ ~\E c \in SUBSET Present : Circle(c)
    BY DEF StepsInv, PlanIsDag
  <2>2. ASSUME NEW c \in SUBSET Present', Circle(c)' PROVE FALSE
    <3>1. c \in SUBSET Present /\ c \subseteq Steps
      BY <1>4, <1>9
    <3>2. Circle(c)
      BY <1>11, <2>2, <3>1 DEF Circle
    <3>3. QED BY <2>1, <3>1, <3>2
  <2>3. dDangling' \/ KnownOnly(Present', dNeeds')
    <3> SUFFICES ASSUME ~dDangling' PROVE KnownOnly(rest, dNeeds')
      BY <1>9
    <3>1. KnownOnly(Present, dNeeds) /\ \A s \in rest : gone \notin dTwice[s]
      BY <1>1, <2>1
    <3>2. ASSUME NEW s \in rest PROVE dNeeds'[s] \subseteq rest
      <4>1. dNeeds'[s] \subseteq dNeeds[s] /\ dNeeds[s] \subseteq Present /\ gone \notin dNeeds'[s]
        BY <1>4, <1>11, <3>1 DEF KnownOnly
      <4>2. QED BY <4>1
    <3>3. QED BY <3>2 DEF KnownOnly
  <2>4. QED BY <2>2, <2>3
<1>14. QED BY <1>2, <1>10, <1>12, <1>13 DEF StepsInv

LEMMA OrderKept ==
  ASSUME StepsInv, NEW e \in Editors, StoreOrder(e)
  PROVE  StepsInv'
<1> DEFINE order == dEdit[e].order
<1>1. /\ OrderFits(order) /\ EditEnds(e) /\ dPosition' = Reordered(order) /\ UNCHANGED <<dNeeds, dTwice, dOverlap, dDangling>>
  BY DEF StoreOrder
<1>2. dEdit' \in [Editors -> EditRecords] /\ \A z \in Editors : EditIsMeant(dEdit'[z])
  BY <1>1, EditEnded
<1>3. \A s \in DOMAIN order : order[s] \in 0..MaxPosition
  <2>1. order \in StepOrders
    BY DEF StepsInv, StepsTypeOK, EditRecords
  <2>2. QED BY <2>1 DEF StepOrders
<1>4. dPosition \in [Steps -> 0..NoPosition]
  BY DEF StepsInv, StepsTypeOK
<1> HIDE DEF order
<1>5. /\ dPosition' \in [Steps -> 0..NoPosition]
      /\ \A s \in Steps : dPosition'[s] # NoPosition <=> s \in Present
  <2>1. \A s \in Steps : dPosition'[s] = IF s \in Present /\ s \in DOMAIN order THEN order[s] ELSE dPosition[s]
    BY <1>1 DEF Reordered
  <2>2. dPosition' = [s \in Steps |-> dPosition'[s]]
    BY <1>1 DEF Reordered
  <2>3. \A s \in Steps : s \in Present <=> dPosition[s] # NoPosition
    BY DEF Present
  <2>4. \A s \in Steps : dPosition'[s] \in 0..NoPosition /\ (dPosition'[s] # NoPosition <=> s \in Present)
    BY <1>3, <1>4, <2>1, <2>3, StepsNumbers
  <2>5. QED BY <2>2, <2>4
<1>6. Present' = Present
  BY <1>5 DEF Present, NoPosition
<1>7. PositionsDistinct'
  BY <1>1, <1>6 DEF OrderFits, PositionsDistinct
<1>8. StepsTypeOK'
  BY <1>1, <1>2, <1>5 DEF StepsInv, StepsTypeOK, NoPosition
<1>9. PlanIsDag'
  BY <1>1, <1>6 DEF StepsInv, PlanIsDag, KnownOnly, Circle
<1>10. QED BY <1>2, <1>7, <1>8, <1>9 DEF StepsInv

LEMMA StepsKept == StepsInv /\ [PlanStepsNext]_dVars => StepsInv'
<1> SUFFICES ASSUME StepsInv, [PlanStepsNext]_dVars PROVE StepsInv'
  OBVIOUS
<1>1. ASSUME UNCHANGED <<dPosition, dNeeds, dTwice, dOverlap, dDangling>>,
             dEdit' \in [Editors -> EditRecords], \A z \in Editors : EditIsMeant(dEdit'[z])
      PROVE  StepsInv'
  <2>1. Present' = Present
    BY <1>1 DEF Present
  <2>2. StepsTypeOK'
    BY <1>1 DEF StepsInv, StepsTypeOK
  <2>3. PlanIsDag' /\ PositionsDistinct'
    BY <1>1, <2>1 DEF StepsInv, PlanIsDag, PositionsDistinct, KnownOnly, Circle
  <2>4. QED BY <1>1, <2>2, <2>3 DEF StepsInv
<1>2. ASSUME NEW e \in Editors, EditRefused(e) PROVE StepsInv'
  BY <1>1, <1>2, EditEnded DEF EditRefused
<1>3. CASE ClosePlan \/ UNCHANGED dVars
  BY <1>1, <1>3 DEF ClosePlan, dVars, StepsInv, StepsTypeOK
<1>4. ASSUME NEW e \in Editors,
             \/ \E s \in Steps : delete_plan_step(e, s)
             \/ \E s \in Steps, on \in SUBSET Steps : \E twice \in {{}, on} :
                   AppendStep(e, s, on, twice) \/ update_plan_step(e, s, on, twice)
             \/ \E s \in Steps, p \in 0..(MaxPosition - 1) : add_plan_step(e, s, {}, {}, p)
             \/ \E o \in Orders : reorder_plan_steps(e, o)
      PROVE  StepsInv'
  BY <1>4, ReadingsKept
<1>5. QED BY <1>2, <1>3, <1>4, InsertKept, StoreKept, RemoveKept, OrderKept DEF PlanStepsNext

(* A plan's steps have places of their own and depend on one another in no *)
(* circle, unless an edit was checked against a plan that had changed since*)
(* (validate_dag, add_plan_step, update_plan_step, delete_plan_step and    *)
(* reorder_plan_steps in chat_store.py).                                   *)
THEOREM StepsOrdered == PlanStepsSpec => []StepsAreOrdered
<1>1. StepsInv => StepsAreOrdered
  BY DEF StepsInv, StepsAreOrdered
<1>2. QED BY StepsStart, StepsKept, <1>1, PTL DEF PlanStepsSpec

=============================================================================
