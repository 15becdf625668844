---------------------------- MODULE ChatMessages ----------------------------
(***************************************************************************)
(* What a message to the chat leads to: its own row, the handler that      *)
(* takes it, the proposal or recommendation the answer offers, and the     *)
(* answer's row; with conversations deleted and histories cleared in       *)
(* between.  A row of a conversation that is gone is refused.              *)
(***************************************************************************)
EXTENDS Naturals

CONSTANTS ChatSent,      \* messages sent
          MessageFaults  \* bound on calls that fail

ASSUME ChatMessagesAssumption == MessageFaults \in Nat

VARIABLES
    mProvider,   \* a provider of completions is configured
    mAgent,      \* the chat agent is available
    mOpen,       \* the conversation exists
    mAt,         \* each message: idle, valid, asked, path, item, answer, done
    mPath,       \* the handler that took it
    mTo,         \* where it was sent: global or conversation
    mQuestion,   \* where its row is: none, global, conversation, cleared
    mAnswer,     \* where the answer's row is
    mItem,       \* the item of the answer: none, stored
    mOffers,     \* the answer's row offers an item
    mFaults

mVars == <<mProvider, mAgent, mOpen, mAt, mPath, mTo, mQuestion, mAnswer, mItem, mOffers, mFaults>>
mRows == <<mQuestion, mAnswer, mOffers>>
Handlers == {"transcript", "feature", "status", "task"}
Offering == Handlers \cup {"plain", "agent", "stream"}

ChatMessagesInit ==
    /\ mProvider \in BOOLEAN /\ mAgent \in BOOLEAN /\ mOpen = TRUE /\ mFaults = 0
    /\ mAt = [x \in ChatSent |-> "idle"] /\ mPath = [x \in ChatSent |-> "none"] /\ mTo = [x \in ChatSent |-> "global"]
    /\ mQuestion = [x \in ChatSent |-> "none"] /\ mAnswer = [x \in ChatSent |-> "none"]
    /\ mItem = [x \in ChatSent |-> "none"] /\ mOffers = [x \in ChatSent |-> FALSE]

MessageFault == mFaults < MessageFaults /\ mFaults' = mFaults + 1
Reaches(x, at) == mAt' = [mAt EXCEPT ![x] = at]
Insertable(place) == place = "conversation" => mOpen

---------------------------------------------------------------------------
(* The conversation must exist, then the message gets its row; without a   *)
(* provider and an agent an error is the answer and the message has none.  *)
_validate_chat_request_context(x, to) ==
    /\ mAt[x] = "idle" /\ Insertable(to) /\ Reaches(x, "valid") /\ mTo' = [mTo EXCEPT ![x] = to]
    /\ UNCHANGED <<mProvider, mAgent, mOpen, mPath, mRows, mItem, mFaults>>
NothingConfigured(x) ==
    /\ mAt[x] = "valid" /\ ~mProvider /\ ~mAgent /\ Reaches(x, "done")
    /\ mAnswer' = IF Insertable(mTo[x]) THEN [mAnswer EXCEPT ![x] = mTo[x]] ELSE mAnswer
    /\ UNCHANGED <<mProvider, mAgent, mOpen, mPath, mTo, mQuestion, mItem, mOffers, mFaults>>
PersistQuestion(x) ==
    /\ mAt[x] = "valid" /\ (mProvider \/ mAgent)
    /\ IF Insertable(mTo[x]) THEN Reaches(x, "asked") /\ mQuestion' = [mQuestion EXCEPT ![x] = mTo[x]]
       ELSE Reaches(x, "done") /\ UNCHANGED mQuestion
    /\ UNCHANGED <<mProvider, mAgent, mOpen, mPath, mTo, mAnswer, mItem, mOffers, mFaults>>

(* Which handler takes it: the agent command, the plain task without       *)
(* enhancement, the chat agent, or the older handlers in their order.      *)
Handled(x, path) ==
    CASE path = "command" -> TRUE
      [] path = "plain" -> ~mProvider          \* not enhanced, no provider: the text as it is
      [] path = "task" -> mProvider            \* not enhanced, or what no other handler took
      [] path \in {"agent", "stream"} -> mAgent
      [] OTHER -> mProvider /\ ~mAgent
send_message(x, path) ==
    /\ mAt[x] = "asked" /\ Handled(x, path) /\ mPath' = [mPath EXCEPT ![x] = path] /\ Reaches(x, "path")
    /\ UNCHANGED <<mProvider, mAgent, mOpen, mTo, mRows, mItem, mFaults>>

(* The item is stored before the answer that offers it; a failure becomes  *)
(* an answer of its own in the older handlers, and no answer elsewhere.    *)
StoreItem(x) ==
    /\ mAt[x] = "path" /\ mPath[x] \in Offering /\ Reaches(x, "item") /\ mItem' = [mItem EXCEPT ![x] = "stored"]
    /\ UNCHANGED <<mProvider, mAgent, mOpen, mPath, mTo, mRows, mFaults>>
Offered(x) == mAt[x] = "item"
AnswerPlainly(x) ==
    /\ mAt[x] = "path" /\ mPath[x] # "plain" /\ Reaches(x, "answer")
    /\ UNCHANGED <<mProvider, mAgent, mOpen, mPath, mTo, mRows, mItem, mFaults>>
HandlerFails(x) ==
    /\ mAt[x] \in {"path", "item"} /\ MessageFault
    /\ Reaches(x, IF mPath[x] \in (Handlers \ {"status"}) \cup {"command"} THEN "answer" ELSE "done")
    /\ UNCHANGED <<mProvider, mAgent, mOpen, mPath, mTo, mRows, mItem>>

(* The answer's row: of the conversation for the agent command, the agent  *)
(* and the plain text; the older handlers name none.  A row that is refused*)
(* leaves a stored item without the answer that would offer it.            *)
ToGlobal(x) == "global"
AnswerPlace(x) == IF mPath[x] \in Handlers THEN "global" ELSE mTo[x]
add_message(x) ==
    /\ mAt[x] \in {"item", "answer"} /\ Reaches(x, "done")
    /\ IF Insertable(AnswerPlace(x))
       THEN mAnswer' = [mAnswer EXCEPT ![x] = AnswerPlace(x)] /\ mOffers' = [mOffers EXCEPT ![x] = Offered(x)]
       ELSE UNCHANGED <<mAnswer, mOffers>>
    /\ UNCHANGED <<mProvider, mAgent, mOpen, mPath, mTo, mQuestion, mItem, mFaults>>

delete_conversation ==
    /\ mOpen /\ mOpen' = FALSE
    /\ mQuestion' = [x \in ChatSent |-> IF mQuestion[x] = "conversation" THEN "global" ELSE mQuestion[x]]
    /\ mAnswer' = [x \in ChatSent |-> IF mAnswer[x] = "conversation" THEN "global" ELSE mAnswer[x]]
    /\ UNCHANGED <<mProvider, mAgent, mAt, mPath, mTo, mItem, mOffers, mFaults>>
clear_messages(place) ==
    /\ mQuestion' = [x \in ChatSent |-> IF mQuestion[x] = place THEN "cleared" ELSE mQuestion[x]]
    /\ mAnswer' = [x \in ChatSent |-> IF mAnswer[x] = place THEN "cleared" ELSE mAnswer[x]]
    /\ UNCHANGED <<mProvider, mAgent, mOpen, mAt, mPath, mTo, mItem, mOffers, mFaults>>

ChatMessagesNext ==
    \/ \E x \in ChatSent :
          \/ \E to \in {"global", "conversation"} : _validate_chat_request_context(x, to)
          \/ \E path \in Offering \cup {"command"} : send_message(x, path)
          \/ NothingConfigured(x) \/ PersistQuestion(x) \/ StoreItem(x) \/ AnswerPlainly(x) \/ HandlerFails(x)
          \/ add_message(x)
    \/ delete_conversation \/ \E place \in {"global", "conversation"} : clear_messages(place)
ChatMessagesSpec == ChatMessagesInit /\ [][ChatMessagesNext]_mVars

---------------------------------------------------------------------------
(* An answer that offers a proposal or recommendation has it stored.       *)
OfferedIsStored == \A x \in ChatSent : mOffers[x] => mItem[x] = "stored"

(* Agent command, chat agent and plain text answer where they were asked,  *)
(* whatever was deleted or cleared in between.                             *)
AnswersStayTogether ==
    \A x \in ChatSent : mPath[x] \notin Handlers \cup {"none"} =>
        \/ mQuestion[x] = mAnswer[x] \/ mAnswer[x] = "none" \/ "cleared" \in {mQuestion[x], mAnswer[x]}

(* The exchange as a whole: what an answer offers exists, and it is given  *)
(* where the question was asked.                                           *)
AnswersHold == OfferedIsStored /\ AnswersStayTogether
=============================================================================
