----------------------------- MODULE SignalChat -----------------------------
(***************************************************************************)
(* The conversation with one user over Signal.  Each message is handled by *)
(* a task of its own.  What the assistant proposes waits in one slot of    *)
(* memory for the user's word; the proposals themselves are stored.        *)
(***************************************************************************)
EXTENDS Naturals, Sequences, FiniteSets

CONSTANTS
    SignalMessages, \* messages the user sends
    MaxOffers,      \* bound on proposals
    SignalFaults    \* bound on failed calls and restarts

ASSUME SignalAssumption ==
    IsFiniteSet(SignalMessages) /\ MaxOffers \in Nat /\ SignalFaults \in Nat

Offer == 1..MaxOffers
OfferKinds == {"issue_create", "task_create", "status_update"}
Words == {"text", "confirm", "reject"}
NoOffer == 0

VARIABLES
    hPending, \* _signal_pending: the proposal in the slot, or NoOffer
    hKind,    \* the proposals there are: absent at first, then their kind
    hStored,  \* a proposal's status in the database
    hDone,    \* GitHub: how often a proposal's first call was carried out
    hCarded,  \* GitHub: proposals whose issue is on the board
    hSilent,  \* proposals a call for which failed without a word: only the log knows
    hTask,    \* each message: its word, the step of its task and the proposal it is about
    hToken,   \* the user has a session
    hTold,    \* <<o, what>>: what the user was told of a proposal
    hFaults

hVars == <<hPending, hKind, hStored, hDone, hCarded, hSilent, hTask, hToken, hTold, hFaults>>
hOffers == <<hKind, hStored>>
hGitHub == <<hDone, hCarded, hSilent>>
Sent(word, step, o) == [word |-> word, step |-> step, offer |-> o]

SignalInit ==
    /\ hPending = NoOffer /\ hKind = [o \in Offer |-> "absent"] /\ hStored = [o \in Offer |-> "none"]
    /\ hDone = [o \in Offer |-> 0] /\ hCarded = {} /\ hSilent = {}
    /\ hTask = [s \in SignalMessages |-> Sent("text", "unsent", NoOffer)] /\ hToken = TRUE /\ hTold = {} /\ hFaults = 0

SignalFault == hFaults < SignalFaults /\ hFaults' = hFaults + 1
GoesWell(fine) == IF fine THEN UNCHANGED hFaults ELSE SignalFault
IsAt(s, step) == hTask[s].step = step
Of(s) == hTask[s].offer
StepTo(s, step) == hTask' = [hTask EXCEPT ![s].step = step]
Ended == Sent("text", "ended", NoOffer)
TaskEnds(s) == hTask' = [hTask EXCEPT ![s] = Ended]
Tell(o, what) == hTold' = hTold \cup {<<o, what>>}
TellIf(heard, o, what) == IF heard THEN Tell(o, what) ELSE UNCHANGED hTold

---------------------------------------------------------------------------
(* A word of consent or refusal takes the proposal out of the slot before  *)
(* anything is awaited; with an empty slot it is a text like any other.  A *)
(* text goes to the #agent command or to the assistant.                    *)
TakesPending == hPending' = NoOffer
LeavesPending == UNCHANGED hPending
OnConfirm == TakesPending
process_signal_chat(s, word) ==
    /\ IsAt(s, "unsent")
    /\ CASE word = "confirm" /\ hPending # NoOffer -> OnConfirm /\ hTask' = [hTask EXCEPT ![s] = Sent(word, "token", hPending)]
         [] word = "reject" /\ hPending # NoOffer -> TakesPending /\ hTask' = [hTask EXCEPT ![s] = Sent(word, "withdraw", hPending)]
         [] OTHER -> UNCHANGED hPending /\ \E step \in {"agent_command", "token"} : hTask' = [hTask EXCEPT ![s] = Sent("text", step, NoOffer)]
    /\ UNCHANGED <<hOffers, hGitHub, hToken, hTold, hFaults>>
ToAgentCommand(s) ==
    /\ IsAt(s, "agent_command") /\ TaskEnds(s)
    /\ UNCHANGED <<hPending, hOffers, hGitHub, hToken, hTold, hFaults>>

(* Without a session the proposal goes back into the slot, whatever has    *)
(* come there meanwhile.                                                   *)
_get_user_access_token(s) ==
    /\ IsAt(s, "token")
    /\ IF hToken THEN StepTo(s, IF hTask[s].word = "confirm" THEN "carry_out" ELSE "assistant") /\ UNCHANGED hPending
       ELSE TaskEnds(s) /\ hPending' = IF hTask[s].word = "confirm" THEN Of(s) ELSE hPending
    /\ UNCHANGED <<hOffers, hGitHub, hToken, hTold, hFaults>>

---------------------------------------------------------------------------
(* Consent.  A call that raises ends it: making the issue, moving the      *)
(* status, keeping the message.  A failed launch or write of the status is *)
(* only logged; so is a failure to put the issue on the board, which every *)
(* fallback swallows, and a status the project does not have: the call     *)
(* returns an empty id or False, which nobody looks at.                    *)
AfterFirst(kind) == IF kind = "status_update" THEN "store" ELSE "card"
AfterCard(kind) == IF kind = "issue_create" THEN "launch" ELSE "store"
AfterLaunch(kind) == IF kind = "issue_create" THEN "store" ELSE "message"
AfterStore(kind) == IF kind = "task_create" THEN "launch" ELSE "message"
KindOf(s) == hKind[Of(s)]
FailsConfirm(s, heard) ==
    SignalFault /\ TaskEnds(s) /\ TellIf(heard, Of(s), "try_again")
ConfirmFails(s, heard) ==
    /\ hTask[s].word = "confirm" /\ hTask[s].step \in {"carry_out", "message"} /\ FailsConfirm(s, heard)
    /\ UNCHANGED <<hPending, hOffers, hGitHub, hToken>>
ProposalExpired(s, heard) ==
    /\ IsAt(s, "carry_out") /\ SignalFault /\ TaskEnds(s) /\ TellIf(heard, Of(s), "expired")
    /\ UNCHANGED <<hPending, hOffers, hGitHub, hToken>>
_handle_confirm(s, answered) ==
    /\ IsAt(s, "carry_out") /\ hDone' = [hDone EXCEPT ![Of(s)] = @ + 1]
    /\ IF answered THEN StepTo(s, AfterFirst(KindOf(s))) /\ UNCHANGED <<hTold, hFaults>>
       ELSE \E heard \in BOOLEAN : FailsConfirm(s, heard)
    /\ UNCHANGED <<hPending, hOffers, hCarded, hSilent, hToken>>
update_item_status_by_name(s) ==
    /\ IsAt(s, "carry_out") /\ KindOf(s) = "status_update"
    /\ hSilent' = hSilent \cup {Of(s)} /\ StepTo(s, AfterFirst(KindOf(s)))
    /\ UNCHANGED <<hPending, hOffers, hDone, hCarded, hToken, hTold, hFaults>>
add_issue_to_project(s, added) ==
    /\ IsAt(s, "card") /\ GoesWell(added) /\ StepTo(s, AfterCard(KindOf(s)))
    /\ hCarded' = IF added THEN hCarded \cup {Of(s)} ELSE hCarded
    /\ hSilent' = IF added THEN hSilent ELSE hSilent \cup {Of(s)}
    /\ UNCHANGED <<hPending, hOffers, hDone, hToken, hTold>>
_run_workflow_orchestration(s) ==
    /\ IsAt(s, "launch") /\ StepTo(s, AfterLaunch(KindOf(s)))
    /\ UNCHANGED <<hPending, hOffers, hGitHub, hToken, hTold, hFaults>>
StoreConfirmed(s, stored) ==
    /\ IsAt(s, "store") /\ GoesWell(stored) /\ StepTo(s, AfterStore(KindOf(s)))
    /\ hStored' = IF stored THEN [hStored EXCEPT ![Of(s)] = "confirmed"] ELSE hStored
    /\ UNCHANGED <<hPending, hKind, hGitHub, hToken, hTold>>
SaysDone(s, heard) ==
    /\ IsAt(s, "message") /\ hTask[s].word = "confirm" /\ TaskEnds(s) /\ TellIf(heard, Of(s), "done")
    /\ UNCHANGED <<hPending, hOffers, hGitHub, hToken, hFaults>>

(* Refusal: the status is stored and the user told, unless that fails.     *)
_handle_reject(s, stored) ==
    /\ IsAt(s, "withdraw") /\ GoesWell(stored) /\ StepTo(s, "message")
    /\ hStored' = IF stored THEN [hStored EXCEPT ![Of(s)] = "rejected"] ELSE hStored
    /\ UNCHANGED <<hPending, hKind, hGitHub, hToken, hTold>>
SaysCancelled(s, heard) ==
    /\ IsAt(s, "message") /\ hTask[s].word = "reject" /\ TaskEnds(s) /\ TellIf(heard, Of(s), "cancelled")
    /\ UNCHANGED <<hPending, hOffers, hGitHub, hToken, hFaults>>

---------------------------------------------------------------------------
(* The assistant answers, or proposes: the proposal is stored and put into *)
(* the slot, and only then is the user told.                               *)
NextOffer == CHOOSE o \in Offer : hKind[o] = "absent" /\ \A p \in Offer : hKind[p] = "absent" => o <= p
_run_ai_pipeline(s, kind) ==
    /\ IsAt(s, "assistant") /\ \E o \in Offer : hKind[o] = "absent"
    /\ hKind' = [hKind EXCEPT ![NextOffer] = kind] /\ hStored' = [hStored EXCEPT ![NextOffer] = "pending"]
    /\ hPending' = NextOffer /\ hTask' = [hTask EXCEPT ![s] = Sent("text", "message", NextOffer)]
    /\ UNCHANGED <<hGitHub, hToken, hTold, hFaults>>
OnlyAnswers(s) ==
    /\ IsAt(s, "assistant") /\ TaskEnds(s)
    /\ UNCHANGED <<hPending, hOffers, hGitHub, hToken, hTold, hFaults>>
ShowsOffer(s, heard) ==
    /\ IsAt(s, "message") /\ hTask[s].word = "text" /\ TaskEnds(s) /\ TellIf(heard, Of(s), "offered")
    /\ UNCHANGED <<hPending, hOffers, hGitHub, hToken, hFaults>>
TurnFails(s) ==
    /\ hTask[s].word # "confirm" /\ hTask[s].step \in {"assistant", "message"} /\ SignalFault /\ TaskEnds(s)
    /\ UNCHANGED <<hPending, hOffers, hGitHub, hToken, hTold>>

SessionEnds ==
    /\ hToken /\ hToken' = FALSE /\ SignalFault
    /\ UNCHANGED <<hPending, hOffers, hGitHub, hTask, hTold>>
LogsIn == ~hToken /\ hToken' = TRUE /\ UNCHANGED <<hPending, hOffers, hGitHub, hTask, hTold, hFaults>>
RestartInSignal ==
    /\ SignalFault /\ hPending' = NoOffer
    /\ hTask' = [s \in SignalMessages |-> IF IsAt(s, "unsent") THEN hTask[s] ELSE Ended]
    /\ UNCHANGED <<hOffers, hGitHub, hToken, hTold>>

SignalNext ==
    \/ \E s \in SignalMessages :
          \/ \E word \in Words : process_signal_chat(s, word)
          \/ ToAgentCommand(s) \/ _get_user_access_token(s) \/ update_item_status_by_name(s) \/ _run_workflow_orchestration(s)
          \/ OnlyAnswers(s) \/ TurnFails(s) \/ \E kind \in OfferKinds : _run_ai_pipeline(s, kind)
          \/ \E fine \in BOOLEAN :
                \/ _handle_confirm(s, fine) \/ add_issue_to_project(s, fine) \/ StoreConfirmed(s, fine) \/ _handle_reject(s, fine)
                \/ ConfirmFails(s, fine) \/ ProposalExpired(s, fine)
                \/ SaysDone(s, fine) \/ SaysCancelled(s, fine) \/ ShowsOffer(s, fine)
    \/ SessionEnds \/ LogsIn \/ RestartInSignal
SignalSpec == SignalInit /\ [][SignalNext]_hVars

---------------------------------------------------------------------------
(* A proposal has one answer, however often and with whatever words the    *)
(* user writes while its task is under way: it is carried out once at most,*)
(* by one task, never while it waits in the slot for another word, and not *)
(* when it was refused.                                                    *)
Answers(s, o) == Of(s) = o /\ hTask[s].word # "text"
AnsweredOnce ==
    \A o \in Offer :
        /\ hDone[o] <= 1
        /\ hPending = o => hDone[o] = 0 /\ \A s \in SignalMessages : ~Answers(s, o)
        /\ \A s, t \in SignalMessages : Answers(s, o) /\ Answers(t, o) => s = t
        /\ hStored[o] = "rejected" \/ <<o, "cancelled">> \in hTold => hDone[o] = 0

(* Done means that the issue was made, and that it is on the board or the  *)
(* status moved unless the call for that failed without a word: no user is *)
(* told of such a failure, and no more can be promised.  A stored          *)
(* confirmation means the same.  While nothing fails, every issue that is  *)
(* reported is on the board, what was carried out is stored so, and a      *)
(* proposal that no word can reach any more has had its answer or has been *)
(* replaced by a newer one.                                                *)
Carried(o) == IF hKind[o] = "status_update" THEN hDone[o] = 1 \/ o \in hSilent
              ELSE hDone[o] = 1 /\ o \in hCarded \cup hSilent
Reported(o) == <<o, "done">> \in hTold \/ hStored[o] = "confirmed"
ToldUnlessSilent ==
    /\ \A o \in Offer : Reported(o) => Carried(o)
    /\ hFaults = 0 => \A o \in Offer :
          /\ Reported(o) => hKind[o] = "status_update" \/ o \in hCarded
          /\ (\A s \in SignalMessages : Of(s) # o) =>
                /\ hDone[o] = 1 => hStored[o] = "confirmed"
                /\ hStored[o] = "pending" => hPending = o \/ \E newer \in Offer : newer > o /\ hKind[newer] # "absent"

(* The conversation keeps faith.                                           *)
ConversationHolds == AnsweredOnce /\ ToldUnlessSilent
=============================================================================
