--------------------------- MODULE CopilotReview ---------------------------
(***************************************************************************)
(* The copilot-review step: the explicit request for a review and the      *)
(* check that one has come, from copilot_polling/completion.py and         *)
(* helpers.py.  Copilot also reviews on its own, when a pull request turns *)
(* ready, and such a review must not finish the step.  The time of the     *)
(* request is kept in memory, in SQLite and in the issue body, each of     *)
(* which can be missing; the Done! marker carries it as well.              *)
(*                                                                         *)
(* Times are ticks of COPILOT_REVIEW_REQUEST_BUFFER_SECONDS / ReviewBuffer.*)
(* 0 is "no time".  The clock stands still when nothing waits for it.      *)
(***************************************************************************)
EXTENDS Naturals, FiniteSets

CONSTANTS EarlierRequests,\* when an earlier cycle of the step asked; 0 if none did
          ReviewBuffer,   \* the buffer after a request, in ticks
          ReviewFaults    \* bound on restarts, failed calls, unasked reviews

ASSUME ReviewAssumption ==
    EarlierRequests \subseteq 0..1 /\ ReviewBuffer \in Nat \ {0} /\ ReviewFaults \in Nat

NoMarker == [at |-> 0, asked |-> 0]

VARIABLES
    cNow,      \* the clock; 0 until it is the turn of the step
    cMemory,   \* _copilot_review_requested_at
    cRow,      \* copilot_review_requests in SQLite
    cBody,     \* the metadata in the issue body
    cCached,   \* _review_requested_cache has the issue
    cFirst,    \* _copilot_review_first_detected: the review was seen at a poll
    cMarker,   \* the Done! marker: when it was posted, and the request it names
    cOther,    \* when the agent before this one reported
    cDraft,    \* the main pull request is a draft
    cAsked,    \* a review has been asked for and not been given
    cReviews,  \* times of the reviews that are not dismissed
    cLast,     \* time of the last explicit request of this cycle
    cEarliest, \* history: time of the first on record, of this cycle or an earlier one
    cGood,     \* history: a review came a buffer after an explicit request
    cAccepted, \* the step counts as done
    cFaults

cVars == <<cNow, cMemory, cRow, cBody, cCached, cFirst, cMarker, cOther, cDraft,
           cAsked, cReviews, cLast, cEarliest, cGood, cAccepted, cFaults>>
cTimes == <<cMemory, cRow, cBody>>
cPull == <<cDraft, cAsked, cReviews, cLast, cEarliest, cGood>>

ReviewInit ==
    /\ cNow = 0 /\ cMemory = 0 /\ cRow = 0 /\ cBody = 0 /\ cCached = FALSE /\ cFirst = FALSE
    /\ cMarker = NoMarker /\ cOther = 0 /\ cDraft = TRUE /\ cAsked = FALSE
    /\ cReviews = {} /\ cLast = 0 /\ cEarliest = 0 /\ cGood = FALSE /\ cAccepted = FALSE /\ cFaults = 0

Waiting == cNow > 0 /\ ~cAccepted
MayFail(b) == b => cFaults < ReviewFaults
Count(b) == cFaults' = IF b THEN cFaults + 1 ELSE cFaults

---------------------------------------------------------------------------
(* The agent before this one reports at tick 3.  A marker and reviews can  *)
(* be there before.  An earlier cycle leaves its request on record, in     *)
(* memory, in the row, in the body and in the cache: nothing clears them.  *)
TurnBegins(asked, marker, reviews) ==
    /\ cNow = 0 /\ cNow' = 3 /\ cOther' = 3 /\ cReviews' = reviews
    /\ cMarker' = IF marker THEN [at |-> 2, asked |-> asked] ELSE NoMarker
    /\ cMemory' = asked /\ cRow' = asked /\ cBody' = asked /\ cCached' = (asked # 0)
    /\ cEarliest' = asked /\ cGood' = (asked # 0 /\ \E r \in reviews : r >= asked + ReviewBuffer)
    /\ UNCHANGED <<cFirst, cDraft, cAsked, cLast, cAccepted, cFaults>>

(* _record_copilot_review_request_timestamp: memory at once, then the row  *)
(* and the body, each best effort.                                         *)
_record_copilot_review_request_timestamp(lost) ==
    /\ cMemory' = cNow
    /\ cRow' = IF "row" \in lost THEN cRow ELSE cNow
    /\ cBody' = IF "body" \in lost THEN cBody ELSE cNow

(* Copilot is asked, over REST and else over GraphQL; the polls dismiss    *)
(* earlier reviews before, best effort too.                                *)
request_copilot_review ==
    /\ cAsked' = TRUE /\ cLast' = cNow
    /\ cEarliest' = IF cEarliest = 0 THEN cNow ELSE cEarliest
dismiss_copilot_reviews(lost) == cReviews' = IF "dismissals" \in lost THEN cReviews ELSE {}
Request(lost) ==
    /\ dismiss_copilot_reviews(lost) /\ request_copilot_review
    /\ _record_copilot_review_request_timestamp(lost)

(* The assignment of the step, and any repetition of it by the recovery,   *)
(* makes the pull request ready, asks and records, and dismisses nothing.  *)
_handle_copilot_review(lost, fails) ==
    /\ Waiting /\ LET counts == lost # {} \/ fails \/ cLast # 0 IN MayFail(counts) /\ Count(counts)
    /\ IF fails THEN UNCHANGED <<cTimes, cDraft, cAsked, cLast, cEarliest>>
       ELSE /\ cDraft' = FALSE /\ request_copilot_review
            /\ _record_copilot_review_request_timestamp(lost)
    /\ UNCHANGED <<cNow, cCached, cFirst, cMarker, cOther, cReviews, cGood, cAccepted>>

(* ensure_copilot_review_requested, for an issue in review whose turn it   *)
(* is; the cache is its memory of having asked.                            *)
ensure_copilot_review_requested(lost, fails) ==
    /\ Waiting /\ ~cCached
    /\ MayFail(lost # {} \/ fails) /\ Count(lost # {} \/ fails)
    /\ IF fails THEN UNCHANGED <<cTimes, cReviews, cAsked, cLast, cEarliest, cCached>>
       ELSE Request(lost) /\ cCached' = TRUE
    /\ cDraft' = FALSE
    /\ UNCHANGED <<cNow, cFirst, cMarker, cOther, cGood, cAccepted>>

(* _check_copilot_review_done.  First the time of the request, from the    *)
(* nearest place that has it.                                              *)
RequestTime ==
    IF cMemory # 0 THEN cMemory
    ELSE IF cRow # 0 THEN cRow
    ELSE IF cBody # 0 THEN cBody ELSE cMarker.asked

(* A marker counts if it is later than the request it names and than the   *)
(* report of every other agent.                                            *)
EffectiveTime == IF cMarker.asked # 0 THEN cMarker.asked ELSE RequestTime
StaleByRequest == EffectiveTime # 0 /\ cMarker.at <= EffectiveTime
MarkerStale == StaleByRequest \/ cMarker.at < cOther
MarkerCounts == cMarker # NoMarker /\ ~MarkerStale /\ EffectiveTime # 0
MarkerAccepted ==
    /\ Waiting /\ MarkerCounts
    /\ cAccepted' = TRUE /\ cMemory' = RequestTime
    /\ UNCHANGED <<cNow, cRow, cBody, cCached, cFirst, cMarker, cOther, cPull, cFaults>>

(* A stale one is deleted.                                                 *)
MarkerAfter(kept) == IF cMarker # NoMarker /\ MarkerStale /\ ~kept THEN NoMarker ELSE cMarker
CheckBegins(kept) ==
    /\ Waiting /\ ~MarkerCounts
    /\ MayFail(kept) /\ cMarker' = MarkerAfter(kept)

(* No request on record: ask, record, and wait for the next poll.          *)
CheckRequests(lost, kept) ==
    /\ CheckBegins(kept) /\ RequestTime = 0
    /\ MayFail(lost # {}) /\ Count(kept \/ lost # {})
    /\ cDraft' = FALSE /\ cFirst' = FALSE /\ Request(lost)
    /\ UNCHANGED <<cNow, cCached, cOther, cGood, cAccepted>>

(* While Copilot is asked nothing counts; then only a review from after    *)
(* the buffer does; otherwise ask once more.                               *)
FromRequest == ~cAsked /\ \E r \in cReviews : r >= RequestTime
Reviewed == ~cAsked /\ \E r \in cReviews : r > RequestTime + ReviewBuffer
CheckWaits(kept) ==
    /\ CheckBegins(kept) /\ RequestTime # 0 /\ ~Reviewed /\ Count(kept)
    /\ cDraft' = FALSE /\ cFirst' = FALSE /\ cMemory' = RequestTime
    /\ UNCHANGED <<cNow, cRow, cBody, cCached, cOther, cAsked, cReviews, cLast, cEarliest, cGood, cAccepted>>
CheckAsksAgain(kept) ==
    /\ CheckBegins(kept) /\ RequestTime # 0 /\ ~Reviewed /\ Count(kept)
    /\ cDraft' = FALSE /\ cFirst' = FALSE /\ cAsked' = TRUE /\ cMemory' = RequestTime
    /\ UNCHANGED <<cNow, cRow, cBody, cCached, cOther, cReviews, cLast, cEarliest, cGood, cAccepted>>

(* Seen twice, a confirmation delay apart, it is done, whether or not its  *)
(* marker gets posted.                                                     *)
CheckConfirms(kept, posted) ==
    /\ CheckBegins(kept) /\ RequestTime # 0 /\ Reviewed
    /\ MayFail(cFirst /\ ~posted) /\ Count(kept \/ (cFirst /\ ~posted))
    /\ cDraft' = FALSE /\ cFirst' = ~cFirst /\ cAccepted' = cFirst /\ cMemory' = RequestTime
    /\ UNCHANGED <<cNow, cRow, cBody, cCached, cOther, cAsked, cReviews, cLast, cEarliest, cGood>>

---------------------------------------------------------------------------
(* Copilot: it answers a request, or reviews on its own.                   *)
CopilotReviews(asked) ==
    /\ Waiting /\ (asked \/ cNow \notin cReviews)
    /\ IF asked THEN cAsked /\ UNCHANGED cFaults ELSE cFaults < ReviewFaults /\ Count(TRUE)
    /\ cReviews' = cReviews \cup {cNow} /\ cAsked' = (cAsked /\ ~asked)
    /\ cGood' = (cGood \/ (cEarliest # 0 /\ cNow >= cEarliest + ReviewBuffer))
    /\ UNCHANGED <<cNow, cTimes, cCached, cFirst, cMarker, cOther, cDraft, cLast, cEarliest, cAccepted>>

ReviewTick ==
    /\ Waiting /\ cLast # 0 /\ cNow <= cLast + ReviewBuffer /\ cNow' = cNow + 1
    /\ UNCHANGED <<cTimes, cCached, cFirst, cMarker, cOther, cPull, cAccepted, cFaults>>

ReviewRestart ==
    /\ Waiting /\ cFaults < ReviewFaults /\ Count(TRUE)
    /\ cMemory' = 0 /\ cCached' = FALSE /\ cFirst' = FALSE
    /\ UNCHANGED <<cNow, cRow, cBody, cMarker, cOther, cPull, cAccepted>>

CheckReview ==
    \/ MarkerAccepted
    \/ \E kept \in BOOLEAN :
          \/ \E lost \in SUBSET {"row", "body", "dismissals"} : CheckRequests(lost, kept)
          \/ CheckAsksAgain(kept) \/ \E posted \in BOOLEAN : CheckConfirms(kept, posted)

ReviewNext ==
    \/ \E asked \in EarlierRequests, m \in BOOLEAN, rs \in SUBSET {1, 3} : TurnBegins(asked, m, rs)
    \/ \E lost \in SUBSET {"row", "body"}, fails \in BOOLEAN : _handle_copilot_review(lost, fails)
    \/ \E lost \in SUBSET {"row", "body", "dismissals"}, fails \in BOOLEAN : ensure_copilot_review_requested(lost, fails)
    \/ CheckReview \/ ReviewTick \/ ReviewRestart
    \/ \E asked \in BOOLEAN : CopilotReviews(asked)

(* The poll makes both checks in every cycle; Copilot answers requests.    *)
ReviewFairness ==
    /\ WF_cVars(CheckReview) /\ WF_cVars(ReviewTick) /\ WF_cVars(CopilotReviews(TRUE))

ReviewSpec == ReviewInit /\ [][ReviewNext]_cVars /\ ReviewFairness

---------------------------------------------------------------------------
(* The step is done only when Copilot has reviewed a buffer after an       *)
(* explicit request, of this cycle or of an earlier one: not by a review   *)
(* made before anybody asked, by the marker of an earlier run, nor by one  *)
(* read against a time that a restart lost.  That the request is of this   *)
(* cycle cannot be promised: the time of an earlier one stays on record,   *)
(* and a review that came by itself since then counts.                     *)
ReviewWasAskedFor == cAccepted => cGood

(* A restart, a lost record or a marker that cannot be deleted delays the  *)
(* step and does not hang it.                                              *)
ReviewIsAccepted == cNow > 0 ~> cAccepted
=============================================================================
