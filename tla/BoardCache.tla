----------------------------- MODULE BoardCache -----------------------------
(***************************************************************************)
(* One project's board as the API serves it: the in-memory cache, fetches  *)
(* shared by concurrent callers, the quick INITIAL load that a background  *)
(* FULL load completes, the warm-up that selecting a project starts and    *)
(* selecting another one cancels, sub-issues cached for longer than the    *)
(* board, and the offline board made of stored Done items.                 *)
(* A version stands for all that GitHub knows of the board at a time.      *)
(***************************************************************************)
EXTENDS Naturals, FiniteSets

CONSTANTS Readers,      \* requests in progress at a time
          BoardChanges  \* bound on moves, changes on GitHub, expiries, polling's reads and faults

Modes == {"initial", "full"}
NoBoard == [ver |-> 0, sub |-> 0, complete |-> FALSE]
OfflineBoard == [ver |-> 1, sub |-> 1, complete |-> FALSE]
NoFetch == [stage |-> "none", board |-> NoBoard]
Background == {"completion", "warmup"}

ASSUME BoardAssumption == IsFiniteSet(Readers) /\ Readers \cap Background = {} /\ BoardChanges \in Nat

VARIABLES
    bServer,   \* version of the board on GitHub, from 1
    bEntry,    \* cache entry of the board, NoBoard when there is none
    bExpired,  \* the entry outlived its five minutes
    bSub,      \* version of the cached sub-issues, 0 for none
    bEmpty,    \* cached instead: the empty list of a refused request
    bPoll,     \* version of the sub-issues polling has asked for, 0 if it has not
    bOffline,  \* Done items of the board are stored in SQLite
    bFetch,    \* _inflight_fetches by load mode: asked, answered or failing
    bJoined,   \* what each caller awaits: a mode, "idle", or "done"
    bKind,     \* what each reader asked for: initial or refresh
    bAnswer,   \* what it got: a board, NoBoard for an error
    bPromised, \* the version that its answer has to have
    bWritten,  \* version of the last status update that met no fetch
    bChanges

bVars == <<bServer, bEntry, bExpired, bSub, bEmpty, bPoll, bOffline, bFetch, bJoined, bKind, bAnswer,
           bPromised, bWritten, bChanges>>
bReading == <<bKind, bPromised>>
bSubs == <<bSub, bEmpty, bPoll>>

BoardInit ==
    /\ bServer = 1 /\ bEntry = NoBoard /\ bExpired = FALSE /\ bOffline = FALSE
    /\ bSub = 0 /\ bEmpty = FALSE /\ bPoll = 0
    /\ bFetch = [mode \in Modes |-> NoFetch]
    /\ bJoined = [c \in Readers \cup Background |-> "idle"]
    /\ bKind = [r \in Readers |-> "initial"] /\ bAnswer = [r \in Readers |-> NoBoard]
    /\ bPromised = [r \in Readers |-> 0] /\ bWritten = 0 /\ bChanges = 0

Budget == bChanges < BoardChanges /\ bChanges' = bChanges + 1
InFlight == {mode \in Modes : bFetch[mode].stage # "none"}
IsFresh == bEntry # NoBoard /\ ~bExpired
ModeOf(kind) == IF kind = "initial" THEN "initial" ELSE "full"

---------------------------------------------------------------------------
(* coalesced_fetch: join the fetch in flight for the mode, or start one.   *)
coalesced_fetch(f, mode) ==
    IF f[mode].stage = "none" THEN [f EXCEPT ![mode] = [stage |-> "asked", board |-> NoBoard]] ELSE f

(* _schedule_background_board_completion, when the board shown is partial  *)
(* and no completion is under way; the task looks at the cache again.      *)
MayComplete(board) == board # NoBoard /\ ~board.complete /\ bJoined["completion"] = "idle"
SetCompletion(joined, board) ==
    IF MayComplete(board) THEN [joined EXCEPT !["completion"] = "starting"] ELSE joined
_complete ==
    /\ bJoined["completion"] = "starting"
    /\ IF IsFresh /\ bEntry.complete
       THEN bJoined' = [bJoined EXCEPT !["completion"] = "idle"] /\ UNCHANGED bFetch
       ELSE bJoined' = [bJoined EXCEPT !["completion"] = "full"] /\ bFetch' = coalesced_fetch(bFetch, "full")
    /\ bEntry' = IF bExpired THEN NoBoard ELSE bEntry
    /\ bExpired' = FALSE
    /\ UNCHANGED <<bServer, bSubs, bOffline, bAnswer, bReading, bWritten, bChanges>>

(* get_board_data of the API.  A refresh first drops the sub-issues of the *)
(* items in the cached board, which an expired board no longer names.      *)
SubDropped(kind) == kind = "refresh" /\ IsFresh
SubAfter(kind) == IF SubDropped(kind) THEN 0 ELSE bSub
Reloaded(kind) == SubDropped(kind) /\ InFlight = {} /\ bPoll = 0
FromCache(kind) == kind = "initial" /\ IsFresh
get_board_data(r, kind) ==
    /\ bJoined[r] \in {"idle", "done"}
    /\ bKind' = [bKind EXCEPT ![r] = kind]
    /\ bPromised' = [bPromised EXCEPT ![r] = IF Reloaded(kind) THEN bServer ELSE bWritten]
    /\ bEntry' = IF bExpired THEN NoBoard ELSE bEntry
    /\ bExpired' = FALSE
    /\ bSub' = SubAfter(kind) /\ bEmpty' = (bEmpty /\ ~SubDropped(kind))
    /\ IF FromCache(kind)
       THEN /\ bAnswer' = [bAnswer EXCEPT ![r] = bEntry]
            /\ bJoined' = SetCompletion([bJoined EXCEPT ![r] = "done"], bEntry)
            /\ UNCHANGED bFetch
       ELSE /\ bJoined' = [bJoined EXCEPT ![r] = ModeOf(kind)]
            /\ bFetch' = coalesced_fetch(bFetch, ModeOf(kind)) /\ UNCHANGED bAnswer
    /\ UNCHANGED <<bServer, bPoll, bOffline, bWritten, bChanges>>

(* Selecting a project warms its board up; selecting another one cancels   *)
(* the warm-up, and with it the fetch that it awaits and every caller that *)
(* had joined.                                                             *)
_schedule_board_warmup ==
    /\ bJoined["warmup"] = "idle" /\ Budget
    /\ bJoined' = [bJoined EXCEPT !["warmup"] = "initial"]
    /\ bFetch' = coalesced_fetch(bFetch, "initial")
    /\ UNCHANGED <<bServer, bEntry, bExpired, bSubs, bOffline, bAnswer, bReading, bWritten>>
Waiters(mode) == {c \in DOMAIN bJoined : bJoined[c] = mode}
OneWoken(mode) == [bJoined EXCEPT !["warmup"] = "idle"]
Woken(mode) == [c \in DOMAIN bJoined |-> IF c \notin Waiters(mode) THEN bJoined[c]
                                         ELSE IF c \in Readers THEN "done" ELSE "idle"]
CancelWarmup ==
    /\ bJoined["warmup"] = "initial"
    /\ bFetch' = [bFetch EXCEPT !["initial"] = NoFetch]
    /\ bJoined' = Woken("initial")
    /\ bAnswer' = [r \in Readers |-> IF r \in Waiters("initial") THEN NoBoard ELSE bAnswer[r]]
    /\ UNCHANGED <<bServer, bEntry, bExpired, bSubs, bOffline, bReading, bWritten, bChanges>>

---------------------------------------------------------------------------
(* get_sub_issues: the cached list if there is one, or the one GitHub      *)
(* sends.  A refused request counts as an empty list, which is cached too; *)
(* one that raises is swallowed with no list.                              *)
Outcomes == {"listed", "refused", "raised"}
SubCached == bSub # 0 \/ bEmpty
SubGot(outcome) == IF SubCached THEN bSub ELSE IF outcome = "listed" THEN bServer ELSE 0
Charged(outcome) == IF outcome = "listed" THEN UNCHANGED bChanges ELSE Budget

(* get_board_data of the client: the items, then their sub-issues; an      *)
(* INITIAL load leaves Done sub-issues and the reconciliation for later.   *)
GitHubAnswers(mode, outcome) ==
    /\ bFetch[mode].stage = "asked" /\ (outcome # "listed" => ~SubCached) /\ Charged(outcome)
    /\ bFetch' = [bFetch EXCEPT ![mode] = [stage |-> "answered",
          board |-> [ver |-> bServer, sub |-> SubGot(outcome), complete |-> mode = "full"]]]
    /\ bSub' = SubGot(outcome) /\ bEmpty' = (bEmpty \/ outcome = "refused")
    /\ UNCHANGED <<bServer, bPoll, bEntry, bExpired, bOffline, bJoined, bAnswer, bReading, bWritten>>

(* Polling reads sub-issues through the same cache, and stores what it was *)
(* sent whatever has been dropped or stored since it asked.                *)
PollAsks ==
    /\ ~SubCached /\ bPoll = 0 /\ Budget /\ bPoll' = bServer
    /\ UNCHANGED <<bServer, bEntry, bExpired, bSub, bEmpty, bOffline, bFetch, bJoined, bAnswer, bReading, bWritten>>
PollStores(outcome) ==
    /\ bPoll # 0 /\ bPoll' = 0 /\ Charged(outcome)
    /\ bSub' = CASE outcome = "listed" -> bPoll [] outcome = "refused" -> 0 [] outcome = "raised" -> bSub
    /\ bEmpty' = (outcome = "refused" \/ (bEmpty /\ outcome = "raised"))
    /\ UNCHANGED <<bServer, bEntry, bExpired, bOffline, bFetch, bJoined, bAnswer, bReading, bWritten>>
GitHubFails(mode) ==
    /\ bFetch[mode].stage = "asked" /\ Budget
    /\ bFetch' = [bFetch EXCEPT ![mode].stage = "failing"]
    /\ UNCHANGED <<bServer, bEntry, bExpired, bSubs, bOffline, bJoined, bAnswer, bReading, bWritten>>

(* The fetch stores the board and, after a FULL load, its Done items; then *)
(* every caller goes on.                                                   *)
_fetch_and_cache_board_data(mode) ==
    LET board == bFetch[mode].board IN
    /\ bFetch[mode].stage = "answered"
    /\ bEntry' = board /\ bExpired' = FALSE
    /\ bOffline' = (mode = "full" \/ bOffline)
    /\ bFetch' = [bFetch EXCEPT ![mode] = NoFetch]
    /\ bAnswer' = [r \in Readers |-> IF r \in Waiters(mode) THEN board ELSE bAnswer[r]]
    /\ bJoined' = IF \E c \in Waiters(mode) : c # "completion" /\ mode = "initial"
                  THEN SetCompletion(Woken(mode), board) ELSE Woken(mode)
    /\ UNCHANGED <<bServer, bSubs, bReading, bWritten, bChanges>>

(* A failure: the offline board if Done items are stored and the error is  *)
(* not about authentication, an error otherwise.                           *)
_build_done_fallback_board(mode, auth) ==
    LET offline == IF auth \/ ~bOffline THEN NoBoard ELSE OfflineBoard
    IN  /\ bFetch[mode].stage = "failing"
        /\ bFetch' = [bFetch EXCEPT ![mode] = NoFetch]
        /\ bAnswer' = [r \in Readers |-> IF r \in Waiters(mode) THEN offline ELSE bAnswer[r]]
        /\ bPromised' = [r \in Readers |-> IF r \in Waiters(mode) THEN 0 ELSE bPromised[r]]
        /\ bJoined' = Woken(mode)
        /\ UNCHANGED <<bServer, bEntry, bExpired, bSubs, bOffline, bKind, bWritten, bChanges>>

---------------------------------------------------------------------------
(* A card is moved through the API, which forgets the cached board.        *)
NotForgotten(entry) == entry
Forgotten(entry) == NoBoard
update_board_item_status ==
    /\ Budget /\ bServer' = bServer + 1
    /\ bEntry' = Forgotten(bEntry) /\ bExpired' = (bExpired /\ bEntry' # NoBoard)
    /\ bWritten' = IF InFlight = {} THEN bServer' ELSE bWritten
    /\ UNCHANGED <<bSubs, bOffline, bFetch, bJoined, bAnswer, bReading>>
ChangeOnGitHub ==
    /\ Budget /\ bServer' = bServer + 1
    /\ UNCHANGED <<bEntry, bExpired, bSubs, bOffline, bFetch, bJoined, bAnswer, bReading, bWritten>>

(* Time: a board lives five minutes in the cache, sub-issues ten.          *)
BoardExpires ==
    /\ IsFresh /\ Budget /\ bExpired' = TRUE
    /\ UNCHANGED <<bServer, bEntry, bSubs, bOffline, bFetch, bJoined, bAnswer, bReading, bWritten>>
SubIssuesExpire ==
    /\ SubCached /\ Budget /\ bSub' = 0 /\ bEmpty' = FALSE
    /\ UNCHANGED <<bServer, bPoll, bEntry, bExpired, bOffline, bFetch, bJoined, bAnswer, bReading, bWritten>>

BoardNext ==
    \/ \E r \in Readers, kind \in {"initial", "refresh"} : get_board_data(r, kind)
    \/ PollAsks \/ \E outcome \in Outcomes : PollStores(outcome) \/ \E mode \in Modes : GitHubAnswers(mode, outcome)
    \/ \E mode \in Modes : \/ GitHubFails(mode) \/ _fetch_and_cache_board_data(mode)
                           \/ \E auth \in BOOLEAN : _build_done_fallback_board(mode, auth)
    \/ _complete \/ _schedule_board_warmup \/ CancelWarmup
    \/ update_board_item_status \/ ChangeOnGitHub \/ BoardExpires \/ SubIssuesExpire

(* A request has a timeout, so GitHub answers or fails; tasks run.         *)
BoardFairness ==
    /\ \A mode \in Modes : /\ WF_bVars(GitHubAnswers(mode, "listed")) /\ WF_bVars(_fetch_and_cache_board_data(mode))
                           /\ WF_bVars(\E auth \in BOOLEAN : _build_done_fallback_board(mode, auth))
    /\ WF_bVars(_complete)

BoardSpec == BoardInit /\ [][BoardNext]_bVars /\ BoardFairness

---------------------------------------------------------------------------
Shown(r) == bJoined[r] = "done" /\ bAnswer[r] # NoBoard

(* A board read after a status update shows the moved card, unless a fetch *)
(* was under way at the update: its result, fetched before, may be stored  *)
(* after.                                                                  *)
MovedCardsShown == \A r \in Readers : Shown(r) => bAnswer[r].ver >= bPromised[r]

(* A refresh shows sub-issues as they were when it was asked for, or later *)
(* ones, or none at all because a request for them failed: the board does  *)
(* not tell the two apart.  It reloads them if the cached board had not    *)
(* expired and nobody was reading, neither a fetch of the board nor polling*)
(* the sub-issues.                                                         *)
RefreshReloadsOrDrops ==
    \A r \in Readers : Shown(r) /\ bKind[r] = "refresh" /\ bPromised[r] > bWritten =>
        bAnswer[r].sub >= bPromised[r] \/ bAnswer[r].sub = 0

(* Every request is answered, also one that joined a fetch which somebody  *)
(* else's change of project cancels.                                       *)
ReadsAnswered == \A r \in Readers : bJoined[r] \in Modes ~> bJoined[r] = "done"

(* The board as a whole: it shows what its readers have a right to see.    *)
BoardShowsNews == MovedCardsShown /\ RefreshReloadsOrDrops
=============================================================================
