----------------------------- MODULE SignalLink -----------------------------
(***************************************************************************)
(* The link between users and the Signal account of the sidecar: a status  *)
(* poll that finds the account writes the connection and restarts the one  *)
(* listener; chat messages are delivered to it by tasks that retry.        *)
(***************************************************************************)
EXTENDS Naturals, FiniteSets

CONSTANTS
    LinkUsers,  \* users, of one phone number
    LinkPolls,  \* status polls
    Mails,      \* chat messages to be delivered
    LinkFaults  \* bound on failed statements and restarts

ASSUME LinkAssumption ==
    /\ IsFiniteSet(LinkUsers \cup LinkPolls \cup Mails) /\ LinkFaults \in Nat
    /\ LinkPolls \cap {"boot", "none"} = {}  \* the startup step and no listener

Boot == "boot"           \* the startup step, which starts the listener
Restarters == LinkPolls \cup {Boot}
MaxSends == 4            \* stop_after_attempt: one try and three more
NoLoop == "none"

VARIABLES
    gAccount,  \* the sidecar has an account
    gRow,      \* signal_connections: each user's row: none, connected, disconnected
    gPoll,     \* each poll: its user and step
    gLoops,    \* listeners that run, by who started them
    gHandle,   \* _ws_listener_task
    gOverlap,  \* a listener was restarted while that was under way already
    gDisplaced,\* users whose row another took the phone from
    gBanner,   \* users told of it
    gMail,     \* each message: its step, tries, copies sent and audit row
    gFaults

gVars == <<gAccount, gRow, gPoll, gLoops, gHandle, gOverlap, gDisplaced, gBanner, gMail, gFaults>>
gListening == <<gLoops, gHandle, gOverlap>>
gConflicts == <<gDisplaced, gBanner>>
SomeUser == CHOOSE u \in LinkUsers : TRUE
PollIdle == [user |-> SomeUser, step |-> "unasked"]
PollDone == [PollIdle EXCEPT !.step = "done"]
Unmailed == [step |-> "idle", tries |-> 0, sent |-> 0, row |-> "none"]

LinkInit ==
    /\ gAccount \in BOOLEAN /\ gRow \in {[u \in LinkUsers |-> "none"], [u \in LinkUsers |-> IF u = SomeUser THEN "connected" ELSE "none"]}
    /\ gRow[SomeUser] = "connected" => gAccount
    /\ gPoll = [p \in Restarters |-> [PollIdle EXCEPT !.step = IF p = Boot THEN "phone" ELSE "unasked"]]
    /\ gLoops = {} /\ gHandle = NoLoop /\ gOverlap = FALSE
    /\ gDisplaced = {} /\ gBanner = {} /\ gMail = [m \in Mails |-> Unmailed] /\ gFaults = 0

LinkFault == gFaults < LinkFaults /\ gFaults' = gFaults + 1
PollAt(p, step) == gPoll[p].step = step
PollTo(p, step) == gPoll' = [gPoll EXCEPT ![p].step = step]
PollEnds(p) == gPoll' = [gPoll EXCEPT ![p] = PollDone]
OwnerOf(p) == gPoll[p].user
Holders == {u \in LinkUsers : gRow[u] = "connected"}
HoldersBut(u) == Holders \ {u}
SignalPairs == gAccount' = TRUE /\ ~gAccount /\ UNCHANGED <<gRow, gPoll, gListening, gConflicts, gMail, gFaults>>

---------------------------------------------------------------------------
(* A poll: the user's own connection, the sidecar's account, the guard     *)
(* against another user's, and the connection's making.                    *)
check_signal_link_status(p, u) ==
    /\ PollAt(p, "unasked") /\ p # Boot /\ gRow[u] # "connected"
    /\ gPoll' = [gPoll EXCEPT ![p] = [user |-> u, step |-> "account"]]
    /\ UNCHANGED <<gAccount, gRow, gListening, gConflicts, gMail, gFaults>>
check_link_complete(p, found) ==
    /\ PollAt(p, "account") /\ (found => gAccount)
    /\ IF found THEN PollTo(p, "guard") ELSE PollEnds(p)
    /\ UNCHANGED <<gAccount, gRow, gListening, gConflicts, gMail, gFaults>>
Guard(p) ==
    /\ PollAt(p, "guard")
    /\ IF HoldersBut(OwnerOf(p)) # {} THEN PollEnds(p) ELSE PollTo(p, "create")
    /\ UNCHANGED <<gAccount, gRow, gListening, gConflicts, gMail, gFaults>>
create_connection(p) ==
    /\ PollAt(p, "create") /\ PollTo(p, "delete")
    /\ LET taken == HoldersBut(OwnerOf(p))
       IN /\ gRow' = [u \in LinkUsers |-> IF u \in taken THEN "disconnected" ELSE gRow[u]]
          /\ gDisplaced' = gDisplaced \cup taken /\ gBanner' = gBanner \cup taken
    /\ UNCHANGED <<gAccount, gListening, gMail, gFaults>>
DeleteOwnRow(p) ==
    /\ PollAt(p, "delete") /\ gRow' = [gRow EXCEPT ![OwnerOf(p)] = "none"] /\ PollTo(p, "insert")
    /\ UNCHANGED <<gAccount, gListening, gConflicts, gMail, gFaults>>
(* A row of the user's, or a connection with the phone, that has come      *)
(* meanwhile refuses the new row; the deletion stands.                     *)
Refused(p) == gRow[OwnerOf(p)] # "none" \/ HoldersBut(OwnerOf(p)) # {}
InsertConnection(p) ==
    /\ PollAt(p, "insert")
    /\ IF Refused(p) THEN PollEnds(p) /\ UNCHANGED gRow
       ELSE PollTo(p, "post_link") /\ gRow' = [gRow EXCEPT ![OwnerOf(p)] = "connected"]
    /\ UNCHANGED <<gAccount, gListening, gConflicts, gMail, gFaults>>
disconnect_and_purge(u) ==
    /\ gRow[u] # "none" /\ gRow' = [gRow EXCEPT ![u] = "none"]
    /\ UNCHANGED <<gAccount, gPoll, gListening, gConflicts, gMail, gFaults>>

---------------------------------------------------------------------------
(* The listener.  Stopping awaits the one that the handle names; starting  *)
(* looks at the handle first and awaits the phone number after.            *)
Restarting(p) == gPoll[p].step \in {"stopping", "phone"}
stop_signal_ws_listener(p) ==   \* after the welcome message
    /\ PollAt(p, "post_link") /\ gLoops' = gLoops \ {gHandle}
    /\ IF gHandle \in gLoops \/ \E q \in Restarters : PollAt(q, "stopping")
       THEN PollTo(p, "stopping") /\ UNCHANGED gHandle
       ELSE PollTo(p, "phone") /\ gHandle' = NoLoop
    /\ gOverlap' = (gOverlap \/ \E q \in Restarters : Restarting(q))
    /\ UNCHANGED <<gAccount, gRow, gConflicts, gMail, gFaults>>
OldStopped ==                   \* all that await its end go on together
    /\ \E p \in Restarters : PollAt(p, "stopping")
    /\ gHandle' = NoLoop
    /\ gPoll' = [p \in Restarters |-> [gPoll[p] EXCEPT !.step = IF @ = "stopping" THEN "phone" ELSE @]]
    /\ UNCHANGED <<gAccount, gRow, gLoops, gOverlap, gConflicts, gMail, gFaults>>
start_signal_ws_listener(p) ==
    /\ PollAt(p, "phone") /\ gAccount /\ PollEnds(p)
    /\ gHandle' = p /\ gLoops' = gLoops \cup {p}
    /\ UNCHANGED <<gAccount, gRow, gOverlap, gConflicts, gMail, gFaults>>
NoPhone(p) ==
    /\ PollAt(p, "phone") /\ PollEnds(p) /\ (IF gAccount THEN LinkFault ELSE UNCHANGED gFaults)
    /\ UNCHANGED <<gAccount, gRow, gListening, gConflicts, gMail>>

---------------------------------------------------------------------------
(* Delivery.  The connection is read once; a message whose answer did not  *)
(* come may have been sent, and is sent again.                             *)
MailTo(m, step, sent) == gMail' = [gMail EXCEPT ![m].step = step, ![m].sent = @ + sent, ![m].tries = @ + 1]
deliver_chat_message_via_signal(m, u) ==
    /\ gMail[m].step = "idle" /\ gRow[u] = "connected"
    /\ gMail' = [gMail EXCEPT ![m].step = "send", ![m].row = "pending"]
    /\ UNCHANGED <<gAccount, gRow, gPoll, gListening, gConflicts, gFaults>>
LastTry(m) == gMail[m].tries + 1 = MaxSends
_deliver_with_retry(m, outcome) ==
    /\ gMail[m].step = "send"
    /\ CASE outcome = "sent" -> MailTo(m, "delivered", 1)
         [] outcome = "refused" -> MailTo(m, "failed", 0)
         [] outcome = "unanswered" -> \E sent \in 0..1 : MailTo(m, IF LastTry(m) THEN "failed" ELSE "send", sent)
    /\ UNCHANGED <<gAccount, gRow, gPoll, gListening, gConflicts, gFaults>>
OutcomeOf(m) == gMail[m].step
_delivery_task(m) ==
    /\ gMail[m].step \in {"delivered", "failed"}
    /\ gMail' = [gMail EXCEPT ![m].step = "ended", ![m].row = OutcomeOf(m)]
    /\ UNCHANGED <<gAccount, gRow, gPoll, gListening, gConflicts, gFaults>>
(* The row cannot be written: a delivery is then written down as a failure *)
RowNotWritten(m) ==
    /\ gMail[m].step \in {"delivered", "failed"} /\ LinkFault
    /\ gMail' = [gMail EXCEPT ![m].step = IF @ = "delivered" THEN "failed" ELSE "ended"]
    /\ UNCHANGED <<gAccount, gRow, gPoll, gListening, gConflicts>>

RestartLink ==
    /\ LinkFault /\ gLoops' = {} /\ gHandle' = NoLoop /\ gOverlap' = FALSE
    /\ gPoll' = [p \in Restarters |-> IF p = Boot THEN [PollDone EXCEPT !.step = "phone"]
                                      ELSE IF PollAt(p, "unasked") THEN gPoll[p] ELSE PollDone]
    /\ gMail' = [m \in Mails |-> IF gMail[m].step = "idle" THEN gMail[m] ELSE [gMail[m] EXCEPT !.step = "ended"]]
    /\ UNCHANGED <<gAccount, gRow, gConflicts>>

LinkNext ==
    \/ SignalPairs \/ OldStopped \/ RestartLink
    \/ \E p \in LinkPolls, u \in LinkUsers : check_signal_link_status(p, u)
    \/ \E p \in Restarters :
          \/ \E found \in BOOLEAN : check_link_complete(p, found)
          \/ Guard(p) \/ create_connection(p) \/ DeleteOwnRow(p) \/ InsertConnection(p)
          \/ stop_signal_ws_listener(p) \/ start_signal_ws_listener(p) \/ NoPhone(p)
    \/ \E u \in LinkUsers : disconnect_and_purge(u) \/ \E m \in Mails : deliver_chat_message_via_signal(m, u)
    \/ \E m \in Mails :
          \/ \E outcome \in {"sent", "refused", "unanswered"} : _deliver_with_retry(m, outcome)
          \/ _delivery_task(m) \/ RowNotWritten(m)
LinkSpec == LinkInit /\ [][LinkNext]_gVars

---------------------------------------------------------------------------
(* However polls overlap, one user holds the phone, and one who lost it to *)
(* another has been told.                                                  *)
OneHolder == Cardinality(Holders) <= 1 /\ gDisplaced \subseteq gBanner

(* One listener runs, the one that the handle can stop, unless restarts of *)
(* it overlapped; and once nothing is under way a linked user is listened  *)
(* to, overlapping restarts or not.                                        *)
Listened ==
    /\ gLoops \subseteq {gHandle} \/ gOverlap
    /\ gFaults = 0 /\ (\A p \in Restarters : gPoll[p].step \in {"unasked", "done"}) =>
           Holders = {} \/ gLoops # {}

(* The audit row of a delivery says delivered only of what was sent, and   *)
(* failed of what was acknowledged only when a write failed; it stays      *)
(* pending only then or with a restart.  No message is tried more than four*)
(* times.                                                                  *)
MailIsTrue ==
    \A m \in Mails :
        /\ gMail[m].sent <= gMail[m].tries /\ gMail[m].tries <= MaxSends
        /\ gMail[m].row = "delivered" => gMail[m].sent > 0
        /\ gMail[m].row = "failed" /\ gMail[m].sent = gMail[m].tries => gFaults > 0 \/ gMail[m].tries = MaxSends
        /\ gMail[m].step = "ended" /\ gMail[m].row = "pending" => gFaults > 0

(* Signal as a whole: who is linked, who is listened to and what was sent. *)
LinkHolds == OneHolder /\ Listened /\ MailIsTrue
=============================================================================
