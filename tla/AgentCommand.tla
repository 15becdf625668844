---------------------------- MODULE AgentCommand ----------------------------
(***************************************************************************)
(* The #agent command in a chat: one session goes from the description to a*)
(* status column, a preview, edits, and on a word of confirmation to the   *)
(* creation pipeline, whose steps go on when one fails.  The session is a  *)
(* shared object: a message that awaits the language model writes it when  *)
(* the answer comes, whatever other messages did meanwhile.                *)
(***************************************************************************)
EXTENDS Naturals, FiniteSets

CONSTANTS Messages,      \* messages of the session handled at a time
          CommandFaults  \* bound on failing calls

ASSUME AgentCommandAssumption == IsFiniteSet(Messages) /\ CommandFaults \in Nat

CreationSteps == <<"row", "issue", "branch", "commit", "pull", "board", "mapping">>

VARIABLES
    vStep,    \* the session: none, project, status, preview, edit, executing, done
    vKnown,   \* it knows its project's repository
    vAt,      \* each message: idle, new (it found no session), generate, edit, create
    vNext,    \* each creation: its next step
    vDone,    \* each creation: the steps that succeeded
    vLate,    \* an answer of the model rewrote the session after a confirmation
    vFaults

vVars == <<vStep, vKnown, vAt, vNext, vDone, vLate, vFaults>>
vCreation == <<vNext, vDone>>

AgentCommandInit ==
    /\ vStep = "none" /\ vKnown = FALSE /\ vLate = FALSE /\ vFaults = 0
    /\ vAt = [x \in Messages |-> "idle"] /\ vNext = [x \in Messages |-> 1] /\ vDone = [x \in Messages |-> {}]

CommandFault == vFaults < CommandFaults /\ vFaults' = vFaults + 1
Becomes(x, at) == vAt' = [vAt EXCEPT ![x] = at]
Arrives(x) == vAt[x] = "idle" /\ UNCHANGED <<vCreation, vFaults>>
Creating(x) == vAt[x] = "create"
OthersCreate(x) == \E z \in Messages \ {x} : Creating(z)

---------------------------------------------------------------------------
(* A message looks the session up and then awaits the check for admins: one*)
(* that found no session, or a finished one, starts a new one whatever is  *)
(* there by now.  Without a project it asks for one, which no answer can   *)
(* give: nothing fills in the list of projects to choose from.             *)
handle_agent_command(x) ==
    /\ vStep \in {"none", "done"} /\ Arrives(x) /\ Becomes(x, "new") /\ vStep' = "none"
    /\ UNCHANGED <<vKnown, vLate>>
_handle_new_command(x, knows) ==
    /\ vAt[x] = "new" /\ vKnown' = knows /\ vLate' = (vLate \/ OthersCreate(x))
    /\ \/ vStep' = "project" /\ ~knows /\ Becomes(x, "idle")
       \/ vStep' = "status" /\ Becomes(x, "idle")
       \/ vStep' = "preview" /\ Becomes(x, "generate")
    /\ UNCHANGED <<vCreation, vFaults>>
_handle_status_selection(x) ==
    /\ vStep = "status" /\ Arrives(x)
    /\ vStep' = "preview" /\ Becomes(x, "generate") /\ UNCHANGED <<vKnown, vLate>>

(* The preview comes from the model; failing ends the session.             *)
_generate_and_present_preview(x) ==
    /\ vAt[x] = "generate" /\ Becomes(x, "idle")
    /\ vStep' = "preview" /\ vLate' = (vLate \/ OthersCreate(x))
    /\ UNCHANGED <<vKnown, vCreation, vFaults>>
PreviewFails(x) ==
    /\ vAt[x] = "generate" /\ CommandFault /\ Becomes(x, "idle") /\ vStep' = "none"
    /\ vLate' = (vLate \/ OthersCreate(x)) /\ UNCHANGED <<vKnown, vCreation>>

(* Anything but a confirmation is an edit of the preview.                  *)
EditPreview(x) ==
    /\ vStep \in {"preview", "edit"} /\ Arrives(x) /\ Becomes(x, "edit") /\ UNCHANGED <<vStep, vKnown, vLate>>
_apply_edit(x) ==
    /\ vAt[x] = "edit" /\ Becomes(x, "idle") /\ vStep' = "edit" /\ vLate' = (vLate \/ OthersCreate(x))
    /\ UNCHANGED <<vKnown, vCreation, vFaults>>
EditFails(x) ==
    /\ vAt[x] = "edit" /\ CommandFault /\ Becomes(x, "idle") /\ UNCHANGED <<vStep, vKnown, vCreation, vLate>>

(* A confirmation: missing context ends the session; the step is set before*)
(* the first await.                                                        *)
StepLater(x) == "preview"
StepAtOnce(x) == "executing"
ConfirmCreation(x) ==
    /\ vStep \in {"preview", "edit"} /\ vAt[x] = "idle" /\ UNCHANGED <<vKnown, vLate, vFaults>>
    /\ IF vKnown THEN /\ vStep' = StepAtOnce(x) /\ Becomes(x, "create")
                      /\ vNext' = [vNext EXCEPT ![x] = 1] /\ vDone' = [vDone EXCEPT ![x] = {}]
       ELSE vStep' = "none" /\ UNCHANGED <<vAt, vCreation>>

(* The creation pipeline.  A step that needs what an earlier one made is   *)
(* skipped without it; every other goes on, failed row and all.            *)
Needs(x, step) ==
    CASE step = "commit" -> "branch" \in vDone[x]
      [] step = "pull" -> "commit" \in vDone[x]
      [] step = "board" -> "issue" \in vDone[x]
      [] OTHER -> TRUE
Current(x) == CreationSteps[vNext[x]]
CreationStep(x, works) ==
    /\ Creating(x) /\ vNext[x] <= 7 /\ vNext' = [vNext EXCEPT ![x] = @ + 1]
    /\ vDone' = IF works /\ Needs(x, Current(x)) THEN [vDone EXCEPT ![x] = @ \cup {Current(x)}] ELSE vDone
    /\ IF works \/ ~Needs(x, Current(x)) THEN UNCHANGED vFaults ELSE CommandFault
    /\ UNCHANGED <<vStep, vKnown, vAt, vLate>>
NameIsTaken(x) ==
    /\ Creating(x) /\ vNext[x] = 1 /\ Becomes(x, "idle") /\ vStep' = "none"
    /\ UNCHANGED <<vKnown, vCreation, vFaults>> /\ vLate' = (vLate \/ OthersCreate(x))
_execute_creation_pipeline(x) ==
    /\ Creating(x) /\ vNext[x] > 7 /\ Becomes(x, "idle") /\ vStep' = "done"
    /\ vLate' = (vLate \/ OthersCreate(x)) /\ UNCHANGED <<vKnown, vCreation, vFaults>>

AgentCommandNext ==
    \E x \in Messages :
       \/ (\E b \in BOOLEAN : _handle_new_command(x, b) \/ CreationStep(x, b))
       \/ handle_agent_command(x) \/ _handle_status_selection(x)
       \/ _generate_and_present_preview(x) \/ PreviewFails(x) \/ EditPreview(x) \/ _apply_edit(x) \/ EditFails(x)
       \/ ConfirmCreation(x) \/ NameIsTaken(x) \/ _execute_creation_pipeline(x)
AgentCommandSpec == AgentCommandInit /\ [][AgentCommandNext]_vVars

---------------------------------------------------------------------------
(* A session creates one agent at a time, however often it is confirmed,   *)
(* unless an answer of the model, or a first message, that was under way   *)
(* put it back in the middle of the creation.                              *)
OneCreation == Cardinality({x \in Messages : Creating(x)}) <= 1 \/ vLate

(* What a creation leaves behind fits together: no pull request without a  *)
(* commit, no commit without its branch, no card without its issue.        *)
StepsBuildOnSteps ==
    \A x \in Messages :
        /\ "pull" \in vDone[x] => {"branch", "commit"} \subseteq vDone[x]
        /\ "board" \in vDone[x] => "issue" \in vDone[x]

(* The command as a whole: one creation at a time, and each of its traces  *)
(* on GitHub with what it rests on.                                        *)
CreationIsWhole == OneCreation /\ StepsBuildOnSteps
=============================================================================
