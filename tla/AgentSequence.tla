---------------------------- MODULE AgentSequence ----------------------------
(***************************************************************************)
(* What a pipeline promises about the agents of one board status: an agent *)
(* begins only when every agent before it has finished, and the board item *)
(* moves on only when all of them have.  Optional agents are not waited    *)
(* for.  PipelineExec implements this contract.                            *)
(***************************************************************************)
CONSTANTS
  Agents,     \* the agents of the status
  Before,     \* Before[a]: the agents that finish before a begins
  Optional    \* agents the pipeline may pass without their result

VARIABLES
  started,    \* agents that were given work at least once
  finished,   \* agents whose completion is recorded on the issue
  moved       \* the board item has left the status

Done == finished \union Optional

Init ==
  /\ started = {a \in Agents : Before[a] = {}}
  /\ finished = {}
  /\ moved = FALSE

\* Work is given to some agents, again or for the first time.
Begin ==
  \E S \in SUBSET Agents :
    /\ \A a \in S : Before[a] \subseteq Done
    /\ started' = started \union S
    /\ UNCHANGED <<finished, moved>>

Finish(a) ==
  /\ a \in started
  /\ finished' = finished \union {a}
  /\ UNCHANGED <<started, moved>>

Move ==
  /\ Agents \subseteq Done
  /\ moved' = TRUE
  /\ UNCHANGED <<started, finished>>

Next == Begin \/ Move \/ \E a \in Agents : Finish(a)

Spec == Init /\ [][Next]_<<started, finished, moved>>
=============================================================================
