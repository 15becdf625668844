------------------------------ MODULE PlanSteps ------------------------------
(***************************************************************************)
(* The steps of a chat plan: added, changed, deleted, reordered.  An edit  *)
(* reads the plan, checks the graph of dependencies the result would have, *)
(* and writes in one transaction; two edits may both have read before      *)
(* either writes.  A list of dependencies may name a step twice.           *)
(***************************************************************************)
EXTENDS Naturals, FiniteSets

CONSTANTS Steps,         \* the steps there may be
          Editors,       \* requests and agent tools editing at a time
          MaxPosition    \* bound on positions
ASSUME PlanStepsAssumption == IsFiniteSet(Steps) /\ MaxPosition \in Nat

VARIABLES
    dPosition,   \* each step's position, NoPosition without one
    dNeeds,      \* the steps each one depends on
    dTwice,      \* those that its list names twice
    dDraft,      \* the plan is a draft
    dEdit,       \* each editor: its operation and the plan it read
    dOverlap,    \* an edit was checked against a plan that had changed since
    dDangling    \* a deletion left the second mention of its step

dVars == <<dPosition, dNeeds, dTwice, dDraft, dEdit, dOverlap, dDangling>>
NoPosition == MaxPosition + 1
NeedsNothing == [s \in Steps |-> {}]
NoOrder == [s \in {} |-> 0]
NoEdit == [op |-> "none", step |-> "none", on |-> {}, twice |-> {}, position |-> 0, order |-> NoOrder,
           steps |-> {}, needs |-> NeedsNothing]

PlanStepsInit ==
    /\ dPosition = [s \in Steps |-> NoPosition] /\ dNeeds = NeedsNothing /\ dTwice = NeedsNothing
    /\ dDraft = TRUE /\ dEdit = [e \in Editors |-> NoEdit] /\ dOverlap = FALSE /\ dDangling = FALSE

Present == {s \in Steps : dPosition[s] # NoPosition}

(* Kahn's algorithm: the steps that remain when those without an unmet     *)
(* dependency have been taken away n times.                                *)
Peeled(steps, needs) ==
    LET left[n \in Nat] == IF n = 0 THEN steps ELSE {s \in left[n - 1] : needs[s] \cap left[n - 1] # {}}
    IN left[Cardinality(steps)]
KnownOnly(steps, needs) == \A s \in steps : needs[s] \subseteq steps
validate_dag(steps, needs) == KnownOnly(steps, needs) /\ Peeled(steps, needs) = {}

---------------------------------------------------------------------------
(* Every edit reads first: the plan must be a draft, and the steps it names*)
(* must be as it expects.  A deletion goes by the step alone after that.   *)
Reads(e, edit) ==
    /\ dEdit[e].op = "none" /\ dDraft
    /\ dEdit' = [dEdit EXCEPT ![e] = IF edit.op = "delete" THEN edit ELSE [edit EXCEPT !.steps = Present, !.needs = dNeeds]]
    /\ UNCHANGED <<dPosition, dNeeds, dTwice, dDraft, dOverlap, dDangling>>
Proposed(edit) ==
    CASE edit.op = "add" -> [steps |-> edit.steps \cup {edit.step}, needs |-> [edit.needs EXCEPT ![edit.step] = edit.on]]
      [] edit.op = "update" -> [steps |-> edit.steps, needs |-> [edit.needs EXCEPT ![edit.step] = edit.on]]
      [] OTHER -> [steps |-> edit.steps, needs |-> edit.needs]
ValidProposal(edit) == validate_dag(Proposed(edit).steps, Proposed(edit).needs)

add_plan_step(e, s, on, twice, p) ==
    /\ s \notin Present /\ \A z \in Editors : dEdit[z].op = "add" => dEdit[z].step # s
    /\ Reads(e, [NoEdit EXCEPT !.op = "add", !.step = s, !.on = on, !.twice = twice, !.position = p])
AppendStep(e, s, on, twice) == Cardinality(Present) <= MaxPosition /\ add_plan_step(e, s, on, twice, Cardinality(Present))
update_plan_step(e, s, on, twice) ==
    s \in Present /\ Reads(e, [NoEdit EXCEPT !.op = "update", !.step = s, !.on = on, !.twice = twice])
delete_plan_step(e, s) == s \in Present /\ Reads(e, [NoEdit EXCEPT !.op = "delete", !.step = s])
\* an order gives each of the plan's steps its place
Orders == {o \in [Present -> 0..(Cardinality(Present) - 1)] : \A s, t \in Present : s # t => o[s] # o[t]}
reorder_plan_steps(e, order) == Reads(e, [NoEdit EXCEPT !.op = "reorder", !.order = order])

(* The writes.  Stored dependencies of steps that are gone have no row to  *)
(* be written to.                                                          *)
ShiftFrom(p) == [s \in Steps |-> IF s \in Present /\ dPosition[s] >= p THEN dPosition[s] + 1 ELSE dPosition[s]]
Compacted(steps) ==
    [s \in Steps |-> IF s \in steps THEN Cardinality({t \in steps : dPosition[t] < dPosition[s]}) ELSE NoPosition]
Reordered(order) ==
    [s \in Steps |-> IF s \in Present /\ s \in DOMAIN order THEN order[s] ELSE dPosition[s]]
\* the index on positions refuses a reorder that would give two steps one position
OrderFits(order) == \A s, t \in Present : s # t => Reordered(order)[s] # Reordered(order)[t]

EditEnds(e) == dEdit' = [dEdit EXCEPT ![e] = NoEdit] /\ UNCHANGED dDraft
NoteOverlap(e) == dOverlap' = (dOverlap \/ dEdit[e].steps # Present \/ dEdit[e].needs # dNeeds)
InsertStep(e) ==
    /\ dEdit[e].op = "add" /\ ValidProposal(dEdit[e]) /\ EditEnds(e) /\ NoteOverlap(e)
    /\ \A s \in Present : dPosition[s] < MaxPosition
    /\ dPosition' = [ShiftFrom(dEdit[e].position) EXCEPT ![dEdit[e].step] = dEdit[e].position]
    /\ dNeeds' = [dNeeds EXCEPT ![dEdit[e].step] = dEdit[e].on]
    /\ dTwice' = [dTwice EXCEPT ![dEdit[e].step] = dEdit[e].twice] /\ UNCHANGED dDangling
StoreStep(e) ==
    /\ dEdit[e].op = "update" /\ ValidProposal(dEdit[e]) /\ EditEnds(e) /\ NoteOverlap(e)
    /\ IF dEdit[e].step \in Present
       THEN /\ dNeeds' = [dNeeds EXCEPT ![dEdit[e].step] = dEdit[e].on]
            /\ dTwice' = [dTwice EXCEPT ![dEdit[e].step] = dEdit[e].twice]
       ELSE UNCHANGED <<dNeeds, dTwice>>
    /\ UNCHANGED <<dPosition, dDangling>>
\* remove takes the first mention of the step from a list
Mentioned(s, gone) == IF gone \in dTwice[s] THEN dNeeds[s] ELSE dNeeds[s] \ {gone}
RemoveStep(e) ==
    /\ dEdit[e].op = "delete" /\ EditEnds(e) /\ UNCHANGED dOverlap
    /\ LET gone == dEdit[e].step
           rest == Present \ {gone}
       IN /\ dPosition' = Compacted(rest)
          /\ dNeeds' = [s \in Steps |-> IF s = gone THEN {} ELSE Mentioned(s, gone)]
          /\ dTwice' = [s \in Steps |-> IF s = gone THEN {} ELSE dTwice[s] \ {gone}]
          /\ dDangling' = (dDangling \/ \E s \in rest : gone \in dTwice[s])
StoreOrder(e) ==
    /\ dEdit[e].op = "reorder" /\ ValidProposal(dEdit[e]) /\ OrderFits(dEdit[e].order) /\ EditEnds(e)
    /\ dPosition' = Reordered(dEdit[e].order) /\ UNCHANGED <<dNeeds, dTwice, dOverlap, dDangling>>
EditRefused(e) ==
    /\ \/ dEdit[e].op \in {"add", "update", "reorder"} /\ ~ValidProposal(dEdit[e])
       \/ dEdit[e].op = "reorder" /\ ~OrderFits(dEdit[e].order)
    /\ EditEnds(e) /\ UNCHANGED <<dPosition, dNeeds, dTwice, dOverlap, dDangling>>
ClosePlan == dDraft /\ dDraft' = FALSE /\ UNCHANGED <<dPosition, dNeeds, dTwice, dEdit, dOverlap, dDangling>>

PlanStepsNext ==
    \/ ClosePlan
    \/ \E e \in Editors :
          \/ InsertStep(e) \/ StoreStep(e) \/ RemoveStep(e) \/ StoreOrder(e) \/ EditRefused(e)
          \/ \E s \in Steps : delete_plan_step(e, s)
          \/ \E s \in Steps, on \in SUBSET Steps : \E twice \in {{}, on} :
                AppendStep(e, s, on, twice) \/ update_plan_step(e, s, on, twice)
          \/ \E s \in Steps, p \in 0..(MaxPosition - 1) : add_plan_step(e, s, {}, {}, p)
          \/ \E o \in Orders : reorder_plan_steps(e, o)
PlanStepsSpec == PlanStepsInit /\ [][PlanStepsNext]_dVars

---------------------------------------------------------------------------
(* The dependencies run in no circle, unless an edit was checked against a *)
(* plan that another has changed since; and they name steps of the plan,   *)
(* unless a step that a list named twice was deleted.                      *)
Circle(c) == c # {} /\ \A s \in c : dNeeds[s] \cap c # {}
PlanIsDag ==
    dOverlap \/ ((dDangling \/ KnownOnly(Present, dNeeds)) /\ ~\E c \in SUBSET Present : Circle(c))

(* No two steps have one position, whatever edits overlap.                 *)
PositionsDistinct == \A s, t \in Present : s # t => dPosition[s] # dPosition[t]

(* The steps as a whole can be laid out: in no circle, each at a place of  *)
(* its own.                                                                *)
StepsAreOrdered == PlanIsDag /\ PositionsDistinct
=============================================================================
