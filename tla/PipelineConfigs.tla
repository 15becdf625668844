-------------------------- MODULE PipelineConfigs ---------------------------
(***************************************************************************)
(* The pipeline configurations of a project and the one assigned to it.    *)
(* A configuration belongs to a user, or to everybody; its name is unique  *)
(* in the project, by a constraint the migration to owners has left in     *)
(* place, a preset's copy for each user.  The assignment is the project's: *)
(* one that names nothing its reader may see is cleared.  Requests overlap *)
(* between their statements.                                               *)
(***************************************************************************)
EXTENDS Naturals

CONSTANTS AskedByOne,   \* requests under way, of one user
          AskedByOther, \* and of another
          ConfigNames,  \* names for configurations, "preset" among them
          MaxConfigs    \* bound on configurations created

ASSUME ConfigAssumption ==
    /\ AskedByOne \cap AskedByOther = {} /\ "preset" \in ConfigNames /\ MaxConfigs \in Nat

ConfigRequests == AskedByOne \cup AskedByOther
ConfigUser(x) == IF x \in AskedByOne THEN "one" ELSE "other"

VARIABLES
    eRows,     \* pipeline_configs: [id, name, owner, preset]
    eNext,     \* ids given out
    eAssigned, \* assigned_pipeline_id of the project, or 0
    eAt,       \* each request: idle, seed, assign, healing, resolving
    eHolds,    \* the id it works with
    eWronged   \* a reader cleared what it had looked for and might see

eVars == <<eRows, eNext, eAssigned, eAt, eHolds, eWronged>>

ConfigsInit ==
    /\ eRows = {[id |-> 1, name |-> "legacy", owner |-> "everybody", preset |-> FALSE]}
    /\ eNext = 1 /\ eAssigned = 0 /\ eWronged = FALSE
    /\ eAt = [x \in ConfigRequests |-> "idle"] /\ eHolds = [x \in ConfigRequests |-> 0]

Ids(rows) == {row.id : row \in rows}
Mine(x) == {row \in eRows : row.owner \in {ConfigUser(x), "everybody"}}
NameFree(n) == \A row \in eRows : row.name # n
RequestGoes(x, from, to) == eAt[x] = from /\ eAt' = [eAt EXCEPT ![x] = to]
Drops(x) == eHolds' = [eHolds EXCEPT ![x] = 0]
NewConfig(x, n, preset) ==
    /\ eNext < MaxConfigs /\ eNext' = eNext + 1
    /\ eRows' = eRows \cup {[id |-> eNext + 1, name |-> n, owner |-> ConfigUser(x), preset |-> preset]}

---------------------------------------------------------------------------
create_pipeline(x, n) ==
    /\ eAt[x] = "idle" /\ NameFree(n) /\ NewConfig(x, n, FALSE)
    /\ UNCHANGED <<eAssigned, eAt, eHolds, eWronged>>
update_pipeline(x, row, n) ==   \* a preset is refused
    /\ eAt[x] = "idle" /\ row \in Mine(x) /\ ~row.preset /\ NameFree(n)
    /\ eRows' = (eRows \ {row}) \cup {[row EXCEPT !.name = n]}
    /\ UNCHANGED <<eNext, eAssigned, eAt, eHolds, eWronged>>
delete_pipeline(x, row) ==
    /\ eAt[x] = "idle" /\ row \in Mine(x) /\ eRows' = eRows \ {row}
    /\ UNCHANGED <<eNext, eAssigned, eAt, eHolds, eWronged>>

(* Seeding: the user's copy is looked for, then inserted; an insert that   *)
(* meets a unique index is skipped.                                        *)
PresetOf(user) == {row \in eRows : row.preset /\ row.owner \in {user, "everybody"}}
LookForPreset(x) ==
    /\ RequestGoes(x, "idle", "seed") /\ eHolds' = [eHolds EXCEPT ![x] = IF PresetOf(ConfigUser(x)) = {} THEN 0 ELSE 1]
    /\ UNCHANGED <<eRows, eNext, eAssigned, eWronged>>
Conflict(x) == ~NameFree("preset") \/ \E row \in eRows : row.preset /\ row.owner = ConfigUser(x)
seed_presets(x) ==
    /\ RequestGoes(x, "seed", "idle")
    /\ IF eHolds[x] = 1 \/ Conflict(x) THEN UNCHANGED <<eRows, eNext>> ELSE NewConfig(x, "preset", TRUE)
    /\ Drops(x) /\ UNCHANGED <<eAssigned, eWronged>>

(* Assigning: one of the user's, read first and written then; the answer   *)
(* reads the assignment as the next request would.                         *)
ReadForAssignment(x, row) ==
    /\ row \in Mine(x) /\ RequestGoes(x, "idle", "assign") /\ eHolds' = [eHolds EXCEPT ![x] = row.id]
    /\ UNCHANGED <<eRows, eNext, eAssigned, eWronged>>
set_assignment(x) ==
    /\ RequestGoes(x, "assign", "idle") /\ eAssigned' = eHolds[x] /\ Drops(x)
    /\ UNCHANGED <<eRows, eNext, eWronged>>
Unassign(x) ==
    /\ eAt[x] = "idle" /\ eAssigned # 0 /\ eAssigned' = 0
    /\ UNCHANGED <<eRows, eNext, eAt, eHolds, eWronged>>

(* Reading: an assignment that names nothing is cleared, whatever it names *)
(* by then.  The configurations page looks at every configuration, a       *)
(* launch at those of its user.                                            *)
Everyone(x) == Ids(eRows)
OfTheUser(x) == Ids(Mine(x))
FindsDangling(x, to, known) ==
    /\ eAssigned # 0 /\ eAssigned \notin known /\ RequestGoes(x, "idle", to)
    /\ eHolds' = [eHolds EXCEPT ![x] = eAssigned]
    /\ UNCHANGED <<eRows, eNext, eAssigned, eWronged>>
KnownToPage(x) == Everyone(x)
get_assignment(x) == FindsDangling(x, "healing", KnownToPage(x))
KnownToLaunch(x) == OfTheUser(x)
resolve_project_pipeline_mappings(x) == FindsDangling(x, "resolving", KnownToLaunch(x))
Readable(x) == IF eAt[x] = "healing" THEN Everyone(x) ELSE Ids(Mine(x))
ClearAssignment(x) ==
    /\ eAt[x] \in {"healing", "resolving"} /\ eAt' = [eAt EXCEPT ![x] = "idle"] /\ Drops(x) /\ eAssigned' = 0
    /\ eWronged' = (eWronged \/ (eAssigned = eHolds[x] /\ eHolds[x] \in Readable(x)))
    /\ UNCHANGED <<eRows, eNext>>

ConfigsNext == \E x \in ConfigRequests :
    \/ LookForPreset(x) \/ seed_presets(x) \/ set_assignment(x) \/ Unassign(x) \/ ClearAssignment(x)
    \/ get_assignment(x) \/ resolve_project_pipeline_mappings(x)
    \/ \E n \in ConfigNames : create_pipeline(x, n) \/ \E row \in eRows : update_pipeline(x, row, n)
    \/ \E row \in eRows : delete_pipeline(x, row) \/ ReadForAssignment(x, row)
ConfigsSpec == ConfigsInit /\ [][ConfigsNext]_eVars

---------------------------------------------------------------------------
(* However many requests seed, create and rename at once, a user has one   *)
(* copy of a preset: a second is skipped.                                  *)
OnePresetPerUser == \A a, b \in eRows : a.preset /\ b.preset /\ a.owner = b.owner => a = b

(* No reader clears an assignment of a configuration it may see, unless    *)
(* another request has assigned it since the reader looked: the page sees  *)
(* them all, a launch its user's and everybody's; that it clears another's *)
(* live one is the code's, whose comment takes that one for deleted.       *)
ClearsOnlyUnseen == ~eWronged

(* The configurations as a whole: a preset once for each user, and an      *)
(* assignment cleared only by who cannot see what it names.                *)
ConfigsConsistent == OnePresetPerUser /\ ClearsOnlyUnseen
=============================================================================
