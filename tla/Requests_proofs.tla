--------------------------- MODULE Requests_proofs ---------------------------
(***************************************************************************)
(* Proofs about the requests that store and create: pipeline configurations*)
(* and run records on the shared database connection, and the services that*)
(* make things on GitHub and in a table at once - chores, apps and agents. *)
(***************************************************************************)
EXTENDS SharedConnection, PipelineConfigs, RunRecords, Chores, Apps, AgentCommand, AgentRows, FiniteSetTheorems, TLAPS

-----------------------------------------------------------------------------
(* SharedConnection                                                        *)

ConnectionStages ==
  {"idle", "begin", "first", "second", "commit", "rollback", "ok", "failed"}
Busy == {"first", "second", "commit", "rollback"}

ConnectionTypeOK ==
  /\ cInside \in BOOLEAN /\ cTries \in [Writers -> Nat] /\ cFaults \in Nat
  /\ cAt \in [Writers -> ConnectionStages]

(* A coroutine that nobody's commit or rollback came in the midst of has   *)
(* nothing on the connection before it begins and after it failed; while   *)
(* it writes, a transaction is open that holds its writes, none of which   *)
(* is on disk; and all of them are on disk once it is told so.             *)
NotHit(x) ==
  /\ cAt[x] \in {"idle", "begin", "failed"} => WritesOf(x) = {}
  /\ cAt[x] \in Busy => cInside /\ \A w \in cDurable : w.by # x
  /\ cAt[x] = "commit" => \E w \in cPending : w.by = x
  /\ cAt[x] = "ok" => WritesOf(x) # {} /\ WritesOf(x) \subseteq cDurable
ConnectionInv == ConnectionTypeOK /\ \A x \in Writers \ cHit : NotHit(x)

\* The invariant in the initial state: nobody has written.
LEMMA ConnectionInitially == ConnectionInit => ConnectionInv
<1> SUFFICES ASSUME ConnectionInit PROVE ConnectionInv
  OBVIOUS
<1>1. ConnectionTypeOK
  BY DEF ConnectionInit, ConnectionTypeOK, ConnectionStages
<1>2. ASSUME NEW x \in Writers PROVE cAt[x] = "idle" /\ WritesOf(x) = {}
  BY DEF ConnectionInit, WritesOf
<1>3. QED BY <1>1, <1>2 DEF ConnectionInv, NotHit, Busy

\* Moving one coroutine keeps the others where they are.
LEMMA MoveWriter ==
  ASSUME cAt \in [Writers -> ConnectionStages], NEW x \in Writers,
         NEW at \in ConnectionStages, Now(x, at)
  PROVE  /\ cAt' \in [Writers -> ConnectionStages]
         /\ \A z \in Writers : cAt'[z] = IF z = x THEN at ELSE cAt[z]
BY DEF Now

\* Every step keeps the types.
LEMMA ConnectionTypes ==
  ASSUME ConnectionTypeOK, [ConnectionNext]_cVars
  PROVE  ConnectionTypeOK'
<1>0. /\ cInside \in BOOLEAN /\ cTries \in [Writers -> Nat] /\ cFaults \in Nat
      /\ cAt \in [Writers -> ConnectionStages]
  BY DEF ConnectionTypeOK
<1>1. ASSUME NEW x \in Transactional,
             \/ BeginTransaction(x) \/ _retry_persist(x) \/ ExecuteStatement(x)
             \/ StatementRefused(x) \/ CommitTransaction(x) \/ RollbackTransaction(x)
      PROVE  ConnectionTypeOK'
  <2>0. x \in Writers
    BY DEF Writers
  <2>1. \E at \in ConnectionStages : Now(x, at)
    BY <1>1 DEF BeginTransaction, _retry_persist, ExecuteStatement, StatementRefused,
       CommitTransaction, RollbackTransaction, ConnectionStages
  <2>2. cAt' \in [Writers -> ConnectionStages]
    BY <1>0, <2>0, <2>1, MoveWriter
  <2>3. cInside' \in BOOLEAN
    BY <1>0, <1>1 DEF BeginTransaction, _retry_persist, ExecuteStatement, StatementRefused,
       CommitTransaction, RollbackTransaction, AddsWrite, CommitsAll, Discard
  <2>4. cTries' \in [Writers -> Nat] /\ cFaults' \in Nat
    BY <1>0, <1>1, <2>0 DEF BeginTransaction, _retry_persist, ExecuteStatement, StatementRefused,
       StatementFault, CommitTransaction, RollbackTransaction
  <2>5. QED BY <2>2, <2>3, <2>4 DEF ConnectionTypeOK
<1>2. ASSUME NEW x \in Implicit, ExecuteDirectly(x) \/ CommitDirectly(x)
      PROVE  ConnectionTypeOK'
  BY <1>2 DEF ExecuteDirectly, CommitDirectly, AddsWrite, CommitsAll, Now, ConnectionTypeOK,
     ConnectionStages, Writers
<1>3. CASE UNCHANGED cVars
  BY <1>3 DEF cVars, ConnectionTypeOK
<1>4. QED BY <1>1, <1>2, <1>3 DEF ConnectionNext

\* A commit of all that is pending leaves the coroutines it does not hit as
\* they were, but for the one that commits.
LEMMA CommitKeeps ==
  ASSUME ConnectionInv, NEW x \in Writers, cAt[x] = "commit", CommitsAll, Now(x, "ok"),
         cHit' = cHit \cup BusyOthers(x), NEW z \in Writers \ cHit'
  PROVE  NotHit(z)'
<1>1. z \in Writers \ cHit /\ NotHit(z)
  BY DEF ConnectionInv
<1>2. CASE z = x
  <2>1. PICK w \in cPending : w.by = x
    BY <1>1, <1>2 DEF NotHit
  <2>2. cAt'[z] = "ok"
    BY <1>2 DEF Now, ConnectionInv, ConnectionTypeOK
  <2>3. QED BY <1>2, <2>1, <2>2 DEF NotHit, WritesOf, CommitsAll, Busy
<1>3. CASE z # x
  <2>1. cAt'[z] = cAt[z] /\ cAt[z] \notin Busy
    BY <1>1, <1>3 DEF Now, BusyOthers, Busy, ConnectionInv, ConnectionTypeOK
  <2>2. cAt[z] \in {"idle", "begin", "failed", "ok"}
    BY <1>1, <2>1 DEF ConnectionInv, ConnectionTypeOK, ConnectionStages, Busy
  <2>3. QED BY <1>1, <2>1, <2>2 DEF NotHit, WritesOf, CommitsAll, Busy
<1>4. QED BY <1>2, <1>3

\* A statement adds a write of its own coroutine and opens the transaction.
LEMMA StatementKeeps ==
  ASSUME ConnectionInv, NEW x \in Writers, NEW part, NEW at \in {"second", "commit"},
         cAt[x] \in {"idle", "first", "second"}, AddsWrite(x, part), Now(x, at),
         cDurable' = cDurable, cHit' = cHit, NEW z \in Writers \ cHit
  PROVE  NotHit(z)'
<1> DEFINE new == [by |-> x, part |-> part]
<1>1. new.by = x /\ cInside' = TRUE /\ cPending' = cPending \cup {new}
  BY DEF AddsWrite
<1> HIDE DEF new
<1>2. NotHit(z)
  BY DEF ConnectionInv, NotHit
<1>3. CASE z = x
  <2>1. cAt'[z] = at /\ \A w \in cDurable : w.by # z
    BY <1>2, <1>3 DEF Now, ConnectionInv, ConnectionTypeOK, NotHit, Busy, WritesOf
  <2>2. QED BY <1>1, <1>3, <2>1 DEF NotHit
<1>4. CASE z # x
  <2>1. cAt'[z] = cAt[z]
    BY <1>4 DEF Now, ConnectionInv, ConnectionTypeOK
  <2>2. WritesOf(z)' = WritesOf(z)
    BY <1>1, <1>4 DEF WritesOf
  <2>3. QED BY <1>1, <1>2, <2>1, <2>2 DEF NotHit
<1>5. QED BY <1>3, <1>4

\* Every step keeps the invariant.
LEMMA ConnectionStep == ConnectionInv /\ [ConnectionNext]_cVars => ConnectionInv'
<1> SUFFICES ASSUME ConnectionInv, [ConnectionNext]_cVars PROVE ConnectionInv'
  OBVIOUS
<1>0. ConnectionTypeOK'
  BY ConnectionTypes DEF ConnectionInv
<1> SUFFICES ASSUME NEW z \in Writers \ cHit' PROVE NotHit(z)'
  BY <1>0 DEF ConnectionInv
<1>1. ASSUME NEW x \in Transactional, BeginTransaction(x) PROVE NotHit(z)'
  BY <1>1 DEF BeginTransaction, Now, ConnectionInv, ConnectionTypeOK, NotHit, WritesOf, Busy, Writers
<1>2. ASSUME NEW x \in Transactional, _retry_persist(x) PROVE NotHit(z)'
  <2>1. /\ cAt[x] \in {"idle", "begin"} /\ (Now(x, "begin") \/ Now(x, "failed"))
        /\ UNCHANGED <<cInside, cPending, cDurable, cHit>>
    BY <1>2 DEF _retry_persist
  <2>2. cAt'[z] = cAt[z] \/ (cAt[z] \in {"idle", "begin"} /\ cAt'[z] \in {"begin", "failed"})
    BY <2>1 DEF Now, ConnectionInv, ConnectionTypeOK
  <2>3. NotHit(z)
    BY <2>1 DEF ConnectionInv
  <2>4. QED BY <2>1, <2>2, <2>3 DEF NotHit, WritesOf, Busy
<1>3. ASSUME NEW x \in Transactional, ExecuteStatement(x) PROVE NotHit(z)'
  BY <1>3, StatementKeeps DEF ExecuteStatement, Writers
<1>4. ASSUME NEW x \in Transactional, StatementRefused(x) PROVE NotHit(z)'
  BY <1>4 DEF StatementRefused, Now, ConnectionInv, ConnectionTypeOK, NotHit, WritesOf, Busy, Writers
<1>5. ASSUME NEW x \in Transactional, CommitTransaction(x) PROVE NotHit(z)'
  <2>1. CASE cInside
    BY <1>5, <2>1, CommitKeeps DEF CommitTransaction, Writers
  <2>2. CASE ~cInside
    <3>1. /\ cAt[x] = "commit" /\ Now(x, "failed")
          /\ UNCHANGED <<cInside, cPending, cDurable, cHit>>
      BY <1>5, <2>2 DEF CommitTransaction
    <3>2. z # x
      BY <2>2, <3>1 DEF ConnectionInv, NotHit, Busy
    <3>3. QED BY <3>1, <3>2 DEF Now, ConnectionInv, ConnectionTypeOK, NotHit, WritesOf
  <2>3. QED BY <2>1, <2>2
<1>6. ASSUME NEW x \in Transactional, RollbackTransaction(x) PROVE NotHit(z)'
  <2>1. /\ cAt[x] = "rollback" /\ Now(x, "failed") /\ cPending' = {} /\ cInside' = FALSE
        /\ cHit' = cHit \cup BusyOthers(x) /\ cDurable' = cDurable
        /\ x \in Writers
    BY <1>6 DEF RollbackTransaction, Discard, Writers
  <2>2. z \in Writers \ cHit /\ NotHit(z)
    BY <2>1 DEF ConnectionInv
  <2>3. z # x => cAt'[z] = cAt[z] /\ cAt[z] \notin Busy
    BY <2>1, <2>2 DEF Now, BusyOthers, Busy, ConnectionInv, ConnectionTypeOK
  <2>4. z = x => cAt'[z] = "failed"
    BY <2>1 DEF Now, ConnectionInv, ConnectionTypeOK
  <2>5. QED BY <2>1, <2>2, <2>3, <2>4 DEF NotHit, WritesOf, Busy
<1>7. ASSUME NEW x \in Implicit, ExecuteDirectly(x) PROVE NotHit(z)'
  BY <1>7, StatementKeeps DEF ExecuteDirectly, Writers
<1>8. ASSUME NEW x \in Implicit, CommitDirectly(x) PROVE NotHit(z)'
  BY <1>8, CommitKeeps DEF CommitDirectly, Writers
<1>9. CASE UNCHANGED cVars
  BY <1>9 DEF cVars, ConnectionInv, NotHit, WritesOf
<1>10. QED BY <1>1, <1>2, <1>3, <1>4, <1>5, <1>6, <1>7, <1>8, <1>9 DEF ConnectionNext

(* What a coroutine is told of its writes is so, unless another's commit   *)
(* or rollback came in their midst: with any number of coroutines on the   *)
(* one connection, in transactions of their own or not.                    *)
THEOREM ReportsTrue == ConnectionSpec => []ReportsAreTrue
<1>1. ConnectionInv => ReportsAreTrue
  BY DEF ConnectionInv, ReportsAreTrue, NotHit
<1>2. QED BY <1>1, ConnectionInitially, ConnectionStep, PTL DEF ConnectionSpec

-----------------------------------------------------------------------------
(* PipelineConfigs                                                         *)

ConfigStages == {"idle", "seed", "assign", "healing", "resolving"}
ConfigRow == [id : Nat, name : ConfigNames \cup {"legacy"},
              owner : {"one", "other", "everybody"}, preset : BOOLEAN]

ConfigsTypeOK ==
  /\ eRows \subseteq ConfigRow /\ eNext \in Nat \ {0} /\ eAssigned \in Nat
  /\ eAt \in [ConfigRequests -> ConfigStages] /\ eHolds \in [ConfigRequests -> Nat]

(* An id is given out once: what is stored, assigned or in a request's     *)
(* hands is no later than the last one given out, so what a reader found   *)
(* gone, or another's, cannot come to be there for it.                     *)
IdsGivenOut ==
  /\ \A row \in eRows : row.id <= eNext
  /\ eAssigned <= eNext /\ \A x \in ConfigRequests : eHolds[x] <= eNext
GoneForGood == \A x \in ConfigRequests : \A row \in eRows :
  \/ eAt[x] \notin {"healing", "resolving"} \/ row.id # eHolds[x]
  \/ eAt[x] = "resolving" /\ row.owner \notin {ConfigUser(x), "everybody"}
ConfigsInv == ConfigsTypeOK /\ IdsGivenOut /\ GoneForGood /\ ConfigsConsistent

\* The invariant in the initial state: one configuration, no request.
LEMMA ConfigsInitially == ConfigsInit => ConfigsInv
<1> SUFFICES ASSUME ConfigsInit PROVE ConfigsInv
  OBVIOUS
<1>1. ConfigsTypeOK /\ IdsGivenOut
  BY DEF ConfigsInit, ConfigsTypeOK, ConfigRow, ConfigStages, IdsGivenOut
<1>2. GoneForGood /\ ConfigsConsistent
  BY DEF ConfigsInit, GoneForGood, ConfigsConsistent, OnePresetPerUser, ClearsOnlyUnseen
<1>3. QED BY <1>1, <1>2 DEF ConfigsInv

\* A configuration under an id not given out before, and no second preset.
LEMMA AddConfig ==
  ASSUME ConfigsInv, NEW x \in ConfigRequests, NEW n \in ConfigNames, NEW preset \in BOOLEAN,
         preset => \A row \in eRows : row.preset => row.owner # ConfigUser(x), NewConfig(x, n, preset), eAssigned' = eAssigned, eWronged' = eWronged,
         eAt' \in [ConfigRequests -> ConfigStages], eHolds' \in [ConfigRequests -> Nat],
         \A z \in ConfigRequests : eHolds'[z] \in {0, eHolds[z]},
         \A z \in ConfigRequests : eAt'[z] \in {"healing", "resolving"} => eAt[z] = eAt'[z] /\ eHolds'[z] = eHolds[z]
  PROVE  ConfigsInv'
<1> DEFINE new == [id |-> eNext + 1, name |-> n, owner |-> ConfigUser(x), preset |-> preset]
<1>1. new \in ConfigRow /\ new.id = eNext + 1 /\ new.preset = preset /\ new.owner = ConfigUser(x)
  BY DEF ConfigRow, ConfigUser, ConfigsInv, ConfigsTypeOK
<1>2. eNext' = eNext + 1 /\ eRows' = eRows \cup {new}
  BY DEF NewConfig
<1> HIDE DEF new
<1>3. ConfigsTypeOK'
  BY <1>1, <1>2 DEF ConfigsInv, ConfigsTypeOK
<1>4. eRows \subseteq ConfigRow /\ \A row \in ConfigRow : row.id \in Nat
  BY DEF ConfigsInv, ConfigsTypeOK, ConfigRow
<1>5. IdsGivenOut'
  BY <1>1, <1>2, <1>4 DEF ConfigsInv, ConfigsTypeOK, IdsGivenOut
<1>6. GoneForGood'
  <2>1. \A z \in ConfigRequests : eHolds[z] \in Nat /\ eHolds[z] <= eNext /\ eNext \in Nat
    BY DEF ConfigsInv, ConfigsTypeOK, IdsGivenOut
  <2>2. \A z \in ConfigRequests : eAt'[z] \in {"healing", "resolving"} => new.id # eHolds'[z]
    BY <1>1, <2>1
  <2>3. QED BY <1>2, <2>2 DEF ConfigsInv, GoneForGood
<1>7. ConfigsConsistent'
  BY <1>1, <1>2 DEF ConfigsInv, ConfigsConsistent, OnePresetPerUser, ClearsOnlyUnseen
<1>8. QED BY <1>3, <1>5, <1>6, <1>7 DEF ConfigsInv

\* Every step keeps the invariant.
LEMMA ConfigsStep == ConfigsInv /\ [ConfigsNext]_eVars => ConfigsInv'
<1> SUFFICES ASSUME ConfigsInv, [ConfigsNext]_eVars PROVE ConfigsInv'
  OBVIOUS
<1>0. /\ ConfigsTypeOK /\ IdsGivenOut /\ GoneForGood /\ OnePresetPerUser /\ ~eWronged
      /\ \A row \in eRows : row \in ConfigRow /\ row.id \in Nat
  BY DEF ConfigsInv, ConfigsConsistent, ClearsOnlyUnseen, ConfigsTypeOK, ConfigRow
<1> USE DEF ConfigsInv, ConfigsConsistent, ClearsOnlyUnseen
<1>1. ASSUME NEW x \in ConfigRequests, LookForPreset(x) PROVE ConfigsInv'
  <2>1. ConfigsTypeOK' /\ IdsGivenOut'
    BY <1>0, <1>1 DEF LookForPreset, RequestGoes, ConfigsTypeOK, ConfigStages, IdsGivenOut
  <2>2. GoneForGood' /\ OnePresetPerUser'
    BY <1>0, <1>1 DEF LookForPreset, RequestGoes, ConfigsTypeOK, GoneForGood, OnePresetPerUser
  <2>3. QED BY <1>0, <1>1, <2>1, <2>2 DEF LookForPreset
<1>2. ASSUME NEW x \in ConfigRequests, seed_presets(x) PROVE ConfigsInv'
  <2>1. /\ eAt' \in [ConfigRequests -> ConfigStages] /\ eHolds' \in [ConfigRequests -> Nat]
        /\ \A z \in ConfigRequests : eHolds'[z] \in {0, eHolds[z]}
        /\ \A z \in ConfigRequests : eAt'[z] \in {"healing", "resolving"} => eAt[z] = eAt'[z] /\ eHolds'[z] = eHolds[z]
        /\ eAssigned' = eAssigned /\ eWronged' = eWronged
    BY <1>0, <1>2 DEF seed_presets, RequestGoes, Drops, ConfigsTypeOK, ConfigStages
  <2>2. CASE eHolds[x] = 1 \/ Conflict(x)
    <3>1. eRows' = eRows /\ eNext' = eNext
      BY <1>2, <2>2 DEF seed_presets
    <3>2. ConfigsTypeOK' /\ IdsGivenOut'
      BY <1>0, <2>1, <3>1 DEF ConfigsTypeOK, IdsGivenOut
    <3>3. QED BY <1>0, <2>1, <3>1, <3>2 DEF GoneForGood, OnePresetPerUser
  <2>3. CASE ~(eHolds[x] = 1 \/ Conflict(x))
    <3>1. NewConfig(x, "preset", TRUE) /\ \A row \in eRows : row.preset => row.owner # ConfigUser(x)
      BY <1>2, <2>3 DEF seed_presets, Conflict
    <3>2. "preset" \in ConfigNames
      BY ConfigAssumption
    <3>3. QED BY <2>1, <3>1, <3>2, AddConfig
  <2>4. QED BY <2>2, <2>3
<1>3. ASSUME NEW x \in ConfigRequests, set_assignment(x) PROVE ConfigsInv'
  <2>1. ConfigsTypeOK' /\ IdsGivenOut'
    BY <1>0, <1>3 DEF set_assignment, RequestGoes, Drops, ConfigsTypeOK, ConfigStages, IdsGivenOut
  <2>2. GoneForGood' /\ OnePresetPerUser'
    BY <1>0, <1>3 DEF set_assignment, RequestGoes, Drops, ConfigsTypeOK, GoneForGood, OnePresetPerUser
  <2>3. QED BY <1>0, <1>3, <2>1, <2>2 DEF set_assignment
<1>4. ASSUME NEW x \in ConfigRequests, Unassign(x) PROVE ConfigsInv'
  BY <1>0, <1>4 DEF Unassign, ConfigsTypeOK, IdsGivenOut, GoneForGood, OnePresetPerUser
<1>5. ASSUME NEW x \in ConfigRequests, ClearAssignment(x) PROVE ConfigsInv'
  <2>1. ConfigsTypeOK' /\ IdsGivenOut'
    BY <1>0, <1>5 DEF ClearAssignment, Drops, ConfigsTypeOK, ConfigStages, IdsGivenOut
  <2>2. GoneForGood' /\ OnePresetPerUser'
    BY <1>0, <1>5 DEF ClearAssignment, Drops, ConfigsTypeOK, GoneForGood, OnePresetPerUser
  <2>3. ~eWronged'
    BY <1>0, <1>5 DEF ClearAssignment, GoneForGood, Readable, Everyone, Mine, Ids
  <2>4. QED BY <2>1, <2>2, <2>3
<1>6. ASSUME NEW x \in ConfigRequests, get_assignment(x) \/ resolve_project_pipeline_mappings(x)
      PROVE  ConfigsInv'
  <2>1. PICK to \in {"healing", "resolving"} :
           /\ RequestGoes(x, "idle", to) /\ eHolds' = [eHolds EXCEPT ![x] = eAssigned]
           /\ UNCHANGED <<eRows, eNext, eAssigned, eWronged>>
           /\ \A row \in eRows : \/ row.id # eAssigned
                                 \/ to = "resolving" /\ row.owner \notin {ConfigUser(x), "everybody"}
    BY <1>6 DEF get_assignment, resolve_project_pipeline_mappings, FindsDangling, KnownToPage, Everyone,
       KnownToLaunch, OfTheUser, Mine, Ids
  <2>2. ConfigsTypeOK' /\ IdsGivenOut'
    BY <1>0, <2>1 DEF RequestGoes, ConfigsTypeOK, ConfigStages, IdsGivenOut
  <2>3. GoneForGood' /\ OnePresetPerUser'
    BY <1>0, <2>1 DEF RequestGoes, ConfigsTypeOK, GoneForGood, OnePresetPerUser
  <2>4. QED BY <1>0, <2>1, <2>2, <2>3
<1>7. ASSUME NEW x \in ConfigRequests, NEW n \in ConfigNames, create_pipeline(x, n) PROVE ConfigsInv'
  BY <1>0, <1>7, AddConfig DEF create_pipeline, ConfigsTypeOK
<1>8. ASSUME NEW x \in ConfigRequests, NEW n \in ConfigNames, NEW row \in eRows, update_pipeline(x, row, n)
      PROVE  ConfigsInv'
  <2> DEFINE new == [row EXCEPT !.name = n]
  <2>1. new \in ConfigRow /\ new.id = row.id /\ new.owner = row.owner /\ new.preset = row.preset
    BY <1>0 DEF ConfigRow
  <2>2. eRows' = (eRows \ {row}) \cup {new} /\ UNCHANGED <<eNext, eAssigned, eAt, eHolds, eWronged>>
        /\ ~row.preset
    BY <1>8 DEF update_pipeline
  <2> HIDE DEF new
  <2>3. ConfigsTypeOK' /\ IdsGivenOut'
    BY <1>0, <2>1, <2>2 DEF ConfigsTypeOK, IdsGivenOut
  <2>4. GoneForGood'
    BY <1>0, <2>1, <2>2 DEF GoneForGood
  <2>5. OnePresetPerUser'
    BY <1>0, <2>1, <2>2 DEF OnePresetPerUser
  <2>6. QED BY <1>0, <2>2, <2>3, <2>4, <2>5
<1>9. ASSUME NEW x \in ConfigRequests, NEW row \in eRows, delete_pipeline(x, row) PROVE ConfigsInv'
  <2>1. eRows' = eRows \ {row} /\ UNCHANGED <<eNext, eAssigned, eAt, eHolds, eWronged>>
    BY <1>9 DEF delete_pipeline
  <2>2. ConfigsTypeOK' /\ IdsGivenOut'
    BY <1>0, <2>1 DEF ConfigsTypeOK, IdsGivenOut
  <2>3. GoneForGood' /\ OnePresetPerUser'
    BY <1>0, <2>1 DEF GoneForGood, OnePresetPerUser
  <2>4. QED BY <1>0, <2>1, <2>2, <2>3
<1>10. ASSUME NEW x \in ConfigRequests, NEW row \in eRows, ReadForAssignment(x, row) PROVE ConfigsInv'
  <2>1. ConfigsTypeOK' /\ IdsGivenOut'
    BY <1>0, <1>10 DEF ReadForAssignment, RequestGoes, ConfigsTypeOK, ConfigStages, IdsGivenOut
  <2>2. GoneForGood' /\ OnePresetPerUser'
    BY <1>0, <1>10 DEF ReadForAssignment, RequestGoes, ConfigsTypeOK, GoneForGood, OnePresetPerUser
  <2>3. QED BY <1>0, <1>10, <2>1, <2>2 DEF ReadForAssignment
<1>11. CASE UNCHANGED eVars
  BY <1>0, <1>11 DEF eVars, ConfigsTypeOK, IdsGivenOut, GoneForGood, OnePresetPerUser
<1>12. QED BY <1>1, <1>2, <1>3, <1>4, <1>5, <1>6, <1>7, <1>8, <1>9, <1>10, <1>11 DEF ConfigsNext

(* However many requests create, rename, seed, delete and assign at once,  *)
(* a user has one copy of a preset, and no reader clears an assignment of  *)
(* a configuration it may see, unless it has been assigned anew since.     *)
THEOREM ConfigurationsConsistent == ConfigsSpec => []ConfigsConsistent
<1>1. ConfigsInv => ConfigsConsistent
  BY DEF ConfigsInv
<1>2. QED BY <1>1, ConfigsInitially, ConfigsStep, PTL DEF ConfigsSpec

-----------------------------------------------------------------------------
(* RunRecords                                                              *)

Midst == {"insert", "commit", "rollback"}
RecordStages == Midst \cup {"idle", "done", "failed"}
Tables == [status : [RunsAsked -> {"none", "pending", "cancelled"}], stages : [RunsAsked -> Nat],
           groups : SUBSET [by : GroupRequests, at : Nat]]

RecordsTypeOK ==
  /\ iLive \in Tables /\ iDb \in Tables
  /\ iLock \in Inserting \cup Cancels \cup {"free"} /\ iAt \in [Inserting -> RecordStages]
  /\ iDone \in [Inserting -> Nat] /\ iCancel \in [Cancels -> RunsAsked \cup {"idle", "cancelled", "refused"}]
  /\ iWon \subseteq [run : RunsAsked, by : Cancels] /\ iMixed \in BOOLEAN
  /\ iUndone \subseteq Inserting \cup Cancels /\ iFaults \in Nat

\* Who is in the midst of a transaction has the lock, and with the lock free
\* nothing is uncommitted.
LockInv ==
  /\ \A x \in Inserting : iAt[x] \in Midst <=> iLock = x
  /\ \A x \in Inserting : iAt[x] = "idle" => iDone[x] = 0
  /\ iLock = "free" => iLive = iDb
  /\ iLock \in Cancels => iCancel[iLock] \in RunsAsked

\* A run whose cancellation was told, and not undone by another, stays
\* cancelled, on the connection and on disk; who is about to cancel a run is
\* the first to.
Told(r) == {a \in iWon : a.run = r /\ a.by \notin iUndone}
CancelInv ==
  /\ \A c \in Cancels : iCancel[c] \in RunsAsked => iAt[iCancel[c]] = "done"
  /\ \A a \in iWon : iAt[a.run] = "done"
  /\ \A a \in iWon : a.by \notin iUndone => iLive.status[a.run] = "cancelled" /\ iDb.status[a.run] = "cancelled"
  /\ \A c \in Cancels : iLock = c => Told(iCancel[c]) = {}
  /\ \A c \in Cancels : iLock = c /\ c \notin iUndone => iLive.status[iCancel[c]] = "cancelled"

(* While nobody else commits: a run that is not there yet has no stages;   *)
(* only the holder of the lock has anything uncommitted, a run's row and   *)
(* first stages or the first groups of its request; and it comes to its    *)
(* commit with all of them, or without the run.                            *)
Batch(x, n) == {[by |-> x, at |-> k] : k \in 0..n - 1}
UnmixedInv ==
  /\ \A r \in RunsAsked : iDb.stages[r] = IF iDb.status[r] = "none" THEN 0 ELSE RowsEach
  /\ \A r \in RunsAsked : iAt[r] \in Midst \cup {"idle"} => iDb.status[r] = "none"
  /\ \A r \in RunsAsked : iLock # r => /\ iLive.stages[r] = iDb.stages[r]
                                       /\ iLive.status[r] = "none" <=> iDb.status[r] = "none"
  /\ \A r \in RunsAsked : iLive.status[r] = "none" => iLive.stages[r] = 0
  /\ \A r \in RunsAsked : iLive.status[r] # "none" =>
       /\ iAt[r] = "insert" => iLive.stages[r] = iDone[r] /\ iDone[r] < RowsEach
       /\ iAt[r] = "commit" => iLive.stages[r] = RowsEach
  /\ iLock \notin GroupRequests => iLive.groups = iDb.groups
  /\ \A x \in GroupRequests \ iUndone :
       /\ iAt[x] = "insert" => iLive.groups = Batch(x, iDone[x])
       /\ iAt[x] = "commit" => iLive.groups = Batch(x, RowsEach)
RecordsInv ==
  RecordsTypeOK /\ LockInv /\ CancelInv /\ (iMixed \/ UnmixedInv) /\ RecordsAreWhole

\* What an update of a table changes and what it leaves alone.
LEMMA StatusUpdates ==
  ASSUME NEW L \in Tables, NEW r \in RunsAsked, NEW s \in {"none", "pending", "cancelled"}, NEW M,
         M = [L EXCEPT !.status[r] = s]
  PROVE  /\ M \in Tables /\ M.stages = L.stages /\ M.groups = L.groups
         /\ \A q \in RunsAsked : M.status[q] = IF q = r THEN s ELSE L.status[q]
BY DEF Tables
LEMMA StageUpdates ==
  ASSUME NEW L \in Tables, NEW r \in RunsAsked, NEW M, M = [L EXCEPT !.stages[r] = @ + 1]
  PROVE  /\ M \in Tables /\ M.status = L.status /\ M.groups = L.groups
         /\ \A q \in RunsAsked : M.stages[q] = IF q = r THEN L.stages[q] + 1 ELSE L.stages[q]
<1>1. M = [L EXCEPT !.stages = [L.stages EXCEPT ![r] = L.stages[r] + 1]]
  OBVIOUS
<1>2. QED BY <1>1 DEF Tables
LEMMA GroupUpdates ==
  ASSUME NEW L \in Tables, NEW G \in SUBSET [by : GroupRequests, at : Nat]
  PROVE  LET M == [L EXCEPT !.groups = G] IN
         M \in Tables /\ M.status = L.status /\ M.stages = L.stages /\ M.groups = G
BY DEF Tables

\* One group more than the first n of a request are its first n + 1.
LEMMA BatchGrows ==
  ASSUME NEW x \in GroupRequests, NEW n \in Nat
  PROVE  Batch(x, 0) = {} /\ Batch(x, n) \cup {[by |-> x, at |-> n]} = Batch(x, n + 1)
<1>1. Batch(x, 0) = {}
  BY DEF Batch
<1>2. 0..n + 1 - 1 = (0..n - 1) \cup {n}
  OBVIOUS
<1>3. QED BY <1>1, <1>2 DEF Batch

\* The invariant in the initial state: nothing is stored, nobody has the lock.
LEMMA RecordsInitially == RecordsInit => RecordsInv
<1> SUFFICES ASSUME RecordsInit PROVE RecordsInv
  OBVIOUS
<1>1. RecordsTypeOK
  BY DEF RecordsInit, RecordsTypeOK, Tables, RecordStages, Inserting
<1>2. LockInv /\ CancelInv /\ UnmixedInv
  BY RecordAssumption DEF RecordsInit, LockInv, CancelInv, Told, UnmixedInv, Midst, Inserting
<1>3. RecordsAreWhole
  BY DEF RecordsInit, RecordsAreWhole, StagesWithRun, GroupsOfOneRequest, CancelledOnce
<1>4. QED BY <1>1, <1>2, <1>3 DEF RecordsInv

\* The facts every step starts from.
LEMMA RecordFacts ==
  ASSUME RecordsInv
  PROVE  /\ RecordsTypeOK /\ LockInv /\ CancelInv /\ (iMixed \/ UnmixedInv) /\ RecordsAreWhole
         /\ iLive \in Tables /\ iDb \in Tables
         /\ \A r \in RunsAsked : r \in Inserting /\ r \notin GroupRequests /\ r # "free" /\ r \notin Cancels
         /\ \A x \in GroupRequests : x \in Inserting /\ x \notin RunsAsked /\ x # "free" /\ x \notin Cancels
         /\ \A c \in Cancels : c \notin Inserting /\ c # "free"
         /\ {"idle", "cancelled", "refused", "free"} \cap RunsAsked = {}
         /\ {"idle", "cancelled", "refused", "free"} \cap Inserting = {}
         /\ \A a \in iWon : a.run \in RunsAsked /\ a.run \in Inserting /\ a.by \in Cancels
         /\ RowsEach \in Nat \ {0}
BY RecordAssumption DEF RecordsInv, RecordsTypeOK, Inserting

\* A request moves from one stage to another.
LEMMA MoveRecord ==
  ASSUME iAt \in [Inserting -> RecordStages], NEW x, NEW from, NEW to \in RecordStages,
         x \in Inserting, RecordGoes(x, from, to)
  PROVE  /\ iAt[x] = from /\ iAt' \in [Inserting -> RecordStages]
         /\ \A z \in Inserting : iAt'[z] = IF z = x THEN to ELSE iAt[z]
BY DEF RecordGoes

\* What is asked of the committed tables holds on while they, and what
\* others did to the transactions, are as they were.
LEMMA WholeKept ==
  ASSUME RecordsAreWhole, UNCHANGED <<iDb, iWon, iMixed, iUndone>>
  PROVE  RecordsAreWhole'
BY DEF RecordsAreWhole, StagesWithRun, GroupsOfOneRequest, CancelledOnce

\* The lock, taken for a run's row and its first statement.
LEMMA CreateRunKeeps ==
  ASSUME RecordsInv, NEW r, create_run(r)
  PROVE  RecordsInv'
<1>1. /\ r \in RunsAsked /\ r \in Inserting /\ iLock = "free" /\ iLock' = r
      /\ iLive' = [iLive EXCEPT !.status[r] = "pending"] /\ iDb' = iDb
      /\ UNCHANGED <<iDone, iCancel, iWon, iMixed, iUndone, iFaults>> /\ r \notin GroupRequests
  BY RecordFacts DEF create_run, FirstCommitted, NotYet
<1>2. iLive = iDb
  BY <1>1, RecordFacts DEF LockInv
<1>3. /\ iAt[r] = "idle" /\ iAt' \in [Inserting -> RecordStages]
      /\ \A z \in Inserting : iAt'[z] = IF z = r THEN "insert" ELSE iAt[z]
  BY <1>1, RecordFacts, MoveRecord DEF create_run, RecordsTypeOK, RecordStages, Midst
<1>4. /\ iLive' \in Tables /\ iLive'.stages = iLive.stages /\ iLive'.groups = iLive.groups
      /\ \A q \in RunsAsked : iLive'.status[q] = IF q = r THEN "pending" ELSE iLive.status[q]
  BY <1>1, RecordFacts, StatusUpdates
<1>5. RecordsTypeOK'
  BY <1>1, <1>3, <1>4, RecordFacts DEF RecordsTypeOK
<1>6. LockInv'
  BY <1>1, <1>3, RecordFacts DEF LockInv, Midst
<1>7. CancelInv'
  <2>1. \A c \in Cancels : iCancel[c] \in RunsAsked => iCancel[c] \in Inserting /\ iCancel[c] # r
    BY <1>3, RecordFacts DEF CancelInv
  <2>2. \A a \in iWon : a.run \in Inserting /\ a.run # r
    BY <1>3, RecordFacts DEF CancelInv
  <2>3. QED BY <1>1, <1>3, <1>4, <2>1, <2>2, RecordFacts DEF CancelInv
<1>8. iMixed' \/ UnmixedInv'
  <2> SUFFICES ASSUME ~iMixed PROVE UnmixedInv'
    BY <1>1
  <2>1. \A q \in GroupRequests : q # r /\ iAt[q] \notin Midst
    BY <1>1, RecordFacts DEF LockInv
  <2>2. iDb.status[r] = "none" /\ iLive.stages[r] = 0 /\ 0 < RowsEach /\ iDone[r] = 0
    BY <1>1, <1>2, <1>3, RecordFacts DEF UnmixedInv, LockInv
  <2>3. \A q \in RunsAsked : iAt'[q] \in Midst \cup {"idle"} => iAt[q] \in Midst \cup {"idle"}
    BY <1>3, RecordFacts
  <2>4. \A q \in RunsAsked : iAt'[q] \in {"insert", "commit"} => q = r /\ iAt'[q] = "insert"
    BY <1>1, <1>3, RecordFacts DEF LockInv, Midst
  <2>5. QED BY <1>1, <1>2, <1>3, <1>4, <2>1, <2>2, <2>3, <2>4, RecordFacts DEF UnmixedInv, Midst
<1>9. RecordsAreWhole'
  BY <1>1, RecordFacts, WholeKept
<1>10. QED BY <1>5, <1>6, <1>7, <1>8, <1>9 DEF RecordsInv

\* The lock, taken to replace the groups.
LEMMA UpsertGroupsKeeps ==
  ASSUME RecordsInv, NEW x, upsert_groups(x)
  PROVE  RecordsInv'
<1>1. /\ x \in GroupRequests /\ x \in Inserting /\ iLock = "free" /\ iLock' = x
      /\ iLive' = [iLive EXCEPT !.groups = {}] /\ iDb' = iDb
      /\ UNCHANGED <<iDone, iCancel, iWon, iMixed, iUndone, iFaults>> /\ x \notin RunsAsked
  BY RecordFacts DEF upsert_groups, OldDeleted
<1>2. iLive = iDb
  BY <1>1, RecordFacts DEF LockInv
<1>3. /\ iAt[x] = "idle" /\ iAt' \in [Inserting -> RecordStages]
      /\ \A z \in Inserting : iAt'[z] = IF z = x THEN "insert" ELSE iAt[z]
  BY <1>1, RecordFacts, MoveRecord DEF upsert_groups, RecordsTypeOK, RecordStages, Midst
<1>4. /\ iLive' \in Tables /\ iLive'.stages = iLive.stages /\ iLive'.status = iLive.status
      /\ iLive'.groups = {}
  BY <1>1, RecordFacts, GroupUpdates
<1>5. RecordsTypeOK'
  BY <1>1, <1>3, <1>4, RecordFacts DEF RecordsTypeOK
<1>6. LockInv'
  BY <1>1, <1>3, RecordFacts DEF LockInv, Midst
<1>7. CancelInv'
  <2>1. \A q \in RunsAsked : iAt'[q] = iAt[q]
    BY <1>1, <1>3, RecordFacts
  <2>2. QED BY <1>1, <1>4, <2>1, RecordFacts DEF CancelInv
<1>8. iMixed' \/ UnmixedInv'
  <2> SUFFICES ASSUME ~iMixed PROVE UnmixedInv'
    BY <1>1
  <2>1. \A q \in RunsAsked : q # x /\ iAt'[q] = iAt[q]
    BY <1>1, <1>3, RecordFacts
  <2>2. \A q \in GroupRequests : q # x => iAt'[q] \notin Midst
    BY <1>1, <1>3, RecordFacts DEF LockInv
  <2>3. Batch(x, 0) = {} /\ iDone[x] = 0
    BY <1>1, <1>3, RecordFacts, BatchGrows DEF LockInv
  <2>4. QED BY <1>1, <1>2, <1>3, <1>4, <2>1, <2>2, <2>3, RecordFacts DEF UnmixedInv, Midst
<1>9. RecordsAreWhole'
  BY <1>1, RecordFacts, WholeKept
<1>10. QED BY <1>5, <1>6, <1>7, <1>8, <1>9 DEF RecordsInv

\* A stage of a run, or a group of a request, under the lock.
LEMMA InsertOneKeeps ==
  ASSUME RecordsInv, NEW x \in Inserting, InsertOne(x)
  PROVE  RecordsInv'
<1> DEFINE n == iDone[x]
           to == IF n + 1 = RowsEach THEN "commit" ELSE "insert"
<1>1. /\ iAt[x] = "insert" /\ n \in Nat /\ n < RowsEach /\ iAt' = [iAt EXCEPT ![x] = to]
      /\ iDone' = [iDone EXCEPT ![x] = n + 1]
      /\ UNCHANGED <<iDb, iLock, iCancel, iWon, iMixed, iUndone, iFaults>>
      /\ x \in RunsAsked => iLive' = [iLive EXCEPT !.stages[x] = @ + 1] /\ iLive.status[x] # "none"
      /\ x \notin RunsAsked => iLive' = [iLive EXCEPT !.groups = @ \cup {[by |-> x, at |-> n]}]
  BY RecordFacts DEF InsertOne, Fits, StageHasRun, RecordsTypeOK
<1>2. /\ to \in {"insert", "commit"}
      /\ to = "insert" => n + 1 < RowsEach
      /\ to = "commit" => n + 1 = RowsEach
  BY <1>1, RecordFacts
<1> HIDE DEF to, n
<1>3. /\ iAt' \in [Inserting -> RecordStages] /\ iDone' \in [Inserting -> Nat]
      /\ \A z \in Inserting : iAt'[z] = (IF z = x THEN to ELSE iAt[z])
      /\ \A z \in Inserting : iDone'[z] = IF z = x THEN n + 1 ELSE iDone[z]
  BY <1>1, <1>2, RecordFacts DEF RecordsTypeOK, RecordStages, Midst
<1>4. iLock = x
  BY <1>1, RecordFacts DEF LockInv, Midst
<1>5. LockInv'
  BY <1>1, <1>2, <1>3, <1>4, RecordFacts DEF LockInv, Midst
<1>6. RecordsAreWhole'
  BY <1>1, RecordFacts, WholeKept
<1>7. ASSUME iLive'.status = iLive.status PROVE CancelInv'
  <2>1. \A r \in RunsAsked : iAt[r] = "done" => iAt'[r] = "done"
    BY <1>1, <1>3, RecordFacts
  <2>2. QED BY <1>1, <1>7, <2>1, RecordFacts DEF CancelInv, Told
<1>8. CASE x \in RunsAsked
  <2>1. /\ iLive' \in Tables /\ iLive'.status = iLive.status /\ iLive'.groups = iLive.groups
        /\ \A q \in RunsAsked : iLive'.stages[q] = IF q = x THEN iLive.stages[q] + 1 ELSE iLive.stages[q]
    BY <1>1, <1>8, RecordFacts, StageUpdates
  <2>2. RecordsTypeOK'
    BY <1>1, <1>3, <2>1, RecordFacts DEF RecordsTypeOK
  <2>3. iMixed' \/ UnmixedInv'
    <3> SUFFICES ASSUME ~iMixed PROVE UnmixedInv'
      BY <1>1
    <3>1. UnmixedInv
      BY RecordFacts
    <3>2. iLive.stages[x] = n
      BY <1>1, <1>8, <3>1 DEF UnmixedInv, n
    <3>3. \A z \in GroupRequests : iAt'[z] = iAt[z] /\ iDone'[z] = iDone[z]
      BY <1>3, <1>8, RecordFacts
    <3>4. \A r \in RunsAsked : iAt'[r] \in Midst \cup {"idle"} => iAt[r] \in Midst \cup {"idle"}
      BY <1>1, <1>3, RecordFacts DEF Midst
    <3>5. \A r \in RunsAsked : r # x => iAt'[r] = iAt[r] /\ iDone'[r] = iDone[r]
      BY <1>3, RecordFacts
    <3>6. QED BY <1>1, <1>2, <1>3, <1>4, <2>1, <3>1, <3>2, <3>3, <3>4, <3>5, RecordFacts DEF UnmixedInv
  <2>4. QED BY <1>5, <1>6, <1>7, <2>1, <2>2, <2>3 DEF RecordsInv
<1>9. CASE x \in GroupRequests
  <2> DEFINE G == iLive.groups \cup {[by |-> x, at |-> n]}
  <2>1. x \notin RunsAsked
    BY <1>9, RecordFacts
  <2>2. G \in SUBSET [by : GroupRequests, at : Nat]
    BY <1>1, <1>9, RecordFacts DEF Tables
  <2>3. iLive' = [iLive EXCEPT !.groups = G]
    BY <1>1, <2>1
  <2> HIDE DEF G
  <2>4. iLive' \in Tables /\ iLive'.status = iLive.status /\ iLive'.stages = iLive.stages /\ iLive'.groups = G
    BY <2>2, <2>3, RecordFacts, GroupUpdates
  <2>5. RecordsTypeOK'
    BY <1>1, <1>3, <2>4, RecordFacts DEF RecordsTypeOK
  <2>6. iMixed' \/ UnmixedInv'
    <3> SUFFICES ASSUME ~iMixed PROVE UnmixedInv'
      BY <1>1
    <3>1. UnmixedInv
      BY RecordFacts
    <3>2. x \notin iUndone => G = Batch(x, n + 1)
      BY <1>1, <1>9, <3>1, BatchGrows DEF UnmixedInv, G, n
    <3>3. \A r \in RunsAsked : iAt'[r] = iAt[r] /\ iDone'[r] = iDone[r] /\ iLock # r
      BY <1>3, <1>4, <2>1, RecordFacts
    <3>4. \A z \in GroupRequests : z # x => iAt'[z] \notin Midst
      BY <1>3, <1>4, RecordFacts DEF LockInv
    <3>5. ASSUME NEW z \in GroupRequests \ iUndone'
          PROVE  /\ iAt'[z] = "insert" => iLive'.groups = Batch(z, iDone'[z])
                 /\ iAt'[z] = "commit" => iLive'.groups = Batch(z, RowsEach)
      BY <1>1, <1>2, <1>3, <2>4, <3>2, <3>4, <3>5 DEF Midst
    <3>6. QED BY <1>1, <1>4, <1>9, <2>4, <3>1, <3>3, <3>5 DEF UnmixedInv
  <2>7. QED BY <1>5, <1>6, <1>7, <2>4, <2>5, <2>6 DEF RecordsInv
<1>10. QED BY <1>8, <1>9 DEF Inserting

\* A refused statement leaves what is there to the rollback.
LEMMA InsertRefusedKeeps ==
  ASSUME RecordsInv, NEW x \in Inserting, InsertRefused(x)
  PROVE  RecordsInv'
<1>1. /\ RecordGoes(x, "insert", "rollback") /\ iFaults' \in Nat
      /\ UNCHANGED <<iLive, iDb, iLock, iDone, iCancel, iWon, iMixed, iUndone>>
  BY RecordFacts DEF InsertRefused, RecordFault, RecordsTypeOK
<1>2. /\ iAt[x] = "insert" /\ iAt' \in [Inserting -> RecordStages]
      /\ \A z \in Inserting : iAt'[z] = IF z = x THEN "rollback" ELSE iAt[z]
  BY <1>1, MoveRecord, RecordFacts DEF RecordsTypeOK, RecordStages, Midst
<1>3. RecordsTypeOK'
  BY <1>1, <1>2, RecordFacts DEF RecordsTypeOK
<1>4. LockInv' /\ CancelInv'
  <2>1. LockInv'
    BY <1>1, <1>2, RecordFacts DEF LockInv, Midst
  <2>2. \A r \in RunsAsked : iAt[r] = "done" => iAt'[r] = "done"
    BY <1>2, RecordFacts
  <2>3. QED BY <1>1, <2>1, <2>2, RecordFacts DEF CancelInv, Told
<1>5. iMixed' \/ UnmixedInv'
  <2>1. \A z \in Inserting : /\ iAt'[z] \in {"insert", "commit"} => iAt[z] = iAt'[z]
                             /\ iAt'[z] \in Midst \cup {"idle"} => iAt[z] \in Midst \cup {"idle"}
    BY <1>2 DEF Midst
  <2>2. QED BY <1>1, <2>1, RecordFacts DEF UnmixedInv
<1>6. QED BY <1>1, <1>3, <1>4, <1>5, RecordFacts, WholeKept DEF RecordsInv

\* The commit: all of it is on disk and the lock is free.
LEMMA CommitRecordsKeeps ==
  ASSUME RecordsInv, NEW x \in Inserting, CommitRecords(x)
  PROVE  RecordsInv'
<1>1. /\ RecordGoes(x, "commit", "done") /\ iDb' = iLive /\ iLock' = "free"
      /\ UNCHANGED <<iLive, iDone, iCancel, iWon, iMixed, iUndone, iFaults>>
  BY DEF CommitRecords
<1>2. /\ iAt[x] = "commit" /\ iAt' \in [Inserting -> RecordStages]
      /\ \A z \in Inserting : iAt'[z] = IF z = x THEN "done" ELSE iAt[z]
  BY <1>1, MoveRecord, RecordFacts DEF RecordsTypeOK, RecordStages, Midst
<1>3. iLock = x /\ \A z \in Inserting : iAt'[z] \notin Midst
  BY <1>2, RecordFacts DEF LockInv, Midst
<1>4. RecordsTypeOK'
  BY <1>1, <1>2, RecordFacts DEF RecordsTypeOK
<1>5. LockInv'
  BY <1>1, <1>2, <1>3, RecordFacts DEF LockInv
<1>6. CancelInv'
  BY <1>1, <1>2, RecordFacts DEF CancelInv
<1>7. ASSUME ~iMixed PROVE \A r \in RunsAsked : iDb'.stages[r] = IF iDb'.status[r] = "none" THEN 0 ELSE RowsEach
  <2>1. \A r \in RunsAsked : r # x => iLive.stages[r] = iDb.stages[r] /\ (iLive.status[r] = "none" <=> iDb.status[r] = "none")
    BY <1>3, <1>7, RecordFacts DEF UnmixedInv
  <2>2. QED BY <1>1, <1>2, <1>7, <2>1, RecordFacts DEF UnmixedInv
<1>8. iMixed' \/ UnmixedInv'
  <2> SUFFICES ASSUME ~iMixed PROVE UnmixedInv'
    BY <1>1
  <2>1. \A r \in RunsAsked : iAt'[r] = "idle" => iDb'.status[r] = "none"
    BY <1>1, <1>2, <1>3, RecordFacts DEF UnmixedInv
  <2>2. QED BY <1>1, <1>3, <1>7, <2>1, RecordFacts DEF UnmixedInv, Midst
<1>9. RecordsAreWhole'
  <2>1. CancelledOnce' /\ StagesWithRun'
    BY <1>1, <1>7, RecordFacts DEF RecordsAreWhole, CancelledOnce, StagesWithRun
  <2> SUFFICES ASSUME ~iMixed, iUndone \cap GroupRequests = {} PROVE GroupsOfOneRequest'
    BY <1>1, <2>1 DEF RecordsAreWhole, GroupsOfOneRequest
  <2>2. CASE x \in GroupRequests
    BY <1>1, <1>2, <2>2, RecordFacts DEF UnmixedInv, GroupsOfOneRequest, Batch
  <2>3. CASE x \notin GroupRequests
    <3>1. iDb'.groups = iDb.groups
      BY <1>1, <1>3, <2>3, RecordFacts DEF UnmixedInv
    <3>2. QED BY <1>1, <3>1, RecordFacts DEF RecordsAreWhole, GroupsOfOneRequest
  <2>4. QED BY <2>2, <2>3
<1>10. QED BY <1>4, <1>5, <1>6, <1>8, <1>9 DEF RecordsInv

\* The rollback: what is on disk is what is seen, and the lock is free.
LEMMA RollBackRecordsKeeps ==
  ASSUME RecordsInv, NEW x \in Inserting, RollBackRecords(x)
  PROVE  RecordsInv'
<1>1. /\ RecordGoes(x, "rollback", "failed") /\ iLive' = iDb /\ iLock' = "free"
      /\ UNCHANGED <<iDb, iDone, iCancel, iWon, iMixed, iUndone, iFaults>>
  BY DEF RollBackRecords
<1>2. /\ iAt[x] = "rollback" /\ iAt' \in [Inserting -> RecordStages]
      /\ \A z \in Inserting : iAt'[z] = IF z = x THEN "failed" ELSE iAt[z]
  BY <1>1, MoveRecord, RecordFacts DEF RecordsTypeOK, RecordStages, Midst
<1>3. iLock = x /\ \A z \in Inserting : iAt'[z] \notin Midst
  BY <1>2, RecordFacts DEF LockInv, Midst
<1>4. RecordsTypeOK'
  BY <1>1, <1>2, RecordFacts DEF RecordsTypeOK
<1>5. LockInv'
  BY <1>1, <1>2, <1>3, RecordFacts DEF LockInv
<1>6. CancelInv'
  BY <1>1, <1>2, RecordFacts DEF CancelInv
<1>7. iMixed' \/ UnmixedInv'
  <2>1. \A z \in Inserting : iAt'[z] = "idle" => iAt[z] = "idle"
    BY <1>2
  <2>2. QED BY <1>1, <1>3, <2>1, RecordFacts DEF UnmixedInv, Midst
<1>8. QED BY <1>1, <1>4, <1>5, <1>6, <1>7, RecordFacts, WholeKept DEF RecordsInv

\* A cancellation reads the run it is about.
LEMMA ReadForCancelKeeps ==
  ASSUME RecordsInv, NEW c \in Cancels, NEW r \in RunsAsked, cancel_pipeline_run(c, r)
  PROVE  RecordsInv'
<1>1. /\ iAt[r] = "done" /\ iCancel[c] = "idle" /\ iCancel' = [iCancel EXCEPT ![c] = r]
      /\ UNCHANGED <<iLive, iDb, iLock, iAt, iDone, iWon, iMixed, iUndone, iFaults>>
  BY DEF cancel_pipeline_run
<1>2. iLock # c
  BY <1>1, RecordFacts DEF LockInv
<1>3. RecordsTypeOK' /\ LockInv'
  BY <1>1, <1>2, RecordFacts DEF RecordsTypeOK, LockInv
<1>4. CancelInv'
  <2>1. \A z \in Cancels : iCancel'[z] = IF z = c THEN r ELSE iCancel[z]
    BY <1>1, RecordFacts DEF RecordsTypeOK
  <2>2. QED BY <1>1, <1>2, <2>1, RecordFacts DEF CancelInv, Told
<1>5. iMixed' \/ UnmixedInv'
  BY <1>1, RecordFacts DEF UnmixedInv
<1>6. QED BY <1>1, <1>3, <1>4, <1>5, RecordFacts, WholeKept DEF RecordsInv

\* The update of a cancellation, under the lock: it finds the run as nobody
\* has cancelled it, or refuses.
LEMMA UpdateStatusKeeps ==
  ASSUME RecordsInv, NEW c \in Cancels, update_run_status(c)
  PROVE  RecordsInv'
<1> DEFINE r == iCancel[c]
           won == iLive.status[r] # "none" /\ StatusDiffers(r)
<1>1. /\ r \in RunsAsked /\ iLock = "free" /\ UNCHANGED <<iDb, iAt, iDone, iWon, iMixed, iUndone, iFaults>>
      /\ iAt[r] = "done" /\ iLive = iDb
  BY RecordFacts DEF update_run_status, CancelInv, LockInv
<1>2. CASE ~won
  <2>1. iCancel' = [iCancel EXCEPT ![c] = "refused"] /\ UNCHANGED <<iLive, iLock>>
    BY <1>2 DEF update_run_status
  <2>2. RecordsTypeOK' /\ LockInv' /\ CancelInv'
    BY <1>1, <2>1, RecordFacts DEF RecordsTypeOK, LockInv, CancelInv
  <2>3. iMixed' \/ UnmixedInv'
    BY <1>1, <2>1, RecordFacts DEF UnmixedInv
  <2>4. QED BY <1>1, <2>2, <2>3, RecordFacts, WholeKept DEF RecordsInv
<1>3. CASE won
  <2>1. /\ iLive' = [iLive EXCEPT !.status[r] = "cancelled"] /\ iLock' = c /\ iCancel' = iCancel
        /\ iLive.status[r] \notin {"none", "cancelled"}
    BY <1>3 DEF update_run_status, StatusDiffers
  <2>2. /\ iLive' \in Tables /\ iLive'.stages = iLive.stages /\ iLive'.groups = iLive.groups
        /\ \A q \in RunsAsked : iLive'.status[q] = IF q = r THEN "cancelled" ELSE iLive.status[q]
    BY <1>1, <2>1, RecordFacts, StatusUpdates
  <2> HIDE DEF won
  <2>3. RecordsTypeOK'
    BY <1>1, <2>1, <2>2, RecordFacts DEF RecordsTypeOK
  <2>4. LockInv'
    BY <1>1, <2>1, RecordFacts DEF LockInv, Midst
  <2>5. CancelInv'
    <3>1. Told(r)' = {}
      BY <1>1, <2>1, RecordFacts DEF CancelInv, Told
    <3>2. QED BY <1>1, <2>1, <2>2, <3>1, RecordFacts DEF CancelInv, Told
  <2>6. iMixed' \/ UnmixedInv'
    <3>1. \A q \in Inserting : iAt[q] \notin Midst
      BY <1>1, RecordFacts DEF LockInv
    <3>2. QED BY <1>1, <2>1, <2>2, <3>1, RecordFacts DEF UnmixedInv, Midst
  <2>7. QED BY <1>1, <2>3, <2>4, <2>5, <2>6, RecordFacts, WholeKept DEF RecordsInv
<1>4. QED BY <1>2, <1>3

\* The commit of a cancellation: the first told of its run, unless another
\* has undone the update.
LEMMA CommitCancelKeeps ==
  ASSUME RecordsInv, NEW c \in Cancels, CommitCancel(c)
  PROVE  RecordsInv'
<1> DEFINE r == iCancel[c]
           a == [run |-> r, by |-> c]
<1>1. /\ iLock = c /\ iLock' = "free" /\ iDb' = iLive /\ iCancel' = [iCancel EXCEPT ![c] = "cancelled"]
      /\ iWon' = iWon \cup {a} /\ UNCHANGED <<iLive, iAt, iDone, iMixed, iUndone, iFaults>>
      /\ r \in RunsAsked /\ iAt[r] = "done"
  BY RecordFacts DEF CommitCancel, LockInv, CancelInv
<1>2. a \in [run : RunsAsked, by : Cancels] /\ a.run = r /\ a.by = c
  BY <1>1
<1> HIDE DEF a
<1>3. \A x \in Inserting : iAt[x] \notin Midst
  BY <1>1, RecordFacts DEF LockInv
<1>4. RecordsTypeOK' /\ LockInv'
  BY <1>1, <1>2, <1>3, RecordFacts DEF RecordsTypeOK, LockInv
<1>5. CancelInv'
  BY <1>1, <1>2, RecordFacts DEF CancelInv, RecordsTypeOK
<1>6. iMixed' \/ UnmixedInv'
  BY <1>1, <1>3, RecordFacts DEF UnmixedInv, Midst
<1>7. CancelledOnce'
  <2>1. \A b \in iWon : b.run = r => b.by \in iUndone
    BY <1>1, RecordFacts DEF CancelInv, Told
  <2>2. QED BY <1>1, <1>2, <2>1, RecordFacts DEF CancelledOnce, RecordsAreWhole
<1>8. StagesWithRun' /\ GroupsOfOneRequest'
  BY <1>1, RecordFacts DEF StagesWithRun, GroupsOfOneRequest, RecordsAreWhole, UnmixedInv
<1>9. QED BY <1>4, <1>5, <1>6, <1>7, <1>8 DEF RecordsInv, RecordsAreWhole

\* A cancellation that fails is rolled back.
LEMMA CancelFailsKeeps ==
  ASSUME RecordsInv, NEW c \in Cancels, CancelFails(c)
  PROVE  RecordsInv'
<1>1. /\ iLock = c /\ iLock' = "free" /\ iLive' = iDb /\ iCancel' = [iCancel EXCEPT ![c] = "refused"]
      /\ iFaults' \in Nat /\ UNCHANGED <<iDb, iAt, iDone, iWon, iMixed, iUndone>>
  BY RecordFacts DEF CancelFails, RecordFault, RecordsTypeOK
<1>2. \A x \in Inserting : iAt[x] \notin Midst
  BY <1>1, RecordFacts DEF LockInv
<1>3. RecordsTypeOK' /\ LockInv' /\ CancelInv'
  BY <1>1, <1>2, RecordFacts DEF RecordsTypeOK, LockInv, CancelInv
<1>4. iMixed' \/ UnmixedInv'
  BY <1>1, <1>2, RecordFacts DEF UnmixedInv, Midst
<1>5. QED BY <1>1, <1>3, <1>4, RecordFacts, WholeKept DEF RecordsInv

\* Another coroutine's commit mixes the transactions.
LEMMA OtherCommitKeeps ==
  ASSUME RecordsInv, OtherCommit
  PROVE  RecordsInv'
<1>1. /\ iDb' = iLive /\ iMixed' = TRUE /\ iFaults' \in Nat
      /\ UNCHANGED <<iLive, iLock, iAt, iDone, iCancel, iWon, iUndone>>
  BY RecordFacts DEF OtherCommit, RecordFault, RecordsTypeOK
<1>2. RecordsTypeOK' /\ LockInv' /\ CancelInv'
  BY <1>1, RecordFacts DEF RecordsTypeOK, LockInv, CancelInv, Told
<1>3. RecordsAreWhole'
  BY <1>1, RecordFacts DEF RecordsAreWhole, StagesWithRun, GroupsOfOneRequest, CancelledOnce
<1>4. QED BY <1>1, <1>2, <1>3 DEF RecordsInv

\* Another coroutine's rollback leaves what is on disk; whose request it
\* undoes is remembered.
LEMMA OtherRollbackKeeps ==
  ASSUME RecordsInv, OtherRollback
  PROVE  RecordsInv'
<1>1. /\ iLive # iDb /\ iLive' = iDb /\ iUndone' = iUndone \cup {iLock} /\ iFaults' \in Nat
      /\ UNCHANGED <<iDb, iLock, iAt, iDone, iCancel, iWon, iMixed>>
  BY RecordFacts DEF OtherRollback, RecordFault, RecordsTypeOK
<1>2. iLock \in Inserting \cup Cancels
  BY <1>1, RecordFacts DEF LockInv, RecordsTypeOK
<1>3. RecordsTypeOK' /\ LockInv' /\ CancelInv'
  BY <1>1, <1>2, RecordFacts DEF RecordsTypeOK, LockInv, CancelInv, Told
<1>4. RecordsAreWhole'
  BY <1>1, RecordFacts DEF RecordsAreWhole, StagesWithRun, GroupsOfOneRequest, CancelledOnce
<1>5. iMixed' \/ UnmixedInv'
  <2> SUFFICES ASSUME ~iMixed PROVE UnmixedInv'
    BY <1>1
  <2>1. \A z \in GroupRequests \ iUndone' : iAt[z] \notin Midst
    BY <1>1, RecordFacts DEF LockInv
  <2>2. \A q \in RunsAsked : iAt[q] \in Midst => iLive'.status[q] = "none"
    BY <1>1, RecordFacts DEF UnmixedInv
  <2>3. QED BY <1>1, <2>1, <2>2, RecordFacts DEF UnmixedInv, Midst
<1>6. QED BY <1>3, <1>4, <1>5 DEF RecordsInv

\* The server stops: what is not on disk is gone, with the requests.
LEMMA CrashRecordsKeeps ==
  ASSUME RecordsInv, CrashRecords
  PROVE  RecordsInv'
<1>1. /\ iLive' = iDb /\ iLock' = "free" /\ iFaults' \in Nat /\ UNCHANGED <<iDb, iDone, iWon, iMixed, iUndone>>
      /\ iAt' = [x \in Inserting |-> IF iAt[x] \in Midst THEN "failed" ELSE iAt[x]]
      /\ iCancel' = [c \in Cancels |-> IF iCancel[c] \in RunsAsked THEN "refused" ELSE iCancel[c]]
  BY RecordFacts DEF CrashRecords, RecordFault, RecordsTypeOK, Midst
<1>2. /\ iAt' \in [Inserting -> RecordStages]
      /\ \A z \in Inserting : iAt'[z] \notin Midst /\ (iAt'[z] = "idle" => iAt[z] = "idle")
      /\ \A z \in Inserting : iAt[z] = "done" => iAt'[z] = "done"
  BY <1>1, RecordFacts DEF RecordsTypeOK, RecordStages, Midst
<1>3. RecordsTypeOK'
  BY <1>1, <1>2, RecordFacts DEF RecordsTypeOK
<1>4. LockInv'
  BY <1>1, <1>2, RecordFacts DEF LockInv
<1>5. CancelInv'
  <2>1. \A c \in Cancels : iCancel'[c] \notin RunsAsked
    BY <1>1, RecordFacts
  <2>2. QED BY <1>1, <1>2, <2>1, RecordFacts DEF CancelInv
<1>6. iMixed' \/ UnmixedInv'
  BY <1>1, <1>2, RecordFacts DEF UnmixedInv, Midst
<1>7. QED BY <1>1, <1>3, <1>4, <1>5, <1>6, RecordFacts, WholeKept DEF RecordsInv

\* Every step keeps the invariant.
LEMMA RecordsStep == RecordsInv /\ [RecordsNext]_iVars => RecordsInv'
<1> SUFFICES ASSUME RecordsInv, [RecordsNext]_iVars PROVE RecordsInv'
  OBVIOUS
<1>1. CASE OtherCommit \/ OtherRollback \/ CrashRecords
  BY <1>1, OtherCommitKeeps, OtherRollbackKeeps, CrashRecordsKeeps
<1>2. ASSUME NEW x \in Inserting,
             \/ create_run(x) \/ upsert_groups(x) \/ InsertOne(x) \/ InsertRefused(x)
             \/ CommitRecords(x) \/ RollBackRecords(x)
      PROVE  RecordsInv'
  BY <1>2, CreateRunKeeps, UpsertGroupsKeeps, InsertOneKeeps, InsertRefusedKeeps,
     CommitRecordsKeeps, RollBackRecordsKeeps
<1>3. ASSUME NEW c \in Cancels, \/ update_run_status(c) \/ CommitCancel(c) \/ CancelFails(c)
                                \/ \E r \in RunsAsked : cancel_pipeline_run(c, r)
      PROVE  RecordsInv'
  BY <1>3, UpdateStatusKeeps, CommitCancelKeeps, CancelFailsKeeps, ReadForCancelKeeps
<1>4. CASE UNCHANGED iVars
  <2>1. RecordsTypeOK' /\ LockInv' /\ CancelInv' /\ RecordsAreWhole'
    BY <1>4, RecordFacts, WholeKept DEF iVars, RecordsTypeOK, LockInv, CancelInv, Told
  <2>2. iMixed' \/ UnmixedInv'
    BY <1>4, RecordFacts DEF iVars, UnmixedInv
  <2>3. QED BY <2>1, <2>2 DEF RecordsInv
<1>5. QED BY <1>1, <1>2, <1>3, <1>4 DEF RecordsNext

(* A committed run has all its stages and no stage is without its run, the *)
(* committed groups are those of one request, and a cancellation is told   *)
(* to one: whatever is refused, rolled back or crashes, for any number of  *)
(* requests; but for what another coroutine's commit or, of the groups and *)
(* the cancellation, its rollback in their midst does to them.             *)
THEOREM RunRecordsWhole == RecordsSpec => []RecordsAreWhole
<1>1. RecordsInv => RecordsAreWhole
  BY DEF RecordsInv
<1>2. QED BY <1>1, RecordsInitially, RecordsStep, PTL DEF RecordsSpec

-----------------------------------------------------------------------------
(* Chores                                                                  *)

ChoreStages ==
  {"idle", "loaded", "clearing", "checked", "created", "started", "losing"}
OrNothing == 0 .. MaxIssues
ChoreRow == [status : {"active", "paused", "deleted"}, current : OrNothing, last : OrNothing]

ChoreTypeOK ==
  /\ kRow \in ChoreRow /\ kIssue \in [Numbers -> {"none", "open", "closed"}]
  /\ kAt \in [Triggers -> ChoreStages] /\ kSaw \in [Triggers -> ChoreRow]
  /\ kNew \in [Triggers -> OrNothing] /\ kDelete \in 0 .. MaxIssues + 1

\* An issue that something names has been opened: no number is given twice.
Given(n) == n \in Numbers => kIssue[n] # "none"
NamesGiven ==
  /\ Given(kRow.current) /\ Given(kRow.last) /\ Given(kDelete)
  /\ \A t \in Triggers : Given(kSaw[t].current) /\ Given(kSaw[t].last) /\ Given(kNew[t])

\* A caller has an issue of its own from opening it until it is recorded or
\* closed, and nobody has heard of it till then.
NewIsFresh ==
  \A t \in Triggers :
     /\ kAt[t] \notin {"created", "started", "losing"} => kNew[t] = Nothing
     /\ kNew[t] # Nothing =>
          /\ kNew[t] # kRow.last
          /\ \A u \in Triggers : kNew[t] # kSaw[u].last /\ (kNew[t] = kNew[u] => t = u)

\* While last_triggered_at is what a caller saw, so is the current issue, if
\* it was not cleared; and past its check the one it saw is not open.
SwapIsSafeFor(t) ==
  /\ kAt[t] # "idle" /\ kRow.last = kSaw[t].last => kRow.current \in {Nothing, kSaw[t].current}
  /\ kAt[t] \notin {"idle", "loaded"} => ~Open(kSaw[t].current)
SwapIsSafe == \A t \in Triggers : SwapIsSafeFor(t)

\* The issue a deletion took for current is closed or lost.
DeletedIsClosed == kDelete # NotDeleting /\ Open(kDelete) => kDelete \in kLost

ChoreInv == ChoreTypeOK /\ NamesGiven /\ NewIsFresh /\ SwapIsSafe /\ DeletedIsClosed /\ OneInstance

\* The invariant in the initial state: no chore, no issue, no caller.
LEMMA ChoreInitially == ChoreInit => ChoreInv
<1> SUFFICES ASSUME ChoreInit PROVE ChoreInv
  OBVIOUS
<1>0. MaxIssues \in Nat /\ 0 \notin Numbers /\ NotDeleting \notin Numbers
  BY ChoreAssumption DEF Numbers, NotDeleting
<1> USE <1>0 DEF ChoreInit, NoRow, NewRow, Nothing
<1>1. ChoreTypeOK
  BY DEF ChoreTypeOK, ChoreRow, OrNothing, ChoreStages, Numbers, NotDeleting
<1>2. NamesGiven
  BY DEF NamesGiven, Given
<1>3. NewIsFresh /\ SwapIsSafe
  BY DEF NewIsFresh, SwapIsSafe, SwapIsSafeFor, Open
<1>4. DeletedIsClosed /\ OneInstance
  BY DEF DeletedIsClosed, OneInstance, Open
<1>5. QED BY <1>1, <1>2, <1>3, <1>4 DEF ChoreInv

\* What the rows are that the actions write.
LEMMA ChoreRows ==
  ASSUME NEW row \in ChoreRow
  PROVE  /\ NoRow \in ChoreRow /\ NoRow.current = Nothing /\ NoRow.last = Nothing
         /\ NewRow \in ChoreRow /\ NewRow.current = Nothing /\ NewRow.last = Nothing
         /\ row.current \in OrNothing /\ row.last \in OrNothing
         /\ Read(row) \in ChoreRow /\ Read(row).current = row.current /\ Read(row).last = row.last
<1>1. Nothing \in OrNothing
  BY ChoreAssumption DEF Nothing, OrNothing
<1>2. NewRow \in ChoreRow /\ NewRow.current = Nothing /\ NewRow.last = Nothing
  BY <1>1 DEF NewRow, ChoreRow
<1>3. NoRow \in ChoreRow /\ NoRow.current = Nothing /\ NoRow.last = Nothing
  BY <1>1 DEF NewRow, NoRow, ChoreRow
<1>4. row.current \in OrNothing /\ row.last \in OrNothing
  BY DEF ChoreRow
<1>5. Read(row) \in ChoreRow /\ Read(row).current = row.current /\ Read(row).last = row.last
  BY DEF Read, ChoreRow
<1>6. QED BY <1>2, <1>3, <1>4, <1>5
LEMMA ChoreRowStatus ==
  ASSUME NEW row \in ChoreRow, NEW st \in {"active", "paused"}
  PROVE  /\ [row EXCEPT !.status = st] \in ChoreRow /\ [row EXCEPT !.status = st].current = row.current
         /\ [row EXCEPT !.status = st].last = row.last
BY DEF ChoreRow
LEMMA ChoreRowEdits ==
  ASSUME NEW row \in ChoreRow, NEW n \in OrNothing
  PROVE  /\ [row EXCEPT !.current = n] \in ChoreRow /\ [row EXCEPT !.current = n].current = n
         /\ [row EXCEPT !.current = n].last = row.last
         /\ [row EXCEPT !.current = n, !.last = n] \in ChoreRow
         /\ [row EXCEPT !.current = n, !.last = n].current = n /\ [row EXCEPT !.current = n, !.last = n].last = n
<1>1. /\ [row EXCEPT !.current = n] \in ChoreRow /\ [row EXCEPT !.current = n].current = n
      /\ [row EXCEPT !.current = n].last = row.last
  BY DEF ChoreRow
<1>2. /\ [row EXCEPT !.current = n, !.last = n] \in ChoreRow
      /\ [row EXCEPT !.current = n, !.last = n].current = n /\ [row EXCEPT !.current = n, !.last = n].last = n
  BY DEF ChoreRow
<1>3. QED BY <1>1, <1>2

\* The facts every step starts from.
LEMMA ChoreFacts ==
  ASSUME ChoreInv
  PROVE  /\ ChoreTypeOK /\ NamesGiven /\ NewIsFresh /\ SwapIsSafe /\ DeletedIsClosed /\ OneInstance
         /\ kRow \in ChoreRow /\ kRow.current \in OrNothing /\ kRow.last \in OrNothing
         /\ \A t \in Triggers : /\ kSaw[t] \in ChoreRow /\ kNew[t] \in OrNothing
                                /\ kSaw[t].current \in OrNothing /\ kSaw[t].last \in OrNothing
         /\ Numbers = 1 .. MaxIssues /\ MaxIssues \in Nat /\ Nothing = 0 /\ OrNothing = 0 .. MaxIssues
         /\ NotDeleting = MaxIssues + 1
BY ChoreAssumption, ChoreRows DEF ChoreInv, ChoreTypeOK, Numbers, Nothing, OrNothing, NotDeleting

\* Creating, pausing and resuming the chore.
LEMMA EditChoreKeeps ==
  ASSUME ChoreInv, create_chore \/ (\E status \in {"active", "paused"} : update_chore(status)) \/ BecomesDue
  PROVE  ChoreInv'
<1>1. /\ UNCHANGED <<kDelete, kGitHub, kAt, kSaw, kNew, kLost>> /\ kRow' \in ChoreRow
      /\ \/ kRow'.current = kRow.current /\ kRow'.last = kRow.last
         \/ /\ kRow'.current = Nothing /\ kRow'.last = Nothing
            /\ \A n \in Numbers : kIssue[n] = "none"
  <2>1. kRow \in ChoreRow /\ Nothing \in OrNothing
    BY ChoreFacts
  <2>2. CASE create_chore
    BY <2>1, <2>2, ChoreRows DEF create_chore
  <2>3. CASE BecomesDue
    BY <2>1, <2>3 DEF BecomesDue
  <2>4. ASSUME NEW status \in {"active", "paused"}, update_chore(status)
        PROVE  /\ UNCHANGED <<kDelete, kGitHub, kAt, kSaw, kNew, kLost>> /\ kRow' \in ChoreRow
               /\ kRow'.current = kRow.current /\ kRow'.last = kRow.last
    BY <2>1, <2>4, ChoreRowStatus DEF update_chore
  <2>5. QED BY <2>2, <2>3, <2>4
<1> USE DEF kGitHub
<1>2. ChoreTypeOK' /\ NamesGiven' /\ DeletedIsClosed'
  BY <1>1, ChoreFacts DEF ChoreTypeOK, NamesGiven, Given, DeletedIsClosed, Open
<1>3. NewIsFresh'
  <2>1. \A t \in Triggers : kNew[t] # Nothing => kNew[t] # kRow'.last
    BY <1>1, ChoreFacts DEF NewIsFresh
  <2>2. QED BY <1>1, <2>1, ChoreFacts DEF NewIsFresh
<1>4. SwapIsSafe'
  BY <1>1, ChoreFacts DEF SwapIsSafe, SwapIsSafeFor, Open
<1>5. OneInstance'
  BY <1>1, ChoreFacts DEF OneInstance, Explained, Open
<1>6. QED BY <1>2, <1>3, <1>4, <1>5 DEF ChoreInv

\* An issue that is closed is closed for good.
LEMMA CloseChoreIssue ==
  ASSUME ChoreInv, NEW m \in OrNothing, kIssue' = [kIssue EXCEPT ![m] = "closed"]
  PROVE  /\ kIssue' \in [Numbers -> {"none", "open", "closed"}]
         /\ \A n : n \in Numbers => (Given(n) => Given(n)')
         /\ \A n : n \in OrNothing /\ Open(n)' => Open(n) /\ n # m
<1>1. /\ kIssue' \in [Numbers -> {"none", "open", "closed"}]
      /\ \A n \in Numbers : kIssue'[n] = IF n = m THEN "closed" ELSE kIssue[n]
  BY ChoreFacts DEF ChoreTypeOK
<1>2. \A n \in OrNothing : n # Nothing => n \in Numbers
  BY ChoreFacts
<1>3. QED BY <1>1, <1>2 DEF Given, Open

\* Deleting: what is current is closed, or lost if the call fails.
LEMMA DeleteChoreKeeps ==
  ASSUME ChoreInv, NEW closes \in BOOLEAN, delete_chore(closes)
  PROVE  ChoreInv'
<1>1. /\ UNCHANGED <<kRow, kAt, kSaw, kNew>> /\ kDelete' = kRow.current
      /\ kIssue' = IF closes /\ Open(kRow.current) THEN [kIssue EXCEPT ![kRow.current] = "closed"] ELSE kIssue
      /\ kLost' = IF ~closes /\ Open(kRow.current) THEN kLost \cup {kRow.current} ELSE kLost
  BY DEF delete_chore
<1>2. /\ kIssue' \in [Numbers -> {"none", "open", "closed"}] /\ \A n \in Numbers : Given(n) => Given(n)'
      /\ \A n \in OrNothing : Open(n)' => Open(n)
      /\ Open(kRow.current)' => kRow.current \in kLost'
  <2>1. CASE closes /\ Open(kRow.current)
    BY <1>1, <2>1, ChoreFacts, CloseChoreIssue
  <2>2. CASE ~(closes /\ Open(kRow.current))
    BY <1>1, <2>2, ChoreFacts DEF ChoreTypeOK, Given, Open
  <2>3. QED BY <2>1, <2>2
<1>3. kLost \subseteq kLost'
  BY <1>1
<1>4. ChoreTypeOK'
  BY <1>1, <1>2, ChoreFacts DEF ChoreTypeOK
<1>5. NamesGiven'
  BY <1>1, <1>2, ChoreFacts DEF NamesGiven, Given
<1>6. NewIsFresh' /\ DeletedIsClosed'
  BY <1>1, <1>2, ChoreFacts DEF NewIsFresh, DeletedIsClosed
<1>7. SwapIsSafe'
  BY <1>1, <1>2, ChoreFacts DEF SwapIsSafe, SwapIsSafeFor
<1>8. OneInstance'
  BY <1>1, <1>2, <1>3, ChoreFacts DEF OneInstance, Explained
<1>9. QED BY <1>4, <1>5, <1>6, <1>7, <1>8 DEF ChoreInv

\* The row goes: a current issue that the deletion did not see is lost.
LEMMA DeleteRowKeeps ==
  ASSUME ChoreInv, DeleteRow
  PROVE  ChoreInv'
<1>1. /\ kDelete # NotDeleting /\ kDelete' = NotDeleting /\ kRow' = NoRow
      /\ kLost' = IF Open(kRow.current) /\ kRow.current # kDelete THEN kLost \cup {kRow.current} ELSE kLost
      /\ UNCHANGED <<kIssue, kAt, kSaw, kNew>>
  BY DEF DeleteRow, kGitHub
<1>2. kRow' \in ChoreRow /\ kRow'.current = Nothing /\ kRow'.last = Nothing
  BY <1>1, ChoreFacts, ChoreRows
<1>3. ChoreTypeOK'
  BY <1>1, <1>2, ChoreFacts DEF ChoreTypeOK
<1>4. NamesGiven' /\ DeletedIsClosed'
  BY <1>1, <1>2, ChoreFacts DEF NamesGiven, Given, DeletedIsClosed
<1>5. NewIsFresh' /\ SwapIsSafe'
  BY <1>1, <1>2, ChoreFacts DEF NewIsFresh, SwapIsSafe, SwapIsSafeFor, Open
<1>6. OneInstance'
  <2>1. Open(kRow.current) => kRow.current \in kLost'
    BY <1>1, ChoreFacts DEF DeletedIsClosed
  <2>2. kLost \subseteq kLost'
    BY <1>1
  <2>3. QED BY <1>1, <2>1, <2>2, ChoreFacts DEF OneInstance, Explained, Open
<1>7. QED BY <1>3, <1>4, <1>5, <1>6 DEF ChoreInv

\* A caller reads the row.
LEMMA LoadKeeps ==
  ASSUME ChoreInv, NEW t \in Triggers, evaluate_triggers(t) \/ trigger_by_hand(t)
  PROVE  ChoreInv'
<1>1. /\ kAt[t] = "idle" /\ kSaw' = [kSaw EXCEPT ![t] = Read(kRow)] /\ kAt' = [kAt EXCEPT ![t] = "loaded"]
      /\ UNCHANGED <<kDelete, kRow, kIssue, kNew, kLost>>
  BY DEF evaluate_triggers, trigger_by_hand, Goto, kGitHub
<1>2. /\ Read(kRow) \in ChoreRow /\ Read(kRow).current = kRow.current /\ Read(kRow).last = kRow.last
      /\ \A u \in Triggers : kSaw'[u] = IF u = t THEN Read(kRow) ELSE kSaw[u]
      /\ \A u \in Triggers : kAt'[u] = IF u = t THEN "loaded" ELSE kAt[u]
  BY <1>1, ChoreFacts, ChoreRows DEF ChoreTypeOK
<1>3. ChoreTypeOK'
  BY <1>1, <1>2, ChoreFacts DEF ChoreTypeOK, ChoreStages
<1>4. NamesGiven' /\ DeletedIsClosed'
  BY <1>1, <1>2, ChoreFacts DEF NamesGiven, Given, DeletedIsClosed, Open
<1>5. NewIsFresh'
  BY <1>1, <1>2, ChoreFacts DEF NewIsFresh
<1>6. SwapIsSafe' /\ OneInstance'
  BY <1>1, <1>2, ChoreFacts DEF SwapIsSafe, SwapIsSafeFor, OneInstance, Explained, Open
<1>7. QED BY <1>3, <1>4, <1>5, <1>6 DEF ChoreInv

\* A caller that finishes forgets what it saw and opened.
LEMMA FinishFacts ==
  ASSUME ChoreInv, NEW t \in Triggers, Finish(t)
  PROVE  /\ kAt' \in [Triggers -> ChoreStages] /\ kSaw' \in [Triggers -> ChoreRow]
         /\ kNew' \in [Triggers -> OrNothing]
         /\ \A u \in Triggers : /\ kAt'[u] = IF u = t THEN "idle" ELSE kAt[u]
                                /\ kSaw'[u] = IF u = t THEN NoRow ELSE kSaw[u]
                                /\ kNew'[u] = IF u = t THEN Nothing ELSE kNew[u]
         /\ NoRow.current = Nothing /\ NoRow.last = Nothing
<1>1. NoRow \in ChoreRow /\ NoRow.current = Nothing /\ NoRow.last = Nothing /\ Nothing \in OrNothing
  BY ChoreFacts, ChoreRows
<1>2. QED BY <1>1, ChoreFacts DEF Finish, Goto, ChoreTypeOK, ChoreStages

\* A trigger that ends without recording its issue: it has none, or has it
\* closed or lost.
LEMMA EndTriggerKeeps ==
  ASSUME ChoreInv, NEW t \in Triggers, Finish(t), UNCHANGED <<kRow, kDelete>>, kLost \subseteq kLost',
         kIssue' \in [Numbers -> {"none", "open", "closed"}], \A n \in Numbers : Given(n) => Given(n)',
         \A n \in OrNothing : Open(n)' => Open(n) /\ (n = kNew[t] => n \in kLost')
  PROVE  ChoreInv'
<1>1. ChoreTypeOK'
  BY ChoreFacts, FinishFacts DEF ChoreTypeOK
<1>2. NamesGiven'
  <2>1. \A n : Given(n) => Given(n)'
    BY DEF Given
  <2>2. Given(Nothing)'
    BY ChoreFacts DEF Given
  <2>3. Given(kRow.current)' /\ Given(kRow.last)' /\ Given(kDelete)'
    BY <2>1, ChoreFacts DEF NamesGiven, Given
  <2>4. ASSUME NEW u \in Triggers PROVE Given(kSaw[u].current)' /\ Given(kSaw[u].last)' /\ Given(kNew[u])'
    <3>1. CASE u = t
      BY <2>2, <3>1, FinishFacts DEF Given
    <3>2. CASE u # t
      <4>1. kSaw'[u] = kSaw[u] /\ kNew'[u] = kNew[u]
        BY <3>2, FinishFacts
      <4>2. Given(kSaw[u].current) /\ Given(kSaw[u].last) /\ Given(kNew[u])
        BY ChoreFacts DEF NamesGiven
      <4>3. QED BY <2>1, <4>1, <4>2 DEF Given
    <3>3. QED BY <3>1, <3>2
  <2>5. QED BY <2>3, <2>4 DEF NamesGiven
<1>3. NewIsFresh'
  BY ChoreFacts, FinishFacts DEF NewIsFresh
<1>4. SwapIsSafe'
  <2> SUFFICES ASSUME NEW u \in Triggers PROVE SwapIsSafeFor(u)'
    BY DEF SwapIsSafe
  <2>1. CASE u = t
    BY <2>1, FinishFacts DEF SwapIsSafeFor
  <2>2. CASE u # t
    <3>1. kAt'[u] = kAt[u] /\ kSaw'[u] = kSaw[u]
      BY <2>2, FinishFacts
    <3>2. SwapIsSafeFor(u) /\ kSaw[u].current \in OrNothing
      BY ChoreFacts DEF SwapIsSafe
    <3>3. QED BY <3>1, <3>2 DEF SwapIsSafeFor
  <2>3. QED BY <2>1, <2>2
<1>5. DeletedIsClosed'
  BY ChoreFacts DEF DeletedIsClosed, ChoreTypeOK
<1>6. OneInstance'
  <2> SUFFICES ASSUME NEW n \in Numbers, Open(n)' PROVE Explained(n)'
    BY DEF OneInstance
  <2>1. Open(n) /\ (n = kNew[t] => n \in kLost') /\ n # Nothing
    BY ChoreFacts DEF Open
  <2>2. Explained(n)
    BY <2>1, ChoreFacts DEF OneInstance
  <2>3. QED BY <2>1, <2>2, FinishFacts DEF Explained
<1>7. QED BY <1>1, <1>2, <1>3, <1>4, <1>5, <1>6 DEF ChoreInv

LEMMA FinishingKeeps ==
  ASSUME ChoreInv, NEW t \in Triggers,
         \/ SkipOpenInstance(t) \/ CreateFails(t) \/ CloseDuplicate(t) \/ CloseDuplicateFails(t)
  PROVE  ChoreInv'
<1>1. CASE SkipOpenInstance(t) \/ CreateFails(t)
  <2>1. /\ Finish(t) /\ UNCHANGED <<kRow, kDelete, kIssue, kLost>> /\ kNew[t] = Nothing
    BY <1>1, ChoreFacts DEF SkipOpenInstance, CreateFails, kGitHub, NewIsFresh
  <2>2. kIssue' \in [Numbers -> {"none", "open", "closed"}]
    BY <2>1, ChoreFacts DEF ChoreTypeOK
  <2>3. \A n \in OrNothing : (Open(n)' => Open(n)) /\ ~Open(Nothing)'
    BY <2>1 DEF Open
  <2>4. \A n \in Numbers : Given(n) => Given(n)'
    BY <2>1 DEF Given
  <2>5. QED BY <2>1, <2>2, <2>3, <2>4, EndTriggerKeeps
<1>2. CASE CloseDuplicate(t)
  <2>1. /\ Finish(t) /\ UNCHANGED <<kRow, kDelete, kLost>> /\ kIssue' = [kIssue EXCEPT ![kNew[t]] = "closed"]
    BY <1>2 DEF CloseDuplicate, CloseIssue
  <2>2. kNew[t] \in OrNothing
    BY ChoreFacts
  <2>3. QED BY <2>1, <2>2, CloseChoreIssue, EndTriggerKeeps
<1>3. CASE CloseDuplicateFails(t)
  <2>1. /\ Finish(t) /\ UNCHANGED <<kRow, kDelete, kIssue>> /\ kLost' = kLost \cup {kNew[t]}
    BY <1>3 DEF CloseDuplicateFails, kGitHub
  <2>2. kIssue' \in [Numbers -> {"none", "open", "closed"}]
    BY <2>1, ChoreFacts DEF ChoreTypeOK
  <2>3. \A n \in OrNothing : Open(n)' => Open(n)
    BY <2>1 DEF Open
  <2>4. \A n \in Numbers : Given(n) => Given(n)'
    BY <2>1 DEF Given
  <2>5. QED BY <2>1, <2>2, <2>3, <2>4, EndTriggerKeeps
<1>4. QED BY <1>1, <1>2, <1>3

\* The check that the known issue is closed, and the clearing that follows it.
LEMMA CheckKeeps ==
  ASSUME ChoreInv, NEW t \in Triggers, check_issue_closed(t) \/ clear_current_issue(t)
  PROVE  ChoreInv'
<1>1. PICK stage \in {"clearing", "checked"} :
         /\ kAt' = [kAt EXCEPT ![t] = stage] /\ UNCHANGED <<kDelete, kIssue, kSaw, kNew>>
         /\ kAt[t] \in {"loaded", "clearing"} /\ (kAt[t] = "loaded" => ~Open(kSaw[t].current))
         /\ kRow' \in {kRow, [kRow EXCEPT !.current = Nothing]} /\ kLost \subseteq kLost'
         /\ kRow' # kRow /\ Open(kRow.current) => kRow.current \in kLost'
  BY DEF check_issue_closed, clear_current_issue, Goto, kGitHub
<1>2. /\ kRow' \in ChoreRow /\ kRow'.last = kRow.last /\ kRow'.current \in {Nothing, kRow.current}
      /\ Open(kRow.current) /\ kRow'.current # kRow.current => kRow.current \in kLost'
  <2>1. kRow \in ChoreRow /\ Nothing \in OrNothing
    BY ChoreFacts
  <2>2. CASE kRow' = kRow
    BY <2>1, <2>2
  <2>3. CASE kRow' = [kRow EXCEPT !.current = Nothing]
    <3>1. kRow' \in ChoreRow /\ kRow'.current = Nothing /\ kRow'.last = kRow.last
      BY <2>1, <2>3, ChoreRowEdits
    <3>2. QED BY <1>1, <3>1
  <2>4. QED BY <1>1, <2>2, <2>3
<1>3. \A u \in Triggers : kAt'[u] = IF u = t THEN stage ELSE kAt[u]
  BY <1>1, ChoreFacts DEF ChoreTypeOK
<1>4. ChoreTypeOK'
  BY <1>1, <1>2, ChoreFacts DEF ChoreTypeOK, ChoreStages
<1>5. NamesGiven' /\ DeletedIsClosed'
  BY <1>1, <1>2, ChoreFacts DEF NamesGiven, Given, DeletedIsClosed, Open
<1>6. NewIsFresh'
  BY <1>1, <1>2, <1>3, ChoreFacts DEF NewIsFresh
<1>7. SwapIsSafe'
  BY <1>1, <1>2, <1>3, ChoreFacts DEF SwapIsSafe, SwapIsSafeFor, Open
<1>8. OneInstance'
  <2> SUFFICES ASSUME NEW n \in Numbers, Open(n)' PROVE Explained(n)'
    BY DEF OneInstance
  <2>1. Explained(n) /\ Open(n)
    BY <1>1, ChoreFacts DEF OneInstance, Open
  <2>2. CASE n = kRow.current
    BY <1>2, <2>1, <2>2 DEF Explained
  <2>3. CASE n # kRow.current
    BY <1>1, <2>1, <2>3 DEF Explained
  <2>4. QED BY <2>2, <2>3
<1>9. QED BY <1>4, <1>5, <1>6, <1>7, <1>8 DEF ChoreInv

\* A new issue, of a number that nothing names.
LEMMA CreateIssueKeeps ==
  ASSUME ChoreInv, NEW t \in Triggers, create_issue(t)
  PROVE  ChoreInv'
<1>1. PICK n \in Numbers :
         /\ kIssue[n] = "none" /\ kIssue' = [kIssue EXCEPT ![n] = "open"] /\ kNew' = [kNew EXCEPT ![t] = n]
         /\ kAt[t] = "checked" /\ kAt' = [kAt EXCEPT ![t] = "created"]
         /\ UNCHANGED <<kDelete, kRow, kSaw, kLost>>
  BY DEF create_issue, Goto
<1>2. /\ \A u \in Triggers : kAt'[u] = IF u = t THEN "created" ELSE kAt[u]
      /\ \A u \in Triggers : kNew'[u] = IF u = t THEN n ELSE kNew[u]
      /\ \A m \in Numbers : kIssue'[m] = IF m = n THEN "open" ELSE kIssue[m]
      /\ n \in OrNothing /\ n # Nothing
  BY <1>1, ChoreFacts DEF ChoreTypeOK
<1>3. /\ kRow.current # n /\ kRow.last # n /\ kDelete # n
      /\ \A u \in Triggers : kSaw[u].current # n /\ kSaw[u].last # n /\ kNew[u] # n
  BY <1>1, ChoreFacts DEF NamesGiven, Given
<1>4. \A m : m # n => (Open(m)' <=> Open(m))
  BY <1>1, ChoreFacts DEF Open, ChoreTypeOK
<1>5. ChoreTypeOK'
  BY <1>1, <1>2, ChoreFacts DEF ChoreTypeOK, ChoreStages
<1>6. NamesGiven'
  BY <1>1, <1>2, ChoreFacts DEF NamesGiven, Given
<1>7. NewIsFresh'
  BY <1>1, <1>2, <1>3, ChoreFacts DEF NewIsFresh
<1>8. SwapIsSafe' /\ DeletedIsClosed'
  BY <1>1, <1>2, <1>3, <1>4, ChoreFacts DEF SwapIsSafe, SwapIsSafeFor, DeletedIsClosed
<1>9. OneInstance'
  <2> SUFFICES ASSUME NEW m \in Numbers, Open(m)' PROVE Explained(m)'
    BY DEF OneInstance
  <2>1. CASE m = n
    BY <1>2, <2>1 DEF Explained
  <2>2. CASE m # n
    <3>1. Explained(m)
      BY <1>4, <2>2, ChoreFacts DEF OneInstance
    <3>2. kNew[t] = Nothing /\ m # Nothing
      BY <1>1, ChoreFacts DEF NewIsFresh
    <3>3. QED BY <1>1, <1>2, <3>1, <3>2 DEF Explained
  <2>3. QED BY <2>1, <2>2
<1>10. QED BY <1>5, <1>6, <1>7, <1>8, <1>9 DEF ChoreInv

\* The pipeline starts or does not, and a lost swap has an issue to close.
LEMMA MoveTriggerKeeps ==
  ASSUME ChoreInv, NEW t \in Triggers, NEW stage \in {"started", "losing"}, Goto(t, stage),
         kAt[t] \in {"created", "started"}, UNCHANGED <<kDelete, kRow, kIssue, kSaw, kNew, kLost>>
  PROVE  ChoreInv'
<1>1. \A u \in Triggers : kAt'[u] = IF u = t THEN stage ELSE kAt[u]
  BY ChoreFacts DEF ChoreTypeOK, Goto
<1>2. ChoreTypeOK'
  BY ChoreFacts DEF ChoreTypeOK, ChoreStages, Goto
<1>3. NamesGiven' /\ DeletedIsClosed' /\ OneInstance'
  BY ChoreFacts DEF NamesGiven, Given, DeletedIsClosed, OneInstance, Explained, Open
<1>4. NewIsFresh' /\ SwapIsSafe'
  BY <1>1, ChoreFacts DEF NewIsFresh, SwapIsSafe, SwapIsSafeFor, Open
<1>5. QED BY <1>2, <1>3, <1>4 DEF ChoreInv

\* The swap that succeeds replaces an issue that is not open.
LEMMA SwapKeeps ==
  ASSUME ChoreInv, NEW t \in Triggers, kAt[t] = "started", SwapSucceeds(t), Finish(t),
         kRow' = [kRow EXCEPT !.current = kNew[t], !.last = kNew[t]], UNCHANGED <<kDelete, kIssue, kLost>>
  PROVE  ChoreInv'
<1>1. kRow' \in ChoreRow /\ kRow'.current = kNew[t] /\ kRow'.last = kNew[t]
  <2>1. kRow \in ChoreRow /\ kNew[t] \in OrNothing
    BY ChoreFacts
  <2>2. QED BY <2>1, ChoreRowEdits
<1>2. ~Open(kRow.current)
  BY ChoreFacts DEF SwapSucceeds, SwapIsSafe, SwapIsSafeFor, Open
<1>3. ChoreTypeOK'
  BY <1>1, ChoreFacts, FinishFacts DEF ChoreTypeOK
<1>4. NamesGiven' /\ DeletedIsClosed'
  BY <1>1, ChoreFacts, FinishFacts DEF NamesGiven, Given, DeletedIsClosed, Open
<1>5. NewIsFresh'
  <2> SUFFICES ASSUME NEW u \in Triggers
               PROVE  /\ kAt'[u] \notin {"created", "started", "losing"} => kNew'[u] = Nothing
                      /\ kNew'[u] # Nothing =>
                           /\ kNew'[u] # kRow'.last
                           /\ \A z \in Triggers : kNew'[u] # kSaw'[z].last /\ (kNew'[u] = kNew'[z] => u = z)
    BY DEF NewIsFresh
  <2>1. CASE u = t
    BY <2>1, FinishFacts
  <2>2. CASE u # t
    <3>1. kNew'[u] = kNew[u] /\ kAt'[u] = kAt[u]
      BY <2>2, FinishFacts
    <3>2. QED BY <1>1, <2>2, <3>1, ChoreFacts, FinishFacts DEF NewIsFresh
  <2>3. QED BY <2>1, <2>2
<1>6. SwapIsSafe'
  <2> SUFFICES ASSUME NEW u \in Triggers PROVE SwapIsSafeFor(u)'
    BY DEF SwapIsSafe
  <2>1. CASE u = t
    BY <2>1, FinishFacts DEF SwapIsSafeFor
  <2>2. CASE u # t
    <3>1. kNew[t] # Nothing => kRow'.last # kSaw[u].last
      BY <1>1, ChoreFacts DEF NewIsFresh
    <3>2. kAt'[u] = kAt[u] /\ kSaw'[u] = kSaw[u]
      BY <2>2, FinishFacts
    <3>3. SwapIsSafeFor(u)
      BY ChoreFacts DEF SwapIsSafe
    <3>4. QED BY <1>1, <3>1, <3>2, <3>3 DEF SwapIsSafeFor, Open
  <2>3. QED BY <2>1, <2>2
<1>7. OneInstance'
  <2> SUFFICES ASSUME NEW m \in Numbers, Open(m)' PROVE Explained(m)'
    BY DEF OneInstance
  <2>1. Open(m) /\ Explained(m) /\ m # Nothing /\ m # kRow.current
    BY <1>2, ChoreFacts DEF OneInstance, Open
  <2>2. QED BY <1>1, <2>1, FinishFacts DEF Explained
<1>8. QED BY <1>3, <1>4, <1>5, <1>6, <1>7 DEF ChoreInv

LEMMA RecordTriggerKeeps ==
  ASSUME ChoreInv, NEW t \in Triggers,
         update_chore_after_trigger(t) \/ \E starts \in BOOLEAN : start_pipeline(t, starts)
  PROVE  ChoreInv'
<1>1. CASE \E starts \in BOOLEAN : start_pipeline(t, starts)
  BY <1>1, MoveTriggerKeeps DEF start_pipeline
<1>2. CASE update_chore_after_trigger(t) /\ SwapSucceeds(t)
  BY <1>2, SwapKeeps DEF update_chore_after_trigger, kGitHub
<1>3. CASE update_chore_after_trigger(t) /\ ~SwapSucceeds(t)
  BY <1>3, MoveTriggerKeeps DEF update_chore_after_trigger, kGitHub
<1>4. QED BY <1>1, <1>2, <1>3

\* A restart: callers are gone, their issues lost.
LEMMA RestartChoresKeeps ==
  ASSUME ChoreInv, RestartChores
  PROVE  ChoreInv'
<1>1. /\ kAt' = [t \in Triggers |-> "idle"] /\ kSaw' = [t \in Triggers |-> NoRow]
      /\ kNew' = [t \in Triggers |-> Nothing] /\ kDelete' = NotDeleting
      /\ kLost' = kLost \cup {n \in Numbers : Open(n) /\ \E t \in Triggers : kNew[t] = n}
      /\ UNCHANGED <<kRow, kIssue>>
  BY DEF RestartChores, kGitHub
<1>2. NoRow \in ChoreRow /\ NoRow.current = Nothing /\ NoRow.last = Nothing
  BY ChoreFacts, ChoreRows
<1>3. ChoreTypeOK'
  BY <1>1, <1>2, ChoreFacts DEF ChoreTypeOK, ChoreStages
<1>4. NamesGiven' /\ DeletedIsClosed'
  BY <1>1, <1>2, ChoreFacts DEF NamesGiven, Given, DeletedIsClosed
<1>5. NewIsFresh' /\ SwapIsSafe'
  BY <1>1 DEF NewIsFresh, SwapIsSafe, SwapIsSafeFor
<1>6. OneInstance'
  BY <1>1, ChoreFacts DEF OneInstance, Explained, Open
<1>7. QED BY <1>3, <1>4, <1>5, <1>6 DEF ChoreInv

\* Somebody closes an issue.
LEMMA IssueIsClosedKeeps ==
  ASSUME ChoreInv, NEW n \in Numbers, IssueIsClosed(n)
  PROVE  ChoreInv'
<1>1. kIssue' = [kIssue EXCEPT ![n] = "closed"] /\ UNCHANGED <<kDelete, kRow, kAt, kSaw, kNew, kLost>>
  BY DEF IssueIsClosed
<1>2. n \in OrNothing
  BY ChoreFacts
<1>3. /\ kIssue' \in [Numbers -> {"none", "open", "closed"}]
      /\ \A m \in Numbers : Given(m) => Given(m)'
      /\ \A m \in OrNothing : Open(m)' => Open(m) /\ m # n
  BY <1>1, <1>2, CloseChoreIssue
<1>4. ChoreTypeOK' /\ NewIsFresh'
  BY <1>1, <1>3, ChoreFacts DEF ChoreTypeOK, NewIsFresh
<1>5. NamesGiven'
  BY <1>1, <1>3, ChoreFacts DEF NamesGiven, Given
<1>6. SwapIsSafe' /\ OneInstance'
  BY <1>1, <1>3, ChoreFacts DEF SwapIsSafe, SwapIsSafeFor, OneInstance, Explained
<1>7. DeletedIsClosed'
  BY <1>1, <1>3, ChoreFacts DEF DeletedIsClosed, ChoreTypeOK
<1>8. QED BY <1>4, <1>5, <1>6, <1>7 DEF ChoreInv

\* Every step keeps the invariant.
LEMMA ChoreStep == ChoreInv /\ [ChoreNext]_kVars => ChoreInv'
<1> SUFFICES ASSUME ChoreInv, [ChoreNext]_kVars PROVE ChoreInv'
  OBVIOUS
<1>1. CASE create_chore \/ BecomesDue \/ (\E status \in {"active", "paused"} : update_chore(status))
  BY <1>1, EditChoreKeeps
<1>2. CASE RestartChores \/ DeleteRow \/ (\E closes \in BOOLEAN : delete_chore(closes))
  BY <1>2, RestartChoresKeeps, DeleteRowKeeps, DeleteChoreKeeps
<1>3. CASE \E t \in Triggers : evaluate_triggers(t) \/ trigger_by_hand(t)
  BY <1>3, LoadKeeps
<1>4. ASSUME NEW t \in Triggers, TriggerStep(t) PROVE ChoreInv'
  BY <1>4, FinishingKeeps, CheckKeeps, CreateIssueKeeps, RecordTriggerKeeps DEF TriggerStep
<1>5. CASE \E n \in Numbers : IssueIsClosed(n)
  BY <1>5, IssueIsClosedKeeps
<1>6. CASE UNCHANGED kVars
  BY <1>6 DEF kVars, ChoreInv, ChoreTypeOK, NamesGiven, Given, NewIsFresh, SwapIsSafe, SwapIsSafeFor, DeletedIsClosed,
     OneInstance, Explained, Open
<1>7. QED BY <1>1, <1>2, <1>3, <1>4, <1>5, <1>6 DEF ChoreNext

(* However many evaluations and manual triggers race, and whatever fails   *)
(* or restarts, an open issue of a chore is the recorded one, or that of a *)
(* caller at work, or is one the code has lost.                            *)
THEOREM ChoreOneInstance == ChoreSpec => []OneInstance
<1>1. ChoreInv => OneInstance
  BY DEF ChoreInv
<1>2. QED BY <1>1, ChoreInitially, ChoreStep, PTL DEF ChoreSpec

-----------------------------------------------------------------------------
(* AgentCommand                                                            *)

CreationTraces == {"row", "issue", "branch", "commit", "pull", "board", "mapping"}
CommandTypeOK ==
  /\ vAt \in [Messages -> {"idle", "new", "generate", "edit", "create"}]
  /\ vNext \in [Messages -> 1..8] /\ vDone \in [Messages -> SUBSET CreationTraces]

\* While a creation runs the session is executing, so that no confirmation
\* starts another, unless an answer came late.
ExecutingAlone ==
  \/ vLate
  \/ /\ \A x, z \in Messages : Creating(x) /\ Creating(z) => x = z
     /\ (\E x \in Messages : Creating(x)) => vStep = "executing"
BuiltOn(x) ==
  /\ "commit" \in vDone[x] => "branch" \in vDone[x]
  /\ "pull" \in vDone[x] => "commit" \in vDone[x]
  /\ "board" \in vDone[x] => "issue" \in vDone[x]
CommandInv == CommandTypeOK /\ ExecutingAlone /\ \A x \in Messages : BuiltOn(x)

LEMMA CommandInitially == AgentCommandInit => CommandInv
<1> SUFFICES ASSUME AgentCommandInit PROVE CommandInv
  OBVIOUS
<1>1. CommandTypeOK
  BY DEF AgentCommandInit, CommandTypeOK
<1>2. ExecutingAlone /\ \A x \in Messages : BuiltOn(x)
  BY DEF AgentCommandInit, ExecutingAlone, Creating, BuiltOn
<1>3. QED BY <1>1, <1>2 DEF CommandInv

\* A message goes on to something else than a creation.
LEMMA MessageKeeps ==
  ASSUME CommandInv, NEW x \in Messages, NEW at \in {"idle", "new", "generate", "edit"}, Becomes(x, at),
         UNCHANGED vCreation,
         vLate => vLate', vStep' = vStep \/ (OthersCreate(x) => vLate') \/ vStep # "executing"
  PROVE  CommandInv'
<1>1. vAt' \in [Messages -> {"idle", "new", "generate", "edit", "create"}]
      /\ \A z \in Messages : vAt'[z] = IF z = x THEN at ELSE vAt[z]
  BY DEF Becomes, CommandInv, CommandTypeOK
<1>2. CommandTypeOK' /\ \A z \in Messages : BuiltOn(z)'
  BY <1>1 DEF vCreation, CommandInv, CommandTypeOK, BuiltOn
<1>3. \A z \in Messages : Creating(z)' => Creating(z) /\ z # x
  BY <1>1 DEF Creating
<1>4. ExecutingAlone'
  BY <1>3 DEF CommandInv, ExecutingAlone, OthersCreate
<1>5. QED BY <1>2, <1>4 DEF CommandInv

\* A confirmation, which starts a creation only if none is under way.
LEMMA ConfirmKeeps ==
  ASSUME CommandInv, NEW x \in Messages, ConfirmCreation(x)
  PROVE  CommandInv'
<1>1. vStep \in {"preview", "edit"} /\ vAt[x] = "idle" /\ vLate' = vLate
  BY DEF ConfirmCreation
<1>2. vLate \/ \A z \in Messages : ~Creating(z)
  BY <1>1 DEF CommandInv, ExecutingAlone
<1>3. CASE vKnown
  <2>1. /\ vStep' = "executing" /\ vAt' = [vAt EXCEPT ![x] = "create"]
        /\ vNext' = [vNext EXCEPT ![x] = 1] /\ vDone' = [vDone EXCEPT ![x] = {}]
    BY <1>3 DEF ConfirmCreation, StepAtOnce, Becomes
  <2>2. CommandTypeOK'
    BY <2>1 DEF CommandInv, CommandTypeOK
  <2>3. ExecutingAlone'
    BY <1>1, <1>2, <2>1 DEF CommandInv, CommandTypeOK, ExecutingAlone, Creating
  <2>4. \A z \in Messages : BuiltOn(z)'
    BY <2>1 DEF CommandInv, CommandTypeOK, BuiltOn
  <2>5. QED BY <2>2, <2>3, <2>4 DEF CommandInv
<1>4. CASE ~vKnown
  <2>1. vStep' = "none" /\ UNCHANGED <<vAt, vNext, vDone>>
    BY <1>4 DEF ConfirmCreation, vCreation
  <2>2. QED BY <1>1, <1>2, <2>1 DEF CommandInv, CommandTypeOK, ExecutingAlone, Creating, BuiltOn
<1>5. QED BY <1>3, <1>4

\* A step of a creation: what it needs is there when it succeeds.
LEMMA CreationStepKeeps ==
  ASSUME CommandInv, NEW x \in Messages, NEW works \in BOOLEAN, CreationStep(x, works)
  PROVE  CommandInv'
<1>1. /\ vNext[x] \in 1..7 /\ vNext' = [vNext EXCEPT ![x] = @ + 1] /\ UNCHANGED <<vStep, vAt, vLate>>
      /\ vDone' = vDone \/ (Needs(x, Current(x)) /\ vDone' = [vDone EXCEPT ![x] = @ \cup {Current(x)}])
  BY DEF CreationStep, CommandInv, CommandTypeOK
<1>2. Current(x) \in CreationTraces
  BY <1>1 DEF Current, CreationSteps, CreationTraces
<1>3. CommandTypeOK'
  BY <1>1, <1>2 DEF CommandInv, CommandTypeOK
<1>4. ExecutingAlone'
  BY <1>1 DEF CommandInv, ExecutingAlone, Creating
<1>5. \A z \in Messages : BuiltOn(z)'
  <2>1. CASE vDone' = vDone
    BY <2>1 DEF CommandInv, BuiltOn
  <2>2. CASE Needs(x, Current(x)) /\ vDone' = [vDone EXCEPT ![x] = @ \cup {Current(x)}]
    <3>1. \A z \in Messages : vDone'[z] = IF z = x THEN vDone[x] \cup {Current(x)} ELSE vDone[z]
      BY <2>2 DEF CommandInv, CommandTypeOK
    <3>2. /\ Current(x) = "commit" => "branch" \in vDone[x]
          /\ Current(x) = "pull" => "commit" \in vDone[x]
          /\ Current(x) = "board" => "issue" \in vDone[x]
      BY <2>2 DEF Needs
    <3>3. QED BY <3>1, <3>2 DEF CommandInv, BuiltOn
  <2>3. QED BY <1>1, <2>1, <2>2
<1>6. QED BY <1>3, <1>4, <1>5 DEF CommandInv

\* Every step keeps the invariant.
LEMMA CommandStep == CommandInv /\ [AgentCommandNext]_vVars => CommandInv'
<1> SUFFICES ASSUME CommandInv, [AgentCommandNext]_vVars PROVE CommandInv'
  OBVIOUS
<1>1. ASSUME NEW x \in Messages, NEW b \in BOOLEAN, _handle_new_command(x, b) PROVE CommandInv'
  <2>1. \E at \in {"idle", "generate"} : Becomes(x, at)
    BY <1>1 DEF _handle_new_command
  <2>2. UNCHANGED vCreation /\ vLate' = (vLate \/ OthersCreate(x))
    BY <1>1 DEF _handle_new_command
  <2>3. QED BY <2>1, <2>2, MessageKeeps
<1>2. ASSUME NEW x \in Messages, handle_agent_command(x) \/ _handle_status_selection(x) \/ EditPreview(x)
      PROVE  CommandInv'
  <2>1. /\ \E at \in {"new", "generate", "edit"} : Becomes(x, at)
        /\ UNCHANGED vCreation /\ vLate' = vLate /\ vStep # "executing"
    BY <1>2 DEF handle_agent_command, _handle_status_selection, EditPreview, Arrives
  <2>2. QED BY <2>1, MessageKeeps
<1>3. ASSUME NEW x \in Messages,
             \/ _generate_and_present_preview(x) \/ PreviewFails(x) \/ _apply_edit(x)
             \/ NameIsTaken(x) \/ _execute_creation_pipeline(x)
      PROVE  CommandInv'
  <2>1. Becomes(x, "idle") /\ UNCHANGED vCreation /\ vLate' = (vLate \/ OthersCreate(x))
    BY <1>3 DEF _generate_and_present_preview, PreviewFails, _apply_edit, NameIsTaken, _execute_creation_pipeline
  <2>2. QED BY <2>1, MessageKeeps
<1>4. ASSUME NEW x \in Messages, EditFails(x) PROVE CommandInv'
  <2>1. Becomes(x, "idle") /\ UNCHANGED <<vCreation, vLate, vStep>>
    BY <1>4 DEF EditFails
  <2>2. QED BY <2>1, MessageKeeps
<1>5. ASSUME NEW x \in Messages, ConfirmCreation(x) PROVE CommandInv'
  BY <1>5, ConfirmKeeps
<1>6. ASSUME NEW x \in Messages, NEW b \in BOOLEAN, CreationStep(x, b) PROVE CommandInv'
  BY <1>6, CreationStepKeeps
<1>7. CASE UNCHANGED vVars
  BY <1>7 DEF vVars, CommandInv, CommandTypeOK, ExecutingAlone, Creating, BuiltOn
<1>8. QED BY <1>1, <1>2, <1>3, <1>4, <1>5, <1>6, <1>7 DEF AgentCommandNext

(* One session creates one agent at a time and leaves no trace on GitHub   *)
(* without what it rests on, for any number of messages that cross.        *)
THEOREM AgentCreationWhole == AgentCommandSpec => []CreationIsWhole
<1>1. CommandInv => CreationIsWhole
  <2> SUFFICES ASSUME CommandInv PROVE CreationIsWhole
    OBVIOUS
  <2>1. OneCreation
    <3> DEFINE S == {x \in Messages : Creating(x)}
    <3> SUFFICES ASSUME ~vLate PROVE Cardinality(S) <= 1
      BY DEF OneCreation
    <3>1. CASE S = {}
      BY <3>1, FS_EmptySet
    <3>2. ASSUME NEW x \in S PROVE Cardinality(S) = 1
      <4>1. S = {x}
        BY <3>2 DEF CommandInv, ExecutingAlone
      <4>2. QED BY <4>1, FS_Singleton
    <3>3. QED BY <3>1, <3>2
  <2>2. StepsBuildOnSteps
    BY DEF CommandInv, BuiltOn, StepsBuildOnSteps
  <2>3. QED BY <2>1, <2>2 DEF CreationIsWhole
<1>2. QED BY <1>1, CommandInitially, CommandStep, PTL DEF AgentCommandSpec

-----------------------------------------------------------------------------
(* Apps                                                                    *)

AppStages == {"idle", "checked", "repo", "project", "inserted", "launched", "over"}
AppRow == [owner : SUBSET Creators, status : {"active", "stopped"}, project : BOOLEAN,
           parent : SUBSET Creators]
AppsTypeOK ==
  /\ yRow \in AppRow /\ yAt \in [Creators -> AppStages]
  /\ yRepo \subseteq Creators /\ yProject \subseteq Creators /\ yIssue \subseteq Creators

(* What a request has made is its own until it inserts its row; its        *)
(* repository and project are then the row's, and its issue from the time  *)
(* it is recorded; or they were given up.                                  *)
AssetsAre(c) ==
  /\ yAt[c] \in {"idle", "checked"} => c \notin yRepo /\ c \notin yProject
  /\ yAt[c] \notin {"launched", "over"} => c \notin yIssue
  /\ yAt[c] \in {"inserted", "launched", "over"} =>
       /\ c \in yRepo => c \in yRow.owner \/ <<"repo", c>> \in yOrphan
       /\ c \in yProject => c \in yRow.owner \/ <<"project", c>> \in yOrphan
  /\ yAt[c] = "over" /\ c \in yIssue => c \in yRow.parent \/ <<"issue", c>> \in yOrphan
AppsInv ==
  /\ AppsTypeOK /\ (yRow.owner = {} => yRow.parent = {})
  /\ \A c \in Creators : AssetsAre(c)

LEMMA AppsInitially == AppsInit => AppsInv
<1> SUFFICES ASSUME AppsInit PROVE AppsInv
  OBVIOUS
<1>1. AppsTypeOK
  BY DEF AppsInit, AppsTypeOK, AppRow, AppStages, Absent
<1>2. (yRow.owner = {} => yRow.parent = {}) /\ \A c \in Creators : AssetsAre(c)
  BY DEF AppsInit, Absent, AssetsAre
<1>3. QED BY <1>1, <1>2 DEF AppsInv

\* What exists is a repository, a project or an issue of a creator.
LEMMA AssetKinds ==
  /\ \A asset \in Existing : \/ \E c \in yRepo : asset = <<"repo", c>>
                             \/ \E c \in yProject : asset = <<"project", c>>
                             \/ \E c \in yIssue : asset = <<"issue", c>>
  /\ \A c \in yRepo : <<"repo", c>> \in Existing
  /\ \A c \in yProject : <<"project", c>> \in Existing
  /\ \A c \in yIssue : <<"issue", c>> \in Existing
BY DEF Existing
LEMMA OwnAssets ==
  ASSUME NEW c
  PROVE  /\ c \in yRepo => <<"repo", c>> \in AssetsOf(c)
         /\ c \in yProject => <<"project", c>> \in AssetsOf(c)
         /\ c \in yIssue => <<"issue", c>> \in AssetsOf(c)
BY DEF AssetsOf
LEMMA NamedAssets ==
  ASSUME NEW row, NEW c
  PROVE  /\ c \in row.owner => <<"repo", c>> \in AssetsNamed(row) /\ <<"project", c>> \in AssetsNamed(row)
         /\ c \in row.parent => <<"issue", c>> \in AssetsNamed(row)
BY DEF AssetsNamed

\* A creating request moves on.
LEMMA MoveCreator ==
  ASSUME AppsInv, NEW c \in Creators, NEW stage \in AppStages, Step(c, stage)
  PROVE  /\ yAt' \in [Creators -> AppStages]
         /\ \A d \in Creators : yAt'[d] = IF d = c THEN stage ELSE yAt[d]
BY DEF AppsInv, AppsTypeOK, Step

\* Deletions, status changes and lost assets disturb nothing else.
LEMMA AppsShrink ==
  ASSUME AppsInv, yAt' = yAt, yRepo' \subseteq yRepo, yProject' \subseteq yProject, yIssue' \subseteq yIssue,
         yOrphan \subseteq yOrphan', yRow' \in AppRow, yRow'.owner = yRow.owner, yRow'.parent = yRow.parent
  PROVE  AppsInv'
<1>1. AppsTypeOK' /\ (yRow'.owner = {} => yRow'.parent = {})
  BY DEF AppsInv, AppsTypeOK
<1>2. \A c \in Creators : AssetsAre(c)'
  BY DEF AppsInv, AssetsAre
<1>3. QED BY <1>1, <1>2 DEF AppsInv

\* Creation up to the row.
LEMMA CreateAppKeeps ==
  ASSUME AppsInv, NEW c \in Creators,
         \/ CheckName(c) \/ create_repository(c) \/ CreationFails(c)
         \/ \E ok \in BOOLEAN : create_project(c, ok)
  PROVE  AppsInv'
<1>1. PICK to \in AppStages :
         /\ Step(c, to) /\ yRow' = yRow /\ yIssue' = yIssue /\ yAt[c] \in {"idle", "checked", "repo"}
         /\ yRepo \subseteq yRepo' /\ yRepo' \subseteq yRepo \cup {c}
         /\ yProject \subseteq yProject' /\ yProject' \subseteq yProject \cup {c}
         /\ \/ to \in {"repo", "project"} /\ yOrphan' = yOrphan
            \/ to = "over" /\ yOrphan' = yOrphan \cup AssetsOf(c) /\ yRepo' = yRepo /\ yProject' = yProject
            \/ to = "checked" /\ yAt[c] = "idle" /\ yRepo' = yRepo /\ yProject' = yProject /\ yOrphan' = yOrphan
  <2>1. CASE CheckName(c)
    BY <2>1 DEF CheckName, AppStages, yGitHub
  <2>2. CASE create_repository(c)
    BY <2>2 DEF create_repository, AppStages
  <2>3. CASE CreationFails(c)
    BY <2>3 DEF CreationFails, AppStages, yGitHub
  <2>4. CASE \E ok \in BOOLEAN : create_project(c, ok)
    BY <2>4 DEF create_project, AppStages
  <2>5. QED BY <2>1, <2>2, <2>3, <2>4
<1>2. yAt' \in [Creators -> AppStages] /\ \A d \in Creators : yAt'[d] = IF d = c THEN to ELSE yAt[d]
  BY <1>1, MoveCreator
<1>3. AppsTypeOK' /\ (yRow'.owner = {} => yRow'.parent = {})
  BY <1>1, <1>2 DEF AppsInv, AppsTypeOK
<1>4. ASSUME NEW d \in Creators PROVE AssetsAre(d)'
  <2>1. AssetsAre(d) /\ AssetsAre(c)
    BY DEF AppsInv
  <2>2. CASE d # c
    BY <1>1, <1>2, <2>1, <2>2 DEF AssetsAre
  <2>3. CASE d = c
    BY <1>1, <1>2, <2>1, <2>3, OwnAssets DEF AssetsAre
  <2>4. QED BY <2>2, <2>3
<1>5. QED BY <1>3, <1>4 DEF AppsInv

\* The row, for the request that finds the name free; the other gives up.
LEMMA InsertRowKeeps ==
  ASSUME AppsInv, NEW c \in Creators, InsertRow(c)
  PROVE  AppsInv'
<1>0. yAt[c] = "project" /\ UNCHANGED <<yRepo, yProject, yIssue>>
  BY DEF InsertRow, yGitHub
<1>1. CASE NameIsFree(c)
  <2>1. /\ yRow' = [owner |-> {c}, status |-> "active", project |-> c \in yProject, parent |-> {}]
        /\ Step(c, "inserted") /\ yOrphan' = yOrphan /\ yRow.owner = {} /\ yRow.parent = {}
    BY <1>1 DEF InsertRow, NameIsFree, AppsInv
  <2>2. yAt' \in [Creators -> AppStages] /\ \A d \in Creators : yAt'[d] = IF d = c THEN "inserted" ELSE yAt[d]
    BY <2>1, MoveCreator DEF AppStages
  <2>3. yRow' \in AppRow /\ yRow'.owner = {c} /\ yRow'.parent = {}
    BY <2>1 DEF AppRow
  <2>4. AppsTypeOK'
    BY <1>0, <2>2, <2>3 DEF AppsInv, AppsTypeOK
  <2>5. \A d \in Creators : AssetsAre(d)'
    BY <1>0, <2>1, <2>2, <2>3 DEF AppsInv, AssetsAre
  <2>6. QED BY <2>3, <2>4, <2>5 DEF AppsInv
<1>2. CASE ~NameIsFree(c)
  <2>1. Step(c, "over") /\ yOrphan' = yOrphan \cup AssetsOf(c) /\ yRow' = yRow
    BY <1>2 DEF InsertRow
  <2>2. yAt' \in [Creators -> AppStages] /\ \A d \in Creators : yAt'[d] = IF d = c THEN "over" ELSE yAt[d]
    BY <2>1, MoveCreator DEF AppStages
  <2>3. AppsTypeOK' /\ (yRow'.owner = {} => yRow'.parent = {})
    BY <1>0, <2>1, <2>2 DEF AppsInv, AppsTypeOK
  <2>4. \A d \in Creators : AssetsAre(d)'
    BY <1>0, <2>1, <2>2, OwnAssets DEF AppsInv, AssetsAre
  <2>5. QED BY <2>3, <2>4 DEF AppsInv
<1>3. QED BY <1>1, <1>2

\* The pipeline's parent issue, launched and then recorded.
LEMMA LaunchAppKeeps ==
  ASSUME AppsInv, NEW c \in Creators, NEW launches \in BOOLEAN, LaunchAppPipeline(c, launches)
  PROVE  AppsInv'
<1> DEFINE to == IF launches THEN "launched" ELSE "over"
<1>1. /\ yAt[c] = "inserted" /\ Step(c, to) /\ UNCHANGED <<yRow, yRepo, yProject, yOrphan>>
      /\ yIssue' = IF launches THEN yIssue \cup {c} ELSE yIssue
  BY DEF LaunchAppPipeline
<1>2. yAt' \in [Creators -> AppStages] /\ \A d \in Creators : yAt'[d] = IF d = c THEN to ELSE yAt[d]
  BY <1>1, MoveCreator DEF AppStages
<1>3. AppsTypeOK' /\ (yRow'.owner = {} => yRow'.parent = {})
  BY <1>1, <1>2 DEF AppsInv, AppsTypeOK
<1>4. \A d \in Creators : AssetsAre(d)'
  BY <1>1, <1>2 DEF AppsInv, AssetsAre
<1>5. QED BY <1>3, <1>4 DEF AppsInv
LEMMA RecordParentKeeps ==
  ASSUME AppsInv, NEW c \in Creators, RecordParent(c)
  PROVE  AppsInv'
<1>1. /\ yAt[c] = "launched" /\ Step(c, "over") /\ UNCHANGED <<yRepo, yProject, yIssue>>
      /\ yRow' = IF yRow.owner = {} THEN yRow ELSE [yRow EXCEPT !.parent = {c}]
      /\ yOrphan \subseteq yOrphan'
      /\ yRow.owner = {} => <<"issue", c>> \in yOrphan'
      /\ yRow.owner # {} => \A d \in yRow.parent : <<"issue", d>> \in yOrphan'
  BY DEF RecordParent, yGitHub
<1>2. yAt' \in [Creators -> AppStages] /\ \A d \in Creators : yAt'[d] = IF d = c THEN "over" ELSE yAt[d]
  BY <1>1, MoveCreator DEF AppStages
<1>3. yRow' \in AppRow /\ yRow'.owner = yRow.owner /\ yRow'.parent = IF yRow.owner = {} THEN yRow.parent ELSE {c}
  BY <1>1 DEF AppsInv, AppsTypeOK, AppRow
<1>4. AppsTypeOK' /\ (yRow'.owner = {} => yRow'.parent = {})
  BY <1>1, <1>2, <1>3 DEF AppsInv, AppsTypeOK
<1>5. ASSUME NEW d \in Creators PROVE AssetsAre(d)'
  <2>1. AssetsAre(d) /\ (yRow.owner = {} => yRow.parent = {})
    BY DEF AppsInv
  <2>2. QED BY <1>1, <1>2, <1>3, <2>1 DEF AssetsAre
<1>6. QED BY <1>4, <1>5 DEF AppsInv

\* The row goes, and what it named is given up.
LEMMA DeleteAppRowKeeps ==
  ASSUME AppsInv, DeleteAppRow
  PROVE  AppsInv'
<1>1. /\ yRow' = Absent /\ UNCHANGED <<yAt, yRepo, yProject, yIssue>>
      /\ yOrphan \subseteq yOrphan' /\ Existing \cap AssetsNamed(yRow) \subseteq yOrphan'
  BY DEF DeleteAppRow, yGitHub
<1>2. yRow' \in AppRow /\ yRow'.owner = {} /\ yRow'.parent = {}
  BY <1>1 DEF Absent, AppRow
<1>3. AppsTypeOK'
  BY <1>1, <1>2 DEF AppsInv, AppsTypeOK
<1>4. ASSUME NEW d \in Creators PROVE AssetsAre(d)'
  <2>1. /\ d \in yRepo /\ d \in yRow.owner => <<"repo", d>> \in yOrphan'
        /\ d \in yProject /\ d \in yRow.owner => <<"project", d>> \in yOrphan'
        /\ d \in yIssue /\ d \in yRow.parent => <<"issue", d>> \in yOrphan'
    BY <1>1, AssetKinds, NamedAssets
  <2>2. QED BY <1>1, <2>1 DEF AppsInv, AssetsAre
<1>5. QED BY <1>2, <1>3, <1>4 DEF AppsInv

\* A restart: what the requests alone knew is given up.
LEMMA RestartAppsKeeps ==
  ASSUME AppsInv, RestartApps
  PROVE  AppsInv'
<1>1. /\ UNCHANGED <<yRow, yRepo, yProject, yIssue>> /\ yOrphan \subseteq yOrphan'
      /\ yAt' = [c \in Creators |-> IF yAt[c] = "idle" THEN "idle" ELSE "over"]
      /\ \A c \in Creators : yAt[c] \in {"repo", "project"} => AssetsOf(c) \subseteq yOrphan'
      /\ \A c \in Creators : yAt[c] = "launched" => <<"issue", c>> \in yOrphan'
  <2>1. /\ UNCHANGED <<yRow, yRepo, yProject, yIssue>>
        /\ yAt' = [c \in Creators |-> IF yAt[c] = "idle" THEN "idle" ELSE "over"]
    BY DEF RestartApps, yGitHub
  <2>2. \A y : y \in yOrphan => y \in yOrphan'
    BY DEF RestartApps
  <2>3. ASSUME NEW c \in Creators, yAt[c] = "launched" PROVE <<"issue", c>> \in yOrphan'
    <3> DEFINE launched == {<<"issue", e>> : e \in {d \in Creators : yAt[d] = "launched"}}
    <3>1. <<"issue", c>> \in launched
      BY <2>3
    <3>2. \A y : y \in launched => y \in yOrphan'
      BY DEF RestartApps
    <3>3. QED BY <3>1, <3>2
  <2>4. ASSUME NEW c \in Creators, yAt[c] \in {"repo", "project"}, NEW y \in AssetsOf(c)
        PROVE  y \in yOrphan'
    <3>1. AssetsOf(c) \in {AssetsOf(e) : e \in {d \in Creators : yAt[d] \in {"repo", "project"}}}
      BY <2>4
    <3>2. QED BY <2>4, <3>1 DEF RestartApps
  <2>5. QED BY <2>1, <2>2, <2>3, <2>4
<1>2. AppsTypeOK' /\ (yRow'.owner = {} => yRow'.parent = {})
  BY <1>1 DEF AppsInv, AppsTypeOK, AppStages
<1>3. ASSUME NEW d \in Creators PROVE AssetsAre(d)'
  <2>1. AssetsAre(d) /\ yAt[d] \in AppStages
    BY DEF AppsInv, AppsTypeOK
  <2>2. yAt[d] \in {"repo", "project"} =>
          /\ d \in yRepo => <<"repo", d>> \in yOrphan'
          /\ d \in yProject => <<"project", d>> \in yOrphan'
    BY <1>1, OwnAssets
  <2>3. QED BY <1>1, <2>1, <2>2 DEF AssetsAre, AppStages
<1>4. QED BY <1>2, <1>3 DEF AppsInv

\* Every step keeps the invariant.
LEMMA AppsStep == AppsInv /\ [AppsNext]_yVars => AppsInv'
<1> SUFFICES ASSUME AppsInv, [AppsNext]_yVars PROVE AppsInv'
  OBVIOUS
<1>0. yRow \in AppRow
  BY DEF AppsInv, AppsTypeOK
<1>1. ASSUME NEW c \in Creators,
             CheckName(c) \/ create_repository(c) \/ CreationFails(c) \/ InsertRow(c) \/ RecordParent(c)
      PROVE  AppsInv'
  BY <1>1, CreateAppKeeps, InsertRowKeeps, RecordParentKeeps
<1>2. ASSUME NEW c \in Creators, NEW ok \in BOOLEAN, create_project(c, ok) \/ LaunchAppPipeline(c, ok)
      PROVE  AppsInv'
  BY <1>2, CreateAppKeeps, LaunchAppKeeps
<1>3. ASSUME NEW ask \in {"start", "stop"}, AskStatus(ask) PROVE AppsInv'
  BY <1>0, <1>3, AppsShrink DEF AskStatus, yGitHub
<1>4. CASE WriteStatus
  <2>1. yRow' \in AppRow /\ yRow'.owner = yRow.owner /\ yRow'.parent = yRow.parent
    BY <1>0, <1>4 DEF WriteStatus, AppRow
  <2>2. QED BY <1>4, <2>1, AppsShrink DEF WriteStatus, yGitHub
<1>5. ASSUME NEW ok \in BOOLEAN,
             delete_app(ok) \/ CloseParentIssue(ok) \/ delete_project(ok) \/ delete_repository(ok)
      PROVE  AppsInv'
  BY <1>0, <1>5, AppsShrink DEF delete_app, CloseParentIssue, delete_project, delete_repository, yGitHub
<1>6. CASE DeleteAppRow \/ RestartApps
  BY <1>6, DeleteAppRowKeeps, RestartAppsKeeps
<1>7. CASE UNCHANGED yVars
  BY <1>0, <1>7, AppsShrink DEF yVars
<1>8. QED BY <1>1, <1>2, <1>3, <1>4, <1>5, <1>6, <1>7 DEF AppsNext

(* Whatever fails, races or restarts, what was made for an app is named by *)
(* its row, known to a request at work, or counted among what was given up.*)
THEOREM AppAssetsAccounted == AppsSpec => []AssetsAccounted
<1>1. AppsInv => AssetsAccounted
  <2> SUFFICES ASSUME AppsInv, NEW asset \in Existing
               PROVE  asset \in AssetsNamed(yRow) \cup yOrphan \/ Known(asset[2])
    BY DEF AssetsAccounted
  <2>1. ASSUME NEW c \in Creators
        PROVE  AssetsAre(c) /\ (~Known(c) => yAt[c] \in {"idle", "checked", "over"})
    BY DEF AppsInv, AppsTypeOK, AppStages, Known
  <2>2. yRepo \subseteq Creators /\ yProject \subseteq Creators /\ yIssue \subseteq Creators
    BY DEF AppsInv, AppsTypeOK
  <2>3. ASSUME NEW c \in yRepo, asset = <<"repo", c>> PROVE asset \in AssetsNamed(yRow) \cup yOrphan \/ Known(c)
    BY <2>1, <2>2, <2>3, NamedAssets DEF AssetsAre
  <2>4. ASSUME NEW c \in yProject, asset = <<"project", c>> PROVE asset \in AssetsNamed(yRow) \cup yOrphan \/ Known(c)
    BY <2>1, <2>2, <2>4, NamedAssets DEF AssetsAre
  <2>5. ASSUME NEW c \in yIssue, asset = <<"issue", c>> PROVE asset \in AssetsNamed(yRow) \cup yOrphan \/ Known(c)
    BY <2>1, <2>2, <2>5, NamedAssets DEF AssetsAre
  <2>6. QED BY <2>3, <2>4, <2>5, AssetKinds
<1>2. QED BY <1>1, AppsInitially, AppsStep, PTL DEF AppsSpec

---------------------------------------------------------------------------
(* The rows of repository agents.  A list that is not older than the file's*)
(* last change tells whether the file is there, in the cache and in the    *)
(* request that took it from there; and a request that may write a row     *)
(* over a pending deletion had begun before that was recorded.             *)
RowRequests == {"none", "list", "create", "install", "delete", "update"}
RowsTypeOK == wAt \in [Callers -> [kind : RowRequests, step : {"idle", "commit", "write", "present", "absent"}]]
AsTheFileIs == IF wFile THEN "present" ELSE "absent"
ListsAreTrue ==
    /\ wCache \in {"none", "present", "absent"}
    /\ Cache \notin wOld /\ wCache # "none" => wCache = AsTheFileIs
    /\ \A u \in Callers : wAt[u].kind = "list" =>
           wAt[u].step \in {"present", "absent"} /\ (u \notin wOld => wAt[u].step = AsTheFileIs)
WritersOverlapped ==
    \A u \in Callers :
        wRow = "pending_deletion" /\ wAt[u].kind \in {"install", "update"} /\ wAt[u].step \in {"commit", "write"} => u \in wOverlap
RowsInv == RowsTypeOK /\ ListsAreTrue /\ WritersOverlapped

RequestStates == [kind : RowRequests, step : {"idle", "commit", "write", "present", "absent"}]

\* a step of one request that leaves the file alone
LEMMA RequestMoves ==
  ASSUME RowsInv, NEW u \in Callers, NEW state \in RequestStates, wAt' = [wAt EXCEPT ![u] = state],
         state.kind # "list", wFile' = wFile, wOld' = wOld, wCache' = wCache \/ wCache' = "none"
  PROVE  /\ RowsTypeOK' /\ ListsAreTrue'
         /\ wAt'[u] = state /\ \A v \in Callers : v # u => wAt'[v] = wAt[v]
<1>1. wAt \in [Callers -> RequestStates]
  BY DEF RowsInv, RowsTypeOK, RequestStates
<1>2. wAt'[u] = state /\ (\A v \in Callers : v # u => wAt'[v] = wAt[v]) /\ wAt' \in [Callers -> RequestStates]
  BY <1>1
<1>3. ListsAreTrue'
  BY <1>2 DEF RowsInv, ListsAreTrue, AsTheFileIs
<1>4. QED BY <1>2, <1>3 DEF RowsTypeOK, RequestStates

\* a step that moves no request and leaves file and lists alone
LEMMA RowMoves ==
  ASSUME RowsInv, wAt' = wAt, wFile' = wFile, wOld' = wOld, wCache' = wCache \/ wCache' = "none",
         wOverlap' = wOverlap, wRow' = "pending_deletion" => wRow = "pending_deletion"
  PROVE  RowsInv'
BY DEF RowsInv, RowsTypeOK, ListsAreTrue, AsTheFileIs, WritersOverlapped

\* a request begins, commits or ends: a row it may write over is not of a deletion, or it is noted
LEMMA RequestGoesOnWith ==
  ASSUME RowsInv, NEW u \in Callers, NEW state \in RequestStates, wAt' = [wAt EXCEPT ![u] = state],
         state.kind # "list", wFile' = wFile, wOld' = wOld, wCache' = wCache \/ wCache' = "none",
         wRow' = "pending_deletion" => wRow = "pending_deletion",
         wOverlap' = wOverlap \/ (wOverlap' = wOverlap \ {u} /\ state = Rest),
         \/ state = Rest
         \/ state.kind \notin {"install", "update"}
         \/ wRow' # "pending_deletion"
         \/ wAt[u].kind = state.kind /\ wAt[u].step \in {"commit", "write"}
  PROVE  RowsInv'
<1>1. /\ RowsTypeOK' /\ ListsAreTrue'
      /\ wAt'[u] = state /\ \A v \in Callers : v # u => wAt'[v] = wAt[v]
  BY RequestMoves
<1>2. WritersOverlapped'
  <2>1. ASSUME NEW v \in Callers, v # u, wRow' = "pending_deletion",
               wAt'[v].kind \in {"install", "update"}, wAt'[v].step \in {"commit", "write"}
        PROVE  v \in wOverlap'
    BY <1>1, <2>1 DEF RowsInv, WritersOverlapped
  <2>2. ASSUME wRow' = "pending_deletion", wAt'[u].kind \in {"install", "update"}, wAt'[u].step \in {"commit", "write"}
        PROVE  u \in wOverlap'
    <3>1. state # Rest
      BY <1>1, <2>2 DEF Rest
    <3>2. QED BY <1>1, <2>2, <3>1 DEF RowsInv, WritersOverlapped
  <2>3. QED BY <2>1, <2>2 DEF WritersOverlapped
<1>3. QED BY <1>1, <1>2 DEF RowsInv

LEMMA RestIsAState == Rest \in RequestStates /\ Rest.kind = "none" /\ Rest.step = "idle"
BY DEF Rest, RequestStates, RowRequests

LEMMA RowsStart == AgentRowsInit => RowsInv
<1> SUFFICES ASSUME AgentRowsInit PROVE RowsInv
  OBVIOUS
<1>1. wAt \in [Callers -> RequestStates] /\ \A u \in Callers : wAt[u].kind = "none"
  BY RestIsAState DEF AgentRowsInit
<1>2. QED BY <1>1 DEF AgentRowsInit, RowsInv, RowsTypeOK, ListsAreTrue, WritersOverlapped, RequestStates

LEMMA ListingKeeps ==
  ASSUME RowsInv, NEW u \in Callers, list_agents(u)
  PROVE  RowsInv'
<1> DEFINE state == [kind |-> "list", step |-> wCache']
<1>1. /\ wAt' = [wAt EXCEPT ![u] = state] /\ wFile' = wFile /\ wRow' = wRow /\ wOverlap' = wOverlap
      /\ IF wCache = "none" THEN wCache' = AsTheFileIs /\ wOld' = wOld \ {Cache, u}
         ELSE wCache' = wCache /\ wOld' = IF Cache \in wOld THEN wOld \cup {u} ELSE wOld \ {u}
  BY DEF list_agents, To, wRepo, AsTheFileIs
<1>2. wAt \in [Callers -> RequestStates] /\ ListsAreTrue
  BY DEF RowsInv, RowsTypeOK, RequestStates
<1>3. wCache' \in {"present", "absent"} /\ (Cache \notin wOld' => wCache' = AsTheFileIs) /\ (u \in wOld' <=> Cache \in wOld')
      /\ \A v \in Callers : v # u => (v \in wOld' <=> v \in wOld)
  BY <1>1, <1>2, AgentRowsAssumption DEF ListsAreTrue, AsTheFileIs
<1>4. state \in RequestStates /\ state.kind = "list" /\ state.step = wCache'
  BY <1>3 DEF RequestStates, RowRequests
<1> HIDE DEF state
<1>5. wAt' \in [Callers -> RequestStates] /\ wAt'[u] = state /\ \A v \in Callers : v # u => wAt'[v] = wAt[v]
  BY <1>1, <1>2, <1>4
<1>6. ListsAreTrue'
  BY <1>1, <1>2, <1>3, <1>4, <1>5 DEF ListsAreTrue, AsTheFileIs
<1>7. WritersOverlapped'
  BY <1>1, <1>4, <1>5 DEF RowsInv, WritersOverlapped
<1>8. QED BY <1>5, <1>6, <1>7 DEF RowsInv, RowsTypeOK, RequestStates

LEMMA MergingKeeps ==
  ASSUME RowsInv, \E kind \in Kinds : MergePull(kind) \/ ClosePull(kind)
  PROVE  RowsInv'
<1>1. CASE \E kind \in Kinds : ClosePull(kind)
  BY <1>1, RowMoves DEF ClosePull
<1>2. CASE \E kind \in Kinds : MergePull(kind)
  <2>1. /\ wAt' = wAt /\ wRow' = wRow /\ wCache' = wCache /\ wOverlap' = wOverlap
        /\ wOld' = IF wFile' = wFile THEN wOld ELSE {Cache} \cup {u \in Callers : wAt[u].kind = "list"}
    BY <1>2 DEF MergePull
  <2>2. ListsAreTrue'
    BY <2>1 DEF RowsInv, ListsAreTrue, AsTheFileIs
  <2>3. QED BY <2>1, <2>2 DEF RowsInv, RowsTypeOK, WritersOverlapped
<1>3. QED BY <1>1, <1>2

\* the steps that move no request
LEMMA RowStepsKeep ==
  ASSUME RowsInv, NEW u \in Callers,
         ListUnavailable(u) \/ purge_pending_agents(u) \/ import_agent(u) \/ _save_runtime_preferences(u) \/ CacheExpires
  PROVE  RowsInv'
<1>1. /\ wAt' = wAt /\ wFile' = wFile /\ wOld' = wOld /\ wOverlap' = wOverlap
      /\ wCache' = wCache \/ wCache' = "none"
      /\ wRow' = "pending_deletion" => wRow = "pending_deletion"
  BY DEF ListUnavailable, purge_pending_agents, import_agent, _save_runtime_preferences, CacheExpires, wRepo, HasRow
<1>2. QED BY <1>1, RowMoves

\* the steps with which a request begins, with the check that its row is not of a pending deletion
LEMMA RequestBeginsKeep ==
  ASSUME RowsInv, NEW u \in Callers,
         \/ \E looked \in BOOLEAN : create_agent(u, looked)
         \/ install_agent(u) \/ delete_agent(u) \/ update_agent(u)
  PROVE  RowsInv'
<1>1. PICK kind \in {"create", "install", "delete", "update"} :
          /\ To(u, kind, "commit") /\ UNCHANGED <<wRow, wRepo, wCache, wOld, wOverlap>>
          /\ kind \in {"install", "update"} => wRow # "pending_deletion"
  BY DEF create_agent, install_agent, delete_agent, update_agent, Begins, Editable
<1> DEFINE state == [kind |-> kind, step |-> "commit"]
<1>2. wAt' = [wAt EXCEPT ![u] = state] /\ state \in RequestStates /\ state.kind = kind
  BY <1>1 DEF To, RequestStates, RowRequests
<1> HIDE DEF state
<1>3. QED BY <1>1, <1>2, RequestGoesOnWith DEF wRepo

\* the steps that end a request, with or without its row
LEMMA RequestEndsKeep ==
  ASSUME RowsInv, NEW u \in Callers,
         \/ _cleanup_resolved_pending_agents(u) \/ CommitFails(u)
         \/ RecordCreated(u) \/ RecordInstalled(u) \/ RecordUpdated(u)
  PROVE  RowsInv'
<1>1. /\ wAt' = [wAt EXCEPT ![u] = Rest] /\ wOverlap' = wOverlap \ {u} /\ wFile' = wFile /\ wOld' = wOld
      /\ wCache' = wCache \/ wCache' = "none"
      /\ wRow' = "pending_deletion" => wRow = "pending_deletion"
  BY DEF _cleanup_resolved_pending_agents, CommitFails, RecordCreated, RecordInstalled, RecordUpdated, RowWritten,
         Ends, wRepo, HasRow
<1>2. QED BY <1>1, RestIsAState, RequestGoesOnWith

LEMMA RowCommitKeeps ==
  ASSUME RowsInv, NEW u \in Callers, commit_files_workflow(u)
  PROVE  RowsInv'
<1> DEFINE state == [kind |-> wAt[u].kind, step |-> "write"]
<1>1. wAt[u] \in RequestStates /\ wAt[u].step = "commit" /\ wAt[u].kind # "list"
  BY DEF RowsInv, RowsTypeOK, RequestStates, ListsAreTrue, AsTheFileIs, commit_files_workflow
<1>2. wAt' = [wAt EXCEPT ![u] = state] /\ state \in RequestStates /\ state.kind = wAt[u].kind
  BY <1>1 DEF commit_files_workflow, To, RequestStates
<1> HIDE DEF state
<1>3. QED BY <1>1, <1>2, RequestGoesOnWith DEF commit_files_workflow

LEMMA DeletionMarkKeeps ==
  ASSUME RowsInv, NEW u \in Callers, _mark_agent_pending_deletion(u)
  PROVE  RowsInv'
<1>1. /\ RowsTypeOK' /\ ListsAreTrue'
      /\ wAt'[u] = Rest /\ \A v \in Callers : v # u => wAt'[v] = wAt[v]
  BY RestIsAState, RequestMoves DEF _mark_agent_pending_deletion, wRepo
<1>2. WritersOverlapped'
  BY <1>1, RestIsAState DEF WritersOverlapped, _mark_agent_pending_deletion
<1>3. QED BY <1>1, <1>2 DEF RowsInv

LEMMA RowsKept == RowsInv /\ [AgentRowsNext]_wVars => RowsInv'
<1> SUFFICES ASSUME RowsInv, [AgentRowsNext]_wVars PROVE RowsInv'
  OBVIOUS
<1>1. CASE UNCHANGED wVars
  BY <1>1, RowMoves DEF wVars
<1>2. CASE CacheExpires
  BY <1>2, RowMoves DEF CacheExpires, wRepo
<1>3. CASE \E kind \in Kinds : MergePull(kind) \/ ClosePull(kind)
  BY <1>3, MergingKeeps
<1>4. ASSUME NEW u \in Callers,
             list_agents(u) \/ _mark_agent_pending_deletion(u) \/ commit_files_workflow(u)
      PROVE  RowsInv'
  BY <1>4, ListingKeeps, DeletionMarkKeeps, RowCommitKeeps
<1>5. ASSUME NEW u \in Callers,
             \/ ListUnavailable(u) \/ purge_pending_agents(u) \/ import_agent(u) \/ _save_runtime_preferences(u)
             \/ (\E looked \in BOOLEAN : create_agent(u, looked))
             \/ install_agent(u) \/ delete_agent(u) \/ update_agent(u)
             \/ _cleanup_resolved_pending_agents(u) \/ CommitFails(u)
             \/ RecordCreated(u) \/ RecordInstalled(u) \/ RecordUpdated(u)
      PROVE  RowsInv'
  BY <1>5, RowStepsKeep, RequestBeginsKeep, RequestEndsKeep
<1>6. QED BY <1>1, <1>2, <1>3, <1>4, <1>5 DEF AgentRowsNext

\* a drop while listing is of a list that says the file is gone
LEMMA DropsAreResolved ==
  ASSUME RowsInv, [AgentRowsNext]_wVars, NEW u \in Callers,
         wAt[u].kind = "list", wRow = "pending_deletion", wRow' = "none", Idle(u)'
  PROVE  ~wFile \/ u \in wOld
<1>0. wAt[u] # Rest
  BY RestIsAState
<1>1. wAt'[u] = Rest
  BY DEF Idle
<1>2. wRow' # wRow /\ wAt'[u] # wAt[u]
  BY <1>0, <1>1
<1>3. ASSUME NEW v \in Callers, v # u, wAt' = wAt \/ (\E state : wAt' = [wAt EXCEPT ![v] = state]) PROVE FALSE
  BY <1>2, <1>3 DEF RowsInv, RowsTypeOK
<1>4. PICK v \in Callers : _cleanup_resolved_pending_agents(v) \/ RecordInstalled(v) \/ RecordUpdated(v)
  BY <1>2 DEF AgentRowsNext, wVars, wRepo, list_agents, ListUnavailable, purge_pending_agents, create_agent, import_agent,
     install_agent, delete_agent, update_agent, Begins, _save_runtime_preferences, commit_files_workflow, CommitFails,
     RecordCreated, HasRow, _mark_agent_pending_deletion, MergePull, ClosePull, CacheExpires
<1>5. wAt' = [wAt EXCEPT ![v] = Rest]
  BY <1>4 DEF _cleanup_resolved_pending_agents, RecordInstalled, RecordUpdated, RowWritten, Ends
<1>6. v = u
  BY <1>3, <1>5
<1>7. _cleanup_resolved_pending_agents(u)
  BY <1>4, <1>6 DEF RecordInstalled, RecordUpdated
<1>8. wAt[u].step = "absent"
  BY <1>7 DEF _cleanup_resolved_pending_agents, Resolved
<1>9. QED BY <1>8 DEF RowsInv, ListsAreTrue, AsTheFileIs

\* a row written over a pending deletion is of a request that overlapped it
LEMMA OverwritesAreOverlaps ==
  ASSUME RowsInv, [AgentRowsNext]_wVars, wRow = "pending_deletion", wRow' \notin {"pending_deletion", "none"}
  PROVE  \E u \in wOverlap : wAt[u].step = "write" /\ Idle(u)'
<1>1. PICK u \in Callers : RecordInstalled(u) \/ RecordUpdated(u)
  BY DEF AgentRowsNext, wVars, wRepo, list_agents, ListUnavailable, _cleanup_resolved_pending_agents, purge_pending_agents,
     create_agent, import_agent, install_agent, delete_agent, update_agent, Begins, _save_runtime_preferences,
     commit_files_workflow, CommitFails, RecordCreated, HasRow, _mark_agent_pending_deletion, MergePull, ClosePull, CacheExpires
<1>2. wAt[u].kind \in {"install", "update"} /\ wAt[u].step = "write" /\ wAt' = [wAt EXCEPT ![u] = Rest]
  BY <1>1 DEF RecordInstalled, RecordUpdated, RowWritten, Ends
<1>3. u \in wOverlap
  BY <1>2 DEF RowsInv, WritersOverlapped
<1>4. wAt'[u] = Rest
  BY <1>2 DEF RowsInv, RowsTypeOK
<1>5. QED BY <1>2, <1>3, <1>4 DEF Idle

(* Whatever the requests and the merges do, listing drops a pending        *)
(* deletion by a true list only, and no edit undoes one it did not overlap *)
(* (agents/service.py, _cleanup_resolved_pending_agents, update_agent).    *)
THEOREM DeletionsAreKept == AgentRowsSpec => DeletionsHold
<1>1. RowsInv /\ [AgentRowsNext]_wVars =>
          [\A u \in Callers :
              wAt[u].kind = "list" /\ wRow = "pending_deletion" /\ wRow' = "none" /\ Idle(u)' => ~wFile \/ u \in wOld]_wVars
  BY DropsAreResolved
<1>2. RowsInv /\ [AgentRowsNext]_wVars =>
          [wRow = "pending_deletion" /\ wRow' \notin {"pending_deletion", "none"} =>
              \E u \in wOverlap : wAt[u].step = "write" /\ Idle(u)']_wVars
  BY OverwritesAreOverlaps
<1>3. QED BY <1>1, <1>2, RowsStart, RowsKept, PTL DEF AgentRowsSpec, DeletionsHold, DropsResolvedOnly, DeletionNotUndone
=============================================================================
