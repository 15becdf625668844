---------------------------- MODULE Engine_proofs ----------------------------
(***************************************************************************)
(* Proofs about the parts of the polling engine beside the pipeline: the   *)
(* guard against assigning an agent twice, the table of agents, the        *)
(* recovery of a stalled issue, the queue of a project and the way of an   *)
(* issue across the board; for any number of callers, agents and issues.   *)
(***************************************************************************)
EXTENDS ProjectQueue, StatusFlow, StallRecovery, TriggerGuard, TrackingTable,
        FiniteSetTheorems, WellFoundedInduction, SequenceTheorems, TLAPS

---------------------------------------------------------------------------
(* The trigger guard.  Nobody inside has outlived its claim: then the      *)
(* marker is as old as its claim, and there is no other.  The last write   *)
(* that waits, or the row, tells whether there is a marker.                *)
GuardWrites == {[op |-> "set", age |-> n] : n \in 0..StaleAfter} \cup {[op |-> "delete", age |-> n] : n \in 0..StaleAfter}
GuardTypes ==
    /\ gMark \in 0..NoMark /\ gRow \in 0..NoMark /\ gWrites \in Seq(GuardWrites)
    /\ gAt \in [Callers -> {"out", "resolving", "assigning"}] /\ gSince \in [Callers -> 0..StaleAfter]
    /\ gLate \in BOOLEAN
ClaimIsYoung ==
    ~gLate => /\ \A c \in Inside : gMark = gSince[c] /\ gSince[c] < StaleAfter
              /\ \A c, d \in Inside : c = d
LastWriteTells ==
    IF gWrites = <<>> THEN gRow = NoMark <=> gMark = NoMark
    ELSE gWrites[Len(gWrites)].op = "delete" <=> gMark = NoMark
GuardInv == GuardTypes /\ ClaimIsYoung /\ LastWriteTells

LEMMA GuardStarts == GuardInit => GuardInv
<1> SUFFICES ASSUME GuardInit PROVE GuardInv
  OBVIOUS
<1>1. StaleAfter \in Nat /\ StaleAfter > 0 /\ NoMark = StaleAfter + 1
  BY GuardAssumption DEF NoMark
<1>2. GuardTypes
  <2>1. gMark \in 0..NoMark /\ gRow \in 0..NoMark /\ gLate \in BOOLEAN
    <3>1. NoMark \in 0..NoMark
      BY <1>1
    <3>2. gMark = NoMark /\ gRow = NoMark /\ gLate = FALSE
      BY DEF GuardInit
    <3>3. QED BY <3>1, <3>2
  <2>2. gWrites \in Seq(GuardWrites)
    BY DEF GuardInit
  <2>3. /\ gAt \in [Callers -> {"out", "resolving", "assigning"}]
        /\ gSince \in [Callers -> 0..StaleAfter]
    BY <1>1 DEF GuardInit
  <2>4. QED BY <2>1, <2>2, <2>3 DEF GuardTypes
<1>3. Inside = {}
  BY DEF GuardInit, Inside
<1>4. QED BY <1>2, <1>3 DEF GuardInit, GuardInv, ClaimIsYoung, LastWriteTells

(* A write is put at the end of those that wait.                           *)
LEMMA LastOfAppended ==
  ASSUME NEW s \in Seq(GuardWrites), NEW w \in GuardWrites
  PROVE  Append(s, w) \in Seq(GuardWrites) /\ Append(s, w) # <<>> /\ Append(s, w)[Len(Append(s, w))] = w
<1>1. Append(s, w) \in Seq(GuardWrites) /\ Len(Append(s, w)) = Len(s) + 1 /\ Append(s, w)[Len(s) + 1] = w
  BY AppendProperties
<1>2. Len(s) \in Nat
  BY LenProperties
<1>3. Append(s, w) # <<>>
  BY <1>1, <1>2, EmptySeq
<1>4. QED BY <1>1, <1>3

LEMMA OneWriteLeft ==
  ASSUME NEW s \in Seq(GuardWrites), s # <<>>
  PROVE  /\ Tail(s) \in Seq(GuardWrites) /\ Head(s) \in GuardWrites
         /\ Tail(s) = <<>> => Head(s) = s[Len(s)]
         /\ Tail(s) # <<>> => Tail(s)[Len(Tail(s))] = s[Len(s)]
<1>1. /\ Head(s) \in GuardWrites /\ Tail(s) \in Seq(GuardWrites) /\ Head(s) = s[1]
      /\ Len(Tail(s)) = Len(s) - 1 /\ \A i \in 1..Len(s) - 1 : Tail(s)[i] = s[i + 1]
  BY HeadTailProperties
<1>2. Len(s) \in Nat /\ Len(s) # 0
  BY EmptySeq, LenProperties
<1>3. Tail(s) = <<>> => Len(s) = 1
  <2>1. Tail(s) = <<>> => Len(Tail(s)) = 0
    BY <1>1, EmptySeq
  <2>2. QED BY <2>1, <1>1, <1>2
<1>4. Tail(s) # <<>> => Len(Tail(s)) \in 1..Len(s) - 1
  BY <1>1, <1>2, EmptySeq
<1>5. QED BY <1>1, <1>2, <1>3, <1>4

(* Time makes no marker and takes none away.                               *)
LEMMA AgedKeeps ==
  /\ \A n \in 0..StaleAfter : Aged(n) \in 0..StaleAfter
  /\ \A n \in 0..NoMark : Aged(n) \in 0..NoMark /\ (Aged(n) = NoMark <=> n = NoMark)
BY GuardAssumption DEF Aged, NoMark

LEMMA GuardKept == GuardInv /\ [GuardNext]_gVars => GuardInv'
<1> SUFFICES ASSUME GuardInv, [GuardNext]_gVars PROVE GuardInv'
  OBVIOUS
<1>1. /\ GuardTypes /\ ClaimIsYoung /\ LastWriteTells
      /\ StaleAfter \in Nat /\ StaleAfter > 0 /\ NoMark = StaleAfter + 1
  BY GuardAssumption DEF GuardInv, NoMark
<1>2. ASSUME NEW c \in Callers, should_skip_agent_trigger(c) PROVE GuardInv'
  <2> DEFINE w == [op |-> "set", age |-> 0]
  <2>1. w \in GuardWrites /\ w.op = "set"
    BY <1>1 DEF GuardWrites
  <2>2. /\ gWrites' = Append(gWrites, w) /\ gMark' = 0 /\ gAt' = [gAt EXCEPT ![c] = "resolving"]
        /\ gSince' = [gSince EXCEPT ![c] = 0] /\ UNCHANGED <<gRow, gLate>>
        /\ gMark >= StaleAfter /\ gAt[c] = "out"
    BY <1>1, <1>2 DEF should_skip_agent_trigger, Schedule, MarkFresh, GuardTypes
  <2> HIDE DEF w
  <2>3. /\ gWrites' \in Seq(GuardWrites) /\ gWrites' # <<>> /\ gWrites'[Len(gWrites')] = w
    BY <2>1, <2>2, <1>1, LastOfAppended DEF GuardTypes
  <2>4. GuardTypes'
    BY <2>2, <2>3, <1>1 DEF GuardTypes
  <2>5. LastWriteTells'
    BY <2>1, <2>2, <2>3, <1>1 DEF LastWriteTells
  <2>6. ~gLate => Inside = {}
    BY <2>2, <1>1 DEF ClaimIsYoung, GuardTypes, Inside
  <2>7. Inside' = Inside \cup {c} /\ gSince'[c] = 0
    BY <2>2, <1>1 DEF Inside, GuardTypes
  <2>8. ClaimIsYoung'
    BY <2>2, <2>6, <2>7, <1>1 DEF ClaimIsYoung
  <2>9. QED BY <2>4, <2>5, <2>8 DEF GuardInv
<1>3. ASSUME NEW c \in Callers, NEW b \in BOOLEAN, ResolveModel(c, b) PROVE GuardInv'
  <2>1. /\ UNCHANGED <<gMark, gRow, gWrites, gSince, gLate>> /\ gAt[c] = "resolving"
        /\ gAt' = [gAt EXCEPT ![c] = IF b THEN "out" ELSE "assigning"]
    BY <1>3 DEF ResolveModel
  <2>2. Inside' \subseteq Inside
    BY <2>1, <1>1 DEF Inside, GuardTypes
  <2>3. GuardTypes'
    BY <2>1, <1>1 DEF GuardTypes
  <2>4. ClaimIsYoung'
    BY <2>1, <2>2, <1>1 DEF ClaimIsYoung
  <2>5. LastWriteTells'
    BY <2>1, <1>1 DEF LastWriteTells
  <2>6. QED BY <2>3, <2>4, <2>5 DEF GuardInv
<1>4. ASSUME NEW c \in Callers, NEW b \in BOOLEAN, FinishAssign(c, b) PROVE GuardInv'
  <2> DEFINE w == [op |-> "delete", age |-> 0]
  <2>1. w \in GuardWrites /\ w.op = "delete"
    BY <1>1 DEF GuardWrites
  <2>2. /\ gWrites' = Append(gWrites, w) /\ gMark' = NoMark /\ gAt' = [gAt EXCEPT ![c] = "out"]
        /\ UNCHANGED <<gRow, gSince, gLate>> /\ gAt[c] = "assigning"
    BY <1>4 DEF FinishAssign, release_agent_trigger, Schedule
  <2> HIDE DEF w
  <2>3. /\ gWrites' \in Seq(GuardWrites) /\ gWrites' # <<>> /\ gWrites'[Len(gWrites')] = w
    BY <2>1, <2>2, <1>1, LastOfAppended DEF GuardTypes
  <2>4. GuardTypes'
    BY <2>2, <2>3, <1>1 DEF GuardTypes
  <2>5. LastWriteTells'
    BY <2>1, <2>2, <2>3 DEF LastWriteTells
  <2>6. c \in Inside /\ Inside' = Inside \ {c}
    BY <2>2, <1>1 DEF Inside, GuardTypes
  <2>7. ClaimIsYoung'
    BY <2>2, <2>6, <1>1 DEF ClaimIsYoung
  <2>8. QED BY <2>4, <2>5, <2>7 DEF GuardInv
<1>5. ASSUME Persist PROVE GuardInv'
  <2>1. /\ gWrites # <<>> /\ gWrites' = Tail(gWrites) /\ UNCHANGED <<gMark, gAt, gSince, gLate>>
        /\ gRow' = IF Head(gWrites).op = "set" THEN Head(gWrites).age ELSE NoMark
    BY <1>5 DEF Persist
  <2>2. /\ Tail(gWrites) \in Seq(GuardWrites) /\ Head(gWrites) \in GuardWrites
        /\ Tail(gWrites) = <<>> => Head(gWrites) = gWrites[Len(gWrites)]
        /\ Tail(gWrites) # <<>> => Tail(gWrites)[Len(Tail(gWrites))] = gWrites[Len(gWrites)]
    BY <2>1, <1>1, OneWriteLeft DEF GuardTypes
  <2>3. gRow' \in 0..NoMark /\ (gRow' = NoMark <=> Head(gWrites).op = "delete")
    BY <2>1, <2>2, <1>1 DEF GuardWrites
  <2>4. GuardTypes'
    BY <2>1, <2>2, <2>3, <1>1 DEF GuardTypes
  <2>5. Inside' = Inside
    BY <2>1 DEF Inside
  <2>6. ClaimIsYoung'
    BY <2>1, <2>5, <1>1 DEF ClaimIsYoung
  <2>7. LastWriteTells'
    BY <2>1, <2>2, <2>3, <1>1 DEF LastWriteTells
  <2>8. QED BY <2>4, <2>6, <2>7 DEF GuardInv
<1>6. ASSUME GuardTick PROVE GuardInv'
  <2>1. /\ gMark' = Aged(gMark) /\ gRow' = Aged(gRow) /\ UNCHANGED gAt
        /\ gWrites' = [k \in 1..Len(gWrites) |-> [gWrites[k] EXCEPT !.age = Aged(@)]]
        /\ gSince' = [c \in Callers |-> IF c \in Inside THEN Aged(gSince[c]) ELSE 0]
        /\ gLate' = (gLate \/ \E c \in Inside : gSince'[c] >= StaleAfter)
    BY <1>6 DEF GuardTick
  <2>2. Inside' = Inside /\ Inside \subseteq Callers
    BY <2>1 DEF Inside
  <2>3. Len(gWrites) \in Nat /\ \A k \in 1..Len(gWrites) : gWrites[k] \in GuardWrites
    BY <1>1, ElementOfSeq, LenProperties DEF GuardTypes
  <2>4. \A k \in 1..Len(gWrites) : [gWrites[k] EXCEPT !.age = Aged(@)] \in GuardWrites
                                    /\ [gWrites[k] EXCEPT !.age = Aged(@)].op = gWrites[k].op
    BY <2>3, AgedKeeps DEF GuardWrites
  <2>5. gWrites' \in Seq(GuardWrites) /\ Len(gWrites') = Len(gWrites)
    BY <2>1, <2>3, <2>4, IsASeq, LenProperties
  <2>6. gSince' \in [Callers -> 0..StaleAfter]
    BY <2>1, <2>2, <1>1, AgedKeeps DEF GuardTypes
  <2>7. GuardTypes'
    BY <2>1, <2>5, <2>6, <1>1, AgedKeeps DEF GuardTypes
  <2>8. ClaimIsYoung'
    <3> SUFFICES ASSUME ~gLate'
                 PROVE  /\ \A c \in Inside : gMark' = gSince'[c] /\ gSince'[c] < StaleAfter
                        /\ \A c, d \in Inside : c = d
      BY <2>2 DEF ClaimIsYoung
    <3>1. ~gLate /\ \A c \in Inside : ~(gSince'[c] >= StaleAfter)
      BY <2>1
    <3>2. \A c \in Inside : gSince'[c] = Aged(gSince[c]) /\ gSince'[c] \in 0..StaleAfter
      BY <2>1, <2>2, <2>6
    <3>3. /\ \A c \in Inside : gMark = gSince[c]
          /\ \A c, d \in Inside : c = d
      BY <3>1, <1>1 DEF ClaimIsYoung
    <3>4. \A c \in Inside : gMark' = gSince'[c]
      BY <3>2, <3>3, <2>1
    <3>5. \A c \in Inside : gSince'[c] < StaleAfter
      BY <3>1, <3>2, <1>1
    <3>6. QED BY <3>3, <3>4, <3>5
  <2>9. LastWriteTells'
    <3>1. gMark' = NoMark <=> gMark = NoMark
      BY <2>1, <1>1, AgedKeeps DEF GuardTypes
    <3>2. gRow' = NoMark <=> gRow = NoMark
      BY <2>1, <1>1, AgedKeeps DEF GuardTypes
    <3>3. gWrites' = <<>> <=> gWrites = <<>>
      BY <2>5, <1>1, EmptySeq DEF GuardTypes
    <3>4. gWrites # <<>> => gWrites'[Len(gWrites')].op = gWrites[Len(gWrites)].op
      <4> SUFFICES ASSUME gWrites # <<>> PROVE gWrites'[Len(gWrites)].op = gWrites[Len(gWrites)].op
        BY <2>5
      <4>1. Len(gWrites) \in 1..Len(gWrites)
        BY <2>3, <1>1, EmptySeq DEF GuardTypes
      <4>2. QED BY <4>1, <2>1, <2>4
    <3>5. QED BY <3>1, <3>2, <3>3, <3>4, <1>1 DEF LastWriteTells
  <2>10. QED BY <2>7, <2>8, <2>9 DEF GuardInv
<1>7. ASSUME GuardRestart PROVE GuardInv'
  <2>1. /\ gAt' = [c \in Callers |-> "out"] /\ gSince' = [c \in Callers |-> 0]
        /\ gMark' = gRow /\ gWrites' = <<>> /\ UNCHANGED <<gRow, gLate>>
    BY <1>7 DEF GuardRestart
  <2>2. Inside' = {}
    BY <2>1 DEF Inside
  <2>3. GuardTypes'
    BY <2>1, <1>1 DEF GuardTypes
  <2>4. QED BY <2>1, <2>2, <2>3 DEF GuardInv, ClaimIsYoung, LastWriteTells
<1>8. ASSUME WantedAgain \/ UNCHANGED gVars PROVE GuardInv'
  <2>1. UNCHANGED <<gMark, gRow, gWrites, gAt, gSince, gLate>>
    BY <1>8 DEF WantedAgain, gVars
  <2>2. Inside' = Inside
    BY <2>1 DEF Inside
  <2>3. QED BY <2>1, <2>2, <1>1 DEF GuardInv, GuardTypes, ClaimIsYoung, LastWriteTells
<1>9. QED BY <1>2, <1>3, <1>4, <1>5, <1>6, <1>7, <1>8 DEF GuardNext

(* At most one caller at a time assigns the agent, unless one has held its *)
(* claim for longer than the marker counts; and the row that a restart     *)
(* reads is there exactly when the marker is (should_skip_agent_trigger,   *)
(* release_agent_trigger).                                                 *)
THEOREM GuardCorrect == GuardSpec => []GuardExcludes
<1>1. GuardInit => GuardInv
  BY GuardStarts
<1>2. GuardInv /\ [GuardNext]_gVars => GuardInv'
  BY GuardKept
<1>3. ASSUME GuardInv PROVE GuardExcludes
  <2>1. ASSUME ~gLate PROVE Cardinality(Inside) <= 1
    <3>1. CASE Inside = {}
      BY <3>1, FS_EmptySet
    <3>2. CASE Inside # {}
      <4>1. PICK c \in Inside : Inside = {c}
        BY <1>3, <2>1, <3>2 DEF GuardInv, ClaimIsYoung
      <4>2. QED BY <4>1, FS_Singleton
    <3>3. QED BY <3>1, <3>2
  <2>2. QED BY <1>3, <2>1 DEF GuardInv, LastWriteTells, GuardExcludes, OneAssignment, RowFollowsMark
<1>4. QED BY <1>1, <1>2, <1>3, PTL DEF GuardSpec

---------------------------------------------------------------------------
(* The table of agents.  No body that is stored, held or about to be       *)
(* written shows work that is not done, and the index has passed only      *)
(* agents that are.                                                        *)
RowStates == {"pending", "active", "done"}
Evidence == {"parent", "sub", "closed", "assignee", "stranger"}
TableWork ==
    {NoWork, [op |-> "reconcile", agent |-> 0], [op |-> "batch", agent |-> 0], [op |-> "heal", agent |-> 0]}
      \cup {[op |-> o, agent |-> a] : o \in {"done", "active"}, a \in TableRows}
TrueBody(t) ==
    t = NoTable \/ (t \in [TableRows -> RowStates] /\ \A a \in TableRows : t[a] = "done" => RowDone(a))
TrueWork(w) ==
    /\ tWhat[w].op = "done" => tWhat[w].agent \in TableRows /\ RowDone(tWhat[w].agent)
    /\ tWhat[w].op = "batch" => \A a \in TableRows : RowDone(a)
    /\ tWhat[w].op = "reconcile" => tHolds[w] # NoTable
PassedAreDone == tIndex \in Nat /\ \A a \in TableRows : a < tIndex => RowDone(a)
TableTypes ==
    /\ tEvidence \in [TableRows -> SUBSET Evidence] /\ tStarted \subseteq TableRows
    /\ DOMAIN tHolds = TableWriters /\ tHolds = [w \in TableWriters |-> tHolds[w]]
    /\ tWhat \in [TableWriters -> TableWork]
TrueBodies == TrueBody(tTable) /\ \A w \in TableWriters : TrueBody(tHolds[w])
TableInv == TableTypes /\ TrueBodies /\ PassedAreDone /\ \A w \in TableWriters : TrueWork(w)

LEMMA TableStarts == TableInit => TableInv
<1> SUFFICES ASSUME TableInit PROVE TableInv
  OBVIOUS
<1>1. TableTypes
  BY DEF TableInit, TableTypes, TableWork
<1>2. TrueBodies
  BY DEF TableInit, TrueBodies, TrueBody
<1>3. PassedAreDone
  BY DEF TableInit, PassedAreDone, TableRows
<1>4. \A w \in TableWriters : TrueWork(w)
  BY DEF TableInit, TrueWork, NoWork
<1>5. QED BY <1>1, <1>2, <1>3, <1>4 DEF TableInv

(* What is done stays done, so what was true of a body or of an update     *)
(* stays true while it is on its way.                                      *)
DoneStays == \A a \in TableRows : RowDone(a) => RowDone(a)'
LEMMA EvidenceStays ==
  ASSUME UNCHANGED tEvidence
  PROVE  DoneStays
BY DEF DoneStays, RowDone, _check_agent_done_on_sub_or_parent, _check_human_agent_done

LEMMA TruthStays ==
  ASSUME TableInv, DoneStays
  PROVE  /\ \A t : TrueBody(t) => t = NoTable \/ (t \in [TableRows -> RowStates] /\ \A a \in TableRows : t[a] = "done" => RowDone(a)')
         /\ \A w \in TableWriters : tWhat'[w] = tWhat[w] /\ tHolds'[w] = tHolds[w] => TrueWork(w)'
         /\ \A w \in TableWriters : tWhat'[w] = NoWork => TrueWork(w)'
         /\ tIndex' = tIndex => PassedAreDone'
<1>1. \A a \in TableRows : RowDone(a) => RowDone(a)'
  BY DEF DoneStays
<1>2. \A t : TrueBody(t) => t = NoTable \/ (t \in [TableRows -> RowStates] /\ \A a \in TableRows : t[a] = "done" => RowDone(a)')
  BY <1>1 DEF TrueBody
<1>3. ASSUME NEW w \in TableWriters, tWhat'[w] = tWhat[w], tHolds'[w] = tHolds[w] PROVE TrueWork(w)'
  BY <1>1, <1>3 DEF TableInv, TrueWork
<1>4. ASSUME NEW w \in TableWriters, tWhat'[w] = NoWork PROVE TrueWork(w)'
  BY <1>4 DEF TrueWork, NoWork
<1>5. ASSUME tIndex' = tIndex PROVE PassedAreDone'
  BY <1>1, <1>5 DEF TableInv, PassedAreDone
<1>6. QED BY <1>2, <1>3, <1>4, <1>5

(* A writer fetches the body for an update that is true already.           *)
LEMMA FetchKept ==
  ASSUME TableInv, NEW w \in TableWriters, NEW what \in TableWork, FetchesBody(w, what), UNCHANGED <<tTable, tEvidence>>,
         what.op = "done" => what.agent \in TableRows /\ RowDone(what.agent),
         what.op = "batch" => \A a \in TableRows : RowDone(a),
         what.op = "reconcile" => tTable # NoTable,
         tStarted' \subseteq TableRows, PassedAreDone'
  PROVE  TableInv'
<1>1. tHolds' = [tHolds EXCEPT ![w] = tTable] /\ tWhat' = [tWhat EXCEPT ![w] = what]
  BY DEF FetchesBody
<1>2. DoneStays /\ \A a \in TableRows : RowDone(a)' <=> RowDone(a)
  BY EvidenceStays DEF RowDone, _check_agent_done_on_sub_or_parent, _check_human_agent_done
<1>3. /\ tHolds'[w] = tTable /\ tWhat'[w] = what
      /\ \A v \in TableWriters : v # w => tHolds'[v] = tHolds[v] /\ tWhat'[v] = tWhat[v]
  BY <1>1 DEF TableInv, TableTypes
<1>4. TableTypes'
  BY <1>1 DEF TableInv, TableTypes
<1>5. TrueBodies'
  <2>1. TrueBody(tTable) /\ \A v \in TableWriters : TrueBody(tHolds'[v])
    BY <1>3 DEF TableInv, TrueBodies
  <2>2. QED BY <2>1, <1>2, TruthStays DEF TrueBodies, TrueBody
<1>6. TrueWork(w)'
  BY <1>2, <1>3 DEF TrueWork
<1>7. \A v \in TableWriters : TrueWork(v)'
  BY <1>2, <1>3, <1>6, TruthStays
<1>8. QED BY <1>4, <1>5, <1>7 DEF TableInv

(* What is written back is true of the work as it is now.                  *)
LEMMA NewBodyIsTrue ==
  ASSUME TableInv, NEW w \in TableWriters, tWhat[w] # NoWork
  PROVE  TrueBody(NewBody(w))
<1>1. TrueBody(tHolds[w]) /\ TrueWork(w) /\ tWhat[w] \in TableWork
  BY DEF TableInv, TrueBodies, TableTypes
<1>2. CASE tWhat[w].op \in {"done", "active"}
  <2>1. tWhat[w].agent \in TableRows
    BY <1>1, <1>2 DEF TableWork, NoWork
  <2>2. NewBody(w) = update_agent_state(tHolds[w], tWhat[w].agent, tWhat[w].op)
    BY <1>2 DEF NewBody
  <2>3. CASE tHolds[w] = NoTable
    BY <2>2, <2>3 DEF update_agent_state, TrueBody
  <2>4. CASE tHolds[w] # NoTable
    BY <2>1, <2>2, <2>4, <1>1, <1>2 DEF update_agent_state, TrueBody, TrueWork, RowStates
  <2>5. QED BY <2>3, <2>4
<1>3. CASE tWhat[w].op = "reconcile"
  <2>1. NewBody(w) = Corrected(tHolds[w]) /\ tHolds[w] # NoTable
    BY <1>1, <1>3 DEF NewBody, TrueWork
  <2>2. QED BY <2>1, <1>1 DEF Corrected, TrueBody, RowStates
<1>4. CASE tWhat[w].op = "batch"
  <2>1. NewBody(w) = [b \in TableRows |-> "done"]
    BY <1>4 DEF NewBody
  <2>2. QED BY <2>1, <1>1, <1>4 DEF TrueWork, TrueBody, RowStates
<1>5. CASE tWhat[w].op = "heal"
  <2>1. NewBody(w) = [a \in TableRows |-> "pending"]
    BY <1>5 DEF NewBody, _self_heal_tracking_table
  <2>2. QED BY <2>1 DEF TrueBody, RowStates
<1>6. tWhat[w].op \in {"done", "active", "reconcile", "batch", "heal"}
  BY <1>1 DEF TableWork
<1>7. QED BY <1>2, <1>3, <1>4, <1>5, <1>6

(* After a restart the index is counted again from what is done.           *)
LEMMA LeastNumberIs ==
  ASSUME NEW S, S \subseteq Nat, S # {}
  PROVE  \E n \in S : \A m \in S : n <= m
<1>1. \E n \in S : \A m \in S : ~(<<m, n>> \in OpToRel(<, Nat))
  BY NatLessThanWellFounded, WFMin
<1>2. PICK n \in S : \A m \in S : ~(<<m, n>> \in OpToRel(<, Nat))
  BY <1>1
<1>3. \A m \in S : ~(m < n)
  BY <1>2 DEF OpToRel
<1>4. QED BY <1>3

LEMMA BelowIsBefore == ASSUME NEW a \in Nat, NEW n \in Int, 1 <= a, a < n PROVE a \in 1..n - 1
  OBVIOUS

LEMMA RecountedIndex ==
  LET k == CHOOSE n \in 1..TableSize + 1 : (\A a \in 1..n - 1 : RowDone(a)) /\ (n = TableSize + 1 \/ ~RowDone(n))
  IN  k \in 1..TableSize + 1 /\ \A a \in 1..k - 1 : RowDone(a)
<1> DEFINE P(n) == (\A a \in 1..n - 1 : RowDone(a)) /\ (n = TableSize + 1 \/ ~RowDone(n))
           open == {n \in 1..TableSize : ~RowDone(n)}
<1>1. TableSize \in Nat
  BY TableAssumption
<1>2. \E n \in 1..TableSize + 1 : P(n)
  <2>1. CASE open = {}
    <3>1. P(TableSize + 1) /\ TableSize + 1 \in 1..TableSize + 1
      BY <2>1, <1>1
    <3>2. QED BY <3>1
  <2>2. CASE open # {}
    <3>1. open \subseteq Nat
      BY <1>1
    <3> HIDE DEF open
    <3>3. PICK n \in open : \A m \in open : n <= m
      BY <2>2, <3>1, LeastNumberIs
    <3> USE DEF open
    <3>2. n \in 1..TableSize + 1 /\ P(n)
      BY <3>3, <1>1
    <3>4. QED BY <3>2
  <2>3. QED BY <2>1, <2>2
<1>3. QED BY <1>2

LEMMA TableKept == TableInv /\ [TableNext]_tVars => TableInv'
<1> SUFFICES ASSUME TableInv, [TableNext]_tVars PROVE TableInv'
  OBVIOUS
<1>1. /\ TableTypes /\ TrueBodies /\ PassedAreDone /\ \A w \in TableWriters : TrueWork(w)
      /\ "loop" \in TableWriters /\ Retries \subseteq TableWriters /\ TableSize \in Nat /\ tIndex \in Nat
  BY TableAssumption DEF TableInv, TableWriters, PassedAreDone
<1>2. ASSUME UNCHANGED tEvidence PROVE DoneStays /\ \A a \in TableRows : RowDone(a)' <=> RowDone(a)
  BY <1>2, EvidenceStays DEF RowDone, _check_agent_done_on_sub_or_parent, _check_human_agent_done
<1>3. ASSUME append_tracking_to_issue PROVE TableInv'
  <2>1. /\ UNCHANGED <<tEvidence, tStarted, tHolds, tWhat>> /\ tTable' = [a \in TableRows |-> "pending"]
        /\ tIndex = 0 /\ tIndex' = 1
    BY <1>3 DEF append_tracking_to_issue
  <2>2. DoneStays
    BY <2>1, <1>2
  <2>3. TrueBodies'
    BY <2>1, <2>2, <1>1, TruthStays DEF TrueBodies, TrueBody, RowStates
  <2>4. PassedAreDone'
    BY <2>1 DEF PassedAreDone, TableRows
  <2>5. \A w \in TableWriters : TrueWork(w)'
    BY <2>1, <2>2, TruthStays
  <2>6. TableTypes'
    BY <2>1, <1>1 DEF TableTypes
  <2>7. QED BY <2>3, <2>4, <2>5, <2>6 DEF TableInv
<1>4. ASSUME NEW a \in TableRows, NEW e \in EvidenceOf(a), ShowsWork(a, e) PROVE TableInv'
  <2>1. UNCHANGED <<tTable, tIndex, tStarted, tHolds, tWhat>> /\ tEvidence' = [tEvidence EXCEPT ![a] = @ \cup {e}]
    BY <1>4 DEF ShowsWork
  <2>2. \A b \in TableRows : tEvidence[b] \subseteq tEvidence'[b]
    BY <2>1, <1>1 DEF TableTypes
  <2>3. DoneStays
    BY <2>2 DEF DoneStays, RowDone, _check_agent_done_on_sub_or_parent, _check_human_agent_done
  <2>4. e \in Evidence
    BY DEF EvidenceOf, Evidence
  <2>5. TableTypes'
    BY <2>1, <2>4, <1>1 DEF TableTypes
  <2>6. TrueBodies'
    BY <2>1, <2>3, <1>1, TruthStays DEF TrueBodies, TrueBody
  <2>7. PassedAreDone' /\ \A w \in TableWriters : TrueWork(w)'
    BY <2>1, <2>3, TruthStays
  <2>8. QED BY <2>5, <2>6, <2>7 DEF TableInv
<1>5. ASSUME AdvanceMarks PROVE TableInv'
  <2> DEFINE what == [op |-> "done", agent |-> tIndex]
  <2>1. /\ tIndex \in TableRows /\ RowDone(tIndex) /\ tIndex' = tIndex + 1 /\ FetchesBody("loop", what)
        /\ UNCHANGED <<tTable, tEvidence, tStarted>>
    BY <1>5 DEF AdvanceMarks
  <2>2. what \in TableWork /\ what.op = "done" /\ what.agent = tIndex
    BY <2>1 DEF TableWork
  <2>3. PassedAreDone'
    BY <2>1, <1>1, <1>2 DEF PassedAreDone, TableRows
  <2>4. tStarted' \subseteq TableRows
    BY <2>1, <1>1 DEF TableTypes
  <2> HIDE DEF what
  <2>5. QED BY <2>1, <2>2, <2>3, <2>4, <1>1, FetchKept
<1>6. ASSUME StartMarks PROVE TableInv'
  <2> DEFINE what == [op |-> "active", agent |-> tIndex]
  <2>1. /\ tIndex \in TableRows /\ tStarted' = tStarted \cup {tIndex} /\ FetchesBody("loop", what)
        /\ UNCHANGED <<tTable, tEvidence, tIndex>>
    BY <1>6 DEF StartMarks
  <2>2. what \in TableWork /\ what.op = "active"
    BY <2>1 DEF TableWork
  <2>3. PassedAreDone' /\ tStarted' \subseteq TableRows
    BY <2>1, <1>1, <1>2, TruthStays DEF TableTypes
  <2> HIDE DEF what
  <2>4. QED BY <2>1, <2>2, <2>3, <1>1, FetchKept
<1>7. ASSUME _validate_and_reconcile_tracking_table PROVE TableInv'
  <2> DEFINE what == [op |-> "reconcile", agent |-> 0]
  <2>1. tTable # NoTable /\ FetchesBody("loop", what) /\ UNCHANGED <<tTable, tEvidence, tIndex, tStarted>>
    BY <1>7 DEF _validate_and_reconcile_tracking_table
  <2>2. what \in TableWork /\ what.op = "reconcile"
    BY DEF TableWork
  <2>3. PassedAreDone' /\ tStarted' \subseteq TableRows
    BY <2>1, <1>1, <1>2, TruthStays DEF TableTypes
  <2> HIDE DEF what
  <2>4. QED BY <2>1, <2>2, <2>3, <1>1, FetchKept
<1>8. ASSUME BatchMarks PROVE TableInv'
  <2> DEFINE what == [op |-> "batch", agent |-> 0]
  <2>1. tIndex = TableSize + 1 /\ tIndex' = tIndex + 1 /\ UNCHANGED <<tTable, tEvidence, tStarted>>
    BY <1>8 DEF BatchMarks
  <2>2. \A a \in TableRows : RowDone(a)
    BY <2>1, <1>1 DEF PassedAreDone, TableRows
  <2>3. what \in TableWork /\ what.op = "batch"
    BY DEF TableWork
  <2>4. PassedAreDone' /\ tStarted' \subseteq TableRows
    BY <2>1, <2>2, <1>1, <1>2 DEF PassedAreDone, TableTypes
  <2>5. CASE FetchesBody("loop", what)
    <3> HIDE DEF what
    <3>1. QED BY <2>1, <2>2, <2>3, <2>4, <2>5, <1>1, FetchKept
  <2>6. CASE UNCHANGED <<tHolds, tWhat>>
    <3>1. TableTypes' /\ TrueBodies'
      BY <2>1, <2>6, <1>1, <1>2, TruthStays DEF TableTypes, TrueBodies, TrueBody
    <3>2. \A w \in TableWriters : TrueWork(w)'
      BY <2>1, <2>6, <1>2, TruthStays
    <3>3. QED BY <3>1, <3>2, <2>4 DEF TableInv
  <2>7. QED BY <1>8, <2>5, <2>6 DEF BatchMarks
<1>9. ASSUME NEW w \in Retries, RetryMarks(w) PROVE TableInv'
  <2> DEFINE what == [op |-> "active", agent |-> tIndex]
  <2>1. tIndex \in tStarted /\ FetchesBody(w, what) /\ UNCHANGED <<tTable, tEvidence, tIndex, tStarted>>
    BY <1>9 DEF RetryMarks
  <2>2. what \in TableWork /\ what.op = "active"
    BY <2>1, <1>1 DEF TableWork, TableTypes
  <2>3. PassedAreDone' /\ tStarted' \subseteq TableRows
    BY <2>1, <1>1, <1>2, TruthStays DEF TableTypes
  <2> HIDE DEF what
  <2>4. QED BY <2>1, <2>2, <2>3, <1>1, FetchKept
<1>10. ASSUME NEW w \in TableWriters, NEW ok \in BOOLEAN, _update_issue_tracking(w, ok) PROVE TableInv'
  <2>1. /\ tWhat[w] # NoWork /\ tTable' = (IF ok THEN NewBody(w) ELSE tTable)
        /\ tHolds' = [tHolds EXCEPT ![w] = NoTable] /\ tWhat' = [tWhat EXCEPT ![w] = NoWork]
        /\ UNCHANGED <<tEvidence, tIndex, tStarted>>
    BY <1>10 DEF _update_issue_tracking
  <2>2. DoneStays /\ TrueBody(NewBody(w))
    BY <2>1, <1>2, NewBodyIsTrue
  <2>3. /\ tHolds'[w] = NoTable /\ tWhat'[w] = NoWork
        /\ \A v \in TableWriters : v # w => tHolds'[v] = tHolds[v] /\ tWhat'[v] = tWhat[v]
    BY <2>1, <1>1 DEF TableTypes
  <2>4. TrueBody(tTable') /\ \A v \in TableWriters : TrueBody(tHolds'[v])
    BY <2>1, <2>2, <2>3, <1>1 DEF TrueBodies, TrueBody
  <2>5. TrueBodies'
    BY <2>2, <2>4, TruthStays DEF TrueBodies, TrueBody
  <2>6. PassedAreDone' /\ \A v \in TableWriters : TrueWork(v)'
    BY <2>1, <2>2, <2>3, TruthStays
  <2>7. TableTypes'
    <3>1. NoWork \in TableWork
      BY DEF TableWork
    <3>2. tWhat' \in [TableWriters -> TableWork]
      BY <3>1, <2>1, <1>1 DEF TableTypes
    <3>3. DOMAIN tHolds' = TableWriters /\ tHolds' = [v \in TableWriters |-> tHolds'[v]]
      BY <2>1, <1>1 DEF TableTypes
    <3>4. QED BY <3>2, <3>3, <2>1, <1>1 DEF TableTypes
  <2>8. QED BY <2>5, <2>6, <2>7 DEF TableInv
<1>11. ASSUME TableRemoved PROVE TableInv'
  <2>1. tTable' = NoTable /\ UNCHANGED <<tEvidence, tIndex, tStarted, tHolds, tWhat>>
    BY <1>11 DEF TableRemoved
  <2>2. DoneStays
    BY <2>1, <1>2
  <2>3. TrueBodies'
    BY <2>1, <2>2, <1>1, TruthStays DEF TrueBodies, TrueBody
  <2>4. PassedAreDone' /\ \A v \in TableWriters : TrueWork(v)'
    BY <2>1, <2>2, TruthStays
  <2>5. QED BY <2>1, <2>3, <2>4, <1>1 DEF TableInv, TableTypes
<1>12. ASSUME RestartTable PROVE TableInv'
  <2>1. /\ tHolds' = [w \in TableWriters |-> NoTable]
        /\ tWhat' = [w \in TableWriters |-> IF w = "loop" /\ tTable = NoTable THEN [op |-> "heal", agent |-> 0] ELSE NoWork]
        /\ UNCHANGED <<tTable, tEvidence, tStarted>>
    BY <1>12 DEF RestartTable
  <2>2. tIndex' \in 1..TableSize + 1 /\ \A a \in 1..tIndex' - 1 : RowDone(a)
    BY <1>12, RecountedIndex DEF RestartTable
  <2>3. PassedAreDone'
    <3>0. ASSUME NEW a \in TableRows, a < tIndex' PROVE a \in 1..tIndex' - 1
      <4>1. a \in Nat /\ 1 <= a /\ TableSize \in Nat
        BY TableAssumption DEF TableRows
      <4>2. tIndex' \in Int
        BY <2>2, <4>1
      <4>3. QED BY <4>1, <4>2, <3>0, BelowIsBefore
    <3>1. \A a \in TableRows : a < tIndex' => RowDone(a)
      BY <3>0, <2>2
    <3>2. \A a \in TableRows : a < tIndex' => RowDone(a)'
      BY <3>1, <2>1, <1>2
    <3>3. tIndex' \in Nat
      BY <2>2, <1>1
    <3>4. QED BY <3>2, <3>3 DEF PassedAreDone
  <2>4. TrueBodies'
    BY <2>1, <1>1, <1>2, TruthStays DEF TrueBodies, TrueBody
  <2>5. \A w \in TableWriters : TrueWork(w)'
    BY <2>1 DEF TrueWork, NoWork
  <2>6. TableTypes'
    BY <2>1, <1>1 DEF TableTypes, TableWork
  <2>7. QED BY <2>3, <2>4, <2>5, <2>6 DEF TableInv
<1>13. ASSUME UNCHANGED tVars PROVE TableInv'
  <2>1. UNCHANGED <<tTable, tEvidence, tIndex, tStarted, tHolds, tWhat>>
    BY <1>13 DEF tVars
  <2>2. DoneStays
    BY <2>1, <1>2
  <2>3. TrueBodies'
    BY <2>1, <2>2, <1>1, TruthStays DEF TrueBodies, TrueBody
  <2>4. PassedAreDone' /\ \A v \in TableWriters : TrueWork(v)'
    BY <2>1, <2>2, TruthStays
  <2>5. QED BY <2>1, <2>3, <2>4, <1>1 DEF TableInv, TableTypes
<1>14. QED BY <1>1, <1>3, <1>4, <1>5, <1>6, <1>7, <1>8, <1>9, <1>10, <1>11, <1>12, <1>13 DEF TableNext, TableStep, LoopWrites

(* No row of the table says done before the agent's work is, however the   *)
(* loop, retries, recovery, restarts and edits overwrite each other's      *)
(* bodies (agent_tracking.py, recovery.py).                                *)
THEOREM TableShowsTheTruth == TableSpec => []ShownIsDone
<1>1. TableInit => TableInv
  BY TableStarts
<1>2. TableInv /\ [TableNext]_tVars => TableInv'
  BY TableKept
<1>3. TableInv => ShownIsDone
  BY DEF TableInv, TrueBodies, TrueBody, ShownIsDone
<1>4. QED BY <1>1, <1>2, <1>3, PTL DEF TableSpec

---------------------------------------------------------------------------
(* The recovery.  The markers are a prefix of the agents, the table shows  *)
(* nothing that they do not bear out, and neither the cached index nor the *)
(* agent a pass has picked is beyond the first agent without a marker.  A  *)
(* pass picks its agent only with the cooldown over and attempts left, and *)
(* nothing changes either while it waits for GitHub.                       *)
RowKinds == {"queued", "active", "done"}
Reported(a) == 1..(a - 1) \subseteq rMarked
RowsTrue(t) ==
    /\ t \in [Steps -> RowKinds]
    /\ \A a \in Steps : (t[a] = "done" => a \in rMarked) /\ (t[a] = "active" => Reported(a))
RecoveryBounds ==
    /\ rMerged \subseteq Steps /\ rWork \in {"none", "working", "errored"}
    /\ rBlocked \in BOOLEAN /\ rEscalated \in BOOLEAN /\ rStage \in {"before", "open", "moved"}
    /\ rIndex \in 0..RecAgents /\ rScan \in 0..RecAgents /\ rPending \in 0..(Grace + 1)
    /\ rCount \in 0..MaxRetries /\ rAge \in 0..Cooldown /\ rGap \in 0..Cooldown
AttemptDue == rAge <= rGap /\ (rScan # 0 => rCount < MaxRetries /\ rAge = Cooldown)
ReportsInOrder ==
    /\ rMarked \subseteq Steps /\ \A a \in rMarked : Reported(a)
    /\ RowsTrue(rTable) /\ Reported(rIndex) /\ Reported(rScan)
RecoveryInv == RecoveryBounds /\ AttemptDue /\ ReportsInOrder /\ MovedWhenDone

LEMMA FirstOpenIs ==
  ASSUME NEW t
  PROVE  \/ FirstOpen(t) = 0 /\ \A a \in Steps : t[a] = "done"
         \/ /\ FirstOpen(t) \in Steps /\ t[FirstOpen(t)] # "done"
            /\ \A b \in 1..(FirstOpen(t) - 1) : t[b] = "done"
<1> DEFINE P(a) == t[a] # "done" /\ \A b \in 1..(a - 1) : t[b] = "done"
           open == {a \in Steps : t[a] # "done"}
<1>1. RecAgents \in Nat
  BY RecoveryAssumption
<1>2. CASE open = {}
  BY <1>2 DEF FirstOpen
<1>3. CASE open # {}
  <2>1. open \subseteq Nat
    BY <1>1 DEF Steps
  <2> HIDE DEF open
  <2>2. PICK n \in open : \A m \in open : n <= m
    BY <1>3, <2>1, LeastNumberIs
  <2> USE DEF open
  <2>3. n \in Steps /\ P(n)
    BY <2>2, <1>1 DEF Steps
  <2>4. FirstOpen(t) = CHOOSE a \in Steps : P(a)
    BY <1>3 DEF FirstOpen
  <2> HIDE DEF open
  <2>5. FirstOpen(t) \in Steps /\ P(FirstOpen(t))
    BY <2>3, <2>4
  <2>6. QED BY <2>5
<1>4. QED BY <1>2, <1>3

(* What markers say of the agents before stays said.                       *)
LEMMA ReportsStay ==
  ASSUME NEW a, Reported(a), rMarked \subseteq rMarked'
  PROVE  1..(a - 1) \subseteq rMarked'
  BY DEF Reported
LEMMA RowsStay ==
  ASSUME NEW t, RowsTrue(t), rMarked \subseteq rMarked'
  PROVE  /\ t \in [Steps -> RowKinds]
         /\ \A a \in Steps : (t[a] = "done" => a \in rMarked') /\ (t[a] = "active" => 1..(a - 1) \subseteq rMarked')
  BY DEF RowsTrue, Reported
LEMMA ReconciledIsTrue ==
  ASSUME ReportsInOrder
  PROVE  RowsTrue(Reconciled(rTable))
  BY DEF ReportsInOrder, RowsTrue, Reconciled, RowKinds
LEMMA AgentsAreSteps == ASSUME NEW n \in 0..RecAgents, n # 0 PROVE n \in Steps
  BY RecoveryAssumption DEF Steps
LEMMA FirstOpenReported ==
  ASSUME NEW t, RowsTrue(t)
  PROVE  /\ FirstOpen(t) \in 0..RecAgents /\ Reported(FirstOpen(t))
         /\ FirstOpen(t) = 0 => Steps \subseteq rMarked
<1>1. RecAgents \in Nat
  BY RecoveryAssumption
<1>2. CASE FirstOpen(t) = 0 /\ \A a \in Steps : t[a] = "done"
  BY <1>1, <1>2 DEF RowsTrue, Reported
<1>3. CASE /\ FirstOpen(t) \in Steps /\ t[FirstOpen(t)] # "done"
           /\ \A b \in 1..(FirstOpen(t) - 1) : t[b] = "done"
  <2>1. FirstOpen(t) \in Int /\ FirstOpen(t) >= 1 /\ FirstOpen(t) <= RecAgents
    BY <1>1, <1>3 DEF Steps
  <2>2. 1..(FirstOpen(t) - 1) \subseteq Steps
    BY <1>1, <2>1 DEF Steps
  <2>3. Reported(FirstOpen(t))
    BY <2>2, <1>3 DEF RowsTrue, Reported
  <2>4. QED BY <1>1, <2>1, <2>3
<1>4. QED BY <1>2, <1>3, FirstOpenIs

LEMMA RecoveryStarts == RecoveryInit => RecoveryInv
<1> SUFFICES ASSUME RecoveryInit PROVE RecoveryInv
  OBVIOUS
<1>1. /\ RecAgents \in Nat /\ RecAgents >= 1 /\ MaxRetries \in Nat /\ MaxRetries >= 1
      /\ Cooldown \in Nat /\ Cooldown >= 1 /\ Grace \in Nat /\ Grace >= 1
  BY RecoveryAssumption
<1>2. /\ rWork = "none" /\ rStage = "before" /\ rIndex = 0 /\ rScan = 0 /\ rPending = 0 /\ rCount = 0
      /\ rAge = Cooldown /\ rGap = Cooldown /\ rBlocked = FALSE /\ rEscalated = FALSE /\ rMerged = {}
  BY DEF RecoveryInit, NoScan
<1>3. RecoveryBounds /\ AttemptDue
  <2>1. rPending \in 0..(Grace + 1) /\ rIndex \in 0..RecAgents /\ rScan \in 0..RecAgents
    BY <1>1, <1>2
  <2>2. rCount \in 0..MaxRetries /\ rAge \in 0..Cooldown /\ rGap \in 0..Cooldown /\ rAge <= rGap
    BY <1>1, <1>2
  <2>3. QED BY <1>2, <2>1, <2>2 DEF RecoveryBounds, AttemptDue
<1>4. ReportsInOrder /\ MovedWhenDone
  BY DEF RecoveryInit, ReportsInOrder, RowsTrue, RowKinds, Reported, MovedWhenDone, NoScan
<1>5. QED BY <1>3, <1>4 DEF RecoveryInv

(* A step that adds no unreported row, index or choice keeps the order.    *)
LEMMA OrderKept ==
  ASSUME ReportsInOrder, rMarked \subseteq rMarked', rMarked' \subseteq Steps,
         \A a \in rMarked' \ rMarked : Reported(a),
         RowsTrue(rTable)', Reported(rIndex)', rScan' \in {0, rScan}
  PROVE  ReportsInOrder'
<1>1. \A a \in rMarked' : 1..(a - 1) \subseteq rMarked'
  BY ReportsStay DEF ReportsInOrder, Reported
<1>2. 1..(rScan' - 1) \subseteq rMarked'
  <2>1. CASE rScan' = 0
    BY <2>1
  <2>2. CASE rScan' = rScan
    BY <2>2, ReportsStay DEF ReportsInOrder
  <2>3. QED BY <2>1, <2>2
<1>3. QED BY <1>1, <1>2 DEF ReportsInOrder, Reported

(* Assigning an agent whose predecessors have reported.                    *)
LEMMA AssignKept ==
  ASSUME NEW t, RowsTrue(t), NEW a \in Steps, Reported(a), Assign(a, t), rMarked \subseteq rMarked'
  PROVE  RowsTrue(rTable)' /\ Reported(rIndex)'
<1>1. rTable' = [t EXCEPT ![a] = "active"] /\ rIndex' = a
  BY DEF Assign
<1>2. 1..(a - 1) \subseteq rMarked'
  BY ReportsStay
<1>3. rTable' \in [Steps -> RowKinds]
  BY <1>1 DEF RowsTrue, RowKinds
<1>4. \A b \in Steps : (rTable'[b] = "done" => b \in rMarked') /\ (rTable'[b] = "active" => 1..(b - 1) \subseteq rMarked')
  BY <1>1, <1>2, RowsStay DEF RowsTrue
<1>5. QED BY <1>1, <1>2, <1>3, <1>4 DEF RowsTrue, Reported

(* Past an agent that has reported: the next one, or the next status.      *)
LEMMA AdvanceKept ==
  ASSUME NEW t, RowsTrue(t), NEW a \in Steps, Reported(a), Advance(a, t),
         rMarked \subseteq rMarked', a \in rMarked', rMarked' \subseteq Steps, MovedWhenDone
  PROVE  /\ RowsTrue(rTable)' /\ Reported(rIndex)' /\ MovedWhenDone'
         /\ rIndex' \in 0..RecAgents /\ rPending' \in {0, rPending} /\ rWork' = "none" /\ rStage' \in {rStage, "moved"}
<1>1. RecAgents \in Nat /\ a \in Int /\ 1 <= a /\ a <= RecAgents
  BY RecoveryAssumption DEF Steps
<1> DEFINE u == [t EXCEPT ![a] = "done"]
<1>2. /\ u \in [Steps -> RowKinds]
      /\ \A b \in Steps : (u[b] = "done" => b \in rMarked') /\ (u[b] = "active" => 1..(b - 1) \subseteq rMarked')
  BY RowsStay DEF RowsTrue, RowKinds
<1>3. 1..(a - 1) \subseteq rMarked'
  BY ReportsStay
<1> HIDE DEF u
<1>4. CASE a < RecAgents
  <2>1. Assign(a + 1, u) /\ rStage' = rStage
    BY <1>4 DEF Advance, u
  <2>2. a + 1 \in Steps /\ 1..a \subseteq rMarked'
    BY <1>1, <1>3, <1>4 DEF Steps
  <2>3. 1..((a + 1) - 1) \subseteq rMarked'
    BY <1>1, <2>2
  <2>4. /\ rTable' = [u EXCEPT ![a + 1] = "active"] /\ rIndex' = a + 1 /\ rPending' = 0 /\ rWork' = "none"
    BY <2>1 DEF Assign
  <2>5. rTable' \in [Steps -> RowKinds]
    BY <2>4, <1>2 DEF RowKinds
  <2>6. \A b \in Steps : (rTable'[b] = "done" => b \in rMarked') /\ (rTable'[b] = "active" => 1..(b - 1) \subseteq rMarked')
    BY <2>2, <2>3, <2>4, <1>2
  <2>7. RowsTrue(rTable)' /\ Reported(rIndex)'
    BY <2>3, <2>4, <2>5, <2>6 DEF RowsTrue, Reported
  <2>8. MovedWhenDone'
    BY <2>1 DEF MovedWhenDone
  <2>9. rIndex' \in 0..RecAgents
    BY <2>4, <1>1, <1>4
  <2>10. QED BY <2>1, <2>4, <2>7, <2>8, <2>9
<1>5. CASE ~(a < RecAgents)
  <2>1. rTable' = u /\ rStage' = "moved" /\ rIndex' = 0 /\ rWork' = "none" /\ rPending' = rPending
    BY <1>5 DEF Advance, u
  <2>2. a = RecAgents
    BY <1>1, <1>5
  <2>3. \A b \in Steps : b = a \/ b \in 1..(a - 1)
    BY <1>1, <2>2 DEF Steps
  <2>4. rMarked' = Steps
    BY <2>3, <1>3
  <2>5. QED BY <2>1, <2>4, <1>1, <1>2 DEF RowsTrue, Reported, MovedWhenDone
<1>6. QED BY <1>4, <1>5

(* What a pass does first: it may store the reconciled table.              *)
LEMMA ScanBegins ==
  ASSUME ReportsInOrder, NEW saved \in BOOLEAN, BeginScan(saved), rMarked' = rMarked
  PROVE  RowsTrue(rTable)' /\ rScan = 0 /\ rStage = "open" /\ RowsTrue(Reconciled(rTable))
<1>1. RowsTrue(rTable) /\ RowsTrue(Reconciled(rTable))
  BY ReconciledIsTrue DEF ReportsInOrder
<1>2. rTable' = Reconciled(rTable) \/ rTable' = rTable
  BY DEF BeginScan
<1>3. RowsTrue(rTable')
  BY <1>1, <1>2
<1>4. RowsTrue(rTable)'
  BY <1>3 DEF RowsTrue, Reported
<1>5. QED BY <1>1, <1>4 DEF BeginScan, NoScan

LEMMA RecoveryKept == RecoveryInv /\ [RecoveryNext]_rVars => RecoveryInv'
<1> SUFFICES ASSUME RecoveryInv, [RecoveryNext]_rVars PROVE RecoveryInv'
  OBVIOUS
<1>1. /\ RecAgents \in Nat /\ RecAgents >= 1 /\ MaxRetries \in Nat /\ MaxRetries >= 1
      /\ Cooldown \in Nat /\ Cooldown >= 1 /\ Grace \in Nat /\ Grace >= 1
      /\ RecoveryBounds /\ AttemptDue /\ ReportsInOrder /\ MovedWhenDone
  BY RecoveryAssumption DEF RecoveryInv
<1>2. /\ rMarked \subseteq Steps /\ RowsTrue(rTable) /\ Reported(rIndex) /\ Reported(rScan) /\ Reported(0)
  BY <1>1 DEF ReportsInOrder, Reported
<1>3. ASSUME UNCHANGED rMarked, UNCHANGED rTable PROVE RowsTrue(rTable)'
  BY <1>2, <1>3 DEF RowsTrue, Reported
<1>4. ASSUME UNCHANGED rMarked, rIndex' \in {0, rIndex} PROVE Reported(rIndex)'
  <2>1. Reported(rIndex')
    BY <1>2, <1>4
  <2>2. QED BY <2>1, <1>4 DEF Reported
<1>5. ASSUME NEW works \in BOOLEAN, EnterStatus(works) PROVE RecoveryInv'
  <2>1. /\ rTable' = [rTable EXCEPT ![1] = IF works THEN "active" ELSE "queued"] /\ rStage' = "open"
        /\ rIndex' = 1 /\ rPending' = IF works THEN 0 ELSE Grace + 1
        /\ UNCHANGED <<rMarked, rMerged, rWork, rBlocked, rCount, rAge, rEscalated, rScan, rFaults, rGap>>
    BY <1>5 DEF EnterStatus, rHistory
  <2>2. RecoveryBounds' /\ AttemptDue'
    BY <2>1, <1>1 DEF RecoveryBounds, AttemptDue
  <2>3. RowsTrue(rTable)' /\ Reported(rIndex)'
    <3>1. 1..(1 - 1) = {}
      OBVIOUS
    <3>2. rTable' \in [Steps -> RowKinds]
      BY <2>1, <1>2 DEF RowsTrue, RowKinds
    <3>3. \A a \in Steps : rTable'[a] = rTable[a] \/ (a = 1 /\ rTable'[a] # "done")
      BY <2>1, <1>2 DEF RowsTrue
    <3>4. \A a \in Steps : (rTable'[a] = "done" => a \in rMarked') /\ (rTable'[a] = "active" => 1..(a - 1) \subseteq rMarked')
      BY <3>1, <3>3, <2>1, <1>2 DEF RowsTrue, Reported
    <3>5. QED BY <3>1, <3>2, <3>4, <2>1 DEF RowsTrue, Reported
  <2>4. ReportsInOrder'
    BY <2>1, <2>3, <1>1, <1>2, OrderKept
  <2>5. QED BY <2>1, <2>2, <2>4 DEF RecoveryInv, MovedWhenDone
<1>6. ASSUME NEW saved \in BOOLEAN, NEW works \in BOOLEAN, ForceTransition(saved, works) PROVE RecoveryInv'
  <2>1. /\ BeginScan(saved) /\ FirstOpen(Reconciled(rTable)) = 0
        /\ rAge' = 0 /\ rStage' = IF works THEN "moved" ELSE "open"
        /\ UNCHANGED <<rMarked, rMerged, rWork, rIndex, rBlocked, rPending, rCount, rEscalated, rScan, rGap>>
    BY <1>6 DEF ForceTransition
  <2>2. RowsTrue(rTable)' /\ rScan = 0 /\ RowsTrue(Reconciled(rTable))
    BY <2>1, <1>1, ScanBegins
  <2>3. rMarked' = Steps
    BY <2>1, <2>2, <1>2, FirstOpenReported
  <2>4. RecoveryBounds' /\ AttemptDue'
    <3>1. rStage' \in {"open", "moved"} /\ 0 \in 0..Cooldown /\ rGap \in 0..Cooldown /\ 0 <= rGap
      BY <2>1, <1>1 DEF RecoveryBounds
    <3>2. rScan' = 0 /\ rAge' <= rGap'
      BY <3>1, <2>1, <2>2
    <3>3. QED BY <3>1, <3>2, <2>1, <1>1 DEF RecoveryBounds, AttemptDue
  <2>5. ReportsInOrder'
    BY <2>1, <2>2, <1>1, <1>2, <1>4, OrderKept
  <2>6. QED BY <2>3, <2>4, <2>5 DEF RecoveryInv, MovedWhenDone
<1>7. ASSUME NEW saved \in BOOLEAN,
             _escalate_exhausted_recovery(saved) \/ LeaveAlone(saved) \/ InGrace(saved)
      PROVE  RecoveryInv'
  <2>1. /\ BeginScan(saved) /\ rAge' \in {0, rAge} /\ rEscalated' \in {TRUE, rEscalated}
        /\ UNCHANGED <<rMarked, rMerged, rWork, rStage, rIndex, rBlocked, rPending, rCount, rScan, rGap>>
    BY <1>7 DEF _escalate_exhausted_recovery, LeaveAlone, InGrace, rHistory, rMemory
  <2>2. RowsTrue(rTable)' /\ rScan = 0
    BY <2>1, <1>1, ScanBegins
  <2>3. RecoveryBounds' /\ AttemptDue'
    <3>1. rAge' \in 0..Cooldown /\ rAge' <= rGap' /\ rScan' = 0
      BY <2>1, <2>2, <1>1 DEF RecoveryBounds, AttemptDue
    <3>2. rEscalated' \in BOOLEAN
      BY <2>1, <1>1, Zenon DEF RecoveryBounds
    <3>3. QED BY <3>1, <3>2, <2>1, <1>1 DEF RecoveryBounds, AttemptDue
  <2>4. ReportsInOrder'
    BY <2>1, <2>2, <1>1, <1>2, <1>4, OrderKept
  <2>5. QED BY <2>1, <2>3, <2>4, <1>1 DEF RecoveryInv, MovedWhenDone
<1>8. ASSUME NEW saved \in BOOLEAN, DetectStall(saved) PROVE RecoveryInv'
  <2>1. /\ BeginScan(saved) /\ ~Exhausted /\ rPending' = Grace + 1 /\ rScan' \in {0, OpenStep}
        /\ UNCHANGED <<rMarked, rMerged, rWork, rStage, rIndex, rBlocked, rCount, rAge, rEscalated, rGap>>
    BY <1>8 DEF DetectStall, NoScan, rHistory
  <2>2. RowsTrue(rTable)' /\ rScan = 0 /\ RowsTrue(Reconciled(rTable))
    BY <2>1, <1>1, ScanBegins
  <2>3. OpenStep \in 0..RecAgents /\ Reported(OpenStep)
    BY <2>2, FirstOpenReported DEF OpenStep
  <2>4. rScan' \in 0..RecAgents /\ Reported(rScan')
    BY <2>1, <2>3, <1>1, <1>2
  <2>5. rCount < MaxRetries /\ rAge = Cooldown
    BY <2>1, <1>1 DEF BeginScan, Eligible, Exhausted, RecoveryBounds
  <2>6. RecoveryBounds' /\ AttemptDue'
    BY <2>1, <2>4, <2>5, <1>1 DEF RecoveryBounds, AttemptDue
  <2>7. Reported(rScan)' /\ Reported(rIndex)'
    BY <2>1, <2>4, <1>2 DEF Reported
  <2>8. ReportsInOrder'
    BY <2>1, <2>2, <2>7, <1>1 DEF ReportsInOrder, Reported
  <2>9. QED BY <2>1, <2>6, <2>8, <1>1 DEF RecoveryInv, MovedWhenDone
<1>9. ASSUME AlreadyDone PROVE RecoveryInv'
  <2>1. /\ rAge' = 0 /\ rScan' = 0
        /\ UNCHANGED <<rTable, rMarked, rMerged, rWork, rStage, rIndex, rBlocked, rPending, rCount, rEscalated, rGap>>
    BY <1>9 DEF AlreadyDone, NoScan, rGithub, rHistory
  <2>2. RecoveryBounds' /\ AttemptDue'
    BY <2>1, <1>1 DEF RecoveryBounds, AttemptDue
  <2>3. ReportsInOrder'
    BY <2>1, <1>1, <1>2, <1>3, <1>4, OrderKept
  <2>4. QED BY <2>1, <2>2, <2>3, <1>1 DEF RecoveryInv, MovedWhenDone
<1>10. ASSUME NEW posted \in BOOLEAN, SelfHeal(posted) PROVE RecoveryInv'
  <2>1. /\ rScan # 0 /\ rAge' = 0 /\ rScan' = 0 /\ UNCHANGED <<rMerged, rBlocked, rCount, rEscalated, rGap>>
    BY <1>10 DEF SelfHeal, NoScan
  <2>2. rScan \in Steps
    BY <2>1, <1>1 DEF RecoveryBounds, Steps
  <2>3. CASE posted
    <3>1. rMarked' = rMarked \cup {rScan} /\ Advance(rScan, Reconciled(rTable))
      BY <1>10, <2>3 DEF SelfHeal
    <3>2. rMarked \subseteq rMarked' /\ rScan \in rMarked' /\ rMarked' \subseteq Steps
      BY <3>1, <2>2, <1>2
    <3>3. /\ RowsTrue(rTable)' /\ Reported(rIndex)' /\ MovedWhenDone'
          /\ rIndex' \in 0..RecAgents /\ rPending' \in {0, rPending} /\ rWork' = "none" /\ rStage' \in {rStage, "moved"}
      BY <3>1, <3>2, <2>2, <1>1, <1>2, AdvanceKept, ReconciledIsTrue
    <3>4. RecoveryBounds' /\ AttemptDue'
      BY <3>3, <2>1, <1>1 DEF RecoveryBounds, AttemptDue
    <3>5. \A a \in rMarked' \ rMarked : Reported(a)
      BY <3>1, <1>2
    <3>6. ReportsInOrder'
      BY <3>2, <3>3, <3>5, <2>1, <1>1, OrderKept
    <3>7. QED BY <3>3, <3>4, <3>6 DEF RecoveryInv
  <2>4. CASE ~posted
    <3>1. UNCHANGED <<rMarked, rTable, rIndex, rPending, rWork, rStage>>
      BY <1>10, <2>4 DEF SelfHeal
    <3>2. RecoveryBounds' /\ AttemptDue'
      BY <3>1, <2>1, <1>1 DEF RecoveryBounds, AttemptDue
    <3>3. ReportsInOrder'
      BY <3>1, <2>1, <1>1, <1>2, <1>3, <1>4, OrderKept
    <3>4. QED BY <3>1, <3>2, <3>3, <1>1 DEF RecoveryInv, MovedWhenDone
  <2>5. QED BY <2>3, <2>4
<1>11. ASSUME NEW o \in {"assigned", "refused", "raised", "limited"}, _attempt_reassignment(o) PROVE RecoveryInv'
  <2>1. /\ rScan # 0 /\ rScan' = 0 /\ UNCHANGED <<rMarked, rMerged, rStage, rBlocked, rEscalated>>
        /\ IF o = "limited" THEN UNCHANGED <<rAge, rCount, rGap>>
           ELSE rAge' = 0 /\ rCount' = Attempts(o) /\ rGap' = 0
        /\ IF o = "assigned" THEN Assign(rScan, rTable) ELSE UNCHANGED <<rTable, rIndex, rPending, rWork>>
    BY <1>11 DEF _attempt_reassignment, NoScan
  <2>2. rScan \in Steps /\ rCount < MaxRetries
    BY <2>1, <1>1 DEF RecoveryBounds, AttemptDue, Steps
  <2>3. rCount' \in {rCount, rCount + 1} /\ rCount' \in 0..MaxRetries
    BY <2>1, <2>2, <1>1 DEF Attempts, RecoveryBounds
  <2>4. /\ RowsTrue(rTable)' /\ Reported(rIndex)'
        /\ rIndex' \in 0..RecAgents /\ rPending' \in {0, rPending} /\ rWork' \in {"none", rWork}
    <3>1. CASE o = "assigned"
      <4>1. Assign(rScan, rTable)
        BY <2>1, <3>1
      <4>2. RowsTrue(rTable)' /\ Reported(rIndex)'
        BY <4>1, <2>1, <2>2, <1>2, AssignKept
      <4>3. QED BY <4>1, <4>2, <1>1 DEF Assign, RecoveryBounds
    <3>2. CASE o # "assigned"
      BY <3>2, <2>1, <1>1, <1>3, <1>4 DEF RecoveryBounds
    <3>3. QED BY <3>1, <3>2
  <2>5. rAge' \in 0..Cooldown /\ rGap' \in 0..Cooldown /\ rAge' <= rGap'
    BY <2>1, <1>1 DEF RecoveryBounds, AttemptDue
  <2>6. RecoveryBounds' /\ AttemptDue'
    BY <2>1, <2>3, <2>4, <2>5, <1>1 DEF RecoveryBounds, AttemptDue
  <2>7. ReportsInOrder'
    BY <2>1, <2>4, <1>1, <1>2, OrderKept
  <2>8. QED BY <2>1, <2>6, <2>7, <1>1 DEF RecoveryInv, MovedWhenDone
<1>12. ASSUME PollRebuilds PROVE RecoveryInv'
  <2>1. /\ rIndex = 0 /\ UNCHANGED <<rMarked, rMerged, rWork, rBlocked, rPending, rCount, rAge, rEscalated, rScan, rGap>>
        /\ IF Unreported = 0
           THEN rStage' = "moved" /\ rTable' = [a \in Steps |-> "done"] /\ UNCHANGED rIndex
           ELSE rIndex' = Unreported /\ UNCHANGED <<rStage, rTable>>
    BY <1>12 DEF PollRebuilds, rHistory
  <2>2. RowsTrue([a \in Steps |-> IF a \in rMarked THEN "done" ELSE "queued"])
    BY DEF RowsTrue, RowKinds
  <2>3. Unreported \in 0..RecAgents /\ Reported(Unreported) /\ (Unreported = 0 => Steps \subseteq rMarked)
    BY <2>2, FirstOpenReported DEF Unreported
  <2>4. CASE Unreported = 0
    <3>1. rMarked' = Steps
      BY <2>1, <2>3, <2>4, <1>2
    <3>2. RowsTrue(rTable)' /\ Reported(rIndex)'
      BY <3>1, <2>1, <2>4 DEF RowsTrue, RowKinds, Reported
    <3>3. RecoveryBounds' /\ AttemptDue'
      BY <2>1, <2>4, <1>1 DEF RecoveryBounds, AttemptDue
    <3>4. ReportsInOrder'
      BY <3>2, <2>1, <1>1, <1>2, OrderKept
    <3>5. QED BY <3>1, <3>3, <3>4 DEF RecoveryInv, MovedWhenDone
  <2>5. CASE Unreported # 0
    <3>1. RecoveryBounds' /\ AttemptDue'
      BY <2>1, <2>3, <2>5, <1>1 DEF RecoveryBounds, AttemptDue
    <3>2. Reported(rIndex)'
      BY <2>1, <2>3, <2>5 DEF Reported
    <3>3. ReportsInOrder'
      BY <3>2, <2>1, <2>5, <1>1, <1>2, <1>3, OrderKept
    <3>4. QED BY <3>1, <3>3, <2>1, <2>5, <1>1 DEF RecoveryInv, MovedWhenDone
  <2>6. QED BY <2>4, <2>5
<1>13. ASSUME PollReassigns PROVE RecoveryInv'
  <2>1. /\ rIndex \in Steps /\ Assign(rIndex, rTable)
        /\ UNCHANGED <<rMarked, rMerged, rStage, rBlocked, rCount, rAge, rEscalated, rScan, rGap>>
    BY <1>13 DEF PollReassigns, rHistory
  <2>2. RowsTrue(rTable)' /\ Reported(rIndex)'
    BY <2>1, <1>2, AssignKept
  <2>3. RecoveryBounds' /\ AttemptDue'
    BY <2>1, <1>1 DEF RecoveryBounds, AttemptDue, Assign
  <2>4. ReportsInOrder'
    BY <2>1, <2>2, <1>1, <1>2, OrderKept
  <2>5. QED BY <2>1, <2>3, <2>4, <1>1 DEF RecoveryInv, MovedWhenDone
<1>14. ASSUME NEW fails \in BOOLEAN, PollAdvances(fails) PROVE RecoveryInv'
  <2>1. /\ rIndex \in rMarked /\ Advance(rIndex, rTable) /\ rBlocked' = fails
        /\ UNCHANGED <<rMarked, rMerged, rCount, rAge, rEscalated, rScan, rGap>>
    BY <1>14 DEF PollAdvances
  <2>2. /\ RowsTrue(rTable)' /\ Reported(rIndex)' /\ MovedWhenDone'
        /\ rIndex' \in 0..RecAgents /\ rPending' \in {0, rPending} /\ rWork' = "none" /\ rStage' \in {rStage, "moved"}
    BY <2>1, <1>1, <1>2, AdvanceKept
  <2>3. RecoveryBounds' /\ AttemptDue'
    BY <2>1, <2>2, <1>1 DEF RecoveryBounds, AttemptDue
  <2>4. ReportsInOrder'
    BY <2>1, <2>2, <1>1, <1>2, OrderKept
  <2>5. QED BY <2>2, <2>3, <2>4 DEF RecoveryInv
<1>15. ASSUME Elapse PROVE RecoveryInv'
  <2>1. /\ rScan = 0 /\ rAge' = Older(rAge, Cooldown) /\ rGap' = Older(rGap, Cooldown)
        /\ rPending' = (IF rPending < Grace THEN rPending + 1 ELSE rPending)
        /\ UNCHANGED <<rTable, rMarked, rMerged, rWork, rStage, rIndex, rBlocked, rCount, rEscalated, rScan>>
    BY <1>15 DEF Elapse, rGithub, NoScan
  <2>2. RecoveryBounds' /\ AttemptDue'
    BY <2>1, <1>1 DEF RecoveryBounds, AttemptDue, Older
  <2>3. ReportsInOrder'
    BY <2>1, <1>1, <1>2, <1>3, <1>4, OrderKept
  <2>4. QED BY <2>1, <2>2, <2>3, <1>1 DEF RecoveryInv, MovedWhenDone
<1>16. ASSUME NEW e \in {"starts", "errored", "none", "finishes", "loses marker"}, AgentEvent(e) PROVE RecoveryInv'
  <2>1. /\ rWork' \in {"working", "errored", "none"} /\ rMarked' \in {rMarked, rMarked \cup OnDuty}
        /\ rMerged' \in {rMerged, rMerged \cup OnDuty}
        /\ UNCHANGED <<rTable, rStage, rIndex, rBlocked, rPending, rCount, rAge, rEscalated, rScan, rGap>>
    BY <1>16 DEF AgentEvent, rMemory
  <2>2. OnDuty \subseteq Steps /\ \A a \in OnDuty : Reported(a)
    <3>1. FirstOpen(rTable) \in 0..RecAgents /\ Reported(FirstOpen(rTable))
      BY <1>2, FirstOpenReported
    <3>2. FirstOpen(rTable) # 0 => FirstOpen(rTable) \in Steps
      BY <3>1, AgentsAreSteps
    <3>3. QED BY <3>1, <3>2 DEF OnDuty
  <2>3. rMarked \subseteq rMarked' /\ rMarked' \subseteq Steps /\ \A a \in rMarked' \ rMarked : Reported(a)
    BY <2>1, <2>2, <1>2
  <2>4. RecoveryBounds' /\ AttemptDue'
    BY <2>1, <2>2, <1>1 DEF RecoveryBounds, AttemptDue
  <2>5. RowsTrue(rTable)' /\ Reported(rIndex)'
    BY <2>1, <2>3, <1>2, RowsStay, ReportsStay DEF RowsTrue, Reported
  <2>6. ReportsInOrder'
    BY <2>1, <2>3, <2>5, <1>1, OrderKept
  <2>7. MovedWhenDone'
    BY <2>1, <2>3, <1>1 DEF MovedWhenDone
  <2>8. QED BY <2>4, <2>6, <2>7 DEF RecoveryInv
<1>17. ASSUME RestartLoses PROVE RecoveryInv'
  <2>1. /\ rScan' = 0 /\ rIndex' = 0 /\ rBlocked' = FALSE /\ rPending' = Grace + 1 /\ rCount' = 0 /\ rAge' = Cooldown
        /\ rEscalated' = FALSE /\ rGap' = Cooldown /\ UNCHANGED <<rTable, rMarked, rMerged, rWork, rStage>>
    BY <1>17 DEF RestartLoses, rGithub, NoScan
  <2>2. /\ rPending' \in 0..(Grace + 1) /\ rIndex' \in 0..RecAgents /\ rScan' \in 0..RecAgents
        /\ rCount' \in 0..MaxRetries /\ rAge' \in 0..Cooldown /\ rGap' \in 0..Cooldown /\ rAge' <= rGap'
    BY <2>1, <1>1
  <2>5. RecoveryBounds' /\ AttemptDue'
    BY <2>1, <2>2, <1>1 DEF RecoveryBounds, AttemptDue
  <2>3. ReportsInOrder'
    BY <2>1, <1>1, <1>2, <1>3, <1>4, OrderKept
  <2>6. QED BY <2>1, <2>5, <2>3, <1>1 DEF RecoveryInv, MovedWhenDone
<1>18. ASSUME ClearError \/ UNCHANGED rVars PROVE RecoveryInv'
  <2>1. /\ rBlocked' \in {FALSE, rBlocked}
        /\ UNCHANGED <<rTable, rMarked, rMerged, rWork, rStage, rIndex, rPending, rCount, rAge, rEscalated, rScan, rGap>>
    BY <1>18 DEF ClearError, rVars, rGithub, rHistory
  <2>2. RecoveryBounds' /\ AttemptDue'
    BY <2>1, <1>1 DEF RecoveryBounds, AttemptDue
  <2>3. ReportsInOrder'
    BY <2>1, <1>1, <1>2, <1>3, <1>4, OrderKept
  <2>4. QED BY <2>1, <2>2, <2>3, <1>1 DEF RecoveryInv, MovedWhenDone
<1>19. QED
  BY <1>5, <1>6, <1>7, <1>8, <1>9, <1>10, <1>11, <1>12, <1>13, <1>14, <1>15, <1>16, <1>17, <1>18
     DEF RecoveryNext, RecoveryPass, PollPass

(* Whatever the poll, the recovery and restarts do to the table and the    *)
(* state: agents get to work in order, and the issue leaves the status     *)
(* only when all of them have reported (recovery.py, pipeline.py).         *)
THEOREM RecoveryKeepsOrder == RecoverySpec => [](RecoveryTypeOK /\ PredecessorsReported /\ MovedWhenDone)
<1>1. RecoveryInv => RecoveryTypeOK
  BY RecoveryAssumption DEF RecoveryInv, RecoveryBounds, ReportsInOrder, RowsTrue, RowKinds, RecoveryTypeOK
<1>2. RecoveryInv => PredecessorsReported
  BY DEF RecoveryInv, ReportsInOrder, RowsTrue, Reported, PredecessorsReported
<1>3. RecoveryInv => MovedWhenDone
  BY DEF RecoveryInv
<1>4. QED BY <1>1, <1>2, <1>3, RecoveryStarts, RecoveryKept, PTL DEF RecoverySpec

(* An attempt at the issue is counted only a cooldown after the last one,  *)
(* counted or failed (recovery.py).                                        *)
THEOREM RecoveryAttemptsApart == RecoverySpec => AttemptsApart
<1>1. ASSUME RecoveryInv, [RecoveryNext]_rVars PROVE [rCount' > rCount => rGap >= Cooldown]_rVars
  <2>1. RecoveryBounds /\ AttemptDue /\ Cooldown \in Nat
    BY <1>1, RecoveryAssumption DEF RecoveryInv
  <2>2. CASE rScan # 0
    BY <2>1, <2>2 DEF RecoveryBounds, AttemptDue
  <2>3. CASE rScan = 0
    <3>1. UNCHANGED rVars \/ rCount' = rCount \/ rCount' = 0
      BY <2>3, <1>1 DEF RecoveryNext, RecoveryPass, PollPass, rGithub, rMemory, rHistory, NoScan, EnterStatus,
         ForceTransition, _escalate_exhausted_recovery, LeaveAlone, InGrace, DetectStall, AlreadyDone, SelfHeal,
         _attempt_reassignment, PollRebuilds, PollReassigns, PollAdvances, Elapse, RestartLoses, ClearError, AgentEvent
    <3>2. QED BY <3>1, <2>1 DEF RecoveryBounds, rVars
  <2>4. QED BY <2>2, <2>3
<1>2. QED BY <1>1, RecoveryStarts, RecoveryKept, PTL DEF RecoverySpec, AttemptsApart

(* Both together: recovery mends the order of the agents without breaking  *)
(* it, and keeps its attempts apart (recovery.py).                         *)
THEOREM RecoveryIsOrderly == RecoverySpec => RecoveryInOrder
BY RecoveryKeepsOrder, RecoveryAttemptsApart, PTL DEF RecoveryInOrder

---------------------------------------------------------------------------
(* The queue of a project.  What the queue has let in has a state that is  *)
(* not queued and a launch beyond the gate; what is queued was told so by  *)
(* the gate; and while the lock is held nothing is in, every candidate is  *)
(* still queued, and whoever is queued and no longer a candidate has a     *)
(* prerequisite that is not met.                                           *)
IsQueued(i) == qState[i] # Absent /\ qState[i].queued
LaunchPcs == {"new", "board", "gate", "assign", "queued", "done"}
PollFrame == [pc: {"idle", "mode", "lock", "prereq", "remove"}, issue: Issues \cup {Absent}, rest: SUBSET Issues]
QueueShapes ==
    /\ qState \in [Issues -> QueueEntry \cup {Absent}] /\ qWork \in [Issues -> {"none", "busy"}]
    /\ qLaunch \in [Issues -> LaunchPcs] /\ qPoll \in PollFrame /\ qIn \subseteq Issues
    /\ qLock = (qPoll.pc = "prereq") /\ (qPoll.pc # "idle" => qPoll.issue \in Issues)
LetInOnce ==
    /\ \A i, j \in qIn : i = j
    /\ \A i \in qIn : qState[i] # Absent /\ ~qState[i].queued /\ qLaunch[i] \notin {"new", "board", "gate"}
    /\ \A i \in Issues : IsQueued(i) => qLaunch[i] = "queued"
LockedOut ==
    qPoll.pc = "prereq" =>
        /\ qIn = {} /\ \A i \in qPoll.rest : IsQueued(i)
        /\ \A i \in Issues : IsQueued(i) => i \in qPoll.rest \/ \E p \in Prereqs[i] : ~PrereqMet(p)
ByAge ==
    /\ \A i, j \in Issues : <<i, j>> \in qStarted => <<j, i>> \notin qStarted
    /\ \A i, j \in Issues : i # j /\ Absent \notin {qState[i], qState[j]} => <<i, j>> \in qStarted \/ <<j, i>> \in qStarted
QueueInv == QueueShapes /\ LetInOnce /\ LockedOut /\ ByAge

LEMMA QueueStarts == QueueInit => QueueInv
<1> SUFFICES ASSUME QueueInit PROVE QueueInv
  OBVIOUS
<1>1. QueueShapes
  BY DEF QueueInit, QueueShapes, NoFrame, PollFrame, LaunchPcs
<1>2. LetInOnce /\ LockedOut /\ ByAge
  BY DEF QueueInit, LetInOnce, LockedOut, ByAge, NoFrame, IsQueued
<1>3. QED BY <1>1, <1>2 DEF QueueInv

(* No state of another issue appears: the order stays, or the issue goes   *)
(* to the end of it.                                                       *)
LEMMA AgeKept ==
  ASSUME ByAge, NEW i \in Issues,
         \A j \in Issues \ {i} : qState'[j] # Absent => qState[j] # Absent,
         \/ qStarted' = qStarted /\ (qState'[i] # Absent => qState[i] # Absent)
         \/ qStarted' = Newest(i)
  PROVE  ByAge'
<1>1. CASE qStarted' = qStarted /\ (qState'[i] # Absent => qState[i] # Absent)
  BY <1>1 DEF ByAge
<1>2. CASE qStarted' = Newest(i)
  <2>1. \A j, k \in Issues : <<j, k>> \in qStarted' <=>
            \/ <<j, k>> \in qStarted /\ i # j /\ i # k
            \/ k = i /\ j # i /\ qState[j] # Absent
    BY <1>2 DEF Newest
  <2>2. QED BY <2>1 DEF ByAge
<1>3. QED BY <1>1, <1>2

LEMMA FreshEntry ==
  ASSUME NEW b \in BOOLEAN
  PROVE  [queued |-> b, complete |-> FALSE] \in QueueEntry /\ [queued |-> b, complete |-> FALSE] # Absent
<1>1. [queued |-> b, complete |-> FALSE] \in [queued: BOOLEAN, complete: BOOLEAN]
  OBVIOUS
<1>2. QED BY <1>1, QueueAssumption DEF QueueEntry

LEMMA StoredNew ==
  ASSUME QueueShapes, ByAge, NEW i \in Issues, NEW b \in BOOLEAN, StoreNew(i, b)
  PROVE  /\ qState' \in [Issues -> QueueEntry \cup {Absent}] /\ ByAge'
         /\ qState'[i] = [queued |-> b, complete |-> FALSE] /\ qState'[i] # Absent
         /\ \A j \in Issues \ {i} : qState'[j] = qState[j]
<1>1. qState' = [qState EXCEPT ![i] = [queued |-> b, complete |-> FALSE]] /\ qStarted' = Newest(i)
  BY DEF StoreNew
<1>2. [queued |-> b, complete |-> FALSE] \in QueueEntry /\ [queued |-> b, complete |-> FALSE] # Absent
  BY FreshEntry
<1>3. /\ qState' \in [Issues -> QueueEntry \cup {Absent}] /\ qState'[i] = [queued |-> b, complete |-> FALSE]
      /\ \A j \in Issues \ {i} : qState'[j] = qState[j]
  BY <1>1, <1>2 DEF QueueShapes
<1>4. \A j \in Issues \ {i} : qState'[j] # Absent => qState[j] # Absent
  BY <1>3
<1>5. ByAge'
  BY <1>1, <1>4, AgeKept
<1>6. QED BY <1>2, <1>3, <1>5

(* A new state that is not queued lets nobody in, and meets nobody's       *)
(* prerequisite.                                                           *)
LEMMA NewUnqueued ==
  ASSUME QueueInv, NEW i \in Issues, StoreNew(i, FALSE), UNCHANGED <<qIn, qPoll>>,
         ~IsQueued(i), \A j \in Issues : qLaunch'[j] = qLaunch[j] \/ (j = i /\ qLaunch'[j] \in {"assign", "done"})
  PROVE  LetInOnce' /\ LockedOut' /\ ByAge' /\ qState' \in [Issues -> QueueEntry \cup {Absent}]
<1>1. QueueShapes /\ LetInOnce /\ LockedOut /\ ByAge
  BY DEF QueueInv
<1>2. /\ qState' \in [Issues -> QueueEntry \cup {Absent}] /\ ByAge'
      /\ qState'[i] = [queued |-> FALSE, complete |-> FALSE] /\ qState'[i] # Absent
      /\ \A j \in Issues \ {i} : qState'[j] = qState[j]
  BY <1>1, StoredNew
<1>3. \A j \in Issues : IsQueued(j)' => j # i /\ IsQueued(j)
  BY <1>2 DEF IsQueued
<1>4. \A j \in Issues : IsQueued(j) => j # i /\ IsQueued(j)'
  BY <1>2 DEF IsQueued
<1>5. \A p \in Issues : ~PrereqMet(p) => ~PrereqMet(p)'
  <2> SUFFICES ASSUME NEW p \in Issues, ~PrereqMet(p) PROVE ~PrereqMet(p)'
    OBVIOUS
  <2>1. CASE p = i
    <3>1. qState'[p] # [queued |-> FALSE, complete |-> TRUE]
      BY <2>1, <1>2
    <3>2. QED BY <3>1, <2>1, <1>2 DEF PrereqMet
  <2>2. CASE p # i
    BY <2>2, <1>2 DEF PrereqMet
  <2>3. QED BY <2>1, <2>2
<1>6. LetInOnce'
  <2>1. \A j \in qIn' : qState'[j] # Absent /\ ~qState'[j].queued
    BY <1>1, <1>2 DEF LetInOnce, QueueShapes
  <2>2. \A j \in qIn' : qLaunch'[j] \notin {"new", "board", "gate"}
    BY <1>1 DEF LetInOnce, QueueShapes
  <2>3. \A j \in Issues : IsQueued(j)' => qLaunch'[j] = "queued"
    BY <1>1, <1>3 DEF LetInOnce
  <2>4. QED BY <2>1, <2>2, <2>3, <1>1 DEF LetInOnce, IsQueued
<1>7. LockedOut'
  <2>1. \A j \in Issues : Prereqs[j] \subseteq Issues
    BY QueueAssumption
  <2>2. qPoll.rest \subseteq Issues
    BY <1>1 DEF QueueShapes, PollFrame
  <2> SUFFICES ASSUME qPoll'.pc = "prereq"
               PROVE  /\ qIn' = {} /\ \A j \in qPoll'.rest : IsQueued(j)'
                      /\ \A j \in Issues : IsQueued(j)' => j \in qPoll'.rest \/ \E p \in Prereqs[j] : ~PrereqMet(p)'
    BY DEF LockedOut
  <2>3. qIn' = {} /\ \A j \in qPoll'.rest : IsQueued(j)'
    BY <1>1, <1>4, <2>2 DEF LockedOut
  <2>4. ASSUME NEW j \in Issues, IsQueued(j)' PROVE j \in qPoll'.rest \/ \E p \in Prereqs[j] : ~PrereqMet(p)'
    <3>1. j \in qPoll.rest \/ \E p \in Prereqs[j] : ~PrereqMet(p)
      BY <2>4, <1>1, <1>3 DEF LockedOut
    <3>2. QED BY <3>1, <2>1, <1>5
  <2>5. QED BY <2>3, <2>4
<1>8. QED BY <1>2, <1>6, <1>7

(* What changes no state, and no launch of an issue that is queued or in   *)
(* before the gate.                                                        *)
LEMMA LaunchGoesOn ==
  ASSUME QueueInv, UNCHANGED <<qState, qStarted, qIn, qPoll, qLock>>,
         qWork' \in [Issues -> {"none", "busy"}], qLaunch' \in [Issues -> LaunchPcs],
         \A j \in Issues : qLaunch'[j] = qLaunch[j] \/ (qLaunch[j] # "queued" /\ j \notin qIn)
                          \/ (qLaunch[j] # "queued" /\ qLaunch'[j] = "done")
  PROVE  QueueInv'
<1>1. QueueShapes /\ LetInOnce /\ LockedOut /\ ByAge
  BY DEF QueueInv
<1>2. QueueShapes'
  BY <1>1 DEF QueueShapes
<1>3. LetInOnce'
  BY <1>1 DEF LetInOnce, IsQueued, QueueShapes
<1>4. LockedOut' /\ ByAge'
  BY <1>1 DEF LockedOut, ByAge, IsQueued, PrereqMet
<1>5. QED BY <1>2, <1>3, <1>4 DEF QueueInv

LEMMA QueueKept == QueueInv /\ [QueueNext]_qVars => QueueInv'
<1> SUFFICES ASSUME QueueInv, [QueueNext]_qVars PROVE QueueInv'
  OBVIOUS
<1>1. QueueShapes /\ LetInOnce /\ LockedOut /\ ByAge
  BY DEF QueueInv
<1>2. /\ qState \in [Issues -> QueueEntry \cup {Absent}] /\ qLaunch \in [Issues -> LaunchPcs]
      /\ qWork \in [Issues -> {"none", "busy"}] /\ qPoll \in PollFrame /\ qIn \subseteq Issues
      /\ qLock = (qPoll.pc = "prereq")
  BY <1>1 DEF QueueShapes
<1>3. ASSUME SetQueueMode \/ UNCHANGED qVars PROVE QueueInv'
  <2>1. UNCHANGED <<qState, qStarted, qIn, qLaunch, qWork, qLock, qPoll>>
    BY <1>3 DEF SetQueueMode, qVars, qMemory
  <2>2. QED BY <2>1, <1>2, LaunchGoesOn
<1>4. ASSUME NEW i \in Issues, CreateParent(i) PROVE QueueInv'
  <2>1. /\ qLaunch[i] = "new" /\ qLaunch' = [qLaunch EXCEPT ![i] = "board"]
        /\ UNCHANGED <<qState, qStarted, qIn, qWork, qLock, qPoll>>
    BY <1>4 DEF CreateParent, At, Goto, LaunchOnly, qMemory
  <2>2. i \notin qIn
    BY <2>1, <1>1 DEF LetInOnce
  <2>3. qLaunch' \in [Issues -> LaunchPcs] /\ \A j \in Issues : j # i => qLaunch'[j] = qLaunch[j]
    BY <2>1, <1>2 DEF LaunchPcs
  <2>4. QED BY <2>1, <2>2, <2>3, <1>2, LaunchGoesOn
<1>5. ASSUME NEW i \in Issues, CreateSubIssues(i) PROVE QueueInv'
  <2>1. qLaunch[i] = "board" /\ UNCHANGED <<qWork, qIn, qLock, qPoll>>
    BY <1>5 DEF CreateSubIssues, At, LaunchOnly
  <2>2. i \notin qIn /\ ~IsQueued(i)
    BY <2>1, <1>1 DEF LetInOnce
  <2>3. PICK pc \in {"assign", "gate"} :
           /\ qLaunch' = [qLaunch EXCEPT ![i] = pc]
           /\ \/ UNCHANGED <<qState, qStarted>> \/ (pc = "assign" /\ StoreNew(i, FALSE))
    BY <1>5 DEF CreateSubIssues, Goto
  <2>4. /\ qLaunch' \in [Issues -> LaunchPcs] /\ \A j \in Issues : j # i => qLaunch'[j] = qLaunch[j]
        /\ qLaunch'[i] = pc
    BY <2>3, <1>2 DEF LaunchPcs
  <2>5. CASE UNCHANGED <<qState, qStarted>>
    BY <2>1, <2>2, <2>4, <2>5, <1>2, LaunchGoesOn
  <2>6. CASE pc = "assign" /\ StoreNew(i, FALSE)
    <3>1. LetInOnce' /\ LockedOut' /\ ByAge' /\ qState' \in [Issues -> QueueEntry \cup {Absent}]
      BY <2>1, <2>2, <2>4, <2>6, NewUnqueued
    <3>2. QED BY <3>1, <2>1, <2>4, <1>1 DEF QueueInv, QueueShapes
  <2>7. QED BY <2>3, <2>5, <2>6
<1>6. ASSUME NEW i \in Issues, AssignFirst(i) PROVE QueueInv'
  <2>1. qLaunch[i] = "assign" /\ qLaunch' = [qLaunch EXCEPT ![i] = "done"] /\ UNCHANGED <<qIn, qLock, qPoll>>
    BY <1>6 DEF AssignFirst, At, Goto, LaunchOnly
  <2>2. /\ qLaunch' \in [Issues -> LaunchPcs] /\ \A j \in Issues : j # i => qLaunch'[j] = qLaunch[j]
        /\ qLaunch'[i] = "done"
    BY <2>1, <1>2 DEF LaunchPcs
  <2>3. qWork' \in [Issues -> {"none", "busy"}]
    <3>1. qWork' = qWork \/ qWork' = [qWork EXCEPT ![i] = IF @ = "none" THEN "busy" ELSE @]
      BY <1>6 DEF AssignFirst
    <3>2. QED BY <3>1, <1>2
  <2>4. (qState[i] = Absent /\ StoreNew(i, FALSE)) \/ UNCHANGED <<qState, qStarted>>
    BY <1>6 DEF AssignFirst
  <2>5. CASE UNCHANGED <<qState, qStarted>>
    BY <2>1, <2>2, <2>3, <2>5, LaunchGoesOn
  <2>6. CASE qState[i] = Absent /\ StoreNew(i, FALSE)
    <3>1. ~IsQueued(i)
      BY <2>6 DEF IsQueued
    <3>2. LetInOnce' /\ LockedOut' /\ ByAge' /\ qState' \in [Issues -> QueueEntry \cup {Absent}]
      BY <3>1, <2>1, <2>2, <2>6, NewUnqueued
    <3>3. QED BY <3>2, <2>1, <2>2, <2>3, <1>1 DEF QueueInv, QueueShapes
  <2>7. QED BY <2>4, <2>5, <2>6
<1>7. ASSUME NEW i \in Issues, PollReconstructs(i) PROVE QueueInv'
  <2>1. qState[i] = Absent /\ StoreNew(i, FALSE) /\ UNCHANGED <<qIn, qLaunch, qWork, qLock, qPoll>>
    BY <1>7 DEF PollReconstructs, PollOnly
  <2>2. ~IsQueued(i)
    BY <2>1 DEF IsQueued
  <2>3. LetInOnce' /\ LockedOut' /\ ByAge' /\ qState' \in [Issues -> QueueEntry \cup {Absent}]
    BY <2>1, <2>2, NewUnqueued
  <2>4. QED BY <2>1, <2>3, <1>1 DEF QueueInv, QueueShapes
<1>8. ASSUME NEW i \in Issues, QueueGate(i) PROVE QueueInv'
  <2> DEFINE active == Unqueued \ {i}
             queued == Cardinality(active) > 0
  <2>1. /\ qLaunch[i] = "gate" /\ ~qLock /\ StoreNew(i, queued) /\ UNCHANGED <<qWork, qLock, qPoll>>
        /\ qLaunch' = [qLaunch EXCEPT ![i] = IF queued THEN "queued" ELSE "assign"]
        /\ qIn' = IF queued THEN qIn ELSE qIn \cup {i}
    BY <1>8 DEF QueueGate, At, Goto, LockFree, LaunchOnly, count_active_pipelines_for_project
  <2>2. i \notin qIn /\ qPoll.pc # "prereq" /\ qPoll'.pc # "prereq"
    BY <2>1, <1>1, <1>2 DEF LetInOnce
  <2>3. ~queued => active = {}
    <3>1. IsFiniteSet(active)
      BY QueueAssumption, FS_Subset DEF Unqueued
    <3>2. QED BY <3>1, FS_CardinalityType, FS_EmptySet
  <2>4. ~queued => qIn = {}
    BY <2>2, <2>3, <1>1, <1>2 DEF LetInOnce, Unqueued
  <2> HIDE DEF active, queued
  <2>5. queued \in BOOLEAN
    BY DEF queued
  <2>6. /\ qState' \in [Issues -> QueueEntry \cup {Absent}] /\ ByAge'
        /\ qState'[i] = [queued |-> queued, complete |-> FALSE] /\ qState'[i] # Absent
        /\ \A j \in Issues \ {i} : qState'[j] = qState[j]
    BY <2>1, <2>5, <1>1, StoredNew
  <2>7. /\ qLaunch' \in [Issues -> LaunchPcs] /\ \A j \in Issues : j # i => qLaunch'[j] = qLaunch[j]
        /\ qLaunch'[i] = IF queued THEN "queued" ELSE "assign"
    BY <2>1, <1>2 DEF LaunchPcs
  <2>8. LetInOnce'
    <3>1. CASE queued
      <4>1. qIn' = qIn /\ qLaunch'[i] = "queued"
        BY <3>1, <2>1, <2>7
      <4>2. QED BY <4>1, <2>2, <2>6, <2>7, <1>1, <1>2 DEF LetInOnce, IsQueued
    <3>2. CASE ~queued
      <4>1. qIn' = {i} /\ qLaunch'[i] = "assign" /\ ~qState'[i].queued
        BY <3>2, <2>1, <2>4, <2>6, <2>7
      <4>2. QED BY <4>1, <2>6, <2>7, <1>1 DEF LetInOnce, IsQueued
    <3>3. QED BY <3>1, <3>2
  <2>9. LockedOut'
    BY <2>2 DEF LockedOut
  <2>10. QueueShapes'
    BY <2>1, <2>6, <2>7, <1>1 DEF QueueShapes
  <2>11. QED BY <2>6, <2>8, <2>9, <2>10 DEF QueueInv
<1>9. ASSUME NEW i \in Issues, PollAssigns(i) PROVE QueueInv'
  <2>1. /\ qPoll.pc = "idle" /\ qWork' = [qWork EXCEPT ![i] = "busy"] /\ qStarted' = Newest(i)
        /\ UNCHANGED <<qState, qIn, qLaunch, qLock, qPoll>>
    BY <1>9 DEF PollAssigns, PollOnly, Poll
  <2>2. ByAge'
    BY <2>1, <1>1, AgeKept
  <2>3. QueueShapes' /\ LetInOnce' /\ LockedOut'
    BY <2>1, <1>1 DEF QueueShapes, LetInOnce, LockedOut, IsQueued
  <2>4. QED BY <2>2, <2>3 DEF QueueInv
<1>10. ASSUME NEW i \in Issues, PollFinishes(i) PROVE QueueInv'
  <2>1. /\ qPoll.pc = "idle" /\ qState[i] # Absent /\ qState' = [qState EXCEPT ![i].complete = TRUE]
        /\ qPoll'.pc \in {"mode", "remove"} /\ qPoll' \in PollFrame /\ qPoll'.issue = i
        /\ UNCHANGED <<qStarted, qIn, qLaunch, qWork, qLock>>
    BY <1>10 DEF PollFinishes, PollOnly, Poll, NoFrame, PollFrame
  <2>2. qState[i] \in QueueEntry /\ qState'[i] = [qState[i] EXCEPT !.complete = TRUE]
    BY <2>1, <1>2
  <2>3. qState'[i] \in QueueEntry /\ qState'[i].queued = qState[i].queued
    BY <2>2 DEF QueueEntry
  <2>4. qState'[i] # Absent
    BY <2>3, QueueAssumption DEF QueueEntry
  <2>5. \A j \in Issues \ {i} : qState'[j] = qState[j]
    BY <2>1, <1>2
  <2>6. qState' \in [Issues -> QueueEntry \cup {Absent}]
    BY <2>1, <2>3, <1>2
  <2>7. ByAge'
    BY <2>1, <2>5, <1>1, AgeKept
  <2>8. LetInOnce'
    <3>1. \A j \in Issues : IsQueued(j)' => IsQueued(j)
      BY <2>1, <2>3, <2>5 DEF IsQueued
    <3>2. \A j \in qIn' : qState'[j] # Absent /\ ~qState'[j].queued
      BY <2>1, <2>3, <2>4, <2>5, <1>1, <1>2 DEF LetInOnce
    <3>3. QED BY <3>1, <3>2, <2>1, <1>1 DEF LetInOnce, IsQueued
  <2>9. QueueShapes' /\ LockedOut'
    BY <2>1, <2>6, <1>1 DEF QueueShapes, LockedOut
  <2>10. QED BY <2>7, <2>8, <2>9 DEF QueueInv
<1>11. ASSUME UNCHANGED <<qState, qStarted, qIn, qLaunch, qWork>>, qPoll' \in PollFrame,
              qPoll'.pc # "prereq", qPoll'.issue \in Issues, qLock' = FALSE
       PROVE  QueueInv'
  BY <1>11, <1>1 DEF QueueInv, QueueShapes, LetInOnce, LockedOut, ByAge, IsQueued
<1>12. ASSUME DequeueReadsMode PROVE QueueInv'
  <2>1. /\ qPoll.pc = "mode" /\ UNCHANGED <<qState, qStarted, qIn, qLaunch, qWork, qLock>>
        /\ \/ qPoll' = [qPoll EXCEPT !.pc = "lock"] \/ qPoll' = [qPoll EXCEPT !.pc = "remove"]
    BY <1>12 DEF DequeueReadsMode, PollOnly, Poll, qMemory
  <2>2. /\ qPoll' \in PollFrame /\ qPoll'.pc \in {"lock", "remove"} /\ qPoll'.issue = qPoll.issue
    BY <2>1, <1>2 DEF PollFrame
  <2>3. qPoll.issue \in Issues /\ qLock = FALSE
    BY <2>1, <1>1 DEF QueueShapes
  <2>4. QED BY <2>1, <2>2, <2>3, <1>11
<1>13. ASSUME DequeueLooks PROVE QueueInv'
  <2>1. qPoll.pc = "lock" /\ UNCHANGED <<qState, qStarted, qIn, qLaunch, qWork>>
    BY <1>13 DEF DequeueLooks, PollOnly, Poll, qMemory
  <2>2. qPoll.issue \in Issues /\ qLock = FALSE
    BY <2>1, <1>1 DEF QueueShapes
  <2>3. CASE qPoll' = [qPoll EXCEPT !.pc = "remove"] /\ UNCHANGED qLock
    <3>1. /\ qPoll' \in PollFrame /\ qPoll'.pc = "remove" /\ qPoll'.issue = qPoll.issue
      BY <2>3, <1>2 DEF PollFrame
    <3>2. QED BY <3>1, <2>1, <2>2, <2>3, <1>11
  <2>4. CASE /\ ~(count_active_pipelines_for_project(Absent) > 0) /\ qLock' = TRUE
             /\ qPoll' = [qPoll EXCEPT !.pc = "prereq", !.rest = get_queued_pipelines_for_project]
    <3>1. get_queued_pipelines_for_project = {i \in Issues : IsQueued(i)}
      BY DEF get_queued_pipelines_for_project, IsQueued
    <3>2. /\ qPoll' \in PollFrame /\ qPoll'.pc = "prereq" /\ qPoll'.issue = qPoll.issue
          /\ qPoll'.rest = {i \in Issues : IsQueued(i)}
      BY <3>1, <2>4, <1>2 DEF PollFrame
    <3>3. Unqueued = {}
      <4>1. IsFiniteSet(Unqueued \ {Absent})
        BY QueueAssumption, FS_Subset DEF Unqueued
      <4>2. Unqueued \ {Absent} = {}
        BY <4>1, <2>4, FS_CardinalityType, FS_EmptySet DEF count_active_pipelines_for_project
      <4>3. QED BY <4>2, QueueAssumption DEF Unqueued
    <3>4. qIn = {}
      BY <3>3, <1>1, <1>2 DEF LetInOnce, Unqueued
    <3>5. LockedOut'
      BY <3>2, <3>4, <2>1 DEF LockedOut, IsQueued
    <3>6. QueueShapes' /\ LetInOnce' /\ ByAge'
      BY <3>2, <3>4, <2>1, <2>2, <2>4, <1>1 DEF QueueShapes, LetInOnce, ByAge, IsQueued
    <3>7. QED BY <3>5, <3>6 DEF QueueInv
  <2>5. QED BY <1>13, <2>3, <2>4 DEF DequeueLooks
<1>14. ASSUME DequeueTries PROVE QueueInv'
  <2>1. /\ qPoll.pc = "prereq" /\ UNCHANGED <<qStarted, qLaunch, qWork>>
        /\ qPoll.issue \in Issues /\ qPoll.rest \subseteq Issues /\ qIn = {} /\ qLock = TRUE
    BY <1>14, <1>1, <1>2 DEF DequeueTries, PollOnly, Poll, QueueShapes, LockedOut, PollFrame
  <2>2. CASE qPoll' = [qPoll EXCEPT !.pc = "remove"] /\ qLock' = FALSE /\ UNCHANGED <<qState, qIn>>
    <3>1. /\ qPoll' \in PollFrame /\ qPoll'.pc = "remove" /\ qPoll'.issue = qPoll.issue
      BY <2>2, <1>2 DEF PollFrame
    <3>2. QED BY <3>1, <2>1, <2>2, <1>11
  <2>3. ASSUME NEW i \in qPoll.rest, \E p \in Prereqs[i] : ~PrereqMet(p),
               qPoll' = [qPoll EXCEPT !.rest = @ \ {i}], UNCHANGED <<qLock, qState, qIn>>
        PROVE  QueueInv'
    <3>1. /\ qPoll' \in PollFrame /\ qPoll'.pc = "prereq" /\ qPoll'.issue = qPoll.issue
          /\ qPoll'.rest = qPoll.rest \ {i}
      BY <2>3, <2>1, <1>2 DEF PollFrame
    <3>2. LockedOut'
      BY <3>1, <2>1, <2>3, <1>1 DEF LockedOut, IsQueued, PrereqMet
    <3>3. QueueShapes' /\ LetInOnce' /\ ByAge'
      BY <3>1, <2>1, <2>3, <1>1 DEF QueueShapes, LetInOnce, ByAge, IsQueued
    <3>4. QED BY <3>2, <3>3 DEF QueueInv
  <2>4. ASSUME NEW i \in qPoll.rest, qState' = [qState EXCEPT ![i].queued = FALSE], qIn' = qIn \cup {i},
               qPoll' = [qPoll EXCEPT !.pc = "remove"], qLock' = FALSE
        PROVE  QueueInv'
    <3>1. i \in Issues /\ IsQueued(i) /\ qIn' = {i} /\ qLaunch[i] = "queued"
      BY <2>1, <2>4, <1>1 DEF LockedOut, LetInOnce
    <3>2. qState[i] \in QueueEntry /\ qState'[i] = [qState[i] EXCEPT !.queued = FALSE]
      BY <3>1, <2>4, <1>2 DEF IsQueued
    <3>3. qState'[i] \in QueueEntry /\ ~qState'[i].queued
      BY <3>2 DEF QueueEntry
    <3>4. qState'[i] # Absent
      BY <3>3, QueueAssumption DEF QueueEntry
    <3>5. \A j \in Issues \ {i} : qState'[j] = qState[j]
      BY <2>4, <1>2
    <3>6. qState' \in [Issues -> QueueEntry \cup {Absent}]
      BY <3>3, <2>4, <1>2
    <3>7. /\ qPoll' \in PollFrame /\ qPoll'.pc = "remove" /\ qPoll'.issue = qPoll.issue
      BY <2>4, <1>2 DEF PollFrame
    <3>8. ByAge'
      BY <3>1, <3>5, <2>1, <1>1, AgeKept DEF IsQueued
    <3>9. \A j \in Issues : IsQueued(j)' => IsQueued(j)
      BY <3>1, <3>3, <3>5 DEF IsQueued
    <3>10. LetInOnce'
      BY <3>1, <3>3, <3>4, <3>9, <2>1, <1>1 DEF LetInOnce, IsQueued
    <3>11. QueueShapes' /\ LockedOut'
      BY <3>1, <3>6, <3>7, <2>1, <2>4, <1>1 DEF QueueShapes, LockedOut
    <3>12. QED BY <3>8, <3>10, <3>11 DEF QueueInv
  <2>5. QED BY <1>14, <2>2, <2>3, <2>4 DEF DequeueTries
<1>15. ASSUME TransitionEnds PROVE QueueInv'
  <2>0. PICK i \in Issues : i = qPoll.issue
    BY <1>15, <1>1 DEF TransitionEnds, Poll, QueueShapes
  <2>1. /\ qPoll.pc = "remove" /\ UNCHANGED <<qLaunch, qLock>> /\ qLock = FALSE
        /\ qIn' = qIn \ {i} /\ qPoll' = NoFrame
    BY <2>0, <1>15, <1>1 DEF TransitionEnds, PollOnly, Poll, QueueShapes
  <2>2. \/ /\ qState' = [qState EXCEPT ![i] = Absent] /\ UNCHANGED qStarted
           /\ \E w \in {"none", "busy"} : qWork' = [qWork EXCEPT ![i] = IF qColumn[i] = "late" THEN w ELSE "none"]
        \/ StoreNew(i, FALSE) /\ qWork' = [qWork EXCEPT ![i] = "busy"]
    BY <2>0, <1>15 DEF TransitionEnds
  <2>3. qWork' \in [Issues -> {"none", "busy"}]
    BY <2>1, <2>2, <1>2
  <2>4. /\ qState' \in [Issues -> QueueEntry \cup {Absent}] /\ ByAge' /\ ~IsQueued(i)'
        /\ \A j \in Issues \ {i} : qState'[j] = qState[j]
    <3>1. CASE qState' = [qState EXCEPT ![i] = Absent] /\ UNCHANGED qStarted
      <4>1. /\ qState' \in [Issues -> QueueEntry \cup {Absent}] /\ qState'[i] = Absent
            /\ \A j \in Issues \ {i} : qState'[j] = qState[j]
        BY <3>1, <2>1, <1>2
      <4>2. QED BY <4>1, <3>1, <2>1, <1>1, AgeKept DEF IsQueued
    <3>2. CASE StoreNew(i, FALSE)
      <4>1. /\ qState' \in [Issues -> QueueEntry \cup {Absent}] /\ ByAge'
            /\ qState'[i] = [queued |-> FALSE, complete |-> FALSE]
            /\ \A j \in Issues \ {i} : qState'[j] = qState[j]
        BY <3>2, <2>1, <1>1, StoredNew
      <4>2. QED BY <4>1 DEF IsQueued
    <3>3. QED BY <3>1, <3>2, <2>2
  <2>5. qPoll'.pc = "idle" /\ qPoll' \in PollFrame
    BY <2>1 DEF NoFrame, PollFrame
  <2>6. LetInOnce'
    <3>1. \A j \in Issues : IsQueued(j)' => IsQueued(j)
      BY <2>4 DEF IsQueued
    <3>2. \A j \in qIn' : qState'[j] # Absent /\ ~qState'[j].queued
      BY <2>1, <2>4, <1>1, <1>2 DEF LetInOnce
    <3>3. QED BY <3>1, <3>2, <2>1, <1>1 DEF LetInOnce, IsQueued
  <2>7. QueueShapes' /\ LockedOut'
    BY <2>1, <2>3, <2>4, <2>5, <1>1 DEF QueueShapes, LockedOut
  <2>8. QED BY <2>4, <2>6, <2>7 DEF QueueInv
<1>16. QED
  BY <1>3, <1>4, <1>5, <1>6, <1>7, <1>8, <1>9, <1>10, <1>12, <1>13, <1>14, <1>15
     DEF QueueNext, Polling, Launch, PollVisits

LEMMA AlwaysQueueInv == QueueSpec => []QueueInv
  BY QueueStarts, QueueKept, PTL DEF QueueSpec

(* However launches, dequeues and changes of the setting interleave, the   *)
(* queue never lets in a pipeline while one it let in before still has its *)
(* state, and the ages of the states order them (pipeline_state_store.py,  *)
(* pipeline_launcher.py, copilot_polling/pipeline.py).                     *)
THEOREM OneIsLetIn == QueueSpec => [](QueueTypeOK /\ AdmittedOne)
<1>1. QueueInv => QueueTypeOK
  BY DEF QueueInv, QueueShapes, ByAge, QueueTypeOK
<1>2. QueueInv => AdmittedOne
  <2> SUFFICES ASSUME QueueInv PROVE AdmittedOne
    OBVIOUS
  <2>1. \A i, j \in qIn : i = j
    BY DEF QueueInv, LetInOnce
  <2>2. CASE qIn = {}
    BY <2>2, FS_EmptySet DEF AdmittedOne
  <2>3. CASE qIn # {}
    <3>1. PICK i \in qIn : qIn = {i}
      BY <2>1, <2>3
    <3>2. QED BY <3>1, FS_Singleton DEF AdmittedOne
  <2>4. QED BY <2>2, <2>3
<1>3. QED BY <1>1, <1>2, AlwaysQueueInv, PTL

(* A dequeue lets in the oldest pipeline whose prerequisites are met:      *)
(* whoever waits with an older started_at lacks one (pipeline.py:62-64).   *)
THEOREM FirstInFirstOut == QueueSpec => FifoAmongWaiting
<1> DEFINE Fair == \A i, j \in Issues :
                     LetIn(i) /\ Waits(j) /\ <<j, i>> \in qStarted => \E p \in Prereqs[j] : ~PrereqMet(p)
<1>1. ASSUME QueueInv, [QueueNext]_qVars PROVE [Fair]_qVars
  <2> SUFFICES ASSUME QueueNext, NEW i \in Issues, NEW j \in Issues, LetIn(i), Waits(j), <<j, i>> \in qStarted
               PROVE  \E p \in Prereqs[j] : ~PrereqMet(p)
    BY <1>1
  <2>1. QueueShapes /\ LetInOnce /\ LockedOut /\ ByAge
    BY <1>1 DEF QueueInv
  <2>2. qPoll.pc = "prereq" /\ IsQueued(i) /\ IsQueued(j) /\ qState'[i] # qState[i] /\ qLaunch[i] = "queued"
    BY <2>1 DEF LetIn, Waits, Poll, IsQueued, LetInOnce
  <2>3. \A k \in Issues : ~PollVisits(k)
    BY <2>2 DEF PollVisits, PollReconstructs, PollAssigns, PollFinishes, Poll
  <2>4. \A k \in Issues : ~Launch(k)
    <3> SUFFICES ASSUME NEW k \in Issues, Launch(k) PROVE FALSE
      OBVIOUS
    <3>1. ~QueueGate(k)
      BY <2>1, <2>2 DEF QueueGate, LockFree, QueueShapes
    <3>2. qLaunch[k] # "queued" /\ (qState' = qState \/ StoreNew(k, FALSE))
      BY <3>1 DEF Launch, CreateParent, CreateSubIssues, AssignFirst, At, qMemory
    <3>3. qState'[i] = qState[i]
      BY <3>2, <2>1, <2>2 DEF StoreNew, QueueShapes
    <3>4. QED BY <3>3, <2>2
  <2>5. DequeueTries
    BY <2>2, <2>3, <2>4 DEF QueueNext, Polling, SetQueueMode, DequeueReadsMode, DequeueLooks, TransitionEnds, Poll, qMemory
  <2>6. PICK k \in qPoll.rest : Oldest(k, qPoll.rest) /\ qState' = [qState EXCEPT ![k].queued = FALSE]
    BY <2>2, <2>5 DEF DequeueTries
  <2>7. k = i
    BY <2>1, <2>2, <2>6 DEF QueueShapes
  <2>8. j \notin qPoll.rest
    BY <2>1, <2>6, <2>7 DEF Oldest, ByAge
  <2>9. QED BY <2>1, <2>2, <2>8 DEF LockedOut
<1>2. QED BY <1>1, AlwaysQueueInv, PTL DEF QueueSpec, FifoAmongWaiting

(* Both together: the queue lets in one at a time, in the order of arrival *)
(* (pipeline_state_store.py, copilot_polling/pipeline.py).                 *)
THEOREM QueueIsOrderly == QueueSpec => QueueKeepsOrder
BY OneIsLetIn, FirstInFirstOut, PTL DEF QueueKeepsOrder

---------------------------------------------------------------------------
(* An issue across the board.  At any time one agent is at work: those     *)
(* ahead of it have reported and those behind it are untouched, the state, *)
(* if there is one, stands for it, and the board shows its column or In    *)
(* Progress, to where the automation moved it.  An issue that went astray  *)
(* only keeps its shape: positions with their markers behind them.         *)
AgentsBefore(F) == {a \in FlowAgents : Earlier(a, F)}
AcceptedMove(F) == [status |-> 3, from |-> F[1], to |-> F[1] + 1, next |-> F[2]]
RowsUpTo(table, F) ==
    /\ DOMAIN table = FlowAgents
    /\ \A a \in FlowAgents : IF a = F \/ Earlier(a, F) THEN table[a] \in {"active", "done"} ELSE table[a] = "pending"
AssignsAt(F) == [a \in FlowAgents |-> IF Earlier(F, a) THEN 0 ELSE 1]
BoardAt(F) ==
    /\ fBoard = F[1] \/ (fBoard = 3 /\ F[1] < 3)
    /\ fSeen \in {0, F[1]} \/ (fSeen = 3 /\ fBoard = 3)
StateAt(F) ==
    \/ fState = NoPipeline
    \/ fState = NewState(F[1], F[2])
    \/ fState = AcceptedMove(F) /\ F[1] < 3 /\ fBoard = 3 /\ fSeen \in {0, 3}
AtWork(F) ==
    /\ F \in FlowAgents /\ RowsUpTo(fTable, F) /\ fTable[F] = "active" /\ fAssigns = AssignsAt(F)
    /\ fMarkers = AgentsBefore(F) \/ fMarkers = AgentsBefore(F) \cup {F}
    /\ BoardAt(F) /\ StateAt(F)
FlowFinished ==
    /\ DOMAIN fTable = FlowAgents /\ fAssigns = [a \in FlowAgents |-> 1] /\ fMarkers = FlowAgents
    /\ \A a \in FlowAgents : fTable[a] \in {"active", "done"}
    /\ fState = NoPipeline /\ fSeen \in {0, fBoard} /\ fBoard = IF fPlan[4] = 0 THEN 4 ELSE 5
NotLaunched ==
    fBoard = 0 /\ fSeen = 0 /\ fTable = <<>> /\ fMarkers = {} /\ fAssigns = <<>> /\ fState = NoPipeline
Going == NotLaunched \/ FlowFinished \/ \E F \in FlowAgents : AtWork(F)
RowsFit(table) ==
    /\ DOMAIN table = FlowAgents
    /\ \A a \in FlowAgents : table[a] \in {"pending", "active", "done"} /\ (table[a] = "done" => a \in fMarkers)
Positioned(p) ==
    /\ p \in [status: 0..4, from: 0..4, to: 0..4, next: Nat]
    /\ p.from # 0 => p.status = 3 /\ p.to > 1
    /\ AgentsOf(p) \in 1..4 /\ p.next >= 1 /\ p.next <= fPlan[AgentsOf(p)] + 1
    /\ \A k \in 1..(p.next - 1) : <<AgentsOf(p), k>> \in fMarkers
FlowShape ==
    /\ fPlan \in [1..4 -> Nat] /\ fBoard \in 0..5 /\ fSeen \in 0..5
    /\ fMarkers \subseteq FlowAgents /\ RowsFit(fTable)
    /\ fState = NoPipeline \/ Positioned(fState)
    /\ fBoard = 0 => fMarkers = {} /\ FlowAgents = {} /\ fSeen = 0
FlowInv == FlowShape /\ (fAstray \/ Going)

LEMMA AgentIs ==
  ASSUME NEW a \in FlowAgents
  PROVE  a = <<a[1], a[2]>> /\ a[1] \in 1..4 /\ a[2] \in 1..fPlan[a[1]]
  BY DEF FlowAgents, AgentsOfPlan
LEMMA AgentFrom ==
  ASSUME NEW s \in 1..4, NEW k \in 1..fPlan[s]
  PROVE  <<s, k>> \in FlowAgents
  BY DEF FlowAgents, AgentsOfPlan
LEMMA AgentsAreOrdered ==
  ASSUME fPlan \in [1..4 -> Nat], NEW a \in FlowAgents, NEW b \in FlowAgents
  PROVE  /\ a = b \/ Earlier(a, b) \/ Earlier(b, a)
         /\ ~(Earlier(a, b) /\ Earlier(b, a)) /\ ~Earlier(a, a)
<1>1. /\ a = <<a[1], a[2]>> /\ a[1] \in 1..4 /\ a[2] \in 1..fPlan[a[1]]
      /\ b = <<b[1], b[2]>> /\ b[1] \in 1..4 /\ b[2] \in 1..fPlan[b[1]]
  BY AgentIs
<1>2. a[1] \in Int /\ a[2] \in Int /\ b[1] \in Int /\ b[2] \in Int
  BY <1>1
<1>3. a[1] = b[1] /\ a[2] = b[2] => a = b
  BY <1>1
<1>4. QED BY <1>2, <1>3 DEF Earlier

(* The agent that comes next: in the same column, in the next column that  *)
(* has agents, or nowhere.                                                 *)
Follows(F, G) ==
    /\ F \in FlowAgents /\ G \in FlowAgents /\ Earlier(F, G)
    /\ \A a \in FlowAgents : Earlier(a, G) => a = F \/ Earlier(a, F)
LEMMA NextInColumn ==
  ASSUME fPlan \in [1..4 -> Nat], NEW F \in FlowAgents, F[2] + 1 <= fPlan[F[1]]
  PROVE  Follows(F, <<F[1], F[2] + 1>>)
<1>1. F = <<F[1], F[2]>> /\ F[1] \in 1..4 /\ F[2] \in 1..fPlan[F[1]] /\ fPlan[F[1]] \in Nat
  BY AgentIs
<1>2. <<F[1], F[2] + 1>> \in FlowAgents
  BY <1>1, AgentFrom
<1>3. ASSUME NEW a \in FlowAgents, Earlier(a, <<F[1], F[2] + 1>>) PROVE a = F \/ Earlier(a, F)
  <2>1. a = <<a[1], a[2]>> /\ a[1] \in 1..4 /\ a[2] \in 1..fPlan[a[1]] /\ fPlan[a[1]] \in Nat
    BY AgentIs
  <2>2. a[1] < F[1] \/ (a[1] = F[1] /\ a[2] < F[2] + 1)
    BY <1>3 DEF Earlier
  <2>3. a[1] < F[1] \/ (a[1] = F[1] /\ a[2] < F[2]) \/ (a[1] = F[1] /\ a[2] = F[2])
    BY <2>1, <2>2, <1>1
  <2>4. a[1] = F[1] /\ a[2] = F[2] => a = F
    BY <2>1, <1>1
  <2>5. QED BY <2>3, <2>4 DEF Earlier
<1>4. Earlier(F, <<F[1], F[2] + 1>>)
  BY <1>1 DEF Earlier
<1>5. QED BY <1>2, <1>3, <1>4 DEF Follows
LEMMA NextColumn ==
  ASSUME fPlan \in [1..4 -> Nat], NEW F \in FlowAgents, F[2] = fPlan[F[1]],
         NEW c \in 1..4, F[1] < c, fPlan[c] > 0, \A d \in 1..4 : F[1] < d /\ d < c => fPlan[d] = 0
  PROVE  Follows(F, <<c, 1>>)
<1>1. F = <<F[1], F[2]>> /\ F[1] \in 1..4 /\ F[2] \in 1..fPlan[F[1]] /\ fPlan[F[1]] \in Nat
  BY AgentIs
<1>2. 1 \in 1..fPlan[c]
  OBVIOUS
<1>3. <<c, 1>> \in FlowAgents
  BY <1>2, AgentFrom
<1>4. ASSUME NEW a \in FlowAgents, Earlier(a, <<c, 1>>) PROVE a = F \/ Earlier(a, F)
  <2>1. a = <<a[1], a[2]>> /\ a[1] \in 1..4 /\ a[2] \in 1..fPlan[a[1]] /\ fPlan[a[1]] \in Nat
    BY AgentIs
  <2>2. a[1] < c \/ (a[1] = c /\ a[2] < 1)
    BY <1>4 DEF Earlier
  <2>3. a[1] <= F[1]
    BY <2>1, <2>2, <1>1
  <2>4. a[1] < F[1] \/ (a[1] = F[1] /\ a[2] < F[2]) \/ (a[1] = F[1] /\ a[2] = F[2])
    BY <2>1, <2>3, <1>1
  <2>5. a[1] = F[1] /\ a[2] = F[2] => a = F
    BY <2>1, <1>1
  <2>6. QED BY <2>4, <2>5 DEF Earlier
<1>5. Earlier(F, <<c, 1>>)
  BY <1>1 DEF Earlier
<1>6. QED BY <1>3, <1>4, <1>5 DEF Follows
LEMMA NoNextColumn ==
  ASSUME fPlan \in [1..4 -> Nat], NEW F \in FlowAgents, F[2] = fPlan[F[1]],
         \A d \in 1..4 : F[1] < d => fPlan[d] = 0, NEW a \in FlowAgents
  PROVE  a = F \/ Earlier(a, F)
<1>1. F = <<F[1], F[2]>> /\ F[1] \in 1..4 /\ F[2] \in 1..fPlan[F[1]] /\ fPlan[F[1]] \in Nat
  BY AgentIs
<1>2. a = <<a[1], a[2]>> /\ a[1] \in 1..4 /\ a[2] \in 1..fPlan[a[1]] /\ fPlan[a[1]] \in Nat
  BY AgentIs
<1>3. a[1] <= F[1]
  BY <1>1, <1>2
<1>4. a[1] < F[1] \/ (a[1] = F[1] /\ a[2] < F[2]) \/ (a[1] = F[1] /\ a[2] = F[2])
  BY <1>1, <1>2, <1>3
<1>5. a[1] = F[1] /\ a[2] = F[2] => a = F
  BY <1>1, <1>2
<1>6. QED BY <1>4, <1>5 DEF Earlier

(* Where the transition goes from a column that is done: to the next one   *)
(* with agents, to In Review if there is none, and from there to Done.     *)
EffectiveStatus(to) == IF to < 4 /\ fPlan[to] = 0 THEN find_next_actionable_status(to) ELSE to
LEMMA TransitionGoes ==
  ASSUME fPlan \in [1..4 -> Nat], NEW c \in 1..4
  PROVE  LET e == EffectiveStatus(c + 1)
         IN  \/ /\ e \in 1..4 /\ c < e /\ fPlan[e] > 0 /\ \A d \in 1..4 : c < d /\ d < e => fPlan[d] = 0
             \/ /\ e = (IF fPlan[4] = 0 THEN 4 ELSE 5) /\ ~(e \in 1..4 /\ fPlan[e] > 0)
                /\ \A d \in 1..4 : c < d => fPlan[d] = 0
             \/ c = 4 /\ e = 5
<1>1. CASE c = 4
  BY <1>1 DEF EffectiveStatus
<1>2. CASE c = 3
  <2>1. EffectiveStatus(c + 1) = 4
    BY <1>2 DEF EffectiveStatus
  <2>2. QED BY <2>1, <1>2
<1>3. CASE c = 2
  <2>1. fPlan[3] > 0 => EffectiveStatus(c + 1) = 3
    BY <1>3 DEF EffectiveStatus
  <2>2. fPlan[3] = 0 => EffectiveStatus(c + 1) = 4
    BY <1>3 DEF EffectiveStatus, find_next_actionable_status
  <2>3. fPlan[3] \in Nat /\ fPlan[4] \in Nat
    OBVIOUS
  <2>4. QED BY <2>1, <2>2, <2>3, <1>3
<1>4. CASE c = 1
  <2>1. fPlan[2] > 0 => EffectiveStatus(c + 1) = 2
    BY <1>4 DEF EffectiveStatus
  <2>2. fPlan[2] = 0 => EffectiveStatus(c + 1) \in 3..4 /\ (fPlan[3] > 0 => EffectiveStatus(c + 1) = 3)
                        /\ (fPlan[3] = 0 => EffectiveStatus(c + 1) = 4)
    BY <1>4 DEF EffectiveStatus, find_next_actionable_status
  <2>3. fPlan[2] \in Nat /\ fPlan[3] \in Nat /\ fPlan[4] \in Nat
    OBVIOUS
  <2>4. QED BY <2>1, <2>2, <2>3, <1>4
<1>5. QED BY <1>1, <1>2, <1>3, <1>4

LEMMA FollowerOrder ==
  ASSUME fPlan \in [1..4 -> Nat], NEW F, NEW G, Follows(F, G), NEW a \in FlowAgents
  PROVE  /\ Earlier(a, G) <=> a = F \/ Earlier(a, F)
         /\ Earlier(G, a) <=> Earlier(F, a) /\ a # G
<1>1. F \in FlowAgents /\ G \in FlowAgents /\ Earlier(F, G) /\ (Earlier(a, G) => a = F \/ Earlier(a, F))
  BY DEF Follows
<1>2. /\ a[1] \in Int /\ a[2] \in Int /\ F[1] \in Int /\ F[2] \in Int /\ G[1] \in Int /\ G[2] \in Int
  BY <1>1, AgentIs
<1>3. (Earlier(a, F) => Earlier(a, G)) /\ (Earlier(G, a) => Earlier(F, a))
  BY <1>1, <1>2 DEF Earlier
<1>4. /\ a = G \/ Earlier(a, G) \/ Earlier(G, a)
      /\ ~(Earlier(F, a) /\ Earlier(a, F)) /\ ~Earlier(F, F) /\ ~Earlier(G, G)
  BY <1>1, AgentsAreOrdered
<1>5. QED BY <1>1, <1>3, <1>4

(* The agent at work has reported and the next one is assigned.            *)
LEMMA DispatchFollows ==
  ASSUME fPlan \in [1..4 -> Nat], NEW F, NEW G, Follows(F, G), NEW table, RowsUpTo(table, F),
         fAssigns = AssignsAt(F), fMarkers = AgentsBefore(F) \cup {F},
         Dispatch(G[1], G[2], table), fPlan' = fPlan, fMarkers' = fMarkers
  PROVE  /\ G \in FlowAgents' /\ RowsUpTo(fTable, G)' /\ fTable'[G] = "active" /\ fAssigns' = AssignsAt(G)'
         /\ fMarkers' = AgentsBefore(G)'
<1>1. F \in FlowAgents /\ G \in FlowAgents /\ FlowAgents' = FlowAgents /\ Earlier(F, G)
  BY DEF Follows, FlowAgents
<1>2. \A a \in FlowAgents : /\ Earlier(a, G) <=> a = F \/ Earlier(a, F)
                            /\ Earlier(G, a) <=> Earlier(F, a) /\ a # G
  BY FollowerOrder
<1>3. F # G /\ ~Earlier(G, F) /\ ~Earlier(G, G) /\ ~Earlier(F, F)
  BY <1>1, AgentsAreOrdered
<1>4. G = <<G[1], G[2]>>
  BY <1>1, AgentIs
<1>5. fTable' = [table EXCEPT ![G] = "active"] /\ fAssigns' = [fAssigns EXCEPT ![G] = @ + 1]
  BY <1>4 DEF Dispatch
<1>6. DOMAIN fTable' = FlowAgents /\ fTable'[G] = "active" /\ \A a \in FlowAgents : a # G => fTable'[a] = table[a]
  BY <1>1, <1>5 DEF RowsUpTo
<1>7. \A a \in FlowAgents : IF a = G \/ Earlier(a, G) THEN fTable'[a] \in {"active", "done"} ELSE fTable'[a] = "pending"
  BY <1>2, <1>6 DEF RowsUpTo
<1>8. fAssigns' = [a \in FlowAgents |-> IF Earlier(G, a) THEN 0 ELSE 1]
  <2>1. fAssigns' = [a \in FlowAgents |-> fAssigns'[a]]
    BY <1>5 DEF AssignsAt
  <2>2. fAssigns[G] = 0
    BY <1>1 DEF AssignsAt
  <2>3. ASSUME NEW a \in FlowAgents PROVE fAssigns'[a] = IF Earlier(G, a) THEN 0 ELSE 1
    BY <1>1, <1>2, <1>3, <1>5, <2>2 DEF AssignsAt
  <2>4. QED BY <2>1, <2>3
<1>9. fMarkers' = {a \in FlowAgents : Earlier(a, G)}
  BY <1>1, <1>2 DEF AgentsBefore
<1>10. QED BY <1>1, <1>6, <1>7, <1>8, <1>9 DEF RowsUpTo, AssignsAt, AgentsBefore

(* The states that stand for an agent.                                     *)
StandsFor(p, F) == p = NewState(F[1], F[2]) \/ (p = AcceptedMove(F) /\ F[1] < 3)
LEMMA StateStands ==
  ASSUME fPlan \in [1..4 -> Nat], NEW F \in FlowAgents, NEW p, StandsFor(p, F)
  PROVE  /\ AgentsOf(p) = F[1] /\ p.next = F[2] /\ Current(p) = F /\ ~is_complete(p)
         /\ LET q == [p EXCEPT !.next = @ + 1]
            IN  AgentsOf(q) = F[1] /\ q.next = F[2] + 1 /\ (is_complete(q) <=> F[2] = fPlan[F[1]])
<1>1. F = <<F[1], F[2]>> /\ F[1] \in 1..4 /\ F[2] \in 1..fPlan[F[1]] /\ fPlan[F[1]] \in Nat
  BY AgentIs
<1>2. AgentsOf(p) = F[1] /\ p.next = F[2]
  BY <1>1 DEF StandsFor, AcceptedMove, NewState, AgentsOf
<1>3. AgentsOf([p EXCEPT !.next = @ + 1]) = F[1] /\ [p EXCEPT !.next = @ + 1].next = F[2] + 1
  BY <1>1 DEF StandsFor, AcceptedMove, NewState, AgentsOf
<1>4. QED BY <1>1, <1>2, <1>3 DEF Current, is_complete

(* The last agent of a column has reported: the first of the next column   *)
(* that has agents comes next, or the issue is finished.                   *)
LEMMA ColumnEnds ==
  ASSUME fPlan \in [1..4 -> Nat], NEW F, AtWork(F), F \in fMarkers, F[2] = fPlan[F[1]],
         NEW table, RowsUpTo(table, F), NEW p, NEW drops \in BOOLEAN,
         _transition_after_pipeline_complete(p, F[1] + 1, table, drops),
         fPlan' = fPlan, fMarkers' = fMarkers, fSeen' = 0
  PROVE  Going'
<1> DEFINE e == EffectiveStatus(F[1] + 1)
<1>1. /\ F \in FlowAgents /\ fAssigns = AssignsAt(F) /\ fMarkers = AgentsBefore(F) \cup {F} /\ FlowAgents' = FlowAgents
  BY DEF AtWork, FlowAgents
<1>2. F = <<F[1], F[2]>> /\ F[1] \in 1..4 /\ F[2] \in 1..fPlan[F[1]] /\ fPlan[F[1]] \in Nat
  BY <1>1, AgentIs
<1>3. /\ fBoard' = e
      /\ IF Assignable(e, 1)
         THEN Dispatch(e, 1, table) /\ fState' = IF drops THEN NoPipeline ELSE NewState(e, 1)
         ELSE fTable' = table /\ fState' = NoPipeline /\ UNCHANGED fAssigns
  BY DEF _transition_after_pipeline_complete, EffectiveStatus
<1>4. \/ /\ e \in 1..4 /\ F[1] < e /\ fPlan[e] > 0 /\ \A d \in 1..4 : F[1] < d /\ d < e => fPlan[d] = 0
      \/ /\ e = (IF fPlan[4] = 0 THEN 4 ELSE 5) /\ ~(e \in 1..4 /\ fPlan[e] > 0)
         /\ \A d \in 1..4 : F[1] < d => fPlan[d] = 0
      \/ F[1] = 4 /\ e = 5
  BY <1>2, TransitionGoes
<1> HIDE DEF e
<1>5. CASE /\ e \in 1..4 /\ F[1] < e /\ fPlan[e] > 0 /\ \A d \in 1..4 : F[1] < d /\ d < e => fPlan[d] = 0
  <2>0. PICK c \in 1..4 : c = e
    BY <1>5
  <2> DEFINE G == <<c, 1>>
  <2>1. Follows(F, G)
    BY <2>0, <1>1, <1>5, NextColumn
  <2>2. fPlan[c] \in Nat /\ fPlan[c] > 0
    BY <2>0, <1>5
  <2>3. Assignable(e, 1)
    BY <2>0, <2>2 DEF Assignable
  <2>4. fBoard' = c /\ Dispatch(c, 1, table) /\ (fState' = NoPipeline \/ fState' = NewState(c, 1))
    BY <2>0, <2>3, <1>3
  <2>5. G \in FlowAgents' /\ RowsUpTo(fTable, G)' /\ fTable'[G] = "active" /\ fAssigns' = AssignsAt(G)'
        /\ fMarkers' = AgentsBefore(G)'
    BY <2>1, <2>4, <1>1, DispatchFollows
  <2>6. BoardAt(G)' /\ StateAt(G)'
    BY <2>4 DEF BoardAt, StateAt
  <2> HIDE DEF G
  <2>7. AtWork(G)'
    BY <2>5, <2>6 DEF AtWork
  <2>8. QED BY <2>5, <2>7 DEF Going
<1>6. CASE /\ e = (IF fPlan[4] = 0 THEN 4 ELSE 5) /\ ~(e \in 1..4 /\ fPlan[e] > 0)
           /\ \A d \in 1..4 : F[1] < d => fPlan[d] = 0
  <2>1. \A a \in FlowAgents : a = F \/ Earlier(a, F)
    BY <1>1, <1>6, NoNextColumn
  <2>2. \A a \in FlowAgents : ~Earlier(F, a)
    BY <2>1, <1>1, AgentsAreOrdered
  <2>3. ~Assignable(e, 1)
    <3>1. e \in 1..4 => fPlan[e] \in Nat
      OBVIOUS
    <3>2. QED BY <3>1, <1>6 DEF Assignable
  <2>4. fTable' = table /\ fState' = NoPipeline /\ fAssigns' = fAssigns
    BY <2>3, <1>3
  <2>5. DOMAIN fTable' = FlowAgents /\ \A a \in FlowAgents : fTable'[a] \in {"active", "done"}
    BY <2>1, <2>4 DEF RowsUpTo
  <2>6. fAssigns' = [a \in FlowAgents |-> 1]
    BY <2>2, <2>4, <1>1 DEF AssignsAt
  <2>7. fMarkers' = FlowAgents
    BY <2>1, <1>1 DEF AgentsBefore
  <2>8. FlowFinished'
    BY <2>4, <2>5, <2>6, <2>7, <1>1, <1>3, <1>6 DEF FlowFinished
  <2>9. QED BY <2>8 DEF Going
<1>7. CASE F[1] = 4 /\ e = 5
  <2>1. fPlan[4] # 0
    BY <1>7, <1>2
  <2>2. QED BY <2>1, <1>6, <1>7
<1>8. QED BY <1>4, <1>5, <1>6, <1>7

LEMMA AdvanceGoesOn ==
  ASSUME fPlan \in [1..4 -> Nat], NEW F, AtWork(F), F \in fMarkers, NEW p, StandsFor(p, F),
         _advance_pipeline(p, F[1] + 1), fPlan' = fPlan, fMarkers' = fMarkers, fSeen' = 0
  PROVE  Going'
<1> DEFINE q == [p EXCEPT !.next = @ + 1]
<1>1. /\ F \in FlowAgents /\ RowsUpTo(fTable, F) /\ fAssigns = AssignsAt(F)
      /\ fMarkers = AgentsBefore(F) \cup {F} /\ FlowAgents' = FlowAgents
  BY DEF AtWork, FlowAgents
<1>2. F = <<F[1], F[2]>> /\ F[1] \in 1..4 /\ F[2] \in 1..fPlan[F[1]] /\ fPlan[F[1]] \in Nat
  BY <1>1, AgentIs
<1>3. /\ AgentsOf(p) = F[1] /\ Current(p) = F /\ q.next = F[2] + 1
      /\ is_complete(q) <=> F[2] = fPlan[F[1]]
  BY <1>1, StateStands
<1>4. RowsUpTo(MarkDone(F), F)
  BY <1>1 DEF RowsUpTo, MarkDone
<1>5. CASE F[2] + 1 <= fPlan[F[1]]
  <2> DEFINE G == <<F[1], F[2] + 1>>
  <2>1. Follows(F, G)
    BY <1>1, <1>5, NextInColumn
  <2>2. fBoard' = fBoard /\ Dispatch(F[1], F[2] + 1, MarkDone(F)) /\ fState' = NewState(F[1], F[2] + 1)
    <3>1. ~is_complete(q)
      BY <1>2, <1>3, <1>5
    <3>2. fBoard' = fBoard /\ Dispatch(AgentsOf(p), q.next, MarkDone(Current(p))) /\ fState' = NewState(AgentsOf(p), q.next)
      BY <3>1 DEF _advance_pipeline
    <3>3. QED BY <3>2, <1>3
  <2>3. G \in FlowAgents' /\ RowsUpTo(fTable, G)' /\ fTable'[G] = "active" /\ fAssigns' = AssignsAt(G)'
        /\ fMarkers' = AgentsBefore(G)'
    BY <2>1, <2>2, <1>1, <1>4, DispatchFollows
  <2>4. BoardAt(G)' /\ StateAt(G)'
    BY <2>2 DEF AtWork, BoardAt, StateAt
  <2> HIDE DEF G
  <2>5. AtWork(G)'
    BY <2>3, <2>4 DEF AtWork
  <2>6. QED BY <2>3, <2>5 DEF Going
<1>6. CASE ~(F[2] + 1 <= fPlan[F[1]])
  <2>1. F[2] = fPlan[F[1]]
    BY <1>2, <1>6
  <2>2. _transition_after_pipeline_complete(p, F[1] + 1, MarkDone(F), TRUE)
    BY <2>1, <1>3 DEF _advance_pipeline
  <2>3. QED BY <2>1, <2>2, <1>4, ColumnEnds
<1>7. QED BY <1>5, <1>6

(* A check handler that is given a state for the agent at work, or one that*)
(* was rebuilt after that agent had reported.                              *)
LEMMA ProcessKept ==
  ASSUME fPlan \in [1..4 -> Nat], NEW F, AtWork(F), NEW p, StandsFor(p, F), p = NewState(F[1], F[2]) \/ fBoard = 3,
         NEW from, NEW to, F \in fMarkers => to = F[1] + 1,
         _process_pipeline_completion(p, from, to), fPlan' = fPlan, fMarkers' = fMarkers, fSeen' = 0
  PROVE  Going'
<1>1. F \in FlowAgents /\ FlowAgents' = FlowAgents /\ RowsUpTo(fTable, F) /\ fTable[F] = "active"
  BY DEF AtWork, FlowAgents
<1>2. AgentsOf(p) = F[1] /\ Current(p) = F /\ ~is_complete(p)
  BY <1>1, StateStands
<1>3. CASE F \in fMarkers
  <2>1. _advance_pipeline(p, F[1] + 1)
    BY <1>2, <1>3 DEF _process_pipeline_completion
  <2>2. QED BY <2>1, <1>3, AdvanceGoesOn
<1>4. CASE F \notin fMarkers
  <2>1. fState' = p /\ UNCHANGED <<fBoard, fTable, fAssigns>>
    BY <1>1, <1>2, <1>4 DEF _process_pipeline_completion
  <2>2. BoardAt(F)' /\ StateAt(F)'
    BY <2>1 DEF AtWork, BoardAt, StateAt, StandsFor, NewState, AcceptedMove
  <2>3. RowsUpTo(fTable, F)' /\ fTable'[F] = "active" /\ fAssigns' = AssignsAt(F)' /\ fMarkers' = AgentsBefore(F)'
    BY <2>1, <1>1, <1>4 DEF AtWork, RowsUpTo, AssignsAt, AgentsBefore
  <2>4. AtWork(F)'
    BY <2>2, <2>3, <1>1 DEF AtWork
  <2>5. QED BY <2>4, <1>1 DEF Going
<1>5. QED BY <1>3, <1>4
LEMMA ReportedKept ==
  ASSUME fPlan \in [1..4 -> Nat], NEW F, AtWork(F), F \in fMarkers,
         _process_pipeline_completion(NewState(F[1], F[2] + 1), F[1], F[1] + 1),
         fPlan' = fPlan, fMarkers' = fMarkers, fSeen' = 0
  PROVE  Going'
<1> DEFINE p == NewState(F[1], F[2] + 1)
           G == <<F[1], F[2] + 1>>
<1>1. /\ F \in FlowAgents /\ FlowAgents' = FlowAgents /\ RowsUpTo(fTable, F) /\ fAssigns = AssignsAt(F)
      /\ fMarkers = AgentsBefore(F) \cup {F} /\ BoardAt(F)
  BY DEF AtWork, FlowAgents
<1>2. F = <<F[1], F[2]>> /\ F[1] \in 1..4 /\ F[2] \in 1..fPlan[F[1]] /\ fPlan[F[1]] \in Nat
  BY <1>1, AgentIs
<1>3. p.from = 0 /\ p.next = F[2] + 1 /\ AgentsOf(p) = F[1] /\ Current(p) = G /\ (is_complete(p) <=> F[2] = fPlan[F[1]])
  BY <1>2 DEF NewState, AgentsOf, Current, is_complete
<1> HIDE DEF p
<1>4. CASE F[2] = fPlan[F[1]]
  <2>1. _transition_after_pipeline_complete(p, F[1] + 1, AllDoneIn(p), FALSE)
    BY <1>3, <1>4 DEF _process_pipeline_completion, p
  <2>2. ASSUME NEW a \in FlowAgents, a[1] = F[1] PROVE a = F \/ Earlier(a, F)
    <3>1. a = <<a[1], a[2]>> /\ a[2] \in 1..fPlan[F[1]]
      BY <2>2, AgentIs
    <3>2. a[2] < F[2] \/ a[2] = F[2]
      BY <3>1, <1>2, <1>4
    <3>3. QED BY <3>1, <3>2, <2>2, <1>2 DEF Earlier
  <2>3. DOMAIN AllDoneIn(p) = FlowAgents
        /\ \A a \in FlowAgents : AllDoneIn(p)[a] = IF a[1] = F[1] THEN "done" ELSE fTable[a]
    BY <1>1, <1>3 DEF AllDoneIn, RowsUpTo
  <2>4. RowsUpTo(AllDoneIn(p), F)
    BY <2>2, <2>3, <1>1 DEF RowsUpTo
  <2>5. QED BY <2>1, <2>4, <1>4, ColumnEnds
<1>5. CASE F[2] # fPlan[F[1]]
  <2>1. F[2] + 1 <= fPlan[F[1]]
    BY <1>2, <1>5
  <2>2. Follows(F, G)
    BY <2>1, <1>1, NextInColumn
  <2>3. G \in FlowAgents /\ G # F /\ ~Earlier(G, F)
    BY <2>2, <1>1, AgentsAreOrdered DEF Follows
  <2>4. G \notin fMarkers /\ fTable[G] = "pending"
    BY <2>3, <1>1 DEF AgentsBefore, RowsUpTo
  <2>5. RecoverAssign(p, F[1])
    BY <2>4, <1>3, <1>5 DEF _process_pipeline_completion, p
  <2>6. Assignable(F[1], F[2] + 1)
    BY <2>1, <1>2 DEF Assignable
  <2>7. fState' = p /\ fBoard' = fBoard /\ Dispatch(F[1], F[2] + 1, fTable)
    BY <2>5, <2>6, <1>3 DEF RecoverAssign
  <2>8. G \in FlowAgents' /\ RowsUpTo(fTable, G)' /\ fTable'[G] = "active" /\ fAssigns' = AssignsAt(G)'
        /\ fMarkers' = AgentsBefore(G)'
    BY <2>2, <2>7, <1>1, DispatchFollows
  <2>9. BoardAt(G)' /\ StateAt(G)'
    BY <2>7, <1>1 DEF BoardAt, StateAt, p
  <2> HIDE DEF G
  <2>10. AtWork(G)'
    BY <2>8, <2>9 DEF AtWork
  <2>11. QED BY <2>8, <2>10 DEF Going
<1>6. QED BY <1>4, <1>5

(* A state that is rebuilt: of the earliest column with an open row, at its*)
(* first position without a marker.                                        *)
LEMMA ReconstructIs ==
  ASSUME fPlan \in [1..4 -> Nat], NEW c \in 1..4, NEW n \in 1..(fPlan[c] + 1),
         <<c, n>> \notin fMarkers \/ n = fPlan[c] + 1, \A j \in 1..(n - 1) : <<c, j>> \in fMarkers
  PROVE  _reconstruct_pipeline_state(c) = NewState(c, n)
<1> DEFINE P(k) == /\ <<c, k>> \notin fMarkers \/ k = fPlan[c] + 1
                   /\ \A j \in 1..(k - 1) : <<c, j>> \in fMarkers
<1>1. fPlan[c] \in Nat /\ P(n)
  OBVIOUS
<1>2. ASSUME NEW k \in 1..(fPlan[c] + 1), P(k) PROVE k = n
  <2>1. CASE k < n
    <3>1. k \in 1..(n - 1) /\ k # fPlan[c] + 1
      BY <1>1, <2>1
    <3>2. QED BY <3>1, <1>2
  <2>2. CASE k > n
    <3>1. n \in 1..(k - 1) /\ n # fPlan[c] + 1
      BY <1>1, <2>2
    <3>2. QED BY <3>1, <1>2
  <2>3. QED BY <2>1, <2>2, <1>1
<1>3. _reconstruct_pipeline_state(c) = NewState(c, CHOOSE k \in 1..(fPlan[c] + 1) : P(k))
  BY DEF _reconstruct_pipeline_state
<1> HIDE DEF P
<1>4. (CHOOSE k \in 1..(fPlan[c] + 1) : P(k)) = n
  BY <1>1, <1>2
<1>5. QED BY <1>3, <1>4
LEMMA ReconstructExists ==
  ASSUME fPlan \in [1..4 -> Nat], NEW c \in 1..4
  PROVE  \E n \in 1..(fPlan[c] + 1) : /\ _reconstruct_pipeline_state(c) = NewState(c, n)
                                      /\ \A j \in 1..(n - 1) : <<c, j>> \in fMarkers
<1> DEFINE open == {k \in 1..(fPlan[c] + 1) : <<c, k>> \notin fMarkers \/ k = fPlan[c] + 1}
<1>1. fPlan[c] \in Nat
  OBVIOUS
<1>2. open \subseteq Nat /\ open # {}
  <2>1. fPlan[c] + 1 \in open
    BY <1>1
  <2>2. QED BY <2>1
<1> HIDE DEF open
<1>3. PICK n \in open : \A m \in open : n <= m
  BY <1>2, LeastNumberIs
<1> USE DEF open
<1>4. n \in 1..(fPlan[c] + 1) /\ (<<c, n>> \notin fMarkers \/ n = fPlan[c] + 1)
  BY <1>3
<1>5. ASSUME NEW j \in 1..(n - 1) PROVE <<c, j>> \in fMarkers
  <2>1. j \in 1..(fPlan[c] + 1) /\ ~(n <= j)
    BY <1>1, <1>4
  <2>2. j \notin open
    BY <2>1, <1>3
  <2>3. QED BY <2>1, <2>2
<1>6. _reconstruct_pipeline_state(c) = NewState(c, n)
  BY <1>4, <1>5, ReconstructIs
<1>7. QED BY <1>4, <1>5, <1>6
LEMMA EarliestColumn ==
  ASSUME fPlan \in [1..4 -> Nat], NEW s \in 1..4
  PROVE  /\ RebuildStatus(s) \in 1..4
         /\ (\E a \in Incomplete : a[1] = s) =>
              /\ RebuildStatus(s) \in 1..s
              /\ \E a \in Incomplete : a[1] = RebuildStatus(s)
              /\ \A a \in Incomplete : a[1] >= RebuildStatus(s)
<1>1. CASE ~\E a \in Incomplete : a[1] = s
  BY <1>1 DEF RebuildStatus
<1>2. CASE \E a \in Incomplete : a[1] = s
  <2> DEFINE columns == {a[1] : a \in Incomplete}
             P(e) == /\ \E a \in Incomplete : a[1] = e
                     /\ \A a \in Incomplete : a[1] >= e
  <2>1. \A a \in Incomplete : a[1] \in 1..4
    BY AgentIs DEF Incomplete
  <2>2. columns \subseteq Nat /\ columns # {} /\ s \in columns
    BY <1>2, <2>1
  <2> HIDE DEF columns
  <2>3. PICK e \in columns : \A m \in columns : e <= m
    BY <2>2, LeastNumberIs
  <2> USE DEF columns
  <2>4. e \in 1..s /\ P(e)
    BY <2>1, <2>2, <2>3
  <2>5. RebuildStatus(s) = CHOOSE c \in 1..s : P(c)
    BY <1>2 DEF RebuildStatus
  <2> HIDE DEF P
  <2>6. RebuildStatus(s) \in 1..s /\ P(RebuildStatus(s))
    BY <2>4, <2>5
  <2> USE DEF P
  <2>7. QED BY <2>6, <1>2
<1>3. QED BY <1>1, <1>2
LEMMA RebuiltStands ==
  ASSUME FlowShape, NEW F, AtWork(F), NEW s \in 1..4, s = F[1] \/ (F[1] < s /\ fPlan[s] > 0)
  PROVE  LET p == _reconstruct_pipeline_state(RebuildStatus(s))
         IN  \/ p = NewState(F[1], IF F \in fMarkers THEN F[2] + 1 ELSE F[2])
             \/ p.from = 0 /\ p.status < F[1] /\ is_complete(p) /\ fPlan[AgentsOf(p)] # 0
<1>1. /\ fPlan \in [1..4 -> Nat] /\ F \in FlowAgents /\ RowsUpTo(fTable, F) /\ fTable[F] = "active"
      /\ fMarkers = AgentsBefore(F) \/ fMarkers = AgentsBefore(F) \cup {F}
  BY DEF FlowShape, AtWork
<1>2. F = <<F[1], F[2]>> /\ F[1] \in 1..4 /\ F[2] \in 1..fPlan[F[1]] /\ fPlan[F[1]] \in Nat
  BY <1>1, AgentIs
<1>3. F \in Incomplete
  BY <1>1 DEF Incomplete
<1>4. \E a \in Incomplete : a[1] = s
  <2>1. CASE s = F[1]
    BY <2>1, <1>3
  <2>2. CASE F[1] < s /\ fPlan[s] > 0
    <3>1. 1 \in 1..fPlan[s]
      BY <2>2, <1>1
    <3>2. <<s, 1>> \in FlowAgents
      BY <3>1, AgentFrom
    <3>3. Earlier(F, <<s, 1>>)
      BY <2>2 DEF Earlier
    <3>4. <<s, 1>> # F /\ ~Earlier(<<s, 1>>, F)
      BY <3>2, <3>3, <1>1, AgentsAreOrdered
    <3>5. fTable[<<s, 1>>] = "pending"
      BY <3>2, <3>4, <1>1 DEF RowsUpTo
    <3>6. QED BY <3>2, <3>5 DEF Incomplete
  <2>3. QED BY <2>1, <2>2
<1>5. PICK e \in 1..4 : e = RebuildStatus(s)
  BY <1>1, EarliestColumn
<1>6. e <= F[1] /\ \E a \in Incomplete : a[1] = e
  BY <1>1, <1>3, <1>4, <1>5, EarliestColumn
<1>7. CASE e = F[1]
  <2> DEFINE n == IF F \in fMarkers THEN F[2] + 1 ELSE F[2]
  <2>1. n \in 1..(fPlan[F[1]] + 1)
    BY <1>2
  <2>2. ASSUME NEW j \in 1..(n - 1) PROVE <<F[1], j>> \in fMarkers
    <3>1. j \in 1..fPlan[F[1]] /\ (j < F[2] \/ (j = F[2] /\ F \in fMarkers))
      BY <1>2
    <3>2. <<F[1], j>> \in FlowAgents
      BY <3>1, <1>2, AgentFrom
    <3>3. CASE j < F[2]
      <4>1. Earlier(<<F[1], j>>, F)
        BY <3>3 DEF Earlier
      <4>2. QED BY <4>1, <3>2, <1>1 DEF AgentsBefore
    <3>4. CASE j = F[2] /\ F \in fMarkers
      BY <3>4, <1>2
    <3>5. QED BY <3>1, <3>3, <3>4
  <2>3. <<F[1], n>> \notin fMarkers \/ n = fPlan[F[1]] + 1
    <3>1. CASE F \notin fMarkers
      BY <3>1, <1>2
    <3>2. CASE F \in fMarkers /\ F[2] # fPlan[F[1]]
      <4>1. Follows(F, <<F[1], F[2] + 1>>)
        BY <3>2, <1>1, <1>2, NextInColumn
      <4>2. <<F[1], F[2] + 1>> # F /\ ~Earlier(<<F[1], F[2] + 1>>, F)
        BY <4>1, <1>1, AgentsAreOrdered DEF Follows
      <4>3. QED BY <4>2, <3>2, <1>1 DEF AgentsBefore
    <3>3. CASE F \in fMarkers /\ F[2] = fPlan[F[1]]
      BY <3>3
    <3>4. QED BY <3>1, <3>2, <3>3
  <2> HIDE DEF n
  <2>4. _reconstruct_pipeline_state(F[1]) = NewState(F[1], n)
    BY <2>1, <2>2, <2>3, <1>1, <1>2, ReconstructIs
  <2>5. QED BY <2>4, <1>5, <1>7 DEF n
<1>8. CASE e < F[1]
  <2>1. fPlan[e] \in Nat /\ fPlan[e] # 0
    <3>1. PICK a \in FlowAgents : a[1] = e
      BY <1>6 DEF Incomplete
    <3>2. a[2] \in 1..fPlan[e] /\ fPlan[e] \in Nat
      BY <3>1, <1>1, AgentIs
    <3>3. QED BY <3>2
  <2>2. ASSUME NEW j \in 1..fPlan[e] PROVE <<e, j>> \in fMarkers
    <3>1. <<e, j>> \in FlowAgents
      BY AgentFrom
    <3>2. Earlier(<<e, j>>, F)
      BY <1>8 DEF Earlier
    <3>3. QED BY <3>1, <3>2, <1>1 DEF AgentsBefore
  <2>3. \A j \in 1..((fPlan[e] + 1) - 1) : <<e, j>> \in fMarkers
    BY <2>1, <2>2
  <2>4. fPlan[e] + 1 \in 1..(fPlan[e] + 1)
    BY <2>1
  <2>5. _reconstruct_pipeline_state(e) = NewState(e, fPlan[e] + 1)
    BY <2>3, <2>4, <1>1, ReconstructIs
  <2>6. QED BY <2>1, <2>5, <1>5, <1>8 DEF NewState, AgentsOf, is_complete
<1>9. QED BY <1>6, <1>7, <1>8, <1>2

(* Used in a column that it was not made for, such a state leads astray.   *)
LEMMA StrayedKept ==
  ASSUME FlowShape, NEW F, AtWork(F), NEW p,
         \/ p = NewState(F[1], IF F \in fMarkers THEN F[2] + 1 ELSE F[2]) /\ fSeen # F[1]
         \/ p.from = 0 /\ p.status # fSeen /\ is_complete(p),
         NEW from, NEW to, _process_pipeline_completion(p, from, to), fPlan' = fPlan, fMarkers' = fMarkers, fSeen' = 0
  PROVE  fAstray' \/ Going'
<1>1. /\ fPlan \in [1..4 -> Nat] /\ F \in FlowAgents /\ RowsUpTo(fTable, F)
      /\ fMarkers = AgentsBefore(F) \/ fMarkers = AgentsBefore(F) \cup {F}
  BY DEF FlowShape, AtWork
<1>2. F = <<F[1], F[2]>> /\ F[1] \in 1..4 /\ F[2] \in 1..fPlan[F[1]] /\ fPlan[F[1]] \in Nat
  BY <1>1, AgentIs
<1>3. ASSUME is_complete(p), Strays(p) PROVE fAstray'
  BY <1>3 DEF _process_pipeline_completion, _transition_after_pipeline_complete
<1>4. CASE p = NewState(F[1], F[2]) /\ F \notin fMarkers
  <2>1. StandsFor(p, F)
    BY <1>4 DEF StandsFor
  <2>2. QED BY <2>1, <1>1, <1>4, ProcessKept
<1>5. CASE p = NewState(F[1], F[2] + 1) /\ F \in fMarkers /\ fSeen # F[1]
  <2> DEFINE G == <<F[1], F[2] + 1>>
  <2>1. p.from = 0 /\ Current(p) = G /\ Strays(p) /\ (is_complete(p) <=> F[2] = fPlan[F[1]])
    BY <1>2, <1>5 DEF NewState, AgentsOf, Current, Strays, is_complete
  <2>2. CASE F[2] # fPlan[F[1]]
    <3>1. Follows(F, G)
      BY <2>2, <1>1, <1>2, NextInColumn
    <3>2. G \in FlowAgents /\ G # F /\ ~Earlier(G, F)
      BY <3>1, <1>1, AgentsAreOrdered DEF Follows
    <3>3. G \notin fMarkers /\ fTable[G] # "active"
      BY <3>2, <1>1 DEF AgentsBefore, RowsUpTo
    <3>4. RecoverAssign(p, from)
      BY <3>3, <2>1, <2>2 DEF _process_pipeline_completion
    <3>5. QED BY <3>4, <2>1 DEF RecoverAssign
  <2>3. QED BY <2>1, <2>2, <1>3
<1>6. CASE p.from = 0 /\ p.status # fSeen /\ is_complete(p)
  BY <1>3, <1>6 DEF Strays
<1>7. QED BY <1>4, <1>5, <1>6

(* The check handlers while an agent is at work.                           *)
LEMMA HandlersKept == FlowShape /\ (\E F \in FlowAgents : AtWork(F)) /\ CheckHandlers => fAstray' \/ Going'
<1> SUFFICES ASSUME FlowShape, NEW F \in FlowAgents, AtWork(F), CheckHandlers PROVE fAstray' \/ Going'
  OBVIOUS
<1>1. fPlan \in [1..4 -> Nat]
  BY DEF FlowShape
<1>2. F = <<F[1], F[2]>> /\ F[1] \in 1..4 /\ F[2] \in 1..fPlan[F[1]] /\ fPlan[F[1]] \in Nat /\ fPlan[F[1]] # 0
  BY <1>1, AgentIs
<1>3. /\ BoardAt(F) /\ StateAt(F)
      /\ NoPipeline # NewState(F[1], F[2]) /\ NoPipeline # AcceptedMove(F)
  BY <1>2 DEF AtWork, NoPipeline, NewState, AcceptedMove
<1>4. ASSUME fState # NoPipeline
      PROVE  StandsFor(fState, F) /\ AgentsOf(fState) = F[1] /\ ~is_complete(fState)
             /\ (fState = NewState(F[1], F[2]) \/ fBoard = 3)
  <2>1. StandsFor(fState, F) /\ (fState = NewState(F[1], F[2]) \/ fBoard = 3)
    BY <1>4, <1>3 DEF StateAt, StandsFor
  <2>2. QED BY <2>1, <1>1, StateStands
(* A state that is rebuilt, for the column that was seen.                  *)
<1>5. ASSUME NEW s \in 1..4, fSeen = s, s = F[1] \/ (F[1] < s /\ fPlan[s] > 0), NEW p,
             p = _reconstruct_pipeline_state(RebuildStatus(s)), fSeen' = 0, fPlan' = fPlan, fMarkers' = fMarkers,
             fPlan[AgentsOf(p)] # 0 => _process_pipeline_completion(p, s, s + 1)
      PROVE  fAstray' \/ Going'
  <2>1. \/ p = NewState(F[1], IF F \in fMarkers THEN F[2] + 1 ELSE F[2])
        \/ p.from = 0 /\ p.status < F[1] /\ is_complete(p) /\ fPlan[AgentsOf(p)] # 0
    BY <1>5, RebuiltStands
  <2>2. CASE p = NewState(F[1], IF F \in fMarkers THEN F[2] + 1 ELSE F[2])
    <3>1. AgentsOf(p) = F[1]
      BY <2>2 DEF NewState, AgentsOf
    <3>2. _process_pipeline_completion(p, s, s + 1)
      BY <3>1, <1>2, <1>5
    <3>3. CASE s # F[1]
      BY <3>2, <3>3, <2>2, <1>5, StrayedKept
    <3>4. CASE s = F[1] /\ F \in fMarkers
      BY <3>2, <3>4, <2>2, <1>1, <1>5, ReportedKept
    <3>5. CASE s = F[1] /\ F \notin fMarkers
      <4>1. StandsFor(p, F) /\ p = NewState(F[1], F[2])
        BY <3>5, <2>2 DEF StandsFor
      <4>2. QED BY <4>1, <3>2, <3>5, <1>1, <1>5, ProcessKept
    <3>6. QED BY <3>3, <3>4, <3>5
  <2>3. CASE p.from = 0 /\ p.status < F[1] /\ is_complete(p) /\ fPlan[AgentsOf(p)] # 0
    <3>1. _process_pipeline_completion(p, s, s + 1)
      BY <2>3, <1>5
    <3>2. p.status # fSeen
      BY <2>3, <1>2, <1>5
    <3>3. QED BY <3>1, <3>2, <2>3, <1>5, StrayedKept
  <2>4. QED BY <2>1, <2>2, <2>3
<1>6. ASSUME NEW c \in {1, 2}, fSeen = c, Checked,
             LET p == _get_or_reconstruct_pipeline(c, 0)
             IN  IF fPlan[AgentsOf(p)] = 0 THEN NothingDone ELSE _process_pipeline_completion(p, c, c + 1)
      PROVE  fAstray' \/ Going'
  <2>1. F[1] = c /\ fSeen' = 0 /\ fPlan' = fPlan /\ fMarkers' = fMarkers
    BY <1>6, <1>3 DEF BoardAt, Checked
  <2> DEFINE p == _get_or_reconstruct_pipeline(c, 0)
  <2>2. CASE fState = NoPipeline
    <3>1. p = _reconstruct_pipeline_state(RebuildStatus(c))
      BY <2>2 DEF _get_or_reconstruct_pipeline
    <3>2. fPlan[AgentsOf(p)] # 0 => _process_pipeline_completion(p, c, c + 1)
      BY <1>6
    <3> HIDE DEF p
    <3>3. QED BY <3>1, <3>2, <2>1, <1>5, <1>6
  <2>3. CASE fState # NoPipeline
    <3>1. p = fState
      BY <2>3 DEF _get_or_reconstruct_pipeline
    <3>2. StandsFor(p, F) /\ AgentsOf(p) = F[1] /\ (p = NewState(F[1], F[2]) \/ fBoard = 3)
      BY <3>1, <2>3, <1>4
    <3>3. _process_pipeline_completion(p, c, c + 1)
      BY <3>2, <1>2, <1>6
    <3> HIDE DEF p
    <3>4. QED BY <3>2, <3>3, <2>1, <1>1, ProcessKept
  <2>4. QED BY <2>2, <2>3
<1>7. ASSUME check_in_progress_issues PROVE fAstray' \/ Going'
  <2>1. fSeen = 3 /\ fSeen' = 0 /\ fPlan' = fPlan /\ fMarkers' = fMarkers
    BY <1>7 DEF check_in_progress_issues, Checked
  <2>2. F[1] = 3 \/ (fBoard = 3 /\ F[1] < 3)
    BY <2>1, <1>2, <1>3 DEF BoardAt
  <2>3. CASE fState = NoPipeline
    <3> DEFINE p == _get_or_reconstruct_pipeline(3, 3)
    <3>1. p = _reconstruct_pipeline_state(RebuildStatus(3))
      BY <2>3 DEF _get_or_reconstruct_pipeline
    <3>2. IF fPlan[AgentsOf(p)] # 0 THEN _process_pipeline_completion(p, 3, 4) ELSE process_in_progress_issue
      BY <2>3, <1>7 DEF check_in_progress_issues
    <3> HIDE DEF p
    <3>3. CASE F[1] = 3 \/ fPlan[3] > 0
      BY <3>1, <3>2, <3>3, <2>1, <2>2, <1>2, <1>5
    <3>4. CASE F[1] < 3 /\ fPlan[3] = 0
      <4>1. ~\E a \in Incomplete : a[1] = 3
        <5> SUFFICES ASSUME NEW a \in FlowAgents, a[1] = 3 PROVE FALSE
          BY DEF Incomplete
        <5>1. QED BY <3>4, AgentIs
      <4>2. RebuildStatus(3) = 3
        BY <4>1 DEF RebuildStatus
      <4>3. PICK n \in 1..(fPlan[3] + 1) : p = NewState(3, n)
        BY <4>2, <3>1, <1>1, ReconstructExists
      <4>4. AgentsOf(p) = 3
        BY <4>3 DEF NewState, AgentsOf
      <4>5. process_in_progress_issue
        BY <4>4, <3>2, <3>4
      <4>6. F \in Incomplete /\ F[1] < 4
        BY <3>4, <1>2 DEF AtWork, Incomplete
      <4>7. QED BY <4>5, <4>6 DEF process_in_progress_issue
    <3>5. fPlan[3] \in Nat
      BY <1>1
    <3>6. QED BY <3>3, <3>4, <3>5, <2>2
  <2>4. CASE fState # NoPipeline
    <3>1. StandsFor(fState, F) /\ ~is_complete(fState) /\ (fState = NewState(F[1], F[2]) \/ fBoard = 3)
      BY <2>4, <1>4
    <3>2. CASE fState = NewState(F[1], F[2]) /\ F[1] # 3
      <4>1. fState.status = F[1] /\ get_next_status(F[1]) = F[1] + 1 /\ F[1] < 3 /\ fBoard = 3
        BY <3>2, <2>2, <1>2 DEF NewState, get_next_status
      <4>2. Accepted = AcceptedMove(F)
        <5>1. Accepted = [fState EXCEPT !.status = 3, !.from = F[1], !.to = F[1] + 1]
          <6>1. F[1] < 4 /\ fState.status = F[1]
            BY <4>1, <1>2
          <6>2. Accepted = [fState EXCEPT !.status = 3, !.from = F[1], !.to = get_next_status(F[1])]
            BY <6>1 DEF Accepted
          <6>3. QED BY <6>2, <4>1
        <5>2. fState = [status |-> F[1], from |-> 0, to |-> 0, next |-> F[2]]
          BY <3>2 DEF NewState
        <5>3. QED BY <5>1, <5>2 DEF AcceptedMove
      <4>3. Accepted.to = F[1] + 1 /\ Accepted.from = F[1]
        BY <4>2, <1>2 DEF AcceptedMove
      <4>4. _process_pipeline_completion(Accepted, F[1], F[1] + 1)
        BY <4>1, <4>3, <3>1, <3>2, <2>4, <1>7 DEF check_in_progress_issues
      <4>5. StandsFor(Accepted, F)
        BY <4>1, <4>2 DEF StandsFor
      <4>6. QED BY <4>1, <4>4, <4>5, <2>1, <1>1, ProcessKept
    <3>3. CASE fState = NewState(F[1], F[2]) /\ F[1] = 3
      <4>1. fState.status = 3 /\ fState.from = 0
        BY <3>3 DEF NewState
      <4>2. _process_pipeline_completion(fState, 3, 4)
        BY <4>1, <3>1, <2>4, <1>7 DEF check_in_progress_issues
      <4>3. QED BY <4>2, <3>1, <3>3, <2>1, <1>1, ProcessKept
    <3>4. CASE fState = AcceptedMove(F)
      <4>1. fState.status = 3 /\ fState.from = F[1] /\ F[1] # 0 /\ fState.to = F[1] + 1
        BY <3>4, <1>2 DEF AcceptedMove
      <4>2. _process_pipeline_completion(fState, F[1], F[1] + 1)
        BY <4>1, <3>1, <2>4, <1>7 DEF check_in_progress_issues
      <4>3. QED BY <4>2, <3>1, <2>1, <1>1, ProcessKept
    <3>5. QED BY <3>1, <3>2, <3>3, <3>4 DEF StandsFor
  <2>5. QED BY <2>3, <2>4
<1>8. ASSUME check_in_review_issues PROVE fAstray' \/ Going'
  <2>1. fSeen = 4 /\ fSeen' = 0 /\ fPlan' = fPlan /\ fMarkers' = fMarkers
    BY <1>8 DEF check_in_review_issues, Checked
  <2>2. F[1] = 4 /\ fPlan[4] # 0 /\ fBoard = 4
    BY <2>1, <1>2, <1>3 DEF BoardAt
  <2>3. CASE fState = NoPipeline
    <3> DEFINE p == _get_or_reconstruct_pipeline(4, 0)
    <3>1. p = _reconstruct_pipeline_state(RebuildStatus(4))
      BY <2>3 DEF _get_or_reconstruct_pipeline
    <3>2. _process_pipeline_completion(p, 4, 5)
      BY <2>2, <2>3, <1>8 DEF check_in_review_issues
    <3> HIDE DEF p
    <3>3. QED BY <3>1, <3>2, <2>1, <2>2, <1>5
  <2>4. CASE fState # NoPipeline
    <3>1. StandsFor(fState, F) /\ ~is_complete(fState) /\ fState = NewState(F[1], F[2])
      BY <2>2, <2>4, <1>4
    <3>2. fState.status = 4
      BY <3>1, <2>2 DEF NewState
    <3>3. _process_pipeline_completion(fState, 4, 5)
      BY <3>1, <3>2, <2>2, <2>4, <1>8 DEF check_in_review_issues
    <3>4. QED BY <3>1, <3>3, <2>1, <2>2, <1>1, ProcessKept
  <2>5. QED BY <2>3, <2>4
<1>9. ASSUME IgnoreDone PROVE FALSE
  BY <1>9, <1>2, <1>3 DEF IgnoreDone, BoardAt
<1>10. ASSUME check_backlog_issues PROVE fAstray' \/ Going'
  BY <1>10, <1>6 DEF check_backlog_issues
<1>11. ASSUME check_ready_issues PROVE fAstray' \/ Going'
  BY <1>11, <1>6 DEF check_ready_issues
<1>12. QED BY <1>7, <1>8, <1>9, <1>10, <1>11 DEF CheckHandlers

(* The shape, which an issue keeps even astray.                            *)
LEMMA ShapeDispatched ==
  ASSUME FlowShape, NEW s, NEW k, <<s, k>> \in FlowAgents, NEW table, RowsFit(table), Dispatch(s, k, table),
         fPlan' = fPlan, fMarkers' = fMarkers
  PROVE  RowsFit(fTable)'
<1>1. FlowAgents' = FlowAgents /\ fTable' = [table EXCEPT ![<<s, k>>] = "active"]
  BY DEF FlowAgents, Dispatch
<1>2. DOMAIN fTable' = FlowAgents /\ \A a \in FlowAgents : fTable'[a] = IF a = <<s, k>> THEN "active" ELSE table[a]
  BY <1>1 DEF RowsFit
<1>3. QED BY <1>1, <1>2 DEF RowsFit
LEMMA ShapeAfter ==
  ASSUME FlowShape, fBoard' \in 1..5, fSeen' = 0, fPlan' = fPlan, fMarkers' = fMarkers, RowsFit(fTable)',
         fState' = NoPipeline \/ Positioned(fState)'
  PROVE  FlowShape'
<1>1. FlowAgents' = FlowAgents
  BY DEF FlowAgents
<1>2. QED BY <1>1 DEF FlowShape
LEMMA ShapeTransition ==
  ASSUME FlowShape, NEW p, NEW c \in 1..4, NEW table, RowsFit(table), NEW drops \in BOOLEAN,
         _transition_after_pipeline_complete(p, c + 1, table, drops), fPlan' = fPlan, fMarkers' = fMarkers, fSeen' = 0
  PROVE  FlowShape'
<1> DEFINE e == EffectiveStatus(c + 1)
<1>1. fPlan \in [1..4 -> Nat] /\ FlowAgents' = FlowAgents
  BY DEF FlowShape, FlowAgents
<1>2. e \in 1..5
  BY <1>1, TransitionGoes
<1>3. /\ fBoard' = e
      /\ IF Assignable(e, 1)
         THEN Dispatch(e, 1, table) /\ fState' = IF drops THEN NoPipeline ELSE NewState(e, 1)
         ELSE fTable' = table /\ fState' = NoPipeline
  BY DEF _transition_after_pipeline_complete, EffectiveStatus
<1> HIDE DEF e
<1>4. CASE Assignable(e, 1)
  <2>1. e \in 1..4 /\ fPlan[e] \in Nat /\ 1 \in 1..fPlan[e]
    BY <1>1, <1>4 DEF Assignable
  <2>2. <<e, 1>> \in FlowAgents
    BY <2>1, AgentFrom
  <2>3. RowsFit(fTable)'
    BY <2>2, <1>3, <1>4, ShapeDispatched
  <2>4. fState' = NoPipeline \/ Positioned(fState)'
    <3>1. CASE fState' = NewState(e, 1)
      <4>1. /\ fState' = [status |-> e, from |-> 0, to |-> 0, next |-> 1] /\ AgentsOf(fState)' = e
        BY <3>1 DEF NewState, AgentsOf
      <4>2. QED BY <4>1, <2>1 DEF Positioned
    <3>2. QED BY <3>1, <1>3, <1>4
  <2>5. QED BY <2>3, <2>4, <1>2, <1>3, ShapeAfter
<1>5. CASE ~Assignable(e, 1)
  <2>1. RowsFit(fTable)'
    BY <1>1, <1>3, <1>5 DEF RowsFit
  <2>2. QED BY <2>1, <1>2, <1>3, <1>5, ShapeAfter
<1>6. QED BY <1>4, <1>5

LEMMA ShapeProcess ==
  ASSUME FlowShape, fSeen # 0, NEW p, Positioned(p), NEW from \in 0..4, NEW c \in 1..4,
         _process_pipeline_completion(p, from, c + 1), fPlan' = fPlan, fMarkers' = fMarkers, fSeen' = 0
  PROVE  FlowShape'
<1> DEFINE s == AgentsOf(p)
<1>1. /\ fPlan \in [1..4 -> Nat] /\ FlowAgents' = FlowAgents /\ fBoard \in 1..5 /\ RowsFit(fTable)
      /\ s \in 1..4 /\ fPlan[s] \in Nat /\ p.next \in Nat /\ p.next >= 1 /\ p.next <= fPlan[s] + 1
      /\ \A k \in 1..(p.next - 1) : <<s, k>> \in fMarkers
  BY DEF FlowShape, FlowAgents, Positioned
<1>2. is_complete(p) <=> p.next = fPlan[s] + 1
  BY <1>1 DEF is_complete
<1>3. Current(p) = <<s, p.next>>
  BY DEF Current
<1>4. Positioned(p)'
  BY DEF Positioned, AgentsOf
<1>5. CASE is_complete(p) /\ _transition_after_pipeline_complete(p, c + 1, AllDoneIn(p), FALSE)
  <2>1. \A a \in FlowAgents : a[1] = s => a \in fMarkers
    <3> SUFFICES ASSUME NEW a \in FlowAgents, a[1] = s PROVE a \in fMarkers
      OBVIOUS
    <3>1. a = <<s, a[2]>> /\ a[2] \in 1..fPlan[s]
      BY AgentIs
    <3>2. a[2] \in 1..(p.next - 1)
      BY <3>1, <1>1, <1>2, <1>5
    <3>3. <<s, a[2]>> \in fMarkers
      BY <3>2, <1>1
    <3>4. QED BY <3>1, <3>3
  <2>2. DOMAIN AllDoneIn(p) = FlowAgents
        /\ \A a \in FlowAgents : AllDoneIn(p)[a] = IF a[1] = s THEN "done" ELSE fTable[a]
    BY <1>1 DEF AllDoneIn, RowsFit
  <2>3. RowsFit(AllDoneIn(p))
    BY <2>1, <2>2, <1>1 DEF RowsFit
  <2>4. QED BY <2>3, <1>5, ShapeTransition
<1>6. CASE ~is_complete(p)
  <2>1. <<s, p.next>> \in FlowAgents
    <3>1. p.next \in 1..fPlan[s]
      BY <1>1, <1>2, <1>6
    <3>2. QED BY <3>1, <1>1, AgentFrom
  <2>2. CASE Current(p) \in fMarkers /\ _advance_pipeline(p, c + 1)
    <3> DEFINE q == [p EXCEPT !.next = @ + 1]
               row == <<s, p.next>>
    <3>1. DOMAIN MarkDone(row) = FlowAgents
          /\ \A a \in FlowAgents : MarkDone(row)[a] = IF a = row THEN "done" ELSE fTable[a]
      BY <2>1, <1>1 DEF MarkDone, RowsFit
    <3>2. RowsFit(MarkDone(row)) /\ row \in fMarkers
      BY <3>1, <2>2, <1>1, <1>3 DEF RowsFit
    <3>3. p = [status |-> p.status, from |-> p.from, to |-> p.to, next |-> p.next]
      BY DEF Positioned
    <3>4. q.next = p.next + 1 /\ AgentsOf(q) = s
      BY <3>3 DEF AgentsOf
    <3>5. CASE is_complete(q)
      BY <3>2, <3>5, <2>2, <1>3, ShapeTransition DEF _advance_pipeline
    <3>6. CASE ~is_complete(q)
      <4>1. fBoard' = fBoard /\ Dispatch(s, p.next + 1, MarkDone(row)) /\ fState' = NewState(s, p.next + 1)
        BY <3>4, <3>6, <2>2, <1>3 DEF _advance_pipeline
      <4>2. p.next + 1 <= fPlan[s] /\ p.next + 1 \in 1..fPlan[s]
        BY <3>4, <3>6, <1>1 DEF is_complete
      <4>3. <<s, p.next + 1>> \in FlowAgents
        BY <4>2, <1>1, AgentFrom
      <4>4. RowsFit(fTable)'
        BY <4>1, <4>3, <3>2, ShapeDispatched
      <4>5. fState' = [status |-> s, from |-> 0, to |-> 0, next |-> p.next + 1] /\ AgentsOf(fState)' = s
        BY <4>1 DEF NewState, AgentsOf
      <4>6. \A k \in 1..((p.next + 1) - 1) : <<s, k>> \in fMarkers
        <5> SUFFICES ASSUME NEW k \in 1..((p.next + 1) - 1) PROVE <<s, k>> \in fMarkers
          OBVIOUS
        <5>1. k \in 1..(p.next - 1) \/ k = p.next
          BY <1>1
        <5>2. QED BY <5>1, <3>2, <1>1
      <4>7. Positioned(fState)'
        BY <4>2, <4>5, <4>6, <1>1 DEF Positioned
      <4>8. QED BY <4>1, <4>4, <4>7, <1>1, ShapeAfter
    <3>7. QED BY <3>5, <3>6
  <2>3. CASE fState' = p /\ UNCHANGED <<fBoard, fTable, fAssigns, fAstray>>
    <3>1. RowsFit(fTable)'
      BY <2>3, <1>1 DEF RowsFit
    <3>2. QED BY <2>3, <3>1, <1>1, <1>4, ShapeAfter
  <2>4. CASE RecoverAssign(p, from)
    <3> DEFINE r == IF p.from # 0 THEN p.from ELSE from
    <3>1. /\ fState' = p /\ fBoard' = fBoard
          /\ IF Assignable(r, p.next) THEN Dispatch(r, p.next, fTable) ELSE UNCHANGED <<fTable, fAssigns>>
      BY <2>4 DEF RecoverAssign
    <3> HIDE DEF r
    <3>2. RowsFit(fTable)'
      <4>1. CASE Assignable(r, p.next)
        <5>1. r \in 1..4 /\ p.next \in 1..fPlan[r]
          BY <4>1, <1>1 DEF Assignable
        <5>2. <<r, p.next>> \in FlowAgents
          BY <5>1, AgentFrom
        <5>3. QED BY <5>2, <4>1, <3>1, <1>1, ShapeDispatched
      <4>2. CASE ~Assignable(r, p.next)
        BY <4>2, <3>1, <1>1 DEF RowsFit
      <4>3. QED BY <4>1, <4>2
    <3>3. QED BY <3>1, <3>2, <1>1, <1>4, ShapeAfter
  <2>5. QED BY <2>2, <2>3, <2>4, <1>6 DEF _process_pipeline_completion
<1>7. QED BY <1>5, <1>6 DEF _process_pipeline_completion

LEMMA ShapeRebuilt ==
  ASSUME FlowShape, NEW s \in 1..4, NEW expected
  PROVE  Positioned(_get_or_reconstruct_pipeline(s, expected))
<1>1. fPlan \in [1..4 -> Nat] /\ (fState = NoPipeline \/ Positioned(fState))
  BY DEF FlowShape
<1>2. PICK e \in 1..4 : e = RebuildStatus(s)
  BY <1>1, EarliestColumn
<1>3. PICK n \in 1..(fPlan[e] + 1) : /\ _reconstruct_pipeline_state(e) = NewState(e, n)
                                     /\ \A j \in 1..(n - 1) : <<e, j>> \in fMarkers
  BY <1>1, ReconstructExists
<1>4. Positioned(NewState(e, n))
  <2>1. fPlan[e] \in Nat /\ n \in Nat /\ AgentsOf(NewState(e, n)) = e
    BY <1>1 DEF NewState, AgentsOf
  <2>2. NewState(e, n) = [status |-> e, from |-> 0, to |-> 0, next |-> n]
    BY DEF NewState
  <2>3. QED BY <2>1, <2>2, <1>3 DEF Positioned
<1>5. QED BY <1>1, <1>2, <1>3, <1>4 DEF _get_or_reconstruct_pipeline

LEMMA ShapeHandled == FlowShape /\ CheckHandlers => FlowShape'
<1> SUFFICES ASSUME FlowShape, CheckHandlers PROVE FlowShape'
  OBVIOUS
<1>1. /\ fPlan \in [1..4 -> Nat] /\ fBoard \in 0..5 /\ RowsFit(fTable) /\ (fState = NoPipeline \/ Positioned(fState))
      /\ fBoard = 0 => fSeen = 0
  BY DEF FlowShape
<1>2. Checked /\ fSeen # 0
  BY DEF CheckHandlers, check_backlog_issues, check_ready_issues, check_in_progress_issues, check_in_review_issues, IgnoreDone
<1>3. fSeen' = 0 /\ fPlan' = fPlan /\ fMarkers' = fMarkers /\ FlowAgents' = FlowAgents /\ fBoard \in 1..5
  BY <1>1, <1>2 DEF Checked, FlowAgents
<1>4. ASSUME UNCHANGED <<fTable, fState>>, fBoard' \in 1..5 PROVE FlowShape'
  <2>1. RowsFit(fTable)' /\ (fState' = NoPipeline \/ Positioned(fState)')
    BY <1>1, <1>3, <1>4 DEF RowsFit, Positioned, AgentsOf
  <2>2. QED BY <2>1, <1>3, <1>4, ShapeAfter
<1>5. NothingDone => FlowShape'
  BY <1>3, <1>4 DEF NothingDone
<1>6. ASSUME fState # NoPipeline
      PROVE  /\ Positioned(fState) /\ fState.status \in 1..4 /\ fState.from \in 0..4
             /\ fState.from # 0 => fState.status = 3 /\ fState.to \in 2..4
  <2>1. Positioned(fState)
    BY <1>1, <1>6
  <2>2. QED BY <2>1 DEF Positioned, AgentsOf
<1>7. CASE check_backlog_issues
  <2> DEFINE p == _get_or_reconstruct_pipeline(1, 0)
  <2>1. Positioned(p) /\ (NothingDone \/ _process_pipeline_completion(p, 1, 1 + 1))
    BY <1>7, ShapeRebuilt DEF check_backlog_issues
  <2> HIDE DEF p
  <2>2. QED BY <2>1, <1>2, <1>3, <1>5, ShapeProcess
<1>8. CASE check_ready_issues
  <2> DEFINE p == _get_or_reconstruct_pipeline(2, 0)
  <2>1. Positioned(p) /\ (NothingDone \/ _process_pipeline_completion(p, 2, 2 + 1))
    BY <1>8, ShapeRebuilt DEF check_ready_issues
  <2> HIDE DEF p
  <2>2. QED BY <2>1, <1>2, <1>3, <1>5, ShapeProcess
<1>9. CASE check_in_progress_issues
  <2>1. CASE fState # NoPipeline /\ ~is_complete(fState) /\ fState.status # 3
    <3>1. PICK c \in 1..4 : fState.status = c
      BY <2>1, <1>6
    <3>2. PICK d \in 1..3 : Accepted = [fState EXCEPT !.status = 3, !.from = c, !.to = d + 1]
      <4>1. CASE c < 4
        <5>1. get_next_status(c) = c + 1 /\ c \in 1..3
          BY <4>1 DEF get_next_status
        <5>2. Accepted = [fState EXCEPT !.status = 3, !.from = c, !.to = get_next_status(c)]
          BY <4>1, <3>1 DEF Accepted
        <5>3. QED BY <5>1, <5>2
      <4>2. CASE ~(c < 4)
        <5>1. Accepted = [fState EXCEPT !.status = 3, !.from = c, !.to = 4]
          BY <4>2, <3>1 DEF Accepted
        <5>2. 3 \in 1..3 /\ 3 + 1 = 4
          OBVIOUS
        <5>3. Accepted = [fState EXCEPT !.status = 3, !.from = c, !.to = 3 + 1]
          BY <5>1
        <5>4. QED BY <5>3, <5>2
      <4>3. QED BY <4>1, <4>2
    <3>3. /\ fState = [status |-> c, from |-> 0, to |-> fState.to, next |-> fState.next] /\ fState.next \in Nat
          /\ AgentsOf(fState) = c
      BY <3>1, <2>1, <1>6 DEF Positioned, AgentsOf
    <3>4. Accepted = [status |-> 3, from |-> c, to |-> d + 1, next |-> fState.next]
      BY <3>2, <3>3
    <3>5. AgentsOf(Accepted) = c /\ Accepted.to = d + 1 /\ Accepted.from = c
      BY <3>4 DEF AgentsOf
    <3>6. Positioned(Accepted)
      BY <3>3, <3>4, <3>5, <2>1, <1>6 DEF Positioned
    <3>7. _process_pipeline_completion(Accepted, c, d + 1)
      BY <3>5, <2>1, <1>9 DEF check_in_progress_issues
    <3>8. QED BY <3>6, <3>7, <1>2, <1>3, ShapeProcess
  <2>2. CASE fState # NoPipeline /\ ~is_complete(fState) /\ fState.status = 3
    <3>1. PICK from \in 0..4, c \in 1..4 : _process_pipeline_completion(fState, from, c + 1)
      <4>1. CASE fState.from # 0
        <5>1. fState.to \in 2..4 /\ fState.from \in 0..4
          BY <4>1, <2>2, <1>6
        <5>2. PICK c \in 1..4 : fState.to = c + 1
          BY <5>1
        <5>3. _process_pipeline_completion(fState, fState.from, c + 1)
          BY <5>2, <4>1, <2>2, <1>9 DEF check_in_progress_issues
        <5>4. QED BY <5>1, <5>3
      <4>2. CASE fState.from = 0
        <5>1. _process_pipeline_completion(fState, 3, 3 + 1)
          BY <4>2, <2>2, <1>9 DEF check_in_progress_issues
        <5>2. QED BY <5>1
      <4>3. QED BY <4>1, <4>2
    <3>2. QED BY <3>1, <2>2, <1>2, <1>3, <1>6, ShapeProcess
  <2>3. CASE ~(fState # NoPipeline /\ ~is_complete(fState))
    <3> DEFINE p == _get_or_reconstruct_pipeline(3, 3)
    <3>1. Positioned(p) /\ (_process_pipeline_completion(p, 3, 3 + 1) \/ process_in_progress_issue)
      BY <2>3, <1>9, ShapeRebuilt DEF check_in_progress_issues
    <3> HIDE DEF p
    <3>2. CASE process_in_progress_issue
      BY <3>2, <1>3, <1>4 DEF process_in_progress_issue
    <3>3. QED BY <3>1, <3>2, <1>2, <1>3, ShapeProcess
  <2>4. QED BY <2>1, <2>2, <2>3
<1>10. CASE check_in_review_issues
  <2>1. CASE fPlan[4] = 0
    BY <2>1, <1>5, <1>10 DEF check_in_review_issues
  <2>2. CASE fPlan[4] # 0 /\ fState # NoPipeline /\ ~is_complete(fState)
    <3>1. PICK from \in 0..4, c \in 1..4 : _process_pipeline_completion(fState, from, c + 1)
      <4>1. PICK n \in 1..4 : fState.status = n
        BY <2>2, <1>6
      <4>2. CASE n # 4
        <5>1. get_next_status(n) = n + 1 /\ n + 1 # 0
          BY <4>2 DEF get_next_status
        <5>2. _process_pipeline_completion(fState, n, n + 1)
          BY <5>1, <4>1, <4>2, <2>2, <1>10 DEF check_in_review_issues
        <5>3. QED BY <5>2
      <4>3. CASE n = 4
        <5>1. _process_pipeline_completion(fState, 4, 4 + 1)
          BY <4>1, <4>3, <2>2, <1>10 DEF check_in_review_issues
        <5>2. QED BY <5>1
      <4>4. QED BY <4>2, <4>3
    <3>2. QED BY <3>1, <2>2, <1>2, <1>3, <1>6, ShapeProcess
  <2>3. CASE fPlan[4] # 0 /\ ~(fState # NoPipeline /\ ~is_complete(fState))
    <3> DEFINE p == _get_or_reconstruct_pipeline(4, 0)
    <3>1. Positioned(p) /\ _process_pipeline_completion(p, 4, 4 + 1)
      BY <2>3, <1>10, ShapeRebuilt DEF check_in_review_issues
    <3> HIDE DEF p
    <3>2. QED BY <3>1, <1>2, <1>3, ShapeProcess
  <2>4. QED BY <2>1, <2>2, <2>3
<1>11. CASE IgnoreDone
  BY <1>5, <1>11 DEF IgnoreDone
<1>12. QED BY <1>7, <1>8, <1>9, <1>10, <1>11 DEF CheckHandlers

LEMMA FlowStarts == FlowInit => FlowInv
<1> SUFFICES ASSUME FlowInit PROVE FlowInv
  OBVIOUS
<1>1. FlowAgents = {}
  BY DEF FlowInit, FlowAgents, AgentsOfPlan, ZeroPlan
<1>2. fPlan \in [1..4 -> Nat] /\ DOMAIN fTable = {}
  BY DEF FlowInit, ZeroPlan
<1>3. FlowShape
  BY <1>1, <1>2 DEF FlowInit, FlowShape, RowsFit
<1>4. Going
  BY DEF FlowInit, Going, NotLaunched
<1>5. QED BY <1>3, <1>4 DEF FlowInv

(* The launch: the first column of the plan that has agents.               *)
LEMMA LaunchColumn ==
  ASSUME NEW plan \in Plans, LaunchIssue(plan)
  PROVE  /\ plan \in [1..4 -> Nat] /\ FlowAgents' = AgentsOfPlan(plan)
         /\ \E s \in 1..4 :
              /\ plan[s] > 0 /\ \A d \in 1..(s - 1) : plan[d] = 0
              /\ <<s, 1>> \in FlowAgents'
              /\ fBoard = 0 /\ fPlan' = plan /\ fBoard' = s /\ fState' = NewState(s, 1)
              /\ fTable' = [a \in FlowAgents' |-> IF a = <<s, 1>> THEN "active" ELSE "pending"]
              /\ fAssigns' = [a \in FlowAgents' |-> IF a = <<s, 1>> THEN 1 ELSE 0]
              /\ UNCHANGED <<fMarkers, fSeen, fAstray>>
<1>1. plan \in [1..4 -> Nat] /\ \E s \in 1..4 : plan[s] > 0
  BY FlowAssumption
<1> DEFINE P(c) == plan[c] > 0 /\ \A d \in 1..(c - 1) : plan[d] = 0
<1>2. \E c \in 1..4 : P(c)
  <2> DEFINE full == {c \in 1..4 : plan[c] > 0}
  <2>1. full \subseteq Nat /\ full # {}
    BY <1>1
  <2> HIDE DEF full
  <2>2. PICK n \in full : \A m \in full : n <= m
    BY <2>1, LeastNumberIs
  <2> USE DEF full
  <2>3. \A d \in 1..(n - 1) : plan[d] = 0
    BY <2>2, <1>1
  <2>4. QED BY <2>2, <2>3
<1>3. PICK s \in 1..4 : s = CHOOSE c \in 1..4 : P(c)
  BY <1>2
<1>4. P(s)
  <2> HIDE DEF P
  <2>1. QED BY <1>2, <1>3
<1> DEFINE agents == AgentsOfPlan(plan)
<1>5. /\ fBoard = 0 /\ fPlan' = plan /\ fBoard' = s /\ fState' = NewState(s, 1)
      /\ fTable' = [a \in agents |-> IF a = <<s, 1>> THEN "active" ELSE "pending"]
      /\ fAssigns' = [a \in agents |-> IF a = <<s, 1>> THEN 1 ELSE 0]
      /\ UNCHANGED <<fMarkers, fSeen, fAstray>>
  BY <1>3 DEF LaunchIssue
<1>6. FlowAgents' = agents /\ <<s, 1>> \in agents
  <2>1. 1 \in 1..plan[s]
    BY <1>1, <1>4
  <2>2. QED BY <2>1, <1>5 DEF FlowAgents, AgentsOfPlan
<1> HIDE DEF agents
<1>7. QED BY <1>1, <1>4, <1>5, <1>6 DEF agents

LEMMA ShapeKept == FlowShape /\ [FlowNext]_fVars => FlowShape'
<1> SUFFICES ASSUME FlowShape, [FlowNext]_fVars PROVE FlowShape'
  OBVIOUS
<1>1. /\ fPlan \in [1..4 -> Nat] /\ fBoard \in 0..5 /\ fSeen \in 0..5 /\ fMarkers \subseteq FlowAgents
      /\ RowsFit(fTable) /\ (fState = NoPipeline \/ Positioned(fState))
      /\ fBoard = 0 => fMarkers = {} /\ FlowAgents = {} /\ fSeen = 0
  BY DEF FlowShape
<1>2. ASSUME UNCHANGED <<fPlan, fTable>>, fBoard' \in 0..5, fSeen' \in 0..5, fBoard' = 0 => fBoard = 0,
             fBoard' = 0 => fSeen' = 0, fMarkers' = fMarkers \/ (fBoard' # 0 /\ fMarkers \subseteq fMarkers'),
             fMarkers' \subseteq FlowAgents, fState' \in {fState, NoPipeline}
      PROVE  FlowShape'
  <2>1. FlowAgents' = FlowAgents /\ fMarkers \subseteq fMarkers'
    BY <1>2 DEF FlowAgents
  <2>2. RowsFit(fTable)'
    BY <2>1, <1>1, <1>2 DEF RowsFit
  <2>3. fState' = NoPipeline \/ Positioned(fState)'
    <3>1. CASE fState' = fState /\ Positioned(fState)
      BY <3>1, <2>1, <1>2 DEF Positioned, AgentsOf
    <3>2. QED BY <3>1, <1>1, <1>2
  <2>4. QED BY <2>1, <2>2, <2>3, <1>1, <1>2 DEF FlowShape
<1>3. ASSUME NEW plan \in Plans, LaunchIssue(plan) PROVE FlowShape'
  <2>1. plan \in [1..4 -> Nat]
    BY <1>3, LaunchColumn
  <2>2. PICK s \in 1..4 : /\ plan[s] > 0 /\ <<s, 1>> \in FlowAgents'
                          /\ fBoard = 0 /\ fPlan' = plan /\ fBoard' = s /\ fState' = NewState(s, 1)
                          /\ fTable' = [a \in FlowAgents' |-> IF a = <<s, 1>> THEN "active" ELSE "pending"]
                          /\ UNCHANGED <<fMarkers, fSeen, fAstray>>
    BY <1>3, LaunchColumn
  <2>3. fMarkers' = {} /\ fSeen' = 0
    BY <2>2, <1>1
  <2>4. RowsFit(fTable)'
    <3> DEFINE agents == FlowAgents'
    <3>1. fTable' = [a \in agents |-> IF a = <<s, 1>> THEN "active" ELSE "pending"]
      BY <2>2
    <3> HIDE DEF agents
    <3>2. DOMAIN fTable' = agents /\ \A a \in agents : fTable'[a] \in {"pending", "active"}
      BY <3>1
    <3>3. QED BY <3>2 DEF RowsFit, agents
  <2>5. Positioned(fState)'
    <3>1. fState' = [status |-> s, from |-> 0, to |-> 0, next |-> 1] /\ AgentsOf(fState)' = s
      BY <2>2 DEF NewState, AgentsOf
    <3>2. fPlan'[s] \in Nat /\ 1 <= fPlan'[s] + 1
      BY <2>1, <2>2
    <3>3. QED BY <3>1, <3>2 DEF Positioned
  <2>6. QED BY <2>1, <2>2, <2>3, <2>4, <2>5 DEF FlowShape
<1>4. ASSUME TakeSnapshot PROVE FlowShape'
  BY <1>1, <1>2, <1>4 DEF TakeSnapshot, github_
<1>5. ASSUME LinkMovesBoard PROVE FlowShape'
  BY <1>1, <1>2, <1>5 DEF LinkMovesBoard
<1>6. ASSUME LoseState PROVE FlowShape'
  BY <1>1, <1>2, <1>6 DEF LoseState, github_
<1>7. ASSUME NEW a \in DOMAIN fTable, AgentIsDone(a) PROVE FlowShape'
  <2>1. a \in FlowAgents /\ fBoard # 0
    BY <1>1 DEF RowsFit
  <2>2. QED BY <2>1, <1>1, <1>2, <1>7 DEF AgentIsDone
<1>8. ASSUME UNCHANGED fVars PROVE FlowShape'
  BY <1>1, <1>2, <1>8 DEF fVars
<1>9. QED BY <1>3, <1>4, <1>5, <1>6, <1>7, <1>8, ShapeHandled DEF FlowNext

(* An issue that went astray stays so; one that did not goes on.           *)
LEMMA AstrayStays == fAstray /\ [FlowNext]_fVars => fAstray'
<1> SUFFICES ASSUME fAstray, [FlowNext]_fVars PROVE fAstray'
  OBVIOUS
<1>1. ASSUME NEW p, NEW from, NEW to, _process_pipeline_completion(p, from, to) PROVE fAstray'
  BY <1>1 DEF _process_pipeline_completion, _transition_after_pipeline_complete, _advance_pipeline, RecoverAssign
<1>2. NothingDone \/ process_in_progress_issue => fAstray'
  BY DEF NothingDone, process_in_progress_issue
<1>3. ASSUME CheckHandlers PROVE fAstray'
  BY <1>1, <1>2, <1>3 DEF CheckHandlers, check_backlog_issues, check_ready_issues, check_in_progress_issues,
     check_in_review_issues, IgnoreDone
<1>4. QED BY <1>3 DEF FlowNext, fVars, LaunchIssue, TakeSnapshot, LinkMovesBoard, LoseState, AgentIsDone

LEMMA GoingKept == FlowShape /\ Going /\ [FlowNext]_fVars => fAstray' \/ Going'
<1> SUFFICES ASSUME FlowShape, Going, [FlowNext]_fVars PROVE fAstray' \/ Going'
  OBVIOUS
<1>1. /\ fPlan \in [1..4 -> Nat] /\ DOMAIN fTable = FlowAgents
      /\ fBoard = 0 => fMarkers = {} /\ FlowAgents = {} /\ fSeen = 0
      /\ NotLaunched \/ FlowFinished \/ \E F \in FlowAgents : AtWork(F)
  BY DEF FlowShape, RowsFit, Going
<1>2. ASSUME NEW F \in FlowAgents, AtWork(F)
      PROVE  /\ F[1] \in 1..4 /\ RowsUpTo(fTable, F) /\ fTable[F] = "active" /\ fAssigns = AssignsAt(F)
             /\ BoardAt(F) /\ StateAt(F) /\ fBoard \in 1..4
  BY <1>1, <1>2, AgentIs DEF AtWork, BoardAt
<1>3. ASSUME NEW F \in FlowAgents, AtWork(F), UNCHANGED <<fPlan, fTable, fAssigns>>,
             fMarkers' = AgentsBefore(F) \/ fMarkers' = AgentsBefore(F) \cup {F}, BoardAt(F)', StateAt(F)'
      PROVE  Going'
  <2>1. FlowAgents' = FlowAgents
    BY <1>3 DEF FlowAgents
  <2>2. RowsUpTo(fTable, F)' /\ fTable'[F] = "active" /\ fAssigns' = AssignsAt(F)' /\ AgentsBefore(F)' = AgentsBefore(F)
    BY <2>1, <1>2, <1>3 DEF RowsUpTo, AssignsAt, AgentsBefore
  <2>3. AtWork(F)'
    BY <2>1, <2>2, <1>3 DEF AtWork
  <2>4. QED BY <2>1, <2>3, <1>3 DEF Going
<1>4. ASSUME NEW plan \in Plans, LaunchIssue(plan) PROVE Going'
  <2>1. plan \in [1..4 -> Nat] /\ FlowAgents' = AgentsOfPlan(plan)
    BY <1>4, LaunchColumn
  <2>2. PICK s \in 1..4 :
          /\ plan[s] > 0 /\ \A d \in 1..(s - 1) : plan[d] = 0
          /\ <<s, 1>> \in FlowAgents'
          /\ fBoard = 0 /\ fPlan' = plan /\ fBoard' = s /\ fState' = NewState(s, 1)
          /\ fTable' = [a \in FlowAgents' |-> IF a = <<s, 1>> THEN "active" ELSE "pending"]
          /\ fAssigns' = [a \in FlowAgents' |-> IF a = <<s, 1>> THEN 1 ELSE 0]
          /\ UNCHANGED <<fMarkers, fSeen, fAstray>>
    BY <1>4, LaunchColumn
  <2> DEFINE F == <<s, 1>>
             agents == FlowAgents'
  <2>3. \A a \in agents : ~Earlier(a, F) /\ (Earlier(F, a) <=> a # F)
    <3> SUFFICES ASSUME NEW a \in agents PROVE ~Earlier(a, F) /\ (Earlier(F, a) <=> a # F)
      OBVIOUS
    <3>1. a = <<a[1], a[2]>> /\ a[1] \in 1..4 /\ a[2] \in 1..plan[a[1]] /\ plan[a[1]] \in Nat
      BY <2>1 DEF AgentsOfPlan
    <3>2. a[1] >= s
      <4>1. plan[a[1]] > 0
        BY <3>1
      <4>2. a[1] \notin 1..(s - 1)
        BY <4>1, <2>2
      <4>3. QED BY <4>2, <3>1
    <3>3. a[1] = s /\ a[2] = 1 <=> a = F
      BY <3>1
    <3>4. a[2] >= 1
      BY <3>1
    <3>5. F[1] = s /\ F[2] = 1
      OBVIOUS
    <3>6. QED BY <3>1, <3>2, <3>3, <3>4, <3>5 DEF Earlier
  <2>4. BoardAt(F)' /\ StateAt(F)'
    BY <2>2, <1>1 DEF BoardAt, StateAt
  <2>5. /\ F \in agents /\ fTable' = [a \in agents |-> IF a = F THEN "active" ELSE "pending"]
        /\ fAssigns' = [a \in agents |-> IF a = F THEN 1 ELSE 0] /\ fMarkers' = {}
    BY <2>2, <1>1
  <2>6. FlowAgents' = agents
    OBVIOUS
  <2> HIDE DEF F, agents
  <2>7. DOMAIN fTable' = agents /\ \A a \in agents : fTable'[a] = IF a = F THEN "active" ELSE "pending"
    BY <2>5
  <2>8. RowsUpTo(fTable, F)' /\ fTable'[F] = "active"
    BY <2>3, <2>5, <2>6, <2>7 DEF RowsUpTo
  <2>9. fAssigns' = AssignsAt(F)' /\ fMarkers' = AgentsBefore(F)'
    BY <2>3, <2>5, <2>6 DEF AssignsAt, AgentsBefore
  <2>10. AtWork(F)'
    BY <2>4, <2>5, <2>6, <2>8, <2>9 DEF AtWork
  <2>11. QED BY <2>5, <2>6, <2>10 DEF Going
<1>5. ASSUME TakeSnapshot PROVE Going'
  <2>1. fBoard # 0 /\ fSeen = 0 /\ fSeen' = fBoard /\ UNCHANGED <<fPlan, fBoard, fTable, fMarkers, fState, fAssigns>>
    BY <1>5 DEF TakeSnapshot, github_
  <2>2. ~NotLaunched
    BY <2>1 DEF NotLaunched
  <2>3. CASE FlowFinished
    <3>1. FlowAgents' = FlowAgents
      BY <2>1 DEF FlowAgents
    <3>2. FlowFinished'
      BY <3>1, <2>1, <2>3 DEF FlowFinished
    <3>3. QED BY <3>2 DEF Going
  <2>4. ASSUME NEW F \in FlowAgents, AtWork(F) PROVE Going'
    <3>1. BoardAt(F)' /\ StateAt(F)'
      BY <2>1, <2>4, <1>2 DEF BoardAt, StateAt
    <3>2. QED BY <3>1, <2>1, <2>4, <1>3 DEF AtWork
  <2>5. QED BY <2>2, <2>3, <2>4, <1>1
<1>6. ASSUME CheckHandlers PROVE fAstray' \/ Going'
  <2>1. ~NotLaunched
    BY <1>6 DEF NotLaunched, CheckHandlers, check_backlog_issues, check_ready_issues, check_in_progress_issues,
       check_in_review_issues, IgnoreDone
  <2>2. CASE FlowFinished
    <3>1. NothingDone /\ Checked
      BY <1>6, <2>2 DEF FlowFinished, CheckHandlers, check_backlog_issues, check_ready_issues,
         check_in_progress_issues, check_in_review_issues, IgnoreDone
    <3>2. FlowAgents' = FlowAgents
      BY <3>1 DEF Checked, FlowAgents
    <3>3. FlowFinished'
      BY <3>1, <3>2, <2>2 DEF FlowFinished, NothingDone, Checked
    <3>4. QED BY <3>3 DEF Going
  <2>3. QED BY <2>1, <2>2, <1>1, <1>6, HandlersKept
<1>7. ASSUME LinkMovesBoard PROVE Going'
  <2>1. fBoard \in {1, 2} /\ fBoard' = 3 /\ UNCHANGED <<fPlan, fTable, fMarkers, fState, fSeen, fAssigns>>
    BY <1>7 DEF LinkMovesBoard
  <2>2. ~NotLaunched /\ ~FlowFinished
    BY <2>1 DEF NotLaunched, FlowFinished
  <2>3. ASSUME NEW F \in FlowAgents, AtWork(F) PROVE Going'
    <3>1. BoardAt(F)' /\ StateAt(F)'
      BY <2>1, <2>3, <1>2 DEF BoardAt, StateAt
    <3>2. QED BY <3>1, <2>1, <2>3, <1>3 DEF AtWork
  <2>4. QED BY <2>2, <2>3, <1>1
<1>8. ASSUME NEW a \in DOMAIN fTable, AgentIsDone(a) PROVE Going'
  <2>1. /\ a \in FlowAgents /\ fTable[a] = "active" /\ a \notin fMarkers /\ fMarkers' = fMarkers \cup {a}
        /\ UNCHANGED <<fPlan, fBoard, fTable, fState, fSeen, fAssigns>>
    BY <1>1, <1>8 DEF AgentIsDone
  <2>2. ~NotLaunched /\ ~FlowFinished
    BY <2>1, <1>1 DEF NotLaunched, FlowFinished
  <2>3. ASSUME NEW F \in FlowAgents, AtWork(F) PROVE Going'
    <3>1. a = F \/ Earlier(a, F)
      BY <2>1, <2>3, <1>2 DEF RowsUpTo
    <3>2. a = F
      BY <3>1, <2>1, <2>3 DEF AtWork, AgentsBefore
    <3>3. fMarkers' = AgentsBefore(F) \cup {F}
      BY <3>2, <2>1, <2>3 DEF AtWork
    <3>4. BoardAt(F)' /\ StateAt(F)'
      BY <2>1, <2>3, <1>2 DEF BoardAt, StateAt
    <3>5. QED BY <3>3, <3>4, <2>1, <2>3, <1>3
  <2>4. QED BY <2>2, <2>3, <1>1
<1>9. ASSUME LoseState PROVE Going'
  <2>1. /\ fState # NoPipeline /\ fState' = NoPipeline
        /\ UNCHANGED <<fPlan, fBoard, fTable, fMarkers, fSeen, fAssigns>>
    BY <1>9 DEF LoseState, github_
  <2>2. ~NotLaunched /\ ~FlowFinished
    BY <2>1 DEF NotLaunched, FlowFinished
  <2>3. ASSUME NEW F \in FlowAgents, AtWork(F) PROVE Going'
    <3>1. BoardAt(F)' /\ StateAt(F)'
      BY <2>1, <2>3, <1>2 DEF BoardAt, StateAt
    <3>2. QED BY <3>1, <2>1, <2>3, <1>3 DEF AtWork
  <2>4. QED BY <2>2, <2>3, <1>1
<1>10. ASSUME UNCHANGED fVars PROVE Going'
  <2>1. UNCHANGED <<fPlan, fBoard, fTable, fMarkers, fState, fSeen, fAssigns>>
    BY <1>10 DEF fVars
  <2>2. CASE NotLaunched
    BY <2>1, <2>2 DEF NotLaunched, Going
  <2>3. CASE FlowFinished
    <3>1. FlowFinished'
      BY <2>1, <2>3 DEF FlowFinished, FlowAgents
    <3>2. QED BY <3>1 DEF Going
  <2>4. ASSUME NEW F \in FlowAgents, AtWork(F) PROVE Going'
    <3>1. BoardAt(F)' /\ StateAt(F)'
      BY <2>1, <2>4, <1>2 DEF BoardAt, StateAt
    <3>2. QED BY <3>1, <2>1, <2>4, <1>3 DEF AtWork
  <2>5. QED BY <2>2, <2>3, <2>4, <1>1
<1>11. QED BY <1>4, <1>5, <1>6, <1>7, <1>8, <1>9, <1>10 DEF FlowNext

LEMMA FlowKept == FlowInv /\ [FlowNext]_fVars => FlowInv'
BY ShapeKept, AstrayStays, GoingKept DEF FlowInv

(* One issue across the columns: although the automation may move it and   *)
(* the state may be lost at any time, nobody is skipped, the agents start  *)
(* in the order of the plan and each is assigned once, unless the issue    *)
(* went astray: the poll used a state in a column that it was not rebuilt  *)
(* for, or moved the issue on a pull request alone.  Even then no row shows*)
(* done without a Done! marker (copilot_polling/pipeline.py).              *)
THEOREM NobodyIsSkipped == FlowSpec => []FlowKeepsOrder
<1>1. FlowInv => FlowKeepsOrder
  <2> SUFFICES ASSUME FlowInv
               PROVE  FlowTypeOK /\ DoneHasMarker /\ (Going => NoAgentSkipped /\ StartsInOrder /\ AssignedOnce)
    BY DEF FlowKeepsOrder, FlowInv
  <2>1. FlowShape /\ fPlan \in [1..4 -> Nat] /\ RowsFit(fTable)
    BY DEF FlowInv, FlowShape
  <2>2. /\ NoPipeline.status = 0 /\ NoPipeline.from = 0
        /\ NoPipeline \in [status: 0..4, from: 0..4, to: 0..4, next: Nat]
    BY DEF NoPipeline
  <2>3. FlowTypeOK
    BY <2>1, <2>2 DEF FlowShape, RowsFit, Positioned, FlowTypeOK
  <2>4. DoneHasMarker
    BY <2>1 DEF RowsFit, DoneHasMarker
  <2>5. CASE NotLaunched
    <3>1. DOMAIN fTable = {} /\ DOMAIN fAssigns = {}
      BY <2>5 DEF NotLaunched
    <3>2. QED BY <3>1, <2>3, <2>4, <2>5 DEF NotLaunched, NoAgentSkipped, StartsInOrder, AssignedOnce
  <2>6. CASE FlowFinished
    BY <2>3, <2>4, <2>6 DEF FlowFinished, NoAgentSkipped, StartsInOrder, AssignedOnce
  <2>7. ASSUME NEW F \in FlowAgents, AtWork(F) PROVE NoAgentSkipped /\ StartsInOrder /\ AssignedOnce
    <3>1. F[1] \in 1..4
      BY AgentIs
    <3>2. /\ RowsUpTo(fTable, F) /\ DOMAIN fTable = FlowAgents /\ fAssigns = AssignsAt(F) /\ BoardAt(F)
          /\ fMarkers = AgentsBefore(F) \/ fMarkers = AgentsBefore(F) \cup {F}
      BY <2>7 DEF AtWork, RowsUpTo
    <3>3. AssignedOnce
      BY <3>2 DEF AssignsAt, AssignedOnce
    <3>4. \A a \in FlowAgents : Earlier(a, F) => a \in fMarkers
      BY <3>2 DEF AgentsBefore
    <3>5. NoAgentSkipped
      <4> SUFFICES ASSUME fBoard >= 4, NEW a \in FlowAgents, a[1] < fBoard PROVE a \in fMarkers
        BY <3>2 DEF NoAgentSkipped
      <4>1. fBoard = F[1]
        BY <3>1, <3>2 DEF BoardAt
      <4>2. QED BY <4>1, <3>4 DEF Earlier
    <3>6. StartsInOrder
      <4> SUFFICES ASSUME NEW a \in FlowAgents, NEW b \in FlowAgents, Earlier(a, b), fTable[b] # "pending"
                   PROVE  a \in fMarkers
        BY <3>2 DEF StartsInOrder
      <4>1. b = F \/ Earlier(b, F)
        BY <3>2 DEF RowsUpTo
      <4>2. CASE b = F
        BY <4>2, <3>4
      <4>3. CASE Earlier(b, F)
        <5>1. /\ a[1] \in Int /\ a[2] \in Int /\ b[1] \in Int /\ b[2] \in Int /\ F[1] \in Int /\ F[2] \in Int
          BY <2>1, AgentIs
        <5>2. Earlier(a, F)
          BY <5>1, <4>3 DEF Earlier
        <5>3. QED BY <5>2, <3>4
      <4>4. QED BY <4>1, <4>2, <4>3
    <3>7. QED BY <3>3, <3>5, <3>6
  <2>8. QED BY <2>3, <2>4, <2>5, <2>6, <2>7 DEF Going
<1>2. QED BY <1>1, FlowStarts, FlowKept, PTL DEF FlowSpec

=============================================================================
