------------------------- MODULE PipelineExec_proofs -------------------------
(* Theorems about PipelineExec: type correctness for every value of the    *)
(* constants, and, for serial pipelines (without groups, or with sequential*)
(* ones), the inductive invariants, the refinement of the AgentSequence    *)
(* contract, the single start of each agent and the merges behind it.      *)
EXTENDS PipelineExec, SequenceTheorems, TLAPS

USE SizeAssumption, HumanAssumption, BoundAssumption DEF Agents

-----------------------------------------------------------------------------
(* Operators                                                               *)

\* The members of a group are agents.
LEMMA GroupBounds ==
  ASSUME NEW g \in DOMAIN Groups
  PROVE  /\ Groups[g].first \in 1..N /\ Groups[g].last \in 1..N
         /\ Members(g) \subseteq Agents
<1>1. Groups[g] \in [mode : {"sequential", "parallel"}, first : Agents, last : Agents]
  <2>1. Groups \in Seq([mode : {"sequential", "parallel"}, first : Agents, last : Agents])
    BY GroupAssumption
  <2> HIDE DEF Agents
  <2>2. g \in 1..Len(Groups)
    BY <2>1
  <2>3. QED BY <2>1, <2>2, ElementOfSeq
<1>2. QED BY <1>1 DEF Members

LEMMA SingleOrNone ==
  ASSUME NEW a \in 0..N
  PROVE  (IF a # 0 THEN <<a>> ELSE <<>>) \in Seq(Agents)
<1>1. CASE a = 0
  BY <1>1
<1>2. CASE a # 0
  <2>1. a \in Agents
    BY <1>2
  <2> HIDE DEF Agents
  <2>2. QED BY <2>1, <1>2
<1>3. QED BY <1>1, <1>2

LEMMA CurrentAgentType ==
  ASSUME NEW s \in State
  PROVE  /\ current_agent(s) \in 0..N
         /\ current_agents(s) \in Seq(Agents)
<1>1. CASE InGroup(s)
  <2>1. s.gi \in DOMAIN Groups
    BY <1>1, GroupAssumption DEF InGroup, State
  <2>2. Groups[s.gi].first \in 1..N /\ Groups[s.gi].last \in 1..N
    BY <2>1, GroupBounds
  <2>3. current_agent(s) \in 0..N
    <3>1. s.ai \in Nat /\ s.grouped
      BY <1>1 DEF State, InGroup
    <3>2. CASE Groups[s.gi].first + s.ai <= Groups[s.gi].last
      BY <3>1, <3>2, <2>2, <1>1 DEF current_agent
    <3>3. CASE ~(Groups[s.gi].first + s.ai <= Groups[s.gi].last)
      BY <3>1, <3>3, <1>1 DEF current_agent
    <3>4. QED BY <3>2, <3>3
  <2>4. CASE ParallelNow(s)
    <3> DEFINE f == Groups[s.gi].first
               k == Groups[s.gi].last - f + 1
    <3>1. f <= Groups[s.gi].last
      BY <2>1, GroupAssumption
    <3>2. [i \in 1..k |-> f + i - 1] \in Seq(Agents)
      <4>1. k \in Nat
        BY <3>1, <2>2
      <4>2. \A i \in 1..k : f + i - 1 \in Agents
        BY <2>2
      <4> HIDE DEF k, f
      <4>3. QED BY <4>1, <4>2
    <3>3. QED BY <3>2, <2>3, <2>4 DEF current_agents
  <2>5. CASE ~ParallelNow(s)
    BY <2>3, <2>5, SingleOrNone DEF current_agents
  <2>6. QED BY <2>4, <2>5
<1>2. CASE ~InGroup(s)
  <2>1. current_agent(s) \in 0..N
    BY <1>2 DEF current_agent, State
  <2>2. QED BY <1>2, <2>1, SingleOrNone DEF current_agents, ParallelNow
<1>3. QED BY <1>1, <1>2

\* Taking back an advance of a prefix leaves the shorter prefix.
LEMMA RemoveLastOfPrefix ==
  ASSUME NEW k \in Nat \ {0}
  PROVE  RemoveFirst(First(k), k) = First(k - 1)
<1> DEFINE q == First(k)
<1>1. DOMAIN q = 1..k /\ \A i \in 1..k : q[i] = i
  BY DEF First
<1>2. InSeq(k, q)
  BY <1>1 DEF InSeq
<1>3. Len(q) = k
  BY <1>1 DEF First
<1>4. \A i \in DOMAIN q : (q[i] = k /\ \A j \in 1..i - 1 : q[j] # k) <=> i = k
  BY <1>1
<1>5. (CHOOSE i \in DOMAIN q : q[i] = k /\ \A j \in 1..i - 1 : q[j] # k) = k
  BY <1>4, <1>1
<1>6. RemoveFirst(q, k) = [j \in 1..k - 1 |-> IF j < k THEN q[j] ELSE q[j + 1]]
  BY <1>2, <1>3, <1>5 DEF RemoveFirst
<1>7. QED BY <1>6, <1>1 DEF First

LEMMA ExtendPrefix ==
  ASSUME NEW k \in Nat
  PROVE  Append(First(k), k + 1) = First(k + 1)
  BY DEF First

LEMMA FirstType ==
  ASSUME NEW k \in 0..N
  PROVE  First(k) \in Seq(Agents) /\ Len(First(k)) = k
  BY DEF First

LEMMA RemoveFirstType ==
  ASSUME NEW q \in Seq(Agents), NEW a \in Agents
  PROVE  RemoveFirst(q, a) \in Seq(Agents)
<1>1. CASE ~InSeq(a, q)
  BY <1>1 DEF RemoveFirst
<1>2. CASE InSeq(a, q)
  <2> DEFINE k == CHOOSE k \in DOMAIN q : q[k] = a /\ \A j \in 1..k - 1 : q[j] # a
             r == [j \in 1..Len(q) - 1 |-> IF j < k THEN q[j] ELSE q[j + 1]]
  <2>1. Len(q) \in Nat \ {0}
    BY <1>2 DEF InSeq
  <2>2. \A j \in 1..Len(q) - 1 : q[j] \in Agents /\ q[j + 1] \in Agents
    BY <2>1
  <2> HIDE DEF k
  <2>3. r \in Seq(Agents)
    BY <2>1, <2>2
  <2>4. QED BY <1>2, <2>3 DEF RemoveFirst, k
<1>3. QED BY <1>1, <1>2

LEMMA GroupAdvanceType ==
  ASSUME NEW s \in State, NEW t
  PROVE  GroupAdvance(s, t).gi \in Nat \ {0} /\ GroupAdvance(s, t).ai \in Nat
BY DEF GroupAdvance, State

\* A state stays a state when its position changes.
LEMMA MovePosition ==
  ASSUME NEW s \in State, NEW d \in Seq(Agents), NEW i \in Nat, NEW g \in Nat \ {0},
         NEW a \in Nat
  PROVE  /\ \A e \in Errors :
              [s EXCEPT !.idx = i, !.done = d, !.gi = g, !.ai = a, !.err = e] \in State
         /\ [s EXCEPT !.done = d, !.idx = i, !.gi = g, !.ai = a] \in State
<1> HIDE DEF Agents
<1> QED BY DEF State

\* A state stays a state when its completed agents are replaced.
LEMMA ReplaceDone ==
  ASSUME NEW s \in State, NEW d \in Seq(Agents), NEW i \in Nat
  PROVE  /\ [s EXCEPT !.done = d, !.idx = i] \in State
         /\ [s EXCEPT !.present = TRUE, !.idx = i, !.done = d] \in State
         /\ \A e \in Errors :
              [s EXCEPT !.present = TRUE, !.done = d, !.idx = i, !.err = e] \in State
<1> HIDE DEF Agents
<1> QED BY DEF State

\* A state stays a state when its groups are set or dropped.
LEMMA Regroup ==
  ASSUME NEW s \in State, NEW g \in Nat \ {0}, NEW a \in Nat, NEW b \in BOOLEAN
  PROVE  [s EXCEPT !.grouped = b, !.gi = g, !.ai = a] \in State
<1> HIDE DEF Agents
<1> QED BY DEF State

LEMMA EmptyType == Empty \in State
BY DEF Empty, State, Errors

LEMMA RebuiltType ==
  ASSUME NEW k \in 0..N
  PROVE  Rebuilt(k) \in State
<1>1. First(k) \in Seq(Agents) /\ k \in Nat
  BY FirstType
<1> HIDE DEF Agents
<1>2. QED BY <1>1, EmptyType, ReplaceDone DEF Rebuilt

LEMMA FlattenType ==
  ASSUME NEW s \in State
  PROVE  Flatten(s) \in State
<1>1. 1 \in Nat \ {0} /\ 0 \in Nat /\ FALSE \in BOOLEAN
  OBVIOUS
<1>2. QED BY <1>1, Regroup DEF Flatten

LEMMA AssignedStateType ==
  ASSUME l1 \in State, NEW a \in Agents, NEW e \in Errors
  PROVE  AssignedState(a, e) \in State
<1>1. First(a - 1) \in Seq(Agents) /\ a - 1 \in Nat
  BY FirstType
<1>2. CASE ParallelNow(l1)
  <2>1. [l1 EXCEPT !.present = TRUE, !.err = e] \in State
    BY DEF State
  <2>2. QED BY <2>1, <1>2 DEF AssignedState
<1>3. CASE ~ParallelNow(l1)
  <2> HIDE DEF Agents
  <2>1. QED BY <1>1, <1>3, ReplaceDone DEF AssignedState
<1>4. QED BY <1>2, <1>3

-----------------------------------------------------------------------------
(* Type correctness                                                        *)

LEMMA TypeInit == Init => TypeOK
<1> SUFFICES ASSUME Init PROVE TypeOK
  OBVIOUS
<1>1. l1 \in State /\ db \in State /\ held \in State
  <2>1. l1 \in State
    BY EmptyType DEF Init, State, Grouped, Empty
  <2>2. QED BY <2>1, EmptyType DEF Init
<1>2. FirstAgents \subseteq Agents
  <2>1. CASE Grouped
    <3>1. 1 \in DOMAIN Groups
      <4> DEFINE T == [mode : {"sequential", "parallel"}, first : Agents, last : Agents]
      <4>1. Groups \in Seq(T) /\ Groups # <<>>
        BY <2>1, GroupAssumption DEF Grouped
      <4> HIDE DEF T
      <4>2. Len(Groups) # 0
        BY <4>1
      <4>3. QED BY <4>1, <4>2
    <3>2. Members(1) \subseteq Agents
      BY <3>1, GroupBounds
    <3>3. 1 \in Agents
      OBVIOUS
    <3> HIDE DEF Agents
    <3>4. QED BY <3>2, <3>3 DEF FirstAgents
  <2>2. CASE ~Grouped
    BY <2>2 DEF FirstAgents
  <2>3. QED BY <2>1, <2>2
<1>3. st \in [Agents -> Statuses]
  BY DEF Init, Statuses
<1>4. StoreType /\ MemoryType
  BY <1>1, <1>2, <1>3 DEF Init, StoreType, MemoryType
<1>5. GithubType
  BY <1>2 DEF Init, GithubType
<1>6. FrameType /\ Designated
  <2> HIDE DEF Agents
  <2>1. <<>> \in Seq(Agents)
    OBVIOUS
  <2>2. QED BY <2>1 DEF Init, FrameType, Designated, Pc, PlanType, NoPlan, Statuses
<1>7. QED BY <1>4, <1>5, <1>6 DEF TypeOK

\* A roll-back leaves a typed state and ends the advance.
LEMMA RollBackType ==
  ASSUME TypeOK, pc = "merge", NEW e \in Errors, RollBack(e)
  PROVE  /\ l1' \in State /\ st' \in [Agents -> Statuses]
         /\ dirty' = TRUE /\ pc' = "loop" /\ cur' = 0
<1> USE DEF TypeOK, StoreType, MemoryType, FrameType, Designated
<1>1. l1 \in State /\ l1.idx - 1 \in Nat /\ cur \in Agents /\ l1.done \in Seq(Agents)
  BY DEF State
<1> HIDE DEF Agents
<1>2. RemoveFirst(l1.done, cur) \in Seq(Agents)
  BY <1>1, RemoveFirstType
<1>3. snap.gi \in Nat \ {0} /\ snap.ai \in Nat /\ snap.status \in Statuses
  OBVIOUS
<1>4. l1' \in State
  <2>1. l1' = [l1 EXCEPT !.idx = l1.idx - 1, !.done = RemoveFirst(l1.done, cur),
                         !.gi = snap.gi, !.ai = snap.ai, !.err = e]
    BY DEF RollBack
  <2>2. QED BY <1>1, <1>2, <1>3, <2>1, MovePosition
<1>5. st' \in [Agents -> Statuses]
  BY <1>3 DEF RollBack
<1>6. QED BY <1>4, <1>5 DEF RollBack

LEMMA NextAgentsType ==
  ASSUME l1 \in State
  PROVE  NextAgents \subseteq Agents
<1>1. CASE ParallelNow(l1)
  <2>1. l1.gi \in DOMAIN Groups
    BY <1>1, GroupAssumption DEF ParallelNow, InGroup, State
  <2>2. Members(l1.gi) \subseteq Agents
    BY <2>1, GroupBounds
  <2>3. QED BY <2>2 DEF NextAgents
<1>2. CASE ~ParallelNow(l1)
  BY <1>2 DEF NextAgents
<1>3. QED BY <1>1, <1>2

LEMMA TypeStep == TypeOK /\ [Next]_vars => TypeOK'
<1> SUFFICES ASSUME TypeOK, [Next]_vars PROVE TypeOK'
  OBVIOUS
<1> USE DEF TypeOK, StoreType, MemoryType, GithubType, FrameType, Designated, memory, github, frame, Pc, PlanType, NoPlan, Lossy, Statuses
<1> HIDE DEF Agents
<1>1. ASSUME NEW a \in Agents, AgentFinishes(a) PROVE TypeOK'
  <2>1. child' \in [Agents -> {"none", "open", "merged"}]
    <3> DEFINE c == IF a > 1 /\ child[a] = "none" THEN "open" ELSE child[a]
    <3>1. c \in {"none", "open", "merged"}
      OBVIOUS
    <3>2. child' \in {child, [child EXCEPT ![a] = c]}
      BY <1>1 DEF AgentFinishes
    <3> HIDE DEF c
    <3>3. QED BY <3>1, <3>2
  <2>2. conflict' \subseteq Agents /\ marker' \subseteq Agents
    BY <1>1 DEF AgentFinishes
  <2>3. GithubType'
    BY <1>1, <2>1, <2>2 DEF AgentFinishes
  <2>4. QED BY <1>1, <2>3 DEF AgentFinishes
<1>2. CASE HumanFinishes
  <2>1. Human \in Agents
    BY <1>2 DEF HumanFinishes, Agents
  <2>2. QED BY <1>2, <2>1 DEF HumanFinishes
<1>3. ASSUME NEW a \in Agents, DevopsRepairs(a) PROVE TypeOK'
  BY <1>3 DEF DevopsRepairs
<1>4. CASE GraceElapses
  <2>1. StoreType'
    BY <1>4 DEF GraceElapses
  <2>2. QED BY <1>4, <2>1 DEF GraceElapses
<1>5. CASE Persist
  <2>1. Flatten(l1) \in State
    BY FlattenType
  <2>2. StoreType'
    BY <1>5, <2>1 DEF Persist
  <2>3. QED BY <1>5, <2>2 DEF Persist
<1>6. CASE Crash
  <2>1. StoreType' /\ MemoryType'
    BY <1>6 DEF Crash
  <2>2. PICK landed \in SUBSET plan.calls :
          /\ work' = [a \in Agents |-> IF a \in landed /\ work[a] # "ready"
                                       THEN "busy" ELSE work[a]]
          /\ starts' = [a \in Agents |-> IF a \in landed THEN starts[a] + 1 ELSE starts[a]]
    BY <1>6 DEF Crash
  <2>3. GithubType'
    <3>1. work' \in [Agents -> {"idle", "busy", "ready"}] /\ starts' \in [Agents -> Nat]
      BY <2>2
    <3>2. QED BY <1>6, <3>1 DEF Crash
  <2>4. FrameType' /\ Designated'
    BY <1>6 DEF Crash
  <2>5. QED BY <2>1, <2>3, <2>4
<1>7. CASE ReconstructIfMissing
  <2>1. l1' \in State
    BY <1>7, RebuiltType DEF ReconstructIfMissing
  <2>2. QED BY <1>7, <2>1 DEF ReconstructIfMissing
<1>8. CASE NoOutputs
  BY <1>8 DEF NoOutputs
<1>9. CASE MergeAndClaim
  <2>1. current_agent(l1) \in Agents
    BY <1>9, CurrentAgentType DEF MergeAndClaim, OutputsDue, Agents
  <2>2. child' \in [Agents -> {"none", "open", "merged"}]
    BY <1>9, <2>1 DEF MergeAndClaim, Merged
  <2>3. claimed' \subseteq Agents /\ mfail' \in Nat
    BY <1>9, <2>1 DEF MergeAndClaim
  <2>4. Designated'
    BY <1>9 DEF MergeAndClaim, OutputsDue
  <2>5. QED BY <1>9, <2>2, <2>3, <2>4 DEF MergeAndClaim
<1>10. CASE PostMarker
  <2>1. current_agent(l1) \in Agents
    BY <1>10, CurrentAgentType DEF PostMarker, Agents
  <2>2. QED BY <1>10, <2>1 DEF PostMarker
<1>11. CASE PostMarkerFails
  BY <1>11 DEF PostMarkerFails
<1>12. CASE TrackDone
  BY <1>12 DEF TrackDone
<1>13. CASE Reconstruct
  <2>1. l1' \in State
    <3>1. PICK k \in 0..N :
            \/ l1' = Rebuilt(k)
            \/ \E g \in 1..Len(Groups) + 1 :
                 l1' = [Rebuilt(k) EXCEPT !.grouped = TRUE, !.gi = g,
                                          !.ai = RebuiltOffset(g, k)]
      BY <1>13 DEF Reconstruct
    <3>2. Rebuilt(k) \in State
      BY RebuiltType
    <3>3. ASSUME NEW g \in 1..Len(Groups) + 1
          PROVE  [Rebuilt(k) EXCEPT !.grouped = TRUE, !.gi = g,
                                    !.ai = RebuiltOffset(g, k)] \in State
      <4>1. g \in Nat \ {0}
        BY GroupAssumption
      <4>2. RebuiltOffset(g, k) \in Nat
        <5>1. CASE g <= Len(Groups) /\ Groups[g].mode = "sequential"
                   /\ Groups[g].first <= k
          <6>1. g \in DOMAIN Groups
            BY <5>1, GroupAssumption
          <6>2. Groups[g].first \in 1..N
            BY <6>1, GroupBounds
          <6>3. QED BY <5>1, <6>2 DEF RebuiltOffset
        <5>2. QED BY <5>1 DEF RebuiltOffset
      <4>3. QED BY <3>2, <4>1, <4>2, Regroup
    <3>4. CASE l1' = Rebuilt(k)
      BY <3>4, <3>2
    <3>5. ASSUME NEW g \in 1..Len(Groups) + 1,
                 l1' = [Rebuilt(k) EXCEPT !.grouped = TRUE, !.gi = g,
                                          !.ai = RebuiltOffset(g, k)]
          PROVE  l1' \in State
      BY <3>5, <3>3, Zenon
    <3>6. QED BY <3>1, <3>4, <3>5
  <2>2. st' \in [Agents -> Statuses] /\ claimed' \subseteq Agents
    BY <1>13 DEF Reconstruct, RebuiltStatuses
  <2>3. StoreType'
    BY <1>13, <2>1 DEF Reconstruct
  <2>4. MemoryType'
    BY <1>13, <2>2 DEF Reconstruct
  <2>5. QED BY <1>13, <2>3, <2>4 DEF Reconstruct
<1>14. CASE DetectComplete
  BY <1>14 DEF DetectComplete
<1>15. CASE BeginLoop
  <2>1. current_agents(l1) \in Seq(Agents)
    BY CurrentAgentType
  <2>2. QED BY <1>15, <2>1 DEF BeginLoop
<1>16. CASE EndLoop
  BY <1>16 DEF EndLoop
<1>17. CASE SkipAgent
  BY <1>17 DEF SkipAgent
<1>18. CASE AdvanceBegin
  <2> DEFINE c == current_agent(l1)
             t == IF ParallelNow(l1) THEN [st EXCEPT ![c] = "completed"] ELSE st
             p == GroupAdvance(l1, t)
             full == l1.idx >= MaxDone
             d == IF full THEN l1.done ELSE Append(l1.done, c)
             i == IF full THEN l1.idx ELSE l1.idx + 1
  <2>1. c \in Agents
    BY <1>18, CurrentAgentType DEF AdvanceBegin, Agents
  <2>2. l1 \in State /\ l1.done \in Seq(Agents) /\ l1.idx \in Nat
    BY DEF State
  <2>3. d \in Seq(Agents) /\ i \in Nat
    BY <2>1, <2>2
  <2>4. i > 0
    BY <2>2, BoundAssumption, SizeAssumption
  <2>5. p.gi \in Nat \ {0} /\ p.ai \in Nat
    BY <2>2, GroupAdvanceType
  <2>6. t \in [Agents -> Statuses] /\ st[c] \in Statuses
    BY <2>1
  <2>7. /\ l1' = [l1 EXCEPT !.done = d, !.idx = i, !.gi = p.gi, !.ai = p.ai]
        /\ st' = t /\ cur' = c /\ pend' = pend \ {c} /\ loop' = Tail(loop)
        /\ pc' = "merge"
        /\ snap' = [gi |-> l1.gi, ai |-> l1.ai, status |-> st[c]]
        /\ UNCHANGED <<db, dirty, fresh, mfail, devops, claimed, github, held, plan,
                       crashes, passed>>
    BY <1>18 DEF AdvanceBegin
  <2> HIDE DEF c, t, p, d, i
  <2>8. l1' \in State
    BY <2>2, <2>3, <2>5, <2>7, MovePosition
  <2>9. l1'.idx = i
    BY <2>2, <2>7 DEF State
  <2>10. StoreType' /\ MemoryType' /\ GithubType'
    BY <2>6, <2>7, <2>8
  <2>11. loop' \in Seq(Agents)
    BY <1>18, <2>7 DEF AdvanceBegin, Inspect
  <2>12. cur' \in 0..N /\ cur' # 0
    <3>1. \A a \in Agents : a \in 0..N /\ a # 0
      BY DEF Agents
    <3>2. QED BY <2>1, <2>7, <3>1
  <2>13. snap' \in [gi : Nat \ {0}, ai : Nat, status : Statuses]
    BY <2>2, <2>6, <2>7 DEF State
  <2>14. FrameType' /\ Designated'
    BY <2>4, <2>7, <2>9, <2>11, <2>12, <2>13
  <2>15. QED BY <2>10, <2>14
<1>19. CASE MergePasses
  <2>1. cur \in Agents
    BY <1>19 DEF MergePasses, Agents
  <2>2. child' \in [Agents -> {"none", "open", "merged"}] /\ claimed' \subseteq Agents
    <3>1. Merged(cur) \in [Agents -> {"none", "open", "merged"}]
      BY <2>1 DEF Merged
    <3>2. claimed \union {cur} \subseteq Agents
      BY <2>1
    <3>3. QED BY <1>19, <3>1, <3>2 DEF MergePasses, MergeLands, NoChildFound
  <2>3. mfail' \in Nat /\ passed' \subseteq Agents
    <3>1. mfail' = 0 \/ mfail' = mfail
      BY <1>19 DEF MergePasses, MergeLands, NoChildFound
    <3>2. passed' = passed \/ passed' = passed \union {cur}
      BY <1>19 DEF MergePasses, MergeLands, NoChildFound
    <3>3. mfail' \in Nat
      BY <3>1
    <3>4. passed \union {cur} \subseteq Agents
      BY <2>1
    <3>5. passed' \subseteq passed \union {cur}
      BY <3>2
    <3>7. passed' \subseteq Agents
      BY <3>4, <3>5
    <3>6. QED BY <3>3, <3>7
  <2>4. QED BY <1>19, <2>2, <2>3 DEF MergePasses
<1>20. CASE MergeUnknown
  <2>1. pc = "merge" /\ RollBack(l1.err)
    BY <1>20 DEF MergeUnknown, MergeExhausted
  <2>2. l1.err \in Errors
    BY DEF State, Errors
  <2>3. /\ l1' \in State /\ st' \in [Agents -> Statuses]
        /\ dirty' = TRUE /\ pc' = "loop" /\ cur' = 0
    BY <2>1, <2>2, RollBackType
  <2>4. QED BY <1>20, <2>3 DEF MergeUnknown
<1>21. CASE MergeRetryLater
  <2>1. pc = "merge" /\ RollBack(l1.err)
    BY <1>21 DEF MergeRetryLater, MergeExhausted
  <2>2. l1.err \in Errors
    BY DEF State, Errors
  <2>3. /\ l1' \in State /\ st' \in [Agents -> Statuses]
        /\ dirty' = TRUE /\ pc' = "loop" /\ cur' = 0
    BY <2>1, <2>2, RollBackType
  <2>4. QED BY <1>21, <2>3 DEF MergeRetryLater
<1>22. CASE DispatchDevops
  <2>1. pc = "merge" /\ RollBack(l1.err)
    BY <1>22 DEF DispatchDevops, MergeExhausted
  <2>2. l1.err \in Errors
    BY DEF State, Errors
  <2>3. /\ l1' \in State /\ st' \in [Agents -> Statuses]
        /\ dirty' = TRUE /\ pc' = "loop" /\ cur' = 0
    BY <2>1, <2>2, RollBackType
  <2>4. devops' \in [active : BOOLEAN, attempts : Nat] /\ mfail' \in Nat
    BY <1>22 DEF DispatchDevops
  <2>5. QED BY <1>22, <2>3, <2>4 DEF DispatchDevops
<1>23. CASE DevopsAlreadyActive
  <2>1. pc = "merge" /\ RollBack(l1.err)
    BY <1>23 DEF DevopsAlreadyActive, MergeExhausted
  <2>2. l1.err \in Errors
    BY DEF State, Errors
  <2>3. /\ l1' \in State /\ st' \in [Agents -> Statuses]
        /\ dirty' = TRUE /\ pc' = "loop" /\ cur' = 0
    BY <2>1, <2>2, RollBackType
  <2>4. QED BY <1>23, <2>3 DEF DevopsAlreadyActive
<1>24. CASE Halt
  <2>1. pc = "merge" /\ RollBack("merge")
    BY <1>24 DEF Halt, MergeExhausted
  <2>2. "merge" \in Errors
    BY DEF State, Errors
  <2>3. /\ l1' \in State /\ st' \in [Agents -> Statuses]
        /\ dirty' = TRUE /\ pc' = "loop" /\ cur' = 0
    BY <2>1, <2>2, RollBackType
  <2>4. QED BY <1>24, <2>3 DEF Halt
<1>25. CASE Effects
  BY <1>25 DEF Effects
<1>26. CASE AdvanceComplete
  BY <1>26 DEF AdvanceComplete
<1>27. CASE ParallelWait
  BY <1>27 DEF ParallelWait
<1>28. CASE PassHuman
  <2>1. Human \in Agents
    BY <1>28 DEF PassHuman, PassesHuman, Agents
  <2>2. l1' \in State
    <3>1. l1.done \in Seq(Agents) /\ l1.idx \in Nat
      BY DEF State
    <3>2. Append(l1.done, Human) \in Seq(Agents) /\ l1.idx + 1 \in Nat
      BY <2>1, <3>1
    <3>3. l1' = [l1 EXCEPT !.done = Append(l1.done, Human), !.idx = l1.idx + 1]
      BY <1>28 DEF PassHuman
    <3>4. QED BY <3>2, <3>3, ReplaceDone
  <2>3. st' \in [Agents -> Statuses] /\ pc' \in {"transition", "next"}
    BY <1>28 DEF PassHuman
  <2>4. QED BY <1>28, <2>2, <2>3 DEF PassHuman
<1>29. CASE AssignNext
  <2>1. NextAgents \subseteq Agents
    BY NextAgentsType
  <2>2. plan' \in PlanType
    BY <1>29, <2>1 DEF AssignNext
  <2>3. (plan.kind = "group" => InGroup(held))'
    BY <1>29 DEF AssignNext, ParallelNow, InGroup
  <2>4. QED BY <1>29, <2>2, <2>3 DEF AssignNext
<1>30. CASE DeferNext
  BY <1>30 DEF DeferNext
<1>31. CASE LookAtMarker
  <2>1. <<>> \in Seq(Agents)
    OBVIOUS
  <2>2. QED BY <1>31, <2>1 DEF LookAtMarker
<1>32. CASE ReadTable
  <2>1. plan' \in PlanType
    BY <1>32 DEF ReadTable, Unassigned
  <2>2. pc' = "budget" => plan'.kind # "group"
    BY <1>32 DEF ReadTable
  <2>3. pc' \in {"outputs", "budget"}
    BY <1>32 DEF ReadTable
  <2>4. held' \in State
    BY <1>32 DEF ReadTable
  <2>5. QED BY <1>32, <2>1, <2>2, <2>3, <2>4 DEF ReadTable
<1>44. CASE DeferMissing
  BY <1>44 DEF DeferMissing
<1>45. CASE AssignMissing
  BY <1>45 DEF AssignMissing
<1>33. ASSUME NEW a \in Agents, CallAssign(a) PROVE TypeOK'
  BY <1>33 DEF CallAssign
<1>34. ASSUME NEW a \in Agents, AssignSucceeds(a) PROVE TypeOK'
  <2>1. l1' \in State
    <3>1. "none" \in Errors
      BY DEF Errors
    <3>2. QED BY <1>34, <3>1, AssignedStateType DEF AssignSucceeds
  <2>2. plan' \in PlanType
    BY <1>34 DEF AssignSucceeds
  <2>3. work' \in [Agents -> {"idle", "busy", "ready"}] /\ starts' \in [Agents -> Nat]
    BY <1>34 DEF AssignSucceeds, StartSession
  <2>4. track' \in [Agents -> {"pending", "active", "done"}]
    BY <1>34 DEF AssignSucceeds, StartSession
  <2>5. GithubType'
    BY <1>34, <2>3, <2>4 DEF AssignSucceeds
  <2>6. QED BY <1>34, <2>1, <2>2, <2>5 DEF AssignSucceeds
<1>35. ASSUME NEW a \in Agents, AssignFails(a) PROVE TypeOK'
  <2>1. l1' \in State
    <3>1. "assign" \in Errors
      BY DEF Errors
    <3>2. QED BY <1>35, <3>1, AssignedStateType DEF AssignFails
  <2>2. plan' \in PlanType
    BY <1>35 DEF AssignFails
  <2>3. QED BY <1>35, <2>1, <2>2 DEF AssignFails
<1>36. CASE AssignHuman
  <2>1. Human \in Agents /\ plan' \in PlanType
    BY <1>36 DEF AssignHuman
  <2>2. l1' \in State
    <3>1. First(Human - 1) \in Seq(Agents) /\ Human - 1 \in Nat
      BY <2>1, FirstType DEF Agents
    <3>2. l1' = [l1 EXCEPT !.present = TRUE, !.done = First(Human - 1),
                           !.idx = Human - 1, !.err = "none"]
      BY <1>36 DEF AssignHuman
    <3>3. "none" \in Errors
      BY DEF Errors
    <3>4. QED BY <3>1, <3>2, <3>3, ReplaceDone
  <2>3. work' \in [Agents -> {"idle", "busy", "ready"}] /\ starts' \in [Agents -> Nat]
    BY <1>36, <2>1 DEF AssignHuman, StartSession
  <2>4. track' \in [Agents -> {"pending", "active", "done"}]
    BY <1>36, <2>1 DEF AssignHuman, StartSession
  <2>5. GithubType'
    BY <1>36, <2>3, <2>4 DEF AssignHuman
  <2>6. QED BY <1>36, <2>1, <2>2, <2>5 DEF AssignHuman
<1>37. CASE EndAssignNext
  BY <1>37 DEF EndAssignNext
<1>38. CASE EndAssignGroup
  <2>1. held.failed \subseteq Agents /\ held.gi \in DOMAIN Groups
    <3>1. InGroup(held)
      BY <1>38 DEF EndAssignGroup, Assigned
    <3>2. held.failed \subseteq Agents /\ held.gi \in Nat \ {0} /\ held.gi <= Len(Groups)
      BY <3>1 DEF InGroup, State
    <3>3. DOMAIN Groups = 1..Len(Groups)
      BY GroupAssumption
    <3>4. QED BY <3>2, <3>3
  <2>2. held.failed \union (Members(held.gi) \ plan.ok) \subseteq Agents
    BY <2>1, GroupBounds
  <2>3. l1' \in State
    <3>1. l1' = [held EXCEPT !.failed = held.failed \union (Members(held.gi) \ plan.ok)]
      BY <1>38 DEF EndAssignGroup
    <3>2. QED BY <2>2, <3>1 DEF State
  <2>4. st' \in [Agents -> Statuses]
    BY <1>38 DEF EndAssignGroup
  <2>5. track' \in [Agents -> {"pending", "active", "done"}]
    BY <1>38 DEF EndAssignGroup, MarkActive
  <2>6. QED BY <1>38, <2>3, <2>4, <2>5 DEF EndAssignGroup, Assigned
<1>39. CASE EndAssignMissing
  <2>1. l1' \in State /\ fresh' \in BOOLEAN /\ dirty' \in BOOLEAN
    BY <1>39 DEF EndAssignMissing
  <2>2. st' \in [Agents -> Statuses] /\ pend' \subseteq Agents
    BY <1>39 DEF EndAssignMissing
  <2>3. track' \in [Agents -> {"pending", "active", "done"}]
    BY <1>39 DEF EndAssignMissing, MarkActive
  <2>4. QED BY <1>39, <2>1, <2>2, <2>3 DEF EndAssignMissing, Assigned
<1>40. CASE Transition
  <2>1. Empty \in State /\ <<>> \in Seq(Agents)
    BY EmptyType
  <2>2. QED BY <1>40, <2>1 DEF Transition
<1>41. CASE TransitionFails
  <2>1. Empty \in State /\ <<>> \in Seq(Agents)
    BY EmptyType
  <2>2. l1' \in State /\ dirty' \in BOOLEAN
    BY <1>41, <2>1 DEF TransitionFails
  <2>3. QED BY <1>41, <2>1, <2>2 DEF TransitionFails
<1>42. CASE UNCHANGED vars
  BY <1>42 DEF vars
<1>43. QED
  BY <1>1, <1>2, <1>3, <1>4, <1>5, <1>6, <1>7, <1>8, <1>9, <1>10, <1>11, <1>12, <1>13,
     <1>14, <1>15, <1>16, <1>17, <1>18, <1>19, <1>20, <1>21, <1>22, <1>23, <1>24, <1>25,
     <1>26, <1>27, <1>28, <1>29, <1>30, <1>31, <1>32, <1>33, <1>34, <1>35, <1>36, <1>37,
     <1>38, <1>39, <1>40, <1>41, <1>42, <1>44, <1>45
  DEF Next, Poll, Failure, World, Terminated

THEOREM TypeCorrect == Spec => []TypeOK
<1>1. TypeOK /\ [Next]_vars => TypeOK'
  BY TypeStep
<1>2. QED BY <1>1, TypeInit, PTL DEF Spec

-----------------------------------------------------------------------------
(* Serial pipelines: without groups, or with sequential groups only.  In   *)
(* groups no step may be passed over, which leaves the group position      *)
(* behind the flat one.                                                    *)
NoSkip == Human = 0 \/ Human \notin Excused
Serial == /\ \A g \in DOMAIN Groups : Groups[g].mode = "sequential"
          /\ Grouped => NoSkip

\* The agents a needs are marked or excused.
Ready(a) == \A b \in 1..a - 1 : b \in marker \union Excused

\* The position in the groups names the agent after the first idx ones.
Matches(gi, ai, idx) ==
  IF gi <= Len(Groups)
  THEN Groups[gi].first + ai = idx + 1 /\ idx + 1 <= Groups[gi].last
  ELSE idx = N

\* Every copy of the state has completed the first idx agents.
ListState(s) == /\ s.idx <= N
                /\ s.done = First(s.idx)
                /\ \A b \in 1..s.idx : b \in marker \union Excused
                /\ s.grouped => Grouped /\ Matches(s.gi, s.ai, s.idx)

SessionInv ==
  \A a \in Agents : /\ starts[a] > 0 => Ready(a)
                    /\ a \in marker \/ work[a] # "idle" => starts[a] > 0

SerialPc ==
  /\ pc \in {"marker", "track"} => /\ current_agent(l1) # 0
                                   /\ starts[current_agent(l1)] > 0
  /\ loop = <<>> \/ (pc = "loop" /\ loop = <<l1.idx + 1>>)
  /\ pc \in {"merge", "effects", "decide"} => cur = l1.idx /\ cur \in marker
  /\ pc = "merge" /\ l1.grouped => Matches(snap.gi, snap.ai, l1.idx - 1)
  /\ pc = "next" => ~Grouped
  /\ pc = "transition" => l1.idx = N
  /\ \A a \in plan.todo \union plan.calls : Ready(a)
  /\ plan.calls # {} => pc = "assign"
  /\ pc \in {"budget", "assign"} => /\ plan.kind # "group" /\ ListState(held) /\ l1.idx = held.idx
                                   /\ plan.todo \union plan.calls \subseteq {l1.idx + 1}

SerialInv == /\ ListState(l1) /\ ListState(db)
             /\ SessionInv /\ SerialPc

LEMMA GroupShape ==
  /\ Len(Groups) \in Nat /\ DOMAIN Groups = 1..Len(Groups)
  /\ Grouped => Len(Groups) # 0
<1> DEFINE T == [mode : {"sequential", "parallel"}, first : Agents, last : Agents]
<1>1. Groups \in Seq(T)
  BY GroupAssumption
<1> HIDE DEF T
<1>2. QED BY <1>1 DEF Grouped

LEMMA NextGroup ==
  ASSUME NEW g \in DOMAIN Groups, g + 1 \in DOMAIN Groups
  PROVE  Groups[g + 1].first = Groups[g].last + 1
<1> DEFINE h == g + 1
<1>1. h \in DOMAIN Groups /\ h > 1 /\ h - 1 = g
  BY GroupShape
<1> HIDE DEF h
<1>2. Groups[h].first = Groups[h - 1].last + 1
  BY <1>1, GroupAssumption
<1>3. QED BY <1>1, <1>2 DEF h

\* The derived properties of a state that has completed the first idx agents.
LEMMA SerialView ==
  ASSUME Serial, NEW s \in State, ListState(s), NEW t
  PROVE  /\ ~ParallelNow(s) /\ ~Waiting(s, t)
         /\ current_agent(s) = IF s.idx < N THEN s.idx + 1 ELSE 0
         /\ current_agents(s) = IF s.idx < N THEN <<s.idx + 1>> ELSE <<>>
         /\ is_complete(s, t) <=> s.idx >= N
<1>1. s.idx \in Nat /\ s.gi \in Nat \ {0} /\ s.ai \in Nat /\ s.grouped \in BOOLEAN
  BY DEF State
<1>2. InGroup(s) => s.gi \in DOMAIN Groups
  BY <1>1, GroupShape DEF InGroup
<1>3. ~ParallelNow(s) /\ ~Waiting(s, t)
  BY <1>2 DEF ParallelNow, Waiting, Serial
<1>4. CASE ~s.grouped
  <2>1. current_agent(s) = IF s.idx < N THEN s.idx + 1 ELSE 0
    BY <1>1, <1>4 DEF current_agent, InGroup
  <2>2. is_complete(s, t) <=> s.idx >= N
    BY <1>4 DEF is_complete
  <2>3. QED BY <1>1, <1>3, <2>1, <2>2 DEF current_agents
<1>5. CASE InGroup(s)
  <2>1. Groups[s.gi].first \in 1..N /\ Groups[s.gi].last \in 1..N
    BY <1>2, <1>5, GroupBounds
  <2>2. Groups[s.gi].first + s.ai = s.idx + 1 /\ s.idx + 1 <= Groups[s.gi].last
    BY <1>5 DEF InGroup, ListState, Matches
  <2>3. current_agent(s) = s.idx + 1
    BY <1>5, <2>2 DEF current_agent
  <2>4. ~is_complete(s, t)
    BY <1>1, <1>3, <1>5, <2>1, <2>2 DEF is_complete, InGroup
  <2>5. s.idx < N
    BY <1>1, <2>1, <2>2
  <2>6. QED BY <1>1, <1>3, <2>3, <2>4, <2>5 DEF current_agents
<1>6. CASE s.grouped /\ ~InGroup(s)
  <2>1. s.idx = N
    BY <1>6 DEF InGroup, ListState, Matches
  <2>2. current_agent(s) = 0 /\ is_complete(s, t)
    BY <1>6 DEF current_agent, is_complete
  <2>3. QED BY <1>3, <2>1, <2>2 DEF current_agents
<1>7. QED BY <1>4, <1>5, <1>6 DEF InGroup

\* The group position moves on with the flat one.
LEMMA PositionAdvances ==
  ASSUME Serial, NEW s \in State, ListState(s), s.grouped, s.idx < N, NEW t
  PROVE  Matches(GroupAdvance(s, t).gi, GroupAdvance(s, t).ai, s.idx + 1)
<1>1. s.idx \in Nat /\ s.gi \in Nat \ {0} /\ s.ai \in Nat
  BY DEF State
<1>2. InGroup(s) /\ s.gi \in DOMAIN Groups
  BY <1>1, GroupShape DEF ListState, Matches, InGroup
<1>3. Groups[s.gi].first + s.ai = s.idx + 1 /\ s.idx + 1 <= Groups[s.gi].last
  BY <1>2 DEF InGroup, ListState, Matches
<1>4. Groups[s.gi].first \in 1..N /\ Groups[s.gi].last \in 1..N
  BY <1>2, GroupBounds
<1>5. ~ParallelNow(s)
  BY SerialView
<1>6. CASE s.idx + 2 <= Groups[s.gi].last
  <2>1. ~(Groups[s.gi].first + s.ai + 1 > Groups[s.gi].last)
    BY <1>1, <1>3, <1>4, <1>6
  <2>2. GroupAdvance(s, t) = [gi |-> s.gi, ai |-> s.ai + 1]
    BY <1>2, <1>5, <2>1 DEF GroupAdvance
  <2>3. QED BY <1>1, <1>2, <1>3, <1>4, <1>6, <2>2 DEF Matches, InGroup
<1>7. CASE ~(s.idx + 2 <= Groups[s.gi].last)
  <2>1. Groups[s.gi].first + s.ai + 1 > Groups[s.gi].last /\ Groups[s.gi].last = s.idx + 1
    BY <1>1, <1>3, <1>4, <1>7
  <2>2. GroupAdvance(s, t) = [gi |-> s.gi + 1, ai |-> 0]
    BY <1>2, <1>5, <2>1 DEF GroupAdvance
  <2>3. CASE s.gi = Len(Groups)
    <3>1. Groups[s.gi].last = N
      BY <2>3, GroupAssumption DEF ListState
    <3>2. QED BY <1>1, <2>1, <2>2, <2>3, <3>1, GroupShape DEF Matches
  <2>4. CASE s.gi < Len(Groups)
    <3>1. s.gi + 1 \in DOMAIN Groups
      BY <1>1, <2>4, GroupShape
    <3>2. Groups[s.gi + 1].first = s.idx + 2 /\ Groups[s.gi + 1].first <= Groups[s.gi + 1].last
      <4>1. Groups[s.gi + 1].first = Groups[s.gi].last + 1
        BY <1>2, <3>1, NextGroup
      <4>2. Groups[s.gi + 1].first <= Groups[s.gi + 1].last
        BY <3>1, GroupAssumption
      <4>3. QED BY <1>1, <2>1, <4>1, <4>2
    <3>3. Groups[s.gi + 1].first \in 1..N /\ Groups[s.gi + 1].last \in 1..N
      BY <3>1, GroupBounds
    <3>4. QED BY <1>1, <2>2, <2>4, <3>2, <3>3, GroupShape DEF Matches
  <2>5. QED BY <1>1, <1>2, <2>3, <2>4, GroupShape DEF InGroup
<1>8. QED BY <1>6, <1>7

\* The first unfinished group, found again from the markers, is the one of the next agent.
LEMMA PositionRebuilt ==
  ASSUME Serial, Grouped, NEW k \in 0..N, NEW g \in 1..Len(Groups) + 1, FirstUnfinished(g, k)
  PROVE  Matches(g, RebuiltOffset(g, k), k)
<1>1. \A h \in DOMAIN Groups : /\ Groups[h].mode = "sequential"
                               /\ Groups[h].first \in 1..N /\ Groups[h].last \in 1..N
                               /\ Unfinished(h, k) <=> Groups[h].last > k
  BY GroupBounds DEF Serial, Unfinished
<1>2. \A h \in 1..g - 1 : ~(Groups[h].last > k)
  BY <1>1, GroupShape DEF FirstUnfinished
<1>3. CASE g <= Len(Groups)
  <2>1. g \in DOMAIN Groups /\ Groups[g].last > k
    BY <1>1, <1>3, GroupShape DEF FirstUnfinished
  <2>2. Groups[g].first <= k + 1
    <3>1. CASE g = 1
      BY <3>1, GroupAssumption
    <3>2. CASE g > 1
      <4>1. g - 1 \in 1..g - 1 /\ g - 1 \in DOMAIN Groups
        BY <3>2, <2>1, GroupShape
      <4>2. Groups[g].first = Groups[g - 1].last + 1
        BY <2>1, <3>2, GroupAssumption
      <4>3. QED BY <1>1, <1>2, <4>1, <4>2
    <3>3. QED BY <3>1, <3>2, GroupShape
  <2>3. Groups[g].first + RebuiltOffset(g, k) = k + 1
    <3>1. CASE Groups[g].first <= k
      <4>1. RebuiltOffset(g, k) = k + 1 - Groups[g].first
        BY <1>1, <1>3, <2>1, <3>1 DEF RebuiltOffset
      <4>2. QED BY <1>1, <2>1, <4>1
    <3>2. CASE ~(Groups[g].first <= k)
      <4>1. RebuiltOffset(g, k) = 0 /\ Groups[g].first = k + 1
        BY <1>1, <2>1, <2>2, <3>2 DEF RebuiltOffset
      <4>2. QED BY <4>1
    <3>3. QED BY <3>1, <3>2
  <2>4. QED BY <1>1, <1>3, <2>1, <2>3 DEF Matches
<1>4. CASE g = Len(Groups) + 1
  <2>1. Len(Groups) \in DOMAIN Groups /\ Len(Groups) \in 1..g - 1 /\ ~(g <= Len(Groups))
    BY <1>4, GroupShape
  <2>2. Groups[Len(Groups)].last = N
    BY GroupAssumption
  <2>3. k = N
    BY <1>2, <2>1, <2>2
  <2>4. QED BY <2>1, <2>3 DEF Matches
<1>5. QED BY <1>3, <1>4, GroupShape

LEMMA SerialInit == Serial /\ Init => SerialInv
<1> SUFFICES ASSUME Serial, Init PROVE SerialInv
  OBVIOUS
<1>1. First(0) = <<>> /\ FirstAgents = {1}
  <2>1. Grouped => Groups[1].mode = "sequential"
    BY GroupShape DEF Serial
  <2>2. QED BY <2>1 DEF First, FirstAgents
<1>2. ListState(l1) /\ ListState(db)
  <2>1. /\ l1.idx = 0 /\ l1.done = <<>> /\ l1.grouped = Grouped /\ l1.gi = 1 /\ l1.ai = 0
        /\ db.idx = 0 /\ db.done = <<>> /\ db.grouped = FALSE
    BY DEF Init, Empty
  <2>2. Grouped => Matches(1, 0, 0)
    <3> SUFFICES ASSUME Grouped PROVE Matches(1, 0, 0)
      OBVIOUS
    <3>1. 1 <= Len(Groups) /\ 1 \in DOMAIN Groups
      BY GroupShape
    <3>2. Groups[1].first = 1 /\ Groups[1].last \in 1..N
      BY <3>1, GroupAssumption, GroupBounds
    <3>3. QED BY <3>1, <3>2 DEF Matches
  <2>3. QED BY <1>1, <2>1, <2>2 DEF ListState
<1>3. SessionInv
  BY <1>1 DEF Init, SessionInv, Ready
<1>4. SerialPc
  BY DEF Init, SerialPc, NoPlan
<1>5. QED BY <1>2, <1>3, <1>4 DEF SerialInv

\* The next agent of a state is ready.
LEMMA NextReady ==
  ASSUME l1 \in State, ListState(l1)
  PROVE  Ready(l1.idx + 1)
BY DEF ListState, Ready, State

\* Taking back an advance leaves such a state.
LEMMA SerialRollBack ==
  ASSUME TypeOK, SerialInv, pc = "merge", NEW e \in Errors, RollBack(e), UNCHANGED marker
  PROVE  ListState(l1)' /\ pc' = "loop"
<1>1. l1 \in State /\ l1.idx \in Nat \ {0} /\ l1.idx <= N /\ cur = l1.idx
  BY DEF TypeOK, StoreType, Designated, SerialInv, SerialPc, ListState, State
<1>2. ListState(l1) /\ (l1.grouped => Matches(snap.gi, snap.ai, l1.idx - 1))
  BY DEF SerialInv, SerialPc
<1>3. RemoveFirst(l1.done, cur) = First(l1.idx - 1)
  BY <1>1, <1>2, RemoveLastOfPrefix DEF ListState
<1>4. /\ l1' = [l1 EXCEPT !.idx = l1.idx - 1, !.done = RemoveFirst(l1.done, cur),
                          !.gi = snap.gi, !.ai = snap.ai, !.err = e]
      /\ pc' = "loop"
  BY DEF RollBack
<1>5. /\ l1'.idx = l1.idx - 1 /\ l1'.done = First(l1'.idx) /\ l1'.grouped = l1.grouped
      /\ l1'.gi = snap.gi /\ l1'.ai = snap.ai
  BY <1>1, <1>3, <1>4 DEF State
<1>6. \A b \in 1..l1'.idx : b \in marker \union Excused
  BY <1>1, <1>2, <1>5 DEF ListState
<1>7. l1'.grouped => Grouped /\ Matches(l1'.gi, l1'.ai, l1'.idx)
  BY <1>2, <1>5 DEF ListState
<1>8. QED BY <1>1, <1>4, <1>5, <1>6, <1>7 DEF ListState, Excused, Matches

\* The state stored by the assignment of the next agent is such a state.
LEMMA SerialAssigned ==
  ASSUME l1 \in State, ListState(l1), NEW a \in Agents, a = l1.idx + 1,
         NEW e \in Errors, UNCHANGED marker,
         l1' = [l1 EXCEPT !.present = TRUE, !.done = First(a - 1), !.idx = a - 1, !.err = e]
  PROVE  ListState(l1)' /\ l1'.idx = l1.idx
<1>1. l1.idx \in Nat
  BY DEF State
<1>2. l1'.idx = a - 1 /\ l1'.done = First(a - 1) /\ l1'.grouped = l1.grouped /\ l1'.gi = l1.gi /\ l1'.ai = l1.ai
  BY DEF State
<1>3. a - 1 = l1.idx
  BY <1>1
<1> HIDE DEF Agents
<1>4. QED BY <1>2, <1>3 DEF ListState, Excused, Matches

LEMMA SerialStep ==
  ASSUME Serial, TypeOK, SerialInv, [Next]_vars
  PROVE  SerialInv'
<1>1. l1 \in State /\ held \in State /\ ListState(l1) /\ l1.idx \in 0..N
  BY DEF TypeOK, StoreType, SerialInv, ListState, State
<1>2. /\ ~ParallelNow(l1) /\ ~Waiting(l1, st)
      /\ current_agent(l1) = IF l1.idx < N THEN l1.idx + 1 ELSE 0
      /\ current_agents(l1) = IF l1.idx < N THEN <<l1.idx + 1>> ELSE <<>>
      /\ is_complete(l1, st) <=> l1.idx >= N
  BY <1>1, SerialView
<1>3. Ready(l1.idx + 1)
  BY <1>1, NextReady DEF SerialInv
<1> USE DEF SerialInv, ListState, SessionInv, SerialPc, Ready, memory, github, frame
<1>4. ASSUME NEW a \in Agents, AgentFinishes(a) PROVE SerialInv'
  BY <1>1, <1>2, <1>3, <1>4 DEF AgentFinishes
<1>5. CASE HumanFinishes
  BY <1>1, <1>2, <1>3, <1>5 DEF HumanFinishes
<1>6. ASSUME NEW a \in Agents, DevopsRepairs(a) PROVE SerialInv'
  BY <1>1, <1>2, <1>3, <1>6 DEF DevopsRepairs
<1>7. CASE GraceElapses
  BY <1>1, <1>2, <1>3, <1>7 DEF GraceElapses
<1>8. CASE Persist
  <2>10. ListState(l1)'
    BY <1>1, <1>2, <1>3, <1>8 DEF Persist
  <2>11. ListState(db)'
    BY <1>1, <1>8 DEF Persist, Flatten, State
  <2>12. SessionInv'
    BY <1>1, <1>2, <1>3, <1>8 DEF Persist
  <2>13. SerialPc'
    BY <1>1, <1>2, <1>3, <1>8 DEF Persist
  <2>14. QED BY <2>10, <2>11, <2>12, <2>13
<1>9. CASE Crash
  <2>1. PICK landed \in SUBSET plan.calls :
          /\ work' = [a \in Agents |-> IF a \in landed /\ work[a] # "ready"
                                       THEN "busy" ELSE work[a]]
          /\ starts' = [a \in Agents |-> IF a \in landed THEN starts[a] + 1 ELSE starts[a]]
    BY <1>9 DEF Crash
  <2>10. ListState(l1)'
    BY <1>1, <1>2, <1>3, <1>9 DEF Crash
  <2>11. ListState(db)'
    BY <1>1, <1>2, <1>3, <1>9 DEF Crash
  <2>12. SessionInv'
    <3>1. starts \in [Agents -> Nat] /\ work \in [Agents -> {"idle", "busy", "ready"}]
          /\ plan.calls \subseteq Agents /\ UNCHANGED marker
      BY <1>9 DEF Crash, TypeOK, GithubType, FrameType, PlanType
    <3>2. ASSUME NEW a \in Agents, a \in landed
          PROVE  starts'[a] > 0 /\ Ready(a)
      BY <2>1, <3>1, <3>2
    <3>3. ASSUME NEW a \in Agents, a \notin landed
          PROVE  starts'[a] = starts[a] /\ work'[a] = work[a]
      BY <2>1, <3>1, <3>3
    <3>4. QED BY <3>1, <3>2, <3>3 DEF Excused
  <2>13. SerialPc'
    BY <1>9 DEF Crash, NoPlan
  <2>14. QED BY <2>10, <2>11, <2>12, <2>13
<1>10. CASE ReconstructIfMissing
  <2>1. PICK k \in 0..N : IsMarkedPrefix(k) /\ l1' = Rebuilt(k)
    BY <1>10 DEF ReconstructIfMissing
  <2>10. ListState(l1)'
    BY <2>1, <1>10 DEF ReconstructIfMissing, Rebuilt, IsMarkedPrefix, Empty
  <2>11. ListState(db)'
    BY <1>1, <1>2, <1>3, <1>10 DEF ReconstructIfMissing
  <2>12. SessionInv'
    BY <1>1, <1>2, <1>3, <1>10 DEF ReconstructIfMissing
  <2>13. SerialPc'
    BY <1>1, <1>2, <1>3, <1>10 DEF ReconstructIfMissing
  <2>14. QED BY <2>10, <2>11, <2>12, <2>13
<1>11. CASE NoOutputs
  BY <1>1, <1>2, <1>3, <1>11 DEF NoOutputs
<1>12. CASE MergeAndClaim
  <2>10. ListState(l1)'
    BY <1>1, <1>2, <1>3, <1>12 DEF MergeAndClaim
  <2>11. ListState(db)'
    BY <1>1, <1>2, <1>3, <1>12 DEF MergeAndClaim
  <2>12. SessionInv'
    BY <1>1, <1>2, <1>3, <1>12 DEF MergeAndClaim
  <2>13. SerialPc'
    <3>1. current_agent(l1) \in Agents /\ starts[current_agent(l1)] > 0
      BY <1>1, <1>2, <1>12 DEF MergeAndClaim, OutputsDue
    <3>2. QED BY <1>12, <3>1 DEF MergeAndClaim
  <2>14. QED BY <2>10, <2>11, <2>12, <2>13
<1>13. CASE PostMarker
  BY <1>1, <1>2, <1>3, <1>13 DEF PostMarker
<1>14. CASE PostMarkerFails
  BY <1>1, <1>2, <1>3, <1>14 DEF PostMarkerFails
<1>15. CASE TrackDone
  BY <1>1, <1>2, <1>3, <1>15 DEF TrackDone
<1>16. CASE Reconstruct
  <2>1. PICK k \in 0..N :
          /\ IsMarkedPrefix(k)
          /\ IF Grouped
             THEN \E g \in 1..Len(Groups) + 1 :
                    /\ FirstUnfinished(g, k)
                    /\ l1' = [Rebuilt(k) EXCEPT !.grouped = TRUE, !.gi = g, !.ai = RebuiltOffset(g, k)]
             ELSE l1' = Rebuilt(k)
    BY <1>16 DEF Reconstruct
  <2>2. Rebuilt(k) \in State /\ Rebuilt(k).idx = k /\ Rebuilt(k).done = First(k) /\ ~Rebuilt(k).grouped
    <3>1. Rebuilt(k).idx = k /\ Rebuilt(k).done = First(k) /\ ~Rebuilt(k).grouped
      BY DEF Rebuilt, Empty
    <3>2. QED BY <3>1, RebuiltType
  <2>3. l1'.idx = k /\ l1'.done = First(k) /\ (l1'.grouped => Grouped /\ Matches(l1'.gi, l1'.ai, k))
    <3>1. CASE ~Grouped
      BY <2>1, <2>2, <3>1
    <3>2. ASSUME Grouped, NEW g \in 1..Len(Groups) + 1, FirstUnfinished(g, k),
                 l1' = [Rebuilt(k) EXCEPT !.grouped = TRUE, !.gi = g, !.ai = RebuiltOffset(g, k)]
          PROVE  l1'.idx = k /\ l1'.done = First(k) /\ (l1'.grouped => Grouped /\ Matches(l1'.gi, l1'.ai, k))
      <4>1. Matches(g, RebuiltOffset(g, k), k)
        BY <3>2, PositionRebuilt
      <4>2. l1'.idx = Rebuilt(k).idx /\ l1'.done = Rebuilt(k).done /\ l1'.gi = g /\ l1'.ai = RebuiltOffset(g, k)
        BY <2>2, <3>2 DEF State
      <4>3. QED BY <2>2, <3>2, <4>1, <4>2
    <3>3. QED BY <2>1, <3>1, <3>2
  <2>10. ListState(l1)'
    <3>1. UNCHANGED marker
      BY <1>16 DEF Reconstruct
    <3>2. \A b \in 1..k : b \in marker
      BY <2>1 DEF IsMarkedPrefix
    <3> HIDE DEF Ready, SessionInv, SerialPc
    <3>3. QED BY <2>3, <3>1, <3>2 DEF Excused, Matches
  <2>11. ListState(db)'
    BY <1>1, <1>2, <1>3, <1>16 DEF Reconstruct
  <2>12. SessionInv'
    BY <1>1, <1>2, <1>3, <1>16 DEF Reconstruct
  <2>13. SerialPc'
    BY <1>1, <1>2, <1>3, <1>16 DEF Reconstruct
  <2>14. QED BY <2>10, <2>11, <2>12, <2>13
<1>17. CASE DetectComplete
  BY <1>1, <1>2, <1>3, <1>17 DEF DetectComplete
<1>18. CASE BeginLoop
  BY <1>1, <1>2, <1>3, <1>18 DEF BeginLoop
<1>19. CASE EndLoop
  BY <1>1, <1>2, <1>3, <1>19 DEF EndLoop
<1>20. CASE SkipAgent
  <2>1. loop = <<l1.idx + 1>> /\ loop' = Tail(loop) /\ pc = "loop"
    BY <1>20 DEF SkipAgent
  <2>2. loop' = <<>>
    BY <2>1
  <2>10. ListState(l1)' /\ ListState(db)' /\ SessionInv'
    BY <1>20 DEF SkipAgent, Excused, Matches
  <2>13. SerialPc'
    BY <2>1, <2>2, <1>20 DEF SkipAgent
  <2>14. QED BY <2>10, <2>13
<1>21. CASE AdvanceBegin
  <2>1. l1.idx < N /\ current_agent(l1) = l1.idx + 1 /\ ~(l1.idx >= MaxDone)
    BY <1>1, <1>2, <1>21 DEF AdvanceBegin
  <2>2. loop = <<l1.idx + 1>> /\ l1.idx + 1 \in marker
    BY <1>21 DEF AdvanceBegin, Inspect
  <2>3. PICK t :
          /\ l1' = [l1 EXCEPT !.done = Append(l1.done, l1.idx + 1), !.idx = l1.idx + 1,
                              !.gi = GroupAdvance(l1, t).gi, !.ai = GroupAdvance(l1, t).ai]
          /\ cur' = l1.idx + 1 /\ loop' = Tail(loop) /\ pc' = "merge"
          /\ snap'.gi = l1.gi /\ snap'.ai = l1.ai
    BY <1>1, <2>1, <1>21 DEF AdvanceBegin
  <2>4. /\ l1'.idx = l1.idx + 1 /\ l1'.done = Append(l1.done, l1.idx + 1) /\ l1'.grouped = l1.grouped
        /\ l1'.gi = GroupAdvance(l1, t).gi /\ l1'.ai = GroupAdvance(l1, t).ai
    BY <1>1, <2>3 DEF State
  <2>5. l1'.grouped => Grouped /\ Matches(l1'.gi, l1'.ai, l1.idx + 1) /\ Matches(snap'.gi, snap'.ai, l1.idx)
    BY <1>1, <2>1, <2>3, <2>4, PositionAdvances
  <2>6. loop' = <<>> /\ l1'.idx - 1 = l1.idx
    BY <1>1, <2>2, <2>3, <2>4
  <2>10. ListState(l1)'
    <3>1. l1'.done = First(l1.idx + 1)
      <4>1. l1.idx \in Nat /\ l1.done = First(l1.idx)
        BY <1>1
      <4>2. Append(First(l1.idx), l1.idx + 1) = First(l1.idx + 1)
        BY <4>1, ExtendPrefix
      <4>3. QED BY <2>4, <4>1, <4>2
    <3>2. \A b \in 1..l1.idx + 1 : b \in marker' \union Excused
      BY <1>1, <2>2, <1>21 DEF AdvanceBegin
    <3>3. QED BY <1>1, <2>1, <2>4, <2>5, <3>1, <3>2 DEF Excused, Matches
  <2>11. ListState(db)'
    BY <1>1, <1>2, <1>3, <1>21 DEF AdvanceBegin
  <2>12. SessionInv'
    BY <1>1, <1>2, <1>3, <1>21 DEF AdvanceBegin
  <2>13. SerialPc'
    <3>1. cur' = l1'.idx /\ cur' \in marker' /\ plan' = plan /\ pc = "loop"
      BY <2>2, <2>3, <2>4, <1>21 DEF AdvanceBegin, Inspect
    <3>2. l1'.grouped => Matches(snap'.gi, snap'.ai, l1'.idx - 1)
      BY <2>5, <2>6
    <3>3. QED BY <2>3, <2>6, <3>1, <3>2, <1>21 DEF AdvanceBegin, Excused, Matches
  <2>14. QED BY <2>10, <2>11, <2>12, <2>13
<1>22. CASE MergePasses
  BY <1>1, <1>2, <1>3, <1>22 DEF MergePasses, MergeLands, NoChildFound
<1>23. CASE MergeUnknown
  <2>1. pc = "merge" /\ RollBack(l1.err) /\ UNCHANGED marker
    BY <1>23 DEF MergeUnknown, MergeExhausted
  <2>2. l1.err \in Errors
    BY <1>1 DEF State, Errors
  <2>3. ListState(l1)' /\ pc' = "loop"
    BY <2>1, <2>2, SerialRollBack
  <2>10. ListState(l1)'
    BY <2>3
  <2>11. ListState(db)'
    BY <1>23 DEF MergeUnknown
  <2>12. SessionInv'
    BY <1>23 DEF MergeUnknown, Excused
  <2>13. SerialPc'
    BY <2>3, <1>23 DEF MergeUnknown, RollBack, MergeExhausted
  <2>14. QED BY <2>10, <2>11, <2>12, <2>13
<1>24. CASE MergeRetryLater
  <2>1. pc = "merge" /\ RollBack(l1.err) /\ UNCHANGED marker
    BY <1>24 DEF MergeRetryLater, MergeExhausted
  <2>2. l1.err \in Errors
    BY <1>1 DEF State, Errors
  <2>3. ListState(l1)' /\ pc' = "loop"
    BY <2>1, <2>2, SerialRollBack
  <2>10. ListState(l1)'
    BY <2>3
  <2>11. ListState(db)'
    BY <1>24 DEF MergeRetryLater
  <2>12. SessionInv'
    BY <1>24 DEF MergeRetryLater, Excused
  <2>13. SerialPc'
    BY <2>3, <1>24 DEF MergeRetryLater, RollBack, MergeExhausted
  <2>14. QED BY <2>10, <2>11, <2>12, <2>13
<1>25. CASE DispatchDevops
  <2>1. pc = "merge" /\ RollBack(l1.err) /\ UNCHANGED marker
    BY <1>25 DEF DispatchDevops, MergeExhausted
  <2>2. l1.err \in Errors
    BY <1>1 DEF State, Errors
  <2>3. ListState(l1)' /\ pc' = "loop"
    BY <2>1, <2>2, SerialRollBack
  <2>10. ListState(l1)'
    BY <2>3
  <2>11. ListState(db)'
    BY <1>25 DEF DispatchDevops
  <2>12. SessionInv'
    BY <1>25 DEF DispatchDevops, Excused
  <2>13. SerialPc'
    BY <2>3, <1>25 DEF DispatchDevops, RollBack, MergeExhausted
  <2>14. QED BY <2>10, <2>11, <2>12, <2>13
<1>26. CASE DevopsAlreadyActive
  <2>1. pc = "merge" /\ RollBack(l1.err) /\ UNCHANGED marker
    BY <1>26 DEF DevopsAlreadyActive, MergeExhausted
  <2>2. l1.err \in Errors
    BY <1>1 DEF State, Errors
  <2>3. ListState(l1)' /\ pc' = "loop"
    BY <2>1, <2>2, SerialRollBack
  <2>10. ListState(l1)'
    BY <2>3
  <2>11. ListState(db)'
    BY <1>26 DEF DevopsAlreadyActive
  <2>12. SessionInv'
    BY <1>26 DEF DevopsAlreadyActive, Excused
  <2>13. SerialPc'
    BY <2>3, <1>26 DEF DevopsAlreadyActive, RollBack, MergeExhausted
  <2>14. QED BY <2>10, <2>11, <2>12, <2>13
<1>27. CASE Halt
  <2>1. pc = "merge" /\ RollBack("merge") /\ UNCHANGED marker
    BY <1>27 DEF Halt, MergeExhausted
  <2>2. "merge" \in Errors
    BY <1>1 DEF State, Errors
  <2>3. ListState(l1)' /\ pc' = "loop"
    BY <2>1, <2>2, SerialRollBack
  <2>10. ListState(l1)'
    BY <2>3
  <2>11. ListState(db)'
    BY <1>27 DEF Halt
  <2>12. SessionInv'
    BY <1>27 DEF Halt, Excused
  <2>13. SerialPc'
    BY <2>3, <1>27 DEF Halt, RollBack, MergeExhausted
  <2>14. QED BY <2>10, <2>11, <2>12, <2>13
<1>28. CASE Effects
  BY <1>1, <1>2, <1>3, <1>28 DEF Effects
<1>29. CASE AdvanceComplete
  BY <1>1, <1>2, <1>3, <1>29 DEF AdvanceComplete
<1>30. CASE ParallelWait
  BY <1>1, <1>2, <1>3, <1>30 DEF ParallelWait
<1>31. CASE PassHuman
  <2>1. Human = l1.idx + 1 /\ l1.idx < N /\ Human \in Excused
    BY <1>1, <1>2, <1>31 DEF PassHuman, PassesHuman, Excused, Continue
  <2>0. ~Grouped /\ ~l1.grouped
    BY <1>1, <2>1, <1>31 DEF Serial, NoSkip, PassHuman, PassesHuman
  <2>2. l1'.idx = l1.idx + 1 /\ l1'.done = Append(l1.done, l1.idx + 1) /\ ~l1'.grouped
    BY <1>1, <2>0, <2>1, <1>31 DEF PassHuman, State
  <2>10. ListState(l1)'
    <3>1. l1'.done = First(l1.idx + 1)
      <4>1. l1.idx \in Nat /\ l1.done = First(l1.idx)
        BY <1>1
      <4>2. Append(First(l1.idx), l1.idx + 1) = First(l1.idx + 1)
        BY <4>1, ExtendPrefix
      <4>3. QED BY <2>2, <4>1, <4>2
    <3>2. \A b \in 1..l1.idx + 1 : b \in marker' \union Excused
      BY <1>1, <2>1, <1>31 DEF PassHuman
    <3>3. QED BY <1>1, <2>1, <2>2, <3>1, <3>2 DEF Excused
  <2>11. ListState(db)'
    BY <1>1, <1>2, <1>3, <1>31 DEF PassHuman
  <2>12. SessionInv'
    BY <1>1, <1>2, <1>3, <1>31 DEF PassHuman
  <2>13. SerialPc'
    <3>1. is_complete(l1', st') => l1'.idx = N
      BY <1>1, <2>1, <2>2 DEF is_complete
    <3>2. plan' = plan /\ loop' = <<>> /\ pc' \in {"transition", "next"} /\ (pc' = "transition" => l1'.idx = N) /\ pc = "decide"
      BY <3>1, <1>31 DEF PassHuman, Continue
    <3>3. QED BY <2>0, <3>2, <1>31 DEF PassHuman, Excused
  <2>14. QED BY <2>10, <2>11, <2>12, <2>13
<1>32. CASE AssignNext
  <2>10. ListState(l1)'
    BY <1>1, <1>2, <1>3, <1>32 DEF AssignNext
  <2>11. ListState(db)'
    BY <1>1, <1>2, <1>3, <1>32 DEF AssignNext
  <2>12. SessionInv'
    BY <1>1, <1>2, <1>3, <1>32 DEF AssignNext
  <2>13. SerialPc'
    <3>1. loop = <<>> /\ plan'.todo = NextAgents /\ plan'.calls = {} /\ held' = l1
      BY <1>32 DEF AssignNext, Continue
    <3>2. NextAgents \subseteq {l1.idx + 1}
      BY <1>2 DEF NextAgents
    <3>3. \A a \in plan'.todo : Ready(a)
      BY <1>3, <3>1, <3>2
    <3>4. plan'.kind # "group" /\ l1' = l1 /\ marker' = marker
      BY <1>2, <1>32 DEF AssignNext
    <3>5. QED BY <1>1, <3>1, <3>2, <3>3, <3>4, <1>32 DEF AssignNext, Excused, Matches
  <2>14. QED BY <2>10, <2>11, <2>12, <2>13
<1>33. CASE DeferNext
  <2>10. ListState(l1)'
    BY <1>1, <1>2, <1>3, <1>33 DEF DeferNext
  <2>11. ListState(db)'
    BY <1>1, <1>2, <1>3, <1>33 DEF DeferNext
  <2>12. SessionInv'
    BY <1>1, <1>2, <1>3, <1>33 DEF DeferNext
  <2>13. SerialPc'
    BY <1>33 DEF DeferNext, Continue
  <2>14. QED BY <2>10, <2>11, <2>12, <2>13
<1>34. CASE LookAtMarker
  <2>10. ListState(l1)'
    BY <1>1, <1>2, <1>3, <1>34 DEF LookAtMarker
  <2>11. ListState(db)'
    BY <1>1, <1>2, <1>3, <1>34 DEF LookAtMarker
  <2>12. SessionInv'
    BY <1>1, <1>2, <1>3, <1>34 DEF LookAtMarker
  <2>13. SerialPc'
    BY <1>34 DEF LookAtMarker, Inspect
  <2>14. QED BY <2>10, <2>11, <2>12, <2>13
<1>35. CASE ReadTable
  <2>10. ListState(l1)'
    BY <1>1, <1>2, <1>3, <1>35 DEF ReadTable
  <2>11. ListState(db)'
    BY <1>1, <1>2, <1>3, <1>35 DEF ReadTable
  <2>12. SessionInv'
    BY <1>1, <1>2, <1>3, <1>35 DEF ReadTable
  <2>13. SerialPc'
    <3>1. loop = <<>> /\ loop' = <<>> /\ l1' = l1 /\ marker' = marker /\ pc = "table" /\ plan.calls = {}
      BY <1>35 DEF ReadTable
    <3>2. CASE plan' = plan /\ pc' = "outputs"
      BY <3>1, <3>2, <1>35 DEF ReadTable, Excused
    <3>3. CASE pc' = "budget" /\ plan'.todo = Unassigned /\ plan'.calls = {} /\ held' = l1 /\ plan'.kind # "group"
      <4>1. Unassigned \subseteq {l1.idx + 1}
        BY <1>1, <1>2 DEF Unassigned, InSeq
      <4>2. \A a \in plan'.todo : Ready(a)
        BY <1>3, <3>3, <4>1
      <4>3. QED BY <1>1, <3>1, <3>3, <4>1, <4>2, <1>35 DEF Excused, Matches
    <3>4. QED BY <1>35, <3>2, <3>3 DEF ReadTable
  <2>14. QED BY <2>10, <2>11, <2>12, <2>13
<1>47. CASE DeferMissing
  <2>10. ListState(l1)'
    BY <1>1, <1>2, <1>3, <1>47 DEF DeferMissing
  <2>11. ListState(db)'
    BY <1>1, <1>2, <1>3, <1>47 DEF DeferMissing
  <2>12. SessionInv'
    BY <1>1, <1>2, <1>3, <1>47 DEF DeferMissing
  <2>13. SerialPc'
    BY <1>47 DEF DeferMissing, NoPlan, Excused
  <2>14. QED BY <2>10, <2>11, <2>12, <2>13
<1>48. CASE AssignMissing
  <2>10. ListState(l1)'
    BY <1>1, <1>2, <1>3, <1>48 DEF AssignMissing
  <2>11. ListState(db)'
    BY <1>1, <1>2, <1>3, <1>48 DEF AssignMissing
  <2>12. SessionInv'
    BY <1>1, <1>2, <1>3, <1>48 DEF AssignMissing
  <2>13. SerialPc'
    BY <1>48 DEF AssignMissing, Excused, Matches
  <2>14. QED BY <2>10, <2>11, <2>12, <2>13
<1>36. ASSUME NEW a \in Agents, CallAssign(a) PROVE SerialInv'
  BY <1>1, <1>2, <1>3, <1>36 DEF CallAssign
<1>37. ASSUME NEW a \in Agents, AssignSucceeds(a) PROVE SerialInv'
  <2>1. /\ Ready(a) /\ a = l1.idx + 1 /\ UNCHANGED marker /\ "none" \in Errors
        /\ l1' = [l1 EXCEPT !.present = TRUE, !.done = First(a - 1), !.idx = a - 1,
                            !.err = "none"]
    BY <1>2, <1>37 DEF AssignSucceeds, AssignedState, Errors
  <2>2. starts \in [Agents -> Nat] /\ work \in [Agents -> {"idle", "busy", "ready"}]
    BY DEF TypeOK, GithubType
  <2>3. /\ plan'.todo = plan.todo /\ plan'.calls \subseteq plan.calls
        /\ pc' = "assign" /\ loop' = <<>> /\ held' = held /\ plan'.kind = plan.kind /\ pc = "assign"
    BY <1>37 DEF AssignSucceeds, TypeOK, FrameType, PlanType
  <2>10. ListState(l1)' /\ l1'.idx = l1.idx
    BY <1>1, <2>1, SerialAssigned
  <2>11. ListState(db)'
    BY <1>1, <1>2, <1>3, <1>37 DEF AssignSucceeds
  <2>12. SessionInv'
    BY <2>1, <2>2, <1>37 DEF AssignSucceeds, StartSession, Excused
  <2>13. SerialPc'
    BY <2>1, <2>3, <2>10, <1>37 DEF AssignSucceeds, Excused, Matches
  <2>14. QED BY <2>10, <2>11, <2>12, <2>13
<1>38. ASSUME NEW a \in Agents, AssignFails(a) PROVE SerialInv'
  <2>1. /\ Ready(a) /\ a = l1.idx + 1 /\ UNCHANGED marker /\ "assign" \in Errors
        /\ l1' = [l1 EXCEPT !.present = TRUE, !.done = First(a - 1), !.idx = a - 1,
                            !.err = "assign"]
    BY <1>2, <1>38 DEF AssignFails, AssignedState, Errors
  <2>3. /\ plan'.todo = plan.todo /\ plan'.calls \subseteq plan.calls
        /\ pc' = "assign" /\ loop' = <<>> /\ held' = held /\ plan'.kind = plan.kind /\ pc = "assign"
    BY <1>38 DEF AssignFails, TypeOK, FrameType, PlanType
  <2>10. ListState(l1)' /\ l1'.idx = l1.idx
    BY <1>1, <2>1, SerialAssigned
  <2>11. ListState(db)'
    BY <1>1, <1>2, <1>3, <1>38 DEF AssignFails
  <2>12. SessionInv'
    BY <1>1, <1>2, <1>3, <1>38 DEF AssignFails
  <2>13. SerialPc'
    BY <2>1, <2>3, <2>10, <1>38 DEF AssignFails, Excused, Matches
  <2>14. QED BY <2>10, <2>11, <2>12, <2>13
<1>39. CASE AssignHuman
  <2>1. /\ Human \in Agents /\ Ready(Human) /\ Human = l1.idx + 1 /\ UNCHANGED marker /\ "none" \in Errors
        /\ l1' = [l1 EXCEPT !.present = TRUE, !.done = First(Human - 1), !.idx = Human - 1,
                            !.err = "none"]
    BY <1>39 DEF AssignHuman, Errors, TypeOK, FrameType, PlanType
  <2>2. starts \in [Agents -> Nat] /\ work \in [Agents -> {"idle", "busy", "ready"}]
    BY DEF TypeOK, GithubType
  <2>3. /\ plan'.todo \subseteq plan.todo /\ plan'.calls = plan.calls
        /\ pc' = "assign" /\ loop' = <<>> /\ held' = held /\ plan'.kind = plan.kind /\ pc = "assign"
    BY <1>39 DEF AssignHuman, TypeOK, FrameType, PlanType
  <2>10. ListState(l1)' /\ l1'.idx = l1.idx
    BY <1>1, <2>1, SerialAssigned
  <2>11. ListState(db)'
    BY <1>1, <1>2, <1>3, <1>39 DEF AssignHuman
  <2>12. SessionInv'
    BY <2>1, <2>2, <1>39 DEF AssignHuman, StartSession, Excused
  <2>13. SerialPc'
    BY <2>1, <2>3, <2>10, <1>39 DEF AssignHuman, Excused, Matches
  <2>14. QED BY <2>10, <2>11, <2>12, <2>13
<1>40. CASE EndAssignNext
  <2>10. ListState(l1)'
    BY <1>1, <1>2, <1>3, <1>40 DEF EndAssignNext
  <2>11. ListState(db)'
    BY <1>1, <1>2, <1>3, <1>40 DEF EndAssignNext
  <2>12. SessionInv'
    BY <1>1, <1>2, <1>3, <1>40 DEF EndAssignNext
  <2>13. SerialPc'
    BY <1>40 DEF EndAssignNext, Assigned, NoPlan
  <2>14. QED BY <2>10, <2>11, <2>12, <2>13
<1>41. CASE EndAssignGroup
  BY <1>41 DEF EndAssignGroup, Assigned
<1>42. CASE EndAssignMissing
  <2>10. ListState(l1)'
    BY <1>42 DEF EndAssignMissing, Assigned
  <2>11. ListState(db)'
    BY <1>1, <1>2, <1>3, <1>42 DEF EndAssignMissing
  <2>12. SessionInv'
    BY <1>42 DEF EndAssignMissing, Excused
  <2>13. SerialPc'
    BY <1>42 DEF EndAssignMissing, Assigned, NoPlan
  <2>14. QED BY <2>10, <2>11, <2>12, <2>13
<1>43. CASE Transition
  <2>10. ListState(l1)'
    <3>1. First(0) = <<>>
      BY DEF First
    <3>2. QED BY <3>1, <1>43 DEF Transition, Empty
  <2>11. ListState(db)'
    BY <1>1, <1>2, <1>3, <1>43 DEF Transition
  <2>12. SessionInv'
    BY <1>1, <1>2, <1>3, <1>43 DEF Transition
  <2>13. SerialPc'
    BY <1>43 DEF Transition
  <2>14. QED BY <2>10, <2>11, <2>12, <2>13
<1>44. CASE TransitionFails
  <2>10. ListState(l1)'
    <3>1. First(0) = <<>>
      BY DEF First
    <3>2. QED BY <3>1, <1>44 DEF TransitionFails, Empty
  <2>11. ListState(db)'
    BY <1>1, <1>2, <1>3, <1>44 DEF TransitionFails
  <2>12. SessionInv'
    BY <1>1, <1>2, <1>3, <1>44 DEF TransitionFails
  <2>13. SerialPc'
    BY <1>44 DEF TransitionFails
  <2>14. QED BY <2>10, <2>11, <2>12, <2>13
<1>45. CASE UNCHANGED vars
  BY <1>45 DEF vars
<1>46. QED
  BY <1>4, <1>5, <1>6, <1>7, <1>8, <1>9, <1>10, <1>11, <1>12, <1>13, <1>14, <1>15, <1>16,
     <1>17, <1>18, <1>19, <1>20, <1>21, <1>22, <1>23, <1>24, <1>25, <1>26, <1>27, <1>28,
     <1>29, <1>30, <1>31, <1>32, <1>33, <1>34, <1>35, <1>36, <1>37, <1>38, <1>39, <1>40,
     <1>41, <1>42, <1>43, <1>44, <1>45, <1>47, <1>48
  DEF Next, Poll, Failure, World, Terminated

\* Serial pipelines keep the inductive invariant, for any number of agents, any
\* failures and any number of restarts.
THEOREM SerialCorrect == Serial /\ Spec => [](TypeOK /\ SerialInv)
<1>1. Serial /\ Init => TypeOK /\ SerialInv
  BY TypeInit, SerialInit
<1>2. Serial /\ (TypeOK /\ SerialInv) /\ [Next]_vars => (TypeOK /\ SerialInv)'
  BY TypeStep, SerialStep
<1> SUFFICES ASSUME Serial PROVE Spec => [](TypeOK /\ SerialInv)
  OBVIOUS
<1>3. Init => TypeOK /\ SerialInv
  BY <1>1
<1>4. (TypeOK /\ SerialInv) /\ [Next]_vars => (TypeOK /\ SerialInv)'
  BY <1>2
<1>5. QED BY <1>3, <1>4, PTL DEF Spec

\* A serial pipeline never repeats or skips an agent in its record of completed
\* agents, in the cache and in the database.
THEOREM SerialPrefix == Serial /\ Spec => []CompletedIsPrefix
<1>1. SerialInv => CompletedIsPrefix
  BY DEF SerialInv, ListState, CompletedIsPrefix
<1>2. QED BY <1>1, SerialCorrect, PTL

\* A serial pipeline records an agent as completed only with its Done! marker on
\* the issue.
THEOREM SerialMarkers == Serial /\ Spec => []CompletedHaveMarkers
<1>1. ASSUME TypeOK, SerialInv PROVE CompletedHaveMarkers
  <2>1. ASSUME NEW s \in {l1, db}, NEW i \in DOMAIN s.done
        PROVE  s.done[i] \in marker \union Excused
    <3>1. ListState(s)
      BY <1>1 DEF SerialInv
    <3>2. s.idx \in Nat
      BY <1>1 DEF TypeOK, StoreType, State
    <3>3. i \in 1..s.idx /\ s.done[i] = i
      BY <3>1, <3>2 DEF ListState, First
    <3>4. QED BY <3>1, <3>3 DEF ListState
  <2>2. QED BY <2>1 DEF CompletedHaveMarkers
<1>2. QED BY <1>1, SerialCorrect, PTL

-----------------------------------------------------------------------------
(* The contract                                                            *)

\* In a serial pipeline every earlier agent is a predecessor.
LEMMA SerialBefore ==
  ASSUME Serial, NEW a \in Agents
  PROVE  Before[a] = 1..a - 1
<1> SUFFICES ASSUME NEW b \in 1..a - 1, NEW g \in DOMAIN Groups
    PROVE  Groups[g].mode = "parallel" => ~({a, b} \subseteq Members(g))
  BY DEF Before
<1>1. QED BY DEF Serial

LEMMA ContractInit == Serial /\ Init => Contract!Init
<1> SUFFICES ASSUME Serial, Init PROVE Contract!Init
  OBVIOUS
<1>1. FirstAgents = {1}
  <2>1. Grouped => Groups[1].mode = "sequential"
    BY GroupShape DEF Serial
  <2>2. QED BY <2>1 DEF FirstAgents
<1>2. {a \in Agents : starts[a] > 0} = {1}
  <2>1. 1 \in Agents /\ \A a \in Agents : starts[a] = IF a = 1 THEN 1 ELSE 0
    BY <1>1 DEF Init
  <2>2. QED BY <2>1
<1>3. {a \in Agents : Before[a] = {}} = {1}
  <2>1. 1 \in Agents /\ \A a \in Agents : Before[a] = 1..a - 1
    BY SerialBefore
  <2>2. \A a \in Agents : 1..a - 1 = {} <=> a = 1
    OBVIOUS
  <2> HIDE DEF Agents
  <2>3. QED BY <2>1, <2>2
<1>4. QED BY <1>2, <1>3 DEF Init, Contract!Init

\* Work given to ready agents is a Begin of the contract.
LEMMA ContractBegin ==
  ASSUME Serial, TypeOK, NEW S \in SUBSET Agents, \A a \in S : Ready(a),
         starts' = [a \in Agents |-> IF a \in S THEN starts[a] + 1 ELSE starts[a]],
         UNCHANGED <<marker, board>>
  PROVE  Contract!Begin
<1>1. starts \in [Agents -> Nat]
  BY DEF TypeOK, GithubType
<1>2. \A a \in S : Before[a] \subseteq marker \union Excused
  BY SerialBefore DEF Ready
<1>3. {a \in Agents : starts'[a] > 0} = {a \in Agents : starts[a] > 0} \union S
  <2> HIDE DEF Agents
  <2>1. ASSUME NEW a \in Agents
        PROVE  starts'[a] > 0 <=> starts[a] > 0 \/ a \in S
    BY <1>1
  <2>2. QED BY <2>1
<1>4. QED BY <1>2, <1>3 DEF Contract!Begin, Contract!Done

LEMMA ContractStep ==
  ASSUME Serial, TypeOK, SerialInv, [Next]_vars
  PROVE  [Contract!Next]_<<{a \in Agents : starts[a] > 0}, marker, board = "moved">>
<1> DEFINE begun == {a \in Agents : starts[a] > 0}
           Step == [Contract!Next]_<<begun, marker, board = "moved">>
<1>1. l1 \in State /\ l1.idx \in 0..N
  BY DEF TypeOK, StoreType, SerialInv, ListState, State
<1>2. starts \in [Agents -> Nat] /\ plan.todo \subseteq Agents /\ plan.calls \subseteq Agents
  BY DEF TypeOK, GithubType, FrameType, PlanType
<1>3. ASSUME NEW a \in Agents, AgentFinishes(a) PROVE Step
  <2>1. a \in begun
    BY <1>3 DEF AgentFinishes, SerialInv, SessionInv
  <2>2. marker' \in {marker, marker \union {a}} /\ UNCHANGED <<starts, board>>
    BY <1>3 DEF AgentFinishes
  <2>3. QED BY <2>1, <2>2 DEF Contract!Next, Contract!Finish
<1>4. CASE HumanFinishes
  <2>1. Human \in begun
    BY <1>4 DEF HumanFinishes, SerialInv, SessionInv
  <2>2. marker' = marker \union {Human} /\ UNCHANGED <<starts, board>>
    BY <1>4 DEF HumanFinishes
  <2>3. QED BY <2>1, <2>2 DEF Contract!Next, Contract!Finish
<1>5. CASE PostMarker
  <2>1. current_agent(l1) \in begun
    BY <1>1, <1>5, CurrentAgentType DEF PostMarker, SerialInv, SerialPc
  <2>2. marker' = marker \union {current_agent(l1)} /\ UNCHANGED <<starts, board>>
    BY <1>5 DEF PostMarker
  <2>3. QED BY <2>1, <2>2 DEF Contract!Next, Contract!Finish
<1>6. ASSUME NEW a \in Agents, AssignSucceeds(a) PROVE Step
  <2>1. Ready(a) /\ UNCHANGED <<marker, board>>
    BY <1>6 DEF AssignSucceeds, SerialInv, SerialPc
  <2>2. starts' = [b \in Agents |-> IF b \in {a} THEN starts[b] + 1 ELSE starts[b]]
    BY <1>2, <1>6 DEF AssignSucceeds, StartSession
  <2>3. Contract!Begin
    <3> HIDE DEF Agents
    <3>1. {a} \in SUBSET Agents /\ \A b \in {a} : Ready(b)
      BY <2>1
    <3>2. QED BY <2>1, <2>2, <3>1, ContractBegin
  <2>4. QED BY <2>3 DEF Contract!Next
<1>7. CASE AssignHuman
  <2>1. Human \in Agents /\ Ready(Human) /\ UNCHANGED <<marker, board>>
    BY <1>2, <1>7 DEF AssignHuman, SerialInv, SerialPc
  <2>2. starts' = [b \in Agents |-> IF b \in {Human} THEN starts[b] + 1 ELSE starts[b]]
    BY <1>2, <1>7 DEF AssignHuman, StartSession
  <2>3. Contract!Begin
    <3> HIDE DEF Agents
    <3>1. {Human} \in SUBSET Agents /\ \A b \in {Human} : Ready(b)
      BY <2>1
    <3>2. QED BY <2>1, <2>2, <3>1, ContractBegin
  <2>4. QED BY <2>3 DEF Contract!Next
<1>8. CASE Crash
  <2>1. PICK landed \in SUBSET plan.calls :
          starts' = [a \in Agents |-> IF a \in landed THEN starts[a] + 1 ELSE starts[a]]
    BY <1>8 DEF Crash
  <2>2. landed \subseteq Agents /\ \A a \in landed : Ready(a)
    BY <1>2 DEF SerialInv, SerialPc
  <2>3. Contract!Begin
    BY <2>1, <2>2, <1>8, ContractBegin DEF Crash
  <2>4. QED BY <2>3 DEF Contract!Next
<1>9. CASE Transition
  <2>1. l1.idx = N /\ \A b \in 1..l1.idx : b \in marker \union Excused
    BY <1>9 DEF Transition, SerialInv, SerialPc, ListState
  <2>2. Agents \subseteq marker \union Excused
    BY <2>1
  <2>3. board' = "moved" /\ UNCHANGED <<starts, marker>>
    BY <1>9 DEF Transition
  <2>4. Contract!Move
    BY <2>2, <2>3 DEF Contract!Move, Contract!Done
  <2>5. QED BY <2>4 DEF Contract!Next
<1>10. CASE UNCHANGED <<starts, marker, board>>
  BY <1>10
<1>11. CASE \/ NoOutputs \/ ReconstructIfMissing \/ MergeAndClaim \/ PostMarkerFails
            \/ TrackDone \/ Reconstruct \/ DetectComplete \/ BeginLoop \/ EndLoop
            \/ SkipAgent \/ AdvanceBegin \/ MergePasses \/ MergeUnknown
            \/ MergeRetryLater \/ DispatchDevops \/ DevopsAlreadyActive \/ Halt
            \/ Effects \/ AdvanceComplete \/ ParallelWait \/ PassHuman \/ AssignNext
            \/ DeferNext \/ LookAtMarker \/ ReadTable \/ DeferMissing \/ AssignMissing
  <2>1. UNCHANGED <<starts, marker, board>>
    BY <1>11 DEF NoOutputs, ReconstructIfMissing, MergeAndClaim, PostMarkerFails,
         TrackDone, Reconstruct, DetectComplete, BeginLoop, EndLoop, SkipAgent,
         AdvanceBegin, MergePasses, MergeUnknown, MergeRetryLater, DispatchDevops,
         DevopsAlreadyActive, Halt, Effects, AdvanceComplete, ParallelWait, PassHuman,
         AssignNext, DeferNext, LookAtMarker, ReadTable, DeferMissing, AssignMissing, github
  <2>2. QED BY <1>10, <2>1
<1>12. CASE \/ \E a \in Agents : DevopsRepairs(a) \/ CallAssign(a)
                                \/ AssignFails(a)
            \/ GraceElapses \/ Persist \/ EndAssignNext \/ EndAssignGroup
            \/ EndAssignMissing \/ TransitionFails \/ UNCHANGED vars
  <2>1. UNCHANGED <<starts, marker, board>>
    BY <1>12 DEF DevopsRepairs, CallAssign, AssignFails, GraceElapses,
         Persist, EndAssignNext, EndAssignGroup, EndAssignMissing, TransitionFails,
         vars, github
  <2>2. QED BY <1>10, <2>1
<1>13. Step
  <2>1. CASE Poll
    BY <2>1, <1>5, <1>6, <1>7, <1>9, <1>11, <1>12 DEF Poll
  <2>2. CASE Failure
    BY <2>2, <1>11, <1>12 DEF Failure
  <2>3. CASE World
    BY <2>3, <1>3, <1>4, <1>12 DEF World
  <2>4. CASE Terminated \/ UNCHANGED vars
    BY <2>4, <1>12 DEF Terminated
  <2>5. QED BY <2>1, <2>2, <2>3, <2>4, <1>8 DEF Next
<1>14. QED BY <1>13

\* A serial pipeline implements the contract: no agent begins before all earlier
\* ones have posted their Done! markers, and the board item moves only when all
\* have, whatever fails and whenever the process restarts.
THEOREM SerialImplementsContract == Serial /\ Spec => ImplementsContract
<1> SUFFICES ASSUME Serial PROVE Spec => ImplementsContract
  OBVIOUS
<1>1. Init => Contract!Init
  BY ContractInit
<1>2. TypeOK /\ SerialInv /\ [Next]_vars
      => [Contract!Next]_<<{a \in Agents : starts[a] > 0}, marker, board = "moved">>
  BY ContractStep
<1>3. Spec => [](TypeOK /\ SerialInv)
  BY SerialCorrect
<1>4. QED BY <1>1, <1>2, <1>3, PTL DEF Spec, ImplementsContract, Contract!Spec

-----------------------------------------------------------------------------
(* One start in each life.  An agent that the position has not reached was *)
(* not started in this life of the process; the one it has reached either  *)
(* was not, or is pending, or has its marker.  A step passed over leaves no*)
(* marker: were the board update to fail at the end, the pipeline would be *)
(* found again at that step, and those after it started once more.         *)
NotRevisited == NoSkip \/ "board" \notin Faults

Unstarted(a) == a # Human => starts[a] <= crashes
Advancing == pc \in {"merge", "effects", "decide", "next"}

StartInv ==
  /\ SingleStart
  /\ Advancing => \A a \in Agents : a > l1.idx => Unstarted(a)
  /\ l1.present => \A a \in Agents :
        a > l1.idx + 1 \/ (a = l1.idx + 1 /\ a \notin pend \union marker) => Unstarted(a)
  /\ ~l1.present /\ board = "here" => Agents \subseteq marker \/ \A a \in Agents : Unstarted(a)
  /\ \A a \in plan.todo \union plan.calls : Unstarted(a)
  /\ plan.calls \subseteq pend /\ plan.todo \cap plan.calls = {} /\ Human \notin plan.calls
  /\ pc \notin {"outputs", "check"} => l1.present
  /\ pc \in {"budget", "assign"} => held.present
  /\ pc = "table" => \A a \in Agents : a = l1.idx + 1 /\ a \notin pend => Unstarted(a)
  /\ board = "moved" => pc = "outputs"

LEMMA StartInit == Serial /\ Init => StartInv
<1> SUFFICES ASSUME Serial, Init PROVE StartInv
  OBVIOUS
<1>1. FirstAgents = {1}
  <2>1. Grouped => Groups[1].mode = "sequential"
    BY GroupShape DEF Serial
  <2>2. QED BY <2>1 DEF FirstAgents
<1>2. /\ starts = [a \in Agents |-> IF a = 1 THEN 1 ELSE 0] /\ crashes = 0 /\ pend = {1}
      /\ l1.idx = 0 /\ l1.present
  BY <1>1 DEF Init, Empty
<1>3. QED BY <1>2 DEF Init, StartInv, SingleStart, Advancing, Unstarted, NoPlan

\* A step that starts nobody and leaves the position where it is.
LEMMA StartGoesOn ==
  ASSUME StartInv, UNCHANGED <<starts, crashes, board>>,
         l1'.idx = l1.idx, l1'.present = l1.present, pend \subseteq pend', marker \subseteq marker',
         plan' = plan \/ plan' = NoPlan, Advancing' => Advancing,
         pc' \notin {"outputs", "check"} => l1.present,
         pc' \in {"budget", "assign"} => held'.present,
         pc' = "table" => pc = "table",
         board = "moved" => pc' = "outputs"
  PROVE  StartInv'
<1>1. \A a : Unstarted(a)' <=> Unstarted(a)
  BY DEF Unstarted
<1>2. SingleStart'
  BY DEF StartInv, SingleStart
<1>3. Advancing' => \A a \in Agents : a > l1'.idx => Unstarted(a)'
  BY <1>1 DEF StartInv
<1>4. l1'.present => \A a \in Agents :
        a > l1'.idx + 1 \/ (a = l1'.idx + 1 /\ a \notin pend' \union marker') => Unstarted(a)'
  BY <1>1 DEF StartInv
<1>5. /\ \A a \in plan'.todo \union plan'.calls : Unstarted(a)'
      /\ plan'.calls \subseteq pend' /\ plan'.todo \cap plan'.calls = {} /\ Human \notin plan'.calls
  BY <1>1 DEF StartInv, NoPlan
<1>6. ~l1'.present /\ board' = "here" => Agents \subseteq marker' \/ \A a \in Agents : Unstarted(a)'
  BY <1>1 DEF StartInv
<1>7. pc' = "table" => \A a \in Agents : a = l1'.idx + 1 /\ a \notin pend' => Unstarted(a)'
  BY <1>1 DEF StartInv
<1>8. QED BY <1>2, <1>3, <1>4, <1>5, <1>6, <1>7 DEF StartInv

\* Taking back an advance: the agent it was about has its marker.
LEMMA StartRollBack ==
  ASSUME TypeOK, SerialInv, StartInv, pc = "merge", NEW e \in Errors, RollBack(e),
         UNCHANGED <<starts, crashes, board, pend, marker, plan>>
  PROVE  StartInv'
<1>1. l1 \in State /\ l1.idx \in Nat \ {0} /\ l1.idx <= N /\ l1.idx \in marker
  BY DEF TypeOK, StoreType, Designated, SerialInv, SerialPc, ListState, State
<1>2. l1'.idx = l1.idx - 1 /\ l1'.present = l1.present /\ pc' = "loop"
  BY <1>1 DEF RollBack, State
<1>3. l1.present /\ board # "moved" /\ Advancing
  BY DEF StartInv, Advancing
<1>4. \A a : Unstarted(a)' <=> Unstarted(a)
  BY DEF Unstarted
<1>5. \A a \in Agents : a > l1'.idx + 1 \/ (a = l1'.idx + 1 /\ a \notin pend' \union marker') => Unstarted(a)'
  BY <1>1, <1>2, <1>3, <1>4 DEF StartInv
<1>6. SingleStart'
  BY DEF StartInv, SingleStart
<1>7. ~Advancing' /\ pc' \notin {"table", "budget", "assign"} /\ l1'.present /\ board' # "moved"
  BY <1>2, <1>3 DEF Advancing
<1>8. QED BY <1>4, <1>5, <1>6, <1>7 DEF StartInv

\* The next agents are assigned: nobody past the position was started.
LEMMA StartAssignNext ==
  ASSUME Serial, TypeOK, SerialInv, StartInv, AssignNext
  PROVE  StartInv'
<1>1. l1 \in State /\ ListState(l1) /\ l1.idx \in Nat
  BY DEF TypeOK, StoreType, SerialInv, State
<1>2. Advancing /\ l1.present /\ board # "moved"
  BY DEF AssignNext, Continue, Advancing, StartInv
<1>3. plan'.todo \subseteq {l1.idx + 1} \cap Agents /\ plan'.calls = {}
  BY <1>1, SerialView DEF AssignNext, NextAgents
<1>4. UNCHANGED <<starts, crashes, board, marker, pend, l1>> /\ held' = l1 /\ pc' = "assign"
  BY DEF AssignNext, github
<1>5. \A a : Unstarted(a)' <=> Unstarted(a)
  BY <1>4 DEF Unstarted
<1>6. \A a \in Agents : a > l1.idx => Unstarted(a)
  BY <1>2 DEF StartInv
<1>7. \A a \in plan'.todo \union plan'.calls : Unstarted(a)'
  BY <1>1, <1>3, <1>5, <1>6
<1>8. SingleStart' /\ ~Advancing'
  BY <1>4 DEF StartInv, SingleStart, Advancing
<1>9. QED BY <1>2, <1>3, <1>4, <1>5, <1>7, <1>8 DEF StartInv

\* An agent without a marker is found: it is at the position, and was not
\* started in this life unless it is pending.
LEMMA StartLook ==
  ASSUME Serial, TypeOK, SerialInv, StartInv, LookAtMarker
  PROVE  StartInv'
<1>1. l1 \in State /\ ListState(l1) /\ l1.idx \in Nat
  BY DEF TypeOK, StoreType, SerialInv, State
<1>2. loop = <<l1.idx + 1>> /\ l1.idx + 1 \notin marker /\ pc = "loop"
  BY DEF LookAtMarker, Inspect, SerialInv, SerialPc
<1>3. /\ UNCHANGED <<starts, crashes, board, marker, pend, l1, plan, held>>
      /\ pc' \in {"outputs", "table"}
  BY DEF LookAtMarker, github, memory
<1>4. l1.present /\ board # "moved"
  BY <1>2 DEF StartInv
<1>5. \A a : Unstarted(a)' <=> Unstarted(a)
  BY <1>3 DEF Unstarted
<1>6. \A a \in Agents : a = l1'.idx + 1 /\ a \notin pend' => Unstarted(a)'
  BY <1>2, <1>3, <1>4, <1>5 DEF StartInv
<1>7. SingleStart' /\ ~Advancing'
  BY <1>3 DEF StartInv, SingleStart, Advancing
<1>8. QED BY <1>3, <1>4, <1>5, <1>6, <1>7 DEF StartInv

\* The agents to be assigned are at the position and not pending.
LEMMA StartReadTable ==
  ASSUME Serial, TypeOK, SerialInv, StartInv, ReadTable
  PROVE  StartInv'
<1>1. l1 \in State /\ ListState(l1) /\ l1.idx \in Nat
  BY DEF TypeOK, StoreType, SerialInv, State
<1>2. current_agents(l1) = IF l1.idx < N THEN <<l1.idx + 1>> ELSE <<>>
  BY <1>1, SerialView
<1>3. /\ UNCHANGED <<starts, crashes, board, marker, pend, l1>> /\ pc = "table"
      /\ pc' \in {"outputs", "budget"} /\ (pc' = "budget" => held' = l1)
  BY DEF ReadTable, github, memory
<1>4. l1.present /\ board # "moved"
  BY <1>3 DEF StartInv
<1>5. \A a : Unstarted(a)' <=> Unstarted(a)
  BY <1>3 DEF Unstarted
<1>6. CASE plan' = plan
  BY <1>3, <1>4, <1>5, <1>6 DEF StartInv, SingleStart, Advancing
<1>7. CASE plan'.todo = Unassigned /\ plan'.calls = {}
  <2>1. plan'.todo \subseteq {l1.idx + 1} \cap (Agents \ pend)
    BY <1>2, <1>7 DEF Unassigned, InSeq
  <2>2. \A a \in plan'.todo \union plan'.calls : Unstarted(a)'
    BY <1>3, <1>5, <1>7, <2>1 DEF StartInv
  <2>3. SingleStart' /\ ~Advancing'
    BY <1>3 DEF StartInv, SingleStart, Advancing
  <2>4. QED BY <1>3, <1>4, <1>5, <1>7, <2>2, <2>3 DEF StartInv
<1>8. QED BY <1>6, <1>7 DEF ReadTable

\* A state is built again: the position is that of the first agent without a
\* marker, and behind it only when nobody was started in this life.
LEMMA StartRebuilt ==
  ASSUME StartInv, NEW k \in 0..N, IsMarkedPrefix(k), ~l1.present, board = "here",
         l1'.idx = k, l1'.present, pc \in {"outputs", "check"}, pc' = pc,
         UNCHANGED <<starts, crashes, board, marker, pend, plan, held>>
  PROVE  StartInv'
<1>1. \A a : Unstarted(a)' <=> Unstarted(a)
  BY DEF Unstarted
<1>2. CASE Agents \subseteq marker
  <2>1. k = N
    BY <1>2 DEF IsMarkedPrefix
  <2>2. \A a \in Agents : ~(a > k) /\ ~(a > k + 1) /\ ~(a = k + 1)
    BY <2>1
  <2> HIDE DEF Agents
  <2>3. QED BY <1>1, <2>2 DEF StartInv, SingleStart, Advancing
<1>3. CASE \A a \in Agents : Unstarted(a)
  BY <1>1, <1>3 DEF StartInv, SingleStart, Advancing
<1>4. QED BY <1>2, <1>3 DEF StartInv

LEMMA StartCrash ==
  ASSUME TypeOK, StartInv, Crash
  PROVE  StartInv'
<1>1. starts \in [Agents -> Nat] /\ crashes \in Nat /\ crashes' = crashes + 1 /\ plan.calls \subseteq Agents
  BY DEF Crash, TypeOK, GithubType, FrameType, PlanType
<1>2. PICK landed \in SUBSET plan.calls :
        starts' = [a \in Agents |-> IF a \in landed THEN starts[a] + 1 ELSE starts[a]]
  BY DEF Crash
<1>3. ASSUME NEW a \in Agents PROVE Unstarted(a)'
  <2>1. CASE a \in landed
    <3>1. Unstarted(a)
      BY <2>1 DEF StartInv
    <3>2. starts'[a] = starts[a] + 1
      BY <1>2, <2>1
    <3>3. starts[a] \in Nat
      BY <1>1
    <3>4. QED BY <1>1, <3>1, <3>2, <3>3 DEF Unstarted
  <2>2. CASE a \notin landed
    <3>1. a # Human => starts[a] <= 1 + crashes
      BY DEF StartInv, SingleStart
    <3>2. starts'[a] = starts[a]
      BY <1>2, <2>2
    <3>3. QED BY <1>1, <3>1, <3>2 DEF Unstarted
  <2>3. QED BY <2>1, <2>2
<1>4. SingleStart'
  <2>1. ASSUME NEW a \in Agents \ {Human} PROVE starts'[a] <= 1 + crashes'
    <3>1. starts'[a] <= crashes'
      BY <1>3, <2>1 DEF Unstarted
    <3>2. starts'[a] \in Nat
      BY <1>1, <1>2
    <3>3. QED BY <1>1, <3>1, <3>2
  <2>2. QED BY <2>1 DEF SingleStart
<1>5. plan' = NoPlan /\ pc' = "outputs"
  BY DEF Crash
<1>6. QED BY <1>3, <1>4, <1>5 DEF StartInv, NoPlan, Advancing

\* The call for an agent is made, succeeds or fails.
LEMMA StartAssigned ==
  ASSUME Serial, TypeOK, SerialInv, StartInv, NEW a \in Agents,
         CallAssign(a) \/ AssignSucceeds(a) \/ AssignFails(a)
  PROVE  StartInv'
<1>1. /\ starts \in [Agents -> Nat] /\ crashes \in Nat /\ l1 \in State /\ ListState(l1) /\ plan \in PlanType
      /\ pc = "assign" /\ a \in plan.todo \union plan.calls
  BY DEF TypeOK, GithubType, FrameType, StoreType, SerialInv, AssignSucceeds, AssignFails, CallAssign
<1>2. /\ l1.present /\ held.present /\ board # "moved" /\ Unstarted(a)
      /\ a = l1.idx + 1 /\ plan.todo \union plan.calls \subseteq {a} /\ l1.idx \in Nat
  BY <1>1 DEF StartInv, SerialInv, SerialPc, State
<1>3. CASE CallAssign(a)
  <2>1. /\ plan' = [plan EXCEPT !.todo = @ \ {a}, !.calls = @ \union {a}] /\ pend' = pend \union {a} /\ a # Human
        /\ UNCHANGED <<l1, starts, crashes, marker, board, held, pc>>
    BY <1>3 DEF CallAssign, github
  <2>2. plan'.todo = plan.todo \ {a} /\ plan'.calls = plan.calls \union {a}
    BY <1>1, <2>1 DEF PlanType
  <2>3. \A b : Unstarted(b)' <=> Unstarted(b)
    BY <2>1 DEF Unstarted
  <2>4. SingleStart' /\ ~Advancing'
    BY <1>1, <2>1 DEF StartInv, SingleStart, Advancing
  <2> HIDE DEF Agents
  <2>5. QED BY <1>1, <1>2, <2>1, <2>2, <2>3, <2>4 DEF StartInv
<1>4. CASE AssignFails(a)
  <2>1. l1' = [l1 EXCEPT !.present = TRUE, !.done = First(a - 1), !.idx = a - 1, !.err = "assign"]
    BY <1>1, <1>4, SerialView DEF AssignFails, AssignedState
  <2>2. /\ plan' = [plan EXCEPT !.calls = @ \ {a}] /\ pend' = pend \ {a} /\ a \in plan.calls
        /\ UNCHANGED <<starts, crashes, marker, board, held, pc>>
    BY <1>4 DEF AssignFails, github
  <2>3. plan'.todo = plan.todo /\ plan'.calls = plan.calls \ {a}
    BY <1>1, <2>2 DEF PlanType
  <2>4. l1'.idx = l1.idx /\ l1'.present
    BY <1>1, <1>2, <2>1 DEF State
  <2>5. \A b : Unstarted(b)' <=> Unstarted(b)
    BY <2>2 DEF Unstarted
  <2>6. SingleStart' /\ ~Advancing'
    BY <1>1, <2>2 DEF StartInv, SingleStart, Advancing
  <2>7. \A b \in Agents : b > l1.idx + 1 \/ (b = l1.idx + 1 /\ b \notin pend' \union marker) => Unstarted(b)
    BY <1>2, <2>2 DEF StartInv
  <2> HIDE DEF Agents
  <2>8. QED BY <1>1, <1>2, <2>2, <2>3, <2>4, <2>5, <2>6, <2>7 DEF StartInv
<1>5. CASE AssignSucceeds(a)
  <2>1. l1' = [l1 EXCEPT !.present = TRUE, !.done = First(a - 1), !.idx = a - 1, !.err = "none"]
    BY <1>1, <1>5, SerialView DEF AssignSucceeds, AssignedState
  <2>2. /\ plan' = [plan EXCEPT !.calls = @ \ {a}, !.ok = @ \union {a}] /\ a \in plan.calls
        /\ starts' = [starts EXCEPT ![a] = @ + 1]
        /\ UNCHANGED <<crashes, pend, marker, board, held, pc>>
    BY <1>5 DEF AssignSucceeds, StartSession
  <2>3. plan'.todo = plan.todo /\ plan'.calls = plan.calls \ {a}
    BY <1>1, <2>2 DEF PlanType
  <2>4. l1'.idx = l1.idx /\ l1'.present
    BY <1>1, <1>2, <2>1 DEF State
  <2>5. \A b \in Agents : starts'[b] = IF b = a THEN starts[b] + 1 ELSE starts[b]
    BY <1>1, <2>2
  <2>6. \A b \in Agents : b # a => (Unstarted(b)' <=> Unstarted(b))
    BY <2>2, <2>5 DEF Unstarted
  <2>7. SingleStart'
    <3>1. a # Human /\ starts[a] <= crashes /\ starts[a] \in Nat
      BY <1>1, <1>2, <2>2 DEF Unstarted, StartInv
    <3>2. starts'[a] <= 1 + crashes'
      BY <1>1, <2>2, <2>5, <3>1
    <3>3. QED BY <2>2, <2>5, <3>2 DEF StartInv, SingleStart
  <2>8. \A b \in Agents : b > l1.idx + 1 \/ (b = l1.idx + 1 /\ b \notin pend \union marker) => b # a /\ Unstarted(b)
    <3>1. a \in pend
      BY <2>2 DEF StartInv
    <3>2. QED BY <1>2, <3>1 DEF StartInv
  <2>9. plan'.todo \union plan'.calls = {}
    BY <1>2, <2>2, <2>3 DEF StartInv
  <2>10. ~Advancing' /\ pc' = "assign"
    BY <1>1, <2>2 DEF Advancing
  <2> HIDE DEF Agents
  <2>11. QED BY <1>2, <2>2, <2>4, <2>6, <2>7, <2>8, <2>9, <2>10 DEF StartInv
<1>6. QED BY <1>3, <1>4, <1>5

LEMMA StartAssignHuman ==
  ASSUME Serial, TypeOK, SerialInv, StartInv, AssignHuman
  PROVE  StartInv'
<1>1. /\ starts \in [Agents -> Nat] /\ l1 \in State /\ plan \in PlanType /\ pc = "assign"
      /\ Human \in plan.todo /\ Human \in Agents
  BY DEF TypeOK, GithubType, FrameType, StoreType, AssignHuman, PlanType
<1>2. /\ l1.present /\ held.present /\ board # "moved" /\ Human = l1.idx + 1 /\ l1.idx \in Nat
      /\ plan.todo \union plan.calls \subseteq {Human}
  BY <1>1 DEF StartInv, SerialInv, SerialPc, State
<1>3. /\ plan' = [plan EXCEPT !.todo = @ \ {Human}, !.ok = @ \union {Human}]
      /\ starts' = [starts EXCEPT ![Human] = @ + 1]
      /\ l1' = [l1 EXCEPT !.present = TRUE, !.done = First(Human - 1), !.idx = Human - 1, !.err = "none"]
      /\ UNCHANGED <<crashes, pend, marker, board, held, pc>>
  BY DEF AssignHuman, StartSession
<1>4. plan'.todo = plan.todo \ {Human} /\ plan'.calls = plan.calls
  BY <1>1, <1>3 DEF PlanType
<1>5. l1'.idx = l1.idx /\ l1'.present
  BY <1>1, <1>2, <1>3 DEF State
<1>6. \A b \in Agents : b # Human => starts'[b] = starts[b]
  BY <1>1, <1>3
<1>7. \A b \in Agents : Unstarted(b)' <=> Unstarted(b)
  BY <1>3, <1>6 DEF Unstarted
<1>8. SingleStart' /\ ~Advancing'
  BY <1>1, <1>3, <1>6 DEF StartInv, SingleStart, Advancing
<1>9. plan'.todo \union plan'.calls = {}
  BY <1>2, <1>4 DEF StartInv
<1> HIDE DEF Agents
<1>10. QED BY <1>1, <1>2, <1>3, <1>4, <1>5, <1>7, <1>8, <1>9 DEF StartInv

\* The position moves past an agent, recorded as completed or passed over.
LEMMA StartMovesOn ==
  ASSUME StartInv, l1.idx \in Nat, l1'.idx = l1.idx + 1, l1'.present = l1.present,
         pc \in {"loop", "decide"}, pc' \in {"merge", "transition", "next"},
         plan.calls = {}, pend \ {l1.idx + 1} \subseteq pend',
         UNCHANGED <<starts, crashes, board, marker, plan>>
  PROVE  StartInv'
<1>1. \A a : Unstarted(a)' <=> Unstarted(a)
  BY DEF Unstarted
<1>2. l1.present /\ board # "moved"
  BY DEF StartInv
<1>3. \A a \in Agents : a > l1.idx + 1 => Unstarted(a)
  BY <1>2 DEF StartInv
<1>4. \A a \in Agents : (a > l1'.idx => a > l1.idx + 1) /\ (a > l1'.idx + 1 \/ a = l1'.idx + 1 => a > l1.idx + 1)
  OBVIOUS
<1>5. SingleStart' /\ pc' # "assign"
  BY DEF StartInv, SingleStart
<1> HIDE DEF Agents
<1>6. QED BY <1>1, <1>2, <1>3, <1>4, <1>5 DEF StartInv

\* The pipeline leaves the status, or its state is dropped after a failed update.
LEMMA StartLeaves ==
  ASSUME Serial, NotRevisited, TypeOK, SerialInv, StartInv, Transition \/ TransitionFails
  PROVE  StartInv'
<1>1. pc = "transition" /\ UNCHANGED <<starts, crashes, marker, pend, plan, held>> /\ pc' = "outputs" /\ l1.present
  BY DEF Transition, TransitionFails, github, StartInv
<1>2. \A a : Unstarted(a)' <=> Unstarted(a)
  BY <1>1 DEF Unstarted
<1>3. CASE Transition
  <2>1. board' = "moved" /\ ~l1'.present
    BY <1>3 DEF Transition, Empty
  <2>2. QED BY <1>1, <1>2, <2>1 DEF StartInv, SingleStart, Advancing
<1>4. CASE TransitionFails /\ cur = 0
  <2>1. l1' = l1 /\ board' = board
    BY <1>4 DEF TransitionFails, github
  <2>2. QED BY <1>1, <2>1, StartGoesOn DEF Advancing
<1>5. CASE TransitionFails /\ cur # 0
  <2>1. ~l1'.present /\ board' = board /\ "board" \in Faults
    BY <1>5 DEF TransitionFails, Empty, github
  <2>2. l1.idx = N /\ \A b \in 1..l1.idx : b \in marker \union Excused
    BY <1>1 DEF SerialInv, SerialPc, ListState
  <2>3. \A b \in Agents : b \in Excused => b = Human /\ b # 0
    BY DEF Excused
  <2>4. NoSkip
    BY <2>1 DEF NotRevisited
  <2>5. Agents \subseteq marker
    BY <2>2, <2>3, <2>4 DEF NoSkip
  <2>6. QED BY <1>1, <1>2, <2>1, <2>5 DEF StartInv, SingleStart, Advancing
<1>6. QED BY <1>3, <1>4, <1>5

LEMMA StartStep ==
  ASSUME Serial, NotRevisited, TypeOK, SerialInv, StartInv, [Next]_vars
  PROVE  StartInv'
<1> USE DEF memory, github, frame
<1>1. l1 \in State /\ ListState(l1) /\ l1.idx \in Nat /\ board \in {"here", "moved"}
  BY DEF TypeOK, StoreType, GithubType, SerialInv, State
<1>2. CASE \/ \E a \in Agents : AgentFinishes(a) \/ DevopsRepairs(a)
           \/ HumanFinishes \/ GraceElapses \/ Persist \/ UNCHANGED vars
  <2>1. /\ UNCHANGED <<l1, starts, crashes, board, pend, plan, pc, held>> /\ marker \subseteq marker'
    BY <1>2 DEF AgentFinishes, DevopsRepairs, HumanFinishes, GraceElapses, Persist, vars
  <2>2. QED BY <2>1, StartGoesOn DEF StartInv, Advancing
<1>3. CASE \/ NoOutputs \/ MergeAndClaim \/ PostMarker \/ PostMarkerFails \/ TrackDone \/ DetectComplete \/ BeginLoop
           \/ EndLoop \/ SkipAgent
  <2>1. /\ UNCHANGED <<l1, starts, crashes, board, pend, plan, held>> /\ marker \subseteq marker'
        /\ pc \in {"outputs", "marker", "track", "check", "loop"}
        /\ pc' \in {"outputs", "marker", "track", "check", "loop", "transition"}
    BY <1>3 DEF NoOutputs, MergeAndClaim, PostMarker, PostMarkerFails, TrackDone, DetectComplete, BeginLoop, EndLoop,
       SkipAgent, Inspect
  <2>2. pc' \notin {"outputs", "check"} => l1.present
    BY <1>3 DEF NoOutputs, MergeAndClaim, OutputsDue, PostMarker, PostMarkerFails, TrackDone, DetectComplete, BeginLoop,
       EndLoop, SkipAgent, Inspect, StartInv
  <2>3. board # "moved"
    BY <1>3, <2>1 DEF NoOutputs, MergeAndClaim, PostMarker, PostMarkerFails, TrackDone, DetectComplete, BeginLoop,
       EndLoop, SkipAgent, Inspect, StartInv
  <2>4. QED BY <2>1, <2>2, <2>3, StartGoesOn DEF Advancing
<1>4. CASE MergePasses \/ Effects \/ AdvanceComplete \/ ParallelWait \/ DeferNext
  <2>1. /\ UNCHANGED <<l1, starts, crashes, board, pend, plan, held, marker>>
        /\ pc \in {"merge", "effects", "decide", "next"}
        /\ pc' \in {"effects", "decide", "transition", "loop"}
    BY <1>4 DEF MergePasses, Effects, AdvanceComplete, ParallelWait, DeferNext, Continue
  <2>2. QED BY <2>1, StartGoesOn DEF Advancing, StartInv
<1>16. CASE DeferMissing \/ AssignMissing
  <2>1. /\ UNCHANGED <<l1, starts, crashes, board, pend, held, marker>> /\ pc = "budget"
        /\ (pc' = "assign" /\ plan' = plan) \/ (pc' = "outputs" /\ plan' = NoPlan)
    BY <1>16 DEF DeferMissing, AssignMissing
  <2>2. QED BY <2>1, StartGoesOn DEF Advancing, StartInv
<1>5. CASE EndAssignNext \/ EndAssignMissing
  <2>1. /\ UNCHANGED <<starts, crashes, board, held, marker>> /\ plan' = NoPlan /\ pend \subseteq pend'
        /\ l1' = l1 \/ l1' = held
        /\ pc = "assign" /\ pc' \in {"loop", "outputs"}
    BY <1>5 DEF EndAssignNext, EndAssignMissing, Assigned
  <2>2. l1'.idx = l1.idx /\ l1.present /\ l1'.present = l1.present /\ board # "moved"
    <3>1. held.idx = l1.idx /\ held.present /\ l1.present /\ board # "moved"
      BY <2>1 DEF SerialInv, SerialPc, StartInv
    <3>2. held.present \in BOOLEAN /\ l1.present \in BOOLEAN
      BY DEF TypeOK, StoreType, State
    <3>3. QED BY <2>1, <3>1, <3>2
  <2>3. QED BY <2>1, <2>2, StartGoesOn DEF Advancing
<1>6. CASE EndAssignGroup
  BY <1>6 DEF EndAssignGroup, Assigned, SerialInv, SerialPc
<1>7. CASE MergeUnknown \/ MergeRetryLater \/ DispatchDevops \/ DevopsAlreadyActive \/ Halt
  <2>1. /\ pc = "merge" /\ UNCHANGED <<starts, crashes, board, pend, marker, plan>>
        /\ RollBack(l1.err) \/ RollBack("merge")
    BY <1>7 DEF MergeUnknown, MergeRetryLater, DispatchDevops, DevopsAlreadyActive, Halt, MergeExhausted
  <2>2. l1.err \in Errors /\ "merge" \in Errors
    BY <1>1 DEF State, Errors
  <2>3. QED BY <2>1, <2>2, StartRollBack
<1>8. CASE AdvanceBegin
  <2>1. current_agent(l1) = l1.idx + 1 /\ ~(l1.idx >= MaxDone)
    BY <1>1, <1>8, SerialView DEF AdvanceBegin
  <2>2. PICK d, g, i : l1' = [l1 EXCEPT !.done = d, !.idx = l1.idx + 1, !.gi = g, !.ai = i]
    BY <1>8, <2>1 DEF AdvanceBegin
  <2>3. l1'.idx = l1.idx + 1 /\ l1'.present = l1.present
    BY <1>1, <2>2 DEF State
  <2>4. /\ UNCHANGED <<starts, crashes, board, marker, plan>> /\ pend' = pend \ {l1.idx + 1}
        /\ pc = "loop" /\ pc' = "merge"
    BY <1>8, <2>1 DEF AdvanceBegin, Inspect
  <2>5. plan.calls = {}
    BY <2>4 DEF SerialInv, SerialPc
  <2>6. QED BY <1>1, <2>3, <2>4, <2>5, StartMovesOn
<1>9. CASE PassHuman
  <2>1. l1' = [l1 EXCEPT !.done = Append(@, Human), !.idx = @ + 1]
    BY <1>9 DEF PassHuman
  <2>2. l1'.idx = l1.idx + 1 /\ l1'.present = l1.present
    BY <1>1, <2>1 DEF State
  <2>3. /\ UNCHANGED <<starts, crashes, board, marker, plan, pend>>
        /\ pc = "decide" /\ pc' \in {"transition", "next"}
    BY <1>9 DEF PassHuman, Continue
  <2>4. plan.calls = {}
    BY <2>3 DEF SerialInv, SerialPc
  <2>5. QED BY <1>1, <2>2, <2>3, <2>4, StartMovesOn
<1>10. CASE AssignNext \/ LookAtMarker \/ ReadTable \/ AssignHuman
  BY <1>10, StartAssignNext, StartLook, StartReadTable, StartAssignHuman
<1>11. ASSUME NEW a \in Agents, CallAssign(a) \/ AssignSucceeds(a) \/ AssignFails(a) PROVE StartInv'
  BY <1>11, StartAssigned
<1>12. CASE Transition \/ TransitionFails
  BY <1>12, StartLeaves
<1>13. CASE ReconstructIfMissing \/ Reconstruct
  <2>1. PICK k \in 0..N :
          /\ IsMarkedPrefix(k)
          /\ \/ l1' = Rebuilt(k)
             \/ \E g \in 1..Len(Groups) + 1 :
                  l1' = [Rebuilt(k) EXCEPT !.grouped = TRUE, !.gi = g, !.ai = RebuiltOffset(g, k)]
    BY <1>13 DEF ReconstructIfMissing, Reconstruct
  <2>2. Rebuilt(k) \in State /\ Rebuilt(k).idx = k /\ Rebuilt(k).present
    <3>1. Rebuilt(k).idx = k /\ Rebuilt(k).present
      BY DEF Rebuilt, Empty
    <3>2. QED BY <3>1, RebuiltType
  <2>3. l1'.idx = k /\ l1'.present
    BY <2>1, <2>2 DEF State
  <2>4. /\ UNCHANGED <<starts, crashes, board, marker, pend, plan, held, pc>>
        /\ pc \in {"outputs", "check"} /\ ~l1.present /\ board = "here"
    BY <1>1, <1>13 DEF ReconstructIfMissing, Reconstruct, StartInv
  <2>5. QED BY <2>1, <2>3, <2>4, StartRebuilt
<1>14. CASE Crash
  BY <1>14, StartCrash
<1>15. QED
  <2>1. CASE Poll
    BY <2>1, <1>3, <1>4, <1>5, <1>6, <1>7, <1>8, <1>9, <1>10, <1>11, <1>12, <1>13, <1>16 DEF Poll
  <2>2. CASE Failure
    BY <2>2, <1>3, <1>4, <1>11, <1>12, <1>16 DEF Failure
  <2>3. CASE World
    BY <2>3, <1>2 DEF World
  <2>4. QED BY <2>1, <2>2, <2>3, <1>2, <1>14 DEF Next, Terminated

\* Serial pipelines keep the inductive invariant of the starts.
THEOREM SerialStarts == Serial /\ NotRevisited /\ Spec => [](TypeOK /\ SerialInv /\ StartInv)
<1> SUFFICES ASSUME Serial, NotRevisited PROVE Spec => [](TypeOK /\ SerialInv /\ StartInv)
  OBVIOUS
<1>1. Init => TypeOK /\ SerialInv /\ StartInv
  BY TypeInit, SerialInit, StartInit
<1>2. (TypeOK /\ SerialInv /\ StartInv) /\ [Next]_vars => (TypeOK /\ SerialInv /\ StartInv)'
  BY TypeStep, SerialStep, StartStep
<1>3. QED BY <1>1, <1>2, PTL DEF Spec

\* In a serial pipeline a Copilot session is started once for an agent, plus
\* once per restart at most, for any number of agents, failures and restarts.
THEOREM SerialSingleStart == Serial /\ NotRevisited /\ Spec => []SingleStart
<1>1. StartInv => SingleStart
  BY DEF StartInv
<1>2. QED BY <1>1, SerialStarts, PTL

\* In a serial pipeline the position is one: the groups and the list name the
\* same agent, and it is started once in each life of the process.
THEOREM SerialPosition == Serial /\ NotRevisited /\ Spec => []PositionIsOne
<1>1. ASSUME Serial, TypeOK, SerialInv, StartInv PROVE PositionIsOne
  <2>1. l1 \in State /\ ListState(l1)
    BY <1>1 DEF TypeOK, StoreType, SerialInv
  <2>2. GroupMatchesIndex
    BY <1>1, <2>1, SerialView DEF GroupMatchesIndex
  <2>3. QED BY <1>1, <2>2 DEF PositionIsOne, StartInv
<1> SUFFICES ASSUME Serial PROVE NotRevisited /\ Spec => []PositionIsOne
  OBVIOUS
<1>2. TypeOK /\ SerialInv /\ StartInv => PositionIsOne
  BY <1>1
<1>3. NotRevisited /\ Spec => [](TypeOK /\ SerialInv /\ StartInv)
  BY SerialStarts
<1>4. QED BY <1>2, <1>3, PTL

-----------------------------------------------------------------------------
(* The merges in one life of the process.  The pull requests before the    *)
(* position are merged or claimed, and stay so: an agent with its marker   *)
(* does not work again.                                                    *)
Settled(b) == child[b] # "open" \/ b \in claimed \union passed

ClaimInv ==
  /\ \A b \in 1..l1.idx : (pc = "merge" => b < cur) => Settled(b)
  /\ \A b \in marker : b # Human => work[b] # "busy"
  /\ pc \in {"marker", "track"} => work[current_agent(l1)] # "busy"
  /\ l1.present => \A a \in Agents : starts[a] > 0 => a <= l1.idx + 1 /\ (Advancing => a <= l1.idx)
  /\ ~l1.present => \A b \in Agents : Settled(b) /\ (b # Human => b \in marker)
  /\ ~l1.present /\ board = "here" => Agents \subseteq marker
  /\ Human # 0 => child[Human] = "none"
  /\ crashes = 0

LEMMA ClaimInit == Serial /\ Init => ClaimInv
<1> SUFFICES ASSUME Serial, Init PROVE ClaimInv
  OBVIOUS
<1>1. FirstAgents = {1}
  <2>1. Grouped => Groups[1].mode = "sequential"
    BY GroupShape DEF Serial
  <2>2. QED BY <2>1 DEF FirstAgents
<1>2. l1.idx = 0 /\ l1.present
  BY DEF Init, Empty
<1>3. QED BY <1>1, <1>2 DEF Init, ClaimInv, Settled, Advancing

\* A step that starts nobody, opens no pull request and leaves the position.
LEMMA ClaimGoesOn ==
  ASSUME ClaimInv, l1.idx \in 0..N, UNCHANGED <<starts, crashes, board>>, marker \subseteq marker',
         pc = "merge" => cur = l1.idx,
         l1'.idx = l1.idx, l1'.present = l1.present,
         \A b \in Agents : Settled(b) => Settled(b)',
         pc' = "merge" => pc = "merge" /\ cur' = cur,
         pc = "merge" /\ pc' # "merge" => \A b \in {cur} : Settled(b)',
         \A b \in marker' : b # Human => work'[b] # "busy",
         pc' \in {"marker", "track"} => work'[current_agent(l1)'] # "busy",
         Human # 0 => child'[Human] = "none",
         Advancing' => Advancing
  PROVE  ClaimInv'
<1>1. \A b \in 1..l1'.idx : (pc' = "merge" => b < cur') => Settled(b)'
  <2>1. SUFFICES ASSUME NEW b \in 1..l1.idx, pc' = "merge" => b < cur' PROVE Settled(b)'
    OBVIOUS
  <2>2. b \in Agents
    OBVIOUS
  <2>3. CASE pc = "merge" /\ pc' # "merge" /\ b = cur
    BY <2>3
  <2>4. CASE pc = "merge" => b < cur
    BY <2>2, <2>4 DEF ClaimInv
  <2>5. CASE pc = "merge" /\ pc' = "merge"
    BY <2>1, <2>4, <2>5
  <2>6. CASE pc = "merge" /\ pc' # "merge" /\ b # cur
    BY <2>4, <2>6
  <2>7. QED BY <2>3, <2>4, <2>5, <2>6
<1>2. /\ l1'.present => \A a \in Agents : starts'[a] > 0 => a <= l1'.idx + 1 /\ (Advancing' => a <= l1'.idx)
      /\ ~l1'.present => \A b \in Agents : Settled(b)' /\ (b # Human => b \in marker')
      /\ ~l1'.present /\ board' = "here" => Agents \subseteq marker'
  BY DEF ClaimInv
<1>3. QED BY <1>1, <1>2 DEF ClaimInv

\* An agent with its marker does not work; one that works is at the position or past it.
LEMMA ClaimFinishes ==
  ASSUME TypeOK, SerialInv, ClaimInv, NEW a \in Agents, AgentFinishes(a)
  PROVE  ClaimInv'
<1>1. /\ work[a] = "busy" /\ a # Human /\ work' = [work EXCEPT ![a] = "ready"]
      /\ marker' \in {marker, marker \union {a}}
      /\ UNCHANGED <<l1, pc, cur, starts, crashes, board, claimed, passed>>
  BY DEF AgentFinishes, memory, frame
<1>2. a \notin marker
  BY <1>1 DEF ClaimInv
<1>3. work \in [Agents -> {"idle", "busy", "ready"}] /\ marker \subseteq Agents
  BY DEF TypeOK, GithubType
<1>4. \A b \in Agents : work'[b] = IF b = a THEN "ready" ELSE work[b]
  BY <1>1, <1>3
<1>5. \A b \in Agents : b # a => child'[b] = child[b]
  BY DEF AgentFinishes, TypeOK, GithubType
<1>6. a \notin 1..l1.idx
  <2>1. a \notin Excused
    BY <1>1 DEF Excused
  <2>2. QED BY <1>2, <2>1 DEF SerialInv, ListState
<1>7. l1.present
  BY <1>1, <1>2 DEF ClaimInv
<1>8. \A b \in Agents : b # a => (Settled(b)' <=> Settled(b))
  BY <1>1, <1>5 DEF Settled
<1>9. \A b \in marker' : b # Human => work'[b] # "busy"
  BY <1>1, <1>3, <1>4 DEF ClaimInv
<1>10. pc \in {"marker", "track"} => work'[current_agent(l1)] # "busy"
  <2>1. l1 \in State
    BY DEF TypeOK, StoreType
  <2>2. pc \in {"marker", "track"} => current_agent(l1) \in Agents
    BY <2>1, CurrentAgentType DEF SerialInv, SerialPc
  <2>3. QED BY <1>4, <2>2 DEF ClaimInv
<1>11. Human # 0 => child'[Human] = "none"
  BY <1>1, <1>5 DEF ClaimInv
<1>12. l1.idx <= N /\ l1.idx \in Nat
  BY DEF SerialInv, ListState, TypeOK, StoreType, State
<1>13. \A b \in 1..l1.idx : b \in Agents /\ b # a
  BY <1>6, <1>12
<1> HIDE DEF Agents
<1>14. QED BY <1>1, <1>7, <1>8, <1>9, <1>10, <1>11, <1>13 DEF ClaimInv, Advancing

LEMMA ClaimRollBack ==
  ASSUME TypeOK, SerialInv, ClaimInv, StartInv, pc = "merge", NEW e \in Errors, RollBack(e),
         UNCHANGED <<starts, crashes, board, marker, work, child, claimed, passed>>
  PROVE  ClaimInv'
<1>1. l1 \in State /\ l1.idx \in Nat \ {0} /\ l1.idx <= N /\ cur = l1.idx
  BY DEF TypeOK, StoreType, Designated, SerialInv, SerialPc, ListState, State
<1>2. l1'.idx = l1.idx - 1 /\ l1'.present = l1.present /\ pc' = "loop"
  BY <1>1 DEF RollBack, State
<1>3. l1.present /\ Advancing /\ ~Advancing'
  BY <1>2 DEF StartInv, Advancing
<1>4. \A b : Settled(b)' <=> Settled(b)
  BY DEF Settled
<1>5. \A b \in 1..l1'.idx : Settled(b)'
  BY <1>1, <1>2, <1>4 DEF ClaimInv
<1>6. \A a \in Agents : starts'[a] > 0 => a <= l1'.idx + 1
  BY <1>1, <1>2, <1>3 DEF ClaimInv
<1>7. QED BY <1>2, <1>3, <1>5, <1>6 DEF ClaimInv

\* The position moves past an agent.
LEMMA ClaimMovesOn ==
  ASSUME ClaimInv, StartInv, l1.idx \in 0..N, l1'.idx = l1.idx + 1, l1'.present = l1.present,
         \/ pc = "loop" /\ pc' = "merge" /\ cur' = l1.idx + 1
         \/ pc = "decide" /\ pc' \in {"transition", "next"} /\ Human = l1.idx + 1,
         UNCHANGED <<starts, crashes, board, marker, work, child, claimed, passed>>
  PROVE  ClaimInv'
<1>1. \A b : Settled(b)' <=> Settled(b)
  BY DEF Settled
<1>2. l1.present
  BY DEF StartInv
<1>3. \A b \in 1..l1.idx : Settled(b)
  BY DEF ClaimInv
<1>4. \A b \in 1..l1'.idx : (pc' = "merge" => b < cur') => Settled(b)'
  <2>1. Human # 0 => Settled(Human)
    BY DEF ClaimInv, Settled
  <2>2. SUFFICES ASSUME NEW b \in 1..l1.idx + 1, pc' = "merge" => b < cur' PROVE Settled(b)
    BY <1>1
  <2>3. CASE b = l1.idx + 1
    BY <2>1, <2>2, <2>3
  <2>4. CASE b # l1.idx + 1
    BY <1>3, <2>4
  <2>5. QED BY <2>3, <2>4
<1>5. \A a \in Agents : starts'[a] > 0 => a <= l1'.idx + 1 /\ a <= l1'.idx
  <2>1. SUFFICES ASSUME NEW a \in Agents, starts[a] > 0 PROVE a <= l1.idx + 1 + 1 /\ a <= l1.idx + 1
    OBVIOUS
  <2>2. a <= l1.idx + 1
    BY <1>2, <2>1 DEF ClaimInv
  <2>3. QED BY <2>2
<1>6. QED BY <1>2, <1>4, <1>5 DEF ClaimInv

\* Who is started anew was not started before, and has no marker.
LEMMA ClaimStarts ==
  ASSUME TypeOK, SerialInv, StartInv, ClaimInv, NEW a \in Agents,
         \/ AssignSucceeds(a)
         \/ AssignHuman /\ a = Human
  PROVE  ClaimInv'
<1>1. /\ starts \in [Agents -> Nat] /\ work \in [Agents -> {"idle", "busy", "ready"}] /\ l1 \in State
      /\ a \in plan.todo \union plan.calls /\ pc = "assign" /\ pc' = "assign"
      /\ starts' = [starts EXCEPT ![a] = @ + 1] /\ work' = [work EXCEPT ![a] = "busy"]
      /\ UNCHANGED <<crashes, board, marker, child, claimed, passed, cur>>
  BY DEF TypeOK, GithubType, StoreType, AssignSucceeds, AssignHuman, StartSession
<1>2. a = l1.idx + 1 /\ l1.present /\ l1.idx \in Nat
  BY <1>1 DEF SerialInv, SerialPc, StartInv, State
<1>3. l1'.idx = l1.idx /\ l1'.present
  <2>1. CASE AssignHuman /\ a = Human
    BY <1>1, <1>2, <2>1 DEF AssignHuman, State
  <2>2. CASE AssignSucceeds(a) /\ ParallelNow(l1)
    BY <1>1, <1>2, <2>2 DEF AssignSucceeds, AssignedState, State
  <2>3. CASE AssignSucceeds(a) /\ ~ParallelNow(l1)
    BY <1>1, <1>2, <2>3 DEF AssignSucceeds, AssignedState, State
  <2>4. QED BY <2>1, <2>2, <2>3
<1>4. a # Human => a \notin marker
  <2>1. ASSUME a # Human PROVE starts[a] = 0
    <3>1. starts[a] <= crashes /\ crashes = 0 /\ starts[a] \in Nat
      BY <1>1, <2>1 DEF StartInv, Unstarted, ClaimInv
    <3>2. QED BY <3>1
  <2>2. QED BY <2>1 DEF SerialInv, SessionInv
<1>5. \A b \in marker : b # Human => work'[b] # "busy"
  <2>1. marker \subseteq Agents
    BY DEF TypeOK, GithubType
  <2>2. \A b \in Agents : b # a => work'[b] = work[b]
    BY <1>1
  <2>3. QED BY <1>4, <2>1, <2>2 DEF ClaimInv
<1>6. \A b \in Agents : starts'[b] > 0 => b <= l1.idx + 1
  <2>1. \A b \in Agents : b # a => starts'[b] = starts[b]
    BY <1>1
  <2>2. QED BY <1>2, <2>1 DEF ClaimInv
<1>7. ~Advancing' /\ pc # "merge" /\ \A b : Settled(b)' <=> Settled(b)
  BY <1>1 DEF Advancing, Settled
<1> HIDE DEF Agents
<1>8. QED BY <1>1, <1>2, <1>3, <1>5, <1>6, <1>7 DEF ClaimInv

LEMMA ClaimLeaves ==
  ASSUME NotRevisited, TypeOK, SerialInv, StartInv, ClaimInv, Transition \/ TransitionFails, ~l1'.present
  PROVE  ClaimInv'
<1>1. /\ pc = "transition" /\ pc' = "outputs"
      /\ UNCHANGED <<starts, crashes, marker, work, child, claimed, passed>> /\ l1' = Empty
      /\ board' = "moved" \/ "board" \in Faults
  BY DEF Transition, TransitionFails, github, StartInv
<1>2. l1.idx = N /\ (\A b \in 1..l1.idx : b \in marker \union Excused) /\ l1'.idx = 0
  BY <1>1 DEF SerialInv, SerialPc, ListState, Empty
<1>3. \A b \in Agents : b \in Excused => b = Human /\ b # 0
  BY DEF Excused
<1>4. \A b \in Agents : Settled(b)' /\ (b # Human => b \in marker)
  <2>1. \A b : Settled(b)' <=> Settled(b)
    BY <1>1 DEF Settled
  <2>2. QED BY <1>1, <1>2, <1>3, <2>1 DEF ClaimInv
<1>5. board' = "here" => Agents \subseteq marker
  BY <1>1, <1>2, <1>3 DEF NotRevisited, NoSkip
<1>6. QED BY <1>1, <1>2, <1>4, <1>5 DEF ClaimInv

\* A state built again is complete.
LEMMA ClaimRebuilt ==
  ASSUME ClaimInv, NEW k \in 0..N, IsMarkedPrefix(k), ~l1.present, board = "here",
         l1'.idx = k, l1'.present, pc \in {"outputs", "check"}, pc' = pc, claimed \subseteq claimed',
         UNCHANGED <<starts, crashes, board, marker, work, child, passed>>
  PROVE  ClaimInv'
<1>1. Agents \subseteq marker
  BY DEF ClaimInv
<1>2. k = N
  BY <1>1 DEF IsMarkedPrefix
<1>3. \A b \in Agents : Settled(b)'
  BY DEF ClaimInv, Settled
<1>4. (\A b \in 1..k : b \in Agents) /\ (\A a \in Agents : a <= k + 1) /\ ~Advancing'
  BY <1>2 DEF Advancing
<1>5. QED BY <1>3, <1>4 DEF ClaimInv

\* The restarts are counted.
LEMMA CrashesCount ==
  ASSUME [Next]_vars
  PROVE  crashes' = crashes \/ crashes' = crashes + 1
BY DEF Next, Poll, Failure, World, Crash, Terminated, vars, ReconstructIfMissing, NoOutputs, MergeAndClaim,
   PostMarker, PostMarkerFails, TrackDone, Reconstruct, DetectComplete, BeginLoop, EndLoop, SkipAgent, AdvanceBegin,
   MergePasses, MergeUnknown, MergeRetryLater, DispatchDevops, DevopsAlreadyActive, Halt, Effects,
   AdvanceComplete, ParallelWait, PassHuman, AssignNext, DeferNext, LookAtMarker, ReadTable, DeferMissing, AssignMissing,
   CallAssign, AssignSucceeds, AssignFails, AssignHuman, EndAssignNext, EndAssignGroup, EndAssignMissing, Transition,
   TransitionFails, AgentFinishes, HumanFinishes, DevopsRepairs, GraceElapses, Persist

LEMMA ClaimStep ==
  ASSUME Serial, NotRevisited, crashes' = 0, TypeOK, SerialInv, StartInv, ClaimInv, [Next]_vars
  PROVE  ClaimInv'
<1> USE DEF memory, github, frame
<1>1. /\ l1 \in State /\ held \in State /\ ListState(l1) /\ l1.idx \in Nat /\ l1.idx \in 0..N
      /\ marker \subseteq Agents /\ claimed \subseteq Agents
      /\ child \in [Agents -> {"none", "open", "merged"}] /\ work \in [Agents -> {"idle", "busy", "ready"}]
  <2>1. /\ l1 \in State /\ held \in State /\ marker \subseteq Agents /\ claimed \subseteq Agents
        /\ child \in [Agents -> {"none", "open", "merged"}] /\ work \in [Agents -> {"idle", "busy", "ready"}]
    BY DEF TypeOK, StoreType, GithubType, MemoryType
  <2>2. ListState(l1) /\ l1.idx \in Nat
    BY <2>1 DEF SerialInv, State
  <2>3. l1.idx \in 0..N
    BY <2>2, SizeAssumption DEF ListState
  <2>4. QED BY <2>1, <2>2, <2>3
<1>2. (pc = "merge" => cur = l1.idx) /\ (pc = "assign" => held.idx = l1.idx)
  BY DEF SerialInv, SerialPc
<1>3. CASE \/ NoOutputs \/ PostMarkerFails \/ TrackDone \/ DetectComplete \/ BeginLoop \/ EndLoop \/ SkipAgent
           \/ LookAtMarker \/ ReadTable \/ DeferMissing \/ Effects \/ AdvanceComplete \/ ParallelWait \/ DeferNext \/ AssignNext
           \/ AssignMissing \/ EndAssignNext \/ GraceElapses \/ Persist \/ UNCHANGED vars
           \/ \E a \in Agents : DevopsRepairs(a) \/ CallAssign(a)
  <2>1. /\ UNCHANGED <<l1, starts, crashes, board, child, claimed, passed, marker, work>>
        /\ pc' = pc \/ pc' \in {"outputs", "check", "loop", "table", "budget", "assign", "transition"}
                    \/ (pc = "marker" /\ pc' = "check") \/ (pc = "effects" /\ pc' = "decide")
        /\ pc = "merge" => pc' = pc /\ cur' = cur
    BY <1>3 DEF NoOutputs, PostMarkerFails, TrackDone, DetectComplete, BeginLoop, EndLoop, SkipAgent, LookAtMarker, ReadTable,
       Effects, AdvanceComplete, ParallelWait, DeferNext, AssignNext, DeferMissing, AssignMissing, EndAssignNext, GraceElapses,
       Persist, DevopsRepairs, CallAssign, vars, Inspect, Continue, Assigned
  <2>2. current_agent(l1)' = current_agent(l1) /\ \A b : Settled(b)' <=> Settled(b)
    BY <2>1 DEF Settled, current_agent, InGroup
  <2>3. pc' \in {"marker", "track"} => work'[current_agent(l1)'] # "busy"
    BY <2>1, <2>2 DEF ClaimInv
  <2>4. /\ \A b \in marker' : b # Human => work'[b] # "busy"
        /\ Human # 0 => child'[Human] = "none"
    BY <2>1 DEF ClaimInv
  <2>5. (pc' = "merge" => pc = "merge" /\ cur' = cur) /\ (Advancing' => Advancing)
    BY <2>1 DEF Advancing
  <2>6. QED BY <1>1, <1>2, <2>1, <2>2, <2>3, <2>4, <2>5, ClaimGoesOn
<1>4. CASE HumanFinishes
  <2>1. /\ UNCHANGED <<l1, starts, crashes, board, child, claimed, passed, pc, cur>>
        /\ marker' = marker \union {Human} /\ work' = [work EXCEPT ![Human] = "ready"]
    BY <1>4 DEF HumanFinishes
  <2>2. current_agent(l1)' = current_agent(l1) /\ (\A b : Settled(b)' <=> Settled(b)) /\ (Advancing' <=> Advancing)
    BY <2>1 DEF Settled, current_agent, InGroup, Advancing
  <2>3. \A b \in marker' : b # Human => work'[b] # "busy"
    <3>1. ASSUME NEW b \in marker, b # Human PROVE work'[b] = work[b]
      BY <1>1, <2>1, <3>1
    <3>2. QED BY <2>1, <3>1 DEF ClaimInv
  <2>4. pc \in {"marker", "track"} => work'[current_agent(l1)] # "busy"
    <3>1. pc \in {"marker", "track"} => current_agent(l1) \in Agents
      BY <1>1, CurrentAgentType DEF SerialInv, SerialPc
    <3>2. \A b \in Agents : work'[b] = work[b] \/ work'[b] = "ready"
      BY <1>1, <2>1
    <3>3. QED BY <3>1, <3>2 DEF ClaimInv
  <2>5. Human # 0 => child'[Human] = "none"
    BY <2>1 DEF ClaimInv
  <2>6. QED BY <1>1, <1>2, <2>1, <2>2, <2>3, <2>4, <2>5, ClaimGoesOn
<1>5. CASE MergeAndClaim
  <2> DEFINE c == current_agent(l1)
  <2>1. /\ UNCHANGED <<l1, starts, crashes, board, marker, work, passed>> /\ pc = "outputs" /\ pc' = "marker"
        /\ work[c] = "ready" /\ c # Human
        /\ child' = child \/ child' = Merged(c)
        /\ claimed \subseteq claimed'
    BY <1>5 DEF MergeAndClaim, OutputsDue
  <2>2. current_agent(l1)' = current_agent(l1) /\ ~Advancing'
    BY <2>1 DEF current_agent, InGroup, Advancing
  <2>3. \A b \in Agents : child'[b] = child[b] \/ child'[b] = "merged"
    BY <1>1, <2>1 DEF Merged
  <2>4. \A b \in Agents : Settled(b) => Settled(b)'
    BY <2>1, <2>3 DEF Settled
  <2>5. Human # 0 => child'[Human] = "none"
    <3>1. ASSUME Human # 0 PROVE child'[Human] = child[Human]
      BY <1>1, <2>1, <3>1 DEF Merged
    <3>2. QED BY <3>1 DEF ClaimInv
  <2>6. \A b \in marker' : b # Human => work'[b] # "busy"
    BY <2>1 DEF ClaimInv
  <2> HIDE DEF c
  <2>7. work'[current_agent(l1)'] # "busy"
    BY <2>1, <2>2 DEF c
  <2>8. QED BY <1>1, <1>2, <2>1, <2>2, <2>4, <2>5, <2>6, <2>7, ClaimGoesOn
<1>6. CASE PostMarker
  <2>1. /\ UNCHANGED <<l1, starts, crashes, board, child, claimed, passed, work>> /\ pc = "marker" /\ pc' = "track"
        /\ marker' = marker \union {current_agent(l1)}
    BY <1>6 DEF PostMarker
  <2>2. current_agent(l1)' = current_agent(l1) /\ (\A b : Settled(b)' <=> Settled(b)) /\ ~Advancing'
    BY <2>1 DEF Settled, current_agent, InGroup, Advancing
  <2>3. work'[current_agent(l1)'] # "busy"
    BY <2>1, <2>2 DEF ClaimInv
  <2>4. (\A b \in marker' : b # Human => work'[b] # "busy") /\ (Human # 0 => child'[Human] = "none")
    BY <2>1, <2>2, <2>3 DEF ClaimInv
  <2>5. QED BY <1>1, <1>2, <2>1, <2>2, <2>3, <2>4, ClaimGoesOn
<1>7. CASE MergePasses
  <2>1. /\ UNCHANGED <<l1, starts, crashes, board, marker, work, cur>> /\ pc = "merge" /\ pc' = "effects"
        /\ child' = child \/ child' = Merged(cur)
        /\ claimed \subseteq claimed' /\ passed \subseteq passed'
        /\ cur \in claimed' \union passed' \/ (child' = child /\ child[cur] # "open")
    BY <1>7 DEF MergePasses, MergeLands, NoChildFound
  <2>2. \A b \in Agents : child'[b] = child[b] \/ (child[b] = "open" /\ child'[b] = "merged")
    BY <1>1, <2>1 DEF Merged
  <2>3. (\A b \in Agents : Settled(b) => Settled(b)') /\ Settled(cur)'
    BY <2>1, <2>2 DEF Settled
  <2>4. Human # 0 => child'[Human] = "none"
    <3>1. ASSUME Human # 0 PROVE Human \in Agents
      BY <3>1, HumanAssumption
    <3>2. QED BY <2>2, <3>1 DEF ClaimInv
  <2>5. (\A b \in marker' : b # Human => work'[b] # "busy") /\ (Advancing' => Advancing)
    BY <2>1 DEF ClaimInv, Advancing
  <2>6. QED BY <1>1, <1>2, <2>1, <2>3, <2>4, <2>5, ClaimGoesOn
<1>8. CASE (\E a \in Agents : AssignFails(a)) \/ EndAssignMissing
  <2>1. /\ UNCHANGED <<starts, crashes, board, marker, work, child, claimed, passed>> /\ pc = "assign"
        /\ pc' \in {"assign", "outputs"}
    BY <1>8 DEF AssignFails, EndAssignMissing, Assigned
  <2>2. l1'.idx = l1.idx /\ l1'.present = l1.present
    <3>1. held.present /\ l1.present /\ held.idx = l1.idx
      BY <1>2, <2>1 DEF StartInv
    <3>2. held.present \in BOOLEAN /\ l1.present \in BOOLEAN
      BY <1>1 DEF State
    <3>3. ASSUME NEW a \in Agents, AssignFails(a) PROVE l1'.idx = l1.idx /\ l1'.present
      <4>1. a = l1.idx + 1
        BY <3>3 DEF AssignFails, SerialInv, SerialPc
      <4>2. l1' = [l1 EXCEPT !.present = TRUE, !.done = First(a - 1), !.idx = a - 1, !.err = "assign"]
        BY <1>1, <3>3, SerialView DEF AssignFails, AssignedState
      <4>3. QED BY <1>1, <4>1, <4>2 DEF State
    <3>4. CASE EndAssignMissing
      <4>1. l1' = l1 \/ l1' = held
        BY <3>4 DEF EndAssignMissing
      <4>2. QED BY <3>1, <3>2, <4>1
    <3>5. CASE \E a \in Agents : AssignFails(a)
      <4>1. l1'.idx = l1.idx /\ l1'.present
        BY <3>3, <3>5
      <4>2. l1' \in State
        BY TypeStep DEF TypeOK, StoreType
      <4>3. l1'.present \in BOOLEAN
        BY <4>2 DEF State
      <4>4. QED BY <3>1, <3>2, <4>1, <4>3
    <3>6. QED BY <1>8, <3>4, <3>5
  <2>3. (\A b : Settled(b)' <=> Settled(b)) /\ ~Advancing'
    BY <2>1 DEF Settled, Advancing
  <2>4. (\A b \in marker' : b # Human => work'[b] # "busy") /\ (Human # 0 => child'[Human] = "none")
    BY <2>1 DEF ClaimInv
  <2>5. QED BY <1>1, <1>2, <2>1, <2>2, <2>3, <2>4, ClaimGoesOn
<1>9. CASE MergeUnknown \/ MergeRetryLater \/ DispatchDevops \/ DevopsAlreadyActive \/ Halt
  <2>1. /\ pc = "merge" /\ UNCHANGED <<starts, crashes, board, marker, work, child, claimed, passed>>
        /\ RollBack(l1.err) \/ RollBack("merge")
    BY <1>9 DEF MergeUnknown, MergeRetryLater, DispatchDevops, DevopsAlreadyActive, Halt, MergeExhausted
  <2>2. l1.err \in Errors /\ "merge" \in Errors
    BY <1>1 DEF State, Errors
  <2>3. QED BY <2>1, <2>2, ClaimRollBack
<1>10. CASE AdvanceBegin
  <2>1. current_agent(l1) = l1.idx + 1 /\ ~(l1.idx >= MaxDone)
    <3>1. current_agent(l1) = (IF l1.idx < N THEN l1.idx + 1 ELSE 0) /\ current_agent(l1) # 0
      BY <1>1, <1>10, SerialView DEF AdvanceBegin
    <3>2. QED BY <1>1, <3>1, SizeAssumption, BoundAssumption
  <2>2. PICK d, g, i : l1' = [l1 EXCEPT !.done = d, !.idx = l1.idx + 1, !.gi = g, !.ai = i]
    BY <1>10, <2>1 DEF AdvanceBegin
  <2>3. l1'.idx = l1.idx + 1 /\ l1'.present = l1.present
    BY <1>1, <2>2 DEF State
  <2>4. /\ UNCHANGED <<starts, crashes, board, marker, work, child, claimed, passed>> /\ cur' = l1.idx + 1
        /\ pc = "loop" /\ pc' = "merge"
    BY <1>10, <2>1 DEF AdvanceBegin, Inspect
  <2>5. QED BY <1>1, <2>3, <2>4, ClaimMovesOn
<1>11. CASE PassHuman
  <2>1. l1' = [l1 EXCEPT !.done = Append(@, Human), !.idx = @ + 1]
    BY <1>11 DEF PassHuman
  <2>2. l1'.idx = l1.idx + 1 /\ l1'.present = l1.present
    BY <1>1, <2>1 DEF State
  <2>3. /\ UNCHANGED <<starts, crashes, board, marker, work, child, claimed, passed>>
        /\ pc = "decide" /\ pc' \in {"transition", "next"} /\ Human = current_agent(l1) /\ Human # 0
    BY <1>11 DEF PassHuman, PassesHuman, Continue
  <2>4. Human = l1.idx + 1
    BY <1>1, <2>3, SerialView
  <2>5. QED BY <1>1, <2>2, <2>3, <2>4, ClaimMovesOn
<1>12. ASSUME NEW a \in Agents, AssignSucceeds(a) \/ AgentFinishes(a) PROVE ClaimInv'
  BY <1>12, ClaimStarts, ClaimFinishes
<1>13. CASE AssignHuman
  <2>1. Human \in Agents
    BY <1>13 DEF AssignHuman, TypeOK, FrameType, PlanType
  <2>2. QED BY <1>13, <2>1, ClaimStarts
<1>14. CASE Transition \/ TransitionFails
  <2>1. CASE TransitionFails /\ cur = 0
    <3>1. UNCHANGED <<l1, starts, crashes, board, marker, work, child, claimed, passed>> /\ pc = "transition" /\ pc' = "outputs"
      BY <2>1 DEF TransitionFails
    <3>2. (\A b : Settled(b)' <=> Settled(b)) /\ ~Advancing'
      BY <3>1 DEF Settled, Advancing
    <3>3. (\A b \in marker' : b # Human => work'[b] # "busy") /\ (Human # 0 => child'[Human] = "none")
      BY <3>1 DEF ClaimInv
    <3>4. QED BY <1>1, <1>2, <3>1, <3>2, <3>3, ClaimGoesOn
  <2>2. CASE Transition \/ cur # 0
    <3>1. ~l1'.present
      BY <1>14, <2>2 DEF Transition, TransitionFails, Empty
    <3>2. QED BY <1>14, <3>1, ClaimLeaves
  <2>3. QED BY <1>14, <2>1, <2>2
<1>15. CASE ReconstructIfMissing \/ Reconstruct
  <2>1. PICK k \in 0..N :
          /\ IsMarkedPrefix(k)
          /\ \/ l1' = Rebuilt(k)
             \/ \E g \in 1..Len(Groups) + 1 :
                  l1' = [Rebuilt(k) EXCEPT !.grouped = TRUE, !.gi = g, !.ai = RebuiltOffset(g, k)]
    BY <1>15 DEF ReconstructIfMissing, Reconstruct
  <2>2. Rebuilt(k) \in State /\ Rebuilt(k).idx = k /\ Rebuilt(k).present
    <3>1. Rebuilt(k).idx = k /\ Rebuilt(k).present
      BY DEF Rebuilt, Empty
    <3>2. QED BY <3>1, RebuiltType
  <2>3. l1'.idx = k /\ l1'.present
    BY <2>1, <2>2 DEF State
  <2>4. /\ UNCHANGED <<starts, crashes, board, marker, work, child, passed, pc>> /\ claimed \subseteq claimed'
        /\ pc \in {"outputs", "check"} /\ ~l1.present
    BY <1>15 DEF ReconstructIfMissing, Reconstruct
  <2>5. board = "here"
    BY <1>15, <2>4 DEF ReconstructIfMissing, Reconstruct, StartInv, TypeOK, GithubType
  <2>6. QED BY <2>1, <2>3, <2>4, <2>5, ClaimRebuilt
<1>16. ~EndAssignGroup /\ ~Crash
  <2>1. ~EndAssignGroup
    BY DEF EndAssignGroup, Assigned, SerialInv, SerialPc
  <2>2. ~Crash
    <3>1. crashes \in Nat
      BY DEF TypeOK, FrameType
    <3>2. QED BY <3>1 DEF Crash
  <2>3. QED BY <2>1, <2>2
<1>17. QED
  <2>1. CASE Poll
    BY <2>1, <1>3, <1>5, <1>6, <1>7, <1>8, <1>9, <1>10, <1>11, <1>12, <1>13, <1>14, <1>15, <1>16 DEF Poll
  <2>2. CASE Failure
    BY <2>2, <1>3, <1>8, <1>14 DEF Failure
  <2>3. CASE World
    BY <2>3, <1>3, <1>4, <1>12 DEF World
  <2>4. QED BY <2>1, <2>2, <2>3, <1>3, <1>16 DEF Next, Terminated

\* In one life of the process of a serial pipeline, an agent is started over
\* the open child PR of an earlier one only when Step 0 claimed that PR or the
\* safety net could not read it.
THEOREM SerialClaims == Serial /\ NotRevisited /\ Spec => []OpenPredecessorsClaimed
<1> SUFFICES ASSUME Serial, NotRevisited PROVE Spec => []OpenPredecessorsClaimed
  OBVIOUS
<1> DEFINE Claims == crashes = 0 => ClaimInv
<1>1. TypeOK /\ SerialInv /\ StartInv /\ Claims => OpenPredecessorsClaimed
  <2> SUFFICES ASSUME TypeOK, SerialInv, ClaimInv, NEW a \in Agents, NEW b \in Agents, b < a, starts[a] > 0
               PROVE  Settled(b)
    BY DEF OpenPredecessorsClaimed, Settled
  <2>1. l1.idx \in Nat /\ (pc = "merge" => cur = l1.idx)
    BY DEF TypeOK, StoreType, State, SerialInv, SerialPc
  <2>2. CASE l1.present
    <3>1. a <= l1.idx + 1 /\ (pc = "merge" => a <= l1.idx)
      BY <2>2 DEF ClaimInv, Advancing
    <3>2. b \in 1..l1.idx /\ (pc = "merge" => b < cur)
      BY <2>1, <3>1
    <3>3. QED BY <3>2 DEF ClaimInv
  <2>3. QED BY <2>2 DEF ClaimInv
<1>2. Init => TypeOK /\ SerialInv /\ StartInv /\ Claims
  BY TypeInit, SerialInit, StartInit, ClaimInit
<1>3. TypeOK /\ SerialInv /\ StartInv /\ Claims /\ [Next]_vars => Claims'
  <2> SUFFICES ASSUME TypeOK, SerialInv, StartInv, Claims, [Next]_vars, crashes' = 0 PROVE ClaimInv'
    OBVIOUS
  <2>1. crashes = 0
    <3>1. crashes \in Nat
      BY DEF TypeOK, FrameType
    <3>2. crashes' = crashes \/ crashes' = crashes + 1
      BY CrashesCount
    <3>3. QED BY <3>1, <3>2
  <2>2. QED BY <2>1, ClaimStep
<1>4. (TypeOK /\ SerialInv /\ StartInv /\ Claims) /\ [Next]_vars => (TypeOK /\ SerialInv /\ StartInv /\ Claims)'
  BY <1>3, TypeStep, SerialStep, StartStep
<1> HIDE DEF Claims
<1>5. QED BY <1>1, <1>2, <1>4, PTL DEF Spec

=============================================================================
