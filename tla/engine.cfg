SPECIFICATION Spec
CONSTANTS
  i1 = i1
  i2 = i2
  i3 = i3
  Issues <- IssueSet
  Prereqs <- Prerequisites
  FirstColumn <- Columns
  Ungated = {}
  Absent = Absent
  MaxSettings = 1
  Plans <- PlanSet
  MaxMoves = 3
  RecAgents = 3
  HumanSteps = {3}
  MaxRetries = 2
  Cooldown = 3
  Grace = 2
  MaxFaults = 2
  Callers = {c1, c2}
  StaleAfter = 2
  GuardFaults = 2
  TableSize = 3
  HumanStep = 2
  Retries = {h1}
  TableFaults = 2
INVARIANTS FlowKeepsOrder GuardExcludes ShownIsDone
PROPERTIES QueueKeepsOrder RecoveryInOrder EngineMovesOn
CHECK_DEADLOCK FALSE
