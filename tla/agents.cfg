SPECIFICATION Spec
CONSTANTS
  Launches = {l1, l2}
  Followed = {l1}
  Pipelines = {pa, pb}
  LaunchFaults = 1
  MaxAgents = 3
  FaultBudget = 2
  EarlierRequests = {0, 1}
  ReviewBuffer = 1
  ReviewFaults = 2
  MaxPhases = 2
  PlanPolls = 2
  PlanFaults = 2
INVARIANTS LaunchIsOnce CreditIsTrue ReviewWasAskedFor AppFollowsPlan
PROPERTIES WorkIsSettled
CHECK_DEADLOCK FALSE
