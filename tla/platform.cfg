SPECIFICATION Spec
CONSTANTS
  Projects = {p1, p2}
  Selected = {p1}
  Fallback = p2
  AppProjects = {p2}
  Slots = {s1, s2}
  MaxStops = 1
  Readers = {r1, r2}
  BoardChanges = 2
  Quota = 6
  StepCost = 1
  Others = 2
INVARIANTS LoopIsSole BoardShowsNews PollingLeavesReserve
PROPERTIES PollingGoesOn
CHECK_DEADLOCK FALSE
