CONSTANTS
  N = 3
  Groups <- SequentialGroups
  Human = 2
  HumanDelay = FALSE
  AutoMerge = FALSE
  MaxMergeRetries = 2
  MaxDevops = 1
  Faults = {"assign", "tracking", "board", "conflict", "defer"}
  MaxCrashes = 1
  MaxDone = 3
SPECIFICATION Spec
INVARIANTS PositionIsOne
PROPERTIES ImplementsContract
