CONSTANTS
  N = 3
  Groups <- ParallelSecond
  Human = 0
  HumanDelay = FALSE
  AutoMerge = FALSE
  MaxMergeRetries = 2
  MaxDevops = 1
  Faults = {"board", "conflict", "defer"}
  MaxCrashes = 0
  MaxDone = 5
SPECIFICATION Spec
PROPERTIES ImplementsContract
