CONSTANTS
  N = 3
  Groups <- Flat
  Human = 0
  HumanDelay = FALSE
  AutoMerge = FALSE
  MaxMergeRetries = 2
  MaxDevops = 1
  Faults = {"conflict"}
  MaxCrashes = 0
  MaxDone = 3
SPECIFICATION Spec
INVARIANT PredecessorsMerged
